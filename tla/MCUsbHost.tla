----------------------------- MODULE MCUsbHost -----------------------------
(* A low-speed keyboard, a full-speed mouse to which transfers fail now    *)
(* and then, a full-speed memory stick that no driver takes, and a table   *)
(* of two addresses, which three of them in a row exhaust.                 *)
EXTENDS UsbHost

CONSTANTS kbd, mouse, stick

MCDevices == {kbd, mouse, stick}
MCDriver == [d \in MCDevices |-> IF d = kbd THEN HID_K ELSE IF d = mouse THEN HID_M ELSE 0]
MCLowSpeed == {kbd}
MCFlaky == {mouse}

=============================================================================
