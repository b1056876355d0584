------------------------------- MODULE MCXfer -------------------------------
(* A keyboard with reports of a packet, and a mouse whose reports fill its *)
(* packets but not a poll.  The requests ask for the first 8 bytes of a    *)
(* descriptor, and for more than there is: the answer then ends with a     *)
(* packet that is short or empty.                                          *)
EXTENDS Xfer

Keyboard == [max |-> 8, size |-> 8]
Mouse == [max |-> 4, size |-> 4]

MCEndpoints == {Keyboard, Mouse}
MCMouse == {Mouse}
MCAsks == {[asked |-> 8, sent |-> 8], [asked |-> 18, sent |-> 12], [asked |-> 18, sent |-> 16]}

=============================================================================
