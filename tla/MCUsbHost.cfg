SPECIFICATION UsbFairSpec
CONSTANTS
  kbd = kbd
  mouse = mouse
  stick = stick
  Nothing = Nothing
  Shorted = Shorted
  NumDevices = 3
  Devices <- MCDevices
  Driver <- MCDriver
  LowSpeed <- MCLowSpeed
  Flaky <- MCFlaky
INVARIANTS
  UsbTypeOK
  TableIsFilledWhereFollowed
  PollsTheBoundDevice
  RequestsFollowTheReset
PROPERTIES
  ImplementsPhases
  EveryChangeIsServed
