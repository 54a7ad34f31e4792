SPECIFICATION Spec
CONSTANTS
  Thread = {t1, t2}
  t1 = t1
  t2 = t2
  Name = {"STOP"}
  Kind = {"cmd", "cmd_raw", "get_events", "clear_events", "clear_event"}
  MaxCalls = 3
  MaxEvents = 2
  MaxStalls = 1
INVARIANTS
  TypeOK
  RightAnswer
  RawAnswer
  NoEventLost
  LockGivenBack
PROPERTIES
  NoStaleEvent
  CallsEnd
CHECK_DEADLOCK FALSE
