SPECIFICATION Spec
CONSTANTS
  Replies = {r1, r2}
  NoReply = NoReply
  UserData = {1}
  Frames <- ModeFrames
  Calls = {"AT_AT", "CIPHEAD"}
  BusyCalls = {"CIPHEAD"}
  NestedCalls = {}
  ReuseReply = FALSE
  MidPayload = FALSE
  Ticking = TRUE
  Timeout = 1
  MaxTime = 3
  ByteMod = 4
PROPERTIES RefusalHarmless
