SPECIFICATION Spec
CONSTANTS
  Replies = {r1, r2}
  NoReply = NoReply
  UserData = {1}
  Frames <- ModeFrames
  Calls = {"CIPMUX", "CSCS"}
  BusyCalls = {"CSCS"}
  NestedCalls = {}
  ReuseReply = FALSE
  MidPayload = FALSE
  Ticking = FALSE
  Timeout = 1
  MaxTime = 3
  ByteMod = 4
PROPERTIES ModesFollowAnswers
