SPECIFICATION PayloadSpec
CONSTANTS
  Replies = {r1, r2}
  NoReply = NoReply
  UserData = {0, 1}
  Frames <- ModeFrames
  Calls <- Cmds
  BusyCalls <- HooklessCalls
  NestedCalls = {"AT_AT"}
  ReuseReply = FALSE
  MidPayload = FALSE
  Ticking = FALSE
  Timeout = 1
  MaxTime = 2
  ByteMod = 3
CONSTRAINT OthersFirst
INVARIANTS CounterBelowLength
PROPERTIES ModesFollowAnswers ModesChangeOnlyByAnswers PayloadDelivered PayloadEnds
