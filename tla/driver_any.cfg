SPECIFICATION ClockTickSpec
CONSTANTS
  Replies = {r1, r2}
  NoReply = NoReply
  UserData = {1}
  Frames <- LooseFrames
  Calls <- LooseCalls
  BusyCalls <- LooseCalls
  NestedCalls = {"CPINR"}
  ReuseReply = TRUE
  MidPayload = TRUE
  Ticking = TRUE
  Timeout = 1
  MaxTime = 3
  ByteMod = 3
INVARIANTS TypeOK InFlightIsServed NoEarlyVerdict TimeLimit NotificationLeavesIdle PayloadOnlyWhenIdle
PROPERTIES TimeoutOnTime VerdictOnCompletion RepliesWrittenOnlyWhenAsked CommandConcludes
