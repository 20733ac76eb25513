SPECIFICATION TickSpec
CONSTANTS
  Replies = {r1, r2}
  NoReply = NoReply
  UserData = {1}
  Frames <- ChannelFrames
  Calls <- ChannelCalls
  BusyCalls <- MeanwhileCalls
  NestedCalls = {"CPINR"}
  ReuseReply = FALSE
  MidPayload = TRUE
  Ticking = TRUE
  Timeout = 1
  MaxTime = 3
  ByteMod = 4
INVARIANTS DestinationBelongs
PROPERTIES RefusalHarmless ImplementsFairChannel EveryCallAnswered
