SPECIFICATION SystemSpec
CONSTANTS
  Replies = {r1}
  NoReply = NoReply
  UserData = {0, 1}
  Frames = {}
  Calls <- WorkerCalls
  BusyCalls = {}
  NestedCalls = {}
  ReuseReply = FALSE
  MidPayload = FALSE
  Ticking = TRUE
  Timeout = 0
  MaxTime = 1
  ByteMod = 32
  MsgLength = 4
  Scripts <- WorkerScripts
  Events = {"CLOSED"}
  Numbers = {16}
  Backlog = 1
PROPERTIES EventsAnnounced
