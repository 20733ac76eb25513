SPECIFICATION SystemSpec
CONSTANTS
  Replies = {r1}
  NoReply = NoReply
  UserData = {0, 1}
  Frames = {}
  Calls <- Cmds
  BusyCalls = {}
  NestedCalls = {}
  ReuseReply = FALSE
  MidPayload = FALSE
  Ticking = FALSE
  Timeout = 0
  MaxTime = 1
  ByteMod = 32
  MsgLength = 8
  Scripts <- EveryScript
  Events = {}
  Numbers <- EveryNumber
  Backlog = 1
PROPERTIES SmsTextFits
CONSTRAINT OneCommand
