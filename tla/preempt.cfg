SPECIFICATION Spec
CONSTANTS
  Replies = {r1, r2}
  NoReply = NoReply
  Answers = {"OK", "ERROR"}
  Timeout = 2
  MaxRestarts = 2
INVARIANTS TypeOK
PROPERTIES OnlyThreeWindows CallsReturn
