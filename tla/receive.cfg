SPECIFICATION Spec
CONSTANTS
  Bytes = {"CR", "LF", ">", "+", "I", ":"}
  ByteMod = 5
  Lengths = {0, 2, 6}
INVARIANTS TypeOK BufferHoldsLine
PROPERTIES WholeLines WholePayloads
