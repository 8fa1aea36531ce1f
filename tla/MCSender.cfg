SPECIFICATION Spec
CONSTANTS
  c1 = c1
  c2 = c2
  c3 = c3
  Calls = {c1, c2, c3}
  NoCall = NoCall
  MaxStreams = 2
  MaxChunks = 2
SYMMETRY CallSymmetry
INVARIANTS StreamIdExclusive OneMessageAtATime InUseIsExact SenderInv
CHECK_DEADLOCK FALSE
