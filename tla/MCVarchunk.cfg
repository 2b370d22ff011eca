CONSTANTS
  Size = 64
  Sizes = {0, 16}
  Values = {v1, v2}
  NoValue = NoValue
  PadModulus = 128
SPECIFICATION FairSpec
INVARIANTS IInv NoClobber GapFollowed EmptyGrants
PROPERTIES FifoSpec TailMoves
