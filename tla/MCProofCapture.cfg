\* Two owners share one slot; a client follows links over three blocks.
CONSTANTS
  Owners = {o1, o2}
  Children = {k1, k2}
  ChildSlots = 1
  MaxTraces = 3
  BocOf <- Bocs
  Height = 2
  KeyBlocks = {0, 1}
  Nodes <- Validators
  Weight <- WeightOf
  Faulty <- FaultyValidators
  MaxLinks = 2
SPECIFICATION CaptureSpec
SYMMETRY Interchangeable
INVARIANTS LiveChildrenStayBounded ShutdownLeavesNothingBehind ReaderFindsOneWholeFile
  StoredProofsCoverTheTrace 
  TrustAdvancesOnTheChain CanonicalProofsAreOnTheChain
