SPECIFICATION Spec
CONSTANTS
  Size = 6
  Lanes = 2
  Nominals <- MCNominals
  Blocks <- MCBlocks
  MaxSamples = 18
INVARIANT TypeOK
PROPERTY ImplementsWindow
PROPERTY FirContinuous
PROPERTY LufsCountsBlocks
CHECK_DEADLOCK FALSE
