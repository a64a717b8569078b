SPECIFICATION FairSpec
CONSTANTS
  NoKey = NoKey
  Configs <- TwoConfigs
  InitConfig <- Default
  MaxFrames = 0
  MaxChanges = 2
PROPERTY ShutdownCompletes
PROPERTY KeepsRendering
