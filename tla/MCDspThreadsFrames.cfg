SPECIFICATION FairSpec
CONSTANTS
  NoKey = NoKey
  Configs <- OnlyStereo
  InitConfig <- Stereo
  MaxFrames = 2
  MaxChanges = 0
PROPERTY FrameAnalysed
