SPECIFICATION Spec
CONSTANTS
  NoKey = NoKey
  Configs <- AllConfigs
  InitConfig <- Default
  MaxFrames = 1
  MaxChanges = 1
INVARIANT PlansFollowConfig
