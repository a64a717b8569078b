SPECIFICATION Spec
CONSTANTS
  NoKey = NoKey
  Configs <- TwoConfigs
  InitConfig <- Default
  MaxFrames = 1
  MaxChanges = 2
INVARIANT TypeOK
INVARIANT ExecutesLivePlan
INVARIANT TeardownOrder
INVARIANT LufsResetAlone
VIEW Decides
