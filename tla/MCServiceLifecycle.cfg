SPECIFICATION FairSpec
CONSTANTS
  DefaultRule <- InitialRule
  DefaultRoi <- InitialRoi
  Versions <- SmallVersions
  MaxLives = 2
  MaxSaves = 2
  MaxTries = 2
INVARIANTS TypeOK NameMeansPipeline RuleOfOneVersion
PROPERTIES RestartHeals
CHECK_DEADLOCK FALSE
