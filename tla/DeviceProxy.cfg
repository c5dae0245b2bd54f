CONSTANTS
  NoAgent = "none"
  GpuThreads = {t1, t2}
  Configs <- MCConfigs
  ViewTable <- MCViews
  Commands <- MCCommands
SPECIFICATION PxSpec
INVARIANTS PxPollTruth PxRingProtocol PxViewsOutlive
CHECK_DEADLOCK FALSE
SYMMETRY Symmetry
