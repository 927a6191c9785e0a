SPECIFICATION Spec
CONSTANTS
  RolloutIds = {r1, r2}
  Devices <- MCDevices
  DeviceLists <- MCDeviceLists
  StageLists <- MCStageLists
INVARIANTS TypeOK ReachedShare BatchesDisjoint CompletedCovers
PROPERTIES OneStageAtATime
