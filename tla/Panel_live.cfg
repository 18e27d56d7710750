SPECIFICATION FairSpec
CONSTANTS
  MaxMode <- FourModes
  Command <- BothLamps
  Air = {"none", "alarm"}
INVARIANTS PanelTypeOK ModeHasScreen
PROPERTIES ChangeIsDrawn ReporterFollows AlarmFollowsGas
