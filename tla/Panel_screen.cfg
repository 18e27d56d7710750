SPECIFICATION FairSpec
CONSTANTS
  MaxMode <- AllModes
  Command <- AllCommands
  Air = {"none", "some", "alarm"}
PROPERTY ScreenFollowsMode
