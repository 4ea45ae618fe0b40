SPECIFICATION Spec
CONSTANTS
  FileLines <- MCFileLines
  MaxFileLines = 5
  ScriptLines <- MCScriptLines
  MaxScript = 4
  Asked <- MCAsked
  Radix = 14
  MaxFieldLen = 60
  MaxMessageLen = 60
  HostSays <- MCHostSays
  HelperSays <- MCHelperSays
  MaxSent = 2
  Colours = {0, 1}
  Unpainted = 0
  DesktopSizes <- MCDesktopSizes
  TileSize = 2
  MaxByte = 2
  MaxRectangles = 2
  Plans <- MCPlans
  MaxRounds = 2
INVARIANTS
  DraftKeepsTheSession
  ImportLosesNothing
  FirstValueWins
  ReadIsWhatWasSaid
  TheSameDesktop
  SecretsStayWithTheirHop
CHECK_DEADLOCK FALSE
