SPECIFICATION Spec
CONSTANTS
  None = None
  report = report
  reportBak = reportBak
  home = home
  reports = reports
  Files = {report, reportBak}
  Home = home
  Dirs = {home, reports}
  Mentions <- MCMentions
  Before <- MCBefore
  Others <- MCOthers
  Versions = {1, 2}
  MaxChunks = 2
  MaxTransfers = 2
  MaxAsked = 1
  MaxEdits = 1
INVARIANTS
  ListingIsOfHere
  OutcomesAreTrue
PROPERTIES
  FinishedIsACopy
  EveryTransferEnds
CHECK_DEADLOCK FALSE
