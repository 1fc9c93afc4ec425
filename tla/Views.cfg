SPECIFICATION Spec
CONSTANTS
  Foci = {"journal", "names", "pages", "marks", "prio", "curves", "steps", "lines", "words", "overview", "hooks"}
  Papers = {1, 2}
  Notes = {1, 2, 3}
  Matrix = {2}
  Submission <- Submitted
  Series = {"f"}
  Declared <- DeclaredWays
  Scores = {1, 2}
  Spelt = {"keep", "drop"}
  Entries = {"e"}
  Hashes = {"g", "h"}
  Remarks <- ByHand
  Doings = 2
  Cuts = 1
  Tasks = {1, 2, 3}
  Experiments = {4}
  Aliases = {"a", "b", "c", "d", "x", "y", "z", "w"}
  Spelling <- Nonces
  Upheavals = 2
  Ids = {1, 2, 3}
  Actors = {"ann"}
  Flags = {"read", "pinned"}
  Priorities = {1, 2}
  Classes = {"elevated", "urgent"}
  Filters = {"all", "active", "failed"}
  PageSize = 1
  InboxSize = 2
  Turns = 3
  Runs = {1, 2}
  Curves = {"loss", "accuracy"}
  PointsKept = 2
  RingSize = 2
  LinesKept = 3
  LinesInTail = 1
  WarmArchive = 1
  OverviewTTL = 2
  Points = 3
  Steps = 5
  LogLines = 4
  Changes = 3
  Moments = 3
  SubIds = {1, 2}
  SubNames = {"ops", "ml"}
  EventSets <- Asked
  Watched = {1}
  EndWays = {"completed", "failed"}
  Logs = {"termination"}
  MaxAttempts = 2
  Ends = 2
  Upsets = 1
  OldestShown = 2
INVARIANTS JournalSound NamesHold DeskSound ReportsSound
CHECK_DEADLOCK FALSE
