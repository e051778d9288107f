SPECIFICATION FairSpec
CONSTANTS
  RepoFiles = {"a", "b"}  Buffers = {TRUE, FALSE}  StatusCasts <- Clicks
  Paths = {"f", "g"}  TextStages = {1, 2}  SideStages = {3}  LostStages = {4}
  Queue <- Listed  Starting <- Start  Busy = {"f"}  Moves <- Left  MergeCasts <- Sessions
  Cases <- Conflicts  MaxEdits = 1
  MaxDepth = 5  MaxRefine = 5  GutterLines = {"", "x", "y"}  Baselines <- Delivered
  GutterCasts <- Gutters
  DocumentTexts = {0, 1, 2}  DocumentCasts <- Documents
  Roots = {"a", "x", "b"}  Workspaces = {"a", "b"}  Inside <- RootsIn
  ProblemFiles = {"f", "g"}  RepoOf <- OneRepo  ReportCasts <- Reports
  PreviewLines <- Shown
INVARIANTS PanelSound SessionCurrent TextsSound ServersFollowed ProblemsShown
PROPERTIES PaneForward WritesReviewed ReloadSettles
CHECK_DEADLOCK FALSE
