SPECIFICATION Spec
CONSTANTS
  RunIds <- RunNames  RunProfiles = {"p", "c"}  RunCompounds = {"c"}  ProfileOf <- ProfileOfRun
  SeqOf <- SeqOfRun  EpochOf <- EpochOfRun  RunSteps = {1}  RunCasts <- Launches
  MaxRetained = 2  MaxDiscarded = 1  NoRunId = "none"  AllRuns = "all"
  Texts = {0, 1, 2}  FirstText = 0  MaxEdits = 3  MaxOpens = 2  MaxFailures = 1  MaxBarriers = 2
  SlowReads = {FALSE}
  Workspaces = {"a", "b"}  KnownPaths = {"a"}  None = None  MaxMark = 2  SessionCasts <- Sessions
  Root = "r"  Dirs = {"r", "d", "e"}  Parent <- ParentOf  FileDir <- DirOf  TreeCasts <- Trees
  ConfigRows = {"row"}  ConfigKeys = {"key"}  ConfigProfiles = {"p"}  ConfigCasts <- Configs
  ChatCasts <- Chats
  UseCases = {1, 2, 3}  RouteFloor <- FloorOf  RouteAgent = 1  RouteSelectors = {"a", "b"}
  Types = {"dense", "embedding"}  Derived <- DerivedOf  Exposures <- Shown  Thinks = {"", "on"}
  Default = ""  Documents <- Docs  MaxChanges = 2  MaxApplies = 1
  ReachDocs <- Replayed  Offers <- Offered  ReachAgent = 2  Floors <- Demanded  MaxStaged = 2
  ShellIds = {1, 2}  ShellCasts <- Shells
  Queries = {"q", "r"}  SearchFound <- Matches  LanguageOf <- LanguageOfFile  SearchBudget = 3  ExpandLimit = 2
  SearchCasts <- Searches
  Viewports <- Windows  Pointers = {100, 340, 900}  LayoutCasts <- Layouts
  Curated <- CuratedNames  Users <- UserNames  Taken = {{"u"}, {"u", "v"}}  MenuCasts <- Menus
  EditorFiles = {"f", "g"}  RootsOf <- ProjectsOf  EditorTexts <- EditedTexts  MaxHistory = 1  MaxFrames = 2
  EditorCasts <- Editings
  Width <- Strip  ColumnCasts <- Columns
INVARIANTS RunsSound SavesLand TreeConverges TurnsKept AppliesSound DraftMirrored PanelsSound ShellSound
PROPERTIES GivenKept NothingDropped
CHECK_DEADLOCK FALSE
