SPECIFICATION Spec
CONSTANTS
  RunIds <- RunNames  RunProfiles = {"p", "c"}  RunCompounds = {"c"}  ProfileOf <- ProfileOfRun
  SeqOf <- SeqOfRun  EpochOf <- EpochOfRun  RunSteps = {1}  RunCasts = {}
  MaxRetained = 2  MaxDiscarded = 1  NoRunId = "none"  AllRuns = "all"
  Texts = {0, 1, 2}  FirstText = 0  MaxEdits = 3  MaxOpens = 2  MaxFailures = 1  MaxBarriers = 1
  SlowReads = {}
  Workspaces = {"a", "b"}  KnownPaths = {"a"}  None = None  MaxMark = 2  SessionCasts <- Closing
  Root = "r"  Dirs = {"r", "d", "e"}  Parent <- ParentOf  FileDir <- DirOf  TreeCasts = {}
  ConfigRows = {"row"}  ConfigKeys = {"key"}  ConfigProfiles = {"p"}  ConfigCasts = {}
  ChatCasts = {}
  UseCases = {1, 2, 3}  RouteFloor <- FloorOf  RouteAgent = 1  RouteSelectors = {"a", "b"}
  Types = {"dense", "embedding"}  Derived <- DerivedOf  Exposures <- Shown  Thinks = {"", "on"}
  Default = ""  Documents = {}  MaxChanges = 2  MaxApplies = 1
  ReachDocs = {}  Offers <- Offered  ReachAgent = 2  Floors <- Demanded  MaxStaged = 2
  ShellIds = {1, 2}  ShellCasts = {}
  Queries = {"q", "r"}  SearchFound <- Matches  LanguageOf <- LanguageOfFile  SearchBudget = 3  ExpandLimit = 2
  SearchCasts = {}
  Viewports <- Windows  Pointers = {100, 340, 900}  LayoutCasts = {}
  Curated <- CuratedNames  Users <- UserNames  Taken = {{"u"}, {"u", "v"}}  MenuCasts = {}
  EditorFiles = {"f", "g"}  RootsOf <- ProjectsOf  EditorTexts <- EditedTexts  MaxHistory = 1  MaxFrames = 2
  EditorCasts = {}
  Width <- Strip  ColumnCasts = {}
INVARIANT CloseLandsAll
CHECK_DEADLOCK FALSE
