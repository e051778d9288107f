---------------------------- MODULE FrontendParts ----------------------------
(*****************************************************************************)
(* The stores of the frontend, a behaviour is of one component: one of       *)
(* StoreParts, the saved sessions of the workspaces, the tree of the file    *)
(* explorer, the turns of the Golem chat, the draft of the route editor and  *)
(* what the backend makes of that draft, the terminals, the search panel, the *)
(* menus that name a profile, the code editor, and the surfaces of the editor *)
(* column. The constants are the parameters of the components.               *)
(*****************************************************************************)
EXTENDS StoreParts

CONSTANTS
  Workspaces, KnownPaths, None, MaxMark, SessionCasts,                   \* of WorkspaceSession
  Root, Dirs, Parent, FileDir, TreeCasts,                                \* of Explorer
  ChatCasts,                                                             \* of GolemChat
  UseCases, RouteFloor, RouteAgent, RouteSelectors, Types, Derived, Exposures, Thinks, Default,
  Documents, MaxChanges, MaxApplies,                                     \* of RouteDraft
  ReachDocs, Offers, ReachAgent, Floors, MaxStaged,                      \* of RouteReach
  ShellIds, ShellCasts,                                                  \* of Terminals
  Queries, SearchFound, LanguageOf, SearchBudget, ExpandLimit, SearchCasts,  \* of Search
  Curated, Users, Taken, MenuCasts,                                      \* of ProfileMenus
  EditorFiles, RootsOf, EditorTexts, MaxHistory, MaxFrames, EditorCasts, \* of CodeEditor
  Width, ColumnCasts                                                     \* of EditorSurfaces

VARIABLES
  ws, live, restoring, writes, flushes, close, reported, toasts, readable, blocked, gone, crossed,
  due, tree, unread, expanded, rootOpen, dirty, loading, rootLoad, rootError, fetch, fetchOld,
  events, timers, walks, reveals, selected, clicked, saved, go, chain, bridge, view, late, tries,
  starts, doc, applied, withdrawn, base, gated, shell, output, tabs, buffers, closed, xterms,
  panel, creating, wanted, rename, root, search, requests, index, languages, supports, lists,
  listGen, task, want, boot, dropped, props, cache, refs, frames, moved, head, jumps, look,
  landed, now, seen, had, restore, scroll, asks, stale, let

W == INSTANCE WorkspaceSession WITH Paths <- Workspaces, Known <- KnownPaths,
                                    Casts <- SessionCasts
T == INSTANCE Explorer WITH Casts <- TreeCasts
C == INSTANCE GolemChat WITH Casts <- ChatCasts
D == INSTANCE RouteDraft WITH Floor <- RouteFloor, Selectors <- RouteSelectors,
                              Agent <- RouteAgent
H == INSTANCE RouteReach WITH Docs <- ReachDocs, Agent <- ReachAgent
E == INSTANCE Terminals WITH Ids <- ShellIds, Casts <- ShellCasts
S == INSTANCE Search WITH Found <- SearchFound, Budget <- SearchBudget, Casts <- SearchCasts
N == INSTANCE ProfileMenus WITH Casts <- MenuCasts
K == INSTANCE CodeEditor WITH Files <- EditorFiles, Texts <- EditorTexts, Casts <- EditorCasts
A == INSTANCE EditorSurfaces WITH Files <- EditorFiles, Casts <- ColumnCasts

\* The variables of the other components, which a behaviour of this one leaves alone.
WRest == <<part, store, pending, todo, launched, ended, epoch, calls, clears, asked, archived,
           halted, buf,
           queue, saving, edit, opening, reloads, event, barrier, closing, last, slow, counts,
           faults,
           phase, draft, vault, preview, editors, outcome, gen, loads, inFlight, sourceLoading,
           call, prompt, token, unsure, left, ui, layout, active, hook, css, written, focus,
           owner, drag, latch, said, tree, unread, expanded, rootOpen, dirty, loading, rootLoad,
           rootError, fetch, fetchOld, events, timers, walks, reveals, selected, clicked, saved,
           go, chain, bridge, view, late, tries, starts, doc, applied, withdrawn, base, gated,
           shell, output, tabs, buffers, closed, xterms, panel, creating, wanted, rename, root,
           search, requests, index, languages, supports, lists, listGen, task, want, boot,
           dropped, props, cache, refs, frames, moved, head, jumps, look, landed, now, seen, had,
           restore, scroll, asks, stale, let>>
TRest == <<part, store, pending, todo, launched, ended, epoch, calls, clears, asked, archived,
           halted, buf,
           queue, timer, saving, edit, opening, reloads, event, barrier, closing, last, slow,
           counts, faults, phase, draft, vault, preview, editors, outcome, gen, loads,
           sourceLoading,
           call, prompt, token, unsure, left, ui, layout, hook, css, written, focus, owner, drag,
           latch, said, ws, live, restoring, writes, flushes, close, reported, toasts, readable,
           blocked, gone, crossed, due, go, chain, bridge, view, late, tries, starts, doc,
           applied, withdrawn, base, gated, shell, output, tabs, buffers, closed, xterms, panel,
           creating, wanted, rename, root, search, requests, index, languages, supports, lists,
           listGen, task, want, boot, dropped, props, cache, refs, frames, moved, head, jumps,
           look, landed, now, seen, had, restore, scroll, asks, stale, let>>
CRest == <<part, store, pending, todo, launched, ended, load, epoch, cast, clears, asked,
           archived,
           halted, buf,
           disk, queue, timer, saving, edit, opening, reloads, event, barrier, closing, last,
           slow, counts, faults, phase, draft, vault, preview, editors, outcome, gen, loads,
           inFlight,
           sourceLoading, call, prompt, token, unsure, ui, layout, active, hook, css, written,
           focus, owner, drag, latch, said, ws, live, restoring, writes, flushes, close, reported,
           toasts, readable, blocked, crossed, due, tree, unread, expanded, rootOpen, dirty,
           loading, rootLoad, rootError, fetch, fetchOld, timers, walks, reveals, selected,
           clicked, saved, doc, applied, withdrawn, base, gated, shell, output, tabs, buffers,
           closed, xterms, panel, creating, wanted, rename, root, search, requests, index,
           languages, supports, lists, listGen, task, want, boot, dropped, props, cache, refs,
           frames, moved, head, jumps, look, landed, now, seen, had, restore, scroll, asks, stale,
           let>>
DRest == <<part, store, pending, todo, launched, ended, load, epoch, calls, cast, clears, asked,
           archived, halted, buf, disk, queue, timer, saving, edit, opening, reloads, event,
           barrier,
           closing, last, slow, counts, faults, phase, vault, preview, editors, outcome, gen,
           loads,
           inFlight, sourceLoading, call, prompt, token, unsure, left, ui, layout, active, hook,
           css, written, focus, owner, drag, latch, said, ws, live, restoring, writes, flushes,
           close, reported, toasts, readable, blocked, gone, crossed, due, tree, unread, expanded,
           rootOpen, dirty, loading, rootLoad, rootError, fetch, fetchOld, events, timers, walks,
           reveals, selected, clicked, saved, go, chain, bridge, view, late, tries, starts, base,
           gated, shell, output, tabs, buffers, closed, xterms, panel, creating, wanted, rename,
           root, search, requests, index, languages, supports, lists, listGen, task, want, boot,
           dropped, props, cache, refs, frames, moved, head, jumps, look, landed, now, seen, had,
           restore, scroll, asks, stale, let>>
HRest == <<part, store, pending, launched, ended, load, epoch, calls, cast, clears, asked,
           archived,
           halted,
           buf, disk, queue, timer, saving, edit, opening, reloads, event, barrier, closing, last,
           slow, counts, faults, vault, preview, editors, outcome, gen, loads, inFlight,
           sourceLoading,
           call, prompt, token, unsure, left, ui, layout, active, hook, css, written, focus,
           owner, drag, latch, said, ws, live, restoring, writes, flushes, close, reported,
           toasts, readable, blocked, gone, crossed, due, tree, unread, expanded, rootOpen, dirty,
           loading, rootLoad, rootError, fetch, fetchOld, events, timers, walks, reveals,
           selected, clicked, saved, go, chain, bridge, view, late, tries, starts, applied,
           withdrawn, shell, output, tabs, buffers, closed, xterms, panel, creating, wanted,
           rename, root, search, requests, index, languages, supports, lists, listGen, task, want,
           boot, dropped, props, cache, refs, frames, moved, head, jumps, look, landed, now, seen,
           had, restore, scroll, asks, stale, let>>
ERest == <<part, store, pending, todo, launched, ended, load, epoch, calls, clears, asked,
           archived,
           halted,
           buf, disk, queue, timer, saving, edit, opening, reloads, event, barrier, closing, last,
           slow, counts, faults, phase, draft, vault, preview, editors, outcome, gen, loads,
           inFlight,
           sourceLoading, call, prompt, token, unsure, left, ui, layout, hook, css, written,
           owner, drag, latch, said, ws, live, restoring, writes, flushes, close, reported,
           toasts, readable, blocked, gone, crossed, due, tree, unread, expanded, rootOpen, dirty,
           loading, rootLoad, rootError, fetch, fetchOld, events, timers, walks, reveals,
           selected, clicked, saved, go, chain, bridge, view, late, tries, starts, doc, applied,
           withdrawn, base, gated, root, search, requests, index, languages, supports, lists,
           listGen, task, want, boot, dropped, props, cache, refs, frames, moved, head, jumps,
           look, landed, now, seen, had, restore, scroll, asks, stale, let>>
SRest == <<part, store, pending, todo, launched, ended, load, epoch, calls, clears, asked,
           archived,
           halted,
           buf, disk, queue, saving, edit, reloads, event, barrier, closing, last, slow, counts,
           faults,
           phase, draft, vault, preview, editors, outcome, gen, loads, inFlight, sourceLoading,
           call, prompt, token, unsure, left, ui, layout, active, hook, css, written, owner, drag,
           latch, said, ws, live, restoring, writes, flushes, close, reported, toasts, readable,
           blocked, gone, crossed, due, tree, unread, rootOpen, dirty, loading, rootLoad,
           rootError, fetch, fetchOld, events, timers, walks, reveals, selected, clicked, saved,
           go, chain, bridge, view, late, tries, starts, doc, applied, withdrawn, base, gated,
           shell, output, buffers, closed, xterms, panel, creating, wanted, rename, lists,
           listGen, task, want, boot, dropped, props, cache, refs, frames, moved, head, jumps,
           look, landed, now, seen, had, restore, scroll, asks, stale, let>>
NRest == <<part, store, pending, todo, launched, ended, load, epoch, calls, cast, clears,
           archived,
           halted, buf,
           queue, timer, saving, edit, opening, reloads, event, barrier, closing, last, slow,
           counts, faults, phase, draft, vault, preview, editors, outcome, loads, inFlight,
           sourceLoading,
           call, prompt, token, unsure, layout, active, hook, css, written, owner, drag, latch,
           said, ws, live, restoring, writes, flushes, close, reported, toasts, readable, blocked,
           gone, crossed, due, tree, unread, expanded, rootOpen, dirty, loading, rootLoad,
           rootError, fetch, fetchOld, events, timers, walks, reveals, selected, clicked, saved,
           go, chain, bridge, view, late, tries, starts, doc, applied, withdrawn, base, gated,
           shell, output, tabs, buffers, closed, xterms, panel, creating, wanted, rename, root,
           search, requests, index, languages, supports, props, cache, refs, frames, moved, head,
           jumps, look, landed, now, seen, had, restore, scroll, asks, stale, let>>
KRest == <<part, pending, todo, launched, ended, epoch, calls, cast, clears, asked, archived,
           halted, buf, disk,
           queue, timer, saving, edit, opening, reloads, event, barrier, closing, last, slow,
           counts, faults, phase, draft, vault, preview, editors, outcome, gen, loads, inFlight,
           sourceLoading, call, prompt, token, unsure, ui, layout, active, hook, css, written,
           focus, owner, drag, latch, said, ws, live, restoring, writes, flushes, close, reported,
           toasts, readable, blocked, gone, crossed, due, tree, unread, expanded, rootOpen, dirty,
           loading, rootLoad, rootError, fetch, fetchOld, events, timers, walks, reveals,
           selected, clicked, saved, go, chain, bridge, late, tries, starts, doc, applied,
           withdrawn, base, gated, shell, output, tabs, buffers, closed, xterms, panel, creating,
           wanted, rename, root, search, requests, index, languages, supports, lists, listGen,
           task, want, boot, dropped, now, seen, had, restore, scroll, asks, stale, let>>
ARest == <<part, store, pending, todo, launched, ended, load, epoch, calls, cast, clears, asked,
           archived, halted, buf, disk, queue, saving, edit, opening, reloads, event, barrier,
           closing,
           last, slow, counts, faults, phase, draft, vault, preview, editors, outcome, gen, loads,
           inFlight, sourceLoading, call, prompt, token, unsure, ui, layout, active, hook, css,
           written, owner, drag, latch, said, ws, live, restoring, writes, flushes, close,
           reported, toasts, readable, blocked, gone, crossed, due, tree, unread, expanded,
           rootOpen, dirty, loading, rootLoad, rootError, fetch, fetchOld, events, timers, walks,
           reveals, selected, clicked, saved, go, chain, bridge, view, late, tries, starts, doc,
           applied, withdrawn, base, gated, shell, output, tabs, buffers, closed, xterms, panel,
           creating, wanted, rename, root, search, requests, index, languages, supports, lists,
           listGen, task, boot, dropped, props, cache, refs, frames, moved, head, jumps, look,
           landed>>
others == <<ws, live, restoring, writes, flushes, close, reported, toasts, readable, blocked,
            gone, crossed, due, tree, unread, expanded, rootOpen, dirty, loading, rootLoad,
            rootError, fetch, fetchOld, events, timers, walks, reveals, selected, clicked, saved,
            go, chain, bridge, view, late, tries, starts, doc, applied, withdrawn, base, gated,
            shell, output, tabs, buffers, closed, xterms, panel, creating, wanted, rename, root,
            search, requests, index, languages, supports, lists, listGen, task, want, boot,
            dropped, props, cache, refs, frames, moved, head, jumps, look, landed, now, seen, had,
            restore, scroll, asks, stale, let>>

vars == <<part, store, pending, todo, launched, ended, load, epoch, calls, cast, clears, asked,
          archived, halted, buf, disk, queue, timer, saving, edit, opening, reloads, event,
          barrier,
          closing, last, slow, counts, faults, phase, draft, vault, preview, editors, outcome,
          gen, loads,
          inFlight, sourceLoading, call, prompt, token, unsure, left, ui, layout, active, hook,
          css, written, focus, owner, drag, latch, said, ws, live, restoring, writes, flushes,
          close, reported, toasts, readable, blocked, gone, crossed, due, tree, unread, expanded,
          rootOpen, dirty, loading, rootLoad, rootError, fetch, fetchOld, events, timers, walks,
          reveals, selected, clicked, saved, go, chain, bridge, view, late, tries, starts, doc,
          applied, withdrawn, base, gated, shell, output, tabs, buffers, closed, xterms, panel,
          creating, wanted, rename, root, search, requests, index, languages, supports, lists,
          listGen, task, want, boot, dropped, props, cache, refs, frames, moved, head, jumps,
          look, landed, now, seen, had, restore, scroll, asks, stale, let>>

ASSUME SessionAssumed == W!SessionAssumption

Init ==
  \/ /\ StoreInit
     /\ ws = 0 /\ live = 0 /\ restoring = 0 /\ writes = 0 /\ flushes = 0 /\ close = 0
     /\ reported = 0 /\ toasts = 0 /\ readable = 0 /\ blocked = 0 /\ gone = 0 /\ crossed = 0
     /\ due = 0 /\ tree = 0 /\ unread = 0 /\ expanded = 0 /\ rootOpen = 0 /\ dirty = 0
     /\ loading = 0 /\ rootLoad = 0 /\ rootError = 0 /\ fetch = 0 /\ fetchOld = 0 /\ events = 0
     /\ timers = 0 /\ walks = 0 /\ reveals = 0 /\ selected = 0 /\ clicked = 0 /\ saved = 0
     /\ go = 0 /\ chain = 0 /\ bridge = 0 /\ view = 0 /\ late = 0 /\ tries = 0 /\ starts = 0
     /\ doc = 0 /\ applied = 0 /\ withdrawn = 0 /\ base = 0 /\ gated = 0 /\ shell = 0
     /\ output = 0 /\ tabs = 0 /\ buffers = 0 /\ closed = 0 /\ xterms = 0 /\ panel = 0
     /\ creating = 0 /\ wanted = 0 /\ rename = 0 /\ root = 0 /\ search = 0 /\ requests = 0
     /\ index = 0 /\ languages = 0 /\ supports = 0 /\ lists = 0 /\ listGen = 0 /\ task = 0
     /\ want = 0 /\ boot = 0 /\ dropped = 0 /\ props = 0 /\ cache = 0 /\ refs = 0 /\ frames = 0
     /\ moved = 0 /\ head = 0 /\ jumps = 0 /\ look = 0 /\ landed = 0 /\ now = 0 /\ seen = 0
     /\ had = 0 /\ restore = 0 /\ scroll = 0 /\ asks = 0 /\ stale = 0 /\ let = 0
  \/ /\ part = "session" /\ W!Init
     /\ store = 0 /\ pending = 0 /\ todo = 0 /\ launched = 0 /\ ended = 0 /\ epoch = 0
     /\ calls = 0 /\ clears = 0 /\ asked = 0 /\ archived = 0 /\ halted = 0 /\ buf = 0
     /\ queue = 0 /\ saving = 0
     /\ edit = 0 /\ opening = 0 /\ reloads = 0 /\ event = 0 /\ barrier = 0 /\ closing = 0
     /\ last = 0 /\ slow = 0 /\ counts = 0 /\ faults = 0 /\ phase = 0 /\ draft = 0
     /\ vault = 0 /\ preview = 0
     /\ editors = 0 /\ outcome = 0 /\ gen = 0 /\ loads = 0 /\ inFlight = 0 /\ sourceLoading = 0
     /\ call = 0 /\ prompt = 0 /\ token = 0 /\ unsure = 0 /\ left = 0 /\ ui = 0 /\ layout = 0
     /\ active = 0 /\ hook = 0 /\ css = 0 /\ written = 0 /\ focus = 0 /\ owner = 0 /\ drag = 0
     /\ latch = 0 /\ said = 0 /\ tree = 0 /\ unread = 0 /\ expanded = 0 /\ rootOpen = 0
     /\ dirty = 0 /\ loading = 0 /\ rootLoad = 0 /\ rootError = 0 /\ fetch = 0 /\ fetchOld = 0
     /\ events = 0 /\ timers = 0 /\ walks = 0 /\ reveals = 0 /\ selected = 0 /\ clicked = 0
     /\ saved = 0 /\ go = 0 /\ chain = 0 /\ bridge = 0 /\ view = 0 /\ late = 0 /\ tries = 0
     /\ starts = 0 /\ doc = 0 /\ applied = 0 /\ withdrawn = 0 /\ base = 0 /\ gated = 0
     /\ shell = 0 /\ output = 0 /\ tabs = 0 /\ buffers = 0 /\ closed = 0 /\ xterms = 0
     /\ panel = 0 /\ creating = 0 /\ wanted = 0 /\ rename = 0 /\ root = 0 /\ search = 0
     /\ requests = 0 /\ index = 0 /\ languages = 0 /\ supports = 0 /\ lists = 0 /\ listGen = 0
     /\ task = 0 /\ want = 0 /\ boot = 0 /\ dropped = 0 /\ props = 0 /\ cache = 0 /\ refs = 0
     /\ frames = 0 /\ moved = 0 /\ head = 0 /\ jumps = 0 /\ look = 0 /\ landed = 0 /\ now = 0
     /\ seen = 0 /\ had = 0 /\ restore = 0 /\ scroll = 0 /\ asks = 0 /\ stale = 0 /\ let = 0
  \/ /\ part = "tree" /\ T!Init
     /\ store = 0 /\ pending = 0 /\ todo = 0 /\ launched = 0 /\ ended = 0 /\ epoch = 0
     /\ calls = 0 /\ clears = 0 /\ asked = 0 /\ archived = 0 /\ halted = 0 /\ buf = 0
     /\ queue = 0 /\ timer = 0
     /\ saving = 0 /\ edit = 0 /\ opening = 0 /\ reloads = 0 /\ event = 0 /\ barrier = 0
     /\ closing = 0 /\ last = 0 /\ slow = 0 /\ counts = 0 /\ faults = 0 /\ phase = 0
     /\ draft = 0 /\ vault = 0
     /\ preview = 0 /\ editors = 0 /\ outcome = 0 /\ gen = 0 /\ loads = 0 /\ sourceLoading = 0
     /\ call = 0 /\ prompt = 0 /\ token = 0 /\ unsure = 0 /\ left = 0 /\ ui = 0 /\ layout = 0
     /\ hook = 0 /\ css = 0 /\ written = 0 /\ focus = 0 /\ owner = 0 /\ drag = 0 /\ latch = 0
     /\ said = 0 /\ ws = 0 /\ live = 0 /\ restoring = 0 /\ writes = 0 /\ flushes = 0 /\ close = 0
     /\ reported = 0 /\ toasts = 0 /\ readable = 0 /\ blocked = 0 /\ gone = 0 /\ crossed = 0
     /\ due = 0 /\ go = 0 /\ chain = 0 /\ bridge = 0 /\ view = 0 /\ late = 0 /\ tries = 0
     /\ starts = 0 /\ doc = 0 /\ applied = 0 /\ withdrawn = 0 /\ base = 0 /\ gated = 0
     /\ shell = 0 /\ output = 0 /\ tabs = 0 /\ buffers = 0 /\ closed = 0 /\ xterms = 0
     /\ panel = 0 /\ creating = 0 /\ wanted = 0 /\ rename = 0 /\ root = 0 /\ search = 0
     /\ requests = 0 /\ index = 0 /\ languages = 0 /\ supports = 0 /\ lists = 0 /\ listGen = 0
     /\ task = 0 /\ want = 0 /\ boot = 0 /\ dropped = 0 /\ props = 0 /\ cache = 0 /\ refs = 0
     /\ frames = 0 /\ moved = 0 /\ head = 0 /\ jumps = 0 /\ look = 0 /\ landed = 0 /\ now = 0
     /\ seen = 0 /\ had = 0 /\ restore = 0 /\ scroll = 0 /\ asks = 0 /\ stale = 0 /\ let = 0
  \/ /\ part = "chat" /\ C!Init
     /\ store = 0 /\ pending = 0 /\ todo = 0 /\ launched = 0 /\ ended = 0 /\ load = 0 /\ epoch = 0
     /\ cast = 0 /\ clears = 0 /\ asked = 0 /\ archived = 0 /\ halted = 0 /\ buf = 0 /\ disk = 0
     /\ queue = 0
     /\ timer = 0 /\ saving = 0 /\ edit = 0 /\ opening = 0 /\ reloads = 0 /\ event = 0
     /\ barrier = 0 /\ closing = 0 /\ last = 0 /\ slow = 0 /\ counts = 0 /\ faults = 0
     /\ phase = 0 /\ draft = 0
     /\ vault = 0 /\ preview = 0 /\ editors = 0 /\ outcome = 0 /\ gen = 0 /\ loads = 0
     /\ inFlight = 0 /\ sourceLoading = 0 /\ call = 0 /\ prompt = 0 /\ token = 0 /\ unsure = 0
     /\ ui = 0 /\ layout = 0 /\ active = 0 /\ hook = 0 /\ css = 0 /\ written = 0 /\ focus = 0
     /\ owner = 0 /\ drag = 0 /\ latch = 0 /\ said = 0 /\ ws = 0 /\ live = 0 /\ restoring = 0
     /\ writes = 0 /\ flushes = 0 /\ close = 0 /\ reported = 0 /\ toasts = 0 /\ readable = 0
     /\ blocked = 0 /\ crossed = 0 /\ due = 0 /\ tree = 0 /\ unread = 0 /\ expanded = 0
     /\ rootOpen = 0 /\ dirty = 0 /\ loading = 0 /\ rootLoad = 0 /\ rootError = 0 /\ fetch = 0
     /\ fetchOld = 0 /\ timers = 0 /\ walks = 0 /\ reveals = 0 /\ selected = 0 /\ clicked = 0
     /\ saved = 0 /\ doc = 0 /\ applied = 0 /\ withdrawn = 0 /\ base = 0 /\ gated = 0 /\ shell = 0
     /\ output = 0 /\ tabs = 0 /\ buffers = 0 /\ closed = 0 /\ xterms = 0 /\ panel = 0
     /\ creating = 0 /\ wanted = 0 /\ rename = 0 /\ root = 0 /\ search = 0 /\ requests = 0
     /\ index = 0 /\ languages = 0 /\ supports = 0 /\ lists = 0 /\ listGen = 0 /\ task = 0
     /\ want = 0 /\ boot = 0 /\ dropped = 0 /\ props = 0 /\ cache = 0 /\ refs = 0 /\ frames = 0
     /\ moved = 0 /\ head = 0 /\ jumps = 0 /\ look = 0 /\ landed = 0 /\ now = 0 /\ seen = 0
     /\ had = 0 /\ restore = 0 /\ scroll = 0 /\ asks = 0 /\ stale = 0 /\ let = 0
  \/ /\ part = "route" /\ D!Init
     /\ store = 0 /\ pending = 0 /\ todo = 0 /\ launched = 0 /\ ended = 0 /\ load = 0 /\ epoch = 0
     /\ calls = 0 /\ cast = 0 /\ clears = 0 /\ asked = 0 /\ archived = 0 /\ halted = 0 /\ buf = 0
     /\ disk = 0
     /\ queue = 0 /\ timer = 0 /\ saving = 0 /\ edit = 0 /\ opening = 0 /\ reloads = 0
     /\ event = 0 /\ barrier = 0 /\ closing = 0 /\ last = 0 /\ slow = 0 /\ counts = 0
     /\ faults = 0 /\ phase = 0
     /\ vault = 0 /\ preview = 0 /\ editors = 0 /\ outcome = 0 /\ gen = 0 /\ loads = 0
     /\ inFlight = 0 /\ sourceLoading = 0 /\ call = 0 /\ prompt = 0 /\ token = 0 /\ unsure = 0
     /\ left = 0 /\ ui = 0 /\ layout = 0 /\ active = 0 /\ hook = 0 /\ css = 0 /\ written = 0
     /\ focus = 0 /\ owner = 0 /\ drag = 0 /\ latch = 0 /\ said = 0 /\ ws = 0 /\ live = 0
     /\ restoring = 0 /\ writes = 0 /\ flushes = 0 /\ close = 0 /\ reported = 0 /\ toasts = 0
     /\ readable = 0 /\ blocked = 0 /\ gone = 0 /\ crossed = 0 /\ due = 0 /\ tree = 0
     /\ unread = 0 /\ expanded = 0 /\ rootOpen = 0 /\ dirty = 0 /\ loading = 0 /\ rootLoad = 0
     /\ rootError = 0 /\ fetch = 0 /\ fetchOld = 0 /\ events = 0 /\ timers = 0 /\ walks = 0
     /\ reveals = 0 /\ selected = 0 /\ clicked = 0 /\ saved = 0 /\ go = 0 /\ chain = 0
     /\ bridge = 0 /\ view = 0 /\ late = 0 /\ tries = 0 /\ starts = 0 /\ base = 0 /\ gated = 0
     /\ shell = 0 /\ output = 0 /\ tabs = 0 /\ buffers = 0 /\ closed = 0 /\ xterms = 0
     /\ panel = 0 /\ creating = 0 /\ wanted = 0 /\ rename = 0 /\ root = 0 /\ search = 0
     /\ requests = 0 /\ index = 0 /\ languages = 0 /\ supports = 0 /\ lists = 0 /\ listGen = 0
     /\ task = 0 /\ want = 0 /\ boot = 0 /\ dropped = 0 /\ props = 0 /\ cache = 0 /\ refs = 0
     /\ frames = 0 /\ moved = 0 /\ head = 0 /\ jumps = 0 /\ look = 0 /\ landed = 0 /\ now = 0
     /\ seen = 0 /\ had = 0 /\ restore = 0 /\ scroll = 0 /\ asks = 0 /\ stale = 0 /\ let = 0
  \/ /\ part = "reach" /\ H!Init
     /\ store = 0 /\ pending = 0 /\ launched = 0 /\ ended = 0 /\ load = 0 /\ epoch = 0
     /\ calls = 0 /\ cast = 0 /\ clears = 0 /\ asked = 0 /\ archived = 0 /\ halted = 0 /\ buf = 0
     /\ disk = 0
     /\ queue = 0 /\ timer = 0 /\ saving = 0 /\ edit = 0 /\ opening = 0 /\ reloads = 0
     /\ event = 0 /\ barrier = 0 /\ closing = 0 /\ last = 0 /\ slow = 0 /\ counts = 0
     /\ faults = 0 /\ vault = 0
     /\ preview = 0 /\ editors = 0 /\ outcome = 0 /\ gen = 0 /\ loads = 0 /\ inFlight = 0
     /\ sourceLoading = 0 /\ call = 0 /\ prompt = 0 /\ token = 0 /\ unsure = 0 /\ left = 0
     /\ ui = 0 /\ layout = 0 /\ active = 0 /\ hook = 0 /\ css = 0 /\ written = 0 /\ focus = 0
     /\ owner = 0 /\ drag = 0 /\ latch = 0 /\ said = 0 /\ ws = 0 /\ live = 0 /\ restoring = 0
     /\ writes = 0 /\ flushes = 0 /\ close = 0 /\ reported = 0 /\ toasts = 0 /\ readable = 0
     /\ blocked = 0 /\ gone = 0 /\ crossed = 0 /\ due = 0 /\ tree = 0 /\ unread = 0
     /\ expanded = 0 /\ rootOpen = 0 /\ dirty = 0 /\ loading = 0 /\ rootLoad = 0 /\ rootError = 0
     /\ fetch = 0 /\ fetchOld = 0 /\ events = 0 /\ timers = 0 /\ walks = 0 /\ reveals = 0
     /\ selected = 0 /\ clicked = 0 /\ saved = 0 /\ go = 0 /\ chain = 0 /\ bridge = 0 /\ view = 0
     /\ late = 0 /\ tries = 0 /\ starts = 0 /\ applied = 0 /\ withdrawn = 0 /\ shell = 0
     /\ output = 0 /\ tabs = 0 /\ buffers = 0 /\ closed = 0 /\ xterms = 0 /\ panel = 0
     /\ creating = 0 /\ wanted = 0 /\ rename = 0 /\ root = 0 /\ search = 0 /\ requests = 0
     /\ index = 0 /\ languages = 0 /\ supports = 0 /\ lists = 0 /\ listGen = 0 /\ task = 0
     /\ want = 0 /\ boot = 0 /\ dropped = 0 /\ props = 0 /\ cache = 0 /\ refs = 0 /\ frames = 0
     /\ moved = 0 /\ head = 0 /\ jumps = 0 /\ look = 0 /\ landed = 0 /\ now = 0 /\ seen = 0
     /\ had = 0 /\ restore = 0 /\ scroll = 0 /\ asks = 0 /\ stale = 0 /\ let = 0
  \/ /\ part = "terminals" /\ E!Init
     /\ store = 0 /\ pending = 0 /\ todo = 0 /\ launched = 0 /\ ended = 0 /\ load = 0 /\ epoch = 0
     /\ calls = 0 /\ clears = 0 /\ asked = 0 /\ archived = 0 /\ halted = 0 /\ buf = 0 /\ disk = 0
     /\ queue = 0
     /\ timer = 0 /\ saving = 0 /\ edit = 0 /\ opening = 0 /\ reloads = 0 /\ event = 0
     /\ barrier = 0 /\ closing = 0 /\ last = 0 /\ slow = 0 /\ counts = 0 /\ faults = 0
     /\ phase = 0 /\ draft = 0
     /\ vault = 0 /\ preview = 0 /\ editors = 0 /\ outcome = 0 /\ gen = 0 /\ loads = 0
     /\ inFlight = 0 /\ sourceLoading = 0 /\ call = 0 /\ prompt = 0 /\ token = 0 /\ unsure = 0
     /\ left = 0 /\ ui = 0 /\ layout = 0 /\ hook = 0 /\ css = 0 /\ written = 0 /\ owner = 0
     /\ drag = 0 /\ latch = 0 /\ said = 0 /\ ws = 0 /\ live = 0 /\ restoring = 0 /\ writes = 0
     /\ flushes = 0 /\ close = 0 /\ reported = 0 /\ toasts = 0 /\ readable = 0 /\ blocked = 0
     /\ gone = 0 /\ crossed = 0 /\ due = 0 /\ tree = 0 /\ unread = 0 /\ expanded = 0
     /\ rootOpen = 0 /\ dirty = 0 /\ loading = 0 /\ rootLoad = 0 /\ rootError = 0 /\ fetch = 0
     /\ fetchOld = 0 /\ events = 0 /\ timers = 0 /\ walks = 0 /\ reveals = 0 /\ selected = 0
     /\ clicked = 0 /\ saved = 0 /\ go = 0 /\ chain = 0 /\ bridge = 0 /\ view = 0 /\ late = 0
     /\ tries = 0 /\ starts = 0 /\ doc = 0 /\ applied = 0 /\ withdrawn = 0 /\ base = 0
     /\ gated = 0 /\ root = 0 /\ search = 0 /\ requests = 0 /\ index = 0 /\ languages = 0
     /\ supports = 0 /\ lists = 0 /\ listGen = 0 /\ task = 0 /\ want = 0 /\ boot = 0
     /\ dropped = 0 /\ props = 0 /\ cache = 0 /\ refs = 0 /\ frames = 0 /\ moved = 0 /\ head = 0
     /\ jumps = 0 /\ look = 0 /\ landed = 0 /\ now = 0 /\ seen = 0 /\ had = 0 /\ restore = 0
     /\ scroll = 0 /\ asks = 0 /\ stale = 0 /\ let = 0
  \/ /\ part = "search" /\ S!Init
     /\ store = 0 /\ pending = 0 /\ todo = 0 /\ launched = 0 /\ ended = 0 /\ load = 0 /\ epoch = 0
     /\ calls = 0 /\ clears = 0 /\ asked = 0 /\ archived = 0 /\ halted = 0 /\ buf = 0 /\ disk = 0
     /\ queue = 0
     /\ saving = 0 /\ edit = 0 /\ reloads = 0 /\ event = 0 /\ barrier = 0 /\ closing = 0
     /\ last = 0 /\ slow = 0 /\ counts = 0 /\ faults = 0 /\ phase = 0 /\ draft = 0
     /\ vault = 0 /\ preview = 0
     /\ editors = 0 /\ outcome = 0 /\ gen = 0 /\ loads = 0 /\ inFlight = 0 /\ sourceLoading = 0
     /\ call = 0 /\ prompt = 0 /\ token = 0 /\ unsure = 0 /\ left = 0 /\ ui = 0 /\ layout = 0
     /\ active = 0 /\ hook = 0 /\ css = 0 /\ written = 0 /\ owner = 0 /\ drag = 0 /\ latch = 0
     /\ said = 0 /\ ws = 0 /\ live = 0 /\ restoring = 0 /\ writes = 0 /\ flushes = 0 /\ close = 0
     /\ reported = 0 /\ toasts = 0 /\ readable = 0 /\ blocked = 0 /\ gone = 0 /\ crossed = 0
     /\ due = 0 /\ tree = 0 /\ unread = 0 /\ rootOpen = 0 /\ dirty = 0 /\ loading = 0
     /\ rootLoad = 0 /\ rootError = 0 /\ fetch = 0 /\ fetchOld = 0 /\ events = 0 /\ timers = 0
     /\ walks = 0 /\ reveals = 0 /\ selected = 0 /\ clicked = 0 /\ saved = 0 /\ go = 0
     /\ chain = 0 /\ bridge = 0 /\ view = 0 /\ late = 0 /\ tries = 0 /\ starts = 0 /\ doc = 0
     /\ applied = 0 /\ withdrawn = 0 /\ base = 0 /\ gated = 0 /\ shell = 0 /\ output = 0
     /\ buffers = 0 /\ closed = 0 /\ xterms = 0 /\ panel = 0 /\ creating = 0 /\ wanted = 0
     /\ rename = 0 /\ lists = 0 /\ listGen = 0 /\ task = 0 /\ want = 0 /\ boot = 0 /\ dropped = 0
     /\ props = 0 /\ cache = 0 /\ refs = 0 /\ frames = 0 /\ moved = 0 /\ head = 0 /\ jumps = 0
     /\ look = 0 /\ landed = 0 /\ now = 0 /\ seen = 0 /\ had = 0 /\ restore = 0 /\ scroll = 0
     /\ asks = 0 /\ stale = 0 /\ let = 0
  \/ /\ part = "profiles" /\ N!Init
     /\ store = 0 /\ pending = 0 /\ todo = 0 /\ launched = 0 /\ ended = 0 /\ load = 0 /\ epoch = 0
     /\ calls = 0 /\ cast = 0 /\ clears = 0 /\ archived = 0 /\ halted = 0 /\ buf = 0 /\ queue = 0
     /\ timer = 0
     /\ saving = 0 /\ edit = 0 /\ opening = 0 /\ reloads = 0 /\ event = 0 /\ barrier = 0
     /\ closing = 0 /\ last = 0 /\ slow = 0 /\ counts = 0 /\ faults = 0 /\ phase = 0
     /\ draft = 0 /\ vault = 0
     /\ preview = 0 /\ editors = 0 /\ outcome = 0 /\ loads = 0 /\ inFlight = 0
     /\ sourceLoading = 0 /\ call = 0 /\ prompt = 0 /\ token = 0 /\ unsure = 0 /\ layout = 0
     /\ active = 0 /\ hook = 0 /\ css = 0 /\ written = 0 /\ owner = 0 /\ drag = 0 /\ latch = 0
     /\ said = 0 /\ ws = 0 /\ live = 0 /\ restoring = 0 /\ writes = 0 /\ flushes = 0 /\ close = 0
     /\ reported = 0 /\ toasts = 0 /\ readable = 0 /\ blocked = 0 /\ gone = 0 /\ crossed = 0
     /\ due = 0 /\ tree = 0 /\ unread = 0 /\ expanded = 0 /\ rootOpen = 0 /\ dirty = 0
     /\ loading = 0 /\ rootLoad = 0 /\ rootError = 0 /\ fetch = 0 /\ fetchOld = 0 /\ events = 0
     /\ timers = 0 /\ walks = 0 /\ reveals = 0 /\ selected = 0 /\ clicked = 0 /\ saved = 0
     /\ go = 0 /\ chain = 0 /\ bridge = 0 /\ view = 0 /\ late = 0 /\ tries = 0 /\ starts = 0
     /\ doc = 0 /\ applied = 0 /\ withdrawn = 0 /\ base = 0 /\ gated = 0 /\ shell = 0
     /\ output = 0 /\ tabs = 0 /\ buffers = 0 /\ closed = 0 /\ xterms = 0 /\ panel = 0
     /\ creating = 0 /\ wanted = 0 /\ rename = 0 /\ root = 0 /\ search = 0 /\ requests = 0
     /\ index = 0 /\ languages = 0 /\ supports = 0 /\ props = 0 /\ cache = 0 /\ refs = 0
     /\ frames = 0 /\ moved = 0 /\ head = 0 /\ jumps = 0 /\ look = 0 /\ landed = 0 /\ now = 0
     /\ seen = 0 /\ had = 0 /\ restore = 0 /\ scroll = 0 /\ asks = 0 /\ stale = 0 /\ let = 0
  \/ /\ part = "editor" /\ K!Init
     /\ pending = 0 /\ todo = 0 /\ launched = 0 /\ ended = 0 /\ epoch = 0 /\ calls = 0 /\ cast = 0
     /\ clears = 0 /\ asked = 0 /\ archived = 0 /\ halted = 0 /\ buf = 0 /\ disk = 0 /\ queue = 0
     /\ timer = 0
     /\ saving = 0 /\ edit = 0 /\ opening = 0 /\ reloads = 0 /\ event = 0 /\ barrier = 0
     /\ closing = 0 /\ last = 0 /\ slow = 0 /\ counts = 0 /\ faults = 0 /\ phase = 0
     /\ draft = 0 /\ vault = 0
     /\ preview = 0 /\ editors = 0 /\ outcome = 0 /\ gen = 0 /\ loads = 0 /\ inFlight = 0
     /\ sourceLoading = 0 /\ call = 0 /\ prompt = 0 /\ token = 0 /\ unsure = 0 /\ ui = 0
     /\ layout = 0 /\ active = 0 /\ hook = 0 /\ css = 0 /\ written = 0 /\ focus = 0 /\ owner = 0
     /\ drag = 0 /\ latch = 0 /\ said = 0 /\ ws = 0 /\ live = 0 /\ restoring = 0 /\ writes = 0
     /\ flushes = 0 /\ close = 0 /\ reported = 0 /\ toasts = 0 /\ readable = 0 /\ blocked = 0
     /\ gone = 0 /\ crossed = 0 /\ due = 0 /\ tree = 0 /\ unread = 0 /\ expanded = 0
     /\ rootOpen = 0 /\ dirty = 0 /\ loading = 0 /\ rootLoad = 0 /\ rootError = 0 /\ fetch = 0
     /\ fetchOld = 0 /\ events = 0 /\ timers = 0 /\ walks = 0 /\ reveals = 0 /\ selected = 0
     /\ clicked = 0 /\ saved = 0 /\ go = 0 /\ chain = 0 /\ bridge = 0 /\ late = 0 /\ tries = 0
     /\ starts = 0 /\ doc = 0 /\ applied = 0 /\ withdrawn = 0 /\ base = 0 /\ gated = 0
     /\ shell = 0 /\ output = 0 /\ tabs = 0 /\ buffers = 0 /\ closed = 0 /\ xterms = 0
     /\ panel = 0 /\ creating = 0 /\ wanted = 0 /\ rename = 0 /\ root = 0 /\ search = 0
     /\ requests = 0 /\ index = 0 /\ languages = 0 /\ supports = 0 /\ lists = 0 /\ listGen = 0
     /\ task = 0 /\ want = 0 /\ boot = 0 /\ dropped = 0 /\ now = 0 /\ seen = 0 /\ had = 0
     /\ restore = 0 /\ scroll = 0 /\ asks = 0 /\ stale = 0 /\ let = 0
  \/ /\ part = "surfaces" /\ A!Init
     /\ store = 0 /\ pending = 0 /\ todo = 0 /\ launched = 0 /\ ended = 0 /\ load = 0 /\ epoch = 0
     /\ calls = 0 /\ cast = 0 /\ clears = 0 /\ asked = 0 /\ archived = 0 /\ halted = 0 /\ buf = 0
     /\ disk = 0
     /\ queue = 0 /\ saving = 0 /\ edit = 0 /\ opening = 0 /\ reloads = 0 /\ event = 0
     /\ barrier = 0 /\ closing = 0 /\ last = 0 /\ slow = 0 /\ counts = 0 /\ faults = 0
     /\ phase = 0 /\ draft = 0
     /\ vault = 0 /\ preview = 0 /\ editors = 0 /\ outcome = 0 /\ gen = 0 /\ loads = 0
     /\ inFlight = 0 /\ sourceLoading = 0 /\ call = 0 /\ prompt = 0 /\ token = 0 /\ unsure = 0
     /\ ui = 0 /\ layout = 0 /\ active = 0 /\ hook = 0 /\ css = 0 /\ written = 0 /\ owner = 0
     /\ drag = 0 /\ latch = 0 /\ said = 0 /\ ws = 0 /\ live = 0 /\ restoring = 0 /\ writes = 0
     /\ flushes = 0 /\ close = 0 /\ reported = 0 /\ toasts = 0 /\ readable = 0 /\ blocked = 0
     /\ gone = 0 /\ crossed = 0 /\ due = 0 /\ tree = 0 /\ unread = 0 /\ expanded = 0
     /\ rootOpen = 0 /\ dirty = 0 /\ loading = 0 /\ rootLoad = 0 /\ rootError = 0 /\ fetch = 0
     /\ fetchOld = 0 /\ events = 0 /\ timers = 0 /\ walks = 0 /\ reveals = 0 /\ selected = 0
     /\ clicked = 0 /\ saved = 0 /\ go = 0 /\ chain = 0 /\ bridge = 0 /\ view = 0 /\ late = 0
     /\ tries = 0 /\ starts = 0 /\ doc = 0 /\ applied = 0 /\ withdrawn = 0 /\ base = 0
     /\ gated = 0 /\ shell = 0 /\ output = 0 /\ tabs = 0 /\ buffers = 0 /\ closed = 0
     /\ xterms = 0 /\ panel = 0 /\ creating = 0 /\ wanted = 0 /\ rename = 0 /\ root = 0
     /\ search = 0 /\ requests = 0 /\ index = 0 /\ languages = 0 /\ supports = 0 /\ lists = 0
     /\ listGen = 0 /\ task = 0 /\ boot = 0 /\ dropped = 0 /\ props = 0 /\ cache = 0 /\ refs = 0
     /\ frames = 0 /\ moved = 0 /\ head = 0 /\ jumps = 0 /\ look = 0 /\ landed = 0

WStep == part = "session" /\ W!Next /\ UNCHANGED WRest
TStep == part = "tree" /\ T!Next /\ UNCHANGED TRest
CStep == part = "chat" /\ C!Next /\ UNCHANGED CRest
DStep == part = "route" /\ D!Next /\ UNCHANGED DRest
HStep == part = "reach" /\ H!Next /\ UNCHANGED HRest
EStep == part = "terminals" /\ E!Next /\ UNCHANGED ERest
SStep == part = "search" /\ S!Next /\ UNCHANGED SRest
NStep == part = "profiles" /\ N!Next /\ UNCHANGED NRest
KStep == part = "editor" /\ K!Next /\ UNCHANGED KRest
AStep == part = "surfaces" /\ A!Next /\ UNCHANGED ARest
StoreStep == StoreNext /\ UNCHANGED others

Next == StoreStep \/ WStep \/ TStep \/ CStep \/ DStep \/ HStep \/ EStep \/ SStep \/ NStep \/ KStep \/ AStep

Spec == Init /\ [][Next]_vars

-----------------------------------------------------------------------------
(* Each directory shown is as on disk, or is marked for another read; and   *)
(* the selection follows the active file.                                   *)
TreeConverges == part = "tree" => T!TreeConverges /\ T!SelectionFollows

(* No turn is lost, shown twice or left running by answers and events that  *)
(* overlap a closed repository, a new chat or a reload.                     *)
TurnsKept == part = "chat" => C!TurnsKept /\ C!TurnOnce /\ C!NoGhostRun

(* Nothing the user has is dropped on the way: a later save takes nothing   *)
(* out of a session, a profile is replaced only as the user confirmed, and  *)
(* a jump that gives up takes no other's request with it.                   *)
NothingDropped ==
  [][/\ part = "session" => W!MarksKept
     /\ part = "profiles" => N!ConfirmedOnly
     /\ part = "editor" => K!RequestsKept]_vars

(* The gate and the draft of the route editor mirror the configuration, and *)
(* what it foresees of a draft is what the backend makes of the changes.    *)
DraftMirrored == IF part = "route" THEN D!GateMirrored
     /\ D!DraftMirrored ELSE part = "reach" => H!ReachSound

(* What a shell wrote is shown or waits, whole and in order, and nothing is *)
(* kept of a closed one; the search shows the answer of the newest request  *)
(* of the open workspace, with the focus among its rows; a profile menu is  *)
(* at the step of its own call and strands no keyboard; the code editor     *)
(* follows the active tab, and a jump ends where it went; the surface that  *)
(* was chosen is shown, and a close hands the keyboard on; and a quit is    *)
(* confirmed when the saves of the session have landed or were refused,     *)
(* each reported by one sticky toast.                                       *)
PanelsSound ==
  /\ part = "terminals" => E!TerminalsSound
  /\ part = "search" => S!SearchSound
  /\ part = "profiles" => N!ProfilesSound
  /\ part = "editor" => K!EditorSound
  /\ part = "surfaces" => A!SurfacesSound
  /\ part = "session" => W!CloseSaves /\ W!ToastsTrue

(* A quit is confirmed when every save has landed, also those of a session  *)
(* that the user has left.                                                  *)
CloseLandsAll == part = "session" => W!CloseLandsAll
=============================================================================
