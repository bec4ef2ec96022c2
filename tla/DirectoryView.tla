---------------------------- MODULE DirectoryView ----------------------------
(***************************************************************************)
(* What the page shows of the directory: the list with its search box, its *)
(* two filters and the bulk-select bar, and the pane beside it, which the  *)
(* URL names: a fellow, a group with the rows whose fellow has left the    *)
(* directory, or a page of its own.                                        *)
(*                                                                         *)
(* Every answer changes the page in its own way and at its own time, and   *)
(* few of them look at what the page has become since the question.  In    *)
(* worker mode the reads are answered in their order and a write may be    *)
(* overtaken; on the API fallback a search is a fetch and comes back in    *)
(* any order.                                                              *)
(*                                                                         *)
(* `db' is the directory that the worker (or the server) answers from;     *)
(* `members' and `setting' are in the private-data store, which is the     *)
(* same for as long as the page lives; `folder' is what the page was last  *)
(* told of the folder it is in (PrivateDataGate, where a page without one  *)
(* is also sent away from the groups: here that is one of the GoTo's).     *)
(***************************************************************************)
EXTENDS Naturals, Sequences, FiniteSets

CONSTANTS Fellows,
          Queries,      \* what may be in the search box, beside nothing
          Hits,         \* the fellows that each query finds
          WithEmail,    \* the fellows that the "has email" box keeps
          Picked,       \* the fellows that the structured filter keeps
          Directories,  \* the contents fellows.db may have
          None,
          MaxCalls,     \* calls in flight when the member acts: a bound
          MaxUpdates,   \* updates of the directory data: a bound
          MaxRash       \* kinds of mishap (see `rash', `unsaved') at a time: a bound

ASSUME NoneAssumption == None \notin Fellows \cup Queries
ASSUME NamesAssumption ==
  Fellows \cap {"directory", "group", "about", "nobody", "loading", "error"} = {}
ASSUME DataAssumption ==
  /\ Hits \in [Queries -> SUBSET Fellows]
  /\ WithEmail \subseteq Fellows /\ Picked \subseteq Fellows
  /\ Directories \subseteq (SUBSET Fellows) \ {{}}
ASSUME BoundAssumption == MaxCalls \in Nat \ {0} /\ MaxUpdates \in Nat /\ MaxRash \in Nat

VARIABLES source,   \* where the directory comes from: "worker" or "api"
          folder,   \* whether it has been told that the member's folder can be reached
          db, members, setting, page,
          unsaved,  \* history: the box was last set, or read, while it could not be saved
          updates, rash, removed

vars == <<source, folder, db, members, setting, page, unsaved, updates, rash, removed>>

Boxes  == Queries \cup {None}
Places == {"directory", "group", "about"} \cup Fellows

\* A URL: the place and whether its hash carries the structured filter.
At(place) == [at |-> place, filter |-> FALSE]

Reads  == {"pref", "list0", "full0", "list", "full", "scan", "search", "local", "one", "group"}
Writes == {"apply", "save", "remove"}

\* A call in flight: `arg' is a query, a fellow, a directory, what a group is to have, or a box's state.
Ask(kind, arg) == [kind |-> kind, arg |-> arg]

Send(p, kind, arg) == [p EXCEPT !.calls = Append(@, Ask(kind, arg))]
Answered(p, i) == [p EXCEPT !.calls = SubSeq(@, 1, i - 1) \o SubSeq(@, i + 1, Len(@))]

\* Without the worker there is no folder.
privateDataEnabled == source = "worker" /\ folder

InFlight(kinds) == \E i \in 1..Len(page.calls) : page.calls[i].kind \in kinds

Blank(at) == [at |-> at, rows |-> {}, flagged |-> {}, busy |-> {}]

\* History: which of the things that the properties below except has happened.
Mishaps(kinds, u) == Cardinality(kinds) + (IF u THEN 1 ELSE 0)
Note(s)    == rash' = rash \cup s /\ Mishaps(rash', unsaved) <= MaxRash
Unsaved(u) == unsaved' = u /\ Mishaps(rash, u) <= MaxRash

-----------------------------------------------------------------------------
(* What the functions of the page do to its state.                         *)

\* A row of the list is the short one until the full rows are there; a filter needs the full one.
applyFilters(p, rows) ==
  {f \in rows : (p.mail => f \in WithEmail) /\ (p.filter => f \in p.known \cap Picked)}

\* The bulk bar counts what is displayed, and is hidden on an unfiltered list.
updateBulkBar(p) ==
  [p EXCEPT !.bar = IF (p.box # None \/ p.mail) /\ p.displayed # {} THEN p.displayed ELSE {}]

keeps_displayed_when_nothing_matches(p) ==
  LET rows == applyFilters(p, p.list) IN
  IF p.list = {} THEN updateBulkBar([p EXCEPT !.shown = {}])
  ELSE updateBulkBar([p EXCEPT !.shown = rows, !.displayed = IF rows = {} THEN @ ELSE rows])

renderDirectory(p) ==
  LET rows == applyFilters(p, p.list) IN
  IF p.list = {} THEN updateBulkBar([p EXCEPT !.shown = {}])
  ELSE updateBulkBar([p EXCEPT !.shown = rows, !.displayed = rows])

\* Search results are full rows; the bar is left as it was when none of them passes the filters.
renderSearchResults(p, found) ==
  LET q == [p EXCEPT !.known = @ \cup found]
      rows == applyFilters(q, found)
      r == [q EXCEPT !.shown = rows, !.displayed = rows]
  IN  IF rows = {} THEN r ELSE updateBulkBar(r)

runSearch(p, q) ==
  IF q = None THEN {renderDirectory(p)}
  ELSE {Send(p, "search", q)} \cup (IF source = "api" THEN {Send(p, "local", q)} ELSE {})

rerenders_the_list(p) == IF p.list # {} THEN {renderDirectory(p)} ELSE {p}

rerenderForFilterChange(p) ==
  IF p.box # None THEN runSearch(p, p.box)
  ELSE IF p.list # {} THEN {renderDirectory(p)} ELSE {p}

\* A link that carries the filter names nobody, unless it is the directory's: the slug takes the
\* filter with it, and no other page's name matches.
SlugOf(u) == IF u.filter THEN None ELSE u.at

renderGroupDetailPage(p) ==
  IF source = "api" THEN [p EXCEPT !.pane = Blank("error")]
  ELSE Send([p EXCEPT !.pane = Blank("loading")], "group", None)

shows_the_slug(p) ==
  IF p.url.at \notin Fellows THEN [p EXCEPT !.pane = Blank("nobody")]
  ELSE [p EXCEPT !.pane = Blank(SlugOf(p.url))]

updateDetailFromHash(p) ==
  IF p.url.at \notin Fellows THEN [p EXCEPT !.pane = Blank("nobody")]
  ELSE IF SlugOf(p.url) \in p.known THEN [p EXCEPT !.pane = Blank(p.url.at)]
  ELSE Send([p EXCEPT !.pane = Blank("loading")], "one", SlugOf(p.url))

Pane(p) ==
  CASE p.url = At("about") -> [p EXCEPT !.pane = Blank("about")]
    [] p.url.at = "group" -> renderGroupDetailPage(p)
    [] OTHER              -> updateDetailFromHash(p)

\* route: the filter is read from the URL, the list rendered if it changed, and then the pane.
route(p, u) ==
  LET q == [p EXCEPT !.url = u, !.filter = u.filter]
  IN  {Pane(r) : r \in IF u.filter # p.filter THEN rerenderForFilterChange(q) ELSE {q}}

-----------------------------------------------------------------------------
(* The member.                                                             *)

\* The app is hidden until the first list is rendered.
Usable == page.boot # "list"
Room == Usable /\ Len(page.calls) < MaxCalls

GoTo(u) ==
  /\ Room
  /\ u # page.url
  /\ page' \in route(page, u)
  /\ UNCHANGED <<source, folder, db, members, setting, unsaved, updates, rash, removed>>

TypeQuery(q) ==
  /\ Usable
  /\ q # page.box
  /\ page' = [page EXCEPT !.box = q, !.due = TRUE]
  /\ UNCHANGED <<source, folder, db, members, setting, unsaved, updates, rash, removed>>

\* handleSearchInput, when the box has rested for 250 ms.
SearchDebounced ==
  /\ Room
  /\ page.due
  /\ page' \in runSearch([page EXCEPT !.due = FALSE], page.box)
  /\ UNCHANGED <<source, folder, db, members, setting, unsaved, updates, rash, removed>>

\* saveHasEmailFilter: in localStorage, and in the settings too if there is a folder, by a call not
\* awaited.
ToggleHasEmail ==
  /\ Room
  /\ LET p == [page EXCEPT !.mail = ~@]
         q == IF privateDataEnabled THEN Send(p, "save", p.mail) ELSE p
     IN  page' \in runSearch(q, page.box)
  /\ Unsaved(source = "worker" /\ ~folder)
  /\ UNCHANGED <<source, folder, db, members, setting, updates, rash, removed>>

\* The URL's hash, as it is, gets the filter; no route follows.
writeFiltersToHash(p) == [p EXCEPT !.url.filter = p.filter]

\* A change in the filter sheet, which the full rows enable and a group's page hides; or its Reset.
ToggleFilter ==
  /\ Room
  /\ page.boot = "done" /\ page.url.at # "group"
  /\ page' \in rerenderForFilterChange(writeFiltersToHash([page EXCEPT !.filter = ~@]))
  /\ UNCHANGED <<source, folder, db, members, setting, unsaved, updates, rash, removed>>

keeps_the_row(f) ==
  /\ Room /\ privateDataEnabled
  /\ f \in page.pane.flagged \ page.pane.busy
  /\ page' = Send([page EXCEPT !.pane.busy = @ \cup {f}], "remove",
                  [group |-> page.pane.rows, gone |-> f])
  /\ Note(IF InFlight({"remove"}) THEN {"twice"} ELSE {})
  /\ UNCHANGED <<source, folder, db, members, setting, unsaved, updates, removed>>

\* "Remove", on a row of the group whose fellow is gone: the members shown, less that one.
\* Without a folder the page refuses at once (refuseIfBrowseOnly), and all is as before.
RemoveOrphan(f) ==
  /\ Room /\ privateDataEnabled
  /\ f \in page.pane.flagged \ page.pane.busy
  /\ page' = Send([page EXCEPT !.pane.busy = @ \cup {f}], "remove",
                  [group |-> page.pane.rows \ {f}, gone |-> f])
  /\ Note(IF InFlight({"remove"}) THEN {"twice"} ELSE {})
  /\ UNCHANGED <<source, folder, db, members, setting, unsaved, updates, removed>>

\* "Update directory data", previewed and confirmed.
UpdateDirectoryData(d) ==
  /\ Room
  /\ source = "worker" /\ page.pane.at = "about" /\ page.boot = "done"
  /\ updates < MaxUpdates /\ d # db
  /\ updates' = updates + 1
  /\ page' = Send(page, "apply", d)
  /\ UNCHANGED <<source, folder, db, members, setting, unsaved, rash, removed>>

-----------------------------------------------------------------------------
(* The answers.  A read of the worker waits for the reads before it; a     *)
(* fetch waits for nothing.                                                *)

CanAnswer(i) ==
  source = "worker" => \A j \in 1..(i - 1) : page.calls[j].kind \in Writes

Answer(i, kind) ==
  /\ page.calls[i].kind = kind
  /\ CanAnswer(i)

\* The box asks for something else, and nothing under way will show that.
Crossed(p, q) ==
  /\ ~p.due /\ p.box # q
  /\ ~\E i \in 1..Len(p.calls) : p.calls[i].kind \in {"search", "local"} /\ p.calls[i].arg = p.box

SearchAnswers(i) ==
  LET q == page.calls[i].arg IN
  /\ Answer(i, "search")
  /\ page' = renderSearchResults(Answered(page, i), Hits[q] \cap db)
  /\ Note(IF Crossed(page, q) THEN {"crossed"} ELSE {})
  /\ UNCHANGED <<source, folder, db, members, setting, unsaved, updates, removed>>

\* A failed fetch falls back on the rows the page or the mirror has.
SearchFails(i) ==
  LET q == page.calls[i].arg IN
  /\ Answer(i, "search")
  /\ page' = IF source = "worker" THEN Answered(page, i) ELSE Send(Answered(page, i), "local", q)
  /\ Note(IF source = "worker" THEN {"failed"} ELSE {})
  /\ UNCHANGED <<source, folder, db, members, setting, unsaved, updates, removed>>

\* runLocalSearch; the mirror may be empty, and what it gave is kept.
LocalAnswers(i) ==
  LET q == page.calls[i].arg IN
  /\ Answer(i, "local")
  /\ \E rows \in IF page.cache # None THEN {page.cache} ELSE {{}, db} :
       LET p == [Answered(page, i) EXCEPT !.cache = rows] IN
       /\ page' = IF rows = {} THEN [p EXCEPT !.shown = {}] ELSE renderSearchResults(p, Hits[q] \cap rows)
       /\ Note((IF Crossed(page, q) THEN {"crossed"} ELSE {}) \cup (IF rows = {} THEN {"uncached"} ELSE {}))
  /\ UNCHANGED <<source, folder, db, members, setting, unsaved, updates, removed>>

\* The boot: the list, then the full rows; each is followed by a route, and the last, where there is
\* a folder, by a look for those who have left.
ListArrives(i) ==
  /\ Answer(i, "list0")
  /\ LET p == renderDirectory([Answered(page, i) EXCEPT !.list = db, !.boot = "full"]) IN
     page' \in {Send(r, "full0", None) : r \in route(p, p.url)}
  /\ UNCHANGED <<source, folder, db, members, setting, unsaved, updates, rash, removed>>

FullArrives(i) ==
  /\ Answer(i, "full0")
  /\ LET p == [Answered(page, i) EXCEPT !.known = @ \cup db, !.cache = db, !.boot = "done"] IN
     page' \in {IF privateDataEnabled THEN Send(r, "scan", None) ELSE r : r \in route(p, p.url)}
  /\ Note(IF page.filter THEN {"early"} ELSE {})
  /\ UNCHANGED <<source, folder, db, members, setting, unsaved, updates, removed>>

\* A store that cannot be reached answers that nothing was saved.
Stored == IF privateDataEnabled THEN {setting} ELSE {setting, None}

not_migrated(i) ==
  LET p == Answered(page, i) IN
  /\ Answer(i, "pref")
  /\ \E v \in Stored :
       /\ page' = IF v = None THEN p ELSE [p EXCEPT !.mail = v]
       /\ Unsaved(v = None /\ ~privateDataEnabled)
  /\ UNCHANGED <<source, folder, db, members, setting, updates, rash, removed>>

\* reconcileHasEmailFilterOnBoot: the setting goes into the box; if there is none, and a folder to
\* save it in, the box into the setting.  Nothing renders the list again: updateDirectory does not
\* exist.
PrefArrives(i) ==
  LET p == Answered(page, i) IN
  /\ Answer(i, "pref")
  /\ \E v \in Stored :
       /\ page' = IF v # None THEN [p EXCEPT !.mail = v]
                  ELSE IF privateDataEnabled THEN Send(p, "save", p.mail) ELSE p
       /\ Unsaved(v = None /\ ~privateDataEnabled)
  /\ UNCHANGED <<source, folder, db, members, setting, updates, rash, removed>>

SettingSaved(i) ==
  /\ Answer(i, "save")
  /\ setting' = page.calls[i].arg
  /\ page' = Answered(page, i)
  /\ Note(IF \E j \in 1..(i - 1) : page.calls[j].kind = "save" THEN {"overtaken"} ELSE {})
  /\ UNCHANGED <<source, folder, db, members, unsaved, updates, removed>>

\* updateDetailFromHash: shown only if the URL still names the fellow.
FellowArrives(i) ==
  LET f == page.calls[i].arg
      p == [Answered(page, i) EXCEPT !.known = @ \cup ({f} \cap db)]
  IN  /\ Answer(i, "one")
      /\ page' = IF page.url.at \in Fellows /\ SlugOf(page.url) = f
                   THEN [p EXCEPT !.pane = Blank(IF f \in db THEN f ELSE "nobody")]
                   ELSE p
      /\ UNCHANGED <<source, folder, db, members, setting, unsaved, updates, rash, removed>>

\* The page of the group, whatever the URL is by now.
GroupArrives(i) ==
  LET p == Answered(page, i) IN
  /\ Answer(i, "group")
  /\ page' = [p EXCEPT !.pane =
       [at |-> "group", rows |-> members, flagged |-> members \cap (p.orphans \cup (Fellows \ p.known)),
        busy |-> {}]]
  /\ Note(IF page.url.at # "group" THEN {"strayed"} ELSE {})
  /\ UNCHANGED <<source, folder, db, members, setting, unsaved, updates, removed>>

\* The row is gone from the store; the page of the group is rendered, whatever the URL is.
OrphanRemoved(i) ==
  LET c == page.calls[i] IN
  /\ Answer(i, "remove")
  /\ members' = c.arg.group
  /\ removed' = removed \cup {c.arg.gone}
  /\ page' = renderGroupDetailPage([Answered(page, i) EXCEPT !.orphans = @ \ {c.arg.gone}])
  /\ Note(IF page.url.at # "group" THEN {"strayed"} ELSE {})
  /\ UNCHANGED <<source, folder, db, setting, unsaved, updates>>

\* The update: the list, rendered whatever the search box says, the full rows, then the orphans.
UpdateApplied(i) ==
  /\ Answer(i, "apply")
  /\ db' = page.calls[i].arg
  /\ page' = Send(Answered(page, i), "list", None)
  /\ UNCHANGED <<source, folder, members, setting, unsaved, updates, rash, removed>>

ListReloads(i) ==
  /\ Answer(i, "list")
  /\ page' = Send(renderDirectory([Answered(page, i) EXCEPT !.list = db]), "full", None)
  /\ Note(IF page.box # None THEN {"swapped"} ELSE {})
  /\ UNCHANGED <<source, folder, db, members, setting, unsaved, updates, removed>>

full_without_route(i) ==
  /\ Answer(i, "full")
  /\ page' = Send([Answered(page, i) EXCEPT !.known = db, !.cache = db], "scan", None)
  /\ Note(IF page.filter THEN {"early"} ELSE {})
  /\ UNCHANGED <<source, folder, db, members, setting, unsaved, updates, removed>>

FullReloads(i) ==
  /\ Answer(i, "full")
  /\ LET p == [Answered(page, i) EXCEPT !.known = db, !.cache = db] IN
     page' \in {Send(r, "scan", None) : r \in IF p.url.at = "about" THEN {p} ELSE route(p, p.url)}
  /\ Note(IF page.filter THEN {"early"} ELSE {})
  /\ UNCHANGED <<source, folder, db, members, setting, unsaved, updates, removed>>

\* maybeRunOrphanSoftScan, and the end of an update: the rows shown are not rendered again.
ScanAnswers(i) ==
  /\ Answer(i, "scan")
  /\ page' = [Answered(page, i) EXCEPT !.orphans = members \ db]
  /\ Note(IF page.orphans \cap db # {} THEN {"returned"} ELSE {})
  /\ UNCHANGED <<source, folder, db, members, setting, unsaved, updates, removed>>

\* Any other call may fail: the page says so, or nothing; an update goes on to its last step.
CallFails(i) ==
  LET c == page.calls[i]
      p == Answered(page, i)
  IN  /\ c.kind \in {"pref", "save", "remove", "one", "group", "scan", "apply", "list", "full"}
      /\ CanAnswer(i)
      /\ page' = CASE c.kind = "group" -> [p EXCEPT !.pane = Blank("error")]
                   [] c.kind = "one" /\ page.url.at \in Fellows /\ SlugOf(page.url) = c.arg -> [p EXCEPT !.pane = Blank("nobody")]
                   [] c.kind = "remove" -> [p EXCEPT !.pane.busy = @ \ {c.arg.gone}]
                   [] c.kind \in {"list", "full"} -> Send(p, "scan", None)
                   [] OTHER -> p
      /\ Note({"failed"})
      /\ UNCHANGED <<source, folder, db, members, setting, unsaved, updates, removed>>

\* updatePrivateDataGate: at the boot, and after whatever flow, write or lapse it is asked again.
GateResolves ==
  /\ source = "worker"
  /\ folder' = ~folder
  /\ Note(IF folder THEN {"lapsed"} ELSE {})
  /\ UNCHANGED <<source, db, members, setting, page, unsaved, updates, removed>>

-----------------------------------------------------------------------------
Init ==
  /\ source \in {"worker", "api"}
  /\ db \in Directories
  /\ members \in SUBSET Fellows
  /\ setting \in BOOLEAN \cup {None}
  /\ folder = FALSE /\ unsaved = FALSE
  /\ updates = 0 /\ rash = {} /\ removed = {}
  /\ \E place \in Places, filter \in BOOLEAN, mail \in BOOLEAN :
       /\ filter => place = "directory"
       /\ page = [url |-> [at |-> place, filter |-> filter], box |-> None, due |-> FALSE,
                  mail |-> mail, filter |-> filter, list |-> {}, known |-> {}, cache |-> None,
                  displayed |-> {}, shown |-> {}, bar |-> {}, pane |-> Blank("nobody"),
                  orphans |-> {}, boot |-> "list",
                  calls |-> IF source = "worker" THEN <<Ask("pref", None), Ask("list0", None)>>
                                                 ELSE <<Ask("list0", None)>>]

\* The links of the page, and the directory with its filter by the back button or a shared link.
Links == {At(p) : p \in Places} \cup {[at |-> "directory", filter |-> TRUE]}

Member ==
  \/ \E u \in Links : GoTo(u)
  \/ \E q \in Boxes : TypeQuery(q)
  \/ SearchDebounced
  \/ ToggleHasEmail
  \/ ToggleFilter
  \/ \E f \in Fellows : RemoveOrphan(f)
  \/ \E d \in Directories : UpdateDirectoryData(d)

Search(i) == SearchAnswers(i) \/ SearchFails(i) \/ LocalAnswers(i)
Boot(i)   == PrefArrives(i) \/ ListArrives(i) \/ FullArrives(i) \/ ScanAnswers(i)
Update(i) == UpdateApplied(i) \/ ListReloads(i) \/ FullReloads(i)
Store(i)  == SettingSaved(i) \/ FellowArrives(i) \/ GroupArrives(i) \/ OrphanRemoved(i)

Next ==
  \/ Member \/ GateResolves
  \/ \E i \in 1..Len(page.calls) : Search(i) \/ Boot(i) \/ Update(i) \/ Store(i) \/ CallFails(i)

Spec == Init /\ [][Next]_vars

-----------------------------------------------------------------------------
TypeOK ==
  /\ source \in {"worker", "api"}
  /\ db \in Directories
  /\ members \subseteq Fellows /\ removed \subseteq Fellows
  /\ setting \in BOOLEAN \cup {None} /\ {folder, unsaved} \subseteq BOOLEAN
  /\ updates \in 0..MaxUpdates
  /\ page.url \in [at : Places, filter : BOOLEAN]
  /\ page.box \in Boxes /\ page.cache \in (SUBSET Fellows) \cup {None}
  /\ {page.due, page.mail, page.filter} \subseteq BOOLEAN
  /\ page.list \cup page.known \cup page.displayed \cup page.shown \cup page.bar \cup page.orphans
       \subseteq Fellows
  /\ page.pane \in [at : Places \cup {"nobody", "loading", "error"}, rows : SUBSET Fellows,
                    flagged : SUBSET Fellows, busy : SUBSET Fellows]
  /\ page.boot \in {"list", "full", "done"}
  /\ \A i \in 1..Len(page.calls) : page.calls[i].kind \in Reads \cup Writes

Without(s) == rash \cap s = {}

Quiet == page.calls = <<>> /\ ~page.due /\ page.boot = "done"

Wanted ==
  {f \in IF page.box = None THEN db ELSE Hits[page.box] \cap db :
     (page.mail => f \in WithEmail) /\ (page.filter => f \in Picked)}

\* The list shows what the box and the filters of now ask of the directory of now, in whatever
\* order they were changed and answered.
ListIsWhatWasAsked ==
  Quiet /\ Without({"crossed", "early", "swapped", "failed", "uncached"}) => page.shown = Wanted

\* "Select all" takes the rows that are shown, and its label counts them.
BulkSelectsWhatIsShown ==
  Without({"uncached"}) =>
    page.displayed = page.shown /\ (page.bar # {} /\ page.shown # {} => page.bar = page.shown)

\* The pane is the URL's: a fellow's page is never under another URL, however late its row arrives,
\* and at rest the group's page shows the group as it is and offers to remove those that have left,
\* and only those.
PaneIsTheUrls ==
  /\ page.pane.at \in Fellows => page.url.at = page.pane.at
  /\ Quiet /\ Without({"strayed", "failed", "returned"}) /\ source = "worker" =>
       /\ page.pane.at = "group" <=> page.url.at = "group"
       /\ page.pane.at = "group" => page.pane.rows = members /\ page.pane.flagged = members \ db

\* Who was removed from the group stays removed.
RemovedStaysRemoved == Without({"twice"}) => removed \cap members = {}

\* The box on the page, which localStorage keeps, and the setting of the store end up the same, if
\* the page knew of the folder when the box was last set or read.  Otherwise nothing saves the box,
\* and the setting, if there is one, takes it back at the next boot.
SettingAgrees ==
  Quiet /\ source = "worker" /\ Without({"overtaken", "failed"}) /\ ~unsaved => setting = page.mail

=============================================================================
