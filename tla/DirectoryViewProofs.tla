------------------------ MODULE DirectoryViewProofs ------------------------
(***************************************************************************)
(* Theorems about DirectoryView, for any fellows, queries and bounds: the  *)
(* type invariant, that a bulk action takes the rows that are shown, that  *)
(* who was removed from the group stays removed, that a page at rest lists *)
(* what the box and the filters ask for and has the pane the URL names,    *)
(* and that the 'has email' box and its setting agree.                     *)
(*                                                                         *)
(* Sound is the inductive invariant of the page.  Its parameters are the   *)
(* mishaps that have happened and the fellows that were removed, so that   *)
(* what a function of the page preserves can be said before the action     *)
(* that calls it has noted a mishap or removed a member.                   *)
(*                                                                         *)
(* Follows, inductive together with Sound, is about what is on its way: a  *)
(* part of the page either agrees with what it is to show, or the call     *)
(* whose answer will make it agree is due or in flight.                    *)
(***************************************************************************)
EXTENDS DirectoryView, CallQueues

Removal == [group : SUBSET Fellows, gone : Fellows]

\* What may be in flight, each kind with what it carries.
Calls ==
  [kind : {"apply"}, arg : Directories] \cup [kind : {"remove"}, arg : Removal]
    \cup [kind : {"save"}, arg : BOOLEAN] \cup [kind : {"search", "local"}, arg : Queries]
    \cup [kind : {"one"}, arg : Fellows \cup {None}]
    \cup [kind : {"pref", "list0", "full0", "list", "full", "scan", "group"}, arg : {None}]

Panes == [at : Places \cup {"nobody", "loading", "error"}, rows : SUBSET Fellows,
          flagged : SUBSET Fellows, busy : SUBSET Fellows]

Pages ==
  [url : [at : Places, filter : BOOLEAN], box : Boxes, due : BOOLEAN, mail : BOOLEAN,
   filter : BOOLEAN, list : SUBSET Fellows, known : SUBSET Fellows,
   cache : (SUBSET Fellows) \cup {None}, displayed : SUBSET Fellows, shown : SUBSET Fellows,
   bar : SUBSET Fellows, pane : Panes, orphans : SUBSET Fellows,
   boot : {"list", "full", "done"}, calls : Seq(Calls)]

\* The list has come before anything that renders it is used, and never goes again.
Listed(p) ==
  /\ p.boot # "list" => p.list # {}
  /\ \A i \in 1..Len(p.calls) : p.calls[i].kind \in {"full0", "full"} => p.list # {}

\* No row of the group's page and no removal under way names a fellow of `gone', or the fellow
\* it removes, and one removal is under way at most.
Removing(p, gone) ==
  /\ p.pane.rows \cap gone = {}
  /\ \A i \in 1..Len(p.calls) :
       p.calls[i].kind = "remove" => p.calls[i].arg.group \cap (gone \cup {p.calls[i].arg.gone}) = {}
  /\ \A i, j \in 1..Len(p.calls) : p.calls[i].kind = "remove" /\ p.calls[j].kind = "remove" => i = j

\* What "select all" takes, and what its label counts.
Bulk(p) ==
  /\ p.displayed = p.shown
  /\ p.bar # {} /\ p.shown # {} => p.bar = p.shown

Sound(p, mishaps, gone) ==
  /\ p \in Pages
  /\ Listed(p)
  /\ "twice" \notin mishaps => Removing(p, gone)
  /\ "uncached" \notin mishaps => Bulk(p)

Inv ==
  /\ source \in {"worker", "api"}
  /\ db \in Directories
  /\ members \subseteq Fellows /\ removed \subseteq Fellows
  /\ setting \in BOOLEAN \cup {None}
  /\ folder \in BOOLEAN /\ unsaved \in BOOLEAN
  /\ updates \in 0..MaxUpdates
  /\ Sound(page, rash, removed)
  /\ RemovedStaysRemoved

-----------------------------------------------------------------------------
(* What the queue of calls and the rest of the page contribute.            *)

\* A mishap more is a promise less.
LEMMA MoreMishaps ==
  ASSUME NEW p, NEW s, NEW t, NEW gone, Sound(p, s, gone), s \subseteq t
  PROVE  Sound(p, t, gone)
BY DEF Sound

\* Sound reads no field but these.
LEMMA Alike ==
  ASSUME NEW p, NEW s, NEW gone, Sound(p, s, gone),
         NEW q \in Pages,
         q.list = p.list, q.boot = p.boot, q.calls = p.calls, q.pane.rows = p.pane.rows,
         q.displayed = p.displayed, q.shown = p.shown, q.bar = p.bar
  PROVE  Sound(q, s, gone)
BY DEF Sound, Listed, Removing, Bulk

LEMMA CallOfPage ==
  ASSUME NEW p \in Pages
  PROVE  /\ p.calls \in Seq(Calls) /\ Len(p.calls) \in Nat
         /\ \A i \in 1..Len(p.calls) : p.calls[i] \in Calls
<1>1. p.calls \in Seq(Calls)
  BY DEF Pages
<1>. QED
  BY <1>1, LenProperties, ElementOfSeq

\* A call is sent.
LEMMA Sent ==
  ASSUME NEW p \in Pages, NEW kind, NEW arg, Ask(kind, arg) \in Calls
  PROVE  LET q == Send(p, kind, arg) IN
         /\ q \in Pages
         /\ q.list = p.list /\ q.boot = p.boot /\ q.pane = p.pane
         /\ q.displayed = p.displayed /\ q.shown = p.shown /\ q.bar = p.bar
         /\ Len(q.calls) = Len(p.calls) + 1
         /\ \A i \in 1..Len(q.calls) :
              IF i = Len(q.calls) THEN q.calls[i] = Ask(kind, arg)
              ELSE i \in 1..Len(p.calls) /\ q.calls[i] = p.calls[i]
<1> DEFINE q == Send(p, kind, arg)
           c == Ask(kind, arg)
<1>1. p.calls \in Seq(Calls) /\ Len(p.calls) \in Nat
  BY CallOfPage
<1>2. /\ Append(p.calls, c) \in Seq(Calls)
      /\ Len(Append(p.calls, c)) = Len(p.calls) + 1
      /\ \A i \in 1..Len(p.calls) : Append(p.calls, c)[i] = p.calls[i]
      /\ Append(p.calls, c)[Len(p.calls) + 1] = c
  BY <1>1, AppendProperties
<1>3. q \in Pages /\ q.calls = Append(p.calls, c)
  BY <1>2 DEF Send, Pages
<1>4. /\ q.list = p.list /\ q.boot = p.boot /\ q.pane = p.pane
      /\ q.displayed = p.displayed /\ q.shown = p.shown /\ q.bar = p.bar
  BY DEF Send, Pages
<1> HIDE DEF c
<1>5. \A i \in 1..Len(q.calls) :
        IF i = Len(q.calls) THEN q.calls[i] = c ELSE i \in 1..Len(p.calls) /\ q.calls[i] = p.calls[i]
  BY <1>1, <1>2, <1>3
<1>. QED
  BY <1>2, <1>3, <1>4, <1>5 DEF c

\* Any call but a removal may be sent, the reading of the full rows only when the list has come.
LEMMA SendIsSound ==
  ASSUME NEW p, NEW s, NEW gone, Sound(p, s, gone), NEW kind, NEW arg,
         Ask(kind, arg) \in Calls, kind # "remove", kind \in {"full0", "full"} => p.list # {}
  PROVE  Sound(Send(p, kind, arg), s, gone) /\ Send(p, kind, arg).list = p.list
<1> DEFINE q == Send(p, kind, arg)
<1>1. p \in Pages /\ Ask(kind, arg).kind = kind
  BY DEF Sound, Ask
<1>2. /\ q \in Pages
      /\ q.list = p.list /\ q.boot = p.boot /\ q.pane = p.pane
      /\ q.displayed = p.displayed /\ q.shown = p.shown /\ q.bar = p.bar
  BY <1>1, Sent
<1>3. \A i \in 1..Len(q.calls) :
        (i \in 1..Len(p.calls) /\ q.calls[i] = p.calls[i]) \/ q.calls[i].kind = kind
  BY <1>1, Sent
<1> HIDE DEF q
<1>4. Listed(q)
  BY <1>2, <1>3 DEF Sound, Listed
<1>5. ASSUME Removing(p, gone) PROVE Removing(q, gone)
  <2>1. \A i \in 1..Len(q.calls) : q.calls[i].kind = "remove" => i \in 1..Len(p.calls) /\ q.calls[i] = p.calls[i]
    BY <1>3
  <2>. QED
    BY <1>2, <1>5, <2>1 DEF Removing
<1>6. Bulk(p) => Bulk(q)
  BY <1>2 DEF Bulk
<1>7. Sound(q, s, gone)
  BY <1>2, <1>4, <1>5, <1>6 DEF Sound
<1>. QED
  BY <1>2, <1>7 DEF q

\* A removal of a member from the rows shown, while no other is under way.
LEMMA RemovalIsSound ==
  ASSUME NEW p, NEW s, NEW gone, Sound(p, s, gone), NEW f \in Fellows,
         "twice" \notin s => \A i \in 1..Len(p.calls) : p.calls[i].kind # "remove"
  PROVE  Sound(Send(p, "remove", [group |-> p.pane.rows \ {f}, gone |-> f]), s, gone)
<1> DEFINE arg == [group |-> p.pane.rows \ {f}, gone |-> f]
           q == Send(p, "remove", arg)
<1>1. p \in Pages
  BY DEF Sound
<1>2. arg \in Removal /\ arg.group = p.pane.rows \ {f} /\ arg.gone = f
  BY <1>1 DEF Removal, Pages, Panes
<1> HIDE DEF arg
<1>3. Ask("remove", arg) \in Calls /\ Ask("remove", arg).kind = "remove" /\ Ask("remove", arg).arg = arg
  BY <1>2 DEF Ask, Calls
<1>4. /\ q \in Pages
      /\ q.list = p.list /\ q.boot = p.boot /\ q.pane = p.pane
      /\ q.displayed = p.displayed /\ q.shown = p.shown /\ q.bar = p.bar
  BY <1>1, <1>3, Sent
<1>5. \A i \in 1..Len(q.calls) :
        IF i = Len(q.calls) THEN q.calls[i] = Ask("remove", arg)
        ELSE i \in 1..Len(p.calls) /\ q.calls[i] = p.calls[i]
  BY <1>1, <1>3, Sent
<1> HIDE DEF q
<1>6. Listed(q)
  BY <1>3, <1>4, <1>5 DEF Sound, Listed
<1>7. ASSUME "twice" \notin s PROVE Removing(q, gone)
  <2>1. p.pane.rows \cap gone = {}
    BY <1>7 DEF Sound, Removing
  <2>2. \A i \in 1..Len(q.calls) : q.calls[i].kind = "remove" => i = Len(q.calls) /\ q.calls[i].arg = arg
    BY <1>3, <1>5, <1>7
  <2>3. arg.group \cap (gone \cup {arg.gone}) = {}
    BY <1>2, <2>1
  <2>. QED
    BY <1>4, <2>1, <2>2, <2>3 DEF Removing
<1>8. Bulk(p) => Bulk(q)
  BY <1>4 DEF Bulk
<1>. QED
  BY <1>4, <1>6, <1>7, <1>8 DEF Sound, q, arg

\* A call is answered.
LEMMA AnsweredIsSound ==
  ASSUME NEW p, NEW s, NEW gone, Sound(p, s, gone), NEW i \in 1..Len(p.calls)
  PROVE  LET q == Answered(p, i) IN
         /\ Sound(q, s, gone)
         /\ q = [p EXCEPT !.calls = q.calls]
         /\ p.calls[i].kind = "remove" /\ "twice" \notin s =>
              \A j \in 1..Len(q.calls) : q.calls[j].kind # "remove"
<1> DEFINE q == Answered(p, i)
           d == SubSeq(p.calls, 1, i - 1) \o SubSeq(p.calls, i + 1, Len(p.calls))
<1>1. p \in Pages
  BY DEF Sound
<1>2. p.calls \in Seq(Calls) /\ Len(p.calls) \in Nat
  BY <1>1, CallOfPage
<1>3. /\ d \in Seq(Calls) /\ Len(d) = Len(p.calls) - 1
      /\ \A j \in 1..(Len(p.calls) - 1) : d[j] = IF j < i THEN p.calls[j] ELSE p.calls[j + 1]
  BY <1>2, Dropped
<1>4. q \in Pages /\ q.calls = d /\ q = [p EXCEPT !.calls = q.calls]
  BY <1>1, <1>3 DEF Answered, Pages
<1>5. /\ q.list = p.list /\ q.boot = p.boot /\ q.pane = p.pane
      /\ q.displayed = p.displayed /\ q.shown = p.shown /\ q.bar = p.bar
  BY <1>1 DEF Answered, Pages
<1> DEFINE at(j) == IF j < i THEN j ELSE j + 1
<1>6. \A j \in 1..Len(q.calls) : at(j) \in 1..Len(p.calls) /\ at(j) # i /\ q.calls[j] = p.calls[at(j)]
  <2> HIDE DEF q, d
  <2>1. \A j \in 1..Len(q.calls) : j \in 1..(Len(p.calls) - 1) /\ q.calls[j] = d[j]
    BY <1>2, <1>3, <1>4
  <2>. QED
    BY <1>2, <1>3, <2>1
<1>7. \A j, k \in 1..Len(q.calls) : at(j) = at(k) => j = k
  BY <1>2, <1>3, <1>4
<1> HIDE DEF at, q, d
<1>8. Listed(q)
  BY <1>5, <1>6 DEF Sound, Listed
<1>9. ASSUME Removing(p, gone) PROVE Removing(q, gone)
  <2>1. q.pane.rows \cap gone = {}
    BY <1>5, <1>9 DEF Removing
  <2>2. \A j \in 1..Len(q.calls) :
          q.calls[j].kind = "remove" => q.calls[j].arg.group \cap (gone \cup {q.calls[j].arg.gone}) = {}
    BY <1>6, <1>9 DEF Removing
  <2>3. \A j, k \in 1..Len(q.calls) : q.calls[j].kind = "remove" /\ q.calls[k].kind = "remove" => j = k
    BY <1>6, <1>7, <1>9 DEF Removing
  <2>. QED
    BY <2>1, <2>2, <2>3 DEF Removing
<1>10. Bulk(p) => Bulk(q)
  BY <1>5 DEF Bulk
<1>11. ASSUME p.calls[i].kind = "remove", "twice" \notin s
       PROVE  \A j \in 1..Len(q.calls) : q.calls[j].kind # "remove"
  BY <1>6, <1>11 DEF Sound, Removing
<1>12. Sound(q, s, gone)
  BY <1>4, <1>8, <1>9, <1>10 DEF Sound
<1>. QED
  BY <1>4, <1>11, <1>12 DEF q


-----------------------------------------------------------------------------
(* What each function of the page preserves.                               *)

LEMMA FilteredRows ==
  ASSUME NEW p, NEW rows \in SUBSET Fellows
  PROVE  applyFilters(p, rows) \in SUBSET Fellows
BY DEF applyFilters

LEMMA BarFollows ==
  ASSUME NEW p \in Pages
  PROVE  LET q == updateBulkBar(p) IN
         /\ q \in Pages
         /\ q.list = p.list /\ q.boot = p.boot /\ q.calls = p.calls /\ q.pane = p.pane
         /\ q.displayed = p.displayed /\ q.shown = p.shown
         /\ q.bar = {} \/ q.bar = p.displayed
BY DEF updateBulkBar, Pages

\* What renderDirectory and renderSearchResults do to the list, whatever the rows are.
LEMMA RowsShown ==
  ASSUME NEW p, NEW s, NEW gone, Sound(p, s, gone), NEW rows \in SUBSET Fellows
  PROVE  LET r == [p EXCEPT !.shown = rows, !.displayed = rows] IN
         /\ Sound(updateBulkBar(r), s, gone) /\ updateBulkBar(r).list = p.list
         /\ rows = {} => Sound(r, s, gone) /\ r.list = p.list
<1> DEFINE r == [p EXCEPT !.shown = rows, !.displayed = rows]
           q == updateBulkBar(r)
<1>1. p \in Pages
  BY DEF Sound
<1>2. /\ r \in Pages
      /\ r.list = p.list /\ r.boot = p.boot /\ r.calls = p.calls /\ r.pane = p.pane
      /\ r.displayed = rows /\ r.shown = rows /\ r.bar = p.bar
  BY <1>1 DEF Pages
<1>3. Listed(r) /\ (Removing(p, gone) => Removing(r, gone))
  BY <1>2 DEF Sound, Listed, Removing
<1>4. rows = {} => Sound(r, s, gone)
  BY <1>2, <1>3 DEF Sound, Bulk
<1>5. /\ q \in Pages
      /\ q.list = p.list /\ q.boot = p.boot /\ q.calls = p.calls /\ q.pane = p.pane
      /\ q.displayed = rows /\ q.shown = rows /\ q.bar \in {{}, rows}
  BY <1>2, BarFollows
<1>6. Listed(q) /\ (Removing(p, gone) => Removing(q, gone)) /\ Bulk(q)
  BY <1>5 DEF Sound, Listed, Removing, Bulk
<1>7. Sound(q, s, gone)
  BY <1>5, <1>6 DEF Sound
<1>. QED
  BY <1>2, <1>4, <1>5, <1>7

LEMMA DirectoryIsSound ==
  ASSUME NEW p, NEW s, NEW gone, Sound(p, s, gone), p.list # {}
  PROVE  Sound(renderDirectory(p), s, gone) /\ renderDirectory(p).list = p.list
<1>1. p.list \in SUBSET Fellows
  BY DEF Sound, Pages
<1>2. applyFilters(p, p.list) \in SUBSET Fellows
  BY <1>1, FilteredRows
<1>. QED
  BY <1>2, RowsShown DEF renderDirectory

LEMMA ResultsAreSound ==
  ASSUME NEW p, NEW s, NEW gone, Sound(p, s, gone), NEW found \in SUBSET Fellows
  PROVE  Sound(renderSearchResults(p, found), s, gone) /\ renderSearchResults(p, found).list = p.list
<1> DEFINE q == [p EXCEPT !.known = @ \cup found]
           rows == applyFilters(q, found)
<1>1. /\ q \in Pages
      /\ q.list = p.list /\ q.boot = p.boot /\ q.calls = p.calls /\ q.pane = p.pane
      /\ q.displayed = p.displayed /\ q.shown = p.shown /\ q.bar = p.bar
  BY DEF Sound, Pages
<1>2. Sound(q, s, gone)
  BY <1>1, Alike
<1>3. rows \in SUBSET Fellows
  BY FilteredRows
<1> HIDE DEF q, rows
<1>4. /\ Sound(updateBulkBar([q EXCEPT !.shown = rows, !.displayed = rows]), s, gone)
      /\ updateBulkBar([q EXCEPT !.shown = rows, !.displayed = rows]).list = q.list
      /\ rows = {} => /\ Sound([q EXCEPT !.shown = rows, !.displayed = rows], s, gone)
                      /\ [q EXCEPT !.shown = rows, !.displayed = rows].list = q.list
  BY <1>2, <1>3, RowsShown
<1>5. renderSearchResults(p, found) =
        IF rows = {} THEN [q EXCEPT !.shown = rows, !.displayed = rows]
        ELSE updateBulkBar([q EXCEPT !.shown = rows, !.displayed = rows])
  BY DEF renderSearchResults, q, rows
<1>. QED
  BY <1>1, <1>4, <1>5

LEMMA SearchIsSound ==
  ASSUME NEW p, NEW s, NEW gone, Sound(p, s, gone), p.list # {}, NEW q \in Boxes
  PROVE  \A r \in runSearch(p, q) : Sound(r, s, gone) /\ r.list = p.list
<1>1. CASE q = None
  BY <1>1, DirectoryIsSound DEF runSearch
<1>2. CASE q # None
  <2>1. Ask("search", q) \in Calls /\ Ask("local", q) \in Calls
    BY <1>2 DEF Boxes, Ask, Calls
  <2>2. /\ Sound(Send(p, "search", q), s, gone) /\ Send(p, "search", q).list = p.list
        /\ Sound(Send(p, "local", q), s, gone) /\ Send(p, "local", q).list = p.list
    BY <2>1, SendIsSound
  <2>3. \A r \in runSearch(p, q) : r = Send(p, "search", q) \/ r = Send(p, "local", q)
    BY <1>2 DEF runSearch
  <2>. QED
    BY <2>2, <2>3
<1>. QED
  BY <1>1, <1>2

LEMMA RerenderIsSound ==
  ASSUME NEW p, NEW s, NEW gone, Sound(p, s, gone), p.list # {}
  PROVE  \A r \in rerenderForFilterChange(p) : Sound(r, s, gone) /\ r.list = p.list
<1>1. p.box \in Boxes
  BY DEF Sound, Pages
<1>. QED
  BY <1>1, SearchIsSound, DirectoryIsSound DEF rerenderForFilterChange

\* A new pane has no rows.
LEMMA NewPane ==
  ASSUME NEW p, NEW s, NEW gone, Sound(p, s, gone),
         NEW at \in Places \cup {"nobody", "loading", "error"}
  PROVE  LET q == [p EXCEPT !.pane = Blank(at)] IN
         Sound(q, s, gone) /\ q.list = p.list /\ q.pane.rows = {} /\ q.calls = p.calls
<1> DEFINE q == [p EXCEPT !.pane = Blank(at)]
<1>1. Blank(at) \in Panes /\ Blank(at).rows = {}
  BY DEF Blank, Panes
<1>2. /\ q \in Pages /\ q.pane = Blank(at)
      /\ q.list = p.list /\ q.boot = p.boot /\ q.calls = p.calls
      /\ q.displayed = p.displayed /\ q.shown = p.shown /\ q.bar = p.bar
  BY <1>1 DEF Sound, Pages
<1>3. Listed(q) /\ (Removing(p, gone) => Removing(q, gone)) /\ (Bulk(p) => Bulk(q))
  BY <1>1, <1>2 DEF Sound, Listed, Removing, Bulk
<1>. QED
  BY <1>1, <1>2, <1>3 DEF Sound

LEMMA GroupPageIsSound ==
  ASSUME NEW p, NEW s, NEW gone, Sound(p, s, gone)
  PROVE  Sound(renderGroupDetailPage(p), s, gone) /\ renderGroupDetailPage(p).list = p.list
<1>1. Ask("group", None) \in Calls
  BY DEF Ask, Calls
<1>2. /\ Sound([p EXCEPT !.pane = Blank("error")], s, gone)
      /\ [p EXCEPT !.pane = Blank("error")].list = p.list
      /\ Sound([p EXCEPT !.pane = Blank("loading")], s, gone)
      /\ [p EXCEPT !.pane = Blank("loading")].list = p.list
  BY NewPane
<1> DEFINE q == [p EXCEPT !.pane = Blank("loading")]
<1>3. Sound(q, s, gone) /\ q.list = p.list
  BY <1>2
<1> HIDE DEF q
<1>4. Sound(Send(q, "group", None), s, gone) /\ Send(q, "group", None).list = q.list
  BY <1>1, <1>3, SendIsSound
<1>. QED
  BY <1>2, <1>3, <1>4 DEF renderGroupDetailPage, q

LEMMA DetailIsSound ==
  ASSUME NEW p, NEW s, NEW gone, Sound(p, s, gone)
  PROVE  Sound(updateDetailFromHash(p), s, gone) /\ updateDetailFromHash(p).list = p.list
<1>1. p.url.at \in Places
  BY DEF Sound, Pages
<1>2. p.url.at \in Fellows => Ask("one", SlugOf(p.url)) \in Calls
  BY DEF Ask, Calls, SlugOf
<1>3. /\ Sound([p EXCEPT !.pane = Blank("nobody")], s, gone)
      /\ [p EXCEPT !.pane = Blank("nobody")].list = p.list
      /\ Sound([p EXCEPT !.pane = Blank("loading")], s, gone)
      /\ [p EXCEPT !.pane = Blank("loading")].list = p.list
      /\ Sound([p EXCEPT !.pane = Blank(p.url.at)], s, gone)
      /\ [p EXCEPT !.pane = Blank(p.url.at)].list = p.list
  BY <1>1, NewPane
<1> DEFINE q == [p EXCEPT !.pane = Blank("loading")]
<1>4. Sound(q, s, gone) /\ q.list = p.list
  BY <1>3
<1> HIDE DEF q
<1>5. p.url.at \in Fellows => /\ Sound(Send(q, "one", SlugOf(p.url)), s, gone)
                             /\ Send(q, "one", SlugOf(p.url)).list = q.list
  BY <1>2, <1>4, SendIsSound
<1>. QED
  BY <1>3, <1>4, <1>5 DEF updateDetailFromHash, q

LEMMA PaneIsSound ==
  ASSUME NEW p, NEW s, NEW gone, Sound(p, s, gone)
  PROVE  Sound(Pane(p), s, gone) /\ Pane(p).list = p.list
<1>1. /\ Sound([p EXCEPT !.pane = Blank("about")], s, gone)
      /\ [p EXCEPT !.pane = Blank("about")].list = p.list
  BY NewPane DEF Places
<1>. QED
  BY <1>1, GroupPageIsSound, DetailIsSound DEF Pane

LEMMA RouteIsSound ==
  ASSUME NEW p, NEW s, NEW gone, Sound(p, s, gone), p.list # {},
         NEW u \in [at : Places, filter : BOOLEAN]
  PROVE  \A r \in route(p, u) : Sound(r, s, gone) /\ r.list = p.list
<1> DEFINE q == [p EXCEPT !.url = u, !.filter = u.filter]
<1>1. /\ q \in Pages
      /\ q.list = p.list /\ q.boot = p.boot /\ q.calls = p.calls /\ q.pane = p.pane
      /\ q.displayed = p.displayed /\ q.shown = p.shown /\ q.bar = p.bar
  BY DEF Sound, Pages
<1>2. Sound(q, s, gone)
  BY <1>1, Alike
<1> HIDE DEF q
<1>3. \A r \in rerenderForFilterChange(q) : Sound(r, s, gone) /\ r.list = p.list
  BY <1>1, <1>2, RerenderIsSound
<1>4. ASSUME NEW r \in IF u.filter # p.filter THEN rerenderForFilterChange(q) ELSE {q}
      PROVE  Sound(Pane(r), s, gone) /\ Pane(r).list = p.list
  <2>1. Sound(r, s, gone) /\ r.list = p.list
    BY <1>1, <1>2, <1>3
  <2>. QED
    BY <2>1, PaneIsSound
<1>5. route(p, u) = {Pane(r) : r \in IF u.filter # p.filter THEN rerenderForFilterChange(q) ELSE {q}}
  BY DEF route, q
<1>. QED
  BY <1>4, <1>5

-----------------------------------------------------------------------------
(* The steps.                                                              *)

\* A step that changes the page and notes mishaps, and nothing else.
LEMMA PageOnly ==
  ASSUME Inv, Sound(page', rash', removed), rash \subseteq rash',
         UNCHANGED <<source, folder, db, members, setting, unsaved, updates, removed>>
  PROVE  Inv'
BY DEF Inv, RemovedStaysRemoved, Without

\* A step that changes the page and whether its box is saved.
LEMMA PageAndBox ==
  ASSUME Inv, Sound(page', rash, removed), NEW u \in BOOLEAN, Unsaved(u),
         UNCHANGED <<source, folder, db, members, setting, updates, rash, removed>>
  PROVE  Inv'
<1>1. unsaved' \in BOOLEAN
  BY Zenon DEF Unsaved
<1>. QED
  BY <1>1 DEF Inv, RemovedStaysRemoved, Without

\* What Inv says, for the steps.
LEMMA PageIsSound ==
  ASSUME Inv
  PROVE  /\ page \in Pages
         /\ Sound(page, rash, removed)
         /\ \A t : rash \subseteq t => Sound(page, t, removed)
         /\ page.boot # "list" => page.list # {}
         /\ \A i \in 1..Len(page.calls) :
              /\ page.calls[i] \in Calls
              /\ page.calls[i].kind \in {"full0", "full"} => page.list # {}
<1>1. Sound(page, rash, removed) /\ page \in Pages /\ Listed(page)
  BY DEF Inv, Sound
<1>2. \A i \in 1..Len(page.calls) : page.calls[i] \in Calls
  BY <1>1, CallOfPage
<1>3. \A t : rash \subseteq t => Sound(page, t, removed)
  BY <1>1, MoreMishaps
<1>. QED
  BY <1>1, <1>2, <1>3 DEF Listed

LEMMA InitIsSound == Init => Inv
<1> SUFFICES ASSUME Init PROVE Inv
  OBVIOUS
<1>1. PICK place \in Places, filter \in BOOLEAN, mail \in BOOLEAN :
        page = [url |-> [at |-> place, filter |-> filter], box |-> None, due |-> FALSE,
                mail |-> mail, filter |-> filter, list |-> {}, known |-> {}, cache |-> None,
                displayed |-> {}, shown |-> {}, bar |-> {}, pane |-> Blank("nobody"),
                orphans |-> {}, boot |-> "list",
                calls |-> IF source = "worker" THEN <<Ask("pref", None), Ask("list0", None)>>
                                               ELSE <<Ask("list0", None)>>]
  BY ZenonT(60) DEF Init
<1>2. Ask("pref", None) \in Calls /\ Ask("list0", None) \in Calls
  BY DEF Ask, Calls
<1> DEFINE calls == IF source = "worker" THEN <<Ask("pref", None), Ask("list0", None)>>
                                         ELSE <<Ask("list0", None)>>
<1>3. calls \in Seq(Calls) /\ \A i \in 1..Len(calls) : calls[i].kind \in {"pref", "list0"}
  BY <1>2 DEF Ask
<1> HIDE DEF calls
<1>4. Blank("nobody") \in Panes /\ Blank("nobody").rows = {}
  BY DEF Blank, Panes
<1>5. /\ page.calls = calls /\ page.boot = "list" /\ page.pane = Blank("nobody")
      /\ page.displayed = {} /\ page.shown = {} /\ page.bar = {}
  BY <1>1 DEF calls
<1>6. page \in Pages
  BY <1>1, <1>3, <1>4 DEF Pages, Boxes, calls
<1>7. Listed(page) /\ Removing(page, removed) /\ Bulk(page)
  BY <1>3, <1>4, <1>5 DEF Listed, Removing, Bulk
<1>8. folder \in BOOLEAN /\ unsaved \in BOOLEAN
  BY Zenon DEF Init
<1>. QED
  BY <1>6, <1>7, <1>8, BoundAssumption DEF Init, Inv, Sound, RemovedStaysRemoved

LEMMA MemberIsSound == ASSUME Inv, Member PROVE Inv'
<1>0. /\ page \in Pages /\ Sound(page, rash, removed)
      /\ \A t : rash \subseteq t => Sound(page, t, removed)
      /\ page.boot # "list" => page.list # {}
  BY PageIsSound
<1>1. ASSUME NEW u \in Links, GoTo(u) PROVE Inv'
  <2>1. u \in [at : Places, filter : BOOLEAN]
    <3>1. "directory" \in Places
      BY DEF Places
    <3>2. CASE u = [at |-> "directory", filter |-> TRUE]
      BY <3>1, <3>2
    <3>3. ASSUME NEW place \in Places, u = At(place) PROVE u \in [at : Places, filter : BOOLEAN]
      BY <3>3 DEF At
    <3>. QED
      BY <3>2, <3>3 DEF Links
  <2>2. page.list # {} /\ page' \in route(page, u)
    BY <1>0, <1>1 DEF GoTo, Room, Usable
  <2>3. Sound(page', rash, removed)
    BY <1>0, <2>1, <2>2, RouteIsSound
  <2>. QED
    BY <1>1, <2>3, PageOnly DEF GoTo
<1>2. ASSUME NEW q \in Boxes, TypeQuery(q) PROVE Inv'
  <2>1. page' = [page EXCEPT !.box = q, !.due = TRUE]
    BY <1>2 DEF TypeQuery
  <2>2. /\ page' \in Pages
        /\ page'.list = page.list /\ page'.boot = page.boot /\ page'.calls = page.calls
        /\ page'.pane.rows = page.pane.rows
        /\ page'.displayed = page.displayed /\ page'.shown = page.shown /\ page'.bar = page.bar
    BY <1>0, <2>1 DEF Pages
  <2>3. Sound(page', rash, removed)
    BY <1>0, <2>2, Alike
  <2>. QED
    BY <1>2, <2>3, PageOnly DEF TypeQuery
<1>3. CASE SearchDebounced
  <2> DEFINE p == [page EXCEPT !.due = FALSE]
  <2>1. /\ p \in Pages
        /\ p.list = page.list /\ p.boot = page.boot /\ p.calls = page.calls
        /\ p.pane.rows = page.pane.rows
        /\ p.displayed = page.displayed /\ p.shown = page.shown /\ p.bar = page.bar
    BY <1>0 DEF Pages
  <2>2. Sound(p, rash, removed)
    BY <1>0, <2>1, Alike
  <2>3. page' \in runSearch(p, page.box) /\ page.box \in Boxes /\ page.list # {}
    BY <1>0, <1>3 DEF SearchDebounced, Room, Usable, Pages
  <2> HIDE DEF p
  <2>4. Sound(page', rash, removed)
    BY <2>1, <2>2, <2>3, SearchIsSound
  <2>. QED
    BY <1>3, <2>4, PageOnly DEF SearchDebounced
<1>4. CASE ToggleHasEmail
  <2> DEFINE p == [page EXCEPT !.mail = ~@]
             q == IF privateDataEnabled THEN Send(p, "save", p.mail) ELSE p
  <2>1. /\ p \in Pages
        /\ p.list = page.list /\ p.boot = page.boot /\ p.calls = page.calls
        /\ p.pane.rows = page.pane.rows
        /\ p.displayed = page.displayed /\ p.shown = page.shown /\ p.bar = page.bar
    BY <1>0 DEF Pages
  <2>2. Sound(p, rash, removed)
    BY <1>0, <2>1, Alike
  <2>3. page' \in runSearch(q, page.box) /\ page.box \in Boxes /\ page.list # {}
    BY <1>0, <1>4 DEF ToggleHasEmail, Room, Usable, Pages
  <2> HIDE DEF p
  <2>4. Ask("save", p.mail) \in Calls
    BY <2>1 DEF Pages, Ask, Calls
  <2>5. Sound(q, rash, removed) /\ q.list = page.list
    BY <2>1, <2>2, <2>4, SendIsSound
  <2> HIDE DEF q
  <2>6. Sound(page', rash, removed)
    BY <2>3, <2>5, SearchIsSound
  <2>. QED
    BY <1>4, <2>6, PageAndBox DEF ToggleHasEmail
<1>5. CASE ToggleFilter
  <2> DEFINE p == [page EXCEPT !.filter = ~@]
             q == writeFiltersToHash(p)
  <2>1. /\ p \in Pages
        /\ p.list = page.list /\ p.boot = page.boot /\ p.calls = page.calls
        /\ p.pane.rows = page.pane.rows
        /\ p.displayed = page.displayed /\ p.shown = page.shown /\ p.bar = page.bar
    BY <1>0 DEF Pages
  <2>2. page' \in rerenderForFilterChange(q) /\ page.list # {}
    BY <1>0, <1>5 DEF ToggleFilter, Room, Usable
  <2> HIDE DEF p
  <2>3. /\ q \in Pages
        /\ q.list = p.list /\ q.boot = p.boot /\ q.calls = p.calls /\ q.pane = p.pane
        /\ q.displayed = p.displayed /\ q.shown = p.shown /\ q.bar = p.bar
    BY <2>1 DEF Pages, writeFiltersToHash
  <2> HIDE DEF q
  <2>4. Sound(q, rash, removed)
    BY <1>0, <2>1, <2>3, Alike
  <2>5. Sound(page', rash, removed)
    BY <2>1, <2>2, <2>3, <2>4, RerenderIsSound
  <2>. QED
    BY <1>5, <2>5, PageOnly DEF ToggleFilter
<1>6. ASSUME NEW f \in Fellows, RemoveOrphan(f) PROVE Inv'
  <2> DEFINE p == [page EXCEPT !.pane.busy = @ \cup {f}]
  <2>1. /\ p \in Pages
        /\ p.list = page.list /\ p.boot = page.boot /\ p.calls = page.calls
        /\ p.pane.rows = page.pane.rows
        /\ p.displayed = page.displayed /\ p.shown = page.shown /\ p.bar = page.bar
    BY <1>0 DEF Pages, Panes
  <2>2. rash \subseteq rash' /\ (InFlight({"remove"}) => "twice" \in rash')
    BY <1>6 DEF RemoveOrphan, Note
  <2>3. page' = Send(p, "remove", [group |-> p.pane.rows \ {f}, gone |-> f])
    BY <1>6, <2>1 DEF RemoveOrphan
  <2> HIDE DEF p
  <2>4. Sound(p, rash', removed)
    BY <1>0, <2>1, <2>2, Alike
  <2>5. "twice" \notin rash' => \A i \in 1..Len(p.calls) : p.calls[i].kind # "remove"
    BY <2>1, <2>2 DEF InFlight
  <2>6. Sound(page', rash', removed)
    BY <2>3, <2>4, <2>5, RemovalIsSound
  <2>. QED
    BY <1>6, <2>2, <2>6, PageOnly DEF RemoveOrphan
<1>7. ASSUME NEW d \in Directories, UpdateDirectoryData(d) PROVE Inv'
  <2>1. page' = Send(page, "apply", d) /\ Ask("apply", d) \in Calls
    BY <1>7 DEF UpdateDirectoryData, Ask, Calls
  <2>2. Sound(page', rash, removed)
    BY <1>0, <2>1, SendIsSound
  <2>3. updates' \in 0..MaxUpdates
    BY <1>7, BoundAssumption DEF UpdateDirectoryData, Inv
  <2>. QED
    BY <1>7, <2>2, <2>3 DEF UpdateDirectoryData, Inv, RemovedStaysRemoved, Without
<1>. QED
  BY <1>1, <1>2, <1>3, <1>4, <1>5, <1>6, <1>7 DEF Member

\* An answer: the page without the call, and what the call carried.
LEMMA AnswerIsSound ==
  ASSUME Inv, NEW i \in 1..Len(page.calls)
  PROVE  LET p == Answered(page, i) IN
         /\ \A t : rash \subseteq t => Sound(p, t, removed)
         /\ p \in Pages /\ p.list = page.list /\ p.pane = page.pane /\ p.box = page.box
         /\ p.url = page.url /\ p.mail = page.mail /\ p.orphans = page.orphans /\ p.known = page.known
         /\ page.calls[i].kind \in {"full0", "full"} => page.list # {}
         /\ \A t : rash \subseteq t /\ "twice" \notin t /\ page.calls[i].kind = "remove" =>
              \A j \in 1..Len(p.calls) : p.calls[j].kind # "remove"
<1> DEFINE p == Answered(page, i)
<1>1. /\ page \in Pages /\ \A t : rash \subseteq t => Sound(page, t, removed)
      /\ page.calls[i].kind \in {"full0", "full"} => page.list # {}
  BY PageIsSound
<1>2. ASSUME NEW t, rash \subseteq t
      PROVE  /\ Sound(p, t, removed)
             /\ page.calls[i].kind = "remove" /\ "twice" \notin t =>
                  \A j \in 1..Len(p.calls) : p.calls[j].kind # "remove"
  <2>1. Sound(page, t, removed)
    BY <1>1, <1>2
  <2>. QED
    BY <2>1, AnsweredIsSound
<1>3. Sound(p, rash, removed)
  BY <1>2
<1>4. p = [page EXCEPT !.calls = p.calls]
  BY <1>1, AnsweredIsSound
<1>5. p \in Pages
  BY <1>3 DEF Sound
<1> HIDE DEF p
<1>6. /\ p.list = page.list /\ p.pane = page.pane /\ p.box = page.box
      /\ p.url = page.url /\ p.mail = page.mail /\ p.orphans = page.orphans /\ p.known = page.known
  BY <1>1, <1>4 DEF Pages
<1>. QED
  BY <1>1, <1>2, <1>5, <1>6 DEF p

\* What each kind of call carries.
LEMMA Carried ==
  ASSUME Inv, NEW i \in 1..Len(page.calls)
  PROVE  LET c == page.calls[i] IN
         /\ c.kind = "apply" => c.arg \in Directories
         /\ c.kind = "remove" => c.arg \in Removal
         /\ c.kind = "save" => c.arg \in BOOLEAN
         /\ c.kind \in {"search", "local"} => c.arg \in Queries
         /\ c.kind = "one" => c.arg \in Fellows \cup {None}
<1>1. page.calls[i] \in Calls
  BY PageIsSound
<1>. QED
  BY <1>1 DEF Calls

LEMMA Contents == Inv => db \in SUBSET Fellows /\ db # {}
BY DataAssumption DEF Inv

\* A page whose list has come is as sound with another one.
LEMMA NewList ==
  ASSUME NEW p, NEW s, NEW gone, Sound(p, s, gone),
         NEW q \in Pages,
         q.list # {}, q.calls = p.calls, q.pane.rows = p.pane.rows,
         q.displayed = p.displayed, q.shown = p.shown, q.bar = p.bar
  PROVE  Sound(q, s, gone)
BY DEF Sound, Listed, Removing, Bulk

LEMMA SearchAnswersSound ==
  ASSUME Inv, NEW i \in 1..Len(page.calls), Search(i)
  PROVE  Inv'
<1> DEFINE p == Answered(page, i)
           q == page.calls[i].arg
<1>0. /\ \A t : rash \subseteq t => Sound(p, t, removed)
      /\ p \in Pages
  BY AnswerIsSound
<1>1. CASE SearchAnswers(i)
  <2>1. rash \subseteq rash' /\ page' = renderSearchResults(p, Hits[q] \cap db)
    BY <1>1 DEF SearchAnswers, Note
  <2>2. Hits[q] \cap db \in SUBSET Fellows
    BY Contents
  <2>3. Sound(page', rash', removed)
    BY <1>0, <2>1, <2>2, ResultsAreSound
  <2>. QED
    BY <1>1, <2>1, <2>3, PageOnly DEF SearchAnswers
<1>2. CASE SearchFails(i)
  <2>1. /\ rash \subseteq rash'
        /\ page' = IF source = "worker" THEN p ELSE Send(p, "local", q)
    BY <1>2 DEF SearchFails, Note
  <2>2. Ask("local", q) \in Calls
    <3>1. q \in Queries
      BY <1>2, Carried DEF SearchFails, Answer
    <3>. QED
      BY <3>1 DEF Ask, Calls
  <2> HIDE DEF p, q
  <2>3. Sound(p, rash', removed)
    BY <1>0, <2>1
  <2>4. Sound(Send(p, "local", q), rash', removed)
    BY <2>2, <2>3, SendIsSound
  <2>. QED
    BY <1>2, <2>1, <2>3, <2>4, PageOnly DEF SearchFails
<1>3. CASE LocalAnswers(i)
  <2>1. PICK rows \in IF page.cache # None THEN {page.cache} ELSE {{}, db} :
          LET r == [p EXCEPT !.cache = rows] IN
          /\ page' = IF rows = {} THEN [r EXCEPT !.shown = {}] ELSE renderSearchResults(r, Hits[q] \cap rows)
          /\ Note((IF Crossed(page, q) THEN {"crossed"} ELSE {}) \cup (IF rows = {} THEN {"uncached"} ELSE {}))
    BY <1>3 DEF LocalAnswers
  <2>2. rows \in SUBSET Fellows
    BY PageIsSound, Contents DEF Pages
  <2>3. rash \subseteq rash' /\ (rows = {} => "uncached" \in rash')
    BY <2>1 DEF Note
  <2> DEFINE r == [p EXCEPT !.cache = rows]
  <2>4. page' = IF rows = {} THEN [r EXCEPT !.shown = {}] ELSE renderSearchResults(r, Hits[q] \cap rows)
    BY <2>1
  <2>5. Sound(p, rash', removed)
    BY <1>0, <2>3
  <2> HIDE DEF p, q
  <2>6. /\ r \in Pages
        /\ r.list = p.list /\ r.boot = p.boot /\ r.calls = p.calls /\ r.pane.rows = p.pane.rows
        /\ r.displayed = p.displayed /\ r.shown = p.shown /\ r.bar = p.bar
    BY <1>0, <2>2 DEF Pages
  <2>7. Sound(r, rash', removed)
    BY <2>5, <2>6, Alike
  <2> HIDE DEF r
  <2>8. CASE rows = {}
    <3>1. /\ page' \in Pages
          /\ page'.list = r.list /\ page'.boot = r.boot /\ page'.calls = r.calls /\ page'.pane = r.pane
      BY <2>4, <2>6, <2>8 DEF Pages
    <3>2. Sound(page', rash', removed)
      BY <2>3, <2>7, <2>8, <3>1 DEF Sound, Listed, Removing
    <3>. QED
      BY <1>3, <2>3, <3>2, PageOnly DEF LocalAnswers
  <2>9. CASE rows # {}
    <3>1. Sound(page', rash', removed)
      BY <2>2, <2>4, <2>7, <2>9, ResultsAreSound
    <3>. QED
      BY <1>3, <2>3, <3>1, PageOnly DEF LocalAnswers
  <2>. QED
    BY <2>8, <2>9
<1>. QED
  BY <1>1, <1>2, <1>3 DEF Search

LEMMA BootAnswersSound ==
  ASSUME Inv, NEW i \in 1..Len(page.calls), Boot(i)
  PROVE  Inv'
<1> DEFINE p == Answered(page, i)
<1>0. /\ \A t : rash \subseteq t => Sound(p, t, removed)
      /\ p \in Pages /\ p.list = page.list
      /\ page.calls[i].kind \in {"full0", "full"} => page.list # {}
  BY AnswerIsSound
<1>1. CASE PrefArrives(i)
  <2>1. PICK v \in Stored :
          /\ page' = IF v # None THEN [p EXCEPT !.mail = v]
                     ELSE IF privateDataEnabled THEN Send(p, "save", p.mail) ELSE p
          /\ Unsaved(v = None /\ ~privateDataEnabled)
    BY <1>1 DEF PrefArrives
  <2> DEFINE u == v = None /\ ~privateDataEnabled
  <2>2. v \in BOOLEAN \cup {None} /\ Unsaved(u) /\ u \in BOOLEAN
    BY <2>1 DEF Stored, Inv
  <2>3. page' = IF v # None THEN [p EXCEPT !.mail = v]
                ELSE IF privateDataEnabled THEN Send(p, "save", p.mail) ELSE p
    BY <2>1
  <2> HIDE DEF p, u
  <2>4. Ask("save", p.mail) \in Calls
    BY <1>0 DEF Pages, Ask, Calls
  <2>5. Sound(p, rash, removed)
    BY <1>0
  <2>6. ASSUME v = None PROVE Sound(page', rash, removed)
    <3>1. Sound(Send(p, "save", p.mail), rash, removed)
      BY <2>4, <2>5, SendIsSound
    <3>. QED
      BY <2>3, <2>5, <2>6, <3>1
  <2>7. ASSUME v # None PROVE Sound(page', rash, removed)
    <3>1. v \in BOOLEAN
      BY <2>2, <2>7
    <3>2. /\ page' \in Pages
          /\ page'.list = p.list /\ page'.boot = p.boot /\ page'.calls = p.calls
          /\ page'.pane.rows = p.pane.rows
          /\ page'.displayed = p.displayed /\ page'.shown = p.shown /\ page'.bar = p.bar
      BY <1>0, <2>3, <2>7, <3>1 DEF Pages
    <3>. QED
      BY <2>5, <3>2, Alike
  <2>8. Sound(page', rash, removed)
    BY <2>6, <2>7
  <2>. QED
    BY <1>1, <2>2, <2>8, PageAndBox DEF PrefArrives
<1>2. CASE ListArrives(i)
  <2> DEFINE q == [p EXCEPT !.list = db, !.boot = "full"]
             r == renderDirectory(q)
  <2>1. page' \in {Send(x, "full0", None) : x \in route(r, r.url)}
    BY <1>2 DEF ListArrives
  <2> HIDE DEF p
  <2>2. /\ q \in Pages /\ q.list = db /\ q.list # {} /\ q.calls = p.calls
        /\ q.pane.rows = p.pane.rows
        /\ q.displayed = p.displayed /\ q.shown = p.shown /\ q.bar = p.bar
    BY <1>0, Contents DEF Pages
  <2> HIDE DEF q
  <2>3. Sound(q, rash, removed)
    BY <1>0, <2>2, NewList
  <2>4. Sound(r, rash, removed) /\ r.list # {}
    BY <2>2, <2>3, DirectoryIsSound
  <2> HIDE DEF r
  <2>5. r.url \in [at : Places, filter : BOOLEAN]
    BY <2>4 DEF Sound, Pages
  <2>6. Ask("full0", None) \in Calls
    BY DEF Ask, Calls
  <2>7. PICK x \in route(r, r.url) : page' = Send(x, "full0", None)
    BY <2>1
  <2>8. Sound(x, rash, removed) /\ x.list # {}
    BY <2>4, <2>5, RouteIsSound
  <2>9. Sound(page', rash, removed)
    BY <2>6, <2>7, <2>8, SendIsSound
  <2>. QED
    BY <1>2, <2>9, PageOnly DEF ListArrives
<1>3. CASE FullArrives(i)
  <2> DEFINE q == [p EXCEPT !.known = @ \cup db, !.cache = db, !.boot = "done"]
  <2>1. /\ page' \in {IF privateDataEnabled THEN Send(x, "scan", None) ELSE x : x \in route(q, q.url)}
        /\ rash \subseteq rash'
        /\ page.list # {}
    BY <1>0, <1>3 DEF FullArrives, Note, Answer
  <2> HIDE DEF p
  <2>2. /\ q \in Pages /\ q.list # {} /\ q.calls = p.calls /\ q.pane.rows = p.pane.rows
        /\ q.displayed = p.displayed /\ q.shown = p.shown /\ q.bar = p.bar
    BY <1>0, <2>1, Contents DEF Pages
  <2> HIDE DEF q
  <2>3. Sound(q, rash', removed)
    BY <1>0, <2>1, <2>2, NewList
  <2>4. q.url \in [at : Places, filter : BOOLEAN]
    BY <2>2 DEF Pages
  <2>5. Ask("scan", None) \in Calls
    BY DEF Ask, Calls
  <2>6. PICK x \in route(q, q.url) : page' = IF privateDataEnabled THEN Send(x, "scan", None) ELSE x
    BY <2>1
  <2>7. Sound(x, rash', removed)
    BY <2>2, <2>3, <2>4, RouteIsSound
  <2>8. Sound(page', rash', removed)
    BY <2>5, <2>6, <2>7, SendIsSound
  <2>. QED
    BY <1>3, <2>1, <2>8, PageOnly DEF FullArrives
<1>4. CASE ScanAnswers(i)
  <2>1. page' = [p EXCEPT !.orphans = members \ db] /\ rash \subseteq rash'
    BY <1>4 DEF ScanAnswers, Note
  <2> HIDE DEF p
  <2>2. members \subseteq Fellows
    BY DEF Inv
  <2>3. /\ page' \in Pages
        /\ page'.list = p.list /\ page'.boot = p.boot /\ page'.calls = p.calls
        /\ page'.pane.rows = p.pane.rows
        /\ page'.displayed = p.displayed /\ page'.shown = p.shown /\ page'.bar = p.bar
    BY <1>0, <2>1, <2>2 DEF Pages
  <2>4. Sound(page', rash', removed)
    BY <1>0, <2>1, <2>3, Alike
  <2>. QED
    BY <1>4, <2>1, <2>4, PageOnly DEF ScanAnswers
<1>. QED
  BY <1>1, <1>2, <1>3, <1>4 DEF Boot

LEMMA UpdateAnswersSound ==
  ASSUME Inv, NEW i \in 1..Len(page.calls), Update(i)
  PROVE  Inv'
<1> DEFINE p == Answered(page, i)
<1>0. /\ \A t : rash \subseteq t => Sound(p, t, removed)
      /\ p \in Pages /\ p.list = page.list
      /\ page.calls[i].kind \in {"full0", "full"} => page.list # {}
  BY AnswerIsSound
<1>1. CASE UpdateApplied(i)
  <2>1. page' = Send(p, "list", None) /\ db' \in Directories
    BY <1>1, Carried DEF UpdateApplied, Answer
  <2>2. Ask("list", None) \in Calls
    BY DEF Ask, Calls
  <2> HIDE DEF p
  <2>3. Sound(page', rash, removed)
    BY <1>0, <2>1, <2>2, SendIsSound
  <2>. QED
    BY <1>1, <2>1, <2>3 DEF UpdateApplied, Inv, RemovedStaysRemoved, Without
<1>2. CASE ListReloads(i)
  <2> DEFINE q == [p EXCEPT !.list = db]
             r == renderDirectory(q)
  <2>1. page' = Send(r, "full", None) /\ rash \subseteq rash'
    BY <1>2 DEF ListReloads, Note
  <2> HIDE DEF p
  <2>2. /\ q \in Pages /\ q.list # {} /\ q.calls = p.calls /\ q.pane.rows = p.pane.rows
        /\ q.displayed = p.displayed /\ q.shown = p.shown /\ q.bar = p.bar
    BY <1>0, Contents DEF Pages
  <2> HIDE DEF q
  <2>3. Sound(q, rash', removed)
    BY <1>0, <2>1, <2>2, NewList
  <2>4. Sound(r, rash', removed) /\ r.list # {}
    BY <2>2, <2>3, DirectoryIsSound
  <2> HIDE DEF r
  <2>5. Ask("full", None) \in Calls
    BY DEF Ask, Calls
  <2>6. Sound(page', rash', removed)
    BY <2>1, <2>4, <2>5, SendIsSound
  <2>. QED
    BY <1>2, <2>1, <2>6, PageOnly DEF ListReloads
<1>3. CASE FullReloads(i)
  <2> DEFINE q == [p EXCEPT !.known = db, !.cache = db]
  <2>1. /\ page' \in {Send(x, "scan", None) : x \in IF q.url.at = "about" THEN {q} ELSE route(q, q.url)}
        /\ rash \subseteq rash'
        /\ page.list # {}
    BY <1>0, <1>3 DEF FullReloads, Note, Answer
  <2> HIDE DEF p
  <2>2. /\ q \in Pages /\ q.list # {} /\ q.calls = p.calls /\ q.pane.rows = p.pane.rows
        /\ q.displayed = p.displayed /\ q.shown = p.shown /\ q.bar = p.bar
    BY <1>0, <2>1, Contents DEF Pages
  <2> HIDE DEF q
  <2>3. Sound(q, rash', removed)
    BY <1>0, <2>1, <2>2, NewList
  <2>4. q.url \in [at : Places, filter : BOOLEAN]
    BY <2>2 DEF Pages
  <2>5. Ask("scan", None) \in Calls
    BY DEF Ask, Calls
  <2>6. PICK x \in IF q.url.at = "about" THEN {q} ELSE route(q, q.url) : page' = Send(x, "scan", None)
    BY <2>1
  <2>7. Sound(x, rash', removed)
    BY <2>2, <2>3, <2>4, <2>6, RouteIsSound
  <2>8. Sound(page', rash', removed)
    BY <2>5, <2>6, <2>7, SendIsSound
  <2>. QED
    BY <1>3, <2>1, <2>8, PageOnly DEF FullReloads
<1>. QED
  BY <1>1, <1>2, <1>3 DEF Update

LEMMA StoreAnswersSound ==
  ASSUME Inv, NEW i \in 1..Len(page.calls), Store(i)
  PROVE  Inv'
<1> DEFINE p == Answered(page, i)
<1>0. /\ \A t : rash \subseteq t => Sound(p, t, removed)
      /\ p \in Pages
  BY AnswerIsSound
<1>1. CASE SettingSaved(i)
  <2>1. page' = p /\ rash \subseteq rash' /\ setting' \in BOOLEAN
    BY <1>1, Carried DEF SettingSaved, Answer, Note
  <2> HIDE DEF p
  <2>2. Sound(page', rash', removed)
    BY <1>0, <2>1
  <2>. QED
    BY <1>1, <2>1, <2>2 DEF SettingSaved, Inv, RemovedStaysRemoved, Without
<1>2. CASE FellowArrives(i)
  <2> DEFINE f == page.calls[i].arg
             q == [p EXCEPT !.known = @ \cup ({f} \cap db)]
             at == IF f \in db THEN f ELSE "nobody"
  <2>1. page' = q \/ page' = [q EXCEPT !.pane = Blank(at)]
    BY <1>2 DEF FellowArrives
  <2> HIDE DEF p
  <2>2. db \in SUBSET Fellows
    BY Contents
  <2>3. /\ q \in Pages
        /\ q.list = p.list /\ q.boot = p.boot /\ q.calls = p.calls /\ q.pane.rows = p.pane.rows
        /\ q.displayed = p.displayed /\ q.shown = p.shown /\ q.bar = p.bar
    BY <1>0, <2>2 DEF Pages
  <2>4. at \in Places \cup {"nobody", "loading", "error"}
    BY <2>2 DEF Places
  <2> HIDE DEF q, at
  <2>5. Sound(q, rash, removed)
    BY <1>0, <2>3, Alike
  <2>6. Sound([q EXCEPT !.pane = Blank(at)], rash, removed)
    BY <2>4, <2>5, NewPane
  <2>7. Sound(page', rash, removed)
    BY <2>1, <2>5, <2>6
  <2>. QED
    BY <1>2, <2>7, PageOnly DEF FellowArrives
<1>3. CASE GroupArrives(i)
  <2> DEFINE pane == [at |-> "group", rows |-> members,
                      flagged |-> members \cap (p.orphans \cup (Fellows \ p.known)), busy |-> {}]
  <2>1. page' = [p EXCEPT !.pane = pane] /\ rash \subseteq rash'
    BY <1>3 DEF GroupArrives, Note
  <2> HIDE DEF p
  <2>2. pane \in Panes /\ pane.rows = members
    BY DEF Inv, Panes, Places
  <2> HIDE DEF pane
  <2>3. /\ page' \in Pages /\ page'.pane.rows = members
        /\ page'.list = p.list /\ page'.boot = p.boot /\ page'.calls = p.calls
        /\ page'.displayed = p.displayed /\ page'.shown = p.shown /\ page'.bar = p.bar
    BY <1>0, <2>1, <2>2 DEF Pages
  <2>4. "twice" \notin rash' => members \cap removed = {}
    BY <2>1 DEF Inv, RemovedStaysRemoved, Without
  <2>5. Sound(p, rash', removed)
    BY <1>0, <2>1
  <2>6. Listed(page') /\ (Bulk(p) => Bulk(page'))
    BY <2>3, <2>5 DEF Sound, Listed, Bulk
  <2>7. "twice" \notin rash' => Removing(page', removed)
    BY <2>3, <2>4, <2>5 DEF Sound, Removing
  <2>8. Sound(page', rash', removed)
    BY <2>3, <2>5, <2>6, <2>7 DEF Sound
  <2>. QED
    BY <1>3, <2>1, <2>8, PageOnly DEF GroupArrives
<1>4. CASE OrphanRemoved(i)
  <2> DEFINE c == page.calls[i]
             q == [p EXCEPT !.orphans = @ \ {c.arg.gone}]
  <2>1. /\ members' = c.arg.group /\ removed' = removed \cup {c.arg.gone}
        /\ page' = renderGroupDetailPage(q) /\ rash \subseteq rash'
        /\ c.kind = "remove"
    BY <1>4 DEF OrphanRemoved, Note, Answer
  <2>2. c.arg \in Removal
    BY <2>1, Carried
  <2>3. members' \subseteq Fellows /\ removed' \subseteq Fellows
    BY <2>1, <2>2 DEF Removal, Inv
  <2>4. "twice" \notin rash' => c.arg.group \cap (removed \cup {c.arg.gone}) = {}
    BY <2>1, PageIsSound DEF Sound, Removing
  <2>5. "twice" \notin rash' => \A j \in 1..Len(p.calls) : p.calls[j].kind # "remove"
    BY <2>1, AnswerIsSound
  <2> HIDE DEF p
  <2>6. /\ q \in Pages
        /\ q.list = p.list /\ q.boot = p.boot /\ q.calls = p.calls /\ q.pane.rows = p.pane.rows
        /\ q.displayed = p.displayed /\ q.shown = p.shown /\ q.bar = p.bar
    BY <1>0 DEF Pages
  <2>7. Sound(q, rash', removed)
    BY <1>0, <2>1, <2>6, Alike
  <2>8. "twice" \notin rash' => \A j \in 1..Len(q.calls) : q.calls[j].kind # "remove"
    BY <2>5, <2>6
  <2> HIDE DEF q
  \* The new pane has no rows and nothing is being removed, so the list of the removed may grow.
  <2>9. ASSUME NEW at \in {"error", "loading"}
        PROVE  Sound([q EXCEPT !.pane = Blank(at)], rash', removed')
    <3> DEFINE r == [q EXCEPT !.pane = Blank(at)]
    <3>1. Sound(r, rash', removed) /\ r.pane.rows = {} /\ r.calls = q.calls
      BY <2>7, NewPane
    <3> HIDE DEF r
    <3>2. "twice" \notin rash' => Removing(r, removed')
      BY <2>8, <3>1 DEF Removing
    <3>3. Sound(r, rash', removed')
      BY <3>1, <3>2 DEF Sound
    <3>. QED
      BY <3>3 DEF r
  <2>10. Sound(page', rash', removed')
    <3> DEFINE r == [q EXCEPT !.pane = Blank("loading")]
    <3>1. Sound(r, rash', removed') /\ Ask("group", None) \in Calls
      BY <2>9 DEF Ask, Calls
    <3> HIDE DEF r
    <3>2. Sound(Send(r, "group", None), rash', removed')
      BY <3>1, SendIsSound
    <3>. QED
      BY <2>1, <2>9, <3>2 DEF renderGroupDetailPage, r
  <2>. QED
    BY <1>4, <2>1, <2>3, <2>4, <2>10 DEF OrphanRemoved, Inv, RemovedStaysRemoved, Without
<1>. QED
  BY <1>1, <1>2, <1>3, <1>4 DEF Store

LEMMA FailuresAreSound ==
  ASSUME Inv, NEW i \in 1..Len(page.calls), CallFails(i)
  PROVE  Inv'
<1> DEFINE p == Answered(page, i)
           c == page.calls[i]
           r == [p EXCEPT !.pane.busy = @ \ {c.arg.gone}]
<1>0. /\ \A t : rash \subseteq t => Sound(p, t, removed)
      /\ p \in Pages
  BY AnswerIsSound
<1>1. rash \subseteq rash'
  BY DEF CallFails, Note
<1>2. \/ page' = [p EXCEPT !.pane = Blank("error")]
      \/ page' = [p EXCEPT !.pane = Blank("nobody")]
      \/ page' = r
      \/ page' = Send(p, "scan", None)
      \/ page' = p
  BY DEF CallFails
<1> HIDE DEF p
<1>3. Sound(p, rash', removed)
  BY <1>0, <1>1
<1>4. /\ Sound([p EXCEPT !.pane = Blank("error")], rash', removed)
      /\ Sound([p EXCEPT !.pane = Blank("nobody")], rash', removed)
  BY <1>3, NewPane
<1>5. /\ r \in Pages
      /\ r.list = p.list /\ r.boot = p.boot /\ r.calls = p.calls /\ r.pane.rows = p.pane.rows
      /\ r.displayed = p.displayed /\ r.shown = p.shown /\ r.bar = p.bar
  BY <1>0 DEF Pages, Panes
<1> HIDE DEF r
<1>6. Sound(r, rash', removed)
  BY <1>3, <1>5, Alike
<1>7. Ask("scan", None) \in Calls
  BY DEF Ask, Calls
<1>8. Sound(Send(p, "scan", None), rash', removed)
  BY <1>3, <1>7, SendIsSound
<1>9. Sound(page', rash', removed)
  BY <1>2, <1>3, <1>4, <1>6, <1>8
<1>. QED
  BY <1>1, <1>9, PageOnly DEF CallFails

-----------------------------------------------------------------------------
(* The theorems.                                                           *)

LEMMA AlwaysSound == Spec => []Inv
<1>1. ASSUME Inv, [Next]_vars PROVE Inv'
  <2>1. CASE Member
    BY <1>1, <2>1, MemberIsSound
  <2>2. ASSUME NEW i \in 1..Len(page.calls),
               Search(i) \/ Boot(i) \/ Update(i) \/ Store(i) \/ CallFails(i)
        PROVE  Inv'
    BY <1>1, <2>2, SearchAnswersSound, BootAnswersSound, UpdateAnswersSound, StoreAnswersSound,
       FailuresAreSound
  <2>3. CASE GateResolves
    <3>1. rash \subseteq rash' /\ folder' \in BOOLEAN
      BY <2>3, Zenon DEF GateResolves, Note
    <3>2. Sound(page', rash', removed)
      BY <1>1, <2>3, <3>1, MoreMishaps DEF GateResolves, Inv
    <3>. QED
      BY <1>1, <2>3, <3>1, <3>2 DEF GateResolves, Inv, RemovedStaysRemoved, Without
  <2>4. CASE UNCHANGED vars
    BY <1>1, <2>4 DEF Inv, vars, RemovedStaysRemoved, Without
  <2>. QED
    BY <1>1, <2>1, <2>2, <2>3, <2>4 DEF Next
<1>. QED
  BY <1>1, InitIsSound, PTL DEF Spec

\* Type correctness: for any fellows, queries, directories and bounds, in whatever order the
\* answers come, the page of app.js keeps its shape.
THEOREM TypeCorrect == Spec => []TypeOK
<1>1. Inv => TypeOK
  <2> SUFFICES ASSUME Inv PROVE TypeOK
    OBVIOUS
  <2>1. page \in Pages /\ \A i \in 1..Len(page.calls) : page.calls[i] \in Calls
    BY PageIsSound
  <2>2. \A i \in 1..Len(page.calls) : page.calls[i].kind \in Reads \cup Writes
    BY <2>1 DEF Calls, Reads, Writes
  <2>. QED
    BY <2>1, <2>2 DEF TypeOK, Inv, Pages, Panes
<1>. QED
  BY <1>1, AlwaysSound, PTL

\* "Select all" takes the rows that are shown (displayedList and updateBulkBar of app.js), in
\* whatever order searches, filters and updates render the list.
THEOREM BulkTakesWhatIsShown == Spec => []BulkSelectsWhatIsShown
<1>1. Inv => BulkSelectsWhatIsShown
  BY DEF Inv, Sound, Bulk, BulkSelectsWhatIsShown, Without
<1>. QED
  BY <1>1, AlwaysSound, PTL

\* Who was removed from the group by the rows of its page stays removed, as long as no removal
\* is sent while another is under way.
THEOREM RemovalsLast == Spec => []RemovedStaysRemoved
<1>1. Inv => RemovedStaysRemoved
  BY DEF Inv
<1>. QED
  BY <1>1, AlwaysSound, PTL

-----------------------------------------------------------------------------
(* What is in flight, and what the functions of the page add to it.        *)

Has(p, kind) == \E i \in 1..Len(p.calls) : p.calls[i].kind = kind

\* A search for what the box holds is under way.
Asking(p) ==
  \E i \in 1..Len(p.calls) : p.calls[i].kind \in {"search", "local"} /\ p.calls[i].arg = p.box

\* The last save in flight is one of `v'.
LastSave(p, v) ==
  \E i \in 1..Len(p.calls) :
    /\ p.calls[i].kind = "save" /\ p.calls[i].arg = v
    /\ \A j \in 1..Len(p.calls) : p.calls[j].kind = "save" => j <= i

\* The calls of q are those of p, and then some of the kinds `sent'.
More(p, q, sent) ==
  /\ Len(p.calls) <= Len(q.calls)
  /\ \A i \in 1..Len(q.calls) :
       IF i <= Len(p.calls) THEN q.calls[i] = p.calls[i] ELSE q.calls[i].kind \in sent

\* What rendering the list or the pane leaves alone.
Same(p, q) ==
  /\ q.box = p.box /\ q.due = p.due /\ q.mail = p.mail /\ q.list = p.list /\ q.known = p.known
  /\ q.cache = p.cache /\ q.orphans = p.orphans /\ q.boot = p.boot

Asks == {"search"} \cup (IF source = "api" THEN {"local"} ELSE {})

\* r is p with the list rendered, or asked for, as the box and the filters say.
Rendered(p, r) ==
  /\ r \in Pages /\ Same(p, r) /\ r.url = p.url /\ r.filter = p.filter /\ r.pane = p.pane
  /\ More(p, r, Asks)
  /\ Asking(r) \/ (r.box = None /\ r.shown = applyFilters(r, r.list))

\* The pane is one of the place `at', the group's being asked for.
PaneOf(r, at) ==
  /\ r.pane.at \in Fellows => r.pane.at = at
  /\ r.pane.at # "group"
  /\ source = "worker" /\ at = "group" => Has(r, "group")

\* r is p with the pane of its URL.
Paned(p, r) ==
  /\ r \in Pages /\ Same(p, r) /\ r.url = p.url /\ r.filter = p.filter /\ r.shown = p.shown
  /\ More(p, r, {"one", "group"})
  /\ PaneOf(r, p.url.at)

\* r is p after a route to u, whatever has been sent.
Lands(p, r, u) ==
  /\ r \in Pages /\ Same(p, r) /\ r.url = u /\ r.filter = u.filter
  /\ PaneOf(r, u.at)
  /\ \/ r.filter = p.filter /\ r.shown = p.shown
     \/ Asking(r)
     \/ r.box = None /\ r.shown = applyFilters(r, r.list)

Routed(p, r, u) == Lands(p, r, u) /\ More(p, r, Asks \cup {"one", "group"})

LEMMA Lengths ==
  ASSUME NEW p \in Pages
  PROVE  Len(p.calls) \in Nat
BY CallOfPage

LEMMA MoreThanItself ==
  ASSUME NEW p \in Pages, NEW q, q.calls = p.calls, NEW sent
  PROVE  More(p, q, sent)
BY Lengths DEF More

LEMMA MoreAndMore ==
  ASSUME NEW p \in Pages, NEW q \in Pages, NEW r \in Pages, NEW s, NEW t, NEW u,
         More(p, q, s), More(q, r, t), s \subseteq u, t \subseteq u
  PROVE  More(p, r, u)
<1>1. Len(p.calls) \in Nat /\ Len(q.calls) \in Nat /\ Len(r.calls) \in Nat
  BY Lengths
<1>. QED
  BY <1>1 DEF More

\* What was in flight still is; what is new is of the kinds sent.
LEMMA MoreInFlight ==
  ASSUME NEW p \in Pages, NEW q \in Pages, NEW sent, More(p, q, sent)
  PROVE  /\ \A k : Has(p, k) => Has(q, k)
         /\ \A k : Has(q, k) => Has(p, k) \/ k \in sent
         /\ Asking(p) /\ q.box = p.box => Asking(q)
         /\ "save" \notin sent => \A v : LastSave(p, v) => LastSave(q, v)
<1>1. Len(p.calls) \in Nat /\ Len(q.calls) \in Nat
  BY Lengths
<1>2. \A k : Has(p, k) => Has(q, k)
  BY <1>1 DEF More, Has
<1>3. \A k : Has(q, k) => Has(p, k) \/ k \in sent
  BY <1>1 DEF More, Has
<1>4. Asking(p) /\ q.box = p.box => Asking(q)
  BY <1>1 DEF More, Asking
<1>5. ASSUME "save" \notin sent, NEW v, LastSave(p, v) PROVE LastSave(q, v)
  <2>1. PICK i \in 1..Len(p.calls) :
          /\ p.calls[i].kind = "save" /\ p.calls[i].arg = v
          /\ \A j \in 1..Len(p.calls) : p.calls[j].kind = "save" => j <= i
    BY <1>5 DEF LastSave
  <2>2. i \in 1..Len(q.calls) /\ q.calls[i] = p.calls[i]
    BY <1>1, <2>1 DEF More
  <2>3. ASSUME NEW j \in 1..Len(q.calls), q.calls[j].kind = "save" PROVE j <= i
    <3>1. j <= Len(p.calls) /\ q.calls[j] = p.calls[j]
      BY <1>1, <1>5, <2>3 DEF More
    <3>. QED
      BY <1>1, <2>1, <2>3, <3>1
  <2>. QED
    BY <2>1, <2>2, <2>3 DEF LastSave
<1>. QED
  BY <1>2, <1>3, <1>4, <1>5

LEMMA SentOne ==
  ASSUME NEW p \in Pages, NEW kind, NEW arg, Ask(kind, arg) \in Calls
  PROVE  LET q == Send(p, kind, arg) IN
         /\ q \in Pages /\ Same(p, q) /\ q.url = p.url /\ q.filter = p.filter /\ q.pane = p.pane
         /\ q.shown = p.shown /\ q.displayed = p.displayed /\ q.bar = p.bar
         /\ \A sent : kind \in sent => More(p, q, sent)
         /\ Has(q, kind)
         /\ kind \in {"search", "local"} /\ arg = q.box => Asking(q)
         /\ kind = "save" => LastSave(q, arg)
<1> DEFINE q == Send(p, kind, arg)
<1>1. /\ q \in Pages /\ Len(q.calls) = Len(p.calls) + 1
      /\ \A i \in 1..Len(q.calls) :
           IF i = Len(q.calls) THEN q.calls[i] = Ask(kind, arg)
           ELSE i \in 1..Len(p.calls) /\ q.calls[i] = p.calls[i]
  BY Sent
<1>2. /\ Same(p, q) /\ q.url = p.url /\ q.filter = p.filter /\ q.pane = p.pane
      /\ q.shown = p.shown /\ q.displayed = p.displayed /\ q.bar = p.bar
  BY DEF Send, Pages, Same
<1>3. Len(p.calls) \in Nat /\ Len(q.calls) \in Nat
  BY <1>1, Lengths
<1>4. Ask(kind, arg).kind = kind /\ Ask(kind, arg).arg = arg
  BY DEF Ask
<1> HIDE DEF q
<1>5. q.calls[Len(q.calls)] = Ask(kind, arg) /\ Len(q.calls) \in 1..Len(q.calls)
  BY <1>1, <1>3
<1>6. \A sent : kind \in sent => More(p, q, sent)
  BY <1>1, <1>3, <1>4 DEF More
<1>7. Has(q, kind) /\ (kind \in {"search", "local"} /\ arg = q.box => Asking(q))
  BY <1>4, <1>5 DEF Has, Asking
<1>8. kind = "save" => LastSave(q, arg)
  BY <1>3, <1>4, <1>5 DEF LastSave
<1>. QED
  BY <1>1, <1>2, <1>6, <1>7, <1>8 DEF q

LEMMA AnsweredOne ==
  ASSUME NEW p \in Pages, NEW i \in 1..Len(p.calls)
  PROVE  LET q == Answered(p, i) IN
         /\ q \in Pages /\ Same(p, q) /\ q.url = p.url /\ q.filter = p.filter /\ q.pane = p.pane
         /\ q.shown = p.shown /\ q.displayed = p.displayed /\ q.bar = p.bar
         /\ \A k : Has(q, k) => Has(p, k)
         /\ \A k : Has(p, k) /\ p.calls[i].kind # k => Has(q, k)
         /\ Asking(p) /\ (p.calls[i].kind \notin {"search", "local"} \/ p.calls[i].arg # p.box) => Asking(q)
         /\ p.calls[i].kind # "save" => \A v : LastSave(p, v) => LastSave(q, v)
         /\ p.calls[i].kind = "save" /\ (\A j \in 1..(i - 1) : p.calls[j].kind # "save") =>
              \A v : LastSave(p, v) => LastSave(q, v) \/ (p.calls[i].arg = v /\ ~Has(q, "save"))
<1> DEFINE q == Answered(p, i)
           d == SubSeq(p.calls, 1, i - 1) \o SubSeq(p.calls, i + 1, Len(p.calls))
<1>1. p.calls \in Seq(Calls) /\ Len(p.calls) \in Nat
  BY CallOfPage
<1>2. /\ d \in Seq(Calls) /\ Len(d) = Len(p.calls) - 1
      /\ \A j \in 1..(Len(p.calls) - 1) : d[j] = IF j < i THEN p.calls[j] ELSE p.calls[j + 1]
  BY <1>1, Dropped
<1>3. q \in Pages /\ q.calls = d
  BY <1>2 DEF Answered, Pages
<1>4. /\ Same(p, q) /\ q.url = p.url /\ q.filter = p.filter /\ q.pane = p.pane
      /\ q.shown = p.shown /\ q.displayed = p.displayed /\ q.bar = p.bar
  BY DEF Answered, Pages, Same
<1>5. /\ Len(q.calls) = Len(p.calls) - 1
      /\ \A j \in 1..Len(q.calls) : q.calls[j] = IF j < i THEN p.calls[j] ELSE p.calls[j + 1]
  BY <1>2, <1>3
<1> HIDE DEF q, d
\* Each call but the i-th is where it was, or one place before.
<1>6. \A j \in 1..Len(q.calls) : \E k \in 1..Len(p.calls) : q.calls[j] = p.calls[k]
  <2> SUFFICES ASSUME NEW j \in 1..Len(q.calls) PROVE \E k \in 1..Len(p.calls) : q.calls[j] = p.calls[k]
    OBVIOUS
  <2>1. j \in 1..Len(p.calls) /\ j + 1 \in 1..Len(p.calls)
    BY <1>1, <1>5
  <2>. QED
    BY <1>5, <2>1
<1>7. \A k \in 1..Len(p.calls) : k # i =>
        LET j == IF k < i THEN k ELSE k - 1 IN j \in 1..Len(q.calls) /\ q.calls[j] = p.calls[k]
  <2> SUFFICES ASSUME NEW k \in 1..Len(p.calls), k # i
               PROVE  LET j == IF k < i THEN k ELSE k - 1 IN j \in 1..Len(q.calls) /\ q.calls[j] = p.calls[k]
    OBVIOUS
  <2>1. CASE k < i
    <3>1. k \in 1..Len(q.calls)
      BY <1>1, <1>5, <2>1
    <3>. QED
      BY <1>5, <2>1, <3>1
  <2>2. CASE ~(k < i)
    <3>1. k - 1 \in 1..Len(q.calls) /\ ~(k - 1 < i) /\ (k - 1) + 1 = k
      BY <1>1, <1>5, <2>2
    <3>. QED
      BY <1>5, <2>2, <3>1
  <2>. QED
    BY <2>1, <2>2
<1>8. \A k : Has(q, k) => Has(p, k)
  BY <1>6 DEF Has
<1>9. \A k : Has(p, k) /\ p.calls[i].kind # k => Has(q, k)
  BY <1>7 DEF Has
<1>10. Asking(p) /\ (p.calls[i].kind \notin {"search", "local"} \/ p.calls[i].arg # p.box) => Asking(q)
  <2>1. q.box = p.box
    BY <1>4 DEF Same
  <2>. QED
    BY <1>7, <2>1 DEF Asking
<1>11. ASSUME NEW v, NEW m \in 1..Len(p.calls), m # i,
              p.calls[m].kind = "save", p.calls[m].arg = v,
              \A j \in 1..Len(p.calls) : p.calls[j].kind = "save" => j <= m
       PROVE  LastSave(q, v)
  <2> DEFINE n == IF m < i THEN m ELSE m - 1
  <2>1. n \in 1..Len(q.calls) /\ q.calls[n] = p.calls[m]
    BY <1>7, <1>11
  <2>2. ASSUME NEW j \in 1..Len(q.calls), q.calls[j].kind = "save" PROVE j <= n
    <3>1. CASE j < i
      <4>1. j \in 1..Len(p.calls) /\ q.calls[j] = p.calls[j]
        BY <1>1, <1>5, <3>1
      <4>2. j <= m
        BY <1>11, <2>2, <4>1
      <4>. QED
        BY <1>1, <1>5, <1>11, <3>1, <4>2
    <3>2. CASE ~(j < i)
      <4>1. j + 1 \in 1..Len(p.calls) /\ q.calls[j] = p.calls[j + 1]
        BY <1>1, <1>5, <3>2
      <4>2. j + 1 <= m
        BY <1>11, <2>2, <4>1
      <4>. QED
        BY <1>1, <1>5, <1>11, <3>2, <4>2
    <3>. QED
      BY <3>1, <3>2
  <2> HIDE DEF n
  <2>. QED
    BY <1>11, <2>1, <2>2 DEF LastSave
<1>12. ASSUME p.calls[i].kind # "save", NEW v, LastSave(p, v) PROVE LastSave(q, v)
  <2>1. PICK m \in 1..Len(p.calls) :
          /\ p.calls[m].kind = "save" /\ p.calls[m].arg = v
          /\ \A j \in 1..Len(p.calls) : p.calls[j].kind = "save" => j <= m
    BY <1>12 DEF LastSave
  <2>. QED
    BY <1>11, <1>12, <2>1
<1>13. ASSUME p.calls[i].kind = "save", \A j \in 1..(i - 1) : p.calls[j].kind # "save",
              NEW v, LastSave(p, v)
       PROVE  LastSave(q, v) \/ (p.calls[i].arg = v /\ ~Has(q, "save"))
  <2>1. PICK m \in 1..Len(p.calls) :
          /\ p.calls[m].kind = "save" /\ p.calls[m].arg = v
          /\ \A j \in 1..Len(p.calls) : p.calls[j].kind = "save" => j <= m
    BY <1>13 DEF LastSave
  <2>2. CASE m # i
    BY <1>11, <2>1, <2>2
  <2>3. CASE m = i
    <3>1. ASSUME NEW j \in 1..Len(q.calls), q.calls[j].kind = "save" PROVE FALSE
      <4>1. CASE j < i
        <5>1. j \in 1..(i - 1) /\ q.calls[j] = p.calls[j]
          BY <1>1, <1>5, <4>1
        <5>. QED
          BY <1>13, <3>1, <5>1
      <4>2. CASE ~(j < i)
        <5>1. j + 1 \in 1..Len(p.calls) /\ q.calls[j] = p.calls[j + 1] /\ ~(j + 1 <= i)
          BY <1>1, <1>5, <4>2
        <5>. QED
          BY <2>1, <2>3, <3>1, <5>1
      <4>. QED
        BY <4>1, <4>2
    <3>. QED
      BY <2>1, <2>3, <3>1 DEF Has
  <2>. QED
    BY <2>2, <2>3
<1>. QED
  BY <1>3, <1>4, <1>8, <1>9, <1>10, <1>12, <1>13 DEF q

-----------------------------------------------------------------------------
(* What each function of the page does.                                    *)

LEMMA DirectoryRendered ==
  ASSUME NEW p \in Pages, p.list # {}
  PROVE  LET r == renderDirectory(p) IN
         /\ r \in Pages /\ Same(p, r) /\ r.url = p.url /\ r.filter = p.filter /\ r.pane = p.pane
         /\ r.calls = p.calls
         /\ r.shown = applyFilters(r, r.list)
<1> DEFINE rows == applyFilters(p, p.list)
           q == [p EXCEPT !.shown = rows, !.displayed = rows]
           r == updateBulkBar(q)
<1>1. renderDirectory(p) = r
  BY DEF renderDirectory
<1>2. rows \in SUBSET Fellows
  <2>1. p.list \in SUBSET Fellows
    BY DEF Pages
  <2>. QED
    BY <2>1, FilteredRows
<1> HIDE DEF rows
<1>3. /\ q \in Pages /\ Same(p, q) /\ q.url = p.url /\ q.filter = p.filter /\ q.pane = p.pane
      /\ q.calls = p.calls /\ q.shown = rows
  BY <1>2 DEF Pages, Same
<1> HIDE DEF q
<1>4. /\ r \in Pages /\ Same(q, r) /\ r.url = q.url /\ r.filter = q.filter /\ r.pane = q.pane
      /\ r.calls = q.calls /\ r.shown = q.shown
  BY <1>3 DEF updateBulkBar, Pages, Same
<1> HIDE DEF r
<1>5. Same(p, r) /\ r.filter = p.filter
  BY <1>3, <1>4 DEF Same
<1>6. applyFilters(r, r.list) = rows
  BY <1>5 DEF applyFilters, Same, rows
<1>. QED
  BY <1>1, <1>3, <1>4, <1>5, <1>6

LEMMA SearchRendered ==
  ASSUME NEW p \in Pages, p.list # {}
  PROVE  \A r \in runSearch(p, p.box) : Rendered(p, r)
<1> DEFINE d == renderDirectory(p)
<1>1. p.box \in Boxes
  BY DEF Pages
<1>2. /\ d \in Pages /\ Same(p, d) /\ d.url = p.url /\ d.filter = p.filter /\ d.pane = p.pane
      /\ d.calls = p.calls
      /\ d.shown = applyFilters(d, d.list)
  BY DirectoryRendered
<1> HIDE DEF d
<1>3. CASE p.box = None
  <2>1. More(p, d, Asks)
    BY <1>2, MoreThanItself
  <2>2. d.box = None
    BY <1>2, <1>3 DEF Same
  <2>3. Rendered(p, d)
    BY <1>2, <2>1, <2>2 DEF Rendered
  <2>. QED
    BY <1>3, <2>3 DEF runSearch, d
<1>4. CASE p.box # None
  <2>1. ASSUME NEW kind \in Asks PROVE Rendered(p, Send(p, kind, p.box))
    <3> DEFINE r == Send(p, kind, p.box)
    <3>1. kind \in {"search", "local"}
      BY DEF Asks
    <3>2. Ask(kind, p.box) \in Calls
      BY <1>1, <1>4, <3>1 DEF Boxes, Ask, Calls
    <3>3. /\ r \in Pages /\ Same(p, r) /\ r.url = p.url /\ r.filter = p.filter /\ r.pane = p.pane
          /\ More(p, r, Asks)
          /\ p.box = r.box => Asking(r)
      BY <3>1, <3>2, SentOne
    <3> HIDE DEF r
    <3>4. Rendered(p, r)
      BY <3>3 DEF Rendered, Same
    <3>. QED
      BY <3>4 DEF r
  <2>2. \A r \in runSearch(p, p.box) : \E kind \in Asks : r = Send(p, kind, p.box)
    BY <1>4 DEF runSearch, Asks
  <2>. QED
    BY <2>1, <2>2
<1>. QED
  BY <1>3, <1>4

LEMMA FilterRendered ==
  ASSUME NEW p \in Pages, p.list # {}
  PROVE  \A r \in rerenderForFilterChange(p) : Rendered(p, r)
<1>1. CASE p.box # None
  BY <1>1, SearchRendered DEF rerenderForFilterChange
<1>2. CASE p.box = None
  BY <1>2, SearchRendered DEF rerenderForFilterChange, runSearch
<1>. QED
  BY <1>1, <1>2

LEMMA PaneDrawn ==
  ASSUME NEW p \in Pages, NEW at \in Places \cup {"nobody", "loading", "error"}
  PROVE  LET r == [p EXCEPT !.pane = Blank(at)] IN
         /\ r \in Pages /\ Same(p, r) /\ r.url = p.url /\ r.filter = p.filter /\ r.shown = p.shown
         /\ r.calls = p.calls
         /\ r.pane = Blank(at) /\ r.pane.at = at /\ r.pane.rows = {} /\ r.pane.flagged = {}
<1>1. Blank(at) \in Panes /\ Blank(at).at = at /\ Blank(at).rows = {} /\ Blank(at).flagged = {}
  BY DEF Blank, Panes
<1>. QED
  BY <1>1 DEF Pages, Same

LEMMA NotFellows ==
  ASSUME NEW at \in {"nobody", "loading", "error", "about", "group", "directory"}
  PROVE  at \notin Fellows
BY NamesAssumption

LEMMA GroupPaned ==
  ASSUME NEW p \in Pages
  PROVE  LET r == renderGroupDetailPage(p) IN
         /\ r \in Pages /\ Same(p, r) /\ r.url = p.url /\ r.filter = p.filter /\ r.shown = p.shown
         /\ More(p, r, {"one", "group"})
         /\ r.pane.at \in {"loading", "error"}
         /\ source = "worker" => Has(r, "group")
<1> DEFINE e == [p EXCEPT !.pane = Blank("error")]
           l == [p EXCEPT !.pane = Blank("loading")]
           s == Send(l, "group", None)
<1>1. /\ e \in Pages /\ Same(p, e) /\ e.url = p.url /\ e.filter = p.filter /\ e.shown = p.shown
      /\ e.calls = p.calls /\ e.pane.at = "error"
      /\ l \in Pages /\ Same(p, l) /\ l.url = p.url /\ l.filter = p.filter /\ l.shown = p.shown
      /\ l.calls = p.calls /\ l.pane.at = "loading"
  BY PaneDrawn
<1>2. Ask("group", None) \in Calls
  BY DEF Ask, Calls
<1> HIDE DEF e, l
<1>3. /\ s \in Pages /\ Same(l, s) /\ s.url = l.url /\ s.filter = l.filter /\ s.pane = l.pane
      /\ s.shown = l.shown /\ More(l, s, {"one", "group"}) /\ Has(s, "group")
  BY <1>1, <1>2, SentOne
<1> HIDE DEF s
<1>4. Same(p, s)
  BY <1>1, <1>3 DEF Same
<1>5. More(p, e, {"one", "group"}) /\ More(p, l, {"one", "group"})
  BY <1>1, MoreThanItself
<1>6. More(p, s, {"one", "group"})
  BY <1>1, <1>3, <1>5, MoreAndMore
<1>7. renderGroupDetailPage(p) = IF source = "api" THEN e ELSE s
  BY DEF renderGroupDetailPage, e, l, s
<1>8. CASE source = "api"
  BY <1>1, <1>5, <1>7, <1>8
<1>9. CASE source # "api"
  BY <1>1, <1>3, <1>4, <1>6, <1>7, <1>9
<1>. QED
  BY <1>8, <1>9

LEMMA PaneIsPaned ==
  ASSUME NEW p \in Pages
  PROVE  Paned(p, Pane(p))
<1>1. p.url.at \in Places /\ p.known \in SUBSET Fellows
  BY DEF Pages
<1>2. ASSUME NEW at \in Places \cup {"nobody", "loading", "error"}, at \in Fellows => p.url.at = at,
             at # "group", p.url.at # "group"
      PROVE  Paned(p, [p EXCEPT !.pane = Blank(at)])
  <2> DEFINE r == [p EXCEPT !.pane = Blank(at)]
  <2>1. /\ r \in Pages /\ Same(p, r) /\ r.url = p.url /\ r.filter = p.filter /\ r.shown = p.shown
        /\ r.calls = p.calls /\ r.pane.at = at
    BY PaneDrawn
  <2> HIDE DEF r
  <2>2. More(p, r, {"one", "group"})
    BY <2>1, MoreThanItself
  <2>3. PaneOf(r, p.url.at)
    BY <1>2, <2>1 DEF PaneOf
  <2>4. Paned(p, r)
    BY <2>1, <2>2, <2>3 DEF Paned
  <2>. QED
    BY <2>4 DEF r
<1>3. CASE p.url = At("about")
  <2>1. p.url.at = "about" /\ "about" \in Places
    BY <1>3 DEF At, Places
  <2>2. p.url.at # "group"
    BY <2>1
  <2>3. Pane(p) = [p EXCEPT !.pane = Blank("about")]
    BY <1>3, <2>2 DEF Pane
  <2>. QED
    BY <1>2, <2>1, <2>2, <2>3, NotFellows
<1>4. CASE p.url # At("about") /\ p.url.at = "group"
  <2> DEFINE r == renderGroupDetailPage(p)
  <2>1. /\ r \in Pages /\ Same(p, r) /\ r.url = p.url /\ r.filter = p.filter /\ r.shown = p.shown
        /\ More(p, r, {"one", "group"})
        /\ r.pane.at \in {"loading", "error"}
        /\ source = "worker" => Has(r, "group")
    BY GroupPaned
  <2>2. Pane(p) = r
    BY <1>4 DEF Pane
  <2> HIDE DEF r
  <2>3. PaneOf(r, p.url.at)
    BY <2>1, NotFellows DEF PaneOf
  <2>. QED
    BY <2>1, <2>2, <2>3 DEF Paned
<1>5. CASE p.url # At("about") /\ p.url.at # "group"
  <2>1. Pane(p) = updateDetailFromHash(p)
    BY <1>5 DEF Pane
  <2>2. CASE p.url.at \notin Fellows
    <3>1. Pane(p) = [p EXCEPT !.pane = Blank("nobody")]
      BY <2>1, <2>2 DEF updateDetailFromHash
    <3>. QED
      BY <1>2, <1>5, <3>1, NotFellows
  <2>3. CASE p.url.at \in Fellows /\ SlugOf(p.url) \in p.known
    <3>1. Pane(p) = [p EXCEPT !.pane = Blank(p.url.at)]
      BY <2>1, <2>3 DEF updateDetailFromHash
    <3>. QED
      BY <1>1, <1>2, <1>5, <3>1
  <2>4. CASE p.url.at \in Fellows /\ SlugOf(p.url) \notin p.known
    <3> DEFINE l == [p EXCEPT !.pane = Blank("loading")]
               s == Send(l, "one", SlugOf(p.url))
    <3>1. Pane(p) = s
      BY <2>1, <2>4 DEF updateDetailFromHash
    <3>2. Paned(p, l)
      BY <1>2, <1>5, NotFellows
    <3>3. Ask("one", SlugOf(p.url)) \in Calls
      BY <2>4 DEF Ask, Calls, SlugOf
    <3> HIDE DEF l
    <3>4. /\ s \in Pages /\ Same(l, s) /\ s.url = l.url /\ s.filter = l.filter /\ s.pane = l.pane
          /\ s.shown = l.shown /\ More(l, s, {"one", "group"})
      BY <3>2, <3>3, SentOne DEF Paned
    <3> HIDE DEF s
    <3>5. Same(p, s)
      BY <3>2, <3>4 DEF Same, Paned
    <3>6. More(p, s, {"one", "group"})
      BY <3>2, <3>4, MoreAndMore DEF Paned
    <3>7. PaneOf(s, p.url.at)
      BY <1>5, <3>2, <3>4 DEF PaneOf, Paned
    <3>. QED
      BY <3>1, <3>2, <3>4, <3>5, <3>6, <3>7 DEF Paned
  <2>. QED
    BY <2>2, <2>3, <2>4
<1>. QED
  BY <1>3, <1>4, <1>5

LEMMA RouteIsRouted ==
  ASSUME NEW p \in Pages, p.list # {}, NEW u \in [at : Places, filter : BOOLEAN]
  PROVE  \A r \in route(p, u) : Routed(p, r, u)
<1> DEFINE q == [p EXCEPT !.url = u, !.filter = u.filter]
           kinds == Asks \cup {"one", "group"}
<1>1. /\ q \in Pages /\ Same(p, q) /\ q.url = u /\ q.filter = u.filter /\ q.shown = p.shown
      /\ q.calls = p.calls /\ q.list # {}
  BY DEF Pages, Same
<1> HIDE DEF q
<1>2. ASSUME NEW m, m \in (IF u.filter # p.filter THEN rerenderForFilterChange(q) ELSE {q})
      PROVE  Routed(p, Pane(m), u)
  <2> DEFINE r == Pane(m)
  <2>1. /\ m \in Pages /\ Same(q, m) /\ m.url = q.url /\ m.filter = q.filter
        /\ More(q, m, Asks)
        /\ \/ m.filter = p.filter /\ m.shown = p.shown
           \/ Asking(m)
           \/ m.box = None /\ m.shown = applyFilters(m, m.list)
    <3>1. CASE u.filter = p.filter
      <4>1. m = q
        BY <1>2, <3>1
      <4>2. More(q, q, Asks)
        BY <1>1, MoreThanItself
      <4>. QED
        BY <1>1, <3>1, <4>1, <4>2 DEF Same
    <3>2. CASE u.filter # p.filter
      <4>1. Rendered(q, m)
        BY <1>1, <1>2, <3>2, FilterRendered
      <4>. QED
        BY <4>1 DEF Rendered
    <3>. QED
      BY <3>1, <3>2
  <2>2. Paned(m, r)
    BY <2>1, PaneIsPaned
  <2> HIDE DEF r
  <2>3. r \in Pages /\ Same(p, r) /\ r.url = u /\ r.filter = u.filter /\ PaneOf(r, u.at)
    BY <1>1, <2>1, <2>2 DEF Same, Paned
  <2>4. More(p, q, kinds)
    BY <1>1, MoreThanItself
  <2>5. More(p, m, kinds)
    BY <1>1, <2>1, <2>4, MoreAndMore
  <2>6. More(p, r, kinds)
    BY <2>1, <2>2, <2>5, MoreAndMore DEF Paned
  <2>7. Asking(m) => Asking(r)
    BY <2>1, <2>2, MoreInFlight DEF Paned, Same
  <2>8. applyFilters(r, r.list) = applyFilters(m, m.list) /\ r.shown = m.shown /\ r.box = m.box
        /\ r.filter = m.filter
    BY <2>2 DEF Paned, Same, applyFilters
  <2>9. Routed(p, r, u)
    BY <2>1, <2>3, <2>6, <2>7, <2>8 DEF Routed, Lands
  <2>. QED
    BY <2>9 DEF r
<1>3. route(p, u) = {Pane(m) : m \in IF u.filter # p.filter THEN rerenderForFilterChange(q) ELSE {q}}
  BY DEF route, q
<1>. QED
  BY <1>2, <1>3

\* The rows that a search found are full rows, and what is shown.
LEMMA ResultsRendered ==
  ASSUME NEW p \in Pages, NEW found \in SUBSET Fellows
  PROVE  LET r == renderSearchResults(p, found) IN
         /\ r \in Pages /\ r.known = p.known \cup found
         /\ r.box = p.box /\ r.due = p.due /\ r.mail = p.mail /\ r.list = p.list
         /\ r.cache = p.cache /\ r.orphans = p.orphans /\ r.boot = p.boot
         /\ r.url = p.url /\ r.filter = p.filter /\ r.pane = p.pane /\ r.calls = p.calls
         /\ r.shown = {f \in found : (p.mail => f \in WithEmail) /\ (p.filter => f \in Picked)}
<1> DEFINE q == [p EXCEPT !.known = @ \cup found]
           rows == applyFilters(q, found)
           s == [q EXCEPT !.shown = rows, !.displayed = rows]
           r == renderSearchResults(p, found)
<1>1. /\ q \in Pages /\ q.url = p.url /\ q.filter = p.filter /\ q.pane = p.pane /\ q.calls = p.calls
      /\ q.known = p.known \cup found /\ q.mail = p.mail
  BY DEF Pages
<1>2. rows = {f \in found : (p.mail => f \in WithEmail) /\ (p.filter => f \in Picked)}
  <2> HIDE DEF q
  <2>. QED
    BY <1>1 DEF applyFilters
<1>3. rows \in SUBSET Fellows
  BY FilteredRows
<1> HIDE DEF q, rows
<1>4. /\ s \in Pages /\ Same(q, s) /\ s.url = q.url /\ s.filter = q.filter /\ s.pane = q.pane
      /\ s.calls = q.calls /\ s.shown = rows
  BY <1>1, <1>3 DEF Pages, Same
<1>5. r = IF rows = {} THEN s ELSE updateBulkBar(s)
  BY DEF renderSearchResults, q, rows, s
<1> HIDE DEF s
<1>6. LET b == updateBulkBar(s) IN
      /\ b \in Pages /\ Same(s, b) /\ b.url = s.url /\ b.filter = s.filter /\ b.pane = s.pane
      /\ b.calls = s.calls /\ b.shown = s.shown
  BY <1>4 DEF updateBulkBar, Pages, Same
<1>7. /\ r \in Pages /\ Same(q, r) /\ r.url = q.url /\ r.filter = q.filter /\ r.pane = q.pane
      /\ r.calls = q.calls /\ r.shown = rows
  <2>1. CASE rows = {}
    BY <1>4, <1>5, <2>1
  <2>2. CASE rows # {}
    <3> DEFINE b == updateBulkBar(s)
    <3>1. r = b
      BY <1>5, <2>2
    <3>2. Same(s, b)
      BY <1>6
    <3> HIDE DEF b
    <3>3. Same(q, b)
      BY <1>4, <3>2 DEF Same
    <3>. QED
      BY <1>4, <1>6, <3>1, <3>3 DEF b
  <2>. QED
    BY <2>1, <2>2
<1>8. /\ r.known = p.known \cup found
      /\ r.box = p.box /\ r.due = p.due /\ r.mail = p.mail /\ r.list = p.list
      /\ r.cache = p.cache /\ r.orphans = p.orphans /\ r.boot = p.boot
  <2>1. /\ q.box = p.box /\ q.due = p.due /\ q.mail = p.mail /\ q.list = p.list
        /\ q.cache = p.cache /\ q.orphans = p.orphans /\ q.boot = p.boot
    BY DEF q, Pages
  <2>. QED
    BY <1>1, <1>7, <2>1 DEF Same
<1> HIDE DEF r
<1>. QED
  BY <1>1, <1>2, <1>7, <1>8 DEF r

-----------------------------------------------------------------------------
(* The invariant of what the list, the setting and the pane show.          *)

Once(p, kind) ==
  \A i, j \in 1..Len(p.calls) : p.calls[i].kind = kind /\ p.calls[j].kind = kind => i = j

\* Until the list has come nothing is asked but for it and for the setting, which is answered first.
Opening ==
  /\ page.boot = "list" =>
       /\ page.box = None /\ ~page.due /\ page.known = {}
       /\ \A k : Has(page, k) => k \in {"pref", "list0", "save"}
       /\ Once(page, "pref") /\ Once(page, "list0")
       /\ Has(page, "pref") => ~Has(page, "save")
       /\ \A i \in 1..Len(page.calls) : page.calls[i].kind = "list0" /\ Has(page, "pref") =>
            source = "worker" /\ \E j \in 1..(i - 1) : page.calls[j].kind = "pref"
  /\ page.boot # "list" => ~Has(page, "pref") /\ ~Has(page, "list0")
  /\ page.boot # "done" => ~Has(page, "apply") /\ ~Has(page, "list") /\ ~Has(page, "full")
  /\ source = "worker" => ~Has(page, "local")
  /\ source = "api" => /\ ~Has(page, "apply") /\ ~Has(page, "list") /\ ~Has(page, "full")
                       /\ page.cache \in {None, {}, db}

\* The rows the page has are the directory's, or an update will read them again.
RowsFollow ==
  Without({"failed"}) =>
    /\ page.known \subseteq db \/ Has(page, "list") \/ Has(page, "full")
    /\ page.boot = "done" => db \subseteq page.known \/ Has(page, "list") \/ Has(page, "full")
    /\ page.boot # "list" => page.list = db \/ Has(page, "list")

\* The list is what is wanted, or something is due or under way that will make it so; a list that
\* is filtered without the full rows is what "early" speaks of.
ListFollows ==
  Without({"crossed", "early", "swapped", "failed", "uncached"}) /\ page.boot # "list" =>
    \/ page.due \/ Asking(page) \/ Has(page, "list")
    \/ page.filter /\ (page.boot = "full" \/ Has(page, "full"))
    \/ page.shown = Wanted

\* The box will be read from the setting, or is in it, or is what the last save carries.
SettingFollows ==
  source = "worker" /\ Without({"overtaken", "failed"}) /\ ~unsaved =>
    \/ Has(page, "pref")
    \/ ~Has(page, "save") /\ setting = page.mail
    \/ LastSave(page, page.mail)

\* A fellow who is back is no orphan once the scan of the last update has been answered.
OrphansFollow ==
  source = "worker" /\ Without({"failed"}) =>
    page.orphans \cap db = {} \/ Has(page, "list") \/ Has(page, "full") \/ Has(page, "scan")

\* The pane is the URL's, or the group's page is being asked for; what it flags has left.
PaneFollows ==
  /\ page.pane.at \in Fellows => page.url.at = page.pane.at
  /\ page.boot = "list" => page.pane.at # "group"
  /\ page.pane.at = "group" => page.pane.rows = members
  /\ source = "worker" /\ Without({"strayed", "failed"}) =>
       /\ page.pane.at = "group" => page.url.at = "group"
       /\ page.url.at = "group" => page.boot = "list" \/ page.pane.at = "group" \/ Has(page, "group")
  /\ /\ source = "worker" /\ Without({"strayed", "failed", "returned"}) /\ page.boot = "done"
     /\ page.pane.at = "group" /\ ~Has(page, "list") /\ ~Has(page, "full")
     => \/ page.pane.flagged = members \ db
        \/ /\ Has(page, "scan")
           /\ page.pane.flagged = members \cap (page.orphans \cup (Fellows \ db))

Follows ==
  Opening /\ RowsFollow /\ ListFollows /\ SettingFollows /\ OrphansFollow /\ PaneFollows

\* q is p after a call of `kind' was answered, if it is one, and calls of the kinds `sent' were sent.
Through(p, q, kind, sent) ==
  /\ \A k : Has(q, k) => Has(p, k) \/ k \in sent
  /\ \A k : Has(p, k) /\ k # kind => Has(q, k)
  /\ kind # "save" /\ "save" \notin sent => \A v : LastSave(p, v) => LastSave(q, v)
  /\ kind \notin {"search", "local"} /\ Asking(p) /\ q.box = p.box => Asking(q)
  /\ \A k : k \notin sent /\ Once(p, k) => Once(q, k) /\ (k = kind => ~Has(q, k))

LEMMA MemberThrough ==
  ASSUME NEW p \in Pages, NEW q \in Pages, NEW sent, More(p, q, sent)
  PROVE  Through(p, q, "none", sent)
<1>1. Len(p.calls) \in Nat /\ Len(q.calls) \in Nat
  BY Lengths
<1>2. p.calls \in Seq(Calls) /\ \A i \in 1..Len(p.calls) : p.calls[i] \in Calls
  BY CallOfPage
<1>3. ~Has(p, "none")
  BY <1>2 DEF Has, Calls
<1>4. ASSUME NEW k, k \notin sent, Once(p, k) PROVE Once(q, k)
  <2>1. \A i \in 1..Len(q.calls) : q.calls[i].kind = k => i \in 1..Len(p.calls) /\ q.calls[i] = p.calls[i]
    BY <1>1, <1>4 DEF More
  <2>. QED
    BY <1>4, <2>1 DEF Once
<1>5. \A k : Has(q, k) => Has(p, k) \/ k \in sent
  BY MoreInFlight
<1>6. \A k : Has(p, k) => Has(q, k)
  BY MoreInFlight
<1>7. Asking(p) /\ q.box = p.box => Asking(q)
  BY MoreInFlight
<1>8. "save" \notin sent => \A v : LastSave(p, v) => LastSave(q, v)
  BY MoreInFlight
<1>9. \A k : k \notin sent /\ Once(p, k) => Once(q, k) /\ (k = "none" => ~Has(q, k))
  BY <1>3, <1>4, <1>5
<1>. QED
  BY <1>5, <1>6, <1>7, <1>8, <1>9 DEF Through

LEMMA AnswerThrough ==
  ASSUME NEW p \in Pages, NEW i \in 1..Len(p.calls), NEW q \in Pages, NEW sent,
         More(Answered(p, i), q, sent)
  PROVE  Through(p, q, p.calls[i].kind, sent)
<1> DEFINE r == Answered(p, i)
           kind == p.calls[i].kind
<1>1. /\ r \in Pages /\ Same(p, r)
      /\ \A k : Has(r, k) => Has(p, k)
      /\ \A k : Has(p, k) /\ kind # k => Has(r, k)
      /\ Asking(p) /\ kind \notin {"search", "local"} => Asking(r)
      /\ kind # "save" => \A v : LastSave(p, v) => LastSave(r, v)
  BY AnsweredOne
<1>2. ASSUME NEW k, Once(p, k) PROVE Once(r, k) /\ (k = kind => ~Has(r, k))
  <2>1. Len(p.calls) \in Nat /\ Len(r.calls) \in Nat
    BY <1>1, Lengths
  <2> DEFINE at(j) == IF j < i THEN j ELSE j + 1
  <2>2. \A j \in 1..Len(r.calls) : at(j) \in 1..Len(p.calls) /\ at(j) # i /\ r.calls[j] = p.calls[at(j)]
    <3> DEFINE d == SubSeq(p.calls, 1, i - 1) \o SubSeq(p.calls, i + 1, Len(p.calls))
    <3>1. p.calls \in Seq(Calls)
      BY CallOfPage
    <3>2. Len(d) = Len(p.calls) - 1 /\ \A j \in 1..(Len(p.calls) - 1) : d[j] = IF j < i THEN p.calls[j] ELSE p.calls[j + 1]
      BY <3>1, Dropped
    <3>3. r.calls = d
      BY DEF Answered, Pages
    <3> HIDE DEF d, r
    <3>4. \A j \in 1..Len(r.calls) : j \in 1..(Len(p.calls) - 1) /\ r.calls[j] = d[j]
      BY <2>1, <3>2, <3>3
    <3>. QED
      BY <2>1, <3>2, <3>4
  <2>3. \A j, m \in 1..Len(r.calls) : at(j) = at(m) => j = m
    BY <2>1
  <2> HIDE DEF at, r
  <2>4. Once(r, k)
    <3> SUFFICES ASSUME NEW j \in 1..Len(r.calls), NEW m \in 1..Len(r.calls),
                        r.calls[j].kind = k, r.calls[m].kind = k
                 PROVE  j = m
      BY DEF Once
    <3>1. at(j) \in 1..Len(p.calls) /\ p.calls[at(j)].kind = k
      BY <2>2
    <3>2. at(m) \in 1..Len(p.calls) /\ p.calls[at(m)].kind = k
      BY <2>2
    <3>3. at(j) = at(m)
      BY <1>2, <3>1, <3>2 DEF Once
    <3>. QED
      BY <2>3, <3>3
  <2>5. k = kind => ~Has(r, k)
    BY <1>2, <2>2 DEF Once, Has
  <2>. QED
    BY <2>4, <2>5
<1>3. Through(r, q, "none", sent)
  BY <1>1, MemberThrough
<1> HIDE DEF r, kind
<1>4. \A k : Has(q, k) => Has(p, k) \/ k \in sent
  BY <1>1, <1>3 DEF Through
<1>5. \A k : Has(p, k) /\ k # kind => Has(q, k)
  <2>1. \A k : Has(r, k) => Has(q, k)
    BY <1>1, MoreInFlight DEF r
  <2>. QED
    BY <1>1, <2>1
<1>6. kind # "save" /\ "save" \notin sent => \A v : LastSave(p, v) => LastSave(q, v)
  BY <1>1, <1>3 DEF Through
<1>7. kind \notin {"search", "local"} /\ Asking(p) /\ q.box = p.box => Asking(q)
  BY <1>1, <1>3 DEF Through, Same
<1>8. \A k : k \notin sent /\ Once(p, k) => Once(q, k) /\ (k = kind => ~Has(q, k))
  BY <1>2, <1>3 DEF Through
<1>. QED
  BY <1>4, <1>5, <1>6, <1>7, <1>8 DEF Through, kind

-----------------------------------------------------------------------------
(* How each part is kept by the steps that leave it alone, and made again  *)
(* by the ones that render.                                                *)

LEMMA OpeningKept ==
  ASSUME Inv, Opening, page.boot # "list", NEW kind, NEW sent, Through(page, page', kind, sent),
         source' = source, "pref" \notin sent, "list0" \notin sent,
         "local" \in sent => source = "api",
         "apply" \in sent \/ "list" \in sent \/ "full" \in sent =>
           source = "worker" /\ page'.boot = "done",
         page'.boot = page.boot \/ page'.boot = "done",
         source = "api" => db' = db /\ page'.cache \in {page.cache, {}, db}
  PROVE  Opening'
<1>1. \A k : Has(page', k) => Has(page, k) \/ k \in sent
  BY DEF Through
<1>2. page'.boot # "list" /\ source \in {"worker", "api"}
  BY DEF Inv
<1>3. ~Has(page', "pref") /\ ~Has(page', "list0")
  BY <1>1 DEF Opening
<1>4. page'.boot # "done" => ~Has(page', "apply") /\ ~Has(page', "list") /\ ~Has(page', "full")
  BY <1>1 DEF Opening
<1>5. source = "worker" => ~Has(page', "local")
  BY <1>1 DEF Opening
<1>6. source = "api" => /\ ~Has(page', "apply") /\ ~Has(page', "list") /\ ~Has(page', "full")
                        /\ page'.cache \in {None, {}, db}
  BY <1>1 DEF Opening
<1>. QED
  BY <1>2, <1>3, <1>4, <1>5, <1>6 DEF Opening

LEMMA RowsKept ==
  ASSUME RowsFollow, rash \subseteq rash', db' = db,
         page'.list = page.list, page'.boot = page.boot,
         page.known \subseteq page'.known, page'.known \subseteq page.known \cup db,
         Has(page, "list") => Has(page', "list"), Has(page, "full") => Has(page', "full")
  PROVE  RowsFollow'
<1>1. ASSUME "failed" \notin rash' PROVE Without({"failed"})
  BY <1>1 DEF Without
<1>. QED
  BY <1>1 DEF RowsFollow, Without

LEMMA ListKept ==
  ASSUME ListFollows, rash \subseteq rash', page.boot # "list", db' = db,
         page'.boot = page.boot, page'.box = page.box, page'.mail = page.mail,
         page'.filter = page.filter, page'.shown = page.shown, page'.due = page.due,
         Asking(page) => Asking(page'),
         Has(page, "list") => Has(page', "list"), Has(page, "full") => Has(page', "full")
  PROVE  ListFollows'
<1>1. Wanted' = Wanted
  BY DEF Wanted
<1>2. Without({"crossed", "early", "swapped", "failed", "uncached"})' =>
        Without({"crossed", "early", "swapped", "failed", "uncached"})
  BY DEF Without
<1>. QED
  BY <1>1, <1>2 DEF ListFollows

\* A list that was rendered, or asked for, is the one that is wanted.
LEMMA ListMade ==
  ASSUME page' \in Pages, db' \in SUBSET Fellows, RowsFollow',
         \/ Asking(page')
         \/ page'.box = None /\ page'.shown = applyFilters(page', page'.list)
  PROVE  ListFollows'
<1> SUFFICES ASSUME Without({"crossed", "early", "swapped", "failed", "uncached"})',
                    page'.boot # "list", ~Asking(page'), ~Has(page', "list"),
                    ~(page'.filter /\ (page'.boot = "full" \/ Has(page', "full")))
             PROVE  page'.shown = Wanted'
  BY DEF ListFollows
<1>1. "failed" \notin rash'
  BY DEF Without
<1>2. page'.list = db' /\ page'.boot \in {"full", "done"} /\ page'.filter \in BOOLEAN
  BY <1>1 DEF RowsFollow, Without, Pages
<1>3. page'.filter => page'.known = db'
  BY <1>1, <1>2 DEF RowsFollow, Without
<1>4. page'.shown = {f \in db' : (page'.mail => f \in WithEmail) /\ (page'.filter => f \in page'.known \cap Picked)}
  BY <1>2 DEF applyFilters
<1>5. Wanted' = {f \in db' : (page'.mail => f \in WithEmail) /\ (page'.filter => f \in Picked)}
  BY DEF Wanted
<1>. QED
  BY <1>3, <1>4, <1>5

LEMMA SettingKept ==
  ASSUME SettingFollows, rash \subseteq rash', source' = source, setting' = setting,
         unsaved' = unsaved, page'.mail = page.mail,
         Has(page, "pref") => Has(page', "pref"), Has(page', "save") => Has(page, "save"),
         LastSave(page, page.mail) => LastSave(page', page.mail)
  PROVE  SettingFollows'
<1>1. Without({"overtaken", "failed"})' => Without({"overtaken", "failed"})
  BY DEF Without
<1>. QED
  BY <1>1 DEF SettingFollows

LEMMA OrphansKept ==
  ASSUME OrphansFollow, rash \subseteq rash', source' = source, db' = db,
         page'.orphans \subseteq page.orphans,
         Has(page, "list") => Has(page', "list"), Has(page, "full") => Has(page', "full"),
         Has(page, "scan") => Has(page', "scan")
  PROVE  OrphansFollow'
<1>1. Without({"failed"})' => Without({"failed"})
  BY DEF Without
<1>. QED
  BY <1>1 DEF OrphansFollow

LEMMA PaneKept ==
  ASSUME PaneFollows, rash \subseteq rash', source' = source, db' = db, members' = members,
         page'.pane.at = page.pane.at, page'.pane.rows = page.pane.rows,
         page'.pane.flagged = page.pane.flagged,
         page'.url.at = page.url.at, page'.boot = page.boot, page'.orphans = page.orphans,
         Has(page, "group") => Has(page', "group"), Has(page, "scan") => Has(page', "scan"),
         Has(page, "list") => Has(page', "list"), Has(page, "full") => Has(page', "full")
  PROVE  PaneFollows'
<1>1. Without({"strayed", "failed"})' => Without({"strayed", "failed"})
  BY DEF Without
<1>2. Without({"strayed", "failed", "returned"})' => Without({"strayed", "failed", "returned"})
  BY DEF Without
<1>. QED
  BY <1>1, <1>2 DEF PaneFollows

LEMMA PaneMade ==
  ASSUME source' = source, PaneOf(page', page'.url.at)
  PROVE  PaneFollows'
BY DEF PaneFollows, PaneOf

\* A step that leaves the page's list, boot and data alone, and answers and sends calls that no
\* part of Follows is about.
LEMMA NothingElse ==
  ASSUME Inv, Follows, rash \subseteq rash', page.boot # "list",
         source' = source, db' = db, members' = members, setting' = setting, unsaved' = unsaved,
         NEW kind, NEW sent, Through(page, page', kind, sent),
         kind \notin {"pref", "search", "local", "save", "list", "full", "group", "scan"},
         sent \subseteq {"remove", "apply"}, "apply" \in sent => source = "worker" /\ page.boot = "done",
         Same(page, page'), page'.url = page.url, page'.filter = page.filter,
         page'.shown = page.shown, page'.pane.at = page.pane.at,
         page'.pane.rows = page.pane.rows, page'.pane.flagged = page.pane.flagged
  PROVE  Follows'
<1>1. /\ page'.box = page.box /\ page'.due = page.due /\ page'.mail = page.mail
      /\ page'.list = page.list /\ page'.known = page.known /\ page'.cache = page.cache
      /\ page'.orphans = page.orphans /\ page'.boot = page.boot
  BY DEF Same
<1>2. /\ Has(page, "list") => Has(page', "list")
      /\ Has(page, "full") => Has(page', "full")
      /\ Has(page, "scan") => Has(page', "scan")
      /\ Has(page, "group") => Has(page', "group")
      /\ Has(page, "pref") => Has(page', "pref")
      /\ Has(page', "save") => Has(page, "save")
      /\ Asking(page) => Asking(page')
      /\ LastSave(page, page.mail) => LastSave(page', page.mail)
  BY <1>1 DEF Through
<1>3. Opening'
  BY <1>1, OpeningKept DEF Follows
<1>4. RowsFollow'
  BY <1>1, <1>2, RowsKept DEF Follows
<1>5. ListFollows'
  BY <1>1, <1>2, ListKept DEF Follows
<1>6. SettingFollows'
  BY <1>1, <1>2, SettingKept DEF Follows
<1>7. OrphansFollow'
  BY <1>1, <1>2, OrphansKept DEF Follows
<1>8. PaneFollows'
  BY <1>1, <1>2, PaneKept DEF Follows
<1>. QED
  BY <1>3, <1>4, <1>5, <1>6, <1>7, <1>8 DEF Follows

-----------------------------------------------------------------------------
(* The steps.                                                              *)

LEMMA InitFollows == Init => Follows
<1> SUFFICES ASSUME Init PROVE Follows
  OBVIOUS
<1>1. PICK place \in Places, filter \in BOOLEAN, mail \in BOOLEAN :
        page = [url |-> [at |-> place, filter |-> filter], box |-> None, due |-> FALSE,
                mail |-> mail, filter |-> filter, list |-> {}, known |-> {}, cache |-> None,
                displayed |-> {}, shown |-> {}, bar |-> {}, pane |-> Blank("nobody"),
                orphans |-> {}, boot |-> "list",
                calls |-> IF source = "worker" THEN <<Ask("pref", None), Ask("list0", None)>>
                                               ELSE <<Ask("list0", None)>>]
  BY ZenonT(60) DEF Init
<1>2. /\ page.boot = "list" /\ page.box = None /\ page.due = FALSE /\ page.known = {}
      /\ page.cache = None /\ page.orphans = {} /\ page.pane = Blank("nobody")
      /\ page.calls = IF source = "worker" THEN <<Ask("pref", None), Ask("list0", None)>>
                                           ELSE <<Ask("list0", None)>>
  BY <1>1
<1>3. Ask("pref", None).kind = "pref" /\ Ask("list0", None).kind = "list0"
  BY DEF Ask
<1>4. page.pane.at = "nobody" /\ "nobody" \notin Fellows
  BY <1>2, NotFellows DEF Blank
<1>5. source \in {"worker", "api"}
  BY DEF Init
<1>6. CASE source = "worker"
  <2> DEFINE a == Ask("pref", None)
             b == Ask("list0", None)
  <2>1. page.calls = <<a, b>> /\ a.kind = "pref" /\ b.kind = "list0"
    BY <1>2, <1>3, <1>6
  <2> HIDE DEF a, b
  <2>2. Len(page.calls) = 2 /\ page.calls[1].kind = "pref" /\ page.calls[2].kind = "list0"
    BY <2>1
  <2>3. \A i \in 1..Len(page.calls) : i = 1 \/ i = 2
    BY <2>2
  <2>4. Has(page, "pref")
    BY <2>2 DEF Has
  <2>5. \A k : Has(page, k) => k \in {"pref", "list0"}
    BY <2>2, <2>3 DEF Has
  <2>6. Once(page, "pref") /\ Once(page, "list0")
    BY <2>2, <2>3 DEF Once
  <2>7. \A i \in 1..Len(page.calls) : page.calls[i].kind = "list0" =>
           \E j \in 1..(i - 1) : page.calls[j].kind = "pref"
    BY <2>2, <2>3
  <2>8. Opening
    BY <1>2, <1>6, <2>5, <2>6, <2>7 DEF Opening
  <2>. QED
    BY <1>2, <1>4, <2>4, <2>8 DEF Follows, RowsFollow, ListFollows, SettingFollows, OrphansFollow, PaneFollows
<1>7. CASE source = "api"
  <2> DEFINE b == Ask("list0", None)
  <2>1. page.calls = <<b>> /\ b.kind = "list0"
    BY <1>2, <1>3, <1>7
  <2> HIDE DEF b
  <2>2. Len(page.calls) = 1 /\ page.calls[1].kind = "list0"
    BY <2>1
  <2>3. \A i \in 1..Len(page.calls) : i = 1
    BY <2>2
  <2>4. \A k : Has(page, k) => k = "list0"
    BY <2>2, <2>3 DEF Has
  <2>5. Once(page, "pref") /\ Once(page, "list0")
    BY <2>2, <2>3 DEF Once
  <2>6. Opening
    BY <1>2, <1>7, <2>4, <2>5 DEF Opening
  <2>. QED
    BY <1>2, <1>4, <1>7, <2>6 DEF Follows, RowsFollow, ListFollows, SettingFollows, OrphansFollow, PaneFollows
<1>. QED
  BY <1>5, <1>6, <1>7

\* A route keeps what is so of the data and the setting, and makes the list and the pane anew.
LEMMA RouteFollows ==
  ASSUME Inv, Inv', NEW q \in Pages, NEW u, Lands(q, page', u), NEW kind, NEW sent,
         Through(page, page', kind, sent),
         Opening', RowsFollow', SettingFollows', OrphansFollow', rash \subseteq rash',
         source' = source, ListFollows, db' = db, page.boot # "list",
         q.box = page.box, q.mail = page.mail, q.filter = page.filter, q.shown = page.shown,
         q.due = page.due, q.boot = page.boot \/ (~page.filter \/ "early" \in rash'),
         kind \notin {"search", "local", "list"},
         kind # "full" \/ ~page.filter \/ "early" \in rash'
  PROVE  Follows'
<1>1. page'.box = page.box /\ page'.mail = page.mail /\ page'.due = page.due /\ page'.boot = q.boot
  BY DEF Lands, Same
<1>2. PaneFollows'
  BY PaneMade DEF Lands
<1>3. CASE page'.filter = page.filter /\ page'.shown = page.shown
  <2>1. Wanted' = Wanted
    BY <1>1, <1>3 DEF Wanted
  <2>2. /\ Asking(page) => Asking(page')
        /\ Has(page, "list") => Has(page', "list")
        /\ kind # "full" => (Has(page, "full") => Has(page', "full"))
    BY <1>1 DEF Through
  <2>3. Without({"crossed", "early", "swapped", "failed", "uncached"})' =>
          Without({"crossed", "early", "swapped", "failed", "uncached"}) /\ "early" \notin rash'
    BY DEF Without
  <2>4. ListFollows'
    BY <1>1, <1>3, <2>1, <2>2, <2>3 DEF ListFollows
  <2>. QED
    BY <1>2, <2>4 DEF Follows
<1>4. CASE ~(page'.filter = page.filter /\ page'.shown = page.shown)
  <2>1. Asking(page') \/ (page'.box = None /\ page'.shown = applyFilters(page', page'.list))
    BY <1>4 DEF Lands
  <2>2. page' \in Pages /\ db' \in SUBSET Fellows
    BY DataAssumption DEF Inv, Sound
  <2>3. ListFollows'
    BY <2>1, <2>2, ListMade
  <2>. QED
    BY <1>2, <2>3 DEF Follows
<1>. QED
  BY <1>3, <1>4

LEMMA LinksAreUrls == \A u \in Links : u \in [at : Places, filter : BOOLEAN]
<1> SUFFICES ASSUME NEW u \in Links PROVE u \in [at : Places, filter : BOOLEAN]
  OBVIOUS
<1>1. "directory" \in Places
  BY DEF Places
<1>2. CASE u = [at |-> "directory", filter |-> TRUE]
  BY <1>1, <1>2
<1>3. ASSUME NEW place \in Places, u = At(place) PROVE u \in [at : Places, filter : BOOLEAN]
  BY <1>3 DEF At
<1>. QED
  BY <1>2, <1>3 DEF Links

LEMMA MemberFollows == ASSUME Inv, Inv', Follows, Member PROVE Follows'
<1>0. /\ page \in Pages /\ page' \in Pages /\ db \in SUBSET Fellows /\ source \in {"worker", "api"}
      /\ page.boot # "list" => page.list # {}
      /\ page.boot \in {"list", "full", "done"}
  BY PageIsSound, DataAssumption DEF Inv, Sound, Pages
<1>a. Asks \subseteq {"search", "local"} /\ ("local" \in Asks => source = "api")
  BY DEF Asks
<1>1. ASSUME NEW u \in Links, GoTo(u) PROVE Follows'
  <2> DEFINE sent == Asks \cup {"one", "group"}
  <2>1. u \in [at : Places, filter : BOOLEAN]
    BY LinksAreUrls
  <2>2. page' \in route(page, u) /\ page.boot # "list" /\ UNCHANGED <<source, db, members, setting, unsaved, rash>>
    BY <1>1 DEF GoTo, Room, Usable
  <2>3. Routed(page, page', u)
    BY <1>0, <2>1, <2>2, RouteIsRouted
  <2>4. Through(page, page', "none", sent)
    BY <1>0, <2>3, MemberThrough DEF Routed, Lands
  <2>5. /\ page'.boot = page.boot /\ page'.cache = page.cache /\ page'.list = page.list
        /\ page'.known = page.known /\ page'.mail = page.mail /\ page'.orphans = page.orphans
    BY <2>3 DEF Routed, Lands, Same
  <2>6. Opening'
    BY <1>a, <2>2, <2>4, <2>5, OpeningKept DEF Follows
  <2>7. /\ Has(page, "list") => Has(page', "list")
        /\ Has(page, "full") => Has(page', "full")
        /\ Has(page, "scan") => Has(page', "scan")
        /\ Has(page, "pref") => Has(page', "pref")
        /\ Has(page', "save") => Has(page, "save")
        /\ LastSave(page, page.mail) => LastSave(page', page.mail)
    BY <1>a, <2>4 DEF Through
  <2>8. RowsFollow'
    BY <2>2, <2>5, <2>7, RowsKept DEF Follows
  <2>9. SettingFollows'
    BY <2>2, <2>5, <2>7, SettingKept DEF Follows
  <2>10. OrphansFollow'
    BY <2>2, <2>5, <2>7, OrphansKept DEF Follows
  <2>. QED
    BY <1>0, <2>2, <2>3, <2>4, <2>6, <2>8, <2>9, <2>10, RouteFollows DEF Follows, Routed, Lands
<1>2. ASSUME NEW q \in Boxes, TypeQuery(q) PROVE Follows'
  <2>1. /\ page' = [page EXCEPT !.box = q, !.due = TRUE] /\ page.boot # "list"
        /\ UNCHANGED <<source, db, members, setting, unsaved, rash>>
    BY <1>2 DEF TypeQuery, Usable
  <2>2. /\ page'.due = TRUE /\ page'.calls = page.calls /\ page'.boot = page.boot
        /\ page'.cache = page.cache /\ page'.list = page.list /\ page'.known = page.known
        /\ page'.mail = page.mail /\ page'.orphans = page.orphans /\ page'.pane = page.pane
        /\ page'.url = page.url
    BY <1>0, <2>1 DEF Pages
  <2>3. Through(page, page', "none", {})
    BY <1>0, <2>2, MoreThanItself, MemberThrough
  <2>4. /\ \A k : Has(page, k) => Has(page', k)
        /\ \A k : Has(page', k) => Has(page, k)
        /\ LastSave(page, page.mail) => LastSave(page', page.mail)
    BY <2>2 DEF Has, LastSave
  <2>5. Opening'
    BY <2>1, <2>2, <2>3, OpeningKept DEF Follows
  <2>6. RowsFollow'
    BY <2>1, <2>2, <2>4, RowsKept DEF Follows
  <2>7. SettingFollows'
    BY <2>1, <2>2, <2>4, SettingKept DEF Follows
  <2>8. OrphansFollow'
    BY <2>1, <2>2, <2>4, OrphansKept DEF Follows
  <2>9. PaneFollows'
    BY <2>1, <2>2, <2>4, PaneKept DEF Follows
  <2>10. ListFollows'
    BY <2>2 DEF ListFollows
  <2>. QED
    BY <2>5, <2>6, <2>7, <2>8, <2>9, <2>10 DEF Follows
\* What renders the list without a route: the search box, the "has email" box, the filter sheet.
<1>3. ASSUME NEW p \in Pages, Rendered(p, page'), page.boot # "list",
             NEW sent \in SUBSET {"save"}, More(page, p, sent),
             p.list = page.list, p.known = page.known, p.cache = page.cache,
             p.orphans = page.orphans, p.boot = page.boot, p.pane = page.pane, p.url.at = page.url.at,
             UNCHANGED <<source, db, members, setting, rash>>,
             \/ p.mail = page.mail /\ sent = {} /\ unsaved' = unsaved
             \/ source = "worker" /\ ~unsaved' => LastSave(p, p.mail)
      PROVE  Follows'
  <2> DEFINE all == Asks \cup {"save"}
  <2>1. /\ page'.list = page.list /\ page'.known = page.known /\ page'.cache = page.cache
        /\ page'.orphans = page.orphans /\ page'.boot = page.boot /\ page'.pane = page.pane
        /\ page'.url.at = page.url.at /\ page'.mail = p.mail
        /\ More(p, page', Asks)
    BY <1>3 DEF Rendered, Same
  <2>2. More(page, page', sent \cup Asks)
    BY <1>0, <1>3, <2>1, MoreAndMore
  <2>3. Through(page, page', "none", sent \cup Asks)
    BY <1>0, <2>2, MemberThrough
  <2>4. Opening'
    BY <1>3, <1>a, <2>1, <2>3, OpeningKept DEF Follows
  <2>5. /\ Has(page, "list") => Has(page', "list")
        /\ Has(page, "full") => Has(page', "full")
        /\ Has(page, "scan") => Has(page', "scan")
        /\ Has(page, "group") => Has(page', "group")
        /\ Has(page, "pref") => Has(page', "pref")
    BY <2>3 DEF Through
  <2>6. RowsFollow'
    BY <1>3, <2>1, <2>5, RowsKept DEF Follows
  <2>7. SettingFollows'
    <3>1. CASE p.mail = page.mail /\ sent = {} /\ unsaved' = unsaved
      <4>1. /\ Has(page', "save") => Has(page, "save")
            /\ LastSave(page, page.mail) => LastSave(page', page.mail)
        BY <1>a, <2>3, <3>1 DEF Through
      <4>. QED
        BY <1>3, <2>1, <2>5, <3>1, <4>1, SettingKept DEF Follows
    <3>2. CASE source = "worker" /\ ~unsaved' => LastSave(p, p.mail)
      <4>1. LastSave(p, p.mail) => LastSave(page', p.mail)
        BY <1>0, <1>3, <1>a, <2>1, MoreInFlight
      <4>. QED
        BY <1>3, <2>1, <3>2, <4>1 DEF SettingFollows
    <3>. QED
      BY <1>3, <3>1, <3>2
  <2>8. OrphansFollow'
    BY <1>3, <2>1, <2>5, OrphansKept DEF Follows
  <2>9. PaneFollows'
    BY <1>3, <2>1, <2>5, PaneKept DEF Follows
  <2>10. ListFollows'
    BY <1>0, <1>3, <2>6, ListMade DEF Rendered
  <2>. QED
    BY <2>4, <2>6, <2>7, <2>8, <2>9, <2>10 DEF Follows
<1>4. CASE SearchDebounced
  <2> DEFINE p == [page EXCEPT !.due = FALSE]
  <2>1. /\ page' \in runSearch(p, page.box) /\ page.boot # "list"
        /\ UNCHANGED <<source, db, members, setting, unsaved, rash>>
    BY <1>4 DEF SearchDebounced, Room, Usable
  <2>2. /\ p \in Pages /\ p.list = page.list /\ p.known = page.known /\ p.cache = page.cache
        /\ p.orphans = page.orphans /\ p.boot = page.boot /\ p.pane = page.pane /\ p.url.at = page.url.at
        /\ p.mail = page.mail /\ p.box = page.box /\ p.calls = page.calls
    BY <1>0 DEF Pages
  <2> HIDE DEF p
  <2>3. Rendered(p, page')
    BY <1>0, <2>1, <2>2, SearchRendered
  <2>4. More(page, p, {})
    BY <1>0, <2>2, MoreThanItself
  <2>. QED
    BY <1>3, <2>1, <2>2, <2>3, <2>4
<1>5. CASE ToggleHasEmail
  <2> DEFINE m == [page EXCEPT !.mail = ~@]
             p == IF privateDataEnabled THEN Send(m, "save", m.mail) ELSE m
  <2>1. /\ page' \in runSearch(p, page.box) /\ page.boot # "list"
        /\ UNCHANGED <<source, db, members, setting, rash>>
    BY <1>5 DEF ToggleHasEmail, Room, Usable
  <2>u. source = "worker" /\ ~folder => unsaved'
    BY <1>5, Zenon DEF ToggleHasEmail, Unsaved
  <2>2. /\ m \in Pages /\ m.list = page.list /\ m.known = page.known /\ m.cache = page.cache
        /\ m.orphans = page.orphans /\ m.boot = page.boot /\ m.pane = page.pane /\ m.url.at = page.url.at
        /\ m.box = page.box /\ m.calls = page.calls /\ m.mail \in BOOLEAN
    BY <1>0 DEF Pages
  <2> HIDE DEF m
  <2>3. Ask("save", m.mail) \in Calls
    BY <2>2 DEF Ask, Calls
  <2>4. /\ p \in Pages /\ p.list = page.list /\ p.known = page.known /\ p.cache = page.cache
        /\ p.orphans = page.orphans /\ p.boot = page.boot /\ p.pane = page.pane /\ p.url.at = page.url.at
        /\ p.box = page.box /\ p.mail = m.mail
        /\ More(m, p, {"save"})
        /\ privateDataEnabled => LastSave(p, p.mail)
    <3>1. CASE privateDataEnabled
      <4>1. p = Send(m, "save", m.mail)
        BY <3>1
      <4> HIDE DEF p
      <4>2. /\ p \in Pages /\ Same(m, p) /\ p.url = m.url /\ p.pane = m.pane
            /\ More(m, p, {"save"}) /\ LastSave(p, m.mail)
        BY <2>2, <2>3, <4>1, SentOne
      <4>. QED
        BY <2>2, <4>2 DEF Same
    <3>2. CASE ~privateDataEnabled
      <4>1. p = m
        BY <3>2
      <4> HIDE DEF p
      <4>2. More(m, p, {"save"})
        BY <2>2, <4>1, MoreThanItself
      <4>. QED
        BY <2>2, <3>2, <4>1, <4>2
    <3>. QED
      BY <3>1, <3>2
  <2> HIDE DEF p
  <2>5. Rendered(p, page')
    BY <1>0, <2>1, <2>4, SearchRendered
  <2>6. More(page, p, {"save"})
    <3>1. More(page, m, {"save"})
      BY <1>0, <2>2, MoreThanItself
    <3>. QED
      BY <1>0, <2>2, <2>4, <3>1, MoreAndMore
  <2>7. source = "worker" /\ ~unsaved' => LastSave(p, p.mail)
    BY <2>u, <2>4 DEF privateDataEnabled
  <2>. QED
    BY <1>3, <2>1, <2>4, <2>5, <2>6, <2>7
<1>6. CASE ToggleFilter
  <2> DEFINE m == [page EXCEPT !.filter = ~@]
             p == writeFiltersToHash(m)
  <2>1. /\ page' \in rerenderForFilterChange(p) /\ page.boot # "list"
        /\ UNCHANGED <<source, db, members, setting, unsaved, rash>>
    BY <1>6 DEF ToggleFilter, Room, Usable
  <2>2. /\ m \in Pages /\ m.list = page.list /\ m.known = page.known /\ m.cache = page.cache
        /\ m.orphans = page.orphans /\ m.boot = page.boot /\ m.pane = page.pane /\ m.url = page.url
        /\ m.calls = page.calls /\ m.mail = page.mail
    BY <1>0 DEF Pages
  <2> HIDE DEF m
  <2>3. /\ p \in Pages /\ p.list = m.list /\ p.known = m.known /\ p.cache = m.cache
        /\ p.orphans = m.orphans /\ p.boot = m.boot /\ p.pane = m.pane /\ p.url.at = m.url.at
        /\ p.calls = m.calls /\ p.mail = m.mail
    BY <2>2 DEF Pages, writeFiltersToHash
  <2> HIDE DEF p
  <2>4. Rendered(p, page')
    BY <1>0, <2>1, <2>2, <2>3, FilterRendered
  <2>5. More(page, p, {})
    BY <1>0, <2>2, <2>3, MoreThanItself
  <2>. QED
    BY <1>3, <2>1, <2>2, <2>3, <2>4, <2>5
<1>7. ASSUME NEW f \in Fellows, RemoveOrphan(f) PROVE Follows'
  <2> DEFINE m == [page EXCEPT !.pane.busy = @ \cup {f}]
             arg == [group |-> page.pane.rows \ {f}, gone |-> f]
  <2>1. /\ page' = Send(m, "remove", arg) /\ page.boot # "list" /\ rash \subseteq rash'
        /\ UNCHANGED <<source, db, members, setting, unsaved>>
    BY <1>7 DEF RemoveOrphan, Room, Usable, Note
  <2>2. /\ m \in Pages /\ Same(page, m) /\ m.url = page.url /\ m.filter = page.filter
        /\ m.shown = page.shown /\ m.calls = page.calls /\ m.pane.at = page.pane.at
        /\ m.pane.rows = page.pane.rows /\ m.pane.flagged = page.pane.flagged
    BY <1>0 DEF Pages, Panes, Same
  <2>3. arg \in Removal
    BY <1>0 DEF Removal, Pages, Panes
  <2> HIDE DEF m, arg
  <2>4. Ask("remove", arg) \in Calls
    BY <2>3 DEF Ask, Calls
  <2>5. /\ Same(m, page') /\ page'.url = m.url /\ page'.filter = m.filter /\ page'.pane = m.pane
        /\ page'.shown = m.shown /\ More(m, page', {"remove"})
    BY <2>1, <2>2, <2>4, SentOne
  <2>6. More(page, m, {"remove"})
    BY <1>0, <2>2, MoreThanItself
  <2>7. More(page, page', {"remove"})
    BY <1>0, <2>2, <2>5, <2>6, MoreAndMore
  <2>8. Through(page, page', "none", {"remove"})
    BY <1>0, <2>7, MemberThrough
  <2>9. Same(page, page')
    BY <2>2, <2>5 DEF Same
  <2>. QED
    BY <2>1, <2>2, <2>5, <2>8, <2>9, NothingElse
<1>8. ASSUME NEW d \in Directories, UpdateDirectoryData(d) PROVE Follows'
  <2>1. /\ page' = Send(page, "apply", d) /\ page.boot = "done" /\ source = "worker"
        /\ UNCHANGED <<source, db, members, setting, unsaved, rash>>
    BY <1>8 DEF UpdateDirectoryData
  <2>2. Ask("apply", d) \in Calls
    BY DEF Ask, Calls
  <2>3. /\ Same(page, page') /\ page'.url = page.url /\ page'.filter = page.filter
        /\ page'.pane = page.pane /\ page'.shown = page.shown /\ More(page, page', {"apply"})
    BY <1>0, <2>1, <2>2, SentOne
  <2>4. Through(page, page', "none", {"apply"})
    BY <1>0, <2>3, MemberThrough
  <2>. QED
    BY <2>1, <2>3, <2>4, NothingElse
<1>. QED
  BY <1>1, <1>2, <1>4, <1>5, <1>6, <1>7, <1>8 DEF Member

\* What is known of the page when the i-th call is answered.
LEMMA AnswerKnown ==
  ASSUME Inv, Opening, NEW i \in 1..Len(page.calls)
  PROVE  LET p == Answered(page, i)
             kind == page.calls[i].kind IN
         /\ page \in Pages /\ db \in SUBSET Fellows /\ db # {} /\ source \in {"worker", "api"}
         /\ page.calls[i] \in Calls /\ Has(page, kind)
         /\ p \in Pages /\ Same(page, p) /\ p.url = page.url /\ p.filter = page.filter
         /\ p.pane = page.pane /\ p.shown = page.shown
         /\ kind \notin {"pref", "list0", "save"} => page.boot # "list" /\ page.list # {}
         /\ kind \in {"pref", "list0"} => page.boot = "list"
         /\ kind \in {"apply", "list", "full"} => page.boot = "done" /\ source = "worker"
         /\ kind = "local" => source = "api"
<1>1. page \in Pages /\ page.calls[i] \in Calls /\ (page.boot # "list" => page.list # {})
  BY PageIsSound
<1>2. db \in SUBSET Fellows /\ db # {} /\ source \in {"worker", "api"}
  BY DataAssumption DEF Inv
<1>3. Has(page, page.calls[i].kind)
  BY DEF Has
<1>. QED
  BY <1>1, <1>2, <1>3, AnsweredOne DEF Opening

\* The results of a search for what the box holds are what is wanted; those of another search
\* are shown while the one for the box, or the debounce, is still to come, or are "crossed".
LEMMA ResultsFollow ==
  ASSUME Inv, Follows, NEW i \in 1..Len(page.calls), page.calls[i].kind \in {"search", "local"},
         page.boot # "list",
         UNCHANGED <<source, db, members, setting, unsaved>>, rash \subseteq rash',
         Crossed(page, page.calls[i].arg) => "crossed" \in rash',
         NEW r \in Pages, r.calls = Answered(page, i).calls,
         r.box = page.box, r.due = page.due, r.mail = page.mail, r.list = page.list,
         r.known = page.known, r.orphans = page.orphans, r.boot = page.boot,
         r.filter = page.filter, r.url = page.url, r.pane = page.pane,
         source = "api" => r.cache \in {page.cache, {}, db},
         page' = renderSearchResults(r, Hits[page.calls[i].arg] \cap db)
  PROVE  Follows'
<1> DEFINE q == page.calls[i].arg
           p == Answered(page, i)
           kind == page.calls[i].kind
<1>1. /\ page \in Pages /\ db \in SUBSET Fellows /\ source \in {"worker", "api"}
      /\ p \in Pages /\ page.calls[i] \in Calls /\ Same(page, p)
  BY AnswerKnown DEF Follows
<1>2. q \in Queries /\ q # None
  <2>1. q \in Queries
    BY <1>1 DEF Calls
  <2>. QED
    BY <2>1, NoneAssumption
<1> HIDE DEF p
<1>3. Hits[q] \cap db \in SUBSET Fellows
  BY <1>1
<1>4. /\ page' \in Pages /\ page'.known = page.known \cup (Hits[q] \cap db)
      /\ page'.box = page.box /\ page'.due = page.due /\ page'.mail = page.mail
      /\ page'.list = page.list /\ page'.orphans = page.orphans /\ page'.boot = page.boot
      /\ page'.cache = r.cache
      /\ page'.url = page.url /\ page'.filter = page.filter /\ page'.pane = page.pane
      /\ page'.calls = p.calls
      /\ page'.shown = {f \in Hits[q] \cap db : (page.mail => f \in WithEmail) /\ (page.filter => f \in Picked)}
  BY <1>3, ResultsRendered DEF p
<1>5. page'.box = page.box /\ page'.boot = page.boot
  BY <1>4
<1> HIDE DEF q
<1>6. Through(page, page', kind, {})
  <2>1. More(p, page', {})
    BY <1>1, <1>4, MoreThanItself
  <2>. QED
    BY <1>1, <1>4, <2>1, AnswerThrough DEF p
<1> HIDE DEF kind
<1>k. kind \in {"search", "local"}
  BY DEF kind
<1>7. /\ Has(page, "list") => Has(page', "list")
      /\ Has(page, "full") => Has(page', "full")
      /\ Has(page, "scan") => Has(page', "scan")
      /\ Has(page, "group") => Has(page', "group")
      /\ Has(page, "pref") => Has(page', "pref")
      /\ Has(page', "save") => Has(page, "save")
      /\ LastSave(page, page.mail) => LastSave(page', page.mail)
  BY <1>6, <1>k DEF Through
<1>8. Opening'
  BY <1>4, <1>6, OpeningKept DEF Follows
<1>9. RowsFollow'
  <2>1. page.known \subseteq page'.known /\ page'.known \subseteq page.known \cup db
    BY <1>4
  <2>. QED
    BY <1>4, <1>7, <2>1, RowsKept DEF Follows
<1>10. ListFollows'
  <2>1. CASE page.box = q
    <3>1. Wanted' = {f \in Hits[q] \cap db : (page.mail => f \in WithEmail) /\ (page.filter => f \in Picked)}
      BY <1>2, <1>4, <2>1 DEF Wanted
    <3>. QED
      BY <1>4, <3>1 DEF ListFollows
  <2>2. CASE page.box # q /\ (page.due \/ "crossed" \in rash')
    BY <1>4, <2>2 DEF ListFollows, Without
  <2>3. CASE page.box # q /\ ~page.due /\ "crossed" \notin rash'
    <3>1. Asking(page)
      BY <2>3 DEF Crossed, Asking, q
    <3>2. Asking(p)
      BY <1>1, <2>3, <3>1, AnsweredOne DEF p, q
    <3>3. Asking(page')
      BY <1>1, <1>4, <1>5, <3>2 DEF Asking, Same
    <3>. QED
      BY <3>3 DEF ListFollows
  <2>. QED
    BY <2>1, <2>2, <2>3
<1>11. SettingFollows'
  BY <1>4, <1>7, SettingKept DEF Follows
<1>12. OrphansFollow'
  BY <1>4, <1>7, OrphansKept DEF Follows
<1>13. PaneFollows'
  BY <1>4, <1>7, PaneKept DEF Follows
<1>. QED
  BY <1>8, <1>9, <1>10, <1>11, <1>12, <1>13 DEF Follows

LEMMA SearchAnswersFollow ==
  ASSUME Inv, Inv', Follows, NEW i \in 1..Len(page.calls), Search(i)
  PROVE  Follows'
<1> DEFINE p == Answered(page, i)
           q == page.calls[i].arg
           kind == page.calls[i].kind
<1>0. /\ page \in Pages /\ page' \in Pages /\ db \in SUBSET Fellows /\ source \in {"worker", "api"}
      /\ p \in Pages /\ Same(page, p) /\ p.url = page.url /\ p.filter = page.filter
      /\ p.pane = page.pane /\ p.shown = page.shown
      /\ page.calls[i] \in Calls
      /\ kind \in {"search", "local"} => page.boot # "list"
      /\ kind = "local" => source = "api"
  BY AnswerKnown DEF Follows, Inv, Sound
<1>1. CASE SearchAnswers(i)
  <2>1. /\ page' = renderSearchResults(p, Hits[q] \cap db) /\ kind = "search"
        /\ UNCHANGED <<source, db, members, setting, unsaved>> /\ rash \subseteq rash'
        /\ Crossed(page, q) => "crossed" \in rash'
    BY <1>1 DEF SearchAnswers, Note, Answer
  <2>2. /\ p.box = page.box /\ p.due = page.due /\ p.mail = page.mail /\ p.list = page.list
        /\ p.known = page.known /\ p.orphans = page.orphans /\ p.boot = page.boot
        /\ p.cache = page.cache
    BY <1>0 DEF Same
  <2>. QED
    BY <1>0, <2>1, <2>2, ResultsFollow
<1>2. CASE LocalAnswers(i)
  <2>1. PICK rows \in IF page.cache # None THEN {page.cache} ELSE {{}, db} :
          LET r == [p EXCEPT !.cache = rows] IN
          /\ page' = IF rows = {} THEN [r EXCEPT !.shown = {}] ELSE renderSearchResults(r, Hits[q] \cap rows)
          /\ Note((IF Crossed(page, q) THEN {"crossed"} ELSE {}) \cup (IF rows = {} THEN {"uncached"} ELSE {}))
    BY <1>2 DEF LocalAnswers
  <2>2. /\ kind = "local" /\ UNCHANGED <<source, db, members, setting, unsaved>> /\ rash \subseteq rash'
        /\ Crossed(page, q) => "crossed" \in rash'
        /\ rows = {} => "uncached" \in rash'
    BY <1>2, <2>1 DEF LocalAnswers, Note, Answer
  <2>3. source = "api" /\ rows \in {{}, db} /\ page.boot # "list"
    BY <1>0, <2>1, <2>2 DEF Follows, Opening
  <2> DEFINE r == [p EXCEPT !.cache = rows]
  <2>4. page' = IF rows = {} THEN [r EXCEPT !.shown = {}] ELSE renderSearchResults(r, Hits[q] \cap rows)
    BY <2>1
  <2>5. /\ r \in Pages /\ r.calls = p.calls
        /\ r.box = p.box /\ r.due = p.due /\ r.mail = p.mail /\ r.list = p.list
        /\ r.known = p.known /\ r.orphans = p.orphans /\ r.boot = p.boot
        /\ r.filter = p.filter /\ r.url = p.url /\ r.pane = p.pane /\ r.cache = rows
    BY <1>0, <2>3 DEF Pages
  <2>6. /\ r.box = page.box /\ r.due = page.due /\ r.mail = page.mail /\ r.list = page.list
        /\ r.known = page.known /\ r.orphans = page.orphans /\ r.boot = page.boot
        /\ r.filter = page.filter /\ r.url = page.url /\ r.pane = page.pane
    BY <1>0, <2>5 DEF Same
  <2> HIDE DEF r
  <2>7. CASE rows # {}
    <3>1. page' = renderSearchResults(r, Hits[q] \cap db)
      BY <2>3, <2>4, <2>7
    <3>. QED
      BY <2>2, <2>3, <2>5, <2>6, <3>1, ResultsFollow
  <2>8. CASE rows = {}
    <3>1. /\ page'.calls = p.calls /\ page'.box = page.box /\ page'.due = page.due
          /\ page'.mail = page.mail /\ page'.list = page.list /\ page'.known = page.known
          /\ page'.orphans = page.orphans /\ page'.boot = page.boot /\ page'.filter = page.filter
          /\ page'.url = page.url /\ page'.pane = page.pane /\ page'.cache = rows
      <4>1. page' = [r EXCEPT !.shown = {}]
        BY <2>4, <2>8
      <4>. QED
        BY <2>5, <2>6, <4>1 DEF Pages
    <3> HIDE DEF p
    <3>2. Through(page, page', kind, {})
      <4>1. More(p, page', {})
        BY <1>0, <3>1, MoreThanItself
      <4>. QED
        BY <1>0, <4>1, AnswerThrough DEF p
    <3>3. /\ Has(page, "list") => Has(page', "list")
          /\ Has(page, "full") => Has(page', "full")
          /\ Has(page, "scan") => Has(page', "scan")
          /\ Has(page, "group") => Has(page', "group")
          /\ Has(page, "pref") => Has(page', "pref")
          /\ Has(page', "save") => Has(page, "save")
          /\ LastSave(page, page.mail) => LastSave(page', page.mail)
      BY <2>2, <3>2 DEF Through
    <3>4. Opening'
      BY <2>2, <2>3, <3>1, <3>2, OpeningKept DEF Follows
    <3>5. RowsFollow'
      BY <2>2, <3>1, <3>3, RowsKept DEF Follows
    <3>6. ListFollows'
      BY <2>2, <2>8 DEF ListFollows, Without
    <3>7. SettingFollows'
      BY <2>2, <3>1, <3>3, SettingKept DEF Follows
    <3>8. OrphansFollow'
      BY <2>2, <3>1, <3>3, OrphansKept DEF Follows
    <3>9. PaneFollows'
      BY <2>2, <3>1, <3>3, PaneKept DEF Follows
    <3>. QED
      BY <3>4, <3>5, <3>6, <3>7, <3>8, <3>9 DEF Follows
  <2>. QED
    BY <2>7, <2>8
<1>3. CASE SearchFails(i)
  <2>1. /\ page' = IF source = "worker" THEN p ELSE Send(p, "local", q)
        /\ kind = "search" /\ page.boot # "list"
        /\ UNCHANGED <<source, db, members, setting, unsaved>> /\ rash \subseteq rash'
        /\ source = "worker" => "failed" \in rash'
    BY <1>0, <1>3 DEF SearchFails, Note, Answer
  <2> DEFINE sent == IF source = "worker" THEN {} ELSE {"local"}
  <2>2. Ask("local", q) \in Calls
    <3>1. q \in Queries
      BY <1>0, <2>1 DEF Calls
    <3>. QED
      BY <3>1 DEF Ask, Calls
  <2> HIDE DEF p, q
  <2>3. /\ More(p, page', sent) /\ Same(p, page') /\ page'.url = page.url /\ page'.pane = page.pane
        /\ page'.filter = page.filter /\ page'.shown = page.shown
        /\ source = "api" /\ q = page'.box => Asking(page')
    <3>1. CASE source = "worker"
      <4>1. page' = p
        BY <2>1, <3>1
      <4>2. More(p, page', sent)
        BY <1>0, <4>1, MoreThanItself
      <4>. QED
        BY <1>0, <3>1, <4>1, <4>2 DEF Same
    <3>2. CASE source = "api"
      <4> DEFINE s == Send(p, "local", q)
      <4>1. /\ s \in Pages /\ Same(p, s) /\ s.url = p.url /\ s.filter = p.filter /\ s.pane = p.pane
            /\ s.shown = p.shown /\ More(p, s, {"local"}) /\ (q = s.box => Asking(s))
        BY <1>0, <2>2, SentOne
      <4>2. page' = s
        BY <2>1, <3>2
      <4> HIDE DEF s
      <4>3. sent = {"local"}
        BY <3>2
      <4>. QED
        BY <1>0, <4>1, <4>2, <4>3
    <3>. QED
      BY <1>0, <3>1, <3>2
  <2>4. Through(page, page', kind, sent)
    BY <1>0, <2>3, AnswerThrough DEF p
  <2>5. /\ page'.box = page.box /\ page'.due = page.due /\ page'.mail = page.mail
        /\ page'.list = page.list /\ page'.known = page.known /\ page'.orphans = page.orphans
        /\ page'.boot = page.boot /\ page'.cache = page.cache
    BY <1>0, <2>3 DEF Same
  <2>6. /\ Has(page, "list") => Has(page', "list")
        /\ Has(page, "full") => Has(page', "full")
        /\ Has(page, "scan") => Has(page', "scan")
        /\ Has(page, "group") => Has(page', "group")
        /\ Has(page, "pref") => Has(page', "pref")
        /\ Has(page', "save") => Has(page, "save")
        /\ LastSave(page, page.mail) => LastSave(page', page.mail)
    BY <2>1, <2>4 DEF Through
  <2>7. Opening'
    BY <1>0, <2>1, <2>4, <2>5, OpeningKept DEF Follows
  <2>8. RowsFollow'
    BY <2>1, <2>5, <2>6, RowsKept DEF Follows
  <2>9. ListFollows'
    <3>1. CASE source = "worker"
      BY <2>1, <3>1 DEF ListFollows, Without
    <3>2. CASE source = "api"
      <4>1. Asking(page) => Asking(page')
        <5>1. CASE q = page.box
          BY <2>3, <2>5, <3>2, <5>1
        <5>2. CASE q # page.box
          <6>1. Asking(page) => Asking(p)
            BY <1>0, <5>2, AnsweredOne DEF p, q
          <6>2. Asking(p) => Asking(page')
            BY <1>0, <2>3, MoreInFlight DEF Same
          <6>. QED
            BY <6>1, <6>2
        <5>. QED
          BY <5>1, <5>2
      <4>. QED
        BY <2>1, <2>3, <2>5, <2>6, <4>1, ListKept DEF Follows
    <3>. QED
      BY <1>0, <3>1, <3>2
  <2>10. SettingFollows'
    BY <2>1, <2>5, <2>6, SettingKept DEF Follows
  <2>11. OrphansFollow'
    BY <2>1, <2>5, <2>6, OrphansKept DEF Follows
  <2>12. PaneFollows'
    BY <2>1, <2>3, <2>5, <2>6, PaneKept DEF Follows
  <2>. QED
    BY <2>7, <2>8, <2>9, <2>10, <2>11, <2>12 DEF Follows
<1>. QED
  BY <1>1, <1>2, <1>3 DEF Search

LEMMA SendScan ==
  ASSUME NEW p \in Pages, NEW q \in Pages, NEW u, Lands(p, q, u), NEW kind \in {"scan", "full0"}
  PROVE  /\ Lands(p, Send(q, kind, None), u)
         /\ Send(q, kind, None) \in Pages /\ Has(Send(q, kind, None), kind)
         /\ \A sent : kind \in sent => More(q, Send(q, kind, None), sent)
<1> DEFINE r == Send(q, kind, None)
<1>1. Ask(kind, None) \in Calls
  BY DEF Ask, Calls
<1>2. /\ r \in Pages /\ Same(q, r) /\ r.url = q.url /\ r.filter = q.filter /\ r.pane = q.pane
      /\ r.shown = q.shown /\ Has(r, kind)
      /\ \A sent : kind \in sent => More(q, r, sent)
  BY <1>1, SentOne
<1> HIDE DEF r
<1>3. Same(p, r) /\ r.box = q.box /\ applyFilters(r, r.list) = applyFilters(q, q.list)
  BY <1>2 DEF Lands, Same, applyFilters
<1>4. More(q, r, {kind})
  BY <1>2
<1>5. (Asking(q) => Asking(r)) /\ (Has(q, "group") => Has(r, "group"))
  BY <1>2, <1>3, <1>4, MoreInFlight
<1>6. PaneOf(r, u.at)
  BY <1>2, <1>5 DEF Lands, PaneOf
<1>7. Lands(p, r, u)
  BY <1>2, <1>3, <1>5, <1>6 DEF Lands
<1>. QED
  BY <1>2, <1>7 DEF r

LEMMA BootAnswersFollow ==
  ASSUME Inv, Inv', Follows, NEW i \in 1..Len(page.calls), Boot(i)
  PROVE  Follows'
<1> DEFINE p == Answered(page, i)
           kind == page.calls[i].kind
<1>0. /\ page \in Pages /\ page' \in Pages /\ db \in SUBSET Fellows /\ db # {}
      /\ source \in {"worker", "api"} /\ Has(page, kind)
      /\ p \in Pages /\ Same(page, p) /\ p.url = page.url /\ p.filter = page.filter
      /\ p.pane = page.pane /\ p.shown = page.shown
      /\ kind \notin {"pref", "list0", "save"} => page.boot # "list" /\ page.list # {}
      /\ kind \in {"pref", "list0"} => page.boot = "list"
  BY AnswerKnown DEF Follows, Inv, Sound
<1>a. Asks \subseteq {"search", "local"} /\ ("local" \in Asks => source = "api")
  BY DEF Asks
<1>b. /\ p.box = page.box /\ p.due = page.due /\ p.mail = page.mail /\ p.list = page.list
      /\ p.known = page.known /\ p.cache = page.cache /\ p.orphans = page.orphans
      /\ p.boot = page.boot
  BY <1>0 DEF Same
<1>1. CASE PrefArrives(i)
  <2>1. /\ kind = "pref" /\ page.boot = "list"
        /\ UNCHANGED <<source, db, members, setting, rash>>
    BY <1>0, <1>1 DEF PrefArrives, Answer
  <2>v. PICK v \in Stored :
          /\ page' = IF v # None THEN [p EXCEPT !.mail = v]
                     ELSE IF privateDataEnabled THEN Send(p, "save", p.mail) ELSE p
          /\ Unsaved(v = None /\ ~privateDataEnabled)
    BY <1>1 DEF PrefArrives
  <2>p. page' = IF v # None THEN [p EXCEPT !.mail = v]
                ELSE IF privateDataEnabled THEN Send(p, "save", p.mail) ELSE p
    BY <2>v
  <2>u. v = None /\ ~privateDataEnabled => unsaved'
    BY <2>v, Zenon DEF Unsaved
  <2>s. v # None => v = setting
    BY <2>v DEF Stored
  <2> HIDE DEF p
  <2>2. /\ More(p, page', {"save"}) /\ page'.box = page.box /\ page'.due = page.due
        /\ page'.list = page.list /\ page'.known = page.known /\ page'.cache = page.cache
        /\ page'.orphans = page.orphans /\ page'.boot = page.boot
        /\ page'.url = page.url /\ page'.pane = page.pane
        /\ v = None /\ privateDataEnabled => LastSave(page', page'.mail)
        /\ v # None => page'.mail = v /\ page'.calls = p.calls
    <3>1. CASE v = None /\ privateDataEnabled
      <4> DEFINE r == Send(p, "save", p.mail)
      <4>1. Ask("save", p.mail) \in Calls
        BY <1>0 DEF Ask, Calls, Pages
      <4>2. /\ r \in Pages /\ Same(p, r) /\ r.url = p.url /\ r.pane = p.pane
            /\ More(p, r, {"save"}) /\ LastSave(r, p.mail)
        BY <1>0, <4>1, SentOne
      <4>3. page' = r
        BY <2>p, <3>1
      <4> HIDE DEF r
      <4>. QED
        BY <1>0, <1>b, <3>1, <4>2, <4>3 DEF Same
    <3>2. CASE v # None
      <4>1. page' = [p EXCEPT !.mail = v]
        BY <2>p, <3>2
      <4>2. /\ page'.calls = p.calls /\ page'.box = p.box /\ page'.due = p.due
            /\ page'.list = p.list /\ page'.known = p.known /\ page'.cache = p.cache
            /\ page'.orphans = p.orphans /\ page'.boot = p.boot
            /\ page'.url = p.url /\ page'.pane = p.pane /\ page'.mail = v
        BY <1>0, <4>1 DEF Pages
      <4>3. More(p, page', {"save"})
        BY <1>0, <4>2, MoreThanItself
      <4>. QED
        BY <1>0, <1>b, <3>2, <4>2, <4>3
    <3>3. CASE v = None /\ ~privateDataEnabled
      <4>1. page' = p
        BY <2>p, <3>3
      <4>2. More(p, page', {"save"})
        BY <1>0, <4>1, MoreThanItself
      <4>. QED
        BY <1>0, <1>b, <3>3, <4>1, <4>2
    <3>. QED
      BY <3>1, <3>2, <3>3
  <2>3. Through(page, page', kind, {"save"})
    BY <1>0, <2>2, AnswerThrough DEF p
  <2>4. ~Has(page', "pref") /\ (\A k : Has(page', k) => Has(page, k) \/ k = "save")
        /\ Once(page', "pref") /\ Once(page', "list0")
    BY <2>1, <2>3 DEF Through, Follows, Opening
  <2>5. Opening'
    BY <2>1, <2>2, <2>4 DEF Follows, Opening
  <2>6. RowsFollow'
    BY <2>1, <2>2 DEF RowsFollow, Follows, Opening
  <2>7. ListFollows'
    BY <2>1, <2>2 DEF ListFollows
  <2>8. SettingFollows'
    <3>1. CASE v = None
      BY <2>2, <2>u, <3>1 DEF SettingFollows
    <3>2. CASE v # None
      <4>1. ~Has(page, "save")
        BY <1>0, <2>1 DEF Follows, Opening
      <4>2. ~Has(p, "save")
        BY <1>0, <4>1, AnsweredOne DEF p
      <4>3. ~Has(page', "save")
        BY <2>2, <3>2, <4>2 DEF Has
      <4>. QED
        BY <2>1, <2>2, <2>s, <3>2, <4>3 DEF SettingFollows
    <3>. QED
      BY <3>1, <3>2
  <2>9. /\ Has(page, "list") => Has(page', "list")
        /\ Has(page, "full") => Has(page', "full")
        /\ Has(page, "scan") => Has(page', "scan")
        /\ Has(page, "group") => Has(page', "group")
    BY <2>1, <2>3 DEF Through
  <2>10. OrphansFollow'
    BY <2>1, <2>2, <2>9, OrphansKept DEF Follows
  <2>11. PaneFollows'
    BY <2>1, <2>2, <2>9, PaneKept DEF Follows
  <2>. QED
    BY <2>5, <2>6, <2>7, <2>8, <2>10, <2>11 DEF Follows
<1>2. CASE ListArrives(i)
  <2> DEFINE q == [p EXCEPT !.list = db, !.boot = "full"]
             r == renderDirectory(q)
             sent == Asks \cup {"one", "group", "full0"}
  <2>1. /\ page' \in {Send(x, "full0", None) : x \in route(r, r.url)}
        /\ kind = "list0" /\ page.boot = "list" /\ CanAnswer(i)
        /\ UNCHANGED <<source, db, members, setting, unsaved, rash>>
    BY <1>0, <1>2 DEF ListArrives, Answer
  <2> HIDE DEF p
  <2>2. /\ q \in Pages /\ q.list = db /\ q.boot = "full" /\ q.calls = p.calls
        /\ q.box = page.box /\ q.due = page.due /\ q.mail = page.mail /\ q.known = page.known
        /\ q.cache = page.cache /\ q.orphans = page.orphans
    BY <1>0, <1>b DEF Pages
  <2> HIDE DEF q
  <2>3. /\ r \in Pages /\ Same(q, r) /\ r.calls = q.calls /\ r.shown = applyFilters(r, r.list)
    BY <1>0, <2>2, DirectoryRendered
  <2> HIDE DEF r
  <2>4. r.url \in [at : Places, filter : BOOLEAN] /\ r.list # {}
    BY <1>0, <2>2, <2>3 DEF Pages, Same
  <2>5. PICK x \in route(r, r.url) : page' = Send(x, "full0", None)
    BY <2>1
  <2>6. Routed(r, x, r.url)
    BY <2>3, <2>4, RouteIsRouted
  <2>7. Lands(r, page', r.url) /\ More(x, page', sent)
    BY <2>3, <2>5, <2>6, SendScan DEF Routed, Lands
  <2>8. More(p, page', sent)
    <3>1. More(p, r, sent)
      BY <1>0, <2>2, <2>3, MoreThanItself
    <3>2. \A u : More(r, x, u) /\ u \subseteq sent => More(p, x, sent)
      BY <1>0, <2>3, <2>6, <3>1, MoreAndMore DEF Routed, Lands
    <3>3. More(p, x, sent)
      BY <2>6, <3>2 DEF Routed
    <3>. QED
      BY <1>0, <2>6, <2>7, <3>3, MoreAndMore DEF Routed, Lands
  <2>9. Through(page, page', kind, sent)
    BY <1>0, <2>8, AnswerThrough DEF p
  <2>10. /\ page'.boot = "full" /\ page'.list = db /\ page'.known = {} /\ page'.box = None
         /\ page'.mail = page.mail /\ page'.cache = page.cache /\ page'.orphans = page.orphans
    BY <2>1, <2>2, <2>3, <2>7 DEF Lands, Same, Follows, Opening
  \* The setting was answered before the list.
  <2>11. ~Has(page, "pref")
    <3>1. ASSUME Has(page, "pref") PROVE FALSE
      <4>1. source = "worker" /\ \E j \in 1..(i - 1) : page.calls[j].kind = "pref"
        BY <1>0, <2>1, <3>1 DEF Follows, Opening
      <4>2. \A j \in 1..(i - 1) : page.calls[j].kind \in Writes
        BY <2>1, <4>1 DEF CanAnswer
      <4>. QED
        BY <4>1, <4>2 DEF Writes
    <3>. QED
      BY <3>1
  <2>12. \A k : Has(page', k) => Has(page, k) \/ k \in sent
    BY <2>9 DEF Through
  <2>13. ~Has(page', "list0")
    BY <1>a, <2>1, <2>9 DEF Through, Follows, Opening
  <2>14. Opening'
    <3>1. \A k : Has(page, k) => k \in {"pref", "list0", "save"}
      BY <2>1 DEF Follows, Opening
    <3>2. ~Has(page', "apply") /\ ~Has(page', "list") /\ ~Has(page', "full") /\ ~Has(page', "pref")
      BY <1>a, <2>11, <2>12, <3>1
    <3>3. source = "worker" => ~Has(page', "local")
      BY <1>a, <2>12, <3>1
    <3>4. source = "api" => page.cache \in {None, {}, db}
      BY DEF Follows, Opening
    <3>. QED
      BY <2>1, <2>10, <2>13, <3>2, <3>3, <3>4 DEF Opening
  <2>15. RowsFollow'
    BY <2>1, <2>10 DEF RowsFollow
  <2>16. ListFollows'
    <3>1. Asking(page') \/ (page'.box = None /\ page'.shown = applyFilters(page', page'.list))
      <4>1. CASE page'.filter = r.filter /\ page'.shown = r.shown
        <5>1. applyFilters(page', page'.list) = applyFilters(r, r.list)
          BY <2>7, <4>1 DEF applyFilters, Lands, Same
        <5>. QED
          BY <2>3, <2>10, <4>1, <5>1
      <4>. QED
        BY <2>7, <4>1 DEF Lands
    <3>. QED
      BY <1>0, <2>1, <2>15, <3>1, ListMade
  <2>17. SettingFollows'
    <3>1. /\ Has(page', "save") => Has(page, "save")
          /\ LastSave(page, page.mail) => LastSave(page', page.mail)
      BY <1>a, <2>1, <2>9 DEF Through
    <3>. QED
      BY <2>1, <2>10, <2>11, <3>1, SettingKept DEF Follows
  <2>18. OrphansFollow'
    <3>1. /\ Has(page, "list") => Has(page', "list")
          /\ Has(page, "full") => Has(page', "full")
          /\ Has(page, "scan") => Has(page', "scan")
      BY <2>1, <2>9 DEF Through
    <3>. QED
      BY <2>1, <2>10, <3>1, OrphansKept DEF Follows
  <2>19. PaneFollows'
    BY <2>1, <2>7, PaneMade DEF Lands
  <2>. QED
    BY <2>14, <2>15, <2>16, <2>17, <2>18, <2>19 DEF Follows
<1>3. CASE FullArrives(i)
  <2> DEFINE q == [p EXCEPT !.known = @ \cup db, !.cache = db, !.boot = "done"]
             sent == Asks \cup {"one", "group", "scan"}
  <2>1. /\ page' \in {IF privateDataEnabled THEN Send(x, "scan", None) ELSE x : x \in route(q, q.url)}
        /\ kind = "full0" /\ page.boot # "list" /\ page.list # {}
        /\ UNCHANGED <<source, db, members, setting, unsaved>> /\ rash \subseteq rash'
        /\ page.filter => "early" \in rash'
    BY <1>0, <1>3 DEF FullArrives, Note, Answer
  <2> HIDE DEF p
  <2>2. /\ q \in Pages /\ q.list = page.list /\ q.boot = "done" /\ q.calls = p.calls
        /\ q.box = page.box /\ q.due = page.due /\ q.mail = page.mail /\ q.known = page.known \cup db
        /\ q.cache = db /\ q.orphans = page.orphans /\ q.filter = page.filter /\ q.shown = page.shown
    BY <1>0, <1>b DEF Pages
  <2> HIDE DEF q
  <2>3. q.url \in [at : Places, filter : BOOLEAN]
    BY <2>2 DEF Pages
  <2>4. PICK x \in route(q, q.url) : page' = IF privateDataEnabled THEN Send(x, "scan", None) ELSE x
    BY <2>1
  <2>5. Routed(q, x, q.url)
    BY <2>1, <2>2, <2>3, RouteIsRouted
  <2>6. Lands(q, page', q.url) /\ More(x, page', sent)
    <3>1. CASE privateDataEnabled
      <4>1. page' = Send(x, "scan", None)
        BY <2>4, <3>1
      <4>. QED
        BY <2>2, <2>5, <4>1, SendScan DEF Routed, Lands
    <3>2. CASE ~privateDataEnabled
      <4>1. page' = x
        BY <2>4, <3>2
      <4>2. More(x, page', sent)
        BY <2>5, <4>1, MoreThanItself DEF Routed, Lands
      <4>. QED
        BY <2>5, <3>2, <4>1, <4>2 DEF Routed
    <3>. QED
      BY <3>1, <3>2
  <2>7. More(p, page', sent)
    <3>1. More(p, q, sent)
      BY <1>0, <2>2, MoreThanItself
    <3>2. More(p, x, sent)
      BY <1>0, <2>2, <2>5, <3>1, MoreAndMore DEF Routed, Lands
    <3>. QED
      BY <1>0, <2>5, <2>6, <3>2, MoreAndMore DEF Routed, Lands
  <2>8. Through(page, page', kind, sent)
    BY <1>0, <2>7, AnswerThrough DEF p
  <2>9. /\ page'.boot = "done" /\ page'.list = page.list /\ page'.known = page.known \cup db
        /\ page'.mail = page.mail /\ page'.cache = db /\ page'.orphans = page.orphans
    BY <2>2, <2>6 DEF Lands, Same
  <2>10. Opening'
    BY <1>a, <2>1, <2>8, <2>9, OpeningKept DEF Follows
  <2>11. /\ Has(page, "list") => Has(page', "list")
         /\ Has(page, "full") => Has(page', "full")
         /\ Has(page, "scan") => Has(page', "scan")
         /\ Has(page, "pref") => Has(page', "pref")
         /\ Has(page', "save") => Has(page, "save")
         /\ LastSave(page, page.mail) => LastSave(page', page.mail)
    BY <1>a, <2>1, <2>8 DEF Through
  <2>12. RowsFollow'
    <3>1. "failed" \notin rash' => Without({"failed"})
      BY <2>1 DEF Without
    <3>. QED
      BY <2>1, <2>9, <2>11, <3>1 DEF RowsFollow, Without, Follows
  <2>13. SettingFollows'
    BY <2>1, <2>9, <2>11, SettingKept DEF Follows
  <2>14. OrphansFollow'
    BY <2>1, <2>9, <2>11, OrphansKept DEF Follows
  <2>15. page.filter \in BOOLEAN
    BY <1>0 DEF Pages
  <2>. QED
    BY <2>1, <2>2, <2>6, <2>8, <2>10, <2>12, <2>13, <2>14, <2>15, RouteFollows DEF Follows
<1>4. CASE ScanAnswers(i)
  <2>1. /\ page' = [p EXCEPT !.orphans = members \ db]
        /\ kind = "scan" /\ page.boot # "list"
        /\ UNCHANGED <<source, db, members, setting, unsaved>> /\ rash \subseteq rash'
        /\ page.orphans \cap db # {} => "returned" \in rash'
    BY <1>0, <1>4 DEF ScanAnswers, Note, Answer
  <2> HIDE DEF p
  <2>2. /\ page'.calls = p.calls /\ page'.box = p.box /\ page'.due = p.due /\ page'.mail = p.mail
        /\ page'.list = p.list /\ page'.known = p.known /\ page'.cache = p.cache
        /\ page'.boot = p.boot /\ page'.url = p.url /\ page'.filter = p.filter
        /\ page'.shown = p.shown /\ page'.pane = p.pane /\ page'.orphans = members \ db
    BY <1>0, <2>1 DEF Pages
  <2>3. Through(page, page', kind, {})
    <3>1. More(p, page', {})
      BY <1>0, <2>2, MoreThanItself
    <3>. QED
      BY <1>0, <3>1, AnswerThrough DEF p
  <2>4. /\ Has(page, "list") => Has(page', "list")
        /\ Has(page, "full") => Has(page', "full")
        /\ Has(page', "list") => Has(page, "list")
        /\ Has(page', "full") => Has(page, "full")
        /\ Has(page, "group") => Has(page', "group")
        /\ Has(page, "pref") => Has(page', "pref")
        /\ Has(page', "save") => Has(page, "save")
        /\ Asking(page) => Asking(page')
        /\ LastSave(page, page.mail) => LastSave(page', page.mail)
    BY <1>b, <2>1, <2>2, <2>3 DEF Through
  <2>5. Opening'
    BY <1>b, <2>1, <2>2, <2>3, OpeningKept DEF Follows
  <2>6. RowsFollow'
    BY <1>b, <2>1, <2>2, <2>4, RowsKept DEF Follows
  <2>7. ListFollows'
    BY <1>0, <1>b, <2>1, <2>2, <2>4, ListKept DEF Follows
  <2>8. SettingFollows'
    BY <1>b, <2>1, <2>2, <2>4, SettingKept DEF Follows
  <2>9. OrphansFollow'
    BY <2>1, <2>2 DEF OrphansFollow
  <2>10. PaneFollows'
    <3>1. /\ page'.pane = page.pane /\ page'.url = page.url /\ page'.boot = page.boot
      BY <1>0, <1>b, <2>2
    <3>2. Without({"strayed", "failed"})' => Without({"strayed", "failed"})
      BY <2>1 DEF Without
    <3>3. Without({"strayed", "failed", "returned"})' =>
            Without({"strayed", "failed", "returned"}) /\ page.orphans \cap db = {}
      BY <2>1 DEF Without
    <3>4. members \subseteq Fellows
      BY DEF Inv
    <3>5. page.orphans \cap db = {} => members \cap (page.orphans \cup (Fellows \ db)) = members \ db
      BY <3>4
    <3>. QED
      BY <2>1, <2>4, <3>1, <3>2, <3>3, <3>5 DEF PaneFollows, Follows
  <2>. QED
    BY <2>5, <2>6, <2>7, <2>8, <2>9, <2>10 DEF Follows
<1>. QED
  BY <1>1, <1>2, <1>3, <1>4 DEF Boot

LEMMA UpdateAnswersFollow ==
  ASSUME Inv, Inv', Follows, NEW i \in 1..Len(page.calls), Update(i)
  PROVE  Follows'
<1> DEFINE p == Answered(page, i)
           kind == page.calls[i].kind
<1>0. /\ page \in Pages /\ page' \in Pages /\ db \in SUBSET Fellows /\ db # {}
      /\ p \in Pages /\ Same(page, p) /\ p.url = page.url /\ p.filter = page.filter
      /\ p.pane = page.pane /\ p.shown = page.shown
      /\ kind \in {"apply", "list", "full"} => page.boot = "done" /\ source = "worker" /\ page.list # {}
  BY AnswerKnown DEF Follows, Inv, Sound
<1>a. Asks \subseteq {"search", "local"} /\ ("local" \in Asks => source = "api")
  BY DEF Asks
<1>b. /\ p.box = page.box /\ p.due = page.due /\ p.mail = page.mail /\ p.list = page.list
      /\ p.known = page.known /\ p.cache = page.cache /\ p.orphans = page.orphans
      /\ p.boot = page.boot
  BY <1>0 DEF Same
<1>1. CASE UpdateApplied(i)
  <2>1. /\ page' = Send(p, "list", None) /\ kind = "apply" /\ page.boot = "done" /\ source = "worker"
        /\ UNCHANGED <<source, members, setting, unsaved, rash>>
    BY <1>0, <1>1 DEF UpdateApplied, Answer
  <2>2. Ask("list", None) \in Calls
    BY DEF Ask, Calls
  <2> HIDE DEF p
  <2>3. /\ Same(p, page') /\ page'.url = p.url /\ page'.pane = p.pane /\ Has(page', "list")
        /\ More(p, page', {"list"})
    BY <1>0, <2>1, <2>2, SentOne
  <2>4. /\ page'.mail = page.mail /\ page'.boot = page.boot /\ page'.url = page.url
        /\ page'.pane = page.pane
    BY <1>0, <1>b, <2>3 DEF Same
  <2>5. Through(page, page', kind, {"list"})
    BY <1>0, <2>3, AnswerThrough DEF p
  <2>6. Opening'
    BY <2>1, <2>4, <2>5, OpeningKept DEF Follows
  <2>7. /\ Has(page, "pref") => Has(page', "pref")
        /\ Has(page', "save") => Has(page, "save")
        /\ Has(page, "group") => Has(page', "group")
        /\ LastSave(page, page.mail) => LastSave(page', page.mail)
    BY <2>1, <2>5 DEF Through
  <2>8. SettingFollows'
    BY <2>1, <2>4, <2>7, SettingKept DEF Follows
  <2>9. RowsFollow' /\ ListFollows' /\ OrphansFollow'
    BY <2>3 DEF RowsFollow, ListFollows, OrphansFollow
  <2>10. PaneFollows'
    BY <2>1, <2>3, <2>4, <2>7 DEF PaneFollows, Follows, Without
  <2>. QED
    BY <2>6, <2>8, <2>9, <2>10 DEF Follows
<1>2. CASE ListReloads(i)
  <2> DEFINE q == [p EXCEPT !.list = db]
             r == renderDirectory(q)
  <2>1. /\ page' = Send(r, "full", None) /\ kind = "list" /\ page.boot = "done" /\ source = "worker"
        /\ UNCHANGED <<source, db, members, setting, unsaved>> /\ rash \subseteq rash'
        /\ page.box # None => "swapped" \in rash'
    BY <1>0, <1>2 DEF ListReloads, Note, Answer
  <2>2. Ask("full", None) \in Calls
    BY DEF Ask, Calls
  <2> HIDE DEF p
  <2>3. /\ q \in Pages /\ q.list = db /\ q.boot = p.boot /\ q.calls = p.calls
        /\ q.box = p.box /\ q.due = p.due /\ q.mail = p.mail /\ q.known = p.known
        /\ q.cache = p.cache /\ q.orphans = p.orphans /\ q.pane = p.pane /\ q.url = p.url
    BY <1>0 DEF Pages
  <2> HIDE DEF q
  <2>4. /\ r \in Pages /\ Same(q, r) /\ r.calls = q.calls /\ r.shown = applyFilters(r, r.list)
        /\ r.pane = q.pane /\ r.url = q.url
    BY <1>0, <2>3, DirectoryRendered
  <2> HIDE DEF r
  <2>5. /\ Same(r, page') /\ page'.url = r.url /\ page'.pane = r.pane /\ page'.shown = r.shown
        /\ page'.filter = r.filter /\ Has(page', "full") /\ More(r, page', {"full"})
    BY <2>1, <2>2, <2>4, SentOne
  <2>6. /\ page'.mail = page.mail /\ page'.boot = page.boot /\ page'.url = page.url
        /\ page'.pane = page.pane /\ page'.list = db /\ page'.box = page.box
        /\ page'.shown = applyFilters(page', page'.list)
    BY <1>0, <1>b, <2>3, <2>4, <2>5 DEF Same, applyFilters
  <2>7. Through(page, page', kind, {"full"})
    <3>1. More(p, r, {"full"})
      BY <1>0, <2>3, <2>4, MoreThanItself
    <3>2. More(p, page', {"full"})
      BY <1>0, <2>4, <2>5, <3>1, MoreAndMore
    <3>. QED
      BY <1>0, <3>2, AnswerThrough DEF p
  <2>8. Opening'
    BY <2>1, <2>6, <2>7, OpeningKept DEF Follows
  <2>9. /\ Has(page, "pref") => Has(page', "pref")
        /\ Has(page', "save") => Has(page, "save")
        /\ Has(page, "group") => Has(page', "group")
        /\ LastSave(page, page.mail) => LastSave(page', page.mail)
    BY <2>1, <2>7 DEF Through
  <2>10. SettingFollows'
    BY <2>1, <2>6, <2>9, SettingKept DEF Follows
  <2>11. RowsFollow' /\ OrphansFollow'
    BY <2>1, <2>5, <2>6 DEF RowsFollow, OrphansFollow
  <2>12. ListFollows'
    <3>1. CASE page.box = None
      BY <1>0, <2>1, <2>6, <2>11, <3>1, ListMade
    <3>2. CASE page.box # None
      BY <2>1, <3>2 DEF ListFollows, Without
    <3>. QED
      BY <3>1, <3>2
  <2>13. PaneFollows'
    BY <2>1, <2>5, <2>6, <2>9 DEF PaneFollows, Follows, Without
  <2>. QED
    BY <2>8, <2>10, <2>11, <2>12, <2>13 DEF Follows
<1>3. CASE FullReloads(i)
  <2> DEFINE q == [p EXCEPT !.known = db, !.cache = db]
             sent == Asks \cup {"one", "group", "scan"}
  <2>1. /\ page' \in {Send(x, "scan", None) : x \in IF q.url.at = "about" THEN {q} ELSE route(q, q.url)}
        /\ kind = "full" /\ page.boot = "done" /\ source = "worker" /\ page.list # {}
        /\ UNCHANGED <<source, db, members, setting, unsaved>> /\ rash \subseteq rash'
        /\ page.filter => "early" \in rash'
    BY <1>0, <1>3 DEF FullReloads, Note, Answer
  <2> HIDE DEF p
  <2>2. /\ q \in Pages /\ q.list = page.list /\ q.boot = "done" /\ q.calls = p.calls
        /\ q.box = page.box /\ q.due = page.due /\ q.mail = page.mail /\ q.known = db
        /\ q.cache = db /\ q.orphans = page.orphans /\ q.filter = page.filter /\ q.shown = page.shown
        /\ q.url = page.url /\ q.pane = page.pane
    BY <1>0, <1>b, <2>1 DEF Pages
  <2> HIDE DEF q
  <2>3. q.url \in [at : Places, filter : BOOLEAN]
    BY <2>2 DEF Pages
  <2>4. PICK x \in IF q.url.at = "about" THEN {q} ELSE route(q, q.url) : page' = Send(x, "scan", None)
    BY <2>1
  <2>5. /\ x \in Pages /\ Same(q, x) /\ More(q, x, Asks \cup {"one", "group"})
        /\ q.url.at # "about" => Lands(q, x, q.url)
    <3>1. CASE q.url.at = "about"
      <4>1. x = q
        BY <2>4, <3>1
      <4>2. More(q, q, Asks \cup {"one", "group"})
        BY <2>2, MoreThanItself
      <4>. QED
        BY <2>2, <3>1, <4>1, <4>2 DEF Same
    <3>2. CASE q.url.at # "about"
      <4>1. x \in route(q, q.url)
        BY <2>4, <3>2
      <4>2. Routed(q, x, q.url)
        BY <2>1, <2>2, <2>3, <4>1, RouteIsRouted
      <4>. QED
        BY <4>2 DEF Routed, Lands
    <3>. QED
      BY <3>1, <3>2
  <2>6. Ask("scan", None) \in Calls
    BY DEF Ask, Calls
  <2>7. /\ Same(x, page') /\ More(x, page', sent) /\ Has(page', "scan")
        /\ page'.url = x.url /\ page'.pane = x.pane /\ page'.shown = x.shown /\ page'.filter = x.filter
    <3>1. /\ Same(x, Send(x, "scan", None)) /\ More(x, Send(x, "scan", None), sent)
          /\ Has(Send(x, "scan", None), "scan")
          /\ Send(x, "scan", None).url = x.url /\ Send(x, "scan", None).pane = x.pane
          /\ Send(x, "scan", None).shown = x.shown /\ Send(x, "scan", None).filter = x.filter
      BY <2>5, <2>6, SentOne
    <3>. QED
      BY <2>4, <3>1
  <2>8. More(p, page', sent)
    <3>1. More(p, q, sent)
      BY <1>0, <2>2, MoreThanItself
    <3>2. More(p, x, sent)
      BY <1>0, <2>2, <2>5, <3>1, MoreAndMore
    <3>. QED
      BY <1>0, <2>5, <2>7, <3>2, MoreAndMore
  <2>9. Through(page, page', kind, sent)
    BY <1>0, <2>8, AnswerThrough DEF p
  <2>10. /\ page'.boot = "done" /\ page'.list = page.list /\ page'.known = db
         /\ page'.mail = page.mail /\ page'.cache = db /\ page'.orphans = page.orphans
         /\ page'.box = page.box /\ page'.due = page.due
    BY <2>2, <2>5, <2>7 DEF Same
  <2>11. Opening'
    BY <1>a, <2>1, <2>9, <2>10, OpeningKept DEF Follows
  <2>12. /\ Has(page, "list") => Has(page', "list")
         /\ Has(page, "pref") => Has(page', "pref")
         /\ Has(page', "save") => Has(page, "save")
         /\ Asking(page) => Asking(page')
         /\ LastSave(page, page.mail) => LastSave(page', page.mail)
    BY <1>a, <2>1, <2>9, <2>10 DEF Through
  <2>13. RowsFollow'
    <3>1. "failed" \notin rash' => Without({"failed"})
      BY <2>1 DEF Without
    <3>. QED
      BY <2>1, <2>10, <2>12, <3>1 DEF RowsFollow, Without, Follows
  <2>14. SettingFollows'
    BY <2>1, <2>10, <2>12, SettingKept DEF Follows
  <2>15. OrphansFollow'
    BY <2>7 DEF OrphansFollow
  <2>16. page.filter \in BOOLEAN
    BY <1>0 DEF Pages
  <2>17. CASE q.url.at # "about"
    <3>1. Lands(q, page', q.url)
      BY <2>2, <2>4, <2>5, <2>17, SendScan
    <3>. QED
      BY <2>1, <2>2, <2>9, <2>11, <2>13, <2>14, <2>15, <2>16, <3>1, RouteFollows DEF Follows
  \* About stays as it is, and the list too.
  <2>18. CASE q.url.at = "about"
    <3>1. /\ page'.url = page.url /\ page'.pane = page.pane /\ page'.shown = page.shown
          /\ page'.filter = page.filter
      BY <2>2, <2>4, <2>7, <2>18
    <3>2. ListFollows'
      <4>1. Wanted' = Wanted
        BY <2>1, <2>10, <3>1 DEF Wanted
      <4>2. Without({"crossed", "early", "swapped", "failed", "uncached"})' =>
              Without({"crossed", "early", "swapped", "failed", "uncached"}) /\ "early" \notin rash'
        BY <2>1 DEF Without
      <4>. QED
        BY <2>1, <2>10, <2>12, <2>16, <3>1, <4>1, <4>2 DEF ListFollows, Follows
    <3>3. PaneFollows'
      <4>1. Without({"strayed", "failed"})' => Without({"strayed", "failed"})
        BY <2>1 DEF Without
      <4>2. Without({"strayed", "failed", "returned"})' => Without({"strayed", "failed"})
        BY <2>1 DEF Without
      <4>3. page.url.at = "about"
        BY <2>2, <2>18
      <4>. QED
        BY <2>1, <2>10, <3>1, <4>1, <4>2, <4>3 DEF PaneFollows, Follows
    <3>. QED
      BY <2>11, <2>13, <2>14, <2>15, <3>2, <3>3 DEF Follows
  <2>. QED
    BY <2>17, <2>18
<1>. QED
  BY <1>1, <1>2, <1>3 DEF Update

LEMMA StoreAnswersFollow ==
  ASSUME Inv, Inv', Follows, NEW i \in 1..Len(page.calls), Store(i)
  PROVE  Follows'
<1> DEFINE p == Answered(page, i)
           kind == page.calls[i].kind
<1>0. /\ page \in Pages /\ page' \in Pages /\ db \in SUBSET Fellows /\ db # {}
      /\ source \in {"worker", "api"} /\ Has(page, kind)
      /\ p \in Pages /\ Same(page, p) /\ p.url = page.url /\ p.filter = page.filter
      /\ p.pane = page.pane /\ p.shown = page.shown
      /\ kind \notin {"pref", "list0", "save"} => page.boot # "list" /\ page.list # {}
  BY AnswerKnown DEF Follows, Inv, Sound
<1>b. /\ p.box = page.box /\ p.due = page.due /\ p.mail = page.mail /\ p.list = page.list
      /\ p.known = page.known /\ p.cache = page.cache /\ p.orphans = page.orphans
      /\ p.boot = page.boot
  BY <1>0 DEF Same
<1>1. CASE SettingSaved(i)
  <2>1. /\ page' = p /\ kind = "save" /\ setting' = page.calls[i].arg
        /\ UNCHANGED <<source, db, members, unsaved>> /\ rash \subseteq rash'
        /\ "overtaken" \notin rash' => \A j \in 1..(i - 1) : page.calls[j].kind # "save"
    BY <1>1 DEF SettingSaved, Answer, Note
  <2>2. Through(page, page', kind, {})
    <3>1. More(p, page', {})
      BY <1>0, <2>1, MoreThanItself
    <3>. QED
      BY <1>0, <3>1, AnswerThrough
  <2>3. "overtaken" \notin rash' =>
          \A v : LastSave(page, v) => LastSave(page', v) \/ (setting' = v /\ ~Has(page', "save"))
    BY <1>0, <2>1, AnsweredOne
  <2> HIDE DEF p
  <2>4. /\ Has(page, "list") => Has(page', "list")
        /\ Has(page, "full") => Has(page', "full")
        /\ Has(page, "scan") => Has(page', "scan")
        /\ Has(page, "group") => Has(page', "group")
        /\ Has(page, "pref") => Has(page', "pref")
        /\ Asking(page) => Asking(page')
        /\ \A k : Has(page', k) => Has(page, k)
    BY <1>b, <2>1, <2>2 DEF Through
  <2>5. Opening'
    <3>1. CASE page.boot = "list"
      <4>1. ~Has(page, "pref")
        BY <1>0, <2>1, <3>1 DEF Follows, Opening
      <4>2. Once(page', "pref") /\ Once(page', "list0")
        BY <2>2, <3>1 DEF Through, Follows, Opening
      <4>3. ~Has(page', "pref")
        BY <2>4, <4>1
      <4>. QED
        BY <1>b, <2>1, <2>4, <3>1, <4>2, <4>3 DEF Follows, Opening
    <3>2. CASE page.boot # "list"
      BY <1>b, <2>1, <2>2, <3>2, OpeningKept DEF Follows
    <3>. QED
      BY <3>1, <3>2
  <2>6. RowsFollow'
    BY <1>b, <2>1, <2>4, RowsKept DEF Follows
  <2>7. ListFollows'
    <3>1. CASE page.boot = "list"
      BY <1>b, <2>1, <3>1 DEF ListFollows
    <3>2. CASE page.boot # "list"
      BY <1>0, <1>b, <2>1, <2>4, <3>2, ListKept DEF Follows
    <3>. QED
      BY <3>1, <3>2
  <2>8. SettingFollows'
    <3>1. Without({"overtaken", "failed"})' => Without({"overtaken", "failed"}) /\ "overtaken" \notin rash'
      BY <2>1 DEF Without
    <3>2. page'.mail = page.mail
      BY <1>b, <2>1
    <3>3. Has(page, "save")
      BY <1>0, <2>1
    <3>. QED
      BY <2>1, <2>3, <2>4, <3>1, <3>2, <3>3 DEF SettingFollows, Follows
  <2>9. OrphansFollow'
    BY <1>b, <2>1, <2>4, OrphansKept DEF Follows
  <2>10. PaneFollows'
    BY <1>0, <1>b, <2>1, <2>4, PaneKept DEF Follows
  <2>. QED
    BY <2>5, <2>6, <2>7, <2>8, <2>9, <2>10 DEF Follows
<1>2. CASE FellowArrives(i)
  <2> DEFINE f == page.calls[i].arg
             q == [p EXCEPT !.known = @ \cup ({f} \cap db)]
             at == IF f \in db THEN f ELSE "nobody"
  <2>1. /\ page' = IF page.url.at \in Fellows /\ SlugOf(page.url) = f THEN [q EXCEPT !.pane = Blank(at)] ELSE q
        /\ kind = "one" /\ page.boot # "list"
        /\ UNCHANGED <<source, db, members, setting, unsaved, rash>>
    BY <1>0, <1>2 DEF FellowArrives, Answer
  <2> HIDE DEF p
  <2>2. /\ q \in Pages /\ q.calls = p.calls /\ q.known = page.known \cup ({f} \cap db)
        /\ q.box = page.box /\ q.due = page.due /\ q.mail = page.mail /\ q.list = page.list
        /\ q.cache = page.cache /\ q.orphans = page.orphans /\ q.boot = page.boot
        /\ q.url = page.url /\ q.filter = page.filter /\ q.pane = page.pane /\ q.shown = page.shown
    BY <1>0, <1>b DEF Pages
  <2> HIDE DEF q
  <2>3. at \in Places \cup {"nobody", "loading", "error"}
    BY <1>0 DEF Places
  <2> HIDE DEF at
  <2>4. /\ page'.calls = p.calls /\ page'.known = page.known \cup ({f} \cap db)
        /\ page'.box = page.box /\ page'.due = page.due /\ page'.mail = page.mail
        /\ page'.list = page.list /\ page'.cache = page.cache /\ page'.orphans = page.orphans
        /\ page'.boot = page.boot /\ page'.url = page.url /\ page'.filter = page.filter
        /\ page'.shown = page.shown
        /\ IF page.url.at \in Fellows /\ SlugOf(page.url) = f
             THEN page'.pane.at = at ELSE page'.pane = page.pane
    <3>1. CASE page.url.at \in Fellows /\ SlugOf(page.url) = f
      <4> DEFINE r == [q EXCEPT !.pane = Blank(at)]
      <4>1. /\ Same(q, r) /\ r.url = q.url /\ r.filter = q.filter /\ r.shown = q.shown
            /\ r.calls = q.calls /\ r.pane.at = at
        BY <2>2, <2>3, PaneDrawn
      <4>2. page' = r
        BY <2>1, <3>1
      <4> HIDE DEF r, f
      <4>. QED
        BY <2>2, <3>1, <4>1, <4>2 DEF Same
    <3>2. CASE ~(page.url.at \in Fellows /\ SlugOf(page.url) = f)
      <4>1. page' = q
        BY <2>1, <3>2
      <4>. QED
        BY <2>2, <3>2, <4>1
    <3>. QED
      BY <3>1, <3>2
  <2>5. Through(page, page', kind, {})
    <3>1. More(p, page', {})
      BY <1>0, <2>4, MoreThanItself
    <3>. QED
      BY <1>0, <3>1, AnswerThrough DEF p
  <2>6. /\ Has(page, "list") => Has(page', "list")
        /\ Has(page, "full") => Has(page', "full")
        /\ Has(page, "scan") => Has(page', "scan")
        /\ Has(page, "group") => Has(page', "group")
        /\ Has(page, "pref") => Has(page', "pref")
        /\ Has(page', "save") => Has(page, "save")
        /\ Asking(page) => Asking(page')
        /\ LastSave(page, page.mail) => LastSave(page', page.mail)
    BY <2>1, <2>4, <2>5 DEF Through
  <2>7. Opening'
    BY <2>1, <2>4, <2>5, OpeningKept DEF Follows
  <2>8. RowsFollow'
    <3>1. page.known \subseteq page'.known /\ page'.known \subseteq page.known \cup db
      BY <2>4
    <3>. QED
      BY <2>1, <2>4, <2>6, <3>1, RowsKept DEF Follows
  <2>9. ListFollows'
    BY <2>1, <2>4, <2>6, ListKept DEF Follows
  <2>10. SettingFollows'
    BY <2>1, <2>4, <2>6, SettingKept DEF Follows
  <2>11. OrphansFollow'
    BY <2>1, <2>4, <2>6, OrphansKept DEF Follows
  <2>12. PaneFollows'
    <3>1. CASE page.url.at \in Fellows /\ SlugOf(page.url) = f
      <4>1. page'.pane.at = IF f \in db THEN f ELSE "nobody"
        BY <2>4, <3>1 DEF at
      <4>2. f \in db => f = page.url.at /\ f \in Fellows
        BY <1>0, <3>1, NoneAssumption DEF SlugOf
      <4>3. PaneOf(page', page'.url.at)
        BY <2>4, <3>1, <4>1, <4>2, NotFellows DEF PaneOf
      <4>. QED
        BY <2>1, <4>3, PaneMade
    <3>2. CASE ~(page.url.at \in Fellows /\ SlugOf(page.url) = f)
      BY <2>1, <2>4, <2>6, <3>2, PaneKept DEF Follows
    <3>. QED
      BY <3>1, <3>2
  <2>. QED
    BY <2>7, <2>8, <2>9, <2>10, <2>11, <2>12 DEF Follows
<1>3. CASE GroupArrives(i)
  <2> DEFINE flagged == members \cap (p.orphans \cup (Fellows \ p.known))
             pane == [at |-> "group", rows |-> members, flagged |-> flagged, busy |-> {}]
  <2>1. /\ page' = [p EXCEPT !.pane = pane]
        /\ kind = "group" /\ page.boot # "list"
        /\ UNCHANGED <<source, db, members, setting, unsaved>> /\ rash \subseteq rash'
        /\ page.url.at # "group" => "strayed" \in rash'
    BY <1>0, <1>3 DEF GroupArrives, Note, Answer
  <2>2. flagged = members \cap (page.orphans \cup (Fellows \ page.known))
    BY <1>b
  <2> HIDE DEF p, flagged
  <2>3. /\ page'.calls = p.calls /\ page'.known = p.known
        /\ page'.box = p.box /\ page'.due = p.due /\ page'.mail = p.mail
        /\ page'.list = p.list /\ page'.cache = p.cache /\ page'.orphans = p.orphans
        /\ page'.boot = p.boot /\ page'.url = p.url /\ page'.filter = p.filter
        /\ page'.shown = p.shown /\ page'.pane.at = "group" /\ page'.pane.rows = members
        /\ page'.pane.flagged = flagged
    BY <1>0, <2>1 DEF Pages
  <2>4. Through(page, page', kind, {})
    <3>1. More(p, page', {})
      BY <1>0, <2>3, MoreThanItself
    <3>. QED
      BY <1>0, <3>1, AnswerThrough DEF p
  <2>5. /\ Has(page, "list") => Has(page', "list")
        /\ Has(page, "full") => Has(page', "full")
        /\ Has(page, "scan") => Has(page', "scan")
        /\ Has(page, "pref") => Has(page', "pref")
        /\ Has(page', "save") => Has(page, "save")
        /\ Asking(page) => Asking(page')
        /\ LastSave(page, page.mail) => LastSave(page', page.mail)
    BY <1>b, <2>1, <2>3, <2>4 DEF Through
  <2>6. Opening'
    BY <1>b, <2>1, <2>3, <2>4, OpeningKept DEF Follows
  <2>7. RowsFollow'
    BY <1>b, <2>1, <2>3, <2>5, RowsKept DEF Follows
  <2>8. ListFollows'
    BY <1>0, <1>b, <2>1, <2>3, <2>5, ListKept DEF Follows
  <2>9. SettingFollows'
    BY <1>b, <2>1, <2>3, <2>5, SettingKept DEF Follows
  <2>10. OrphansFollow'
    BY <1>b, <2>1, <2>3, <2>5, OrphansKept DEF Follows
  <2>11. PaneFollows'
    <3>1. page'.pane.at \notin Fellows /\ page'.pane.at = "group"
      BY <2>3, NotFellows
    <3>2. page'.boot = page.boot /\ page'.url = page.url /\ page'.orphans = page.orphans
          /\ page'.known = page.known
      BY <1>0, <1>b, <2>3
    <3>3. Without({"strayed", "failed"})' => page.url.at = "group"
      BY <2>1 DEF Without
    <3>4. ASSUME source' = "worker", Without({"strayed", "failed", "returned"})', page'.boot = "done",
                 ~Has(page', "list"), ~Has(page', "full")
          PROVE  \/ flagged = members \ db
                 \/ Has(page', "scan") /\ flagged = members \cap (page.orphans \cup (Fellows \ db))
      <4>1. "failed" \notin rash'
        BY <3>4 DEF Without
      <4>2. page.known = db
        <5>1. page'.known \subseteq db'
          BY <2>7, <3>4, <4>1 DEF RowsFollow, Without
        <5>2. db' \subseteq page'.known
          BY <2>7, <3>4, <4>1 DEF RowsFollow, Without
        <5>. QED
          BY <2>1, <3>2, <5>1, <5>2
      <4>3. flagged = members \cap (page.orphans \cup (Fellows \ db))
        BY <2>2, <4>2
      <4>4. ~Has(page', "scan") => page.orphans \cap db = {}
        BY <2>1, <2>10, <3>2, <3>4, <4>1 DEF OrphansFollow, Without
      <4>5. members \subseteq Fellows
        BY DEF Inv
      <4>6. page.orphans \cap db = {} => flagged = members \ db
        BY <4>3, <4>5
      <4>. QED
        BY <4>3, <4>4, <4>6
    <3>. QED
      BY <2>1, <2>3, <3>1, <3>2, <3>3, <3>4 DEF PaneFollows
  <2>. QED
    BY <2>6, <2>7, <2>8, <2>9, <2>10, <2>11 DEF Follows
<1>4. CASE OrphanRemoved(i)
  <2> DEFINE q == [p EXCEPT !.orphans = @ \ {page.calls[i].arg.gone}]
  <2>1. /\ page' = renderGroupDetailPage(q) /\ kind = "remove" /\ page.boot # "list"
        /\ UNCHANGED <<source, db, setting, unsaved>> /\ rash \subseteq rash'
    BY <1>0, <1>4 DEF OrphanRemoved, Note, Answer
  <2> HIDE DEF p
  <2>2. /\ q \in Pages /\ q.calls = p.calls /\ q.known = page.known
        /\ q.box = page.box /\ q.due = page.due /\ q.mail = page.mail /\ q.list = page.list
        /\ q.cache = page.cache /\ q.orphans \subseteq page.orphans /\ q.boot = page.boot
        /\ q.url = page.url /\ q.filter = page.filter /\ q.shown = page.shown
    BY <1>0, <1>b DEF Pages
  <2> HIDE DEF q
  <2>3. /\ Same(q, page') /\ page'.url = q.url /\ page'.filter = q.filter /\ page'.shown = q.shown
        /\ More(q, page', {"one", "group"})
        /\ page'.pane.at \in {"loading", "error"}
        /\ source = "worker" => Has(page', "group")
    BY <2>1, <2>2, GroupPaned
  <2>4. /\ page'.known = page.known /\ page'.box = page.box /\ page'.due = page.due
        /\ page'.mail = page.mail /\ page'.list = page.list /\ page'.cache = page.cache
        /\ page'.orphans \subseteq page.orphans /\ page'.boot = page.boot
        /\ page'.filter = page.filter /\ page'.shown = page.shown
    BY <2>2, <2>3 DEF Same
  <2>5. Through(page, page', kind, {"one", "group"})
    <3>1. More(p, q, {"one", "group"})
      BY <1>0, <2>2, MoreThanItself
    <3>2. More(p, page', {"one", "group"})
      BY <1>0, <2>2, <2>3, <3>1, MoreAndMore
    <3>. QED
      BY <1>0, <3>2, AnswerThrough DEF p
  <2>6. /\ Has(page, "list") => Has(page', "list")
        /\ Has(page, "full") => Has(page', "full")
        /\ Has(page, "scan") => Has(page', "scan")
        /\ Has(page, "pref") => Has(page', "pref")
        /\ Has(page', "save") => Has(page, "save")
        /\ Asking(page) => Asking(page')
        /\ LastSave(page, page.mail) => LastSave(page', page.mail)
    BY <2>1, <2>4, <2>5 DEF Through
  <2>7. Opening'
    BY <2>1, <2>4, <2>5, OpeningKept DEF Follows
  <2>8. RowsFollow'
    BY <2>1, <2>4, <2>6, RowsKept DEF Follows
  <2>9. ListFollows'
    BY <2>1, <2>4, <2>6, ListKept DEF Follows
  <2>10. SettingFollows'
    BY <2>1, <2>4, <2>6, SettingKept DEF Follows
  <2>11. OrphansFollow'
    BY <2>1, <2>4, <2>6, OrphansKept DEF Follows
  <2>12. PaneFollows'
    <3>1. PaneOf(page', page'.url.at)
      BY <2>3, NotFellows DEF PaneOf
    <3>. QED
      BY <2>1, <3>1, PaneMade
  <2>. QED
    BY <2>7, <2>8, <2>9, <2>10, <2>11, <2>12 DEF Follows
<1>. QED
  BY <1>1, <1>2, <1>3, <1>4 DEF Store

LEMMA FailuresFollow ==
  ASSUME Inv, Inv', Follows, NEW i \in 1..Len(page.calls), CallFails(i)
  PROVE  Follows'
<1> DEFINE p == Answered(page, i)
           c == page.calls[i]
           kind == page.calls[i].kind
           r == [p EXCEPT !.pane.busy = @ \ {c.arg.gone}]
<1>0. /\ page \in Pages /\ page' \in Pages /\ source \in {"worker", "api"} /\ Has(page, kind)
      /\ p \in Pages /\ Same(page, p) /\ p.url = page.url /\ p.pane = page.pane
      /\ kind \notin {"pref", "list0", "save"} => page.boot # "list"
  BY AnswerKnown DEF Follows, Inv, Sound
<1>1. /\ "failed" \in rash' /\ UNCHANGED <<source, db, members, setting, unsaved>>
      /\ kind \in {"pref", "save", "remove", "one", "group", "scan", "apply", "list", "full"}
  BY DEF CallFails, Note
<1>2. \/ page' = [p EXCEPT !.pane = Blank("error")] /\ kind = "group"
      \/ page' = [p EXCEPT !.pane = Blank("nobody")] /\ kind = "one"
      \/ page' = r /\ kind = "remove"
      \/ page' = Send(p, "scan", None) /\ kind \in {"list", "full"}
      \/ page' = p
  BY DEF CallFails
<1> HIDE DEF p, c
<1>3. /\ Same(p, page') /\ More(p, page', {"scan"}) /\ page'.url = p.url
      /\ \/ page'.pane.at = p.pane.at /\ page'.pane.rows = p.pane.rows
         \/ page'.pane.at \in {"nobody", "error"} /\ page'.pane.at \notin Fellows
      /\ kind \in {"pref", "save"} => page'.calls = p.calls
  <2>1. ASSUME NEW at \in {"nobody", "error"}, page' = [p EXCEPT !.pane = Blank(at)]
        PROVE  /\ Same(p, page') /\ More(p, page', {"scan"}) /\ page'.url = p.url
               /\ page'.pane.at = at /\ at \notin Fellows
    <3> DEFINE q == [p EXCEPT !.pane = Blank(at)]
    <3>1. Same(p, q) /\ q.url = p.url /\ q.calls = p.calls /\ q.pane.at = at
      BY <1>0, PaneDrawn
    <3> HIDE DEF q
    <3>2. More(p, q, {"scan"})
      BY <1>0, <3>1, MoreThanItself
    <3>. QED
      BY <2>1, <3>1, <3>2, NotFellows DEF q
  <2>2. CASE page' = r /\ kind = "remove"
    <3>1. /\ Same(p, r) /\ r.url = p.url /\ r.calls = p.calls /\ r.pane.at = p.pane.at
          /\ r.pane.rows = p.pane.rows
      BY <1>0 DEF Pages, Panes, Same
    <3> HIDE DEF r
    <3>2. More(p, r, {"scan"})
      BY <1>0, <3>1, MoreThanItself
    <3>. QED
      BY <2>2, <3>1, <3>2
  <2>3. CASE page' = Send(p, "scan", None) /\ kind \in {"list", "full"}
    <3> DEFINE q == Send(p, "scan", None)
    <3>1. Ask("scan", None) \in Calls
      BY DEF Ask, Calls
    <3>2. Same(p, q) /\ q.url = p.url /\ q.pane = p.pane /\ More(p, q, {"scan"})
      BY <1>0, <3>1, SentOne
    <3> HIDE DEF q
    <3>. QED
      BY <2>3, <3>2 DEF q
  <2>4. CASE page' = p
    <3>1. More(p, p, {"scan"})
      BY <1>0, MoreThanItself
    <3>. QED
      BY <2>4, <3>1 DEF Same
  <2>. QED
    BY <1>2, <2>1, <2>2, <2>3, <2>4
<1>4. Through(page, page', kind, {"scan"})
  BY <1>0, <1>3, AnswerThrough DEF p
<1>5. /\ page'.box = page.box /\ page'.due = page.due /\ page'.known = page.known
      /\ page'.cache = page.cache /\ page'.boot = page.boot /\ page'.url = page.url
  BY <1>0, <1>3 DEF Same
<1>6. Opening'
  <2>1. CASE page.boot = "list"
    <3>1. kind \in {"pref", "save"}
      BY <1>0, <1>1, <2>1
    <3>2. \A k : Has(page', k) => Has(page, k)
      <4>1. \A k : Has(p, k) => Has(page, k)
        BY <1>0, AnsweredOne DEF p
      <4>2. \A k : Has(page', k) => Has(p, k)
        BY <1>3, <3>1 DEF Has
      <4>. QED
        BY <4>1, <4>2
    <3>3. Once(page', "pref") /\ Once(page', "list0") /\ ~Has(page', "pref")
      <4>1. Once(page', "pref") /\ Once(page', "list0") /\ (kind = "pref" => ~Has(page', "pref"))
        BY <1>4, <2>1 DEF Through, Follows, Opening
      <4>2. kind = "save" => ~Has(page, "pref")
        BY <1>0, <2>1 DEF Follows, Opening
      <4>. QED
        BY <3>1, <3>2, <4>1, <4>2
    <3>. QED
      BY <1>1, <1>5, <2>1, <3>2, <3>3 DEF Follows, Opening
  <2>2. CASE page.boot # "list"
    BY <1>1, <1>4, <1>5, <2>2, OpeningKept DEF Follows
  <2>. QED
    BY <2>1, <2>2
<1>7. RowsFollow' /\ ListFollows' /\ SettingFollows' /\ OrphansFollow'
  BY <1>1 DEF RowsFollow, ListFollows, SettingFollows, OrphansFollow, Without
<1>8. PaneFollows'
  BY <1>0, <1>1, <1>3, <1>5 DEF PaneFollows, Follows, Without
<1>. QED
  BY <1>6, <1>7, <1>8 DEF Follows

-----------------------------------------------------------------------------
LEMMA AlwaysFollows == Spec => []Follows
<1>1. ASSUME Inv, Inv', Follows, [Next]_vars PROVE Follows'
  <2>1. CASE Member
    BY <1>1, <2>1, MemberFollows
  <2>2. ASSUME NEW i \in 1..Len(page.calls),
               Search(i) \/ Boot(i) \/ Update(i) \/ Store(i) \/ CallFails(i)
        PROVE  Follows'
    BY <1>1, <2>2, SearchAnswersFollow, BootAnswersFollow, UpdateAnswersFollow, StoreAnswersFollow,
       FailuresFollow
  <2>3. CASE GateResolves \/ UNCHANGED vars
    <3>1. Wanted' = Wanted
      BY <2>3 DEF GateResolves, vars, Wanted
    <3>2. /\ source' = source /\ db' = db /\ members' = members /\ setting' = setting
          /\ unsaved' = unsaved /\ page' = page /\ rash \subseteq rash'
      BY <2>3 DEF GateResolves, Note, vars
    <3>3. Opening' /\ RowsFollow'
      BY <1>1, <3>2 DEF Follows, Opening, RowsFollow, Without
    <3>4. ListFollows' /\ SettingFollows'
      BY <1>1, <3>1, <3>2 DEF Follows, ListFollows, SettingFollows, Without
    <3>5. OrphansFollow' /\ PaneFollows'
      BY <1>1, <3>2 DEF Follows, OrphansFollow, PaneFollows, Without
    <3>. QED
      BY <3>3, <3>4, <3>5 DEF Follows
  <2>. QED
    BY <1>1, <2>1, <2>2, <2>3 DEF Next
<1>. QED
  BY <1>1, InitFollows, AlwaysSound, PTL DEF Spec

LEMMA NothingInFlight ==
  ASSUME page.calls = <<>>
  PROVE  /\ \A k : ~Has(page, k)
         /\ ~Asking(page)
         /\ \A v : ~LastSave(page, v)
<1>1. \A i \in 1..Len(page.calls) : FALSE
  OBVIOUS
<1>. QED
  BY <1>1 DEF Has, Asking, LastSave

\* The list shows what the box and the filters ask of the directory, in whatever order they were
\* changed and answered, for both providers, through any number of updates.
THEOREM ListIsAsAsked == Spec => []ListIsWhatWasAsked
<1>1. Follows => ListIsWhatWasAsked
  <2> SUFFICES ASSUME Follows, Quiet, Without({"crossed", "early", "swapped", "failed", "uncached"})
               PROVE  page.shown = Wanted
    BY DEF ListIsWhatWasAsked
  <2>1. page.boot = "done" /\ ~page.due /\ ~Asking(page) /\ ~Has(page, "list") /\ ~Has(page, "full")
    BY NothingInFlight DEF Quiet
  <2>. QED
    BY <2>1 DEF Follows, ListFollows
<1>. QED
  BY <1>1, AlwaysFollows, PTL

\* The pane is the URL's; the group's page, at rest, flags those that have left, and only those.
THEOREM PaneIsAsNamed == Spec => []PaneIsTheUrls
<1>1. Follows => PaneIsTheUrls
  <2> SUFFICES ASSUME Follows PROVE PaneIsTheUrls
    OBVIOUS
  <2>1. ASSUME Quiet, Without({"strayed", "failed", "returned"}), source = "worker"
        PROVE  /\ page.pane.at = "group" <=> page.url.at = "group"
               /\ page.pane.at = "group" => page.pane.rows = members /\ page.pane.flagged = members \ db
    <3>1. /\ page.boot = "done" /\ ~Has(page, "list") /\ ~Has(page, "full") /\ ~Has(page, "scan")
          /\ ~Has(page, "group")
      BY <2>1, NothingInFlight DEF Quiet
    <3>2. Without({"strayed", "failed"})
      BY <2>1 DEF Without
    <3>. QED
      BY <2>1, <3>1, <3>2 DEF Follows, PaneFollows
  <2>2. page.pane.at \in Fellows => page.url.at = page.pane.at
    BY DEF Follows, PaneFollows
  <2>. QED
    BY <2>1, <2>2 DEF PaneIsTheUrls
<1>. QED
  BY <1>1, AlwaysFollows, PTL

\* The box and the setting end up the same, however often the box is toggled before the store
\* answers and however often the folder is lost and found, as long as the page knew of the folder
\* when the box was last set or, at the boot, read (saveHasEmailFilter and
\* reconcileHasEmailFilterOnBoot of app.js save nothing otherwise).
THEOREM SettingIsTheBox == Spec => []SettingAgrees
<1>1. Follows => SettingAgrees
  <2> SUFFICES ASSUME Follows, Quiet, source = "worker", Without({"overtaken", "failed"}),
                      ~unsaved
               PROVE  setting = page.mail
    BY DEF SettingAgrees
  <2>1. ~Has(page, "pref") /\ ~LastSave(page, page.mail)
    BY NothingInFlight DEF Quiet
  <2>. QED
    BY <2>1 DEF Follows, SettingFollows
<1>. QED
  BY <1>1, AlwaysFollows, PTL

=============================================================================
