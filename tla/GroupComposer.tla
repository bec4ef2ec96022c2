--------------------------- MODULE GroupComposer ---------------------------
(***************************************************************************)
(* The group rail of the directory: a new group is composed in a draft     *)
(* that localStorage keeps, and a saved group is edited in the same rail,  *)
(* each change sent as a PATCH that nobody awaits.  The route decides      *)
(* which of the two the rail is in; the answer that fills it comes later.  *)
(*                                                                         *)
(* `rail' is the state of the page, `stored' the draft in localStorage,    *)
(* `saved' the groups of the private-data store.  `calls' are the writes   *)
(* in flight, in the order they were sent, and `loads' the group reads     *)
(* that enterEditMode has started.  A name stands for a group's name and   *)
(* its note, which are saved, edited and reverted in the same way; a draft *)
(* stands for its members and its title, which are kept in the same way.   *)
(***************************************************************************)
EXTENDS Naturals, Sequences, FiniteSets

CONSTANTS Groups, Fellows, Names,
          Blank,      \* an empty title
          None,
          MaxCalls,   \* writes in flight: a bound
          MaxLoads,   \* reads of one group in flight: a bound
          MaxRash     \* kinds of rashness (see `rash') in one behaviour: a bound

ASSUME NoneAssumption == None \notin Groups \cup Names \cup {Blank} /\ Blank \notin Names
ASSUME BoundAssumption == MaxCalls \in Nat \ {0} /\ MaxLoads \in Nat \ {0} /\ MaxRash \in Nat

VARIABLES saved, stored, rail, url, calls, loads, due, rash, mine

vars == <<saved, stored, rail, url, calls, loads, due, rash, mine>>

Titles == Names \cup {Blank}
Draft  == SUBSET Fellows
Group  == [members : Draft, title : Names]

Edit(g) == [at |-> "edit", group |-> g]
Page(p) == [at |-> p, group |-> None]
Urls == {Edit(g) : g \in Groups} \cup {Page("directory"), Page("groups")}

\* A call: the group it writes (None for a new one), the new values, and whether it has committed.
Call == [kind : {"members", "title", "revert", "create"}, group : Groups \cup {None},
         members : Draft, title : Titles, done : BOOLEAN]

InFlight(kind) == \E i \in 1..Len(calls) : calls[i].kind = kind
Uncommitted(g) == \E i \in 1..Len(calls) : calls[i].group = g /\ ~calls[i].done
Loading == \E g \in Groups : loads[g] > 0

SendMore(kind, g, m, t) ==
  /\ Len(calls) < MaxCalls
  /\ calls' = Append(calls, [kind |-> kind, group |-> g, members |-> m, title |-> t, done |-> FALSE])

Drop(i) == SubSeq(calls, 1, i - 1) \o SubSeq(calls, i + 1, Len(calls))

\* History: which of the member's moves, or the worker's, came too early or too late; and `mine',
\* the new group as the member has composed it.
Note(s) == rash' = rash \cup s /\ Cardinality(rash') <= MaxRash

-----------------------------------------------------------------------------
(* The rail.                                                               *)

NoGroup == [members |-> {}, title |-> Blank]

Fresh(d) == [draft |-> d, title |-> Blank, editing |-> None, entry |-> NoGroup, backup |-> {},
             timer |-> None, busy |-> FALSE]

isEditing == rail.editing # None

\* The draft is kept aside while a saved group is in the rail.
snapshotComposeDraft(r) == [r EXCEPT !.backup = r.draft]
restoreComposeDraft(r) == Fresh(r.backup)

keeps_the_timer(r) == [Fresh(r.backup) EXCEPT !.timer = r.timer]

\* exitEditMode: the rail and localStorage get the draft of before, a delayed rename is dropped.
exitEditMode(r) == restoreComposeDraft(r)

stays_in_edit_mode(r, s, u) ==
  LET leaves == r.editing # None /\ u.at # "edit"
      q == IF leaves THEN exitEditMode(r) ELSE r
      enters == u.at = "edit" /\ q.editing # u.group
  IN  /\ url' = u
      /\ rail' = IF enters /\ q.editing = None THEN snapshotComposeDraft(q) ELSE q
      /\ stored' = IF leaves THEN q.draft ELSE s
      /\ loads' = IF enters THEN [loads EXCEPT ![u.group] = @ + 1] ELSE loads

\* route: leaves an edit mode the URL does not name, and starts to enter the one it names.
route(r, s, u) ==
  LET leaves == r.editing # None /\ u # Edit(r.editing)
      q == IF leaves THEN exitEditMode(r) ELSE r
      enters == u.at = "edit" /\ q.editing # u.group
  IN  /\ url' = u
      /\ rail' = IF enters /\ q.editing = None THEN snapshotComposeDraft(q) ELSE q
      /\ stored' = IF leaves THEN q.draft ELSE s
      /\ loads' = IF enters THEN [loads EXCEPT ![u.group] = @ + 1] ELSE loads

\* The rail is used while it waits for a group.
Early == IF Loading THEN {"early"} ELSE {}

\* Anything done before a cancel or a new group is answered.
Meddling == IF InFlight("revert") \/ InFlight("create") THEN {"meddled"} ELSE {}

CanLoad(u) == u.at = "edit" => loads[u.group] < MaxLoads

RailShown == url.at # "groups"

-----------------------------------------------------------------------------
(* The member.                                                             *)

GoTo(u) ==
  /\ u # url
  /\ CanLoad(u)
  /\ route(rail, stored, u)
  /\ Note(Meddling)
  /\ UNCHANGED <<saved, calls, due, mine>>

\* "Done editing".
Done ==
  /\ isEditing /\ RailShown
  /\ route(rail, stored, Page("groups"))
  /\ Note(Meddling)
  /\ UNCHANGED <<saved, calls, due, mine>>

persist_both(d) ==
  /\ stored' = d
  /\ IF isEditing THEN SendMore("members", rail.editing, d, Blank) ELSE UNCHANGED calls

\* persistDraft: a draft goes to localStorage, an edited group to the store.
persistDraft(d) ==
  IF isEditing
    THEN SendMore("members", rail.editing, d, Blank) /\ UNCHANGED stored
    ELSE stored' = d /\ UNCHANGED calls

Toggled(m, s) == IF s \subseteq m THEN m \ s ELSE m \cup s

\* A marker of the directory, a chip of the rail, or the box for all the rows that are shown.
Toggle(s) ==
  LET d == Toggled(rail.draft, s) IN
  /\ RailShown
  /\ rail' = [rail EXCEPT !.draft = d, !.busy = FALSE]
  /\ persistDraft(d)
  /\ mine' = IF isEditing THEN mine ELSE d
  /\ Note(Meddling \cup Early)
  /\ UNCHANGED <<saved, url, loads, due>>

\* The title field of an edited group: its name is sent after 600 ms of rest.
TypeTitle(t) ==
  /\ isEditing /\ RailShown /\ t # rail.title
  /\ rail' = [rail EXCEPT !.title = t, !.timer = t]
  /\ Note(Meddling)
  /\ UNCHANGED <<saved, stored, url, calls, loads, due, mine>>

sends_a_blank_name ==
  /\ rail.timer # None
  /\ rail' = [rail EXCEPT !.timer = None]
  /\ IF isEditing THEN SendMore("title", rail.editing, {}, rail.timer) ELSE UNCHANGED calls
  /\ UNCHANGED <<saved, stored, url, loads, due, rash, mine>>

\* patchEditedGroupName, when the 600 ms are over.
TitleTimerFires ==
  /\ rail.timer # None
  /\ rail' = [rail EXCEPT !.timer = None]
  /\ IF isEditing /\ rail.timer # Blank
       THEN SendMore("title", rail.editing, {}, rail.timer)
       ELSE UNCHANGED calls
  /\ UNCHANGED <<saved, stored, url, loads, due, rash, mine>>

cancel_and_rename ==
  /\ isEditing /\ RailShown
  /\ SendMore("revert", rail.editing, rail.entry.members, rail.entry.title)
  /\ Note(Meddling)
  /\ UNCHANGED <<saved, stored, rail, url, loads, due, mine>>

handleCancelEdits ==
  /\ isEditing /\ RailShown
  /\ SendMore("revert", rail.editing, rail.entry.members, rail.entry.title)
  /\ rail' = [rail EXCEPT !.timer = None]
  /\ Note(Meddling)
  /\ UNCHANGED <<saved, stored, url, loads, due, mine>>

handleCreateGroupClick ==
  /\ ~isEditing /\ RailShown /\ ~rail.busy
  /\ rail.draft # {}
  /\ SendMore("create", None, rail.draft, Blank)
  /\ rail' = [rail EXCEPT !.busy = TRUE]
  /\ Note(Early)
  /\ UNCHANGED <<saved, stored, url, loads, due, mine>>

\* A name or note edited in place on the pages of the groups.
RenameInPlace(g, n) ==
  /\ url = Page("groups") /\ n # saved[g].title
  /\ SendMore("title", g, {}, n)
  /\ Note(Meddling)
  /\ UNCHANGED <<saved, stored, rail, url, loads, due, mine>>

-----------------------------------------------------------------------------
(* The worker.                                                             *)

Written(group, call) ==
  CASE call.kind = "members" -> [group EXCEPT !.members = call.members]
    [] call.kind = "title"   -> [group EXCEPT !.title = call.title]
    [] call.kind = "revert"  -> [members |-> call.members, title |-> call.title]

\* A write commits once its guard has found the folder's permission.  The answer to a PATCH
\* changes nothing that matters here; that to a revert or a new group is still to come.
Commit(i) ==
  LET c == calls[i] IN
  /\ ~c.done
  /\ saved' = IF c.kind = "create" THEN saved ELSE [saved EXCEPT ![c.group] = Written(@, c)]
  /\ calls' = IF c.kind \in {"revert", "create"} THEN [calls EXCEPT ![i].done = TRUE] ELSE Drop(i)
  /\ Note(IF \E j \in 1..(i - 1) : calls[j].group = c.group /\ ~calls[j].done
            THEN {"overtaken"} ELSE {})
  /\ UNCHANGED <<stored, rail, url, loads, due, mine>>

\* ... or is refused or fails, with a toast.
CallFails(i) ==
  /\ ~calls[i].done
  /\ calls' = Drop(i)
  /\ rail' = IF calls[i].kind = "create" THEN [rail EXCEPT !.busy = FALSE] ELSE rail
  /\ Note({"failed"})
  /\ UNCHANGED <<saved, stored, url, loads, due, mine>>

\* "Edits reverted."
RevertAnswers(i) ==
  /\ calls[i].kind = "revert" /\ calls[i].done
  /\ calls' = Drop(i)
  /\ route(rail, stored, Page("groups"))
  /\ UNCHANGED <<saved, due, rash, mine>>

clearDraftAfterSave(r, s) == <<[r EXCEPT !.draft = {}, !.title = Blank, !.busy = FALSE], {}>>

CreateAnswers(i) ==
  LET cleared == clearDraftAfterSave(rail, stored) IN
  /\ calls[i].kind = "create" /\ calls[i].done
  /\ calls' = Drop(i)
  /\ mine' = {}
  /\ route(cleared[1], cleared[2], Page("groups"))
  /\ UNCHANGED <<saved, due, rash>>

\* The group that enterEditMode asked for: the rail is filled whatever the URL is by now.  A title
\* field that has the focus keeps what was typed.
LoadAnswers(g) ==
  /\ loads[g] > 0
  /\ loads' = [loads EXCEPT ![g] = @ - 1]
  /\ \E field \in {rail.timer, saved[g].title} :
       rail' = [rail EXCEPT !.draft = saved[g].members, !.title = saved[g].title,
                            !.editing = g, !.entry = saved[g],
                            !.timer = IF @ = None THEN None ELSE field]
  /\ Note((IF url # Edit(g) \/ isEditing THEN {"crossed"} ELSE {})
          \cup (IF Uncommitted(g) THEN {"stale"} ELSE {}))
  /\ UNCHANGED <<saved, stored, url, calls, due, mine>>

LoadFails(g) ==
  /\ loads[g] > 0
  /\ LET left == [loads EXCEPT ![g] = @ - 1] IN
     /\ url' = Page("groups")
     /\ rail' = IF isEditing THEN exitEditMode(rail) ELSE rail
     /\ stored' = IF isEditing THEN rail.backup ELSE stored
     /\ loads' = left
  /\ UNCHANGED <<saved, calls, due, rash, mine>>

-----------------------------------------------------------------------------
(* The page.                                                               *)

\* A reload: what has not committed is lost, and the draft is read from localStorage.
Reload ==
  /\ rail' = [Fresh(stored) EXCEPT !.backup = IF url.at = "edit" THEN stored ELSE {}]
  /\ loads' = [g \in Groups |-> IF url = Edit(g) THEN 1 ELSE 0]
  /\ calls' = <<>>
  /\ due' = TRUE
  /\ UNCHANGED <<saved, stored, url, rash, mine>>

\* The boot calls route once more when the full directory is there.
RouteAgain ==
  /\ due /\ CanLoad(url)
  /\ due' = FALSE
  /\ route(rail, stored, url)
  /\ UNCHANGED <<saved, calls, rash, mine>>

Init ==
  /\ saved \in [Groups -> Group]
  /\ stored = {}
  /\ rail = Fresh(stored)
  /\ url = Page("directory")
  /\ calls = <<>>
  /\ loads = [g \in Groups |-> 0]
  /\ due = FALSE
  /\ rash = {}
  /\ mine = {}

Member ==
  \/ \E u \in Urls : GoTo(u)
  \/ Done
  \/ \E s \in (SUBSET Fellows) \ {{}} : Toggle(s)
  \/ \E t \in Titles : TypeTitle(t)
  \/ handleCancelEdits
  \/ handleCreateGroupClick
  \/ \E g \in Groups, n \in Names : RenameInPlace(g, n)

Answers(i) == Commit(i) \/ CallFails(i) \/ RevertAnswers(i) \/ CreateAnswers(i)

LoadEnds(g) == LoadAnswers(g) \/ LoadFails(g)

Next ==
  \/ Member
  \/ \E i \in 1..Len(calls) : Answers(i)
  \/ \E g \in Groups : LoadEnds(g)
  \/ TitleTimerFires \/ Reload \/ RouteAgain

Spec == Init /\ [][Next]_vars

-----------------------------------------------------------------------------
TypeOK ==
  /\ saved \in [Groups -> Group]
  /\ stored \in Draft
  /\ rail \in [draft : Draft, title : Titles, editing : Groups \cup {None},
               entry : Group \cup {NoGroup}, backup : Draft, timer : Titles \cup {None}, busy : BOOLEAN]
  /\ url \in Urls
  /\ calls \in Seq(Call) /\ Len(calls) <= MaxCalls
  /\ loads \in [Groups -> Nat]
  /\ due \in BOOLEAN
  /\ mine \in Draft
  /\ rash \subseteq {"early", "crossed", "stale", "meddled", "overtaken", "failed"}

Without(s) == rash \cap s = {}

\* The draft the member composes is in localStorage, where a reload finds it, and back in the rail
\* after every detour into saved groups.
DraftSurvives ==
  Without({"early", "meddled", "crossed"}) =>
    stored = mine /\ (~isEditing /\ ~Loading => rail.draft = mine)

\* The rail edits the group that the URL names.
EditsWhatTheUrlNames == Without({"crossed"}) /\ isEditing => url = Edit(rail.editing)

\* When nothing is under way the store has what the rail shows.
EditsLand ==
  /\ Without({"overtaken", "failed", "stale", "crossed"})
  /\ isEditing /\ calls = <<>> /\ rail.timer = None
  =>
      /\ saved[rail.editing].members = rail.draft
      /\ rail.title # Blank => saved[rail.editing].title = rail.title

\* "Edits reverted." is true of the group at that moment.
CancelRestores ==
  [][\A i \in 1..Len(calls) :
       /\ calls[i].kind = "revert" /\ calls[i].done /\ calls' = Drop(i)
       /\ Without({"meddled", "overtaken"})
       => saved[calls[i].group] = [members |-> calls[i].members, title |-> calls[i].title]]_vars

\* The design: "Auto-saves; no explicit save button" (group_feature handoff, line 311).  A name typed
\* in edit mode is sent before the rail forgets it, unless the edits are cancelled or the page goes.
TypedNameIsSaved ==
  [][rail.timer \notin {None, Blank} /\ rail'.timer = None /\ ~Reload => Len(calls') > Len(calls)]_vars

=============================================================================
