--------------------------- MODULE PrivateDataGate ---------------------------
(***************************************************************************)
(* What the page knows of the member's data folder.  The worker owns the   *)
(* folder; the page asks for its state (getFolderState) after the events   *)
(* it thinks matter, and keeps three conclusions: the gate, which offers   *)
(* or refuses private data and keeps a member without a folder out of the  *)
(* groups; the banner on top of the app; and the badge in Settings, whose  *)
(* buttons start the flows that pick, lock, reconnect and restore.         *)
(*                                                                         *)
(* An answer says what was so when the worker read the question, arrives   *)
(* in any order, and is believed.  `worker' stands for FolderStore: whether *)
(* a folder is attached and reachable, whether one was written and whether *)
(* the last write failed, and whether there are groups, notes or tags.     *)
(***************************************************************************)
EXTENDS Naturals, FiniteSets

CONSTANTS MaxAsks,   \* questions in flight: a bound
          MaxEdits,  \* writes in flight: a bound
          MaxFlows,  \* flows of Settings at a time: a bound
          MaxRash    \* kinds of mishap (see `rash') in one behaviour: a bound

ASSUME BoundAssumption == {MaxAsks, MaxEdits, MaxFlows, MaxRash} \subseteq Nat

VARIABLES worker, boot, url, gate, banner, dismissed, settings, timer, asks, edits, flows, rash,
          missed     \* history: `worker.err' when a write or a read of the folder last ended, if not locked since

vars == <<worker, missed, boot, url, gate, banner, dismissed, settings, timer, asks, edits, flows, rash>>

Worker == [attached : BOOLEAN, granted : BOOLEAN, err : BOOLEAN, rows : BOOLEAN]
Badges == {"browser-only", "inaccessible", "write-failed", "saved"}
Nags   == {"browser-only", "migrate"}
Tiers  == {"private-folder", "browse-only-desktop"}
Purposes == {"boot", "gate", "banner", "count", "badge", "orphan"}
Flows  == {"pick", "lock", "reconnect", "restore"}
Stages == {"idle", "picking", "saving", "loading", "locking", "reconnecting", "importing"}

\* A question in flight: what for, what it will be answered, whether it is the last of its kind.
\* (Two of a kind that were overtaken and have the same answer count as one.)
Ask == {a \in [for : Purposes, seen : Badges \cup Nags \cup Tiers \cup {"unseen"}, fresh : BOOLEAN] :
          /\ a.for = "count" => a.seen \in Nags
          /\ a.for = "badge" => a.seen \in Badges}
\* A write in flight that the page and the worker have let pass; one they refuse changes nothing.
Edit == {"group", "setting"}
\* A flow: its stage, and whether the Settings page that will show its end has been left.
Flow == [at : Stages, gone : BOOLEAN]

Idle == [at |-> "idle", gone |-> FALSE]
Running == {f \in Flows : flows[f].at # "idle"}

Kind(for) == CASE for \in {"boot", "gate"} -> "gate"
               [] for \in {"banner", "count"} -> "banner"
               [] OTHER -> for

Unlocked(w) == w.attached /\ w.granted

\* FOLDER_CONTROLLER.badge; "saved" is also a folder nothing has been saved to yet.
Badge(w) ==
  CASE ~w.attached -> "browser-only"
    [] w.attached /\ ~w.granted -> "inaccessible"
    [] Unlocked(w) /\ w.err -> "write-failed"
    [] OTHER -> "saved"

computePrivateDataTier(w) == IF Unlocked(w) THEN "private-folder" ELSE "browse-only-desktop"

\* countRelationships, as the nag words it.
Stranded(w) == IF w.rows THEN "migrate" ELSE "browser-only"

Room(n) == Cardinality(asks) + n <= MaxAsks

\* What the page makes of an answer; a Settings page that has been left shows nothing of it.
Seen(for, w) == CASE Kind(for) = "gate" -> computePrivateDataTier(w)
                  [] for = "orphan" -> "unseen"
                  [] OTHER -> Badge(w)

\* getState: the worker starts on a question at once, and answers when the browser has.
getState(q, for, w) ==
  {IF Kind(a.for) = Kind(for) /\ for # "orphan" THEN [a EXCEPT !.fresh = FALSE] ELSE a : a \in q}
  \cup {[for |-> for, seen |-> Seen(for, w), fresh |-> TRUE]}

\* An answer arrives although a later question of its kind has been answered.
Crossed(a) ==
  IF ~a.fresh /\ ~\E b \in asks : b.fresh /\ Kind(b.for) = Kind(a.for) THEN {"astray"} ELSE {}

\* History: which of the things that the properties below except has happened.
Note(s) == rash' = rash \cup s /\ Cardinality(rash') <= MaxRash

Asking(kind) == \E a \in asks : Kind(a.for) = kind

-----------------------------------------------------------------------------
(* Routes and renderings.                                                  *)

\* What is left of a Settings page that another page has replaced: its questions are still
\* answered and its flows go on, but its badge is no longer on the screen.
Orphaned(q) ==
  {IF a.for = "badge" THEN [for |-> "orphan", seen |-> "unseen", fresh |-> TRUE] ELSE a : a \in q}
Left == [f \in Flows |-> IF f \in Running \ {"restore"} THEN [flows[f] EXCEPT !.gone = TRUE] ELSE flows[f]]

redirects_unresolved(g, u) == u = "groups" /\ ~g.enabled

\* route: the groups of a member without a folder are in Settings, once the gate has been resolved.
redirects(g, u) == u = "groups" /\ g.resolved /\ ~g.enabled

\* route, then renderSettingsPage with the first refresh of its badge.
route(g, q, u) ==
  LET dest == IF redirects(g, u) THEN "settings" ELSE u IN
  /\ url' = dest
  /\ settings' = IF dest = "settings" THEN "checking" ELSE "none"
  /\ asks' = IF dest = "settings" THEN getState(Orphaned(q), "badge", worker) ELSE Orphaned(q)
  /\ flows' = Left

\* refreshFolderPushBanner: behind the landing, the gate or the loading screen nothing is asked.
LookAtBanner(q, w) ==
  IF boot = "app" THEN asks' = getState(q, "banner", w) /\ UNCHANGED banner
  ELSE asks' = q /\ banner' = "hidden"

-----------------------------------------------------------------------------
(* The boot.                                                               *)

\* The worker is up: the gate is asked for the first time.
ProviderReady ==
  /\ boot = "starting" /\ Room(1)
  /\ boot' = "provider"
  /\ asks' = getState(asks, "boot", worker)
  /\ UNCHANGED <<worker, missed, url, gate, banner, dismissed, settings, timer, edits, flows, rash>>

\* The directory is on the screen, with its full rows, and the boot calls route.
AppShown ==
  /\ boot = "provider" /\ Room(1)
  /\ boot' = "app"
  /\ route(gate, asks, url)
  /\ UNCHANGED <<worker, missed, gate, banner, dismissed, timer, edits, rash>>

\* bindFolderPushBanner: one look at the banner, 1.5 seconds after the script has started.
BannerTimer ==
  /\ timer /\ Room(1)
  /\ timer' = FALSE
  /\ LookAtBanner(asks, worker)
  /\ Note(IF boot = "app" THEN {} ELSE {"early"})
  /\ UNCHANGED <<worker, missed, boot, url, gate, dismissed, settings, edits, flows>>

-----------------------------------------------------------------------------
(* Answers.                                                                *)

\* updatePrivateDataGate; at the boot a member found locked out leaves the groups' pages.
GateArrives(a) ==
  LET g == [enabled |-> a.seen = "private-folder", resolved |-> TRUE] IN
  /\ Kind(a.for) = "gate"
  /\ gate' = g
  /\ IF a.for = "boot" /\ redirects(g, url)
       THEN route(g, asks \ {a}, url)
       ELSE asks' = asks \ {a} /\ UNCHANGED <<url, settings, flows>>
  /\ Note(Crossed(a))
  /\ UNCHANGED <<worker, missed, boot, banner, dismissed, timer, edits>>

\* The nag first counts the rows at stake.
CountRows(a) == (asks \ {a}) \cup {[a EXCEPT !.for = "count", !.seen = Stranded(worker)]}

dismissal_first(a) ==
  IF dismissed \/ a.seen # "browser-only" THEN banner' = "hidden" /\ asks' = asks \ {a}
  ELSE asks' = CountRows(a) /\ UNCHANGED banner

banner_is_badge(a) ==
  IF a.seen = "browser-only" THEN asks' = CountRows(a) /\ UNCHANGED banner
  ELSE asks' = asks \ {a} /\ banner' = a.seen

\* refreshFolderPushBanner: a write that failed is told whatever was dismissed.
decide(a) ==
  CASE a.seen = "write-failed" -> banner' = "write-failed" /\ asks' = asks \ {a}
    [] a.seen # "write-failed" /\ (dismissed \/ a.seen # "browser-only") ->
         banner' = "hidden" /\ asks' = asks \ {a}
    [] OTHER -> asks' = CountRows(a) /\ UNCHANGED banner

BannerArrives(a) ==
  /\ a.for = "banner"
  /\ decide(a)
  /\ Note(Crossed(a))
  /\ UNCHANGED <<worker, missed, boot, url, gate, dismissed, settings, timer, edits, flows>>

\* The nag is painted whatever has become of the folder or the dismissal by now.
CountArrives(a) ==
  /\ a.for = "count"
  /\ asks' = asks \ {a}
  /\ banner' = a.seen
  /\ Note(Crossed(a))
  /\ UNCHANGED <<worker, missed, boot, url, gate, dismissed, settings, timer, edits, flows>>

\* renderState, which ends in a look at the banner.
renderState(a) ==
  /\ a.for \in {"badge", "orphan"}
  /\ settings' = IF a.for = "badge" THEN a.seen ELSE settings
  /\ LookAtBanner(asks \ {a}, worker)
  /\ Note(IF a.for = "badge" THEN Crossed(a) ELSE {})
  /\ UNCHANGED <<worker, missed, boot, url, gate, dismissed, timer, edits, flows>>

\* A question that is not answered locks the gate, hides the banner, and leaves the badge as it is.
AskFails(a) ==
  /\ asks' = asks \ {a}
  /\ gate' = IF Kind(a.for) = "gate" THEN [gate EXCEPT !.enabled = FALSE] ELSE gate
  /\ banner' = CASE a.for = "banner" -> "hidden"
                 [] a.for = "count"  -> "browser-only"
                 [] OTHER -> banner
  /\ Note({"astray"})
  /\ UNCHANGED <<worker, missed, boot, url, dismissed, settings, timer, edits, flows>>

-----------------------------------------------------------------------------
(* The member's edits.                                                     *)

\* A write reaches the folder, or does not; without a folder there is nothing to reach.
Landed(w, rows) ==
  IF Unlocked(w) THEN {[w EXCEPT !.rows = rows, !.err = FALSE],
                       [w EXCEPT !.rows = rows, !.err = TRUE]}
  ELSE {[w EXCEPT !.rows = rows]}

\* What a write changes and the banner, or the badge on the screen, is not told of.
Quiet(w)  == IF w.err # worker.err \/ (~w.attached /\ w.rows # worker.rows) THEN {"quiet"} ELSE {}
Behind(w) == IF settings # "none" /\ Badge(w) # Badge(worker) THEN {"behind"} ELSE {}

\* refuseIfBrowseOnly, and the worker's own guard behind it.
refuseIfBrowseOnly == gate.enabled /\ Unlocked(worker)

\* Settings are saved in Settings, or with the filter box; groups anywhere else.
SendEdit(e) ==
  /\ boot = "app" /\ refuseIfBrowseOnly
  /\ Cardinality(edits) < MaxEdits
  /\ e = "group" => url # "settings"
  /\ edits' = edits \cup {e}
  /\ UNCHANGED <<worker, missed, boot, url, gate, banner, dismissed, settings, timer, asks, flows, rash>>

\* afterFolderMutation: only the writes of groups look at the folder again, and only when they succeed.
afterFolderMutation(kind, w) ==
  IF kind = "group" THEN asks' = getState(getState(asks, "banner", w), "gate", w)
  ELSE UNCHANGED asks

EditAnswers(e) ==
  /\ Room(2)
  /\ edits' = edits \ {e}
  /\ \E r \in IF e = "group" THEN BOOLEAN ELSE {worker.rows} : \E w \in Landed(worker, r) :
       /\ worker' = w
       /\ missed' = IF Unlocked(worker) THEN w.err ELSE missed
       /\ afterFolderMutation(e, w)
       /\ Note(Behind(w) \cup (IF e = "setting" THEN Quiet(w) ELSE {}))
  /\ UNCHANGED <<boot, url, gate, banner, dismissed, settings, timer, flows>>

-----------------------------------------------------------------------------
(* The flows of Settings.                                                  *)

Start(f, at) ==
  /\ boot = "app" /\ f \notin Running /\ Cardinality(Running) < MaxFlows
  /\ flows' = [flows EXCEPT ![f].at = at]

\* A flow of a Settings page that was left and opened again ends on the page that was left.
Unseen(f) == Note(IF flows[f].gone /\ settings # "none" THEN {"behind"} ELSE {})

gate_forgotten(f, w) ==
  /\ worker' = w
  /\ flows' = [flows EXCEPT ![f] = Idle]
  /\ asks' = getState(asks, IF flows[f].gone THEN "orphan" ELSE "badge", w)
  /\ Unseen(f)

\* Every flow ends, well or not, with a look at the gate and the badge.
FlowEnds(f, w) ==
  /\ worker' = w
  /\ flows' = [flows EXCEPT ![f] = Idle]
  /\ asks' = getState(getState(asks, "gate", w), IF flows[f].gone THEN "orphan" ELSE "badge", w)
  /\ Unseen(f)

\* "Choose folder", shown once the badge has been.
pickParentFolder ==
  /\ settings \in Badges
  /\ Start("pick", "picking")
  /\ UNCHANGED <<worker, missed, boot, url, gate, banner, dismissed, settings, timer, asks, edits, rash>>

\* The picker or the chooser is dismissed, or the folder fails its probe.
PickFails ==
  /\ flows["pick"].at = "picking" /\ Room(2)
  /\ FlowEnds("pick", worker)
  /\ UNCHANGED <<missed, boot, url, gate, banner, dismissed, settings, timer, edits>>

\* askChooser, when the folder has stores already, and probeHandle: the store is attached, and then
\* written, or read if it is one of those there.
ProbeAnswers ==
  /\ flows["pick"].at = "picking"
  /\ worker' = [worker EXCEPT !.attached = TRUE, !.granted = TRUE, !.err = FALSE]
  /\ \E at \in {"saving", "loading"} : flows' = [flows EXCEPT !["pick"].at = at]
  /\ UNCHANGED <<missed, boot, url, gate, banner, dismissed, settings, timer, asks, edits, rash>>

writeNow ==
  /\ flows["pick"].at = "saving" /\ Room(2)
  /\ \E w \in {worker, [worker EXCEPT !.err = FALSE], [worker EXCEPT !.err = TRUE]} :
       FlowEnds("pick", w) /\ missed' = w.err
  /\ UNCHANGED <<boot, url, gate, banner, dismissed, settings, timer, edits>>

\* The data of the store replace the member's own; or the store cannot be read.
readNow ==
  /\ flows["pick"].at = "loading" /\ Room(2)
  /\ \E w \in {worker, [worker EXCEPT !.err = TRUE]}
              \cup {[worker EXCEPT !.rows = r, !.err = FALSE] : r \in BOOLEAN} :
       FlowEnds("pick", w) /\ missed' = w.err
  /\ UNCHANGED <<boot, url, gate, banner, dismissed, settings, timer, edits>>

\* "Lock my private data", shown with a folder: the worker forgets it.
clearHandle ==
  /\ settings \in Badges \ {"browser-only"}
  /\ worker' = [worker EXCEPT !.attached = FALSE, !.granted = FALSE, !.err = FALSE]
  /\ missed' = FALSE
  /\ Start("lock", "locking")
  /\ Note(IF \/ flows["restore"].at = "importing" \/ flows["pick"].at \in {"saving", "loading"}
             \/ edits # {}
            THEN {"raced"} ELSE {})
  /\ UNCHANGED <<boot, url, gate, banner, dismissed, settings, timer, asks, edits>>

Locked ==
  /\ flows["lock"].at = "locking" /\ Room(2)
  /\ FlowEnds("lock", worker)
  /\ UNCHANGED <<missed, boot, url, gate, banner, dismissed, settings, timer, edits>>

\* "Reconnect your folder", shown when its permission has lapsed.
reconnect ==
  /\ settings = "inaccessible"
  /\ Start("reconnect", "reconnecting")
  /\ UNCHANGED <<worker, missed, boot, url, gate, banner, dismissed, settings, timer, asks, edits, rash>>

Reconnected ==
  /\ flows["reconnect"].at = "reconnecting" /\ Room(2)
  /\ \E g \in {worker.granted, worker.attached} : FlowEnds("reconnect", [worker EXCEPT !.granted = g])
  /\ UNCHANGED <<missed, boot, url, gate, banner, dismissed, settings, timer, edits>>

\* performImport, or a backup of the list, once the member has confirmed the counts.
performImport ==
  /\ settings # "none" /\ refuseIfBrowseOnly
  /\ Start("restore", "importing")
  /\ UNCHANGED <<worker, missed, boot, url, gate, banner, dismissed, settings, timer, asks, edits, rash>>

\* No look at the folder follows it.
Restored ==
  /\ flows["restore"].at = "importing"
  /\ flows' = [flows EXCEPT !["restore"] = Idle]
  /\ \E r \in BOOLEAN : \E w \in Landed(worker, r) :
       /\ worker' = w
       /\ missed' = IF Unlocked(worker) THEN w.err ELSE missed
       /\ Note(Quiet(w) \cup Behind(w))
  /\ UNCHANGED <<boot, url, gate, banner, dismissed, settings, timer, asks, edits>>

-----------------------------------------------------------------------------
(* The member and the browser.                                             *)

GoTo(u) ==
  /\ boot = "app" /\ u # url /\ Room(1)
  /\ route(gate, asks, u)
  /\ Note(IF u = "groups" /\ (Asking("gate") \/ Running \ {"restore"} # {})
            THEN {"hasty"} ELSE {})
  /\ UNCHANGED <<worker, missed, boot, gate, banner, dismissed, timer, edits>>

dismiss_anything ==
  /\ banner # "hidden"
  /\ dismissed' = TRUE /\ banner' = "hidden"
  /\ Note(IF Asking("banner") THEN {"late"} ELSE {})
  /\ UNCHANGED <<worker, missed, boot, url, gate, settings, timer, asks, edits, flows>>

\* "Not now"; the warning has no such button.
Dismiss ==
  /\ banner \in Nags
  /\ dismissed' = TRUE /\ banner' = "hidden"
  /\ Note(IF Asking("banner") THEN {"late"} ELSE {})
  /\ UNCHANGED <<worker, missed, boot, url, gate, settings, timer, asks, edits, flows>>

\* The browser withdraws its permission for the folder.
Lapse ==
  /\ Unlocked(worker)
  /\ worker' = [worker EXCEPT !.granted = FALSE]
  /\ Note({"lapsed"})
  /\ UNCHANGED <<missed, boot, url, gate, banner, dismissed, settings, timer, asks, edits, flows>>

\* A page that has just been loaded, at any URL, on whatever earlier ones have left.
Init ==
  /\ worker \in {w \in Worker : ~w.attached => ~w.granted /\ ~w.err}
  /\ missed = worker.err
  /\ boot = "starting"
  /\ url \in {"directory", "groups", "settings"}
  /\ gate = [enabled |-> FALSE, resolved |-> FALSE]
  /\ banner = "hidden" /\ settings = "none"
  /\ dismissed \in BOOLEAN
  /\ timer = TRUE
  /\ asks = {} /\ edits = {}
  /\ flows = [f \in Flows |-> Idle]
  /\ rash = {}

Arrives(a) == GateArrives(a) \/ BannerArrives(a) \/ CountArrives(a) \/ renderState(a)

Next ==
  \/ ProviderReady \/ AppShown \/ BannerTimer
  \/ \E a \in asks : Arrives(a) \/ AskFails(a)
  \/ \E e \in edits : EditAnswers(e)
  \/ \E e \in Edit : SendEdit(e)
  \/ pickParentFolder \/ PickFails \/ ProbeAnswers \/ writeNow \/ readNow
  \/ clearHandle \/ Locked \/ reconnect \/ Reconnected \/ performImport \/ Restored
  \/ \E u \in {"directory", "groups", "settings"} : GoTo(u)
  \/ Dismiss \/ Lapse

Spec == Init /\ [][Next]_vars

-----------------------------------------------------------------------------
TypeOK ==
  /\ worker \in Worker /\ missed \in BOOLEAN
  /\ boot \in {"starting", "provider", "app"}
  /\ url \in {"directory", "groups", "settings"}
  /\ gate \in [enabled : BOOLEAN, resolved : BOOLEAN]
  /\ banner \in {"hidden", "write-failed"} \cup Nags
  /\ dismissed \in BOOLEAN /\ timer \in BOOLEAN
  /\ settings \in {"none", "checking"} \cup Badges
  /\ asks \subseteq Ask /\ edits \subseteq Edit
  /\ flows \in [Flows -> Flow]
  /\ rash \subseteq {"lapsed", "astray", "early", "hasty", "quiet", "behind", "late", "raced"}

Without(s) == rash \cap s = {}

Settled == boot = "app" /\ ~timer /\ asks = {} /\ edits = {} /\ Running = {}

\* At rest the page knows the folder: private data is offered exactly to the member with a reachable
\* one, nobody else is on the pages of the groups, and the badge of Settings is the folder's.
PageKnowsTheFolder ==
  Settled /\ Without({"lapsed", "astray"}) =>
    /\ gate.resolved /\ gate.enabled = Unlocked(worker)
    /\ url = "groups" /\ Without({"hasty"}) => gate.enabled
    /\ settings \in Badges /\ Without({"behind"}) => settings = Badge(worker)

\* A member with a folder is never sent from the groups to Settings, not even by a slow boot.
FolderUserKeepsTheirPage ==
  [][url' = "settings" /\ (GoTo("groups") \/ (url # "settings" /\ ~GoTo("settings"))) =>
       ~Unlocked(worker) \/ rash' \cap {"hasty", "astray"} # {}]_vars

\* At rest the banner tells of a write that did not reach the folder, on whatever page, and nags only
\* a member without a folder about the data that are there.
BannerIsTrue ==
  Settled /\ Without({"astray"}) =>
    /\ Badge(worker) = "write-failed" /\ Without({"early", "quiet"}) => banner = "write-failed"
    /\ banner \in Nags /\ Without({"late", "raced"}) =>
         ~worker.attached /\ ~dismissed /\ (banner = "migrate" <=> worker.rows)

\* What the warning of a failed write waits for: no later write or read of the folder has ended
\* without a failure on record, the folder can be reached, and no pick is about to write or read it.
MustWarn == missed /\ Unlocked(worker) /\ flows["pick"].at \notin {"saving", "loading"}

\* The warning on the screen is not dismissed, nor painted over by a nag or an old answer, before a
\* later write or read of the folder has ended well, unless a look at the folder is still to come.
\* It does go, with nothing saved, when the permission lapses, with Lock and with a new pick's probe.
WarningStays ==
  [][banner = "write-failed" /\ banner' # banner =>
       \/ ~MustWarn
       \/ \E a \in asks' : a.fresh /\ a.for \in {"banner", "badge", "orphan"}
       \/ rash' \cap {"quiet", "astray"} # {}]_vars

=============================================================================
