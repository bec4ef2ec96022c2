-------------------------- MODULE DirectoryUpdate --------------------------
(***************************************************************************)
(* The directory data of the app: fellows.db in an OPFS slot of the        *)
(* worker, installed once at the first start and replaced afterwards only  *)
(* when the member asks for it on the About page.  Translated from         *)
(* app/static/vendor/sqlite-worker.js (the handlers) and app/static/app.js *)
(* (handleUpdateDirectoryDataClick).                                       *)
(*                                                                         *)
(* A flow is one click on 'Update directory data': preview, then a dialog  *)
(* when groups lose members, then apply or cancel.  The button is drawn    *)
(* anew whenever the About page is, so a second flow may start while the   *)
(* first one waits.  An action is a stretch of a handler between two       *)
(* awaits.  A directory database is known by its version: equal versions   *)
(* have equal SHAs.                                                        *)
(***************************************************************************)
EXTENDS Integers, FiniteSets

CONSTANTS
  Flows,       \* clicks that may be under way at once
  Versions,    \* the databases the server publishes over time
  Fellows,
  FellowsOf,   \* the fellows in each version
  Faults,      \* what the environment may do (FaultKinds below)
  MaxDeploys,  \* bound: how often the server publishes another version
  MaxClicks,   \* bound: how many flows are started
  MaxBoots,    \* bound: how often the page is reloaded or dies
  None

FaultKinds == {"fetch", "invalid", "open", "meta", "disk", "reload"}

ASSUME FaultsAssumption == Faults \subseteq FaultKinds
ASSUME BoundsAssumption == MaxDeploys \in Nat /\ MaxClicks \in Nat /\ MaxBoots \in Nat
ASSUME VersionsAssumption ==
  /\ Versions # {}
  /\ None \notin Versions
  /\ FellowsOf \in [Versions -> SUBSET Fellows]

VARIABLES
  published,  \* what GET /fellows.db returns now
  live,       \* slot '/fellows.db'
  open,       \* fellowsDb is open on it
  staging,    \* slot '/fellows.db.swap-staging'
  meta,       \* the sha in fellows.db.meta.json
  pending,    \* pendingFellowsDbSwap: whose preview it is, and its sha
  boot,       \* where the start and its ensureFellowsDb are
  incoming,   \* the bytes ensureFellowsDb received
  pc, frame,  \* the flows
  grouped,    \* fellows who are members of the member's groups
  queued,     \* those whose addition to one is on its way through the worker
  deploys, clicks, boots

vars == <<published, live, open, staging, meta, pending, boot, incoming, pc, frame,
          grouped, queued, deploys, clicks, boots>>

slots  == <<live, open, staging, meta, pending>>
start  == <<boot, incoming, boots>>
others == <<published, grouped, queued, deploys>>

Maybe(S) == S \cup {None}

(* What a flow holds; `owed', which only the properties read, is whom the  *)
(* member added after the preview had counted, or before but too late.     *)
Frame   == [bytes : Maybe(Versions), affected : SUBSET Fellows, owed : SUBSET Fellows]
NoFrame == [bytes |-> None, affected |-> {}, owed |-> {}]

Pending == [flow : Flows, sha : Versions]

Pcs == {"idle", "fetch", "arriving", "digest", "answer", "offer", "displaced", "apply", "meta"}
BootPcs == {"down", "fetch", "arriving", "meta", "up"}

(* compareFellowsDbSha: without a recorded SHA there is never an update.   *)
UpdateAvailable == open /\ meta # None /\ meta # published

(* checkForDirectoryDataUpdate, once the server and the worker have        *)
(* answered: what the About page says, and whether it has the button.      *)
CheckResult ==
  IF ~open THEN "no-local-data"
  ELSE IF UpdateAvailable THEN "update-available" ELSE "up-to-date"

Goto(o, p) == pc' = [pc EXCEPT ![o] = p]

End(o) ==
  /\ Goto(o, "idle")
  /\ frame' = [frame EXCEPT ![o] = NoFrame]

(* The pending swap is dropped and the staging slot unlinked.              *)
DropSwap ==
  /\ pending' = None
  /\ staging' = None
  /\ UNCHANGED <<live, open, meta>>

(***************************************************************************)
(* The start.  init opens the slot if it is there; then the page, once it  *)
(* is to show the directory, calls ensureFellowsDb in install-only mode.   *)
(***************************************************************************)
BootOpen ==
  /\ boot = "down"
  /\ \/ open' = (live # None)
     \/ "open" \in Faults /\ open' = FALSE
  /\ boot' = IF open' THEN "up" ELSE "fetch"
  /\ UNCHANGED <<live, staging, meta, pending, incoming, boots, pc, frame, others, clicks>>

InstallServed ==
  /\ boot = "fetch"
  /\ boot' = "arriving"
  /\ incoming' = published
  /\ UNCHANGED <<slots, boots, pc, frame, others, clicks>>

(* The failure goes into the meta file, which keeps its SHA.               *)
InstallFails ==
  /\ \/ boot = "fetch" /\ "fetch" \in Faults
     \/ boot = "arriving" /\ "invalid" \in Faults
  /\ boot' = "up"
  /\ incoming' = None
  /\ UNCHANGED <<slots, boots, pc, frame, others, clicks>>

InstallImports ==
  /\ boot = "arriving"
  /\ \/ live' = incoming /\ open' = TRUE /\ boot' = "meta"
     \/ "disk" \in Faults /\ live' = None /\ open' = FALSE /\ boot' = "up"
  /\ UNCHANGED <<staging, meta, pending, incoming, boots, pc, frame, others, clicks>>

InstallRecorded ==
  /\ boot = "meta"
  /\ \/ meta' = incoming
     \/ "meta" \in Faults /\ UNCHANGED meta
  /\ boot' = "up"
  /\ incoming' = None
  /\ UNCHANGED <<live, open, staging, pending, boots, pc, frame, others, clicks>>

(***************************************************************************)
(* previewFellowsDbSwap.  The button outlives the check that showed it, so *)
(* a flow may start whatever a check would say now.                        *)
(***************************************************************************)
StartUpdate(o) ==
  /\ boot = "up"
  /\ open
  /\ pc[o] = "idle"
  /\ clicks < MaxClicks
  /\ clicks' = clicks + 1
  /\ Goto(o, "fetch")
  /\ IF pending # None THEN DropSwap ELSE UNCHANGED slots
  /\ UNCHANGED <<start, frame, others>>

(* The answer is the version published when the server makes it.           *)
Served(o) ==
  /\ pc[o] = "fetch"
  /\ Goto(o, "arriving")
  /\ frame' = [frame EXCEPT ![o].bytes = published]
  /\ UNCHANGED <<slots, start, others, clicks>>

FetchFails(o) ==
  /\ pc[o] = "fetch"
  /\ "fetch" \in Faults
  /\ End(o)
  /\ UNCHANGED <<slots, start, others, clicks>>

(* The bytes go into the staging slot and pass quick_check; then the       *)
(* handler awaits their digest.                                            *)
Staged(o) ==
  /\ pc[o] = "arriving"
  /\ staging' = frame[o].bytes
  /\ Goto(o, "digest")
  /\ UNCHANGED <<live, open, meta, pending, start, frame, others, clicks>>

StagingFails(o) ==
  /\ pc[o] = "arriving"
  /\ "invalid" \in Faults
  /\ staging' = None
  /\ End(o)
  /\ UNCHANGED <<live, open, meta, pending, start, others, clicks>>

AffectedOfLive(version) ==    \* mutant of Affected: the members lost already
  IF open THEN grouped \ FellowsOf[live] ELSE {}

(* The groups' members that the database read by the preview lacks; none   *)
(* when there is no live directory to take their names from.               *)
Affected(version) == IF open THEN grouped \ FellowsOf[version] ELSE {}

Counted(o, version) ==
  /\ frame' = [frame EXCEPT ![o].affected = Affected(version), ![o].owed = queued]
  /\ Goto(o, "answer")

(* Mutant of Digested: the digest is of the slot, not of the bytes.        *)
DigestedFromSlot(o) ==
  /\ pc[o] = "digest"
  /\ Counted(o, frame[o].bytes)
  /\ pending' = [flow |-> o, sha |-> staging]
  /\ UNCHANGED <<live, open, staging, meta, start, others, clicks>>

(* The handle opened on the staging slot is read after the await.  If the  *)
(* slot was rewritten or unlinked meanwhile, SQLite may serve its cache,   *)
(* read the new bytes, or fail.                                            *)
Digested(o) ==
  /\ pc[o] = "digest"
  /\ \E read \in {frame[o].bytes, staging} \ {None} : Counted(o, read)
  /\ pending' = [flow |-> o, sha |-> frame[o].bytes]
  /\ UNCHANGED <<live, open, staging, meta, start, others, clicks>>

DigestedTooLate(o) ==
  /\ pc[o] = "digest"
  /\ staging # frame[o].bytes
  /\ staging' = None
  /\ End(o)
  /\ UNCHANGED <<live, open, meta, pending, start, others, clicks>>

(***************************************************************************)
(* The answer reaches the page: it applies at once when no group loses     *)
(* anybody, and asks the member otherwise.  A dialog for one flow takes    *)
(* the place of another's, whose buttons are gone while its listener for   *)
(* Escape stays.  Then applyFellowsDbSwap or cancelFellowsDbSwap.          *)
(***************************************************************************)
Offer(o) ==
  LET asks == frame[o].affected # {}
  IN  /\ pc[o] = "answer"
      /\ pc' = [p \in Flows |->
                  IF p = o THEN (IF asks THEN "offer" ELSE "apply")
                  ELSE IF asks /\ pc[p] = "offer" THEN "displaced" ELSE pc[p]]
      /\ UNCHANGED <<slots, start, frame, others, clicks>>

Confirm(o) ==
  /\ pc[o] = "offer"
  /\ Goto(o, "apply")
  /\ UNCHANGED <<slots, start, frame, others, clicks>>

(* A cancel drops whatever swap is pending, its own or another's.          *)
Cancel(o) ==
  /\ pc[o] \in {"offer", "displaced"}
  /\ DropSwap
  /\ End(o)
  /\ UNCHANGED <<start, others, clicks>>

Mine(o) == pending # None /\ pending.flow = o

ApplyRefused(o) ==
  /\ pc[o] = "apply"
  /\ ~Mine(o)
  /\ End(o)
  /\ UNCHANGED <<slots, start, others, clicks>>

(* Mutant of ApplyFindsNothing: the live handle is closed too early.       *)
ApplyClosesFirst(o) ==
  /\ pc[o] = "apply"
  /\ Mine(o)
  /\ staging = None
  /\ pending' = None
  /\ open' = FALSE
  /\ End(o)
  /\ UNCHANGED <<live, staging, meta, start, others, clicks>>

ApplyFindsNothing(o) ==
  /\ pc[o] = "apply"
  /\ Mine(o)
  /\ staging = None
  /\ DropSwap
  /\ End(o)
  /\ UNCHANGED <<start, others, clicks>>

(* The live handle is closed, the staged bytes written over the slot, and  *)
(* the handle opened again; then the handler awaits the meta file.         *)
Apply(o) ==
  /\ pc[o] = "apply"
  /\ Mine(o)
  /\ staging # None
  /\ live' = staging
  /\ open' = TRUE
  /\ Goto(o, "meta")
  /\ frame' = [frame EXCEPT ![o].bytes = pending.sha]
  /\ UNCHANGED <<staging, meta, pending, start, others, clicks>>

(* A write that comes out short unlinks the slot and throws; the handle is *)
(* closed by then.                                                         *)
ApplyFails(o) ==
  /\ pc[o] = "apply"
  /\ Mine(o)
  /\ staging # None
  /\ "disk" \in Faults
  /\ live' = None
  /\ open' = FALSE
  /\ End(o)
  /\ UNCHANGED <<staging, meta, pending, start, others, clicks>>

MetaFromServer(o) ==    \* mutant of MetaWritten: the SHA the server reports
  /\ pc[o] = "meta"
  /\ meta' = published
  /\ pending' = None
  /\ staging' = None
  /\ End(o)
  /\ UNCHANGED <<live, open, start, others, clicks>>

MetaStuck(o) ==    \* mutant of MetaWritten: a failed meta write is tried again
  /\ pc[o] = "meta"
  /\ "meta" \notin Faults
  /\ meta' = frame[o].bytes
  /\ pending' = None
  /\ staging' = None
  /\ End(o)
  /\ UNCHANGED <<live, open, start, others, clicks>>

MetaWritten(o) ==
  /\ pc[o] = "meta"
  /\ \/ meta' = frame[o].bytes
     \/ "meta" \in Faults /\ UNCHANGED meta
  /\ pending' = None
  /\ staging' = None
  /\ End(o)
  /\ UNCHANGED <<live, open, start, others, clicks>>

(***************************************************************************)
(* The environment: a deploy, an edit of the groups, a reload or a death   *)
(* of the page.                                                            *)
(***************************************************************************)
Publish ==
  /\ deploys < MaxDeploys
  /\ deploys' = deploys + 1
  /\ published' \in Versions \ {published}
  /\ UNCHANGED <<slots, start, pc, frame, grouped, queued, clicks>>

(* The member puts a fellow of the directory into a group, which the modal *)
(* dialog prevents while it is open.                                       *)
GroupEdit ==
  /\ boot = "up"
  /\ open
  /\ \A o \in Flows : pc[o] # "offer"
  /\ \E f \in FellowsOf[live] :
       /\ queued' = queued \cup {f}
       /\ frame' = [o \in Flows |->
                      IF pc[o] \in {"answer", "apply"}
                      THEN [frame[o] EXCEPT !.owed = @ \cup {f}] ELSE frame[o]]
  /\ UNCHANGED <<slots, start, pc, published, grouped, deploys, clicks>>

(* Its handler resumes from its permission guard, whatever a flow does     *)
(* meanwhile, and commits or refuses.                                      *)
EditSettles ==
  /\ \E f \in queued :
       /\ queued' = queued \ {f}
       /\ grouped' = grouped \cup {f} \/ UNCHANGED grouped
  /\ UNCHANGED <<slots, start, pc, frame, published, deploys, clicks>>

Reload ==
  /\ "reload" \in Faults
  /\ boot # "down"
  /\ boots < MaxBoots
  /\ boots' = boots + 1
  /\ boot' = "down"
  /\ incoming' = None
  /\ open' = FALSE
  /\ pending' = None
  /\ pc' = [o \in Flows |-> "idle"]
  /\ frame' = [o \in Flows |-> NoFrame]
  /\ queued' = {}
  /\ UNCHANGED <<live, staging, meta, published, grouped, deploys, clicks>>

Init ==
  /\ published \in Versions
  /\ live = None /\ open = FALSE /\ staging = None /\ meta = None
  /\ pending = None
  /\ boot = "down" /\ incoming = None
  /\ pc = [o \in Flows |-> "idle"]
  /\ frame = [o \in Flows |-> NoFrame]
  /\ grouped = {} /\ queued = {}
  /\ deploys = 0 /\ clicks = 0 /\ boots = 0

BootStep == BootOpen \/ InstallServed \/ InstallFails \/ InstallImports \/ InstallRecorded

(* What the worker and the server owe a flow, and what the member may do.  *)
FlowStep(o) ==
  \/ Served(o) \/ FetchFails(o) \/ Staged(o) \/ StagingFails(o)
  \/ Digested(o) \/ DigestedTooLate(o) \/ Offer(o)
  \/ ApplyRefused(o) \/ ApplyFindsNothing(o) \/ Apply(o) \/ ApplyFails(o)
  \/ MetaWritten(o)

MemberStep(o) == StartUpdate(o) \/ Confirm(o) \/ Cancel(o)

Next ==
  \/ BootStep
  \/ \E o \in Flows : FlowStep(o) \/ MemberStep(o)
  \/ Publish
  \/ GroupEdit
  \/ EditSettles
  \/ Reload

Spec == Init /\ [][Next]_vars

(* The worker resumes its handlers and the network answers or fails.       *)
Fairness == WF_vars(BootStep) /\ \A o \in Flows : WF_vars(FlowStep(o))

FairSpec == Spec /\ Fairness

(***************************************************************************)
(* Properties.                                                             *)
(***************************************************************************)

(* Every variable has its type: in particular a pending swap always names  *)
(* a version that was received.                                            *)
TypeOK ==
  /\ published \in Versions
  /\ live \in Maybe(Versions) /\ staging \in Maybe(Versions)
  /\ meta \in Maybe(Versions) /\ incoming \in Maybe(Versions)
  /\ open \in BOOLEAN
  /\ pending \in Maybe(Pending)
  /\ boot \in BootPcs
  /\ pc \in [Flows -> Pcs]
  /\ frame \in [Flows -> Frame]
  /\ grouped \in SUBSET Fellows /\ queued \in SUBSET Fellows
  /\ deploys \in Nat /\ clicks \in Nat /\ boots \in Nat

(* Once the app is up, the directory is replaced only by the version whose *)
(* preview a flow made.  Whoever the groups lose by it was announced by    *)
(* that preview, but for those the member added too late to be counted: by *)
(* an edit not yet committed when the worker counted, or made outside the  *)
(* dialog since.  Those the swap takes without a word.                     *)
AppliedAsConfirmed ==
  [][boot = "up" /\ live' # live /\ live' # None =>
       \E o \in Flows :
         /\ pc[o] = "apply"
         /\ live' = frame[o].bytes
         /\ grouped \ FellowsOf[live'] \subseteq frame[o].affected \cup frame[o].owed]_vars

(* Whatever a flow meets (a failed download, invalid bytes, another flow's *)
(* cancel, a staging slot that is gone), the member still has a directory. *)
DirectoryKept == [][boot = "up" /\ boot' = "up" /\ open => open' /\ live' # None]_vars

Quiet == boot = "up" /\ \A o \in Flows : pc[o] = "idle"

(* When nothing is under way, the About page offers an update exactly when *)
(* the directory is not what the server publishes now, whatever it         *)
(* published while the directory was fetched.                              *)
CheckIsHonest ==
  Quiet /\ CheckResult # "no-local-data" =>
    (CheckResult = "update-available" <=> live # published)

(* Every flow comes to an end or to the member's decision, and every start *)
(* ends, whatever fails and however flows cross.                           *)
EveryFlowEnds ==
  /\ \A o \in Flows : pc[o] \in {"fetch", "arriving", "digest", "answer", "apply", "meta"}
                        ~> pc[o] \in {"idle", "offer", "displaced"}
  /\ boot # "up" ~> boot = "up"

=============================================================================
