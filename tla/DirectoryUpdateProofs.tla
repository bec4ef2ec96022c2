----------------------- MODULE DirectoryUpdateProofs -----------------------
(***************************************************************************)
(* Theorems about DirectoryUpdate.                                         *)
(*                                                                         *)
(* Typed is the inductive form of TypeOK: bytes that are on their way are  *)
(* bytes, and an open directory is one.  With one flow at a time,          *)
(* OneAtWork ties what the flow holds to the staging slot, which is what   *)
(* two flows break, and accounts for everybody the groups lose: counted by *)
(* the preview, or added too late for it.  MetaFollows ties the recorded   *)
(* SHA to the slot at every step, as long as the meta file can be written  *)
(* and no reload falls between the two.                                    *)
(***************************************************************************)
EXTENDS DirectoryUpdate, TLAPS

Typed ==
  /\ TypeOK
  /\ \A o \in Flows : pc[o] \in {"arriving", "digest"} => frame[o].bytes # None
  /\ boot \in {"arriving", "meta"} => incoming # None
  /\ open => live # None

LEMMA InitTyped == Init => Typed
<1> SUFFICES ASSUME Init PROVE Typed
  OBVIOUS
<1>1. NoFrame \in Frame
  BY DEF NoFrame, Frame, Maybe
<1>. QED
  BY <1>1 DEF Init, Typed, TypeOK, Maybe, Pcs, BootPcs, NoFrame

(* Ending a flow keeps the types of what End assigns.                      *)
LEMMA EndTyped ==
  ASSUME TypeOK, NEW o \in Flows, End(o)
  PROVE  /\ pc' \in [Flows -> Pcs] /\ frame' \in [Flows -> Frame]
         /\ pc' = [pc EXCEPT ![o] = "idle"]
         /\ \A p \in Flows : p # o => frame'[p] = frame[p]
<1>1. NoFrame \in Frame
  BY DEF NoFrame, Frame, Maybe
<1>. QED
  BY <1>1 DEF TypeOK, End, Goto, Pcs

LEMMA BootTyped == ASSUME Typed, BootStep PROVE Typed'
<1> USE DEF Typed, TypeOK, Maybe, BootPcs, slots, start, others
<1>1. CASE BootOpen
  BY <1>1 DEF BootOpen
<1>2. CASE InstallServed
  BY <1>2, VersionsAssumption DEF InstallServed
<1>3. CASE InstallFails
  BY <1>3 DEF InstallFails
<1>4. CASE InstallImports
  BY <1>4 DEF InstallImports
<1>5. CASE InstallRecorded
  BY <1>5 DEF InstallRecorded
<1>. QED
  BY <1>1, <1>2, <1>3, <1>4, <1>5 DEF BootStep

LEMMA FlowTyped == ASSUME Typed, NEW o \in Flows, FlowStep(o) PROVE Typed'
<1> USE DEF Typed, slots, start, others
<1> TypeOK
  OBVIOUS
<1>1. CASE Served(o)
  BY <1>1, VersionsAssumption DEF Served, TypeOK, Goto, Maybe, Pcs, Frame
<1>2. CASE FetchFails(o)
  <2>1. End(o)
    BY <1>2 DEF FetchFails
  <2>. QED
    BY <2>1, <1>2, EndTyped DEF FetchFails, TypeOK
<1>3. CASE Staged(o)
  BY <1>3 DEF Staged, TypeOK, Goto, Maybe, Pcs, Frame
<1>4. CASE StagingFails(o)
  <2>1. End(o)
    BY <1>4 DEF StagingFails
  <2>. QED
    BY <2>1, <1>4, EndTyped DEF StagingFails, TypeOK, Maybe
<1>5. CASE Digested(o)
  <2>1. PICK read \in {frame[o].bytes, staging} \ {None} : Counted(o, read)
    BY <1>5 DEF Digested
  <2>2. Affected(read) \in SUBSET Fellows /\ queued \in SUBSET Fellows
    BY DEF Affected, TypeOK
  <2>3. frame' \in [Flows -> Frame] /\ \A p \in Flows : frame'[p].bytes = frame[p].bytes
    BY <2>1, <2>2 DEF Counted, TypeOK, Frame
  <2>4. /\ pc' \in [Flows -> Pcs]
        /\ \A p \in Flows : pc'[p] \in {"arriving", "digest"} => pc[p] \in {"arriving", "digest"}
    BY <2>1 DEF Counted, Goto, TypeOK, Pcs
  <2>5. pending' \in Pending
    BY <1>5 DEF Digested, Pending, TypeOK, Frame, Maybe
  <2>. QED
    BY <1>5, <2>3, <2>4, <2>5 DEF Digested, TypeOK, Maybe
<1>12. CASE Offer(o)
  <2>1. /\ pc' \in [Flows -> Pcs]
        /\ \A p \in Flows : pc'[p] \in {"arriving", "digest"} => pc[p] \in {"arriving", "digest"}
    BY <1>12 DEF Offer, TypeOK, Pcs
  <2>. QED
    BY <1>12, <2>1 DEF Offer, TypeOK
<1>6. CASE DigestedTooLate(o)
  <2>1. End(o)
    BY <1>6 DEF DigestedTooLate
  <2>. QED
    BY <2>1, <1>6, EndTyped DEF DigestedTooLate, TypeOK, Maybe
<1>7. CASE ApplyRefused(o)
  <2>1. End(o)
    BY <1>7 DEF ApplyRefused
  <2>. QED
    BY <2>1, <1>7, EndTyped DEF ApplyRefused, TypeOK
<1>8. CASE ApplyFindsNothing(o)
  <2>1. End(o)
    BY <1>8 DEF ApplyFindsNothing
  <2>. QED
    BY <2>1, <1>8, EndTyped DEF ApplyFindsNothing, DropSwap, TypeOK, Maybe
<1>9. CASE Apply(o)
  <2>1. pending.sha \in Versions
    BY <1>9 DEF Apply, Mine, TypeOK, Maybe, Pending
  <2>2. frame' \in [Flows -> Frame] /\ \A p \in Flows : p # o => frame'[p] = frame[p]
    BY <1>9, <2>1 DEF Apply, TypeOK, Frame, Maybe
  <2>. QED
    BY <1>9, <2>2 DEF Apply, TypeOK, Goto, Pcs, Maybe
<1>10. CASE ApplyFails(o)
  <2>1. End(o)
    BY <1>10 DEF ApplyFails
  <2>. QED
    BY <2>1, <1>10, EndTyped DEF ApplyFails, TypeOK, Maybe
<1>11. CASE MetaWritten(o)
  <2>1. End(o)
    BY <1>11 DEF MetaWritten
  <2>2. frame[o].bytes \in Maybe(Versions)
    BY DEF TypeOK, Frame
  <2>. QED
    BY <2>1, <2>2, <1>11, EndTyped DEF MetaWritten, TypeOK, Maybe
<1>. QED
  BY <1>1, <1>2, <1>3, <1>4, <1>5, <1>6, <1>7, <1>8, <1>9, <1>10, <1>11, <1>12 DEF FlowStep

LEMMA MemberTyped == ASSUME Typed, NEW o \in Flows, MemberStep(o) PROVE Typed'
<1> USE DEF Typed, slots, start, others
<1> TypeOK
  OBVIOUS
<1>1. CASE StartUpdate(o)
  <2>1. pc' \in [Flows -> Pcs] /\ clicks' \in Nat
    BY <1>1 DEF StartUpdate, TypeOK, Goto, Pcs
  <2>2. \A p \in Flows : pc'[p] \in {"arriving", "digest"} => pc[p] \in {"arriving", "digest"}
    BY <1>1 DEF StartUpdate, TypeOK, Goto
  <2>3. CASE DropSwap
    BY <1>1, <2>1, <2>2, <2>3 DEF StartUpdate, DropSwap, TypeOK, Maybe
  <2>4. CASE UNCHANGED slots
    BY <1>1, <2>1, <2>2, <2>4 DEF StartUpdate, TypeOK
  <2>. QED
    BY <1>1, <2>3, <2>4 DEF StartUpdate
<1>2. CASE Confirm(o)
  BY <1>2 DEF Confirm, TypeOK, Goto, Pcs
<1>3. CASE Cancel(o)
  <2>1. End(o)
    BY <1>3 DEF Cancel
  <2>. QED
    BY <2>1, <1>3, EndTyped DEF Cancel, DropSwap, TypeOK, Maybe
<1>. QED
  BY <1>1, <1>2, <1>3 DEF MemberStep

LEMMA NextTyped == ASSUME Typed, [Next]_vars PROVE Typed'
<1>1. CASE BootStep
  BY <1>1, BootTyped
<1>2. CASE \E o \in Flows : FlowStep(o) \/ MemberStep(o)
  BY <1>2, FlowTyped, MemberTyped
<1>3. CASE Publish
  BY <1>3 DEF Publish, Typed, TypeOK, slots, start
<1>4. CASE GroupEdit
  <2>1. live \in Versions
    BY <1>4 DEF GroupEdit, Typed, TypeOK, Maybe
  <2>2. PICK f \in Fellows :
          /\ queued' = queued \cup {f}
          /\ frame' = [o \in Flows |->
                         IF pc[o] \in {"answer", "apply"}
                         THEN [frame[o] EXCEPT !.owed = @ \cup {f}] ELSE frame[o]]
    BY <1>4, <2>1, VersionsAssumption DEF GroupEdit
  <2>3. queued' \in SUBSET Fellows
    BY <2>2 DEF Typed, TypeOK
  <2>4. frame' \in [Flows -> Frame] /\ \A p \in Flows : frame'[p].bytes = frame[p].bytes
    BY <2>2 DEF Typed, TypeOK, Frame
  <2>. QED
    BY <1>4, <2>3, <2>4 DEF GroupEdit, Typed, TypeOK, slots, start
<1>7. CASE EditSettles
  BY <1>7 DEF EditSettles, Typed, TypeOK, slots, start
<1>5. CASE Reload
  <2>1. NoFrame \in Frame
    BY DEF NoFrame, Frame, Maybe
  <2>2. /\ pc' \in [Flows -> Pcs] /\ frame' \in [Flows -> Frame]
        /\ \A o \in Flows : pc'[o] = "idle"
    BY <1>5, <2>1 DEF Reload, Pcs
  <2>3. boots' \in Nat
    BY <1>5 DEF Reload, Typed, TypeOK
  <2>4. open' \in BOOLEAN /\ ~open'
    BY <1>5 DEF Reload
  <2>5. TypeOK'
    BY <1>5, <2>2, <2>3, <2>4 DEF Reload, Typed, TypeOK, BootPcs, Maybe, others
  <2>. QED
    BY <1>5, <2>2, <2>4, <2>5 DEF Reload, Typed
<1>6. CASE UNCHANGED vars
  BY <1>6 DEF vars, Typed, TypeOK
<1>. QED
  BY <1>1, <1>2, <1>3, <1>4, <1>5, <1>6, <1>7 DEF Next

LEMMA AlwaysTyped == Spec => []Typed
BY InitTyped, NextTyped, PTL DEF Spec

(* Type correctness, for any number of flows, versions and fellows and     *)
(* every fault: in particular a pending swap always names a version the    *)
(* worker received (pendingFellowsDbSwap, sqlite-worker.js).               *)
THEOREM TypeCorrect == Spec => []TypeOK
<1>1. Typed => TypeOK
  BY DEF Typed
<1>. QED
  BY <1>1, AlwaysTyped, PTL

(* While the disk has room, nothing a flow meets leaves the member without *)
(* a directory (applyFellowsDbSwap), however many flows cross.             *)
THEOREM DirectoryIsKept == "disk" \notin Faults => (Spec => DirectoryKept)
<1> SUFFICES ASSUME "disk" \notin Faults PROVE Spec => DirectoryKept
  OBVIOUS
<1> DEFINE Kept == boot = "up" /\ boot' = "up" /\ open => open' /\ live' # None
<1>1. ASSUME Typed, Next PROVE Kept
  <2>1. CASE BootStep
    BY <2>1 DEF BootStep, BootOpen, InstallServed, InstallFails, InstallImports, InstallRecorded
  <2>2. CASE \E o \in Flows : FlowStep(o)
    BY <1>1, <2>2 DEF FlowStep, Served, FetchFails, Staged, StagingFails, Digested,
      DigestedTooLate, Offer, ApplyRefused, ApplyFindsNothing, Apply, ApplyFails, MetaWritten,
      DropSwap, slots, Typed
  <2>3. CASE \E o \in Flows : MemberStep(o)
    BY <1>1, <2>3 DEF MemberStep, StartUpdate, Confirm, Cancel, DropSwap, slots, Typed
  <2>4. CASE Publish \/ GroupEdit \/ EditSettles
    BY <1>1, <2>4 DEF Publish, GroupEdit, EditSettles, slots, Typed
  <2>5. CASE Reload
    BY <2>5 DEF Reload
  <2>. QED
    BY <1>1, <2>1, <2>2, <2>3, <2>4, <2>5 DEF Next
<1>2. ASSUME Typed, [Next]_vars PROVE [Kept]_vars
  BY <1>1, <1>2
<1>. QED
  BY <1>2, AlwaysTyped, PTL DEF Spec, DirectoryKept

(***************************************************************************)
(* One flow at a time.                                                     *)
(***************************************************************************)
OneFlow == \A o, p \in Flows : o = p

(* The bytes a flow previewed stay in the staging slot until it is over,   *)
(* and from the count on everybody the groups would lose is accounted for. *)
Accounted(o) == FellowsOf[frame[o].bytes] \cup frame[o].affected \cup frame[o].owed

OneAtWork ==
  \A o \in Flows :
    /\ pc[o] # "idle" => boot = "up"
    /\ pc[o] \in {"fetch", "arriving", "digest"} => open
    /\ pc[o] \in {"digest", "answer", "offer", "apply"} => staging = frame[o].bytes
    /\ pc[o] \in {"answer", "offer", "apply"} =>
         /\ pending # None => pending.sha = frame[o].bytes
         /\ grouped \subseteq Accounted(o)
         /\ queued \subseteq frame[o].owed

LEMMA InitOneAtWork == Init => OneAtWork
BY DEF Init, OneAtWork

LEMMA NextOneAtWork ==
  ASSUME OneFlow, Typed, OneAtWork, [Next]_vars
  PROVE  OneAtWork'
<1> TypeOK
  BY DEF Typed
<1> SUFFICES ASSUME NEW o \in Flows, Flows = {o}
             PROVE  OneAtWork'
  BY DEF OneFlow, OneAtWork
<1>0. pc \in [{o} -> Pcs] /\ frame \in [{o} -> Frame]
  BY DEF TypeOK
<1>1. CASE BootStep
  <2>1. pc[o] = "idle" \/ boot = "up"
    BY DEF OneAtWork
  <2>2. UNCHANGED pc /\ boot # "up"
    BY <1>1 DEF BootStep, BootOpen, InstallServed, InstallFails, InstallImports,
      InstallRecorded
  <2>. QED
    BY <2>1, <2>2 DEF OneAtWork
<1>2. CASE FlowStep(o)
  <2>1. CASE Served(o)
    BY <1>0, <2>1 DEF Served, Goto, OneAtWork, slots, start, others
  <2>2. CASE FetchFails(o) \/ StagingFails(o) \/ DigestedTooLate(o) \/ ApplyRefused(o)
             \/ ApplyFindsNothing(o) \/ ApplyFails(o) \/ MetaWritten(o)
    <3>1. pc' = [pc EXCEPT ![o] = "idle"] /\ UNCHANGED boot
      BY <2>2 DEF FetchFails, StagingFails, DigestedTooLate, ApplyRefused,
        ApplyFindsNothing, ApplyFails, MetaWritten, End, Goto, start
    <3>. QED
      BY <1>0, <3>1 DEF OneAtWork
  <2>3. CASE Staged(o)
    BY <1>0, <2>3 DEF Staged, Goto, OneAtWork, start, others
  <2>4. CASE Digested(o)
    <3>1. frame[o].bytes # None /\ staging = frame[o].bytes /\ boot = "up" /\ open
      BY <2>4 DEF Digested, OneAtWork, Typed
    <3> DEFINE v == frame[o].bytes
    <3>2. /\ Counted(o, v)
          /\ pending' = [flow |-> o, sha |-> v]
          /\ UNCHANGED <<staging, boot, open, grouped, queued>>
      BY <2>4, <3>1 DEF Digested, start, others
    <3>3. frame'[o].bytes = v /\ frame'[o].affected = Affected(v) /\ frame'[o].owed = queued
      BY <1>0, <3>2 DEF Counted, Frame
    <3>4. pc'[o] = "answer"
      BY <1>0, <3>2 DEF Counted, Goto
    <3>5. grouped \subseteq FellowsOf[v] \cup Affected(v)
      BY <3>1 DEF Affected
    <3>6. grouped' \subseteq Accounted(o)' /\ queued' \subseteq frame'[o].owed
      BY <3>2, <3>3, <3>5 DEF Accounted
    <3>. QED
      BY <3>1, <3>2, <3>3, <3>4, <3>6 DEF OneAtWork
  <2>5. CASE Apply(o)
    BY <1>0, <2>5 DEF Apply, Goto, OneAtWork, start, others
  <2>6. CASE Offer(o)
    <3>1. pc[o] = "answer" /\ pc'[o] \in {"offer", "apply"}
      BY <1>0, <2>6 DEF Offer
    <3>. QED
      BY <2>6, <3>1 DEF Offer, OneAtWork, Accounted, slots, start, others
  <2>. QED
    BY <1>2, <2>1, <2>2, <2>3, <2>4, <2>5, <2>6 DEF FlowStep
<1>3. CASE MemberStep(o)
  <2>1. CASE StartUpdate(o)
    BY <1>0, <2>1 DEF StartUpdate, DropSwap, Goto, OneAtWork, slots, start, others
  <2>2. CASE Confirm(o)
    <3>1. pc[o] = "offer" /\ pc'[o] = "apply"
      BY <1>0, <2>2 DEF Confirm, Goto
    <3>. QED
      BY <2>2, <3>1 DEF Confirm, OneAtWork, Accounted, slots, start, others
  <2>3. CASE Cancel(o)
    BY <1>0, <2>3 DEF Cancel, End, Goto, OneAtWork, start, others
  <2>. QED
    BY <1>3, <2>1, <2>2, <2>3 DEF MemberStep
<1>4. CASE Publish
  BY <1>4 DEF Publish, OneAtWork, Accounted, slots, start
<1>5. CASE GroupEdit
  <2>1. PICK f : /\ queued' = queued \cup {f}
                 /\ frame' = [p \in Flows |->
                                IF pc[p] \in {"answer", "apply"}
                                THEN [frame[p] EXCEPT !.owed = @ \cup {f}] ELSE frame[p]]
    BY <1>5 DEF GroupEdit
  <2>2. pc[o] # "offer" /\ UNCHANGED <<slots, start, pc, grouped>>
    BY <1>5 DEF GroupEdit
  <2>3. CASE pc[o] \in {"answer", "apply"}
    <3>1. /\ frame'[o].bytes = frame[o].bytes /\ frame'[o].affected = frame[o].affected
          /\ frame'[o].owed = frame[o].owed \cup {f}
      BY <1>0, <2>1, <2>3 DEF Frame
    <3>2. grouped' \subseteq Accounted(o)' /\ queued' \subseteq frame'[o].owed
      BY <2>1, <2>2, <2>3, <3>1 DEF OneAtWork, Accounted
    <3>. QED
      BY <2>2, <2>3, <3>1, <3>2 DEF OneAtWork, slots, start
  <2>4. CASE pc[o] \notin {"answer", "offer", "apply"}
    <3>1. frame'[o] = frame[o]
      BY <2>1, <2>4
    <3>. QED
      BY <2>2, <2>4, <3>1 DEF OneAtWork, slots, start
  <2>. QED
    BY <2>2, <2>3, <2>4
<1>6. CASE Reload
  BY <1>6 DEF Reload, OneAtWork
<1>7. CASE UNCHANGED vars
  BY <1>7 DEF vars, OneAtWork, Accounted
<1>8. CASE EditSettles
  <2>1. PICK f \in queued : queued' = queued \ {f} /\ grouped' \subseteq grouped \cup {f}
    BY <1>8 DEF EditSettles
  <2>2. UNCHANGED <<slots, start, pc, frame>>
    BY <1>8 DEF EditSettles
  <2>3. pc[o] \in {"answer", "offer", "apply"} =>
          grouped' \subseteq Accounted(o) /\ queued' \subseteq frame[o].owed
    BY <2>1 DEF OneAtWork, Accounted
  <2>. QED
    BY <2>2, <2>3 DEF OneAtWork, Accounted, slots, start
<1>. QED
  BY <1>1, <1>2, <1>3, <1>4, <1>5, <1>6, <1>7, <1>8 DEF Next

LEMMA AlwaysOneAtWork == OneFlow => (Spec => [](Typed /\ OneAtWork))
<1> SUFFICES ASSUME OneFlow PROVE Spec => [](Typed /\ OneAtWork)
  OBVIOUS
<1>1. Init => Typed /\ OneAtWork
  BY InitTyped, InitOneAtWork
<1>2. Typed /\ OneAtWork /\ [Next]_vars => (Typed /\ OneAtWork)'
  BY NextTyped, NextOneAtWork
<1>. QED
  BY <1>1, <1>2, PTL DEF Spec

(* With one flow at a time, whatever the server publishes meanwhile,       *)
(* whatever fails and whenever the member's edits come through, the        *)
(* directory is replaced only by the version that was previewed, and       *)
(* everybody the groups lose was announced, or added by an edit that came  *)
(* too late for the count (previewFellowsDbSwap, applyFellowsDbSwap).      *)
THEOREM SwapIsAsConfirmed == OneFlow => (Spec => AppliedAsConfirmed)
<1> SUFFICES ASSUME OneFlow PROVE Spec => AppliedAsConfirmed
  OBVIOUS
<1> DEFINE AsConfirmed ==
      boot = "up" /\ live' # live /\ live' # None =>
        \E o \in Flows :
          /\ pc[o] = "apply"
          /\ live' = frame[o].bytes
          /\ grouped \ FellowsOf[live'] \subseteq frame[o].affected \cup frame[o].owed
<1>1. ASSUME Typed, OneAtWork, Next PROVE AsConfirmed
  <2>1. CASE BootStep
    BY <2>1 DEF BootStep, BootOpen, InstallServed, InstallFails, InstallImports, InstallRecorded
  <2>2. ASSUME NEW o \in Flows, FlowStep(o) PROVE AsConfirmed
    <3>1. CASE Apply(o)
      <4>1. pc[o] = "apply" /\ live' = frame[o].bytes
        BY <1>1, <3>1 DEF Apply, OneAtWork
      <4>. QED
        BY <1>1, <4>1 DEF OneAtWork, Accounted
    <3>2. CASE ApplyFails(o)
      BY <3>2 DEF ApplyFails
    <3>. QED
      BY <2>2, <3>1, <3>2 DEF FlowStep, Served, FetchFails, Staged, StagingFails, Digested,
        DigestedTooLate, Offer, ApplyRefused, ApplyFindsNothing, MetaWritten, DropSwap, slots
  <2>3. CASE \E o \in Flows : MemberStep(o)
    BY <2>3 DEF MemberStep, StartUpdate, Confirm, Cancel, DropSwap, slots
  <2>4. CASE Publish \/ GroupEdit \/ EditSettles \/ Reload
    BY <2>4 DEF Publish, GroupEdit, EditSettles, Reload, slots
  <2>. QED
    BY <1>1, <2>1, <2>2, <2>3, <2>4 DEF Next
<1>2. ASSUME Typed, OneAtWork, [Next]_vars PROVE [AsConfirmed]_vars
  BY <1>1, <1>2
<1>. QED
  BY <1>2, AlwaysOneAtWork, PTL DEF Spec, AppliedAsConfirmed

(***************************************************************************)
(* The recorded SHA.                                                       *)
(***************************************************************************)
MetaFollows ==
  /\ boot \in {"down", "fetch", "arriving"} => ~open /\ live = None
  /\ boot = "meta" => incoming = live
  /\ \A o \in Flows : pc[o] = "meta" => frame[o].bytes = live
  /\ boot = "up" /\ open /\ (\A o \in Flows : pc[o] # "meta") => meta = live

LEMMA NextMetaFollows ==
  ASSUME OneFlow, "meta" \notin Faults, "reload" \notin Faults,
         Typed, OneAtWork, MetaFollows, [Next]_vars
  PROVE  MetaFollows'
<1> TypeOK
  BY DEF Typed
<1>1. CASE BootStep
  <2>1. \A o \in Flows : pc[o] # "meta"
    <3>1. boot # "up"
      BY <1>1 DEF BootStep, BootOpen, InstallServed, InstallFails, InstallImports,
        InstallRecorded
    <3>. QED
      BY <3>1 DEF OneAtWork
  <2>2. UNCHANGED pc
    BY <1>1 DEF BootStep, BootOpen, InstallServed, InstallFails, InstallImports,
      InstallRecorded, others
  <2>3. CASE BootOpen
    <3>1. UNCHANGED live /\ live = None
      BY <2>3 DEF BootOpen, MetaFollows
    <3>2. ~open'
      BY <2>3, <3>1 DEF BootOpen
    <3>3. boot' = "fetch"
      BY <2>3, <3>2 DEF BootOpen
    <3>. QED
      BY <2>1, <2>2, <3>1, <3>2, <3>3 DEF MetaFollows
  <2>4. CASE InstallServed \/ InstallFails
    BY <2>1, <2>2, <2>4 DEF InstallServed, InstallFails, MetaFollows, slots
  <2>5. CASE InstallImports
    BY <2>1, <2>2, <2>5 DEF InstallImports, MetaFollows
  <2>6. CASE InstallRecorded
    BY <2>1, <2>2, <2>6 DEF InstallRecorded, MetaFollows
  <2>. QED
    BY <1>1, <2>3, <2>4, <2>5, <2>6 DEF BootStep
<1>2. ASSUME NEW o \in Flows, FlowStep(o) PROVE MetaFollows'
  <2>0. boot = "up" /\ boot' = "up"
    BY <1>2 DEF FlowStep, Served, FetchFails, Staged, StagingFails, Digested,
      DigestedTooLate, Offer, ApplyRefused, ApplyFindsNothing, Apply, ApplyFails, MetaWritten,
      OneAtWork, start
  <2>1. Flows = {o}
    BY DEF OneFlow
  <2>2. CASE Apply(o)
    <3>1. live' = frame'[o].bytes
      BY <2>2 DEF Apply, Mine, OneAtWork, TypeOK
    <3>2. pc'[o] = "meta"
      BY <2>2 DEF Apply, Goto, TypeOK
    <3>. QED
      BY <2>0, <2>1, <3>1, <3>2 DEF MetaFollows
  <2>3. CASE MetaWritten(o)
    BY <2>0, <2>1, <2>3 DEF MetaWritten, End, Goto, MetaFollows, TypeOK
  <2>4. CASE ApplyFails(o)
    BY <2>0, <2>1, <2>4 DEF ApplyFails, End, Goto, MetaFollows, TypeOK
  <2>5. ASSUME ~Apply(o), ~MetaWritten(o), ~ApplyFails(o)
        PROVE  UNCHANGED <<live, open, meta>> /\ pc[o] # "meta" /\ pc'[o] # "meta"
    BY <1>2, <2>5 DEF FlowStep, Served, FetchFails, Staged, StagingFails, Digested, Counted,
      DigestedTooLate, ApplyRefused, ApplyFindsNothing, End, Goto, Offer, DropSwap,
      slots, TypeOK
  <2>. QED
    BY <2>0, <2>1, <2>2, <2>3, <2>4, <2>5 DEF MetaFollows
<1>3. ASSUME NEW o \in Flows, MemberStep(o) PROVE MetaFollows'
  <2>1. Flows = {o}
    BY DEF OneFlow
  <2>2. /\ UNCHANGED <<live, open, meta, boot, incoming>>
        /\ pc[o] # "meta" /\ pc'[o] # "meta"
    BY <1>3 DEF MemberStep, StartUpdate, Confirm, Cancel, End, Goto, DropSwap, slots,
      start, TypeOK
  <2>. QED
    BY <2>1, <2>2 DEF MetaFollows
<1>4. CASE Publish \/ GroupEdit \/ EditSettles
  <2>1. UNCHANGED <<live, open, meta, boot, incoming, pc>>
    BY <1>4 DEF Publish, GroupEdit, EditSettles, slots, start
  <2>2. \A o \in Flows : pc[o] = "meta" => frame'[o] = frame[o]
    BY <1>4 DEF Publish, GroupEdit, EditSettles
  <2>. QED
    BY <2>1, <2>2 DEF MetaFollows
<1>5. CASE Reload
  BY <1>5 DEF Reload
<1>6. CASE UNCHANGED vars
  BY <1>6 DEF vars, MetaFollows
<1>. QED
  BY <1>1, <1>2, <1>3, <1>4, <1>5, <1>6 DEF Next

(* With one flow at a time, a meta file that can be written and no reload, *)
(* the check for updates tells the truth whenever nothing is under way,    *)
(* whatever the server published meanwhile: the digest is of the bytes     *)
(* received, not of what the server announced (compareFellowsDbSha).       *)
THEOREM CheckIsTrue ==
  OneFlow /\ "meta" \notin Faults /\ "reload" \notin Faults => (Spec => []CheckIsHonest)
<1> SUFFICES ASSUME OneFlow, "meta" \notin Faults, "reload" \notin Faults
             PROVE  Spec => []CheckIsHonest
  OBVIOUS
<1>1. Init => MetaFollows
  BY DEF Init, MetaFollows
<1>2. Typed /\ OneAtWork /\ MetaFollows /\ [Next]_vars => MetaFollows'
  BY NextMetaFollows
<1>3. Typed /\ MetaFollows => CheckIsHonest
  BY DEF Typed, MetaFollows, CheckIsHonest, Quiet, UpdateAvailable, CheckResult
<1>. QED
  BY <1>1, <1>2, <1>3, AlwaysOneAtWork, PTL DEF Spec
=============================================================================
