-------------------------- MODULE ShellCacheProofs --------------------------
(***************************************************************************)
(* Theorems about ShellCache.                                              *)
(*                                                                         *)
(* Typed is the inductive form of TypeOK.  Sound is inductive under every  *)
(* failure and every deploy: the caches are in a line, one install is      *)
(* under way beside the active worker, what it has cached is what its      *)
(* manifest lists, and an active worker whose cache no page has taken has  *)
(* it whole, the cache-first files of one build, and no write under way to *)
(* one of those.                                                           *)
(*                                                                         *)
(* Forwards is inductive while no older build is put back: a build comes   *)
(* to a server with nothing of it on the device.  Alone (while deletions   *)
(* succeed) and Climbs (while no older build is put back) say that an      *)
(* install writes to no cache that is older than the active worker's.      *)
(***************************************************************************)
EXTENDS ShellCache, TLAPS

Typed ==
  /\ TypeOK
  /\ phase # "none" => label \in Builds
  /\ phase \in {"signature", "files"} => manifest \in Builds
  /\ puts # {} => active \in Builds

LEMMA BlobsOfBuilds == \A b \in Builds, f \in Paths : ContentOf[b][f] \in Blobs
  BY DEF Blobs

LEMMA PrunedTyped ==
  ASSUME TypeOK, NEW c, PrunedBut(c)
  PROVE  /\ cache' \in [Builds -> [Paths -> Maybe(Blobs)]]
         /\ caches' \in SUBSET Builds
         /\ before' \in [Builds -> SUBSET Builds]
         /\ failures' \in Nat
<1>1. ASSUME NEW kept \in SUBSET caches, Pruned(kept)
      PROVE  /\ cache' \in [Builds -> [Paths -> Maybe(Blobs)]]
             /\ caches' \in SUBSET Builds
             /\ before' \in [Builds -> SUBSET Builds]
  BY <1>1 DEF TypeOK, Pruned, Empty, Maybe
<1>2. caches \cap {c} \in SUBSET caches
  OBVIOUS
<1>3. failures' \in Nat
  BY DEF PrunedBut, Fault, TypeOK
<1>. QED
  BY <1>1, <1>2, <1>3 DEF PrunedBut

LEMMA OpenedTyped ==
  ASSUME TypeOK, NEW c \in Builds, Opened(c)
  PROVE  caches' \in SUBSET Builds /\ before' \in [Builds -> SUBSET Builds]
  BY DEF TypeOK, Opened

LEMMA InstallTyped == ASSUME Typed, InstallStep PROVE Typed'
<1> TypeOK
  BY DEF Typed
<1> USE DEF Typed, Maybe, Phases, storage
<1>1. CASE StartInstall
  BY <1>1 DEF StartInstall, TypeOK
<1>2. CASE ManifestFetched
  BY <1>2 DEF ManifestFetched, TypeOK
<1>3. CASE SignatureVerified
  <2>1. label \in Builds
    BY <1>3 DEF SignatureVerified
  <2>2. caches' \in SUBSET Builds /\ before' \in [Builds -> SUBSET Builds]
    BY <1>3, <2>1, OpenedTyped DEF SignatureVerified
  <2>. QED
    BY <1>3, <2>2 DEF SignatureVerified, TypeOK
<1>4. ASSUME NEW f \in Files, FilePrecached(f) PROVE Typed'
  <2>1. ContentOf[deployed][f] \in Blobs /\ f \in Paths
    BY BlobsOfBuilds DEF TypeOK, Paths
  <2>. QED
    BY <1>4, <2>1 DEF FilePrecached, Entered, TypeOK
<1>5. CASE InstallFails
  BY <1>5 DEF InstallFails, Finish, Fault, TypeOK
<1>6. CASE Activate
  <2>1. label \in Builds
    BY <1>6 DEF Activate
  <2>2. /\ cache' \in [Builds -> [Paths -> Maybe(Blobs)]]
        /\ caches' \in SUBSET Builds
        /\ before' \in [Builds -> SUBSET Builds]
        /\ failures' \in Nat
    BY <1>6, PrunedTyped DEF Activate
  <2>. QED
    BY <1>6, <2>1, <2>2 DEF Activate, Finish, TypeOK
<1>. QED
  BY <1>1, <1>2, <1>3, <1>4, <1>5, <1>6 DEF InstallStep

LEMMA FetchTyped == ASSUME Typed, FetchStep PROVE Typed'
<1> TypeOK
  BY DEF Typed
<1> USE DEF Typed, Maybe, storage, installing
<1>1. ASSUME NEW f \in Paths, NetworkFirst(f) \/ CacheMiss(f) PROVE Typed'
  <2>1. [file |-> f, blob |-> ContentOf[deployed][f]] \in Put
    BY BlobsOfBuilds DEF TypeOK, Put
  <2>. QED
    BY <1>1, <2>1 DEF NetworkFirst, CacheMiss, TypeOK
<1>2. ASSUME NEW p \in puts, PutLands(p) PROVE Typed'
  <2> active \in Builds
    OBVIOUS
  <2>1. p.file \in Paths /\ p.blob \in Blobs
    BY DEF TypeOK, Put
  <2>2. CASE Opened(active)
    <3>1. caches' \in SUBSET Builds /\ before' \in [Builds -> SUBSET Builds]
      BY <1>2, <2>2, OpenedTyped
    <3>2. cache' \in [Builds -> [Paths -> Maybe(Blobs)]]
      BY <1>2, <2>1 DEF PutLands, TypeOK
    <3>3. stripped' \in SUBSET Builds /\ failures' \in Nat
      BY <1>2 DEF PutLands, Fault, TypeOK
    <3>4. visited' \in BOOLEAN
      <4>1. visited' = visited \/ visited' = (visited \/ p.file = Start)
        BY <1>2 DEF PutLands
      <4>2. visited \in BOOLEAN
        BY DEF TypeOK
      <4>. QED
        BY <4>1, <4>2, Zenon
    <3>. QED
      BY <1>2, <3>1, <3>2, <3>3, <3>4 DEF PutLands, TypeOK
  <2>3. CASE UNCHANGED storage
    BY <1>2, <2>3 DEF PutLands, Fault, TypeOK
  <2>. QED
    BY <1>2, <2>2, <2>3 DEF PutLands
<1>. QED
  BY <1>1, <1>2 DEF FetchStep

LEMMA NextTyped == Typed /\ [Next]_vars => Typed'
<1> SUFFICES ASSUME Typed, [Next]_vars PROVE Typed'
  OBVIOUS
<1> TypeOK
  BY DEF Typed
<1>1. CASE PageStarts
  BY <1>1 DEF PageStarts, Typed, TypeOK, Maybe, storage, installing
<1>2. CASE auditShellCaches
  <2>1. /\ cache' \in [Builds -> [Paths -> Maybe(Blobs)]]
        /\ caches' \in SUBSET Builds
        /\ before' \in [Builds -> SUBSET Builds]
        /\ failures' \in Nat
    BY <1>2, PrunedTyped DEF auditShellCaches
  <2>2. stripped' \in SUBSET Builds
    BY <1>2 DEF auditShellCaches, TypeOK
  <2>. QED
    BY <1>2, <2>1, <2>2 DEF auditShellCaches, Typed, TypeOK, Maybe, installing
<1>3. CASE Deploy
  BY <1>3 DEF Deploy, Fault, Typed, TypeOK, storage, installing
<1>4. CASE UNCHANGED vars
  BY <1>4 DEF vars, Typed, TypeOK
<1>. QED
  BY <1>1, <1>2, <1>3, <1>4, InstallTyped, FetchTyped DEF Next, PageStep

LEMMA AlwaysTyped == Spec => []Typed
<1>1. Init => Typed
  <2> SUFFICES ASSUME Init PROVE Typed
    OBVIOUS
  <2>1. cache \in [Builds -> [Paths -> Maybe(Blobs)]]
    BY DEF Init, Maybe, Empty
  <2>. QED
    BY <2>1, BuildsAssumption DEF Init, Typed, TypeOK, Maybe, Phases
<1>. QED
  BY <1>1, NextTyped, PTL DEF Spec

(* Every variable has its type, for any builds, files and faults: a worker *)
(* that installs has a label, so nothing is cached without one (sw.js,     *)
(* install listener).                                                      *)
THEOREM TypeCorrect == Spec => []TypeOK
<1>1. Typed => TypeOK
  BY DEF Typed
<1>. QED
  BY <1>1, AlwaysTyped, PTL

(***************************************************************************)
(* The order of the caches.  caches.match asks the oldest one first; the   *)
(* order is a line, and every set of caches has an oldest one.             *)
(***************************************************************************)
Ordered ==
  /\ \A c \in Builds : before[c] \subseteq caches
  /\ \A c, d \in Builds : c \in before[d] => d \notin before[c]

Lined ==
  /\ Ordered
  /\ \A c, d \in caches : c # d => c \in before[d] \/ d \in before[c]
  /\ \A h \in SUBSET caches : h # {} => \E c \in h : before[c] \cap h = {}

LEMMA OpenedKeepsOrder ==
  ASSUME Typed, Ordered, NEW c \in Builds, Opened(c)
  PROVE  /\ Ordered'
         /\ caches' = caches \cup {c}
         /\ \A d \in Builds : d # c \/ c \in caches => before'[d] = before[d]
         /\ c \notin caches => before'[c] = caches
<1>1. /\ caches' = caches \cup {c} /\ caches \subseteq Builds
      /\ before \in [Builds -> SUBSET Builds]
      /\ before' = IF c \in caches THEN before ELSE [before EXCEPT ![c] = caches]
  BY DEF Opened, Typed, TypeOK
<1>2. \A d \in Builds : d # c \/ c \in caches => before'[d] = before[d]
  BY <1>1
<1>3. c \notin caches => before'[c] = caches
  BY <1>1
<1>4. \A d \in Builds : before'[d] \subseteq caches'
  BY <1>1, <1>2, <1>3 DEF Ordered
<1>5. \A d, e \in Builds : d \in before'[e] => e \notin before'[d]
  BY <1>1, <1>2, <1>3 DEF Ordered
<1>. QED
  BY <1>1, <1>2, <1>3, <1>4, <1>5 DEF Ordered

LEMMA PrunedKeepsOrder ==
  ASSUME Typed, Ordered, NEW c, PrunedBut(c)
  PROVE  /\ Ordered'
         /\ caches' \subseteq caches /\ caches \cap {c} \subseteq caches'
         /\ \A d \in Builds : /\ before'[d] \subseteq before[d] \cap caches'
                              /\ d \in caches' => before'[d] = before[d] \cap caches'
                              /\ cache'[d] = IF d \in caches' THEN cache[d] ELSE Empty
<1>1. PICK kept \in SUBSET caches : caches \cap {c} \subseteq kept /\ Pruned(kept)
  BY DEF PrunedBut
<1>2. \A d \in Builds : /\ before'[d] = IF d \in kept THEN before[d] \cap kept ELSE {}
                        /\ cache'[d] = IF d \in kept THEN cache[d] ELSE Empty
  BY <1>1 DEF Pruned
<1>. QED
  BY <1>1, <1>2 DEF Pruned, Ordered

LEMMA OpenedKeepsLine == ASSUME Typed, Lined, NEW c \in Builds, Opened(c) PROVE Lined'
<1>1. /\ Ordered' /\ caches' = caches \cup {c} /\ caches \subseteq Builds
      /\ \A d \in Builds : d # c \/ c \in caches => before'[d] = before[d]
      /\ c \notin caches => before'[c] = caches
  BY OpenedKeepsOrder DEF Lined, Typed, TypeOK
<1>2. \A d, e \in caches' : d # e => d \in before'[e] \/ e \in before'[d]
  BY <1>1 DEF Lined
<1>3. ASSUME NEW h \in SUBSET caches', h # {} PROVE \E d \in h : before'[d] \cap h = {}
  <2>1. CASE h \cap caches # {}
    <3>1. PICK d \in h \cap caches : before[d] \cap (h \cap caches) = {}
      BY <2>1 DEF Lined
    <3>2. d \in Builds /\ before[d] \subseteq caches /\ before'[d] = before[d]
      BY <1>1, <3>1 DEF Lined, Ordered
    <3>. QED
      BY <3>1, <3>2
  <2>2. CASE h \cap caches = {}
    <3>1. h = {c} /\ c \notin caches
      BY <1>1, <1>3, <2>2
    <3>. QED
      BY <1>1, <3>1
  <2>. QED
    BY <2>1, <2>2
<1>. QED
  BY <1>1, <1>2, <1>3 DEF Lined

LEMMA PrunedKeepsLine == ASSUME Typed, Lined, NEW c, PrunedBut(c) PROVE Lined'
<1>1. /\ Ordered' /\ caches' \subseteq caches /\ caches \subseteq Builds
      /\ \A d \in caches' : before'[d] = before[d] \cap caches'
  BY PrunedKeepsOrder DEF Lined, Typed, TypeOK
<1>2. \A d, e \in caches' : d # e => d \in before'[e] \/ e \in before'[d]
  BY <1>1 DEF Lined
<1>3. ASSUME NEW h \in SUBSET caches', h # {} PROVE \E d \in h : before'[d] \cap h = {}
  <2>1. PICK d \in h : before[d] \cap h = {}
    BY <1>1, <1>3 DEF Lined
  <2>. QED
    BY <1>1, <2>1
<1>. QED
  BY <1>1, <1>2, <1>3 DEF Lined

\* A file is answered from one of the caches that have it, and none of these is older.
LEMMA OldestHolds ==
  ASSUME Typed, Lined, NEW f, NEW c \in Holders(f)
  PROVE  \E m \in Holders(f) : /\ Match(f) = cache[m][f]
                               /\ before[m] \cap Holders(f) = {}
                               /\ m = c \/ m \in before[c]
<1>1. Holders(f) \in SUBSET caches /\ Holders(f) # {}
  BY DEF Holders
<1>2. \E m \in Holders(f) : before[m] \cap Holders(f) = {}
  BY <1>1 DEF Lined
<1>3. PICK m \in Holders(f) : /\ before[m] \cap Holders(f) = {}
                              /\ m = CHOOSE d \in Holders(f) : before[d] \cap Holders(f) = {}
  BY <1>2
<1>4. m = c \/ m \in before[c]
  BY <1>1, <1>3 DEF Lined
<1>. QED
  BY <1>1, <1>3, <1>4 DEF Match

(***************************************************************************)
(* Whatever fails and whatever is deployed.                                *)
(***************************************************************************)

(* What the install has cached is what its manifest lists.                 *)
Precached ==
  phase = "files" /\ label \notin stripped =>
    /\ label \in caches
    /\ \A f \in done : cache[label][f] = ContentOf[manifest][f]

(* The active worker's cache is whole, unless a page has taken it.         *)
Whole ==
  Unstripped =>
    /\ active \in caches
    /\ \A f \in Files : cache[active][f] # None
    /\ \E b \in Builds : \A f \in CacheFirst : cache[active][f] = ContentOf[b][f]
    /\ \A p \in puts : p.file \notin CacheFirst

Apart ==
  /\ phase # "none" => label # active
  /\ stripped \subseteq InUse \ {None}

Sound == Lined /\ Apart /\ Precached /\ Whole

LEMMA WholeAnswers ==
  ASSUME Typed, Sound, Unstripped, NEW f \in Files
  PROVE  Match(f) # None
<1>1. active \in Holders(f)
  BY DEF Sound, Whole, Holders
<1>2. PICK m \in Holders(f) : Match(f) = cache[m][f]
  BY <1>1, OldestHolds DEF Sound
<1>. QED
  BY <1>2 DEF Holders

LEMMA InstallSound == ASSUME Typed, Sound, InstallStep PROVE Sound'
<1>0. /\ deployed \in Builds /\ active \in Builds \cup {None} /\ None \notin Builds /\ None \notin Blobs
      /\ phase # "none" => label \in Builds
      /\ phase \in {"signature", "files"} => manifest \in Builds
      /\ cache \in [Builds -> [Paths -> Blobs \cup {None}]]
      /\ caches \subseteq Builds /\ CacheFirst \subseteq Files /\ Files \subseteq Paths
      /\ \A b \in Builds, f \in Paths : ContentOf[b][f] \in Blobs
  BY FilesAssumption, BlobsOfBuilds DEF Paths, Typed, TypeOK, Maybe
<1>1. CASE StartInstall \/ ManifestFetched
  <2>1. /\ UNCHANGED <<active, cache, caches, before, stripped, puts, done>>
        /\ phase # "files" /\ phase' # "files" /\ (phase' # "none" => label' # active')
    BY <1>1 DEF StartInstall, ManifestFetched, storage, Sound, Apart
  <2>2. Apart'
    BY <2>1 DEF Sound, Apart, InUse
  <2>. QED
    BY <2>1, <2>2 DEF Sound, Lined, Ordered, Precached, Whole, Unstripped
<1>2. CASE SignatureVerified
  <2>1. /\ UNCHANGED <<active, label, manifest, cache, stripped, puts>>
        /\ phase = "signature" /\ phase' = "files" /\ done' = {} /\ Opened(label) /\ label \in Builds
    BY <1>0, <1>2 DEF SignatureVerified
  <2>2. Lined' /\ caches' = caches \cup {label}
    BY <2>1, OpenedKeepsLine DEF Sound, Opened
  <2>3. Apart'
    BY <2>1 DEF Sound, Apart, InUse
  <2>. QED
    BY <2>1, <2>2, <2>3 DEF Sound, Precached, Whole, Unstripped
<1>3. ASSUME NEW f \in Files, FilePrecached(f) PROVE Sound'
  <2>1. /\ UNCHANGED <<active, phase, label, manifest, caches, before, stripped, puts>>
        /\ phase = "files" /\ done' = done \cup {f} /\ label \in Builds
        /\ ContentOf[deployed][f] = ContentOf[manifest][f]
        /\ cache' = IF label \in stripped THEN cache
                    ELSE [cache EXCEPT ![label][f] = ContentOf[deployed][f]]
    BY <1>0, <1>3 DEF FilePrecached, Entered
  <2>2. /\ \A c \in Builds \ {label} : cache'[c] = cache[c]
        /\ \A g \in Files : g # f => cache'[label][g] = cache[label][g]
        /\ label \notin stripped => cache'[label][f] = ContentOf[manifest][f]
    BY <1>0, <2>1
  <2>3. Precached'
    BY <2>1, <2>2 DEF Sound, Precached, Typed, TypeOK
  <2>4. Unstripped => cache'[active] = cache[active]
    BY <1>0, <2>1, <2>2 DEF Sound, Apart, Unstripped
  <2>5. Whole'
    BY <2>1, <2>4 DEF Sound, Whole, Unstripped
  <2>. QED
    BY <2>1, <2>3, <2>5 DEF Sound, Lined, Ordered, Apart, InUse
<1>4. CASE InstallFails
  <2>1. /\ UNCHANGED <<active, cache, caches, before, puts>>
        /\ phase # "none" /\ phase' = "none" /\ stripped' = stripped \ {label} /\ label # active
    BY <1>4 DEF InstallFails, Finish, Sound, Apart
  <2>2. Apart'
    BY <2>1 DEF Sound, Apart, InUse
  <2>. QED
    BY <2>1, <2>2 DEF Sound, Lined, Ordered, Precached, Whole, Unstripped
<1>5. CASE Activate
  <2>1. /\ active' = label /\ puts' = {} /\ phase' = "none" /\ stripped' = stripped \cap {label}
        /\ phase = "files" /\ done = Files /\ label \in Builds /\ manifest \in Builds
        /\ PrunedBut(label)
    BY <1>0, <1>5 DEF Activate, Finish
  <2>2. /\ Lined' /\ caches \cap {label} \subseteq caches'
        /\ label \in caches' => cache'[label] = cache[label]
    BY <2>1, PrunedKeepsOrder, PrunedKeepsLine DEF Sound, Lined
  <2>3. Apart'
    BY <1>0, <2>1 DEF Apart, InUse
  <2>4. ASSUME label \notin stripped
        PROVE  label \in caches' /\ \A f \in Files : cache'[label][f] = ContentOf[manifest][f]
    BY <2>1, <2>2, <2>4 DEF Sound, Precached
  <2>5. \A f \in Files : ContentOf[manifest][f] # None
    BY <1>0, <2>1
  <2>6. Whole'
    <3>1. SUFFICES ASSUME label \notin stripped PROVE Whole'
      BY <2>1 DEF Whole, Unstripped
    <3>2. /\ \A f \in Files : cache'[label][f] # None
          /\ \A f \in CacheFirst : cache'[label][f] = ContentOf[manifest][f]
      BY <1>0, <2>4, <2>5, <3>1
    <3>. QED
      BY <2>1, <2>4, <3>1, <3>2 DEF Whole
  <2>. QED
    BY <2>1, <2>2, <2>3, <2>6 DEF Sound, Precached
<1>. QED
  BY <1>1, <1>2, <1>3, <1>4, <1>5 DEF InstallStep

LEMMA FetchSound == ASSUME Typed, Sound, FetchStep PROVE Sound'
<1>0. /\ None \notin Builds /\ None \notin Blobs /\ CacheFirst \subseteq Files /\ Files \subseteq Paths
      /\ cache \in [Builds -> [Paths -> Blobs \cup {None}]]
      /\ phase # "none" => label \in Builds
  BY FilesAssumption DEF Paths, Typed, TypeOK, Maybe
<1>1. ASSUME NEW f \in Paths, NetworkFirst(f) \/ CacheMiss(f) PROVE Sound'
  <2>1. /\ UNCHANGED <<active, phase, label, manifest, done, cache, caches, before, stripped>>
        /\ puts' = puts \cup {[file |-> f, blob |-> ContentOf[deployed][f]]}
    BY <1>1 DEF NetworkFirst, CacheMiss, storage, installing
  <2>2. Unstripped => f \notin CacheFirst
    BY <1>0, <1>1, WholeAnswers DEF NetworkFirst, CacheMiss
  <2>3. Whole'
    BY <2>1, <2>2 DEF Sound, Whole, Unstripped
  <2>. QED
    BY <2>1, <2>3 DEF Sound, Lined, Ordered, Apart, InUse, Precached
<1>2. ASSUME NEW p \in puts, PutLands(p) PROVE Sound'
  <2>1. /\ UNCHANGED <<active, phase, label, manifest, done, stripped>>
        /\ active \in Builds /\ p.file \in Paths /\ p.blob \in Blobs /\ puts' \subseteq puts
    BY <1>2 DEF PutLands, installing, storage, Typed, TypeOK, Put
  <2>2. Apart'
    BY <2>1 DEF Sound, Apart, InUse
  <2>3. CASE UNCHANGED storage
    BY <2>1, <2>2, <2>3 DEF storage, Sound, Lined, Ordered, Precached, Whole, Unstripped
  <2>4. CASE Opened(active) /\ cache' = [cache EXCEPT ![active][p.file] = p.blob]
    <3>1. Lined' /\ caches' = caches \cup {active}
      BY <2>1, <2>4, OpenedKeepsLine DEF Sound, Opened
    <3>2. /\ \A c \in Builds \ {active} : cache'[c] = cache[c]
          /\ \A g \in Paths : cache'[active][g] = IF g = p.file THEN p.blob ELSE cache[active][g]
      BY <1>0, <2>1, <2>4
    <3>3. Precached'
      <4>1. phase = "files" => label \in Builds \ {active}
        BY <1>0 DEF Sound, Apart
      <4>. QED
        BY <2>1, <3>1, <3>2, <4>1 DEF Sound, Precached
    <3>4. Whole'
      <4>1. ASSUME Unstripped
            PROVE  /\ \A g \in Files : cache'[active][g] # None
                   /\ \A g \in CacheFirst : cache'[active][g] = cache[active][g]
        BY <1>0, <2>1, <3>2, <4>1 DEF Sound, Whole
      <4>. QED
        BY <2>1, <3>1, <4>1 DEF Sound, Whole, Unstripped
    <3>. QED
      BY <2>2, <3>1, <3>3, <3>4 DEF Sound
  <2>. QED
    BY <1>2, <2>3, <2>4 DEF PutLands
<1>. QED
  BY <1>1, <1>2 DEF FetchStep

LEMMA OthersSound ==
  ASSUME Typed, Sound, auditShellCaches \/ PageStarts \/ Deploy \/ UNCHANGED vars
  PROVE  Sound'
<1>0. None \notin Builds /\ caches \subseteq Builds
  BY FilesAssumption DEF Typed, TypeOK
<1>1. CASE auditShellCaches
  <2>1. /\ UNCHANGED <<active, phase, label, manifest, done, puts>>
        /\ stripped' = stripped \cup ((caches \ caches') \cap InUse)
    BY <1>1 DEF auditShellCaches, installing
  <2>2. /\ Lined' /\ caches' \subseteq caches
        /\ \A c \in caches' : cache'[c] = cache[c]
    BY <1>0, <1>1, PrunedKeepsOrder, PrunedKeepsLine DEF auditShellCaches, Sound, Lined
  <2>3. Apart'
    BY <1>0, <2>1 DEF Sound, Apart, InUse
  <2>4. Precached'
    BY <2>1, <2>2 DEF Sound, Precached, InUse
  <2>5. Whole'
    BY <2>1, <2>2 DEF Sound, Whole, Unstripped, InUse
  <2>. QED
    BY <2>2, <2>3, <2>4, <2>5 DEF Sound
<1>2. CASE PageStarts \/ Deploy \/ UNCHANGED vars
  <2>1. UNCHANGED <<active, phase, label, manifest, done, cache, caches, before, stripped, puts>>
    BY <1>2 DEF PageStarts, Deploy, vars, storage, installing
  <2>. QED
    BY <2>1 DEF Sound, Lined, Ordered, Apart, InUse, Precached, Whole, Unstripped
<1>. QED
  BY <1>1, <1>2

LEMMA AlwaysSound == Spec => [](Typed /\ Sound)
<1>1. Init => Sound
  BY DEF Init, Sound, Lined, Ordered, Apart, Precached, Whole, Unstripped
<1>2. Typed /\ Sound /\ [Next]_vars => Sound'
  BY InstallSound, FetchSound, OthersSound DEF Next, PageStep
<1>. QED
  BY <1>1, <1>2, AlwaysTyped, PTL DEF Spec

(* The start page stays in the cache of the worker that stored it.         *)
StartKept == visited /\ Unstripped => active \in caches /\ cache[active][Start] # None

LEMMA StartAnswers ==
  ASSUME Typed, Sound, StartKept, visited, Unstripped
  PROVE  Match(Start) # None
<1>1. active \in Holders(Start)
  BY DEF StartKept, Holders
<1>2. PICK m \in Holders(Start) : Match(Start) = cache[m][Start]
  BY <1>1, OldestHolds DEF Sound, Paths
<1>. QED
  BY <1>2 DEF Holders

LEMMA NextKeepsStart == Typed /\ Sound /\ StartKept /\ [Next]_vars => StartKept'
<1> SUFFICES ASSUME Typed, Sound, StartKept, [Next]_vars PROVE StartKept'
  OBVIOUS
<1>0. /\ None \notin Blobs /\ caches \subseteq Builds /\ Start \in Paths
      /\ cache \in [Builds -> [Paths -> Blobs \cup {None}]]
      /\ active \in Builds \cup {None}
  BY FilesAssumption DEF Paths, Typed, TypeOK, Maybe
<1>1. CASE SignatureVerified
  <2>1. UNCHANGED <<active, cache, stripped, visited>> /\ caches \subseteq caches'
    BY <1>1 DEF SignatureVerified, Opened
  <2>. QED
    BY <2>1 DEF StartKept, Unstripped
<1>2. ASSUME NEW f \in Files, FilePrecached(f) PROVE StartKept'
  <2>1. /\ UNCHANGED <<active, caches, stripped, visited>> /\ label # active
        /\ cache' = IF label \in stripped THEN cache
                    ELSE [cache EXCEPT ![label][f] = ContentOf[deployed][f]]
    BY <1>2 DEF FilePrecached, Entered, Sound, Apart
  <2>2. active \in Builds => cache'[active] = cache[active]
    BY <1>0, <2>1
  <2>. QED
    BY <1>0, <2>1, <2>2 DEF StartKept, Unstripped
<1>3. CASE InstallFails
  <2>1. UNCHANGED <<active, cache, caches, visited>> /\ stripped' = stripped \ {label} /\ label # active
    BY <1>3 DEF InstallFails, Sound, Apart
  <2>. QED
    BY <2>1 DEF StartKept, Unstripped
<1>4. CASE Activate
  BY <1>4 DEF Activate, StartKept
<1>5. ASSUME NEW p \in puts, PutLands(p) PROVE StartKept'
  <2>1. UNCHANGED <<active, stripped>> /\ active \in Builds /\ p.file \in Paths /\ p.blob \in Blobs
    BY <1>5 DEF PutLands, installing, storage, Typed, TypeOK, Put
  <2>2. CASE UNCHANGED storage
    BY <2>1, <2>2 DEF storage, StartKept, Unstripped
  <2>3. CASE /\ Opened(active) /\ cache' = [cache EXCEPT ![active][p.file] = p.blob]
             /\ visited' = (visited \/ p.file = Start)
    <3>1. caches' = caches \cup {active}
      BY <2>3 DEF Opened
    <3>2. cache'[active][Start] = IF p.file = Start THEN p.blob ELSE cache[active][Start]
      BY <1>0, <2>1, <2>3
    <3>. QED
      BY <1>0, <2>1, <2>3, <3>1, <3>2 DEF StartKept, Unstripped
  <2>. QED
    BY <1>5, <2>2, <2>3 DEF PutLands
<1>6. CASE auditShellCaches
  <2>1. /\ active' = active /\ stripped' = stripped \cup ((caches \ caches') \cap InUse)
        /\ visited' => visited
    BY <1>6 DEF auditShellCaches
  <2>2. \A c \in caches' : cache'[c] = cache[c]
    BY <1>0, <1>6, PrunedKeepsOrder DEF auditShellCaches, Sound, Lined
  <2>. QED
    BY <2>1, <2>2 DEF StartKept, Unstripped, InUse
<1>7. CASE UNCHANGED <<active, cache, caches, stripped, visited>>
  BY <1>7 DEF StartKept, Unstripped
<1>. QED
  BY <1>1, <1>2, <1>3, <1>4, <1>5, <1>6, <1>7
  DEF Next, InstallStep, StartInstall, ManifestFetched, FetchStep, NetworkFirst, CacheMiss,
      PageStep, PageStarts, Deploy, vars, storage

(* Whatever fails, deletions of caches included, and even when an older    *)
(* build is put back: without a network an active worker answers every     *)
(* file the manifest lists, and from the moment it has stored the start    *)
(* page that one too, unless a page took its cache (sw.js                  *)
(* precacheVerified, networkFirst, activate; app.js auditShellCaches).     *)
THEOREM AppStartsOffline == Spec => []StartsOffline
<1>1. Init => StartKept
  BY DEF Init, StartKept
<1>2. Typed /\ Sound /\ StartKept => StartsOffline
  BY WholeAnswers, StartAnswers DEF StartsOffline
<1>. QED
  BY <1>1, <1>2, NextKeepsStart, AlwaysSound, PTL DEF Spec

(* And unless an older cache could not be deleted, the files answered from *)
(* the cache are of one build (sw.js precacheVerified, cacheFirstInto).    *)
THEOREM CacheIsOneBuild == Spec => []OneBuild
<1>1. Typed /\ Sound => OneBuild
  <2> SUFFICES ASSUME Typed, Sound, NothingOlder, Unstripped
               PROVE  \E b \in Builds : \A f \in CacheFirst : Match(f) = ContentOf[b][f]
    BY DEF OneBuild
  <2>1. PICK b \in Builds : \A f \in CacheFirst : cache[active][f] = ContentOf[b][f]
    BY DEF Sound, Whole
  <2>2. ASSUME NEW f \in CacheFirst PROVE Match(f) = cache[active][f]
    <3>1. active \in Holders(f) /\ f \in Files
      BY FilesAssumption DEF Sound, Whole, Holders
    <3>2. PICK m \in Holders(f) : Match(f) = cache[m][f] /\ (m = active \/ m \in before[active])
      BY <3>1, OldestHolds DEF Sound
    <3>3. m \in caches /\ active \in Builds /\ m \in Builds
      BY <3>1, <3>2 DEF Holders, Typed, TypeOK
    <3>4. m # active => active \in before[m]
      BY <3>3 DEF NothingOlder
    <3>. QED
      BY <3>2, <3>3, <3>4 DEF Sound, Lined, Ordered
  <2>. QED
    BY <2>1, <2>2
<1>. QED
  BY <1>1, AlwaysSound, PTL

(***************************************************************************)
(* While no older build is put back, whatever fails.  A build that is      *)
(* deployed has never been deployed before, so all that its cache holds    *)
(* was fetched from it; and its worker is the last one: nobody makes       *)
(* another cache while it is active, so one that a page takes from it is   *)
(* made again after all others.                                            *)
(***************************************************************************)
Newer ==
  /\ active # None => active <= deployed
  /\ phase # "none" => label <= deployed /\ (active # None => active < label)

Fresh ==
  /\ \A c \in Builds : c > deployed => c \notin caches /\ cache[c] = Empty
  /\ \A f \in Files : cache[deployed][f] \in {None, ContentOf[deployed][f]}
  /\ active = deployed => \A p \in puts : p.blob = ContentOf[deployed][p.file]

Taken ==
  /\ phase = "files" /\ label \in stripped => label \notin caches
  /\ active \in stripped /\ active = deployed => \A c \in Builds : active \notin before[c]

Forwards == Newer /\ Fresh /\ Taken

LEMMA InstallGoesForward ==
  ASSUME Typed, Sound, Forwards, InstallStep
  PROVE  Forwards'
<1>0. /\ deployed \in Builds /\ active \in Builds \cup {None} /\ Builds \subseteq Nat \ {0}
      /\ None \notin Builds /\ None \notin Blobs /\ Files \subseteq Paths
      /\ phase # "none" => label \in Builds
      /\ cache \in [Builds -> [Paths -> Blobs \cup {None}]]
      /\ caches \subseteq Builds
      /\ \A b \in Builds, f \in Paths : ContentOf[b][f] \in Blobs
  BY BuildsAssumption, FilesAssumption, BlobsOfBuilds DEF Paths, Typed, TypeOK, Maybe
<1>1. CASE StartInstall
  <2>1. active # None => active < deployed
    <3>1. active # deployed /\ (active # None => active <= deployed /\ active \in Nat)
      BY <1>0, <1>1 DEF StartInstall, Forwards, Newer
    <3>2. deployed \in Nat
      BY <1>0
    <3>. QED
      BY <3>1, <3>2
  <2>2. Newer'
    BY <1>0, <1>1, <2>1 DEF StartInstall, storage, Forwards, Newer
  <2>. QED
    BY <1>1, <2>2
    DEF StartInstall, storage, Forwards, Fresh, Taken
<1>2. CASE ManifestFetched
  <2>1. Newer'
    BY <1>0, <1>2 DEF ManifestFetched, storage, Forwards, Newer
  <2>. QED
    BY <1>2, <2>1
    DEF ManifestFetched, storage, Forwards, Fresh, Taken
<1>3. CASE SignatureVerified
  <2>1. label \in Builds /\ label <= deployed /\ label # active /\ label \notin stripped
        /\ (active # None => active < label)
    BY <1>0, <1>3 DEF SignatureVerified, Forwards, Newer, Sound, Apart, InUse
  <2>2. /\ caches' = caches \cup {label}
        /\ \A d \in Builds : d # label \/ label \in caches => before'[d] = before[d]
    BY <1>3, <2>1, OpenedKeepsOrder DEF SignatureVerified, Sound, Lined
  <2>3. /\ UNCHANGED <<deployed, active, label, manifest, cache, stripped, page, puts, failures>>
        /\ phase' = "files" /\ done' = {}
    BY <1>3 DEF SignatureVerified
  <2>4. Newer'
    BY <2>1, <2>3 DEF Forwards, Newer
  <2>5. Fresh'
    <3>1. \A c \in Builds : c > deployed => c # label
      BY <1>0, <2>1
    <3>. QED
      BY <2>2, <2>3, <3>1 DEF Forwards, Fresh
  <2>6. Taken'
    <3>1. label \in Nat /\ deployed \in Nat /\ (active = deployed => active < label)
      BY <1>0, <2>1
    <3>2. active # deployed
      BY <2>1, <3>1
    <3>. QED
      BY <2>1, <2>3, <3>2 DEF Taken
  <2>. QED
    BY <2>4, <2>5, <2>6 DEF Forwards
<1>4. ASSUME NEW f \in Files, FilePrecached(f) PROVE Forwards'
  <2>1. label \in Builds /\ label <= deployed /\ label # active /\ (active # None => active < label)
    BY <1>0, <1>4 DEF FilePrecached, Forwards, Newer
  <2>2. /\ UNCHANGED <<deployed, active, phase, label, caches, before, stripped, puts>>
        /\ done' = done \cup {f} /\ phase = "files"
        /\ cache' = IF label \in stripped THEN cache
                    ELSE [cache EXCEPT ![label][f] = ContentOf[deployed][f]]
    BY <1>4 DEF FilePrecached, IsNext, Entered
  <2>3. \A c \in Builds \ {label} : cache'[c] = cache[c]
    BY <1>0, <2>2
  <2>4. \A g \in Files : /\ g # f => cache'[label][g] = cache[label][g]
                         /\ cache'[label][f] \in {cache[label][f], ContentOf[deployed][f]}
                         /\ label \notin stripped => cache'[label][f] = ContentOf[deployed][f]
    BY <1>0, <2>1, <2>2
  <2>5. Newer' /\ Taken'
    BY <2>2 DEF Forwards, Newer, Taken
  <2>6. Fresh'
    <3>1. \A c \in Builds : c > deployed => c # label
      BY <1>0, <2>1
    <3>2. \A g \in Files : cache'[deployed][g] \in {None, ContentOf[deployed][g]}
      BY <1>0, <2>3, <2>4 DEF Forwards, Fresh
    <3>. QED
      BY <2>2, <2>3, <3>1, <3>2 DEF Forwards, Fresh
  <2>. QED
    BY <2>5, <2>6 DEF Forwards
<1>5. CASE InstallFails
  <2>1. /\ UNCHANGED <<deployed, active, cache, caches, before, puts>>
        /\ phase # "none" /\ phase' = "none" /\ stripped' = stripped \ {label} /\ label # active
    BY <1>0, <1>5 DEF InstallFails, Finish, Forwards, Newer
  <2>2. Newer'
    BY <2>1 DEF Forwards, Newer
  <2>3. Fresh' /\ Taken'
    BY <2>1 DEF Forwards, Fresh, Taken
  <2>. QED
    BY <2>2, <2>3 DEF Forwards
<1>6. CASE Activate
  <2>1. label \in Builds /\ label <= deployed
    BY <1>0, <1>6 DEF Activate, Forwards, Newer
  <2>2. /\ UNCHANGED deployed /\ active' = label /\ puts' = {} /\ phase' = "none"
        /\ stripped' = stripped \cap {label} /\ phase = "files" /\ done = Files
    BY <1>6 DEF Activate, Finish
  <2>3. /\ caches' \subseteq caches /\ caches \cap {label} \subseteq caches'
        /\ \A d \in Builds : /\ before'[d] \subseteq before[d] \cap caches'
                             /\ cache'[d] = IF d \in caches' THEN cache[d] ELSE Empty
    BY <1>6, PrunedKeepsOrder DEF Activate, Sound, Lined
  <2>4. Newer'
    BY <1>0, <2>1, <2>2 DEF Newer
  <2>5. Fresh'
    BY <1>0, <2>2, <2>3 DEF Forwards, Fresh, Empty
  <2>6. Taken'
    BY <2>1, <2>2, <2>3 DEF Forwards, Taken
  <2>. QED
    BY <2>4, <2>5, <2>6 DEF Forwards
<1>. QED
  BY <1>1, <1>2, <1>3, <1>4, <1>5, <1>6 DEF InstallStep

LEMMA FetchGoesForward ==
  ASSUME Typed, Sound, Forwards, FetchStep
  PROVE  Forwards'
<1>0. /\ deployed \in Builds /\ active \in Builds \cup {None} /\ Builds \subseteq Nat \ {0}
      /\ None \notin Builds /\ None \notin Blobs /\ Files \subseteq Paths
      /\ cache \in [Builds -> [Paths -> Blobs \cup {None}]]
      /\ puts \subseteq Put
      /\ phase # "none" => label \in Builds
  BY BuildsAssumption, FilesAssumption DEF Paths, Typed, TypeOK, Maybe
<1>1. ASSUME NEW f \in Paths, NetworkFirst(f) \/ CacheMiss(f) PROVE Forwards'
  <2>1. /\ UNCHANGED <<deployed, active, phase, label, done, cache, caches, before, stripped>>
        /\ puts' = puts \cup {[file |-> f, blob |-> ContentOf[deployed][f]]}
    BY <1>1 DEF NetworkFirst, CacheMiss, storage, installing
  <2>2. Fresh'
    BY <2>1 DEF Forwards, Fresh
  <2>. QED
    BY <2>1, <2>2 DEF Forwards, Newer, Taken
<1>2. ASSUME NEW p \in puts, PutLands(p) PROVE Forwards'
  <2>1. /\ UNCHANGED <<deployed, active, phase, label, done, stripped>>
        /\ active \in Builds /\ active <= deployed
        /\ p.file \in Paths /\ p.blob \in Blobs /\ puts' \subseteq puts
    BY <1>0, <1>2 DEF PutLands, installing, storage, Forwards, Newer, Typed, Put
  <2>2. CASE UNCHANGED storage
    BY <2>1, <2>2 DEF storage, Forwards, Newer, Fresh, Taken
  <2>3. CASE Opened(active) /\ cache' = [cache EXCEPT ![active][p.file] = p.blob]
    <3>1. /\ Ordered' /\ caches' = caches \cup {active}
          /\ \A d \in Builds : d # active \/ active \in caches => before'[d] = before[d]
      BY <2>1, <2>3, OpenedKeepsOrder DEF Sound, Lined
    <3>2. /\ \A d \in Builds \ {active} : cache'[d] = cache[d]
          /\ \A g \in Paths : cache'[active][g] = IF g = p.file THEN p.blob ELSE cache[active][g]
      BY <1>0, <2>1, <2>3
    <3>3. Newer'
      BY <2>1 DEF Forwards, Newer
    <3>4. Fresh'
      <4>1. \A g \in Files : cache'[deployed][g] \in {None, ContentOf[deployed][g]}
        BY <1>0, <2>1, <3>2 DEF Forwards, Fresh
      <4>2. \A c \in Builds : c > deployed => c # active
        BY <1>0, <2>1
      <4>. QED
        BY <2>1, <3>1, <3>2, <4>1, <4>2 DEF Forwards, Fresh
    <3>5. Taken'
      <4>1. phase = "files" => label # active
        BY <1>0, <2>1 DEF Forwards, Newer
      <4>2. \A d \in Builds : active \notin before[d] => active \notin before'[d]
        BY <2>1, <3>1 DEF Sound, Lined, Ordered
      <4>. QED
        BY <2>1, <3>1, <4>1, <4>2 DEF Forwards, Taken
    <3>. QED
      BY <3>3, <3>4, <3>5 DEF Forwards
  <2>. QED
    BY <1>2, <2>2, <2>3 DEF PutLands
<1>. QED
  BY <1>1, <1>2 DEF FetchStep

LEMMA OthersGoForward ==
  ASSUME "rollback" \notin Faults, Typed, Sound, Forwards,
         auditShellCaches \/ PageStarts \/ Deploy \/ UNCHANGED vars
  PROVE  Forwards'
<1>0. /\ deployed \in Builds /\ active \in Builds \cup {None} /\ Builds \subseteq Nat \ {0}
      /\ None \notin Builds /\ None \notin Blobs /\ Files \subseteq Paths
      /\ caches \subseteq Builds
      /\ phase # "none" => label \in Builds
  BY BuildsAssumption, FilesAssumption DEF Paths, Typed, TypeOK, Maybe
<1>1. CASE auditShellCaches
  <2>1. /\ UNCHANGED <<deployed, active, phase, label, done, puts>>
        /\ stripped' = stripped \cup ((caches \ caches') \cap InUse)
    BY <1>1 DEF auditShellCaches, installing
  <2>2. /\ caches' \subseteq caches
        /\ \A d \in Builds : /\ before'[d] \subseteq before[d] \cap caches'
                             /\ cache'[d] = IF d \in caches' THEN cache[d] ELSE Empty
    BY <1>1, PrunedKeepsOrder DEF auditShellCaches, Sound, Lined
  <2>3. Newer'
    BY <1>0, <2>1 DEF Forwards, Newer
  <2>4. Fresh'
    BY <1>0, <2>1, <2>2 DEF Forwards, Fresh, Empty
  <2>5. Taken'
    <3>1. phase = "files" /\ label \in stripped' => label \notin caches'
      BY <2>1, <2>2 DEF Forwards, Taken
    <3>2. active \in stripped' /\ active = deployed => \A c \in Builds : active \notin before'[c]
      BY <2>1, <2>2 DEF Forwards, Taken
    <3>. QED
      BY <2>1, <3>1, <3>2 DEF Taken
  <2>. QED
    BY <2>3, <2>4, <2>5 DEF Forwards
<1>2. CASE Deploy
  <2>1. /\ UNCHANGED <<active, phase, label, done, cache, caches, before, stripped, puts>>
        /\ deployed' \in Builds /\ deployed' > deployed
    BY <1>2 DEF Deploy, Fault, installing, storage
  <2>2. active # deployed'
    BY <1>0, <2>1 DEF Forwards, Newer
  <2>3. Newer'
    <3>1. active # None => active \in Nat /\ active <= deployed'
      BY <1>0, <2>1 DEF Forwards, Newer
    <3>2. phase # "none" => label <= deployed' /\ (active # None => active < label)
      <4>1. phase # "none" =>
              label \in Nat /\ label <= deployed /\ (active # None => active < label)
        BY <1>0 DEF Forwards, Newer
      <4>2. deployed \in Nat /\ deployed' \in Nat /\ deployed < deployed'
        BY <1>0, <2>1
      <4>. QED
        BY <4>1, <4>2
    <3>. QED
      BY <2>1, <3>1, <3>2 DEF Newer
  <2>4. Fresh'
    <3>1. \A f \in Files : cache'[deployed'][f] = None
      BY <1>0, <2>1 DEF Forwards, Fresh, Empty
    <3>2. \A c \in Builds : c > deployed' => c > deployed
      BY <1>0, <2>1
    <3>. QED
      BY <2>1, <2>2, <3>1, <3>2 DEF Forwards, Fresh, Empty
  <2>. QED
    BY <2>1, <2>2, <2>3, <2>4 DEF Forwards, Taken
<1>3. CASE PageStarts \/ UNCHANGED vars
  <2>1. UNCHANGED <<deployed, active, phase, label, done, cache, caches, before, stripped, puts>>
    BY <1>3 DEF PageStarts, vars, installing, storage
  <2>. QED
    BY <2>1 DEF Forwards, Newer, Fresh, Taken
<1>. QED
  BY <1>1, <1>2, <1>3

LEMMA AlwaysForwards == "rollback" \notin Faults => (Spec => [](Typed /\ Sound /\ Forwards))
<1> SUFFICES ASSUME "rollback" \notin Faults PROVE Spec => [](Typed /\ Sound /\ Forwards)
  OBVIOUS
<1>1. Init => Forwards
  BY FilesAssumption DEF Init, Forwards, Newer, Fresh, Taken, Empty, Paths
<1>2. Typed /\ Sound /\ Forwards /\ [Next]_vars => Forwards'
  BY InstallGoesForward, FetchGoesForward, OthersGoForward DEF Next, PageStep
<1>. QED
  BY <1>1, <1>2, AlwaysSound, PTL DEF Spec

(* A worker of the deployed build answers with that build's files, in      *)
(* whatever state failed deletions and pages have left the caches (sw.js   *)
(* precacheVerified, cacheFirstInto; app.js auditShellCaches).             *)
THEOREM UpToDateCoherent == "rollback" \notin Faults => (Spec => []UpToDateIsCoherent)
<1> SUFFICES ASSUME "rollback" \notin Faults PROVE Spec => []UpToDateIsCoherent
  OBVIOUS
<1>1. Typed /\ Sound /\ Forwards => UpToDateIsCoherent
  <2> SUFFICES ASSUME Typed, Sound, Forwards, NothingOlder, active = deployed, NEW f \in CacheFirst
               PROVE  Match(f) \in {None, ContentOf[deployed][f]}
    BY DEF UpToDateIsCoherent
  <2>1. active \in Builds /\ f \in Files /\ caches \subseteq Builds
    BY FilesAssumption DEF Typed, TypeOK
  <2>2. cache[active][f] \in {None, ContentOf[deployed][f]}
    BY <2>1 DEF Forwards, Fresh
  <2>3. Holders(f) # {} => active \in Holders(f)
    <3>1. CASE active \in stripped
      <4>1. \A c \in caches : c = active
        BY <2>1, <3>1 DEF Forwards, Taken, NothingOlder
      <4>. QED
        BY <4>1 DEF Holders
    <3>2. CASE active \notin stripped
      BY <2>1, <3>2 DEF Sound, Whole, Unstripped, NothingOlder, Holders
    <3>. QED
      BY <3>1, <3>2
  <2>4. /\ \A c \in Holders(f) : before[c] \cap Holders(f) = {} /\ active \in Holders(f) => c = active
        /\ before[active] \cap Holders(f) = {}
    BY <2>1 DEF Holders, NothingOlder, Sound, Lined, Ordered
  <2>5. Holders(f) # {} => (CHOOSE c \in Holders(f) : before[c] \cap Holders(f) = {}) = active
    BY <2>3, <2>4
  <2>. QED
    BY <2>2, <2>5 DEF Match
<1>. QED
  BY <1>1, AlwaysForwards, PTL

(***************************************************************************)
(* An install shows in no answer if the label it writes to is not older    *)
(* than the active worker's.  That is so while every deletion succeeds,    *)
(* and while no older build is put back.                                   *)
(***************************************************************************)
Aside == Unstripped /\ phase = "files" => label \notin before[active]

\* Every deletion succeeds: nothing is older than the active worker's cache.
Alone == Unstripped => before[active] = {}

\* No older build is put back: a newer build's cache is the newer one.
Climbs ==
  /\ \A c \in caches : c <= deployed /\ (phase # "none" => c <= label)
  /\ \A c \in caches : active = None \/ c > active \/ (Unstripped /\ c = active) =>
       \A d \in before[c] : d < c

LEMMA StaysAlone ==
  ASSUME "prune" \notin Faults, Typed, Sound, Alone, [Next]_vars
  PROVE  Alone'
<1>0. None \notin Builds /\ (phase # "none" => label \in Builds) /\ active \in Builds \cup {None}
  BY FilesAssumption DEF Paths, Typed, TypeOK, Maybe
<1> SUFFICES ASSUME Unstripped' PROVE before'[active'] = {}
  BY DEF Alone
<1>1. CASE Activate
  <2>1. active' = label /\ label \in Builds /\ Pruned(caches \cap {label})
    BY <1>0, <1>1 DEF Activate, PrunedBut, Fault
  <2>2. before'[label] \subseteq before[label] \cap {label}
    BY <2>1 DEF Pruned
  <2>. QED
    BY <2>1, <2>2 DEF Sound, Lined, Ordered
<1>2. CASE auditShellCaches
  <2>1. active' = active /\ active \in Builds /\ Unstripped
    BY <1>0, <1>2 DEF auditShellCaches, Unstripped
  <2>2. before'[active] \subseteq before[active]
    BY <1>2, <2>1, PrunedKeepsOrder DEF auditShellCaches, Sound, Lined
  <2>. QED
    BY <2>1, <2>2 DEF Alone
<1>3. CASE SignatureVerified
  <2>1. active' = active /\ active \in Builds /\ Unstripped /\ label \in Builds /\ label # active
    BY <1>0, <1>3 DEF SignatureVerified, Unstripped, Sound, Apart
  <2>2. before'[active] = before[active]
    BY <1>3, <2>1, OpenedKeepsOrder DEF SignatureVerified, Sound, Lined
  <2>. QED
    BY <2>1, <2>2 DEF Alone
<1>4. ASSUME NEW p \in puts, PutLands(p) PROVE before'[active'] = {}
  <2>1. active' = active /\ active \in Builds /\ Unstripped
    BY <1>0, <1>4 DEF PutLands, Unstripped, storage
  <2>2. Opened(active) => before'[active] = before[active]
    BY <2>1, OpenedKeepsOrder DEF Sound, Lined, Whole
  <2>. QED
    BY <1>4, <2>1, <2>2 DEF PutLands, storage, Alone
<1>5. CASE InstallFails
  <2>1. Unstripped /\ UNCHANGED <<active, before>>
    BY <1>5 DEF InstallFails, Unstripped, Sound, Apart
  <2>. QED
    BY <2>1 DEF Alone
<1>6. CASE UNCHANGED <<active, before, stripped>>
  BY <1>6 DEF Alone, Unstripped
<1>. QED
  BY <1>1, <1>2, <1>3, <1>4, <1>5, <1>6
  DEF Next, InstallStep, StartInstall, ManifestFetched, FilePrecached, FetchStep, NetworkFirst,
      CacheMiss, PageStep, PageStarts, Deploy, vars, storage

LEMMA StaysClimbing ==
  ASSUME "rollback" \notin Faults, Typed, Typed', Sound, Forwards, Climbs, [Next]_vars
  PROVE  Climbs'
<1>0. /\ deployed \in Nat /\ deployed' \in Nat /\ Builds \subseteq Nat /\ None \notin Builds
      /\ phase # "none" => label \in Nat /\ label \in Builds /\ label <= deployed
      /\ active \in Builds \cup {None} /\ caches \subseteq Builds
      /\ phase # "none" /\ active # None => active < label
      /\ active # None => active \in Nat /\ active <= deployed
  BY BuildsAssumption, FilesAssumption DEF Paths, Typed, TypeOK, Maybe, Forwards, Newer
<1>1. CASE StartInstall
  BY <1>0, <1>1 DEF StartInstall, storage, Climbs, Unstripped
<1>2. CASE SignatureVerified
  <2>1. /\ UNCHANGED <<deployed, active, label, stripped>> /\ phase # "none" /\ label # active
        /\ caches' = caches \cup {label}
        /\ \A d \in Builds : d # label \/ label \in caches => before'[d] = before[d]
        /\ label \notin caches => before'[label] = caches
    BY <1>0, <1>2, OpenedKeepsOrder DEF SignatureVerified, Sound, Lined, Apart
  <2>2. \A c \in caches' : c <= deployed /\ c <= label
    <3>1. \A c \in caches : c <= deployed /\ c <= label
      BY <2>1 DEF Climbs
    <3>2. label \in Nat /\ label <= deployed /\ label <= label
      BY <1>0, <2>1
    <3>. QED
      BY <2>1, <3>1, <3>2
  <2>3. label \notin caches => \A d \in before'[label] : d < label
    <3>1. label \in Nat /\ \A d \in caches : d \in Nat /\ d <= label
      BY <1>0, <2>1 DEF Climbs
    <3>2. label \notin caches => \A d \in caches : d # label
      OBVIOUS
    <3>. QED
      BY <2>1, <3>1, <3>2
  <2>4. ASSUME NEW c \in caches', active = None \/ c > active \/ (Unstripped /\ c = active)
        PROVE  \A d \in before'[c] : d < c
    BY <1>0, <2>1, <2>3, <2>4 DEF Climbs
  <2>. QED
    BY <2>1, <2>2, <2>4 DEF Climbs, Unstripped
<1>3. CASE Activate
  <2>1. /\ UNCHANGED deployed /\ active' = label /\ phase # "none" /\ phase' = "none"
        /\ caches' \subseteq caches /\ \A d \in Builds : before'[d] \subseteq before[d]
    BY <1>3, PrunedKeepsOrder DEF Activate, Finish, Sound, Lined
  <2>2. ASSUME NEW c \in caches', c > label \/ c = label
        PROVE  \A d \in before'[c] : d < c
    <3>1. c \in caches /\ c \in Nat /\ (active = None \/ c > active)
      BY <1>0, <2>1, <2>2
    <3>. QED
      BY <1>0, <2>1, <3>1 DEF Climbs
  <2>3. label # None
    BY <1>0, <2>1
  <2>. QED
    BY <2>1, <2>2, <2>3 DEF Climbs
<1>4. CASE InstallFails
  <2>1. /\ UNCHANGED <<deployed, active, caches, before>> /\ phase' = "none"
        /\ Unstripped' <=> Unstripped
    BY <1>4 DEF InstallFails, Finish, Unstripped, Sound, Apart
  <2>. QED
    BY <2>1 DEF Climbs
<1>5. ASSUME NEW p \in puts, PutLands(p) PROVE Climbs'
  <2>1. UNCHANGED <<deployed, active, phase, label, stripped>> /\ active \in Builds
    BY <1>0, <1>5 DEF PutLands, installing, storage, Typed
  <2>2. CASE Opened(active)
    <3>1. /\ caches' = caches \cup {active}
          /\ \A d \in Builds : d # active \/ active \in caches => before'[d] = before[d]
          /\ Unstripped => active \in caches
      BY <2>1, <2>2, OpenedKeepsOrder DEF Sound, Lined, Whole
    <3>2. \A c \in caches' : c <= deployed /\ (phase # "none" => c <= label)
      BY <1>0, <2>1, <3>1 DEF Climbs
    <3>3. ASSUME NEW c \in caches', c > active \/ (Unstripped /\ c = active)
          PROVE  \A d \in before'[c] : d < c
      BY <1>0, <2>1, <3>1, <3>3 DEF Climbs
    <3>4. active # None
      BY <1>0, <2>1
    <3>. QED
      BY <2>1, <3>2, <3>3, <3>4 DEF Climbs, Unstripped
  <2>3. CASE UNCHANGED storage
    BY <2>1, <2>3 DEF storage, Climbs, Unstripped
  <2>. QED
    BY <1>5, <2>2, <2>3 DEF PutLands
<1>6. CASE auditShellCaches
  <2>1. /\ UNCHANGED <<deployed, active, phase, label>> /\ stripped \subseteq stripped'
        /\ caches' \subseteq caches /\ \A d \in Builds : before'[d] \subseteq before[d]
    BY <1>6, PrunedKeepsOrder DEF auditShellCaches, installing, Sound, Lined
  <2>. QED
    BY <1>0, <2>1 DEF Climbs, Unstripped
<1>7. CASE Deploy
  <2>1. UNCHANGED <<active, phase, label, caches, before, stripped>> /\ deployed < deployed'
    BY <1>0, <1>7 DEF Deploy, Fault, installing, storage
  <2>. QED
    BY <1>0, <2>1 DEF Climbs, Unstripped
<1>8. CASE ManifestFetched
  BY <1>8 DEF ManifestFetched, storage, Climbs, Unstripped
<1>9. CASE UNCHANGED <<deployed, active, phase, label, caches, before, stripped>>
  BY <1>9 DEF Climbs, Unstripped
<1>. QED
  BY <1>1, <1>2, <1>3, <1>4, <1>5, <1>6, <1>7, <1>8, <1>9
  DEF Next, InstallStep, FilePrecached, FetchStep, NetworkFirst, CacheMiss, PageStep, PageStarts,
      vars, storage, installing

\* In either case an install leaves what is answered alone.
LEMMA AlwaysAside ==
  ASSUME ~({"prune", "rollback"} \subseteq Faults)
  PROVE  Spec => [](Typed /\ Sound /\ Aside)
<1>1. CASE "prune" \notin Faults
  <2>1. Init => Alone
    BY DEF Init, Alone, Unstripped
  <2>2. Typed /\ Sound /\ Alone /\ [Next]_vars => Alone'
    BY <1>1, StaysAlone
  <2>3. Alone => Aside
    BY DEF Alone, Aside
  <2>. QED
    BY <2>1, <2>2, <2>3, AlwaysSound, PTL DEF Spec
<1>2. CASE "rollback" \notin Faults
  <2>1. Init => Climbs
    BY DEF Init, Climbs
  <2>2. Typed /\ Typed' /\ Sound /\ Forwards /\ Climbs /\ [Next]_vars => Climbs'
    BY <1>2, StaysClimbing
  <2>3. Typed /\ Sound /\ Forwards /\ Climbs => Aside
    <3> SUFFICES ASSUME Typed, Sound, Forwards, Climbs, Unstripped, phase = "files"
                 PROVE  label \notin before[active]
      BY DEF Aside
    <3>1. active \in Nat /\ label \in Nat /\ active < label
      BY BuildsAssumption DEF Typed, TypeOK, Maybe, Unstripped, Forwards, Newer
    <3>2. \A d \in before[active] : d < active
      BY DEF Sound, Whole, Climbs
    <3>. QED
      BY <3>1, <3>2
  <2>4. Spec => [](Typed /\ Sound /\ Forwards)
    BY <1>2, AlwaysForwards
  <2>. QED
    BY <2>1, <2>2, <2>3, <2>4, PTL DEF Spec
<1>. QED
  BY <1>1, <1>2

(* What the active worker answers comes from its own cache or an older one. *)
Old == before[active] \cup {active}

Answers ==
  Unstripped => \A f \in CacheFirst : \E m \in Old \cap Holders(f) :
                  Match(f) = cache[m][f] /\ before[m] \cap Holders(f) = {}

LEMMA OldAnswers == Typed /\ Sound => Answers
<1> SUFFICES ASSUME Typed, Sound, Unstripped, NEW f \in CacheFirst
             PROVE  \E m \in Old \cap Holders(f) :
                      Match(f) = cache[m][f] /\ before[m] \cap Holders(f) = {}
  BY DEF Answers
<1>1. active \in Holders(f)
  BY FilesAssumption DEF Sound, Whole, Holders
<1>. QED
  BY <1>1, OldestHolds DEF Sound, Old

\* A step that leaves the active worker's cache and the older ones leaves their entries.
LEMMA OldKept ==
  ASSUME Typed, Sound, Aside, Next, Unstripped, Unstripped', active' = active,
         before'[active] = before[active], Sound'
  PROVE  /\ Old \subseteq caches /\ Old \subseteq caches' /\ Old \subseteq Builds
         /\ \A c \in Old : /\ before'[c] \cap Old = before[c] \cap Old
                           /\ \A f \in CacheFirst : cache'[c][f] = cache[c][f]
<1>0. /\ None \notin Builds /\ active \in Builds /\ CacheFirst \subseteq Files /\ Files \subseteq Paths
      /\ caches \subseteq Builds /\ (phase # "none" => label \in Builds)
      /\ cache \in [Builds -> [Paths -> Maybe(Blobs)]] /\ before \in [Builds -> SUBSET Builds]
  BY FilesAssumption DEF Paths, Typed, TypeOK, Maybe, Unstripped
<1>1. Old \subseteq caches /\ Old \subseteq caches' /\ Old \subseteq Builds
  <2>1. active \in caches /\ before[active] \subseteq caches
    BY <1>0 DEF Sound, Lined, Ordered, Whole
  <2>2. active' \in caches' /\ before'[active'] \subseteq caches'
    BY <1>0 DEF Sound, Lined, Ordered, Whole
  <2>. QED
    BY <1>0, <2>1, <2>2 DEF Old
<1> DEFINE Goal == \A c \in Old : /\ before'[c] \cap Old = before[c] \cap Old
                                  /\ \A f \in CacheFirst : cache'[c][f] = cache[c][f]
<1>2. CASE SignatureVerified
  <2>1. /\ UNCHANGED cache
        /\ \A d \in Builds : d # label \/ label \in caches => before'[d] = before[d]
    BY <1>0, <1>2, OpenedKeepsOrder DEF SignatureVerified, Sound, Lined
  <2>. QED
    BY <1>1, <2>1
<1>3. ASSUME NEW f \in Files, FilePrecached(f) PROVE Goal
  <2>1. label \notin Old /\ label \in Builds /\ UNCHANGED before
    BY <1>0, <1>3 DEF FilePrecached, Old, Aside, Sound, Apart
  <2>2. \A c \in Builds \ {label} : cache'[c] = cache[c]
    BY <1>0, <1>3, <2>1 DEF FilePrecached, Entered
  <2>. QED
    BY <1>1, <2>1, <2>2
<1>4. CASE Activate
  BY <1>4 DEF Activate, Sound, Apart
<1>5. ASSUME NEW p \in puts, PutLands(p) PROVE Goal
  <2>1. p.file \notin CacheFirst
    BY DEF Sound, Whole
  <2>2. CASE UNCHANGED storage
    BY <2>2 DEF storage
  <2>3. CASE Opened(active) /\ cache' = [cache EXCEPT ![active][p.file] = p.blob]
    <3>1. \A c \in Builds, f \in CacheFirst : cache'[c][f] = cache[c][f]
      BY <1>0, <2>1, <2>3
    <3>2. UNCHANGED before
      BY <2>3 DEF Opened, Sound, Whole
    <3>. QED
      BY <1>1, <3>1, <3>2
  <2>. QED
    BY <1>5, <2>2, <2>3 DEF PutLands
<1>6. CASE auditShellCaches
  <2>1. \A d \in Builds : /\ d \in caches' => before'[d] = before[d] \cap caches'
                          /\ cache'[d] = IF d \in caches' THEN cache[d] ELSE Empty
    BY <1>6, PrunedKeepsOrder DEF auditShellCaches, Sound, Lined
  <2>. QED
    BY <1>1, <2>1
<1>7. CASE UNCHANGED <<cache, before>>
  BY <1>1, <1>7
<1>. QED
  BY <1>1, <1>2, <1>3, <1>4, <1>5, <1>6, <1>7
  DEF Next, InstallStep, StartInstall, ManifestFetched, InstallFails, FetchStep, NetworkFirst,
      CacheMiss, PageStep, PageStarts, Deploy, storage

(* Unless a roll back meets an older cache that could not be deleted, no   *)
(* install, failed or under way, shows in the files answered from the      *)
(* cache, until the next worker is active (sw.js install, activate).       *)
THEOREM InstallsAreHarmless ==
  ~({"prune", "rollback"} \subseteq Faults) => (Spec => FailedInstallHarmless)
<1> SUFFICES ASSUME ~({"prune", "rollback"} \subseteq Faults) PROVE Spec => FailedInstallHarmless
  OBVIOUS
<1>1. ASSUME Typed, Sound, Aside, Sound', Answers, Answers', Next, Unstripped, Unstripped',
             active' = active, before'[active] = before[active], NEW f \in CacheFirst
      PROVE  Match(f)' = Match(f)
  <2>1. /\ Old \subseteq caches /\ Old \subseteq caches' /\ Old' = Old
        /\ \A c \in Old : before'[c] \cap Old = before[c] \cap Old /\ cache'[c][f] = cache[c][f]
    BY <1>1, OldKept DEF Old
  <2>2. \A c \in Old : c \in Holders(f)' <=> c \in Holders(f)
    BY <2>1 DEF Holders
  <2>3. PICK m \in Old \cap Holders(f) : Match(f) = cache[m][f] /\ before[m] \cap Holders(f) = {}
    BY <1>1 DEF Answers
  <2>4. PICK n \in Old \cap Holders(f)' :
          Match(f)' = cache'[n][f] /\ before'[n] \cap Holders(f)' = {}
    BY <1>1, <2>1 DEF Answers
  <2>5. m \notin before[n] /\ n \notin before[m]
    BY <2>1, <2>2, <2>3, <2>4
  <2>6. m = n
    BY <1>1, <2>1, <2>5 DEF Sound, Lined
  <2>. QED
    BY <2>1, <2>3, <2>4, <2>6
<1>2. Typed /\ Sound => Answers
  BY OldAnswers
<1>3. (Typed /\ Sound => Answers)'
  BY <1>2, PTL
<1>4. Typed /\ Sound /\ Aside /\ (Typed /\ Sound /\ Aside)' /\ [Next]_vars =>
        [Unstripped /\ Unstripped' /\ active' = active /\ before[active]' = before[active] =>
           \A f \in CacheFirst : Match(f)' = Match(f)]_vars
  BY <1>1, <1>2, <1>3
<1>5. Spec => [](Typed /\ Sound /\ Aside)
  BY AlwaysAside
<1>. QED
  BY <1>4, <1>5, PTL DEF Spec, FailedInstallHarmless
=============================================================================
