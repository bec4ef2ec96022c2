----------------------------- MODULE ShellCache -----------------------------
(***************************************************************************)
(* The service worker of the app, app/static/sw.js: the install that       *)
(* verifies a build before it caches it, the activation that prunes the    *)
(* caches of other builds, and the two ways a file is answered; and the    *)
(* audit of the caches that every page makes when it starts (app.js).      *)
(*                                                                         *)
(* One cache per build label (CACHE_VERSION).  An action is a stretch of   *)
(* an event handler between two awaits; the browser's part (fetching       *)
(* sw.js, one installing worker at a time, terminating the old worker      *)
(* before the new one activates) is in the guards.  A file's bytes are a   *)
(* blob; the manifest of a build stands for the hashes of its files, its   *)
(* signature for the build it was made for.                                *)
(***************************************************************************)
EXTENDS Integers, FiniteSets

CONSTANTS
  Builds,       \* numbered in the order they are built
  Files,        \* what the manifest lists
  Rank,         \* its place in the list, whose keys are sorted
  Start,        \* the path '/' every start of the app asks for, which it does not list
  CacheFirst,   \* the files answered from the cache; all else goes to the network
  Entry,        \* app.js, which has the build's label in it
  ContentOf,    \* the blob of each file in each build
  Faults,       \* what may fail (FaultKinds below)
  MaxFailures,  \* bound: how often it does
  MaxPuts,      \* bound: cache writes in flight
  None

FaultKinds == {"net", "storage", "prune", "rollback"}

(* The paths a page asks for: caches.match knows no file under '/' but one *)
(* that was stored under it.                                               *)
Paths == Files \cup {Start}

Blobs == UNION {{ContentOf[b][f] : f \in Paths} : b \in Builds}

ASSUME BuildsAssumption == Builds \subseteq Nat \ {0} /\ Builds # {}
ASSUME FilesAssumption ==
  /\ CacheFirst \subseteq Files /\ Start \notin Files
  /\ Rank \in [Files -> Int]
  /\ None \notin Blobs /\ None \notin Builds
ASSUME EntryAssumption ==
  /\ Entry \in Files \ CacheFirst
  /\ \A b, c \in Builds : ContentOf[b][Entry] = ContentOf[c][Entry] => b = c
ASSUME FaultsAssumption == Faults \subseteq FaultKinds /\ MaxFailures \in Nat /\ MaxPuts \in Nat

VARIABLES
  deployed,  \* the build the server hands out
  active,    \* the label of the worker that answers fetches
  phase,     \* where the installing worker is
  label,     \* its own label
  manifest,  \* the build whose manifest it fetched
  done,      \* the files it has cached
  cache,     \* the entries of the shell cache of each label
  caches,    \* the labels whose cache exists
  before,    \* the caches that are older than each
  stripped,  \* the labels of workers, active or installing, that a page
             \* has taken their cache from
  page,      \* the build of a page that starts and has not audited yet
  puts,      \* cache writes of the active worker under way
  visited,   \* the active worker has stored the start page in its cache
  failures

vars == <<deployed, active, phase, label, manifest, done, cache, caches, before, stripped, page,
          puts, visited, failures>>

storage    == <<cache, caches, before, stripped, visited>>
installing == <<phase, label, manifest, done>>

Maybe(S) == S \cup {None}
Phases   == {"none", "manifest", "signature", "files"}
Put      == [file : Paths, blob : Blobs]

Empty == [f \in Paths |-> None]

(* caches.open makes the cache if it is not there.                         *)
Opened(c) ==
  /\ caches' = caches \cup {c}
  /\ before' = IF c \in caches THEN before ELSE [before EXCEPT ![c] = caches]

(* The caches of the labels in kept stay, the others are deleted.          *)
Pruned(kept) ==
  /\ caches' = kept
  /\ before' = [c \in Builds |-> IF c \in kept THEN before[c] \cap kept ELSE {}]
  /\ cache' = [c \in Builds |-> IF c \in kept THEN cache[c] ELSE Empty]

Fault(kind) ==
  /\ kind \in Faults
  /\ failures < MaxFailures
  /\ failures' = failures + 1

(* Every shell cache but c's is deleted; some deletions may fail.          *)
PrunedBut(c) ==
  \/ Pruned(caches \cap {c}) /\ UNCHANGED failures
  \/ /\ \E kept \in SUBSET caches : caches \cap {c} \subseteq kept /\ Pruned(kept)
     /\ Fault("prune")

Holders(f) == {c \in caches : cache[c][f] # None}

(* Mutant of Match: the newest cache is asked first.                       *)
MatchNewest(f) ==
  IF Holders(f) = {} THEN None
  ELSE cache[CHOOSE c \in Holders(f) : \A d \in Holders(f) \ {c} : d \in before[c]][f]

(* caches.match asks the caches in the order of their creation.            *)
Match(f) ==
  IF Holders(f) = {} THEN None
  ELSE cache[CHOOSE c \in Holders(f) : before[c] \cap Holders(f) = {}][f]

(***************************************************************************)
(* Install.                                                                *)
(***************************************************************************)

(* Mutant of StartInstall: an install that failed is not tried again.      *)
StartOnce ==
  /\ phase = "none"
  /\ deployed # active /\ deployed \notin caches
  /\ phase' = "manifest"
  /\ label' = deployed
  /\ UNCHANGED <<deployed, active, manifest, done, storage, page, puts, failures>>

(* The browser finds a sw.js that is not the active worker's.              *)
StartInstall ==
  /\ phase = "none"
  /\ deployed # active
  /\ phase' = "manifest"
  /\ label' = deployed
  /\ UNCHANGED <<deployed, active, manifest, done, storage, page, puts, failures>>

ManifestFetched ==
  /\ phase = "manifest"
  /\ phase' = "signature"
  /\ manifest' = deployed
  /\ UNCHANGED <<deployed, active, label, done, storage, page, puts, failures>>

(* The signature is fetched on its own: it may be another build's.         *)
SignatureVerified ==
  /\ phase = "signature"
  /\ manifest = deployed
  /\ phase' = "files"
  /\ done' = {}
  /\ Opened(label)
  /\ UNCHANGED <<deployed, active, label, manifest, cache, stripped, page, puts, visited, failures>>

(* The files are fetched one after the other.                              *)
IsNext(f) == f \in Files \ done /\ \A g \in Files \ done : Rank[f] <= Rank[g]

(* The install goes on writing to the cache it opened; if a page has       *)
(* deleted that one, nobody will ever find what it writes.                 *)
Entered(f) ==
  cache' = IF label \in stripped THEN cache
           ELSE [cache EXCEPT ![label][f] = ContentOf[deployed][f]]

(* Mutant of FilePrecached: the bytes are not compared with the manifest.  *)
FileNotCompared(f) ==
  /\ phase = "files"
  /\ IsNext(f)
  /\ Entered(f)
  /\ done' = done \cup {f}
  /\ UNCHANGED <<deployed, active, phase, label, manifest, caches, before, stripped, page, puts,
                 visited, failures>>

FilePrecached(f) ==
  /\ phase = "files"
  /\ IsNext(f)
  /\ ContentOf[deployed][f] = ContentOf[manifest][f]
  /\ Entered(f)
  /\ done' = done \cup {f}
  /\ UNCHANGED <<deployed, active, phase, label, manifest, caches, before, stripped, page, puts,
                 visited, failures>>

(* Mutant of Finish: a worker that is dropped fetches the manifest again.  *)
FinishAgain ==
  /\ phase' = IF phase = "signature" THEN "manifest" ELSE "none"
  /\ label' = None
  /\ manifest' = None
  /\ done' = {}

Finish ==
  /\ phase' = "none"
  /\ label' = None
  /\ manifest' = None
  /\ done' = {}

(* Anything that does not verify, or cannot be fetched or stored, fails    *)
(* the install; what it has cached stays.                                  *)
InstallFails ==
  /\ phase # "none"
  /\ \/ phase = "signature" /\ manifest # deployed /\ UNCHANGED failures
     \/ phase = "files" /\ UNCHANGED failures
        /\ \E f \in Files : IsNext(f) /\ ContentOf[deployed][f] # ContentOf[manifest][f]
     \/ Fault("net")
     \/ phase = "files" /\ Fault("storage")
  /\ Finish
  /\ stripped' = stripped \ {label}
  /\ UNCHANGED <<deployed, active, cache, caches, before, page, puts, visited>>

(* Mutant of Activate: skipWaiting does not wait for the precache.         *)
ActivateEarly ==
  /\ phase = "files"
  /\ active' = label
  /\ Pruned(caches \cap {label})
  /\ Finish
  /\ stripped' = stripped \cap {label}
  /\ puts' = {}
  /\ visited' = FALSE
  /\ UNCHANGED <<deployed, page, failures>>

(* Everything is cached and the worker skips waiting.  The browser ends    *)
(* the old worker, whose unfinished cache writes are lost; the activation  *)
(* deletes the other shell caches, and what it cannot delete stays.  With  *)
(* them goes the start page, until a page asks for it again.               *)
Activate ==
  /\ phase = "files"
  /\ done = Files
  /\ active' = label
  /\ PrunedBut(label)
  /\ Finish
  /\ stripped' = stripped \cap {label}
  /\ puts' = {}
  /\ visited' = FALSE
  /\ UNCHANGED <<deployed, page>>

InstallStep ==
  \/ StartInstall \/ ManifestFetched \/ SignatureVerified
  \/ (\E f \in Files : FilePrecached(f))
  \/ InstallFails \/ Activate

(***************************************************************************)
(* Fetch.  A fetch from the network brings the deployed build's bytes; the *)
(* answer does not wait for the cache write.  A fetch that finds the file  *)
(* in a cache, or no network, changes nothing.                             *)
(***************************************************************************)
NetworkFirst(f) ==
  /\ active # None
  /\ f \in Paths \ CacheFirst
  /\ Cardinality(puts) < MaxPuts
  /\ puts' = puts \cup {[file |-> f, blob |-> ContentOf[deployed][f]]}
  /\ UNCHANGED <<deployed, active, installing, storage, page, failures>>

CacheMiss(f) ==
  /\ active # None
  /\ f \in CacheFirst
  /\ Match(f) = None
  /\ Cardinality(puts) < MaxPuts
  /\ puts' = puts \cup {[file |-> f, blob |-> ContentOf[deployed][f]]}
  /\ UNCHANGED <<deployed, active, installing, storage, page, failures>>

(* safeCachePut: a write that fails is ignored.                            *)
PutLands(p) ==
  /\ p \in puts
  /\ puts' = puts \ {p}
  /\ \/ /\ Opened(active)
        /\ cache' = [cache EXCEPT ![active][p.file] = p.blob]
        /\ visited' = (visited \/ p.file = Start)
        /\ UNCHANGED <<stripped, failures>>
     \/ Fault("storage") /\ UNCHANGED storage
  /\ UNCHANGED <<deployed, active, installing, page>>

(***************************************************************************)
(* The page.  Its app.js comes from the network or, without one, from the  *)
(* cache; once it has started, it deletes every shell cache whose label is *)
(* not its own, whoever uses it.                                           *)
(***************************************************************************)
PageStarts ==
  /\ \E b \in Builds :
       /\ b = deployed \/ (active # None /\ Match(Entry) = ContentOf[b][Entry])
       /\ page' = b
  /\ UNCHANGED <<deployed, active, installing, storage, puts, failures>>

InUse == {active} \cup (IF phase = "files" THEN {label} ELSE {})

auditShellCaches ==
  /\ page # None
  /\ PrunedBut(page)
  /\ stripped' = stripped \cup ((caches \ caches') \cap InUse)
  /\ visited' = (visited /\ active \notin stripped')
  /\ page' = None
  /\ UNCHANGED <<deployed, active, installing, puts>>

(* The server is given another build: a newer one, unless it is put back.  *)
Deploy ==
  /\ \E b \in Builds :
       /\ b # deployed
       /\ deployed' = b
       /\ IF b > deployed THEN UNCHANGED failures ELSE Fault("rollback")
  /\ UNCHANGED <<active, installing, storage, page, puts>>

Init ==
  /\ deployed \in Builds
  /\ active = None
  /\ phase = "none" /\ label = None /\ manifest = None /\ done = {}
  /\ cache = [c \in Builds |-> Empty]
  /\ caches = {}
  /\ before = [c \in Builds |-> {}]
  /\ stripped = {} /\ page = None
  /\ puts = {} /\ visited = FALSE
  /\ failures = 0

FetchStep ==
  \/ \E f \in Paths : NetworkFirst(f) \/ CacheMiss(f)
  \/ \E p \in puts : PutLands(p)

PageStep == PageStarts \/ auditShellCaches

Next == InstallStep \/ FetchStep \/ PageStep \/ Deploy

Spec == Init /\ [][Next]_vars

(* The browser looks for a new sw.js at every start of the app and goes on *)
(* with an install it has begun.                                           *)
FairSpec == Spec /\ WF_vars(InstallStep)

(***************************************************************************)
(* Properties.                                                             *)
(***************************************************************************)

(* Every variable has its type: in particular no file is ever cached under *)
(* a label that is none.                                                   *)
TypeOK ==
  /\ deployed \in Builds
  /\ active \in Maybe(Builds) /\ label \in Maybe(Builds) /\ manifest \in Maybe(Builds)
  /\ phase \in Phases
  /\ done \in SUBSET Files
  /\ cache \in [Builds -> [Paths -> Maybe(Blobs)]]
  /\ caches \in SUBSET Builds
  /\ before \in [Builds -> SUBSET Builds]
  /\ stripped \in SUBSET Builds /\ page \in Maybe(Builds)
  /\ puts \in SUBSET Put /\ visited \in BOOLEAN
  /\ failures \in Nat

(* The worker's own cache has not been deleted by a page.                  *)
Unstripped == active # None /\ active \notin stripped

(* Once a worker is active, every file of the manifest is answered without *)
(* a network, and the start page too once a page has asked this worker for *)
(* it and the answer was stored: whatever installs, deploys and cache      *)
(* writes did since, the app starts off-line, unless a page of another     *)
(* build has deleted the cache.  Before that it does not: an install does  *)
(* not store the start page, and an activation takes the old one.          *)
StartsOffline ==
  Unstripped => /\ \A f \in Files : Match(f) # None
                /\ visited => Match(Start) # None

(* The activation deleted every older cache.                               *)
NothingOlder == active # None /\ \A c \in caches \ {active} : active \in before[c]

(* The files answered from the cache are all of one build, whatever was    *)
(* deployed while they were fetched and whatever failed installs left      *)
(* behind, unless an older cache could not be deleted.                     *)
OneBuild ==
  NothingOlder /\ Unstripped =>
    \E b \in Builds : \A f \in CacheFirst : Match(f) = ContentOf[b][f]

(* When the worker's build is the deployed one, the files it answers from  *)
(* the cache go with those it fetches, even those it fetched anew after a  *)
(* page deleted the cache.                                                 *)
UpToDateIsCoherent ==
  NothingOlder /\ active = deployed =>
    \A f \in CacheFirst : Match(f) \in {None, ContentOf[deployed][f]}

(* Until another worker is active, or an older cache that was left goes,   *)
(* the files answered from the cache do not change: an install under way,  *)
(* or failed, shows nowhere.                                               *)
FailedInstallHarmless ==
  [][Unstripped /\ Unstripped' /\ active' = active /\ before[active]' = before[active] =>
       \A f \in CacheFirst : Match(f)' = Match(f)]_vars

(* A build that stays deployed ends up on the device, whatever failed and  *)
(* whatever the pages deleted.                                             *)
UpdateArrives == <>[](active = deployed)
=============================================================================
