--------------------------- MODULE PageStartProofs ---------------------------
(***************************************************************************)
(* Theorems about PageStart, for any number of workers and any hosts: the  *)
(* type invariant, that no boot and no provider is left with a worker that *)
(* the page has terminated, and that a link opens until it ages.           *)
(***************************************************************************)
EXTENDS PageStart, TLAPS, FiniteSetTheorems

Pages ==
  [url : Urls, redeemed : BOOLEAN, pc : {"unlock", "dispatch", "status", "rest"} \cup Booting,
   shown : SUBSET Panels, attempted : BOOLEAN, listening : BOOLEAN,
   watch : {"idle", "pending", "cleared", "fired"}, conflict : BOOLEAN,
   cached : BOOLEAN, init : [Workers -> {"none", "pending", "resolved", "rejected"}],
   dead : SUBSET Workers, warmRef : BOOLEAN, consumed : BOOLEAN, doomed : BOOLEAN,
   awaits : Workers, adopted : 0..MaxSpawns, resetting : BOOLEAN]

\* The warm worker was given up by a gate before any boot: this page will not boot.
GivenUp(p) == p.consumed /\ ~p.attempted

\* What ties the workers of a page to the state of its start.
Sound(p) ==
  /\ p.attempted => p.consumed
  /\ p.pc \in {"unlock", "dispatch", "status"} /\ ~p.attempted =>
       ~p.consumed /\ ~p.listening /\ "landing" \notin p.shown
  /\ p.pc \in {"unlock", "dispatch"} => ~p.attempted
  /\ p.pc \in Booting => p.attempted
  /\ GivenUp(p) => p.pc = "rest" /\ ~p.listening /\ "landing" \notin p.shown
  /\ p.doomed => GivenUp(p)
  /\ \A w \in p.dead : GivenUp(p) \/ p.init[w] # "resolved"
  /\ p.pc = "ensure" => p.init[p.awaits] = "resolved"
  /\ p.pc \in {"list", "full"} /\ p.adopted # 0 => p.init[p.adopted] = "resolved"

Good(p) == p \in Pages /\ Sound(p)

-----------------------------------------------------------------------------
(* Pages after each of the functions.                                      *)

LEMMA LoadIsGood ==
  ASSUME NEW url \in Urls, NEW redeemed \in BOOLEAN
  PROVE  Good(Load(url, redeemed))
<1>1. 1 \in Workers /\ 0 \in 0..MaxSpawns
  BY BoundAssumption DEF Workers
<1>2. OnlyWarm \in [Workers -> {"none", "pending", "resolved", "rejected"}]
  BY DEF OnlyWarm
<1>3. Load(url, redeemed) \in Pages
  BY <1>1, <1>2 DEF Load, Pages, Urls, Panels, Booting, Loading
<1>4. Sound(Load(url, redeemed))
  BY DEF Load, Sound, GivenUp, Booting, Loading
<1>. QED
  BY <1>3, <1>4 DEF Good

LEMMA TerminateKeeps ==
  ASSUME NEW p \in Pages
  PROVE  LET q == terminateWarmWorkerIfStillWarm(p) IN
         /\ q \in Pages /\ q.consumed
         /\ q.shown = p.shown /\ q.attempted = p.attempted /\ q.listening = p.listening
         /\ q.init = p.init /\ q.pc = p.pc
         /\ p.consumed => q = p
<1>1. 1 \in Workers
  BY BoundAssumption DEF Workers
<1>2. CASE p.consumed
  BY <1>2 DEF terminateWarmWorkerIfStillWarm
<1>3. CASE ~p.consumed
  <2>. DEFINE d == IF p.init[1] = "resolved" THEN p.dead \cup {1} ELSE p.dead
              f == p.init[1] = "pending"
  <2>1. d \in SUBSET Workers /\ f \in BOOLEAN
    BY <1>1 DEF Pages
  <2>2. terminateWarmWorkerIfStillWarm(p)
          = [p EXCEPT !.consumed = TRUE, !.warmRef = FALSE, !.doomed = f, !.dead = d]
    BY <1>3 DEF terminateWarmWorkerIfStillWarm, Pages
  <2>. HIDE DEF d, f
  <2>. DEFINE r == [p EXCEPT !.consumed = TRUE, !.warmRef = FALSE, !.doomed = f, !.dead = d]
  <2>3. r \in Pages
    BY <2>1 DEF Pages
  <2>4. /\ r.consumed /\ r.shown = p.shown /\ r.attempted = p.attempted
        /\ r.listening = p.listening /\ r.init = p.init /\ r.pc = p.pc
    BY DEF Pages
  <2>. HIDE DEF r
  <2>5. terminateWarmWorkerIfStillWarm(p) = r
    BY <2>2 DEF r
  <2>. QED
    BY <1>3, <2>3, <2>4, <2>5
<1>. QED
  BY <1>2, <1>3

\* A page that has not been started is given up, one that has is left at rest: both are sound.
LEMMA GateIsGood ==
  ASSUME NEW p, Good(p), p.pc = "status"
  PROVE  Good(initEmailGate(p)) /\ Good(showAuthFailure(p))
<1> DEFINE q == terminateWarmWorkerIfStillWarm(p)
<1>1. q \in Pages /\ q.consumed /\ q.shown = p.shown /\ q.attempted = p.attempted
      /\ q.listening = p.listening /\ q.init = p.init /\ (p.consumed => q = p)
  BY TerminateKeeps DEF Good
<1>2. Sound(p)
  BY DEF Good
<1>. HIDE DEF q
<1>3. ASSUME NEW s \in SUBSET Panels, "landing" \notin s
      PROVE  Good([q EXCEPT !.pc = "rest", !.shown = s])
  <2>. DEFINE r == [q EXCEPT !.pc = "rest", !.shown = s]
  <2>1. r \in Pages
    BY <1>1, <1>3 DEF Pages
  <2>2. /\ r.pc = "rest" /\ r.shown = s /\ r.attempted = p.attempted /\ r.listening = p.listening
        /\ r.consumed /\ r.doomed = q.doomed /\ r.dead = q.dead /\ r.init = p.init
    BY <1>1, <1>3 DEF Pages
  <2>. HIDE DEF r
  <2>3. ASSUME p.attempted PROVE Sound(r)
    <3>1. q = p
      BY <2>3, <1>1, <1>2 DEF Sound
    <3>. QED
      BY <2>2, <2>3, <3>1, <1>2 DEF Sound, GivenUp, Booting, Loading
  <2>4. ASSUME ~p.attempted PROVE Sound(r)
    <3>1. GivenUp(r)
      BY <2>2, <2>4 DEF GivenUp
    <3>2. r.attempted = FALSE /\ ~r.listening /\ "landing" \notin r.shown
      BY <2>2, <2>4, <1>2, <1>3 DEF Sound
    <3>. QED
      BY <2>2, <3>1, <3>2 DEF Sound, Booting, Loading
  <2>5. Sound(r)
    BY <2>3, <2>4
  <2>. QED
    BY <2>1, <2>5 DEF Good, r
<1>4. q.shown \in SUBSET Panels
  BY <1>1 DEF Pages
<1>5. Good(initEmailGate(p))
  <2>. DEFINE s == (q.shown \ {"landing", "shell", "loading", "app"}) \cup {"gate"}
  <2>1. s \in SUBSET Panels /\ "landing" \notin s
    BY <1>4 DEF Panels
  <2>. QED
    BY <1>3, <2>1 DEF initEmailGate, q
<1>6. Good(showAuthFailure(p))
  <2>. DEFINE s == (q.shown \ {"landing", "gate", "shell", "loading", "app"}) \cup {"authError"}
  <2>1. s \in SUBSET Panels /\ "landing" \notin s
    BY <1>4 DEF Panels
  <2>. QED
    BY <1>3, <2>1 DEF showAuthFailure, q
<1>. QED
  BY <1>5, <1>6

LEMMA LandingIsGood ==
  ASSUME NEW p, Good(p), p.pc = "status"
  PROVE  Good(InstallLanding(p))
<1>. DEFINE r == InstallLanding(p)
<1>1. p \in Pages /\ Sound(p)
  BY DEF Good
<1>2. r \in Pages
  BY <1>1 DEF InstallLanding, Pages, Panels
<1>3. /\ r.pc = "rest" /\ r.attempted = p.attempted /\ r.consumed = p.consumed
      /\ r.doomed = p.doomed /\ r.dead = p.dead /\ r.init = p.init
  BY <1>1 DEF InstallLanding, Pages
<1>4. ~GivenUp(r)
  BY <1>1, <1>3 DEF Sound, GivenUp
<1>5. ~p.doomed /\ \A w \in p.dead : p.init[w] # "resolved"
  BY <1>1, <1>3, <1>4 DEF Sound, GivenUp
<1>6. r.attempted => r.consumed
  BY <1>1, <1>3 DEF Sound
<1>7. Sound(r)
  <2>. HIDE DEF r
  <2>. QED
    BY <1>3, <1>4, <1>5, <1>6 DEF Sound, Booting, Loading
<1>. QED
  BY <1>2, <1>7 DEF Good

\* Another worker can be numbered while the bound leaves one.
LEMMA NextWorker ==
  ASSUME NEW p \in Pages, Spawned(p) < MaxSpawns
  PROVE  Spawned(p) + 1 \in Workers
<1>. DEFINE S == {n \in Workers : p.init[n] # "none"}
<1>1. IsFiniteSet(Workers)
  BY FS_Interval, BoundAssumption DEF Workers
<1>2. IsFiniteSet(S)
  BY <1>1, FS_Subset
<1>3. Cardinality(S) \in Nat
  BY <1>2, FS_CardinalityType
<1>. QED
  BY <1>3, BoundAssumption DEF Spawned, Workers

\* A page that was not given up may boot, again if need be.
LEMMA BootIsGood ==
  ASSUME NEW p, Good(p), ~GivenUp(p), CanBoot(p)
  PROVE  Good(bootDirectoryAsApp(p))
<1>1. p \in Pages /\ Sound(p) /\ 1 \in Workers
  BY BoundAssumption DEF Good, Workers
<1>. DEFINE a == [p EXCEPT !.attempted = TRUE, !.pc = "provider",
                           !.shown = @ \cup {"shell", "loading"}]
            b == startBootWatchdog(a)
            n == Spawned(b) + 1
<1>2. a \in Pages
  BY <1>1 DEF Pages, Panels, Booting, Loading
<1>3. /\ a.attempted /\ a.pc = "provider" /\ a.consumed = p.consumed /\ a.warmRef = p.warmRef
      /\ a.init = p.init /\ a.dead = p.dead /\ a.doomed = p.doomed
  BY <1>1 DEF Pages
<1>. HIDE DEF a
<1>4. b \in Pages
  BY <1>2 DEF startBootWatchdog, Pages
<1>5. /\ b.attempted /\ b.pc = "provider" /\ b.consumed = p.consumed /\ b.warmRef = p.warmRef
      /\ b.init = p.init /\ b.dead = p.dead /\ b.doomed = p.doomed
  BY <1>2, <1>3 DEF startBootWatchdog, Pages
<1>6. bootDirectoryAsApp(p) = pickDataProvider(b)
  BY DEF bootDirectoryAsApp, a
<1>. HIDE DEF b
<1>7. ~p.doomed /\ \A w \in p.dead : p.init[w] # "resolved"
  BY <1>1 DEF Sound
<1>8. CASE p.consumed /\ ~p.warmRef
  <2>. DEFINE q == [b EXCEPT !.init[n] = "pending", !.awaits = n]
  <2>1. Spawned(b) = Spawned(p)
    BY <1>5 DEF Spawned
  <2>2. Spawned(p) < MaxSpawns
    BY <1>8 DEF CanBoot
  <2>3. n \in Workers
    BY <1>1, <2>1, <2>2, NextWorker
  <2>4. bootDirectoryAsApp(p) = q
    BY <1>5, <1>6, <1>8 DEF pickDataProvider
  <2>. HIDE DEF n
  <2>5. q \in Pages
    BY <1>4, <2>3 DEF Pages
  <2>6. /\ q.attempted /\ q.pc = "provider" /\ q.consumed /\ ~q.doomed /\ q.dead = p.dead
        /\ q.init = [p.init EXCEPT ![n] = "pending"]
    BY <1>4, <1>5, <1>7, <1>8 DEF Pages
  <2>. HIDE DEF q
  <2>7. \A w \in p.dead : q.init[w] # "resolved"
    BY <1>1, <1>7, <2>3, <2>6 DEF Pages
  <2>8. Sound(q)
    BY <2>6, <2>7 DEF Sound, GivenUp, Booting, Loading
  <2>. QED
    BY <2>4, <2>5, <2>8 DEF Good
<1>9. CASE ~(p.consumed /\ ~p.warmRef)
  <2>. DEFINE q == [b EXCEPT !.consumed = TRUE, !.awaits = 1]
  <2>1. bootDirectoryAsApp(p) = q
    BY <1>5, <1>6, <1>9 DEF pickDataProvider
  <2>2. q \in Pages
    BY <1>1, <1>4 DEF Pages
  <2>3. /\ q.attempted /\ q.pc = "provider" /\ q.consumed /\ ~q.doomed /\ q.dead = p.dead
        /\ q.init = p.init
    BY <1>4, <1>5, <1>7 DEF Pages
  <2>. HIDE DEF q
  <2>4. Sound(q)
    BY <1>7, <2>3 DEF Sound, GivenUp, Booting, Loading
  <2>. QED
    BY <2>1, <2>2, <2>4 DEF Good
<1>. QED
  BY <1>8, <1>9

\* A boot that fails leaves its page at rest, or asking the server once more.
LEMMA BootFailsGood ==
  ASSUME NEW p, Good(p), p.pc \in Booting, NEW refused \in BOOLEAN
  PROVE  Good(BootFails(p, refused))
<1>1. p \in Pages /\ Sound(p) /\ p.attempted /\ p.consumed
  BY DEF Good, Sound
<1>. DEFINE q == clearBootWatchdog(p)
<1>2. q \in Pages
  BY <1>1 DEF clearBootWatchdog, Pages
<1>3. /\ q.attempted /\ q.consumed /\ q.dead = p.dead /\ q.init = p.init /\ q.doomed = p.doomed
      /\ q.shown = p.shown
  BY <1>1 DEF clearBootWatchdog, Pages
<1>. HIDE DEF q
<1>4. ~p.doomed /\ \A w \in p.dead : p.init[w] # "resolved"
  BY <1>1 DEF Sound, GivenUp
<1>5. ASSUME NEW c \in {"rest", "status"}, NEW s \in SUBSET Panels
      PROVE  Good([q EXCEPT !.pc = c, !.shown = s])
  <2>. DEFINE r == [q EXCEPT !.pc = c, !.shown = s]
  <2>1. r \in Pages
    BY <1>2 DEF Pages
  <2>2. r.pc = c /\ r.attempted /\ r.consumed /\ ~r.doomed /\ r.dead = p.dead /\ r.init = p.init
    BY <1>2, <1>3, <1>4 DEF Pages
  <2>. HIDE DEF r
  <2>3. Sound(r)
    BY <1>4, <2>2 DEF Sound, GivenUp, Booting, Loading
  <2>4. Good(r)
    BY <2>1, <2>3 DEF Good
  <2>. QED
    BY <2>4 DEF r
<1>6. q.shown \in SUBSET Panels
  BY <1>2 DEF Pages
<1>7. Good(showBootFailure(q))
  <2>1. (q.shown \ {"loading"}) \cup {"bootError"} \in SUBSET Panels
    BY <1>6 DEF Panels
  <2>. QED
    BY <1>5, <2>1 DEF showBootFailure
<1>8. Good(startBrowserUx([q EXCEPT !.shown = @ \ {"shell", "loading"}]))
  <2>1. q.shown \ {"shell", "loading"} \in SUBSET Panels
    BY <1>6
  <2>2. startBrowserUx([q EXCEPT !.shown = @ \ {"shell", "loading"}])
          = [q EXCEPT !.pc = "status", !.shown = q.shown \ {"shell", "loading"}]
    BY <1>2 DEF startBrowserUx, Pages
  <2>. QED
    BY <1>5, <2>1, <2>2
<1>9. BootFails(p, refused) \in
        {showBootFailure(q), startBrowserUx([q EXCEPT !.shown = @ \ {"shell", "loading"}])}
  BY DEF BootFails, q
<1>. QED
  BY <1>7, <1>8, <1>9

\* Nothing that Sound speaks of has changed, but for panels other than the landing.
LEMMA SameIsGood ==
  ASSUME NEW p, Good(p), NEW q \in Pages,
         q.pc = p.pc, q.attempted = p.attempted, q.consumed = p.consumed, q.listening = p.listening,
         q.doomed = p.doomed, q.dead = p.dead, q.init = p.init, q.awaits = p.awaits,
         q.adopted = p.adopted, "landing" \in q.shown => "landing" \in p.shown
  PROVE  Good(q)
BY DEF Good, Sound, GivenUp

\* A boot goes on to a step whose worker is up, or ends.
LEMMA OnwardIsGood ==
  ASSUME NEW p, Good(p), p.pc \in Booting, NEW q \in Pages,
         q.attempted = p.attempted, q.consumed = p.consumed,
         q.doomed = p.doomed, q.dead = p.dead, q.init = p.init,
         q.pc \in {"ensure", "list", "full", "rest"},
         q.pc = "ensure" => p.init[q.awaits] = "resolved",
         q.pc \in {"list", "full"} /\ q.adopted # 0 => p.init[q.adopted] = "resolved"
  PROVE  Good(q)
<1>1. p.attempted /\ p.consumed /\ ~p.doomed /\ ~GivenUp(p)
  BY DEF Good, Sound, GivenUp
<1>2. \A w \in p.dead : p.init[w] # "resolved"
  BY <1>1 DEF Good, Sound
<1>3. Sound(q)
  BY <1>1, <1>2 DEF Sound, GivenUp, Booting, Loading
<1>. QED
  BY <1>3 DEF Good

-----------------------------------------------------------------------------
(* The invariant.                                                          *)

Around ==
  /\ host \in Hosts
  /\ disk \in [marker : BOOLEAN, mirror : BOOLEAN, opfs : BOOLEAN]
  /\ session \in {"none", "valid", "recent"}
  /\ link \in {"none", "live", "used"}
  /\ fresh \in BOOLEAN
  /\ standalone \in [real : BOOLEAN, seen : BOOLEAN]
  /\ holder \in Workers \cup {Nobody, Other, Gone}

Inv == Around /\ Good(page)

LEMMA InvIsTypeOK == Inv => TypeOK
BY DEF Inv, Around, Good, Pages, TypeOK

LEMMA InitIsSound == Init => Inv
<1>. SUFFICES ASSUME Init PROVE Inv
  OBVIOUS
<1>2. PICK url \in Urls \ {"reset"}, real \in BOOLEAN :
        standalone = [real |-> real, seen |-> FALSE] /\ page = Load(url, FALSE)
  BY DEF Init
<1>1. Around
  BY <1>2 DEF Init, Around
<1>. QED
  BY <1>1, <1>2, LoadIsGood DEF Inv

LEMMA NavigateIsSound ==
  ASSUME Inv, NEW url \in Urls, NEW redeemed \in BOOLEAN, Navigate(Load(url, redeemed))
  PROVE  Good(page') /\ holder' \in Workers \cup {Nobody, Other, Gone}
BY LoadIsGood DEF Navigate, Inv, Around

LEMMA ServerIsSound ==
  ASSUME Inv, Server \/ HandlesClose \/ OtherWindow
  PROVE  Inv'
<1>1. page' = page
  BY DEF Server, SendUnlock, ScannerOpens, LinkAges, SessionEnds, HandlesClose, OtherWindow
<1>2. Around'
  BY DEF Inv, Around, Server, SendUnlock, ScannerOpens, LinkAges, SessionEnds, HandlesClose,
         OtherWindow, consume_token
<1>. QED
  BY <1>1, <1>2 DEF Inv

LEMMA AnswersAreSound ==
  ASSUME Inv, Answers
  PROVE  Inv'
<1>1. page \in Pages /\ Good(page) /\ Sound(page) /\ Around
  BY DEF Inv, Good
<1>2. CASE tryUnlockFromHash
  <2>1. Around'
    BY ZenonT(60), <1>1, <1>2 DEF tryUnlockFromHash, Around, consume_token, Become, Navigate
  <2>2. page' = [page EXCEPT !.url = "plain", !.pc = "dispatch"] \/ page' = Load("gate", TRUE)
    BY <1>2 DEF tryUnlockFromHash, Become, Navigate
  <2>3. ASSUME page' = [page EXCEPT !.url = "plain", !.pc = "dispatch"] PROVE Good(page')
    <3>1. page.pc = "unlock"
      BY <1>2 DEF tryUnlockFromHash
    <3>2. page' \in Pages
      BY <1>1, <2>3 DEF Pages, Urls
    <3>3. /\ page'.pc = "dispatch" /\ page'.attempted = page.attempted
          /\ page'.consumed = page.consumed /\ page'.listening = page.listening
          /\ page'.shown = page.shown /\ page'.doomed = page.doomed /\ page'.dead = page.dead
          /\ page'.init = page.init
      BY <1>1, <2>3 DEF Pages
    <3>. QED
      BY <1>1, <3>1, <3>2, <3>3 DEF Good, Sound, GivenUp, Booting, Loading
  <2>4. Good(Load("gate", TRUE))
    BY LoadIsGood DEF Urls
  <2>. QED
    BY <2>1, <2>2, <2>3, <2>4 DEF Inv
<1>3. CASE RunDispatcher
  <2>. DEFINE p == [page EXCEPT !.url = IF @ = "link" THEN "plain" ELSE @]
  <2>1. Around' /\ page' = Dispatch(p, disk, standalone.seen) /\ page.pc = "dispatch"
    BY <1>1, <1>3 DEF RunDispatcher, Around, Become
  <2>2. p \in Pages
    BY <1>1 DEF Pages, Urls
  <2>3. /\ p.pc = page.pc /\ p.attempted = page.attempted /\ p.consumed = page.consumed
        /\ p.listening = page.listening /\ p.shown = page.shown /\ p.doomed = page.doomed
        /\ p.dead = page.dead /\ p.init = page.init /\ p.awaits = page.awaits
        /\ p.adopted = page.adopted
    BY <1>1 DEF Pages
  <2>. HIDE DEF p
  <2>4. Good(p)
    BY <1>1, <2>2, <2>3, SameIsGood
  <2>5. ~p.consumed
    BY <1>1, <2>1, <2>3 DEF Sound
  <2>6. Good(bootDirectoryAsApp(p))
    BY <2>4, <2>5, BootIsGood DEF GivenUp, CanBoot
  <2>7. Good(startBrowserUx(p))
    <3>. DEFINE q == startBrowserUx(p)
    <3>1. q \in Pages
      BY <2>2 DEF startBrowserUx, Pages
    <3>2. /\ q.pc = "status" /\ q.attempted = p.attempted /\ q.consumed = p.consumed
          /\ q.listening = p.listening /\ q.shown = p.shown /\ q.doomed = p.doomed
          /\ q.dead = p.dead /\ q.init = p.init
      BY <2>2 DEF startBrowserUx, Pages
    <3>. HIDE DEF q
    <3>3. Sound(q)
      BY <1>1, <2>1, <2>3, <3>2 DEF Sound, GivenUp, Booting, Loading
    <3>. QED
      BY <3>1, <3>3 DEF Good, q
  <2>. QED
    BY <2>1, <2>6, <2>7 DEF Dispatch, Inv
<1>4. CASE StatusFails
  <2>1. Around' /\ page' \in {initEmailGate(page), showAuthFailure(page)} /\ page.pc = "status"
    BY <1>1, <1>4 DEF StatusFails, Around, Become
  <2>. QED
    BY <1>1, <2>1, GateIsGood DEF Inv
<1>5. CASE reloadIfBuildChanged
  <2>1. page.url \in Urls /\ page.redeemed \in BOOLEAN
    BY <1>1 DEF Pages
  <2>. QED
    BY <1>1, <1>5, <2>1, NavigateIsSound DEF reloadIfBuildChanged, Inv, Around
<1>6. CASE StatusAnswers
  <2>1. page.pc = "status"
    BY <1>6 DEF StatusAnswers
  <2>2. disk' \in [marker : BOOLEAN, mirror : BOOLEAN, opfs : BOOLEAN]
    BY <1>1, <1>6 DEF StatusAnswers, Around, authenticated, AuthEnabled, LateStandalone
  <2>3. Around'
    BY <1>1, <1>6, <2>2 DEF StatusAnswers, Around, Become
  <2>4. \/ CanBoot(page) /\ page' = bootDirectoryAsApp(page)
        \/ page' \in {InstallLanding(page), initEmailGate(page)}
    BY <1>6 DEF StatusAnswers, Become
  <2>5. ~GivenUp(page)
    BY <1>1, <2>1 DEF Sound, GivenUp
  <2>. QED
    BY <1>1, <2>1, <2>3, <2>4, <2>5, BootIsGood, LandingIsGood, GateIsGood DEF Inv
<1>. QED
  BY <1>2, <1>3, <1>4, <1>5, <1>6 DEF Answers

\* On the landing, or when a landing learns that its window is the installed app.
LEMMA LandingBootsAreSound ==
  ASSUME Inv, UseInTab \/ DisplayModeFlips
  PROVE  Inv'
<1>1. page \in Pages /\ Good(page) /\ Sound(page) /\ Around
  BY DEF Inv, Good
<1>. DEFINE p == [page EXCEPT !.shown = @ \ {"landing"}]
<1>2. p \in Pages
  BY <1>1 DEF Pages
<1>3. /\ p.pc = page.pc /\ p.attempted = page.attempted /\ p.consumed = page.consumed
      /\ p.listening = page.listening /\ p.doomed = page.doomed
      /\ p.dead = page.dead /\ p.init = page.init /\ p.awaits = page.awaits
      /\ p.adopted = page.adopted /\ "landing" \notin p.shown /\ p.warmRef = page.warmRef
  BY <1>1 DEF Pages
<1>. HIDE DEF p
<1>4. Good(p)
  BY <1>1, <1>2, <1>3, SameIsGood
<1>5. CanBoot(page) => CanBoot(p)
  BY <1>3 DEF CanBoot, Spawned
<1>6. ASSUME "landing" \in page.shown \/ (page.listening /\ ~page.attempted)
      PROVE  ~GivenUp(p)
  BY <1>1, <1>3, <1>6 DEF Sound, GivenUp
<1>7. disk' \in [marker : BOOLEAN, mirror : BOOLEAN, opfs : BOOLEAN]
  BY <1>1 DEF UseInTab, DisplayModeFlips, Around
<1>8. standalone' \in [real : BOOLEAN, seen : BOOLEAN]
  BY <1>1 DEF UseInTab, DisplayModeFlips, Around
<1>9. Around'
  BY <1>1, <1>7, <1>8 DEF UseInTab, DisplayModeFlips, Around, Become
<1>10. \/ page' = page
       \/ /\ CanBoot(page) /\ page' = bootDirectoryAsApp(p)
          /\ "landing" \in page.shown \/ (page.listening /\ ~page.attempted)
  BY DEF UseInTab, DisplayModeFlips, Become, p
<1>. QED
  BY <1>1, <1>4, <1>5, <1>6, <1>9, <1>10, BootIsGood DEF Inv

LEMMA WorkersAreSound ==
  ASSUME Inv, WorkerSteps
  PROVE  Inv'
<1>1. page \in Pages /\ Good(page) /\ Sound(page) /\ Around
  BY DEF Inv, Good
<1>2. PICK w \in Workers : WorkerAttaches(w) \/ WorkerReady(w) \/ WorkerFails(w)
  BY DEF WorkerSteps
<1>3. Around'
  BY <1>1, <1>2 DEF WorkerAttaches, WorkerReady, WorkerFails, Around, Become
<1>4. Pending(w)
  BY <1>2 DEF WorkerAttaches, WorkerReady, WorkerFails
<1>5. CASE WorkerAttaches(w)
  BY <1>1, <1>3, <1>5 DEF WorkerAttaches, Inv
<1>6. CASE WorkerReady(w)
  <2>. DEFINE d == IF w = 1 /\ page.doomed THEN page.dead \cup {1} ELSE page.dead
              r == page.warmRef \/ w = 1
  <2>1. page' = [page EXCEPT !.init[w] = "resolved", !.warmRef = r, !.dead = d]
    BY <1>6 DEF WorkerReady, Become
  <2>2. d \in SUBSET Workers /\ r \in BOOLEAN
    BY <1>1, <1>2 DEF Pages
  <2>3. d = page.dead \/ page.doomed
    OBVIOUS
  <2>. HIDE DEF d, r
  <2>4. page' \in Pages
    BY <1>1, <2>1, <2>2 DEF Pages
  <2>5. /\ page'.pc = page.pc /\ page'.attempted = page.attempted
        /\ page'.consumed = page.consumed /\ page'.listening = page.listening
        /\ page'.shown = page.shown /\ page'.doomed = page.doomed /\ page'.dead = d
        /\ page'.awaits = page.awaits /\ page'.adopted = page.adopted
    BY <1>1, <2>1 DEF Pages
  <2>6. /\ page'.init[w] = "resolved"
        /\ \A v \in Workers : v # w => page'.init[v] = page.init[v]
    BY <1>1, <1>2, <2>1 DEF Pages
  <2>7. GivenUp(page') <=> GivenUp(page)
    BY <2>5 DEF GivenUp
  <2>8. \A v \in page'.dead : GivenUp(page') \/ page'.init[v] # "resolved"
    BY <1>1, <1>4, <2>2, <2>3, <2>5, <2>6, <2>7 DEF Sound, Pending, Pages
  <2>9. page'.pc = "ensure" => page'.init[page'.awaits] = "resolved"
    BY <1>1, <2>5, <2>6 DEF Sound, Pages
  <2>10. page'.pc \in {"list", "full"} /\ page'.adopted # 0
           => page'.init[page'.adopted] = "resolved"
    <3>1. page.adopted # 0 => page.adopted \in Workers
      BY <1>1, BoundAssumption DEF Pages, Workers
    <3>. QED
      BY <1>1, <3>1, <2>5, <2>6 DEF Sound
  <2>11. Sound(page')
    BY <1>1, <2>5, <2>7, <2>8, <2>9, <2>10 DEF Sound
  <2>. QED
    BY <1>3, <2>4, <2>11 DEF Inv, Good
<1>7. CASE WorkerFails(w)
  <2>1. PICK c \in BOOLEAN :
          page' = [page EXCEPT !.init[w] = "rejected", !.dead = @ \cup {w}, !.conflict = @ \/ c]
    BY <1>7 DEF WorkerFails, Become
  <2>2. page' \in Pages
    BY <1>1, <1>2, <2>1 DEF Pages
  <2>3. /\ page'.pc = page.pc /\ page'.attempted = page.attempted
        /\ page'.consumed = page.consumed /\ page'.listening = page.listening
        /\ page'.shown = page.shown /\ page'.doomed = page.doomed
        /\ page'.dead = page.dead \cup {w}
        /\ page'.awaits = page.awaits /\ page'.adopted = page.adopted
    BY <1>1, <2>1 DEF Pages
  <2>4. /\ page'.init[w] = "rejected"
        /\ \A v \in Workers : v # w => page'.init[v] = page.init[v]
    BY <1>1, <1>2, <2>1 DEF Pages
  <2>5. GivenUp(page') <=> GivenUp(page)
    BY <2>3 DEF GivenUp
  <2>6. \A v \in page'.dead : GivenUp(page') \/ page'.init[v] # "resolved"
    BY <1>1, <2>3, <2>4, <2>5 DEF Sound, Pages
  <2>7. page'.pc = "ensure" => page'.init[page'.awaits] = "resolved"
    BY <1>1, <1>4, <2>3, <2>4 DEF Sound, Pages, Pending
  <2>8. page'.pc \in {"list", "full"} /\ page'.adopted # 0
           => page'.init[page'.adopted] = "resolved"
    <3>1. page.adopted # 0 => page.adopted \in Workers
      BY <1>1, BoundAssumption DEF Pages, Workers
    <3>. QED
      BY <1>1, <1>4, <3>1, <2>3, <2>4 DEF Sound, Pending
  <2>9. Sound(page')
    BY <1>1, <2>3, <2>5, <2>6, <2>7, <2>8 DEF Sound
  <2>. QED
    BY <1>3, <2>2, <2>9 DEF Inv, Good
<1>. QED
  BY <1>2, <1>5, <1>6, <1>7

LEMMA BootStepsAreSound ==
  ASSUME Inv, Boot
  PROVE  Inv'
<1>1. page \in Pages /\ Good(page) /\ Sound(page) /\ Around /\ 0 \in 0..MaxSpawns
  BY BoundAssumption DEF Inv, Good
<1>2. page.pc \in Booting
  BY DEF Boot, ProviderSettles, EnsureAnswers, ListAnswers, FullAnswers, Booting, Loading
<1>3. disk' \in [marker : BOOLEAN, mirror : BOOLEAN, opfs : BOOLEAN]
  <2>1. CASE ProviderSettles
    BY <1>1, <2>1 DEF ProviderSettles, Around
  <2>2. CASE EnsureAnswers
    BY <1>1, <2>2 DEF EnsureAnswers, Around
  <2>3. CASE ListAnswers
    BY <1>1, <2>3 DEF ListAnswers, Around
  <2>4. CASE FullAnswers
    <3>1. page.cached \in BOOLEAN /\ Refused \in BOOLEAN
      BY <1>1 DEF Pages, Refused
    <3>2. disk' = disk \/ disk' = [disk EXCEPT !.mirror = @ \/ ~(page.cached \/ Refused)]
      BY <2>4 DEF FullAnswers
    <3>. QED
      BY <1>1, <3>1, <3>2 DEF Around
  <2>. QED
    BY <2>1, <2>2, <2>3, <2>4 DEF Boot
<1>4. Around'
  BY <1>1, <1>3 DEF Boot, ProviderSettles, EnsureAnswers, ListAnswers, FullAnswers, Around, Become
<1>5. Good(BootFails(page, TRUE)) /\ Good(BootFails(page, FALSE))
  BY <1>1, <1>2, BootFailsGood
<1>6. \A w \in {page.awaits} : w \in Workers /\ w \in 0..MaxSpawns
  BY <1>1, BoundAssumption DEF Pages, Workers
<1>7. ASSUME NEW q, q = [page EXCEPT !.pc = "list", !.adopted = 0] PROVE Good(q)
  <2>1. q \in Pages
    BY <1>1, <1>7 DEF Pages, Booting, Loading
  <2>2. /\ q.attempted = page.attempted /\ q.consumed = page.consumed /\ q.doomed = page.doomed
        /\ q.dead = page.dead /\ q.init = page.init /\ q.pc = "list" /\ q.adopted = 0
    BY <1>1, <1>7 DEF Pages
  <2>. QED
    BY <1>1, <1>2, <2>1, <2>2, OnwardIsGood
<1>8. createApiPlusIdbDataProvider([page EXCEPT !.pc = "list"])
        = [page EXCEPT !.pc = "list", !.adopted = 0]
  BY <1>1 DEF createApiPlusIdbDataProvider, Pages
<1>9. CASE ProviderSettles
  <2>1. CASE page.init[page.awaits] = "resolved" /\ page' = [page EXCEPT !.pc = "ensure"]
    <3>1. page' \in Pages
      BY <1>1, <2>1 DEF Pages, Booting, Loading
    <3>2. /\ page'.attempted = page.attempted /\ page'.consumed = page.consumed
          /\ page'.doomed = page.doomed /\ page'.dead = page.dead /\ page'.init = page.init
          /\ page'.pc = "ensure" /\ page'.awaits = page.awaits
      BY <1>1, <2>1 DEF Pages
    <3>3. Good(page')
      BY <1>1, <1>2, <2>1, <3>1, <3>2, OnwardIsGood
    <3>. QED
      BY <1>4, <3>3 DEF Inv
  <2>. QED
    BY <1>4, <1>7, <1>8, <1>9, <2>1 DEF ProviderSettles, Become, Inv
<1>10. CASE EnsureAnswers
  <2>1. page.pc = "ensure" /\ page.init[page.awaits] = "resolved"
    BY <1>1, <1>10 DEF EnsureAnswers, Sound
  <2>2. CASE page' = [page EXCEPT !.pc = "list", !.adopted = page.awaits]
    <3>1. page' \in Pages
      BY <1>1, <1>6, <2>2 DEF Pages, Booting, Loading
    <3>2. /\ page'.attempted = page.attempted /\ page'.consumed = page.consumed
          /\ page'.doomed = page.doomed /\ page'.dead = page.dead /\ page'.init = page.init
          /\ page'.pc = "list" /\ page'.adopted = page.awaits
      BY <1>1, <2>2 DEF Pages
    <3>3. Good(page')
      BY <1>1, <1>2, <2>1, <3>1, <3>2, OnwardIsGood
    <3>. QED
      BY <1>4, <3>3 DEF Inv
  <2>3. page' = [page EXCEPT !.pc = "list", !.adopted = page.awaits]
        \/ page' \in {createApiPlusIdbDataProvider([page EXCEPT !.pc = "list"]),
                      BootFails(page, FALSE)}
    BY <1>10 DEF EnsureAnswers, Become
  <2>. QED
    BY <1>4, <1>5, <1>7, <1>8, <2>2, <2>3 DEF Inv
<1>11. CASE ListAnswers
  <2>1. page.pc = "list"
    BY <1>11 DEF ListAnswers
  <2>2. CASE page' = ShowList([page EXCEPT !.cached = @ \/ Refused])
    <3>. DEFINE a == [page EXCEPT !.cached = @ \/ Refused]
                b == [a EXCEPT !.pc = "full", !.shown = (@ \ {"loading"}) \cup {"app"}]
    <3>1. a \in Pages
      BY <1>1 DEF Pages, Refused
    <3>2. /\ a.attempted = page.attempted /\ a.consumed = page.consumed
          /\ a.doomed = page.doomed /\ a.dead = page.dead /\ a.init = page.init
          /\ a.adopted = page.adopted
      BY <1>1 DEF Pages
    <3>. HIDE DEF a
    <3>3. b \in Pages
      BY <3>1 DEF Pages, Panels, Booting, Loading
    <3>4. /\ b.attempted = page.attempted /\ b.consumed = page.consumed
          /\ b.doomed = page.doomed /\ b.dead = page.dead /\ b.init = page.init
          /\ b.adopted = page.adopted /\ b.pc = "full"
      BY <3>1, <3>2 DEF Pages
    <3>5. page' = clearBootWatchdog(b)
      BY <2>2 DEF ShowList, a
    <3>. HIDE DEF b
    <3>6. page' \in Pages
      BY <3>3, <3>5 DEF clearBootWatchdog, Pages
    <3>7. /\ page'.attempted = page.attempted /\ page'.consumed = page.consumed
          /\ page'.doomed = page.doomed /\ page'.dead = page.dead /\ page'.init = page.init
          /\ page'.adopted = page.adopted /\ page'.pc = "full"
      BY <3>3, <3>4, <3>5 DEF clearBootWatchdog, Pages
    <3>8. page.adopted # 0 => page.init[page.adopted] = "resolved"
      BY <1>1, <2>1 DEF Sound
    <3>9. Good(page')
      BY <1>1, <1>2, <3>6, <3>7, <3>8, OnwardIsGood
    <3>. QED
      BY <1>4, <3>9 DEF Inv
  <2>3. page' \in {ShowList([page EXCEPT !.cached = @ \/ Refused]),
                  BootFails(page, TRUE), BootFails(page, FALSE)}
    BY <1>11 DEF ListAnswers, Become
  <2>. QED
    BY <1>4, <1>5, <2>2, <2>3 DEF Inv
<1>12. CASE FullAnswers
  <2>1. CASE page' = [page EXCEPT !.pc = "rest", !.cached = @ \/ Refused]
    <3>1. page' \in Pages
      BY ZenonT(60), <1>1, <2>1 DEF Pages, Refused
    <3>2. /\ page'.attempted = page.attempted /\ page'.consumed = page.consumed
          /\ page'.doomed = page.doomed /\ page'.dead = page.dead /\ page'.init = page.init
          /\ page'.pc = "rest"
      BY <1>1, <2>1 DEF Pages
    <3>3. Good(page')
      BY <1>1, <1>2, <3>1, <3>2, OnwardIsGood
    <3>. QED
      BY <1>4, <3>3 DEF Inv
  <2>2. page' \in {[page EXCEPT !.pc = "rest", !.cached = @ \/ Refused],
                  BootFails(page, TRUE), BootFails(page, FALSE)}
    BY <1>12 DEF FullAnswers, Become
  <2>. QED
    BY <1>4, <1>5, <2>1, <2>2 DEF Inv
<1>. QED
  BY <1>9, <1>10, <1>11, <1>12 DEF Boot

LEMMA ReloadsAreSound ==
  ASSUME Inv, BackToGate \/ clearAllAppData \/ ForceGate \/ Visit \/ WipeAnswers
  PROVE  Inv'
<1>1. page \in Pages /\ Around
  BY DEF Inv, Good
<1>2. PICK url \in Urls, redeemed \in BOOLEAN : Navigate(Load(url, redeemed))
  BY <1>1 DEF BackToGate, clearAllAppData, ForceGate, Visit, WipeAnswers, Urls, Pages
<1>3. disk' \in [marker : BOOLEAN, mirror : BOOLEAN, opfs : BOOLEAN]
  <2>1. (disk.opfs /\ WipesWith = {}) \in BOOLEAN
    OBVIOUS
  <2>2. WipeAnswers => disk' \in [marker : BOOLEAN, mirror : BOOLEAN, opfs : BOOLEAN]
    BY <2>1 DEF WipeAnswers
  <2>3. clearAllAppData \/ ForceGate => disk' \in [marker : BOOLEAN, mirror : BOOLEAN, opfs : BOOLEAN]
    BY <1>1 DEF clearAllAppData, ForceGate, Around
  <2>4. BackToGate \/ Visit => disk' = disk
    BY DEF BackToGate, Visit
  <2>. QED
    BY <1>1, <2>2, <2>3, <2>4 DEF Around
<1>4. standalone' \in [real : BOOLEAN, seen : BOOLEAN]
  <2>1. Visit => standalone' \in [real : BOOLEAN, seen : BOOLEAN]
    BY DEF Visit
  <2>2. BackToGate \/ clearAllAppData \/ ForceGate \/ WipeAnswers => standalone' = standalone
    BY DEF BackToGate, clearAllAppData, ForceGate, WipeAnswers
  <2>. QED
    BY <1>1, <2>1, <2>2 DEF Around
<1>5. /\ host' = host /\ link' = link /\ fresh' = fresh
      /\ session' \in {session, "none"}
  BY DEF BackToGate, clearAllAppData, ForceGate, Visit, WipeAnswers
<1>6. Good(page') /\ holder' \in Workers \cup {Nobody, Other, Gone}
  BY <1>2, NavigateIsSound
<1>7. Around'
  BY <1>1, <1>3, <1>4, <1>5, <1>6 DEF Around
<1>. QED
  BY <1>6, <1>7 DEF Inv

LEMMA PanelsAreSound ==
  ASSUME Inv, WatchdogFires \/ RepeatWindowEnds \/ clearEverything
  PROVE  Inv'
<1>. DEFINE Same ==
       /\ page'.pc = page.pc /\ page'.attempted = page.attempted /\ page'.consumed = page.consumed
       /\ page'.listening = page.listening /\ page'.doomed = page.doomed
       /\ page'.dead = page.dead /\ page'.init = page.init /\ page'.awaits = page.awaits
       /\ page'.adopted = page.adopted /\ ("landing" \in page'.shown => "landing" \in page.shown)
<1>1. page \in Pages /\ Good(page) /\ Around
  BY DEF Inv, Good
<1>2. Around'
  BY <1>1 DEF WatchdogFires, RepeatWindowEnds, clearEverything, Around, Become
<1>3. page' \in Pages /\ Same
  <2>1. CASE WatchdogFires
    <3>1. page' = [page EXCEPT !.watch = "fired", !.shown = (@ \ {"loading"}) \cup {"stuck"}]
      BY <2>1 DEF WatchdogFires, Become
    <3>. QED
      BY <1>1, <3>1 DEF Pages, Panels
  <2>2. CASE RepeatWindowEnds
    <3>1. page' = [page EXCEPT !.url = "plain"]
      BY <2>2 DEF RepeatWindowEnds, Become
    <3>. QED
      BY <1>1, <3>1 DEF Pages, Urls
  <2>3. CASE clearEverything
    <3>1. page' = [page EXCEPT !.resetting = TRUE]
      BY <2>3 DEF clearEverything, Become
    <3>. QED
      BY <1>1, <3>1 DEF Pages
  <2>. QED
    BY <2>1, <2>2, <2>3
<1>5. Good(page')
  BY <1>1, <1>3, SameIsGood
<1>. QED
  BY <1>2, <1>5 DEF Inv

LEMMA NextIsSound == ASSUME Inv, [Next]_vars PROVE Inv'
<1>1. CASE UNCHANGED vars
  BY <1>1 DEF vars, Inv, Around
<1>2. CASE Next
  BY <1>2, ServerIsSound, AnswersAreSound, LandingBootsAreSound, WorkersAreSound, BootStepsAreSound,
     ReloadsAreSound, PanelsAreSound DEF Next, Member
<1>. QED
  BY <1>1, <1>2

LEMMA AlwaysSound == Spec => []Inv
BY InitIsSound, NextIsSound, PTL DEF Spec

\* For any number of workers and whatever the member, the server, the browser and other windows do,
\* every variable keeps its type: a boot that spawns once more finds a worker within the bound.
THEOREM TypeCorrect == Spec => []TypeOK
BY AlwaysSound, InvIsTypeOK, PTL

\* No boot waits for, and no provider calls, a worker that its page has terminated, however the
\* gate, the landing, a late display mode and the init of the worker cross.
THEOREM BootsAreLive == Spec => []BootsOnLiveWorker
<1>1. Inv => BootsOnLiveWorker
  <2>. SUFFICES ASSUME Inv PROVE BootsOnLiveWorker
    OBVIOUS
  <2>1. page \in Pages /\ Sound(page)
    BY DEF Inv, Good
  <2>2. 0 \notin page.dead
    BY <2>1, BoundAssumption DEF Pages, Workers
  <2>3. page.pc \in {"ensure", "list", "full"} => \A w \in page.dead : page.init[w] # "resolved"
    BY <2>1 DEF Sound, GivenUp, Booting, Loading
  <2>. QED
    BY <2>1, <2>2, <2>3 DEF Sound, BootsOnLiveWorker
<1>. QED
  BY <1>1, AlwaysSound, PTL

-----------------------------------------------------------------------------
(* The link.                                                               *)

LEMMA LinkStays ==
  ASSUME fresh => link # "none", [Next]_vars
  PROVE  (fresh => link # "none")'
<1>1. CASE link' = link /\ fresh' = fresh
  BY <1>1
<1>2. CASE Server
  BY <1>2 DEF Server, SendUnlock, ScannerOpens, LinkAges, SessionEnds, consume_token
<1>3. CASE tryUnlockFromHash
  BY <1>3 DEF tryUnlockFromHash, consume_token
<1>4. Next => \/ Server \/ tryUnlockFromHash
              \/ link' = link /\ fresh' = fresh
  <2>1. Answers => tryUnlockFromHash \/ (link' = link /\ fresh' = fresh)
    BY DEF Answers, RunDispatcher, StatusFails, reloadIfBuildChanged, StatusAnswers
  <2>2. Boot \/ Member => link' = link /\ fresh' = fresh
    BY DEF Boot, ProviderSettles, EnsureAnswers, ListAnswers, FullAnswers, Member, UseInTab,
           BackToGate, clearAllAppData, ForceGate, clearEverything, Visit
  <2>3. WorkerSteps => link' = link /\ fresh' = fresh
    BY DEF WorkerSteps, WorkerAttaches, WorkerReady, WorkerFails
  <2>4. DisplayModeFlips \/ HandlesClose \/ OtherWindow \/ WatchdogFires \/ RepeatWindowEnds
          \/ WipeAnswers => link' = link /\ fresh' = fresh
    BY DEF DisplayModeFlips, HandlesClose, OtherWindow, WatchdogFires, RepeatWindowEnds, WipeAnswers
  <2>. QED
    BY <2>1, <2>2, <2>3, <2>4 DEF Next
<1>5. CASE UNCHANGED vars
  BY <1>5 DEF vars
<1>. QED
  BY <1>1, <1>2, <1>3, <1>4, <1>5

\* A link that a mail scanner or another device has opened still opens for the member, as often as
\* they try, until it ages or the server forgets it.
THEOREM LinkOpens == Spec => []LinkOpensUntilItAges
<1>1. Init => (fresh => link # "none")
  BY DEF Init
<1>2. (fresh => link # "none") => LinkOpensUntilItAges
  BY DEF LinkOpensUntilItAges, consume_token
<1>. QED
  BY <1>1, <1>2, LinkStays, PTL DEF Spec
=============================================================================
