----------------------------- MODULE PageStart -----------------------------
(***************************************************************************)
(* How one page of the app starts: the dispatcher, the e-mail gate and its *)
(* magic link, the install landing, the warm SQLite worker and the boot of *)
(* the directory with its three tiers (the worker's OPFS copy, the API,    *)
(* the IndexedDB mirror), the watchdog, and the two ways to start over     *)
(* ("Clear App Cache", "Reset Everything").                                *)
(*                                                                         *)
(* `page' is the JavaScript state of the open page and dies with it;       *)
(* `disk' is what survives a reload; `session' and `link' are the server's;*)
(* `holder' is the context whose worker owns the OPFS handles, which a     *)
(* terminated worker keeps until the browser closes them.                  *)
(***************************************************************************)
EXTENDS Naturals, FiniteSets

CONSTANTS MaxSpawns,   \* workers one page may start: a bound
          Hosts,       \* among "prod", "dev" (auth off, localhost), "staging" (auth off elsewhere)
          Nobody, Other, Gone   \* holders that are not a worker of this page

ASSUME BoundAssumption == MaxSpawns \in Nat \ {0}
ASSUME HoldersAssumption == {Nobody, Other, Gone} \cap Nat = {} /\ Nobody # Other /\ Nobody # Gone

Workers == 1..MaxSpawns          \* 1 is the warm worker
\* parseGateOverride, parseAppOverride, the link's token and recentCacheResetMs read the URL.
Urls    == {"plain", "gate", "app", "link", "reset"}
Panels  == {"shell", "loading", "app", "gate", "landing", "authError", "bootError", "stuck"}
Loading == {"provider", "ensure", "list"}
Booting == Loading \cup {"full"}

VARIABLES host,      \* which server the origin is
          disk,      \* localStorage marker, IndexedDB mirror, fellows.db in OPFS
          session,   \* the browser's session at the server
          link,      \* the server's record of the member's last link
          fresh,     \* history: that link is younger than its TTL and the server kept running
          standalone,\* [real, seen]: an installed window, and whether matchMedia says so yet
          holder, page

vars == <<host, disk, session, link, fresh, standalone, holder, page>>

OnlyWarm == [n \in Workers |-> IF n = 1 THEN "pending" ELSE "none"]

\* A page whose script has run up to the dispatcher: the warm worker is being spawned, and a link
\* is being redeemed unless this tab has tried it before.
Load(url, redeemed) ==
  [url |-> url, redeemed |-> redeemed \/ url = "link",
   pc |-> IF url = "link" /\ ~redeemed THEN "unlock" ELSE "dispatch", shown |-> {}, attempted |-> FALSE,
   listening |-> FALSE, watch |-> "idle", conflict |-> FALSE,
   cached |-> FALSE, init |-> OnlyWarm, dead |-> {}, warmRef |-> FALSE,
   consumed |-> FALSE, doomed |-> FALSE, awaits |-> 1, adopted |-> 0, resetting |-> FALSE]

\* The provider of a page without a worker: it has no wipeAll, and its reads are the server's.
createApiPlusIdbDataProvider(p) == [p EXCEPT !.adopted = 0]

AuthEnabled == host = "prod"
Spawned(p) == Cardinality({n \in Workers : p.init[n] # "none"})

-----------------------------------------------------------------------------
(* What the functions of the page do to its state.                         *)

terminate_only_if_up(p) ==
  IF p.consumed THEN p
  ELSE [p EXCEPT !.consumed = TRUE, !.warmRef = FALSE,
                 !.dead = IF p.init[1] = "resolved" THEN @ \cup {1} ELSE @]

terminateWarmWorkerIfStillWarm(p) ==
  IF p.consumed THEN p
  ELSE [p EXCEPT !.consumed = TRUE, !.warmRef = FALSE,
                 !.doomed = (p.init[1] = "pending"),
                 !.dead = IF p.init[1] = "resolved" THEN @ \cup {1} ELSE @]

\* The worker a boot waits for: the warm one, or a new one when that was given up or never came.
pickDataProvider(p) ==
  LET n == Spawned(p) + 1 IN
  IF p.consumed /\ ~p.warmRef
    THEN [p EXCEPT !.init[n] = "pending", !.awaits = n]
    ELSE [p EXCEPT !.consumed = TRUE, !.awaits = 1]

startBootWatchdog(p) == [p EXCEPT !.watch = IF @ = "idle" THEN "pending" ELSE @]
clearBootWatchdog(p) == [p EXCEPT !.watch = IF @ = "pending" THEN "cleared" ELSE @]

CanBoot(p) == (p.consumed /\ ~p.warmRef) => Spawned(p) < MaxSpawns

bootDirectoryAsApp(p) ==
  pickDataProvider(startBootWatchdog(
    [p EXCEPT !.attempted = TRUE, !.pc = "provider",
              !.shown = @ \cup {"shell", "loading"}]))

startBrowserUx(p) == [p EXCEPT !.pc = "status"]

\* The dispatcher at the end of the script; `seen' is what matchMedia answers.
shouldActAsApp(p, d, seen) == p.url # "gate" /\ (seen \/ d.marker)

Dispatch(p, d, seen) ==
  IF shouldActAsApp(p, d, seen) THEN bootDirectoryAsApp(p) ELSE startBrowserUx(p)

initEmailGate(p) ==
  [terminateWarmWorkerIfStillWarm(p) EXCEPT
     !.pc = "rest", !.shown = (@ \ {"landing", "shell", "loading", "app"}) \cup {"gate"}]

showAuthFailure(p) ==
  [terminateWarmWorkerIfStillWarm(p) EXCEPT
     !.pc = "rest", !.shown = (@ \ {"landing", "gate", "shell", "loading", "app"}) \cup {"authError"}]

showBootFailure(p) ==
  [p EXCEPT !.pc = "rest", !.shown = (@ \ {"loading"}) \cup {"bootError"}]

landing_terminates(p) ==
  [terminateWarmWorkerIfStillWarm(p) EXCEPT
     !.pc = "rest", !.listening = TRUE,
     !.shown = (@ \ {"gate", "shell", "loading", "app"}) \cup {"landing"}]

\* The landing keeps the warm worker: both ways on from it need one.
InstallLanding(p) ==
  [p EXCEPT !.pc = "rest", !.listening = TRUE,
            !.shown = (@ \ {"gate", "shell", "loading", "app"}) \cup {"landing"}]

-----------------------------------------------------------------------------
(* Steps shared by the actions.                                            *)

Become(p) ==
  /\ page' = p
  /\ UNCHANGED holder

\* A navigation: every worker of the old page is gone, its handles are closed later.
Navigate(p) ==
  /\ page' = p
  /\ holder' = IF holder \in Workers THEN Gone ELSE holder

-----------------------------------------------------------------------------
(* The magic link.                                                         *)

\* The member submits the gate's form (on this device or another) and the mail arrives.
SendUnlock ==
  /\ link' = "live" /\ fresh' = TRUE
  /\ UNCHANGED <<host, disk, session, standalone, holder, page>>

consume_once(l) == <<l # "none", "none">>

\* consume_token: <<accepted, what the server then knows of the link>>.  A link past its TTL is
\* told from one never issued only by the wording of the gate.
consume_token(l) == IF l = "none" THEN <<FALSE, "none">> ELSE <<TRUE, "used">>

\* Somebody else opens the link: a mail scanner, a second device.
ScannerOpens ==
  /\ link' = consume_token(link)[2]
  /\ UNCHANGED <<host, disk, session, fresh, standalone, holder, page>>

\* Thirty minutes after the issue the link and the install window end together.
LinkAges ==
  /\ fresh
  /\ fresh' = FALSE
  /\ link' = "none"
  /\ session' = IF session = "recent" THEN "valid" ELSE session
  /\ UNCHANGED <<host, disk, standalone, holder, page>>

\* The session ends: seven days, or a restart of the server, which also forgets the links.
SessionEnds ==
  /\ session' = "none"
  /\ \/ UNCHANGED <<link, fresh>>
     \/ link' = "none" /\ fresh' = FALSE
  /\ UNCHANGED <<host, disk, standalone, holder, page>>

\* tryUnlockFromHash: the answer of /api/verify-token; no answer counts as an invalid link.
tryUnlockFromHash ==
  /\ page.pc = "unlock"
  /\ LET answer == consume_token(link) IN
     \/ /\ answer[1]
        /\ session' = IF fresh THEN "recent" ELSE "valid"
        /\ link' = answer[2]
        /\ Become([page EXCEPT !.url = "plain", !.pc = "dispatch"])
     \/ /\ \/ ~answer[1] /\ link' = answer[2]
           \/ UNCHANGED link
        /\ UNCHANGED session
        /\ Navigate(Load("gate", TRUE))
  /\ UNCHANGED <<host, disk, fresh, standalone>>

\* The dispatcher; a link that this tab has tried is only stripped from the URL.
RunDispatcher ==
  /\ page.pc = "dispatch"
  /\ Become(Dispatch([page EXCEPT !.url = IF @ = "link" THEN "plain" ELSE @],
                     disk, standalone.seen))
  /\ UNCHANGED <<host, disk, session, link, fresh, standalone>>

-----------------------------------------------------------------------------
(* The answer of /api/auth/status and what the page shows for it.          *)

StatusFails ==
  /\ page.pc = "status"
  /\ Become(IF disk.marker THEN initEmailGate(page) ELSE showAuthFailure(page))
  /\ UNCHANGED <<host, disk, session, link, fresh, standalone>>

\* The server runs a build this profile has not seen yet: the page reloads.
reloadIfBuildChanged ==
  /\ page.pc = "status"
  /\ Navigate(Load(page.url, page.redeemed))
  /\ UNCHANGED <<host, disk, session, link, fresh, standalone>>

authenticated == AuthEnabled /\ session # "none"

\* The decision tree of startBrowserUx, in its order; "forced" is ?gate=1.
Verdict ==
  IF page.url = "gate" THEN "forced"
  ELSE IF authenticated /\ ~page.attempted /\ (page.url = "app" \/ standalone.seen) THEN "boot"
  ELSE IF AuthEnabled /\ standalone.seen THEN "gate"
  ELSE IF host = "dev" THEN "boot"
  ELSE IF host = "staging" \/ session = "recent" THEN "landing"
  ELSE "gate"

\* The landing looks at the display mode once more: the window may be the installed app after all.
LateStandalone == Verdict = "landing" /\ ~page.attempted /\ standalone.seen

StatusAnswers ==
  /\ page.pc = "status"
  /\ disk' = [disk EXCEPT !.marker = @ \/ (authenticated /\ Verdict # "forced") \/ LateStandalone]
  /\ IF Verdict = "boot" \/ LateStandalone
       THEN CanBoot(page) /\ Become(bootDirectoryAsApp(page))
       ELSE Become(IF Verdict = "landing" THEN InstallLanding(page) ELSE initEmailGate(page))
  /\ UNCHANGED <<host, session, link, fresh, standalone>>

-----------------------------------------------------------------------------
(* On the install landing.                                                 *)

UseInTab ==
  /\ "landing" \in page.shown
  /\ CanBoot(page)
  /\ disk' = [disk EXCEPT !.marker = TRUE]
  /\ Become(bootDirectoryAsApp([page EXCEPT !.shown = @ \ {"landing"}]))
  /\ UNCHANGED <<host, session, link, fresh, standalone>>

\* The logout may not reach the server; the page goes to the gate all the same.
BackToGate ==
  /\ "landing" \in page.shown
  /\ session' \in {session, "none"}
  /\ Navigate(Load("gate", page.redeemed))
  /\ UNCHANGED <<host, disk, link, fresh, standalone>>

\* matchMedia answers in a window of the installed app, maybe late; a landing that listens boots.
DisplayModeFlips ==
  /\ standalone.real /\ ~standalone.seen
  /\ standalone' = [standalone EXCEPT !.seen = TRUE]
  /\ IF page.listening /\ ~page.attempted
       THEN /\ CanBoot(page)
            /\ disk' = [disk EXCEPT !.marker = TRUE]
            /\ Become(bootDirectoryAsApp([page EXCEPT !.shown = @ \ {"landing"}]))
       ELSE UNCHANGED <<disk, page, holder>>
  /\ UNCHANGED <<host, session, link, fresh>>

-----------------------------------------------------------------------------
(* The workers of the page: spawnWorkerAndInit.                            *)

Pending(w) == page.init[w] = "pending" /\ w \notin page.dead

\* installOpfsSAHPoolVfs gets the handles ...
WorkerAttaches(w) ==
  /\ Pending(w) /\ holder = Nobody
  /\ holder' = w
  /\ UNCHANGED <<host, disk, session, link, fresh, standalone, page>>

\* ... and init answers.  A gate shown meanwhile terminates the worker right after.
WorkerReady(w) ==
  /\ Pending(w) /\ holder = w
  /\ Become([page EXCEPT !.init[w] = "resolved", !.warmRef = @ \/ w = 1,
                         !.dead = IF w = 1 /\ page.doomed THEN @ \cup {1} ELSE @])
  /\ UNCHANGED <<host, disk, session, link, fresh, standalone>>

\* init fails, is not answered in eight seconds, or finds another context owning the handles.
WorkerFails(w) ==
  /\ Pending(w)
  /\ \E conflict \in BOOLEAN :
       /\ conflict => holder \notin {Nobody, w}
       /\ Become([page EXCEPT !.init[w] = "rejected", !.dead = @ \cup {w},
                              !.conflict = @ \/ conflict])
  /\ UNCHANGED <<host, disk, session, link, fresh, standalone>>

\* The browser closes the handles of a worker that is gone.
HandlesClose ==
  /\ holder = Gone \/ (holder \in Workers /\ holder \in page.dead)
  /\ holder' = Nobody
  /\ UNCHANGED <<host, disk, session, link, fresh, standalone, page>>

\* Another window of the app opens or closes.
OtherWindow ==
  /\ \/ holder = Nobody /\ holder' = Other
     \/ holder = Other /\ holder' = Nobody
  /\ UNCHANGED <<host, disk, session, link, fresh, standalone, page>>

-----------------------------------------------------------------------------
(* The boot of the directory.                                              *)

\* The end of a boot that failed, refused by the server or failed otherwise.
BootFails(p, refused) ==
  LET q == clearBootWatchdog(p) IN
  IF q.conflict THEN showBootFailure(q)
  ELSE IF (~standalone.seen /\ disk.marker) \/ refused
    THEN startBrowserUx([q EXCEPT !.shown = @ \ {"shell", "loading"}])
  ELSE showBootFailure(q)

watched_to_provider_only ==
  /\ page.pc = "provider"
  /\ \/ /\ page.init[page.awaits] = "resolved"
        /\ Become(clearBootWatchdog([page EXCEPT !.pc = "ensure"]))
     \/ /\ page.init[page.awaits] = "rejected"
        /\ Become(clearBootWatchdog([page EXCEPT !.pc = "list", !.adopted = 0]))
  /\ UNCHANGED <<host, disk, session, link, fresh, standalone>>

\* The awaited worker came up, or the API and the mirror have to do.
ProviderSettles ==
  /\ page.pc = "provider"
  /\ \/ page.init[page.awaits] = "resolved" /\ Become([page EXCEPT !.pc = "ensure"])
     \/ /\ page.init[page.awaits] = "rejected"
        /\ Become(createApiPlusIdbDataProvider([page EXCEPT !.pc = "list"]))
  /\ UNCHANGED <<host, disk, session, link, fresh, standalone>>

\* ensureFellowsDb, install-only: it downloads when OPFS has no directory.  The calls of a
\* terminated worker are never answered.
EnsureAnswers ==
  /\ page.pc = "ensure" /\ page.awaits \notin page.dead
  /\ \/ /\ disk.opfs \/ session # "none" \/ ~AuthEnabled
        /\ disk' = [disk EXCEPT !.opfs = TRUE]
        /\ Become([page EXCEPT !.pc = "list", !.adopted = page.awaits])
     \/ /\ ~disk.opfs
        /\ \/ /\ session = "none" /\ AuthEnabled
              /\ Become(createApiPlusIdbDataProvider([page EXCEPT !.pc = "list"]))
           \/ Become(BootFails(page, FALSE))
        /\ UNCHANGED disk
  /\ UNCHANGED <<host, session, link, fresh, standalone>>

Refused == page.adopted = 0 /\ AuthEnabled /\ session = "none"
CanAnswer == page.adopted \notin page.dead

ShowList(p) ==
  clearBootWatchdog([p EXCEPT !.pc = "full", !.shown = (@ \ {"loading"}) \cup {"app"}])

\* getList: the rows, or a refusal that the mirror makes good, or a failure.
ListAnswers ==
  /\ page.pc = "list" /\ CanAnswer
  /\ \/ /\ ~Refused \/ disk.mirror
        /\ disk' = [disk EXCEPT !.marker = TRUE]
        /\ Become(ShowList([page EXCEPT !.cached = @ \/ Refused]))
     \/ /\ Refused /\ ~disk.mirror
        /\ UNCHANGED disk /\ Become(BootFails(page, TRUE))
     \/ ~Refused /\ UNCHANGED disk /\ Become(BootFails(page, FALSE))
  /\ UNCHANGED <<host, session, link, fresh, standalone>>

\* getFull: as getList; rows that did not come from the mirror are written to it.
FullAnswers ==
  /\ page.pc = "full" /\ CanAnswer
  /\ \/ /\ ~Refused \/ disk.mirror
        /\ \/ disk' = [disk EXCEPT !.mirror = @ \/ ~(page.cached \/ Refused)]
           \/ UNCHANGED disk      \* the mirror's write fails, and is not reported
        /\ Become([page EXCEPT !.pc = "rest", !.cached = @ \/ Refused])
     \/ /\ Refused /\ ~disk.mirror
        /\ UNCHANGED disk /\ Become(BootFails(page, TRUE))
     \/ ~Refused /\ UNCHANGED disk /\ Become(BootFails(page, FALSE))
  /\ UNCHANGED <<host, session, link, fresh, standalone>>

WatchdogFires ==
  /\ page.watch = "pending"
  /\ Become([page EXCEPT !.watch = "fired", !.shown = (@ \ {"loading"}) \cup {"stuck"}])
  /\ UNCHANGED <<host, disk, session, link, fresh, standalone>>

-----------------------------------------------------------------------------
(* Starting over.  Each is refused for five seconds after a page it loaded.*)

RepeatWindowEnds ==
  /\ page.url = "reset"
  /\ Become([page EXCEPT !.url = "plain"])
  /\ UNCHANGED <<host, disk, session, link, fresh, standalone>>

CanClear == page.url # "reset" /\ ~page.resetting

\* "Clear App Cache": the marker survives, OPFS is not touched.
clearAllAppData ==
  /\ CanClear
  /\ session' \in {session, "none"}
  /\ disk' = [disk EXCEPT !.mirror = FALSE]
  /\ Navigate(Load("reset", FALSE))
  /\ UNCHANGED <<host, link, fresh, standalone>>

\* Diagnostics' "Force email gate" forgets the marker and keeps the data.
ForceGate ==
  /\ session' \in {session, "none"}
  /\ disk' = [disk EXCEPT !.marker = FALSE]
  /\ Navigate(Load("gate", FALSE))
  /\ UNCHANGED <<host, link, fresh, standalone>>

\* "Reset Everything" logs out, then has a worker wipe OPFS ...
clearEverything ==
  /\ CanClear
  /\ session' \in {session, "none"}
  /\ Become([page EXCEPT !.resetting = TRUE])
  /\ UNCHANGED <<host, disk, link, fresh, standalone>>

WipesWith == IF page.adopted # 0 THEN {page.adopted} ELSE IF page.warmRef THEN {1} ELSE {}

\* ... and, when that has answered or there is no worker to ask, forgets everything else.
WipeAnswers ==
  /\ page.resetting
  /\ WipesWith \cap page.dead = {}
  /\ disk' = [marker |-> FALSE, mirror |-> FALSE, opfs |-> disk.opfs /\ WipesWith = {}]
  /\ Navigate(Load("reset", FALSE))
  /\ UNCHANGED <<host, session, link, fresh, standalone>>

-----------------------------------------------------------------------------
(* The member opens the app again, in this tab or in a new one.            *)

Visit ==
  /\ \E url \in Urls \ {"reset"}, real \in BOOLEAN, redeemed \in {page.redeemed, FALSE} :
       /\ standalone' = [real |-> real, seen |-> FALSE]
       /\ Navigate(Load(url, redeemed))
  /\ UNCHANGED <<host, disk, session, link, fresh>>

Init ==
  /\ host \in Hosts
  /\ disk \in [marker : BOOLEAN, mirror : BOOLEAN, opfs : BOOLEAN]
  /\ session \in {"none", "valid"}
  /\ link = "none" /\ fresh = FALSE
  /\ holder \in {Nobody, Other}
  /\ \E url \in Urls \ {"reset"}, real \in BOOLEAN :
       /\ standalone = [real |-> real, seen |-> FALSE]
       /\ page = Load(url, FALSE)

Server == SendUnlock \/ ScannerOpens \/ LinkAges \/ SessionEnds

Answers == tryUnlockFromHash \/ RunDispatcher \/ StatusFails \/ reloadIfBuildChanged \/ StatusAnswers

Boot == ProviderSettles \/ EnsureAnswers \/ ListAnswers \/ FullAnswers

Member == UseInTab \/ BackToGate \/ clearAllAppData \/ ForceGate \/ clearEverything \/ Visit

WorkerSteps == \E w \in Workers : WorkerAttaches(w) \/ WorkerReady(w) \/ WorkerFails(w)

Next == \/ Server \/ Answers \/ Boot \/ Member \/ WorkerSteps
        \/ DisplayModeFlips \/ HandlesClose \/ OtherWindow
        \/ WatchdogFires \/ RepeatWindowEnds \/ WipeAnswers

(* The init of the warm worker ends, if only by its timeout; timers fire;  *)
(* the handles of a dead worker are closed.  A fetch or a call of a booting*)
(* page may hang, and nobody has to click anything.                        *)
Fairness == /\ WF_vars(WorkerReady(1) \/ WorkerFails(1))
            /\ WF_vars(WatchdogFires) /\ WF_vars(HandlesClose)

Spec == Init /\ [][Next]_vars
FairSpec == Spec /\ Fairness
ResetSpec == Spec /\ WF_vars(WipeAnswers)

-----------------------------------------------------------------------------
TypeOK ==
  /\ host \in Hosts
  /\ disk \in [marker : BOOLEAN, mirror : BOOLEAN, opfs : BOOLEAN]
  /\ session \in {"none", "valid", "recent"}
  /\ link \in {"none", "live", "used"}
  /\ fresh \in BOOLEAN
  /\ standalone \in [real : BOOLEAN, seen : BOOLEAN]
  /\ holder \in Workers \cup {Nobody, Other, Gone}
  /\ page \in [url : Urls, redeemed : BOOLEAN, pc : {"unlock", "dispatch", "status", "rest"} \cup Booting,
               shown : SUBSET Panels, attempted : BOOLEAN, listening : BOOLEAN,
               watch : {"idle", "pending", "cleared", "fired"}, conflict : BOOLEAN,
               cached : BOOLEAN, init : [Workers -> {"none", "pending", "resolved", "rejected"}],
               dead : SUBSET Workers, warmRef : BOOLEAN, consumed : BOOLEAN, doomed : BOOLEAN,
               awaits : Workers, adopted : 0..MaxSpawns, resetting : BOOLEAN]

\* A boot never waits for, and a provider never calls, a worker that the page itself has
\* terminated: its calls would stay unanswered, and the page would load forever.
BootsOnLiveWorker ==
  /\ page.pc = "ensure" => page.awaits \notin page.dead
  /\ page.pc \in {"list", "full"} => page.adopted \notin page.dead

\* A link opens for the member until it ages or the server forgets it, whoever opened it before.
LinkOpensUntilItAges == fresh => consume_token(link)[1]

\* The first boot of a page comes to its list or to an end, or the panel with the ways out is up.
BootIsWatched ==
  page.pc \in Loading /\ page.watch \in {"pending", "fired"}
    ~> page.pc \notin Loading \/ "stuck" \in page.shown

\* A gate shown without a boot lets another window have the handles.
GateLetsGo == "gate" \in page.shown /\ ~page.attempted ~> holder \notin Workers

\* README.md: neither a stale session nor an offline server locks the member out of what was
\* downloaded: no boot gives up while the mirror has rows.
CacheServesOffline ==
  [][page.pc = "list" /\ page'.pc \in {"status", "rest"} /\ page'.attempted => ~disk.mirror]_vars

\* docs/Architecture.md, AC-6: "Reset Everything" comes to its reload.
ResetCompletes == page.resetting ~> ~page.resetting

=============================================================================
