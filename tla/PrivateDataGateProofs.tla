------------------------ MODULE PrivateDataGateProofs ------------------------
(***************************************************************************)
(* Theorems about PrivateDataGate, for any number of questions, writes,    *)
(* flows and mishaps: the type invariant; that at rest the gate, the page  *)
(* and the badge (PageKnowsTheFolder) and the banner (BannerIsTrue) tell   *)
(* of the folder as it is; that a member with a folder keeps their page    *)
(* and that a warning stays.                                               *)
(*                                                                         *)
(* At rest no question is in flight, so each of these follows from an      *)
(* invariant of the form `the page is right, or somebody will look again'. *)
(* The predicates of the first part say what is in flight.                 *)
(***************************************************************************)
EXTENDS PrivateDataGate, TLAPS

\* A question of the kind that no later one has overtaken.
Fresh(q, kind)   == \E a \in q : a.fresh /\ Kind(a.for) = kind
\* A question about the badge, whose answer looks at the banner too.
Looking(q)       == \E a \in q : a.fresh /\ a.for \in {"badge", "orphan"}
Asked(q)         == Fresh(q, "banner") \/ Looking(q)
No(q, kind)      == \A a \in q : Kind(a.for) # kind
\* What the fresh ones, or all, will be answered.
Tells(q, kind, seen)   == \A a \in q : a.fresh /\ Kind(a.for) = kind => a.seen = seen
AllTell(q, kind, seen) == \A a \in q : Kind(a.for) = kind => a.seen = seen
OnlyBoot(q)      == \A a \in q : Kind(a.for) = "gate" => a.for = "boot"
OneGate(q)       == \A a, b \in q : Kind(a.for) = "gate" /\ Kind(b.for) = "gate" => a = b
Warns(q)         == \A a \in q : a.fresh /\ Kind(a.for) = "banner" => a.for = "banner" /\ a.seen = "write-failed"
Counting(q)      == \E a \in q : a.for = "count"
Counts(q, seen)  == \A a \in q : a.fresh /\ a.for = "count" => a.seen = seen
MayNag(q)        == \E a \in q : a.fresh /\ (a.for = "count" \/ (a.for = "banner" /\ a.seen = "browser-only"))

\* A flow is under way that ends with a look at the gate and the badge.
Ending == \E f \in {"pick", "lock", "reconnect"} : flows[f].at # "idle"
Failed == Badge(worker) = "write-failed"

\* Before the app is shown nothing but the boot happens; edits wait for the gate.
Booted ==
  /\ boot # "app" =>
       /\ banner = "hidden" /\ No(asks, "banner") /\ edits = {} /\ Running = {}
       /\ timer \/ "early" \in rash
       /\ OneGate(asks)
       /\ boot = "starting" => ~gate.resolved
       /\ boot = "starting" \/ gate.resolved => No(asks, "gate")
  /\ gate.enabled \/ edits # {} => gate.resolved

\* A failed write is on the banner, or what is in flight will put it there.
WarningKept ==
  Failed =>
    /\ Without({"quiet", "astray"}) => Warns(asks) \/ Looking(asks)
    /\ Without({"quiet", "astray", "early"}) => banner = "write-failed" \/ timer \/ Asked(asks)

\* A nag is true, or somebody will look again.
NagKept ==
  Without({"late", "astray", "raced"}) =>
    /\ Counting(asks) => ~dismissed
    /\ ~worker.attached \/ ~MayNag(asks) \/ Looking(asks) \/ Ending
    /\ Counts(asks, Stranded(worker)) \/ Looking(asks) \/ Ending
    /\ banner \in Nags =>
         /\ ~dismissed
         /\ (~worker.attached /\ banner = Stranded(worker)) \/ Asked(asks) \/ Ending

\* A restore began with a folder, and nobody locked it since.
Importing == Without({"raced"}) /\ flows["restore"].at = "importing" => worker.attached

\* The gate is right, or somebody will ask again.
GateKept ==
  Without({"astray"}) =>
    /\ Unlocked(worker) =>
         /\ Tells(asks, "gate", "private-folder") \/ Ending
         /\ (gate.resolved /\ gate.enabled) \/ boot = "starting" \/ Fresh(asks, "gate") \/ Ending
    /\ ~Unlocked(worker) /\ Without({"lapsed"}) =>
         /\ Tells(asks, "gate", "browse-only-desktop") \/ Ending
         /\ (gate.resolved /\ ~gate.enabled) \/ boot = "starting" \/ Fresh(asks, "gate") \/ Ending

\* On the pages of the groups the folder does not change but by lapsing.
GroupsKept ==
  Without({"astray", "hasty"}) /\ url = "groups" =>
    /\ ~Ending
    /\ Unlocked(worker) => AllTell(asks, "gate", "private-folder")
    /\ ~Unlocked(worker) /\ Without({"lapsed"}) => AllTell(asks, "gate", "browse-only-desktop")
    /\ gate.resolved /\ Without({"lapsed"}) => gate.enabled /\ Unlocked(worker)
    /\ ~gate.resolved => OnlyBoot(asks)

\* The Settings page is on the screen only at its URL; what belongs to one that was left knows it.
OnePage ==
  /\ settings # "none" => url = "settings"
  /\ settings = "none" => No(asks, "badge") /\ \A f \in {"pick", "lock", "reconnect"} :
                                                 flows[f].at # "idle" => flows[f].gone

\* The badge is right, or somebody will look again.
BadgeKept ==
  Without({"lapsed", "astray", "behind"}) /\ settings # "none" =>
    /\ Tells(asks, "badge", Badge(worker)) \/ Ending
    /\ settings = Badge(worker) \/ Fresh(asks, "badge") \/ Ending

Inv ==
  /\ TypeOK
  /\ Booted /\ WarningKept /\ NagKept /\ Importing
  /\ GateKept /\ GroupsKept /\ OnePage /\ BadgeKept

-----------------------------------------------------------------------------
(* What is in flight after each change of the questions.                   *)

\* The kinds of the questions.
LEMMA Kinds ==
  /\ Kind("boot") = "gate" /\ Kind("gate") = "gate"
  /\ Kind("banner") = "banner" /\ Kind("count") = "banner"
  /\ Kind("badge") = "badge" /\ Kind("orphan") = "orphan"
BY DEF Kind, Purposes

\* getState, question by question: one is new, and those of its kind are no longer fresh.
LEMMA GetState ==
  ASSUME NEW q \in SUBSET Ask, NEW for \in Purposes, NEW w
  PROVE  LET new == [for |-> for, seen |-> Seen(for, w), fresh |-> TRUE]
             r   == getState(q, for, w)
         IN  /\ new \in r /\ new.for = for /\ new.seen = Seen(for, w) /\ new.fresh
             /\ \A a \in q : for = "orphan" \/ Kind(a.for) # Kind(for) => a \in r
             /\ \A x \in r : x = new \/ \E a \in q : x.for = a.for /\ x.seen = a.seen
             /\ \A x \in r : x = new \/ x \in q \/ (~x.fresh /\ Kind(x.for) = Kind(for))
             /\ \A x \in r : x.fresh => x = new \/ (x \in q /\ (for = "orphan" \/ Kind(x.for) # Kind(for)))
<1> DEFINE new == [for |-> for, seen |-> Seen(for, w), fresh |-> TRUE]
           older(a) == IF Kind(a.for) = Kind(for) /\ for # "orphan" THEN [a EXCEPT !.fresh = FALSE] ELSE a
           r == {older(a) : a \in q} \cup {new}
<1>1. ASSUME NEW a \in q
      PROVE  /\ older(a).for = a.for /\ older(a).seen = a.seen
             /\ older(a) = a \/ (~older(a).fresh /\ Kind(a.for) = Kind(for))
             /\ older(a).fresh => for = "orphan" \/ Kind(a.for) # Kind(for)
             /\ for = "orphan" \/ Kind(a.for) # Kind(for) => older(a) = a
  BY DEF Ask
<1>2. new.for = for /\ new.seen = Seen(for, w) /\ new.fresh
  OBVIOUS
<1> HIDE DEF older, new
<1>3. getState(q, for, w) = r
  BY DEF getState, older, new
<1>4. \A a \in q : for = "orphan" \/ Kind(a.for) # Kind(for) => a \in r
  BY <1>1
<1>5. \A x \in r : x = new \/ \E a \in q : x = older(a)
  OBVIOUS
<1>6. ASSUME NEW x \in r
      PROVE  /\ x = new \/ \E a \in q : x.for = a.for /\ x.seen = a.seen
             /\ x = new \/ x \in q \/ (~x.fresh /\ Kind(x.for) = Kind(for))
             /\ x.fresh => x = new \/ (x \in q /\ (for = "orphan" \/ Kind(x.for) # Kind(for)))
  <2>1. CASE x = new
    BY <2>1
  <2>2. ASSUME NEW a \in q, x = older(a)
        PROVE  /\ \E b \in q : x.for = b.for /\ x.seen = b.seen
               /\ x \in q \/ (~x.fresh /\ Kind(x.for) = Kind(for))
               /\ x.fresh => x \in q /\ (for = "orphan" \/ Kind(x.for) # Kind(for))
    BY <1>1, <2>2
  <2>. QED
    BY <1>5, <2>1, <2>2
<1>. QED
  BY <1>2, <1>3, <1>4, <1>6 DEF new

LEMMA GetStateIsTyped ==
  ASSUME NEW q \in SUBSET Ask, NEW for \in Purposes \ {"count"}, NEW w
  PROVE  getState(q, for, w) \in SUBSET Ask
<1>1. Seen(for, w) \in Badges \cup Nags \cup Tiers \cup {"unseen"}
  BY DEF Seen, Badge, computePrivateDataTier, Badges, Tiers
<1>2. \A a \in q : [a EXCEPT !.fresh = FALSE] \in Ask
  BY DEF Ask
<1>3. for = "badge" => Seen(for, w) \in Badges
  BY Kinds DEF Seen, Badge, Badges
<1>4. [for |-> for, seen |-> Seen(for, w), fresh |-> TRUE] \in Ask
  BY <1>1, <1>3 DEF Ask
<1>. QED
  BY <1>2, <1>4 DEF getState

LEMMA AskGate ==
  ASSUME NEW q \in SUBSET Ask, NEW for \in {"boot", "gate"}, NEW w
  PROVE  LET r == getState(q, for, w) IN
         /\ r \in SUBSET Ask
         /\ Fresh(r, "gate") /\ Tells(r, "gate", computePrivateDataTier(w))
         /\ \A v : v = computePrivateDataTier(w) /\ AllTell(q, "gate", v) => AllTell(r, "gate", v)
         /\ for = "boot" /\ OnlyBoot(q) => OnlyBoot(r)
         /\ No(q, "gate") => OneGate(r)
         /\ \A k \in {"banner", "badge"} :
              /\ Fresh(q, k) => Fresh(r, k)
              /\ No(q, k) => No(r, k)
              /\ \A v : Tells(q, k, v) => Tells(r, k, v)
         /\ Looking(q) => Looking(r)
         /\ Warns(q) => Warns(r)
         /\ Counting(r) => Counting(q)
         /\ \A v : Counts(q, v) => Counts(r, v)
         /\ MayNag(r) => MayNag(q)
<1> DEFINE new == [for |-> for, seen |-> Seen(for, w), fresh |-> TRUE]
           r == getState(q, for, w)
<1>1. for \in Purposes \ {"count"} /\ Kind(for) = "gate" /\ Seen(for, w) = computePrivateDataTier(w)
  BY Kinds DEF Purposes, Seen
<1>2. /\ new \in r /\ new.for = for /\ new.seen = computePrivateDataTier(w) /\ new.fresh
      /\ \A a \in q : Kind(a.for) # "gate" => a \in r
      /\ \A x \in r : x = new \/ \E a \in q : x.for = a.for /\ x.seen = a.seen
      /\ \A x \in r : x = new \/ x \in q \/ (~x.fresh /\ Kind(x.for) = "gate")
      /\ \A x \in r : x.fresh => x = new \/ (x \in q /\ Kind(x.for) # "gate")
  BY <1>1, GetState
<1>3. r \in SUBSET Ask
  BY <1>1, GetStateIsTyped
<1> HIDE DEF new, r
<1>4. Fresh(r, "gate") /\ Tells(r, "gate", computePrivateDataTier(w))
  BY <1>1, <1>2 DEF Fresh, Tells
<1>5. \A v : v = computePrivateDataTier(w) /\ AllTell(q, "gate", v) => AllTell(r, "gate", v)
  BY <1>1, <1>2 DEF AllTell
<1>6. (for = "boot" /\ OnlyBoot(q) => OnlyBoot(r)) /\ (No(q, "gate") => OneGate(r))
  BY <1>1, <1>2 DEF OnlyBoot, No, OneGate
<1>7. ASSUME NEW k \in {"banner", "badge"}
      PROVE  /\ Fresh(q, k) => Fresh(r, k)
             /\ No(q, k) => No(r, k)
             /\ \A v : Tells(q, k, v) => Tells(r, k, v)
  BY <1>1, <1>2 DEF Fresh, No, Tells
<1>8. (Looking(q) => Looking(r)) /\ (Warns(q) => Warns(r)) /\ (Counting(r) => Counting(q))
  BY <1>1, <1>2, Kinds DEF Looking, Warns, Counting
<1>9. (\A v : Counts(q, v) => Counts(r, v)) /\ (MayNag(r) => MayNag(q))
  BY <1>1, <1>2, Kinds DEF Counts, MayNag
<1>. QED
  BY <1>3, <1>4, <1>5, <1>6, <1>7, <1>8, <1>9 DEF r

LEMMA AskBanner ==
  ASSUME NEW q \in SUBSET Ask, NEW w
  PROVE  LET r == getState(q, "banner", w) IN
         /\ r \in SUBSET Ask
         /\ Fresh(r, "banner")
         /\ Badge(w) = "write-failed" => Warns(r)
         /\ Counting(r) => Counting(q)
         /\ \A v : Counts(r, v)
         /\ MayNag(r) => Badge(w) = "browser-only"
         /\ \A k \in {"gate", "badge"} :
              /\ Fresh(q, k) => Fresh(r, k)
              /\ No(q, k) => No(r, k)
              /\ \A v : Tells(q, k, v) => Tells(r, k, v)
              /\ \A v : AllTell(q, k, v) => AllTell(r, k, v)
         /\ OnlyBoot(q) => OnlyBoot(r)
         /\ OneGate(q) => OneGate(r)
         /\ Looking(q) => Looking(r)
<1> DEFINE new == [for |-> "banner", seen |-> Seen("banner", w), fresh |-> TRUE]
           r == getState(q, "banner", w)
<1>1. "banner" \in Purposes \ {"count"} /\ Kind("banner") = "banner" /\ Seen("banner", w) = Badge(w)
  BY Kinds DEF Purposes, Seen
<1>2. /\ new \in r /\ new.for = "banner" /\ new.seen = Badge(w) /\ new.fresh
      /\ \A a \in q : Kind(a.for) # "banner" => a \in r
      /\ \A x \in r : x = new \/ \E a \in q : x.for = a.for /\ x.seen = a.seen
      /\ \A x \in r : x = new \/ x \in q \/ (~x.fresh /\ Kind(x.for) = "banner")
      /\ \A x \in r : x.fresh => x = new \/ (x \in q /\ Kind(x.for) # "banner")
  BY <1>1, GetState
<1>3. r \in SUBSET Ask
  BY <1>1, GetStateIsTyped
<1> HIDE DEF new, r
<1>4. Fresh(r, "banner") /\ (Badge(w) = "write-failed" => Warns(r))
  BY <1>1, <1>2 DEF Fresh, Warns
<1>5. (Counting(r) => Counting(q)) /\ (\A v : Counts(r, v)) /\ (MayNag(r) => Badge(w) = "browser-only")
  BY <1>2, Kinds DEF Counting, Counts, MayNag
<1>6. ASSUME NEW k \in {"gate", "badge"}
      PROVE  /\ Fresh(q, k) => Fresh(r, k)
             /\ No(q, k) => No(r, k)
             /\ \A v : Tells(q, k, v) => Tells(r, k, v)
             /\ \A v : AllTell(q, k, v) => AllTell(r, k, v)
  BY <1>1, <1>2 DEF Fresh, No, Tells, AllTell
<1>7. (OnlyBoot(q) => OnlyBoot(r)) /\ (OneGate(q) => OneGate(r))
  <2>1. \A x \in r : Kind(x.for) = "gate" => x \in q
    BY <1>1, <1>2
  <2>. QED
    BY <2>1 DEF OnlyBoot, OneGate
<1>8. Looking(q) => Looking(r)
  BY <1>2, Kinds DEF Looking
<1>. QED
  BY <1>3, <1>4, <1>5, <1>6, <1>7, <1>8 DEF r

\* The badge of the Settings page, or a look for the sake of one that was left.
LEMMA AskBadge ==
  ASSUME NEW q \in SUBSET Ask, NEW for \in {"badge", "orphan"}, NEW w
  PROVE  LET r == getState(q, for, w) IN
         /\ r \in SUBSET Ask
         /\ Looking(r)
         /\ for = "badge" => Fresh(r, "badge") /\ Tells(r, "badge", Badge(w))
         /\ for = "orphan" => /\ No(q, "badge") => No(r, "badge")
                              /\ Fresh(q, "badge") => Fresh(r, "badge")
                              /\ \A v : Tells(q, "badge", v) => Tells(r, "badge", v)
         /\ \A k \in {"gate", "banner"} :
              /\ Fresh(q, k) => Fresh(r, k)
              /\ No(q, k) => No(r, k)
              /\ \A v : Tells(q, k, v) => Tells(r, k, v)
              /\ \A v : AllTell(q, k, v) => AllTell(r, k, v)
         /\ OnlyBoot(q) => OnlyBoot(r)
         /\ OneGate(q) => OneGate(r)
         /\ Warns(q) => Warns(r)
         /\ Counting(r) => Counting(q)
         /\ \A v : Counts(q, v) => Counts(r, v)
         /\ MayNag(r) => MayNag(q)
<1> DEFINE new == [for |-> for, seen |-> Seen(for, w), fresh |-> TRUE]
           r == getState(q, for, w)
<1>1. /\ for \in Purposes \ {"count"} /\ Kind(for) = for
      /\ for = "badge" => Seen(for, w) = Badge(w)
  BY Kinds DEF Purposes, Seen
<1>2. /\ new \in r /\ new.for = for /\ (for = "badge" => new.seen = Badge(w)) /\ new.fresh
      /\ \A a \in q : for = "orphan" \/ Kind(a.for) # for => a \in r
      /\ \A x \in r : x = new \/ \E a \in q : x.for = a.for /\ x.seen = a.seen
      /\ \A x \in r : x = new \/ x \in q \/ (~x.fresh /\ Kind(x.for) = for)
      /\ \A x \in r : x.fresh => x = new \/ (x \in q /\ (for = "orphan" \/ Kind(x.for) # for))
  BY <1>1, GetState
<1>3. r \in SUBSET Ask
  BY <1>1, GetStateIsTyped
<1> HIDE DEF new, r
<1>4. Looking(r) /\ (for = "badge" => Fresh(r, "badge") /\ Tells(r, "badge", Badge(w)))
  BY <1>1, <1>2 DEF Looking, Fresh, Tells
<1>5. for = "orphan" => /\ No(q, "badge") => No(r, "badge")
                        /\ Fresh(q, "badge") => Fresh(r, "badge")
                        /\ \A v : Tells(q, "badge", v) => Tells(r, "badge", v)
  BY <1>1, <1>2 DEF No, Fresh, Tells
<1>6. ASSUME NEW k \in {"gate", "banner"}
      PROVE  /\ Fresh(q, k) => Fresh(r, k)
             /\ No(q, k) => No(r, k)
             /\ \A v : Tells(q, k, v) => Tells(r, k, v)
             /\ \A v : AllTell(q, k, v) => AllTell(r, k, v)
  BY <1>1, <1>2 DEF Fresh, No, Tells, AllTell
<1>7. (OnlyBoot(q) => OnlyBoot(r)) /\ (OneGate(q) => OneGate(r))
  <2>1. \A x \in r : Kind(x.for) = "gate" => x \in q
    BY <1>1, <1>2
  <2>. QED
    BY <2>1 DEF OnlyBoot, OneGate
<1>8. /\ Warns(q) => Warns(r)
      /\ Counting(r) => Counting(q)
      /\ \A v : Counts(q, v) => Counts(r, v)
      /\ MayNag(r) => MayNag(q)
  BY <1>1, <1>2, Kinds DEF Warns, Counting, Counts, MayNag
<1>. QED
  BY <1>3, <1>4, <1>5, <1>6, <1>7, <1>8 DEF r

\* The Settings page is left: its questions about the badge go on as looks at the banner.
LEMMA LeaveSettings ==
  ASSUME NEW q \in SUBSET Ask
  PROVE  LET r == Orphaned(q) IN
         /\ r \in SUBSET Ask
         /\ No(r, "badge")
         /\ Looking(q) => Looking(r)
         /\ \A k \in {"gate", "banner"} :
              /\ Fresh(q, k) => Fresh(r, k)
              /\ No(q, k) => No(r, k)
              /\ \A v : Tells(q, k, v) => Tells(r, k, v)
              /\ \A v : AllTell(q, k, v) => AllTell(r, k, v)
         /\ OnlyBoot(q) => OnlyBoot(r)
         /\ OneGate(q) => OneGate(r)
         /\ Warns(q) => Warns(r)
         /\ Counting(r) => Counting(q)
         /\ \A v : Counts(q, v) => Counts(r, v)
         /\ MayNag(r) => MayNag(q)
<1> DEFINE new == [for |-> "orphan", seen |-> "unseen", fresh |-> TRUE]
           r == Orphaned(q)
<1>1. new \in Ask /\ new.for = "orphan" /\ new.fresh
  BY DEF Ask, Purposes
<1> HIDE DEF new
<1>2. r = {IF a.for = "badge" THEN new ELSE a : a \in q}
  BY DEF Orphaned, new
<1>3. /\ \A a \in q : a.for # "badge" => a \in r
      /\ \A a \in q : a.for = "badge" => new \in r
      /\ \A x \in r : x = new \/ (x \in q /\ x.for # "badge")
  BY <1>2
<1> HIDE DEF r
<1>4. r \in SUBSET Ask
  BY <1>1, <1>3
<1>5. No(r, "badge")
  <2>1. \A x \in r : x.for \in Purposes /\ x.for # "badge"
    BY <1>1, <1>3, <1>4 DEF Ask
  <2>2. \A for \in Purposes : Kind(for) = "badge" => for = "badge"
    BY DEF Kind, Purposes
  <2>3. ASSUME NEW x \in r PROVE Kind(x.for) # "badge"
    BY <2>1, <2>2
  <2>. QED
    BY <2>3 DEF No
<1>6. Looking(q) => Looking(r)
  BY <1>1, <1>3 DEF Looking
<1>7. \A x \in r : Kind(x.for) \in {"gate", "banner"} => x \in q
  BY <1>1, <1>3, Kinds
<1>8. \A a \in q : Kind(a.for) \in {"gate", "banner"} => a \in r
  BY <1>3, Kinds
<1>9. ASSUME NEW k \in {"gate", "banner"}
      PROVE  /\ Fresh(q, k) => Fresh(r, k)
             /\ No(q, k) => No(r, k)
             /\ \A v : Tells(q, k, v) => Tells(r, k, v)
             /\ \A v : AllTell(q, k, v) => AllTell(r, k, v)
  BY <1>7, <1>8 DEF Fresh, No, Tells, AllTell
<1>10. (OnlyBoot(q) => OnlyBoot(r)) /\ (OneGate(q) => OneGate(r)) /\ (Warns(q) => Warns(r))
  BY <1>7 DEF OnlyBoot, OneGate, Warns
<1>11. /\ Counting(r) => Counting(q)
       /\ \A v : Counts(q, v) => Counts(r, v)
       /\ MayNag(r) => MayNag(q)
  BY <1>7, Kinds DEF Counting, Counts, MayNag
<1>. QED
  BY <1>4, <1>5, <1>6, <1>9, <1>10, <1>11 DEF r

\* A question is answered; one that was overtaken by none in flight went astray.
LEMMA Answered ==
  ASSUME NEW a \in asks, asks \in SUBSET Ask
  PROVE  LET r == asks \ {a} IN
         /\ r \in SUBSET Ask
         /\ "astray" \in Crossed(a) \/ a.fresh \/ Fresh(r, Kind(a.for))
         /\ \A k : /\ Kind(a.for) # k \/ ~a.fresh => (Fresh(asks, k) => Fresh(r, k))
                   /\ No(asks, k) => No(r, k)
                   /\ \A v : Tells(asks, k, v) => Tells(r, k, v)
                   /\ \A v : AllTell(asks, k, v) => AllTell(r, k, v)
         /\ OnlyBoot(asks) => OnlyBoot(r)
         /\ OneGate(asks) => OneGate(r) /\ (Kind(a.for) = "gate" => No(r, "gate"))
         /\ a.for \notin {"badge", "orphan"} \/ ~a.fresh => (Looking(asks) => Looking(r))
         /\ Warns(asks) => Warns(r)
         /\ Counting(r) => Counting(asks)
         /\ \A v : Counts(asks, v) => Counts(r, v)
         /\ MayNag(r) => MayNag(asks)
<1> DEFINE r == asks \ {a}
<1>1. /\ r \in SUBSET Ask /\ \A x \in r : x \in asks /\ x # a
      /\ \A x \in asks : x = a \/ x \in r
  OBVIOUS
<1> HIDE DEF r
<1>2. "astray" \in Crossed(a) \/ a.fresh \/ Fresh(r, Kind(a.for))
  BY <1>1 DEF Crossed, Fresh
<1>3. ASSUME NEW k
      PROVE  /\ Kind(a.for) # k \/ ~a.fresh => (Fresh(asks, k) => Fresh(r, k))
             /\ No(asks, k) => No(r, k)
             /\ \A v : Tells(asks, k, v) => Tells(r, k, v)
             /\ \A v : AllTell(asks, k, v) => AllTell(r, k, v)
  BY <1>1 DEF Fresh, No, Tells, AllTell
<1>4. /\ OnlyBoot(asks) => OnlyBoot(r)
      /\ OneGate(asks) => OneGate(r) /\ (Kind(a.for) = "gate" => No(r, "gate"))
  BY <1>1 DEF OnlyBoot, OneGate, No
<1>5. a.for \notin {"badge", "orphan"} \/ ~a.fresh => (Looking(asks) => Looking(r))
  BY <1>1 DEF Looking
<1>6. /\ Warns(asks) => Warns(r)
      /\ Counting(r) => Counting(asks)
      /\ \A v : Counts(asks, v) => Counts(r, v)
      /\ MayNag(r) => MayNag(asks)
  BY <1>1 DEF Warns, Counting, Counts, MayNag
<1>. QED
  BY <1>1, <1>2, <1>3, <1>4, <1>5, <1>6 DEF r

\* A look at the banner goes on to count the rows.
LEMMA Recounted ==
  ASSUME NEW a \in asks, asks \in SUBSET Ask, a.for = "banner", a.seen = "browser-only"
  PROVE  LET r == CountRows(a) IN
         /\ r \in SUBSET Ask
         /\ "astray" \in Crossed(a) \/ Fresh(r, "banner")
         /\ \A k : /\ Fresh(asks, k) => Fresh(r, k)
                   /\ No(asks, k) => No(r, k)
         /\ \A k \in {"gate", "badge"} :
              /\ \A v : Tells(asks, k, v) => Tells(r, k, v)
              /\ \A v : AllTell(asks, k, v) => AllTell(r, k, v)
         /\ OnlyBoot(asks) => OnlyBoot(r)
         /\ OneGate(asks) => OneGate(r)
         /\ Looking(asks) => Looking(r)
         /\ Warns(asks) => Warns(r)
         /\ Counts(asks, Stranded(worker)) => Counts(r, Stranded(worker))
         /\ MayNag(r) => MayNag(asks)
<1> DEFINE new == [a EXCEPT !.for = "count", !.seen = Stranded(worker)]
           r == CountRows(a)
<1>1. a \in Ask
  OBVIOUS
<1>2. new \in Ask /\ new.for = "count" /\ new.seen = Stranded(worker) /\ new.fresh = a.fresh
  BY <1>1 DEF Ask, Purposes, Stranded, Nags
<1> HIDE DEF new
<1>3. r = (asks \ {a}) \cup {new}
  BY DEF CountRows, new
<1>4. /\ new \in r /\ \A x \in r : x = new \/ (x \in asks /\ x # a)
      /\ \A x \in asks : x = a \/ x \in r
  BY <1>3
<1>5. Kind(a.for) = "banner" /\ Kind(new.for) = "banner"
  BY <1>2, Kinds
<1> HIDE DEF r
<1>6. r \in SUBSET Ask
  BY <1>2, <1>4
<1>7. "astray" \in Crossed(a) \/ Fresh(r, "banner")
  BY <1>2, <1>4, <1>5 DEF Crossed, Fresh
<1>8. ASSUME NEW k PROVE (Fresh(asks, k) => Fresh(r, k)) /\ (No(asks, k) => No(r, k))
  BY <1>2, <1>4, <1>5 DEF Fresh, No
<1>9. ASSUME NEW k \in {"gate", "badge"}
      PROVE  /\ \A v : Tells(asks, k, v) => Tells(r, k, v)
             /\ \A v : AllTell(asks, k, v) => AllTell(r, k, v)
  BY <1>4, <1>5 DEF Tells, AllTell
<1>10. (OnlyBoot(asks) => OnlyBoot(r)) /\ (OneGate(asks) => OneGate(r))
  BY <1>4, <1>5 DEF OnlyBoot, OneGate
<1>11. Looking(asks) => Looking(r)
  BY <1>4 DEF Looking
<1>12. Warns(asks) => Warns(r)
  BY <1>2, <1>4, <1>5 DEF Warns
<1>13. Counts(asks, Stranded(worker)) => Counts(r, Stranded(worker))
  BY <1>2, <1>4 DEF Counts
<1>14. MayNag(r) => MayNag(asks)
  BY <1>2, <1>4 DEF MayNag
<1>. QED
  BY <1>6, <1>7, <1>8, <1>9, <1>10, <1>11, <1>12, <1>13, <1>14 DEF r

\* Who may nag counts; no question in flight, no promise.
LEMMA CountsMayNag == \A q : ~MayNag(q) => \A v : Counts(q, v)
BY DEF MayNag, Counts

LEMMA NothingAsked ==
  ~Looking({}) /\ \A k : ~Fresh({}, k)
BY DEF Looking, Fresh

-----------------------------------------------------------------------------
(* Routes and looks at the banner.                                         *)

\* Whether the flows are ending and importing is all that the invariants ask of them, and of
\* those of a page that was left, whether they know it.
LEMMA LeftFlows ==
  ASSUME TypeOK, flows' = Left
  PROVE  /\ flows' \in [Flows -> Flow]
         /\ \A f \in Flows : flows'[f].at = flows[f].at
         /\ \A f \in {"pick", "lock", "reconnect"} : flows'[f].at # "idle" => flows'[f].gone
<1>1. flows \in [Flows -> Flow]
  BY DEF TypeOK
<1>2. \A f \in Flows : flows[f] \in Flow
  BY <1>1
<1> DEFINE left(f) == IF f \in Running \ {"restore"} THEN [flows[f] EXCEPT !.gone = TRUE] ELSE flows[f]
<1>3. \A f \in Flows : left(f) \in Flow /\ left(f).at = flows[f].at
  BY <1>2 DEF Flow
<1>4. \A f \in Flows : f \in Running \ {"restore"} => left(f).gone
  BY <1>2 DEF Flow
<1>5. \A f \in {"pick", "lock", "reconnect"} : f \in Flows /\ (flows[f].at # "idle" => f \in Running \ {"restore"})
  BY DEF Running, Flows
<1>6. flows' = [f \in Flows |-> left(f)]
  BY DEF Left
<1> HIDE DEF left
<1>7. \A f \in Flows : flows'[f] = left(f)
  BY <1>6
<1>. QED
  BY <1>3, <1>4, <1>5, <1>6, <1>7

LEMMA Routed ==
  ASSUME TypeOK, NEW g, NEW q \in SUBSET Ask, NEW u \in {"directory", "groups", "settings"}, route(g, q, u)
  PROVE  /\ asks' \in SUBSET Ask
         /\ url' \in {u, "settings"} /\ (url' = "groups" => ~redirects(g, u))
         /\ (url' # u => redirects(g, u))
         /\ settings' \in {"none", "checking"}
         /\ settings' = "checking" => /\ url' = "settings"
                                      /\ Fresh(asks', "badge") /\ Tells(asks', "badge", Badge(worker))
         /\ settings' = "none" => No(asks', "badge")
         /\ Looking(q) => Looking(asks')
         /\ \A k \in {"gate", "banner"} :
              /\ Fresh(q, k) => Fresh(asks', k)
              /\ No(q, k) => No(asks', k)
              /\ \A v : Tells(q, k, v) => Tells(asks', k, v)
              /\ \A v : AllTell(q, k, v) => AllTell(asks', k, v)
         /\ OnlyBoot(q) => OnlyBoot(asks')
         /\ OneGate(q) => OneGate(asks')
         /\ Warns(q) => Warns(asks')
         /\ Counting(asks') => Counting(q)
         /\ \A v : Counts(q, v) => Counts(asks', v)
         /\ MayNag(asks') => MayNag(q)
<1> DEFINE r == Orphaned(q)
           dest == IF redirects(g, u) THEN "settings" ELSE u
<1>1. r \in SUBSET Ask
  BY LeaveSettings
<1>2. /\ url' = dest
      /\ settings' = IF dest = "settings" THEN "checking" ELSE "none"
      /\ asks' = IF dest = "settings" THEN getState(r, "badge", worker) ELSE r
  BY DEF route
<1>3. dest \in {u, "settings"} /\ (dest = "groups" => ~redirects(g, u)) /\ (dest # u => redirects(g, u))
  OBVIOUS
<1> HIDE DEF r, dest
<1>4. CASE dest = "settings"
  <2>1. asks' = getState(r, "badge", worker) /\ settings' = "checking" /\ url' = "settings"
    BY <1>2, <1>4
  <2>. QED
    BY <1>1, <1>3, <1>4, <2>1, LeaveSettings, AskBadge DEF r
<1>5. CASE dest # "settings"
  <2>1. asks' = r /\ settings' = "none" /\ url' = dest
    BY <1>2, <1>5
  <2>. QED
    BY <1>3, <2>1, LeaveSettings DEF r
<1>. QED
  BY <1>4, <1>5

\* What refreshFolderPushBanner leaves in flight.
LEMMA Looked ==
  ASSUME NEW q \in SUBSET Ask, LookAtBanner(q, worker)
  PROVE  /\ asks' \in SUBSET Ask
         /\ banner' = IF boot = "app" THEN banner ELSE "hidden"
         /\ boot = "app" => /\ Fresh(asks', "banner")
                            /\ Failed => Warns(asks')
                            /\ \A v : Counts(asks', v)
                            /\ MayNag(asks') => Badge(worker) = "browser-only"
         /\ boot # "app" => asks' = q
         /\ Counting(asks') => Counting(q)
         /\ \A k \in {"gate", "badge"} :
              /\ Fresh(q, k) => Fresh(asks', k)
              /\ No(q, k) => No(asks', k)
              /\ \A v : Tells(q, k, v) => Tells(asks', k, v)
              /\ \A v : AllTell(q, k, v) => AllTell(asks', k, v)
         /\ OnlyBoot(q) => OnlyBoot(asks')
         /\ OneGate(q) => OneGate(asks')
         /\ Looking(q) => Looking(asks')
<1>1. CASE boot = "app"
  <2>1. asks' = getState(q, "banner", worker) /\ banner' = banner
    BY <1>1 DEF LookAtBanner
  <2>. QED
    BY <1>1, <2>1, AskBanner DEF Failed
<1>2. CASE boot # "app"
  <2>1. asks' = q /\ banner' = "hidden"
    BY <1>2 DEF LookAtBanner
  <2>. QED
    BY <1>2, <2>1
<1>. QED
  BY <1>1, <1>2

-----------------------------------------------------------------------------
(* The steps.                                                              *)

LEMMA Tier ==
  \A w : computePrivateDataTier(w) = IF Unlocked(w) THEN "private-folder" ELSE "browse-only-desktop"
BY DEF computePrivateDataTier

LEMMA InitIsSound == Init => Inv
<1> SUFFICES ASSUME Init PROVE Inv
  OBVIOUS
<1>1. Idle \in Flow /\ Idle.at = "idle"
  BY DEF Idle, Flow, Stages
<1>2. flows \in [Flows -> Flow] /\ \A f \in Flows : flows[f].at = "idle"
  BY <1>1 DEF Init
<1>3. TypeOK
  <2>1. worker \in Worker /\ missed \in BOOLEAN
    BY DEF Init, Worker
  <2>. QED
    BY <1>2, <2>1 DEF Init, TypeOK, Ask, Edit, Nags
<1>4. Running = {} /\ ~Ending /\ flows["restore"].at = "idle"
  BY <1>2 DEF Running, Ending, Flows
<1>5. \A k : No(asks, k) /\ ~Fresh(asks, k)
  BY DEF Init, No, Fresh
<1>6. /\ \A k, v : Tells(asks, k, v) /\ AllTell(asks, k, v)
      /\ OnlyBoot(asks) /\ OneGate(asks) /\ Warns(asks) /\ ~Counting(asks) /\ ~MayNag(asks)
      /\ \A v : Counts(asks, v)
  BY DEF Init, Tells, AllTell, OnlyBoot, OneGate, Warns, Counting, MayNag, Counts
<1>7. banner \notin Nags
  BY DEF Init, Nags
<1>8. \A f \in {"pick", "lock", "reconnect"} : flows[f].at = "idle"
  BY <1>2 DEF Flows
<1>. QED
  BY <1>3, <1>4, <1>5, <1>6, <1>7, <1>8
     DEF Init, Inv, Booted, WarningKept, NagKept, Importing, GateKept, GroupsKept, OnePage, BadgeKept

LEMMA ProviderReadySound == ASSUME Inv, ProviderReady PROVE Inv'
<1> DEFINE r == getState(asks, "boot", worker)
<1>1. asks \in SUBSET Ask
  BY DEF Inv, TypeOK
<1>2. boot = "starting" /\ boot' = "provider" /\ asks' = r
  BY DEF ProviderReady
<1>3. /\ r \in SUBSET Ask
      /\ Fresh(r, "gate") /\ Tells(r, "gate", computePrivateDataTier(worker))
      /\ \A v : v = computePrivateDataTier(worker) /\ AllTell(asks, "gate", v) => AllTell(r, "gate", v)
      /\ OnlyBoot(asks) => OnlyBoot(r)
      /\ No(asks, "gate") => OneGate(r)
      /\ \A k \in {"banner", "badge"} :
           /\ Fresh(asks, k) => Fresh(r, k)
           /\ No(asks, k) => No(r, k)
           /\ \A v : Tells(asks, k, v) => Tells(r, k, v)
      /\ Looking(asks) => Looking(r)
      /\ Warns(asks) => Warns(r)
      /\ Counting(r) => Counting(asks)
      /\ \A v : Counts(asks, v) => Counts(r, v)
      /\ MayNag(r) => MayNag(asks)
  BY <1>1, AskGate
<1>4. TypeOK'
  BY <1>2, <1>3 DEF ProviderReady, Inv, TypeOK
<1> HIDE DEF r
<1>5. Booted'
  BY <1>2, <1>3, Tier DEF ProviderReady, Inv, Booted, Without, Running
<1>6. WarningKept'
  BY <1>2, <1>3, Tier DEF ProviderReady, Inv, WarningKept, Without, Failed, Asked
<1>7. NagKept'
  BY <1>2, <1>3, Tier DEF ProviderReady, Inv, NagKept, Without, Ending, Asked
<1>8. Importing'
  BY <1>2, <1>3, Tier DEF ProviderReady, Inv, Importing, Without
<1>9. GateKept'
  BY <1>2, <1>3, Tier DEF ProviderReady, Inv, GateKept, Without, Ending
<1>10. GroupsKept'
  BY <1>2, <1>3, Tier DEF ProviderReady, Inv, GroupsKept, Without, Ending
<1>11. OnePage'
  BY <1>2, <1>3, Tier DEF ProviderReady, Inv, OnePage
<1>12. BadgeKept'
  BY <1>2, <1>3, Tier DEF ProviderReady, Inv, BadgeKept, Without, Ending
<1>. QED
  BY <1>4, <1>5, <1>6, <1>7, <1>8, <1>9, <1>10, <1>11, <1>12 DEF Inv

LEMMA AppShownSound == ASSUME Inv, AppShown PROVE Inv'
<1>1. asks \in SUBSET Ask /\ url \in {"directory", "groups", "settings"} /\ TypeOK
  BY DEF Inv, TypeOK
<1>2. boot = "provider" /\ boot' = "app" /\ route(gate, asks, url)
  BY DEF AppShown
<1>3. /\ asks' \in SUBSET Ask
      /\ url' \in {url, "settings"} /\ (url' = "groups" => ~redirects(gate, url))
      /\ (url' # url => redirects(gate, url))
      /\ settings' \in {"none", "checking"}
      /\ settings' = "checking" => /\ url' = "settings"
                                   /\ Fresh(asks', "badge") /\ Tells(asks', "badge", Badge(worker))
      /\ settings' = "none" => No(asks', "badge")
      /\ Looking(asks) => Looking(asks')
      /\ \A k \in {"gate", "banner"} :
           /\ Fresh(asks, k) => Fresh(asks', k)
           /\ No(asks, k) => No(asks', k)
           /\ \A v : Tells(asks, k, v) => Tells(asks', k, v)
           /\ \A v : AllTell(asks, k, v) => AllTell(asks', k, v)
      /\ OnlyBoot(asks) => OnlyBoot(asks')
      /\ OneGate(asks) => OneGate(asks')
      /\ Warns(asks) => Warns(asks')
      /\ Counting(asks') => Counting(asks)
      /\ \A v : Counts(asks, v) => Counts(asks', v)
      /\ MayNag(asks') => MayNag(asks)
  BY <1>1, <1>2, Routed
<1>4. flows' = Left
  BY <1>2 DEF route
<1>5. /\ flows' \in [Flows -> Flow]
      /\ \A f \in Flows : flows'[f].at = flows[f].at
      /\ \A f \in {"pick", "lock", "reconnect"} : flows'[f].at # "idle" => flows'[f].gone
  BY <1>1, <1>4, LeftFlows
<1>6. TypeOK'
  BY <1>1, <1>2, <1>3, <1>5 DEF AppShown, TypeOK
<1>7. (Ending' <=> Ending) /\ flows'["restore"].at = flows["restore"].at
  BY <1>5 DEF Ending, Flows
<1>8. Booted'
  BY <1>2, <1>3, <1>5, <1>7 DEF AppShown, Inv, Booted, Without, Running
<1>9. WarningKept'
  BY <1>2, <1>3, <1>5, <1>7 DEF AppShown, Inv, WarningKept, Without, Failed, Asked
<1>10. NagKept'
  BY <1>2, <1>3, <1>5, <1>7 DEF AppShown, Inv, NagKept, Without, Asked, Nags
<1>11. Importing'
  BY <1>2, <1>3, <1>5, <1>7 DEF AppShown, Inv, Importing, Without
<1>12. GateKept'
  BY <1>2, <1>3, <1>5, <1>7 DEF AppShown, Inv, GateKept, Without
<1>13. GroupsKept'
  BY <1>2, <1>3, <1>5, <1>7 DEF AppShown, Inv, GroupsKept, Without
<1>14. OnePage'
  BY <1>2, <1>3, <1>5, <1>7 DEF AppShown, Inv, OnePage
<1>15. BadgeKept'
  BY <1>2, <1>3, <1>5, <1>7 DEF AppShown, Inv, BadgeKept, Without
<1>. QED
  BY <1>6, <1>8, <1>9, <1>10, <1>11, <1>12, <1>13, <1>14, <1>15 DEF Inv

LEMMA BannerTimerSound == ASSUME Inv, BannerTimer PROVE Inv'
<1>1. asks \in SUBSET Ask /\ TypeOK
  BY DEF Inv, TypeOK
<1>2. LookAtBanner(asks, worker) /\ timer' = FALSE /\ (boot # "app" => "early" \in rash') /\ rash \subseteq rash'
  BY DEF BannerTimer, Note
<1>3. /\ asks' \in SUBSET Ask
      /\ banner' = IF boot = "app" THEN banner ELSE "hidden"
      /\ boot = "app" => /\ Fresh(asks', "banner")
                         /\ Failed => Warns(asks')
                         /\ \A v : Counts(asks', v)
                         /\ MayNag(asks') => Badge(worker) = "browser-only"
      /\ boot # "app" => asks' = asks
      /\ Counting(asks') => Counting(asks)
      /\ \A k \in {"gate", "badge"} :
           /\ Fresh(asks, k) => Fresh(asks', k)
           /\ No(asks, k) => No(asks', k)
           /\ \A v : Tells(asks, k, v) => Tells(asks', k, v)
           /\ \A v : AllTell(asks, k, v) => AllTell(asks', k, v)
      /\ OnlyBoot(asks) => OnlyBoot(asks')
      /\ OneGate(asks) => OneGate(asks')
      /\ Looking(asks) => Looking(asks')
  BY <1>1, <1>2, Looked
<1>4. TypeOK'
  BY <1>1, <1>2, <1>3 DEF BannerTimer, TypeOK, Note
<1>5. Badge(worker) = "browser-only" => ~worker.attached
  BY DEF Badge
<1>6. Booted'
  BY <1>2, <1>3, <1>5 DEF BannerTimer, Inv, Booted, Without, Running
<1>7. WarningKept'
  BY <1>2, <1>3, <1>5 DEF BannerTimer, Inv, WarningKept, Without, Failed, Asked
<1>8. NagKept'
  BY <1>2, <1>3, <1>5 DEF BannerTimer, Inv, NagKept, Without, Ending, Asked, Nags
<1>9. Importing'
  BY <1>2, <1>3, <1>5 DEF BannerTimer, Inv, Importing, Without
<1>10. GateKept'
  BY <1>2, <1>3, <1>5 DEF BannerTimer, Inv, GateKept, Without, Ending
<1>11. GroupsKept'
  BY <1>2, <1>3, <1>5 DEF BannerTimer, Inv, GroupsKept, Without, Ending
<1>12. OnePage'
  BY <1>2, <1>3, <1>5 DEF BannerTimer, Inv, OnePage
<1>13. BadgeKept'
  BY <1>2, <1>3, <1>5 DEF BannerTimer, Inv, BadgeKept, Without, Ending
<1>. QED
  BY <1>4, <1>6, <1>7, <1>8, <1>9, <1>10, <1>11, <1>12, <1>13 DEF Inv

LEMMA GateArrivesSound == ASSUME Inv, NEW a \in asks, GateArrives(a) PROVE Inv'
<1> DEFINE r == asks \ {a}
           g == [enabled |-> a.seen = "private-folder", resolved |-> TRUE]
<1>1. asks \in SUBSET Ask /\ url \in {"directory", "groups", "settings"} /\ TypeOK
  BY DEF Inv, TypeOK
<1>2. /\ Kind(a.for) = "gate" /\ gate' = g /\ boot # "starting"
      /\ Crossed(a) \subseteq rash' /\ rash \subseteq rash' /\ rash' = rash \cup Crossed(a)
      /\ g.resolved /\ g \in [enabled : BOOLEAN, resolved : BOOLEAN]
      /\ (g.enabled <=> a.seen = "private-folder")
      /\ a.for \notin {"badge", "orphan"}
  BY Kinds DEF GateArrives, Note, Inv, Booted, No
<1>3. /\ r \in SUBSET Ask
      /\ "astray" \in Crossed(a) \/ a.fresh \/ Fresh(r, Kind(a.for))
      /\ \A k : /\ Kind(a.for) # k \/ ~a.fresh => (Fresh(asks, k) => Fresh(r, k))
                /\ No(asks, k) => No(r, k)
                /\ \A v : Tells(asks, k, v) => Tells(r, k, v)
                /\ \A v : AllTell(asks, k, v) => AllTell(r, k, v)
      /\ OnlyBoot(asks) => OnlyBoot(r)
      /\ OneGate(asks) => OneGate(r) /\ (Kind(a.for) = "gate" => No(r, "gate"))
      /\ a.for \notin {"badge", "orphan"} \/ ~a.fresh => (Looking(asks) => Looking(r))
      /\ Warns(asks) => Warns(r)
      /\ Counting(r) => Counting(asks)
      /\ \A v : Counts(asks, v) => Counts(r, v)
      /\ MayNag(r) => MayNag(asks)
  BY <1>1, Answered
<1> HIDE DEF r, g
<1>4. /\ asks' \in SUBSET Ask
      /\ \/ /\ a.for = "boot" /\ redirects(g, url)
            /\ url' = "settings" /\ settings' = "checking"
            /\ Fresh(asks', "badge") /\ Tells(asks', "badge", Badge(worker))
         \/ /\ ~(a.for = "boot" /\ redirects(g, url))
            /\ asks' = r /\ url' = url /\ settings' = settings /\ flows' = flows
      /\ Looking(r) => Looking(asks')
      /\ \A k \in {"gate", "banner"} :
           /\ Fresh(r, k) => Fresh(asks', k)
           /\ No(r, k) => No(asks', k)
           /\ \A v : Tells(r, k, v) => Tells(asks', k, v)
           /\ \A v : AllTell(r, k, v) => AllTell(asks', k, v)
      /\ OnlyBoot(r) => OnlyBoot(asks')
      /\ OneGate(r) => OneGate(asks')
      /\ Warns(r) => Warns(asks')
      /\ Counting(asks') => Counting(r)
      /\ \A v : Counts(r, v) => Counts(asks', v)
      /\ MayNag(asks') => MayNag(r)
      /\ flows' \in [Flows -> Flow]
      /\ \A f \in Flows : flows'[f].at = flows[f].at
  <2>1. CASE a.for = "boot" /\ redirects(g, url)
    <3>1. route(g, r, url)
      BY <1>2, <2>1 DEF GateArrives, g, r
    <3>2. url' = "settings" /\ settings' = "checking" /\ flows' = Left
      BY <2>1, <3>1 DEF route
    <3>3. /\ asks' \in SUBSET Ask
          /\ url' \in {url, "settings"} /\ (url' = "groups" => ~redirects(g, url))
          /\ (url' # url => redirects(g, url))
          /\ settings' \in {"none", "checking"}
          /\ settings' = "checking" => /\ url' = "settings"
                                       /\ Fresh(asks', "badge") /\ Tells(asks', "badge", Badge(worker))
          /\ settings' = "none" => No(asks', "badge")
          /\ Looking(r) => Looking(asks')
          /\ \A k \in {"gate", "banner"} :
               /\ Fresh(r, k) => Fresh(asks', k)
               /\ No(r, k) => No(asks', k)
               /\ \A v : Tells(r, k, v) => Tells(asks', k, v)
               /\ \A v : AllTell(r, k, v) => AllTell(asks', k, v)
          /\ OnlyBoot(r) => OnlyBoot(asks')
          /\ OneGate(r) => OneGate(asks')
          /\ Warns(r) => Warns(asks')
          /\ Counting(asks') => Counting(r)
          /\ \A v : Counts(r, v) => Counts(asks', v)
          /\ MayNag(asks') => MayNag(r)
      BY <1>1, <1>3, <3>1, Routed
    <3>4. flows' \in [Flows -> Flow] /\ \A f \in Flows : flows'[f].at = flows[f].at
      BY <1>1, <3>2, LeftFlows
    <3>. QED
      BY <2>1, <3>2, <3>3, <3>4
  <2>2. CASE ~(a.for = "boot" /\ redirects(g, url))
    <3>1. asks' = r /\ url' = url /\ settings' = settings /\ flows' = flows
      BY <1>2, <2>2 DEF GateArrives, g, r
    <3>. QED
      BY <1>1, <1>3, <2>2, <3>1 DEF TypeOK
  <2>. QED
    BY <2>1, <2>2
<1>5. TypeOK'
  BY <1>1, <1>2, <1>4 DEF GateArrives, TypeOK, Crossed
<1>6. (Ending' <=> Ending) /\ flows'["restore"].at = flows["restore"].at
  BY <1>4 DEF Ending, Flows
<1>7. g.enabled => a.seen # "browse-only-desktop"
  BY <1>2
<1>8. OnlyBoot(asks) => a.for = "boot"
  BY <1>2 DEF OnlyBoot
<1>9. /\ AllTell(asks, "gate", "private-folder") => g.enabled
      /\ AllTell(asks, "gate", "browse-only-desktop") => ~g.enabled
      /\ a.fresh /\ Tells(asks, "gate", "private-folder") => g.enabled
      /\ a.fresh /\ Tells(asks, "gate", "browse-only-desktop") => ~g.enabled
  BY <1>2 DEF AllTell, Tells
<1>10. Booted'
  BY <1>2, <1>3, <1>4, <1>6 DEF GateArrives, Inv, Booted, Without, Running
<1>11. WarningKept'
  BY <1>2, <1>3, <1>4, <1>6 DEF GateArrives, Inv, WarningKept, Without, Failed, Asked
<1>12. NagKept'
  BY <1>2, <1>3, <1>4, <1>6 DEF GateArrives, Inv, NagKept, Without, Asked, Nags
<1>13. Importing'
  BY <1>2, <1>3, <1>4, <1>6 DEF GateArrives, Inv, Importing, Without
<1>14. GateKept'
  BY <1>2, <1>3, <1>4, <1>6, <1>9 DEF GateArrives, Inv, GateKept, Without
<1>15. GroupsKept'
  BY <1>2, <1>3, <1>4, <1>6, <1>8, <1>9 DEF GateArrives, Inv, GroupsKept, Without, redirects
<1>16. OnePage'
  BY <1>2, <1>3, <1>4, <1>6 DEF GateArrives, Inv, OnePage
<1>17. BadgeKept'
  BY <1>2, <1>3, <1>4, <1>6 DEF GateArrives, Inv, BadgeKept, Without
<1>. QED
  BY <1>5, <1>10, <1>11, <1>12, <1>13, <1>14, <1>15, <1>16, <1>17 DEF Inv

LEMMA BannerArrivesSound == ASSUME Inv, NEW a \in asks, BannerArrives(a) PROVE Inv'
<1> DEFINE r == asks \ {a}
<1>1. asks \in SUBSET Ask /\ TypeOK
  BY DEF Inv, TypeOK
<1>2. /\ a.for = "banner" /\ Kind(a.for) = "banner" /\ boot = "app" /\ decide(a)
      /\ rash' = rash \cup Crossed(a) /\ rash \subseteq rash' /\ Crossed(a) \subseteq rash'
  BY Kinds DEF BannerArrives, Note, Inv, Booted, No
<1>3. /\ r \in SUBSET Ask
      /\ "astray" \in Crossed(a) \/ a.fresh \/ Fresh(r, Kind(a.for))
      /\ \A k : /\ Kind(a.for) # k \/ ~a.fresh => (Fresh(asks, k) => Fresh(r, k))
                /\ No(asks, k) => No(r, k)
                /\ \A v : Tells(asks, k, v) => Tells(r, k, v)
                /\ \A v : AllTell(asks, k, v) => AllTell(r, k, v)
      /\ OnlyBoot(asks) => OnlyBoot(r)
      /\ OneGate(asks) => OneGate(r) /\ (Kind(a.for) = "gate" => No(r, "gate"))
      /\ a.for \notin {"badge", "orphan"} \/ ~a.fresh => (Looking(asks) => Looking(r))
      /\ Warns(asks) => Warns(r)
      /\ Counting(r) => Counting(asks)
      /\ \A v : Counts(asks, v) => Counts(r, v)
      /\ MayNag(r) => MayNag(asks)
  BY <1>1, Answered
<1> HIDE DEF r
<1>4. /\ \/ a.seen = "write-failed" /\ banner' = "write-failed" /\ asks' = r
         \/ a.seen # "write-failed" /\ banner' = "hidden" /\ asks' = r
         \/ /\ a.seen = "browser-only" /\ ~dismissed /\ banner' = banner
            /\ "astray" \in rash' \/ Fresh(asks', "banner")
      /\ Counting(asks') => Counting(asks) \/ ~dismissed
      /\ asks' \in SUBSET Ask
      /\ "astray" \in rash' \/ a.fresh \/ Fresh(asks', "banner")
      /\ \A k : No(asks, k) => No(asks', k)
      /\ \A k \in {"gate", "badge"} :
           /\ Fresh(asks, k) => Fresh(asks', k)
           /\ \A v : Tells(asks, k, v) => Tells(asks', k, v)
           /\ \A v : AllTell(asks, k, v) => AllTell(asks', k, v)
      /\ OnlyBoot(asks) => OnlyBoot(asks')
      /\ OneGate(asks) => OneGate(asks')
      /\ Looking(asks) => Looking(asks')
      /\ Warns(asks) => Warns(asks')
      /\ Counts(asks, Stranded(worker)) => Counts(asks', Stranded(worker))
      /\ MayNag(asks') => MayNag(asks)
  <2>1. CASE a.seen = "browser-only" /\ ~dismissed
    <3>1. asks' = CountRows(a) /\ banner' = banner
      BY <1>2, <2>1 DEF decide
    <3>. QED
      BY <1>1, <1>2, <2>1, <3>1, Recounted
  <2>2. CASE ~(a.seen = "browser-only" /\ ~dismissed)
    <3>1. /\ asks' = r
          /\ \/ a.seen = "write-failed" /\ banner' = "write-failed"
             \/ a.seen # "write-failed" /\ banner' = "hidden"
      BY <1>2, <2>2 DEF decide, r
    <3>. QED
      BY <1>2, <1>3, <3>1
  <2>. QED
    BY <2>1, <2>2
<1>5. TypeOK'
  BY <1>1, <1>2, <1>4 DEF BannerArrives, TypeOK, Crossed, Nags
<1>6. Warns(asks) /\ a.fresh => a.seen = "write-failed"
  BY <1>2 DEF Warns
<1>7. "write-failed" \notin Nags /\ "hidden" \notin Nags
  BY DEF Nags
<1>8. Booted'
  BY <1>2, <1>4 DEF BannerArrives, Inv, Booted, Without, Running
<1>9. WarningKept'
  BY <1>2, <1>4, <1>6 DEF BannerArrives, Inv, WarningKept, Without, Failed, Asked
<1>10. NagKept'
  BY <1>2, <1>4, <1>7 DEF BannerArrives, Inv, NagKept, Without, Ending, Asked
<1>11. Importing'
  BY <1>2, <1>4 DEF BannerArrives, Inv, Importing, Without
<1>12. GateKept'
  BY <1>2, <1>4 DEF BannerArrives, Inv, GateKept, Without, Ending
<1>13. GroupsKept'
  BY <1>2, <1>4 DEF BannerArrives, Inv, GroupsKept, Without, Ending
<1>14. OnePage'
  BY <1>2, <1>4 DEF BannerArrives, Inv, OnePage
<1>15. BadgeKept'
  BY <1>2, <1>4 DEF BannerArrives, Inv, BadgeKept, Without, Ending
<1>. QED
  BY <1>5, <1>8, <1>9, <1>10, <1>11, <1>12, <1>13, <1>14, <1>15 DEF Inv

LEMMA CountArrivesSound == ASSUME Inv, NEW a \in asks, CountArrives(a) PROVE Inv'
<1>1. asks \in SUBSET Ask /\ TypeOK
  BY DEF Inv, TypeOK
<1>2. /\ a.for = "count" /\ Kind(a.for) = "banner" /\ boot = "app" /\ asks' = asks \ {a} /\ banner' = a.seen
      /\ rash' = rash \cup Crossed(a) /\ rash \subseteq rash' /\ Crossed(a) \subseteq rash'
  BY Kinds DEF CountArrives, Note, Inv, Booted, No
<1>3. LET r == asks' IN
      /\ r \in SUBSET Ask
      /\ "astray" \in Crossed(a) \/ a.fresh \/ Fresh(r, Kind(a.for))
      /\ \A k : /\ Kind(a.for) # k \/ ~a.fresh => (Fresh(asks, k) => Fresh(r, k))
                /\ No(asks, k) => No(r, k)
                /\ \A v : Tells(asks, k, v) => Tells(r, k, v)
                /\ \A v : AllTell(asks, k, v) => AllTell(r, k, v)
      /\ OnlyBoot(asks) => OnlyBoot(r)
      /\ OneGate(asks) => OneGate(r) /\ (Kind(a.for) = "gate" => No(r, "gate"))
      /\ a.for \notin {"badge", "orphan"} \/ ~a.fresh => (Looking(asks) => Looking(r))
      /\ Warns(asks) => Warns(r)
      /\ Counting(r) => Counting(asks)
      /\ \A v : Counts(asks, v) => Counts(r, v)
      /\ MayNag(r) => MayNag(asks)
  BY <1>1, <1>2, Answered
<1>4. a.seen \in Nags /\ a.seen # "write-failed"
  BY <1>1, <1>2 DEF Ask, Nags
<1>5. TypeOK'
  BY <1>1, <1>2, <1>4 DEF CountArrives, TypeOK, Crossed
<1>6. (a.fresh => ~Warns(asks)) /\ (a.fresh /\ Counts(asks, Stranded(worker)) => a.seen = Stranded(worker))
  BY <1>2 DEF Warns, Counts
<1>7. Counting(asks) /\ (a.fresh => MayNag(asks))
  BY <1>2 DEF Counting, MayNag
<1>8. Booted'
  BY <1>2, <1>3 DEF CountArrives, Inv, Booted, Without, Running
<1>9. WarningKept'
  BY <1>2, <1>3, <1>6 DEF CountArrives, Inv, WarningKept, Without, Failed, Asked
<1>10. NagKept'
  BY <1>2, <1>3, <1>6, <1>7 DEF CountArrives, Inv, NagKept, Without, Ending, Asked
<1>11. Importing'
  BY <1>2, <1>3 DEF CountArrives, Inv, Importing, Without
<1>12. GateKept'
  BY <1>2, <1>3 DEF CountArrives, Inv, GateKept, Without, Ending
<1>13. GroupsKept'
  BY <1>2, <1>3 DEF CountArrives, Inv, GroupsKept, Without, Ending
<1>14. OnePage'
  BY <1>2, <1>3 DEF CountArrives, Inv, OnePage
<1>15. BadgeKept'
  BY <1>2, <1>3 DEF CountArrives, Inv, BadgeKept, Without, Ending
<1>. QED
  BY <1>5, <1>8, <1>9, <1>10, <1>11, <1>12, <1>13, <1>14, <1>15 DEF Inv

LEMMA RenderStateSound == ASSUME Inv, NEW a \in asks, renderState(a) PROVE Inv'
<1> DEFINE r == asks \ {a}
<1>1. asks \in SUBSET Ask /\ TypeOK
  BY DEF Inv, TypeOK
<1>2. /\ a.for \in {"badge", "orphan"} /\ Kind(a.for) = a.for /\ LookAtBanner(r, worker)
      /\ a.for = "badge" => /\ settings' = a.seen /\ a.seen \in Badges /\ a.seen # "none"
                            /\ settings # "none" /\ Crossed(a) \subseteq rash'
      /\ a.for = "orphan" => settings' = settings
      /\ rash \subseteq rash' /\ rash' \subseteq rash \cup Crossed(a)
      /\ boot # "app" => ~MayNag(asks) /\ Warns(asks) /\ \A v : Counts(asks, v)
  <2>1. boot # "app" => No(asks, "banner")
    BY DEF Inv, Booted
  <2>2. No(asks, "banner") => ~MayNag(asks) /\ Warns(asks) /\ \A v : Counts(asks, v)
    BY Kinds DEF No, MayNag, Warns, Counts
  <2>3. a.for = "badge" => a.seen \in Badges /\ a.seen # "none" /\ settings # "none"
    BY <1>1, Kinds DEF Ask, Badges, Inv, OnePage, No
  <2>. QED
    BY <2>1, <2>2, <2>3, Kinds DEF renderState, Note
<1>3. /\ r \in SUBSET Ask
      /\ "astray" \in Crossed(a) \/ a.fresh \/ Fresh(r, Kind(a.for))
      /\ \A k : /\ Kind(a.for) # k \/ ~a.fresh => (Fresh(asks, k) => Fresh(r, k))
                /\ No(asks, k) => No(r, k)
                /\ \A v : Tells(asks, k, v) => Tells(r, k, v)
                /\ \A v : AllTell(asks, k, v) => AllTell(r, k, v)
      /\ OnlyBoot(asks) => OnlyBoot(r)
      /\ OneGate(asks) => OneGate(r) /\ (Kind(a.for) = "gate" => No(r, "gate"))
      /\ a.for \notin {"badge", "orphan"} \/ ~a.fresh => (Looking(asks) => Looking(r))
      /\ Warns(asks) => Warns(r)
      /\ Counting(r) => Counting(asks)
      /\ \A v : Counts(asks, v) => Counts(r, v)
      /\ MayNag(r) => MayNag(asks)
  BY <1>1, Answered
<1> HIDE DEF r
<1>4. /\ asks' \in SUBSET Ask
      /\ banner' = IF boot = "app" THEN banner ELSE "hidden"
      /\ boot = "app" => /\ Fresh(asks', "banner")
                         /\ Failed => Warns(asks')
                         /\ \A v : Counts(asks', v)
                         /\ MayNag(asks') => Badge(worker) = "browser-only"
      /\ boot # "app" => asks' = r
      /\ Counting(asks') => Counting(r)
      /\ \A k \in {"gate", "badge"} :
           /\ Fresh(r, k) => Fresh(asks', k)
           /\ No(r, k) => No(asks', k)
           /\ \A v : Tells(r, k, v) => Tells(asks', k, v)
           /\ \A v : AllTell(r, k, v) => AllTell(asks', k, v)
      /\ OnlyBoot(r) => OnlyBoot(asks')
      /\ OneGate(r) => OneGate(asks')
      /\ Looking(r) => Looking(asks')
  BY <1>2, <1>3, Looked
<1>5. TypeOK'
  BY <1>1, <1>2, <1>4 DEF renderState, TypeOK, Crossed
<1>6. Badge(worker) = "browser-only" => ~worker.attached
  BY DEF Badge
<1>7. a.for = "badge" /\ a.fresh /\ Tells(asks, "badge", Badge(worker)) => a.seen = Badge(worker)
  BY <1>2 DEF Tells
<1>8. Booted'
  BY <1>2, <1>3, <1>4 DEF renderState, Inv, Booted, Without, Running
<1>9. WarningKept'
  BY <1>2, <1>3, <1>4 DEF renderState, Inv, Booted, WarningKept, Without, Failed, Asked
<1>10. NagKept'
  BY <1>2, <1>3, <1>4, <1>6 DEF renderState, Inv, Booted, NagKept, Without, Ending, Asked, Nags
<1>11. Importing'
  BY <1>2, <1>3, <1>4 DEF renderState, Inv, Importing, Without
<1>12. GateKept'
  BY <1>2, <1>3, <1>4 DEF renderState, Inv, GateKept, Without, Ending
<1>13. GroupsKept'
  BY <1>2, <1>3, <1>4 DEF renderState, Inv, GroupsKept, Without, Ending
<1>14. OnePage'
  BY <1>2, <1>3, <1>4 DEF renderState, Inv, OnePage
<1>15. BadgeKept'
  BY <1>2, <1>3, <1>4, <1>7 DEF renderState, Inv, BadgeKept, Without, Ending
<1>. QED
  BY <1>5, <1>8, <1>9, <1>10, <1>11, <1>12, <1>13, <1>14, <1>15 DEF Inv

LEMMA AskFailsSound == ASSUME Inv, NEW a \in asks, AskFails(a) PROVE Inv'
<1>1. asks \in SUBSET Ask /\ TypeOK
  BY DEF Inv, TypeOK
<1>2. asks' = asks \ {a} /\ "astray" \in rash' /\ rash \subseteq rash'
  BY DEF AskFails, Note
<1>3. LET r == asks' IN
      /\ r \in SUBSET Ask
      /\ "astray" \in Crossed(a) \/ a.fresh \/ Fresh(r, Kind(a.for))
      /\ \A k : /\ Kind(a.for) # k \/ ~a.fresh => (Fresh(asks, k) => Fresh(r, k))
                /\ No(asks, k) => No(r, k)
                /\ \A v : Tells(asks, k, v) => Tells(r, k, v)
                /\ \A v : AllTell(asks, k, v) => AllTell(r, k, v)
      /\ OnlyBoot(asks) => OnlyBoot(r)
      /\ OneGate(asks) => OneGate(r) /\ (Kind(a.for) = "gate" => No(r, "gate"))
      /\ a.for \notin {"badge", "orphan"} \/ ~a.fresh => (Looking(asks) => Looking(r))
      /\ Warns(asks) => Warns(r)
      /\ Counting(r) => Counting(asks)
      /\ \A v : Counts(asks, v) => Counts(r, v)
      /\ MayNag(r) => MayNag(asks)
  BY <1>1, <1>2, Answered
<1>4. boot # "app" => banner' = "hidden"
  BY Kinds DEF AskFails, Inv, Booted, No
<1>5. gate' \in [enabled : BOOLEAN, resolved : BOOLEAN] /\ gate'.resolved = gate.resolved
  BY <1>1 DEF AskFails, TypeOK
<1>6. TypeOK'
  BY <1>1, <1>2, <1>5 DEF AskFails, TypeOK, Note, Nags
<1>7. Booted'
  BY <1>2, <1>3, <1>4, <1>5 DEF AskFails, Inv, Booted, Without, Running
<1>8. WarningKept'
  BY <1>2 DEF WarningKept, Without
<1>9. NagKept'
  BY <1>2 DEF NagKept, Without
<1>10. Importing'
  BY <1>2, <1>3, <1>4, <1>5 DEF AskFails, Inv, Importing, Without
<1>11. GateKept'
  BY <1>2 DEF GateKept, Without
<1>12. GroupsKept'
  BY <1>2 DEF GroupsKept, Without
<1>13. OnePage'
  BY <1>2, <1>3, <1>4, <1>5 DEF AskFails, Inv, OnePage
<1>14. BadgeKept'
  BY <1>2 DEF BadgeKept, Without
<1>. QED
  BY <1>6, <1>7, <1>8, <1>9, <1>10, <1>11, <1>12, <1>13, <1>14 DEF Inv

LEMMA GoToSound == ASSUME Inv, NEW u \in {"directory", "groups", "settings"}, GoTo(u) PROVE Inv'
<1>1. asks \in SUBSET Ask /\ TypeOK
  BY DEF Inv, TypeOK
<1>2. /\ route(gate, asks, u) /\ boot = "app" /\ rash \subseteq rash' /\ flows' = Left
      /\ rash' \subseteq rash \cup {"hasty"}
      /\ u = "groups" /\ (Asking("gate") \/ Running \ {"restore"} # {}) => "hasty" \in rash'
  BY DEF GoTo, Note, route
<1>3. /\ asks' \in SUBSET Ask
      /\ url' \in {u, "settings"} /\ (url' = "groups" => ~redirects(gate, u))
      /\ (url' # u => redirects(gate, u))
      /\ settings' \in {"none", "checking"}
      /\ settings' = "checking" => /\ url' = "settings"
                                   /\ Fresh(asks', "badge") /\ Tells(asks', "badge", Badge(worker))
      /\ settings' = "none" => No(asks', "badge")
      /\ Looking(asks) => Looking(asks')
      /\ \A k \in {"gate", "banner"} :
           /\ Fresh(asks, k) => Fresh(asks', k)
           /\ No(asks, k) => No(asks', k)
           /\ \A v : Tells(asks, k, v) => Tells(asks', k, v)
           /\ \A v : AllTell(asks, k, v) => AllTell(asks', k, v)
      /\ OnlyBoot(asks) => OnlyBoot(asks')
      /\ OneGate(asks) => OneGate(asks')
      /\ Warns(asks) => Warns(asks')
      /\ Counting(asks') => Counting(asks)
      /\ \A v : Counts(asks, v) => Counts(asks', v)
      /\ MayNag(asks') => MayNag(asks)
  BY <1>1, <1>2, Routed
<1>4. /\ flows' \in [Flows -> Flow]
      /\ \A f \in Flows : flows'[f].at = flows[f].at
      /\ \A f \in {"pick", "lock", "reconnect"} : flows'[f].at # "idle" => flows'[f].gone
  BY <1>1, <1>2, LeftFlows
<1>5. TypeOK'
  BY <1>1, <1>2, <1>3, <1>4 DEF GoTo, TypeOK
<1>6. (Ending' <=> Ending) /\ flows'["restore"].at = flows["restore"].at
  BY <1>4 DEF Ending, Flows
<1>7. /\ u = "groups" /\ "hasty" \notin rash' => ~Ending /\ No(asks, "gate")
      /\ No(asks, "gate") => OnlyBoot(asks) /\ ~Fresh(asks, "gate") /\ \A v : AllTell(asks, "gate", v)
  BY <1>2 DEF Asking, Running, Ending, Flows, No, OnlyBoot, AllTell, Fresh
<1>8. Booted'
  BY <1>2, <1>3, <1>4, <1>6 DEF GoTo, Inv, Booted, Without, Running
<1>9. WarningKept'
  BY <1>2, <1>3, <1>4, <1>6 DEF GoTo, Inv, WarningKept, Without, Failed, Asked
<1>10. NagKept'
  BY <1>2, <1>3, <1>4, <1>6 DEF GoTo, Inv, NagKept, Without, Asked, Nags
<1>11. Importing'
  BY <1>2, <1>3, <1>4, <1>6 DEF GoTo, Inv, Importing, Without
<1>12. GateKept'
  BY <1>2, <1>3, <1>4, <1>6 DEF GoTo, Inv, GateKept, Without
<1>13. GroupsKept'
  BY <1>2, <1>3, <1>4, <1>6, <1>7 DEF GoTo, Inv, GateKept, GroupsKept, Without, redirects
<1>14. OnePage'
  BY <1>2, <1>3, <1>4, <1>6 DEF GoTo, Inv, OnePage
<1>15. BadgeKept'
  BY <1>2, <1>3, <1>4, <1>6 DEF GoTo, Inv, BadgeKept, Without
<1>. QED
  BY <1>5, <1>8, <1>9, <1>10, <1>11, <1>12, <1>13, <1>14, <1>15 DEF Inv

LEMMA DismissSound == ASSUME Inv, Dismiss PROVE Inv'
<1>1. /\ boot = "app" /\ rash \subseteq rash' /\ dismissed' /\ banner' = "hidden" /\ banner # "write-failed"
      /\ "hidden" \notin Nags
  BY DEF Dismiss, Note, Nags, Inv, Booted
<1>2. Counting(asks) => "late" \in rash'
  BY Kinds DEF Dismiss, Note, Asking, Counting
<1>3. TypeOK'
  BY DEF Inv, TypeOK, Dismiss, Note
<1>4. Booted'
  BY <1>1, <1>2 DEF Dismiss, Inv, Booted, Without, Running
<1>5. WarningKept'
  BY <1>1, <1>2 DEF Dismiss, Inv, WarningKept, Without, Failed, Asked
<1>6. NagKept'
  BY <1>1, <1>2 DEF Dismiss, Inv, NagKept, Without, Ending
<1>7. Importing'
  BY <1>1, <1>2 DEF Dismiss, Inv, Importing, Without
<1>8. GateKept'
  BY <1>1, <1>2 DEF Dismiss, Inv, GateKept, Without, Ending
<1>9. GroupsKept'
  BY <1>1, <1>2 DEF Dismiss, Inv, GroupsKept, Without, Ending
<1>10. OnePage'
  BY <1>1, <1>2 DEF Dismiss, Inv, OnePage
<1>11. BadgeKept'
  BY <1>1, <1>2 DEF Dismiss, Inv, BadgeKept, Without, Ending
<1>. QED
  BY <1>3, <1>4, <1>5, <1>6, <1>7, <1>8, <1>9, <1>10, <1>11 DEF Inv

LEMMA LapseSound == ASSUME Inv, Lapse PROVE Inv'
<1>1. /\ Unlocked(worker) /\ worker' = [worker EXCEPT !.granted = FALSE]
      /\ rash \subseteq rash' /\ "lapsed" \in rash'
  BY DEF Lapse, Note
<1>2. /\ worker' \in Worker /\ ~Unlocked(worker)' /\ ~Failed' /\ worker'.attached = worker.attached
      /\ Stranded(worker)' = Stranded(worker)
  BY <1>1 DEF Inv, TypeOK, Worker, Unlocked, Failed, Badge, Stranded
<1>3. TypeOK'
  BY <1>1, <1>2 DEF Inv, TypeOK, Lapse, Note
<1>4. Booted'
  BY <1>1, <1>2 DEF Lapse, Inv, Booted, Without, Running
<1>5. WarningKept'
  BY <1>1, <1>2 DEF Lapse, Inv, WarningKept, Without, Failed, Asked
<1>6. NagKept'
  BY <1>1, <1>2 DEF Lapse, Inv, NagKept, Without, Ending, Asked, Nags
<1>7. Importing'
  BY <1>1, <1>2 DEF Lapse, Inv, Importing, Without
<1>8. GateKept'
  BY <1>1, <1>2 DEF Lapse, Inv, GateKept, Without, Ending
<1>9. GroupsKept'
  BY <1>1, <1>2 DEF Lapse, Inv, GroupsKept, Without, Ending
<1>10. OnePage'
  BY <1>1, <1>2 DEF Lapse, Inv, OnePage
<1>11. BadgeKept'
  BY <1>1, <1>2 DEF Lapse, Inv, BadgeKept, Without, Ending
<1>. QED
  BY <1>3, <1>4, <1>5, <1>6, <1>7, <1>8, <1>9, <1>10, <1>11 DEF Inv

LEMMA SendEditSound == ASSUME Inv, NEW e \in Edit, SendEdit(e) PROVE Inv'
<1>1. boot = "app" /\ gate.enabled /\ Unlocked(worker) /\ worker.attached
  BY DEF SendEdit, refuseIfBrowseOnly, Unlocked
<1>2. TypeOK'
  BY DEF Inv, TypeOK, SendEdit
<1>3. Booted'
  BY <1>1 DEF SendEdit, Inv, Booted, Without, Running
<1>4. WarningKept'
  BY <1>1 DEF SendEdit, Inv, WarningKept, Without, Failed, Asked
<1>5. NagKept'
  BY <1>1 DEF SendEdit, Inv, NagKept, Without, Ending, Asked, Nags
<1>6. Importing'
  BY <1>1 DEF SendEdit, Inv, Importing, Without
<1>7. GateKept'
  BY <1>1 DEF SendEdit, Inv, GateKept, Without, Ending
<1>8. GroupsKept'
  BY <1>1 DEF SendEdit, Inv, GroupsKept, Without, Ending
<1>9. OnePage'
  BY <1>1 DEF SendEdit, Inv, OnePage
<1>10. BadgeKept'
  BY <1>1 DEF SendEdit, Inv, BadgeKept, Without, Ending
<1>. QED
  BY <1>2, <1>3, <1>4, <1>5, <1>6, <1>7, <1>8, <1>9, <1>10 DEF Inv

\* A flow of the folder ends with a look at the gate and the badge.
LEMMA FlowEndsSound == 
  ASSUME Inv, NEW f \in {"pick", "lock", "reconnect"}, flows[f].at # "idle", NEW w \in Worker,
         w.attached = worker.attached, FlowEnds(f, w), missed' \in BOOLEAN,
         UNCHANGED <<boot, url, gate, banner, dismissed, settings, timer, edits>>
   PROVE Inv'
<1> DEFINE r == getState(asks, "gate", w)
           for == IF flows[f].gone THEN "orphan" ELSE "badge"
<1>1. asks \in SUBSET Ask /\ TypeOK /\ f \in Flows
  BY DEF Inv, TypeOK, Flows
<1>2. /\ worker' = w /\ asks' = getState(r, for, w) /\ flows' = [flows EXCEPT ![f] = Idle]
      /\ rash \subseteq rash' /\ rash' \subseteq rash \cup {"behind"}
      /\ flows[f].gone /\ settings # "none" => "behind" \in rash'
      /\ for \in {"badge", "orphan"} /\ (for = "badge" <=> ~flows[f].gone)
  BY DEF FlowEnds, Unseen, Note
<1>3. Ending /\ boot = "app"
  BY <1>1 DEF Ending, Inv, Booted, Running
<1>4. /\ r \in SUBSET Ask
      /\ Fresh(r, "gate") /\ Tells(r, "gate", computePrivateDataTier(w))
      /\ \A k \in {"banner", "badge"} :
           /\ Fresh(asks, k) => Fresh(r, k)
           /\ No(asks, k) => No(r, k)
           /\ \A v : Tells(asks, k, v) => Tells(r, k, v)
      /\ Counting(r) => Counting(asks)
  BY <1>1, AskGate
<1> HIDE DEF r, for
<1>5. /\ asks' \in SUBSET Ask
      /\ Looking(asks')
      /\ Fresh(asks', "gate") /\ Tells(asks', "gate", computePrivateDataTier(w))
      /\ for = "badge" => Fresh(asks', "badge") /\ Tells(asks', "badge", Badge(w))
      /\ for = "orphan" => (No(asks, "badge") => No(asks', "badge"))
      /\ Counting(asks') => Counting(asks)
  <2>1. CASE for = "badge"
    <3>1. asks' = getState(r, "badge", w)
      BY <1>2, <2>1
    <3>. QED
      BY <1>4, <2>1, <3>1, AskBadge
  <2>2. CASE for = "orphan"
    <3>1. asks' = getState(r, "orphan", w)
      BY <1>2, <2>2
    <3>. QED
      BY <1>4, <2>2, <3>1, AskBadge
  <2>. QED
    BY <1>2, <2>1, <2>2
<1>6. /\ flows' \in [Flows -> Flow] /\ flows'[f].at = "idle"
      /\ \A g \in Flows \ {f} : flows'[g] = flows[g]
  BY <1>1, <1>2 DEF TypeOK, Idle, Flow, Stages
<1>7. /\ flows'["restore"].at = flows["restore"].at
      /\ \A g \in {"pick", "lock", "reconnect"} : flows'[g].at # "idle" => flows'[g] = flows[g]
  BY <1>6 DEF Flows
<1>8. TypeOK'
  BY <1>1, <1>2, <1>5, <1>6 DEF TypeOK
<1>9. Booted'
  BY <1>2, <1>3, <1>5, <1>7 DEF Inv, Booted, Without, Running
<1>10. WarningKept'
  BY <1>2, <1>3, <1>5, <1>7 DEF Inv, WarningKept, Without, Failed, Asked
<1>11. NagKept'
  BY <1>2, <1>3, <1>5, <1>7 DEF Inv, NagKept, Without, Ending, Asked, Nags
<1>12. Importing'
  BY <1>2, <1>3, <1>5, <1>7 DEF Inv, Importing, Without
<1>13. GateKept'
  BY <1>2, <1>3, <1>5, <1>7, Tier DEF Inv, GateKept, Without
<1>14. GroupsKept'
  BY <1>2, <1>3, <1>5, <1>7 DEF Inv, GroupsKept, Without, Ending
<1>15. OnePage'
  BY <1>2, <1>3, <1>5, <1>7 DEF Inv, OnePage
<1>16. BadgeKept'
  BY <1>2, <1>3, <1>5, <1>7 DEF Inv, BadgeKept, Without, Ending
<1>. QED
  BY <1>8, <1>9, <1>10, <1>11, <1>12, <1>13, <1>14, <1>15, <1>16 DEF Inv

LEMMA FlowsEndSound ==
  ASSUME Inv, PickFails \/ writeNow \/ readNow \/ Locked \/ Reconnected PROVE Inv'
<1>1. worker \in Worker
  BY DEF Inv, TypeOK
<1>2. \A b, c \in BOOLEAN : /\ [worker EXCEPT !.err = b] \in Worker
                           /\ [worker EXCEPT !.rows = c, !.err = b] \in Worker
                           /\ [worker EXCEPT !.granted = b] \in Worker
                           /\ [worker EXCEPT !.err = b].attached = worker.attached
                           /\ [worker EXCEPT !.rows = c, !.err = b].attached = worker.attached
                           /\ [worker EXCEPT !.granted = b].attached = worker.attached
  BY <1>1 DEF Worker
<1>3. worker.granted \in BOOLEAN /\ worker.attached \in BOOLEAN /\ missed \in BOOLEAN
  BY <1>1 DEF Worker, Inv, TypeOK
<1>4. CASE PickFails
  BY <1>1, <1>3, <1>4, FlowEndsSound DEF PickFails
<1>5. CASE writeNow
  <2>1. flows["pick"].at = "saving" /\ UNCHANGED <<boot, url, gate, banner, dismissed, settings, timer, edits>>
    BY <1>5 DEF writeNow
  <2>2. PICK w \in {worker, [worker EXCEPT !.err = FALSE], [worker EXCEPT !.err = TRUE]} :
                 FlowEnds("pick", w) /\ missed' = w.err
    BY <1>5 DEF writeNow
  <2>3. w \in Worker /\ w.attached = worker.attached
    BY <1>1, <1>2
  <2>4. w.err \in BOOLEAN
    BY <2>3 DEF Worker
  <2>. QED
    BY <2>1, <2>2, <2>3, <2>4, FlowEndsSound
<1>6. CASE readNow
  <2>1. flows["pick"].at = "loading" /\ UNCHANGED <<boot, url, gate, banner, dismissed, settings, timer, edits>>
    BY <1>6 DEF readNow
  <2>2. PICK w \in {worker, [worker EXCEPT !.err = TRUE]}
                   \cup {[worker EXCEPT !.rows = r, !.err = FALSE] : r \in BOOLEAN} :
                 FlowEnds("pick", w) /\ missed' = w.err
    BY <1>6 DEF readNow
  <2>3. w \in Worker /\ w.attached = worker.attached
    BY <1>1, <1>2
  <2>4. w.err \in BOOLEAN
    BY <2>3 DEF Worker
  <2>. QED
    BY <2>1, <2>2, <2>3, <2>4, FlowEndsSound
<1>7. CASE Locked
  BY <1>1, <1>3, <1>7, FlowEndsSound DEF Locked
<1>8. CASE Reconnected
  <2>1. /\ flows["reconnect"].at = "reconnecting"
        /\ UNCHANGED <<missed, boot, url, gate, banner, dismissed, settings, timer, edits>>
    BY <1>8 DEF Reconnected
  <2>2. PICK g \in {worker.granted, worker.attached} : FlowEnds("reconnect", [worker EXCEPT !.granted = g])
    BY <1>8 DEF Reconnected
  <2>3. [worker EXCEPT !.granted = g] \in Worker /\ [worker EXCEPT !.granted = g].attached = worker.attached
    BY <1>2, <1>3
  <2>. QED
    BY <1>3, <2>1, <2>2, <2>3, FlowEndsSound
<1>. QED
  BY <1>4, <1>5, <1>6, <1>7, <1>8

\* While a flow of the folder is under way, its end is a look to come.
LEMMA UnderWaySound == 
  ASSUME Inv, NEW f \in {"pick", "lock", "reconnect"}, NEW at \in Stages \ {"idle"},
         boot = "app", flows' = [flows EXCEPT ![f].at = at], settings \in Badges \/ flows[f].at # "idle",
         worker' \in Worker, missed' \in BOOLEAN, Badge(worker') = "write-failed" => Failed,
         flows["restore"].at = "importing" => "raced" \in rash' \/ worker'.attached \/ ~worker.attached,
         rash \subseteq rash', rash' \subseteq rash \cup {"raced"},
         UNCHANGED <<boot, url, gate, banner, dismissed, settings, timer, asks, edits>>
   PROVE Inv'
<1>1. TypeOK /\ f \in Flows /\ flows[f] \in Flow
  BY DEF Inv, TypeOK, Flows
<1>2. settings = "none" => flows[f].at # "idle"
  BY DEF Badges
<1>3. /\ flows' \in [Flows -> Flow] /\ flows'[f].at = at /\ flows'[f].gone = flows[f].gone
      /\ \A g \in Flows \ {f} : flows'[g] = flows[g]
  BY <1>1 DEF TypeOK, Flow
<1>4. Ending' /\ flows'["restore"] = flows["restore"]
  BY <1>3 DEF Ending, Flows
<1>5. \A g \in {"pick", "lock", "reconnect"} : g # f => flows'[g] = flows[g]
  BY <1>3 DEF Flows
<1>6. url = "groups" => "astray" \in rash \/ "hasty" \in rash
  <2>1. flows[f].at # "idle" => Ending
    BY DEF Ending
  <2>2. settings # "none" => url # "groups"
    BY DEF Inv, OnePage
  <2>. QED
    BY <1>2, <2>1, <2>2 DEF Inv, GroupsKept, Without
<1>7. TypeOK'
  BY <1>1, <1>3 DEF TypeOK
<1>8. Booted'
  BY <1>1, <1>2, <1>3, <1>4 DEF Inv, Booted, Without, Running
<1>9. WarningKept'
  BY <1>4 DEF Inv, WarningKept, Without, Failed, Asked
<1>10. NagKept'
  BY <1>4 DEF Inv, NagKept, Without, Asked, Nags
<1>11. Importing'
  BY <1>1, <1>2, <1>3, <1>4 DEF Inv, Importing, Without
<1>12. GateKept'
  BY <1>1, <1>2, <1>3, <1>4 DEF Inv, GateKept, Without
<1>13. GroupsKept'
  BY <1>6 DEF GroupsKept, Without
<1>14. OnePage'
  BY <1>2, <1>3, <1>5 DEF Inv, OnePage
<1>15. BadgeKept'
  BY <1>1, <1>2, <1>3, <1>4 DEF Inv, BadgeKept, Without
<1>. QED
  BY <1>7, <1>8, <1>9, <1>10, <1>11, <1>12, <1>13, <1>14, <1>15 DEF Inv

LEMMA FlowsGoOnSound ==
  ASSUME Inv, pickParentFolder \/ ProbeAnswers \/ clearHandle \/ reconnect PROVE Inv'
<1>1. worker \in Worker /\ flows \in [Flows -> Flow] /\ rash \subseteq rash /\ missed \in BOOLEAN
  BY DEF Inv, TypeOK
<1>2. {"picking", "saving", "loading", "locking", "reconnecting"} \subseteq Stages \ {"idle"}
  BY DEF Stages
<1>3. settings \in Badges => boot = "app" \/ TRUE
  OBVIOUS
<1>4. CASE pickParentFolder
  <2>1. /\ settings \in Badges /\ boot = "app" /\ flows' = [flows EXCEPT !["pick"].at = "picking"]
        /\ worker' = worker /\ rash' = rash
        /\ UNCHANGED <<missed, boot, url, gate, banner, dismissed, settings, timer, asks, edits>>
    BY <1>4 DEF pickParentFolder, Start
  <2>. QED
    BY <1>1, <1>2, <2>1, UnderWaySound DEF Failed
<1>5. CASE ProbeAnswers
  <2>1. PICK at \in {"saving", "loading"} : flows' = [flows EXCEPT !["pick"].at = at]
    BY <1>5 DEF ProbeAnswers
  <2>2. /\ flows["pick"].at # "idle" /\ rash' = rash
        /\ worker' = [worker EXCEPT !.attached = TRUE, !.granted = TRUE, !.err = FALSE]
        /\ UNCHANGED <<missed, boot, url, gate, banner, dismissed, settings, timer, asks, edits>>
    BY <1>5 DEF ProbeAnswers
  <2>3. worker' \in Worker /\ worker'.attached /\ Badge(worker') # "write-failed"
    BY <1>1, <2>2 DEF Worker, Badge, Unlocked
  <2>4. boot = "app"
    BY <2>2 DEF Inv, Booted, Running, Flows
  <2>. QED
    BY <1>1, <1>2, <2>1, <2>2, <2>3, <2>4, UnderWaySound
<1>6. CASE clearHandle
  <2>1. /\ settings \in Badges /\ boot = "app" /\ flows' = [flows EXCEPT !["lock"].at = "locking"]
        /\ worker' = [worker EXCEPT !.attached = FALSE, !.granted = FALSE, !.err = FALSE]
        /\ missed' \in BOOLEAN
        /\ flows["restore"].at = "importing" => "raced" \in rash'
        /\ rash \subseteq rash' /\ rash' \subseteq rash \cup {"raced"}
        /\ UNCHANGED <<boot, url, gate, banner, dismissed, settings, timer, asks, edits>>
    BY <1>6 DEF clearHandle, Start, Note
  <2>2. worker' \in Worker /\ Badge(worker') # "write-failed"
    BY <1>1, <2>1 DEF Worker, Badge, Unlocked
  <2>. QED
    BY <1>2, <2>1, <2>2, UnderWaySound
<1>7. CASE reconnect
  <2>1. /\ settings \in Badges /\ boot = "app" /\ flows' = [flows EXCEPT !["reconnect"].at = "reconnecting"]
        /\ worker' = worker /\ rash' = rash
        /\ UNCHANGED <<missed, boot, url, gate, banner, dismissed, settings, timer, asks, edits>>
    BY <1>7 DEF reconnect, Start, Badges
  <2>. QED
    BY <1>1, <1>2, <2>1, UnderWaySound DEF Failed
<1>. QED
  BY <1>4, <1>5, <1>6, <1>7

LEMMA PerformImportSound == ASSUME Inv, performImport PROVE Inv'
<1>1. TypeOK /\ boot = "app" /\ Unlocked(worker) /\ worker.attached
  BY DEF performImport, refuseIfBrowseOnly, Start, Unlocked, Inv
<1>2. /\ flows' \in [Flows -> Flow]
      /\ \A f \in {"pick", "lock", "reconnect"} : flows'[f] = flows[f]
  BY <1>1 DEF performImport, Start, TypeOK, Flow, Stages, Flows
<1>3. Ending' <=> Ending
  BY <1>2 DEF Ending
<1>4. TypeOK'
  BY <1>1, <1>2 DEF performImport, TypeOK
<1>5. Booted'
  BY <1>1, <1>2, <1>3 DEF performImport, Inv, Booted, Without, Running
<1>6. WarningKept'
  BY <1>1, <1>2, <1>3 DEF performImport, Inv, WarningKept, Without, Failed, Asked
<1>7. NagKept'
  BY <1>1, <1>2, <1>3 DEF performImport, Inv, NagKept, Without, Asked, Nags
<1>8. Importing'
  BY <1>1, <1>2, <1>3 DEF performImport, Inv, Importing, Without
<1>9. GateKept'
  BY <1>1, <1>2, <1>3 DEF performImport, Inv, GateKept, Without
<1>10. GroupsKept'
  BY <1>1, <1>2, <1>3 DEF performImport, Inv, GroupsKept, Without
<1>11. OnePage'
  BY <1>1, <1>2, <1>3 DEF performImport, Inv, OnePage
<1>12. BadgeKept'
  BY <1>1, <1>2, <1>3 DEF performImport, Inv, BadgeKept, Without
<1>. QED
  BY <1>4, <1>5, <1>6, <1>7, <1>8, <1>9, <1>10, <1>11, <1>12 DEF Inv

LEMMA Landing ==
  ASSUME worker \in Worker, NEW rows \in BOOLEAN, NEW w \in Landed(worker, rows)
  PROVE  /\ w \in Worker /\ w.attached = worker.attached /\ w.granted = worker.granted /\ w.rows = rows
         /\ w.err \in BOOLEAN
         /\ Unlocked(w) = Unlocked(worker)
         /\ w.err = worker.err \/ Unlocked(worker)
         /\ Badge(w) = "write-failed" => Failed \/ w.err # worker.err
<1>1. w \in {[worker EXCEPT !.rows = rows, !.err = FALSE], [worker EXCEPT !.rows = rows, !.err = TRUE],
             [worker EXCEPT !.rows = rows]} /\ (w = [worker EXCEPT !.rows = rows] \/ Unlocked(worker))
  BY DEF Landed
<1>. QED
  BY <1>1 DEF Worker, Unlocked, Badge, Failed

LEMMA RestoredSound == ASSUME Inv, Restored PROVE Inv'
<1>1. TypeOK /\ worker \in Worker
  BY DEF Inv, TypeOK
<1>2. PICK r \in BOOLEAN : \E w \in Landed(worker, r) :
            /\ worker' = w
            /\ missed' = IF Unlocked(worker) THEN w.err ELSE missed
            /\ Note(Quiet(w) \cup Behind(w))
  BY DEF Restored
<1>3. PICK w \in Landed(worker, r) :
            /\ worker' = w
            /\ missed' = IF Unlocked(worker) THEN w.err ELSE missed
            /\ Note(Quiet(w) \cup Behind(w))
  BY <1>2
<1>4. /\ w \in Worker /\ w.attached = worker.attached /\ w.granted = worker.granted
      /\ Unlocked(w) = Unlocked(worker)
      /\ Badge(w) = "write-failed" => Failed \/ w.err # worker.err
      /\ missed' \in BOOLEAN
  BY <1>1, <1>3, Landing DEF TypeOK
<1>5. /\ rash \subseteq rash' /\ rash' \subseteq rash \cup {"quiet", "behind"}
      /\ w.err # worker.err => "quiet" \in rash'
      /\ settings # "none" /\ Badge(w) # Badge(worker) => "behind" \in rash'
  BY <1>3 DEF Note, Quiet, Behind
<1>6. /\ flows' \in [Flows -> Flow] /\ flows'["restore"].at = "idle" /\ flows["restore"].at = "importing"
      /\ \A f \in {"pick", "lock", "reconnect"} : flows'[f] = flows[f]
  BY <1>1 DEF Restored, TypeOK, Flow, Stages, Flows, Idle
<1>7. (Ending' <=> Ending) /\ boot = "app"
  BY <1>6 DEF Ending, Inv, Booted, Running, Flows
<1>8. TypeOK'
  BY <1>1, <1>3, <1>4, <1>5, <1>6 DEF Restored, TypeOK
<1>9. Booted'
  BY <1>3, <1>4, <1>5, <1>6, <1>7 DEF Restored, Inv, Booted, Without, Running
<1>10. WarningKept'
  BY <1>3, <1>4, <1>5, <1>6, <1>7 DEF Restored, Inv, WarningKept, Without, Failed, Asked
<1>11. NagKept'
  <2>1. Without({"late", "astray", "raced"})' => worker.attached
    BY <1>5, <1>6 DEF Inv, Importing, Without
  <2>. QED
    BY <1>3, <1>4, <1>5, <1>6, <1>7, <2>1, CountsMayNag DEF Restored, Inv, NagKept, Without, Asked
<1>12. Importing'
  BY <1>3, <1>4, <1>5, <1>6, <1>7 DEF Restored, Inv, Importing, Without
<1>13. GateKept'
  BY <1>3, <1>4, <1>5, <1>6, <1>7 DEF Restored, Inv, GateKept, Without
<1>14. GroupsKept'
  BY <1>3, <1>4, <1>5, <1>6, <1>7 DEF Restored, Inv, GroupsKept, Without
<1>15. OnePage'
  BY <1>3, <1>4, <1>5, <1>6, <1>7 DEF Restored, Inv, OnePage
<1>16. BadgeKept'
  BY <1>3, <1>4, <1>5, <1>6, <1>7 DEF Restored, Inv, BadgeKept, Without
<1>. QED
  BY <1>8, <1>9, <1>10, <1>11, <1>12, <1>13, <1>14, <1>15, <1>16 DEF Inv

LEMMA EditAnswersSound == ASSUME Inv, NEW e \in edits, EditAnswers(e) PROVE Inv'
<1>1. /\ TypeOK /\ worker \in Worker /\ asks \in SUBSET Ask /\ worker.rows \in BOOLEAN
      /\ boot = "app" /\ gate.resolved
  BY DEF Inv, TypeOK, Worker, Booted
<1>2. /\ edits' = edits \ {e}
      /\ UNCHANGED <<boot, url, gate, banner, dismissed, settings, timer, flows>>
      /\ \E r \in IF e = "group" THEN BOOLEAN ELSE {worker.rows} : \E w \in Landed(worker, r) :
            /\ worker' = w
            /\ missed' = IF Unlocked(worker) THEN w.err ELSE missed
            /\ afterFolderMutation(e, w)
            /\ Note(Behind(w) \cup (IF e = "setting" THEN Quiet(w) ELSE {}))
  BY DEF EditAnswers
<1>3. PICK r \in IF e = "group" THEN BOOLEAN ELSE {worker.rows} : \E w \in Landed(worker, r) :
            /\ worker' = w
            /\ missed' = IF Unlocked(worker) THEN w.err ELSE missed
            /\ afterFolderMutation(e, w)
            /\ Note(Behind(w) \cup (IF e = "setting" THEN Quiet(w) ELSE {}))
  BY <1>2
<1>4. r \in BOOLEAN /\ (e # "group" => r = worker.rows)
  BY <1>1, <1>3
<1>5. PICK w \in Landed(worker, r) :
            /\ worker' = w
            /\ missed' = IF Unlocked(worker) THEN w.err ELSE missed
            /\ afterFolderMutation(e, w)
            /\ Note(Behind(w) \cup (IF e = "setting" THEN Quiet(w) ELSE {}))
  BY <1>3
<1>6. /\ w \in Worker /\ w.attached = worker.attached /\ w.rows = r
      /\ Unlocked(w) = Unlocked(worker)
      /\ Badge(w) = "write-failed" => Failed \/ w.err # worker.err
      /\ missed' \in BOOLEAN
  BY <1>1, <1>4, <1>5, Landing DEF TypeOK
<1>7. /\ rash \subseteq rash' /\ rash' \subseteq rash \cup {"quiet", "behind"}
      /\ settings # "none" /\ Badge(w) # Badge(worker) => "behind" \in rash'
      /\ e = "setting" /\ w.err # worker.err => "quiet" \in rash'
  BY <1>5 DEF Note, Quiet, Behind
<1>8. edits # {} /\ (Ending' <=> Ending) /\ (edits' # {} => edits # {})
  BY <1>2 DEF Ending
<1>9. CASE e = "setting"
  <2>1. asks' = asks /\ w.rows = worker.rows
    BY <1>4, <1>5, <1>6, <1>9 DEF afterFolderMutation
  <2>2. TypeOK'
    BY <1>1, <1>2, <1>5, <1>6, <1>7, <2>1 DEF TypeOK
  <2>3. Booted'
    BY <1>1, <1>2, <1>5, <1>6, <1>7, <1>8, <1>9, <2>1 DEF Inv, Booted, Without, Running
  <2>4. WarningKept'
    BY <1>1, <1>2, <1>5, <1>6, <1>7, <1>8, <1>9, <2>1 DEF Inv, WarningKept, Without, Failed, Asked
  <2>5. NagKept'
    BY <1>1, <1>2, <1>5, <1>6, <1>7, <1>8, <1>9, <2>1 DEF Inv, NagKept, Without, Asked, Nags, Stranded
  <2>6. Importing'
    BY <1>1, <1>2, <1>5, <1>6, <1>7, <1>8, <1>9, <2>1 DEF Inv, Importing, Without
  <2>7. GateKept'
    BY <1>1, <1>2, <1>5, <1>6, <1>7, <1>8, <1>9, <2>1 DEF Inv, GateKept, Without
  <2>8. GroupsKept'
    BY <1>1, <1>2, <1>5, <1>6, <1>7, <1>8, <1>9, <2>1 DEF Inv, GroupsKept, Without
  <2>9. OnePage'
    BY <1>1, <1>2, <1>5, <1>6, <1>7, <1>8, <1>9, <2>1 DEF Inv, OnePage
  <2>10. BadgeKept'
    BY <1>1, <1>2, <1>5, <1>6, <1>7, <1>8, <1>9, <2>1 DEF Inv, BadgeKept, Without
  <2>. QED
    BY <2>2, <2>3, <2>4, <2>5, <2>6, <2>7, <2>8, <2>9, <2>10 DEF Inv
<1>10. CASE e = "group"
  <2> DEFINE q == getState(asks, "banner", w)
  <2>1. asks' = getState(q, "gate", w)
    BY <1>5, <1>10 DEF afterFolderMutation
  <2>2. /\ q \in SUBSET Ask
        /\ Fresh(q, "banner")
        /\ Badge(w) = "write-failed" => Warns(q)
        /\ Counting(q) => Counting(asks)
        /\ \A v : Counts(q, v)
        /\ MayNag(q) => Badge(w) = "browser-only"
        /\ \A k \in {"gate", "badge"} :
             /\ Fresh(asks, k) => Fresh(q, k)
             /\ No(asks, k) => No(q, k)
             /\ \A v : Tells(asks, k, v) => Tells(q, k, v)
             /\ \A v : AllTell(asks, k, v) => AllTell(q, k, v)
        /\ Looking(asks) => Looking(q)
    BY <1>1, AskBanner
  <2> HIDE DEF q
  <2>3. /\ asks' \in SUBSET Ask
        /\ Fresh(asks', "gate") /\ Tells(asks', "gate", computePrivateDataTier(w))
        /\ \A v : v = computePrivateDataTier(w) /\ AllTell(q, "gate", v) => AllTell(asks', "gate", v)
        /\ \A k \in {"banner", "badge"} :
             /\ Fresh(q, k) => Fresh(asks', k)
             /\ No(q, k) => No(asks', k)
             /\ \A v : Tells(q, k, v) => Tells(asks', k, v)
        /\ Looking(q) => Looking(asks')
        /\ Warns(q) => Warns(asks')
        /\ Counting(asks') => Counting(q)
        /\ \A v : Counts(q, v) => Counts(asks', v)
        /\ MayNag(asks') => MayNag(q)
    BY <2>1, <2>2, AskGate
  <2>4. Badge(w) = "browser-only" => ~w.attached
    BY DEF Badge
  <2>5. TypeOK'
    BY <1>1, <1>2, <1>5, <1>6, <1>7, <2>3 DEF TypeOK
  <2>6. Booted'
    BY <1>1, <1>2, <1>5, <1>6, <1>7, <1>8, <2>2, <2>3 DEF Inv, Booted, Without, Running
  <2>7. WarningKept'
    BY <1>1, <1>2, <1>5, <1>6, <1>7, <1>8, <2>2, <2>3 DEF Inv, WarningKept, Without, Failed, Asked
  <2>8. NagKept'
    BY <1>1, <1>2, <1>5, <1>6, <1>7, <1>8, <2>2, <2>3, <2>4 DEF Inv, NagKept, Without, Asked
  <2>9. Importing'
    BY <1>1, <1>2, <1>5, <1>6, <1>7, <1>8, <2>2, <2>3 DEF Inv, Importing, Without
  <2>10. GateKept'
    BY <1>1, <1>2, <1>5, <1>6, <1>7, <1>8, <2>2, <2>3, Tier DEF Inv, GateKept, Without
  <2>11. GroupsKept'
    BY <1>1, <1>2, <1>5, <1>6, <1>7, <1>8, <2>2, <2>3, Tier DEF Inv, GroupsKept, Without
  <2>12. OnePage'
    BY <1>1, <1>2, <1>5, <1>6, <1>7, <1>8, <2>2, <2>3 DEF Inv, OnePage
  <2>13. BadgeKept'
    BY <1>1, <1>2, <1>5, <1>6, <1>7, <1>8, <2>2, <2>3 DEF Inv, BadgeKept, Without
  <2>. QED
    BY <2>5, <2>6, <2>7, <2>8, <2>9, <2>10, <2>11, <2>12, <2>13 DEF Inv
<1>. QED
  BY <1>1, <1>9, <1>10 DEF TypeOK, Edit

LEMMA NextIsSound == ASSUME Inv, [Next]_vars PROVE Inv'
<1>1. ASSUME NEW a \in asks, Arrives(a) \/ AskFails(a) PROVE Inv'
  BY <1>1, GateArrivesSound, BannerArrivesSound, CountArrivesSound, RenderStateSound, AskFailsSound DEF Arrives
<1>2. ASSUME NEW e \in edits, EditAnswers(e) PROVE Inv'
  BY <1>2, EditAnswersSound
<1>3. ASSUME NEW e \in Edit, SendEdit(e) PROVE Inv'
  BY <1>3, SendEditSound
<1>4. ASSUME NEW u \in {"directory", "groups", "settings"}, GoTo(u) PROVE Inv'
  BY <1>4, GoToSound
<1>5. ASSUME UNCHANGED vars PROVE Inv'
  BY <1>5 DEF vars, Inv, TypeOK, Booted, WarningKept, NagKept, Importing, GateKept, GroupsKept, OnePage, BadgeKept,
              Without, Running, Failed, Ending
<1>. QED
  BY <1>1, <1>2, <1>3, <1>4, <1>5, ProviderReadySound, AppShownSound, BannerTimerSound, FlowsGoOnSound, FlowsEndSound,
     PerformImportSound, RestoredSound, DismissSound, LapseSound DEF Next

LEMMA AlwaysSound == Spec => []Inv
BY InitIsSound, NextIsSound, PTL DEF Spec

\* What a write or a read has left on record is there until a new pick is about to write or read.
MissedKept == missed # worker.err => flows["pick"].at \in {"saving", "loading"}

LEMMA MissedIsKept == Spec => []MissedKept
<1>1. Init => MissedKept
  BY DEF Init, MissedKept
<1>2. ASSUME Inv, MissedKept, [Next]_vars PROVE MissedKept'
  <2>1. worker \in Worker /\ flows \in [Flows -> Flow]
    BY <1>2 DEF Inv, TypeOK
  <2>2. CASE missed' = worker'.err
    BY <2>2 DEF MissedKept
  <2>3. CASE /\ UNCHANGED missed /\ worker'.err = worker.err
             /\ flows'["pick"].at = flows["pick"].at \/ flows["pick"].at \notin {"saving", "loading"}
    BY <1>2, <2>3 DEF MissedKept
  <2>4. \A f \in Flows : \A v : f # "pick" => [flows EXCEPT ![f] = v]["pick"] = flows["pick"]
    BY <2>1 DEF Flows
  <2>6. Left["pick"].at = flows["pick"].at
    BY <2>1 DEF Left, Flows, Flow
  <2>7. ASSUME NEW r \in BOOLEAN, NEW w \in Landed(worker, r), worker' = w,
               missed' = IF Unlocked(worker) THEN w.err ELSE missed, flows'["pick"] = flows["pick"]
        PROVE  MissedKept'
    <3>1. w.err = worker.err \/ Unlocked(worker)
      BY <2>1, Landing
    <3>. QED
      BY <2>2, <2>3, <2>7, <3>1
  <2>8. ASSUME Restored PROVE MissedKept'
    <3>1. flows'["pick"] = flows["pick"]
      BY <2>4, <2>8 DEF Restored, Flows
    <3>. QED
      BY <2>7, <2>8, <3>1 DEF Restored
  <2>9. ASSUME NEW e \in edits, EditAnswers(e) PROVE MissedKept'
    <3>1. worker.rows \in BOOLEAN /\ UNCHANGED flows
      BY <2>1, <2>9 DEF EditAnswers, Worker
    <3>. QED
      BY <2>7, <2>9, <3>1 DEF EditAnswers
  <2>10. ASSUME NEW a \in asks, Arrives(a) \/ AskFails(a) PROVE MissedKept'
    <3>1. UNCHANGED <<missed, worker>> /\ flows' \in {flows, Left}
      BY <2>10 DEF Arrives, GateArrives, BannerArrives, CountArrives, renderState, AskFails, route
    <3>. QED
      BY <2>3, <2>6, <3>1
  <2>11. ASSUME NEW u \in {"directory", "groups", "settings"}, GoTo(u) \/ AppShown PROVE MissedKept'
    <3>1. UNCHANGED <<missed, worker>> /\ flows' = Left
      BY <2>11 DEF GoTo, AppShown, route
    <3>. QED
      BY <2>3, <2>6, <3>1
  <2>12. ASSUME pickParentFolder \/ PickFails PROVE MissedKept'
    <3>1. /\ flows["pick"].at \in {"idle", "picking"}
          /\ UNCHANGED <<missed, worker>>
      BY <2>12 DEF pickParentFolder, PickFails, Start, Running, FlowEnds, Flows
    <3>. QED
      BY <2>3, <3>1
  <2>13. ASSUME ProbeAnswers PROVE MissedKept'
    <3>1. flows'["pick"].at \in {"saving", "loading"}
      BY <2>1, <2>13 DEF ProbeAnswers, Flows, Flow
    <3>. QED
      BY <3>1 DEF MissedKept
  <2>14. ASSUME writeNow \/ readNow PROVE MissedKept'
    BY <2>2, <2>14 DEF writeNow, readNow, FlowEnds
  <2>15. ASSUME clearHandle PROVE MissedKept'
    BY <2>1, <2>2, <2>15 DEF clearHandle, Worker
  <2>16. ASSUME Locked \/ reconnect \/ Reconnected \/ performImport PROVE MissedKept'
    <3>1. UNCHANGED missed /\ worker'.err = worker.err
      BY <2>1, <2>16 DEF Locked, reconnect, Reconnected, performImport, FlowEnds, Worker
    <3>2. CASE Locked \/ Reconnected
      <4>1. flows' \in {[flows EXCEPT !["lock"] = Idle], [flows EXCEPT !["reconnect"] = Idle]}
        BY <3>2 DEF Locked, Reconnected, FlowEnds
      <4>2. flows'["pick"] = flows["pick"]
        BY <2>1, <4>1 DEF Flows
      <4>. QED
        BY <2>3, <3>1, <4>2
    <3>3. CASE reconnect \/ performImport
      <4>1. flows' \in {[flows EXCEPT !["reconnect"].at = "reconnecting"], [flows EXCEPT !["restore"].at = "importing"]}
        BY <3>3 DEF reconnect, performImport, Start
      <4>2. flows'["pick"] = flows["pick"]
        BY <2>1, <4>1 DEF Flows
      <4>. QED
        BY <2>3, <3>1, <4>2
    <3>. QED
      BY <2>16, <3>2, <3>3
  <2>17. ASSUME ProviderReady \/ BannerTimer \/ (\E e \in Edit : SendEdit(e)) \/ Dismiss \/ Lapse \/ UNCHANGED vars
         PROVE  MissedKept'
    <3>1. UNCHANGED <<missed, flows>> /\ worker'.err = worker.err
      BY <2>1, <2>17 DEF ProviderReady, BannerTimer, SendEdit, Dismiss, Lapse, vars, Worker
    <3>. QED
      BY <2>3, <3>1
  <2>. QED
    BY <1>2, <2>8, <2>9, <2>10, <2>11, <2>12, <2>13, <2>14, <2>15, <2>16, <2>17 DEF Next
<1>. QED
  BY <1>1, <1>2, AlwaysSound, PTL DEF Spec

-----------------------------------------------------------------------------
(* The theorems.                                                           *)

\* Every question, flow and rendering is of the forms declared, whatever is in flight.
THEOREM TypeCorrect == Spec => []TypeOK
<1>1. Inv => TypeOK
  BY DEF Inv
<1>. QED
  BY <1>1, AlwaysSound, PTL

LEMMA AtRest ==
  ASSUME Settled
  PROVE  ~Ending /\ ~Looking(asks) /\ ~Asked(asks) /\ \A k : ~Fresh(asks, k)
<1>1. asks = {} /\ \A f \in Flows : flows[f].at = "idle"
  BY DEF Settled, Running
<1>. QED
  BY <1>1, NothingAsked DEF Ending, Flows, Asked

\* At rest the gate is the folder's, nobody without one is on the pages of the groups, and the badge of
\* Settings says what is so: every flow, edit and route that changes the folder is followed by a look
\* that nothing overtakes (updatePrivateDataGate, wireFolderSection.refresh).
THEOREM FolderIsKnown == Spec => []PageKnowsTheFolder
<1>1. ASSUME Inv, Settled, Without({"lapsed", "astray"})
      PROVE  /\ gate.resolved /\ gate.enabled = Unlocked(worker)
             /\ url = "groups" /\ Without({"hasty"}) => gate.enabled
             /\ settings \in Badges /\ Without({"behind"}) => settings = Badge(worker)
  <2>1. gate.enabled \in BOOLEAN /\ Unlocked(worker) \in BOOLEAN /\ boot = "app"
    BY <1>1 DEF Inv, TypeOK, Worker, Unlocked, Settled
  <2>2. gate.resolved /\ (gate.enabled <=> Unlocked(worker))
    BY <1>1, <2>1, AtRest DEF Inv, GateKept, Without
  <2>3. url = "groups" /\ Without({"hasty"}) => gate.enabled
    BY <1>1, <2>2 DEF Inv, GroupsKept, Without
  <2>4. settings \in Badges /\ Without({"behind"}) => settings = Badge(worker)
    BY <1>1, AtRest DEF Inv, BadgeKept, Without, Badges
  <2>. QED
    BY <2>1, <2>2, <2>3, <2>4
<1>2. Inv => PageKnowsTheFolder
  BY <1>1 DEF PageKnowsTheFolder
<1>. QED
  BY <1>2, AlwaysSound, PTL

\* At rest a write that failed is on the banner, and a nag is addressed to a member without a folder
\* and words what is at stake (refreshFolderPushBanner).
THEOREM BannerTellsTruth == Spec => []BannerIsTrue
<1>1. ASSUME Inv, Settled, Without({"astray"})
      PROVE  /\ Badge(worker) = "write-failed" /\ Without({"early", "quiet"}) => banner = "write-failed"
             /\ banner \in Nags /\ Without({"late", "raced"}) =>
                  ~worker.attached /\ ~dismissed /\ (banner = "migrate" <=> worker.rows)
  <2>1. Badge(worker) = "write-failed" /\ Without({"early", "quiet"}) => banner = "write-failed"
    BY <1>1, AtRest DEF Inv, WarningKept, Without, Failed, Settled
  <2>2. banner \in Nags /\ Without({"late", "raced"}) =>
          ~worker.attached /\ ~dismissed /\ banner = Stranded(worker)
    BY <1>1, AtRest DEF Inv, NagKept, Without
  <2>. QED
    BY <2>1, <2>2 DEF Stranded
<1>2. Inv => BannerIsTrue
  BY <1>1 DEF BannerIsTrue
<1>. QED
  BY <1>2, AlwaysSound, PTL

LEMMA RashGrows == ASSUME Inv, [Next]_vars PROVE rash \subseteq rash'
BY DEF Next, vars, ProviderReady, AppShown, BannerTimer, Arrives, GateArrives, BannerArrives, CountArrives, renderState,
       AskFails, EditAnswers, SendEdit, pickParentFolder, PickFails, ProbeAnswers, writeNow, readNow, clearHandle,
       Locked, reconnect, Reconnected, performImport, Restored, GoTo, Dismiss, Lapse, Note, FlowEnds, Unseen

\* With a folder within reach, the page of the groups is never redirected: the gate has been found
\* open, or has not been resolved (route's guard).
LEMMA GroupsOpen ==
  ASSUME Inv, Unlocked(worker), Without({"hasty", "astray"})
  PROVE  /\ boot # "starting" /\ ~Ending /\ No(asks, "gate") => ~redirects(gate, "groups")
         /\ url = "groups" /\ boot = "provider" => ~redirects(gate, url)
<1>1. boot # "app" => ~Ending
  BY DEF Inv, Booted, Running, Ending, Flows
<1>2. No(asks, "gate") => ~Fresh(asks, "gate")
  BY DEF No, Fresh
<1>3. boot # "starting" /\ ~Ending /\ No(asks, "gate") => ~redirects(gate, "groups")
  BY <1>2 DEF Inv, GateKept, Without, redirects
<1>4. boot = "provider" /\ gate.resolved => No(asks, "gate")
  BY DEF Inv, Booted
<1>. QED
  BY <1>1, <1>3, <1>4 DEF redirects

\* A member with a folder is never sent from the groups to Settings: not by a boot whose gate is
\* still being asked, and not by an answer given before the folder was there (bootDirectoryAsApp, route).
THEOREM FolderUsersStay == Spec => FolderUserKeepsTheirPage
<1>1. ASSUME Inv, [Next]_vars, url' = "settings", Unlocked(worker), rash' \cap {"hasty", "astray"} = {}
      PROVE  ~GoTo("groups") /\ (url = "settings" \/ GoTo("settings"))
  <2>1. rash \subseteq rash' /\ Without({"hasty", "astray"})
    BY <1>1, RashGrows DEF Without
  <2>2. ASSUME GoTo("groups") PROVE FALSE
    <3>1. route(gate, asks, "groups") /\ boot = "app" /\ ~Asking("gate") /\ Running \ {"restore"} = {}
      BY <1>1, <2>2 DEF GoTo, Note
    <3>2. ~Ending /\ No(asks, "gate") /\ boot # "starting"
      BY <3>1 DEF Asking, No, Running, Ending, Flows
    <3>3. ~redirects(gate, "groups")
      BY <1>1, <2>1, <3>2, GroupsOpen
    <3>. QED
      BY <1>1, <3>1, <3>3 DEF route
  <2>3. CASE AppShown
    <3>1. boot = "provider" /\ route(gate, asks, url)
      BY <2>3 DEF AppShown
    <3>2. url # "groups" => url' = url
      BY <3>1 DEF route, redirects
    <3>3. url = "groups" => ~redirects(gate, url)
      BY <1>1, <2>1, <3>1, GroupsOpen
    <3>. QED
      BY <1>1, <2>2, <3>1, <3>2, <3>3 DEF route
  <2>4. ASSUME NEW a \in asks, GateArrives(a) PROVE url = "settings"
    <3> DEFINE g == [enabled |-> a.seen = "private-folder", resolved |-> TRUE]
    <3>1. CASE a.for = "boot" /\ redirects(g, url)
      <4>1. url = "groups" /\ a.seen # "private-folder"
        BY <3>1 DEF redirects
      <4>2. AllTell(asks, "gate", "private-folder")
        BY <1>1, <2>1, <4>1 DEF Inv, GroupsKept, Without
      <4>. QED
        BY <2>4, <4>1, <4>2 DEF GateArrives, AllTell
    <3>2. CASE ~(a.for = "boot" /\ redirects(g, url))
      BY <1>1, <2>4, <3>2 DEF GateArrives
    <3>. QED
      BY <3>1, <3>2
  <2>5. ASSUME NEW u \in {"directory", "groups", "settings"}, GoTo(u) PROVE GoTo("settings")
    <3>1. u # "directory"
      BY <1>1, <2>5 DEF GoTo, route, redirects
    <3>. QED
      BY <2>2, <2>5, <3>1
  <2>6. CASE UNCHANGED vars
    BY <1>1, <2>2, <2>6 DEF vars
  <2>7. ASSUME Next, ~AppShown, \A a \in asks : ~GateArrives(a),
               \A u \in {"directory", "groups", "settings"} : ~GoTo(u)
        PROVE  url' = url
    BY <2>7 DEF Next, ProviderReady, BannerTimer, Arrives, BannerArrives, CountArrives, renderState, AskFails,
         EditAnswers, SendEdit, pickParentFolder, PickFails, ProbeAnswers, writeNow, readNow, clearHandle, Locked,
         reconnect, Reconnected, performImport, Restored, Dismiss, Lapse
  <2>. QED
    BY <1>1, <2>2, <2>3, <2>4, <2>5, <2>6, <2>7
<1>2. ASSUME Inv, [Next]_vars
      PROVE  [url' = "settings" /\ (GoTo("groups") \/ (url # "settings" /\ ~GoTo("settings"))) =>
                ~Unlocked(worker) \/ rash' \cap {"hasty", "astray"} # {}]_vars
  BY <1>1, <1>2
<1>. QED
  BY <1>2, AlwaysSound, PTL DEF Spec, FolderUserKeepsTheirPage

\* The warning that a write did not reach the folder goes only once a later write or read has ended
\* well, the folder is out of reach, or a pick is about to write or read it; or else a look that was
\* asked later is on its way (refreshFolderPushBanner).
THEOREM WarningsLast == Spec => WarningStays
<1>1. ASSUME Inv, [Next]_vars, banner = "write-failed", banner' # banner, Failed,
             rash' \cap {"quiet", "astray"} = {}
      PROVE  \E a \in asks' : a.fresh /\ a.for \in {"banner", "badge", "orphan"}
  <2>1. /\ rash \subseteq rash' /\ asks \in SUBSET Ask /\ boot = "app"
        /\ Warns(asks) \/ Looking(asks)
    BY <1>1, RashGrows DEF Inv, TypeOK, Booted, WarningKept, Without
  <2>2. ASSUME NEW a \in asks, BannerArrives(a) \/ CountArrives(a)
        PROVE  Looking(asks') \/ (Fresh(asks', "banner") /\ Warns(asks'))
    <3>1. asks' = asks \ {a} /\ Kind(a.for) = "banner" /\ a.for \notin {"badge", "orphan"} /\ "astray" \notin Crossed(a)
      BY <1>1, <2>2, Kinds DEF BannerArrives, CountArrives, decide, Note
    <3>2. /\ a.fresh \/ Fresh(asks', "banner")
          /\ Looking(asks) => Looking(asks')
          /\ Warns(asks) => Warns(asks')
      BY <2>1, <3>1, Answered
    <3>3. a.fresh => ~Warns(asks)
      BY <1>1, <2>2, <3>1 DEF Warns, BannerArrives, CountArrives, decide
    <3>. QED
      BY <2>1, <3>2, <3>3
  <2>3. BannerTimer \/ (\E a \in asks : renderState(a)) => banner' = banner
    BY <2>1 DEF BannerTimer, renderState, LookAtBanner
  <2>4. \A a \in asks : ~AskFails(a)
    BY <1>1 DEF AskFails, Note
  <2>5. ~Dismiss
    BY <1>1 DEF Dismiss, Nags
  <2>6. \E a \in asks : BannerArrives(a) \/ CountArrives(a)
    BY <1>1, <2>3, <2>4, <2>5 DEF Next, vars, Arrives, ProviderReady, AppShown, GateArrives, EditAnswers, SendEdit,
       pickParentFolder, PickFails, ProbeAnswers, writeNow, readNow, clearHandle, Locked, reconnect, Reconnected,
       performImport, Restored, GoTo, Lapse
  <2>7. Looking(asks') \/ (Fresh(asks', "banner") /\ Warns(asks'))
    BY <2>2, <2>6
  <2>. QED
    BY <2>7 DEF Looking, Fresh, Warns
<1>2. ASSUME Inv, MissedKept, MustWarn PROVE Failed
  BY <1>2 DEF Inv, TypeOK, Worker, MissedKept, MustWarn, Failed, Badge, Unlocked
<1>3. ASSUME Inv, MissedKept, [Next]_vars
      PROVE  [banner = "write-failed" /\ banner' # banner =>
                \/ ~MustWarn
                \/ \E a \in asks' : a.fresh /\ a.for \in {"banner", "badge", "orphan"}
                \/ rash' \cap {"quiet", "astray"} # {}]_vars
  BY <1>1, <1>2, <1>3
<1>. QED
  BY <1>3, AlwaysSound, MissedIsKept, PTL DEF Spec, WarningStays

=============================================================================
