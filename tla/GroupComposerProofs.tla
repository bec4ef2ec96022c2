------------------------ MODULE GroupComposerProofs ------------------------
(***************************************************************************)
(* Theorems about GroupComposer.                                           *)
(*                                                                         *)
(* Typed is the inductive form of TypeOK: a write that names a group gives *)
(* it a name, which TypeOK leaves open.  Kept is the inductive form of     *)
(* DraftSurvives: the draft is in the rail, or in the backup of the edit   *)
(* mode that the rail is in or that the URL has asked for.  Landing is the *)
(* inductive form of EditsLand: the last write in flight to what the rail  *)
(* shows says what the rail shows.  Reverting is that of CancelRestores:   *)
(* no write of its group is sent after a cancel, and none before a cancel  *)
(* that has committed is still to commit.                                  *)
(***************************************************************************)
EXTENDS GroupComposer, CallQueues

GoodCall ==
  {c \in Call : /\ c.kind # "create" => c.group \in Groups
                /\ c.kind \in {"title", "revert"} => c.title \in Names}

Rail == [draft : Draft, title : Titles, editing : Groups \cup {None},
         entry : Group \cup {NoGroup}, backup : Draft, timer : Titles \cup {None}, busy : BOOLEAN]

Typed ==
  /\ TypeOK
  /\ calls \in Seq(GoodCall)
  /\ rail.editing # None => rail.entry \in Group

-----------------------------------------------------------------------------
(* Calls in flight. *)

LEMMA CallsAreCalls == \A s \in Seq(GoodCall) : s \in Seq(Call)
<1>1. GoodCall \subseteq Call
  BY DEF GoodCall
<1>. QED
  BY <1>1, SeqMonotonic

LEMMA SendTyped ==
  ASSUME Typed, NEW kind \in {"members", "title", "revert", "create"}, NEW g \in Groups \cup {None},
         NEW m \in Draft, NEW t \in Titles, SendMore(kind, g, m, t),
         kind # "create" => g \in Groups, kind \in {"title", "revert"} => t \in Names
  PROVE  calls' \in Seq(GoodCall) /\ calls' \in Seq(Call) /\ Len(calls') <= MaxCalls
<1> DEFINE c == [kind |-> kind, group |-> g, members |-> m, title |-> t, done |-> FALSE]
<1>1. c \in GoodCall
  BY DEF GoodCall, Call
<1>2. calls \in Seq(GoodCall) /\ Len(calls) \in Nat
  BY LenProperties DEF Typed
<1>3. calls' \in Seq(GoodCall) /\ Len(calls') = Len(calls) + 1
  BY <1>1, <1>2, AppendProperties DEF SendMore
<1>4. Len(calls) < MaxCalls
  BY DEF SendMore
<1>5. Len(calls') <= MaxCalls
  BY <1>2, <1>3, <1>4, BoundAssumption
<1>. QED
  BY <1>3, <1>5, CallsAreCalls

LEMMA DropTyped ==
  ASSUME Typed, NEW i \in 1..Len(calls)
  PROVE  Drop(i) \in Seq(GoodCall) /\ Drop(i) \in Seq(Call) /\ Len(Drop(i)) <= MaxCalls
<1>1. calls \in Seq(GoodCall) /\ Len(calls) \in Nat /\ Len(calls) <= MaxCalls
  BY LenProperties DEF Typed, TypeOK
<1>2. Drop(i) \in Seq(GoodCall) /\ Len(Drop(i)) = Len(calls) - 1
  BY <1>1, Dropped DEF Drop
<1>. QED
  BY <1>1, <1>2, CallsAreCalls, BoundAssumption

LEMMA CallTyped ==
  ASSUME Typed, NEW i \in 1..Len(calls)
  PROVE  calls[i] \in GoodCall
BY ElementOfSeq DEF Typed

LEMMA RouteTyped ==
  ASSUME Typed, NEW r \in Rail, r.editing # None => r.entry \in Group,
         NEW s \in Draft, NEW u \in Urls, route(r, s, u)
  PROVE  /\ url' \in Urls /\ rail' \in Rail /\ stored' \in Draft /\ loads' \in [Groups -> Nat]
         /\ rail'.editing # None => rail'.entry \in Group
<1> DEFINE q == IF r.editing # None /\ u # Edit(r.editing) THEN exitEditMode(r) ELSE r
<1>1. q \in Rail /\ (q.editing # None => q.entry \in Group)
  BY DEF Rail, exitEditMode, restoreComposeDraft, Fresh, NoGroup, Draft, Titles, Group
<1>2. /\ url' = u
      /\ rail' \in {q, [q EXCEPT !.backup = q.draft]}
      /\ stored' \in {q.draft, s}
      /\ loads' \in {loads, [loads EXCEPT ![u.group] = @ + 1]}
  BY DEF route, snapshotComposeDraft
<1>. HIDE DEF q
<1>3. rail' \in Rail /\ (rail'.editing # None => rail'.entry \in Group) /\ stored' \in Draft
  BY <1>1, <1>2 DEF Rail
<1>4. loads' \in [Groups -> Nat]
  BY <1>2 DEF Typed, TypeOK
<1>. QED
  BY <1>2, <1>3, <1>4

-----------------------------------------------------------------------------
(* Type correctness, one lemma per group of actions.                       *)

Tokens == {"early", "crossed", "stale", "meddled", "overtaken", "failed"}

LEMMA TypedNow ==
  ASSUME Typed
  PROVE  /\ rail \in Rail /\ stored \in Draft /\ mine \in Draft /\ url \in Urls
         /\ saved \in [Groups -> Group] /\ loads \in [Groups -> Nat] /\ due \in BOOLEAN
         /\ rash \subseteq Tokens
         /\ rail.editing # None => rail.entry \in Group /\ rail.editing \in Groups
BY DEF Typed, TypeOK, Rail, Tokens

LEMMA TypedNext ==
  ASSUME /\ rail' \in Rail /\ stored' \in Draft /\ mine' \in Draft /\ url' \in Urls
         /\ saved' \in [Groups -> Group] /\ loads' \in [Groups -> Nat] /\ due' \in BOOLEAN
         /\ rash' \subseteq Tokens
         /\ rail'.editing # None => rail'.entry \in Group
         /\ calls' \in Seq(GoodCall) /\ calls' \in Seq(Call) /\ Len(calls') <= MaxCalls
  PROVE  Typed'
BY DEF Typed, TypeOK, Rail, Tokens

LEMMA SameCalls ==
  ASSUME Typed, UNCHANGED calls
  PROVE  calls' \in Seq(GoodCall) /\ calls' \in Seq(Call) /\ Len(calls') <= MaxCalls
BY DEF Typed, TypeOK

LEMMA NotesTyped ==
  ASSUME Typed, NEW s, s \subseteq Tokens, Note(s)
  PROVE  rash' \subseteq Tokens
BY TypedNow DEF Note

LEMMA MemberTyped == ASSUME Typed, Member PROVE Typed'
<1>0. Meddling \subseteq Tokens /\ Early \subseteq Tokens /\ Meddling \cup Early \subseteq Tokens
  BY DEF Meddling, Early, Tokens
<1>1. ASSUME NEW u \in Urls, GoTo(u) PROVE Typed'
  BY <1>0, <1>1, TypedNow, TypedNext, SameCalls, NotesTyped, RouteTyped DEF GoTo
<1>2. CASE Done
  <2>1. Page("groups") \in Urls
    BY DEF Urls
  <2>. QED
    BY <1>0, <1>2, <2>1, TypedNow, TypedNext, SameCalls, NotesTyped, RouteTyped DEF Done
<1>3. ASSUME NEW s \in (SUBSET Fellows) \ {{}}, Toggle(s) PROVE Typed'
  <2>1. Toggled(rail.draft, s) \in Draft /\ Blank \in Titles
    BY TypedNow DEF Toggled, Draft, Rail, Titles
  <2>2. rail' \in Rail /\ (rail'.editing # None => rail'.entry \in Group)
    BY <1>3, <2>1, TypedNow DEF Toggle, Rail
  <2>3. mine' \in Draft /\ stored' \in Draft
    BY <1>3, <2>1, TypedNow DEF Toggle, persistDraft
  <2>4. calls' \in Seq(GoodCall) /\ calls' \in Seq(Call) /\ Len(calls') <= MaxCalls
    <3>1. CASE isEditing
      BY <1>3, <2>1, <3>1, TypedNow, SendTyped DEF Toggle, persistDraft, isEditing
    <3>2. CASE ~isEditing
      BY <1>3, <3>2, SameCalls DEF Toggle, persistDraft
    <3>. QED
      BY <3>1, <3>2
  <2>5. rash' \subseteq Tokens
    BY <1>0, <1>3, NotesTyped DEF Toggle
  <2>. QED
    BY <1>3, <2>2, <2>3, <2>4, <2>5, TypedNow, TypedNext DEF Toggle
<1>4. ASSUME NEW t \in Titles, TypeTitle(t) PROVE Typed'
  <2>1. rail' \in Rail /\ (rail'.editing # None => rail'.entry \in Group)
    BY <1>4, TypedNow DEF TypeTitle, Rail
  <2>. QED
    BY <1>0, <1>4, <2>1, TypedNow, TypedNext, SameCalls, NotesTyped DEF TypeTitle
<1>5. CASE handleCancelEdits
  <2>1. rail' \in Rail /\ (rail'.editing # None => rail'.entry \in Group)
    BY <1>5, TypedNow DEF handleCancelEdits, Rail
  <2>2. rail.editing \in Groups /\ rail.entry.members \in Draft /\ rail.entry.title \in Names
        /\ rail.entry.title \in Titles
    BY <1>5, TypedNow DEF handleCancelEdits, isEditing, Group, Titles
  <2>3. calls' \in Seq(GoodCall) /\ calls' \in Seq(Call) /\ Len(calls') <= MaxCalls
    BY <1>5, <2>2, SendTyped DEF handleCancelEdits
  <2>. QED
    BY <1>0, <1>5, <2>1, <2>3, TypedNow, TypedNext, NotesTyped DEF handleCancelEdits
<1>6. CASE handleCreateGroupClick
  <2>1. rail' \in Rail /\ (rail'.editing # None => rail'.entry \in Group)
    BY <1>6, TypedNow DEF handleCreateGroupClick, Rail
  <2>2. rail.draft \in Draft /\ Blank \in Titles
    BY TypedNow DEF Rail, Titles
  <2>3. calls' \in Seq(GoodCall) /\ calls' \in Seq(Call) /\ Len(calls') <= MaxCalls
    BY <1>6, <2>2, SendTyped DEF handleCreateGroupClick
  <2>. QED
    BY <1>0, <1>6, <2>1, <2>3, TypedNow, TypedNext, NotesTyped DEF handleCreateGroupClick
<1>7. ASSUME NEW g \in Groups, NEW n \in Names, RenameInPlace(g, n) PROVE Typed'
  <2>1. {} \in Draft /\ n \in Titles
    BY DEF Draft, Titles
  <2>2. calls' \in Seq(GoodCall) /\ calls' \in Seq(Call) /\ Len(calls') <= MaxCalls
    BY <1>7, <2>1, SendTyped DEF RenameInPlace
  <2>. QED
    BY <1>0, <1>7, <2>2, TypedNow, TypedNext, NotesTyped DEF RenameInPlace
<1>. QED
  BY <1>1, <1>2, <1>3, <1>4, <1>5, <1>6, <1>7 DEF Member

LEMMA AnswersTyped == ASSUME Typed, NEW i \in 1..Len(calls), Answers(i) PROVE Typed'
<1>0. /\ Drop(i) \in Seq(GoodCall) /\ Drop(i) \in Seq(Call) /\ Len(Drop(i)) <= MaxCalls
      /\ calls[i] \in GoodCall
  BY DropTyped, CallTyped
<1>1. CASE Commit(i)
  <2>1. rash' \subseteq Tokens
    BY <1>1, NotesTyped DEF Commit, Tokens
  <2>2. saved' \in [Groups -> Group]
    <3>1. CASE calls[i].kind = "create"
      BY <1>1, <3>1, TypedNow DEF Commit
    <3>2. CASE calls[i].kind # "create"
      <4>1. calls[i].group \in Groups
        BY <1>0, <3>2 DEF GoodCall
      <4>2. saved[calls[i].group] \in Group
        BY <4>1, TypedNow
      <4>3. Written(saved[calls[i].group], calls[i]) \in Group
        BY <1>0, <3>2, <4>2 DEF GoodCall, Call, Written, Group
      <4>4. saved' = [saved EXCEPT ![calls[i].group] = Written(saved[calls[i].group], calls[i])]
        BY <1>1, <3>2 DEF Commit
      <4>. QED
        BY <4>1, <4>3, <4>4, TypedNow
    <3>. QED
      BY <3>1, <3>2
  <2>3. calls' \in Seq(GoodCall) /\ calls' \in Seq(Call) /\ Len(calls') <= MaxCalls
    <3>1. CASE calls[i].kind \in {"revert", "create"}
      <4>1. [calls[i] EXCEPT !.done = TRUE] \in GoodCall
        BY <1>0 DEF GoodCall, Call
      <4>2. calls' = [calls EXCEPT ![i] = [calls[i] EXCEPT !.done = TRUE]]
        BY <1>1, <3>1 DEF Commit
      <4>3. calls \in Seq(GoodCall) /\ Len(calls) <= MaxCalls
        BY DEF Typed, TypeOK
      <4>4. calls' \in Seq(GoodCall) /\ Len(calls') = Len(calls)
        BY <4>1, <4>2, <4>3, ExceptSeq
      <4>. QED
        BY <4>3, <4>4, CallsAreCalls
    <3>2. CASE calls[i].kind \notin {"revert", "create"}
      BY <1>0, <1>1, <3>2 DEF Commit
    <3>. QED
      BY <3>1, <3>2
  <2>. QED
    BY <1>1, <2>1, <2>2, <2>3, TypedNow, TypedNext DEF Commit
<1>2. CASE CallFails(i)
  <2>1. rash' \subseteq Tokens
    BY <1>2, NotesTyped DEF CallFails, Tokens
  <2>2. rail' \in Rail /\ (rail'.editing # None => rail'.entry \in Group)
    BY <1>2, TypedNow DEF CallFails, Rail
  <2>. QED
    BY <1>0, <1>2, <2>1, <2>2, TypedNow, TypedNext DEF CallFails
<1>3. CASE RevertAnswers(i)
  <2>1. Page("groups") \in Urls
    BY DEF Urls
  <2>. QED
    BY <1>0, <1>3, <2>1, TypedNow, TypedNext, RouteTyped DEF RevertAnswers
<1>4. CASE CreateAnswers(i)
  <2>1. Page("groups") \in Urls
    BY DEF Urls
  <2>2. {} \in Draft /\ Blank \in Titles
    BY DEF Draft, Titles
  <2>3. clearDraftAfterSave(rail, stored)[2] \in Draft
    BY <2>2 DEF clearDraftAfterSave
  <2>4. clearDraftAfterSave(rail, stored)[1] = [rail EXCEPT !.draft = {}, !.title = Blank, !.busy = FALSE]
    BY DEF clearDraftAfterSave
  <2>5. /\ clearDraftAfterSave(rail, stored)[1] \in Rail
        /\ clearDraftAfterSave(rail, stored)[1].editing # None
             => clearDraftAfterSave(rail, stored)[1].entry \in Group
    BY <2>2, <2>4, TypedNow DEF Rail
  <2>6. mine' \in Draft
    BY <1>4, <2>2 DEF CreateAnswers
  <2>. QED
    BY <1>0, <1>4, <2>1, <2>3, <2>5, <2>6, TypedNow, TypedNext, RouteTyped DEF CreateAnswers
<1>. QED
  BY <1>1, <1>2, <1>3, <1>4 DEF Answers

LEMMA LoadEndsTyped == ASSUME Typed, NEW g \in Groups, LoadEnds(g) PROVE Typed'
<1>0. saved[g] \in Group /\ saved[g].members \in Draft /\ saved[g].title \in Titles
  BY TypedNow DEF Group, Titles
<1>1. CASE LoadAnswers(g)
  <2>1. rash' \subseteq Tokens
    BY <1>1, NotesTyped DEF LoadAnswers, Tokens
  <2>2. rail' \in Rail /\ (rail'.editing # None => rail'.entry \in Group)
    <3>1. PICK field \in {rail.timer, saved[g].title} :
            rail' = [rail EXCEPT !.draft = saved[g].members, !.title = saved[g].title,
                                 !.editing = g, !.entry = saved[g],
                                 !.timer = IF @ = None THEN None ELSE field]
      BY <1>1 DEF LoadAnswers
    <3>. QED
      BY <1>0, <3>1, TypedNow DEF Rail
  <2>3. loads' \in [Groups -> Nat]
    BY <1>1, TypedNow DEF LoadAnswers
  <2>. QED
    BY <1>1, <2>1, <2>2, <2>3, TypedNow, TypedNext, SameCalls DEF LoadAnswers
<1>2. CASE LoadFails(g)
  <2>1. Page("groups") \in Urls
    BY DEF Urls
  <2>2. rail' \in Rail /\ (rail'.editing # None => rail'.entry \in Group)
    BY <1>2, TypedNow
    DEF LoadFails, Rail, exitEditMode, restoreComposeDraft, Fresh, NoGroup, Draft, Titles
  <2>3. loads' \in [Groups -> Nat] /\ stored' \in Draft
    BY <1>2, TypedNow DEF LoadFails, Rail
  <2>. QED
    BY <1>2, <2>1, <2>2, <2>3, TypedNow, TypedNext, SameCalls DEF LoadFails
<1>. QED
  BY <1>1, <1>2 DEF LoadEnds

LEMMA PageTyped == ASSUME Typed, TitleTimerFires \/ Reload \/ RouteAgain PROVE Typed'
<1>1. CASE TitleTimerFires
  <2>1. rail' \in Rail /\ (rail'.editing # None => rail'.entry \in Group)
    BY <1>1, TypedNow DEF TitleTimerFires, Rail
  <2>2. calls' \in Seq(GoodCall) /\ calls' \in Seq(Call) /\ Len(calls') <= MaxCalls
    <3>1. CASE isEditing /\ rail.timer # Blank
      <4>1. rail.timer \in Names /\ rail.timer \in Titles /\ {} \in Draft /\ rail.editing \in Groups
        BY <1>1, <3>1, TypedNow DEF TitleTimerFires, Rail, Titles, Draft, isEditing
      <4>. QED
        BY <1>1, <3>1, <4>1, SendTyped DEF TitleTimerFires
    <3>2. CASE ~(isEditing /\ rail.timer # Blank)
      BY <1>1, <3>2, SameCalls DEF TitleTimerFires
    <3>. QED
      BY <3>1, <3>2
  <2>. QED
    BY <1>1, <2>1, <2>2, TypedNow, TypedNext DEF TitleTimerFires
<1>2. CASE Reload
  <2>1. rail' \in Rail /\ (rail'.editing # None => rail'.entry \in Group)
    BY <1>2, TypedNow DEF Reload, Rail, Fresh, NoGroup, Draft, Titles
  <2>2. calls' \in Seq(GoodCall) /\ calls' \in Seq(Call) /\ Len(calls') <= MaxCalls
    BY <1>2, EmptySeq, BoundAssumption DEF Reload
  <2>3. loads' \in [Groups -> Nat] /\ due' \in BOOLEAN
    BY <1>2 DEF Reload
  <2>. QED
    BY <1>2, <2>1, <2>2, <2>3, TypedNow, TypedNext DEF Reload
<1>3. CASE RouteAgain
  BY <1>3, TypedNow, TypedNext, SameCalls, RouteTyped DEF RouteAgain
<1>. QED
  BY <1>1, <1>2, <1>3

LEMMA InitTyped == ASSUME Init PROVE Typed
<1>1. rail \in Rail /\ rail.editing = None /\ stored \in Draft /\ mine \in Draft
  BY DEF Init, Rail, Fresh, NoGroup, Draft, Titles
<1>2. calls \in Seq(GoodCall) /\ calls \in Seq(Call) /\ Len(calls) <= MaxCalls
  BY EmptySeq, BoundAssumption DEF Init
<1>. QED
  BY <1>1, <1>2 DEF Init, Typed, TypeOK, Rail, Urls

LEMMA NextTyped == ASSUME Typed, [Next]_vars PROVE Typed'
<1>1. CASE UNCHANGED vars
  BY <1>1 DEF vars, Typed, TypeOK
<1>2. CASE Next
  BY <1>2, MemberTyped, AnswersTyped, LoadEndsTyped, PageTyped DEF Next
<1>. QED
  BY <1>1, <1>2

\* For any groups, fellows and bounds, in whatever order the answers come, every variable keeps its
\* type: in particular no write, not even a cancel, leaves a saved group without a name.
THEOREM TypeCorrect == Spec => []TypeOK
<1>1. Spec => []Typed
  BY InitTyped, NextTyped, PTL DEF Spec
<1>2. Typed => TypeOK
  BY DEF Typed
<1>. QED
  BY <1>1, <1>2, PTL

-----------------------------------------------------------------------------
(* The rail and the URL.                                                   *)

LEMMA RouteNames ==
  ASSUME NEW r \in Rail, NEW s, NEW u, route(r, s, u)
  PROVE  isEditing' => url' = Edit(rail'.editing)
<1> DEFINE q == IF r.editing # None /\ u # Edit(r.editing) THEN exitEditMode(r) ELSE r
<1>1. q.editing # None => u = Edit(q.editing)
  BY DEF exitEditMode, restoreComposeDraft, Fresh
<1>2. q \in Rail \/ q.editing = None
  BY DEF exitEditMode, restoreComposeDraft, Fresh
<1>3. url' = u /\ rail'.editing = q.editing
  BY <1>2 DEF route, snapshotComposeDraft, exitEditMode, restoreComposeDraft, Fresh, Rail
<1>. QED
  BY <1>1, <1>3 DEF isEditing

\* Whatever the order of navigation, answers, failures and reloads, an edit mode that is entered by
\* an answer of the group that the URL still names is the URL's until it is left.
THEOREM EditsTheUrlsGroup == Spec => []EditsWhatTheUrlNames
<1>1. Init => EditsWhatTheUrlNames
  BY DEF Init, EditsWhatTheUrlNames, isEditing, Fresh
<1>2. ASSUME Typed, EditsWhatTheUrlNames, [Next]_vars PROVE EditsWhatTheUrlNames'
  <2>0. rail \in Rail
    BY <1>2, TypedNow
  <2>1. ASSUME UNCHANGED <<url, rail>>, rash \subseteq rash' PROVE EditsWhatTheUrlNames'
    BY <1>2, <2>1 DEF EditsWhatTheUrlNames, isEditing, Without
  <2>2. ASSUME UNCHANGED url, rash \subseteq rash', rail'.editing = rail.editing
        PROVE  EditsWhatTheUrlNames'
    BY <1>2, <2>2 DEF EditsWhatTheUrlNames, isEditing, Without
  <2>3. ASSUME NEW r \in Rail, NEW s, NEW u, route(r, s, u) PROVE EditsWhatTheUrlNames'
    BY <2>3, RouteNames DEF EditsWhatTheUrlNames
  <2>4. ASSUME rail'.editing = None PROVE EditsWhatTheUrlNames'
    BY <2>4 DEF EditsWhatTheUrlNames, isEditing
  <2>5. CASE Member
    <3>1. ASSUME NEW u, GoTo(u) PROVE EditsWhatTheUrlNames'
      BY <2>0, <2>3, <3>1 DEF GoTo
    <3>2. CASE Done
      BY <2>0, <2>3, <3>2 DEF Done
    <3>3. ASSUME NEW x, Toggle(x) PROVE EditsWhatTheUrlNames'
      BY <2>0, <2>2, <3>3 DEF Toggle, Rail, Note
    <3>4. ASSUME NEW t, TypeTitle(t) PROVE EditsWhatTheUrlNames'
      BY <2>0, <2>2, <3>4 DEF TypeTitle, Rail, Note
    <3>5. CASE handleCancelEdits
      BY <2>0, <2>2, <3>5 DEF handleCancelEdits, Rail, Note
    <3>6. CASE handleCreateGroupClick
      BY <2>0, <2>2, <3>6 DEF handleCreateGroupClick, Rail, Note
    <3>7. ASSUME NEW g, NEW n, RenameInPlace(g, n) PROVE EditsWhatTheUrlNames'
      BY <2>1, <3>7 DEF RenameInPlace, Note
    <3>. QED
      BY <2>5, <3>1, <3>2, <3>3, <3>4, <3>5, <3>6, <3>7 DEF Member
  <2>6. ASSUME NEW i \in 1..Len(calls), Answers(i) PROVE EditsWhatTheUrlNames'
    <3>1. CASE Commit(i)
      BY <2>1, <3>1 DEF Commit, Note
    <3>2. CASE CallFails(i)
      BY <2>0, <2>2, <3>2 DEF CallFails, Rail, Note
    <3>3. CASE RevertAnswers(i)
      BY <2>0, <2>3, <3>3 DEF RevertAnswers
    <3>4. CASE CreateAnswers(i)
      <4>1. clearDraftAfterSave(rail, stored)[1] = [rail EXCEPT !.draft = {}, !.title = Blank, !.busy = FALSE]
        BY DEF clearDraftAfterSave
      <4>2. clearDraftAfterSave(rail, stored)[1] \in Rail
        BY <2>0, <4>1 DEF Rail, Draft, Titles
      <4>. QED
        BY <2>3, <3>4, <4>2 DEF CreateAnswers
    <3>. QED
      BY <2>6, <3>1, <3>2, <3>3, <3>4 DEF Answers
  <2>7. ASSUME NEW g \in Groups, LoadEnds(g) PROVE EditsWhatTheUrlNames'
    <3>1. CASE LoadAnswers(g)
      <4>1. url' = url /\ rail'.editing = g
        BY <2>0, <3>1 DEF LoadAnswers, Rail
      <4>2. url # Edit(g) => "crossed" \in rash'
        BY <3>1 DEF LoadAnswers, Note
      <4>. QED
        BY <4>1, <4>2 DEF EditsWhatTheUrlNames, isEditing, Without
    <3>2. CASE LoadFails(g)
      BY <2>4, <3>2 DEF LoadFails, isEditing, exitEditMode, restoreComposeDraft, Fresh
    <3>. QED
      BY <2>7, <3>1, <3>2 DEF LoadEnds
  <2>8. CASE TitleTimerFires
    BY <2>0, <2>2, <2>8 DEF TitleTimerFires, Rail
  <2>9. CASE Reload
    BY <2>4, <2>9 DEF Reload, Fresh
  <2>10. CASE RouteAgain
    BY <2>0, <2>3, <2>10 DEF RouteAgain
  <2>11. CASE UNCHANGED vars
    BY <2>1, <2>11 DEF vars
  <2>. QED
    BY <1>2, <2>5, <2>6, <2>7, <2>8, <2>9, <2>10, <2>11 DEF Next
<1>. QED
  BY <1>1, <1>2, InitTyped, NextTyped, PTL DEF Spec

-----------------------------------------------------------------------------
(* The draft.                                                              *)

Composing == Without({"early", "meddled", "crossed"})

Kept ==
  Composing =>
    /\ stored = mine
    /\ ~isEditing => rail.draft = mine
    /\ isEditing => rail.backup = mine
    /\ url.at = "edit" /\ ~isEditing => rail.backup = mine /\ loads[url.group] > 0
    /\ InFlight("create") => ~isEditing /\ url.at # "edit" /\ ~Loading

\* A route from a rail whose draft is d, or that has d aside, keeps d, and creates nothing.
LEMMA RouteKeeps ==
  ASSUME Typed, NEW r \in Rail, NEW u \in Urls, NEW d, route(r, d, u),
         r.editing = None => r.draft = d, r.editing # None => r.backup = d
  PROVE  /\ stored' = d
         /\ ~isEditing' => rail'.draft = d
         /\ isEditing' => rail'.backup = d
         /\ url'.at = "edit" /\ ~isEditing' => rail'.backup = d /\ loads'[url'.group] > 0
         /\ u.at # "edit" => ~isEditing' /\ url' = u /\ loads' = loads
<1> DEFINE q == IF r.editing # None /\ u # Edit(r.editing) THEN exitEditMode(r) ELSE r
           enters == u.at = "edit" /\ q.editing # u.group
<1>1. /\ q \in Rail
      /\ q.editing = None => q.draft = d
      /\ q.editing # None => q.backup = d /\ u = Edit(q.editing) /\ ~enters
  BY DEF Rail, exitEditMode, restoreComposeDraft, Fresh, NoGroup, Draft, Titles, Edit
<1>2. /\ url' = u
      /\ rail' = IF enters /\ q.editing = None THEN snapshotComposeDraft(q) ELSE q
      /\ stored' = IF r.editing # None /\ u # Edit(r.editing) THEN q.draft ELSE d
      /\ loads' = IF enters THEN [loads EXCEPT ![u.group] = @ + 1] ELSE loads
  BY DEF route
<1>3. stored' = d
  BY <1>1, <1>2 DEF exitEditMode, restoreComposeDraft, Fresh
<1>. HIDE DEF q
<1>4. rail'.editing = q.editing /\ rail'.draft = q.draft
      /\ rail'.backup = IF enters /\ q.editing = None THEN q.draft ELSE q.backup
  BY <1>1, <1>2 DEF snapshotComposeDraft, Rail
<1>5. u.at = "edit" => u.group \in Groups
  BY DEF Urls, Edit, Page
<1>6. enters => loads'[u.group] > 0
  BY <1>2, <1>5, TypedNow
<1>7. u.at = "edit" /\ q.editing = None => enters
  BY <1>5, NoneAssumption
<1>8. u.at # "edit" => q.editing = None
  BY <1>1 DEF Edit
<1>. QED
  BY <1>1, <1>2, <1>3, <1>4, <1>6, <1>7, <1>8 DEF isEditing

LEMMA SendsKind ==
  ASSUME Typed, NEW kind \in {"members", "title", "revert", "create"}, NEW g \in Groups \cup {None},
         NEW m \in Draft, NEW t \in Titles, SendMore(kind, g, m, t),
         kind # "create" => g \in Groups, kind \in {"title", "revert"} => t \in Names
  PROVE  \A k : k # kind /\ InFlight(k)' => InFlight(k)
<1> DEFINE c == [kind |-> kind, group |-> g, members |-> m, title |-> t, done |-> FALSE]
<1>1. c \in GoodCall
  BY DEF GoodCall, Call
<1>2. calls \in Seq(GoodCall) /\ Len(calls) \in Nat
  BY LenProperties DEF Typed
<1>3. /\ calls' = Append(calls, c) /\ Len(calls') = Len(calls) + 1
      /\ \A j \in 1..Len(calls) : calls'[j] = calls[j]
      /\ calls'[Len(calls) + 1] = c
  BY <1>1, <1>2, AppendProperties DEF SendMore
<1>. QED
  BY <1>2, <1>3 DEF InFlight

LEMMA DropsKind ==
  ASSUME Typed, NEW i \in 1..Len(calls), calls' = Drop(i)
  PROVE  \A k : InFlight(k)' => InFlight(k)
<1>1. calls \in Seq(GoodCall) /\ Len(calls) \in Nat
  BY LenProperties DEF Typed
<1>2. /\ Len(calls') = Len(calls) - 1
      /\ \A j \in 1..(Len(calls) - 1) : calls'[j] = IF j < i THEN calls[j] ELSE calls[j + 1]
  BY <1>1, Dropped DEF Drop
<1>3. ASSUME NEW k, NEW j \in 1..Len(calls'), calls'[j].kind = k
      PROVE  \E l \in 1..Len(calls) : calls[l].kind = k
  BY <1>1, <1>2, <1>3
<1>. QED
  BY <1>3 DEF InFlight

LEMMA KeptSame ==
  ASSUME Kept, rash \subseteq rash', UNCHANGED <<stored, mine, url, loads>>,
         rail'.editing = rail.editing, rail'.backup = rail.backup,
         ~isEditing => rail'.draft = rail.draft,
         InFlight("create")' => InFlight("create")
  PROVE  Kept'
BY DEF Kept, Composing, Without, isEditing, Loading

LEMMA KeptByMember == ASSUME Typed, Kept, Member PROVE Kept'
<1>0. rail \in Rail /\ stored \in Draft /\ Page("groups") \in Urls /\ {} \in Draft /\ Blank \in Titles
  BY TypedNow DEF Urls, Draft, Titles
<1>1. ASSUME NEW u \in Urls, route(rail, stored, u), Note(Meddling), UNCHANGED <<calls, mine>>
      PROVE  Kept'
  <2>1. SUFFICES ASSUME Composing' PROVE Kept'
    BY DEF Kept
  <2>2. Composing /\ ~InFlight("create")
    BY <1>1, <2>1 DEF Composing, Without, Note, Meddling
  <2>3. rail.editing = None => rail.draft = stored
    BY <2>2 DEF Kept, isEditing
  <2>4. rail.editing # None => rail.backup = stored
    BY <2>2 DEF Kept, isEditing
  <2>5. /\ stored' = stored
        /\ ~isEditing' => rail'.draft = stored
        /\ isEditing' => rail'.backup = stored
        /\ url'.at = "edit" /\ ~isEditing' => rail'.backup = stored /\ loads'[url'.group] > 0
    BY <1>0, <1>1, <2>3, <2>4, RouteKeeps
  <2>6. ~InFlight("create")'
    BY <1>1, <2>2 DEF InFlight
  <2>. QED
    BY <1>1, <2>2, <2>5, <2>6 DEF Kept
<1>2. ASSUME NEW u \in Urls, GoTo(u) PROVE Kept'
  BY <1>1, <1>2 DEF GoTo
<1>3. CASE Done
  BY <1>0, <1>1, <1>3 DEF Done
<1>4. ASSUME NEW s \in (SUBSET Fellows) \ {{}}, Toggle(s) PROVE Kept'
  <2>1. /\ rail' = [rail EXCEPT !.draft = Toggled(rail.draft, s), !.busy = FALSE]
        /\ Toggled(rail.draft, s) \in Draft
    BY <1>0, <1>4 DEF Toggle, Toggled, Draft, Rail
  <2>2. rash \subseteq rash'
    BY <1>4 DEF Toggle, Note
  <2>3. CASE isEditing
    <3>1. SendMore("members", rail.editing, Toggled(rail.draft, s), Blank) /\ UNCHANGED <<stored, mine>>
      BY <1>4, <2>3 DEF Toggle, persistDraft
    <3>2. InFlight("create")' => InFlight("create")
      BY <1>0, <2>1, <2>3, <3>1, TypedNow, SendsKind DEF isEditing
    <3>. QED
      BY <1>0, <1>4, <2>1, <2>2, <2>3, <3>1, <3>2, KeptSame DEF Toggle, Rail
  <2>4. CASE ~isEditing
    <3>1. SUFFICES ASSUME Composing' PROVE Kept'
      BY DEF Kept
    <3>2. Composing /\ ~Loading
      BY <1>4, <3>1 DEF Toggle, Composing, Without, Note, Early
    <3>3. url.at = "edit" => url.group \in Groups
      BY TypedNow DEF Urls, Edit, Page
    <3>4. url.at # "edit"
      BY <2>4, <3>2, <3>3 DEF Kept, Loading
    <3>5. stored' = Toggled(rail.draft, s) /\ mine' = stored' /\ UNCHANGED <<calls, url, loads>>
      BY <1>4, <2>4 DEF Toggle, persistDraft
    <3>6. rail'.draft = Toggled(rail.draft, s) /\ ~isEditing'
      BY <1>0, <2>1, <2>4 DEF Rail, isEditing
    <3>7. ~Loading'
      BY <3>2, <3>5 DEF Loading
    <3>. QED
      BY <3>4, <3>5, <3>6, <3>7 DEF Kept
  <2>. QED
    BY <2>3, <2>4
<1>5. ASSUME NEW t \in Titles, TypeTitle(t) PROVE Kept'
  BY <1>0, <1>5, KeptSame DEF TypeTitle, Rail, Note, InFlight
<1>6. CASE handleCancelEdits
  <2>1. /\ rail.editing \in Groups /\ rail.entry.members \in Draft /\ rail.entry.title \in Names
        /\ rail.entry.title \in Titles
    BY <1>6, TypedNow DEF handleCancelEdits, isEditing, Group, Titles
  <2>2. InFlight("create")' => InFlight("create")
    BY <1>6, <2>1, SendsKind DEF handleCancelEdits
  <2>. QED
    BY <1>0, <1>6, <2>2, KeptSame DEF handleCancelEdits, Rail, Note
<1>7. CASE handleCreateGroupClick
  <2>1. SUFFICES ASSUME Composing' PROVE Kept'
    BY DEF Kept
  <2>2. Composing /\ ~Loading /\ ~isEditing
    BY <1>7, <2>1 DEF handleCreateGroupClick, Composing, Without, Note, Early
  <2>3. url.at = "edit" => url.group \in Groups
    BY TypedNow DEF Urls, Edit, Page
  <2>4. url.at # "edit"
    BY <2>2, <2>3 DEF Kept, Loading
  <2>5. /\ rail'.editing = rail.editing /\ rail'.draft = rail.draft
        /\ UNCHANGED <<stored, mine, url, loads>>
    BY <1>0, <1>7 DEF handleCreateGroupClick, Rail
  <2>. QED
    BY <2>2, <2>4, <2>5 DEF Kept, isEditing, Loading
<1>8. ASSUME NEW g \in Groups, NEW n \in Names, RenameInPlace(g, n) PROVE Kept'
  <2>1. n \in Titles
    BY DEF Titles
  <2>2. InFlight("create")' => InFlight("create")
    BY <1>0, <1>8, <2>1, SendsKind DEF RenameInPlace
  <2>. QED
    BY <1>8, <2>2, KeptSame DEF RenameInPlace, Note, isEditing
<1>. QED
  BY <1>2, <1>3, <1>4, <1>5, <1>6, <1>7, <1>8 DEF Member

LEMMA KeptByAnswers == ASSUME Typed, Kept, NEW i \in 1..Len(calls), Answers(i) PROVE Kept'
<1>0. /\ rail \in Rail /\ stored \in Draft /\ {} \in Draft /\ Blank \in Titles
      /\ Page("groups") \in Urls /\ Page("groups").at # "edit"
  BY TypedNow DEF Urls, Draft, Titles, Page
<1>1. ASSUME calls' = Drop(i) PROVE InFlight("create")' => InFlight("create")
  BY <1>1, DropsKind
<1>2. CASE Commit(i)
  <2>1. InFlight("create")' => InFlight("create")
    <3>1. CASE calls[i].kind \in {"revert", "create"}
      <4>1. calls' = [calls EXCEPT ![i] = [calls[i] EXCEPT !.done = TRUE]]
        BY <1>2, <3>1 DEF Commit
      <4>2. calls[i] \in GoodCall /\ calls \in Seq(GoodCall)
        BY CallTyped DEF Typed
      <4>3. [calls[i] EXCEPT !.done = TRUE] \in GoodCall
        BY <4>2 DEF GoodCall, Call
      <4>4. /\ Len(calls') = Len(calls)
            /\ \A j \in 1..Len(calls) : calls'[j] = IF j = i THEN [calls[i] EXCEPT !.done = TRUE] ELSE calls[j]
        BY <4>1, <4>2, <4>3, ExceptSeq
      <4>5. [calls[i] EXCEPT !.done = TRUE].kind = calls[i].kind
        BY <4>2 DEF GoodCall, Call
      <4>. QED
        BY <4>4, <4>5 DEF InFlight
    <3>2. CASE calls[i].kind \notin {"revert", "create"}
      BY <1>1, <1>2, <3>2 DEF Commit
    <3>. QED
      BY <3>1, <3>2
  <2>. QED
    BY <1>2, <2>1, KeptSame DEF Commit, Note, isEditing
<1>3. CASE CallFails(i)
  BY <1>0, <1>1, <1>3, KeptSame DEF CallFails, Rail, Note
<1>4. CASE RevertAnswers(i)
  <2>1. SUFFICES ASSUME Composing PROVE Kept'
    BY <1>4 DEF RevertAnswers, Kept, Composing, Without
  <2>2. route(rail, stored, Page("groups")) /\ mine' = mine /\ stored = mine
    BY <1>4, <2>1 DEF RevertAnswers, Kept
  <2>3. rail.editing = None => rail.draft = stored
    BY <2>1 DEF Kept, isEditing
  <2>4. rail.editing # None => rail.backup = stored
    BY <2>1 DEF Kept, isEditing
  <2>5. /\ stored' = stored
        /\ ~isEditing' => rail'.draft = stored
        /\ ~isEditing' /\ url' = Page("groups") /\ loads' = loads
    BY <1>0, <2>2, <2>3, <2>4, RouteKeeps
  <2>6. InFlight("create")' => ~Loading'
    BY <1>1, <1>4, <2>1, <2>5 DEF RevertAnswers, Kept, Loading
  <2>. QED
    BY <1>0, <2>2, <2>5, <2>6 DEF Kept
<1>5. CASE CreateAnswers(i)
  <2>1. SUFFICES ASSUME Composing PROVE Kept'
    BY <1>5 DEF CreateAnswers, Kept, Composing, Without
  <2>2. ~isEditing /\ ~Loading
    BY <1>5, <2>1 DEF CreateAnswers, InFlight, Kept
  <2>3. PICK r : /\ r = [rail EXCEPT !.draft = {}, !.title = Blank, !.busy = FALSE]
                 /\ route(r, {}, Page("groups"))
    BY <1>5 DEF CreateAnswers, clearDraftAfterSave
  <2>4. r \in Rail /\ r.editing = None /\ r.draft = {}
    BY <1>0, <2>2, <2>3 DEF Rail, isEditing
  <2>5. /\ stored' = {}
        /\ ~isEditing' => rail'.draft = {}
        /\ ~isEditing' /\ url' = Page("groups") /\ loads' = loads
    BY <1>0, <2>3, <2>4, RouteKeeps
  <2>6. mine' = {} /\ ~Loading'
    BY <1>5, <2>2, <2>5 DEF CreateAnswers, Loading
  <2>. QED
    BY <1>0, <2>5, <2>6 DEF Kept
<1>. QED
  BY <1>2, <1>3, <1>4, <1>5 DEF Answers

LEMMA KeptByLoads == ASSUME Typed, Kept, NEW g \in Groups, LoadEnds(g) PROVE Kept'
<1>0. rail \in Rail /\ Loading
  BY TypedNow DEF LoadEnds, LoadAnswers, LoadFails, Loading
<1>1. CASE LoadAnswers(g)
  <2>1. SUFFICES ASSUME Composing' PROVE Kept'
    BY DEF Kept
  <2>2. Composing /\ url = Edit(g) /\ ~isEditing
    BY <1>1, <2>1 DEF LoadAnswers, Composing, Without, Note
  <2>3. stored = mine /\ rail.backup = mine /\ ~InFlight("create")
    BY <1>0, <2>2 DEF Kept, Edit
  <2>4. rail'.backup = rail.backup /\ rail'.editing = g
    BY <1>0, <1>1 DEF LoadAnswers, Rail
  <2>5. isEditing'
    BY <2>4, NoneAssumption DEF isEditing
  <2>. QED
    BY <1>1, <2>3, <2>4, <2>5 DEF LoadAnswers, Kept, InFlight
<1>2. CASE LoadFails(g)
  <2>1. SUFFICES ASSUME Composing PROVE Kept'
    BY <1>2 DEF LoadFails, Kept, Composing, Without
  <2>2. stored = mine /\ ~InFlight("create")
    BY <1>0, <2>1 DEF Kept
  <2>3. url'.at # "edit" /\ mine' = mine /\ ~InFlight("create")'
    BY <1>2, <2>2 DEF LoadFails, Page, InFlight
  <2>4. stored' = mine /\ rail'.draft = mine /\ ~isEditing'
    BY <1>2, <2>1, <2>2 DEF LoadFails, Kept, isEditing, exitEditMode, restoreComposeDraft, Fresh
  <2>. QED
    BY <2>3, <2>4 DEF Kept
<1>. QED
  BY <1>1, <1>2 DEF LoadEnds

LEMMA KeptByPage == ASSUME Typed, Kept, TitleTimerFires \/ Reload \/ RouteAgain PROVE Kept'
<1>0. rail \in Rail /\ stored \in Draft /\ url \in Urls
  BY TypedNow
<1>1. CASE TitleTimerFires
  <2>1. InFlight("create")' => InFlight("create")
    <3>1. CASE isEditing /\ rail.timer # Blank
      <4>1. rail.timer \in Names /\ rail.timer \in Titles /\ {} \in Draft /\ rail.editing \in Groups
        BY <1>1, <3>1, TypedNow DEF TitleTimerFires, Rail, Titles, Draft, isEditing
      <4>. QED
        BY <1>1, <3>1, <4>1, SendsKind DEF TitleTimerFires
    <3>2. CASE ~(isEditing /\ rail.timer # Blank)
      BY <1>1, <3>2 DEF TitleTimerFires, InFlight
    <3>. QED
      BY <3>1, <3>2
  <2>. QED
    BY <1>0, <1>1, <2>1, KeptSame DEF TitleTimerFires, Rail
<1>2. CASE Reload
  <2>1. SUFFICES ASSUME Composing PROVE Kept'
    BY <1>2 DEF Reload, Kept, Composing, Without
  <2>2. stored' = mine' /\ url' = url /\ stored = stored'
    BY <1>2, <2>1 DEF Reload, Kept
  <2>3. ~isEditing' /\ rail'.draft = stored /\ (url.at = "edit" => rail'.backup = stored)
    BY <1>2 DEF Reload, Fresh, isEditing
  <2>4. url.at = "edit" => loads'[url.group] > 0
    BY <1>0, <1>2 DEF Reload, Urls, Edit, Page
  <2>5. ~InFlight("create")'
    BY <1>2, EmptySeq DEF Reload, InFlight
  <2>. QED
    BY <2>2, <2>3, <2>4, <2>5 DEF Kept
<1>3. CASE RouteAgain
  <2>1. SUFFICES ASSUME Composing PROVE Kept'
    BY <1>3 DEF RouteAgain, Kept, Composing, Without
  <2>2. route(rail, stored, url) /\ mine' = mine /\ stored = mine /\ calls' = calls
    BY <1>3, <2>1 DEF RouteAgain, Kept
  <2>3. rail.editing = None => rail.draft = stored
    BY <2>1 DEF Kept, isEditing
  <2>4. rail.editing # None => rail.backup = stored
    BY <2>1 DEF Kept, isEditing
  <2>5. /\ stored' = stored
        /\ ~isEditing' => rail'.draft = stored
        /\ isEditing' => rail'.backup = stored
        /\ url'.at = "edit" /\ ~isEditing' => rail'.backup = stored /\ loads'[url'.group] > 0
        /\ url.at # "edit" => ~isEditing' /\ url' = url /\ loads' = loads
    BY <1>0, <2>2, <2>3, <2>4, RouteKeeps
  <2>6. InFlight("create")' => ~isEditing' /\ url'.at # "edit" /\ ~Loading'
    BY <2>1, <2>2, <2>5 DEF Kept, InFlight, Loading
  <2>. QED
    BY <2>2, <2>5, <2>6 DEF Kept
<1>. QED
  BY <1>1, <1>2, <1>3

\* The draft the member composes is never lost to the groups edited in between: it is in localStorage,
\* and it is in the rail whenever the rail is neither editing nor loading a group.
THEOREM DraftIsKept == Spec => []DraftSurvives
<1>1. Init => Kept
  BY EmptySeq DEF Init, Kept, isEditing, Fresh, InFlight, Page
<1>2. ASSUME Typed, Kept, [Next]_vars PROVE Kept'
  <2>1. CASE UNCHANGED vars
    BY <1>2, <2>1, KeptSame DEF vars, InFlight
  <2>2. CASE Next
    BY <1>2, <2>2, KeptByMember, KeptByAnswers, KeptByLoads, KeptByPage DEF Next
  <2>. QED
    BY <1>2, <2>1, <2>2
<1>3. Kept => DraftSurvives
  BY DEF Kept, DraftSurvives, Composing
<1>. QED
  BY <1>1, <1>2, <1>3, InitTyped, NextTyped, PTL DEF Spec

-----------------------------------------------------------------------------
(* What the queue of writes leaves in the store.                           *)

\* A write of kind k to g, and the part of a group or of a call that it is about.
Wrote(c, k, g) == c.kind = k /\ c.group = g

Value(k, x) == IF k = "members" THEN x.members ELSE x.title

\* The members (the title) of g end up as v: the last write of them in flight says so or, when none
\* is, the store.
Lands(k, g, v) ==
  /\ (\A i \in 1..Len(calls) : ~Wrote(calls[i], k, g)) => Value(k, saved[g]) = v
  /\ \A i \in 1..Len(calls) :
       Wrote(calls[i], k, g) /\ (\A j \in 1..Len(calls) : j > i => ~Wrote(calls[j], k, g))
         => Value(k, calls[i]) = v

\* Only a cancel and a new group have an answer that the page still waits for after the commit, and
\* only an edited group has a title field.
DoneCalls == \A i \in 1..Len(calls) : calls[i].done => calls[i].kind \in {"revert", "create"}

Sending == DoneCalls /\ (~isEditing => rail.timer = None)

\* The rail of a group says what becomes of it, and the title field what is still to be sent.
Landing ==
  Without({"overtaken", "failed", "stale", "crossed"}) /\ isEditing /\ ~InFlight("revert") =>
    /\ Lands("members", rail.editing, rail.draft)
    /\ rail.timer = None /\ rail.title # Blank => Lands("title", rail.editing, rail.title)
    /\ rail.timer # None => rail.timer = rail.title

\* A cancel is the last write of its group until it is answered, and nothing undoes it in between.
CancelsHold ==
  \A i \in 1..Len(calls) : calls[i].kind = "revert" =>
    /\ \A j \in 1..Len(calls) : j > i => calls[j].kind = "create"
    /\ calls[i].done =>
         /\ saved[calls[i].group] = [members |-> calls[i].members, title |-> calls[i].title]
         /\ \A j \in 1..Len(calls) : j < i /\ calls[j].group = calls[i].group => calls[j].done

Reverting ==
  Without({"meddled", "overtaken"}) => (InFlight("revert") => rail.timer = None) /\ CancelsHold

LEMMA SentCalls ==
  ASSUME Typed, NEW kind \in {"members", "title", "revert", "create"}, NEW g \in Groups \cup {None},
         NEW m \in Draft, NEW t \in Titles, SendMore(kind, g, m, t),
         kind # "create" => g \in Groups, kind \in {"title", "revert"} => t \in Names
  PROVE  /\ Len(calls) \in Nat /\ Len(calls') = Len(calls) + 1
         /\ \A j \in 1..Len(calls) : calls'[j] = calls[j]
         /\ calls'[Len(calls) + 1] =
              [kind |-> kind, group |-> g, members |-> m, title |-> t, done |-> FALSE]
         /\ calls'[Len(calls) + 1].kind = kind /\ ~calls'[Len(calls) + 1].done
<1> DEFINE c == [kind |-> kind, group |-> g, members |-> m, title |-> t, done |-> FALSE]
<1>1. c \in GoodCall
  BY DEF GoodCall, Call
<1>2. calls \in Seq(GoodCall) /\ Len(calls) \in Nat
  BY LenProperties DEF Typed
<1>3. calls' = Append(calls, c) /\ c.kind = kind /\ ~c.done
  BY DEF SendMore
<1>. QED
  BY <1>1, <1>2, <1>3, AppendProperties

LEMMA DroppedCalls ==
  ASSUME Typed, NEW i \in 1..Len(calls), calls' = Drop(i)
  PROVE  /\ Len(calls) \in Nat /\ Len(calls') = Len(calls) - 1
         /\ \A j \in 1..Len(calls') : calls'[j] = IF j < i THEN calls[j] ELSE calls[j + 1]
<1>1. calls \in Seq(GoodCall) /\ Len(calls) \in Nat
  BY LenProperties DEF Typed
<1>2. /\ Len(calls') = Len(calls) - 1
      /\ \A j \in 1..(Len(calls) - 1) : calls'[j] = IF j < i THEN calls[j] ELSE calls[j + 1]
  BY <1>1, Dropped DEF Drop
<1>. QED
  BY <1>1, <1>2

LEMMA MarkedCalls ==
  ASSUME Typed, NEW i \in 1..Len(calls), calls' = [calls EXCEPT ![i].done = TRUE]
  PROVE  /\ Len(calls) \in Nat /\ Len(calls') = Len(calls)
         /\ \A j \in 1..Len(calls) : j # i => calls'[j] = calls[j]
         /\ calls'[i].kind = calls[i].kind /\ calls'[i].group = calls[i].group
         /\ calls'[i].members = calls[i].members /\ calls'[i].title = calls[i].title
         /\ calls'[i].done
<1>1. calls' = [calls EXCEPT ![i] = [calls[i] EXCEPT !.done = TRUE]]
  OBVIOUS
<1>2. calls[i] \in GoodCall /\ calls \in Seq(GoodCall) /\ Len(calls) \in Nat
  BY CallTyped, LenProperties DEF Typed
<1>3. [calls[i] EXCEPT !.done = TRUE] \in GoodCall
  BY <1>2 DEF GoodCall, Call
<1>4. /\ Len(calls') = Len(calls)
      /\ \A j \in 1..Len(calls) :
           calls'[j] = IF j = i THEN [calls[i] EXCEPT !.done = TRUE] ELSE calls[j]
  BY <1>1, <1>2, <1>3, ExceptSeq
<1>. QED
  BY <1>2, <1>4 DEF GoodCall, Call

\* A commit takes a write out of the queue: the other calls keep their order.
LEMMA DroppedOrder ==
  ASSUME Typed, NEW i \in 1..Len(calls), calls' = Drop(i)
  PROVE  /\ \A j \in 1..Len(calls') :
              \E l \in 1..Len(calls) : /\ l # i /\ calls'[j] = calls[l] /\ l = IF j < i THEN j ELSE j + 1
         /\ \A l \in 1..Len(calls) : l # i =>
              \E j \in 1..Len(calls') : calls'[j] = calls[l] /\ l = IF j < i THEN j ELSE j + 1
<1>1. /\ Len(calls) \in Nat /\ Len(calls') = Len(calls) - 1
      /\ \A j \in 1..Len(calls') : calls'[j] = IF j < i THEN calls[j] ELSE calls[j + 1]
  BY DroppedCalls
<1>2. ASSUME NEW j \in 1..Len(calls')
      PROVE  \E l \in 1..Len(calls) : /\ l # i /\ calls'[j] = calls[l]
                                      /\ l = IF j < i THEN j ELSE j + 1
  <2>1. (IF j < i THEN j ELSE j + 1) \in 1..Len(calls) \ {i}
    BY <1>1
  <2>. QED
    BY <1>1, <2>1
<1>3. ASSUME NEW l \in 1..Len(calls), l # i
      PROVE  \E j \in 1..Len(calls') : calls'[j] = calls[l] /\ l = IF j < i THEN j ELSE j + 1
  <2>1. CASE l < i
    <3>1. l \in 1..Len(calls')
      BY <1>1, <2>1
    <3>. QED
      BY <1>1, <2>1, <3>1
  <2>2. CASE l > i
    <3>1. l - 1 \in 1..Len(calls') /\ ~(l - 1 < i) /\ (l - 1) + 1 = l
      BY <1>1, <2>2
    <3>. QED
      BY <1>1, <3>1
  <2>. QED
    BY <1>1, <1>3, <2>1, <2>2
<1>. QED
  BY <1>2, <1>3

-----------------------------------------------------------------------------
(* The writes land.                                                        *)

LEMMA LandsOnSend ==
  ASSUME Typed, NEW kind \in {"members", "title", "revert", "create"}, NEW g \in Groups \cup {None},
         NEW m \in Draft, NEW t \in Titles, SendMore(kind, g, m, t),
         kind # "create" => g \in Groups, kind \in {"title", "revert"} => t \in Names,
         UNCHANGED saved
  PROVE  /\ kind = "members" => Lands("members", g, m)'
         /\ kind = "title" => Lands("title", g, t)'
         /\ \A k, v : k # kind /\ Lands(k, g, v) => Lands(k, g, v)'
<1>1. /\ Len(calls) \in Nat /\ Len(calls') = Len(calls) + 1
      /\ \A j \in 1..Len(calls) : calls'[j] = calls[j]
      /\ calls'[Len(calls) + 1] =
           [kind |-> kind, group |-> g, members |-> m, title |-> t, done |-> FALSE]
  BY SentCalls
<1>2. /\ Len(calls) + 1 \in 1..Len(calls')
      /\ \A i \in 1..Len(calls') : i # Len(calls) + 1 => i \in 1..Len(calls) /\ Len(calls) + 1 > i
      /\ \A i \in 1..Len(calls) : i \in 1..Len(calls')
  BY <1>1
<1>3. ASSUME kind \in {"members", "title"}
      PROVE  Lands(kind, g, Value(kind, [members |-> m, title |-> t]))'
  <2>1. Wrote(calls'[Len(calls) + 1], kind, g)
    BY <1>1 DEF Wrote
  <2>2. Value(kind, calls'[Len(calls) + 1]) = Value(kind, [members |-> m, title |-> t])
    BY <1>1 DEF Value
  <2>. QED
    BY <1>2, <2>1, <2>2 DEF Lands
<1>4. ASSUME NEW k, NEW v, k # kind, Lands(k, g, v) PROVE Lands(k, g, v)'
  <2>1. \A i \in 1..Len(calls) : Wrote(calls'[i], k, g) <=> Wrote(calls[i], k, g)
    BY <1>1 DEF Wrote
  <2>2. ~Wrote(calls'[Len(calls) + 1], k, g)
    BY <1>1, <1>4 DEF Wrote
  <2>3. (\A i \in 1..Len(calls') : ~Wrote(calls'[i], k, g)) => Value(k, saved'[g]) = v
    BY <1>2, <1>4, <2>1 DEF Lands
  <2>4. ASSUME NEW i \in 1..Len(calls'), Wrote(calls'[i], k, g),
               \A j \in 1..Len(calls') : j > i => ~Wrote(calls'[j], k, g)
        PROVE  Value(k, calls'[i]) = v
    <3>1. i \in 1..Len(calls) /\ calls'[i] = calls[i]
      BY <1>1, <1>2, <2>2, <2>4
    <3>2. Wrote(calls[i], k, g) /\ \A j \in 1..Len(calls) : j > i => ~Wrote(calls[j], k, g)
      BY <1>2, <2>1, <2>4, <3>1
    <3>. QED
      BY <1>4, <3>1, <3>2 DEF Lands
  <2>. QED
    BY <2>3, <2>4 DEF Lands
<1>. QED
  BY <1>3, <1>4 DEF Value

LEMMA LandsOnCommit ==
  ASSUME Typed, Sending, NEW i \in 1..Len(calls), calls[i].kind \in {"members", "title"},
         \A j \in 1..Len(calls) : j < i /\ calls[j].group = calls[i].group => calls[j].done,
         calls' = Drop(i),
         saved' = [saved EXCEPT ![calls[i].group] = Written(saved[calls[i].group], calls[i])],
         NEW k \in {"members", "title"}, NEW g \in Groups, NEW v, Lands(k, g, v)
  PROVE  Lands(k, g, v)'
<1>1. Len(calls) \in Nat /\ Len(calls') \in Nat
  BY DroppedCalls
<1>2. /\ \A j \in 1..Len(calls') :
           \E l \in 1..Len(calls) : l # i /\ calls'[j] = calls[l] /\ l = IF j < i THEN j ELSE j + 1
      /\ \A l \in 1..Len(calls) : l # i =>
           \E j \in 1..Len(calls') : calls'[j] = calls[l] /\ l = IF j < i THEN j ELSE j + 1
  BY DroppedOrder
<1>3. \A j \in 1..Len(calls) : Wrote(calls[j], k, g) => ~calls[j].done
  BY DEF Wrote, Sending, DoneCalls
<1>4. Wrote(calls[i], k, g) => \A j \in 1..Len(calls) : j < i => ~Wrote(calls[j], k, g)
  BY <1>3 DEF Wrote
<1>5. /\ Wrote(calls[i], k, g) => Value(k, saved'[g]) = Value(k, calls[i])
      /\ ~Wrote(calls[i], k, g) => Value(k, saved'[g]) = Value(k, saved[g])
  <2>1. calls[i].group \in Groups /\ saved \in [Groups -> Group] /\ saved[g] \in Group
    BY CallTyped, TypedNow DEF GoodCall
  <2>2. saved'[g] = IF g = calls[i].group THEN Written(saved[g], calls[i]) ELSE saved[g]
    BY <2>1
  <2>3. /\ calls[i].kind = "members" => /\ Written(saved[g], calls[i]).members = calls[i].members
                                        /\ Written(saved[g], calls[i]).title = saved[g].title
        /\ calls[i].kind = "title" => /\ Written(saved[g], calls[i]).title = calls[i].title
                                      /\ Written(saved[g], calls[i]).members = saved[g].members
    BY <2>1 DEF Written, Group
  <2>. QED
    BY <2>2, <2>3 DEF Wrote, Value
<1>6. ASSUME \A j \in 1..Len(calls') : ~Wrote(calls'[j], k, g) PROVE Value(k, saved'[g]) = v
  <2>1. ASSUME NEW l \in 1..Len(calls), l # i PROVE ~Wrote(calls[l], k, g)
    <3>1. PICK j \in 1..Len(calls') : calls'[j] = calls[l]
      BY <1>2, <2>1
    <3>. QED
      BY <1>6, <3>1
  <2>2. CASE Wrote(calls[i], k, g)
    <3>1. \A j \in 1..Len(calls) : j > i => ~Wrote(calls[j], k, g)
      BY <1>1, <2>1
    <3>. QED
      BY <1>5, <2>2, <3>1 DEF Lands
  <2>3. CASE ~Wrote(calls[i], k, g)
    BY <1>5, <2>1, <2>3 DEF Lands
  <2>. QED
    BY <2>2, <2>3
<1>7. ASSUME NEW j \in 1..Len(calls'), Wrote(calls'[j], k, g),
             \A h \in 1..Len(calls') : h > j => ~Wrote(calls'[h], k, g)
      PROVE  Value(k, calls'[j]) = v
  <2>1. PICK l \in 1..Len(calls) : l # i /\ calls'[j] = calls[l] /\ l = IF j < i THEN j ELSE j + 1
    BY <1>2
  <2>2. Wrote(calls[l], k, g)
    BY <1>7, <2>1 DEF Wrote
  <2>3. ASSUME NEW h \in 1..Len(calls), h > l, Wrote(calls[h], k, g) PROVE FALSE
    <3>1. h # i
      BY <1>1, <1>4, <2>2, <2>3
    <3>2. PICK n \in 1..Len(calls') : calls'[n] = calls[h] /\ h = IF n < i THEN n ELSE n + 1
      BY <1>2, <3>1
    <3>3. n > j
      BY <1>1, <2>1, <2>3, <3>2
    <3>. QED
      BY <1>7, <2>3, <3>2, <3>3 DEF Wrote
  <2>. QED
    BY <2>1, <2>2, <2>3 DEF Lands
<1>. QED
  BY <1>6, <1>7 DEF Lands

LEMMA LandsOnMark ==
  ASSUME Typed, NEW i \in 1..Len(calls), calls' = [calls EXCEPT ![i].done = TRUE], UNCHANGED saved,
         NEW k, NEW g, NEW v, Lands(k, g, v)
  PROVE  Lands(k, g, v)'
<1>1. /\ Len(calls') = Len(calls)
      /\ \A j \in 1..Len(calls) : /\ Wrote(calls'[j], k, g) <=> Wrote(calls[j], k, g)
                                  /\ Value(k, calls'[j]) = Value(k, calls[j])
  BY MarkedCalls DEF Wrote, Value
<1>. QED
  BY <1>1 DEF Lands

-----------------------------------------------------------------------------
(* What the actions do to the calls and to the rail.                       *)

\* A route leaves the rail of an edit mode as it is, or leaves the edit mode.
LEMMA RouteRail ==
  ASSUME NEW r \in Rail, r.editing = None => r.timer = None, NEW s, NEW u, route(r, s, u)
  PROVE  /\ isEditing' => rail' = r
         /\ ~isEditing' => rail'.timer = None
         /\ u.at # "edit" => ~isEditing'
<1> DEFINE q == IF r.editing # None /\ u # Edit(r.editing) THEN exitEditMode(r) ELSE r
           enters == u.at = "edit" /\ q.editing # u.group
<1>1. /\ q.editing # None => q = r /\ u.at = "edit"
      /\ q.editing = None => q.timer = None
      /\ [q EXCEPT !.backup = q.draft].editing = q.editing
      /\ [q EXCEPT !.backup = q.draft].timer = q.timer
  BY DEF exitEditMode, restoreComposeDraft, Fresh, Edit, Rail
<1>2. rail' = IF enters /\ q.editing = None THEN [q EXCEPT !.backup = q.draft] ELSE q
  BY DEF route, snapshotComposeDraft
<1>. HIDE DEF q
<1>. QED
  BY <1>1, <1>2 DEF isEditing

LEMMA SentInFlight ==
  ASSUME Typed, NEW kind \in {"members", "title", "revert", "create"}, NEW g \in Groups \cup {None},
         NEW m \in Draft, NEW t \in Titles, SendMore(kind, g, m, t),
         kind # "create" => g \in Groups, kind \in {"title", "revert"} => t \in Names
  PROVE  /\ InFlight(kind)'
         /\ \A k : InFlight(k) => InFlight(k)'
<1>1. /\ Len(calls) \in Nat /\ Len(calls') = Len(calls) + 1
      /\ \A j \in 1..Len(calls) : calls'[j] = calls[j]
      /\ calls'[Len(calls) + 1].kind = kind
  BY SentCalls
<1>. QED
  BY <1>1 DEF InFlight

LEMMA DroppedInFlight ==
  ASSUME Typed, NEW i \in 1..Len(calls), calls' = Drop(i), NEW k, k # calls[i].kind, InFlight(k)
  PROVE  InFlight(k)'
<1>1. PICK l \in 1..Len(calls) : calls[l].kind = k
  BY DEF InFlight
<1>2. PICK j \in 1..Len(calls') : calls'[j] = calls[l]
  BY <1>1, DroppedOrder
<1>. QED
  BY <1>1, <1>2 DEF InFlight

-----------------------------------------------------------------------------
(* Sending.                                                                *)

LEMMA SendingDone ==
  ASSUME Typed, Sending,
         \/ UNCHANGED calls
         \/ calls' = <<>>
         \/ \E i \in 1..Len(calls) : calls' = Drop(i)
         \/ \E i \in 1..Len(calls) :
              calls[i].kind \in {"revert", "create"} /\ calls' = [calls EXCEPT ![i].done = TRUE]
         \/ \E kind \in {"members", "title", "revert", "create"}, g \in Groups \cup {None},
               m \in Draft, t \in Titles :
              /\ SendMore(kind, g, m, t)
              /\ kind # "create" => g \in Groups
              /\ kind \in {"title", "revert"} => t \in Names
  PROVE  DoneCalls'
<1>0. DoneCalls
  BY DEF Sending
<1>1. CASE UNCHANGED calls
  BY <1>0, <1>1 DEF DoneCalls
<1>2. CASE calls' = <<>>
  BY <1>2, EmptySeq DEF DoneCalls
<1>3. ASSUME NEW i \in 1..Len(calls), calls' = Drop(i) PROVE DoneCalls'
  <2>1. \A j \in 1..Len(calls') : \E l \in 1..Len(calls) : calls'[j] = calls[l]
    BY <1>3, DroppedOrder
  <2>. QED
    BY <1>0, <2>1 DEF DoneCalls
<1>4. ASSUME NEW i \in 1..Len(calls), calls[i].kind \in {"revert", "create"},
             calls' = [calls EXCEPT ![i].done = TRUE]
      PROVE  DoneCalls'
  <2>1. /\ Len(calls') = Len(calls)
        /\ \A j \in 1..Len(calls) : j # i => calls'[j] = calls[j]
        /\ calls'[i].kind = calls[i].kind
    BY <1>4, MarkedCalls
  <2>. QED
    BY <1>0, <1>4, <2>1 DEF DoneCalls
<1>5. ASSUME NEW kind \in {"members", "title", "revert", "create"}, NEW g \in Groups \cup {None},
             NEW m \in Draft, NEW t \in Titles, SendMore(kind, g, m, t),
             kind # "create" => g \in Groups, kind \in {"title", "revert"} => t \in Names
      PROVE  DoneCalls'
  <2>1. /\ Len(calls) \in Nat /\ Len(calls') = Len(calls) + 1
        /\ \A j \in 1..Len(calls) : calls'[j] = calls[j]
        /\ ~calls'[Len(calls) + 1].done
    BY <1>5, SentCalls
  <2>. QED
    BY <1>0, <2>1 DEF DoneCalls
<1>. QED
  BY <1>1, <1>2, <1>3, <1>4, <1>5

LEMMA SendingNext == ASSUME Typed, Sending, [Next]_vars PROVE Sending'
<1>0. /\ rail \in Rail /\ {} \in Draft /\ Blank \in Titles /\ DoneCalls
      /\ rail.editing = None => rail.timer = None
      /\ rail.editing # None => rail.editing \in Groups /\ rail.entry.members \in Draft
                                /\ rail.entry.title \in Names /\ rail.entry.title \in Titles
  BY TypedNow DEF Draft, Titles, Sending, isEditing, Group
<1>1. ASSUME UNCHANGED calls, NEW s, NEW u, route(rail, s, u) PROVE Sending'
  BY <1>0, <1>1, SendingDone, RouteRail DEF Sending
<1>2. ASSUME UNCHANGED calls, rail'.editing = rail.editing, rail'.timer = rail.timer PROVE Sending'
  BY <1>2, SendingDone DEF Sending, isEditing
<1>3. ASSUME DoneCalls', rail'.editing = rail.editing, rail'.timer = rail.timer \/ rail'.timer = None
      PROVE  Sending'
  BY <1>3 DEF Sending, isEditing
<1>4. CASE Member
  <2>1. ASSUME NEW u, GoTo(u) PROVE Sending'
    BY <1>1, <2>1 DEF GoTo
  <2>2. CASE Done
    BY <1>1, <2>2 DEF Done
  <2>3. ASSUME NEW s \in (SUBSET Fellows) \ {{}}, Toggle(s) PROVE Sending'
    <3>1. Toggled(rail.draft, s) \in Draft
      BY <1>0 DEF Toggled, Draft, Rail
    <3>2. CASE isEditing
      <4>1. SendMore("members", rail.editing, Toggled(rail.draft, s), Blank)
        BY <2>3, <3>2 DEF Toggle, persistDraft
      <4>2. DoneCalls'
        BY <1>0, <3>1, <3>2, <4>1, SendingDone DEF isEditing
      <4>. QED
        BY <1>0, <1>3, <2>3, <4>2 DEF Toggle, Rail
    <3>3. CASE ~isEditing
      BY <1>0, <1>2, <2>3, <3>3 DEF Toggle, persistDraft, Rail
    <3>. QED
      BY <3>2, <3>3
  <2>4. ASSUME NEW t, TypeTitle(t) PROVE Sending'
    <3>1. isEditing' /\ DoneCalls'
      BY <1>0, <2>4, SendingDone DEF TypeTitle, isEditing, Rail
    <3>. QED
      BY <3>1 DEF Sending
  <2>5. CASE handleCancelEdits
    <3>1. SendMore("revert", rail.editing, rail.entry.members, rail.entry.title) /\ isEditing
      BY <2>5 DEF handleCancelEdits
    <3>2. DoneCalls'
      BY <1>0, <3>1, SendingDone DEF isEditing
    <3>. QED
      BY <1>0, <1>3, <2>5, <3>2 DEF handleCancelEdits, Rail
  <2>6. CASE handleCreateGroupClick
    <3>1. SendMore("create", None, rail.draft, Blank) /\ rail.draft \in Draft
      BY <1>0, <2>6 DEF handleCreateGroupClick, Rail
    <3>2. DoneCalls'
      BY <1>0, <3>1, SendingDone
    <3>. QED
      BY <1>0, <1>3, <2>6, <3>2 DEF handleCreateGroupClick, Rail
  <2>7. ASSUME NEW g \in Groups, NEW n \in Names, RenameInPlace(g, n) PROVE Sending'
    <3>1. SendMore("title", g, {}, n) /\ n \in Titles
      BY <2>7 DEF RenameInPlace, Titles
    <3>2. DoneCalls'
      BY <1>0, <3>1, SendingDone
    <3>. QED
      BY <1>3, <2>7, <3>2 DEF RenameInPlace
  <2>. QED
    BY <1>4, <2>1, <2>2, <2>3, <2>4, <2>5, <2>6, <2>7 DEF Member
<1>5. ASSUME NEW i \in 1..Len(calls), Answers(i) PROVE Sending'
  <2>1. CASE Commit(i)
    <3>1. DoneCalls'
      BY <2>1, SendingDone DEF Commit
    <3>. QED
      BY <1>3, <2>1, <3>1 DEF Commit
  <2>2. CASE CallFails(i)
    <3>1. DoneCalls'
      BY <2>2, SendingDone DEF CallFails
    <3>. QED
      BY <1>0, <1>3, <2>2, <3>1 DEF CallFails, Rail
  <2>3. CASE RevertAnswers(i)
    <3>1. DoneCalls'
      BY <2>3, SendingDone DEF RevertAnswers
    <3>. QED
      BY <1>0, <2>3, <3>1, RouteRail DEF RevertAnswers, Sending
  <2>4. CASE CreateAnswers(i)
    <3>1. DoneCalls'
      BY <2>4, SendingDone DEF CreateAnswers
    <3>2. PICK r : /\ r = [rail EXCEPT !.draft = {}, !.title = Blank, !.busy = FALSE]
                   /\ route(r, {}, Page("groups"))
      BY <2>4 DEF CreateAnswers, clearDraftAfterSave
    <3>3. r \in Rail /\ r.editing = rail.editing /\ r.timer = rail.timer
      BY <1>0, <3>2 DEF Rail
    <3>. QED
      BY <1>0, <3>1, <3>2, <3>3, RouteRail DEF Sending
  <2>. QED
    BY <1>5, <2>1, <2>2, <2>3, <2>4 DEF Answers
<1>6. ASSUME NEW g \in Groups, LoadEnds(g) PROVE Sending'
  <2>1. CASE LoadAnswers(g)
    <3>1. rail'.editing = g /\ DoneCalls'
      BY <1>0, <2>1, SendingDone DEF LoadAnswers, Rail
    <3>. QED
      BY <3>1, NoneAssumption DEF Sending, isEditing
  <2>2. CASE LoadFails(g)
    <3>1. DoneCalls'
      BY <2>2, SendingDone DEF LoadFails
    <3>2. rail'.timer = None
      BY <1>0, <2>2 DEF LoadFails, isEditing, exitEditMode, restoreComposeDraft, Fresh
    <3>. QED
      BY <3>1, <3>2 DEF Sending
  <2>. QED
    BY <1>6, <2>1, <2>2 DEF LoadEnds
<1>7. CASE TitleTimerFires
  <2>1. rail'.timer = None
    BY <1>0, <1>7 DEF TitleTimerFires, Rail
  <2>2. DoneCalls'
    <3>1. CASE isEditing /\ rail.timer # Blank
      <4>1. /\ rail.timer \in Names /\ rail.timer \in Titles /\ rail.editing \in Groups
            /\ SendMore("title", rail.editing, {}, rail.timer)
        BY <1>0, <1>7, <3>1 DEF TitleTimerFires, Rail, Titles, isEditing
      <4>. QED
        BY <1>0, <4>1, SendingDone
    <3>2. CASE ~(isEditing /\ rail.timer # Blank)
      BY <1>7, <3>2, SendingDone DEF TitleTimerFires
    <3>. QED
      BY <3>1, <3>2
  <2>. QED
    BY <2>1, <2>2 DEF Sending
<1>8. CASE Reload
  <2>1. DoneCalls' /\ rail'.timer = None
    BY <1>8, SendingDone DEF Reload, Fresh
  <2>. QED
    BY <2>1 DEF Sending
<1>9. CASE RouteAgain
  BY <1>1, <1>9 DEF RouteAgain
<1>10. CASE UNCHANGED vars
  BY <1>2, <1>10 DEF vars
<1>. QED
  BY <1>4, <1>5, <1>6, <1>7, <1>8, <1>9, <1>10 DEF Next

-----------------------------------------------------------------------------
(* Landing.                                                                *)

LEMMA LandingSame ==
  ASSUME Landing, rash \subseteq rash', UNCHANGED <<saved, calls>>,
         rail'.editing = rail.editing, rail'.draft = rail.draft,
         rail'.title = rail.title, rail'.timer = rail.timer
  PROVE  Landing'
BY DEF Landing, Without, Lands, isEditing, InFlight

LEMMA LandingOut ==
  ASSUME ~isEditing' \/ InFlight("revert")' \/ ~Without({"overtaken", "failed", "stale", "crossed"})'
  PROVE  Landing'
BY DEF Landing

LEMMA LandingRoute ==
  ASSUME Landing, Sending, rail \in Rail, rash \subseteq rash', UNCHANGED <<saved, calls>>,
         NEW s, NEW u, route(rail, s, u)
  PROVE  Landing'
<1>1. isEditing' => rail' = rail
  BY RouteRail DEF Sending, isEditing
<1>. QED
  BY <1>1, LandingSame, LandingOut

LEMMA LandingByMember ==
  ASSUME Typed, EditsWhatTheUrlNames, Sending, Landing, Member
  PROVE  Landing'
<1>0. /\ rail \in Rail /\ {} \in Draft /\ Blank \in Titles
      /\ rail.editing = None => rail.timer = None
      /\ rail.editing # None => rail.editing \in Groups /\ rail.entry.members \in Draft
                                /\ rail.entry.title \in Names /\ rail.entry.title \in Titles
  BY TypedNow DEF Draft, Titles, Sending, isEditing, Group
<1>1. ASSUME NEW u, GoTo(u) PROVE Landing'
  BY <1>0, <1>1, LandingRoute DEF GoTo, Note
<1>2. CASE Done
  BY <1>0, <1>2, LandingRoute DEF Done, Note
<1>3. ASSUME NEW s \in (SUBSET Fellows) \ {{}}, Toggle(s) PROVE Landing'
  <2>1. PICK d \in Draft : d = Toggled(rail.draft, s)
    BY <1>0 DEF Toggled, Draft, Rail
  <2>2. /\ rail'.editing = rail.editing /\ rail'.draft = d
        /\ rail'.title = rail.title /\ rail'.timer = rail.timer
        /\ UNCHANGED saved /\ rash \subseteq rash'
    BY <1>0, <1>3, <2>1 DEF Toggle, Rail, Note
  <2>3. CASE isEditing
    <3>1. PICK g \in Groups : g = rail.editing
      BY <1>0, <2>3 DEF isEditing
    <3>2. SendMore("members", g, d, Blank)
      BY <1>3, <2>1, <2>3, <3>1 DEF Toggle, persistDraft
    <3>3. /\ Lands("members", g, d)'
          /\ \A v : Lands("title", g, v) => Lands("title", g, v)'
          /\ InFlight("revert") => InFlight("revert")'
      BY <1>0, <2>2, <3>2, LandsOnSend, SentInFlight
    <3>. QED
      BY <2>2, <3>1, <3>3 DEF Landing, Without, isEditing
  <2>4. CASE ~isEditing
    BY <2>2, <2>4, LandingOut DEF isEditing
  <2>. QED
    BY <2>3, <2>4
<1>4. ASSUME NEW t \in Titles, TypeTitle(t) PROVE Landing'
  <2>1. /\ rail'.editing = rail.editing /\ rail'.draft = rail.draft
        /\ rail'.title = t /\ rail'.timer = t /\ t # None
        /\ UNCHANGED <<saved, calls>> /\ rash \subseteq rash'
    BY <1>0, <1>4, NoneAssumption DEF TypeTitle, Rail, Note, Titles
  <2>. QED
    BY <2>1 DEF Landing, Without, Lands, isEditing, InFlight
<1>5. CASE handleCancelEdits
  <2>1. InFlight("revert")'
    BY <1>0, <1>5, SentInFlight DEF handleCancelEdits, isEditing
  <2>. QED
    BY <2>1, LandingOut
<1>6. CASE handleCreateGroupClick
  BY <1>0, <1>6, LandingOut DEF handleCreateGroupClick, Rail, isEditing
<1>7. ASSUME NEW g \in Groups, NEW n \in Names, RenameInPlace(g, n) PROVE Landing'
  <2>1. Without({"crossed"})' => ~isEditing'
    BY <1>7 DEF RenameInPlace, EditsWhatTheUrlNames, Without, Note, isEditing, Edit, Page
  <2>. QED
    BY <2>1, LandingOut DEF Without
<1>. QED
  BY <1>1, <1>2, <1>3, <1>4, <1>5, <1>6, <1>7 DEF Member

LEMMA LandingByAnswers ==
  ASSUME Typed, Sending, Landing, NEW i \in 1..Len(calls), Answers(i)
  PROVE  Landing'
<1>0. /\ rail \in Rail /\ {} \in Draft /\ Blank \in Titles /\ calls[i] \in GoodCall
      /\ rail.editing = None => rail.timer = None
      /\ rail.editing # None => rail.editing \in Groups
  BY TypedNow, CallTyped DEF Draft, Titles, Sending, isEditing
<1>1. CASE Commit(i)
  <2>1. SUFFICES ASSUME Without({"overtaken", "failed", "stale", "crossed"})', isEditing',
                        ~InFlight("revert")'
                 PROVE  Landing'
    BY LandingOut
  <2>2. PICK g \in Groups : g = rail.editing
    BY <1>0, <1>1, <2>1 DEF Commit, isEditing
  <2>3. \A j \in 1..Len(calls) : j < i /\ calls[j].group = calls[i].group => calls[j].done
    <3>1. \A j \in 1..(i - 1) : calls[j].group = calls[i].group => calls[j].done
      BY <1>1, <2>1 DEF Commit, Note, Without
    <3>2. \A j \in 1..Len(calls) : j < i => j \in 1..(i - 1)
      OBVIOUS
    <3>. QED
      BY <3>1, <3>2
  <2>4. /\ InFlight("revert") => InFlight("revert")'
        /\ \A v : \A k \in {"members", "title"} : Lands(k, g, v) => Lands(k, g, v)'
    <3>1. CASE calls[i].kind \in {"members", "title"}
      <4>1. calls' = Drop(i)
        BY <1>1, <3>1 DEF Commit
      <4>2. saved' = [saved EXCEPT ![calls[i].group] = Written(saved[calls[i].group], calls[i])]
        BY <1>1, <3>1 DEF Commit
      <4>. QED
        BY <2>3, <3>1, <4>1, <4>2, LandsOnCommit, DroppedInFlight
    <3>2. CASE calls[i].kind = "revert"
      <4>1. calls' = [calls EXCEPT ![i].done = TRUE]
        BY <1>1, <3>2 DEF Commit
      <4>2. InFlight("revert")'
        BY <3>2, <4>1, MarkedCalls DEF InFlight
      <4>. QED
        BY <2>1, <4>2
    <3>3. CASE calls[i].kind = "create"
      <4>1. calls' = [calls EXCEPT ![i].done = TRUE] /\ UNCHANGED saved
        BY <1>1, <3>3 DEF Commit
      <4>2. InFlight("revert") => InFlight("revert")'
        <5>1. /\ Len(calls') = Len(calls)
              /\ \A j \in 1..Len(calls) : j # i => calls'[j] = calls[j]
          BY <4>1, MarkedCalls
        <5>. QED
          BY <3>3, <5>1 DEF InFlight
      <4>. QED
        BY <4>1, <4>2, LandsOnMark
    <3>. QED
      BY <1>0, <3>1, <3>2, <3>3 DEF GoodCall, Call
  <2>5. rash \subseteq rash' /\ rail' = rail
    BY <1>1 DEF Commit, Note
  <2>. QED
    BY <2>1, <2>2, <2>4, <2>5 DEF Landing, Without, isEditing
<1>2. CASE CallFails(i)
  BY <1>2, LandingOut DEF CallFails, Note, Without
<1>3. CASE RevertAnswers(i)
  <2>1. ~isEditing'
    BY <1>0, <1>3, RouteRail DEF RevertAnswers, Page
  <2>. QED
    BY <2>1, LandingOut
<1>4. CASE CreateAnswers(i)
  <2>1. PICK r : /\ r = [rail EXCEPT !.draft = {}, !.title = Blank, !.busy = FALSE]
                 /\ route(r, {}, Page("groups"))
    BY <1>4 DEF CreateAnswers, clearDraftAfterSave
  <2>2. r \in Rail /\ r.editing = rail.editing /\ r.timer = rail.timer
    BY <1>0, <2>1 DEF Rail
  <2>3. Page("groups").at # "edit"
    BY DEF Page
  <2>4. ~isEditing'
    BY <1>0, <2>1, <2>2, <2>3, RouteRail
  <2>. QED
    BY <2>4, LandingOut
<1>. QED
  BY <1>1, <1>2, <1>3, <1>4 DEF Answers

LEMMA LandingByLoads ==
  ASSUME Typed, Sending, Landing, NEW g \in Groups, LoadEnds(g)
  PROVE  Landing'
<1>0. rail \in Rail /\ saved[g] \in Group /\ (rail.editing = None => rail.timer = None)
  BY TypedNow DEF Sending, isEditing
<1>1. CASE LoadAnswers(g)
  <2>1. SUFFICES ASSUME Without({"stale", "crossed"})' PROVE Landing'
    BY LandingOut DEF Without
  <2>2. ~isEditing /\ ~Uncommitted(g) /\ UNCHANGED <<saved, calls>>
    BY <1>1, <2>1 DEF LoadAnswers, Note, Without
  <2>3. /\ rail'.editing = g /\ rail'.timer = None
        /\ rail'.draft = saved[g].members /\ rail'.title = saved[g].title
    BY <1>0, <1>1, <2>2 DEF LoadAnswers, Rail, isEditing
  <2>4. \A k \in {"members", "title"}, j \in 1..Len(calls) : ~Wrote(calls[j], k, g)
    BY <2>2 DEF Uncommitted, Wrote, Sending, DoneCalls
  <2>5. Lands("members", g, saved[g].members) /\ Lands("title", g, saved[g].title)
    BY <2>4 DEF Lands, Value
  <2>. QED
    BY <2>2, <2>3, <2>5 DEF Landing, Lands
<1>2. CASE LoadFails(g)
  <2>1. ~isEditing'
    BY <1>0, <1>2 DEF LoadFails, isEditing, exitEditMode, restoreComposeDraft, Fresh
  <2>. QED
    BY <2>1, LandingOut
<1>. QED
  BY <1>1, <1>2 DEF LoadEnds

LEMMA LandingByPage ==
  ASSUME Typed, Sending, Landing, TitleTimerFires \/ Reload \/ RouteAgain
  PROVE  Landing'
<1>0. rail \in Rail /\ {} \in Draft
      /\ (rail.editing = None => rail.timer = None)
      /\ (rail.editing # None => rail.editing \in Groups)
  BY TypedNow DEF Sending, isEditing, Draft
<1>1. CASE TitleTimerFires
  <2>1. /\ isEditing /\ rail.timer # None /\ UNCHANGED <<saved, rash>>
        /\ rail'.editing = rail.editing /\ rail'.draft = rail.draft
        /\ rail'.title = rail.title /\ rail'.timer = None
    BY <1>0, <1>1 DEF TitleTimerFires, Rail, isEditing
  <2>2. PICK g \in Groups : g = rail.editing
    BY <1>0, <2>1 DEF isEditing
  <2>3. CASE rail.timer = Blank
    <3>1. UNCHANGED calls
      BY <1>1, <2>3 DEF TitleTimerFires
    <3>. QED
      BY <2>1, <2>2, <2>3, <3>1 DEF Landing, Lands, Without, isEditing, InFlight
  <2>4. CASE rail.timer # Blank
    <3>1. PICK t \in Names : t = rail.timer
      BY <1>0, <2>1, <2>4 DEF Rail, Titles
    <3>2. SendMore("title", g, {}, t) /\ t \in Titles
      BY <1>1, <2>1, <2>2, <2>4, <3>1 DEF TitleTimerFires, Titles
    <3>3. /\ Lands("title", g, t)'
          /\ \A v : Lands("members", g, v) => Lands("members", g, v)'
          /\ InFlight("revert") => InFlight("revert")'
      BY <1>0, <2>1, <3>2, LandsOnSend, SentInFlight
    <3>. QED
      BY <2>1, <2>2, <3>1, <3>3 DEF Landing, Without, isEditing
  <2>. QED
    BY <2>3, <2>4
<1>2. CASE Reload
  BY <1>2, LandingOut DEF Reload, Fresh, isEditing
<1>3. CASE RouteAgain
  BY <1>0, <1>3, LandingRoute DEF RouteAgain
<1>. QED
  BY <1>1, <1>2, <1>3

\* Whatever the member edits, and whatever order the writes commit in, when no write overtook, failed
\* or crossed the load of its group and none is under way, the store has what the rail shows.
THEOREM EditsReachTheStore == Spec => []EditsLand
<1>1. Init => EditsWhatTheUrlNames /\ Sending /\ Landing
  BY EmptySeq
  DEF Init, EditsWhatTheUrlNames, isEditing, Fresh, Sending, DoneCalls, Landing
<1>2. ASSUME Typed, EditsWhatTheUrlNames, Sending, Landing, [Next]_vars PROVE Landing'
  <2>1. CASE UNCHANGED vars
    BY <1>2, <2>1, LandingSame DEF vars
  <2>2. CASE Next
    BY <1>2, <2>2, LandingByMember, LandingByAnswers, LandingByLoads, LandingByPage DEF Next
  <2>. QED
    BY <1>2, <2>1, <2>2
<1>3. Typed /\ Landing => EditsLand
  BY EmptySeq DEF Landing, EditsLand, Lands, Value, InFlight
<1>. QED
  BY <1>1, <1>2, <1>3, InitTyped, NextTyped, SendingNext, EditsTheUrlsGroup, PTL DEF Spec

-----------------------------------------------------------------------------
(* Cancels.                                                                *)

LEMMA HoldSame == ASSUME CancelsHold, UNCHANGED <<saved, calls>> PROVE CancelsHold'
BY DEF CancelsHold

LEMMA HoldOnSend ==
  ASSUME Typed, CancelsHold, NEW kind \in {"members", "title", "revert", "create"},
         NEW g \in Groups \cup {None}, NEW m \in Draft, NEW t \in Titles, SendMore(kind, g, m, t),
         kind # "create" => g \in Groups, kind \in {"title", "revert"} => t \in Names,
         kind = "create" \/ ~InFlight("revert"), UNCHANGED saved
  PROVE  CancelsHold'
<1>1. /\ Len(calls) \in Nat /\ Len(calls') = Len(calls) + 1
      /\ \A j \in 1..Len(calls) : calls'[j] = calls[j]
      /\ calls'[Len(calls) + 1].kind = kind /\ ~calls'[Len(calls) + 1].done
  BY SentCalls
<1>2. /\ Len(calls) + 1 \in 1..Len(calls')
      /\ \A i \in 1..Len(calls') : i # Len(calls) + 1 => i \in 1..Len(calls) /\ Len(calls) + 1 > i
      /\ \A i \in 1..Len(calls) : i \in 1..Len(calls')
      /\ \A i \in 1..Len(calls') : ~(i > Len(calls) + 1)
  BY <1>1
<1>3. ASSUME NEW i \in 1..Len(calls'), calls'[i].kind = "revert"
      PROVE  /\ \A j \in 1..Len(calls') : j > i => calls'[j].kind = "create"
             /\ calls'[i].done =>
                  /\ saved'[calls'[i].group] = [members |-> calls'[i].members, title |-> calls'[i].title]
                  /\ \A j \in 1..Len(calls') : j < i /\ calls'[j].group = calls'[i].group => calls'[j].done
  <2>1. CASE i = Len(calls) + 1
    BY <1>1, <1>2, <2>1
  <2>2. CASE i # Len(calls) + 1
    <3>1. i \in 1..Len(calls) /\ calls'[i] = calls[i] /\ calls[i].kind = "revert"
      BY <1>1, <1>2, <1>3, <2>2
    <3>2. kind = "create"
      BY <3>1 DEF InFlight
    <3>3. \A j \in 1..Len(calls) : j > i => calls[j].kind = "create"
      BY <3>1 DEF CancelsHold
    <3>4. ASSUME NEW j \in 1..Len(calls'), j > i PROVE calls'[j].kind = "create"
      BY <1>1, <1>2, <3>2, <3>3, <3>4
    <3>5. ASSUME calls[i].done, NEW j \in 1..Len(calls'), j < i, calls'[j].group = calls[i].group
          PROVE  calls'[j].done
      <4>1. j \in 1..Len(calls) /\ calls'[j] = calls[j]
        BY <1>1, <1>2, <3>1, <3>5
      <4>. QED
        BY <3>1, <3>5, <4>1 DEF CancelsHold
    <3>. QED
      BY <3>1, <3>4, <3>5 DEF CancelsHold
  <2>. QED
    BY <2>1, <2>2
<1>. QED
  BY <1>3 DEF CancelsHold

\* A call leaves the queue: answered, failed or, with nothing older of its group, committed.
LEMMA HoldOnDrop ==
  ASSUME Typed, CancelsHold, NEW i \in 1..Len(calls), calls' = Drop(i),
         \A l \in 1..Len(calls) : l # i /\ calls[l].kind = "revert" /\ calls[l].done =>
            saved'[calls[l].group] = saved[calls[l].group]
  PROVE  CancelsHold'
<1>1. /\ Len(calls) \in Nat /\ Len(calls') \in Nat
      /\ \A j \in 1..Len(calls') :
           \E l \in 1..Len(calls) : l # i /\ calls'[j] = calls[l] /\ l = IF j < i THEN j ELSE j + 1
  BY DroppedCalls, DroppedOrder
<1>2. ASSUME NEW a \in 1..Len(calls'), calls'[a].kind = "revert"
      PROVE  /\ \A j \in 1..Len(calls') : j > a => calls'[j].kind = "create"
             /\ calls'[a].done =>
                  /\ saved'[calls'[a].group] = [members |-> calls'[a].members, title |-> calls'[a].title]
                  /\ \A j \in 1..Len(calls') : j < a /\ calls'[j].group = calls'[a].group => calls'[j].done
  <2>1. PICK l \in 1..Len(calls) : l # i /\ calls'[a] = calls[l] /\ l = IF a < i THEN a ELSE a + 1
    BY <1>1
  <2>2. calls[l].kind = "revert"
    BY <1>2, <2>1
  <2>3. /\ \A n \in 1..Len(calls) : n > l => calls[n].kind = "create"
        /\ calls[l].done =>
             \A n \in 1..Len(calls) : n < l /\ calls[n].group = calls[l].group => calls[n].done
    BY <2>2 DEF CancelsHold
  <2>4. ASSUME NEW j \in 1..Len(calls'), j > a PROVE calls'[j].kind = "create"
    <3>1. PICK n \in 1..Len(calls) : n # i /\ calls'[j] = calls[n] /\ n = IF j < i THEN j ELSE j + 1
      BY <1>1
    <3>2. n > l
      BY <2>1, <2>4, <3>1
    <3>. QED
      BY <2>3, <3>1, <3>2
  <2>5. ASSUME calls'[a].done, NEW j \in 1..Len(calls'), j < a, calls'[j].group = calls'[a].group
        PROVE  calls'[j].done
    <3>1. PICK n \in 1..Len(calls) : n # i /\ calls'[j] = calls[n] /\ n = IF j < i THEN j ELSE j + 1
      BY <1>1
    <3>2. n < l
      BY <2>1, <2>5, <3>1
    <3>. QED
      BY <2>1, <2>3, <2>5, <3>1, <3>2
  <2>6. calls'[a].done =>
          saved'[calls'[a].group] = [members |-> calls'[a].members, title |-> calls'[a].title]
    BY <1>2, <2>1 DEF CancelsHold
  <2>. QED
    BY <2>4, <2>5, <2>6
<1>. QED
  BY <1>2 DEF CancelsHold

LEMMA HoldOnCommit ==
  ASSUME Typed, Sending, CancelsHold, NEW i \in 1..Len(calls), Commit(i), Without({"overtaken"})'
  PROVE  CancelsHold'
<1>0. calls[i] \in GoodCall /\ ~calls[i].done
  BY CallTyped DEF Commit
<1>1. \A j \in 1..Len(calls) : j < i /\ calls[j].group = calls[i].group => calls[j].done
  <2>1. \A j \in 1..(i - 1) : calls[j].group = calls[i].group => calls[j].done
    BY DEF Commit, Note, Without
  <2>2. \A j \in 1..Len(calls) : j < i => j \in 1..(i - 1)
    OBVIOUS
  <2>. QED
    BY <2>1, <2>2
\* A cancel that is done and a write of its group that is not: the write is older than the cancel, which
\* would not be done, or a new group, which writes no group that is saved.
<1>2. ASSUME NEW l \in 1..Len(calls), l # i, calls[l].kind = "revert", calls[l].done,
             calls[i].kind # "create"
      PROVE  calls[l].group # calls[i].group
  <2>1. CASE i < l
    BY <1>0, <1>2, <2>1 DEF CancelsHold
  <2>2. CASE i > l
    BY <1>2, <2>2 DEF CancelsHold
  <2>. QED
    BY <1>2, <2>1, <2>2
<1>3. ASSUME NEW g \in Groups, calls[i].kind = "create" \/ g # calls[i].group
      PROVE  saved'[g] = saved[g]
  BY <1>3, TypedNow DEF Commit
<1>4. ASSUME NEW l \in 1..Len(calls), l # i, calls[l].kind = "revert", calls[l].done
      PROVE  saved'[calls[l].group] = saved[calls[l].group]
  <2>1. calls[l].group \in Groups
    BY <1>4, CallTyped DEF GoodCall
  <2>. QED
    BY <1>2, <1>3, <1>4, <2>1
<1>5. CASE calls[i].kind \notin {"revert", "create"}
  <2>1. calls' = Drop(i)
    BY <1>5 DEF Commit
  <2>. QED
    BY <1>4, <2>1, HoldOnDrop
<1>6. CASE calls[i].kind \in {"revert", "create"}
  <2>1. calls' = [calls EXCEPT ![i].done = TRUE]
    BY <1>6 DEF Commit
  <2>2. /\ Len(calls) \in Nat /\ Len(calls') = Len(calls)
        /\ \A j \in 1..Len(calls) : j # i => calls'[j] = calls[j]
        /\ calls'[i].kind = calls[i].kind /\ calls'[i].group = calls[i].group
        /\ calls'[i].members = calls[i].members /\ calls'[i].title = calls[i].title
        /\ calls'[i].done
    BY <2>1, MarkedCalls
  <2>3. \A j \in 1..Len(calls) : /\ calls'[j].kind = calls[j].kind /\ calls'[j].group = calls[j].group
                                 /\ calls[j].done => calls'[j].done
    BY <2>2
  <2>4. ASSUME calls[i].kind = "revert"
        PROVE  saved'[calls[i].group] = [members |-> calls[i].members, title |-> calls[i].title]
    <3>1. calls[i].group \in Groups
      BY <1>0, <2>4 DEF GoodCall
    <3>2. saved'[calls[i].group] = Written(saved[calls[i].group], calls[i])
      BY <2>4, <3>1, TypedNow DEF Commit
    <3>. QED
      BY <2>4, <3>2 DEF Written
  <2>5. ASSUME NEW l \in 1..Len(calls'), calls'[l].kind = "revert"
        PROVE  /\ \A j \in 1..Len(calls') : j > l => calls'[j].kind = "create"
               /\ calls'[l].done =>
                    /\ saved'[calls'[l].group] =
                         [members |-> calls'[l].members, title |-> calls'[l].title]
                    /\ \A j \in 1..Len(calls') :
                         j < l /\ calls'[j].group = calls'[l].group => calls'[j].done
    <3>1. l \in 1..Len(calls) /\ calls[l].kind = "revert"
      BY <2>2, <2>3, <2>5
    <3>2. \A j \in 1..Len(calls') : j > l => calls'[j].kind = "create"
      BY <2>2, <2>3, <3>1 DEF CancelsHold
    <3>3. CASE l = i
      BY <1>1, <2>2, <2>3, <2>4, <3>1, <3>2, <3>3
    <3>4. CASE l # i
      <4>1. calls'[l] = calls[l]
        BY <2>2, <3>1, <3>4
      <4>2. calls[l].done => saved'[calls[l].group] = [members |-> calls[l].members, title |-> calls[l].title]
        BY <1>4, <3>1, <3>4 DEF CancelsHold
      <4>3. calls[l].done =>
              \A j \in 1..Len(calls) : j < l /\ calls[j].group = calls[l].group => calls[j].done
        BY <3>1 DEF CancelsHold
      <4>. QED
        BY <2>2, <2>3, <3>2, <4>1, <4>2, <4>3
    <3>. QED
      BY <3>3, <3>4
  <2>. QED
    BY <2>5 DEF CancelsHold
<1>. QED
  BY <1>5, <1>6

LEMMA RevertingSame ==
  ASSUME Reverting, rash \subseteq rash', UNCHANGED <<saved, calls>>,
         rail'.timer = rail.timer \/ rail'.timer = None \/ ~Without({"meddled", "overtaken"})'
  PROVE  Reverting'
BY DEF Reverting, Without, CancelsHold, InFlight

LEMMA RevertingRoute ==
  ASSUME Reverting, Sending, rail \in Rail, rash \subseteq rash', UNCHANGED <<saved, calls>>,
         NEW s, NEW u, route(rail, s, u)
  PROVE  Reverting'
<1>1. rail'.timer = rail.timer \/ rail'.timer = None
  BY RouteRail DEF Sending, isEditing
<1>. QED
  BY <1>1, RevertingSame

LEMMA RevertingByMember == ASSUME Typed, Sending, Reverting, Member PROVE Reverting'
<1>0. /\ rail \in Rail /\ {} \in Draft /\ Blank \in Titles
      /\ rail.editing = None => rail.timer = None
      /\ rail.editing # None => rail.editing \in Groups /\ rail.entry.members \in Draft
                                /\ rail.entry.title \in Names /\ rail.entry.title \in Titles
  BY TypedNow DEF Draft, Titles, Sending, isEditing, Group
\* What the member does before a cancel is answered is meddling.
<1>1. ASSUME Note(Meddling), Without({"meddled", "overtaken"})'
      PROVE  ~InFlight("revert") /\ Without({"meddled", "overtaken"})
  BY <1>1 DEF Note, Without, Meddling
<1>2. ASSUME NEW u, GoTo(u) PROVE Reverting'
  BY <1>0, <1>2, RevertingRoute DEF GoTo, Note
<1>3. CASE Done
  BY <1>0, <1>3, RevertingRoute DEF Done, Note
<1>4. ASSUME NEW s \in (SUBSET Fellows) \ {{}}, Toggle(s) PROVE Reverting'
  <2>1. PICK d \in Draft : d = Toggled(rail.draft, s)
    BY <1>0 DEF Toggled, Draft, Rail
  <2>2. rail'.timer = rail.timer /\ UNCHANGED saved /\ rash \subseteq rash'
    BY <1>0, <1>4, <2>1 DEF Toggle, Rail, Note
  <2>3. CASE isEditing
    <3>1. SUFFICES ASSUME Without({"meddled", "overtaken"})' PROVE Reverting'
      BY DEF Reverting
    <3>2. ~InFlight("revert") /\ Without({"meddled", "overtaken"})
      BY <1>4, <3>1 DEF Toggle, Note, Without, Meddling
    <3>3. SendMore("members", rail.editing, d, Blank) /\ rail.editing \in Groups
      BY <1>0, <1>4, <2>1, <2>3 DEF Toggle, persistDraft, isEditing
    <3>4. CancelsHold' /\ ~InFlight("revert")'
      BY <1>0, <2>2, <3>2, <3>3, HoldOnSend, SendsKind DEF Reverting
    <3>. QED
      BY <3>4 DEF Reverting
  <2>4. CASE ~isEditing
    <3>1. UNCHANGED calls
      BY <1>4, <2>4 DEF Toggle, persistDraft
    <3>. QED
      BY <2>2, <3>1, RevertingSame
  <2>. QED
    BY <2>3, <2>4
<1>5. ASSUME NEW t \in Titles, TypeTitle(t) PROVE Reverting'
  <2>1. SUFFICES ASSUME Without({"meddled", "overtaken"})' PROVE Reverting'
    BY DEF Reverting
  <2>2. ~InFlight("revert") /\ Without({"meddled", "overtaken"}) /\ UNCHANGED <<saved, calls>>
    BY <1>1, <1>5, <2>1 DEF TypeTitle
  <2>. QED
    BY <2>2 DEF Reverting, CancelsHold, InFlight
<1>6. CASE handleCancelEdits
  <2>1. SUFFICES ASSUME Without({"meddled", "overtaken"})' PROVE Reverting'
    BY DEF Reverting
  <2>2. /\ ~InFlight("revert") /\ Without({"meddled", "overtaken"})
        /\ rail.editing \in Groups /\ UNCHANGED saved /\ rail'.timer = None
        /\ SendMore("revert", rail.editing, rail.entry.members, rail.entry.title)
    BY <1>0, <1>1, <1>6, <2>1 DEF handleCancelEdits, isEditing, Rail
  <2>3. /\ rail.entry.members \in Draft
        /\ rail.entry.title \in Names /\ rail.entry.title \in Titles /\ CancelsHold
    BY <1>0, <1>6, <2>2 DEF handleCancelEdits, isEditing, Reverting
  <2>4. CancelsHold'
    BY <2>2, <2>3, HoldOnSend
  <2>. QED
    BY <2>2, <2>4 DEF Reverting
<1>7. CASE handleCreateGroupClick
  <2>1. /\ SendMore("create", None, rail.draft, Blank) /\ rail.draft \in Draft
        /\ rail'.timer = rail.timer /\ UNCHANGED saved /\ rash \subseteq rash'
    BY <1>0, <1>7 DEF handleCreateGroupClick, Rail, Note
  <2>2. InFlight("revert")' => InFlight("revert")
    BY <1>0, <2>1, SendsKind
  <2>3. CancelsHold => CancelsHold'
    BY <1>0, <2>1, HoldOnSend
  <2>. QED
    BY <2>1, <2>2, <2>3 DEF Reverting, Without
<1>8. ASSUME NEW g \in Groups, NEW n \in Names, RenameInPlace(g, n) PROVE Reverting'
  <2>1. SUFFICES ASSUME Without({"meddled", "overtaken"})' PROVE Reverting'
    BY DEF Reverting
  <2>2. /\ ~InFlight("revert") /\ Without({"meddled", "overtaken"})
        /\ SendMore("title", g, {}, n) /\ n \in Titles /\ UNCHANGED saved
    BY <1>1, <1>8, <2>1 DEF RenameInPlace, Titles
  <2>3. CancelsHold' /\ ~InFlight("revert")'
    BY <1>0, <2>2, HoldOnSend, SendsKind DEF Reverting
  <2>. QED
    BY <2>3 DEF Reverting
<1>. QED
  BY <1>2, <1>3, <1>4, <1>5, <1>6, <1>7, <1>8 DEF Member

LEMMA RevertingByAnswers ==
  ASSUME Typed, Sending, Reverting, NEW i \in 1..Len(calls), Answers(i)
  PROVE  Reverting'
<1>0. rail \in Rail /\ (rail.editing = None => rail.timer = None)
      /\ {} \in Draft /\ Blank \in Titles /\ calls[i] \in GoodCall
  BY TypedNow, CallTyped DEF Draft, Titles, Sending, isEditing
<1>1. ASSUME calls' = Drop(i), UNCHANGED saved, rash \subseteq rash',
             rail'.timer = rail.timer \/ rail'.timer = None
      PROVE  Reverting'
  <2>1. InFlight("revert")' => InFlight("revert")
    BY <1>1, DropsKind
  <2>2. CancelsHold => CancelsHold'
    BY <1>1, HoldOnDrop
  <2>. QED
    BY <1>1, <2>1, <2>2 DEF Reverting, Without
<1>2. CASE Commit(i)
  <2>1. SUFFICES ASSUME Without({"meddled", "overtaken"})' PROVE Reverting'
    BY DEF Reverting
  <2>2. Without({"meddled", "overtaken"}) /\ Without({"overtaken"})' /\ rail' = rail
    BY <1>2, <2>1 DEF Commit, Note, Without
  <2>3. CancelsHold'
    BY <1>2, <2>2, HoldOnCommit DEF Reverting
  <2>4. InFlight("revert")' => InFlight("revert")
    <3>1. CASE calls' = Drop(i)
      BY <3>1, DropsKind
    <3>2. CASE calls' = [calls EXCEPT ![i].done = TRUE]
      <4>1. /\ Len(calls') = Len(calls)
            /\ \A j \in 1..Len(calls) : calls'[j].kind = calls[j].kind
        BY <3>2, MarkedCalls
      <4>. QED
        BY <4>1 DEF InFlight
    <3>. QED
      BY <1>2, <3>1, <3>2 DEF Commit
  <2>. QED
    BY <2>2, <2>3, <2>4 DEF Reverting
<1>3. CASE CallFails(i)
  BY <1>0, <1>1, <1>3 DEF CallFails, Rail, Note
<1>4. CASE RevertAnswers(i)
  <2>1. rail'.timer = rail.timer \/ rail'.timer = None
    BY <1>0, <1>4, RouteRail DEF RevertAnswers, isEditing
  <2>. QED
    BY <1>1, <1>4, <2>1 DEF RevertAnswers
<1>5. CASE CreateAnswers(i)
  <2>1. PICK r : /\ r = [rail EXCEPT !.draft = {}, !.title = Blank, !.busy = FALSE]
                 /\ route(r, {}, Page("groups"))
    BY <1>5 DEF CreateAnswers, clearDraftAfterSave
  <2>2. r \in Rail /\ r.editing = rail.editing /\ r.timer = rail.timer
    BY <1>0, <2>1 DEF Rail
  <2>3. rail'.timer = rail.timer \/ rail'.timer = None
    BY <1>0, <2>1, <2>2, RouteRail DEF isEditing
  <2>. QED
    BY <1>1, <1>5, <2>3 DEF CreateAnswers
<1>. QED
  BY <1>2, <1>3, <1>4, <1>5 DEF Answers

LEMMA RevertingByLoads ==
  ASSUME Typed, Sending, Reverting, NEW g \in Groups, LoadEnds(g)
  PROVE  Reverting'
<1>0. rail \in Rail /\ (rail.editing = None => rail.timer = None)
  BY TypedNow DEF Sending, isEditing
<1>1. CASE LoadAnswers(g)
  <2>1. UNCHANGED <<saved, calls>> /\ rash \subseteq rash' /\ (rail.timer = None => rail'.timer = None)
    BY <1>0, <1>1 DEF LoadAnswers, Note, Rail
  <2>. QED
    BY <2>1 DEF Reverting, Without, CancelsHold, InFlight
<1>2. CASE LoadFails(g)
  <2>1. rail'.timer = None
    BY <1>0, <1>2 DEF LoadFails, isEditing, exitEditMode, restoreComposeDraft, Fresh
  <2>. QED
    BY <1>2, <2>1, RevertingSame DEF LoadFails
<1>. QED
  BY <1>1, <1>2 DEF LoadEnds

LEMMA RevertingByPage ==
  ASSUME Typed, Sending, Reverting, TitleTimerFires \/ Reload \/ RouteAgain
  PROVE  Reverting'
<1>0. rail \in Rail /\ {} \in Draft
      /\ (rail.editing = None => rail.timer = None)
      /\ (rail.editing # None => rail.editing \in Groups)
  BY TypedNow DEF Sending, isEditing, Draft
<1>1. CASE TitleTimerFires
  <2>1. SUFFICES ASSUME Without({"meddled", "overtaken"})' PROVE Reverting'
    BY DEF Reverting
  <2>2. /\ Without({"meddled", "overtaken"}) /\ rail.timer # None /\ rail'.timer = None
        /\ UNCHANGED saved
    BY <1>0, <1>1, <2>1 DEF TitleTimerFires, Rail, Without
  <2>3. ~InFlight("revert") /\ CancelsHold
    BY <2>2 DEF Reverting
  <2>4. CASE isEditing /\ rail.timer # Blank
    <3>1. /\ rail.timer \in Names /\ rail.timer \in Titles /\ rail.editing \in Groups
          /\ SendMore("title", rail.editing, {}, rail.timer)
      BY <1>0, <1>1, <2>4 DEF TitleTimerFires, Rail, Titles, isEditing
    <3>2. CancelsHold'
      BY <1>0, <2>2, <2>3, <3>1, HoldOnSend
    <3>. QED
      BY <2>2, <3>2 DEF Reverting
  <2>5. CASE ~(isEditing /\ rail.timer # Blank)
    BY <1>1, <2>2, <2>5, RevertingSame DEF TitleTimerFires
  <2>. QED
    BY <2>4, <2>5
<1>2. CASE Reload
  BY <1>2, EmptySeq DEF Reload, Reverting, CancelsHold, InFlight
<1>3. CASE RouteAgain
  BY <1>0, <1>3, RevertingRoute DEF RouteAgain
<1>. QED
  BY <1>1, <1>2, <1>3

\* For any number of groups, writes and loads: when a cancel that nothing meddled with or overtook is
\* answered, "Edits reverted." is true, the group is what it was when its edit mode was entered.
THEOREM CancelsRestore == Spec => CancelRestores
<1>1. Init => Sending /\ Reverting
  BY EmptySeq
  DEF Init, isEditing, Fresh, Sending, DoneCalls, Reverting, CancelsHold, InFlight
<1>2. ASSUME Typed, Sending, Reverting, [Next]_vars PROVE Reverting'
  <2>1. CASE UNCHANGED vars
    BY <1>2, <2>1, RevertingSame DEF vars
  <2>2. CASE Next
    BY <1>2, <2>2, RevertingByMember, RevertingByAnswers, RevertingByLoads, RevertingByPage DEF Next
  <2>. QED
    BY <1>2, <2>1, <2>2
<1>3. ASSUME Reverting, [Next]_vars
      PROVE  [\A i \in 1..Len(calls) :
                /\ calls[i].kind = "revert" /\ calls[i].done /\ calls' = Drop(i)
                /\ Without({"meddled", "overtaken"})
                => saved[calls[i].group] = [members |-> calls[i].members, title |-> calls[i].title]]_vars
  BY <1>3 DEF Reverting, CancelsHold
<1>. QED
  BY <1>1, <1>2, <1>3, InitTyped, NextTyped, SendingNext, PTL DEF Spec, CancelRestores

=============================================================================
