--------------------------- MODULE IdempotencyProofs ---------------------------
(***************************************************************************)
(* Proofs about Idempotency: type correctness, the agreement of all        *)
(* answers of a key, and the implementation of OnceOnly.                   *)
(***************************************************************************)
EXTENDS Idempotency, TLAPS

\* The record and the committed change are one: an attempt changed the
\* workspace exactly when the record holds its response.
RecordHolds ==
  \A k \in Keys :
    /\ record[k].status # "done" => effects[k] = {}
    /\ record[k].status = "done" =>
         /\ effects[k] = {record[k].response}
         /\ record[k].response \in Requests
         /\ ask[record[k].response] = [key |-> k, hash |-> record[k].hash]
    /\ record[k].status # "absent" => record[k].hash \in Hashes

\* An attempt that has started asks for something.
Asks ==
  \A r \in Requests :
    /\ pc[r] # "idle" => ask[r] \in [key : Keys, hash : Hashes]
    /\ pc[r] = "idle" => ask[r] = None /\ told[r] = None

IInv == TypeOK /\ RecordHolds /\ Asks /\ AnswersAgree

\* The initial state satisfies the invariant.
LEMMA InitInv == ASSUME ConstantsAssumption PROVE Init => IInv
BY DEF ConstantsAssumption, Init, IInv, TypeOK, Records, Absent, RecordHolds, Asks, AnswersAgree

\* Starting changes no record.
LEMMA StartInv ==
  ASSUME ConstantsAssumption, IInv, NEW r \in Requests, Start(r) PROVE IInv'
<1>1. TypeOK'
  BY DEF ConstantsAssumption, IInv, TypeOK, Records, Codes, Asks, Start, Goto
<1>2. RecordHolds'
  BY DEF ConstantsAssumption, IInv, TypeOK, Records, RecordHolds, Asks, Start, Goto
<1>3. Asks'
  BY DEF ConstantsAssumption, IInv, TypeOK, Asks, Start, Goto
<1>4. AnswersAgree'
  BY DEF ConstantsAssumption, IInv, TypeOK, Records, RecordHolds, Asks, AnswersAgree, Start, Goto
<1> QED BY <1>1, <1>2, <1>3, <1>4 DEF IInv

\* A new claim is an open record.
LEMMA InsertInv ==
  ASSUME ConstantsAssumption, IInv, NEW r \in Requests, Insert(r) PROVE IInv'
<1>1. TypeOK'
  BY DEF ConstantsAssumption, IInv, TypeOK, Records, Codes, Asks, Insert, Goto, LockedUntil
<1>2. RecordHolds'
  <2> DEFINE k0 == ask[r].key
  <2>1. k0 \in Keys /\ ask[r].hash \in Hashes
    BY DEF IInv, Asks, Insert
  <2>2. CASE record[k0].status = "absent"
    <3>1. record' = [record EXCEPT ![k0] =
            [status |-> "open", hash |-> ask[r].hash, response |-> None,
             lockedUntil |-> LockedUntil(now[r])]]
      BY <2>2 DEF Insert
    <3>2. UNCHANGED <<ask, effects>>
      BY DEF Insert
    <3> QED BY <2>1, <2>2, <3>1, <3>2 DEF IInv, TypeOK, RecordHolds
  <2>3. CASE record[k0].status # "absent"
    BY <2>3 DEF IInv, RecordHolds, Insert
  <2> QED BY <2>2, <2>3
<1>3. Asks'
  BY DEF ConstantsAssumption, IInv, TypeOK, Asks, Insert, Goto, LockedUntil
<1>4. AnswersAgree'
  BY DEF ConstantsAssumption, IInv, TypeOK, Records, RecordHolds, Asks, AnswersAgree, Insert, Goto, LockedUntil
<1> QED BY <1>1, <1>2, <1>3, <1>4 DEF IInv

\* Reading a record changes nothing, and a replay tells of the effect it holds.
LEMMA SelectInv ==
  ASSUME ConstantsAssumption, IInv, NEW r \in Requests, Select(r) PROVE IInv'
<1>1. TypeOK'
  <2>1. ask[r].key \in Keys /\ record[ask[r].key] \in Records
    BY DEF IInv, TypeOK, Asks, Select
  <2>2. record[ask[r].key].response \in Requests \cup {None}
    BY <2>1 DEF Records
  <2>3. told' \in [Requests -> Requests \cup {None}]
    BY <2>2 DEF IInv, TypeOK, Select, Goto, Refuse, End
  <2>4. /\ pc' \in [Requests -> {"idle", "insert", "select", "reclaim", "work",
                               "release", "end"}]
        /\ answer' \in [Requests -> Codes \cup {"none", "ok"}]
        /\ ended' \in [Requests -> Nat]
    BY DEF IInv, TypeOK, Codes, Select, Goto, Refuse, End
  <2> QED BY <2>3, <2>4 DEF IInv, TypeOK, Select
<1>2. RecordHolds'
  BY DEF ConstantsAssumption, IInv, TypeOK, Records, RecordHolds, Asks, Select, Goto, Refuse, End, SameInput, Lapsed
<1>3. Asks'
  BY DEF ConstantsAssumption, IInv, TypeOK, Asks, Select, Goto, Refuse, End, SameInput, Lapsed
<1>4. AnswersAgree'
  BY DEF ConstantsAssumption, IInv, TypeOK, Records, RecordHolds, Asks, AnswersAgree, Select, Goto, Refuse, End, SameInput, Lapsed
<1> QED BY <1>1, <1>2, <1>3, <1>4 DEF IInv

\* Taking a claim over leaves the record open.
LEMMA ReclaimInv ==
  ASSUME ConstantsAssumption, IInv, NEW r \in Requests, Reclaim(r) PROVE IInv'
<1>1. TypeOK'
  <2>1. ask[r].key \in Keys /\ record[ask[r].key] \in Records
    BY DEF IInv, TypeOK, Asks, Reclaim
  <2>2. LockedUntil(now[r]) \in Nat
    BY DEF ConstantsAssumption, IInv, TypeOK, LockedUntil
  <2>3. [record[ask[r].key] EXCEPT !.lockedUntil = LockedUntil(now[r])] \in Records
    BY <2>1, <2>2 DEF Records
  <2>4. record' \in [Keys -> Records]
    BY <2>1, <2>3 DEF IInv, TypeOK, Reclaim
  <2>5. /\ pc' \in [Requests -> {"idle", "insert", "select", "reclaim", "work",
                               "release", "end"}]
        /\ answer' \in [Requests -> Codes \cup {"none", "ok"}]
        /\ ended' \in [Requests -> Nat]
        /\ told' = told
    BY DEF IInv, TypeOK, Codes, Reclaim, Goto, Refuse, End
  <2> QED BY <2>4, <2>5 DEF IInv, TypeOK, Reclaim
<1>2. RecordHolds'
  BY DEF ConstantsAssumption, IInv, TypeOK, Records, RecordHolds, Asks, Reclaim, Goto, Refuse, End, SameInput, LockedUntil
<1>3. Asks'
  BY DEF ConstantsAssumption, IInv, TypeOK, Asks, Reclaim, Goto, Refuse, End, SameInput, LockedUntil
<1>4. AnswersAgree'
  BY DEF ConstantsAssumption, IInv, TypeOK, Records, RecordHolds, Asks, AnswersAgree, Reclaim, Goto, Refuse, End, SameInput, LockedUntil
<1> QED BY <1>1, <1>2, <1>3, <1>4 DEF IInv

\* Completing a record writes a record, and only adds to the changes.
LEMMA CompletedType ==
  ASSUME IInv, NEW r \in Requests, Completed(r)
  PROVE  record' \in [Keys -> Records] /\ effects' \in [Keys -> SUBSET Requests]
<1> DEFINE k == ask[r].key
<1>1. k \in Keys /\ record[k] \in Records
  BY DEF IInv, TypeOK, Asks, Completed
<1>2. [record[k] EXCEPT !.status = "done", !.response = r, !.lockedUntil = clock]
        \in Records
  BY <1>1 DEF IInv, TypeOK, Records
<1> QED BY <1>1, <1>2 DEF IInv, TypeOK, Completed

\* A commit completes the record with its change.
LEMMA CommitInv ==
  ASSUME ConstantsAssumption, IInv, NEW r \in Requests, Commit(r) PROVE IInv'
<1>1. TypeOK'
  <2>1. Completed(r)
    BY DEF Commit
  <2>2. record' \in [Keys -> Records] /\ effects' \in [Keys -> SUBSET Requests]
    BY <2>1, CompletedType
  <2> QED BY <2>2 DEF IInv, TypeOK, Codes, Commit, End
<1>2. RecordHolds'
  BY DEF ConstantsAssumption, IInv, TypeOK, Records, RecordHolds, Asks, Commit, Completed, MayComplete, SameInput, End
<1>3. Asks'
  BY DEF ConstantsAssumption, IInv, TypeOK, Asks, Commit, Completed, MayComplete, SameInput, End
<1>4. AnswersAgree'
  BY DEF ConstantsAssumption, IInv, TypeOK, Records, RecordHolds, Asks, AnswersAgree, Commit, Completed, MayComplete, SameInput, End
<1> QED BY <1>1, <1>2, <1>3, <1>4 DEF IInv

\* So does a commit whose caller does not see it.
LEMMA CommitUnseenInv ==
  ASSUME ConstantsAssumption, IInv, NEW r \in Requests, CommitUnseen(r) PROVE IInv'
<1>1. TypeOK'
  <2>1. Completed(r)
    BY DEF CommitUnseen
  <2>2. record' \in [Keys -> Records] /\ effects' \in [Keys -> SUBSET Requests]
    BY <2>1, CompletedType
  <2> QED BY <2>2 DEF IInv, TypeOK, Codes, CommitUnseen, Fault
<1>2. RecordHolds'
  BY DEF ConstantsAssumption, IInv, TypeOK, Records, RecordHolds, Asks, CommitUnseen, Completed, MayComplete, SameInput, Fault
<1>3. Asks'
  BY DEF ConstantsAssumption, IInv, TypeOK, Asks, CommitUnseen, Completed, MayComplete, SameInput, Fault
<1>4. AnswersAgree'
  BY DEF ConstantsAssumption, IInv, TypeOK, Records, RecordHolds, Asks, AnswersAgree, CommitUnseen, Completed, MayComplete, SameInput, Fault
<1> QED BY <1>1, <1>2, <1>3, <1>4 DEF IInv

\* Rolling back changes nothing.
LEMMA OvertakenInv ==
  ASSUME ConstantsAssumption, IInv, NEW r \in Requests, Overtaken(r) PROVE IInv'
<1>1. TypeOK'
  BY DEF ConstantsAssumption, IInv, TypeOK, Records, Codes, Asks, Overtaken
<1>2. RecordHolds'
  BY DEF ConstantsAssumption, IInv, TypeOK, Records, RecordHolds, Asks, Overtaken
<1>3. Asks'
  BY DEF ConstantsAssumption, IInv, TypeOK, Asks, Overtaken
<1>4. AnswersAgree'
  BY DEF ConstantsAssumption, IInv, TypeOK, Records, RecordHolds, Asks, AnswersAgree, Overtaken
<1> QED BY <1>1, <1>2, <1>3, <1>4 DEF IInv

\* Rejecting changes nothing.
LEMMA RejectInv ==
  ASSUME ConstantsAssumption, IInv, NEW r \in Requests, Reject(r) PROVE IInv'
<1>1. TypeOK'
  BY DEF ConstantsAssumption, IInv, TypeOK, Records, Codes, Asks, Reject
<1>2. RecordHolds'
  BY DEF ConstantsAssumption, IInv, TypeOK, Records, RecordHolds, Asks, Reject
<1>3. Asks'
  BY DEF ConstantsAssumption, IInv, TypeOK, Asks, Reject
<1>4. AnswersAgree'
  BY DEF ConstantsAssumption, IInv, TypeOK, Records, RecordHolds, Asks, AnswersAgree, Reject
<1> QED BY <1>1, <1>2, <1>3, <1>4 DEF IInv

\* Only an open record is released.
LEMMA ReleaseInv ==
  ASSUME ConstantsAssumption, IInv, NEW r \in Requests, Release(r) PROVE IInv'
<1>1. TypeOK'
  BY DEF ConstantsAssumption, IInv, TypeOK, Records, Codes, Asks, Release, Releasable, SameInput, Refuse, End, Absent
<1>2. RecordHolds'
  BY DEF ConstantsAssumption, IInv, TypeOK, Records, RecordHolds, Asks, Release, Releasable, SameInput, Refuse, End, Absent
<1>3. Asks'
  BY DEF ConstantsAssumption, IInv, TypeOK, Asks, Release, Releasable, SameInput, Refuse, End, Absent
<1>4. AnswersAgree'
  BY DEF ConstantsAssumption, IInv, TypeOK, Records, RecordHolds, Asks, AnswersAgree, Release, Releasable, SameInput, Refuse, End, Absent
<1> QED BY <1>1, <1>2, <1>3, <1>4 DEF IInv

\* A crash leaves the records alone.
LEMMA CrashInv ==
  ASSUME ConstantsAssumption, IInv, NEW r \in Requests, Crash(r) PROVE IInv'
<1>1. TypeOK'
  BY DEF ConstantsAssumption, IInv, TypeOK, Records, Codes, Asks, Crash, Refuse, End, Fault
<1>2. RecordHolds'
  BY DEF ConstantsAssumption, IInv, TypeOK, Records, RecordHolds, Asks, Crash, Refuse, End, Fault
<1>3. Asks'
  BY DEF ConstantsAssumption, IInv, TypeOK, Asks, Crash, Refuse, End, Fault
<1>4. AnswersAgree'
  BY DEF ConstantsAssumption, IInv, TypeOK, Records, RecordHolds, Asks, AnswersAgree, Crash, Refuse, End, Fault
<1> QED BY <1>1, <1>2, <1>3, <1>4 DEF IInv

\* Time changes nothing else.
LEMMA QuietInv ==
  ASSUME ConstantsAssumption, IInv, Tick \/ UNCHANGED vars PROVE IInv'
<1>1. UNCHANGED <<record, pc, ask, now, answer, told, effects, ended, faults>>
  BY DEF Tick, vars
<1>2. clock' \in Nat
  BY DEF IInv, TypeOK, Tick, vars
<1> QED BY <1>1, <1>2 DEF IInv, TypeOK, RecordHolds, Asks, AnswersAgree

\* The invariant is inductive.
LEMMA NextInv ==
  ASSUME ConstantsAssumption, IInv, [Next]_vars PROVE IInv'
<1>1. ASSUME NEW r \in Requests,
             \/ Start(r) \/ Insert(r) \/ Select(r) \/ Reclaim(r)
             \/ Commit(r) \/ CommitUnseen(r) \/ Overtaken(r) \/ Reject(r)
             \/ Release(r) \/ Crash(r)
      PROVE  IInv'
  BY <1>1, StartInv, InsertInv, SelectInv, ReclaimInv, CommitInv,
     CommitUnseenInv, OvertakenInv, RejectInv, ReleaseInv, CrashInv
<1>2. CASE Tick \/ UNCHANGED vars
  BY <1>2, QuietInv
<1> QED BY <1>1, <1>2 DEF Next

\* The inductive invariant holds in every reachable state.
LEMMA Invariance == Spec => []IInv
<1>1. Init => IInv
  BY InitInv, ConstantsAssumption
<1>2. IInv /\ [Next]_vars => IInv'
  BY NextInv, ConstantsAssumption
<1> QED BY <1>1, <1>2, PTL DEF Spec

\* The variables of IdempotencyStore's model keep their types.
THEOREM TypeCorrect == Spec => []TypeOK
<1>1. IInv => TypeOK
  BY DEF IInv
<1> QED BY <1>1, Invariance, PTL

\* For any number of attempts, keys and inputs, any lease and any pattern of
\* crashes, takeovers and releases of claims that are not one's own: a key
\* commits at most one change, and whoever succeeds is told of that change,
\* made for the same input.
THEOREM Agreement == Spec => []AnswersAgree
<1>1. IInv => AnswersAgree
  BY DEF IInv
<1> QED BY <1>1, Invariance, PTL

-----------------------------------------------------------------------------
(***************************************************************************)
(* Implementation of OnceOnly.                                             *)
(***************************************************************************)

\* Starting is the asking step of the promise.
LEMMA StartAsks ==
  ASSUME IInv, NEW r \in Requests, Start(r) PROVE Once!Ask(r)
BY DEF IInv, Asks, Start, Goto, Once!Ask

\* The transaction that completes the record is the one change of the key.
LEMMA CommitExecutes ==
  ASSUME IInv, NEW r \in Requests, Commit(r) \/ CommitUnseen(r)
  PROVE  Once!Execute(r)
<1>1. ask[r] \in [key : Keys, hash : Hashes] /\ Completed(r)
  BY DEF IInv, Asks, Commit, CommitUnseen, Completed
<1>2. ask[r] # None
  BY <1>1, ConstantsAssumption DEF ConstantsAssumption
<1>3. effects[ask[r].key] = {}
  BY <1>1 DEF IInv, RecordHolds, Completed, MayComplete
<1>4. effects' = [effects EXCEPT ![ask[r].key] = {r}]
  BY <1>1, <1>3 DEF Completed
<1>5. told' \in {told, [told EXCEPT ![r] = r]} /\ ask' = ask
  BY DEF Commit, CommitUnseen
<1> QED BY <1>2, <1>3, <1>4, <1>5 DEF Once!Execute

\* Reading a completed record for the same input is a replay; any other
\* outcome of the reading tells nobody anything.
LEMMA SelectReplays ==
  ASSUME IInv, NEW r \in Requests, Select(r)
  PROVE  Once!Replay(r) \/ UNCHANGED <<ask, effects, told>>
<1> DEFINE rec == record[ask[r].key]
<1>1. ask[r] \in [key : Keys, hash : Hashes]
  BY DEF IInv, Asks, Select
<1>2. ask[r] # None
  BY <1>1, ConstantsAssumption DEF ConstantsAssumption
<1>3. CASE /\ rec.status = "done" /\ SameInput(rec, r)
           /\ told' = [told EXCEPT ![r] = rec.response]
  <2>1. rec.response \in effects[ask[r].key]
    BY <1>1, <1>3 DEF IInv, RecordHolds
  <2>2. ask[rec.response] = ask[r]
    BY <1>1, <1>3 DEF IInv, RecordHolds, SameInput
  <2> QED BY <1>2, <1>3, <2>1, <2>2 DEF Once!Replay, Select
<1>4. CASE told' = told
  BY <1>4 DEF Select
<1> QED BY <1>3, <1>4 DEF Select, Refuse, Goto

\* IdempotencyStore implements the promise of an idempotency key: every step
\* is the asking, the one change, a replay of it, or invisible.
THEOREM Implementation == Spec => KeepsPromise
<1>1. Init => Once!Init
  BY DEF Init, Once!Init
<1>2. IInv /\ [Next]_vars => [Once!Next]_(Once!vars)
  <2> SUFFICES ASSUME IInv, [Next]_vars PROVE Once!Next \/ UNCHANGED Once!vars
    OBVIOUS
  <2>1. ASSUME NEW r \in Requests, Start(r) PROVE Once!Next
    BY <2>1, StartAsks DEF Once!Next
  <2>2. ASSUME NEW r \in Requests, Commit(r) \/ CommitUnseen(r) PROVE Once!Next
    BY <2>2, CommitExecutes DEF Once!Next
  <2>3. ASSUME NEW r \in Requests, Select(r) PROVE Once!Next \/ UNCHANGED Once!vars
    BY <2>3, SelectReplays DEF Once!Next, Once!vars
  <2>4. ASSUME NEW r \in Requests,
               \/ Insert(r) \/ Reclaim(r) \/ Overtaken(r) \/ Reject(r)
               \/ Release(r) \/ Crash(r)
        PROVE  UNCHANGED Once!vars
    BY <2>4 DEF Insert, Reclaim, Overtaken, Reject, Release, Crash, Goto,
                Refuse, End, Once!vars
  <2>5. CASE Tick \/ UNCHANGED vars
    BY <2>5 DEF Tick, vars, Once!vars
  <2> QED BY <2>1, <2>2, <2>3, <2>4, <2>5 DEF Next
<1> QED BY <1>1, <1>2, Invariance, PTL DEF Spec, KeepsPromise, Once!Spec

-----------------------------------------------------------------------------
(***************************************************************************)
(* Why an attempt is put off only by another one.                          *)
(***************************************************************************)

Claimed == {"work", "release", "end"}

\* An open record was claimed, or claimed again, by some attempt whose lock it bears.
OpenHeld ==
  \A k \in Keys : record[k].status = "open" =>
    \E q \in Requests : /\ pc[q] \in Claimed /\ ask[q].key = k
                       /\ record[k].lockedUntil = now[q] + Lease

\* What an attempt has read changes only by the hand of one that overlaps it.
ReadsHold ==
  \A r \in Requests :
    /\ pc[r] # "idle" => now[r] <= clock
    /\ pc[r] = "release" => answer[r] # "IN_PROGRESS"
    /\ pc[r] = "select" /\ record[ask[r].key].status = "absent" =>
         \E q \in Requests : Overlaps(q, r)
    /\ pc[r] = "reclaim" /\ ~(record[ask[r].key].status = "open" /\ SameInput(record[ask[r].key], r)) =>
         \E q \in Requests : Overlaps(q, r)
    /\ answer[r] = "IN_PROGRESS" => pc[r] # "idle" /\ \E q \in Requests : Overlaps(q, r)

PutOffInv == OpenHeld /\ ReadsHold

\* What a step of attempt q leaves alone.
ActsAlone(q) ==
  /\ pc[q] # "end" /\ pc'[q] # "idle" /\ clock' = clock
  /\ \A r \in Requests \ {q} :
       pc'[r] = pc[r] /\ ask'[r] = ask[r] /\ now'[r] = now[r] /\ answer'[r] = answer[r] /\ ended'[r] = ended[r]
  /\ pc[q] # "idle" => ask'[q] = ask[q] /\ now'[q] = now[q]
  /\ pc'[q] = "end" => ended'[q] = clock
  /\ \A k \in Keys : record'[k] = record[k] \/ (pc[q] # "idle" /\ ask[q].key = k)

LEMMA ActingAlone ==
  ASSUME IInv, NEW q \in Requests,
         \/ Start(q) \/ Insert(q) \/ Select(q) \/ Reclaim(q)
         \/ Commit(q) \/ CommitUnseen(q) \/ Overtaken(q) \/ Reject(q)
         \/ Release(q) \/ Crash(q)
  PROVE  ActsAlone(q)
<1> USE DEF ActsAlone, IInv, TypeOK
<1>1. CASE Start(q)
  BY <1>1 DEF Start, Goto
<1>2. CASE Insert(q)
  BY <1>2 DEF Insert, Goto
<1>3. CASE Select(q)
  BY <1>3 DEF Select, Goto, Refuse, End
<1>4. CASE Reclaim(q)
  BY <1>4 DEF Reclaim, Goto, Refuse, End
<1>5. CASE Commit(q)
  BY <1>5 DEF Commit, Completed, End
<1>6. CASE CommitUnseen(q)
  BY <1>6 DEF CommitUnseen, Completed
<1>7. CASE Overtaken(q)
  BY <1>7 DEF Overtaken
<1>8. CASE Reject(q)
  BY <1>8 DEF Reject
<1>9. CASE Release(q)
  BY <1>9 DEF Release, Refuse, End
<1>10. CASE Crash(q)
  BY <1>10 DEF Crash, Refuse, End
<1> QED
  BY <1>1, <1>2, <1>3, <1>4, <1>5, <1>6, <1>7, <1>8, <1>9, <1>10

\* Overlapping is for ever, and who acts on the key of another overlaps it.
LEMMA OverlapsStay ==
  ASSUME ConstantsAssumption, IInv, PutOffInv, NEW s \in Requests, ActsAlone(s), NEW r \in Requests, pc[r] # "idle"
  PROVE  /\ \A q \in Requests : Overlaps(q, r) => Overlaps(q, r)'
         /\ s # r /\ pc[s] # "idle" /\ ask[s].key = ask[r].key => Overlaps(s, r)'
<1>1. /\ ask'[r] = ask[r] /\ now'[r] = now[r] /\ now[r] <= clock
      /\ now \in [Requests -> Nat] /\ ended \in [Requests -> Nat] /\ clock \in Nat
  BY DEF ActsAlone, PutOffInv, ReadsHold, IInv, TypeOK
<1>2. ASSUME NEW q \in Requests, Overlaps(q, r) PROVE Overlaps(q, r)'
  <2>1. pc[q] # "idle" /\ q # r /\ ask[q] # None /\ ask[q].key = ask[r].key
    BY <1>2 DEF Overlaps, IInv, Asks
  <2>2. ask'[q] = ask[q] /\ now'[q] = now[q]
    BY <2>1 DEF ActsAlone
  <2>3. pc'[q] # "end" \/ (ended'[q] = ended[q] /\ pc'[q] = pc[q]) \/ ended'[q] >= now[r]
    <3>1. CASE q = s
      <4>1. pc'[q] = "end" => ended'[q] = clock
        BY <3>1 DEF ActsAlone
      <4>2. clock >= now[r]
        BY <1>1
      <4> QED
        BY <4>1, <4>2
    <3>2. CASE q # s
      BY <3>2 DEF ActsAlone
    <3> QED
      BY <3>1, <3>2
  <2> QED
    BY <1>1, <1>2, <2>1, <2>2, <2>3 DEF Overlaps
<1>3. ASSUME s # r, pc[s] # "idle", ask[s].key = ask[r].key PROVE Overlaps(s, r)'
  <2>1. ask'[s] = ask[s] /\ ask[s] # None
    BY <1>3 DEF ActsAlone, IInv, Asks, ConstantsAssumption
  <2>2. pc'[s] # "end" \/ ended'[s] >= now[r]
    BY <1>1 DEF ActsAlone
  <2> QED
    BY <1>1, <1>3, <2>1, <2>2 DEF Overlaps
<1> QED
  BY <1>2, <1>3

\* An open record's lock is somebody's after any step that leaves locks alone.
LEMMA OpenStaysHeld ==
  ASSUME ConstantsAssumption, IInv, PutOffInv, NEW s \in Requests, ActsAlone(s),
         pc[s] \in Claimed => pc'[s] \in Claimed,
         \A k \in Keys : record'[k].status = "open" =>
           \/ record[k].status = "open" /\ record'[k].lockedUntil = record[k].lockedUntil
           \/ pc[s] # "idle" /\ pc'[s] \in Claimed /\ ask[s].key = k /\ record'[k].lockedUntil = now[s] + Lease
  PROVE  OpenHeld'
<1> SUFFICES ASSUME NEW k \in Keys, record'[k].status = "open"
             PROVE  \E q \in Requests : /\ pc'[q] \in Claimed /\ ask'[q].key = k
                                       /\ record'[k].lockedUntil = now'[q] + Lease
  BY DEF OpenHeld
<1>1. CASE record[k].status = "open" /\ record'[k].lockedUntil = record[k].lockedUntil
  <2>1. PICK q \in Requests : /\ pc[q] \in Claimed /\ ask[q].key = k
                              /\ record[k].lockedUntil = now[q] + Lease
    BY <1>1 DEF PutOffInv, OpenHeld
  <2>2. pc'[q] \in Claimed /\ ask'[q] = ask[q] /\ now'[q] = now[q]
    BY <2>1 DEF ActsAlone, Claimed
  <2> QED
    BY <1>1, <2>1, <2>2
<1>2. CASE pc[s] # "idle" /\ pc'[s] \in Claimed /\ ask[s].key = k /\ record'[k].lockedUntil = now[s] + Lease
  BY <1>2 DEF ActsAlone
<1> QED
  BY <1>1, <1>2

\* What the others have read holds on, whatever attempt s does.
LEMMA OthersReadsHold ==
  ASSUME ConstantsAssumption, IInv, PutOffInv, NEW s \in Requests, ActsAlone(s), NEW r \in Requests \ {s}
  PROVE  /\ pc'[r] # "idle" => now'[r] <= clock'
         /\ pc'[r] = "release" => answer'[r] # "IN_PROGRESS"
         /\ pc'[r] = "select" /\ record'[ask'[r].key].status = "absent" =>
              \E q \in Requests : Overlaps(q, r)'
         /\ pc'[r] = "reclaim"
              /\ ~(record'[ask'[r].key].status = "open" /\ SameInput(record[ask[r].key], r)') =>
              \E q \in Requests : Overlaps(q, r)'
         /\ answer'[r] = "IN_PROGRESS" => pc'[r] # "idle" /\ \E q \in Requests : Overlaps(q, r)'
<1>1. pc'[r] = pc[r] /\ ask'[r] = ask[r] /\ now'[r] = now[r] /\ answer'[r] = answer[r] /\ clock' = clock
  BY DEF ActsAlone
<1>2. pc[r] # "idle" =>
        /\ \A q \in Requests : Overlaps(q, r) => Overlaps(q, r)'
        /\ pc[s] # "idle" /\ ask[s].key = ask[r].key => Overlaps(s, r)'
  BY OverlapsStay
<1>3. ASSUME pc[r] \in {"select", "reclaim"}
      PROVE  record'[ask[r].key] = record[ask[r].key] \/ \E q \in Requests : Overlaps(q, r)'
  <2>1. ask[r].key \in Keys
    BY <1>3 DEF IInv, Asks
  <2> QED
    BY <1>2, <1>3, <2>1 DEF ActsAlone
<1>4. ASSUME pc[r] = "select", record'[ask[r].key].status = "absent" PROVE \E q \in Requests : Overlaps(q, r)'
  BY <1>2, <1>3, <1>4 DEF PutOffInv, ReadsHold
<1>5. ASSUME pc[r] = "reclaim", ~(record'[ask[r].key].status = "open" /\ record'[ask[r].key].hash = ask[r].hash)
      PROVE  \E q \in Requests : Overlaps(q, r)'
  BY <1>2, <1>3, <1>5 DEF PutOffInv, ReadsHold, SameInput
<1>6. ASSUME answer[r] = "IN_PROGRESS" PROVE pc[r] # "idle" /\ \E q \in Requests : Overlaps(q, r)'
  BY <1>2, <1>6 DEF PutOffInv, ReadsHold
<1>7. /\ pc[r] # "idle" => now[r] <= clock
      /\ pc[r] = "release" => answer[r] # "IN_PROGRESS"
  BY DEF PutOffInv, ReadsHold
<1> QED
  BY <1>1, <1>4, <1>5, <1>6, <1>7 DEF SameInput

\* Who holds an open record overlaps whoever finds it not lapsed.
LEMMA HolderOverlaps ==
  ASSUME ConstantsAssumption, IInv, PutOffInv, NEW r \in Requests, pc[r] \in {"select", "reclaim"},
         record[ask[r].key].status = "open", ~Lapsed(record[ask[r].key], now[r])
  PROVE  \E q \in Requests : Overlaps(q, r)
<1>1. ask[r].key \in Keys
  BY DEF IInv, Asks
<1>2. PICK q \in Requests : /\ pc[q] \in Claimed /\ ask[q].key = ask[r].key
                            /\ record[ask[r].key].lockedUntil = now[q] + Lease
  BY <1>1 DEF PutOffInv, OpenHeld
<1>3. q # r /\ ask[q] # None
  BY <1>2 DEF Claimed, IInv, Asks, ConstantsAssumption
<1>4. now[q] + Lease > now[r]
  BY <1>1, <1>2 DEF Lapsed, IInv, TypeOK, ConstantsAssumption
<1> QED
  BY <1>2, <1>3, <1>4 DEF Overlaps

\* What the acting attempt has read, or is told.
LEMMA OwnReadsHold ==
  ASSUME ConstantsAssumption, IInv, PutOffInv, NEW r \in Requests, ActsAlone(r),
         \/ Start(r) \/ Insert(r) \/ Select(r) \/ Reclaim(r)
         \/ Commit(r) \/ CommitUnseen(r) \/ Overtaken(r) \/ Reject(r)
         \/ Release(r) \/ Crash(r)
  PROVE  /\ pc'[r] # "idle" /\ now'[r] <= clock'
         /\ pc'[r] = "release" => answer'[r] # "IN_PROGRESS"
         /\ pc'[r] = "select" => record'[ask'[r].key].status # "absent"
         /\ pc'[r] = "reclaim" =>
              record'[ask'[r].key].status = "open" /\ record'[ask'[r].key].hash = ask'[r].hash
         /\ answer'[r] = "IN_PROGRESS" => \E q \in Requests : Overlaps(q, r)'
         /\ pc[r] \in Claimed => pc'[r] \in Claimed
         /\ \A k \in Keys : record'[k].status = "open" =>
              \/ record[k].status = "open" /\ record'[k].lockedUntil = record[k].lockedUntil
              \/ pc[r] # "idle" /\ pc'[r] \in Claimed /\ ask[r].key = k /\ record'[k].lockedUntil = now[r] + Lease
<1>0. /\ pc \in [Requests -> {"idle", "insert", "select", "reclaim", "work", "release", "end"}]
      /\ now \in [Requests -> Nat] /\ clock \in Nat /\ Lease \in Nat
      /\ record \in [Keys -> Records] /\ answer \in [Requests -> Codes \cup {"none", "ok"}]
      /\ pc[r] # "idle" => ask[r].key \in Keys
      /\ pc[r] # "idle" => now[r] <= clock
      /\ pc[r] = "release" => answer[r] # "IN_PROGRESS"
      /\ answer[r] = "IN_PROGRESS" => pc[r] # "idle"
  BY DEF IInv, TypeOK, Asks, PutOffInv, ReadsHold, ConstantsAssumption
<1>1. ASSUME pc[r] # "idle", \E q \in Requests : Overlaps(q, r) PROVE \E q \in Requests : Overlaps(q, r)'
  BY <1>1, OverlapsStay
<1>2. answer[r] = "IN_PROGRESS" => pc[r] # "idle" /\ \E q \in Requests : Overlaps(q, r)'
  BY <1>1 DEF PutOffInv, ReadsHold
<1>3. CASE Start(r)
  BY <1>0, <1>2, <1>3 DEF Start, Goto, Claimed
<1>4. CASE Insert(r)
  <2>1. CASE record[ask[r].key].status = "absent"
    BY <1>0, <1>2, <1>4, <2>1 DEF Insert, Goto, Claimed, LockedUntil
  <2>2. CASE record[ask[r].key].status # "absent"
    BY <1>0, <1>2, <1>4, <2>2 DEF Insert, Goto, Claimed
  <2> QED
    BY <2>1, <2>2
<1>5. CASE Select(r)
  <2>1. pc[r] = "select" /\ UNCHANGED <<record, ask, now, clock>>
    BY <1>5, Zenon DEF Select
  <2>2. \/ Refuse(r, "IN_PROGRESS") /\ \E q \in Requests : Overlaps(q, r)
        \/ Refuse(r, "KEY_REUSED") \/ End(r, "ok")
        \/ Goto(r, "reclaim") /\ record[ask[r].key].status = "open" /\ SameInput(record[ask[r].key], r)
    <3>1. record[ask[r].key].status = "absent" => \E q \in Requests : Overlaps(q, r)
      BY <2>1 DEF PutOffInv, ReadsHold
    <3>2. record[ask[r].key].status = "open" /\ ~Lapsed(record[ask[r].key], now[r]) =>
            \E q \in Requests : Overlaps(q, r)
      BY <2>1, HolderOverlaps
    <3> QED
      BY <1>5, <3>1, <3>2, Zenon DEF Select
  <2>3. CASE Refuse(r, "IN_PROGRESS") /\ \E q \in Requests : Overlaps(q, r)
    BY <1>0, <1>1, <2>1, <2>3 DEF Refuse, End, Claimed
  <2>4. CASE Refuse(r, "KEY_REUSED") \/ End(r, "ok")
    BY <1>0, <2>1, <2>4 DEF Refuse, End, Claimed
  <2>5. CASE Goto(r, "reclaim") /\ record[ask[r].key].status = "open" /\ SameInput(record[ask[r].key], r)
    BY <1>0, <1>2, <2>1, <2>5 DEF Goto, SameInput, Claimed
  <2> QED
    BY <2>2, <2>3, <2>4, <2>5
<1>6. CASE Reclaim(r)
  <2> DEFINE k == ask[r].key
  <2>1. pc[r] = "reclaim" /\ UNCHANGED <<ask, now, clock>>
    BY <1>6, Zenon DEF Reclaim
  <2>2. CASE record[k].status = "open" /\ SameInput(record[k], r) /\ Lapsed(record[k], now[r])
    <3>1. record' = [record EXCEPT ![k].lockedUntil = now[r] + Lease] /\ Goto(r, "work")
      BY <1>6, <2>2 DEF Reclaim, LockedUntil
    <3>2. record'[k].lockedUntil = now[r] + Lease /\ \A l \in Keys \ {k} : record'[l] = record[l]
      BY <1>0, <2>1, <3>1 DEF Records
    <3> QED
      BY <1>0, <1>2, <2>1, <3>1, <3>2 DEF Goto, Claimed
  <2>3. CASE ~(record[k].status = "open" /\ SameInput(record[k], r) /\ Lapsed(record[k], now[r]))
    <3>1. Refuse(r, "IN_PROGRESS") /\ UNCHANGED record
      BY <1>6, <2>3 DEF Reclaim
    <3>2. \E q \in Requests : Overlaps(q, r)
      BY <2>1, <2>3, HolderOverlaps DEF PutOffInv, ReadsHold
    <3> QED
      BY <1>0, <1>1, <2>1, <3>1, <3>2 DEF Refuse, End, Claimed
  <2> QED
    BY <2>2, <2>3
<1>7. CASE Commit(r) \/ CommitUnseen(r)
  <2> DEFINE k == ask[r].key
  <2>1. /\ pc[r] = "work" /\ UNCHANGED <<ask, now, clock>> /\ k \in Keys
        /\ record' = [record EXCEPT ![k] =
             [record[k] EXCEPT !.status = "done", !.response = r, !.lockedUntil = clock]]
    BY <1>0, <1>7 DEF Commit, CommitUnseen, Completed
  <2>2. pc'[r] \in {"end", "release"} /\ answer'[r] # "IN_PROGRESS"
    BY <1>0, <1>7 DEF Commit, CommitUnseen, End
  <2>3. record'[k].status = "done" /\ \A l \in Keys \ {k} : record'[l] = record[l]
    BY <1>0, <2>1 DEF Records
  <2> QED
    BY <1>0, <2>1, <2>2, <2>3 DEF Claimed
<1>8. CASE Overtaken(r) \/ Reject(r)
  BY <1>0, <1>8 DEF Overtaken, Reject, Claimed
<1>9. CASE Release(r)
  BY <1>0, <1>9 DEF Release, Refuse, End, Claimed, Absent
<1>10. CASE Crash(r)
  BY <1>0, <1>10 DEF Crash, Refuse, End, Claimed
<1> QED
  BY <1>3, <1>4, <1>5, <1>6, <1>7, <1>8, <1>9, <1>10

LEMMA PutOffStep == ASSUME ConstantsAssumption, IInv, PutOffInv, [Next]_vars PROVE PutOffInv'
<1>1. ASSUME NEW s \in Requests,
             \/ Start(s) \/ Insert(s) \/ Select(s) \/ Reclaim(s)
             \/ Commit(s) \/ CommitUnseen(s) \/ Overtaken(s) \/ Reject(s)
             \/ Release(s) \/ Crash(s)
      PROVE  PutOffInv'
  <2>1. ActsAlone(s)
    BY <1>1, ActingAlone
  <2>2. OpenHeld'
    BY <1>1, <2>1, OwnReadsHold, OpenStaysHeld
  <2>3. ReadsHold'
    <3> SUFFICES ASSUME NEW r \in Requests
                 PROVE  (/\ pc[r] # "idle" => now[r] <= clock
                         /\ pc[r] = "release" => answer[r] # "IN_PROGRESS"
                         /\ pc[r] = "select" /\ record[ask[r].key].status = "absent" =>
                              \E q \in Requests : Overlaps(q, r)
                         /\ pc[r] = "reclaim"
                              /\ ~(record[ask[r].key].status = "open" /\ SameInput(record[ask[r].key], r)) =>
                              \E q \in Requests : Overlaps(q, r)
                         /\ answer[r] = "IN_PROGRESS" =>
                              pc[r] # "idle" /\ \E q \in Requests : Overlaps(q, r))'
      BY DEF ReadsHold
    <3>1. CASE r = s
      BY <1>1, <2>1, <3>1, OwnReadsHold DEF SameInput
    <3>2. CASE r # s
      BY <2>1, <3>2, OthersReadsHold
    <3> QED
      BY <3>1, <3>2
  <2> QED
    BY <2>2, <2>3 DEF PutOffInv
<1>2. CASE Tick \/ UNCHANGED vars
  <2>1. /\ UNCHANGED <<record, pc, ask, now, answer, ended>> /\ clock \in Nat /\ clock' \in Nat
        /\ clock <= clock' /\ now \in [Requests -> Nat]
    BY <1>2 DEF Tick, vars, IInv, TypeOK
  <2>2. \A q, r \in Requests : Overlaps(q, r)' <=> Overlaps(q, r)
    BY <2>1 DEF Overlaps
  <2> QED
    BY <2>1, <2>2 DEF PutOffInv, OpenHeld, ReadsHold, SameInput
<1> QED
  BY <1>1, <1>2 DEF Next

\* An attempt is put off only by another one under its key that began less than a lease
\* earlier or was at work when it began (claim, idempotency.ts): a dead worker's lock, a
\* take-over, a release between two statements put nobody off for longer.
THEOREM PutOffOnlyByOthers == Spec => []PutOffByAnother
<1>1. Init => PutOffInv
  BY DEF Init, PutOffInv, OpenHeld, ReadsHold, Absent
<1>2. IInv /\ PutOffInv /\ [Next]_vars => PutOffInv'
  BY PutOffStep, ConstantsAssumption
<1>3. PutOffInv => PutOffByAnother
  BY DEF PutOffInv, ReadsHold, PutOffByAnother
<1> QED
  BY <1>1, <1>2, <1>3, Invariance, PTL DEF Spec
=============================================================================
