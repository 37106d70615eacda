------------------------------ MODULE Idempotency ------------------------------
(***************************************************************************)
(* IdempotencyStore as every mutation of the domain services uses it: a    *)
(* request claims the record of its key in a transaction of its own, does  *)
(* its work, and completes the record inside the transaction that changes  *)
(* the workspace; whatever goes wrong on the way, it releases the record.  *)
(* A claim is a lock with an expiry: who finds it expired takes it over,   *)
(* and its first holder, if only slow, goes on.  The record does not say   *)
(* whose claim it is.                                                      *)
(*                                                                         *)
(* A key stands for (workspace, principal, operation, key).                *)
(***************************************************************************)
EXTENDS Integers

CONSTANTS
  Requests,   \* attempts; a client's retry is an attempt of its own
  Keys, Hashes,
  None,
  Lease,      \* lockDurationMs
  MaxClock,   \* bound: instants
  MaxFaults   \* bound: crashes, lost answers and failed releases

ASSUME ConstantsAssumption ==
  /\ None \notin Requests
  /\ None \notin [key : Keys, hash : Hashes]
  /\ Lease \in Nat \ {0} /\ MaxClock \in Nat /\ MaxFaults \in Nat

VARIABLES
  record,   \* idempotency_records
  pc,       \* where each attempt is
  ask,      \* its key and request hash
  now,      \* the instant it read before claiming
  answer,   \* what its caller is told: a code, when it is an error
  told,     \* the attempt whose response it was told
  effects,  \* the attempts whose change was committed, by key
  ended,    \* the instant it ended
  clock, faults

vars == <<record, pc, ask, now, answer, told, effects, ended, clock, faults>>

Codes == {"IN_PROGRESS", "KEY_REUSED", "FAILED"}

Records ==
  [status : {"absent", "open", "done"}, hash : Hashes \cup {None},
   response : Requests \cup {None}, lockedUntil : Nat]

Absent == [status |-> "absent", hash |-> None, response |-> None, lockedUntil |-> 0]

\* The types of the records and of the attempts' variables; a lock, in particular,
\* never lies before the first instant.
TypeOK ==
  /\ record \in [Keys -> Records]
  /\ pc \in [Requests -> {"idle", "insert", "select", "reclaim", "work",
                          "release", "end"}]
  /\ ask \in [Requests -> [key : Keys, hash : Hashes] \cup {None}]
  /\ now \in [Requests -> Nat]
  /\ answer \in [Requests -> Codes \cup {"none", "ok"}]
  /\ told \in [Requests -> Requests \cup {None}]
  /\ effects \in [Keys -> SUBSET Requests]
  /\ ended \in [Requests -> Nat]
  /\ clock \in Nat /\ faults \in Nat

Init ==
  /\ record = [k \in Keys |-> Absent]
  /\ pc = [r \in Requests |-> "idle"]
  /\ ask = [r \in Requests |-> None]
  /\ now = [r \in Requests |-> 0]
  /\ answer = [r \in Requests |-> "none"]
  /\ told = [r \in Requests |-> None]
  /\ effects = [k \in Keys |-> {}]
  /\ ended = [r \in Requests |-> 0]
  /\ clock = 0 /\ faults = 0
-----------------------------------------------------------------------------
Goto(r, label) ==
  /\ pc' = [pc EXCEPT ![r] = label]
  /\ UNCHANGED <<answer, told, ended>>

End(r, code) ==
  /\ pc' = [pc EXCEPT ![r] = "end"]
  /\ answer' = [answer EXCEPT ![r] = code]
  /\ ended' = [ended EXCEPT ![r] = clock]

Refuse(r, code) == End(r, code) /\ UNCHANGED told

Fault == faults < MaxFaults /\ faults' = faults + 1

(***************************************************************************)
(* claim: INSERT ... ON CONFLICT DO NOTHING, SELECT, guarded UPDATE; read  *)
(* committed, so other transactions may commit between the statements.     *)
(***************************************************************************)
Start(r) ==
  /\ pc[r] = "idle"
  /\ \E k \in Keys, h \in Hashes :
       ask' = [ask EXCEPT ![r] = [key |-> k, hash |-> h]]
  /\ now' = [now EXCEPT ![r] = clock]
  /\ Goto(r, "insert")
  /\ UNCHANGED <<record, effects, clock, faults>>

\* Mutant of LockedUntil: the lock lies in the past.
LockedSince(t) == t - Lease

LockedUntil(t) == t + Lease

Insert(r) ==
  LET k == ask[r].key IN
  /\ pc[r] = "insert"
  /\ IF record[k].status = "absent"
       THEN /\ record' = [record EXCEPT ![k] =
                 [status |-> "open", hash |-> ask[r].hash, response |-> None,
                  lockedUntil |-> LockedUntil(now[r])]]
            /\ Goto(r, "work")
       ELSE Goto(r, "select") /\ UNCHANGED record
  /\ UNCHANGED <<ask, now, effects, clock, faults>>

\* Mutant of Lapsed: a claim is never taken over.
NeverLapsed(rec, t) == FALSE

\* A claim whose lock has run out at instant t.
Lapsed(rec, t) == rec.lockedUntil <= t

\* Mutant of SameInput: the request hash is not compared.
AnyInput(rec, r) == TRUE

SameInput(rec, r) == rec.hash = ask[r].hash

Select(r) ==
  LET rec == record[ask[r].key] IN
  /\ pc[r] = "select"
  /\ \/ /\ rec.status = "absent"   \* released in between
        /\ Refuse(r, "IN_PROGRESS")
     \/ /\ rec.status # "absent" /\ ~SameInput(rec, r)
        /\ Refuse(r, "KEY_REUSED")
     \/ /\ rec.status = "done" /\ SameInput(rec, r)
        /\ End(r, "ok")
        /\ told' = [told EXCEPT ![r] = rec.response]
     \/ /\ rec.status = "open" /\ SameInput(rec, r) /\ ~Lapsed(rec, now[r])
        /\ Refuse(r, "IN_PROGRESS")
     \/ /\ rec.status = "open" /\ SameInput(rec, r) /\ Lapsed(rec, now[r])
        /\ Goto(r, "reclaim")
  /\ UNCHANGED <<record, ask, now, effects, clock, faults>>

Reclaim(r) ==
  LET k == ask[r].key IN
  /\ pc[r] = "reclaim"
  /\ IF /\ record[k].status = "open" /\ SameInput(record[k], r)
        /\ Lapsed(record[k], now[r])
       THEN /\ record' = [record EXCEPT ![k].lockedUntil = LockedUntil(now[r])]
            /\ Goto(r, "work")
       ELSE Refuse(r, "IN_PROGRESS") /\ UNCHANGED record
  /\ UNCHANGED <<ask, now, effects, clock, faults>>
-----------------------------------------------------------------------------
\* complete: UPDATE ... WHERE request_hash = and response_status IS NULL.
MayComplete(rec, r) == rec.status = "open" /\ SameInput(rec, r)

\* The operation's own transaction commits: its change and the response.
Completed(r) ==
  LET k == ask[r].key IN
  /\ pc[r] = "work"
  /\ MayComplete(record[k], r)
  /\ record' = [record EXCEPT ![k] =
       [record[k] EXCEPT !.status = "done", !.response = r, !.lockedUntil = clock]]
  /\ effects' = [effects EXCEPT ![k] = effects[k] \cup {r}]

Commit(r) ==
  /\ Completed(r)
  /\ End(r, "ok")
  /\ told' = [told EXCEPT ![r] = r]
  /\ UNCHANGED <<ask, now, clock, faults>>

\* The commit happens but its caller sees the connection fail.
CommitUnseen(r) ==
  /\ Completed(r)
  /\ Fault
  /\ pc' = [pc EXCEPT ![r] = "release"]
  /\ answer' = [answer EXCEPT ![r] = "FAILED"]
  /\ UNCHANGED <<ask, now, told, ended, clock>>

\* The record is not this attempt's to complete any more: roll back.
Overtaken(r) ==
  /\ pc[r] = "work"
  /\ ~MayComplete(record[ask[r].key], r)
  /\ pc' = [pc EXCEPT ![r] = "release"]
  /\ answer' = [answer EXCEPT ![r] = "KEY_REUSED"]
  /\ UNCHANGED <<record, ask, now, told, effects, ended, clock, faults>>

\* The operation refuses or fails before its commit: roll back.
Reject(r) ==
  /\ pc[r] = "work"
  /\ pc' = [pc EXCEPT ![r] = "release"]
  /\ answer' = [answer EXCEPT ![r] = "FAILED"]
  /\ UNCHANGED <<record, ask, now, told, effects, ended, clock, faults>>

\* release: DELETE ... WHERE request_hash = and response_status IS NULL.
Releasable(rec, r) == rec.status = "open" /\ SameInput(rec, r)

Release(r) ==
  LET k == ask[r].key IN
  /\ pc[r] = "release"
  /\ record' = IF Releasable(record[k], r) THEN [record EXCEPT ![k] = Absent]
                                           ELSE record
  /\ Refuse(r, answer[r])
  /\ UNCHANGED <<ask, now, effects, clock, faults>>

\* The release fails (its error is dropped), or the worker dies: the record
\* is left as it is.
Crash(r) ==
  /\ pc[r] \in {"insert", "select", "reclaim", "work", "release"}
  /\ Fault
  /\ Refuse(r, "FAILED")
  /\ UNCHANGED <<record, ask, now, effects, clock>>

Tick ==
  /\ clock < MaxClock
  /\ clock' = clock + 1
  /\ UNCHANGED <<record, pc, ask, now, answer, told, effects, ended, faults>>

Next ==
  \/ \E r \in Requests :
       \/ Start(r) \/ Insert(r) \/ Select(r) \/ Reclaim(r)
       \/ Commit(r) \/ CommitUnseen(r) \/ Overtaken(r) \/ Reject(r)
       \/ Release(r) \/ Crash(r)
  \/ Tick

Spec == Init /\ [][Next]_vars
-----------------------------------------------------------------------------
(***************************************************************************)
(* Properties.                                                             *)
(***************************************************************************)

\* However many attempts share a key, overrun their locks, take one another's
\* claims over or release claims that are not theirs any more: one change at
\* most is committed under the key, and whoever is told "ok" is told of that
\* change, which was made for the same input.
AnswersAgree ==
  /\ \A k \in Keys : \A q, r \in effects[k] : q = r
  /\ \A r \in Requests : told[r] # None =>
       /\ told[r] \in effects[ask[r].key]
       /\ ask[told[r]] = ask[r]

\* An attempt is put off only because of another one under the key that began
\* less than a lease earlier or was at work when this one began: what a dead
\* worker leaves behind blocks the key no longer than its lease.
Overlaps(q, r) ==
  /\ q # r /\ ask[q] # None /\ ask[q].key = ask[r].key
  /\ \/ now[q] + Lease > now[r]
     \/ pc[q] # "end"
     \/ ended[q] >= now[r]

PutOffByAnother ==
  \A r \in Requests : answer[r] = "IN_PROGRESS" => \E q \in Requests : Overlaps(q, r)

\* A key is reported as reused only when it was used with different input.
ReuseMeansOtherInput ==
  \A r \in Requests : answer[r] = "KEY_REUSED" =>
    \E q \in Requests :
      ask[q] # None /\ ask[q].key = ask[r].key /\ ask[q].hash # ask[r].hash

\* Refinement: claims, locks and releases implement the promise of a key.
Once == INSTANCE OnceOnly

\* Every step commits the one change of a key, tells somebody of it, or is
\* invisible to the callers.
KeepsPromise == Once!Spec
=============================================================================
