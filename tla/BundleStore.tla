------------------------------ MODULE BundleStore ------------------------------
(***************************************************************************)
(* Bundles and the version rows that refer to them: an operation that      *)
(* creates a version (SkillService.create, createCandidate, amend) stores  *)
(* the bundle under its digest, then commits the row; if the transaction   *)
(* fails it deletes the bundle again, unless a row refers to it.  An       *)
(* operator's job collects old bundles no row refers to.  The object store *)
(* and the database know nothing of each other.                            *)
(***************************************************************************)
EXTENDS Naturals

CONSTANTS
  Attempts,   \* operations that create a version
  Contents,   \* canonical bundles; a content is its own digest and key
  ContentOf,  \* the bundle of each attempt
  None,
  MaxFaults   \* bound: crashes and lost answers

ASSUME ConstantsAssumption ==
  /\ ContentOf \in [Attempts -> Contents]
  /\ None \notin Attempts
  /\ MaxFaults \in Nat

VARIABLES
  object,   \* the bucket: who uploaded the object, and whether it is old
  pc,       \* where each attempt is
  rows,     \* attempts whose version row is committed
  job,      \* the collection job: what it has listed
  faults

vars == <<object, pc, rows, job, faults>>

Absent == [uploader |-> None, old |-> FALSE]

\* The types of the bucket, the attempts and the job; only an attempt that is
\* past its transaction has a row.
TypeOK ==
  /\ object \in [Contents -> [uploader : Attempts \cup {None}, old : BOOLEAN]]
  /\ pc \in [Attempts -> {"head", "put", "verify", "commit", "check", "delete", "end"}]
  /\ rows \in SUBSET {a \in Attempts : pc[a] \in {"check", "delete", "end"}}
  /\ job \in [pc : {"list", "filter", "delete"}, listed : SUBSET Contents]
  /\ faults \in 0..MaxFaults

Init ==
  /\ object = [d \in Contents |-> Absent]
  /\ pc = [a \in Attempts |-> "head"]
  /\ rows = {}
  /\ job = [pc |-> "list", listed |-> {}]
  /\ faults = 0
-----------------------------------------------------------------------------
Present(d) == object[d].uploader # None

Fault == faults < MaxFaults /\ faults' = faults + 1

Goto(a, label) == pc' = [pc EXCEPT ![a] = label]

(***************************************************************************)
(* putCanonicalBundle: look, write if absent, verify what is there.        *)
(***************************************************************************)
Head(a) ==
  /\ pc[a] = "head"
  /\ Goto(a, IF Present(ContentOf[a]) THEN "verify" ELSE "put")
  /\ UNCHANGED <<object, rows, job, faults>>

\* Mutant of Uploaded: an object without an upload date.
UploadedUndated(a) == [uploader |-> a, old |-> None]

Uploaded(a) == [uploader |-> a, old |-> FALSE]

\* onlyIf: the object is written only if there is none.
Put(a) ==
  /\ pc[a] = "put"
  /\ IF Present(ContentOf[a])
       THEN Goto(a, "verify") /\ UNCHANGED object
       ELSE /\ object' = [object EXCEPT ![ContentOf[a]] = Uploaded(a)]
            /\ Goto(a, "commit")
  /\ UNCHANGED <<rows, job, faults>>

\* The object may be gone again; the operation then fails with nothing stored.
Verify(a) ==
  /\ pc[a] = "verify"
  /\ Goto(a, IF Present(ContentOf[a]) THEN "commit" ELSE "end")
  /\ UNCHANGED <<object, rows, job, faults>>

(***************************************************************************)
(* The transaction that inserts the version row, and the compensation.     *)
(***************************************************************************)
Commit(a) ==
  /\ pc[a] = "commit"
  /\ rows' = rows \cup {a}
  /\ Goto(a, "end")
  /\ UNCHANGED <<object, job, faults>>

\* Committed, but the connection failed: the caller takes it for a failure.
CommitUnseen(a) ==
  /\ pc[a] = "commit"
  /\ Fault
  /\ rows' = rows \cup {a}
  /\ Goto(a, "check")
  /\ UNCHANGED <<object, job>>

\* Mutant of AfterFailure: nothing is cleaned up.
NoCompensation == "end"

AfterFailure == "check"

Reject(a) ==
  /\ pc[a] = "commit"
  /\ Goto(a, AfterFailure)
  /\ UNCHANGED <<object, rows, job, faults>>

\* Mutant of Unreferenced: the rows are not asked.
NotAsked(d) == TRUE

Unreferenced(d) == \A a \in rows : ContentOf[a] # d

\* deleteIfUnreferenced: a query, then a call to the bucket.
Check(a) ==
  /\ pc[a] = "check"
  /\ Goto(a, IF Unreferenced(ContentOf[a]) THEN "delete" ELSE "end")
  /\ UNCHANGED <<object, rows, job, faults>>

Delete(a) ==
  /\ pc[a] = "delete"
  /\ object' = [object EXCEPT ![ContentOf[a]] = Absent]
  /\ Goto(a, "end")
  /\ UNCHANGED <<rows, job, faults>>

\* The worker dies, or a call fails and the operation gives up; an upload may
\* have happened although it was not seen.
Crash(a) ==
  /\ pc[a] # "end"
  /\ Fault
  /\ \/ UNCHANGED object
     \/ /\ pc[a] = "put" /\ ~Present(ContentOf[a])
        /\ object' = [object EXCEPT ![ContentOf[a]] = Uploaded(a)]
  /\ Goto(a, "end")
  /\ UNCHANGED <<rows, job>>

(***************************************************************************)
(* cleanupOrphans: list the whole bucket, then read all references, then   *)
(* delete the old objects without one.  The age is chosen larger than any  *)
(* operation takes.                                                        *)
(***************************************************************************)
Age(d) ==
  /\ Present(d) /\ pc[object[d].uploader] = "end"
  /\ ~object[d].old
  /\ object' = [object EXCEPT ![d].old = TRUE]
  /\ UNCHANGED <<pc, rows, job, faults>>

List ==
  /\ job.pc = "list"
  /\ job' = [pc |-> "filter", listed |-> {d \in Contents : Present(d) /\ object[d].old}]
  /\ UNCHANGED <<object, pc, rows, faults>>

Filter ==
  /\ job.pc = "filter"
  /\ job' = [pc |-> "delete", listed |-> {d \in job.listed : Unreferenced(d)}]
  /\ UNCHANGED <<object, pc, rows, faults>>

DeleteListed ==
  /\ job.pc = "delete"
  /\ object' = [d \in Contents |-> IF d \in job.listed THEN Absent ELSE object[d]]
  /\ job' = [pc |-> "list", listed |-> {}]
  /\ UNCHANGED <<pc, rows, faults>>

Next ==
  \/ \E a \in Attempts :
       \/ Head(a) \/ Put(a) \/ Verify(a) \/ Commit(a) \/ CommitUnseen(a)
       \/ Reject(a) \/ Check(a) \/ Delete(a) \/ Crash(a)
  \/ \E d \in Contents : Age(d)
  \/ List \/ Filter \/ DeleteListed

Spec == Init /\ [][Next]_vars
-----------------------------------------------------------------------------
(***************************************************************************)
(* Properties.                                                             *)
(***************************************************************************)

\* The bundle of a committed version can be read.
ReferencedBundlesKept == \A a \in rows : Present(ContentOf[a])

\* It can be, whatever fails or is cleaned up, unless another operation with
\* the very same bundle failed: not even the compensation of an operation that
\* committed without knowing it, or a collection, deletes it.
LostOnlyToTwin ==
  \A a \in rows : ~Present(ContentOf[a]) =>
    \E b \in Attempts \ rows : ContentOf[b] = ContentOf[a] /\ pc[b] = "end"

\* As long as nothing crashes, failed operations leave no bundle behind.
NoOrphanWithoutFault ==
  \A d \in Contents :
    (/\ faults = 0 /\ Unreferenced(d)
     /\ \A a \in Attempts : ContentOf[a] = d => pc[a] = "end")
    => ~Present(d)
=============================================================================
