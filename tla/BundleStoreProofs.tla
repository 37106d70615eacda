--------------------------- MODULE BundleStoreProofs ---------------------------
(***************************************************************************)
(* A committed version loses its bundle only to a failed twin, for any     *)
(* number of operations, contents and faults.                              *)
(*                                                                         *)
(* LostOnlyToTwin is not inductive: a row is inserted by an operation      *)
(* whose bundle may be gone by then, and a bundle is deleted on the word   *)
(* of a query made earlier.  The strengthening says what each of the two   *)
(* still knows: an operation about to commit has lost its bundle to a      *)
(* twin already; an operation about to delete has no row; and of           *)
(* everything the collection has listed some operation is over, without a  *)
(* row once the references have been read.                                 *)
(***************************************************************************)
EXTENDS BundleStore, TLAPS

\* A failed operation with bundle d.
FailedTwin(b, d) == b \in Attempts \ rows /\ ContentOf[b] = d /\ pc[b] = "end"

LostToTwin(a) ==
  (a \in rows \/ pc[a] = "commit") /\ ~Present(ContentOf[a]) =>
    \E b \in Attempts : FailedTwin(b, ContentOf[a])

UploadersKnown ==
  \A d \in Contents : Present(d) =>
    /\ ContentOf[object[d].uploader] = d
    /\ object[d].old => pc[object[d].uploader] = "end"

DeletersFailed == \A a \in Attempts : pc[a] = "delete" => a \notin rows

ListedOver ==
  \A d \in job.listed : \E b \in Attempts :
    /\ ContentOf[b] = d /\ pc[b] = "end"
    /\ job.pc = "delete" => b \notin rows

UndatedAbsent == \A d \in Contents : object[d].old => Present(d)

Safe ==
  /\ \A a \in Attempts : LostToTwin(a)
  /\ UploadersKnown
  /\ DeletersFailed
  /\ ListedOver
  /\ UndatedAbsent

IInv == TypeOK /\ Safe

-----------------------------------------------------------------------------
LEMMA InitInv == Init => IInv
BY ConstantsAssumption
   DEF Init, IInv, TypeOK, Safe, LostToTwin, UploadersKnown, DeletersFailed,
       ListedOver, UndatedAbsent, Present, Absent

LEMMA TypeStep == IInv /\ [Next]_vars => TypeOK'
<1> SUFFICES ASSUME IInv, [Next]_vars PROVE TypeOK'
  OBVIOUS
<1> USE ConstantsAssumption DEF IInv, TypeOK
<1>1. ASSUME NEW a \in Attempts, Head(a) PROVE TypeOK'
  BY <1>1 DEF Head, Goto
<1>2. ASSUME NEW a \in Attempts, Put(a) PROVE TypeOK'
  <2>1. Uploaded(a) \in [uploader : Attempts \cup {None}, old : BOOLEAN]
    BY DEF Uploaded
  <2>2. CASE Present(ContentOf[a])
    BY <1>2, <2>2 DEF Put, Goto
  <2>3. CASE ~Present(ContentOf[a])
    <3>1. object' \in [Contents -> [uploader : Attempts \cup {None}, old : BOOLEAN]]
      BY <1>2, <2>1, <2>3 DEF Put
    <3> QED
      BY <1>2, <2>3, <3>1 DEF Put, Goto
  <2> QED
    BY <2>2, <2>3
<1>3. ASSUME NEW a \in Attempts, Verify(a) PROVE TypeOK'
  BY <1>3 DEF Verify, Goto
<1>4. ASSUME NEW a \in Attempts, Commit(a) PROVE TypeOK'
  BY <1>4 DEF Commit, Goto
<1>5. ASSUME NEW a \in Attempts, CommitUnseen(a) PROVE TypeOK'
  BY <1>5 DEF CommitUnseen, Goto, Fault
<1>6. ASSUME NEW a \in Attempts, Reject(a) PROVE TypeOK'
  BY <1>6 DEF Reject, Goto, AfterFailure
<1>7. ASSUME NEW a \in Attempts, Check(a) PROVE TypeOK'
  BY <1>7 DEF Check, Goto
<1>8. ASSUME NEW a \in Attempts, Delete(a) PROVE TypeOK'
  BY <1>8 DEF Delete, Goto, Absent
<1>9. ASSUME NEW a \in Attempts, Crash(a) PROVE TypeOK'
  <2>1. Uploaded(a) \in [uploader : Attempts \cup {None}, old : BOOLEAN]
    BY DEF Uploaded
  <2>2. object' \in [Contents -> [uploader : Attempts \cup {None}, old : BOOLEAN]]
    BY <1>9, <2>1 DEF Crash
  <2> QED
    BY <1>9, <2>2 DEF Crash, Goto, Fault
<1>10. ASSUME NEW d \in Contents, Age(d) PROVE TypeOK'
  BY <1>10 DEF Age
<1>11. CASE List
  BY <1>11 DEF List
<1>12. CASE Filter
  BY <1>12 DEF Filter
<1>13. CASE DeleteListed
  <2>1. Absent \in [uploader : Attempts \cup {None}, old : BOOLEAN]
    BY DEF Absent
  <2>2. object' \in [Contents -> [uploader : Attempts \cup {None}, old : BOOLEAN]]
    BY <1>13, <2>1 DEF DeleteListed
  <2> QED
    BY <1>13, <2>2 DEF DeleteListed
<1>14. CASE UNCHANGED vars
  BY <1>14 DEF vars
<1> QED
  BY <1>1, <1>2, <1>3, <1>4, <1>5, <1>6, <1>7, <1>8, <1>9, <1>10, <1>11, <1>12,
     <1>13, <1>14 DEF Next
-----------------------------------------------------------------------------
\* Once an operation is over it has its row or never gets one.
LEMMA FailedStays ==
  ASSUME TypeOK, DeletersFailed, [Next]_vars
  PROVE  /\ \A a \in Attempts : pc[a] = "end" =>
              pc'[a] = "end" /\ (a \in rows <=> a \in rows')
         /\ \A b \in Attempts, d \in Contents :
              FailedTwin(b, d) => FailedTwin(b, d)'
<1>1. \A a \in Attempts : pc[a] = "end" =>
        pc'[a] = "end" /\ (a \in rows <=> a \in rows')
  <2>1. ASSUME NEW a \in Attempts,
               Head(a) \/ Put(a) \/ Verify(a) \/ Commit(a) \/ CommitUnseen(a)
        PROVE  \A c \in Attempts : pc[c] = "end" =>
                 pc'[c] = "end" /\ (c \in rows <=> c \in rows')
    BY <2>1 DEF Head, Put, Verify, Commit, CommitUnseen, Goto, TypeOK
  <2>2. ASSUME NEW a \in Attempts,
               Reject(a) \/ Check(a) \/ Delete(a) \/ Crash(a)
        PROVE  \A c \in Attempts : pc[c] = "end" =>
                 pc'[c] = "end" /\ (c \in rows <=> c \in rows')
    BY <2>2 DEF Reject, Check, Delete, Crash, Goto, TypeOK
  <2> QED
    BY <2>1, <2>2 DEF Next, vars, Age, List, Filter, DeleteListed
<1> QED
  BY <1>1 DEF FailedTwin

\* What holds of a step of an operation that deletes nothing: objects stay,
\* except that the operation may upload its own; only an operation whose bundle
\* is there comes to its commit; only one at its commit gets a row; and only one
\* without a row decides to delete.
Harmless ==
  /\ \A d \in Contents :
       \/ object'[d] = object[d]
       \/ \E a \in Attempts :
            ~Present(d) /\ ContentOf[a] = d /\ object'[d] = Uploaded(a)
  /\ \A a \in Attempts :
       /\ pc'[a] = "commit" /\ pc[a] # "commit" => Present(ContentOf[a])'
       /\ a \in rows' => a \in rows \/ pc[a] = "commit"
       /\ pc'[a] = "delete" => a \notin rows'
  /\ UNCHANGED job

LEMMA HarmlessSafe ==
  ASSUME IInv, [Next]_vars, Harmless PROVE Safe'
<1> USE ConstantsAssumption
<1>1. /\ \A a \in Attempts : pc[a] = "end" =>
            pc'[a] = "end" /\ (a \in rows <=> a \in rows')
      /\ \A b \in Attempts, d \in Contents :
            FailedTwin(b, d) => FailedTwin(b, d)'
  BY FailedStays DEF IInv, Safe
<1>2. \A d \in Contents : Present(d) => Present(d)'
  BY DEF Harmless, Present, Uploaded
<1>3. ASSUME NEW a \in Attempts PROVE LostToTwin(a)'
  <2> SUFFICES ASSUME (a \in rows \/ pc[a] = "commit")', ~Present(ContentOf[a])'
               PROVE  \E b \in Attempts : FailedTwin(b, ContentOf[a])'
    BY DEF LostToTwin
  <2>1. /\ ~Present(ContentOf[a])
        /\ a \in rows \/ pc[a] = "commit"
    BY <1>2 DEF Harmless
  <2>2. PICK b \in Attempts : FailedTwin(b, ContentOf[a])
    BY <2>1 DEF IInv, Safe, LostToTwin
  <2> QED
    BY <1>1, <2>2
<1>4. UploadersKnown'
  <2> SUFFICES ASSUME NEW d \in Contents, Present(d)'
               PROVE  /\ ContentOf[object'[d].uploader] = d
                      /\ object'[d].old => pc'[object'[d].uploader] = "end"
    BY DEF UploadersKnown
  <2>1. CASE object'[d] = object[d]
    <3>1. Present(d) /\ object[d].uploader \in Attempts
      BY <2>1 DEF Present, IInv, TypeOK
    <3> QED
      BY <1>1, <2>1, <3>1 DEF IInv, Safe, UploadersKnown
  <2>2. ASSUME NEW a \in Attempts, ContentOf[a] = d, object'[d] = Uploaded(a)
        PROVE  /\ ContentOf[object'[d].uploader] = d
               /\ object'[d].old => pc'[object'[d].uploader] = "end"
    BY <2>2 DEF Uploaded
  <2> QED
    BY <2>1, <2>2 DEF Harmless
<1>5. DeletersFailed'
  BY DEF Harmless, DeletersFailed
<1>6. ListedOver'
  BY <1>1 DEF IInv, Safe, ListedOver, Harmless
<1>7. UndatedAbsent'
  <2> SUFFICES ASSUME NEW d \in Contents, object'[d].old PROVE Present(d)'
    BY DEF UndatedAbsent
  <2>1. CASE object'[d] = object[d]
    BY <2>1 DEF IInv, Safe, UndatedAbsent, Present
  <2>2. ASSUME NEW a \in Attempts, object'[d] = Uploaded(a) PROVE Present(d)'
    BY <2>2 DEF Present, Uploaded
  <2> QED
    BY <2>1, <2>2 DEF Harmless
<1> QED
  BY <1>3, <1>4, <1>5, <1>6, <1>7 DEF Safe

LEMMA OperationsHarmless ==
  ASSUME IInv, NEW a \in Attempts,
         \/ Head(a) \/ Put(a) \/ Verify(a) \/ Commit(a) \/ CommitUnseen(a)
         \/ Reject(a) \/ Check(a) \/ Crash(a)
  PROVE  Harmless
<1> USE ConstantsAssumption DEF IInv, TypeOK, Safe, DeletersFailed, Harmless, Goto
<1>1. CASE Head(a)
  BY <1>1 DEF Head
<1>2. CASE Put(a)
  <2>1. ContentOf[a] \in Contents
    OBVIOUS
  <2>2. CASE Present(ContentOf[a])
    BY <1>2, <2>2 DEF Put
  <2>3. CASE ~Present(ContentOf[a])
    <3>1. object' = [object EXCEPT ![ContentOf[a]] = Uploaded(a)]
      BY <1>2, <2>3 DEF Put
    <3>2. object'[ContentOf[a]].uploader = a
      BY <2>1, <3>1 DEF Uploaded
    <3>3. Present(ContentOf[a])'
      BY <3>2 DEF Present
    <3> QED
      BY <1>2, <2>1, <2>3, <3>1, <3>3 DEF Put
  <2> QED
    BY <2>2, <2>3
<1>3. CASE Verify(a)
  BY <1>3 DEF Verify, Present
<1>4. CASE Commit(a)
  BY <1>4 DEF Commit
<1>5. CASE CommitUnseen(a)
  BY <1>5 DEF CommitUnseen
<1>6. CASE Reject(a)
  BY <1>6 DEF Reject, AfterFailure
<1>7. CASE Check(a)
  BY <1>7 DEF Check, Unreferenced
<1>8. CASE Crash(a)
  BY <1>8 DEF Crash
<1> QED
  BY <1>1, <1>2, <1>3, <1>4, <1>5, <1>6, <1>7, <1>8

LEMMA DeleteSafe ==
  ASSUME IInv, [Next]_vars, NEW a \in Attempts, Delete(a) PROVE Safe'
<1> USE ConstantsAssumption
<1>1. /\ \A c \in Attempts : pc[c] = "end" =>
            pc'[c] = "end" /\ (c \in rows <=> c \in rows')
      /\ \A b \in Attempts, d \in Contents :
            FailedTwin(b, d) => FailedTwin(b, d)'
  BY FailedStays DEF IInv, Safe
<1>2. /\ ContentOf[a] \in Contents
      /\ rows' = rows /\ job' = job
      /\ pc' = [pc EXCEPT ![a] = "end"]
      /\ object' = [object EXCEPT ![ContentOf[a]] = Absent]
  BY DEF Delete, Goto
<1>3. FailedTwin(a, ContentOf[a])'
  BY <1>2 DEF FailedTwin, IInv, TypeOK, Safe, DeletersFailed, Delete
<1>4. ASSUME NEW c \in Attempts PROVE LostToTwin(c)'
  <2>1. CASE ContentOf[c] = ContentOf[a]
    BY <1>3, <2>1 DEF LostToTwin
  <2>2. CASE ContentOf[c] # ContentOf[a]
    <3> SUFFICES ASSUME (c \in rows \/ pc[c] = "commit")', ~Present(ContentOf[c])'
                 PROVE  \E b \in Attempts : FailedTwin(b, ContentOf[c])'
      BY DEF LostToTwin
    <3>1. /\ ~Present(ContentOf[c])
          /\ c \in rows \/ pc[c] = "commit"
      BY <1>2, <2>2 DEF Present, IInv, TypeOK
    <3>2. PICK b \in Attempts : FailedTwin(b, ContentOf[c])
      BY <3>1 DEF IInv, Safe, LostToTwin
    <3> QED
      BY <1>1, <3>2
  <2> QED
    BY <2>1, <2>2
<1>5. ASSUME NEW d \in Contents
      PROVE  \/ object'[d] = object[d] \/ object'[d] = Absent
  BY <1>2 DEF IInv, TypeOK
<1>6. UploadersKnown' /\ UndatedAbsent'
  <2> SUFFICES ASSUME NEW d \in Contents
               PROVE  /\ Present(d)' =>
                           /\ ContentOf[object'[d].uploader] = d
                           /\ object'[d].old => pc'[object'[d].uploader] = "end"
                      /\ object'[d].old => Present(d)'
    BY DEF UploadersKnown, UndatedAbsent
  <2>1. CASE object'[d] = Absent
    BY <2>1 DEF Absent, Present
  <2>2. CASE object'[d] = object[d]
    <3>1. Present(d)' <=> Present(d)
      BY <2>2 DEF Present
    <3>2. Present(d) => object[d].uploader \in Attempts
      BY DEF Present, IInv, TypeOK
    <3> QED
      BY <1>1, <2>2, <3>1, <3>2 DEF IInv, Safe, UploadersKnown, UndatedAbsent
  <2> QED
    BY <1>5, <2>1, <2>2
<1>7. DeletersFailed'
  BY <1>2 DEF DeletersFailed, IInv, TypeOK, Safe
<1>8. ListedOver'
  BY <1>1, <1>2 DEF IInv, Safe, ListedOver
<1> QED
  BY <1>4, <1>6, <1>7, <1>8 DEF Safe

LEMMA AgeSafe ==
  ASSUME IInv, NEW e \in Contents, Age(e) PROVE Safe'
<1>1. /\ UNCHANGED <<pc, rows, job>>
      /\ Present(e) /\ pc[object[e].uploader] = "end"
      /\ object' = [object EXCEPT ![e].old = TRUE]
  BY DEF Age
<1>2. \A d \in Contents : object'[d].uploader = object[d].uploader
  BY <1>1 DEF IInv, TypeOK
<1>3. \A d \in Contents \ {e} : object'[d] = object[d]
  BY <1>1 DEF IInv, TypeOK
<1>4. \A d \in Contents : Present(d)' <=> Present(d)
  BY <1>2 DEF Present
<1>5. ASSUME NEW a \in Attempts PROVE LostToTwin(a)'
  <2>1. Present(ContentOf[a])' <=> Present(ContentOf[a])
    BY <1>4, ConstantsAssumption
  <2>2. LostToTwin(a)
    BY DEF IInv, Safe
  <2> QED
    BY <1>1, <2>1, <2>2 DEF LostToTwin, FailedTwin
<1>6. UploadersKnown'
  BY <1>1, <1>2, <1>3, <1>4 DEF IInv, Safe, UploadersKnown
<1>7. DeletersFailed' /\ ListedOver'
  BY <1>1 DEF IInv, Safe, DeletersFailed, ListedOver
<1>8. UndatedAbsent'
  BY <1>1, <1>3, <1>4 DEF IInv, Safe, UndatedAbsent
<1> QED
  BY <1>5, <1>6, <1>7, <1>8 DEF Safe

\* Listing and reading the references only learn what ListedOver says.
LEMMA ListSafe == ASSUME IInv, List \/ Filter PROVE Safe'
<1>1. UNCHANGED <<object, pc, rows>>
  BY DEF List, Filter
<1>2. (\A a \in Attempts : LostToTwin(a))' /\ UploadersKnown' /\ DeletersFailed'
        /\ UndatedAbsent'
  BY <1>1 DEF IInv, Safe, LostToTwin, FailedTwin, UploadersKnown, DeletersFailed,
              UndatedAbsent, Present
<1>3. ASSUME List PROVE ListedOver'
  <2> SUFFICES ASSUME NEW d \in job'.listed
               PROVE  \E b \in Attempts : ContentOf[b] = d /\ pc[b] = "end"
    BY <1>1, <1>3 DEF List, ListedOver
  <2>1. d \in Contents /\ Present(d) /\ object[d].old
    BY <1>3 DEF List
  <2>2. object[d].uploader \in Attempts
    BY <2>1 DEF Present, IInv, TypeOK
  <2>3. ContentOf[object[d].uploader] = d /\ pc[object[d].uploader] = "end"
    BY <2>1 DEF IInv, Safe, UploadersKnown
  <2> QED
    BY <2>2, <2>3
<1>4. ASSUME Filter PROVE ListedOver'
  <2> SUFFICES ASSUME NEW d \in job'.listed
               PROVE  \E b \in Attempts :
                        ContentOf[b] = d /\ pc[b] = "end" /\ b \notin rows
    BY <1>1 DEF ListedOver
  <2>1. d \in job.listed /\ Unreferenced(d)
    BY <1>4 DEF Filter
  <2>2. PICK b \in Attempts : ContentOf[b] = d /\ pc[b] = "end"
    BY <2>1 DEF IInv, Safe, ListedOver
  <2>3. b \notin rows
    BY <2>1, <2>2 DEF Unreferenced
  <2> QED
    BY <2>2, <2>3
<1> QED
  BY <1>2, <1>3, <1>4 DEF Safe

LEMMA DeleteListedSafe == ASSUME IInv, DeleteListed PROVE Safe'
<1>1. /\ UNCHANGED <<pc, rows>> /\ job.pc = "delete"
      /\ object' = [d \in Contents |-> IF d \in job.listed THEN Absent ELSE object[d]]
      /\ job' = [pc |-> "list", listed |-> {}]
  BY DEF DeleteListed
<1>2. \A d \in job.listed : \E b \in Attempts : FailedTwin(b, d)
  BY <1>1 DEF IInv, Safe, ListedOver, FailedTwin
<1>3. ASSUME NEW a \in Attempts PROVE LostToTwin(a)'
  <2>1. ContentOf[a] \in Contents
    BY ConstantsAssumption
  <2>2. CASE ContentOf[a] \in job.listed
    BY <1>1, <1>2, <2>2 DEF LostToTwin, FailedTwin
  <2>3. CASE ContentOf[a] \notin job.listed
    <3>1. Present(ContentOf[a])' <=> Present(ContentOf[a])
      BY <1>1, <2>1, <2>3 DEF Present
    <3>2. LostToTwin(a)
      BY DEF IInv, Safe
    <3> QED
      BY <1>1, <3>1, <3>2 DEF LostToTwin, FailedTwin
  <2> QED
    BY <2>2, <2>3
<1>4. ASSUME NEW d \in Contents
      PROVE  /\ Present(d)' => Present(d) /\ object'[d] = object[d]
             /\ object'[d].old => Present(d)'
  <2>1. CASE d \in job.listed
    BY <1>1, <2>1 DEF Present, Absent
  <2>2. CASE d \notin job.listed
    BY <1>1, <2>2 DEF Present, IInv, Safe, UndatedAbsent
  <2> QED
    BY <2>1, <2>2
<1>5. UploadersKnown' /\ UndatedAbsent'
  BY <1>1, <1>4 DEF IInv, Safe, UploadersKnown, UndatedAbsent
<1>6. DeletersFailed' /\ ListedOver'
  BY <1>1 DEF IInv, Safe, DeletersFailed, ListedOver
<1> QED
  BY <1>3, <1>5, <1>6 DEF Safe

LEMMA SafeStep == IInv /\ [Next]_vars => Safe'
<1> SUFFICES ASSUME IInv, [Next]_vars PROVE Safe'
  OBVIOUS
<1>1. ASSUME NEW a \in Attempts,
             \/ Head(a) \/ Put(a) \/ Verify(a) \/ Commit(a) \/ CommitUnseen(a)
             \/ Reject(a) \/ Check(a) \/ Crash(a)
      PROVE  Safe'
  <2>1. Harmless
    BY <1>1, OperationsHarmless
  <2> QED
    BY <2>1, HarmlessSafe
<1>2. ASSUME NEW a \in Attempts, Delete(a) PROVE Safe'
  BY <1>2, DeleteSafe
<1>3. ASSUME NEW d \in Contents, Age(d) PROVE Safe'
  BY <1>3, AgeSafe
<1>4. CASE List \/ Filter
  BY <1>4, ListSafe
<1>5. CASE DeleteListed
  BY <1>5, DeleteListedSafe
<1>6. CASE UNCHANGED vars
  BY <1>6 DEF vars, IInv, Safe, LostToTwin, FailedTwin, UploadersKnown,
              DeletersFailed, ListedOver, UndatedAbsent, Present
<1> QED
  BY <1>1, <1>2, <1>3, <1>4, <1>5, <1>6 DEF Next

LEMMA Invariant == Spec => []IInv
<1>1. IInv /\ [Next]_vars => IInv'
  BY TypeStep, SafeStep DEF IInv
<1> QED
  BY InitInv, <1>1, PTL DEF Spec
-----------------------------------------------------------------------------
\* The variables keep their types in every behaviour: a row is in the database
\* only for an operation past its transaction (the insert of createCandidate,
\* amend and create).
THEOREM TypeCorrect == Spec => []TypeOK
<1>1. IInv => TypeOK
  BY DEF IInv
<1> QED
  BY Invariant, <1>1, PTL

\* However operations, compensations (deleteIfUnreferenced), collections
\* (cleanupOrphans), crashes and lost answers interleave, a committed version
\* whose bundle is gone lost it because another operation with the very same
\* bundle failed.
THEOREM OnlyTwinsLose == Spec => []LostOnlyToTwin
<1>1. IInv => LostOnlyToTwin
  BY DEF IInv, TypeOK, Safe, LostToTwin, FailedTwin, LostOnlyToTwin
<1> QED
  BY Invariant, <1>1, PTL

\* Where no two operations have the same bundle, the bundle of every committed
\* version can be read, whatever fails: the double delete of a digest two
\* operations share (deleteIfUnreferenced) is the only way to lose one.
Distinct == \A a, b \in Attempts : ContentOf[a] = ContentOf[b] => a = b

THEOREM DistinctBundlesKept == Spec => [](Distinct => ReferencedBundlesKept)
<1>1. IInv /\ LostOnlyToTwin => (Distinct => ReferencedBundlesKept)
  BY DEF IInv, TypeOK, LostOnlyToTwin, Distinct, ReferencedBundlesKept
<1> QED
  BY Invariant, OnlyTwinsLose, <1>1, PTL
-----------------------------------------------------------------------------
\* Without faults somebody is responsible for every bundle that is there: a version refers to
\* it, or an operation with it has its transaction, its query or its delete still to come.
Responsible(d) ==
  \E a \in Attempts : ContentOf[a] = d /\ (a \in rows \/ pc[a] \in {"commit", "check", "delete"})

WatchInv == faults = 0 => \A d \in Contents : Present(d) => Responsible(d)

LEMMA WatchStep == IInv /\ WatchInv /\ [Next]_vars => WatchInv'
<1> SUFFICES ASSUME IInv, WatchInv, [Next]_vars, faults' = 0,
                    NEW d \in Contents, Present(d)'
             PROVE  Responsible(d)'
  BY DEF WatchInv
<1> USE ConstantsAssumption
\* No step without a fault makes the responsible irresponsible.
<1>1. ASSUME NEW a \in Attempts, faults = 0, pc' = [pc EXCEPT ![a] = pc'[a]], rows \subseteq rows',
             Present(d) \/ (ContentOf[a] = d /\ pc'[a] = "commit"),
             pc[a] \in {"commit", "check", "delete"} /\ ContentOf[a] = d =>
               pc'[a] \in {"commit", "check", "delete"} \/ ~Unreferenced(d)'
      PROVE  Responsible(d)'
  <2>1. CASE ContentOf[a] = d /\ pc'[a] = "commit"
    BY <2>1 DEF Responsible
  <2>2. CASE Present(d)
    <3>1. PICK b \in Attempts :
            ContentOf[b] = d /\ (b \in rows \/ pc[b] \in {"commit", "check", "delete"})
      BY <1>1, <2>2 DEF WatchInv, Responsible
    <3>2. CASE b \in rows \/ b # a
      BY <1>1, <3>1, <3>2 DEF Responsible, IInv, TypeOK
    <3>3. CASE b = a /\ b \notin rows
      <4>1. pc'[a] \in {"commit", "check", "delete"} \/ ~Unreferenced(d)'
        BY <1>1, <3>1, <3>3
      <4>2. rows' \subseteq Attempts
        BY TypeStep DEF IInv, TypeOK
      <4> QED
        BY <3>1, <3>3, <4>1, <4>2 DEF Responsible, Unreferenced
    <3> QED
      BY <3>2, <3>3
  <2> QED
    BY <1>1, <2>1, <2>2
<1>2. ASSUME NEW a \in Attempts, Head(a) PROVE Responsible(d)'
  BY <1>1, <1>2 DEF Head, Goto, Present, IInv, TypeOK
<1>3. ASSUME NEW a \in Attempts, Put(a) PROVE Responsible(d)'
  <2>1. Present(d) \/ (ContentOf[a] = d /\ pc'[a] = "commit")
    BY <1>3 DEF Put, Goto, Present, IInv, TypeOK
  <2> QED
    BY <1>1, <1>3, <2>1 DEF Put, Goto, IInv, TypeOK
<1>4. ASSUME NEW a \in Attempts, Verify(a) PROVE Responsible(d)'
  BY <1>1, <1>4 DEF Verify, Goto, Present, IInv, TypeOK
<1>5. ASSUME NEW a \in Attempts, Commit(a) PROVE Responsible(d)'
  BY <1>1, <1>5 DEF Commit, Goto, Present, Unreferenced, IInv, TypeOK
<1>6. ASSUME NEW a \in Attempts, Reject(a) PROVE Responsible(d)'
  BY <1>1, <1>6 DEF Reject, Goto, AfterFailure, Present, IInv, TypeOK
<1>7. ASSUME NEW a \in Attempts, Check(a) PROVE Responsible(d)'
  BY <1>1, <1>7 DEF Check, Goto, Unreferenced, Present, IInv, TypeOK
<1>8. ASSUME NEW a \in Attempts, Delete(a) PROVE Responsible(d)'
  <2>1. ContentOf[a] # d /\ Present(d)
    BY <1>8 DEF Delete, Present, Absent, IInv, TypeOK
  <2> QED
    BY <1>1, <1>8, <2>1 DEF Delete, Goto, IInv, TypeOK
<1>9. ASSUME NEW a \in Attempts, CommitUnseen(a) \/ Crash(a) PROVE FALSE
  BY <1>9 DEF CommitUnseen, Crash, Fault, IInv, TypeOK
<1>10. ASSUME UNCHANGED <<pc, rows, faults>>, Present(d) PROVE Responsible(d)'
  BY <1>10 DEF WatchInv, Responsible
<1>11. ASSUME NEW e \in Contents, Age(e) PROVE Responsible(d)'
  <2>1. Present(d)
    BY <1>11 DEF Age, Present, IInv, TypeOK
  <2> QED
    BY <1>10, <1>11, <2>1 DEF Age
<1>12. CASE List \/ Filter
  BY <1>10, <1>12 DEF List, Filter, Present
<1>13. CASE DeleteListed
  <2>1. Present(d)
    BY <1>13 DEF DeleteListed, Present, Absent
  <2> QED
    BY <1>10, <1>13, <2>1 DEF DeleteListed
<1>14. CASE UNCHANGED vars
  BY <1>10, <1>14 DEF vars, Present
<1> QED
  BY <1>2, <1>3, <1>4, <1>5, <1>6, <1>7, <1>8, <1>9, <1>11, <1>12, <1>13, <1>14, Zenon DEF Next

\* As long as nothing crashes and no answer is lost, a failed operation leaves no bundle behind
\* (deleteIfUnreferenced): once all operations with a bundle are over and no version refers to
\* it, it is gone.
THEOREM NothingLeftBehind == Spec => []NoOrphanWithoutFault
<1>1. Init => WatchInv
  BY DEF Init, WatchInv, Present, Absent
<1>2. IInv /\ WatchInv => NoOrphanWithoutFault
  BY DEF IInv, TypeOK, WatchInv, Responsible, NoOrphanWithoutFault, Unreferenced
<1> QED
  BY Invariant, WatchStep, <1>1, <1>2, PTL DEF Spec
=============================================================================
