---------------------------- MODULE Composition ----------------------------
(***************************************************************************)
(* Revoked versions and what is composed of them: VersionLifecycleService  *)
(* (packages/domain src/version-lifecycle.ts) writes a version's marks,    *)
(* first to the control plane, then to its own cell;  CompositionService   *)
(* (src/composition-service.ts) reads them, node by node of a dependency   *)
(* lock, when it resolves a version or validates its publication.          *)
(*                                                                         *)
(* The reader's workspace is in one cell.  A node of another workspace is  *)
(* known to it from the control plane only, one of its own from both.      *)
(* What makes a node unusable besides a mark (visibility, an archived      *)
(* skill, changed content, no published status) may happen at any read.    *)
(***************************************************************************)
EXTENDS FiniteSets

CONSTANTS Lock,      \* the versions of a dependency lock and its root
          Own,       \* those of the reader's own workspace
          Orders,    \* requests to mark a version, each with an idempotency key of its own
          OrderOf,   \* what each asks: [version, state]
          Setters,   \* attempts at an order
          Resolvers  \* calls of resolve and of validatePublication

ASSUME OrdersAssumption ==
  OrderOf \in [Orders -> [version : Lock, state : {"deprecated", "revoked"}]]

VARIABLES
  controlMark,  \* public_skill_version_lifecycle: the marks of each version
  cellMark,     \* skill_version_lifecycle, in the cell of the version's workspace
  claim,        \* the orders' idempotency records
  setter,       \* where each attempt is
  told,         \* orders that were answered
  resolver      \* where each reader is

compositionVars == <<controlMark, cellMark, claim, setter, told, resolver>>

Marks == SUBSET {"deprecated", "revoked"}
NoSetter == [step |-> "resting"]
NoResolver == [step |-> "resting"]

CompositionTypeOK ==
  /\ controlMark \in [Lock -> Marks] /\ cellMark \in [Lock -> Marks]
  /\ claim \in [Orders -> {"absent", "open", "done"}]
  /\ setter \in [Setters -> {NoSetter} \cup
       [step : {"check", "control", "cell", "release"}, order : Orders]]
  /\ told \subseteq Orders
  /\ resolver \in [Resolvers -> {NoResolver} \cup
       [step : {"mark", "source", "answered"}, todo : SUBSET Lock, node : Lock,
        publishing : BOOLEAN, seen : [Lock -> Marks], revokedBefore : SUBSET Lock]]

CompositionInit ==
  /\ controlMark = [v \in Lock |-> {}] /\ cellMark = [v \in Lock |-> {}]
  /\ claim = [o \in Orders |-> "absent"]
  /\ setter = [s \in Setters |-> NoSetter]
  /\ told = {}
  /\ resolver = [r \in Resolvers |-> NoResolver]

-----------------------------------------------------------------------------
(* set: check, control plane, cell.                                         *)

At(s, step) == setter[s].step = step
GotoStep(s, step) == setter' = [setter EXCEPT ![s].step = step]
Fails(s) == GotoStep(s, "release") /\ UNCHANGED <<controlMark, cellMark, claim, told, resolver>>

\* The order is claimed, or was carried out already; an open claim is taken over when its
\* time has run out.
ClaimOrder(s, o) ==
  /\ setter[s] = NoSetter
  /\ IF claim[o] = "done"
     THEN told' = told \cup {o} /\ UNCHANGED <<claim, setter>>
     ELSE /\ claim' = [claim EXCEPT ![o] = "open"]
          /\ setter' = [setter EXCEPT ![s] = [step |-> "check", order |-> o]]
          /\ UNCHANGED told
  /\ UNCHANGED <<controlMark, cellMark, resolver>>

\* Is there such a published version?  Outside a transaction.
CheckVersion(s) ==
  /\ At(s, "check")
  /\ \/ Fails(s)
     \/ GotoStep(s, "control") /\ UNCHANGED <<controlMark, cellMark, claim, told, resolver>>

\* Mutant: the newest state replaces the others.
Replaced(marks, o) == [marks EXCEPT ![OrderOf[o].version] = {OrderOf[o].state}]

\* INSERT ... ON CONFLICT DO UPDATE, with COALESCE: a mark stays.
Marked(marks, o) == [marks EXCEPT ![OrderOf[o].version] = @ \cup {OrderOf[o].state}]

\* The control plane's mark, a statement of its own.
MarkControl(s) ==
  /\ At(s, "control")
  /\ \/ /\ controlMark' = Marked(controlMark, setter[s].order)
        /\ \E step \in {"cell", "release"} : GotoStep(s, step)
        /\ UNCHANGED <<cellMark, claim, told, resolver>>
     \/ Fails(s)

\* The cell's mark, the audit and the completion of the claim, in a fenced transaction.  Its
\* answer may be lost; a claim that is gone or completed rolls it back.
MarkCell(s) ==
  LET o == setter[s].order IN
  /\ At(s, "cell")
  /\ \/ /\ claim[o] = "open"
        /\ cellMark' = [cellMark EXCEPT ![OrderOf[o].version] = @ \cup {OrderOf[o].state}]
        /\ claim' = [claim EXCEPT ![o] = "done"]
        /\ \/ told' = told \cup {o} /\ setter' = [setter EXCEPT ![s] = NoSetter]
           \/ GotoStep(s, "release") /\ UNCHANGED told
        /\ UNCHANGED <<controlMark, resolver>>
     \/ Fails(s)

\* The failed attempt lets go of the claim, whoever holds it now, or dies before it does.
ReleaseClaim(s) ==
  LET o == setter[s].order IN
  /\ At(s, "release")
  /\ claim' = IF claim[o] = "open" THEN [claim EXCEPT ![o] = "absent"] ELSE claim
  /\ setter' = [setter EXCEPT ![s] = NoSetter]
  /\ UNCHANGED <<controlMark, cellMark, told, resolver>>

SetterDies(s) ==
  /\ setter[s] # NoSetter
  /\ setter' = [setter EXCEPT ![s] = NoSetter]
  /\ UNCHANGED <<controlMark, cellMark, claim, told, resolver>>

-----------------------------------------------------------------------------
(* resolve and validatePublication: each node's marks, then its source.     *)

\* What nobody may be served any more: a revocation was answered, or is in force in a cell.
RevokedNow ==
  {v \in Lock : \/ "revoked" \in cellMark[v]
                \/ \E o \in told : OrderOf[o] = [version |-> v, state |-> "revoked"]}

\* A publication is validated in one serializable transaction of the cell.
BeginResolve(r) ==
  /\ resolver[r].step \in {"resting", "answered"}
  /\ \E publishing \in BOOLEAN, first \in Lock :
       resolver' = [resolver EXCEPT ![r] =
         [step |-> "mark", todo |-> Lock \ {first}, node |-> first, publishing |-> publishing,
          seen |-> IF publishing THEN cellMark ELSE [v \in Lock |-> {}],
          revokedBefore |-> RevokedNow]]
  /\ UNCHANGED <<controlMark, cellMark, claim, setter, told>>

Refused(r) == resolver' = [resolver EXCEPT ![r] = NoResolver]

\* assertAvailable: the control plane's marks, never part of a cell's transaction.
Available(v) == "revoked" \notin controlMark[v]
ReadMark(r) ==
  /\ resolver[r].step = "mark"
  /\ IF Available(resolver[r].node)
     THEN resolver' = [resolver EXCEPT ![r].step = "source"]
     ELSE Refused(r)
  /\ UNCHANGED <<controlMark, cellMark, claim, setter, told>>

\* source: the cell's row and mark for an own node, the public projection for another; or
\* the node is denied for another reason.
ReadSource(r) ==
  LET call == resolver[r]
      marks == IF call.publishing THEN call.seen ELSE cellMark
      revoked == call.node \in Own /\ "revoked" \in marks[call.node]
  IN
  /\ call.step = "source"
  /\ \/ Refused(r)
     \/ ~revoked /\ call.todo = {} /\ resolver' = [resolver EXCEPT ![r].step = "answered"]
     \/ ~revoked /\ \E next \in call.todo :
          resolver' = [resolver EXCEPT ![r].step = "mark", ![r].node = next, ![r].todo = @ \ {next}]
  /\ UNCHANGED <<controlMark, cellMark, claim, setter, told>>

CompositionNext ==
  \/ \E s \in Setters :
       \/ \E o \in Orders : ClaimOrder(s, o)
       \/ CheckVersion(s) \/ MarkControl(s) \/ MarkCell(s) \/ ReleaseClaim(s) \/ SetterDies(s)
  \/ \E r \in Resolvers : BeginResolve(r) \/ ReadMark(r) \/ ReadSource(r)

CompositionSpec == CompositionInit /\ [][CompositionNext]_compositionVars

-----------------------------------------------------------------------------
\* "Publish the fail-closed invalidation before acknowledging any regional state"
\* (version-lifecycle.ts:62): a mark in a cell or in an answer is in the control plane, for ever
\* and whatever is marked later, cut off or retried; and no call that began after a
\* revocation was answered or took effect in its cell serves the version, of its own
\* workspace or another (composition-service.ts:104-219).
RevokedStaysOut ==
  /\ \A v \in Lock : cellMark[v] \subseteq controlMark[v]
  /\ \A o \in told : OrderOf[o].state \in cellMark[OrderOf[o].version]
  /\ \A r \in Resolvers : resolver[r].step = "answered" => resolver[r].revokedBefore = {}
=============================================================================
