--------------------------- MODULE WorkspaceMoves --------------------------
(***************************************************************************)
(* Moves of one workspace between cells, with their journal and rollback   *)
(* drills: packages/control-plane src/migration.ts over the hooks of       *)
(* src/concrete-migration.ts, as scripts/migrate-workspace.mjs and         *)
(* src/legacy-cutover.ts drive them.  ProjectionOutbox has the events that *)
(* a move drains; here are the rows it copies and what is said about it.   *)
(*                                                                         *)
(* One command runs at a time, may die at any step, and the next one       *)
(* recovers what it left.  Between the hooks DataFn moves the placement:   *)
(* each of its transitions raises the epoch, a recovery takes up the move  *)
(* the placement records, and a placement that is past activation goes on. *)
(* What a cell holds is how many of the workspace's writes are in it.      *)
(***************************************************************************)
EXTENDS Naturals, FiniteSets, Sequences

CONSTANTS Regions,
          MaxRuns,    \* bound: rows of the journal
          MaxDrills,  \* bound: drills that were recorded
          MaxFaults,  \* bound: failures and deaths of commands
          MaxWrites   \* bound: writes committed after the workspace's first

ASSUME MovesAssumption ==
  /\ MaxRuns \in Nat /\ MaxDrills \in Nat /\ MaxFaults \in Nat /\ MaxWrites \in Nat

VARIABLES
  placed,   \* the placement: region, epoch, and the move in progress
  rows,     \* the workspace's rows in each cell
  gate,     \* regional_workspace_migration_fences of each cell
  routes,   \* placements handed to requests that may still write
  written,  \* writes that were committed
  journal,  \* workspace_migration_runs of moves, oldest first
  drills,   \* those of rollback drills
  command,  \* the running command
  mishaps,  \* how often something failed
  reverted, \* rollbacks that really took place: source, target and the epoch they ended at
  answered  \* the last proof a command gave, and the placement then

movesVars == <<placed, rows, gate, routes, written, journal, drills, command, mishaps, reverted,
               answered>>
cells == <<rows, gate, routes, written>>

Epochs == 1..(4 * (MaxRuns + MaxDrills + MaxFaults) + 1)
Move == [source : Regions, target : Regions, epoch : Epochs]
Proof == [move : Move, final : Epochs, tested : BOOLEAN]
NoProof == [tested |-> FALSE]
NoCommand == [step |-> "none"]
Steps == {"finalize", "drill", "start", "move", "fence", "quiesce", "copy", "activate", "resume",
          "settle", "restore", "rollback", "reopen", "restored", "record", "complete"}
Commands == [step : Steps, target : Regions, origin : Move,
             drilling : BOOLEAN, recovering : BOOLEAN, failed : BOOLEAN]
Placements == [region : Regions, epoch : Epochs, move : Move,
               phase : {"active", "moving", "resume-source", "resume-target"}]
Gates == [raised : BOOLEAN, active : Epochs]
RunRows == [status : {"running", "completed", "failed"}, pending : BOOLEAN,
            proof : Proof \cup {NoProof}]

MovesTypeOK ==
  /\ placed \in Placements
  /\ rows \in [Regions -> 0..MaxWrites + 1]
  /\ gate \in [Regions -> Gates]
  /\ routes \subseteq [region : Regions, epoch : Epochs]
  /\ written \in 1..MaxWrites + 1
  /\ journal \in Seq(RunRows)
  /\ Len(journal) <= MaxRuns
  /\ drills \subseteq Move
  /\ command \in Commands \cup {NoCommand}
  /\ mishaps \in 0..MaxFaults
  /\ reverted \subseteq Move
  /\ answered \in {NoProof} \cup [proof : Proof, region : Regions, epoch : Epochs, tested : {TRUE}]

MovesInit ==
  /\ \E home \in Regions :
       /\ placed = [region |-> home, epoch |-> 1, phase |-> "active",
                    move |-> [source |-> home, target |-> home, epoch |-> 1]]
       /\ rows = [r \in Regions |-> IF r = home THEN 1 ELSE 0]
       /\ routes = {[region |-> home, epoch |-> 1]}
  /\ gate = [r \in Regions |-> [raised |-> FALSE, active |-> 1]]
  /\ written = 1
  /\ journal = <<>> /\ drills = {} /\ reverted = {}
  /\ command = NoCommand /\ mishaps = 0 /\ answered = NoProof

-----------------------------------------------------------------------------
\* A request that was routed at any time writes where it was sent, if the fence lets it:
\* skillplane_fence_workspace_migration_write.
WriteRouted ==
  /\ written <= MaxWrites
  /\ \E route \in routes :
       /\ ~gate[route.region].raised /\ gate[route.region].active <= route.epoch
       /\ rows' = [rows EXCEPT ![route.region] = @ + 1]
  /\ written' = written + 1
  /\ UNCHANGED <<placed, gate, routes, journal, drills, command, mishaps, reverted, answered>>

-----------------------------------------------------------------------------
(* The command.                                                             *)

InRecovery == placed.phase # "active"

\* migrationSource, with the target the command was given.
Origin(target) ==
  IF InRecovery THEN placed.move
  ELSE [source |-> placed.region, target |-> target, epoch |-> placed.epoch]

\* pendingCompletion: the newest run whose completion could not be recorded.
Pendings == {i \in DOMAIN journal : journal[i].status = "running" /\ journal[i].pending}
NewestPending == CHOOSE i \in Pendings : \A other \in Pendings : other <= i

\* canFinalizeWorkspaceMigrationCompletion
Finalizes(proof, target) ==
  /\ placed.phase = "active" /\ proof.move.target = target /\ placed.region = target
  /\ placed.epoch = proof.final
CanFinalize(target) == Pendings # {} /\ Finalizes(journal[NewestPending].proof, target)

Goto(step) == command' = [command EXCEPT !.step = step]
Fault == mishaps < MaxFaults /\ mishaps' = mishaps + 1
End == command' = NoCommand

\* A command finalizes a pending run, or drills and moves; a workspace that is at its target
\* is left alone, and a recovery is the retry of the interrupted move.
BeginCommand(target) ==
  /\ command = NoCommand
  /\ CanFinalize(target) \/ Origin(target).source # target
  /\ InRecovery => placed.move.target = target
  /\ command' = [step |-> IF CanFinalize(target) THEN "finalize" ELSE "drill", target |-> target,
                 origin |-> Origin(target),
                 drilling |-> FALSE, recovering |-> FALSE, failed |-> FALSE]
  /\ UNCHANGED <<placed, cells, journal, drills, mishaps, reverted, answered>>

Answer(proof) ==
  answered' = [proof |-> proof, region |-> placed.region, epoch |-> placed.epoch, tested |-> TRUE]

Finalize ==
  /\ command.step = "finalize"
  /\ journal' = [journal EXCEPT ![NewestPending].status = "completed"]
  /\ Answer(journal[NewestPending].proof)
  /\ End
  /\ UNCHANGED <<placed, cells, drills, mishaps, reverted>>

\* runWorkspaceRollbackDrill: evidence for this source, target and epoch suffices; past
\* activation there is no drilling any more.
Drill ==
  /\ command.step = "drill"
  /\ IF command.origin \in drills THEN Goto("start")
     ELSE IF placed.phase = "resume-target" THEN End
     ELSE command' = [command EXCEPT !.step = "move", !.drilling = TRUE]
  /\ UNCHANGED <<placed, cells, journal, drills, mishaps, reverted, answered>>

\* migrateWorkspaceWithJournal: the row is there before anything moves.
StartRun ==
  /\ command.step = "start" /\ Len(journal) < MaxRuns
  /\ journal' = Append(journal, [status |-> "running", pending |-> FALSE, proof |-> NoProof])
  /\ command' = [command EXCEPT !.step = "move", !.drilling = FALSE,
                                !.origin = Origin(command.target)]
  /\ UNCHANGED <<placed, cells, drills, mishaps, reverted, answered>>

-----------------------------------------------------------------------------
(* One move: migrateWorkspace's hooks between DataFn's transitions.          *)

\* DataFn's transition: another phase, and the next epoch.
Transition(region, phase) ==
  /\ placed.epoch + 1 \in Epochs
  /\ placed' = [region |-> region, epoch |-> placed.epoch + 1, move |-> placed.move,
                 phase |-> phase]
  /\ routes' = IF phase = "moving" THEN routes
               ELSE routes \cup {[region |-> region, epoch |-> placed.epoch + 1]}

\* A recovery, whose lease may take an epoch, rolls the recorded move back or, past activation,
\* carries it through.
BeginMove ==
  /\ command.step = "move"
  /\ command' = [command EXCEPT !.recovering = InRecovery,
                   !.step = CASE placed.phase = "active" -> "fence"
                              [] placed.phase = "moving" -> "restore"
                              [] placed.phase = "resume-source" -> "rollback"
                              [] placed.phase = "resume-target" -> "resume"]
  /\ \/ UNCHANGED <<placed, routes>>
     \/ InRecovery /\ Transition(placed.region, placed.phase)
  /\ UNCHANGED <<rows, gate, written, journal, drills, mishaps, reverted, answered>>

\* The outboxes have drained and the placement is fenced.
FencePlacement ==
  /\ command.step = "fence"
  /\ placed.epoch + 1 \in Epochs
  /\ placed' = [region |-> placed.region, epoch |-> placed.epoch + 1, move |-> command.origin,
                 phase |-> "moving"]
  /\ Goto("quiesce")
  /\ UNCHANGED <<cells, journal, drills, mishaps, reverted, answered>>

Source == placed.move.source
Target == placed.move.target

QuiesceSource ==
  /\ command.step = "quiesce"
  /\ gate' = [gate EXCEPT ![Source].raised = TRUE]
  /\ Goto("copy")
  /\ UNCHANGED <<placed, rows, routes, written, journal, drills, mishaps, reverted, answered>>

\* Mutant: a drill does not fail.
DrillGoesOn ==
  /\ command.step = "copy"
  /\ rows' = [rows EXCEPT ![Target] = rows[Source]]
  /\ Goto("activate")
  /\ UNCHANGED <<placed, gate, routes, written, journal, drills, mishaps, reverted, answered>>

\* The target's rows are replaced, verified, and the target is warmed; a drill fails here.
CopyRows ==
  /\ command.step = "copy"
  /\ rows' = [rows EXCEPT ![Target] = rows[Source]]
  /\ Goto(IF command.drilling THEN "restore" ELSE "activate")
  /\ UNCHANGED <<placed, gate, routes, written, journal, drills, mishaps, reverted, answered>>

Activate ==
  /\ command.step = "activate"
  /\ Transition(Target, "resume-target")
  /\ Goto("resume")
  /\ UNCHANGED <<rows, gate, written, journal, drills, mishaps, reverted, answered>>

\* The fence row of resumeTarget and rollbackSource: source_epoch 0, and active_epoch at
\* least movingEpoch + 1.
Opened(r) ==
  LET since == placed.move.epoch + 2 IN
  [gate EXCEPT ![r] = [raised |-> FALSE, active |-> IF @.active < since THEN since ELSE @.active]]

ResumeTarget ==
  /\ command.step = "resume"
  /\ gate' = Opened(Target)
  /\ Goto("settle")
  /\ UNCHANGED <<placed, rows, routes, written, journal, drills, mishaps, reverted, answered>>

Settle ==
  /\ command.step = "settle"
  /\ Transition(placed.region, "active")
  /\ Goto("complete")
  /\ UNCHANGED <<rows, gate, written, journal, drills, mishaps, reverted, answered>>

\* A hook failed before activation.
Restore ==
  /\ command.step = "restore"
  /\ Transition(Source, "resume-source")
  /\ Goto("rollback")
  /\ UNCHANGED <<rows, gate, written, journal, drills, mishaps, reverted, answered>>

\* Mutant: the rows are deleted where the workspace is placed.
DeletePlaced ==
  /\ command.step = "rollback"
  /\ rows' = [rows EXCEPT ![placed.region] = 0]
  /\ Goto("reopen")
  /\ UNCHANGED <<placed, gate, routes, written, journal, drills, mishaps, reverted, answered>>

\* rollbackSource: the target's rows are deleted in a transaction of the target ...
DeleteCopy ==
  /\ command.step = "rollback"
  /\ rows' = [rows EXCEPT ![Target] = 0]
  /\ Goto("reopen")
  /\ UNCHANGED <<placed, gate, routes, written, journal, drills, mishaps, reverted, answered>>

\* ... and then the source is opened.
ReopenSource ==
  /\ command.step = "reopen"
  /\ gate' = Opened(Source)
  /\ Goto("restored")
  /\ UNCHANGED <<placed, rows, routes, written, journal, drills, mishaps, reverted, answered>>

\* The move was rolled back and throws.  A drill goes on when the error is its own, or the
\* rollback was a recovery; the cutover moves once more after a recovery; else the run failed.
Restored ==
  /\ command.step = "restored"
  /\ Transition(Source, "active")
  /\ reverted' = reverted \cup {[placed.move EXCEPT !.epoch = placed.epoch + 1]}
  /\ \/ command.drilling /\ UNCHANGED journal /\ IF command.failed THEN End ELSE Goto("record")
     \/ /\ ~command.drilling
        /\ journal' = [journal EXCEPT ![Len(journal)].status = "failed"]
        /\ End \/ (command.recovering /\ Goto("start"))
  /\ UNCHANGED <<rows, gate, written, drills, mishaps, answered>>

-----------------------------------------------------------------------------
(* What is recorded.                                                        *)

\* recordRollbackDrill: the evidence holds for the epoch the rollback ended at.
RecordDrill ==
  /\ command.step = "record"
  /\ Cardinality(drills) < MaxDrills
  /\ drills' = drills \cup {[command.origin EXCEPT !.epoch = placed.epoch]}
  /\ Goto("start")
  /\ UNCHANGED <<placed, cells, journal, mishaps, reverted, answered>>

\* completed, or -- when that fails -- completionPending, of a run that is still running.
CompleteRun ==
  LET proof == [move |-> command.origin, final |-> placed.epoch, tested |-> TRUE]
      last == Len(journal)
  IN
  /\ command.step = "complete"
  /\ End
  /\ \/ /\ journal' = [journal EXCEPT ![last] =
             [status |-> "completed", pending |-> @.pending, proof |-> proof]]
        /\ Answer(proof)
        /\ UNCHANGED mishaps
     \/ /\ journal' = [journal EXCEPT ![last] =
             [status |-> @.status, pending |-> TRUE, proof |-> proof]]
        /\ Fault
        /\ UNCHANGED answered
  /\ UNCHANGED <<placed, cells, drills, reverted>>

\* A hook before activation fails and the move is rolled back, or what preceded the fence
\* fails and nothing has moved.
HookFails ==
  /\ Fault
  /\ \/ /\ command.step \in {"quiesce", "copy", "activate"}
        /\ command' = [command EXCEPT !.step = "restore", !.failed = TRUE]
        /\ UNCHANGED journal
     \/ /\ command.step = "fence" /\ End
        /\ journal' = IF command.drilling THEN journal
                      ELSE [journal EXCEPT ![Len(journal)].status = "failed"]
  /\ UNCHANGED <<placed, cells, drills, reverted, answered>>

\* The command dies; or, after activation or in a rollback, a hook fails and leaves the rest
\* to a recovery.
CommandDies ==
  /\ command # NoCommand /\ Fault
  /\ End
  /\ UNCHANGED <<placed, cells, journal, drills, reverted, answered>>

MovesNext ==
  \/ WriteRouted
  \/ \E target \in Regions : BeginCommand(target)
  \/ /\ command # NoCommand
     /\ \/ Finalize \/ Drill \/ StartRun \/ BeginMove \/ FencePlacement \/ QuiesceSource \/ CopyRows
        \/ Activate \/ ResumeTarget \/ Settle \/ Restore \/ DeleteCopy \/ ReopenSource \/ Restored
        \/ RecordDrill \/ CompleteRun \/ HookFails \/ CommandDies

MovesSpec == MovesInit /\ [][MovesNext]_movesVars

-----------------------------------------------------------------------------
\* No write is lost by a move (migration.ts:246-323 with concrete-migration.ts:917-1348): the
\* cell the workspace is placed in holds every write that was committed, through drills,
\* failures, recoveries and moves back to a cell with rows and requests of an earlier stay.
EveryWriteKept == rows[placed.region] = written

\* A proof that is given for a move describes the placement it is given for
\* (migration.ts:90-106, 420-442): a completion that could not be recorded is never taken for
\* that of a later move to the same cell.
ProofFitsPlacement ==
  answered # NoProof =>
    answered.proof.final = answered.epoch /\ answered.proof.move.target = answered.region

\* Only moves whose rollback was exercised are proved tested (migration.ts:325-400,
\* legacy-cutover.ts:181-212): the same move was really rolled back, and its source restored
\* at the very epoch the proved move started from.
TestedMovesOnly ==
  answered # NoProof => answered.proof.move \in reverted

MovesHonest == EveryWriteKept /\ ProofFitsPlacement /\ TestedMovesOnly

\* Seen from outside there is one store with one home, whatever is copied, deleted, undone and
\* recovered behind it.
Moves == INSTANCE TestedMoves WITH
  home <- placed.region,
  epoch <- placed.epoch,
  content <- rows[placed.region],
  latest <- placed.move,
  moving <- InRecovery,
  exercised <- reverted,
  proved <- IF answered = NoProof THEN {}
            ELSE {[move |-> answered.proof.move, epoch |-> answered.epoch]}

\* Every step of a move, a drill or a recovery (migration.ts:246-400 with
\* concrete-migration.ts:917-1348) is a write, a new epoch at the same home, a rollback that
\* counts as evidence, the one change of home it is evidence for, or cannot be seen.
KeepsMoves == Moves!Spec
=============================================================================
