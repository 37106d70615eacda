--------------------------- MODULE ProjectionOutbox ---------------------------
(***************************************************************************)
(* A regional cell commits changes of skills together with the events that *)
(* announce them; drainer invocations deliver the events, in the order of  *)
(* each workspace's sequence, to the control plane's public directory; a   *)
(* workspace may meanwhile be moved to another cell or have its move       *)
(* rolled back.                                                            *)
(*                                                                         *)
(* Drainers are at-least-once: a claim is a lease, the lease may run out   *)
(* while its holder is still at work, and an invocation may die anywhere.  *)
(***************************************************************************)
EXTENDS PublicDirectory, Sequences, FiniteSets

CONSTANTS
  Workspaces, Skills,
  Regions,
  Drainers,      \* drainer invocations; a drainer's name is its claim token
  None,          \* no claim token
  FirstRegion,   \* where every workspace is placed at the start
  MaxEvents,     \* bound: events a workspace may commit
  MaxEpoch,      \* bound: placement epochs
  MaxFaults      \* bound: crashes, failed deliveries and overrun leases

ASSUME ConstantsAssumption ==
  /\ None \notin Drainers
  /\ FirstRegion \in Regions
  /\ MaxEvents \in Nat /\ MaxEpoch \in Nat \ {0} /\ MaxFaults \in Nat

VARIABLES
  skill,         \* regional: the state of each skill
  outbox,        \* regional: regional_projection_outbox, by sequence
  lastSequence,  \* regional: regional_projection_sequences
  pc, todo, current, blocked, cell,   \* the drainer invocations
  directory,     \* control plane: public projection of each skill
  counter,       \* control plane: public counter of each workspace
  routes,        \* control plane: resource routing directory
  placement,     \* control plane: placement of each workspace
  move,          \* progress of the workspace's move
  fence,         \* regional: regional_workspace_migration_fences of each cell
  routed,        \* routes (region and epoch) requests may still carry
  faults

region == <<skill, outbox, lastSequence>>
drain == <<pc, todo, current, blocked, cell>>
control == <<directory, counter, routes>>
moving == <<placement, move, fence, routed>>
vars == <<region, drain, control, moving, faults>>

SkillStates == [current : 0..MaxVersion, public : BOOLEAN, archived : BOOLEAN]

Events ==
  [kind : {"published", "unpublished", "count", "route"}, skill : Skills,
   version : 0..MaxVersion, current : 0..MaxVersion, delta : {-1, 0, 1}]

Rows ==
  [event : Events, epoch : Nat, token : Drainers \cup {None}, live : BOOLEAN,
   status : {"pending", "processed", "retired"}]

Items == Workspaces \X Nat

Placements ==
  [state : {"active", "moving"}, region : Regions, epoch : Nat,
   target : Regions, sourceEpoch : Nat]

\* The types of the tables and of the drainers' variables: in particular what a
\* drainer skips are workspaces (blockedWorkspaceIds), never single rows.
TypeOK ==
  /\ skill \in [Workspaces -> [Skills -> SkillStates]]
  /\ outbox \in [Workspaces -> Seq(Rows)]
  /\ lastSequence \in [Workspaces -> Nat]
  /\ pc \in [Drainers -> {"idle", "run", "apply", "ack"}]
  /\ todo \in [Drainers -> SUBSET Items]
  /\ current \in [Drainers -> Items \cup {<<>>}]
  /\ blocked \in [Drainers -> SUBSET Workspaces]
  /\ cell \in [Drainers -> Regions]
  /\ directory \in [Workspaces -> [Skills -> Entries]]
  /\ counter \in [Workspaces -> Counters]
  /\ routes \in SUBSET (Workspaces \X Skills)
  /\ placement \in [Workspaces -> Placements]
  /\ move \in [Workspaces ->
       {"none", "prepared", "cas", "quiesced", "drained", "resumed", "restored"}]
  /\ fence \in [Workspaces -> [Regions -> [raised : BOOLEAN, active : Nat]]]
  /\ routed \in [Workspaces -> SUBSET [region : Regions, epoch : Nat]]
  /\ faults \in Nat

Init ==
  /\ skill = [w \in Workspaces |-> [s \in Skills |->
       [current |-> 0, public |-> FALSE, archived |-> FALSE]]]
  /\ outbox = [w \in Workspaces |-> <<>>]
  /\ lastSequence = [w \in Workspaces |-> 0]
  /\ pc = [d \in Drainers |-> "idle"]
  /\ todo = [d \in Drainers |-> {}]
  /\ current = [d \in Drainers |-> <<>>]
  /\ blocked = [d \in Drainers |-> {}]
  /\ cell = [d \in Drainers |-> FirstRegion]
  /\ directory = [w \in Workspaces |-> [s \in Skills |-> NoEntry]]
  /\ counter = [w \in Workspaces |-> NoCounter]
  /\ routes = {}
  /\ placement = [w \in Workspaces |->
       [state |-> "active", region |-> FirstRegion, epoch |-> 1,
        target |-> FirstRegion, sourceEpoch |-> 1]]
  /\ move = [w \in Workspaces |-> "none"]
  /\ fence = [w \in Workspaces |-> [r \in Regions |->
       [raised |-> FALSE, active |-> 1]]]
  /\ routed = [w \in Workspaces |-> {[region |-> FirstRegion, epoch |-> 1]}]
  /\ faults = 0
-----------------------------------------------------------------------------
(***************************************************************************)
(* Regional transactions.  A request was routed with the region and epoch  *)
(* of an active placement; the cell's trigger admits its writes only if    *)
(* the workspace's fence there is down and the epoch is not too old.       *)
(***************************************************************************)
Admits(w, route) ==
  /\ ~fence[w][route.region].raised
  /\ route.epoch >= fence[w][route.region].active

Largest(S) == CHOOSE m \in S : \A n \in S : n <= m

\* The sequence counter survives the retention of outbox rows.
LiveSequences(w) ==
  {n \in DOMAIN outbox[w] : outbox[w][n].status # "retired"}

\* Mutant of NextSequence: numbering restarts once the old rows are gone.
NextSequenceOfRows(w) == Largest({0} \cup LiveSequences(w)) + 1

NextSequence(w) == Largest({lastSequence[w]} \cup LiveSequences(w)) + 1

NewRow(event, e) ==
  [event |-> event, epoch |-> e, token |-> None, live |-> FALSE,
   status |-> "pending"]

\* The outbox with the events evs inserted at the next sequences.
Extended(w, evs, e) ==
  LET first == NextSequence(w)
      last == first + Len(evs) - 1
      end == Largest({last, Len(outbox[w])})
  IN  [n \in 1..end |-> IF n \in first..last THEN NewRow(evs[n - first + 1], e)
                                             ELSE outbox[w][n]]

PublishedEvent(s, v, cur) ==
  [kind |-> "published", skill |-> s, version |-> v, current |-> cur, delta |-> 0]
UnpublishedEvent(s, v) ==
  [kind |-> "unpublished", skill |-> s, version |-> v, current |-> 0, delta |-> 0]
CountEvent(s, d) ==
  [kind |-> "count", skill |-> s, version |-> 0, current |-> 0, delta |-> d]
RouteEvent(s) ==
  [kind |-> "route", skill |-> s, version |-> 0, current |-> 0, delta |-> 0]

\* Mutant of CurrentProjection: a republished skill's versions in ascending order.
OldestFirstProjection(s, sk, history) ==
  IF ~sk.public \/ sk.archived
    THEN <<UnpublishedEvent(s, sk.current)>>
    ELSE [i \in 1..(IF history THEN sk.current ELSE 1) |->
            PublishedEvent(s, IF history THEN i ELSE sk.current, sk.current)]

\* enqueueCurrentSkillProjection: one event for a skill that is not public; for
\* a public one its current version, and after it, when it has just become
\* public again, every other published version.
CurrentProjection(s, sk, history) ==
  IF ~sk.public \/ sk.archived
    THEN <<UnpublishedEvent(s, sk.current)>>
    ELSE IF history
      THEN [i \in 1..sk.current |->
              PublishedEvent(s, IF i = 1 THEN sk.current ELSE i - 1, sk.current)]
      ELSE <<PublishedEvent(s, sk.current, sk.current)>>

\* Commit the skill's new state with its events, by one of its routes.
Commit(w, s, sk, evs) ==
  \E route \in routed[w] :
    /\ route.region = placement[w].region
    /\ Admits(w, route)
    /\ lastSequence[w] + Len(evs) <= MaxEvents
    /\ skill' = [skill EXCEPT ![w][s] = sk]
    /\ IF evs = <<>>
         THEN UNCHANGED <<outbox, lastSequence>>
         ELSE /\ outbox' = [outbox EXCEPT ![w] = Extended(w, evs, route.epoch)]
              /\ lastSequence' = [lastSequence EXCEPT
                                    ![w] = NextSequence(w) + Len(evs) - 1]
    /\ UNCHANGED <<drain, control, moving, faults>>

CreateSkill(w, s) ==
  /\ skill[w][s].current = 0
  /\ \E public \in BOOLEAN :
       Commit(w, s, [current |-> 1, public |-> public, archived |-> FALSE],
              (IF public THEN <<PublishedEvent(s, 1, 1)>> ELSE <<>>)
                \o <<RouteEvent(s), CountEvent(s, 1)>>)

\* PublicationService.publish announces a public skill only.
PublishCandidate(w, s) ==
  LET sk == [skill[w][s] EXCEPT !.current = @ + 1] IN
  /\ skill[w][s].current \in 1..(MaxVersion - 1)
  /\ ~skill[w][s].archived
  /\ Commit(w, s, sk, IF sk.public
                        THEN <<PublishedEvent(s, sk.current, sk.current)>>
                        ELSE <<>>)

\* An approved or automatically published amendment announces every skill.
PublishAmendment(w, s) ==
  LET sk == [skill[w][s] EXCEPT !.current = @ + 1] IN
  /\ skill[w][s].current \in 1..(MaxVersion - 1)
  /\ ~skill[w][s].archived
  /\ Commit(w, s, sk, CurrentProjection(s, sk, FALSE))

SetVisibility(w, s) ==
  /\ skill[w][s].current > 0
  /\ \E public \in BOOLEAN :
       LET sk == [skill[w][s] EXCEPT !.public = public]
       IN  Commit(w, s, sk,
                  CurrentProjection(s, sk, public /\ ~skill[w][s].public))

SetArchived(w, s) ==
  /\ skill[w][s].current > 0
  /\ \E archived \in BOOLEAN :
       LET was == skill[w][s].archived
           sk == [skill[w][s] EXCEPT !.archived = archived]
       IN  Commit(w, s, sk,
                  CurrentProjection(s, sk, ~archived /\ was)
                    \o IF archived # was
                         THEN <<CountEvent(s, IF archived THEN -1 ELSE 1)>>
                         ELSE <<>>)
-----------------------------------------------------------------------------
(***************************************************************************)
(* The drainer: drainRegionalProjectionOutbox.                             *)
(***************************************************************************)
Pending(w) == {n \in DOMAIN outbox[w] : outbox[w][n].status = "pending"}

\* Mutant of Claimable: any free row, whatever is pending before it.
AnyPending(w) == {n \in Pending(w) : ~outbox[w][n].live}

\* Mutant of Claimable: a row is free only when nobody ever claimed it.
NeverClaimed(w) ==
  {n \in Pending(w) : /\ outbox[w][n].token = None
                      /\ \A m \in Pending(w) : m >= n}

\* Claimable rows of w: pending, not under a live claim, none pending before.
Claimable(w) ==
  {n \in Pending(w) : /\ ~outbox[w][n].live
                      /\ \A m \in Pending(w) : m >= n}

Eligible(r, skip) ==
  UNION {{w} \X Claimable(w) :
           w \in {u \in Workspaces \ skip : placement[u].region = r}}

\* Claim one ordered event of every workspace; an invocation that is already
\* running goes on skipping the workspaces that failed in it.
Claim(d) ==
  \E r \in Regions :
    LET skip == IF pc[d] = "idle" THEN {} ELSE blocked[d]
        rows == Eligible(r, skip)
    IN  /\ \/ pc[d] = "idle"
           \/ pc[d] = "run" /\ todo[d] = {} /\ cell[d] = r
        /\ rows # {}
        /\ outbox' = [w \in Workspaces |-> [n \in DOMAIN outbox[w] |->
             IF <<w, n>> \in rows
               THEN [outbox[w][n] EXCEPT !.token = d, !.live = TRUE]
               ELSE outbox[w][n]]]
        /\ pc' = [pc EXCEPT ![d] = "run"]
        /\ todo' = [todo EXCEPT ![d] = rows]
        /\ blocked' = [blocked EXCEPT ![d] = skip]
        /\ cell' = [cell EXCEPT ![d] = r]
        /\ UNCHANGED <<skill, lastSequence, current, control, moving, faults>>

\* Mutant of Released: a failed delivery is given up.
GivenUp(d, items) ==
  [w \in Workspaces |-> [n \in DOMAIN outbox[w] |->
     IF /\ <<w, n>> \in items
        /\ outbox[w][n].token = d
        /\ outbox[w][n].status = "pending"
       THEN [outbox[w][n] EXCEPT !.token = None, !.live = FALSE,
                                 !.status = "processed"]
       ELSE outbox[w][n]]]

\* The rows among items that d still holds, released.
Released(d, items) ==
  [w \in Workspaces |-> [n \in DOMAIN outbox[w] |->
     IF /\ <<w, n>> \in items
        /\ outbox[w][n].token = d
        /\ outbox[w][n].status = "pending"
       THEN [outbox[w][n] EXCEPT !.token = None, !.live = FALSE]
       ELSE outbox[w][n]]]

\* Mutant of FailItem: the row is noted as blocked, not its workspace.
FailRow(d, item) ==
  /\ outbox' = Released(d, {item})
  /\ blocked' = [blocked EXCEPT ![d] = @ \cup {item}]
  /\ pc' = [pc EXCEPT ![d] = "run"]
  /\ current' = [current EXCEPT ![d] = <<>>]

\* The catch block: give the claim back and leave the workspace alone.
FailItem(d, item) ==
  /\ outbox' = Released(d, {item})
  /\ blocked' = [blocked EXCEPT ![d] = @ \cup {item[1]}]
  /\ pc' = [pc EXCEPT ![d] = "run"]
  /\ current' = [current EXCEPT ![d] = <<>>]

RowOf(item) == outbox[item[1]][item[2]]

\* The event's region and epoch are the active placement's, or those of the
\* source of a move under way.
Accepted(d, item) ==
  LET p == placement[item[1]] IN
  /\ p.region = cell[d]
  /\ \/ p.state = "active" /\ p.epoch = RowOf(item).epoch
     \/ p.state = "moving" /\ p.sourceEpoch = RowOf(item).epoch

\* Read the placement for the next claimed event; the effect comes later.
Check(d) ==
  /\ pc[d] = "run"
  /\ \E item \in todo[d] :
       /\ todo' = [todo EXCEPT ![d] = @ \ {item}]
       /\ IF Accepted(d, item)
            THEN /\ pc' = [pc EXCEPT ![d] = "apply"]
                 /\ current' = [current EXCEPT ![d] = item]
                 /\ UNCHANGED <<outbox, blocked>>
            ELSE FailItem(d, item)
  /\ UNCHANGED <<skill, lastSequence, cell, control, moving, faults>>

\* The event's effect on the control plane.
Project(w, n) ==
  LET row == outbox[w][n]
      ev == row.event
  IN  CASE ev.kind = "published" ->
             /\ directory' = [directory EXCEPT ![w][ev.skill] =
                                Published(@, ev.version, ev.current, n)]
             /\ UNCHANGED <<counter, routes>>
        [] ev.kind = "unpublished" ->
             /\ directory' = [directory EXCEPT ![w][ev.skill] =
                                Unpublished(@, ev.version, n)]
             /\ UNCHANGED <<counter, routes>>
        [] ev.kind = "count" ->
             /\ counter' = [counter EXCEPT ![w] =
                              Counted(@, row.epoch, n, ev.delta)]
             /\ UNCHANGED <<directory, routes>>
        [] ev.kind = "route" ->
             /\ routes' = routes \cup {<<w, ev.skill>>}
             /\ UNCHANGED <<directory, counter>>

Apply(d) ==
  /\ pc[d] = "apply"
  /\ Project(current[d][1], current[d][2])
  /\ pc' = [pc EXCEPT ![d] = "ack"]
  /\ UNCHANGED <<region, todo, current, blocked, cell, moving, faults>>

\* Acknowledge only under one's own claim; CLAIM_LOST otherwise.
Ack(d) ==
  LET item == current[d] IN
  /\ pc[d] = "ack"
  /\ IF RowOf(item).token = d /\ RowOf(item).status = "pending"
       THEN /\ outbox' = [outbox EXCEPT ![item[1]][item[2]] =
                 [@ EXCEPT !.token = None, !.live = FALSE,
                           !.status = "processed"]]
            /\ pc' = [pc EXCEPT ![d] = "run"]
            /\ current' = [current EXCEPT ![d] = <<>>]
            /\ UNCHANGED blocked
       ELSE FailItem(d, item)
  /\ UNCHANGED <<skill, lastSequence, todo, cell, control, moving, faults>>

\* Delivery or acknowledgement fails; the effect may or may not have happened.
Fail(d) ==
  /\ pc[d] \in {"apply", "ack"}
  /\ faults < MaxFaults
  /\ FailItem(d, current[d])
  /\ faults' = faults + 1
  /\ UNCHANGED <<skill, lastSequence, todo, cell, control, moving>>

\* The invocation ends: at its deadline it returns the claims it did not use.
Finish(d) ==
  /\ pc[d] = "run"
  /\ outbox' = Released(d, todo[d])
  /\ pc' = [pc EXCEPT ![d] = "idle"]
  /\ todo' = [todo EXCEPT ![d] = {}]
  /\ blocked' = [blocked EXCEPT ![d] = {}]
  /\ UNCHANGED <<skill, lastSequence, current, cell, control, moving, faults>>

Crash(d) ==
  /\ pc[d] # "idle"
  /\ faults < MaxFaults
  /\ pc' = [pc EXCEPT ![d] = "idle"]
  /\ todo' = [todo EXCEPT ![d] = {}]
  /\ current' = [current EXCEPT ![d] = <<>>]
  /\ blocked' = [blocked EXCEPT ![d] = {}]
  /\ faults' = faults + 1
  /\ UNCHANGED <<region, cell, control, moving>>

Holds(d, item) == item \in todo[d] \/ current[d] = item

\* A claim whose holder is gone, or has run out of its lease, lapses.
LapseClaim(w, n) ==
  /\ outbox[w][n].live
  /\ ~Holds(outbox[w][n].token, <<w, n>>)
  /\ outbox' = [outbox EXCEPT ![w][n].live = FALSE]
  /\ UNCHANGED <<skill, lastSequence, drain, control, moving, faults>>

OverrunLease(w, n) ==
  /\ outbox[w][n].live
  /\ Holds(outbox[w][n].token, <<w, n>>)
  /\ faults < MaxFaults
  /\ outbox' = [outbox EXCEPT ![w][n].live = FALSE]
  /\ faults' = faults + 1
  /\ UNCHANGED <<skill, lastSequence, drain, control, moving>>

\* Retention: acknowledged rows, the oldest first, and event ids the checkpoint
\* covers.
RetireRow(w, n) ==
  /\ outbox[w][n].status = "processed"
  /\ \A m \in 1..(n - 1) : outbox[w][m].status # "processed"
  /\ outbox' = [outbox EXCEPT ![w][n].status = "retired"]
  /\ UNCHANGED <<skill, lastSequence, drain, control, moving, faults>>

RetireCount(w) ==
  \E n \in counter[w].claimed :
    /\ Covers(counter[w].checkpoint, outbox[w][n].epoch, n)
    /\ counter' = [counter EXCEPT ![w].claimed = @ \ {n}]
    /\ UNCHANGED <<region, drain, directory, routes, moving, faults>>
-----------------------------------------------------------------------------
(***************************************************************************)
(* A move of a workspace, as its hooks touch the cell and its placement.   *)
(* The transitions of the placement are DataFn's; the code only demands    *)
(* that each raises the epoch.                                             *)
(***************************************************************************)
Drained(w) == Pending(w) = {}

\* prepareSource: the optimistic drain, while the placement is still active.
PrepareSource(w) ==
  /\ move[w] = "none"
  /\ placement[w].epoch + 2 <= MaxEpoch
  /\ Drained(w)
  /\ move' = [move EXCEPT ![w] = "prepared"]
  /\ UNCHANGED <<region, drain, control, placement, fence, routed, faults>>

BeginMove(w) ==
  /\ move[w] = "prepared"
  /\ \E target \in Regions \ {placement[w].region} :
       placement' = [placement EXCEPT ![w] =
         [@ EXCEPT !.state = "moving", !.epoch = placement[w].epoch + 1,
                   !.target = target, !.sourceEpoch = placement[w].epoch]]
  /\ move' = [move EXCEPT ![w] = "cas"]
  /\ UNCHANGED <<region, drain, control, fence, routed, faults>>

QuiesceSource(w) ==
  /\ move[w] = "cas"
  /\ fence' = [fence EXCEPT ![w][placement[w].region].raised = TRUE]
  /\ move' = [move EXCEPT ![w] = "quiesced"]
  /\ UNCHANGED <<region, drain, control, placement, routed, faults>>

\* Mutant of DrainOutboxes: trust the drain made before the quiesce.
SkipDrain(w) ==
  /\ move[w] = "quiesced"
  /\ move' = [move EXCEPT ![w] = "drained"]
  /\ UNCHANGED <<region, drain, control, placement, fence, routed, faults>>

\* drainOutboxes: the authoritative drain; copy and verification follow.
DrainOutboxes(w) ==
  /\ move[w] = "quiesced"
  /\ Drained(w)
  /\ move' = [move EXCEPT ![w] = "drained"]
  /\ UNCHANGED <<region, drain, control, placement, fence, routed, faults>>

Larger(a, b) == IF a < b THEN b ELSE a

\* Mutant of Lowered: the fence comes down for every epoch.
LoweredForAll(w, r, e) == [fence EXCEPT ![w][r].raised = FALSE]

\* The fence of cell r comes down for epochs from e on.
Lowered(w, r, e) ==
  [fence EXCEPT ![w][r] = [raised |-> FALSE, active |-> Larger(@.active, e)]]

ResumeTarget(w) ==
  /\ move[w] = "drained"
  /\ fence' = Lowered(w, placement[w].target, placement[w].epoch + 1)
  /\ move' = [move EXCEPT ![w] = "resumed"]
  /\ UNCHANGED <<region, drain, control, placement, routed, faults>>

\* A hook fails (a drain that does not converge in time, a copy, a check).
RollbackSource(w) ==
  /\ move[w] \in {"cas", "quiesced", "drained"}
  /\ fence' = Lowered(w, placement[w].region, placement[w].epoch + 1)
  /\ move' = [move EXCEPT ![w] = "restored"]
  /\ UNCHANGED <<region, drain, control, placement, routed, faults>>

\* The placement is active again, at the target or back at the source.
Activate(w) ==
  LET r == IF move[w] = "resumed" THEN placement[w].target
                                  ELSE placement[w].region
      e == placement[w].epoch + 1
  IN  /\ move[w] \in {"resumed", "restored"}
      /\ placement' = [placement EXCEPT ![w] =
           [@ EXCEPT !.state = "active", !.region = r, !.epoch = e]]
      /\ routed' = [routed EXCEPT ![w] = @ \cup {[region |-> r, epoch |-> e]}]
      /\ move' = [move EXCEPT ![w] = "none"]
      /\ UNCHANGED <<region, drain, control, fence, faults>>
-----------------------------------------------------------------------------
RegionalStep(w, s) ==
  \/ CreateSkill(w, s) \/ PublishCandidate(w, s) \/ PublishAmendment(w, s)
  \/ SetVisibility(w, s) \/ SetArchived(w, s)

DrainerStep(d) ==
  Claim(d) \/ Check(d) \/ Apply(d) \/ Ack(d) \/ Fail(d) \/ Finish(d) \/ Crash(d)

RowStep(w, n) == LapseClaim(w, n) \/ OverrunLease(w, n) \/ RetireRow(w, n)

MoveStep(w) ==
  \/ PrepareSource(w) \/ BeginMove(w) \/ QuiesceSource(w) \/ DrainOutboxes(w)
  \/ ResumeTarget(w) \/ RollbackSource(w) \/ Activate(w)

Next ==
  \/ \E w \in Workspaces, s \in Skills : RegionalStep(w, s)
  \/ \E d \in Drainers : DrainerStep(d)
  \/ \E w \in Workspaces : \E n \in DOMAIN outbox[w] : RowStep(w, n)
  \/ \E w \in Workspaces : RetireCount(w)
  \/ \E w \in Workspaces : MoveStep(w)

Spec == Init /\ [][Next]_vars

\* Invocations are scheduled every minute and, with a budget of seconds for
\* statements of milliseconds, do not keep reaching their deadline before the
\* first event; abandoned claims lapse by the clock; a move is carried through.
Fairness ==
  /\ \A d \in Drainers :
       /\ WF_vars(Claim(d)) /\ SF_vars(Check(d)) /\ WF_vars(Apply(d))
       /\ WF_vars(Ack(d)) /\ WF_vars(Finish(d))
  /\ \A w \in Workspaces : \A n \in 1..MaxEvents :
       WF_vars(n \in DOMAIN outbox[w] /\ LapseClaim(w, n))
  /\ \A w \in Workspaces :
       /\ WF_vars(QuiesceSource(w)) /\ WF_vars(DrainOutboxes(w))
       /\ WF_vars(ResumeTarget(w)) /\ WF_vars(Activate(w))

FairSpec == Spec /\ Fairness
-----------------------------------------------------------------------------
(***************************************************************************)
(* Properties.                                                             *)
(***************************************************************************)

PublicVersions(sk) ==
  IF sk.public /\ ~sk.archived THEN 1..sk.current ELSE {}

Counting(w) == {s \in Skills : skill[w][s].current > 0 /\ ~skill[w][s].archived}

\* When the outbox of a workspace has been drained, the public directory shows
\* exactly what the cell holds: every published version of every public skill,
\* under the current one, and nothing of any other; and the counter is right.
\* Redelivery, overtaken drainers and retention never leave it behind or ahead.
DrainedMeansCurrent ==
  \A w \in Workspaces : Drained(w) =>
    /\ counter[w].total = Cardinality(Counting(w))
    /\ \A s \in Skills :
         LET entry == directory[w][s] IN
         /\ Visible(entry) = PublicVersions(skill[w][s])
         /\ Visible(entry) # {} => entry.current = skill[w][s].current

\* Whatever part of the events has arrived, a public head always points to a
\* version that readers can see (discovery joins the head to that row): the
\* history of a republished skill is announced behind its current version.
CurrentVersionVisible ==
  \A w \in Workspaces, s \in Skills :
    LET entry == directory[w][s] IN
    entry.state = "published" => entry.current \in Visible(entry)

\* The control plane has taken the effect of event n.
Effected(w, n) ==
  LET ev == outbox[w][n].event IN
  CASE ev.kind \in {"published", "unpublished"} -> directory[w][ev.skill].seq >= n
    [] ev.kind = "count" -> Covers(counter[w].checkpoint, outbox[w][n].epoch, n)
    [] ev.kind = "route" -> <<w, ev.skill>> \in routes

\* An event is acknowledged, and may be forgotten, only after its effect: no
\* crash, lost claim or failed delivery drops one.
AckedMeansApplied ==
  \A w \in Workspaces : \A n \in DOMAIN outbox[w] \ Pending(w) : Effected(w, n)

\* The sum of the first n events' deltas, each of which is -1, 0 or 1.
Moved(w, n, delta) == {m \in 1..n : outbox[w][m].event.delta = delta}
SumTo(w, n) == Cardinality(Moved(w, n, 1)) - Cardinality(Moved(w, n, -1))

\* The counter is the sum of the counted events up to its checkpoint, each
\* once, although ids are forgotten and events are delivered again.
CountedOnce ==
  \A w \in Workspaces :
    /\ counter[w].checkpoint.seq \in 0..Len(outbox[w])
    /\ counter[w].total = SumTo(w, counter[w].checkpoint.seq)

\* A cell that has given a workspace away admits no write any more, whatever
\* epoch the request was routed with, and no cell admits one routed before a
\* roll back.
OnlyHomeAdmits ==
  \A w \in Workspaces : \A route \in routed[w] :
    Admits(w, route) =>
      /\ route.region = placement[w].region
      /\ route.epoch = IF placement[w].state = "active"
                         THEN placement[w].epoch ELSE placement[w].sourceEpoch

\* What the public sees of a workspace changes only by the cell that is its
\* home: a drainer left over in the old cell cannot republish after the move.
StaleCellSilent ==
  [][\A w \in Workspaces : \A d \in Drainers :
       (/\ pc[d] = "apply" /\ pc'[d] = "ack" /\ current[d][1] = w
        /\ cell[d] # placement[w].region)
       => UNCHANGED <<directory[w], counter[w].total, routes>>]_vars

\* Every committed event is delivered and acknowledged in the end.
EveryEventSettles ==
  \A w \in Workspaces : \A n \in 1..MaxEvents :
    (n \in DOMAIN outbox[w]) ~> (n \notin Pending(w))

\* Refinement: the pipeline implements in-order, exactly-once delivery.
Ordered == INSTANCE OrderedDelivery WITH
  log <- [w \in Workspaces |-> [n \in DOMAIN outbox[w] |-> outbox[w][n].event]],
  delivered <- [w \in Workspaces |->
                  Cardinality({n \in DOMAIN outbox[w] : Effected(w, n)})],
  shown <- [w \in Workspaces |-> [s \in Skills |-> Visible(directory[w][s])]],
  head <- [w \in Workspaces |-> [s \in Skills |->
             IF directory[w][s].state = "published" THEN directory[w][s].current
                                                    ELSE 0]],
  total <- [w \in Workspaces |-> counter[w].total],
  routes <- routes

\* Claims, redeliveries, overtaken drainers, retention and moves are stutters
\* of that promise; each event's first application is its Deliver step.
DeliversInOrder == Ordered!Spec
=============================================================================
