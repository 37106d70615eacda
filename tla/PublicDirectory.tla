--------------------------- MODULE PublicDirectory ---------------------------
(***************************************************************************)
(* The control plane's public projection of one skill: the head row        *)
(* (public_skill_projection_heads), one row per projected version          *)
(* (public_skill_projections) and the withdrawal mark of each version      *)
(* (public_skill_version_lifecycle).  A directory entry is a value; the    *)
(* operators below are the SQL statements of                               *)
(* PostgresPublicProjectionDirectory, each one atomic.                     *)
(*                                                                         *)
(* Beside it, the public counter of one workspace with its checkpoint and  *)
(* the set of event ids already claimed.                                   *)
(***************************************************************************)
EXTENDS Integers

CONSTANT MaxVersion   \* versions a skill may publish in the model

ASSUME MaxVersionAssumption == MaxVersion \in Nat \ {0}

Versions == 1..MaxVersion

RowStates == {"absent", "published", "unpublished"}

Entries ==
  [seq : Nat, state : RowStates, current : 0..MaxVersion,
   rows : [Versions -> [seq : Nat, state : RowStates]],
   withdrawn : [Versions -> Nat]]

NoEntry ==
  [seq |-> 0, state |-> "absent", current |-> 0,
   rows |-> [v \in Versions |-> [seq |-> 0, state |-> "absent"]],
   withdrawn |-> [v \in Versions |-> 0]]

\* The head takes an event only if it has not taken a later one; the event of
\* equal sequence is a redelivery.
AcceptsHead(entry, n) == entry.seq <= n

\* publish: advance the head, then upsert the version's row under its own guard.
Published(entry, v, current, n) ==
  IF AcceptsHead(entry, n)
    THEN [entry EXCEPT
            !.seq = n, !.state = "published", !.current = current,
            !.rows[v] = IF @.seq <= n THEN [seq |-> n, state |-> "published"]
                                      ELSE @]
    ELSE entry

\* unpublish: advance the head, mark every projected version withdrawn at n,
\* and take down the rows that are not newer.
Unpublished(entry, v, n) ==
  IF AcceptsHead(entry, n)
    THEN [seq |-> n, state |-> "unpublished", current |-> v,
          rows |-> [u \in Versions |->
                      IF /\ entry.rows[u].state = "published"
                         /\ entry.rows[u].seq <= n
                        THEN [seq |-> n, state |-> "unpublished"]
                        ELSE entry.rows[u]],
          withdrawn |-> [u \in Versions |->
                           IF /\ entry.rows[u].state # "absent"
                              /\ entry.withdrawn[u] < n
                             THEN n ELSE entry.withdrawn[u]]]
    ELSE entry

\* What a public reader is served: rows in state published, under a published
\* head that is newer than the version's withdrawal.
Visible(entry) ==
  {v \in Versions : /\ entry.state = "published"
                    /\ entry.rows[v].state = "published"
                    /\ entry.seq > entry.withdrawn[v]}

-----------------------------------------------------------------------------
(***************************************************************************)
(* The public skill counter.                                               *)
(***************************************************************************)
Counters ==
  [total : Int, checkpoint : [epoch : Nat, seq : Nat], claimed : SUBSET Nat]

NoCounter ==
  [total |-> 0, checkpoint |-> [epoch |-> 0, seq |-> 0], claimed |-> {}]

Covers(checkpoint, epoch, n) ==
  \/ checkpoint.epoch > epoch
  \/ checkpoint.epoch = epoch /\ checkpoint.seq >= n

\* Mutant of Counted: every id that is not remembered counts.
CountedById(counter, epoch, n, delta) ==
  IF n \in counter.claimed
    THEN counter
    ELSE [counter EXCEPT
            !.claimed = @ \cup {n},
            !.checkpoint = IF Covers(@, epoch, n) THEN @
                           ELSE [epoch |-> epoch, seq |-> n],
            !.total = @ + delta]

\* One statement: claim the event id, advance the checkpoint only if the id was
\* new and the event is later, and add to the counter only if it advanced.
Counted(counter, epoch, n, delta) ==
  IF n \in counter.claimed
    THEN counter
    ELSE [counter EXCEPT
            !.claimed = @ \cup {n},
            !.checkpoint = IF Covers(@, epoch, n) THEN @
                           ELSE [epoch |-> epoch, seq |-> n],
            !.total = IF Covers(counter.checkpoint, epoch, n) THEN @
                      ELSE @ + delta]
=============================================================================
