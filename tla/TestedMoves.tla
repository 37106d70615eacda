----------------------------- MODULE TestedMoves -----------------------------
(***************************************************************************)
(* What moving a workspace promises: the workspace is one store with one   *)
(* home.  Every change of its placement takes a new epoch and leaves its   *)
(* content alone; its home changes only by a move that was exercised, and  *)
(* rolled back, just before its fence; and proved is only the move that    *)
(* brought the workspace where it is.  No copies, gates, commands, hooks   *)
(* or records here.                                                        *)
(***************************************************************************)
EXTENDS Naturals

CONSTANTS Regions

VARIABLES
  home,       \* where the workspace is
  epoch,      \* how often its placement changed
  content,    \* the writes it holds
  latest,     \* the move it was last fenced for, with the epoch that move began at
  moving,     \* is that move under way
  exercised,  \* moves that were rolled back, with the epoch they ended at
  proved      \* the moves proved, with the epoch at that time

vars == <<home, epoch, content, latest, moving, exercised, proved>>

Init ==
  /\ home \in Regions
  /\ epoch = 1 /\ content = 1
  /\ latest = [source |-> home, target |-> home, epoch |-> 1] /\ moving = FALSE
  /\ exercised = {} /\ proved = {}

Write ==
  /\ content' = content + 1
  /\ UNCHANGED <<home, epoch, latest, moving, exercised, proved>>

Fence(target) ==
  /\ ~moving /\ target # home
  /\ latest' = [source |-> home, target |-> target, epoch |-> epoch]
  /\ moving' = TRUE
  /\ epoch' = epoch + 1
  /\ UNCHANGED <<home, content, exercised, proved>>

\* A move is being rolled back or recovered.
Renew ==
  /\ moving
  /\ epoch' = epoch + 1
  /\ UNCHANGED <<home, content, latest, moving, exercised, proved>>

\* A move is over: rolled back ...
Exercise ==
  /\ moving /\ home = latest.source
  /\ moving' = FALSE
  /\ epoch' = epoch + 1
  /\ exercised' = exercised \cup {[latest EXCEPT !.epoch = epoch + 1]}
  /\ UNCHANGED <<home, content, latest, proved>>

\* ... or settled where it led.
Settle ==
  /\ moving /\ home = latest.target
  /\ moving' = FALSE
  /\ epoch' = epoch + 1
  /\ UNCHANGED <<home, content, latest, exercised, proved>>

\* Between the exercise and the change of home, one epoch was taken: that of the fence.
Relocate ==
  /\ moving /\ home = latest.source
  /\ latest \in exercised /\ epoch = latest.epoch + 1
  /\ home' = latest.target
  /\ epoch' = epoch + 1
  /\ UNCHANGED <<content, latest, moving, exercised, proved>>

Prove ==
  /\ ~moving /\ home = latest.target /\ latest \in exercised
  /\ proved' = {[move |-> latest, epoch |-> epoch]}
  /\ UNCHANGED <<home, epoch, content, latest, moving, exercised>>

Next ==
  \/ Write \/ Renew \/ Exercise \/ Settle \/ Relocate \/ Prove
  \/ \E target \in Regions : Fence(target)

Spec == Init /\ [][Next]_vars
=============================================================================
