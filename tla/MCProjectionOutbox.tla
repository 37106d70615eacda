------------------------- MODULE MCProjectionOutbox -------------------------
(* A workspace with one skill, drained by concurrent invocations, which     *)
(* commits many events where it is or fewer while it moves; and two         *)
(* workspaces that stay, with one fault or, where only one of them commits  *)
(* more than an event, with several.                                        *)
EXTENDS ProjectionOutbox, TLC

CONSTANT MovedEvents  \* bound: events committed by a workspace that moves

Stays(w) == move'[w] = "none" /\ placement'[w].epoch = 1
StayOrMove == Next /\ \A w \in Workspaces : Stays(w) \/ lastSequence'[w] <= MovedEvents
MCSpec == Init /\ [][StayOrMove]_vars

\* Faults and commits are all that is cut off, and neither is under fairness.
OneBusy == \E w \in Workspaces : \A other \in Workspaces \ {w} : lastSequence'[other] <= 1
FewFaults == faults' <= 1 \/ OneBusy
MCFairSpec == Init /\ [][Next /\ FewFaults]_vars /\ Fairness

Symmetry == Permutations(Drainers)
=============================================================================
