--------------------------- MODULE OrderedDelivery ---------------------------
(***************************************************************************)
(* What the projection pipeline promises: the public side of a workspace   *)
(* is always the result of executing a prefix of its committed events, in  *)
(* commit order, each exactly once.  No drainers, claims, guards, epochs   *)
(* or retention here.                                                      *)
(***************************************************************************)
EXTENDS Integers, Sequences

CONSTANTS Workspaces, Skills, MaxVersion

VARIABLES
  log,        \* the committed events of each workspace
  delivered,  \* how many of them have been executed
  shown,      \* versions of each skill the public can see
  head,       \* the version each visible skill is shown under
  total,      \* the public counter
  routes      \* skills known to the routing directory

vars == <<log, delivered, shown, head, total, routes>>

Init ==
  /\ log = [w \in Workspaces |-> <<>>]
  /\ delivered = [w \in Workspaces |-> 0]
  /\ shown = [w \in Workspaces |-> [s \in Skills |-> {}]]
  /\ head = [w \in Workspaces |-> [s \in Skills |-> 0]]
  /\ total = [w \in Workspaces |-> 0]
  /\ routes = {}

\* A transaction appends its events as one block.
Commit(w) ==
  /\ Len(log'[w]) > Len(log[w])
  /\ SubSeq(log'[w], 1, Len(log[w])) = log[w]
  /\ log' = [log EXCEPT ![w] = log'[w]]
  /\ UNCHANGED <<delivered, shown, head, total, routes>>

Execute(w, ev) ==
  \/ /\ ev.kind = "published"
     /\ shown' = [shown EXCEPT ![w][ev.skill] = @ \cup {ev.version}]
     /\ head' = [head EXCEPT ![w][ev.skill] = ev.current]
     /\ UNCHANGED <<total, routes>>
  \/ /\ ev.kind = "unpublished"
     /\ shown' = [shown EXCEPT ![w][ev.skill] = {}]
     /\ head' = [head EXCEPT ![w][ev.skill] = 0]
     /\ UNCHANGED <<total, routes>>
  \/ /\ ev.kind = "count"
     /\ total' = [total EXCEPT ![w] = @ + ev.delta]
     /\ UNCHANGED <<shown, head, routes>>
  \/ /\ ev.kind = "route"
     /\ routes' = routes \cup {<<w, ev.skill>>}
     /\ UNCHANGED <<shown, head, total>>

Deliver(w) ==
  /\ delivered[w] < Len(log[w])
  /\ Execute(w, log[w][delivered[w] + 1])
  /\ delivered' = [delivered EXCEPT ![w] = @ + 1]
  /\ UNCHANGED log

Next == \E w \in Workspaces : Commit(w) \/ Deliver(w)

Spec == Init /\ [][Next]_vars
=============================================================================
