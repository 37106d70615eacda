----------------------------- MODULE MCServices -----------------------------
(* Ten small systems that share nothing, checked together: each behaviour   *)
(* is one of their behaviours, chosen at the start, while the variables of  *)
(* the others stand as they began. The Git source is there four times, each *)
(* small where another is large: two previews that one worker applies while *)
(* people intervene; two previews, of which one may fail to prepare a       *)
(* bundle, and two workers; one preview, two workers and more               *)
(* interventions; and two paths whose commits also remove and break a       *)
(* bundle, one worker and an intervention. The history of a workspace is    *)
(* there twice: with more commands and with more days that expire. One pair *)
(* of actors serves as workers, setters, uploaders, editors and jobs, and   *)
(* the pair of digests as events of the history, so that few permutations   *)
(* have to be tried.                                                        *)
EXTENDS TLC, GitSources, UsageDelivery, Composition, ContextEdits, WorkspaceMoves,
        AnalyticsHistory

CONSTANTS w1, w2, d1, d2, pathP, pathQ, skillP, skillQ, r1, r2, r3
CONSTANTS own, far, deprecateFar, revokeFar, revokeOwn, A

VARIABLE part

MCSlugOf == (pathP :> skillP) @@ (pathQ :> skillQ)
MCCommits ==
  UNION {{(pathP :> d) @@ (pathQ :> other) : other \in {d, Missing, Invalid}} : d \in {d1, d2}}
MCOrderOf ==
  (deprecateFar :> [version |-> far, state |-> "deprecated"]) @@
  (revokeFar :> [version |-> far, state |-> "revoked"]) @@
  (revokeOwn :> [version |-> own, state |-> "revoked"])

OneSource == {"two", "pair", "busy", "wide"}
Parts == OneSource \cup {"usage", "composition", "edits", "moves", "history", "expiry"}
vars == <<part, gitVars, usageVars, compositionVars, contextVars, movesVars, historyVars>>

Init ==
  /\ part \in Parts
  /\ GitInit /\ UsageInit /\ CompositionInit /\ ContextInit /\ MovesInit /\ HistoryInit
  /\ part \notin OneSource => created = 0
  /\ part \in OneSource \ {"wide"} => published[skillQ] = 0
  /\ part # "edits" => context.stamp = 0
  /\ part # "moves" => rows[A] = 1

\* What a source's part goes up to.
Within(runs, workers, versions, intervened) ==
  /\ \A r \in Runs \ runs : run'[r] = Unused
  /\ Cardinality({w \in Workers : worker'[w] # Free}) <= workers
  /\ created' <= versions /\ source'.revision <= versions /\ interventions' <= intervened
\* Of two previews, either is the first: call it r1.
FirstCome == run'[r2] # Unused => run'[r1] # Unused
OnePath ==
  /\ binding'[pathQ] = Unbound
  /\ \A r \in Runs : run'[r] # Unused => run'[r].commit[pathQ] = Missing

\* Only the second of two previews that two workers apply is refused the preparation of a bundle.
Prepared ==
  \A r \in IF part = "pair" THEN Runs \ {r2} ELSE Runs : run[r] # run'[r] /\ run'[r] # Unused =>
    \A p \in Paths : run'[r].plan[p].action = "changed" => run'[r].plan[p].prepared

Importing ==
  /\ part \in OneSource /\ GitNext
  /\ \/ part = "two" /\ Within({r1, r2}, 1, 3, 1) /\ FirstCome /\ OnePath
     \/ part = "pair" /\ Within({r1, r2}, 2, 3, 0) /\ FirstCome /\ OnePath
     \/ part = "busy" /\ Within({r3}, 2, 4, 2) /\ created' + interventions' <= 4 /\ OnePath
     \/ part = "wide" /\ Within({r3}, 1, 3, 1)
  /\ Prepared
  /\ UNCHANGED <<part, usageVars, compositionVars, contextVars, movesVars, historyVars>>
Delivery ==
  /\ part = "usage" /\ UsageNext
  /\ UNCHANGED <<part, gitVars, compositionVars, contextVars, movesVars, historyVars>>
\* Orders on different versions do not meet.
Composing ==
  /\ part = "composition" /\ CompositionNext
  /\ \E v \in Lock : \A o \in Orders : claim'[o] # "absent" => OrderOf[o].version = v
  /\ UNCHANGED <<part, gitVars, usageVars, contextVars, movesVars, historyVars>>
Editing ==
  /\ part = "edits" /\ ContextNext
  /\ UNCHANGED <<part, gitVars, usageVars, compositionVars, movesVars, historyVars>>
Moving ==
  /\ part = "moves" /\ MovesNext
  /\ UNCHANGED <<part, gitVars, usageVars, compositionVars, contextVars, historyVars>>
Expiring ==
  /\ part \in {"history", "expiry"} /\ HistoryNext
  /\ \/ part = "history" /\ now' <= 3
     \/ part = "expiry" /\ left'.commands >= 1 /\ left'.fences = 2
  /\ UNCHANGED <<part, gitVars, usageVars, compositionVars, contextVars, movesVars>>

Next == Importing \/ Delivery \/ Composing \/ Editing \/ Moving \/ Expiring

Spec == Init /\ [][Next]_vars

MCSymmetry == Permutations({w1, w2}) \cup Permutations({d1, d2})

\* Every system's variables have their types, where the system is the one that is running.
TypeOK ==
  /\ part \in OneSource => GitTypeOK
  /\ part = "usage" => UsageTypeOK
  /\ part = "composition" => CompositionTypeOK
  /\ part = "edits" => ContextTypeOK
  /\ part = "moves" => MovesTypeOK
  /\ part \in {"history", "expiry"} => HistoryTypeOK
=============================================================================
