--------------------------- MODULE MCSkillVersions ---------------------------
(* Two operations at a time on one skill; its policy trusts two credentials *)
(* with one automatic publication a day each.                               *)
EXTENDS SkillVersions, TLC

CONSTANTS c1, c2

Rule(c) == [credential |-> c, maxBump |-> "minor", limit |-> 1]

\* An administrator who turns automatic publication on and off.
Switched == {<<>>, <<Rule(c1), Rule(c2)>>}

\* An administrator who puts a rule in front of another.
Reordered == {<<Rule(c1)>>, <<Rule(c2), Rule(c1)>>}

Symmetry == Permutations(Attempts)
=============================================================================
