------------------------ MODULE MCLocalProjections ------------------------
(* Two sources that claim one discovery path, two projects, three versions  *)
(* of which the second asks for a tool, and two processes.                  *)
EXTENDS LocalProjections, TLC

CONSTANTS a, b, path, v1, v2, v3, tool, P1, P2

MCPathOf == (a :> path) @@ (b :> path)
MCEnvelope == (v1 :> {}) @@ (v2 :> {tool}) @@ (v3 :> {})

Menu(wants, generations, touches) ==
  [wants |-> wants, generations |-> generations, meddling |-> touches]

MCPlans ==
  { \* one project updates, narrows and rolls back one skill
    Menu({<<a, v1, P1>>, <<a, v2, P1>>}, 3, 0),
    \* two sources compete for the path
    Menu({<<a, v1, P1>>, <<b, v1, P1>>}, 3, 0),
    \* two projects share a projection that one of them wants updated, and a user touches the path
    Menu({<<a, v1, P1>>, <<a, v3, P1>>, <<a, v1, P2>>}, 2, 1),
    \* the same while another source claims the path
    Menu({<<a, v1, P1>>, <<a, v1, P2>>, <<b, v1, P1>>}, 2, 1) }

MCSymmetry == Permutations(Procs)
=============================================================================
