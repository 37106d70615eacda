---------------------------- MODULE MCBundleStore ----------------------------
(* Three operations, two of them with the same bundle. *)
EXTENDS BundleStore, TLC

CONSTANTS a1, a2, a3, d1, d2

Twins == (a1 :> d1) @@ (a2 :> d1) @@ (a3 :> d2)
=============================================================================
