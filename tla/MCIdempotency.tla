---------------------------- MODULE MCIdempotency ----------------------------
(* One key, three attempts, two inputs. *)
EXTENDS Idempotency, TLC

Symmetry == Permutations(Requests) \cup Permutations(Hashes)
=============================================================================
