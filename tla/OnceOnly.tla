------------------------------- MODULE OnceOnly -------------------------------
(***************************************************************************)
(* What an idempotency key promises: the requests made under a key change  *)
(* the workspace at most once, and every request that succeeds is told the *)
(* outcome of that one change, which was made for the same input.  No      *)
(* records, locks, leases or clocks here.                                  *)
(***************************************************************************)
CONSTANTS Requests, Keys, Hashes, None

VARIABLES
  ask,      \* what each request asks: a key and the hash of its input
  effects,  \* the requests that changed something, by key
  told      \* the request whose outcome a request was told

vars == <<ask, effects, told>>

Init ==
  /\ ask = [r \in Requests |-> None]
  /\ effects = [k \in Keys |-> {}]
  /\ told = [r \in Requests |-> None]

Ask(r) ==
  /\ ask[r] = None
  /\ \E k \in Keys, h \in Hashes :
       ask' = [ask EXCEPT ![r] = [key |-> k, hash |-> h]]
  /\ UNCHANGED <<effects, told>>

\* The answer to the request that made the change may get lost.
Execute(r) ==
  /\ ask[r] # None
  /\ effects[ask[r].key] = {}
  /\ effects' = [effects EXCEPT ![ask[r].key] = {r}]
  /\ told' \in {told, [told EXCEPT ![r] = r]}
  /\ UNCHANGED ask

Replay(r) ==
  /\ ask[r] # None
  /\ \E q \in effects[ask[r].key] :
       /\ ask[q] = ask[r]
       /\ told' = [told EXCEPT ![r] = q]
  /\ UNCHANGED <<ask, effects>>

Next == \E r \in Requests : Ask(r) \/ Execute(r) \/ Replay(r)

Spec == Init /\ [][Next]_vars
=============================================================================
