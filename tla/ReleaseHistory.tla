--------------------------- MODULE ReleaseHistory ---------------------------
(***************************************************************************)
(* What publishing a skill promises: what was released stands, in one line *)
(* that only grows at its end and only upwards, and not while the skill is *)
(* archived; a candidate is for the release it was made on, waits for one  *)
(* decision, and that decision stands; a number is given once.  No         *)
(* operations, reviews, policies or days here.                             *)
(***************************************************************************)
EXTENDS Naturals

CONSTANTS Revisions

VARIABLES
  head,     \* the release that is served
  release,  \* what each release is: its base, its semantic version and the rest
  open,     \* what each candidate that waits was made on
  refused,  \* candidates decided against
  archived

vars == <<head, release, open, refused, archived>>

Releases == DOMAIN release
Candidates == DOMAIN open
New(v) == v \notin Releases \cup Candidates \cup refused

Greater(t, s) ==
  \/ s.major < t.major
  \/ s.major = t.major /\ s.minor < t.minor
  \/ s.major = t.major /\ s.minor = t.minor /\ s.patch < t.patch

Init ==
  /\ head = 1
  /\ Releases = {1}
  /\ release[1].base = 0 /\ release[1].semver = [major |-> 1, minor |-> 0, patch |-> 0]
  /\ open = [v \in {} |-> 0]
  /\ refused = {}
  /\ archived = FALSE

Propose(v) ==
  /\ New(v)
  /\ \E base \in Releases :
       open' = [c \in Candidates \cup {v} |-> IF c = v THEN base ELSE open[c]]
  /\ UNCHANGED <<head, release, refused, archived>>

\* The candidate does not wait any more.
Decide(v) ==
  v \in Candidates /\ open' = [c \in Candidates \ {v} |-> open[c]]

Refuse(v) ==
  /\ Decide(v)
  /\ refused' = refused \cup {v}
  /\ UNCHANGED <<head, release, archived>>

\* The line grows: v is released on top of its end, under a greater version.
Grow(v) ==
  /\ ~archived
  /\ head' = v
  /\ DOMAIN release' = Releases \cup {v}
  /\ \A r \in Releases : release'[r] = release[r]
  /\ release'[v].base = head
  /\ Greater(release'[v].semver, release[head].semver)
  /\ UNCHANGED <<refused, archived>>

Publish(v) == Decide(v) /\ open[v] = head /\ Grow(v)

PublishAtOnce(v) == New(v) /\ Grow(v) /\ UNCHANGED open

Archive ==
  /\ archived' = ~archived
  /\ UNCHANGED <<head, release, open, refused>>

Next ==
  \/ \E v \in Revisions : Propose(v) \/ Refuse(v) \/ Publish(v) \/ PublishAtOnce(v)
  \/ Archive

Spec == Init /\ [][Next]_vars
=============================================================================
