------------------------ MODULE SkillVersionsProofs ------------------------
(* Why the releases of a skill form one line, reserved numbers stay free,    *)
(* decisions stand and the promise of ReleaseHistory is kept, for any number *)
(* of operations, revisions, days and policies.                              *)
EXTENDS SkillVersions, FiniteSetTheorems, TLAPS

AttemptStates ==
  [pc : {"idle", "reserved", "amending", "publishing", "approving"},
   at : 0..MaxRevision, revision : 0..MaxRevision]

VersionsTyped == versions \in [Revisions -> Rows] /\ current \in Revisions

ReleasedVersioned ==
  \A v \in Revisions : versions[v].status = "published" <=> versions[v].semver.major > 0

\* What is proposed was proposed for a release; the first release was proposed for none.
ReleasedBases ==
  /\ versions[1].base = 0
  /\ \A v \in Revisions \ {1} : versions[v].status # "none" => versions[v].base \in Released

LineInv == VersionsTyped /\ ReleasedVersioned /\ ReleasedBases /\ ReleaseLine /\ DecisionsStand

\* Numbers from the counter on are not in use, reserved numbers are not in use either, and
\* the base an operation remembers was a release, which it then is for ever.
NumbersInv ==
  /\ nextRevision \in 2..(MaxRevision + 1)
  /\ attempt \in [Attempts -> AttemptStates]
  /\ \A v \in Revisions : v >= nextRevision => versions[v].status = "none"
  /\ \A a \in Attempts : attempt[a].pc = "reserved" => attempt[a].revision \in Revisions
  /\ \A a \in Attempts : attempt[a].pc # "idle" => attempt[a].at \in Revisions
  /\ \A a \in Attempts : attempt[a].pc \in {"reserved", "amending"} => attempt[a].at \in Released
  /\ ReservationsHeld

RestTyped == archived \in BOOLEAN /\ policy \in Policies /\ today \in 0..MaxDay

SkillInv == LineInv /\ NumbersInv /\ RestTyped

LEMMA NoRowTyped ==
  /\ NoRow \in Rows /\ NoRow.status = "none" /\ NoRow.semver.major = 0
  /\ NoRow.review = "none" /\ NoRow.base = 0
BY ConstantsAssumption DEF NoRow, Rows, SemVers, Unversioned, Rank

LEMMA InitHolds == Init => SkillInv
<1> SUFFICES ASSUME Init PROVE SkillInv
  OBVIOUS
<1> DEFINE first == [NoRow EXCEPT !.status = "published", !.semver = [major |-> 1, minor |-> 0, patch |-> 0]]
<1>1. NoRow \in Rows /\ NoRow.status = "none" /\ NoRow.semver.major = 0 /\ NoRow.review = "none"
  BY NoRowTyped
<1>2. /\ first \in Rows /\ first.status = "published" /\ first.semver.major = 1 /\ first.base = 0
      /\ first.review = "none"
  BY <1>1 DEF Rows, SemVers, NoRow
<1>3. /\ versions = [v \in Revisions |-> IF v = 1 THEN first ELSE NoRow]
      /\ current = 1 /\ nextRevision = 2 /\ attempt = [a \in Attempts |-> Idle]
  BY DEF Init
<1> HIDE DEF first
<1>4. 1 \in Revisions /\ MaxRevision \in Nat \ {0} /\ MaxDay \in Nat
  BY ConstantsAssumption DEF Revisions
<1>5. VersionsTyped
  BY <1>1, <1>2, <1>3, <1>4 DEF VersionsTyped
<1>6. versions[1] = first /\ \A v \in Revisions \ {1} : versions[v] = NoRow
  BY <1>3, <1>4
<1>7. Released = {1}
  BY <1>1, <1>2, <1>4, <1>6 DEF Released
<1>8. ReleasedVersioned /\ ReleasedBases /\ DecisionsStand
  BY <1>1, <1>2, <1>6, <1>7 DEF ReleasedVersioned, ReleasedBases, DecisionsStand
<1>9. ReleaseLine
  BY <1>2, <1>3, <1>6, <1>7 DEF ReleaseLine
<1>10. NumbersInv
  <2>1. nextRevision \in 2..(MaxRevision + 1) /\ \A v \in Revisions : v >= nextRevision => v # 1
    BY <1>3, <1>4 DEF Revisions
  <2>2. \A a \in Attempts : attempt[a] = Idle
    BY <1>3
  <2>3. Idle \in AttemptStates /\ Idle.pc = "idle"
    BY <1>4 DEF Idle, AttemptStates
  <2> QED
    BY <1>1, <1>3, <1>6, <2>1, <2>2, <2>3 DEF NumbersInv, ReservationsHeld
<1>11. RestTyped
  <2>1. archived \in BOOLEAN
    BY Zenon DEF Init
  <2>2. policy \in Policies /\ today \in 0..MaxDay
    BY <1>4 DEF Init
  <2> QED
    BY <2>1, <2>2 DEF RestTyped
<1> QED
  BY <1>5, <1>8, <1>9, <1>10, <1>11 DEF SkillInv, LineInv

\* A row that is no release and does not become one.
LEMMA RowKept ==
  ASSUME LineInv, NEW v \in Revisions, NEW row \in Rows, versions[v].status # "published",
         versions' = [versions EXCEPT ![v] = row], current' = current,
         row.status # "published", row.semver.major = 0,
         row.status # "none" => row.base \in Released,
         row.review # "approved", row.review = "rejected" => row.status = "rejected"
  PROVE  /\ LineInv' /\ Released' = Released
         /\ \A u \in Released : versions'[u] = versions[u]
<1>1. VersionsTyped' /\ versions'[v] = row /\ \A u \in Revisions \ {v} : versions'[u] = versions[u]
  BY DEF LineInv, VersionsTyped
<1>2. v \notin Released /\ v # 1 /\ Released' = Released /\ Released \subseteq Revisions
  BY <1>1 DEF LineInv, ReleaseLine, Released
<1>3. \A u \in Released : versions'[u] = versions[u]
  BY <1>1, <1>2
<1>4. ReleasedVersioned'
  BY <1>1 DEF LineInv, ReleasedVersioned
<1>5. ReleasedBases'
  BY <1>1, <1>2 DEF LineInv, ReleasedBases, ReleaseLine
<1>6. ReleaseLine'
  BY <1>2, <1>3 DEF LineInv, ReleaseLine
<1>7. DecisionsStand'
  BY <1>1 DEF LineInv, DecisionsStand
<1> QED
  BY <1>1, <1>2, <1>3, <1>4, <1>5, <1>6, <1>7 DEF LineInv

\* A version on top of another has a greater number, and a major part if the other has.
LEMMA BumpedAfter ==
  ASSUME NEW s \in SemVers, NEW bump \in DOMAIN Rank, s.major > 0
  PROVE  Bumped(s, bump) \in SemVers /\ Bumped(s, bump).major > 0 /\ Before(s, Bumped(s, bump))
<1>1. bump \in {"major", "minor", "patch"}
  BY DEF Rank
<1>2. CASE bump = "major"
  BY <1>2 DEF Bumped, Before, SemVers
<1>3. CASE bump = "minor"
  <2>1. Bumped(s, bump) = [s EXCEPT !.minor = s.minor + 1, !.patch = 0]
    BY <1>3 DEF Bumped
  <2>2. s.major \in Nat /\ s.minor \in Nat
    BY DEF SemVers
  <2> DEFINE raised == [s EXCEPT !.minor = s.minor + 1]
  <2>3. raised \in SemVers /\ raised.major = s.major /\ raised.minor = s.minor + 1
    BY <2>2 DEF SemVers
  <2>4. Bumped(s, bump) = [raised EXCEPT !.patch = 0]
    BY <2>1 DEF SemVers
  <2> HIDE DEF raised
  <2>5. /\ Bumped(s, bump).major = s.major /\ Bumped(s, bump).minor = s.minor + 1
        /\ Bumped(s, bump) \in SemVers
    BY <2>3, <2>4 DEF SemVers
  <2> QED
    BY <2>2, <2>5 DEF Before
<1>4. CASE bump = "patch"
  BY <1>4 DEF Bumped, Before, SemVers
<1> QED
  BY <1>1, <1>2, <1>3, <1>4

LEMMA BeforeOn ==
  ASSUME NEW s \in SemVers, NEW t \in SemVers, NEW u \in SemVers, Before(s, t), Before(t, u)
  PROVE  Before(s, u)
BY DEF Before, SemVers

\* A row becomes a release on top of the current one.
LEMMA RowReleased ==
  ASSUME LineInv, NEW v \in Revisions, NEW row \in Rows, NEW bump \in DOMAIN Rank,
         versions[v].status # "published",
         versions' = [versions EXCEPT ![v] = row], current' = v,
         row.status = "published", row.semver = NextSemVer(bump), row.base = current,
         row.review # "rejected"
  PROVE  /\ LineInv' /\ Released' = Released \cup {v}
         /\ \A u \in Released : versions'[u] = versions[u]
<1>1. VersionsTyped' /\ versions'[v] = row /\ \A u \in Revisions \ {v} : versions'[u] = versions[u]
  BY DEF LineInv, VersionsTyped
<1>2. v \notin Released /\ v # 1 /\ Released' = Released \cup {v} /\ Released \subseteq Revisions
  BY <1>1 DEF LineInv, ReleaseLine, Released
<1>3. \A u \in Released : versions'[u] = versions[u]
  BY <1>1, <1>2
<1>4. current \in Released /\ current \in Revisions /\ current # v
  BY <1>2 DEF LineInv, ReleaseLine
<1>5. row.semver.major > 0 /\ Before(versions[current].semver, row.semver)
  <2>1. versions[current].semver \in SemVers /\ versions[current].semver.major > 0
    BY <1>4 DEF LineInv, VersionsTyped, ReleasedVersioned, Released, Rows
  <2> QED
    BY <2>1, BumpedAfter DEF NextSemVer
<1>6. ReleasedVersioned'
  BY <1>1, <1>5 DEF LineInv, ReleasedVersioned
<1>7. ReleasedBases'
  BY <1>1, <1>2, <1>4 DEF LineInv, ReleasedBases
<1>8. ReleaseLine'
  <2>1. 1 \in Released' /\ current' \in Released'
    BY <1>2 DEF LineInv, ReleaseLine
  <2>2. ASSUME NEW u \in Released' PROVE versions'[u].base # current'
    <3>1. CASE u = v
      BY <1>1, <1>4, <3>1
    <3>2. CASE u \in Released
      <4>1. versions'[u].base = versions[u].base
        BY <1>3, <3>2
      <4>2. v # 0 /\ (u = 1 => versions[u].base = 0) /\ (u # 1 => versions[u].base \in Released)
        BY <3>2 DEF LineInv, ReleaseLine, ReleasedBases, Revisions
      <4> QED
        BY <1>2, <4>1, <4>2
    <3> QED
      BY <1>2, <2>2, <3>1, <3>2
  <2>3. ASSUME NEW u \in Released' \ {1}
        PROVE  /\ versions'[u].base \in Released'
               /\ Before(versions'[versions'[u].base].semver, versions'[u].semver)
               /\ \A t \in Released' \ {1, u} : versions'[t].base # versions'[u].base
    <3>1. \A t \in Released : versions[t].base # current
      BY DEF LineInv, ReleaseLine
    <3>2. CASE u = v
      BY <1>1, <1>2, <1>3, <1>4, <1>5, <3>1, <3>2
    <3>3. CASE u \in Released
      <4>1. /\ versions[u].base \in Released
            /\ Before(versions[versions[u].base].semver, versions[u].semver)
            /\ \A t \in Released \ {1, u} : versions[t].base # versions[u].base
        BY <2>3, <3>3 DEF LineInv, ReleaseLine
      <4>2. versions'[u] = versions[u] /\ versions'[versions[u].base] = versions[versions[u].base]
        BY <1>3, <3>3, <4>1
      <4>3. versions'[v].base # versions'[u].base
        BY <1>1, <3>1, <3>3, <4>2
      <4> QED
        BY <1>2, <1>3, <4>1, <4>2, <4>3
    <3> QED
      BY <1>2, <2>3, <3>2, <3>3
  <2>4. ASSUME NEW u \in Released' \ {current'}
        PROVE  Before(versions'[u].semver, versions'[current'].semver)
    <3>1. u \in Released /\ versions'[u] = versions[u] /\ versions'[current'] = row
      BY <1>1, <1>2, <1>3, <2>4
    <3>2. /\ versions[u].semver \in SemVers /\ versions[current].semver \in SemVers
          /\ row.semver \in SemVers
      BY <1>2, <1>4, <3>1 DEF LineInv, VersionsTyped, Rows
    <3>3. u # current => Before(versions[u].semver, versions[current].semver)
      BY <3>1 DEF LineInv, ReleaseLine
    <3> QED
      BY <1>5, <3>1, <3>2, <3>3, BeforeOn
  <2> QED
    BY <2>1, <2>2, <2>3, <2>4, Zenon DEF ReleaseLine
<1>9. DecisionsStand'
  BY <1>1 DEF LineInv, DecisionsStand
<1> QED
  BY <1>1, <1>2, <1>3, <1>6, <1>7, <1>8, <1>9 DEF LineInv

\* Numbers stay as they should when an operation goes on and a number comes into use that is
\* nobody's.
LEMMA NumbersKept ==
  ASSUME NumbersInv, NEW a \in Attempts, NEW state \in AttemptStates,
         attempt' = [attempt EXCEPT ![a] = state],
         nextRevision' \in 2..(MaxRevision + 1), nextRevision' >= nextRevision,
         state.pc = "reserved" =>
           state.revision = nextRevision /\ nextRevision' = nextRevision + 1,
         state.pc # "idle" => state.at \in Revisions,
         state.pc \in {"reserved", "amending"} => state.at \in Released',
         Released \subseteq Released',
         \A v \in Revisions : versions[v].status = "none" =>
           \/ versions'[v].status = "none"
           \/ /\ v < nextRevision' /\ state.pc # "reserved"
              /\ v >= nextRevision \/ (attempt[a].pc = "reserved" /\ v = attempt[a].revision)
  PROVE  NumbersInv'
<1>0. MaxRevision \in Nat /\ nextRevision \in Nat /\ nextRevision' \in Nat /\ Revisions \subseteq Nat
  BY ConstantsAssumption DEF NumbersInv, Revisions
<1>1. attempt' \in [Attempts -> AttemptStates] /\ attempt'[a] = state
      /\ \A b \in Attempts \ {a} : attempt'[b] = attempt[b]
  BY DEF NumbersInv
<1>2. ASSUME NEW v \in Revisions, v >= nextRevision' PROVE versions'[v].status = "none"
  BY <1>0, <1>2 DEF NumbersInv
<1>3. ASSUME NEW b \in Attempts
      PROVE  /\ attempt'[b].pc \in {"reserved", "amending"} => attempt'[b].at \in Released'
             /\ attempt'[b].pc # "idle" => attempt'[b].at \in Revisions
  BY <1>1 DEF NumbersInv
<1>4. ASSUME NEW b \in Attempts, attempt'[b].pc = "reserved"
      PROVE  /\ attempt'[b].revision \in Revisions /\ attempt'[b].revision < nextRevision'
             /\ versions'[attempt'[b].revision].status = "none"
  <2>1. CASE b = a
    <3>1. attempt'[b].revision = nextRevision /\ nextRevision' = nextRevision + 1
      BY <1>1, <1>4, <2>1
    <3>2. nextRevision \in Revisions /\ nextRevision < nextRevision'
      BY <1>0, <3>1 DEF NumbersInv, Revisions
    <3>3. versions[nextRevision].status = "none"
      BY <1>0, <3>2 DEF NumbersInv
    <3> QED
      BY <1>1, <1>4, <2>1, <3>1, <3>2, <3>3
  <2>2. CASE b # a
    <3>1. /\ attempt'[b] = attempt[b] /\ attempt[b].revision \in Revisions
          /\ attempt[b].revision < nextRevision /\ versions[attempt[b].revision].status = "none"
          /\ attempt[a].pc = "reserved" => attempt[b].revision # attempt[a].revision
      BY <1>1, <1>4, <2>2 DEF NumbersInv, ReservationsHeld
    <3> DEFINE r == attempt[b].revision
    <3>2. r \in Revisions /\ r \in Nat /\ r < nextRevision /\ versions[r].status = "none"
      BY <1>0, <3>1
    <3>3. ~(attempt[a].pc = "reserved" /\ r = attempt[a].revision)
      BY <3>1
    <3>4. attempt'[b].revision = r
      BY <3>1
    <3> HIDE DEF r
    <3>5. versions'[r].status = "none"
      <4>1. \/ versions'[r].status = "none"
            \/ r >= nextRevision \/ (attempt[a].pc = "reserved" /\ r = attempt[a].revision)
        BY <3>2
      <4>2. ~(r >= nextRevision)
        BY <1>0, <3>2
      <4> QED
        BY <3>3, <4>1, <4>2
    <3>6. r < nextRevision'
      BY <1>0, <3>2
    <3> QED
      BY <3>2, <3>4, <3>5, <3>6
  <2> QED
    BY <2>1, <2>2
<1>5. ASSUME NEW b \in Attempts, NEW d \in Attempts \ {b},
             attempt'[b].pc = "reserved", attempt'[d].pc = "reserved"
      PROVE  attempt'[d].revision # attempt'[b].revision
  <2>1. \A e \in Attempts \ {a} : attempt'[e].pc = "reserved" => attempt'[e].revision < nextRevision
    BY <1>1 DEF NumbersInv, ReservationsHeld
  <2>2. state.pc = "reserved" => state.revision = nextRevision
    OBVIOUS
  <2>3. CASE b = a \/ d = a
    <3>1. b # a => attempt'[b].revision < nextRevision /\ attempt'[b].revision \in Nat
      BY <1>0, <1>4, <1>5, <2>1
    <3>2. d # a => attempt'[d].revision < nextRevision /\ attempt'[d].revision \in Nat
      BY <1>0, <1>4, <1>5, <2>1
    <3> QED
      BY <1>0, <1>1, <1>5, <2>2, <2>3, <3>1, <3>2
  <2>4. CASE b # a /\ d # a
    BY <1>1, <1>5, <2>4 DEF NumbersInv, ReservationsHeld
  <2> QED
    BY <2>3, <2>4
<1>6. ReservationsHeld'
  BY <1>4, <1>5 DEF ReservationsHeld
<1> QED
  BY <1>1, <1>2, <1>3, <1>4, <1>6 DEF NumbersInv

\* The same when nothing is going on but rows that were in use.
LEMMA NumbersStill ==
  ASSUME NumbersInv, UNCHANGED <<nextRevision, attempt>>, Released \subseteq Released',
         \A v \in Revisions : versions[v].status = "none" => versions'[v].status = "none"
  PROVE  NumbersInv'
<1>1. \A v \in Revisions : v >= nextRevision' => versions'[v].status = "none"
  BY DEF NumbersInv
<1>2. ReservationsHeld'
  BY DEF NumbersInv, ReservationsHeld
<1> QED
  BY <1>1, <1>2 DEF NumbersInv

\* What becomes of releases in a step (see ReleasesFrozen).
Frozen ==
  /\ \A v \in Released : versions'[v] = versions[v]
  /\ current' # current => versions'[current'].base = current /\ ~archived

LEMMA NumbersFacts ==
  ASSUME SkillInv
  PROVE  /\ MaxRevision \in Nat /\ nextRevision \in Nat /\ Revisions \subseteq Nat
         /\ nextRevision <= MaxRevision =>
              nextRevision \in Revisions /\ versions[nextRevision].status = "none"
         /\ Idle \in AttemptStates /\ Idle.pc = "idle"
         /\ current \in Released /\ Released \subseteq Revisions /\ 0 \notin Revisions
         /\ \A v \in Revisions : versions[v] \in Rows
         /\ \A a \in Attempts : attempt[a] \in AttemptStates
BY ConstantsAssumption
   DEF SkillInv, NumbersInv, LineInv, VersionsTyped, ReleaseLine, Revisions, Idle, AttemptStates, Released

\* A step of an operation that touches no row.
LEMMA Remembering ==
  ASSUME SkillInv, NEW a \in Attempts, NEW state \in AttemptStates,
         attempt' = [attempt EXCEPT ![a] = state],
         UNCHANGED <<versions, current, archived, policy, today>>,
         nextRevision' \in 2..(MaxRevision + 1), nextRevision' >= nextRevision,
         state.pc = "reserved" =>
           state.revision = nextRevision /\ nextRevision' = nextRevision + 1,
         state.pc # "idle" => state.at \in Revisions,
         state.pc \in {"reserved", "amending"} => state.at \in Released
  PROVE  SkillInv' /\ Frozen
<1>1. LineInv' /\ Released' = Released
  BY DEF SkillInv, LineInv, VersionsTyped, ReleasedVersioned, ReleasedBases, ReleaseLine,
         DecisionsStand, Released
<1>2. NumbersInv'
  BY <1>1, NumbersKept DEF SkillInv
<1> QED
  BY <1>1, <1>2 DEF SkillInv, RestTyped, Frozen

LEMMA Reserving == ASSUME SkillInv, NEW a \in Attempts, Reserve(a) PROVE SkillInv' /\ Frozen
<1> DEFINE state == [pc |-> "reserved", at |-> current, revision |-> nextRevision]
<1>1. nextRevision <= MaxRevision /\ nextRevision' = nextRevision + 1
      /\ attempt' = [attempt EXCEPT ![a] = state]
      /\ UNCHANGED <<versions, current, archived, policy, today>>
  BY DEF Reserve, Begin, TakeRevision
<1>2. state \in AttemptStates /\ nextRevision' \in 2..(MaxRevision + 1) /\ nextRevision' >= nextRevision
  BY <1>1, NumbersFacts DEF AttemptStates, SkillInv, NumbersInv, Revisions
<1> QED
  BY <1>1, <1>2, NumbersFacts, Remembering

LEMMA Picking ==
  ASSUME SkillInv, NEW a \in Attempts, ReadBase(a) \/ PickCandidate(a) \/ PickReview(a) \/ GiveUp(a)
  PROVE  SkillInv' /\ Frozen
<1>1. UNCHANGED <<versions, current, nextRevision, archived, policy, today>>
  BY Zenon DEF ReadBase, PickCandidate, PickReview, GiveUp
<1>2. nextRevision' \in 2..(MaxRevision + 1) /\ nextRevision' >= nextRevision
  BY <1>1, NumbersFacts DEF SkillInv, NumbersInv
<1>3. CASE GiveUp(a)
  BY <1>1, <1>2, <1>3, NumbersFacts, Remembering DEF GiveUp, Done
<1>4. ASSUME NEW pc \in {"amending", "publishing", "approving"}, NEW at \in Revisions,
             Begin(a, pc, at, 0), pc = "amending" => at = current
      PROVE  SkillInv' /\ Frozen
  <2> DEFINE state == [pc |-> pc, at |-> at, revision |-> 0]
  <2>1. state \in AttemptStates /\ state.pc = pc /\ state.at = at
    BY NumbersFacts DEF AttemptStates, Revisions
  <2>2. attempt' = [attempt EXCEPT ![a] = state]
    BY <1>4 DEF Begin
  <2> HIDE DEF state
  <2> QED
    BY <1>1, <1>2, <1>4, <2>1, <2>2, NumbersFacts, Remembering
<1>5. CASE ReadBase(a)
  BY <1>4, <1>5, NumbersFacts DEF ReadBase
<1>6. CASE PickCandidate(a)
  <2>1. PICK v \in Revisions : Begin(a, "publishing", v, 0)
    BY <1>6 DEF PickCandidate
  <2> QED
    BY <1>4, <2>1
<1>7. CASE PickReview(a)
  <2>1. PICK v \in Revisions : Begin(a, "approving", v, 0)
    BY <1>7 DEF PickReview
  <2> QED
    BY <1>4, <2>1
<1> QED
  BY <1>3, <1>5, <1>6, <1>7

LEMMA Inserting == ASSUME SkillInv, NEW a \in Attempts, InsertCandidate(a) PROVE SkillInv' /\ Frozen
<1> DEFINE v == attempt[a].revision
<1>1. PICK bump \in Bumps : versions' = [versions EXCEPT ![v] =
        [NoRow EXCEPT !.status = "pending_review", !.base = attempt[a].at, !.bump = bump]]
  BY DEF InsertCandidate
<1> DEFINE row == [NoRow EXCEPT !.status = "pending_review", !.base = attempt[a].at, !.bump = bump]
<1>2. /\ attempt[a].pc = "reserved" /\ versions[v].status = "none"
      /\ attempt' = [attempt EXCEPT ![a] = Idle]
      /\ UNCHANGED <<current, nextRevision, archived, policy, today>>
  BY DEF InsertCandidate, Done
<1>3. v \in Revisions /\ attempt[a].at \in Released /\ v < nextRevision
  BY <1>2 DEF SkillInv, NumbersInv, ReservationsHeld
<1>4. /\ row \in Rows /\ row.status = "pending_review" /\ row.semver.major = 0
      /\ row.base = attempt[a].at /\ row.review = "none"
  <2>1. attempt[a].at \in 0..MaxRevision /\ bump \in DOMAIN Rank
    BY NumbersFacts, ConstantsAssumption DEF AttemptStates
  <2> QED
    BY <2>1, NoRowTyped DEF Rows
<1>5. versions' = [versions EXCEPT ![v] = row]
  BY <1>1
<1> HIDE DEF row
<1>6. LineInv' /\ Released' = Released /\ \A u \in Released : versions'[u] = versions[u]
  BY <1>2, <1>3, <1>4, <1>5, RowKept DEF SkillInv
<1>7. \A u \in Revisions \ {v} : versions'[u] = versions[u]
  BY <1>5 DEF SkillInv, LineInv, VersionsTyped
<1>8. NumbersInv'
  <2>1. \A u \in Revisions : versions[u].status = "none" =>
          \/ versions'[u].status = "none"
          \/ u < nextRevision' /\ u = attempt[a].revision
    BY <1>2, <1>3, <1>7
  <2>2. nextRevision' \in 2..(MaxRevision + 1) /\ nextRevision' >= nextRevision
    BY <1>2, NumbersFacts DEF SkillInv, NumbersInv
  <2> QED
    BY <1>2, <1>6, <2>1, <2>2, NumbersFacts, NumbersKept DEF SkillInv
<1> QED
  BY <1>2, <1>6, <1>8 DEF SkillInv, RestTyped, Frozen

LEMMA Amending == ASSUME SkillInv, NEW a \in Attempts, Amend(a) PROVE SkillInv' /\ Frozen
<1> DEFINE v == nextRevision
<1>1. /\ attempt[a].at = current /\ ~archived /\ v <= MaxRevision
      /\ nextRevision' = nextRevision + 1 /\ attempt' = [attempt EXCEPT ![a] = Idle]
      /\ UNCHANGED <<archived, policy, today>>
  BY DEF Amend, CurrentBase, TakeRevision, Done
<1>2. /\ v \in Revisions /\ versions[v].status = "none"
      /\ nextRevision' \in 2..(MaxRevision + 1) /\ nextRevision' >= nextRevision
  BY <1>1, NumbersFacts DEF SkillInv, NumbersInv
<1>3. PICK c \in Credentials \cup {None} : \E bump \in Bumps :
        LET row == [NoRow EXCEPT !.base = attempt[a].at, !.bump = bump, !.by = c] IN
        \/ /\ versions' = [versions EXCEPT ![v] =
                [row EXCEPT !.status = "pending_review", !.review = "pending"]]
           /\ current' = current
        \/ \E i \in DOMAIN policy :
             /\ versions' = [versions EXCEPT ![v] =
                  [row EXCEPT !.status = "published", !.review = "approved",
                              !.semver = NextSemVer(bump), !.rule = i, !.day = today]]
             /\ current' = v
  BY DEF Amend, Matching
<1>4. PICK bump \in Bumps :
        LET row == [NoRow EXCEPT !.base = attempt[a].at, !.bump = bump, !.by = c] IN
        \/ /\ versions' = [versions EXCEPT ![v] =
                [row EXCEPT !.status = "pending_review", !.review = "pending"]]
           /\ current' = current
        \/ \E i \in DOMAIN policy :
             /\ versions' = [versions EXCEPT ![v] =
                  [row EXCEPT !.status = "published", !.review = "approved",
                              !.semver = NextSemVer(bump), !.rule = i, !.day = today]]
             /\ current' = v
  BY <1>3
<1> DEFINE row == [NoRow EXCEPT !.base = attempt[a].at, !.bump = bump, !.by = c]
           pended == [row EXCEPT !.status = "pending_review", !.review = "pending"]
           released(i) ==
             [row EXCEPT !.status = "published", !.review = "approved",
                         !.semver = NextSemVer(bump), !.rule = i, !.day = today]
<1>5. \/ versions' = [versions EXCEPT ![v] = pended] /\ current' = current
      \/ \E i \in DOMAIN policy : versions' = [versions EXCEPT ![v] = released(i)] /\ current' = v
  BY <1>4
<1>6. bump \in DOMAIN Rank /\ row \in Rows /\ row.semver.major = 0 /\ row.base = current
  <2>1. current \in 0..MaxRevision /\ bump \in DOMAIN Rank
    BY NumbersFacts, ConstantsAssumption DEF Revisions
  <2> QED
    BY <1>1, <2>1, NoRowTyped DEF Rows
<1> HIDE DEF row
<1>7. ASSUME NEW r \in Rows, r.base = current, versions' = [versions EXCEPT ![v] = r], LineInv',
             Released \subseteq Released', \A u \in Released : versions'[u] = versions[u],
             current' \in {current, v}
      PROVE  SkillInv' /\ Frozen
  <2>1. versions'[v] = r /\ \A u \in Revisions \ {v} : versions'[u] = versions[u]
    BY <1>2, <1>7 DEF SkillInv, LineInv, VersionsTyped
  <2>2. \A u \in Revisions : versions[u].status = "none" =>
          versions'[u].status = "none" \/ (u < nextRevision' /\ u >= nextRevision)
    BY <1>1, <2>1, NumbersFacts
  <2>3. NumbersInv'
    BY <1>1, <1>2, <1>7, <2>2, NumbersFacts, NumbersKept DEF SkillInv
  <2> QED
    BY <1>1, <1>7, <2>1, <2>3 DEF SkillInv, RestTyped, Frozen
<1>8. ASSUME versions' = [versions EXCEPT ![v] = pended], current' = current
      PROVE  SkillInv' /\ Frozen
  <2>1. pended \in Rows
    BY <1>6 DEF Rows
  <2>2. /\ pended.status = "pending_review" /\ pended.semver.major = 0 /\ pended.base = current
        /\ pended.review = "pending"
    BY <1>6 DEF Rows
  <2> HIDE DEF pended
  <2>3. LineInv' /\ Released' = Released /\ \A u \in Released : versions'[u] = versions[u]
    BY <1>2, <1>8, <2>1, <2>2, NumbersFacts, RowKept DEF SkillInv
  <2> QED
    BY <1>7, <1>8, <2>1, <2>2, <2>3
<1>9. ASSUME NEW i \in DOMAIN policy, versions' = [versions EXCEPT ![v] = released(i)], current' = v
      PROVE  SkillInv' /\ Frozen
  <2>1. i \in Nat /\ today \in Nat
    BY ConstantsAssumption DEF SkillInv, RestTyped
  <2>2. NextSemVer(bump) \in SemVers
    <3>1. versions[current].semver \in SemVers /\ versions[current].semver.major > 0
      BY NumbersFacts DEF SkillInv, LineInv, ReleasedVersioned, Released, Rows
    <3> QED
      BY <1>6, <3>1, BumpedAfter DEF NextSemVer
  <2> DEFINE new == released(i)
  <2>3. new \in Rows
    BY <1>6, <2>1, <2>2 DEF Rows
  <2>4. /\ new.status = "published" /\ new.semver = NextSemVer(bump) /\ new.base = current
        /\ new.review = "approved"
    BY <1>6 DEF Rows
  <2>5. versions' = [versions EXCEPT ![v] = new]
    BY <1>9
  <2> HIDE DEF new
  <2>6. LineInv' /\ Released' = Released \cup {v} /\ \A u \in Released : versions'[u] = versions[u]
    BY <1>2, <1>6, <1>9, <2>3, <2>4, <2>5, RowReleased DEF SkillInv
  <2> QED
    BY <1>7, <1>9, <2>3, <2>4, <2>5, <2>6
<1> QED
  BY <1>5, <1>8, <1>9

\* Release(v, review), by Publish and Approve.
LEMMA Releasing ==
  ASSUME SkillInv, NEW a \in Attempts, NEW v \in Revisions, NEW review \in {"none", "pending", "approved"},
         versions[v].status = "pending_review", ~archived, CurrentBase(versions[v].base),
         Release(v, review), Done(a), UNCHANGED <<nextRevision, archived, policy, today>>
  PROVE  SkillInv' /\ Frozen
<1> DEFINE bump == versions[v].bump
           row == [versions[v] EXCEPT !.status = "published", !.review = review,
                                      !.semver = NextSemVer(bump), !.day = today]
<1>1. bump \in DOMAIN Rank /\ today \in Nat /\ versions[v] \in Rows /\ versions[v].base = current
  BY NumbersFacts, ConstantsAssumption DEF Rows, SkillInv, RestTyped, CurrentBase
<1>2. NextSemVer(bump) \in SemVers
  <2>1. versions[current].semver \in SemVers /\ versions[current].semver.major > 0
    BY NumbersFacts DEF SkillInv, LineInv, ReleasedVersioned, Released, Rows
  <2> QED
    BY <1>1, <2>1, BumpedAfter DEF NextSemVer
<1>3. versions' = [versions EXCEPT ![v] = row] /\ current' = v
  BY DEF Release, SkillInv, LineInv, VersionsTyped
<1>4. /\ row \in Rows /\ row.status = "published" /\ row.semver = NextSemVer(bump)
      /\ row.base = current /\ row.review = review
  BY <1>1, <1>2 DEF Rows
<1> HIDE DEF row, bump
<1>5. LineInv' /\ Released' = Released \cup {v} /\ \A u \in Released : versions'[u] = versions[u]
  BY <1>1, <1>3, <1>4, RowReleased DEF SkillInv
<1>6. versions'[v] = row /\ \A u \in Revisions \ {v} : versions'[u] = versions[u]
  BY <1>3 DEF SkillInv, LineInv, VersionsTyped
<1>7. NumbersInv'
  <2>1. nextRevision' \in 2..(MaxRevision + 1) /\ nextRevision' >= nextRevision
    BY NumbersFacts DEF SkillInv, NumbersInv
  <2> QED
    BY <1>5, <1>6, <2>1, NumbersFacts, NumbersKept DEF SkillInv, Done
<1> QED
  BY <1>3, <1>4, <1>5, <1>6, <1>7 DEF SkillInv, RestTyped, Frozen

LEMMA Publishing ==
  ASSUME SkillInv, NEW a \in Attempts, Publish(a) \/ Approve(a) PROVE SkillInv' /\ Frozen
<1> DEFINE v == attempt[a].at
<1>1. v \in Revisions
  BY DEF Publish, Approve, SkillInv, NumbersInv
<1>2. ASSUME Publish(a) PROVE SkillInv' /\ Frozen
  <2>1. /\ versions[v].status = "pending_review" /\ ~archived /\ CurrentBase(versions[v].base)
        /\ Release(v, versions[v].review) /\ Done(a)
        /\ UNCHANGED <<nextRevision, archived, policy, today>>
    BY <1>2 DEF Publish, Publishable
  <2>2. versions[v].review \in {"none", "pending", "approved"}
    <3>1. versions[v].review \in {"none", "pending", "approved", "rejected"}
      BY <1>1, NumbersFacts DEF Rows
    <3>2. versions[v].review # "rejected"
      BY <1>1, <2>1 DEF SkillInv, LineInv, DecisionsStand
    <3> QED
      BY <3>1, <3>2
  <2> QED
    BY <1>1, <2>1, <2>2, Releasing
<1>3. ASSUME Approve(a) PROVE SkillInv' /\ Frozen
  BY <1>1, <1>3, Releasing DEF Approve, Undecided
<1> QED
  BY <1>2, <1>3

LEMMA Rejecting ==
  ASSUME SkillInv, NEW v \in Revisions, RejectCandidate(v) \/ RejectReview(v) PROVE SkillInv' /\ Frozen
<1>1. /\ versions[v] \in Rows /\ versions[v].status = "pending_review"
      /\ UNCHANGED <<current, nextRevision, archived, policy, attempt, today>>
  BY NumbersFacts DEF RejectCandidate, RejectReview, Undecided
<1>2. ASSUME NEW row \in Rows, versions' = [versions EXCEPT ![v] = row], row.status = "rejected",
             row.semver = versions[v].semver, row.base = versions[v].base, row.review # "approved"
      PROVE  SkillInv' /\ Frozen
  <2>1. row.semver.major = 0
    BY <1>1, <1>2 DEF SkillInv, LineInv, ReleasedVersioned, SemVers, Rows
  <2>2. row.base \in Released
    BY <1>1, <1>2 DEF SkillInv, LineInv, ReleasedBases, ReleaseLine, Released
  <2>3. LineInv' /\ Released' = Released /\ \A u \in Released : versions'[u] = versions[u]
    BY <1>1, <1>2, <2>1, <2>2, RowKept DEF SkillInv
  <2>4. versions'[v] = row /\ \A u \in Revisions \ {v} : versions'[u] = versions[u]
    BY <1>2 DEF SkillInv, LineInv, VersionsTyped
  <2>5. NumbersInv'
    BY <1>1, <2>3, <2>4, NumbersStill DEF SkillInv
  <2> QED
    BY <1>1, <2>3, <2>5 DEF SkillInv, RestTyped, Frozen
<1>3. CASE RejectCandidate(v)
  <2> DEFINE row == [versions[v] EXCEPT !.status = "rejected"]
  <2>1. /\ row \in Rows /\ row.status = "rejected" /\ row.semver = versions[v].semver
        /\ row.base = versions[v].base /\ row.review = versions[v].review
    BY <1>1 DEF Rows
  <2>2. versions' = [versions EXCEPT ![v] = row]
    BY <1>3 DEF RejectCandidate, SkillInv, LineInv, VersionsTyped
  <2> HIDE DEF row
  <2>3. versions[v].review # "approved"
    BY <1>1 DEF SkillInv, LineInv, DecisionsStand
  <2> QED
    BY <1>2, <2>1, <2>2, <2>3
<1>4. CASE RejectReview(v)
  <2> DEFINE said == [versions[v] EXCEPT !.review = "rejected"]
             row == [said EXCEPT !.status = "rejected"]
  <2>1. said \in Rows /\ said.semver = versions[v].semver /\ said.base = versions[v].base
        /\ said.status = "pending_review" /\ said.review = "rejected"
    BY <1>1 DEF Rows
  <2>2. versions' = [[versions EXCEPT ![v] = said] EXCEPT ![v] = row]
    BY <1>1, <1>4, <2>1 DEF RejectReview, SkillInv, LineInv, VersionsTyped
  <2> HIDE DEF said
  <2>3. versions' = [versions EXCEPT ![v] = row]
    BY <2>2 DEF SkillInv, LineInv, VersionsTyped
  <2>4. /\ row \in Rows /\ row.status = "rejected" /\ row.semver = versions[v].semver
        /\ row.base = versions[v].base /\ row.review = "rejected"
    BY <2>1 DEF Rows
  <2> HIDE DEF row
  <2> QED
    BY <1>2, <2>3, <2>4
<1> QED
  BY <1>3, <1>4

LEMMA Administering ==
  ASSUME SkillInv, SetArchived \/ UpdatePolicy \/ NextDay \/ UNCHANGED vars PROVE SkillInv' /\ Frozen
<1>1. UNCHANGED <<versions, current, nextRevision, attempt>>
  BY DEF SetArchived, UpdatePolicy, NextDay, vars
<1>2. LineInv' /\ Released' = Released /\ Frozen
  BY <1>1 DEF SkillInv, LineInv, VersionsTyped, ReleasedVersioned, ReleasedBases, ReleaseLine,
              DecisionsStand, Released, Frozen
<1>3. NumbersInv'
  BY <1>1, <1>2, NumbersStill DEF SkillInv
<1>4. RestTyped'
  <2>1. CASE SetArchived
    <3>1. archived' \in BOOLEAN
      BY <2>1, Zenon DEF SetArchived
    <3> QED
      BY <2>1, <3>1 DEF SetArchived, SkillInv, RestTyped
  <2>2. CASE UpdatePolicy
    BY <2>2 DEF UpdatePolicy, SkillInv, RestTyped
  <2>3. CASE NextDay
    BY <2>3, ConstantsAssumption DEF NextDay, SkillInv, RestTyped
  <2>4. CASE UNCHANGED vars
    BY <2>4 DEF vars, SkillInv, RestTyped
  <2> QED
    BY <2>1, <2>2, <2>3, <2>4
<1> QED
  BY <1>2, <1>3, <1>4 DEF SkillInv

LEMMA StepHolds == ASSUME SkillInv, [Next]_vars PROVE SkillInv' /\ Frozen
<1>1. ASSUME NEW a \in Attempts, AttemptStep(a) PROVE SkillInv' /\ Frozen
  BY <1>1, Reserving, Picking, Inserting, Amending, Publishing, Zenon DEF AttemptStep
<1>2. ASSUME NEW v \in Revisions, RejectCandidate(v) \/ RejectReview(v) PROVE SkillInv' /\ Frozen
  BY <1>2, Rejecting
<1> QED
  BY <1>1, <1>2, Administering, Zenon DEF Next

\* The invariant, from which all that follows is read off.
LEMMA Inductive == Spec => []SkillInv
<1>1. SkillInv /\ [Next]_vars => SkillInv'
  BY StepHolds
<1> QED
  BY <1>1, InitHolds, PTL DEF Spec

\* The columns keep their types, published versions and only they have a number.
THEOREM TypeCorrect == Spec => []TypeOK
<1>1. SkillInv => TypeOK
  BY DEF SkillInv, LineInv, NumbersInv, RestTyped, VersionsTyped, ReleasedVersioned, AttemptStates, TypeOK
<1> QED
  BY <1>1, Inductive, PTL

\* The releases form one line whose end is the release pointer (publication.ts, reviews.ts,
\* amendments.ts), whatever is proposed, decided and given up at the same time.
THEOREM OneLine == Spec => []ReleaseLine
<1>1. SkillInv => ReleaseLine
  BY DEF SkillInv, LineInv
<1> QED
  BY <1>1, Inductive, PTL

\* A reserved revision number is its holder's until the candidate is inserted
\* (skill-versions.ts), whatever amendments and other candidates are made meanwhile.
THEOREM NumbersReserved == Spec => []ReservationsHeld
<1>1. SkillInv => ReservationsHeld
  BY DEF SkillInv, NumbersInv
<1> QED
  BY <1>1, Inductive, PTL

\* What a reviewer decided is what happened to the version (reviews.ts with publication.ts).
THEOREM Decided == Spec => []DecisionsStand
<1>1. SkillInv => DecisionsStand
  BY DEF SkillInv, LineInv
<1> QED
  BY <1>1, Inductive, PTL

\* Nothing changes a release, and the pointer moves only to a release made on top of it, never
\* in an archived skill.
THEOREM NeverChanged == Spec => ReleasesFrozen
<1>1. SkillInv /\ [Next]_vars =>
        [/\ \A v \in Released : versions'[v] = [versions[v] EXCEPT !.review = versions'[v].review]
         /\ current' # current => versions'[current'].base = current /\ ~archived]_vars
  <2> SUFFICES ASSUME SkillInv, [Next]_vars
               PROVE  /\ \A v \in Released :
                           versions'[v] = [versions[v] EXCEPT !.review = versions'[v].review]
                      /\ current' # current => versions'[current'].base = current /\ ~archived
    OBVIOUS
  <2>1. Frozen
    BY StepHolds
  <2>2. ASSUME NEW v \in Released
        PROVE  versions'[v] = [versions[v] EXCEPT !.review = versions'[v].review]
    <3>1. versions'[v] = versions[v] /\ versions[v] \in Rows
      BY <2>1, NumbersFacts DEF Frozen
    <3> QED
      BY <3>1 DEF Rows
  <2> QED
    BY <2>1, <2>2 DEF Frozen
<1> QED
  BY <1>1, Inductive, PTL DEF Spec, ReleasesFrozen
-----------------------------------------------------------------------------
(* The promise: ReleaseHistory.                                              *)

LEMMA WhereRowsAre ==
  ASSUME SkillInv
  PROVE  /\ History!Releases = Released /\ History!Candidates = Waiting
         /\ \A v \in Revisions : versions[v].status = "none" => History!New(v)
         /\ Released \subseteq Revisions /\ current \in Released
<1>1. Released \subseteq Revisions /\ current \in Released
  BY NumbersFacts
<1>2. History!Releases = Released /\ History!Candidates = Waiting
  BY DEF History!Releases, History!Candidates
<1>3. \A v \in Revisions :
        versions[v].status = "none" => v \notin Released \cup Waiting \cup Refused
  BY DEF Released, Waiting, Refused
<1>. QED  BY <1>1, <1>2, <1>3 DEF History!New

LEMMA Unseen ==
  ASSUME UNCHANGED <<versions, current, archived>>
  PROVE  UNCHANGED History!vars
BY DEF History!vars, Released, Waiting, Refused

\* A step that changes one row is shown by what it makes of that row.
OnlyRow(v) == \A u \in Revisions \ {v} : versions'[u] = versions[u]

LEMMA ProposalShown ==
  ASSUME SkillInv, NEW v \in Revisions, OnlyRow(v), UNCHANGED <<current, archived>>,
         versions[v].status = "none", versions'[v].status = "pending_review",
         versions'[v].base \in Released
  PROVE  History!Next
<1>1. Released' = Released /\ Refused' = Refused /\ Waiting' = Waiting \cup {v}
  BY DEF OnlyRow, Released, Waiting, Refused
<1>2. v \notin Released /\ v \notin Waiting
  BY DEF Released, Waiting
<1>3. \A u \in Released \cup Waiting : versions'[u] = versions[u]
  BY <1>2 DEF OnlyRow, Released, Waiting
<1>4. [u \in Waiting |-> versions[u].base]' =
        [c \in History!Candidates \cup {v} |->
           IF c = v THEN versions'[v].base ELSE [u \in Waiting |-> versions[u].base][c]]
  BY <1>1, <1>3, WhereRowsAre
<1>5. [u \in Released |-> versions[u]]' =
        [u \in Released |-> versions[u]]
  BY <1>1, <1>3
<1>6. History!Propose(v)
  BY <1>1, <1>4, <1>5, WhereRowsAre DEF History!Propose
<1>. QED  BY <1>6 DEF History!Next

LEMMA RefusalShown ==
  ASSUME SkillInv, NEW v \in Revisions, OnlyRow(v), UNCHANGED <<current, archived>>,
         versions[v].status = "pending_review", versions'[v].status = "rejected"
  PROVE  History!Next
<1>1. /\ Released' = Released /\ Refused' = Refused \cup {v} /\ Waiting' = Waiting \ {v}
      /\ v \in Waiting
  BY DEF OnlyRow, Released, Waiting, Refused
<1>2. \A u \in Released \cup (Waiting \ {v}) : versions'[u] = versions[u]
  BY DEF OnlyRow, Released, Waiting
<1>3. [u \in Waiting |-> versions[u].base]' =
        [c \in History!Candidates \ {v} |-> [u \in Waiting |-> versions[u].base][c]]
  BY <1>1, <1>2, WhereRowsAre
<1>4. [u \in Released |-> versions[u]]' =
        [u \in Released |-> versions[u]]
  BY <1>1, <1>2
<1>5. History!Refuse(v)
  BY <1>1, <1>3, <1>4, WhereRowsAre DEF History!Refuse, History!Decide
<1>. QED  BY <1>5 DEF History!Next

LEMMA ReleaseShown ==
  ASSUME SkillInv, SkillInv', NEW v \in Revisions, OnlyRow(v), current' = v,
         ~archived, archived' = archived,
         versions[v].status \in {"none", "pending_review"}, versions'[v].status = "published",
         versions'[v].base = current,
         versions[v].status = "pending_review" => versions[v].base = current
  PROVE  History!Next
<1> DEFINE line == [u \in Released |-> versions[u]]
<1>1. /\ Released' = Released \cup {v} /\ Refused' = Refused /\ Waiting' = Waiting \ {v}
      /\ v \notin Released
  BY DEF OnlyRow, Released, Waiting, Refused
<1>2. \A u \in Released \cup (Waiting \ {v}) : versions'[u] = versions[u]
  BY <1>1 DEF OnlyRow, Released, Waiting
<1>3. current \in Released /\ current # v
  BY <1>1, WhereRowsAre
<1>4. Before(versions[current].semver, versions'[v].semver)
  <2>1. Before(versions'[current].semver, versions'[v].semver)
    BY <1>1, <1>3 DEF SkillInv, LineInv, ReleaseLine
  <2>. QED  BY <1>2, <1>3, <2>1
<1>5. /\ DOMAIN line' = Released \cup {v} /\ \A r \in Released : line'[r] = line[r]
      /\ line'[v].base = current /\ line'[v].semver = versions'[v].semver
      /\ line[current].semver = versions[current].semver
  BY <1>1, <1>2, <1>3
<1>6. History!Greater(line'[v].semver, line[current].semver)
  BY <1>4, <1>5 DEF Before, History!Greater
<1>7. History!Grow(v)
  BY <1>1, <1>5, <1>6, WhereRowsAre DEF History!Grow
<1>8. CASE versions[v].status = "pending_review"
  <2>1. v \in Waiting
    BY <1>8 DEF Waiting
  <2>2. [u \in Waiting |-> versions[u].base]' =
          [c \in History!Candidates \ {v} |-> [u \in Waiting |-> versions[u].base][c]]
    BY <1>1, <1>2, WhereRowsAre
  <2>3. History!Decide(v)
    BY <2>1, <2>2, WhereRowsAre DEF History!Decide
  <2>4. History!Publish(v)
    BY <1>7, <1>8, <2>1, <2>3 DEF History!Publish
  <2>. QED  BY <2>4 DEF History!Next
<1>9. CASE versions[v].status = "none"
  <2>1. Waiting' = Waiting /\ \A u \in Waiting : versions'[u] = versions[u]
    BY <1>1, <1>2, <1>9 DEF Waiting
  <2>2. [u \in Waiting |-> versions[u].base]' = [u \in Waiting |-> versions[u].base]
    BY <2>1
  <2>3. History!PublishAtOnce(v)
    BY <1>7, <1>9, <2>2, WhereRowsAre DEF History!PublishAtOnce
  <2>. QED  BY <2>3 DEF History!Next
<1>. QED  BY <1>8, <1>9

LEMMA InsertingShown == ASSUME SkillInv, NEW a \in Attempts, InsertCandidate(a) PROVE History!Next
<1> DEFINE v == attempt[a].revision
<1>1. PICK bump \in Bumps : versions' = [versions EXCEPT ![v] =
        [NoRow EXCEPT !.status = "pending_review", !.base = attempt[a].at, !.bump = bump]]
  BY DEF InsertCandidate
<1>2. /\ attempt[a].pc = "reserved" /\ versions[v].status = "none"
      /\ UNCHANGED <<current, archived>>
  BY DEF InsertCandidate
<1>3. v \in Revisions /\ attempt[a].at \in Released
  BY <1>2 DEF SkillInv, NumbersInv
<1>4. OnlyRow(v) /\ versions'[v].status = "pending_review" /\ versions'[v].base = attempt[a].at
  BY <1>1, <1>3, NoRowTyped DEF OnlyRow, SkillInv, LineInv, VersionsTyped, Rows
<1> QED
  BY <1>2, <1>3, <1>4, ProposalShown

LEMMA AmendingShown == ASSUME SkillInv, SkillInv', NEW a \in Attempts, Amend(a) PROVE History!Next
<1> DEFINE v == nextRevision
<1>1. attempt[a].at = current /\ v <= MaxRevision /\ ~archived /\ archived' = archived
  BY DEF Amend, CurrentBase
<1>2. v \in Revisions /\ versions[v].status = "none" /\ current \in Released
  BY <1>1, NumbersFacts
<1>3. PICK c \in Credentials \cup {None}, bump \in Bumps :
        LET row == [NoRow EXCEPT !.base = current, !.bump = bump, !.by = c] IN
        \/ /\ versions' = [versions EXCEPT ![v] =
                [row EXCEPT !.status = "pending_review", !.review = "pending"]]
           /\ current' = current
        \/ \E i \in DOMAIN policy :
             /\ versions' = [versions EXCEPT ![v] =
                  [row EXCEPT !.status = "published", !.review = "approved",
                              !.semver = NextSemVer(bump), !.rule = i, !.day = today]]
             /\ current' = v
  BY <1>1 DEF Amend, Matching
<1>4. ASSUME NEW new, versions' = [versions EXCEPT ![v] = new]
      PROVE  OnlyRow(v) /\ versions'[v] = new
  BY <1>2, <1>4 DEF OnlyRow, SkillInv, LineInv, VersionsTyped
<1> DEFINE row == [NoRow EXCEPT !.base = current, !.bump = bump, !.by = c]
           pended == [row EXCEPT !.status = "pending_review", !.review = "pending"]
           released(i) ==
             [row EXCEPT !.status = "published", !.review = "approved",
                         !.semver = NextSemVer(bump), !.rule = i, !.day = today]
<1>5. CASE versions' = [versions EXCEPT ![v] = pended] /\ current' = current
  <2>1. pended.status = "pending_review" /\ pended.base = current
    BY DEF NoRow
  <2> HIDE DEF pended
  <2>2. OnlyRow(v) /\ versions'[v] = pended
    BY <1>4, <1>5
  <2> QED
    BY <1>1, <1>2, <1>5, <2>1, <2>2, ProposalShown
<1>6. ASSUME NEW i, versions' = [versions EXCEPT ![v] = released(i)], current' = v
      PROVE  History!Next
  <2> DEFINE new == released(i)
  <2>1. new.status = "published" /\ new.base = current
    BY DEF NoRow
  <2> HIDE DEF new
  <2>2. OnlyRow(v) /\ versions'[v] = new
    BY <1>4, <1>6 DEF new
  <2> QED
    BY <1>1, <1>2, <1>6, <2>1, <2>2, ReleaseShown
<1> QED
  BY <1>3, <1>5, <1>6

LEMMA PublishingShown ==
  ASSUME SkillInv, SkillInv', NEW a \in Attempts, Publish(a) \/ Approve(a) PROVE History!Next
<1> DEFINE v == attempt[a].at
<1>1. PICK review : Release(v, review)
  BY DEF Publish, Approve
<1>2. /\ v \in Revisions /\ versions[v].status = "pending_review" /\ versions[v].base = current
      /\ ~archived /\ archived' = archived
  BY DEF Publish, Approve, Publishable, Undecided, CurrentBase, SkillInv, NumbersInv
<1>3. versions[v] \in Rows
  BY <1>2, NumbersFacts
<1>4. /\ OnlyRow(v) /\ current' = v
      /\ versions'[v].status = "published" /\ versions'[v].base = current
  BY <1>1, <1>2, <1>3 DEF Release, OnlyRow, SkillInv, LineInv, VersionsTyped, Rows
<1> QED
  BY <1>2, <1>4, ReleaseShown

LEMMA RejectingShown ==
  ASSUME SkillInv, NEW v \in Revisions, RejectCandidate(v) \/ RejectReview(v) PROVE History!Next
<1>1. /\ versions[v] \in Rows /\ versions[v].status = "pending_review"
      /\ UNCHANGED <<current, archived>>
  BY NumbersFacts DEF RejectCandidate, RejectReview, Undecided
<1>2. CASE RejectCandidate(v)
  <2>1. OnlyRow(v) /\ versions'[v].status = "rejected"
    BY <1>1, <1>2 DEF RejectCandidate, OnlyRow, SkillInv, LineInv, VersionsTyped, Rows
  <2> QED
    BY <1>1, <2>1, RefusalShown
<1>3. CASE RejectReview(v)
  <2> DEFINE said == [versions[v] EXCEPT !.review = "rejected"]
             row == [said EXCEPT !.status = "rejected"]
  <2>1. said \in Rows /\ said.status = "pending_review" /\ row.status = "rejected"
    BY <1>1 DEF Rows
  <2>2. versions' = [[versions EXCEPT ![v] = said] EXCEPT ![v] = row]
    BY <1>3, <2>1 DEF RejectReview, SkillInv, LineInv, VersionsTyped
  <2> HIDE DEF said, row
  <2>3. OnlyRow(v) /\ versions'[v].status = "rejected"
    BY <2>1, <2>2 DEF OnlyRow, SkillInv, LineInv, VersionsTyped
  <2> QED
    BY <1>1, <2>3, RefusalShown
<1> QED
  BY <1>2, <1>3

LEMMA StepShown == ASSUME SkillInv, [Next]_vars PROVE [History!Next]_History!vars
<1>1. SkillInv'
  BY StepHolds
<1>2. ASSUME NEW a \in Attempts, AttemptStep(a) PROVE [History!Next]_History!vars
  <2>1. CASE Reserve(a) \/ ReadBase(a) \/ PickCandidate(a) \/ PickReview(a) \/ GiveUp(a)
    <3>1. UNCHANGED <<versions, current, archived>>
      BY <2>1, Zenon DEF Reserve, ReadBase, PickCandidate, PickReview, GiveUp
    <3> QED
      BY <3>1, Unseen
  <2>2. CASE InsertCandidate(a)
    BY <2>2, InsertingShown
  <2>3. CASE Amend(a)
    BY <1>1, <2>3, AmendingShown
  <2>4. CASE Publish(a) \/ Approve(a)
    BY <1>1, <2>4, PublishingShown
  <2> QED
    BY <1>2, <2>1, <2>2, <2>3, <2>4, Zenon DEF AttemptStep
<1>3. ASSUME NEW v \in Revisions, RejectCandidate(v) \/ RejectReview(v)
      PROVE  [History!Next]_History!vars
  BY <1>3, RejectingShown
<1>4. CASE UpdatePolicy \/ NextDay \/ UNCHANGED vars
  <2>1. UNCHANGED <<versions, current, archived>>
    BY <1>4 DEF UpdatePolicy, NextDay, vars
  <2> QED
    BY <2>1, Unseen
<1>5. CASE SetArchived
  <2>1. UNCHANGED <<versions, current>> /\ archived' = ~archived
    BY <1>5, Zenon DEF SetArchived
  <2>2. History!Archive
    BY <2>1 DEF History!Archive, Released, Waiting, Refused
  <2> QED
    BY <2>2 DEF History!Next
<1> QED
  BY <1>2, <1>3, <1>4, <1>5, Zenon DEF Next

LEMMA InitShown == ASSUME Init PROVE History!Init
<1> DEFINE first == [NoRow EXCEPT !.status = "published", !.semver = [major |-> 1, minor |-> 0, patch |-> 0]]
<1>1. 1 \in Revisions
  BY ConstantsAssumption DEF Revisions
<1>2. /\ first.status = "published" /\ first.base = 0
      /\ first.semver = [major |-> 1, minor |-> 0, patch |-> 0]
      /\ NoRow.status = "none"
  BY DEF NoRow
<1>3. /\ versions = [v \in Revisions |-> IF v = 1 THEN first ELSE NoRow]
      /\ current = 1 /\ archived = FALSE
  BY DEF Init
<1> HIDE DEF first
<1>4. Released = {1} /\ Waiting = {} /\ Refused = {}
  BY <1>1, <1>2, <1>3 DEF Released, Waiting, Refused
<1>5. versions[1].base = 0 /\ versions[1].semver = [major |-> 1, minor |-> 0, patch |-> 0]
  BY <1>1, <1>2, <1>3
<1> QED
  BY <1>3, <1>4, <1>5 DEF History!Init, History!Releases

\* Overlapping, failing and competing publications, amendments and reviews (publication.ts,
\* amendments.ts, reviews.ts) do what ReleaseHistory promises: one line of releases that grows
\* at its end and only upwards, and for each candidate one decision, which stands.
THEOREM PromiseKept == Spec => KeepsHistory
<1>1. Init => History!Init
  BY InitShown
<1>2. SkillInv /\ [Next]_vars => [History!Next]_History!vars
  BY StepShown
<1> QED
  BY <1>1, <1>2, Inductive, PTL DEF Spec, KeepsHistory, History!Spec

-----------------------------------------------------------------------------
(* Trusted credentials.                                                     *)

\* No administrator gives a credential's rule another number: the rules of a credential have
\* the same place in all policies.  Where they may move, the daily limit does not hold.
RulesStay ==
  \A p, q \in Policies : \A i \in DOMAIN p, k \in DOMAIN q :
    p[i].credential = q[k].credential => i = k

\* Only releases were made under a rule, none of them later than today, and the rule was the
\* credential's.
RuleTold(c, i) == \E p \in Policies : i \in DOMAIN p /\ p[i].credential = c
RulesTold ==
  \A v \in Revisions : versions[v].rule # 0 =>
    /\ versions[v].status = "published" /\ versions[v].day <= today
    /\ RuleTold(versions[v].by, versions[v].rule)

Trust == SkillInv /\ RulesTold /\ CredentialWithinLimit

\* A step that leaves alone what was made under a rule, and makes nothing under one.
LEMMA TrustKept ==
  ASSUME Trust, SkillInv', today' = today,
         \A v \in Revisions : versions[v].rule # 0 \/ versions'[v].rule # 0 => versions'[v] = versions[v]
  PROVE  Trust'
<1>1. RulesTold'
  <2>1. ASSUME NEW v \in Revisions, versions'[v].rule # 0
        PROVE  /\ versions'[v].status = "published" /\ versions'[v].day <= today
               /\ RuleTold(versions'[v].by, versions'[v].rule)
    BY <2>1 DEF Trust, RulesTold
  <2> QED
    BY <2>1 DEF RulesTold, RuleTold
<1>2. \A c \in Credentials : AutoBy(c)' = AutoBy(c)
  BY DEF AutoBy, Released
<1>3. CredentialWithinLimit'
  <2>1. CredentialWithinLimit
    BY DEF Trust
  <2> QED
    BY <1>2, <2>1 DEF CredentialWithinLimit
<1> QED
  BY <1>1, <1>3 DEF Trust

\* The same for a step that writes one row.
LEMMA TrustRow ==
  ASSUME Trust, SkillInv', today' = today, NEW v \in Revisions, NEW row,
         versions' = [versions EXCEPT ![v] = row], versions[v].status # "published", row.rule = versions[v].rule
  PROVE  Trust'
<1>1. versions[v].rule = 0
  BY DEF Trust, RulesTold
<1>2. versions'[v] = row /\ \A u \in Revisions \ {v} : versions'[u] = versions[u]
  BY DEF Trust, SkillInv, LineInv, VersionsTyped
<1>3. \A u \in Revisions : versions[u].rule # 0 \/ versions'[u].rule # 0 => versions'[u] = versions[u]
  BY <1>1, <1>2
<1> QED
  BY <1>3, TrustKept

\* An amendment that a rule lets through: the releases of the day under that rule are those
\* of its credential and maybe others, and were fewer than its limit.
LEMMA TrustUsed ==
  ASSUME RulesStay, Trust, SkillInv', today' = today, NEW v \in Revisions, NEW row,
         versions' = [versions EXCEPT ![v] = row], versions[v].status = "none",
         NEW c \in Credentials \cup {None}, NEW i \in DOMAIN policy,
         policy[i].credential = c, UnderLimit(policy[i], AutoPublished(i)),
         row.status = "published", row.by = c, row.rule = i, row.day = today
  PROVE  Trust'
<1>1. versions'[v] = row /\ \A u \in Revisions \ {v} : versions'[u] = versions[u]
  BY DEF Trust, SkillInv, LineInv, VersionsTyped
<1>2. /\ policy \in Policies /\ policy \in Seq(Rules) /\ policy[i] \in Rules
      /\ policy[i].limit \in Nat /\ c \in Credentials /\ i # 0 /\ today \in Nat
  <2>1. policy \in Policies /\ policy \in Seq(Rules)
    BY ConstantsAssumption DEF Trust, SkillInv, RestTyped
  <2>2. i \in 1..Len(policy) /\ policy[i] \in Rules
    BY <2>1
  <2>3. today \in Nat
    BY ConstantsAssumption DEF Trust, SkillInv, RestTyped
  <2> QED
    BY <2>1, <2>2, <2>3 DEF Rules
<1>3. RuleTold(c, i)
  BY <1>2 DEF RuleTold
<1>4. RulesTold'
  <2>1. ASSUME NEW u \in Revisions, versions'[u].rule # 0
        PROVE  /\ versions'[u].status = "published" /\ versions'[u].day <= today
               /\ RuleTold(versions'[u].by, versions'[u].rule)
    <3>1. CASE u = v
      BY <1>1, <1>2, <1>3, <3>1
    <3>2. CASE u # v
      BY <1>1, <2>1, <3>2 DEF Trust, RulesTold
    <3> QED
      BY <3>1, <3>2
  <2> QED
    BY <2>1 DEF RulesTold, RuleTold
<1>5. v \notin Released
  BY DEF Released
<1>6. \A u \in Revisions : u \in Released' <=> u \in Released \/ u = v
  BY <1>1 DEF Released
<1>7. ASSUME NEW other \in Credentials, other # c PROVE AutoBy(other)' = AutoBy(other)
  <2>1. \A u \in Revisions \ {v} : u \in AutoBy(other)' <=> u \in AutoBy(other)
    BY <1>1 DEF AutoBy, Released
  <2>2. v \notin AutoBy(other) /\ v \notin AutoBy(other)'
    BY <1>1, <1>5, <1>7 DEF AutoBy
  <2> QED
    BY <2>1, <2>2 DEF AutoBy, Released
<1>8. AutoBy(c)' = AutoBy(c) \cup {v}
  BY <1>1, <1>2, <1>6 DEF AutoBy, Released
<1> DEFINE counted == {u \in Revisions : /\ versions[u].status = "published"
                                         /\ versions[u].rule = i
                                         /\ versions[u].day = today}
<1>9. AutoBy(c) \in SUBSET counted
  <2>1. ASSUME NEW u \in AutoBy(c) PROVE u \in counted
    <3>1. /\ u \in Revisions /\ versions[u].status = "published" /\ versions[u].by = c
          /\ versions[u].rule # 0 /\ versions[u].day = today
      BY DEF AutoBy, Released
    <3>2. RuleTold(c, versions[u].rule)
      BY <3>1 DEF Trust, RulesTold
    <3>3. PICK p \in Policies : versions[u].rule \in DOMAIN p /\ p[versions[u].rule].credential = c
      BY <3>2 DEF RuleTold
    <3>4. versions[u].rule = i
      BY <1>2, <3>3 DEF RulesStay
    <3> QED
      BY <3>1, <3>4
  <2> QED
    BY <2>1
<1>10. IsFiniteSet(counted) /\ Cardinality(counted) \in Nat /\ Cardinality(counted) < policy[i].limit
  <2>1. IsFiniteSet(Revisions)
    <3>1. 1 \in Int /\ MaxRevision \in Int
      BY ConstantsAssumption
    <3> QED
      BY <3>1, FS_Interval DEF Revisions
  <2>2. counted \in SUBSET Revisions
    OBVIOUS
  <2>3. IsFiniteSet(counted)
    BY <2>1, <2>2, FS_Subset
  <2> QED
    BY <2>3, FS_CardinalityType DEF UnderLimit, AutoPublished
<1> HIDE DEF counted
<1>11. IsFiniteSet(AutoBy(c)) /\ Cardinality(AutoBy(c)) <= Cardinality(counted)
  BY <1>9, <1>10, FS_Subset
<1>12. Cardinality(AutoBy(c)) \in Nat
  BY <1>11, FS_CardinalityType
<1>13. Cardinality(AutoBy(c) \cup {v}) <= Cardinality(AutoBy(c)) + 1
  <2> DEFINE made == AutoBy(c)
  <2>1. v \notin made /\ IsFiniteSet(made) /\ Cardinality(made) \in Nat
    BY <1>5, <1>11, <1>12 DEF AutoBy
  <2> HIDE DEF made
  <2>2. Cardinality(made \cup {v}) = Cardinality(made) + 1
    BY <2>1, FS_AddElement
  <2>3. Cardinality(made \cup {v}) <= Cardinality(made) + 1
    BY <2>1, <2>2
  <2> QED
    BY <2>3 DEF made
<1>14. Cardinality(AutoBy(c)') <= policy[i].limit
  <2>1. Cardinality(AutoBy(c) \cup {v}) \in Nat
    BY <1>11, FS_AddElement, FS_CardinalityType
  <2> QED
    BY <1>2, <1>8, <1>10, <1>11, <1>12, <1>13, <2>1
<1>15. CredentialWithinLimit'
  <2>1. ASSUME NEW other \in Credentials, AutoBy(other)' # {}
        PROVE  \E p \in Policies : \E k \in DOMAIN p :
                 p[k].credential = other /\ Cardinality(AutoBy(other)') <= p[k].limit
    <3>1. CASE other = c
      BY <1>2, <1>14, <3>1
    <3>2. CASE other # c
      <4>1. AutoBy(other)' = AutoBy(other)
        BY <1>7, <3>2
      <4> QED
        BY <2>1, <4>1 DEF Trust, CredentialWithinLimit
    <3> QED
      BY <3>1, <3>2
  <2> QED
    BY <2>1 DEF CredentialWithinLimit
<1> QED
  BY <1>4, <1>15 DEF Trust

LEMMA TrustInit == Init => Trust
<1> SUFFICES ASSUME Init PROVE Trust
  OBVIOUS
<1>1. SkillInv
  BY InitHolds
<1>2. \A v \in Revisions : versions[v].rule = 0
  <2> DEFINE first == [NoRow EXCEPT !.status = "published", !.semver = [major |-> 1, minor |-> 0, patch |-> 0]]
  <2>1. NoRow.rule = 0 /\ first.rule = 0
    BY DEF NoRow
  <2>2. versions = [v \in Revisions |-> IF v = 1 THEN first ELSE NoRow]
    BY DEF Init
  <2> HIDE DEF first
  <2> QED
    BY <2>1, <2>2
<1>3. \A c \in Credentials : AutoBy(c) = {}
  BY <1>2 DEF AutoBy, Released
<1> QED
  BY <1>1, <1>2, <1>3 DEF Trust, RulesTold, CredentialWithinLimit

LEMMA TrustAmending ==
  ASSUME RulesStay, Trust, SkillInv', NEW a \in Attempts, Amend(a) PROVE Trust'
<1> DEFINE v == nextRevision
           row(bump, c) == [NoRow EXCEPT !.base = attempt[a].at, !.bump = bump, !.by = c]
           pended(r) == [r EXCEPT !.status = "pending_review", !.review = "pending"]
           released(r, bump, i) ==
             [r EXCEPT !.status = "published", !.review = "approved",
                       !.semver = NextSemVer(bump), !.rule = i, !.day = today]
<1>1. today' = today /\ v <= MaxRevision
  BY DEF Amend
<1>2. v \in Revisions /\ versions[v].status = "none"
  BY <1>1, NumbersFacts DEF Trust
<1>3. versions[v].rule = 0
  BY <1>2 DEF Trust, RulesTold
<1>4. PICK c \in Credentials \cup {None}, bump \in Bumps, met \in SUBSET DOMAIN policy :
        \/ versions' = [versions EXCEPT ![v] = pended(row(bump, c))]
        \/ \E i \in Matching(c, bump, met) :
             versions' = [versions EXCEPT ![v] = released(row(bump, c), bump, i)]
  BY Zenon DEF Amend
<1> DEFINE base == row(bump, c)
<1>5. base \in Rows /\ base.by = c /\ base.rule = 0
  <2>1. attempt[a].at \in 0..MaxRevision /\ bump \in DOMAIN Rank
    BY NumbersFacts, ConstantsAssumption DEF Trust, AttemptStates
  <2>2. NoRow \in Rows /\ NoRow.rule = 0
    BY NoRowTyped DEF NoRow
  <2> QED
    BY <2>1, <2>2 DEF Rows
<1> HIDE DEF base
<1>6. CASE versions' = [versions EXCEPT ![v] = pended(row(bump, c))]
  <2> DEFINE new == pended(base)
  <2>1. versions' = [versions EXCEPT ![v] = new]
    BY <1>6 DEF base
  <2>2. new.rule = versions[v].rule
    BY <1>3, <1>5 DEF Rows
  <2> HIDE DEF new
  <2> QED
    BY <1>1, <1>2, <2>1, <2>2, TrustRow
<1>7. ASSUME NEW i \in Matching(c, bump, met),
             versions' = [versions EXCEPT ![v] = released(row(bump, c), bump, i)]
      PROVE  Trust'
  <2>1. i \in DOMAIN policy /\ policy[i].credential = c /\ UnderLimit(policy[i], AutoPublished(i))
    BY DEF Matching
  <2> DEFINE new == released(base, bump, i)
  <2>2. versions' = [versions EXCEPT ![v] = new]
    BY <1>7 DEF base
  <2>3. new.status = "published" /\ new.by = c /\ new.rule = i /\ new.day = today
    BY <1>5 DEF Rows
  <2> HIDE DEF new
  <2> QED
    BY <1>1, <1>2, <2>1, <2>2, <2>3, TrustUsed
<1> QED
  BY <1>4, <1>6, <1>7

\* A step that neither amends nor publishes under a rule.
LEMMA TrustElsewhere ==
  ASSUME Trust, SkillInv', NEW a \in Attempts,
         \/ Reserve(a) \/ InsertCandidate(a) \/ ReadBase(a) \/ PickCandidate(a)
         \/ Publish(a) \/ PickReview(a) \/ Approve(a) \/ GiveUp(a)
  PROVE  Trust'
<1>0. SkillInv
  BY DEF Trust
<1>1. CASE Reserve(a) \/ ReadBase(a) \/ PickCandidate(a) \/ PickReview(a) \/ GiveUp(a)
  <2>1. UNCHANGED <<versions, today>>
    BY <1>1, Zenon DEF Reserve, ReadBase, PickCandidate, PickReview, GiveUp
  <2> QED
    BY <2>1, TrustKept
<1>2. CASE InsertCandidate(a)
  <2> DEFINE v == attempt[a].revision
             row(bump) == [NoRow EXCEPT !.status = "pending_review", !.base = attempt[a].at, !.bump = bump]
  <2>1. attempt[a].pc = "reserved" /\ versions[v].status = "none" /\ today' = today
    BY <1>2 DEF InsertCandidate
  <2>2. v \in Revisions
    BY <1>0, <2>1 DEF SkillInv, NumbersInv
  <2>3. PICK bump \in Bumps : versions' = [versions EXCEPT ![v] = row(bump)]
    BY <1>2, Zenon DEF InsertCandidate
  <2>4. row(bump).rule = versions[v].rule
    BY <2>1, <2>2 DEF NoRow, Trust, RulesTold
  <2> HIDE DEF row
  <2> QED
    BY <2>1, <2>2, <2>3, <2>4, TrustRow
<1>3. CASE Publish(a) \/ Approve(a)
  <2> DEFINE v == attempt[a].at
             row(review) ==
               [versions[v] EXCEPT !.status = "published", !.review = review,
                                   !.semver = NextSemVer(versions[v].bump), !.day = today]
  <2>1. v \in Revisions
    BY <1>0, <1>3 DEF Publish, Approve, SkillInv, NumbersInv
  <2>2. versions[v].status = "pending_review" /\ today' = today
    BY <1>3 DEF Publish, Approve, Publishable, Undecided
  <2>3. PICK review : Release(v, review)
    BY <1>3, Zenon DEF Publish, Approve
  <2>4. versions' = [versions EXCEPT ![v] = row(review)]
    BY <1>0, <2>1, <2>3 DEF Release, SkillInv, LineInv, VersionsTyped
  <2>5. row(review).rule = versions[v].rule
    BY <1>0, <2>1, NumbersFacts DEF Rows
  <2> HIDE DEF row
  <2> QED
    BY <2>1, <2>2, <2>4, <2>5, TrustRow
<1> QED
  BY <1>1, <1>2, <1>3

LEMMA TrustRejecting ==
  ASSUME Trust, SkillInv', NEW v \in Revisions, RejectCandidate(v) \/ RejectReview(v) PROVE Trust'
<1>1. versions[v] \in Rows /\ versions[v].status = "pending_review" /\ today' = today
  BY NumbersFacts DEF RejectCandidate, RejectReview, Undecided, Trust
<1>2. CASE RejectCandidate(v)
  <2> DEFINE row == [versions[v] EXCEPT !.status = "rejected"]
  <2>1. versions' = [versions EXCEPT ![v] = row] /\ row.rule = versions[v].rule
    BY <1>1, <1>2 DEF RejectCandidate, Rows, Trust, SkillInv, LineInv, VersionsTyped
  <2> HIDE DEF row
  <2> QED
    BY <1>1, <2>1, TrustRow
<1>3. CASE RejectReview(v)
  <2> DEFINE said == [versions[v] EXCEPT !.review = "rejected"]
             row == [said EXCEPT !.status = "rejected"]
  <2>1. said \in Rows /\ said.status = "pending_review" /\ said.rule = versions[v].rule
    BY <1>1 DEF Rows
  <2>2. versions' = [[versions EXCEPT ![v] = said] EXCEPT ![v] = row]
    BY <1>1, <1>3, <2>1 DEF RejectReview, Trust, SkillInv, LineInv, VersionsTyped
  <2> HIDE DEF said
  <2>3. versions' = [versions EXCEPT ![v] = row] /\ row.rule = versions[v].rule
    BY <2>1, <2>2 DEF Rows, Trust, SkillInv, LineInv, VersionsTyped
  <2> HIDE DEF row
  <2> QED
    BY <1>1, <2>3, TrustRow
<1> QED
  BY <1>2, <1>3

\* A new day has seen no releases yet.
LEMMA TrustNextDay == ASSUME Trust, SkillInv', NextDay PROVE Trust'
<1>1. versions' = versions /\ today' = today + 1
  BY DEF NextDay
<1>2. today \in Nat /\ \A v \in Revisions : versions[v].day \in Nat
  BY ConstantsAssumption, NumbersFacts DEF Trust, SkillInv, RestTyped, Rows
<1>3. ASSUME NEW v \in Revisions, versions[v].rule # 0 PROVE versions[v].day <= today' /\ versions[v].day # today'
  BY <1>1, <1>2, <1>3 DEF Trust, RulesTold
<1>4. RulesTold'
  BY <1>1, <1>3 DEF Trust, RulesTold, RuleTold
<1>5. \A c \in Credentials : AutoBy(c)' = {}
  BY <1>1, <1>3 DEF AutoBy, Released
<1>6. CredentialWithinLimit'
  BY <1>5 DEF CredentialWithinLimit
<1> QED
  BY <1>4, <1>6 DEF Trust

\* A trusted credential publishes in a day no more than a rule for it allows in some policy
\* (amendment-policy.ts), whatever operations overlap and however often administrators change
\* limits and turn rules on and off: if no rule changes its number, which is what
\* automatic publications are counted by.
THEOREM LimitsHold == RulesStay => (Spec => []CredentialWithinLimit)
<1> SUFFICES ASSUME RulesStay PROVE Spec => []CredentialWithinLimit
  OBVIOUS
<1>1. Trust /\ [Next]_vars => Trust'
  <2> SUFFICES ASSUME Trust, [Next]_vars PROVE Trust'
    OBVIOUS
  <2>1. SkillInv'
    BY StepHolds DEF Trust
  <2>2. ASSUME NEW a \in Attempts, AttemptStep(a) PROVE Trust'
    BY <2>1, <2>2, TrustAmending, TrustElsewhere, Zenon DEF AttemptStep
  <2>3. ASSUME NEW v \in Revisions, RejectCandidate(v) \/ RejectReview(v) PROVE Trust'
    BY <2>1, <2>3, TrustRejecting
  <2>4. CASE SetArchived \/ UpdatePolicy \/ UNCHANGED vars
    <3>1. UNCHANGED <<versions, today>>
      BY <2>4 DEF SetArchived, UpdatePolicy, vars
    <3> QED
      BY <2>1, <3>1, TrustKept
  <2>5. CASE NextDay
    BY <2>1, <2>5, TrustNextDay
  <2> QED
    BY <2>2, <2>3, <2>4, <2>5, Zenon DEF Next
<1>2. Trust => CredentialWithinLimit
  BY DEF Trust
<1> QED
  BY <1>1, <1>2, TrustInit, PTL DEF Spec
=============================================================================
