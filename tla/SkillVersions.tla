----------------------------- MODULE SkillVersions -----------------------------
(***************************************************************************)
(* The versions of one skill and the release pointer: candidates proposed  *)
(* by people (SkillVersionService), amendments proposed by agents          *)
(* (AmendmentService) under the skill's policy, and their publication or   *)
(* rejection, directly (PublicationService) or through the amendment's     *)
(* review (ReviewService).                                                 *)
(*                                                                         *)
(* An operation reads, works on bundles and then runs its transaction,     *)
(* which locks the skill's row; others commit in between.  Attempts are    *)
(* the operations under way.  Idempotency and bundles are modelled in      *)
(* modules of their own.                                                   *)
(***************************************************************************)
EXTENDS Integers, FiniteSets, Sequences

CONSTANTS
  Attempts,     \* concurrent operations
  Credentials,  \* service principals that may be trusted
  None,         \* a caller that is no service principal
  Policies,     \* amendment policies administrators set: sequences of rules
  Bumps,        \* the bumps proposed in the model
  MaxRevision,  \* bound: revisions of the skill
  MaxDay        \* bound: days

Rank == [patch |-> 0, minor |-> 1, major |-> 2]

Rules == [credential : Credentials, maxBump : DOMAIN Rank, limit : Nat \ {0}]

ASSUME ConstantsAssumption ==
  /\ None \notin Credentials
  /\ Policies \subseteq Seq(Rules) /\ Policies # {}
  /\ Bumps \subseteq DOMAIN Rank
  /\ MaxRevision \in Nat \ {0} /\ MaxDay \in Nat

VARIABLES
  versions,      \* skill_versions (with its amendment_reviews row), by revision
  current,       \* skills.current_published_version_id
  nextRevision,  \* skills.next_revision
  archived,      \* skills.archived_at
  policy,        \* skills.amendment_policy
  attempt,       \* operations under way
  today

vars == <<versions, current, nextRevision, archived, policy, attempt, today>>

Revisions == 1..MaxRevision
SemVers == [major : Nat, minor : Nat, patch : Nat]
Unversioned == [major |-> 0, minor |-> 0, patch |-> 0]

Rows ==
  [status : {"none", "pending_review", "published", "rejected"},
   base : 0..MaxRevision, bump : DOMAIN Rank, semver : SemVers,
   review : {"none", "pending", "approved", "rejected"},
   by : Credentials \cup {None}, rule : Nat, day : Nat]

NoRow ==
  [status |-> "none", base |-> 0, bump |-> "patch", semver |-> Unversioned,
   review |-> "none", by |-> None, rule |-> 0, day |-> 0]

Idle == [pc |-> "idle", at |-> 0, revision |-> 0]

\* The types of the tables' columns; exactly the published versions have a
\* semantic version, and the pointer always names a version.
TypeOK ==
  /\ versions \in [Revisions -> Rows]
  /\ \A v \in Revisions :
       versions[v].status = "published" <=> versions[v].semver.major > 0
  /\ current \in Revisions
  /\ nextRevision \in 2..(MaxRevision + 1)
  /\ archived \in BOOLEAN
  /\ policy \in Policies
  /\ attempt \in [Attempts ->
       [pc : {"idle", "reserved", "amending", "publishing", "approving"},
        at : 0..MaxRevision, revision : 0..MaxRevision]]
  /\ today \in 0..MaxDay

\* SkillService.create: revision 1 is published as 1.0.0.
Init ==
  /\ versions = [v \in Revisions |-> IF v = 1
       THEN [NoRow EXCEPT !.status = "published",
                          !.semver = [major |-> 1, minor |-> 0, patch |-> 0]]
       ELSE NoRow]
  /\ current = 1
  /\ nextRevision = 2
  /\ archived = FALSE
  /\ policy \in Policies
  /\ attempt = [a \in Attempts |-> Idle]
  /\ today = 0
-----------------------------------------------------------------------------
\* nextSemanticVersion
Bumped(s, bump) ==
  CASE bump = "major" -> [major |-> s.major + 1, minor |-> 0, patch |-> 0]
    [] bump = "minor" -> [s EXCEPT !.minor = @ + 1, !.patch = 0]
    [] bump = "patch" -> [s EXCEPT !.patch = @ + 1]

\* Mutant of NextSemVer: a release is left without a version.
LateSemVer(bump) == Unversioned

\* The version a release on top of the current one gets.
NextSemVer(bump) == Bumped(versions[current].semver, bump)

Begin(a, pc, at, revision) ==
  /\ attempt[a] = Idle
  /\ attempt' = [attempt EXCEPT ![a] = [pc |-> pc, at |-> at, revision |-> revision]]

Done(a) == attempt' = [attempt EXCEPT ![a] = Idle]

\* The operation ends without a trace: a check fails, the bundle cannot be
\* stored or validated, the worker dies.
GiveUp(a) ==
  /\ attempt[a] # Idle
  /\ Done(a)
  /\ UNCHANGED <<versions, current, nextRevision, archived, policy, today>>

(***************************************************************************)
(* A person's candidate: one transaction reserves the revision number, the *)
(* bundle is stored, another transaction inserts the row.                  *)
(***************************************************************************)
\* Mutant of TakeRevision: the counter is read but not moved.
KeepRevision == UNCHANGED nextRevision

TakeRevision == nextRevision' = nextRevision + 1

Reserve(a) ==
  /\ ~archived
  /\ nextRevision <= MaxRevision
  /\ Begin(a, "reserved", current, nextRevision)
  /\ TakeRevision
  /\ UNCHANGED <<versions, current, archived, policy, today>>

InsertCandidate(a) ==
  LET v == attempt[a].revision IN
  /\ attempt[a].pc = "reserved"
  /\ versions[v].status = "none"   \* UNIQUE (skill_id, revision)
  /\ \E bump \in Bumps :
       versions' = [versions EXCEPT ![v] =
         [NoRow EXCEPT !.status = "pending_review", !.base = attempt[a].at,
                       !.bump = bump]]
  /\ Done(a)
  /\ UNCHANGED <<current, nextRevision, archived, policy, today>>

(***************************************************************************)
(* An agent's amendment: made for the base that is current at the start,   *)
(* and published at once if a rule of the policy trusts its author.        *)
(***************************************************************************)
\* countRuleAutoPublications: today's automatic publications under rule i.
AutoPublished(i) ==
  Cardinality({v \in Revisions : /\ versions[v].status = "published"
                                 /\ versions[v].rule = i
                                 /\ versions[v].day = today})

\* Mutant of UnderLimit: one publication too many.
UpToLimit(rule, n) == n <= rule.limit

UnderLimit(rule, n) == n < rule.limit

\* evaluateAmendmentPolicy: the rules that match.  Whether the credential has
\* the scopes and names a context the rule allows is the caller's: met.
Matching(c, bump, met) ==
  {i \in DOMAIN policy \cap met :
     /\ policy[i].credential = c
     /\ Rank[bump] <= Rank[policy[i].maxBump]
     /\ UnderLimit(policy[i], AutoPublished(i))}

ReadBase(a) ==
  /\ ~archived
  /\ Begin(a, "amending", current, 0)
  /\ UNCHANGED <<versions, current, nextRevision, archived, policy, today>>

\* Mutant of CurrentBase: the base is compared with nothing.
AnyBase(base) == TRUE

CurrentBase(base) == base = current

Amend(a) ==
  LET v == nextRevision
      base == attempt[a].at
  IN
  /\ attempt[a].pc = "amending"
  /\ ~archived
  /\ CurrentBase(base)
  /\ v <= MaxRevision
  /\ \E c \in Credentials \cup {None}, bump \in Bumps, met \in SUBSET DOMAIN policy :
       LET matching == Matching(c, bump, met)
           row == [NoRow EXCEPT !.base = base, !.bump = bump, !.by = c]
       IN
       \/ /\ matching = {}
          /\ versions' = [versions EXCEPT ![v] =
               [row EXCEPT !.status = "pending_review", !.review = "pending"]]
          /\ UNCHANGED current
       \/ \E i \in matching :
            /\ \A j \in matching : i <= j
            /\ versions' = [versions EXCEPT ![v] =
                 [row EXCEPT !.status = "published", !.review = "approved",
                             !.semver = NextSemVer(bump),
                             !.rule = i, !.day = today]]
            /\ current' = v
  /\ TakeRevision
  /\ Done(a)
  /\ UNCHANGED <<archived, policy, today>>

(***************************************************************************)
(* Publication and rejection.                                              *)
(***************************************************************************)
\* Mutant of Publishable: what was decided since the candidate was picked is not looked at.
PublishableAsPicked(v) ==
  /\ versions[v].status # "published"
  /\ ~archived
  /\ CurrentBase(versions[v].base)

Publishable(v) ==
  /\ versions[v].status = "pending_review"
  /\ ~archived
  /\ CurrentBase(versions[v].base)

\* Version v becomes the current release; its review, if asked, is approved.
Release(v, review) ==
  /\ versions' = [versions EXCEPT ![v] =
       [@ EXCEPT !.status = "published", !.review = review,
                 !.semver = NextSemVer(versions[v].bump), !.day = today]]
  /\ current' = v

PickCandidate(a) ==
  /\ \E v \in Revisions :
       /\ versions[v].status = "pending_review"
       /\ Begin(a, "publishing", v, 0)
  /\ UNCHANGED <<versions, current, nextRevision, archived, policy, today>>

Publish(a) ==
  LET v == attempt[a].at IN
  /\ attempt[a].pc = "publishing"
  /\ Publishable(v)
  /\ Release(v, versions[v].review)   \* the review is not touched
  /\ Done(a)
  /\ UNCHANGED <<nextRevision, archived, policy, today>>

\* PublicationService.reject: one transaction; the review is not touched.
RejectCandidate(v) ==
  /\ versions[v].status = "pending_review"
  /\ versions' = [versions EXCEPT ![v].status = "rejected"]
  /\ UNCHANGED <<current, nextRevision, archived, policy, attempt, today>>

PickReview(a) ==
  /\ \E v \in Revisions :
       /\ versions[v].review = "pending"
       /\ Begin(a, "approving", v, 0)
  /\ UNCHANGED <<versions, current, nextRevision, archived, policy, today>>

\* Mutant of Undecided: the version's own status is not looked at again.
UndecidedReview(v) == versions[v].review = "pending"

Undecided(v) ==
  versions[v].review = "pending" /\ versions[v].status = "pending_review"

Approve(a) ==
  LET v == attempt[a].at IN
  /\ attempt[a].pc = "approving"
  /\ Undecided(v)
  /\ ~archived
  /\ CurrentBase(versions[v].base)
  /\ Release(v, "approved")
  /\ Done(a)
  /\ UNCHANGED <<nextRevision, archived, policy, today>>

\* The UPDATE of the version asks again for pending_review.
RejectReview(v) ==
  /\ Undecided(v)
  /\ versions' = [versions EXCEPT
       ![v].review = "rejected",
       ![v].status = IF @ = "pending_review" THEN "rejected" ELSE @]
  /\ UNCHANGED <<current, nextRevision, archived, policy, attempt, today>>

SetArchived ==
  /\ archived' = ~archived
  /\ UNCHANGED <<versions, current, nextRevision, policy, attempt, today>>

UpdatePolicy ==
  /\ policy' \in Policies \ {policy}
  /\ UNCHANGED <<versions, current, nextRevision, archived, attempt, today>>

NextDay ==
  /\ today < MaxDay
  /\ today' = today + 1
  /\ UNCHANGED <<versions, current, nextRevision, archived, policy, attempt>>

AttemptStep(a) ==
  \/ Reserve(a) \/ InsertCandidate(a) \/ ReadBase(a) \/ Amend(a)
  \/ PickCandidate(a) \/ Publish(a) \/ PickReview(a) \/ Approve(a) \/ GiveUp(a)

Next ==
  \/ \E a \in Attempts : AttemptStep(a)
  \/ \E v \in Revisions : RejectCandidate(v) \/ RejectReview(v)
  \/ SetArchived \/ UpdatePolicy \/ NextDay

Spec == Init /\ [][Next]_vars
-----------------------------------------------------------------------------
(***************************************************************************)
(* Properties.                                                             *)
(***************************************************************************)

Before(s, t) ==
  \/ s.major < t.major
  \/ s.major = t.major /\ s.minor < t.minor
  \/ s.major = t.major /\ s.minor = t.minor /\ s.patch < t.patch

Released == {v \in Revisions : versions[v].status = "published"}

\* The releases form one line: each was made on top of an earlier one, under a
\* greater semantic version; of the candidates for a release only one was ever
\* published; and the release pointer is the end of the line, the greatest version.
ReleaseLine ==
  /\ 1 \in Released /\ current \in Released
  /\ \A v \in Released : versions[v].base # current
  /\ \A v \in Released \ {current} : Before(versions[v].semver, versions[current].semver)
  /\ \A v \in Released \ {1} :
       /\ versions[v].base \in Released
       /\ Before(versions[versions[v].base].semver, versions[v].semver)
       /\ \A u \in Released \ {1, v} : versions[u].base # versions[v].base

\* A revision number reserved by an operation that has not inserted its
\* candidate yet is nobody else's, whatever is inserted or given up meanwhile.
ReservationsHeld ==
  \A a \in Attempts : attempt[a].pc = "reserved" =>
    /\ attempt[a].revision < nextRevision
    /\ versions[attempt[a].revision].status = "none"
    /\ \A b \in Attempts \ {a} :
         attempt[b].pc = "reserved" => attempt[b].revision # attempt[a].revision

\* What a reviewer decided is what happened to the version, although the
\* version may also be published or rejected behind the review's back.
DecisionsStand ==
  \A v \in Revisions :
    /\ versions[v].review = "approved" => versions[v].status = "published"
    /\ versions[v].review = "rejected" => versions[v].status = "rejected"

\* Nothing changes a release; the pointer moves only from a release to one
\* made on top of it, and never while the skill is archived.
ReleasesFrozen ==
  [][/\ \A v \in Released : versions'[v] = [versions[v] EXCEPT
                              !.review = versions'[v].review]
     /\ current' # current => versions'[current'].base = current /\ ~archived]_vars

\* Operations that overlap, fail and are decided behind each other's back leave what
\* publishing promises (ReleaseHistory): one line of releases that stand, none made while
\* the skill is archived, and one decision, which stands, for each candidate, made on the
\* release it was proposed for.
Waiting == {v \in Revisions : versions[v].status = "pending_review"}
Refused == {v \in Revisions : versions[v].status = "rejected"}
History == INSTANCE ReleaseHistory WITH
  head <- current,
  release <- [v \in Released |-> versions[v]],
  open <- [v \in Waiting |-> versions[v].base],
  refused <- Refused
KeepsHistory == History!Spec

\* A trusted credential never publishes more in a day than a rule for it allows
\* in some policy of the skill.
AutoBy(c) ==
  {v \in Released : /\ versions[v].by = c /\ versions[v].rule # 0
                    /\ versions[v].day = today}

CredentialWithinLimit ==
  \A c \in Credentials : AutoBy(c) # {} =>
    \E p \in Policies : \E i \in DOMAIN p :
      p[i].credential = c /\ Cardinality(AutoBy(c)) <= p[i].limit
=============================================================================
