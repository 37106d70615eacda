---------------------------- MODULE GitSources ----------------------------
(***************************************************************************)
(* One Git source and the imports from it: packages/domain                 *)
(* src/git-sources.ts, with the writes of src/git-provenance.ts,           *)
(* src/skill-versions.ts (createCandidate) and src/skills.ts (create) that *)
(* run under a source's lease.                                             *)
(*                                                                         *)
(* A preview reads the source, the repository and the bindings at          *)
(* different times and stores a plan.  Applying the plan is a long series  *)
(* of transactions of which any may lose its lease, be cut off by a crash, *)
(* or commit without its answer arriving; the plan is applied again until  *)
(* nothing of it is missing.  Meanwhile people review, publish, archive,   *)
(* bind and disconnect.                                                    *)
(*                                                                         *)
(* Versions are numbered in the order they are inserted, 0 is "none".  A   *)
(* claim's token is the revision it moved the source to, which no other    *)
(* claim has.  A prepared bundle is its content, what composition adds to  *)
(* it is left out; a preview may be refused its preparation, and in apply  *)
(* the refusals are among the errors an item may meet.                     *)
(***************************************************************************)
EXTENDS Naturals, FiniteSets

CONSTANTS Paths,        \* skill directories of the repository
          Skills,       \* skills, named by their slug
          SlugOf,       \* the slug the bundle at each path declares
          Digests,      \* bundle contents
          Commits,      \* contents of the repository: path -> digest, Missing or Invalid
          Runs,         \* previews
          Workers,      \* requests that apply a preview
          MaxBindings,  \* MAX_BINDINGS
          MaxVersions,  \* bound: versions ever created
          MaxRevision,  \* bound: revisions of the source
          MaxInterventions, \* bound: what people do to the source and its skills meanwhile
          Missing,      \* there is nothing at the path
          Invalid,      \* the bundle at the path does not parse
          None          \* no digest, no skill, no run, no path

ASSUME GitAssumption ==
  /\ MaxVersions \in Nat \ {0} /\ MaxRevision \in Nat \ {0}
  /\ MaxBindings \in Nat /\ MaxInterventions \in Nat
  /\ SlugOf \in [Paths -> Skills]
  /\ Commits \subseteq [Paths -> Digests \cup {Missing, Invalid}]
  /\ None \notin Skills /\ None \notin Digests /\ None \notin Runs /\ None \notin Paths
  /\ Missing \notin Digests /\ Invalid \notin Digests

Versions == 1..MaxVersions
OptVersions == 0..MaxVersions
Revisions == 1..MaxRevision

VARIABLES
  source,    \* skill_sources: revision, archived, the token and whether its time has not run out
  published, \* current_published_version_id of each skill, 0 where there is no such skill
  shelved,   \* archived skills
  version,   \* skill_versions with their provenance
  created,   \* how many versions there are
  binding,   \* the active skill_source_bindings row of each path
  run,       \* skill_source_runs
  worker,    \* the requests that apply a run
  overtaken, \* runs whose preview began while another run's lease was live
  interventions \* what people did to the source and its skills, how often

catalog == <<published, shelved, version, created>>
gitVars == <<source, catalog, binding, run, worker, overtaken, interventions>>

Actions == {"added", "changed", "unchanged", "missing", "conflict", "invalid"}
Entry == [action : Actions, skill : Skills \cup {None}, base : OptVersions,
          last : OptVersions, candidate : OptVersions, prepared : BOOLEAN]
NoEntry == [action |-> "none"]
Unbound == [skill |-> None]
Unused == [stage |-> "unused"]
Free == [step |-> "free"]

Binding == [skill : Skills, base : OptVersions, last : OptVersions, digest : Digests \cup {None}]
Version == [skill : Skills, status : {"pending_review", "published", "rejected"}, digest : Digests,
            base : OptVersions, run : Runs \cup {None}, path : Paths \cup {None}]
Run == [stage : {"reading", "planned", "preview", "partial", "complete"}, at : Revisions,
        applied : 0..MaxRevision, commit : Commits, plan : [Paths -> Entry \cup {NoEntry}],
        results : [Paths -> {"none", "done", "error"}]]
Worker == [step : {"item", "look", "create", "insert", "bind", "keep", "note", "error", "failed",
                   "release"},
           run : Runs, lease : Revisions, todo : SUBSET Paths, path : Paths \cup {None},
           version : OptVersions]

GitTypeOK ==
  /\ source \in [revision : Revisions, archived : BOOLEAN, token : 0..MaxRevision, live : BOOLEAN]
  /\ published \in [Skills -> OptVersions]
  /\ shelved \subseteq Skills
  /\ version \in [Versions -> Version \cup {Unbound}]
  /\ created \in OptVersions
  /\ binding \in [Paths -> Binding \cup {Unbound}]
  /\ run \in [Runs -> Run \cup {Unused}]
  /\ worker \in [Workers -> Worker \cup {Free}]
  /\ overtaken \subseteq Runs
  /\ interventions \in 0..MaxInterventions

\* A source in a workspace that may have a skill already, tied to its path or not.
GitInit ==
  /\ source = [revision |-> 1, archived |-> FALSE, token |-> 0, live |-> FALSE]
  /\ \E s \in Skills \cup {None}, d \in Digests, tied \in BOOLEAN :
       /\ published = [t \in Skills |-> IF t = s THEN 1 ELSE 0]
       /\ created = IF s = None THEN 0 ELSE 1
       /\ version = [v \in Versions |->
            IF v = 1 /\ s # None
            THEN [skill |-> s, status |-> "published", digest |-> d, base |-> 0,
                  run |-> None, path |-> None]
            ELSE Unbound]
       /\ binding = [p \in Paths |->
            IF tied /\ SlugOf[p] = s THEN [skill |-> s, base |-> 1, last |-> 0, digest |-> None]
            ELSE Unbound]
  /\ shelved = {}
  /\ run = [r \in Runs |-> Unused]
  /\ worker = [w \in Workers |-> Free]
  /\ overtaken = {}
  /\ interventions = 0

Bound == {p \in Paths : binding[p] # Unbound}
Status(v) == IF v = 0 THEN "none" ELSE version[v].status

-----------------------------------------------------------------------------
(* The source and its bindings.  Every change locks the source's row, is     *)
(* refused while a sync holds it, and moves the revision.                    *)

Touch == [source EXCEPT !.revision = @ + 1]

\* update: the ref or the archived flag changes.  The caller has read the current revision.
Update ==
  /\ ~source.live /\ source.revision < MaxRevision
  /\ \E archive \in BOOLEAN : source' = [Touch EXCEPT !.archived = archive]
  /\ UNCHANGED <<catalog, binding, run, worker, overtaken>>

\* bind: a person ties a path to an existing skill.
Bind(p, s) ==
  /\ ~source.live /\ ~source.archived /\ source.revision < MaxRevision
  /\ published[s] # 0 /\ s \notin shelved
  /\ p \notin Bound /\ Cardinality(Bound) < MaxBindings
  /\ \A other \in Bound : binding[other].skill # s
  /\ binding' = [binding EXCEPT ![p] =
       [skill |-> s, base |-> published[s], last |-> 0, digest |-> None]]
  /\ source' = Touch
  /\ UNCHANGED <<catalog, run, worker, overtaken>>

Disconnect(p) ==
  /\ ~source.live /\ p \in Bound /\ source.revision < MaxRevision
  /\ binding' = [binding EXCEPT ![p] = Unbound]
  /\ source' = Touch
  /\ UNCHANGED <<catalog, run, worker, overtaken>>

-----------------------------------------------------------------------------
(* preview: three reads and one transaction.                                 *)

\* The source row is read, then the repository at whatever it holds now.
PreviewRead(r) ==
  /\ run[r] = Unused /\ ~source.archived
  /\ \E commit \in Commits :
       run' = [run EXCEPT ![r] =
         [stage |-> "reading", at |-> source.revision, applied |-> 0, commit |-> commit,
          plan |-> [p \in Paths |-> NoEntry], results |-> [p \in Paths |-> "none"]]]
  /\ overtaken' = IF source.live THEN overtaken \cup {r} ELSE overtaken
  /\ UNCHANGED <<source, catalog, binding, worker>>

\* pendingCandidate: the newest candidate with this content that this path imported on the
\* published head.
Candidates(p, s, digest) ==
  {v \in 1..created : /\ version[v].status = "pending_review" /\ version[v].skill = s
                      /\ version[v].digest = digest /\ version[v].path = p
                      /\ version[v].base = published[s]}
Newest(versions) ==
  IF versions = {} THEN 0 ELSE CHOOSE v \in versions : \A other \in versions : other <= v

\* A bound path whose skill is no longer what the source last made of it.
Estranged(p) ==
  LET b == binding[p] IN
  \/ b.skill # SlugOf[p] \/ b.skill \in shelved
  \/ published[b.skill] \notin {b.base, b.last}

\* The entry for a path; `added` are the unbound paths there is room for, `refused` those whose
\* bundle cannot be prepared now.  Only content that is neither the binding's nor the published
\* version's is prepared; when that is refused the error is swallowed, and the entry stays
\* changed without a look at the candidates.
PlanEntry(p, found, added, refused) ==
  LET b == binding[p]
      bound == p \in Bound
      entry(action, candidate, prepared) ==
        [action |-> action, skill |-> b.skill, base |-> IF bound THEN published[b.skill] ELSE 0,
         last |-> IF bound THEN b.last ELSE 0, candidate |-> candidate, prepared |-> prepared]
      plain(action) == entry(action, 0, FALSE)
      candidate == Newest(Candidates(p, b.skill, found))
  IN
  IF found = Missing THEN IF bound THEN plain("missing") ELSE NoEntry
  ELSE IF found = Invalid THEN plain("invalid")
  ELSE IF ~bound THEN plain(IF p \in added THEN "added" ELSE "conflict")
  ELSE IF Estranged(p) \/ (b.digest = found /\ Status(b.last) = "rejected")
  THEN plain("conflict")
  ELSE IF b.digest = found \/ version[published[b.skill]].digest = found THEN plain("unchanged")
  ELSE IF p \in refused THEN plain("changed")
  ELSE entry(IF candidate # 0 THEN "unchanged" ELSE "changed", candidate, TRUE)

\* The bindings, the catalog and the candidates are read and the plan is made: of the new paths
\* as many are added as there is room for.
PlannedRun(r, added, refused) ==
  [run EXCEPT ![r] =
    [stage |-> "planned", at |-> @.at, applied |-> @.applied, commit |-> @.commit,
     plan |-> [p \in Paths |-> PlanEntry(p, run[r].commit[p], added, refused)],
     results |-> @.results]]
PreviewPlan(r) ==
  /\ run[r].stage = "reading"
  /\ LET new == {p \in Paths \ Bound : /\ run[r].commit[p] \in Digests
                                       /\ published[SlugOf[p]] = 0}
         room == IF Cardinality(Bound) > MaxBindings THEN 0 ELSE MaxBindings - Cardinality(Bound)
     IN \E added \in SUBSET new, refused \in SUBSET Bound :
          /\ Cardinality(added) =
               IF Cardinality(new) < room THEN Cardinality(new) ELSE room
          /\ run' = PlannedRun(r, added, refused)
  /\ UNCHANGED <<source, catalog, binding, worker, overtaken>>

\* The plan is stored if the source is as it was read and nobody is syncing; otherwise the
\* preview is refused and leaves nothing.
PreviewSave(r) ==
  /\ run[r].stage = "planned"
  /\ IF source.revision = run[r].at /\ ~source.archived /\ ~source.live
     THEN run' = [run EXCEPT ![r].stage = "preview"] /\ UNCHANGED overtaken
     ELSE run' = [run EXCEPT ![r] = Unused] /\ overtaken' = overtaken \ {r}
  /\ UNCHANGED <<source, catalog, binding, worker>>

-----------------------------------------------------------------------------
(* apply.                                                                    *)

\* Mutant: the token and the revision are not compared.
FencedByAny(w) == ~source.archived /\ source.live

\* assertGitSourceLease, in each transaction of the apply: the token and the revision are this
\* claim's, the source is not archived and the time has not run out.
Fenced(w) ==
  /\ source.token = worker[w].lease /\ source.revision = worker[w].lease
  /\ ~source.archived /\ source.live

\* apply claims the source.  A run applies at the revision it previewed, or goes on where its
\* own last claim left the source.
MayClaim(r) ==
  /\ run[r].stage \in {"preview", "partial"}
  /\ ~source.archived /\ ~source.live
  /\ source.revision \in {run[r].at, run[r].applied}
Unfinished(r) == {p \in Paths : run[r].plan[p] # NoEntry /\ run[r].results[p] # "done"}
Claim(w, r) ==
  /\ worker[w] = Free /\ source.revision < MaxRevision
  /\ MayClaim(r)
  /\ LET lease == source.revision + 1 IN
       /\ source' = [revision |-> lease, archived |-> FALSE, token |-> lease, live |-> TRUE]
       /\ run' = [run EXCEPT ![r].applied = lease]
       /\ worker' = [worker EXCEPT ![w] =
            [step |-> "item", run |-> r, lease |-> lease, todo |-> Unfinished(r),
             path |-> None, version |-> 0]]
  /\ UNCHANGED <<catalog, binding, overtaken>>

EntryOf(w) == run[worker[w].run].plan[worker[w].path]
DigestAt(w) == run[worker[w].run].commit[worker[w].path]

\* The worker goes on; the source, and all but what is named, stays.
Go(w, step) == worker' = [worker EXCEPT ![w].step = step]
Only(w, step) == Go(w, step) /\ UNCHANGED <<source, catalog, binding, run, overtaken>>

\* A transaction that does not hold the lease any more throws and ends the apply.
Lost(w) == ~Fenced(w) /\ Only(w, "failed")

\* The next entry without a result: its lease is renewed.
Renew(w) ==
  /\ worker[w].step = "item"
  /\ \/ /\ Fenced(w)
        /\ \E p \in worker[w].todo :
             LET action == run[worker[w].run].plan[p].action IN
             worker' = [worker EXCEPT ![w] =
               [step |-> CASE action \in {"added", "changed"} -> "look"
                           [] action = "unchanged" -> "keep"
                           [] OTHER -> "note",
                run |-> @.run, lease |-> @.lease, todo |-> @.todo \ {p}, path |-> p,
                version |-> 0]]
        /\ UNCHANGED <<source, catalog, binding, run, overtaken>>
     \/ worker[w].todo # {} /\ Lost(w)

\* Mutant: an import that was not bound is not found again.
ImportedAndBound(r, p) ==
  {v \in 1..created : version[v].run = r /\ p \in Bound /\ binding[p].last = v}

\* The version this run imported at this path before, if any.
Imported(r, p) == {v \in 1..created : version[v].run = r /\ version[v].path = p}

\* The worker goes on with a version of the entry.
Take(w, step, v) ==
  worker' = [worker EXCEPT ![w] =
    [step |-> step, run |-> @.run, lease |-> @.lease, todo |-> @.todo, path |-> @.path,
     version |-> v]]

\* What the binding must still be for a changed entry, read outside a transaction; an added
\* one asks (fenced) whether the path is still free and there is room.  Mutant: the published
\* version is not compared.
Room(p) == p \notin Bound /\ Cardinality(Bound) < MaxBindings
UnmovedBinding(w) ==
  LET b == binding[worker[w].path] IN
  b # Unbound /\ b.skill = EntryOf(w).skill /\ b.last = EntryOf(w).last
Unmoved(w) ==
  LET b == binding[worker[w].path]
      e == EntryOf(w) IN
  /\ b # Unbound /\ b.skill = e.skill /\ b.last = e.last /\ published[e.skill] = e.base

\* An import that was created but not bound is recovered through its provenance; otherwise
\* the version is to be created.
Look(w) ==
  LET before == Imported(worker[w].run, worker[w].path)
      added == EntryOf(w).action = "added" IN
  /\ worker[w].step = "look"
  /\ \/ \E v \in before :
          /\ Take(w, IF version[v].status = "rejected" THEN "error" ELSE "bind", v)
          /\ UNCHANGED <<source, catalog, binding, run, overtaken>>
     \/ before = {} /\ ~added /\ Only(w, IF Unmoved(w) THEN "create" ELSE "error")
     \/ /\ before = {} /\ added
        /\ \/ Fenced(w) /\ Only(w, IF Room(worker[w].path) THEN "insert" ELSE "error")
           \/ Lost(w)

\* createCandidate's first transaction: the base is still the published version, the content
\* differs from it, and a revision of the skill is reserved.
Reserve(w) ==
  LET e == EntryOf(w) IN
  /\ worker[w].step = "create"
  /\ \/ /\ Fenced(w)
        /\ Only(w, IF /\ e.skill \notin shelved /\ published[e.skill] = e.base
                      /\ version[e.base].digest # DigestAt(w)
                   THEN "insert" ELSE "error")
     \/ Lost(w)

\* createCandidate's second transaction, or the one of skills.create: the version with its
\* provenance, unique for the run and the path; a new skill has it published.  The answer may
\* not arrive.  A slug that was taken in the meantime refuses a new skill.
Insert(w) ==
  LET e == EntryOf(w)
      p == worker[w].path
      v == created + 1
      added == e.action = "added"
      skill == IF added THEN SlugOf[p] ELSE e.skill
      possible == Imported(worker[w].run, p) = {} /\ (added => published[skill] = 0)
  IN
  /\ worker[w].step = "insert"
  /\ \/ Fenced(w) /\ ~possible /\ Only(w, "error")
     \/ /\ Fenced(w) /\ possible /\ created < MaxVersions
        /\ created' = v
        /\ version' = [version EXCEPT ![v] =
             [skill |-> skill, status |-> IF added THEN "published" ELSE "pending_review",
              digest |-> DigestAt(w), base |-> e.base, run |-> worker[w].run, path |-> p]]
        /\ published' = IF added THEN [published EXCEPT ![skill] = v] ELSE published
        /\ \E step \in {"bind", "error"} : Take(w, step, v)
        /\ UNCHANGED <<source, shelved, binding, run, overtaken>>
     \/ Lost(w)

\* Mutants: an error replaces whatever was committed; an error without an earlier result is
\* not saved.
Overwritten(earlier, result) == result
KeptFromError(earlier, result) ==
  IF result = "error" /\ earlier # "error" THEN earlier ELSE result

\* saveResult: a result of the run is merged into those committed before; an error never
\* replaces another result.
Merged(earlier, result) == IF result = "error" /\ earlier = "done" THEN earlier ELSE result
Saved(r, p, result) ==
  [run EXCEPT ![r] =
    [stage |-> "partial", at |-> @.at, applied |-> @.applied, commit |-> @.commit,
     plan |-> @.plan, results |-> [@.results EXCEPT ![p] = Merged(run[r].results[p], result)]]]
SaveDone(w) == run' = Saved(worker[w].run, worker[w].path, "done")

\* The transaction of an item has committed, and its answer arrives or does not.
Committed(w) == \E step \in {"item", "error"} : Go(w, step)

\* The version the run imported is tied to the path together with the item's result: it has
\* not been rejected, its skill is not archived and has not moved on, and a binding of
\* another skill is never taken over.
Bindable(w) ==
  LET e == EntryOf(w)
      v == worker[w].version
      skill == version[v].skill
      b == binding[worker[w].path]
  IN
  /\ skill \notin shelved /\ version[v].status # "rejected"
  /\ published[skill] \in {IF e.base = 0 THEN v ELSE e.base, v}
  /\ IF b # Unbound THEN b.skill = skill
     ELSE e.action = "added" /\ Room(worker[w].path) /\ \A p \in Bound : binding[p].skill # skill
BindVersion(w) ==
  LET e == EntryOf(w)
      v == worker[w].version
  IN
  /\ worker[w].step = "bind"
  /\ \/ Fenced(w) /\ ~Bindable(w) /\ Only(w, "error")
     \/ /\ Fenced(w) /\ Bindable(w)
        /\ binding' = [binding EXCEPT ![worker[w].path] =
             [skill |-> version[v].skill, base |-> IF e.base = 0 THEN v ELSE e.base, last |-> v,
              digest |-> DigestAt(w)]]
        /\ SaveDone(w)
        /\ Committed(w)
        /\ UNCHANGED <<source, catalog, overtaken>>
     \/ Lost(w)

\* An unchanged entry: the skill and the binding are as the preview saw them.  The candidate
\* the preview found is tracked; content equal to the published head converges the binding to
\* it, unless a tracked candidate still waits for review.
Kept(w) ==
  LET p == worker[w].path
      e == EntryOf(w)
      b == binding[p]
      to(v) == [skill |-> b.skill, base |-> published[b.skill], last |-> v,
                digest |-> DigestAt(w)]
  IN
  IF e.candidate # 0 THEN to(e.candidate)
  ELSE IF b.digest = DigestAt(w) \/ Status(b.last) = "pending_review" THEN b
  ELSE to(published[b.skill])
Keepable(w) ==
  LET p == worker[w].path
      e == EntryOf(w) IN
  /\ Unmoved(w) /\ e.skill \notin shelved
  /\ IF e.candidate # 0 THEN e.candidate \in Candidates(p, e.skill, version[e.candidate].digest)
     ELSE binding[p].digest = DigestAt(w) => Status(binding[p].last) # "rejected"
Keep(w) ==
  /\ worker[w].step = "keep"
  /\ \/ Fenced(w) /\ ~Keepable(w) /\ Only(w, "error")
     \/ /\ Fenced(w) /\ Keepable(w)
        /\ binding' = [binding EXCEPT ![worker[w].path] = Kept(w)]
        /\ SaveDone(w)
        /\ Committed(w)
        /\ UNCHANGED <<source, catalog, overtaken>>
     \/ Lost(w)

\* A missing, conflicting or invalid entry: the binding's status shows it, nothing else moves.
\* Without a binding only the result is saved, and what goes wrong then ends the apply.
NoteFailure(w) == IF EntryOf(w).skill = None THEN "failed" ELSE "error"
Note(w) ==
  /\ worker[w].step = "note"
  /\ \/ /\ Fenced(w)
        /\ SaveDone(w)
        /\ \E step \in {"item", NoteFailure(w)} : Go(w, step)
        /\ UNCHANGED <<source, catalog, binding, overtaken>>
     \/ Lost(w)

\* Anything else may go wrong with an item before it is written: another request has its
\* idempotency key, the storage fails, a dependency changed.
ItemFails(w) ==
  /\ worker[w].step \in {"look", "create", "insert", "bind", "keep", "note"}
  /\ Only(w, IF worker[w].step = "note" THEN NoteFailure(w) ELSE "error")

\* The item's error is saved, unless its result was committed after all; what goes wrong then
\* ends the apply.
SaveError(w) ==
  /\ worker[w].step = "error"
  /\ \/ /\ Fenced(w)
        /\ run' = Saved(worker[w].run, worker[w].path, "error")
        /\ \E step \in {"item", "failed"} : Go(w, step)
        /\ UNCHANGED <<source, catalog, binding, overtaken>>
     \/ Lost(w)

\* Every entry was visited: the run is complete unless one of its results is an error.  The
\* answer of the commit may not arrive.
Finish(w) ==
  LET r == worker[w].run IN
  /\ worker[w].step = "item" /\ worker[w].todo = {}
  /\ \/ /\ Fenced(w)
        /\ run' = [run EXCEPT ![r].stage =
             IF \E p \in Paths : run[r].results[p] = "error" THEN "partial" ELSE "complete"]
        /\ \E step \in {"release", "failed"} : Go(w, step)
        /\ UNCHANGED <<source, catalog, binding, overtaken>>
     \/ Lost(w)

\* The provider does not answer or answers with another commit, or a transaction between the
\* items fails.
ApplyFails(w) == worker[w].step = "item" /\ Only(w, "failed")

\* catch: the run is marked partial, if the lease is still held.
MarkPartial(w) ==
  /\ worker[w].step = "failed"
  /\ run' = IF Fenced(w) THEN [run EXCEPT ![worker[w].run].stage = "partial"] ELSE run
  /\ Go(w, "release")
  /\ UNCHANGED <<source, catalog, binding, overtaken>>

\* finally: the lease is given back, if it is this claim's.
Release(w) ==
  /\ worker[w].step = "release"
  /\ source' = IF source.token = worker[w].lease
               THEN [revision |-> source.revision, archived |-> source.archived, token |-> 0,
                     live |-> FALSE]
               ELSE source
  /\ worker' = [worker EXCEPT ![w] = Free]
  /\ UNCHANGED <<catalog, binding, run, overtaken>>

\* The request dies, or the last transaction fails.
Crash(w) ==
  /\ worker[w] # Free
  /\ worker' = [worker EXCEPT ![w] = Free]
  /\ UNCHANGED <<source, catalog, binding, run, overtaken>>

\* Three minutes have passed since the last renewal.
Expire ==
  /\ source.live
  /\ source' = [source EXCEPT !.live = FALSE]
  /\ UNCHANGED <<catalog, binding, run, worker, overtaken>>

-----------------------------------------------------------------------------
(* What people do with the skills: review of a candidate, another version    *)
(* published by hand, archiving.                                             *)

Review(v) ==
  /\ v <= created /\ version[v].status = "pending_review"
  /\ LET s == version[v].skill IN
     \/ /\ version' = [version EXCEPT ![v].status = "rejected"]
        /\ UNCHANGED published
     \/ /\ s \notin shelved /\ published[s] = version[v].base
        /\ version' = [version EXCEPT ![v].status = "published"]
        /\ published' = [published EXCEPT ![s] = v]
  /\ UNCHANGED <<source, shelved, created, binding, run, worker, overtaken>>

PublishByHand(s) ==
  /\ published[s] # 0 /\ s \notin shelved /\ created < MaxVersions
  /\ \E d \in Digests \ {version[published[s]].digest} :
       version' = [version EXCEPT ![created + 1] =
         [skill |-> s, status |-> "published", digest |-> d, base |-> published[s],
          run |-> None, path |-> None]]
  /\ created' = created + 1
  /\ published' = [published EXCEPT ![s] = created + 1]
  /\ UNCHANGED <<source, shelved, binding, run, worker, overtaken>>

Shelve(s) ==
  /\ published[s] # 0 /\ s \notin shelved
  /\ shelved' = shelved \cup {s}
  /\ UNCHANGED <<source, published, version, created, binding, run, worker, overtaken>>

People ==
  /\ interventions < MaxInterventions
  /\ interventions' = interventions + 1
  /\ \/ Update
     \/ \E p \in Paths : Disconnect(p) \/ \E s \in Skills : Bind(p, s)
     \/ \E v \in Versions : Review(v)
     \/ \E s \in Skills : PublishByHand(s) \/ Shelve(s)

System ==
  /\ UNCHANGED interventions
  /\ \/ \E r \in Runs : PreviewRead(r) \/ PreviewPlan(r) \/ PreviewSave(r)
     \/ \E w \in Workers :
          \/ \E r \in Runs : Claim(w, r)
          \/ /\ worker[w] # Free
             /\ \/ Renew(w) \/ Look(w) \/ Reserve(w) \/ Insert(w) \/ BindVersion(w) \/ Keep(w)
                \/ Note(w) \/ ItemFails(w) \/ SaveError(w) \/ Finish(w) \/ ApplyFails(w)
                \/ MarkPartial(w) \/ Release(w) \/ Crash(w)
     \/ Expire

GitNext == People \/ System

GitSpec == GitInit /\ [][GitNext]_gitVars

-----------------------------------------------------------------------------
(* What must hold.                                                          *)

\* Two open candidates that one path of the source imported with the same content on the same
\* base, the second after the first.
Twins(v, w) ==
  LET a == version[v]
      b == version[w] IN
  /\ v < w /\ a.status = "pending_review" /\ b.status = "pending_review"
  /\ a.path # None /\ a.path = b.path /\ a.skill = b.skill
  /\ a.base = b.base /\ a.digest = b.digest

\* Plans that may not know the open candidates of their path: an entry whose bundle the preview
\* could not prepare has asked for none (git-sources.ts:552-554), and a preview that began under
\* the lease of another run reads the revision that run claimed, may have read the candidates
\* before that run wrote, and is still stored and applied (SiblingPlansRefused).
Unaware(r, p) == r \in overtaken \/ ~run[r].plan[p].prepared

\* What the code keeps of "a pending imported candidate is never duplicated"
\* (docs/operations/git-sources.md:30-33): the source leaves reviewers no twin, whatever was cut
\* off, retried or previewed by several people (git-sources.ts:613-629, 674-687, 793-811), but
\* for the two kinds of plan that are unaware of the first.
NoDuplicateCandidates ==
  \A v, w \in 1..created : Twins(v, w) => Unaware(version[w].run, version[w].path)

\* "A run applies at the revision it previewed, or resumes only if nothing changed since its own
\* last claim.  Every claim advances the revision, so sibling previews cannot apply plans
\* computed before this run's writes" (git-sources.ts:674-676): what a run may be claimed for
\* was planned from the bindings as they are.
SiblingPlansRefused ==
  \A r \in Runs : MayClaim(r) =>
    \A p \in Unfinished(r) :
      LET e == run[r].plan[p] IN
      IF e.skill = None THEN p \notin Bound
      ELSE p \in Bound /\ binding[p].skill = e.skill /\ binding[p].last = e.last

\* A binding shows what the last claim that settled its path made of it, although workers of
\* earlier claims are still about (git-sources.ts:697-709, git-provenance.ts:11-32): the version
\* that run imported, the candidate it found, or, of content that needs no import, the version
\* the path was at before or the published one.
Settled(r, p) ==
  /\ run[r] # Unused /\ run[r].plan[p] # NoEntry
  /\ run[r].plan[p].action \in {"added", "changed", "unchanged"} /\ run[r].results[p] = "done"
MadeOf(r, p) ==
  LET e == run[r].plan[p] IN
  IF e.action # "unchanged" THEN Imported(r, p)
  ELSE IF e.candidate # 0 THEN {e.candidate} ELSE {e.last, e.base}
LastClaimShows ==
  \A p \in Bound : binding[p].last # 0 =>
    \A r \in Runs :
      (/\ Settled(r, p)
       /\ \A other \in Runs : Settled(other, p) => run[other].applied <= run[r].applied)
        => binding[p].last \in MadeOf(r, p)

\* What a binding says of the last version it imported is true (git-sources.ts:885-955, 957-1065):
\* the version is one of the bound skill and has the content the binding compares upstream
\* with, although the plan was made long before and people publish meanwhile.
BindingHonest ==
  \A p \in Bound :
    LET b == binding[p] IN
    b.last # 0 => version[b.last].skill = b.skill /\ version[b.last].digest = b.digest

\* A run is called complete only when every entry of its plan has a committed result that is
\* no error (git-sources.ts:1092-1107), through any number of retries by several requests.
CompleteMeansEvery ==
  \A r \in Runs : run[r] # Unused /\ run[r].stage = "complete" => Unfinished(r) = {}

\* A committed result stands: no error of the same or another request replaces it, even when
\* the answer of its commit was lost (git-sources.ts:710-742).
ResultsStandStep ==
  \A r \in Runs, p \in Paths :
    run[r] # Unused /\ run[r].results[p] = "done" =>
      run'[r] # Unused /\ run'[r].results[p] = "done"
ResultsStand == [][ResultsStandStep]_gitVars
=============================================================================
