-------------------------- MODULE GitSourcesProofs --------------------------
(***************************************************************************)
(* Why imports from a Git source keep what they promise, for any           *)
(* repository and any number of previews, requests and people: no plan     *)
(* that asked for the open candidates leaves one twice, bindings tell the  *)
(* truth, a complete run has left nothing out, committed results stand.    *)
(*                                                                         *)
(* The argument is about revisions.  A claim moves the source to a         *)
(* revision no other claim has, and writes under its lease only while the  *)
(* source is still there (ClaimsApart, Fenced).  So whoever inserts a      *)
(* candidate was the last to claim the source: every other run that would  *)
(* make the same candidate read, and last applied at, an earlier revision, *)
(* and can not claim the source again (TwinsShutOut).  That says nothing   *)
(* of a preview that began under another run's lease, which read what that *)
(* run claimed, nor of an entry whose bundle the preview could not         *)
(* prepare, which asked for no candidate (Asks).                           *)
(***************************************************************************)
EXTENDS GitSources, Integers, WellFoundedInduction, TLAPS

-----------------------------------------------------------------------------
(* The invariant.                                                            *)

Used(r) == run[r] # Unused
Stored(r) == Used(r) /\ run[r].stage \notin {"reading", "planned"}
Planned(r, p) == run[r].plan[p] # NoEntry

\* Versions are numbered as they come; the published one of a skill is one of its versions.
CatalogOrdered ==
  /\ \A v \in Versions : version[v] # Unbound <=> v <= created
  /\ \A s \in Skills : published[s] # 0 =>
       published[s] <= created /\ version[published[s]].skill = s

\* An import is of a stored run, has the content the run found at its path, and is the only
\* one of the run there.
ImportsOfRuns ==
  \A v \in 1..created :
    /\ version[v].run = None <=> version[v].path = None
    /\ version[v].status = "pending_review" => version[v].run # None
    /\ version[v].run # None =>
         /\ Stored(version[v].run)
         /\ version[v].digest = run[version[v].run].commit[version[v].path]
         /\ \A w \in 1..created :
              version[w].run = version[v].run /\ version[w].path = version[v].path => w = v

\* An entry of a plan is about what was found at its path.
EntryFits(e, found) ==
  /\ e.action \in {"added", "changed", "unchanged"} => found \in Digests
  /\ e.action \in {"changed", "unchanged"} => e.skill \in Skills
  /\ e.candidate # 0 =>
       /\ e.candidate <= created /\ version[e.candidate].skill = e.skill
       /\ version[e.candidate].digest = found
  /\ e.action = "unchanged" /\ e.candidate = 0 =>
       \E v \in {e.base, e.last} : v \in 1..created /\ version[v].digest = found

\* A run has results only when it is stored.
PlansFit ==
  \A r \in Runs : Used(r) =>
    /\ ~Stored(r) => \A p \in Paths : run[r].results[p] = "none"
    /\ run[r].stage = "reading" => \A p \in Paths : ~Planned(r, p)
    /\ \A p \in Paths : Planned(r, p) => EntryFits(run[r].plan[p], run[r].commit[p])

\* What a binding says of its last version is true, and it says nothing without one.
BindingFits(b) ==
  /\ published[b.skill] # 0
  /\ b.last <= created
  /\ b.last # 0 => version[b.last].skill = b.skill /\ version[b.last].digest = b.digest
  /\ b.last = 0 => b.digest = None
BindingsFit == \A p \in Bound : BindingFits(binding[p])

\* A worker is at an entry of its stored run, and has passed none without a result.
UnderLease == {"look", "create", "insert", "bind", "keep", "note", "error"}
WorkerFits(x) ==
  /\ Stored(x.run) /\ x.lease <= run[x.run].applied
  /\ \A q \in x.todo : Planned(x.run, q)
  /\ x.step \in UnderLease => x.path \in Paths /\ Planned(x.run, x.path)
  /\ x.step \in {"look", "create", "insert", "bind"} =>
       run[x.run].plan[x.path].action \in {"added", "changed"}
  /\ x.step = "create" => run[x.run].plan[x.path].action = "changed"
  /\ x.step = "keep" => run[x.run].plan[x.path].action = "unchanged"
  /\ x.step = "note" => run[x.run].plan[x.path].action \notin {"added", "changed", "unchanged"}
  /\ x.step = "bind" => x.version \in Imported(x.run, x.path)
  /\ x.step \in UnderLease \cup {"item"} =>
       \A q \in Paths : Planned(x.run, q) =>
         \/ q \in x.todo \/ run[x.run].results[q] # "none"
         \/ x.step \in UnderLease /\ q = x.path
WorkersFit == \A w \in Workers : worker[w] # Free => WorkerFits(worker[w])

\* Each claim moved the source to a revision of its own; while it lasts, no run that was not
\* overtaken has read that revision.
ClaimsApart ==
  \A r \in Runs : Used(r) =>
    /\ run[r].at <= source.revision /\ run[r].applied <= source.revision
    /\ \A q \in Runs : Used(q) /\ run[q].applied = run[r].applied /\ run[r].applied # 0 => q = r
    /\ source.live /\ r \notin overtaken => run[r].at < source.revision

\* Is a candidate v like the one that run r would create at a path?
Twin(v, r, p) ==
  /\ version[v].run # r /\ version[v].path = p /\ version[v].status = "pending_review"
  /\ version[v].skill = run[r].plan[p].skill /\ version[v].base = run[r].plan[p].base
  /\ version[v].digest = run[r].commit[p]

\* Does the entry ask for a candidate after the others were looked at?
Asks(e) == e.action = "changed" /\ e.prepared

\* Where a twin of its candidate is there already, a run that looked for it and was not overtaken
\* can never claim the source again.
TwinsShutOut ==
  \A r \in Runs \ overtaken, p \in Paths, v \in 1..created :
    Used(r) /\ Asks(run[r].plan[p]) /\ Twin(v, r, p) =>
      run[r].at < source.revision /\ run[r].applied < source.revision

GitInv ==
  /\ GitTypeOK /\ CatalogOrdered /\ ImportsOfRuns /\ PlansFit /\ BindingsFit /\ WorkersFit
  /\ ClaimsApart /\ TwinsShutOut /\ NoDuplicateCandidates /\ CompleteMeansEvery

-----------------------------------------------------------------------------
(* What runs and versions keep in every step; facts about the types.         *)

\* What a stored run keeps in every step, and what a version keeps.
RunsHold ==
  \A r \in Runs : Stored(r) =>
    /\ Stored(r)'
    /\ run'[r].at = run[r].at /\ run'[r].commit = run[r].commit /\ run'[r].plan = run[r].plan
    /\ run'[r].applied >= run[r].applied
    /\ \A p \in Paths :
         /\ run[r].results[p] # "none" => run'[r].results[p] # "none"
         /\ run[r].results[p] = "done" => run'[r].results[p] = "done"
VersionsHold ==
  /\ created <= created'
  /\ \A v \in 1..created :
       /\ version'[v].skill = version[v].skill /\ version'[v].digest = version[v].digest
       /\ version'[v].base = version[v].base
       /\ version'[v].run = version[v].run /\ version'[v].path = version[v].path

\* The types of the parts, as facts about their members.
WorkerSteps == {"item", "look", "create", "insert", "bind", "keep", "note", "error", "failed",
                "release"}
LEMMA GitFacts ==
  ASSUME GitAssumption, GitTypeOK
  PROVE  /\ source.revision \in Revisions /\ source.revision \in Nat
         /\ source.archived \in BOOLEAN /\ source.live \in BOOLEAN
         /\ source.token \in 0..MaxRevision
         /\ created \in Nat /\ created <= MaxVersions /\ 1..created \subseteq Versions
         /\ \A s \in Skills : published[s] \in OptVersions /\ published[s] \in Nat
         /\ \A v \in Versions : version[v] \in Version \cup {Unbound}
         /\ \A p \in Paths : binding[p] \in Binding \cup {Unbound}
         /\ \A r \in Runs : Used(r) => run[r] \in Run
         /\ \A w \in Workers : worker[w] # Free => worker[w] \in Worker
  BY DEF GitAssumption, GitTypeOK, Used, OptVersions, Revisions, Versions

LEMMA UnusedIsNoRun == Unused \notin Run
  BY DEF Unused, Run
LEMMA FreeIsNoWorker == Free \notin Worker
  BY DEF Free, Worker
LEMMA UnboundIsNothing ==
  ASSUME GitAssumption PROVE Unbound \notin Version /\ Unbound \notin Binding
  BY DEF GitAssumption, Unbound, Version, Binding
LEMMA NoEntryIsNone == NoEntry \notin Entry /\ NoEntry.action = "none"
  BY DEF NoEntry, Entry, Actions

\* What a run's record says of it.
LEMMA RunFacts ==
  ASSUME GitAssumption, GitTypeOK, NEW r \in Runs, Used(r)
  PROVE  /\ run[r].at \in Nat /\ run[r].at \in Revisions
         /\ run[r].applied \in Nat /\ run[r].applied \in 0..MaxRevision
         /\ run[r].commit \in Commits /\ run[r].results \in [Paths -> {"none", "done", "error"}]
         /\ run[r].plan \in [Paths -> Entry \cup {NoEntry}]
         /\ \A p \in Paths : run[r].commit[p] \in Digests \cup {Missing, Invalid}
         /\ \A p \in Paths : Planned(r, p) => run[r].plan[p] \in Entry
<1>1. run[r] \in Run
  BY GitFacts
<1>. QED  BY <1>1 DEF Run, Revisions, GitAssumption, Planned

\* A version that was created has a record.
LEMMA VersionFacts ==
  ASSUME GitAssumption, GitTypeOK, CatalogOrdered, NEW v \in 1..created
  PROVE  /\ v \in Versions /\ version[v] \in Version
         /\ version[v].skill \in Skills /\ version[v].digest \in Digests
         /\ version[v].base \in OptVersions
         /\ version[v].run \in Runs \cup {None} /\ version[v].path \in Paths \cup {None}
<1>1. v \in Versions /\ v <= created
  BY GitFacts
<1>2. version[v] \in Version
  BY <1>1, GitFacts DEF CatalogOrdered
<1>. QED  BY <1>1, <1>2 DEF Version

\* What a worker stands for holds on while runs and versions keep what they have.
LEMMA WorkerStays ==
  ASSUME GitAssumption, GitTypeOK, GitTypeOK', RunsHold, VersionsHold,
         NEW x \in Worker, WorkerFits(x)
  PROVE  WorkerFits(x)'
<1>1. /\ x.run \in Runs /\ x.todo \subseteq Paths /\ x.lease \in Nat
  BY DEF Worker, Revisions
<1>2. PICK r \in Runs : r = x.run
  BY <1>1
<1>3. Stored(r) /\ Stored(r)' /\ Used(r) /\ Used(r)'
  BY <1>2 DEF WorkerFits, RunsHold, Stored
<1>4. /\ run'[r].plan = run[r].plan /\ run'[r].applied >= run[r].applied
      /\ \A p \in Paths : run[r].results[p] # "none" => run'[r].results[p] # "none"
  BY <1>3 DEF RunsHold
<1>5. run[r].applied \in Nat /\ run'[r].applied \in Nat
  <2>1. run[r].applied \in Nat
    BY <1>3, RunFacts
  <2>2. run'[r] \in Run
    BY <1>3 DEF GitTypeOK, Used
  <2>. QED  BY <2>1, <2>2 DEF Run
<1>6. x.lease <= run'[r].applied
  BY <1>1, <1>2, <1>4, <1>5 DEF WorkerFits
<1>7. \A q : Planned(r, q)' <=> Planned(r, q)
  BY <1>4 DEF Planned
<1>8. \A q : Imported(r, q) \subseteq Imported(r, q)'
  <2>1. created \in Nat /\ created' \in Nat
    BY DEF GitTypeOK, OptVersions
  <2>. QED  BY <2>1 DEF Imported, VersionsHold
<1>. QED  BY <1>1, <1>2, <1>3, <1>4, <1>6, <1>7, <1>8 DEF WorkerFits

\* One worker moves: it is at x now, or has ended.
LEMMA WorkersStay ==
  ASSUME GitAssumption, GitTypeOK, GitTypeOK', RunsHold, VersionsHold, WorkersFit,
         NEW w \in Workers, \A other \in Workers \ {w} : worker'[other] = worker[other],
         NEW x, worker'[w] = x, x # Free => WorkerFits(x)'
  PROVE  WorkersFit'
<1>1. SUFFICES ASSUME NEW any \in Workers, worker'[any] # Free PROVE WorkerFits(worker[any])'
  BY DEF WorkersFit
<1>2. CASE any = w
  BY <1>1, <1>2 DEF WorkerFits, Stored, Used, Planned, Imported
<1>3. CASE any # w
  <2>1. PICK y : y = worker[any]
    OBVIOUS
  <2>2. worker'[any] = y /\ y # Free
    BY <1>1, <1>3, <2>1
  <2>3. y \in Worker /\ WorkerFits(y)
    BY <2>1, <2>2, GitFacts DEF WorkersFit
  <2>4. WorkerFits(y)'
    BY <2>3, WorkerStays
  <2>. QED  BY <2>2, <2>4 DEF WorkerFits, Stored, Used, Planned, Imported
<1>. QED  BY <1>2, <1>3

-----------------------------------------------------------------------------
(* What entries, bindings, plans and workers say stays true.                 *)

LEMMA EntryStays ==
  ASSUME GitAssumption, GitTypeOK, GitTypeOK', VersionsHold, NEW e \in Entry, NEW found,
         EntryFits(e, found)
  PROVE  EntryFits(e, found)'
<1>1. created \in Nat /\ created' \in Nat /\ e.candidate \in Nat
  BY DEF GitTypeOK, OptVersions, Entry
<1>2. e.candidate # 0 =>
        /\ e.candidate <= created' /\ version'[e.candidate].skill = e.skill
        /\ version'[e.candidate].digest = found
  BY <1>1 DEF EntryFits, VersionsHold
<1>3. \A v : v \in 1..created /\ version[v].digest = found =>
               v \in 1..created' /\ version'[v].digest = found
  BY <1>1 DEF VersionsHold
<1>. QED  BY <1>2, <1>3 DEF EntryFits

LEMMA BindingStays ==
  ASSUME GitAssumption, GitTypeOK, GitTypeOK', VersionsHold,
         \A s \in Skills : published[s] # 0 => published'[s] # 0,
         NEW b \in Binding, BindingFits(b)
  PROVE  BindingFits(b)'
<1>1. created \in Nat /\ created' \in Nat /\ b.last \in Nat /\ b.skill \in Skills
  BY DEF GitTypeOK, OptVersions, Binding
<1>. QED  BY <1>1 DEF BindingFits, VersionsHold

\* One path's binding may have changed, to b or to none.
LEMMA BindingsStay ==
  ASSUME GitAssumption, GitTypeOK, GitTypeOK', VersionsHold, BindingsFit,
         \A s \in Skills : published[s] # 0 => published'[s] # 0,
         NEW p, NEW b, \A q \in Paths : q # p => binding'[q] = binding[q],
         p \in Paths => binding'[p] = b /\ (b # Unbound => BindingFits(b)')
  PROVE  BindingsFit'
<1>1. SUFFICES ASSUME NEW any \in Paths, binding'[any] # Unbound PROVE BindingFits(binding[any])'
  BY DEF BindingsFit, Bound
<1>2. CASE any = p
  BY <1>1, <1>2 DEF BindingFits
<1>3. CASE any # p
  <2>1. PICK c : c = binding[any]
    OBVIOUS
  <2>2. binding'[any] = c /\ c # Unbound
    BY <1>1, <1>3, <2>1
  <2>3. c \in Binding /\ BindingFits(c)
    BY <2>1, <2>2, GitFacts DEF BindingsFit, Bound
  <2>4. BindingFits(c)'
    BY <2>3, BindingStays
  <2>. QED  BY <2>2, <2>4 DEF BindingFits
<1>. QED  BY <1>2, <1>3

\* A run that holds has a plan that fits.
LEMMA PlanStays ==
  ASSUME GitAssumption, GitTypeOK, GitTypeOK', VersionsHold, PlansFit,
         NEW r \in Runs, Used(r), run'[r].plan = run[r].plan, run'[r].commit = run[r].commit,
         NEW p \in Paths, Planned(r, p)'
  PROVE  EntryFits(run[r].plan[p], run[r].commit[p])'
<1>1. PICK e, found : e = run[r].plan[p] /\ found = run[r].commit[p]
  OBVIOUS
<1>2. e \in Entry /\ EntryFits(e, found)
  BY <1>1, RunFacts DEF Planned, PlansFit
<1>3. EntryFits(e, found)'
  BY <1>2, EntryStays
<1>. QED  BY <1>1, <1>3 DEF EntryFits

\* No new twins while no version starts to wait and stored runs keep their plans.
LEMMA TwinsStay ==
  ASSUME GitAssumption, GitTypeOK, CatalogOrdered, ImportsOfRuns, NoDuplicateCandidates,
         VersionsHold,
         \A v \in 1..created' : version'[v].status = "pending_review" =>
           v \in 1..created /\ version[v].status = "pending_review",
         \A r \in Runs : Stored(r) =>
           run'[r].plan = run[r].plan /\ (r \in overtaken => r \in overtaken')
  PROVE  NoDuplicateCandidates'
<1>1. SUFFICES ASSUME NEW v \in 1..created', NEW w \in 1..created', Twins(v, w)'
               PROVE  Unaware(version[w].run, version[w].path)'
  BY DEF NoDuplicateCandidates
<1>2. v \in 1..created /\ w \in 1..created
  BY <1>1 DEF Twins
<1>3. Twins(v, w) /\ version[w].path # None
  BY <1>1, <1>2 DEF Twins, VersionsHold
<1>4. PICK r, p : r = version[w].run /\ p = version[w].path
  OBVIOUS
<1>5. Unaware(r, p)
  BY <1>2, <1>3, <1>4 DEF NoDuplicateCandidates
<1>6. r \in Runs /\ Stored(r)
  BY <1>2, <1>3, <1>4, VersionFacts DEF ImportsOfRuns
<1>7. version'[w].run = r /\ version'[w].path = p
  BY <1>2, <1>4 DEF VersionsHold
<1>. QED  BY <1>5, <1>6, <1>7 DEF Unaware

\* Only the results and the stage of one stored run change.
LEMMA ResultsChange ==
  ASSUME GitAssumption, GitInv, GitTypeOK', UNCHANGED <<source, catalog, overtaken>>,
         NEW r \in Runs, Stored(r), \A q \in Runs \ {r} : run'[q] = run[q],
         Stored(r)', run'[r].at = run[r].at, run'[r].applied = run[r].applied,
         run'[r].commit = run[r].commit, run'[r].plan = run[r].plan,
         \A p \in Paths : /\ run[r].results[p] # "none" => run'[r].results[p] # "none"
                          /\ run[r].results[p] = "done" => run'[r].results[p] = "done",
         run'[r].stage = "complete" => Unfinished(r)' = {}
  PROVE  /\ RunsHold /\ VersionsHold /\ CatalogOrdered' /\ ImportsOfRuns' /\ PlansFit'
         /\ ClaimsApart' /\ TwinsShutOut' /\ NoDuplicateCandidates' /\ CompleteMeansEvery'
<1>1. /\ GitTypeOK /\ CatalogOrdered /\ ImportsOfRuns /\ PlansFit /\ ClaimsApart /\ TwinsShutOut
      /\ NoDuplicateCandidates /\ CompleteMeansEvery
  BY DEF GitInv
<1>2. /\ published' = published /\ shelved' = shelved /\ version' = version /\ created' = created
      /\ source' = source /\ overtaken' = overtaken
  BY DEF catalog
<1>3. \A q \in Runs : /\ Used(q)' <=> Used(q)
                      /\ Stored(q)' <=> Stored(q)
                      /\ Used(q) => /\ run'[q].at = run[q].at /\ run'[q].applied = run[q].applied
                                    /\ run'[q].commit = run[q].commit /\ run'[q].plan = run[q].plan
                                    /\ run[q].applied \in Nat
  BY <1>1, RunFacts DEF Stored, Used
<1>4. RunsHold
  BY <1>3 DEF RunsHold, Stored
<1>5. VersionsHold
  BY <1>1, <1>2, GitFacts DEF VersionsHold
<1>6. CatalogOrdered'
  BY <1>1, <1>2 DEF CatalogOrdered
<1>7. ImportsOfRuns'
  <2>1. \A v \in 1..created : version[v].run \in Runs \cup {None}
    BY <1>1, VersionFacts
  <2>. QED  BY <1>1, <1>2, <1>3, <2>1 DEF ImportsOfRuns, Stored
<1>8. PlansFit'
  <2>1. SUFFICES ASSUME NEW q \in Runs, Used(q)'
                 PROVE  /\ ~Stored(q)' => \A p \in Paths : run'[q].results[p] = "none"
                        /\ run'[q].stage = "reading" => \A p \in Paths : ~Planned(q, p)'
                        /\ \A p \in Paths : Planned(q, p)' =>
                             EntryFits(run[q].plan[p], run[q].commit[p])'
    BY DEF PlansFit
  <2>2. ~Stored(q)' => \A p \in Paths : run'[q].results[p] = "none"
    BY <1>1, <1>3, <2>1 DEF PlansFit
  <2>3. run'[q].stage = "reading" => \A p \in Paths : ~Planned(q, p)'
    BY <1>1, <1>3, <2>1 DEF PlansFit, Planned, Stored
  <2>4. \A p \in Paths : Planned(q, p)' => EntryFits(run[q].plan[p], run[q].commit[p])'
    BY <1>1, <1>3, <1>5, <2>1, PlanStays
  <2>. QED  BY <2>2, <2>3, <2>4
<1>9. ClaimsApart'
  BY <1>1, <1>2, <1>3 DEF ClaimsApart
<1>10. TwinsShutOut'
  BY <1>1, <1>2, <1>3 DEF TwinsShutOut, Twin
<1>11. NoDuplicateCandidates'
  BY <1>1, <1>2, <1>3, <1>5, TwinsStay DEF Stored
<1>12. CompleteMeansEvery'
  BY <1>1 DEF CompleteMeansEvery, Unfinished
<1>. QED  BY <1>4, <1>5, <1>6, <1>7, <1>8, <1>9, <1>10, <1>11, <1>12

\* Runs and versions stay; the source moves on or is let go.
LEMMA SourceChanges ==
  ASSUME GitAssumption, GitInv, GitTypeOK', UNCHANGED <<published, version, created, run, overtaken>>,
         source'.revision >= source.revision, source'.live => source.live
  PROVE  /\ RunsHold /\ VersionsHold /\ CatalogOrdered' /\ ImportsOfRuns' /\ PlansFit'
         /\ ClaimsApart' /\ TwinsShutOut' /\ NoDuplicateCandidates' /\ CompleteMeansEvery'
<1>1. /\ GitTypeOK /\ CatalogOrdered /\ ImportsOfRuns /\ PlansFit /\ ClaimsApart /\ TwinsShutOut
      /\ NoDuplicateCandidates /\ CompleteMeansEvery
  BY DEF GitInv
<1>2. /\ source.revision \in Nat /\ source'.revision \in Nat
      /\ \A r \in Runs : Used(r) => run[r].at \in Nat /\ run[r].applied \in Nat
  <2>1. source'.revision \in Revisions
    BY DEF GitTypeOK
  <2>. QED  BY <1>1, <2>1, GitFacts, RunFacts DEF Revisions
<1>3. RunsHold /\ VersionsHold
  BY <1>1, <1>2, GitFacts DEF RunsHold, VersionsHold, Stored, Used
<1>4. CatalogOrdered' /\ ImportsOfRuns' /\ CompleteMeansEvery'
  BY <1>1 DEF CatalogOrdered, ImportsOfRuns, CompleteMeansEvery, Stored, Used, Unfinished
<1>8. NoDuplicateCandidates'
  BY <1>1, <1>3, TwinsStay
<1>5. PlansFit'
  BY <1>1 DEF PlansFit, Stored, Used, Planned, EntryFits
<1>6. ClaimsApart'
  BY <1>1, <1>2 DEF ClaimsApart, Used
<1>7. TwinsShutOut'
  BY <1>1, <1>2 DEF TwinsShutOut, Used, Twin
<1>. QED  BY <1>3, <1>4, <1>5, <1>6, <1>7, <1>8

\* The catalog changes: runs and the source stay, versions keep what they have.
LEMMA CatalogChanges ==
  ASSUME GitAssumption, GitInv, GitTypeOK', UNCHANGED <<source, run, overtaken>>, VersionsHold
  PROVE  RunsHold /\ PlansFit' /\ ClaimsApart' /\ CompleteMeansEvery'
<1>1. GitTypeOK /\ PlansFit /\ ClaimsApart /\ CompleteMeansEvery
  BY DEF GitInv
<1>2. \A r \in Runs : Used(r) => run[r].at \in Nat /\ run[r].applied \in Nat
  BY <1>1, RunFacts
<1>3. RunsHold
  BY <1>2 DEF RunsHold, Stored, Used
<1>4. PlansFit'
  <2>1. SUFFICES ASSUME NEW q \in Runs, Used(q)'
                 PROVE  /\ ~Stored(q)' => \A p \in Paths : run'[q].results[p] = "none"
                        /\ run'[q].stage = "reading" => \A p \in Paths : ~Planned(q, p)'
                        /\ \A p \in Paths : Planned(q, p)' =>
                             EntryFits(run[q].plan[p], run[q].commit[p])'
    BY DEF PlansFit
  <2>2. Used(q)
    BY <2>1 DEF Used
  <2>3. \A p \in Paths : Planned(q, p)' => EntryFits(run[q].plan[p], run[q].commit[p])'
    BY <1>1, <2>2, PlanStays
  <2>. QED  BY <1>1, <2>2, <2>3 DEF PlansFit, Planned, Stored, Used
<1>5. ClaimsApart' /\ CompleteMeansEvery'
  BY <1>1 DEF ClaimsApart, CompleteMeansEvery, Used, Unfinished
<1>. QED  BY <1>3, <1>4, <1>5

\* Pending candidates are only fewer.
LEMMA FewerPending ==
  ASSUME GitAssumption, GitInv, GitTypeOK', UNCHANGED <<source, run, overtaken>>, VersionsHold,
         \A v \in 1..created' : version'[v].status = "pending_review" =>
           v \in 1..created /\ version[v].status = "pending_review"
  PROVE  TwinsShutOut' /\ NoDuplicateCandidates'
<1>1. GitTypeOK /\ CatalogOrdered /\ ImportsOfRuns /\ TwinsShutOut /\ NoDuplicateCandidates
  BY DEF GitInv
<1>2. TwinsShutOut'
  BY <1>1 DEF TwinsShutOut, Twin, Used, VersionsHold
<1>3. NoDuplicateCandidates'
  BY <1>1, TwinsStay
<1>. QED  BY <1>2, <1>3

\* Nothing but workers changes.
LEMMA OnlyWorkers ==
  ASSUME GitAssumption, GitInv, GitTypeOK', UNCHANGED <<source, catalog, binding, run, overtaken>>,
         NEW w \in Workers, \A other \in Workers \ {w} : worker'[other] = worker[other],
         NEW x, worker'[w] = x, x # Free => WorkerFits(x)
  PROVE  GitInv' /\ RunsHold
<1>1. RunsHold /\ VersionsHold
  BY SourceChanges, GitFacts DEF GitInv, catalog
<1>2. /\ CatalogOrdered' /\ ImportsOfRuns' /\ PlansFit' /\ ClaimsApart' /\ TwinsShutOut'
      /\ NoDuplicateCandidates' /\ CompleteMeansEvery'
  BY SourceChanges, GitFacts DEF GitInv, catalog
<1>3. BindingsFit'
  BY DEF GitInv, BindingsFit, BindingFits, Bound, catalog
<1>4. x # Free => x \in Worker
  BY DEF GitTypeOK
<1>5. x # Free => WorkerFits(x)'
  BY <1>1, <1>4, WorkerStays DEF GitInv
<1>6. WorkersFit'
  BY <1>1, <1>5, WorkersStay DEF GitInv
<1>. QED  BY <1>1, <1>2, <1>3, <1>6 DEF GitInv

-----------------------------------------------------------------------------
(* The source and its bindings.                                              *)

\* The source may move on, be archived or be let go.
LEMMA TouchTypes ==
  ASSUME GitAssumption, GitTypeOK, source.revision < MaxRevision
  PROVE  /\ Touch \in [revision : Revisions, archived : BOOLEAN, token : 0..MaxRevision,
                       live : BOOLEAN]
         /\ Touch.revision = source.revision + 1 /\ Touch.live = source.live
         /\ Touch.archived = source.archived
<1>1. Touch = [revision |-> source.revision + 1, archived |-> source.archived,
               token |-> source.token, live |-> source.live]
  BY DEF Touch, GitTypeOK
<1>2. source.revision + 1 \in Revisions
  BY GitFacts DEF Revisions, GitAssumption
<1>. QED  BY <1>1, <1>2, GitFacts

LEMMA UpdateHolds ==
  ASSUME GitAssumption, GitInv, Update, interventions' \in 0..MaxInterventions
  PROVE  GitInv' /\ RunsHold
<1>1. GitTypeOK
  BY DEF GitInv
<1>2. PICK archive \in BOOLEAN : source' = [Touch EXCEPT !.archived = archive]
  BY DEF Update
<1>3. /\ source' \in [revision : Revisions, archived : BOOLEAN, token : 0..MaxRevision,
                      live : BOOLEAN]
      /\ source'.revision = source.revision + 1 /\ source'.live = source.live
  BY <1>1, <1>2, TouchTypes DEF Update
<1>4. GitTypeOK'
  BY <1>1, <1>3 DEF GitTypeOK, Update, catalog
<1>5. source'.revision >= source.revision
  BY <1>1, <1>3, GitFacts
<1>6. /\ RunsHold /\ VersionsHold /\ CatalogOrdered' /\ ImportsOfRuns' /\ PlansFit'
      /\ ClaimsApart' /\ TwinsShutOut' /\ NoDuplicateCandidates' /\ CompleteMeansEvery'
  BY <1>3, <1>4, <1>5, SourceChanges DEF Update, catalog
<1>7. BindingsFit' /\ WorkersFit'
  BY DEF GitInv, Update, catalog, BindingsFit, BindingFits, Bound, WorkersFit, WorkerFits, Stored,
     Used, Planned, Imported
<1>. QED  BY <1>4, <1>6, <1>7 DEF GitInv

LEMMA BindHolds ==
  ASSUME GitAssumption, GitInv, NEW p \in Paths, NEW s \in Skills, Bind(p, s),
         interventions' \in 0..MaxInterventions
  PROVE  GitInv' /\ RunsHold
<1>1. GitTypeOK
  BY DEF GitInv
<1>2. PICK b : b = [skill |-> s, base |-> published[s], last |-> 0, digest |-> None]
  OBVIOUS
<1>3. binding' = [binding EXCEPT ![p] = b] /\ source' = Touch
  BY <1>2 DEF Bind
<1>4. b \in Binding
  BY <1>1, <1>2, GitFacts DEF Binding, OptVersions, GitAssumption
<1>5. GitTypeOK'
  BY <1>1, <1>3, <1>4, TouchTypes DEF GitTypeOK, Bind, catalog
<1>6. source'.revision >= source.revision /\ source'.live = source.live
  BY <1>1, <1>3, GitFacts, TouchTypes DEF Bind
<1>7. /\ RunsHold /\ VersionsHold /\ CatalogOrdered' /\ ImportsOfRuns' /\ PlansFit'
      /\ ClaimsApart' /\ TwinsShutOut' /\ NoDuplicateCandidates' /\ CompleteMeansEvery'
  BY <1>5, <1>6, SourceChanges DEF Bind, catalog
<1>8. BindingFits(b)'
  BY <1>1, <1>2, GitFacts DEF BindingFits, Bind, catalog
<1>9. BindingsFit'
  <2>1. binding'[p] = b /\ \A q \in Paths : q # p => binding'[q] = binding[q]
    BY <1>1, <1>3 DEF GitTypeOK
  <2>2. published' = published
    BY DEF Bind, catalog
  <2>. QED  BY <1>1, <1>5, <1>7, <1>8, <2>1, <2>2, BindingsStay DEF GitInv
<1>10. WorkersFit'
  BY DEF GitInv, Bind, catalog, WorkersFit, WorkerFits, Stored, Used, Planned, Imported
<1>. QED  BY <1>5, <1>7, <1>9, <1>10 DEF GitInv

LEMMA DisconnectHolds ==
  ASSUME GitAssumption, GitInv, NEW p \in Paths, Disconnect(p),
         interventions' \in 0..MaxInterventions
  PROVE  GitInv' /\ RunsHold
<1>1. GitTypeOK
  BY DEF GitInv
<1>2. binding' = [binding EXCEPT ![p] = Unbound] /\ source' = Touch
  BY DEF Disconnect
<1>3. GitTypeOK'
  BY <1>1, <1>2, TouchTypes DEF GitTypeOK, Disconnect, catalog
<1>4. source'.revision >= source.revision /\ source'.live = source.live
  BY <1>1, <1>2, GitFacts, TouchTypes DEF Disconnect
<1>5. /\ RunsHold /\ VersionsHold /\ CatalogOrdered' /\ ImportsOfRuns' /\ PlansFit'
      /\ ClaimsApart' /\ TwinsShutOut' /\ NoDuplicateCandidates' /\ CompleteMeansEvery'
  BY <1>3, <1>4, SourceChanges DEF Disconnect, catalog
<1>6. BindingsFit'
  BY <1>1, <1>2 DEF GitInv, GitTypeOK, Disconnect, catalog, BindingsFit, BindingFits, Bound
<1>7. WorkersFit'
  BY DEF GitInv, Disconnect, catalog, WorkersFit, WorkerFits, Stored, Used, Planned, Imported
<1>. QED  BY <1>3, <1>5, <1>6, <1>7 DEF GitInv

LEMMA ExpireHolds ==
  ASSUME GitAssumption, GitInv, Expire, interventions' = interventions
  PROVE  GitInv' /\ RunsHold
<1>1. GitTypeOK
  BY DEF GitInv
<1>2. /\ source' \in [revision : Revisions, archived : BOOLEAN, token : 0..MaxRevision,
                      live : BOOLEAN]
      /\ source'.revision = source.revision
  BY <1>1 DEF Expire, GitTypeOK
<1>3. GitTypeOK'
  BY <1>1, <1>2 DEF GitTypeOK, Expire, catalog
<1>4. /\ RunsHold /\ VersionsHold /\ CatalogOrdered' /\ ImportsOfRuns' /\ PlansFit'
      /\ ClaimsApart' /\ TwinsShutOut' /\ NoDuplicateCandidates' /\ CompleteMeansEvery'
  BY <1>1, <1>2, <1>3, GitFacts, SourceChanges DEF Expire, catalog
<1>5. BindingsFit' /\ WorkersFit'
  BY DEF GitInv, Expire, catalog, BindingsFit, BindingFits, Bound, WorkersFit, WorkerFits, Stored,
     Used, Planned, Imported
<1>. QED  BY <1>3, <1>4, <1>5 DEF GitInv

LEMMA ReleaseHolds ==
  ASSUME GitAssumption, GitInv, NEW w \in Workers, worker[w] # Free, Release(w),
         interventions' = interventions
  PROVE  GitInv' /\ RunsHold
<1>1. GitTypeOK
  BY DEF GitInv
<1>2. /\ source' \in [revision : Revisions, archived : BOOLEAN, token : 0..MaxRevision,
                      live : BOOLEAN]
      /\ source'.revision = source.revision /\ source'.live => source.live
  <2>1. CASE source.token = worker[w].lease
    <3>1. source' = [revision |-> source.revision, archived |-> source.archived, token |-> 0,
                     live |-> FALSE]
      BY <2>1 DEF Release
    <3>2. 0 \in 0..MaxRevision
      BY DEF GitAssumption
    <3>. QED  BY <1>1, <3>1, <3>2, GitFacts
  <2>2. CASE source.token # worker[w].lease
    BY <1>1, <2>2 DEF Release, GitTypeOK
  <2>. QED  BY <2>1, <2>2
<1>3. worker' = [worker EXCEPT ![w] = Free]
  BY DEF Release
<1>4. GitTypeOK'
  BY <1>1, <1>2, <1>3 DEF GitTypeOK, Release, catalog
<1>5. /\ RunsHold /\ VersionsHold /\ CatalogOrdered' /\ ImportsOfRuns' /\ PlansFit'
      /\ ClaimsApart' /\ TwinsShutOut' /\ NoDuplicateCandidates' /\ CompleteMeansEvery'
  BY <1>1, <1>2, <1>4, GitFacts, SourceChanges DEF Release, catalog
<1>6. BindingsFit'
  BY DEF GitInv, Release, catalog, BindingsFit, BindingFits, Bound
<1>7. WorkersFit'
  <2>1. WorkersFit
    BY DEF GitInv
  <2>2. worker'[w] = Free /\ \A other \in Workers \ {w} : worker'[other] = worker[other]
    BY <1>1, <1>3 DEF GitTypeOK
  <2>. QED  BY <1>1, <1>4, <1>5, <2>1, <2>2, WorkersStay
<1>. QED  BY <1>4, <1>5, <1>6, <1>7 DEF GitInv

LEMMA ShelveHolds ==
  ASSUME GitAssumption, GitInv, NEW s \in Skills, Shelve(s), interventions' \in 0..MaxInterventions
  PROVE  GitInv' /\ RunsHold
<1>1. GitTypeOK
  BY DEF GitInv
<1>2. GitTypeOK'
  BY <1>1 DEF GitTypeOK, Shelve
<1>3. /\ RunsHold /\ VersionsHold /\ CatalogOrdered' /\ ImportsOfRuns' /\ PlansFit'
      /\ ClaimsApart' /\ TwinsShutOut' /\ NoDuplicateCandidates' /\ CompleteMeansEvery'
  BY <1>1, <1>2, GitFacts, SourceChanges DEF Shelve
<1>4. BindingsFit' /\ WorkersFit'
  BY DEF GitInv, Shelve, BindingsFit, BindingFits, Bound, WorkersFit, WorkerFits, Stored,
     Used, Planned, Imported
<1>. QED  BY <1>2, <1>3, <1>4 DEF GitInv

-----------------------------------------------------------------------------
(* What people do with the skills.                                           *)

\* A candidate is decided on.
LEMMA ReviewHolds ==
  ASSUME GitAssumption, GitInv, NEW v \in Versions, Review(v),
         interventions' \in 0..MaxInterventions
  PROVE  GitInv' /\ RunsHold
<1>1. GitTypeOK /\ CatalogOrdered /\ ImportsOfRuns /\ BindingsFit /\ WorkersFit
  BY DEF GitInv
<1>2. v \in 1..created /\ version[v] \in Version /\ version[v].status = "pending_review"
  <2>1. v <= created /\ version[v].status = "pending_review"
    BY DEF Review
  <2>2. v \in 1..created
    BY <1>1, <2>1, GitFacts DEF Versions
  <2>. QED  BY <1>1, <2>1, <2>2, VersionFacts
<1>3. PICK status \in {"rejected", "published"} :
        /\ version' = [version EXCEPT ![v].status = status]
        /\ \/ published' = published
           \/ published' = [published EXCEPT ![version[v].skill] = v]
  BY DEF Review
<1>4. PICK x : /\ x = [skill |-> version[v].skill, status |-> status, digest |-> version[v].digest,
                       base |-> version[v].base, run |-> version[v].run, path |-> version[v].path]
               /\ version' = [version EXCEPT ![v] = x] /\ x \in Version /\ x # Unbound
  <2>1. PICK x : x = [skill |-> version[v].skill, status |-> status, digest |-> version[v].digest,
                      base |-> version[v].base, run |-> version[v].run, path |-> version[v].path]
    OBVIOUS
  <2>2. x \in Version
    BY <1>2, <2>1 DEF Version
  <2>3. [version[v] EXCEPT !.status = status] = x
    BY <1>2, <2>1 DEF Version
  <2>4. version' = [version EXCEPT ![v] = [version[v] EXCEPT !.status = status]]
    BY <1>3
  <2>. QED  BY <2>1, <2>2, <2>3, <2>4, UnboundIsNothing
<1>5. /\ version' \in [Versions -> Version \cup {Unbound}]
      /\ version'[v] = x /\ \A w \in Versions : w # v => version'[w] = version[w]
  BY <1>1, <1>4 DEF GitTypeOK
<1>6. published' \in [Skills -> OptVersions]
  <2>1. v \in OptVersions
    BY GitFacts DEF Versions, OptVersions
  <2>. QED  BY <1>1, <1>3, <2>1 DEF GitTypeOK
<1>7. /\ source' = source /\ shelved' = shelved /\ created' = created /\ binding' = binding
      /\ run' = run /\ worker' = worker /\ overtaken' = overtaken
  BY DEF Review
<1>8. GitTypeOK'
  BY <1>1, <1>5, <1>6, <1>7 DEF GitTypeOK
<1>9. 1..created \subseteq Versions /\ created \in Nat
  BY <1>1, GitFacts
<1>10. VersionsHold
  BY <1>4, <1>5, <1>7, <1>9 DEF VersionsHold
<1>11. RunsHold /\ PlansFit' /\ ClaimsApart' /\ CompleteMeansEvery'
  BY <1>7, <1>8, <1>10, CatalogChanges
<1>12. TwinsShutOut' /\ NoDuplicateCandidates'
  <2>1. \A w \in 1..created' : version'[w].status = "pending_review" =>
          w \in 1..created /\ version[w].status = "pending_review"
    BY <1>3, <1>4, <1>5, <1>7, <1>9
  <2>. QED  BY <1>7, <1>8, <1>10, <2>1, FewerPending
<1>13. \A s \in Skills : /\ published[s] # 0 => published'[s] # 0
                         /\ published'[s] # 0 =>
                              published'[s] <= created /\ version[published'[s]].skill = s
  <2>1. v # 0 /\ v <= created
    BY <1>2, <1>9
  <2>2. \A s \in Skills : published'[s] = published[s] \/ (s = version[v].skill /\ published'[s] = v)
    BY <1>1, <1>3 DEF GitTypeOK
  <2>3. \A s \in Skills : published[s] # 0 =>
          published[s] <= created /\ version[published[s]].skill = s
    BY <1>1 DEF CatalogOrdered
  <2>. QED  BY <2>1, <2>2, <2>3
<1>14. CatalogOrdered'
  <2>1. \A w \in Versions : version'[w] # Unbound <=> w <= created'
    BY <1>1, <1>2, <1>4, <1>5, <1>7, <1>9 DEF CatalogOrdered
  <2>2. \A s \in Skills : published'[s] # 0 =>
          published'[s] <= created' /\ version'[published'[s]].skill = s
    <3>1. SUFFICES ASSUME NEW s \in Skills, published'[s] # 0
                   PROVE  published'[s] <= created' /\ version'[published'[s]].skill = s
      OBVIOUS
    <3>2. published'[s] \in 1..created
      BY <1>6, <1>9, <1>13, <3>1 DEF OptVersions
    <3>. QED  BY <1>7, <1>10, <1>13, <3>1, <3>2 DEF VersionsHold
  <2>. QED  BY <2>1, <2>2 DEF CatalogOrdered
<1>15. ImportsOfRuns'
  <2>1. \A w \in 1..created : version'[w].status = "pending_review" =>
          version[w].status = "pending_review"
    BY <1>3, <1>4, <1>5, <1>9
  <2>2. \A w \in 1..created : /\ version'[w].run = version[w].run /\ version'[w].path = version[w].path
                              /\ version'[w].digest = version[w].digest
    BY <1>10 DEF VersionsHold
  <2>. QED  BY <1>1, <1>7, <2>1, <2>2 DEF ImportsOfRuns, Stored, Used
<1>16. BindingsFit'
  <2>1. PICK b : b = binding
    OBVIOUS
  <2>2. \A p \in Paths : p # None => binding'[p] = binding[p]
    BY <1>7
  <2>. QED  BY <1>1, <1>7, <1>8, <1>10, <1>13, <2>2, BindingsStay DEF GitAssumption
<1>17. WorkersFit'
  <2>1. SUFFICES ASSUME NEW w \in Workers PROVE WorkersFit'
    BY DEF WorkersFit
  <2>2. PICK y : y = worker[w]
    OBVIOUS
  <2>3. y # Free => y \in Worker /\ WorkerFits(y)
    BY <1>1, <2>2, GitFacts DEF WorkersFit
  <2>4. y # Free => WorkerFits(y)'
    BY <1>1, <1>8, <1>10, <1>11, <2>3, WorkerStays
  <2>5. worker'[w] = y /\ \A other \in Workers \ {w} : worker'[other] = worker[other]
    BY <1>7, <2>2
  <2>. QED  BY <1>1, <1>8, <1>10, <1>11, <2>4, <2>5, WorkersStay
<1>. QED  BY <1>8, <1>11, <1>12, <1>14, <1>15, <1>16, <1>17 DEF GitInv

\* A version is published by hand.
LEMMA PublishByHandHolds ==
  ASSUME GitAssumption, GitInv, NEW s \in Skills, PublishByHand(s),
         interventions' \in 0..MaxInterventions
  PROVE  GitInv' /\ RunsHold
<1>1. GitTypeOK /\ CatalogOrdered /\ ImportsOfRuns /\ BindingsFit /\ WorkersFit
  BY DEF GitInv
<1>2. PICK v : v = created + 1
  OBVIOUS
<1>3. PICK x : /\ \E d \in Digests :
                    x = [skill |-> s, status |-> "published", digest |-> d, base |-> published[s],
                         run |-> None, path |-> None]
               /\ version' = [version EXCEPT ![v] = x]
  BY <1>2 DEF PublishByHand
<1>4. /\ source' = source /\ shelved' = shelved /\ created' = v /\ binding' = binding
      /\ run' = run /\ worker' = worker /\ overtaken' = overtaken
      /\ published' = [published EXCEPT ![s] = v]
  BY <1>2 DEF PublishByHand
<1>5. v \in Versions /\ v \in OptVersions /\ v # 0 /\ created \in Nat
  BY <1>1, <1>2, GitFacts DEF Versions, OptVersions, PublishByHand, GitAssumption
<1>6. x \in Version /\ x # Unbound
  <2>1. published[s] \in OptVersions
    BY <1>1, GitFacts
  <2>2. x \in Version
    BY <1>3, <2>1 DEF Version
  <2>. QED  BY <2>2, UnboundIsNothing
<1>7. /\ version' \in [Versions -> Version \cup {Unbound}]
      /\ version'[v] = x /\ \A w \in Versions : w # v => version'[w] = version[w]
  BY <1>1, <1>3, <1>5, <1>6 DEF GitTypeOK
<1>8. /\ published' \in [Skills -> OptVersions] /\ published'[s] = v
      /\ \A t \in Skills : t # s => published'[t] = published[t]
  BY <1>1, <1>4, <1>5 DEF GitTypeOK
<1>9. GitTypeOK'
  BY <1>1, <1>4, <1>5, <1>7, <1>8 DEF GitTypeOK
<1>10. 1..created \subseteq Versions /\ \A w : w \in 1..v <=> w \in 1..created \/ w = v
  BY <1>1, <1>2, <1>5, GitFacts
<1>11. v \notin 1..created /\ created <= v
  BY <1>2, <1>5
<1>12. \A w \in 1..created : version'[w] = version[w]
  BY <1>7, <1>10, <1>11
<1>13. VersionsHold
  BY <1>4, <1>11, <1>12 DEF VersionsHold
<1>14. RunsHold /\ PlansFit' /\ ClaimsApart' /\ CompleteMeansEvery'
  BY <1>4, <1>9, <1>13, CatalogChanges
<1>15. TwinsShutOut' /\ NoDuplicateCandidates'
  <2>1. \A w \in 1..created' : version'[w].status = "pending_review" =>
          w \in 1..created /\ version[w].status = "pending_review"
    BY <1>3, <1>4, <1>7, <1>10, <1>12
  <2>. QED  BY <1>4, <1>9, <1>13, <2>1, FewerPending
<1>16. CatalogOrdered'
  <2>1. \A w \in Versions : version'[w] # Unbound <=> w <= created'
    <3>1. SUFFICES ASSUME NEW w \in Versions PROVE version'[w] # Unbound <=> w <= created'
      OBVIOUS
    <3>2. CASE w = v
      BY <1>4, <1>5, <1>6, <1>7, <3>2 DEF Versions
    <3>3. CASE w # v
      BY <1>1, <1>2, <1>4, <1>5, <1>7, <3>3 DEF CatalogOrdered, Versions
    <3>. QED  BY <3>2, <3>3
  <2>2. \A t \in Skills : published'[t] # 0 =>
          published'[t] <= created' /\ version'[published'[t]].skill = t
    <3>1. SUFFICES ASSUME NEW t \in Skills, published'[t] # 0
                   PROVE  published'[t] <= created' /\ version'[published'[t]].skill = t
      OBVIOUS
    <3>2. CASE t = s
      <4>1. x.skill = s /\ v <= v
        BY <1>2, <1>3, <1>5
      <4>. QED  BY <1>4, <1>7, <1>8, <3>2, <4>1
    <3>3. CASE t # s
      <4>1. published'[t] = published[t] /\ published[t] # 0 /\ published[t] \in Nat
        BY <1>1, <1>8, <3>1, <3>3, GitFacts
      <4>2. published[t] \in 1..created /\ version[published[t]].skill = t
        BY <1>1, <1>5, <4>1 DEF CatalogOrdered
      <4>3. PICK u : u = published[t]
        OBVIOUS
      <4>4. u \in 1..created /\ version[u].skill = t /\ published'[t] = u
        BY <4>1, <4>2, <4>3
      <4>5. version'[u].skill = t /\ u <= v
        BY <1>2, <1>5, <1>12, <4>4
      <4>. QED  BY <1>4, <4>4, <4>5
    <3>. QED  BY <3>2, <3>3
  <2>. QED  BY <2>1, <2>2 DEF CatalogOrdered
<1>17. ImportsOfRuns'
  <2>1. x.run = None /\ x.path = None /\ x.status = "published"
    BY <1>3
  <2>. QED  BY <1>1, <1>4, <1>7, <1>10, <1>12, <2>1 DEF ImportsOfRuns, Stored, Used
<1>18. BindingsFit'
  <2>1. \A t \in Skills : published[t] # 0 => published'[t] # 0
    BY <1>5, <1>8
  <2>2. \A p \in Paths : p # None => binding'[p] = binding[p]
    BY <1>4
  <2>. QED  BY <1>1, <1>9, <1>13, <2>1, <2>2, BindingsStay DEF GitAssumption
<1>19. WorkersFit'
  <2>1. SUFFICES ASSUME NEW w \in Workers PROVE WorkersFit'
    BY DEF WorkersFit
  <2>2. PICK y : y = worker[w]
    OBVIOUS
  <2>3. y # Free => y \in Worker /\ WorkerFits(y)
    BY <1>1, <2>2, GitFacts DEF WorkersFit
  <2>4. y # Free => WorkerFits(y)'
    BY <1>1, <1>9, <1>13, <1>14, <2>3, WorkerStays
  <2>5. worker'[w] = y /\ \A other \in Workers \ {w} : worker'[other] = worker[other]
    BY <1>4, <2>2
  <2>. QED  BY <1>1, <1>9, <1>13, <1>14, <2>4, <2>5, WorkersStay
<1>. QED  BY <1>9, <1>14, <1>15, <1>16, <1>17, <1>18, <1>19 DEF GitInv

-----------------------------------------------------------------------------
(* Steps that move nothing but a worker.                                     *)

\* A worker goes on to a step.
Stepped(y, step) == [step |-> step, run |-> y.run, lease |-> y.lease, todo |-> y.todo, path |-> y.path,
                version |-> y.version]
LEMMA GoesOn ==
  ASSUME GitAssumption, GitTypeOK, NEW w \in Workers, worker[w] # Free, NEW step \in WorkerSteps,
         Go(w, step)
  PROVE  /\ Stepped(worker[w], step) \in Worker /\ Stepped(worker[w], step) # Free
         /\ worker'[w] = Stepped(worker[w], step)
         /\ \A other \in Workers \ {w} : worker'[other] = worker[other]
         /\ worker' \in [Workers -> Worker \cup {Free}]
<1>1. worker[w] \in Worker
  BY GitFacts
<1>2. Stepped(worker[w], step) \in Worker
  BY <1>1 DEF Stepped, Worker, WorkerSteps
<1>3. [worker[w] EXCEPT !.step = step] = Stepped(worker[w], step)
  BY <1>1 DEF Stepped, Worker
<1>4. worker' = [worker EXCEPT ![w] = Stepped(worker[w], step)]
  BY <1>3 DEF Go
<1>. QED  BY <1>2, <1>4, FreeIsNoWorker DEF GitTypeOK

\* Where a worker may go without a result.
MayGo(y, step) ==
  \/ step \in {"failed", "release"}
  \/ y.step \in UnderLease /\ step = "error"
  \/ y.step = "look" /\ step = "create" /\ run[y.run].plan[y.path].action = "changed"
  \/ y.step \in {"look", "create"} /\ step = "insert"
LEMMA GoneFits ==
  ASSUME NEW y, NEW step, WorkerFits(y), MayGo(y, step)
  PROVE  WorkerFits(Stepped(y, step))
<1>1. /\ Stored(y.run) /\ y.lease <= run[y.run].applied
      /\ \A q \in y.todo : Planned(y.run, q)
      /\ step \in {"failed", "release"} \/ (y.step \in UnderLease /\ step \in UnderLease)
  BY DEF WorkerFits, MayGo, UnderLease
<1>2. /\ step \in UnderLease => y.path \in Paths /\ Planned(y.run, y.path)
      /\ step \in UnderLease \cup {"item"} =>
           \A q \in Paths : Planned(y.run, q) =>
             \/ q \in y.todo \/ run[y.run].results[q] # "none"
             \/ (step \in UnderLease /\ q = y.path)
  BY <1>1 DEF WorkerFits, UnderLease
<1>3. /\ step \in {"look", "create", "insert", "bind"} =>
           run[y.run].plan[y.path].action \in {"added", "changed"}
      /\ step = "create" => run[y.run].plan[y.path].action = "changed"
      /\ step \notin {"keep", "note", "bind"}
  BY DEF WorkerFits, MayGo, UnderLease
<1>. QED  BY <1>1, <1>2, <1>3 DEF WorkerFits, Stepped

LEMMA OnlyHolds ==
  ASSUME GitAssumption, GitInv, NEW w \in Workers, worker[w] # Free, NEW step \in WorkerSteps,
         Only(w, step), MayGo(worker[w], step), interventions' = interventions
  PROVE  GitInv' /\ RunsHold
<1>1. GitTypeOK /\ WorkersFit
  BY DEF GitInv
<1>2. Go(w, step) /\ UNCHANGED <<source, catalog, binding, run, overtaken>>
  BY DEF Only
<1>3. PICK x : x = Stepped(worker[w], step)
  OBVIOUS
<1>4. /\ worker' \in [Workers -> Worker \cup {Free}] /\ worker'[w] = x
      /\ \A other \in Workers \ {w} : worker'[other] = worker[other]
  BY <1>1, <1>2, <1>3, GoesOn
<1>5. GitTypeOK'
  BY <1>1, <1>2, <1>4 DEF GitTypeOK, catalog
<1>6. PICK y : y = worker[w]
  OBVIOUS
<1>7. WorkerFits(y) /\ MayGo(y, step)
  BY <1>1, <1>6 DEF WorkersFit
<1>8. WorkerFits(x)
  BY <1>3, <1>6, <1>7, GoneFits
<1>. QED  BY <1>2, <1>4, <1>5, <1>8, OnlyWorkers

LEMMA LostHolds ==
  ASSUME GitAssumption, GitInv, NEW w \in Workers, worker[w] # Free, Lost(w),
         interventions' = interventions
  PROVE  GitInv' /\ RunsHold
  BY OnlyHolds DEF Lost, MayGo, WorkerSteps

LEMMA FailsHold ==
  ASSUME GitAssumption, GitInv, NEW w \in Workers, worker[w] # Free,
         ItemFails(w) \/ ApplyFails(w), interventions' = interventions
  PROVE  GitInv' /\ RunsHold
<1>1. CASE ItemFails(w)
  <2>1. PICK step \in {"failed", "error"} : Only(w, step) /\ worker[w].step \in UnderLease
    BY <1>1 DEF ItemFails, NoteFailure, UnderLease
  <2>2. MayGo(worker[w], step) /\ step \in WorkerSteps
    BY <2>1 DEF MayGo, WorkerSteps
  <2>. QED  BY <2>1, <2>2, OnlyHolds
<1>2. CASE ApplyFails(w)
  BY <1>2, OnlyHolds DEF ApplyFails, MayGo, WorkerSteps
<1>. QED  BY <1>1, <1>2

LEMMA ReserveHolds ==
  ASSUME GitAssumption, GitInv, NEW w \in Workers, worker[w] # Free, Reserve(w),
         interventions' = interventions
  PROVE  GitInv' /\ RunsHold
<1>1. CASE Lost(w)
  BY <1>1, LostHolds
<1>2. CASE ~Lost(w)
  <2>1. PICK step \in {"insert", "error"} : Only(w, step) /\ worker[w].step = "create"
    BY <1>2 DEF Reserve
  <2>2. MayGo(worker[w], step) /\ step \in WorkerSteps
    BY <2>1 DEF MayGo, WorkerSteps, UnderLease
  <2>. QED  BY <2>1, <2>2, OnlyHolds
<1>. QED  BY <1>1, <1>2

LEMMA CrashHolds ==
  ASSUME GitAssumption, GitInv, NEW w \in Workers, worker[w] # Free, Crash(w),
         interventions' = interventions
  PROVE  GitInv' /\ RunsHold
<1>1. GitTypeOK
  BY DEF GitInv
<1>2. /\ worker' \in [Workers -> Worker \cup {Free}] /\ worker'[w] = Free
      /\ \A other \in Workers \ {w} : worker'[other] = worker[other]
  BY <1>1 DEF GitTypeOK, Crash
<1>3. UNCHANGED <<source, catalog, binding, run, overtaken>>
  BY DEF Crash
<1>4. GitTypeOK'
  BY <1>1, <1>2, <1>3 DEF GitTypeOK, catalog
<1>. QED  BY <1>2, <1>3, <1>4, OnlyWorkers

\* A worker is at an entry of its run.
Taken(y, step, v) == [step |-> step, run |-> y.run, lease |-> y.lease, todo |-> y.todo,
                      path |-> y.path, version |-> v]
LEMMA Takes ==
  ASSUME GitAssumption, GitTypeOK, NEW w \in Workers, worker[w] # Free, NEW step \in WorkerSteps,
         NEW v \in OptVersions, Take(w, step, v)
  PROVE  /\ Taken(worker[w], step, v) \in Worker /\ Taken(worker[w], step, v) # Free
         /\ worker'[w] = Taken(worker[w], step, v)
         /\ \A other \in Workers \ {w} : worker'[other] = worker[other]
         /\ worker' \in [Workers -> Worker \cup {Free}]
<1>1. worker[w] \in Worker
  BY GitFacts
<1>2. Taken(worker[w], step, v) \in Worker
  BY <1>1 DEF Taken, Worker, WorkerSteps
<1>3. worker' = [worker EXCEPT ![w] = Taken(worker[w], step, v)]
  BY DEF Take, Taken
<1>. QED  BY <1>2, <1>3, FreeIsNoWorker DEF GitTypeOK

LEMMA TakenFits ==
  ASSUME NEW y, NEW step \in {"error", "bind"}, NEW v, WorkerFits(y),
         y.step \in {"look", "insert"}, v \in Imported(y.run, y.path)
  PROVE  WorkerFits(Taken(y, step, v))
<1>1. /\ Stored(y.run) /\ y.lease <= run[y.run].applied
      /\ \A q \in y.todo : Planned(y.run, q)
      /\ y.path \in Paths /\ Planned(y.run, y.path)
      /\ run[y.run].plan[y.path].action \in {"added", "changed"}
  BY DEF WorkerFits, UnderLease
<1>2. \A q \in Paths : Planned(y.run, q) =>
             \/ q \in y.todo \/ run[y.run].results[q] # "none" \/ q = y.path
  BY DEF WorkerFits, UnderLease
<1>3. step \in UnderLease /\ step \notin {"create", "keep"}
  BY DEF UnderLease
<1>. QED  BY <1>1, <1>2, <1>3 DEF WorkerFits, Taken

LEMMA LookHolds ==
  ASSUME GitAssumption, GitInv, NEW w \in Workers, worker[w] # Free, Look(w),
         interventions' = interventions
  PROVE  GitInv' /\ RunsHold
<1>1. GitTypeOK /\ WorkersFit
  BY DEF GitInv
<1>2. PICK y : y = worker[w]
  OBVIOUS
<1>3. WorkerFits(y) /\ y.step = "look" /\ y.run \in Runs
  BY <1>1, <1>2, GitFacts DEF WorkersFit, Look, Worker
<1>4. CASE \E v \in Imported(y.run, y.path) : \E step \in {"error", "bind"} :
             Take(w, step, v) /\ UNCHANGED <<source, catalog, binding, run, overtaken>>
  <2>1. PICK v \in Imported(y.run, y.path) : \E step \in {"error", "bind"} :
             Take(w, step, v) /\ UNCHANGED <<source, catalog, binding, run, overtaken>>
    BY <1>4
  <2>2. PICK step \in {"error", "bind"} :
             Take(w, step, v) /\ UNCHANGED <<source, catalog, binding, run, overtaken>>
    BY <2>1
  <2>3. v \in OptVersions
    <3>1. v \in 1..created
      BY DEF Imported
    <3>. QED  BY <1>1, <3>1, GitFacts DEF OptVersions, Versions
  <2>4. PICK x : x = Taken(y, step, v)
    OBVIOUS
  <2>5. /\ worker' \in [Workers -> Worker \cup {Free}] /\ worker'[w] = x
        /\ \A other \in Workers \ {w} : worker'[other] = worker[other]
    BY <1>1, <1>2, <2>2, <2>3, <2>4, Takes DEF WorkerSteps
  <2>6. GitTypeOK'
    BY <1>1, <2>2, <2>5 DEF GitTypeOK, catalog
  <2>7. WorkerFits(x)
    BY <1>3, <2>4, TakenFits
  <2>. QED  BY <2>2, <2>5, <2>6, <2>7, OnlyWorkers
<1>5. CASE Lost(w)
  BY <1>5, LostHolds
<1>6. CASE \E step \in {"create", "error", "insert"} :
             Only(w, step) /\ (step = "create" => EntryOf(w).action # "added")
  <2>1. PICK step \in {"create", "error", "insert"} :
             Only(w, step) /\ (step = "create" => EntryOf(w).action # "added")
    BY <1>6
  <2>2. run[y.run].plan[y.path].action \in {"added", "changed"}
    BY <1>3 DEF WorkerFits
  <2>3. MayGo(y, step) /\ step \in WorkerSteps
    BY <1>2, <1>3, <2>1, <2>2 DEF MayGo, WorkerSteps, UnderLease, EntryOf
  <2>. QED  BY <1>2, <2>1, <2>3, OnlyHolds
<1>7. \/ \E v \in Imported(y.run, y.path) : \E step \in {"error", "bind"} :
             Take(w, step, v) /\ UNCHANGED <<source, catalog, binding, run, overtaken>>
      \/ Lost(w)
      \/ \E step \in {"create", "error", "insert"} :
             Only(w, step) /\ (step = "create" => EntryOf(w).action # "added")
  <2>1. \/ \E v \in Imported(y.run, y.path) :
          /\ Take(w, IF version[v].status = "rejected" THEN "error" ELSE "bind", v)
          /\ UNCHANGED <<source, catalog, binding, run, overtaken>>
        \/ ~(EntryOf(w).action = "added") /\ Only(w, IF Unmoved(w) THEN "create" ELSE "error")
        \/ Only(w, IF Room(worker[w].path) THEN "insert" ELSE "error")
        \/ Lost(w)
    BY <1>2, Zenon DEF Look
  <2>2. ASSUME NEW v \in Imported(y.run, y.path),
               Take(w, IF version[v].status = "rejected" THEN "error" ELSE "bind", v)
        PROVE  \E step \in {"error", "bind"} : Take(w, step, v)
    BY <2>2
  <2>3. ASSUME ~(EntryOf(w).action = "added") /\ Only(w, IF Unmoved(w) THEN "create" ELSE "error")
        PROVE  \E step \in {"create", "error", "insert"} :
                 Only(w, step) /\ (step = "create" => EntryOf(w).action # "added")
    BY <2>3
  <2>4. ASSUME Only(w, IF Room(worker[w].path) THEN "insert" ELSE "error")
        PROVE  \E step \in {"create", "error", "insert"} :
                 Only(w, step) /\ (step = "create" => EntryOf(w).action # "added")
    BY <2>4
  <2>. QED  BY <2>1, <2>2, <2>3, <2>4
<1>. QED  BY <1>4, <1>5, <1>6, <1>7

\* The next entry without a result.
LEMMA RenewHolds ==
  ASSUME GitAssumption, GitInv, NEW w \in Workers, worker[w] # Free, Renew(w),
         interventions' = interventions
  PROVE  GitInv' /\ RunsHold
<1>1. GitTypeOK /\ WorkersFit
  BY DEF GitInv
<1>2. CASE Lost(w)
  BY <1>2, LostHolds
<1>3. CASE ~Lost(w)
  <2>1. PICK y : y = worker[w]
    OBVIOUS
  <2>2. WorkerFits(y) /\ y \in Worker /\ y.step = "item"
    BY <1>1, <2>1, GitFacts DEF WorkersFit, Renew
  <2>3. PICK p \in y.todo :
          worker' = [worker EXCEPT ![w] =
               [step |-> CASE run[y.run].plan[p].action \in {"added", "changed"} -> "look"
                           [] run[y.run].plan[p].action = "unchanged" -> "keep"
                           [] OTHER -> "note",
                run |-> y.run, lease |-> y.lease, todo |-> y.todo \ {p}, path |-> p,
                version |-> 0]]
    BY <1>3, <2>1 DEF Renew
  <2>4. PICK step : step = CASE run[y.run].plan[p].action \in {"added", "changed"} -> "look"
                           [] run[y.run].plan[p].action = "unchanged" -> "keep"
                           [] OTHER -> "note"
    OBVIOUS
  <2>5. /\ step \in {"look", "keep", "note"}
        /\ step = "look" => run[y.run].plan[p].action \in {"added", "changed"}
        /\ step = "keep" => run[y.run].plan[p].action = "unchanged"
        /\ step = "note" => run[y.run].plan[p].action \notin {"added", "changed", "unchanged"}
    BY <2>4
  <2>6. PICK x : x = [step |-> step, run |-> y.run, lease |-> y.lease, todo |-> y.todo \ {p},
                      path |-> p, version |-> 0]
    OBVIOUS
  <2>7. p \in Paths /\ y.run \in Runs /\ y.lease \in Revisions /\ y.todo \subseteq Paths
    BY <2>2, <2>3 DEF Worker
  <2>8. x \in Worker
    <3>1. 0 \in OptVersions
      BY DEF OptVersions, GitAssumption
    <3>. QED  BY <2>5, <2>6, <2>7, <3>1 DEF Worker
  <2>9. worker' = [worker EXCEPT ![w] = x]
    BY <2>3, <2>4, <2>6
  <2>10. /\ worker' \in [Workers -> Worker \cup {Free}] /\ worker'[w] = x
         /\ \A other \in Workers \ {w} : worker'[other] = worker[other]
    BY <1>1, <2>8, <2>9 DEF GitTypeOK
  <2>11. UNCHANGED <<source, catalog, binding, run, overtaken>>
    BY <1>3 DEF Renew
  <2>12. GitTypeOK'
    BY <1>1, <2>10, <2>11 DEF GitTypeOK, catalog
  <2>13. WorkerFits(x)
    <3>1. Stored(y.run) /\ y.lease <= run[y.run].applied /\ \A q \in y.todo : Planned(y.run, q)
      BY <2>2 DEF WorkerFits
    <3>2. \A q \in Paths : Planned(y.run, q) => q \in y.todo \/ run[y.run].results[q] # "none"
      BY <2>2 DEF WorkerFits, UnderLease
    <3>3. step \in UnderLease /\ step \notin {"create", "insert", "bind"}
      BY <2>5 DEF UnderLease
    <3>4. \A q \in Paths : Planned(y.run, q) =>
             q \in y.todo \ {p} \/ run[y.run].results[q] # "none" \/ q = p
      BY <3>2
    <3>. QED  BY <2>5, <2>6, <2>7, <3>1, <3>3, <3>4 DEF WorkerFits
  <2>. QED  BY <2>10, <2>11, <2>12, <2>13, OnlyWorkers
<1>. QED  BY <1>2, <1>3

-----------------------------------------------------------------------------
(* The transactions that commit a result.                                    *)

\* A result is merged into a run.
LEMMA SavedRun ==
  ASSUME GitAssumption, GitTypeOK, NEW r \in Runs, Stored(r), NEW p \in Paths,
         NEW result \in {"done", "error"}, run' = Saved(r, p, result)
  PROVE  /\ run' \in [Runs -> Run \cup {Unused}] /\ \A q \in Runs \ {r} : run'[q] = run[q]
         /\ Stored(r)' /\ run'[r].at = run[r].at /\ run'[r].applied = run[r].applied
         /\ run'[r].commit = run[r].commit /\ run'[r].plan = run[r].plan
         /\ run'[r].stage = "partial" /\ run'[r].results[p] # "none"
         /\ \A q \in Paths : /\ run[r].results[q] # "none" => run'[r].results[q] # "none"
                             /\ run[r].results[q] = "done" => run'[r].results[q] = "done"
<1>1. run[r] \in Run /\ run[r].results \in [Paths -> {"none", "done", "error"}]
  <2>1. run[r] \in Run
    BY GitFacts DEF Stored
  <2>. QED  BY <2>1 DEF Run
<1>2. PICK value : value = Merged(run[r].results[p], result)
  OBVIOUS
<1>3. /\ value \in {"done", "error"} /\ (run[r].results[p] = "done" => value = "done")
  BY <1>2 DEF Merged
<1>4. PICK results : results = [run[r].results EXCEPT ![p] = value]
  OBVIOUS
<1>5. /\ results \in [Paths -> {"none", "done", "error"}] /\ results[p] = value
      /\ \A q \in Paths : q # p => results[q] = run[r].results[q]
  BY <1>1, <1>3, <1>4
<1>6. PICK x : x = [stage |-> "partial", at |-> run[r].at, applied |-> run[r].applied,
                    commit |-> run[r].commit, plan |-> run[r].plan, results |-> results]
  OBVIOUS
<1>7. run' = [run EXCEPT ![r] = x]
  BY <1>2, <1>4, <1>6 DEF Saved
<1>8. x \in Run /\ x # Unused
  <2>1. x \in Run
    BY <1>1, <1>5, <1>6 DEF Run
  <2>. QED  BY <2>1, UnusedIsNoRun
<1>9. /\ run' \in [Runs -> Run \cup {Unused}] /\ run'[r] = x
      /\ \A q \in Runs \ {r} : run'[q] = run[q]
  BY <1>7, <1>8 DEF GitTypeOK
<1>10. Stored(r)'
  BY <1>6, <1>8, <1>9 DEF Stored, Used
<1>. QED  BY <1>3, <1>5, <1>6, <1>9, <1>10

LEMMA SavedFits ==
  ASSUME NEW y, NEW step \in {"item", "error", "failed"}, WorkerFits(y)', y.step \in UnderLease,
         run'[y.run].results[y.path] # "none"
  PROVE  WorkerFits(Stepped(y, step))'
<1>1. /\ Stored(y.run)' /\ y.lease <= run'[y.run].applied
      /\ \A q \in y.todo : Planned(y.run, q)'
      /\ y.path \in Paths /\ Planned(y.run, y.path)'
  BY DEF WorkerFits
<1>2. \A q \in Paths : Planned(y.run, q)' => q \in y.todo \/ run'[y.run].results[q] # "none"
  BY DEF WorkerFits
<1>. QED  BY <1>1, <1>2 DEF WorkerFits, Stepped, UnderLease

\* The transaction of an item: its result is saved, with what it makes of its path's binding.
LEMMA SaveHolds ==
  ASSUME GitAssumption, GitInv, NEW w \in Workers, worker[w] # Free, worker[w].step \in UnderLease,
         NEW result \in {"done", "error"}, run' = Saved(worker[w].run, worker[w].path, result),
         NEW step \in {"item", "error", "failed"}, Go(w, step),
         UNCHANGED <<source, catalog, overtaken>>, interventions' = interventions,
         NEW b \in Binding \cup {Unbound}, binding' = [binding EXCEPT ![worker[w].path] = b],
         b # Unbound => BindingFits(b)
  PROVE  GitInv' /\ RunsHold
<1>1. GitTypeOK /\ WorkersFit /\ BindingsFit
  BY DEF GitInv
<1>2. PICK y : y = worker[w]
  OBVIOUS
<1>3. y \in Worker /\ WorkerFits(y) /\ y.step \in UnderLease
  BY <1>1, <1>2, GitFacts DEF WorkersFit
<1>4. y.run \in Runs /\ y.path \in Paths /\ Stored(y.run)
  BY <1>3 DEF Worker, WorkerFits
<1>5. PICK r \in Runs, p \in Paths : r = y.run /\ p = y.path
  BY <1>4
<1>6. /\ run' \in [Runs -> Run \cup {Unused}] /\ \A q \in Runs \ {r} : run'[q] = run[q]
      /\ Stored(r)' /\ run'[r].at = run[r].at /\ run'[r].applied = run[r].applied
      /\ run'[r].commit = run[r].commit /\ run'[r].plan = run[r].plan
      /\ run'[r].stage = "partial" /\ run'[r].results[p] # "none"
      /\ \A q \in Paths : /\ run[r].results[q] # "none" => run'[r].results[q] # "none"
                          /\ run[r].results[q] = "done" => run'[r].results[q] = "done"
  BY <1>1, <1>2, <1>4, <1>5, SavedRun
<1>7. PICK x : x = Stepped(y, step)
  OBVIOUS
<1>8. /\ worker' \in [Workers -> Worker \cup {Free}] /\ worker'[w] = x
      /\ \A other \in Workers \ {w} : worker'[other] = worker[other]
  BY <1>1, <1>2, <1>7, GoesOn DEF WorkerSteps
<1>9. /\ binding' \in [Paths -> Binding \cup {Unbound}] /\ binding'[p] = b
      /\ \A q \in Paths : q # p => binding'[q] = binding[q]
  BY <1>1, <1>2, <1>5 DEF GitTypeOK
<1>10. GitTypeOK'
  BY <1>1, <1>6, <1>8, <1>9 DEF GitTypeOK, catalog
<1>11. /\ RunsHold /\ VersionsHold /\ CatalogOrdered' /\ ImportsOfRuns' /\ PlansFit'
       /\ ClaimsApart' /\ TwinsShutOut' /\ NoDuplicateCandidates' /\ CompleteMeansEvery'
  <2>1. Stored(r)
    BY <1>4, <1>5
  <2>2. run'[r].stage = "complete" => Unfinished(r)' = {}
    BY <1>6
  <2>. QED  BY <1>6, <1>10, <2>1, <2>2, ResultsChange
<1>12. BindingsFit'
  <2>1. published' = published /\ version' = version /\ created' = created
    BY DEF catalog
  <2>2. b # Unbound => BindingFits(b)'
    BY <2>1 DEF BindingFits
  <2>. QED  BY <1>1, <1>9, <1>10, <1>11, <2>1, <2>2, BindingsStay
<1>13. WorkersFit'
  <2>1. WorkerFits(y)'
    BY <1>1, <1>3, <1>10, <1>11, WorkerStays
  <2>2. WorkerFits(Stepped(y, step))'
    BY <1>3, <1>5, <1>6, <2>1, SavedFits
  <2>3. WorkerFits(x)'
    BY <1>7, <2>2 DEF WorkerFits, Stored, Used, Planned, Imported
  <2>. QED  BY <1>1, <1>8, <1>10, <1>11, <2>3, WorkersStay
<1>. QED  BY <1>10, <1>11, <1>12, <1>13 DEF GitInv

\* The binding of a path as it is.
LEMMA BindingAsIs ==
  ASSUME GitAssumption, GitTypeOK, BindingsFit, NEW p \in Paths
  PROVE  /\ binding[p] \in Binding \cup {Unbound} /\ (binding[p] # Unbound => BindingFits(binding[p]))
         /\ binding = [binding EXCEPT ![p] = binding[p]]
  BY DEF GitTypeOK, BindingsFit, Bound

\* A worker at an entry is in its plan.
LEMMA AtEntry ==
  ASSUME GitAssumption, GitInv, NEW w \in Workers, worker[w] # Free, worker[w].step \in UnderLease
  PROVE  /\ worker[w] \in Worker /\ WorkerFits(worker[w])
         /\ worker[w].run \in Runs /\ worker[w].path \in Paths /\ Stored(worker[w].run)
         /\ EntryOf(w) \in Entry /\ EntryFits(EntryOf(w), DigestAt(w))
         /\ DigestAt(w) \in Digests \cup {Missing, Invalid}
<1>1. GitTypeOK /\ WorkersFit /\ PlansFit
  BY DEF GitInv
<1>2. PICK y : y = worker[w]
  OBVIOUS
<1>3. y \in Worker /\ WorkerFits(y)
  BY <1>1, <1>2, GitFacts DEF WorkersFit
<1>4. PICK r, p : r = y.run /\ p = y.path
  OBVIOUS
<1>5. r \in Runs /\ p \in Paths /\ Stored(r) /\ Planned(r, p) /\ Used(r)
  BY <1>2, <1>3, <1>4 DEF Worker, WorkerFits, Stored
<1>6. run[r].plan[p] \in Entry /\ run[r].commit[p] \in Digests \cup {Missing, Invalid}
  BY <1>1, <1>5, RunFacts
<1>7. EntryFits(run[r].plan[p], run[r].commit[p])
  BY <1>1, <1>5 DEF PlansFit
<1>. QED  BY <1>2, <1>3, <1>4, <1>5, <1>6, <1>7 DEF EntryOf, DigestAt

LEMMA NoteHolds ==
  ASSUME GitAssumption, GitInv, NEW w \in Workers, worker[w] # Free, Note(w),
         interventions' = interventions
  PROVE  GitInv' /\ RunsHold
<1>1. CASE Lost(w)
  BY <1>1, LostHolds
<1>2. CASE ~Lost(w)
  <2>1. worker[w].step \in UnderLease
    BY DEF Note, UnderLease
  <2>2. PICK step \in {"item", "error", "failed"} : Go(w, step)
    BY <1>2 DEF Note, NoteFailure
  <2>3. /\ run' = Saved(worker[w].run, worker[w].path, "done")
        /\ UNCHANGED <<source, catalog, binding, overtaken>>
    BY <1>2 DEF Note, SaveDone
  <2>4. PICK p \in Paths : p = worker[w].path
    BY <2>1, AtEntry
  <2>5. PICK b : b = binding[p]
    OBVIOUS
  <2>6. GitTypeOK /\ BindingsFit
    BY DEF GitInv
  <2>7. binding[p] \in Binding \cup {Unbound} /\ (binding[p] # Unbound => BindingFits(binding[p]))
    BY <2>6, BindingAsIs
  <2>8. b \in Binding \cup {Unbound} /\ (b # Unbound => BindingFits(b))
    BY <2>5, <2>7
  <2>9. binding = [binding EXCEPT ![p] = b]
    BY <2>5, <2>6, BindingAsIs
  <2>10. binding' = [binding EXCEPT ![worker[w].path] = b]
    BY <2>3, <2>4, <2>9
  <2>. QED  BY <2>1, <2>2, <2>3, <2>8, <2>10, SaveHolds
<1>. QED  BY <1>1, <1>2

LEMMA SaveErrorHolds ==
  ASSUME GitAssumption, GitInv, NEW w \in Workers, worker[w] # Free, SaveError(w),
         interventions' = interventions
  PROVE  GitInv' /\ RunsHold
<1>1. CASE Lost(w)
  BY <1>1, LostHolds
<1>2. CASE ~Lost(w)
  <2>1. worker[w].step \in UnderLease
    BY DEF SaveError, UnderLease
  <2>2. PICK step \in {"item", "error", "failed"} : Go(w, step)
    BY <1>2 DEF SaveError
  <2>3. /\ run' = Saved(worker[w].run, worker[w].path, "error")
        /\ UNCHANGED <<source, catalog, binding, overtaken>>
    BY <1>2 DEF SaveError
  <2>4. PICK p \in Paths : p = worker[w].path
    BY <2>1, AtEntry
  <2>5. PICK b : b = binding[p]
    OBVIOUS
  <2>6. GitTypeOK /\ BindingsFit
    BY DEF GitInv
  <2>7. binding[p] \in Binding \cup {Unbound} /\ (binding[p] # Unbound => BindingFits(binding[p]))
    BY <2>6, BindingAsIs
  <2>8. b \in Binding \cup {Unbound} /\ (b # Unbound => BindingFits(b))
    BY <2>5, <2>7
  <2>9. binding = [binding EXCEPT ![p] = b]
    BY <2>5, <2>6, BindingAsIs
  <2>10. binding' = [binding EXCEPT ![worker[w].path] = b]
    BY <2>3, <2>4, <2>9
  <2>. QED  BY <2>1, <2>2, <2>3, <2>8, <2>10, SaveHolds
<1>. QED  BY <1>1, <1>2

\* The version a run imported is tied to its path: it has what the run found there.
LEMMA BindVersionHolds ==
  ASSUME GitAssumption, GitInv, NEW w \in Workers, worker[w] # Free, BindVersion(w),
         interventions' = interventions
  PROVE  GitInv' /\ RunsHold
<1>1. CASE Lost(w)
  BY <1>1, LostHolds
<1>2. worker[w].step = "bind" /\ worker[w].step \in UnderLease
  BY DEF BindVersion, UnderLease
<1>3. CASE Only(w, "error")
  <2>1. MayGo(worker[w], "error") /\ "error" \in WorkerSteps
    BY <1>2 DEF MayGo, WorkerSteps
  <2>. QED  BY <1>3, <2>1, OnlyHolds
<1>4. CASE ~Lost(w) /\ ~Only(w, "error")
  <2>1. GitTypeOK /\ CatalogOrdered /\ ImportsOfRuns
    BY DEF GitInv
  <2>2. PICK v, e, r, p : v = worker[w].version /\ e = EntryOf(w) /\ r = worker[w].run
                          /\ p = worker[w].path
    OBVIOUS
  <2>3. /\ e \in Entry /\ v \in Imported(r, p) /\ r \in Runs /\ p \in Paths
    BY <1>2, <2>2, AtEntry DEF WorkerFits
  <2>4. /\ v \in 1..created /\ version[v].run = r /\ version[v].path = p /\ v \in Nat /\ v # 0
        /\ v \in OptVersions
    <3>1. v \in 1..created /\ version[v].run = r /\ version[v].path = p
      BY <2>3 DEF Imported
    <3>. QED  BY <2>1, <3>1, GitFacts DEF OptVersions, Versions
  <2>5. PICK b : b = [skill |-> version[v].skill, base |-> IF e.base = 0 THEN v ELSE e.base,
                      last |-> v, digest |-> DigestAt(w)]
    OBVIOUS
  <2>6. /\ Bindable(w) /\ binding' = [binding EXCEPT ![worker[w].path] = b]
        /\ SaveDone(w) /\ Committed(w) /\ UNCHANGED <<source, catalog, overtaken>>
    BY <1>4, <2>2, <2>5 DEF BindVersion
  <2>7. version[v].skill \in Skills /\ version[v].digest \in Digests
    BY <2>1, <2>4, VersionFacts
  <2>8. version[v].digest = DigestAt(w)
    <3>1. version[v].run # None
      BY <2>3, <2>4 DEF GitAssumption
    <3>. QED  BY <2>1, <2>2, <2>4, <3>1 DEF ImportsOfRuns, DigestAt
  <2>9. b \in Binding
    <3>1. e.base \in OptVersions
      BY <2>3 DEF Entry
    <3>. QED  BY <2>4, <2>5, <2>7, <2>8, <3>1 DEF Binding
  <2>10. BindingFits(b)
    <3>1. published[version[v].skill] \in {IF e.base = 0 THEN v ELSE e.base, v}
      BY <2>2, <2>6 DEF Bindable
    <3>2. published[version[v].skill] # 0
      BY <2>4, <3>1
    <3>3. v <= created
      BY <2>4
    <3>. QED  BY <2>4, <2>5, <2>8, <3>2, <3>3 DEF BindingFits
  <2>11. PICK step \in {"item", "error", "failed"} : Go(w, step)
    BY <2>6 DEF Committed
  <2>12. run' = Saved(worker[w].run, worker[w].path, "done")
    BY <2>6 DEF SaveDone
  <2>. QED  BY <1>2, <2>6, <2>9, <2>10, <2>11, <2>12, SaveHolds
<1>. QED  BY <1>1, <1>3, <1>4

\* An unchanged entry is kept: what the binding comes to say has the content the run found.
LEMMA KeepHolds ==
  ASSUME GitAssumption, GitInv, NEW w \in Workers, worker[w] # Free, Keep(w),
         interventions' = interventions
  PROVE  GitInv' /\ RunsHold
<1>1. CASE Lost(w)
  BY <1>1, LostHolds
<1>2. worker[w].step = "keep" /\ worker[w].step \in UnderLease
  BY DEF Keep, UnderLease
<1>3. CASE Only(w, "error")
  <2>1. MayGo(worker[w], "error") /\ "error" \in WorkerSteps
    BY <1>2 DEF MayGo, WorkerSteps
  <2>. QED  BY <1>3, <2>1, OnlyHolds
<1>4. CASE ~Lost(w) /\ ~Only(w, "error")
  <2>1. GitTypeOK /\ CatalogOrdered /\ BindingsFit
    BY DEF GitInv
  <2>2. PICK e, p, found : e = EntryOf(w) /\ p = worker[w].path /\ found = DigestAt(w)
    OBVIOUS
  <2>3. /\ e \in Entry /\ p \in Paths /\ EntryFits(e, found) /\ e.action = "unchanged"
        /\ found \in Digests
    <3>1. e \in Entry /\ p \in Paths /\ EntryFits(e, found) /\ e.action = "unchanged"
      BY <1>2, <2>2, AtEntry DEF WorkerFits, EntryOf
    <3>. QED  BY <3>1 DEF EntryFits
  <2>4. PICK b : b = binding[p]
    OBVIOUS
  <2>5. PICK kept : kept = Kept(w)
    OBVIOUS
  <2>6. /\ Keepable(w) /\ binding' = [binding EXCEPT ![worker[w].path] = kept]
        /\ SaveDone(w) /\ Committed(w) /\ UNCHANGED <<source, catalog, overtaken>>
    BY <1>4, <2>5 DEF Keep
  <2>7. b # Unbound /\ b.skill = e.skill /\ b.last = e.last /\ published[e.skill] = e.base
    BY <2>2, <2>4, <2>6 DEF Keepable, Unmoved
  <2>8. b \in Binding /\ BindingFits(b)
    BY <2>1, <2>3, <2>4, <2>7, BindingAsIs
  <2>9. b.skill \in Skills /\ published[b.skill] # 0 /\ published[b.skill] \in OptVersions
    BY <2>1, <2>8, GitFacts DEF Binding, BindingFits
  <2>10. ASSUME NEW v \in OptVersions, v # 0, v <= created, version[v].skill = b.skill,
                version[v].digest = found,
                kept = [skill |-> b.skill, base |-> published[b.skill], last |-> v,
                        digest |-> found]
         PROVE  kept \in Binding /\ BindingFits(kept)
    <3>1. kept \in Binding
      BY <2>3, <2>9, <2>10 DEF Binding
    <3>. QED  BY <2>9, <2>10, <3>1 DEF BindingFits
  <2>11. kept \in Binding /\ BindingFits(kept)
    <3>1. CASE e.candidate # 0
      <4>1. /\ e.candidate \in OptVersions /\ e.candidate <= created
            /\ version[e.candidate].skill = e.skill /\ version[e.candidate].digest = found
        BY <2>3, <3>1 DEF Entry, EntryFits
      <4>2. PICK v : v = e.candidate
        OBVIOUS
      <4>3. kept = [skill |-> b.skill, base |-> published[b.skill], last |-> v, digest |-> found]
        BY <2>2, <2>4, <2>5, <3>1, <4>2 DEF Kept
      <4>. QED  BY <2>7, <2>10, <3>1, <4>1, <4>2, <4>3
    <3>2. CASE e.candidate = 0 /\ (b.digest = found \/ Status(b.last) = "pending_review")
      <4>1. kept = b
        BY <2>2, <2>4, <2>5, <3>2 DEF Kept
      <4>. QED  BY <2>8, <4>1
    <3>3. CASE e.candidate = 0 /\ ~(b.digest = found \/ Status(b.last) = "pending_review")
      <4>1. PICK v : v = published[b.skill]
        OBVIOUS
      <4>2. kept = [skill |-> b.skill, base |-> published[b.skill], last |-> v, digest |-> found]
        BY <2>2, <2>4, <2>5, <3>3, <4>1 DEF Kept
      <4>3. v \in OptVersions /\ v # 0 /\ v <= created /\ version[v].skill = b.skill
        BY <2>1, <2>9, <4>1 DEF CatalogOrdered
      <4>4. PICK u \in {e.base, e.last} : u \in 1..created /\ version[u].digest = found
        BY <2>3, <3>3 DEF EntryFits
      <4>5. u # e.last
        <5>1. SUFFICES ASSUME u = e.last PROVE FALSE
          OBVIOUS
        <5>2. b.last = u /\ b.last # 0
          BY <2>7, <4>4, <5>1
        <5>3. b.digest = found
          BY <2>8, <4>4, <5>2 DEF BindingFits
        <5>. QED  BY <3>3, <5>3
      <4>6. version[v].digest = found
        BY <2>7, <4>1, <4>4, <4>5
      <4>. QED  BY <2>10, <4>2, <4>3, <4>6
    <3>. QED  BY <3>1, <3>2, <3>3
  <2>12. PICK step \in {"item", "error", "failed"} : Go(w, step)
    BY <2>6 DEF Committed
  <2>13. run' = Saved(worker[w].run, worker[w].path, "done")
    BY <2>6 DEF SaveDone
  <2>. QED  BY <1>2, <2>6, <2>11, <2>12, <2>13, SaveHolds
<1>. QED  BY <1>1, <1>3, <1>4

\* A run is complete, or partial; its worker is done.
LEMMA StageHolds ==
  ASSUME GitAssumption, GitInv, NEW w \in Workers, worker[w] # Free,
         NEW stage \in {"partial", "complete"}, run' = [run EXCEPT ![worker[w].run].stage = stage],
         stage = "complete" => Unfinished(worker[w].run) = {},
         NEW step \in {"release", "failed"}, Go(w, step),
         UNCHANGED <<source, catalog, binding, overtaken>>, interventions' = interventions
  PROVE  GitInv' /\ RunsHold
<1>1. GitTypeOK /\ WorkersFit /\ BindingsFit
  BY DEF GitInv
<1>2. PICK y : y = worker[w]
  OBVIOUS
<1>3. y \in Worker /\ WorkerFits(y)
  BY <1>1, <1>2, GitFacts DEF WorkersFit
<1>4. y.run \in Runs /\ Stored(y.run)
  BY <1>3 DEF Worker, WorkerFits
<1>5. PICK r \in Runs : r = y.run
  BY <1>4
<1>6. Stored(r) /\ run[r] \in Run
  BY <1>1, <1>4, <1>5, GitFacts DEF Stored
<1>7. PICK z : z = [stage |-> stage, at |-> run[r].at, applied |-> run[r].applied,
                    commit |-> run[r].commit, plan |-> run[r].plan, results |-> run[r].results]
  OBVIOUS
<1>8. [run[r] EXCEPT !.stage = stage] = z /\ z \in Run /\ z # Unused
  <2>1. [run[r] EXCEPT !.stage = stage] = z
    BY <1>6, <1>7 DEF Run
  <2>2. z \in Run
    BY <1>6, <1>7 DEF Run
  <2>. QED  BY <2>1, <2>2, UnusedIsNoRun
<1>9. run' = [run EXCEPT ![r] = z]
  <2>1. run' = [run EXCEPT ![r] = [run[r] EXCEPT !.stage = stage]]
    BY <1>2, <1>5
  <2>. QED  BY <1>8, <2>1
<1>10. /\ run' \in [Runs -> Run \cup {Unused}] /\ run'[r] = z
       /\ \A q \in Runs \ {r} : run'[q] = run[q]
  <2>1. run \in [Runs -> Run \cup {Unused}] /\ z \in Run
    BY <1>1, <1>8 DEF GitTypeOK
  <2>. QED  BY <1>9, <2>1
<1>11. /\ Stored(r)' /\ run'[r].at = run[r].at /\ run'[r].applied = run[r].applied
       /\ run'[r].commit = run[r].commit /\ run'[r].plan = run[r].plan
       /\ run'[r].results = run[r].results /\ run'[r].stage = stage
  BY <1>7, <1>8, <1>10 DEF Stored, Used
<1>12. PICK x : x = Stepped(y, step)
  OBVIOUS
<1>13. /\ worker' \in [Workers -> Worker \cup {Free}] /\ worker'[w] = x
       /\ \A other \in Workers \ {w} : worker'[other] = worker[other]
  BY <1>1, <1>2, <1>12, GoesOn DEF WorkerSteps
<1>14. GitTypeOK'
  BY <1>1, <1>10, <1>13 DEF GitTypeOK, catalog
<1>15. /\ RunsHold /\ VersionsHold /\ CatalogOrdered' /\ ImportsOfRuns' /\ PlansFit'
       /\ ClaimsApart' /\ TwinsShutOut' /\ NoDuplicateCandidates' /\ CompleteMeansEvery'
  <2>1. run'[r].stage = "complete" => Unfinished(r)' = {}
    BY <1>2, <1>5, <1>11 DEF Unfinished
  <2>. QED  BY <1>6, <1>10, <1>11, <1>14, <2>1, ResultsChange
<1>16. BindingsFit'
  BY <1>1 DEF BindingsFit, BindingFits, Bound, catalog
<1>17. WorkersFit'
  <2>1. WorkerFits(y)'
    BY <1>1, <1>3, <1>14, <1>15, WorkerStays
  <2>2. WorkerFits(x)'
    BY <1>12, <2>1 DEF WorkerFits, Stepped, UnderLease
  <2>. QED  BY <1>1, <1>13, <1>14, <1>15, <2>2, WorkersStay
<1>. QED  BY <1>14, <1>15, <1>16, <1>17 DEF GitInv

\* A worker that has visited every entry leaves a result for each.
LEMMA FinishHolds ==
  ASSUME GitAssumption, GitInv, NEW w \in Workers, worker[w] # Free, Finish(w),
         interventions' = interventions
  PROVE  GitInv' /\ RunsHold
<1>1. CASE Lost(w)
  BY <1>1, LostHolds
<1>2. CASE ~Lost(w)
  <2>1. GitTypeOK /\ WorkersFit
    BY DEF GitInv
  <2>2. PICK y, r : y = worker[w] /\ r = worker[w].run
    OBVIOUS
  <2>3. y \in Worker /\ WorkerFits(y) /\ y.step = "item" /\ y.todo = {}
    BY <2>1, <2>2, GitFacts DEF WorkersFit, Finish
  <2>4. r \in Runs /\ Used(r)
    BY <2>2, <2>3 DEF Worker, WorkerFits, Stored
  <2>5. \A q \in Paths : Planned(r, q) => run[r].results[q] # "none"
    BY <2>2, <2>3 DEF WorkerFits, UnderLease
  <2>6. PICK stage : stage = IF \E p \in Paths : run[r].results[p] = "error"
                             THEN "partial" ELSE "complete"
    OBVIOUS
  <2>7. stage \in {"partial", "complete"}
    BY <2>6
  <2>8. stage = "complete" => Unfinished(r) = {}
    <3>1. \A q \in Paths : run[r].results[q] \in {"none", "done", "error"}
      BY <2>1, <2>4, RunFacts
    <3>. QED  BY <2>5, <2>6, <3>1 DEF Unfinished, Planned
  <2>9. /\ run' = [run EXCEPT ![worker[w].run].stage = stage]
        /\ UNCHANGED <<source, catalog, binding, overtaken>>
    BY <1>2, <2>2, <2>6 DEF Finish
  <2>10. PICK step \in {"release", "failed"} : Go(w, step)
    BY <1>2 DEF Finish
  <2>. QED  BY <2>2, <2>7, <2>8, <2>9, <2>10, StageHolds
<1>. QED  BY <1>1, <1>2

LEMMA MarkPartialHolds ==
  ASSUME GitAssumption, GitInv, NEW w \in Workers, worker[w] # Free, MarkPartial(w),
         interventions' = interventions
  PROVE  GitInv' /\ RunsHold
<1>1. CASE Fenced(w)
  <2>1. /\ run' = [run EXCEPT ![worker[w].run].stage = "partial"] /\ Go(w, "release")
        /\ UNCHANGED <<source, catalog, binding, overtaken>>
    BY <1>1 DEF MarkPartial
  <2>. QED  BY <2>1, StageHolds
<1>2. CASE ~Fenced(w)
  <2>1. Only(w, "release")
    BY <1>2 DEF MarkPartial, Only
  <2>. QED  BY <2>1, OnlyHolds DEF MayGo, WorkerSteps
<1>. QED  BY <1>1, <1>2

-----------------------------------------------------------------------------
(* Previews.                                                                 *)

Below == {pair \in Nat \X Nat : pair[1] < pair[2]}

LEMMA BelowWellFounded == IsWellFoundedOn(Below, Nat)
BY NatLessThanWellFounded DEF OpToRel, Below

\* A set of natural numbers has a least one.
LEMMA Least ==
  ASSUME NEW S \in SUBSET Nat, S # {}
  PROVE  \E x \in S : \A y \in S : x <= y
<1>1. PICK x \in S : \A y \in S : ~(<<y, x>> \in Below)
  BY BelowWellFounded, WFMin
<1>2. ASSUME NEW y \in S PROVE x <= y
  <2>1. <<y, x>> \in Nat \X Nat /\ ~(y < x)
    BY <1>1 DEF Below
  <2>. QED  BY <2>1
<1>. QED  BY <1>2

\* Among finitely many versions there is a newest one.
LEMMA NewestIn ==
  ASSUME NEW n \in Nat, NEW S \in SUBSET (1..n), S # {}
  PROVE  Newest(S) \in S
<1>1. PICK T : T = {n - v : v \in S}
  OBVIOUS
<1>2. T \in SUBSET Nat /\ T # {}
  <2>1. \A v \in 1..n : n - v \in Nat
    OBVIOUS
  <2>2. \A v \in S : v \in 1..n
    OBVIOUS
  <2>. QED  BY <1>1, <2>1, <2>2
<1>3. PICK m \in T : \A k \in T : m <= k
  BY <1>2, Least
<1>4. PICK v \in S : m = n - v
  BY <1>1, <1>3
<1>5. \A other \in S : other <= v
  <2>1. SUFFICES ASSUME NEW other \in S PROVE other <= v
    OBVIOUS
  <2>2. n - other \in T
    BY <1>1
  <2>3. n - v <= n - other
    BY <1>3, <1>4, <2>2
  <2>. QED  BY <2>3
<1>. QED  BY <1>5 DEF Newest

\* What a preview writes about a path is about what it found there; where it asks for a new
\* candidate there is none like it.
LEMMA PlanEntryFits ==
  ASSUME GitAssumption, GitInv, NEW p \in Paths, NEW found \in Digests \cup {Missing, Invalid},
         NEW added \in SUBSET Paths, NEW refused \in SUBSET Paths,
         NEW e, e = PlanEntry(p, found, added, refused)
  PROVE  /\ e \in Entry \cup {NoEntry}
         /\ e # NoEntry => EntryFits(e, found)
         /\ Asks(e) => Candidates(p, e.skill, found) = {} /\ e.base = published[e.skill]
                       /\ e # NoEntry
<1>1. GitTypeOK /\ CatalogOrdered /\ BindingsFit
  BY DEF GitInv
<1>2. PICK b : b = binding[p]
  OBVIOUS
<1>3. b \in Binding \cup {Unbound} /\ (p \in Bound <=> b # Unbound)
  BY <1>1, <1>2, GitFacts DEF Bound
<1>4. p \in Bound => BindingFits(b) /\ b \in Binding
  BY <1>1, <1>2, <1>3 DEF BindingsFit
<1>5. PICK base, last : /\ base = IF p \in Bound THEN published[b.skill] ELSE 0
                        /\ last = IF p \in Bound THEN b.last ELSE 0
  OBVIOUS
<1>6. base \in OptVersions /\ last \in OptVersions /\ b.skill \in Skills \cup {None} /\ 0 \in OptVersions
  <2>1. 0 \in OptVersions
    BY DEF OptVersions, GitAssumption
  <2>2. CASE p \in Bound
    BY <1>1, <1>4, <1>5, <2>1, <2>2, GitFacts DEF Binding
  <2>3. CASE p \notin Bound
    BY <1>3, <1>5, <2>1, <2>3 DEF Unbound
  <2>. QED  BY <2>2, <2>3
<1>7. PICK candidate : candidate = Newest(Candidates(p, b.skill, found))
  OBVIOUS
<1>8. /\ candidate # 0 => candidate \in Candidates(p, b.skill, found)
      /\ candidate = 0 => Candidates(p, b.skill, found) = {}
      /\ candidate \in OptVersions
  <2>1. Candidates(p, b.skill, found) \in SUBSET (1..created) /\ created \in Nat
    BY <1>1, GitFacts DEF Candidates
  <2>2. CASE Candidates(p, b.skill, found) = {}
    BY <1>6, <1>7, <2>2 DEF Newest
  <2>3. CASE Candidates(p, b.skill, found) # {}
    <3>1. candidate \in Candidates(p, b.skill, found)
      BY <1>7, <2>1, <2>3, NewestIn
    <3>2. candidate \in 1..created
      BY <2>1, <3>1
    <3>. QED  BY <1>1, <3>1, <3>2, GitFacts DEF OptVersions, Versions
  <2>. QED  BY <2>2, <2>3
<1>9. ASSUME NEW action \in Actions, NEW c \in OptVersions, NEW prepared \in BOOLEAN,
             e = [action |-> action, skill |-> b.skill, base |-> base, last |-> last,
                  candidate |-> c, prepared |-> prepared]
      PROVE  e \in Entry /\ e # NoEntry
  <2>1. e \in Entry
    BY <1>6, <1>9 DEF Entry
  <2>. QED  BY <2>1, NoEntryIsNone
<1>10. CASE e = NoEntry
  BY <1>10, NoEntryIsNone DEF Asks
<1>11. CASE \E action \in {"missing", "invalid", "conflict"} :
              e = [action |-> action, skill |-> b.skill, base |-> base, last |-> last,
                   candidate |-> 0, prepared |-> FALSE]
  <2>1. e \in Entry /\ e # NoEntry
    BY <1>6, <1>9, <1>11 DEF Actions
  <2>2. e.action \in {"missing", "invalid", "conflict"} /\ e.candidate = 0
    BY <1>11
  <2>. QED  BY <2>1, <2>2 DEF EntryFits, Asks
<1>12. CASE /\ found \in Digests
            /\ e = [action |-> "added", skill |-> b.skill, base |-> base, last |-> last,
                    candidate |-> 0, prepared |-> FALSE]
  <2>1. e \in Entry /\ e # NoEntry
    BY <1>6, <1>9, <1>12 DEF Actions
  <2>2. e.action = "added" /\ e.candidate = 0
    BY <1>12
  <2>. QED  BY <1>12, <2>1, <2>2 DEF EntryFits, Asks
<1>13. CASE /\ found \in Digests /\ p \in Bound
            /\ b.digest = found \/ version[published[b.skill]].digest = found
            /\ e = [action |-> "unchanged", skill |-> b.skill, base |-> base, last |-> last,
                    candidate |-> 0, prepared |-> FALSE]
  <2>1. e \in Entry /\ e # NoEntry
    BY <1>6, <1>9, <1>13 DEF Actions
  <2>2. b.skill \in Skills /\ b.last \in Nat
    BY <1>4, <1>13 DEF Binding, OptVersions
  <2>3. \E v \in {base, last} : v \in 1..created /\ version[v].digest = found
    <3>1. CASE b.digest = found
      <4>1. b.last # 0 /\ b.last <= created /\ version[b.last].digest = found
        BY <1>4, <1>13, <3>1 DEF BindingFits, GitAssumption
      <4>2. created \in Nat
        BY <1>1, GitFacts
      <4>. QED  BY <1>5, <1>13, <2>2, <4>1, <4>2
    <3>2. CASE version[published[b.skill]].digest = found
      <4>1. published[b.skill] # 0 /\ published[b.skill] <= created /\ published[b.skill] \in Nat
        BY <1>1, <1>4, <1>13, <2>2, GitFacts DEF BindingFits, CatalogOrdered
      <4>2. created \in Nat
        BY <1>1, GitFacts
      <4>. QED  BY <1>5, <1>13, <3>2, <4>1, <4>2
    <3>. QED  BY <1>13, <3>1, <3>2
  <2>. QED  BY <1>13, <2>1, <2>2, <2>3 DEF EntryFits, Asks
<1>14. CASE /\ found \in Digests /\ p \in Bound
            /\ e = [action |-> IF candidate # 0 THEN "unchanged" ELSE "changed", skill |-> b.skill,
                    base |-> base, last |-> last, candidate |-> candidate, prepared |-> TRUE]
  <2>1. PICK action : action = IF candidate # 0 THEN "unchanged" ELSE "changed"
    OBVIOUS
  <2>2. e \in Entry /\ e # NoEntry
    <3>1. action \in Actions
      BY <2>1 DEF Actions
    <3>. QED  BY <1>8, <1>9, <1>14, <2>1, <3>1
  <2>3. b.skill \in Skills
    BY <1>4, <1>14 DEF Binding
  <2>4. candidate # 0 => /\ candidate <= created /\ version[candidate].skill = b.skill
                         /\ version[candidate].digest = found
    BY <1>1, <1>8, GitFacts DEF Candidates
  <2>5. e.action = action /\ e.skill = b.skill /\ e.base = base /\ e.candidate = candidate
    BY <1>14, <2>1
  <2>6. EntryFits(e, found)
    BY <1>14, <2>1, <2>3, <2>4, <2>5 DEF EntryFits
  <2>7. Asks(e) => Candidates(p, e.skill, found) = {} /\ e.base = published[e.skill]
    BY <1>5, <1>8, <1>14, <2>1, <2>5 DEF Asks
  <2>. QED  BY <2>2, <2>6, <2>7
<1>15. \/ e = NoEntry
       \/ \E action \in {"missing", "invalid", "conflict"} :
              e = [action |-> action, skill |-> b.skill, base |-> base, last |-> last,
                   candidate |-> 0, prepared |-> FALSE]
       \/ /\ found \in Digests
          /\ e = [action |-> "added", skill |-> b.skill, base |-> base, last |-> last,
                  candidate |-> 0, prepared |-> FALSE]
       \/ /\ found \in Digests /\ p \in Bound
          /\ b.digest = found \/ version[published[b.skill]].digest = found
          /\ e = [action |-> "unchanged", skill |-> b.skill, base |-> base, last |-> last,
                  candidate |-> 0, prepared |-> FALSE]
       \/ /\ found \in Digests /\ p \in Bound
          /\ e = [action |-> IF candidate # 0 THEN "unchanged" ELSE "changed", skill |-> b.skill,
                  base |-> base, last |-> last, candidate |-> candidate, prepared |-> TRUE]
       \/ /\ found \in Digests /\ p \in Bound
          /\ e = [action |-> "changed", skill |-> b.skill, base |-> base, last |-> last,
                  candidate |-> 0, prepared |-> FALSE]
  BY <1>2, <1>5, <1>7 DEF PlanEntry
<1>16. CASE /\ found \in Digests /\ p \in Bound
            /\ e = [action |-> "changed", skill |-> b.skill, base |-> base, last |-> last,
                    candidate |-> 0, prepared |-> FALSE]
  <2>1. e \in Entry /\ e # NoEntry
    BY <1>6, <1>9, <1>16 DEF Actions
  <2>2. b.skill \in Skills
    BY <1>4, <1>16 DEF Binding
  <2>. QED  BY <1>16, <2>1, <2>2 DEF EntryFits, Asks
<1>. QED  BY <1>10, <1>11, <1>12, <1>13, <1>14, <1>15, <1>16

\* A run that is not stored changes: x is what it becomes.
LEMMA DraftChanges ==
  ASSUME GitAssumption, GitInv, UNCHANGED <<source, catalog, binding, worker>>,
         interventions' = interventions, overtaken' \subseteq Runs,
         NEW r \in Runs, ~Stored(r), \A q \in Runs \ {r} : q \in overtaken' <=> q \in overtaken,
         NEW x \in Run \cup {Unused}, run' = [run EXCEPT ![r] = x],
         x # Unused =>
           /\ x.stage \in {"reading", "planned", "preview"}
           /\ \A p \in Paths : x.results[p] = "none"
           /\ x.stage = "reading" => \A p \in Paths : x.plan[p] = NoEntry
           /\ \A p \in Paths : x.plan[p] # NoEntry => EntryFits(x.plan[p], x.commit[p])
           /\ x.at <= source.revision
           /\ x.applied = 0 \/ (Used(r) /\ x.applied = run[r].applied)
           /\ source.live /\ r \notin overtaken' => x.at < source.revision
           /\ r \notin overtaken' =>
                \A p \in Paths, v \in 1..created :
                  ~(/\ Asks(x.plan[p]) /\ version[v].run # r
                    /\ version[v].path = p /\ version[v].status = "pending_review"
                    /\ version[v].skill = x.plan[p].skill /\ version[v].base = x.plan[p].base
                    /\ version[v].digest = x.commit[p])
                  \/ (x.at < source.revision /\ x.applied < source.revision)
  PROVE  GitInv' /\ RunsHold
<1>1. /\ GitTypeOK /\ CatalogOrdered /\ ImportsOfRuns /\ PlansFit /\ BindingsFit /\ WorkersFit
      /\ ClaimsApart /\ TwinsShutOut /\ NoDuplicateCandidates /\ CompleteMeansEvery
  BY DEF GitInv
<1>2. /\ run' \in [Runs -> Run \cup {Unused}] /\ run'[r] = x
      /\ \A q \in Runs \ {r} : run'[q] = run[q]
  BY <1>1 DEF GitTypeOK
<1>3. /\ source' = source /\ published' = published /\ shelved' = shelved /\ version' = version
      /\ created' = created /\ binding' = binding /\ worker' = worker
  BY DEF catalog
<1>4. GitTypeOK'
  BY <1>1, <1>2, <1>3 DEF GitTypeOK
<1>5. \A q \in Runs \ {r} : (Used(q)' <=> Used(q)) /\ (Stored(q)' <=> Stored(q))
  BY <1>2 DEF Used, Stored
<1>6. RunsHold
  <2>1. \A q \in Runs : Stored(q) => q # r /\ run[q].applied \in Nat
    BY <1>1, RunFacts DEF Stored
  <2>. QED  BY <1>2, <1>5, <2>1 DEF RunsHold
<1>7. VersionsHold
  BY <1>1, <1>3, GitFacts DEF VersionsHold
<1>8. CatalogOrdered'
  BY <1>1, <1>3 DEF CatalogOrdered
<1>9. \A v \in 1..created : version[v].run # None =>
        version[v].run \in Runs \ {r} /\ Stored(version[v].run)
  BY <1>1, VersionFacts DEF ImportsOfRuns
<1>10. ImportsOfRuns'
  BY <1>1, <1>2, <1>3, <1>5, <1>9 DEF ImportsOfRuns
<1>11. PlansFit'
  <2>1. SUFFICES ASSUME NEW q \in Runs, Used(q)'
                 PROVE  /\ ~Stored(q)' => \A p \in Paths : run'[q].results[p] = "none"
                        /\ run'[q].stage = "reading" => \A p \in Paths : ~Planned(q, p)'
                        /\ \A p \in Paths : Planned(q, p)' =>
                             EntryFits(run[q].plan[p], run[q].commit[p])'
    BY DEF PlansFit
  <2>2. CASE q = r
    BY <1>2, <1>3, <2>1, <2>2 DEF Used, Planned, EntryFits
  <2>3. CASE q # r
    <3>1. Used(q) /\ run'[q] = run[q] /\ (Stored(q)' <=> Stored(q))
      BY <1>2, <1>5, <2>1, <2>3
    <3>2. \A p \in Paths : Planned(q, p)' => EntryFits(run[q].plan[p], run[q].commit[p])'
      BY <1>1, <1>3, <3>1 DEF PlansFit, Planned, EntryFits
    <3>. QED  BY <1>1, <3>1, <3>2 DEF PlansFit, Planned
  <2>. QED  BY <2>2, <2>3
<1>12. BindingsFit'
  BY <1>1, <1>3 DEF BindingsFit, BindingFits, Bound
<1>13. ClaimsApart'
  <2>1. source.revision \in Nat
    BY <1>1, GitFacts
  <2>2. \A q \in Runs : Used(q)' => run'[q].at <= source.revision /\ run'[q].applied <= source.revision
    BY <1>1, <1>2, <1>5, <2>1 DEF ClaimsApart, Used
  <2>3. \A q \in Runs : Used(q)' /\ run'[q].applied # 0 =>
          Used(q) /\ run'[q].applied = run[q].applied
    BY <1>2, <1>5 DEF Used
  <2>4. \A q \in Runs : Used(q)' /\ source.live /\ q \notin overtaken' => run'[q].at < source.revision
    BY <1>1, <1>2, <1>5 DEF ClaimsApart, Used
  <2>5. \A q, o \in Runs : (/\ Used(q)' /\ Used(o)' /\ run'[q].applied = run'[o].applied
                            /\ run'[o].applied # 0) => q = o
    BY <1>1, <2>3 DEF ClaimsApart
  <2>. QED  BY <1>3, <2>2, <2>4, <2>5 DEF ClaimsApart
<1>14. TwinsShutOut'
  <2>1. SUFFICES ASSUME NEW q \in Runs \ overtaken', NEW p \in Paths, NEW v \in 1..created,
                        Used(q)', Asks(run'[q].plan[p]), Twin(v, q, p)'
                 PROVE  run'[q].at < source.revision /\ run'[q].applied < source.revision
    BY <1>3 DEF TwinsShutOut
  <2>2. CASE q = r
    BY <1>2, <1>3, <2>1, <2>2 DEF Used, Twin
  <2>3. CASE q # r
    <3>1. Used(q) /\ run'[q] = run[q] /\ q \in Runs \ overtaken
      BY <1>2, <1>5, <2>1, <2>3
    <3>2. Twin(v, q, p)
      BY <1>3, <2>1, <3>1 DEF Twin
    <3>. QED  BY <1>1, <2>1, <3>1, <3>2 DEF TwinsShutOut
  <2>. QED  BY <2>2, <2>3
<1>15. NoDuplicateCandidates'
  <2>1. \A q \in Runs : Stored(q) => q # r
    OBVIOUS
  <2>2. \A q \in Runs : Stored(q) =>
          run'[q].plan = run[q].plan /\ (q \in overtaken => q \in overtaken')
    BY <1>2, <2>1
  <2>. QED  BY <1>1, <1>3, <1>7, <2>2, TwinsStay
<1>16. CompleteMeansEvery'
  <2>1. \A q \in Runs \ {r} : Unfinished(q)' = Unfinished(q)
    BY <1>2 DEF Unfinished
  <2>. QED  BY <1>1, <1>2, <2>1 DEF CompleteMeansEvery, Used
<1>17. WorkersFit'
  <2>1. SUFFICES ASSUME NEW w \in Workers PROVE WorkersFit'
    BY DEF WorkersFit
  <2>2. PICK y : y = worker[w]
    OBVIOUS
  <2>3. y # Free => y \in Worker /\ WorkerFits(y)
    BY <1>1, <2>2, GitFacts DEF WorkersFit
  <2>4. y # Free => WorkerFits(y)'
    BY <1>1, <1>4, <1>6, <1>7, <2>3, WorkerStays
  <2>5. worker'[w] = y /\ \A other \in Workers \ {w} : worker'[other] = worker[other]
    BY <1>3, <2>2
  <2>. QED  BY <1>1, <1>4, <1>6, <1>7, <2>4, <2>5, WorkersStay
<1>. QED  BY <1>4, <1>6, <1>8, <1>10, <1>11, <1>12, <1>13, <1>14, <1>15, <1>16, <1>17 DEF GitInv

LEMMA PreviewReadHolds ==
  ASSUME GitAssumption, GitInv, NEW r \in Runs, PreviewRead(r), interventions' = interventions
  PROVE  GitInv' /\ RunsHold
<1>1. GitTypeOK
  BY DEF GitInv
<1>2. PICK commit \in Commits :
        run' = [run EXCEPT ![r] =
         [stage |-> "reading", at |-> source.revision, applied |-> 0, commit |-> commit,
          plan |-> [p \in Paths |-> NoEntry], results |-> [p \in Paths |-> "none"]]]
  BY DEF PreviewRead
<1>3. PICK x : x = [stage |-> "reading", at |-> source.revision, applied |-> 0, commit |-> commit,
                    plan |-> [p \in Paths |-> NoEntry], results |-> [p \in Paths |-> "none"]]
  OBVIOUS
<1>4. x \in Run
  <2>1. 0 \in 0..MaxRevision /\ source.revision \in Revisions
    BY <1>1, GitFacts DEF GitAssumption
  <2>. QED  BY <1>3, <2>1 DEF Run
<1>5. run' = [run EXCEPT ![r] = x]
  BY <1>2, <1>3
<1>6. ~Stored(r)
  BY DEF PreviewRead, Stored, Used
<1>7. /\ overtaken' \subseteq Runs /\ \A q \in Runs \ {r} : q \in overtaken' <=> q \in overtaken
      /\ source.live => r \in overtaken'
  BY <1>1 DEF PreviewRead, GitTypeOK
<1>8. /\ x.stage \in {"reading", "planned", "preview"}
      /\ \A p \in Paths : x.results[p] = "none" /\ x.plan[p] = NoEntry
      /\ x.at <= source.revision /\ x.applied = 0
  BY <1>1, <1>3, GitFacts
<1>9. UNCHANGED <<source, catalog, binding, worker>>
  BY DEF PreviewRead
<1>10. x # Unused /\ ~Asks(NoEntry)
  BY <1>3, NoEntryIsNone DEF Asks, Unused
<1>. QED  BY <1>4, <1>5, <1>6, <1>7, <1>8, <1>9, <1>10, DraftChanges

LEMMA PreviewPlanHolds ==
  ASSUME GitAssumption, GitInv, NEW r \in Runs, PreviewPlan(r), interventions' = interventions
  PROVE  GitInv' /\ RunsHold
<1>1. GitTypeOK /\ ClaimsApart /\ PlansFit
  BY DEF GitInv
<1>2. PICK commit : commit = run[r].commit
  OBVIOUS
<1>3. run[r].stage = "reading" /\ UNCHANGED <<source, catalog, binding, worker, overtaken>>
  BY DEF PreviewPlan
<1>4. ~Stored(r) /\ Used(r) /\ run[r] \in Run
  <2>1. run[r] # Unused
    BY <1>3 DEF Unused
  <2>. QED  BY <1>1, <1>3, <2>1, GitFacts DEF Stored, Used
<1>0. PICK added \in SUBSET Paths, refused \in SUBSET Paths : run' = PlannedRun(r, added, refused)
  <2>1. PICK added \in SUBSET {p \in Paths \ Bound : /\ run[r].commit[p] \in Digests
                                                    /\ published[SlugOf[p]] = 0},
             refused \in SUBSET Bound :
          run' = PlannedRun(r, added, refused)
    BY Zenon DEF PreviewPlan
  <2>2. added \in SUBSET Paths /\ refused \in SUBSET Paths
    BY DEF Bound
  <2>. QED  BY <2>1, <2>2
<1>5. run' = [run EXCEPT ![r] =
               [stage |-> "planned", at |-> run[r].at, applied |-> run[r].applied,
                commit |-> commit,
                plan |-> [p \in Paths |-> PlanEntry(p, commit[p], added, refused)],
                results |-> run[r].results]]
  <2>1. [p \in Paths |-> PlanEntry(p, run[r].commit[p], added, refused)] =
          [p \in Paths |-> PlanEntry(p, commit[p], added, refused)]
    BY <1>2
  <2>. QED  BY <1>0, <1>2, <2>1 DEF PlannedRun
<1>6. PICK plan : plan = [p \in Paths |-> PlanEntry(p, commit[p], added, refused)]
  OBVIOUS
<1>7. PICK x : x = [stage |-> "planned", at |-> run[r].at, applied |-> run[r].applied,
                    commit |-> commit, plan |-> plan, results |-> run[r].results]
  OBVIOUS
<1>8. \A p \in Paths : commit[p] \in Digests \cup {Missing, Invalid}
  BY <1>1, <1>2, <1>4, RunFacts
<1>9. ASSUME NEW p \in Paths
      PROVE  /\ plan[p] \in Entry \cup {NoEntry}
             /\ plan[p] # NoEntry => EntryFits(plan[p], commit[p])
             /\ Asks(plan[p]) => Candidates(p, plan[p].skill, commit[p]) = {}
                                 /\ plan[p].base = published[plan[p].skill]
  <2>1. PICK e, found : e = plan[p] /\ found = commit[p]
    OBVIOUS
  <2>2. e = PlanEntry(p, found, added, refused) /\ found \in Digests \cup {Missing, Invalid}
    BY <1>6, <1>8, <2>1
  <2>3. /\ e \in Entry \cup {NoEntry}
        /\ e # NoEntry => EntryFits(e, found)
        /\ Asks(e) => Candidates(p, e.skill, found) = {} /\ e.base = published[e.skill]
    BY <2>2, PlanEntryFits
  <2>. QED  BY <2>1, <2>3
<1>10. x \in Run
  <2>1. plan \in [Paths -> Entry \cup {NoEntry}]
    BY <1>6, <1>9
  <2>. QED  BY <1>2, <1>4, <1>7, <2>1 DEF Run
<1>11. run' = [run EXCEPT ![r] = x]
  BY <1>5, <1>6, <1>7
<1>12. /\ x.stage = "planned" /\ x.at = run[r].at /\ x.applied = run[r].applied
       /\ x.plan = plan /\ x.commit = commit /\ x.results = run[r].results
  BY <1>7
<1>13. \A p \in Paths : x.results[p] = "none"
  BY <1>1, <1>4, <1>12 DEF PlansFit
<1>14. /\ x.at <= source.revision
       /\ source.live /\ r \notin overtaken => x.at < source.revision
  BY <1>1, <1>4, <1>12 DEF ClaimsApart
<1>15. \A p \in Paths, v \in 1..created :
          ~(/\ Asks(x.plan[p]) /\ version[v].run # r
            /\ version[v].path = p /\ version[v].status = "pending_review"
            /\ version[v].skill = x.plan[p].skill /\ version[v].base = x.plan[p].base
            /\ version[v].digest = x.commit[p])
  <2>1. SUFFICES ASSUME NEW p \in Paths, NEW v \in 1..created,
                   Asks(plan[p]), version[v].path = p,
                   version[v].status = "pending_review", version[v].skill = plan[p].skill,
                   version[v].base = plan[p].base, version[v].digest = commit[p]
                 PROVE  FALSE
    BY <1>12
  <2>2. v \in Candidates(p, plan[p].skill, commit[p])
    BY <1>9, <2>1 DEF Candidates
  <2>. QED  BY <1>9, <2>1, <2>2
<1>16. overtaken' = overtaken /\ overtaken' \subseteq Runs
  BY <1>1, <1>3 DEF GitTypeOK
<1>17. \A p \in Paths : x.plan[p] # NoEntry => EntryFits(x.plan[p], x.commit[p])
  BY <1>9, <1>12
<1>18. /\ x.stage \in {"reading", "planned", "preview"} /\ x.stage # "reading"
       /\ Used(r) /\ x.applied = run[r].applied
  BY <1>4, <1>12
<1>. QED  BY <1>3, <1>4, <1>10, <1>11, <1>13, <1>14, <1>15, <1>16, <1>17, <1>18, DraftChanges

LEMMA PreviewSaveHolds ==
  ASSUME GitAssumption, GitInv, NEW r \in Runs, PreviewSave(r), interventions' = interventions
  PROVE  GitInv' /\ RunsHold
<1>1. GitTypeOK /\ ClaimsApart /\ PlansFit /\ TwinsShutOut
  BY DEF GitInv
<1>2. run[r].stage = "planned" /\ UNCHANGED <<source, catalog, binding, worker>>
  BY DEF PreviewSave
<1>3. ~Stored(r) /\ Used(r) /\ run[r] \in Run
  <2>1. run[r] # Unused
    BY <1>2 DEF Unused
  <2>. QED  BY <1>1, <1>2, <2>1, GitFacts DEF Stored, Used
<1>4. CASE run' = [run EXCEPT ![r] = Unused] /\ overtaken' = overtaken \ {r}
  <2>1. overtaken' \subseteq Runs /\ \A q \in Runs \ {r} : q \in overtaken' <=> q \in overtaken
    BY <1>1, <1>4 DEF GitTypeOK
  <2>2. PICK x : x = Unused
    OBVIOUS
  <2>. QED  BY <1>2, <1>3, <1>4, <2>1, <2>2, DraftChanges
<1>5. CASE run' = [run EXCEPT ![r].stage = "preview"] /\ overtaken' = overtaken
  <2>1. PICK x : x = [stage |-> "preview", at |-> run[r].at, applied |-> run[r].applied,
                      commit |-> run[r].commit, plan |-> run[r].plan, results |-> run[r].results]
    OBVIOUS
  <2>2. [run[r] EXCEPT !.stage = "preview"] = x
    BY <1>3, <2>1 DEF Run
  <2>3. run' = [run EXCEPT ![r] = x]
    <3>1. run' = [run EXCEPT ![r] = [run[r] EXCEPT !.stage = "preview"]]
      BY <1>5
    <3>. QED  BY <2>2, <3>1
  <2>4. x \in Run
    BY <1>3, <2>1 DEF Run
  <2>5. /\ x.stage = "preview" /\ x.at = run[r].at /\ x.applied = run[r].applied
        /\ x.plan = run[r].plan /\ x.commit = run[r].commit /\ x.results = run[r].results
    BY <2>1
  <2>6. /\ \A p \in Paths : x.results[p] = "none"
        /\ \A p \in Paths : x.plan[p] # NoEntry => EntryFits(x.plan[p], x.commit[p])
    BY <1>1, <1>3, <2>5 DEF PlansFit, Planned
  <2>7. /\ x.at <= source.revision
        /\ source.live /\ r \notin overtaken => x.at < source.revision
    BY <1>1, <1>3, <2>5 DEF ClaimsApart
  <2>8. r \notin overtaken =>
          \A p \in Paths, v \in 1..created :
            ~(/\ Asks(x.plan[p]) /\ version[v].run # r
              /\ version[v].path = p /\ version[v].status = "pending_review"
              /\ version[v].skill = x.plan[p].skill /\ version[v].base = x.plan[p].base
              /\ version[v].digest = x.commit[p])
            \/ (x.at < source.revision /\ x.applied < source.revision)
    BY <1>1, <1>3, <2>5 DEF TwinsShutOut, Twin
  <2>9. overtaken' \subseteq Runs
    BY <1>1, <1>5 DEF GitTypeOK
  <2>10. /\ x.stage \in {"reading", "planned", "preview"} /\ x.stage # "reading"
         /\ Used(r) /\ x.applied = run[r].applied
    BY <1>3, <2>5
  <2>. QED  BY <1>2, <1>3, <1>5, <2>3, <2>4, <2>6, <2>7, <2>8, <2>9, <2>10, DraftChanges
<1>. QED  BY <1>4, <1>5 DEF PreviewSave

-----------------------------------------------------------------------------
(* Claims, and the candidates made under them.                               *)

\* A claim moves the source past everything that was read before it.
LEMMA ClaimHolds ==
  ASSUME GitAssumption, GitInv, NEW w \in Workers, NEW r \in Runs, Claim(w, r),
         interventions' = interventions
  PROVE  GitInv' /\ RunsHold
<1>1. /\ GitTypeOK /\ CatalogOrdered /\ ImportsOfRuns /\ PlansFit /\ BindingsFit /\ WorkersFit
      /\ ClaimsApart /\ TwinsShutOut /\ NoDuplicateCandidates /\ CompleteMeansEvery
  BY DEF GitInv
<1>2. PICK lease : lease = source.revision + 1
  OBVIOUS
<1>3. lease \in Revisions /\ lease \in Nat /\ lease # 0 /\ source.revision \in Nat
      /\ lease \in 0..MaxRevision
  <2>1. source.revision \in Nat /\ source.revision < MaxRevision /\ MaxRevision \in Nat
    BY <1>1, GitFacts DEF Claim, GitAssumption
  <2>. QED  BY <1>2, <2>1 DEF Revisions
<1>4. /\ source' = [revision |-> lease, archived |-> FALSE, token |-> lease, live |-> TRUE]
      /\ run' = [run EXCEPT ![r].applied = lease]
      /\ worker' = [worker EXCEPT ![w] =
           [step |-> "item", run |-> r, lease |-> lease, todo |-> Unfinished(r),
            path |-> None, version |-> 0]]
      /\ MayClaim(r) /\ UNCHANGED <<catalog, binding, overtaken>>
  BY <1>2 DEF Claim
<1>5. Stored(r) /\ run[r].stage \in {"preview", "partial"} /\ run[r] \in Run
  <2>1. run[r].stage \in {"preview", "partial"}
    BY <1>4 DEF MayClaim
  <2>2. Stored(r)
    BY <2>1 DEF Stored, Used, Unused
  <2>. QED  BY <1>1, <2>1, <2>2, GitFacts DEF Stored
<1>6. PICK z : z = [stage |-> run[r].stage, at |-> run[r].at, applied |-> lease,
                    commit |-> run[r].commit, plan |-> run[r].plan, results |-> run[r].results]
  OBVIOUS
<1>7. z \in Run /\ z # Unused
  <2>1. z \in Run
    BY <1>3, <1>5, <1>6 DEF Run
  <2>. QED  BY <2>1, UnusedIsNoRun
<1>8. run' = [run EXCEPT ![r] = z]
  <2>1. [run[r] EXCEPT !.applied = lease] = z
    BY <1>5, <1>6 DEF Run
  <2>2. run' = [run EXCEPT ![r] = [run[r] EXCEPT !.applied = lease]]
    BY <1>4
  <2>. QED  BY <2>1, <2>2
<1>9. /\ run' \in [Runs -> Run \cup {Unused}] /\ run'[r] = z
      /\ \A q \in Runs \ {r} : run'[q] = run[q]
  <2>1. run \in [Runs -> Run \cup {Unused}] /\ z \in Run
    BY <1>1, <1>7 DEF GitTypeOK
  <2>. QED  BY <1>8, <2>1
<1>10. /\ z.at = run[r].at /\ z.applied = lease /\ z.commit = run[r].commit
       /\ z.plan = run[r].plan /\ z.results = run[r].results /\ z.stage = run[r].stage
  BY <1>6
<1>11. PICK x : x = [step |-> "item", run |-> r, lease |-> lease, todo |-> Unfinished(r),
                     path |-> None, version |-> 0]
  OBVIOUS
<1>12. x \in Worker
  <2>1. Unfinished(r) \subseteq Paths /\ 0 \in OptVersions
    BY DEF Unfinished, OptVersions, GitAssumption
  <2>. QED  BY <1>3, <1>11, <2>1 DEF Worker
<1>13. /\ worker' \in [Workers -> Worker \cup {Free}] /\ worker'[w] = x
       /\ \A other \in Workers \ {w} : worker'[other] = worker[other]
  <2>1. worker' = [worker EXCEPT ![w] = x]
    BY <1>4, <1>11
  <2>. QED  BY <1>1, <1>12, <2>1 DEF GitTypeOK
<1>14. /\ published' = published /\ shelved' = shelved /\ version' = version
       /\ created' = created /\ binding' = binding /\ overtaken' = overtaken
  BY <1>4 DEF catalog
<1>15. /\ source' \in [revision : Revisions, archived : BOOLEAN, token : 0..MaxRevision,
                       live : BOOLEAN]
       /\ source'.revision = lease
  BY <1>3, <1>4
<1>16. GitTypeOK'
  BY <1>1, <1>9, <1>13, <1>14, <1>15 DEF GitTypeOK
<1>17. \A q \in Runs : (Used(q)' <=> Used(q)) /\ (Stored(q)' <=> Stored(q))
                       /\ (Used(q) => /\ run'[q].at = run[q].at /\ run'[q].commit = run[q].commit
                                      /\ run'[q].plan = run[q].plan
                                      /\ run'[q].results = run[q].results
                                      /\ run'[q].stage = run[q].stage)
  BY <1>5, <1>7, <1>9, <1>10 DEF Used, Stored
<1>18. \A q \in Runs : Used(q) =>
         /\ run[q].at \in Nat /\ run[q].applied \in Nat
         /\ run[q].at <= source.revision /\ run[q].applied <= source.revision
         /\ run'[q].applied = IF q = r THEN lease ELSE run[q].applied
  BY <1>1, <1>9, <1>10, RunFacts DEF ClaimsApart
<1>19. RunsHold
  <2>1. SUFFICES ASSUME NEW q \in Runs, Stored(q)
                 PROVE  /\ Stored(q)'
                        /\ run'[q].at = run[q].at /\ run'[q].commit = run[q].commit
                        /\ run'[q].plan = run[q].plan /\ run'[q].results = run[q].results
                        /\ run'[q].applied >= run[q].applied
    BY DEF RunsHold
  <2>2. Used(q)
    BY <2>1 DEF Stored
  <2>3. run'[q].applied >= run[q].applied
    BY <1>2, <1>3, <1>18, <2>2
  <2>. QED  BY <1>17, <2>1, <2>2, <2>3
<1>20. VersionsHold
  BY <1>1, <1>14, GitFacts DEF VersionsHold
<1>21. CatalogOrdered' /\ BindingsFit' /\ NoDuplicateCandidates'
  <2>1. CatalogOrdered' /\ BindingsFit'
    BY <1>1, <1>14 DEF CatalogOrdered, BindingsFit, BindingFits, Bound
  <2>. QED  BY <1>1, <1>14, <1>17, <1>20, <2>1, TwinsStay DEF Stored
<1>22. ImportsOfRuns'
  <2>1. \A v \in 1..created : version[v].run # None => version[v].run \in Runs /\ Used(version[v].run)
    BY <1>1, VersionFacts DEF ImportsOfRuns, Stored
  <2>. QED  BY <1>1, <1>14, <1>17, <2>1 DEF ImportsOfRuns
<1>23. PlansFit'
  <2>1. SUFFICES ASSUME NEW q \in Runs, Used(q)'
                 PROVE  /\ ~Stored(q)' => \A p \in Paths : run'[q].results[p] = "none"
                        /\ run'[q].stage = "reading" => \A p \in Paths : ~Planned(q, p)'
                        /\ \A p \in Paths : Planned(q, p)' =>
                             EntryFits(run[q].plan[p], run[q].commit[p])'
    BY DEF PlansFit
  <2>2. Used(q)
    BY <1>17, <2>1
  <2>3. \A p \in Paths : Planned(q, p)' => EntryFits(run[q].plan[p], run[q].commit[p])'
    BY <1>1, <1>16, <1>17, <1>20, <2>2, PlanStays
  <2>. QED  BY <1>1, <1>17, <2>2, <2>3 DEF PlansFit, Planned
<1>24. CompleteMeansEvery'
  BY <1>1, <1>17 DEF CompleteMeansEvery, Unfinished, Used
<1>25. ClaimsApart'
  <2>1. \A q \in Runs : Used(q) =>
          /\ run'[q].at = run[q].at /\ run'[q].at < lease /\ run'[q].applied <= lease
          /\ run'[q].applied = lease => q = r
    BY <1>2, <1>3, <1>17, <1>18
  <2>2. \A q, o \in Runs : (/\ Used(q) /\ Used(o) /\ run'[q].applied = run'[o].applied
                            /\ run'[o].applied # 0) => q = o
    <3>1. SUFFICES ASSUME NEW q \in Runs, NEW o \in Runs, Used(q), Used(o), q # o,
                          run'[q].applied = run'[o].applied, run'[o].applied # 0
                   PROVE  FALSE
      OBVIOUS
    <3>2. CASE q = r \/ o = r
      BY <1>2, <1>3, <1>18, <2>1, <3>1, <3>2
    <3>3. CASE q # r /\ o # r
      BY <1>1, <1>18, <3>1, <3>3 DEF ClaimsApart
    <3>. QED  BY <3>2, <3>3
  <2>3. \A q \in Runs : Used(q) => run'[q].at <= lease
    BY <1>3, <1>18, <2>1
  <2>. QED  BY <1>14, <1>15, <1>17, <2>1, <2>2, <2>3 DEF ClaimsApart
<1>26. TwinsShutOut'
  <2>1. SUFFICES ASSUME NEW q \in Runs \ overtaken, NEW p \in Paths, NEW v \in 1..created,
                        Used(q), Asks(run[q].plan[p]), Twin(v, q, p)
                 PROVE  run'[q].at < lease /\ run'[q].applied < lease
    BY <1>14, <1>15, <1>17 DEF TwinsShutOut, Twin
  <2>2. run[q].at < source.revision /\ run[q].applied < source.revision
    BY <1>1, <2>1 DEF TwinsShutOut
  <2>3. q # r
    <3>1. source.revision \in {run[r].at, run[r].applied}
      BY <1>4 DEF MayClaim
    <3>2. run[q].at \in Nat /\ run[q].applied \in Nat
      BY <1>18, <2>1
    <3>. QED  BY <1>3, <2>2, <3>1, <3>2
  <2>. QED  BY <1>2, <1>3, <1>17, <1>18, <2>1, <2>2, <2>3
<1>27. WorkersFit'
  <2>1. /\ Stored(r)' /\ lease <= run'[r].applied
        /\ \A q \in Unfinished(r) : Planned(r, q)'
        /\ \A q \in Paths : Planned(r, q)' => q \in Unfinished(r) \/ run'[r].results[q] # "none"
    BY <1>3, <1>5, <1>9, <1>10, <1>17 DEF Unfinished, Planned
  <2>2. WorkerFits(x)'
    BY <1>11, <2>1 DEF WorkerFits, UnderLease
  <2>. QED  BY <1>1, <1>13, <1>16, <1>19, <1>20, <2>2, WorkersStay
<1>. QED  BY <1>16, <1>19, <1>21, <1>22, <1>23, <1>24, <1>25, <1>26, <1>27 DEF GitInv

LEMMA TakenFitsNext ==
  ASSUME NEW y, NEW step \in {"error", "bind"}, NEW v, WorkerFits(y)',
         y.step \in {"look", "insert"}, v \in Imported(y.run, y.path)'
  PROVE  WorkerFits(Taken(y, step, v))'
<1>1. /\ Stored(y.run)' /\ y.lease <= run'[y.run].applied
      /\ \A q \in y.todo : Planned(y.run, q)'
      /\ y.path \in Paths /\ Planned(y.run, y.path)'
      /\ run'[y.run].plan[y.path].action \in {"added", "changed"}
  BY DEF WorkerFits, UnderLease
<1>2. \A q \in Paths : Planned(y.run, q)' =>
             \/ q \in y.todo \/ run'[y.run].results[q] # "none" \/ q = y.path
  BY DEF WorkerFits, UnderLease
<1>3. step \in UnderLease /\ step \notin {"create", "keep"}
  BY DEF UnderLease
<1>. QED  BY <1>1, <1>2, <1>3 DEF WorkerFits, Taken

\* Whoever inserts under the lease is the last that claimed the source, so nobody whose
\* candidate would be like the new one can claim it any more, and there is none like it yet.
LEMMA InsertHolds ==
  ASSUME GitAssumption, GitInv, NEW w \in Workers, worker[w] # Free, Insert(w),
         interventions' = interventions
  PROVE  GitInv' /\ RunsHold
<1>1. CASE Lost(w)
  BY <1>1, LostHolds
<1>2. worker[w].step = "insert" /\ worker[w].step \in UnderLease
  BY DEF Insert, UnderLease
<1>3. CASE Only(w, "error")
  <2>1. MayGo(worker[w], "error") /\ "error" \in WorkerSteps
    BY <1>2 DEF MayGo, WorkerSteps
  <2>. QED  BY <1>3, <2>1, OnlyHolds
<1>4. CASE ~Lost(w) /\ ~Only(w, "error")
  <2>1. /\ GitTypeOK /\ CatalogOrdered /\ ImportsOfRuns /\ PlansFit /\ BindingsFit /\ WorkersFit
        /\ ClaimsApart /\ TwinsShutOut /\ NoDuplicateCandidates
    BY DEF GitInv
  <2>2. PICK y, e, r, p, found, v, skill, status :
          /\ y = worker[w] /\ e = EntryOf(w) /\ r = worker[w].run /\ p = worker[w].path
          /\ found = DigestAt(w) /\ v = created + 1
          /\ skill = IF e.action = "added" THEN SlugOf[p] ELSE e.skill
          /\ status = IF e.action = "added" THEN "published" ELSE "pending_review"
    OBVIOUS
  <2>3. /\ y \in Worker /\ WorkerFits(y) /\ r \in Runs /\ p \in Paths /\ Stored(r) /\ Used(r)
        /\ e \in Entry /\ EntryFits(e, found) /\ e.action \in {"added", "changed"}
        /\ found \in Digests /\ e = run[r].plan[p] /\ found = run[r].commit[p]
    <3>1. /\ y \in Worker /\ WorkerFits(y) /\ r \in Runs /\ p \in Paths /\ Stored(r)
          /\ e \in Entry /\ EntryFits(e, found) /\ e = run[r].plan[p] /\ found = run[r].commit[p]
      BY <1>2, <2>2, AtEntry DEF EntryOf, DigestAt
    <3>2. e.action \in {"added", "changed"}
      BY <1>2, <2>2, <3>1 DEF WorkerFits
    <3>. QED  BY <3>1, <3>2 DEF EntryFits, Stored
  <2>4. skill \in Skills
    BY <2>2, <2>3 DEF EntryFits, GitAssumption
  <2>5. PICK x : x = [skill |-> skill, status |-> status, digest |-> found, base |-> e.base,
                      run |-> r, path |-> p]
    OBVIOUS
  <2>6. /\ Fenced(w) /\ Imported(r, p) = {} /\ created < MaxVersions
        /\ e.action = "added" => published[skill] = 0
        /\ created' = v /\ version' = [version EXCEPT ![v] = x]
        /\ published' = IF e.action = "added" THEN [published EXCEPT ![skill] = v] ELSE published
        /\ \E step \in {"bind", "error"} : Take(w, step, v)
        /\ UNCHANGED <<source, shelved, binding, run, overtaken>>
    BY <1>4, <2>2, <2>5 DEF Insert
  <2>7. PICK step \in {"bind", "error"} : Take(w, step, v)
    BY <2>6
  <2>8. v \in Versions /\ v \in OptVersions /\ v # 0 /\ created \in Nat /\ v \in Nat
    BY <2>1, <2>2, <2>6, GitFacts DEF Versions, OptVersions, GitAssumption
  <2>9. x \in Version /\ x # Unbound
    <3>1. e.base \in OptVersions /\ status \in {"pending_review", "published", "rejected"}
      BY <2>2, <2>3 DEF Entry
    <3>2. x \in Version
      BY <2>3, <2>4, <2>5, <3>1 DEF Version
    <3>. QED  BY <3>2, UnboundIsNothing
  <2>10. /\ x.skill = skill /\ x.status = status /\ x.digest = found /\ x.base = e.base
         /\ x.run = r /\ x.path = p
    BY <2>5
  <2>11. /\ version' \in [Versions -> Version \cup {Unbound}]
         /\ version'[v] = x /\ \A u \in Versions : u # v => version'[u] = version[u]
    <3>1. version \in [Versions -> Version \cup {Unbound}] /\ version' = [version EXCEPT ![v] = x]
      BY <2>1, <2>6 DEF GitTypeOK
    <3>. QED  BY <2>8, <2>9, <3>1
  <2>12. /\ published' \in [Skills -> OptVersions]
         /\ \A t \in Skills : \/ published'[t] = published[t]
                              \/ t = skill /\ published'[t] = v /\ published[t] = 0
    <3>1. published \in [Skills -> OptVersions]
      BY <2>1 DEF GitTypeOK
    <3>. QED  BY <2>4, <2>6, <2>8, <3>1
  <2>13. PICK z : z = Taken(y, step, v)
    OBVIOUS
  <2>14. /\ worker' \in [Workers -> Worker \cup {Free}] /\ worker'[w] = z
         /\ \A other \in Workers \ {w} : worker'[other] = worker[other]
    BY <2>1, <2>2, <2>7, <2>8, <2>13, Takes DEF WorkerSteps
  <2>15. GitTypeOK'
    BY <2>1, <2>6, <2>8, <2>11, <2>12, <2>14 DEF GitTypeOK
  <2>16. 1..created \subseteq Versions /\ \A u : u \in 1..v <=> u \in 1..created \/ u = v
    BY <2>1, <2>2, <2>8, GitFacts
  <2>17. v \notin 1..created /\ created <= v
    BY <2>2, <2>8
  <2>18. \A u \in 1..created : version'[u] = version[u]
    BY <2>11, <2>16, <2>17
  <2>19. VersionsHold
    BY <2>6, <2>17, <2>18 DEF VersionsHold
  <2>20. RunsHold /\ PlansFit' /\ ClaimsApart' /\ CompleteMeansEvery'
    BY <2>6, <2>15, <2>19, CatalogChanges
  <2>21. CatalogOrdered'
    <3>1. \A u \in Versions : version'[u] # Unbound <=> u <= created'
      <4>1. SUFFICES ASSUME NEW u \in Versions PROVE version'[u] # Unbound <=> u <= created'
        OBVIOUS
      <4>2. CASE u = v
        BY <2>6, <2>8, <2>9, <2>11, <4>2
      <4>3. CASE u # v
        BY <2>1, <2>2, <2>6, <2>8, <2>11, <4>3 DEF CatalogOrdered, Versions
      <4>. QED  BY <4>2, <4>3
    <3>2. \A t \in Skills : published'[t] # 0 =>
            published'[t] <= created' /\ version'[published'[t]].skill = t
      <4>1. SUFFICES ASSUME NEW t \in Skills, published'[t] # 0
                     PROVE  published'[t] <= created' /\ version'[published'[t]].skill = t
        OBVIOUS
      <4>2. CASE t = skill /\ published'[t] = v
        BY <2>6, <2>8, <2>10, <2>11, <4>2
      <4>3. CASE published'[t] = published[t]
        <5>1. PICK u : u = published[t]
          OBVIOUS
        <5>2. u \in 1..created /\ version[u].skill = t
          BY <2>1, <2>8, <4>1, <4>3, <5>1, GitFacts DEF CatalogOrdered
        <5>3. version'[u].skill = t /\ u <= v
          BY <2>2, <2>8, <2>18, <5>2
        <5>. QED  BY <2>6, <4>3, <5>1, <5>3
      <4>. QED  BY <2>12, <4>2, <4>3
    <3>. QED  BY <3>1, <3>2 DEF CatalogOrdered
  <2>22. ImportsOfRuns'
    <3>1. r # None /\ p # None
      BY <2>3 DEF GitAssumption
    <3>2. \A u \in 1..created : ~(version[u].run = r /\ version[u].path = p)
      BY <2>6 DEF Imported
    <3>3. run' = run /\ created' = v
      BY <2>6
    <3>4. ASSUME NEW u \in 1..v
          PROVE  /\ version'[u].run = None <=> version'[u].path = None
                 /\ version'[u].status = "pending_review" => version'[u].run # None
                 /\ version'[u].run # None =>
                      /\ Stored(version'[u].run)
                      /\ version'[u].digest = run[version'[u].run].commit[version'[u].path]
      <4>1. CASE u = v
        BY <2>3, <2>10, <2>11, <3>1, <4>1
      <4>2. CASE u \in 1..created
        BY <2>1, <2>18, <4>2 DEF ImportsOfRuns
      <4>. QED  BY <2>16, <4>1, <4>2
    <3>5. ASSUME NEW u \in 1..v, version'[u].run # None, NEW t \in 1..v,
                 version'[t].run = version'[u].run, version'[t].path = version'[u].path
          PROVE  t = u
      <4>1. CASE u = v \/ t = v
        BY <2>10, <2>11, <2>16, <2>18, <3>2, <3>5, <4>1
      <4>2. CASE u \in 1..created /\ t \in 1..created
        BY <2>1, <2>18, <3>5, <4>2 DEF ImportsOfRuns
      <4>. QED  BY <2>16, <4>1, <4>2
    <3>. QED  BY <3>3, <3>4, <3>5 DEF ImportsOfRuns, Stored, Used
  <2>23. BindingsFit'
    <3>1. \A t \in Skills : published[t] # 0 => published'[t] # 0
      BY <2>8, <2>12
    <3>2. \A q \in Paths : q # None => binding'[q] = binding[q]
      BY <2>6
    <3>. QED  BY <2>1, <2>15, <2>19, <3>1, <3>2, BindingsStay DEF GitAssumption
  <2>24. WorkersFit'
    <3>1. WorkerFits(y)'
      BY <2>1, <2>3, <2>15, <2>19, <2>20, WorkerStays
    <3>2. v \in Imported(r, p)'
      BY <2>6, <2>8, <2>10, <2>11, <2>16 DEF Imported
    <3>3. y.run = r /\ y.path = p /\ y.step = "insert"
      BY <1>2, <2>2
    <3>4. v \in Imported(y.run, y.path)'
      BY <3>2, <3>3 DEF Imported
    <3>5. WorkerFits(Taken(y, step, v))'
      BY <3>1, <3>3, <3>4, TakenFitsNext
    <3>6. WorkerFits(z)'
      BY <2>13, <3>5 DEF WorkerFits, Stored, Used, Planned, Imported
    <3>. QED  BY <2>1, <2>14, <2>15, <2>19, <2>20, <3>6, WorkersStay
  <2>25. /\ run[r].applied = source.revision /\ source.revision # 0 /\ source.live
         /\ source.revision \in Nat
    <3>1. source.revision = y.lease /\ source.live
      BY <2>2, <2>6 DEF Fenced
    <3>2. y.lease <= run[r].applied /\ run[r].applied <= source.revision
      BY <2>1, <2>2, <2>3 DEF WorkerFits, ClaimsApart
    <3>3. run[r].applied \in Nat /\ source.revision \in Revisions
      BY <2>1, <2>3, RunFacts, GitFacts
    <3>. QED  BY <3>1, <3>2, <3>3 DEF Revisions
  <2>26. TwinsShutOut'
    <3>1. SUFFICES ASSUME NEW q \in Runs \ overtaken, NEW s \in Paths, NEW u \in 1..v,
                          Used(q), Asks(run[q].plan[s]), Twin(u, q, s)'
                   PROVE  run[q].at < source.revision /\ run[q].applied < source.revision
      BY <2>6 DEF TwinsShutOut, Used
    <3>2. CASE u \in 1..created
      <4>1. Twin(u, q, s)
        BY <2>6, <2>18, <3>1, <3>2 DEF Twin
      <4>. QED  BY <2>1, <3>1, <3>2, <4>1 DEF TwinsShutOut
    <3>3. CASE u = v
      <4>1. q # r
        BY <2>10, <2>11, <3>1, <3>3 DEF Twin
      <4>2. run[q].at < source.revision
        BY <2>1, <2>25, <3>1 DEF ClaimsApart
      <4>3. run[q].applied # run[r].applied /\ run[q].applied <= source.revision
        BY <2>1, <2>3, <2>25, <3>1, <4>1 DEF ClaimsApart
      <4>4. run[q].applied \in Nat
        BY <2>1, <3>1, RunFacts
      <4>. QED  BY <2>25, <4>2, <4>3, <4>4
    <3>. QED  BY <2>16, <3>1, <3>2, <3>3
  <2>27. NoDuplicateCandidates'
    <3>1. SUFFICES ASSUME NEW u \in 1..v, NEW t \in 1..v, Twins(u, t)'
                   PROVE  Unaware(version'[t].run, version'[t].path)
      BY <2>6 DEF NoDuplicateCandidates, Unaware
    <3>2. u \in 1..created
      BY <2>2, <2>8, <3>1 DEF Twins
    <3>3. CASE t \in 1..created
      <4>1. Twins(u, t)
        BY <2>18, <3>1, <3>2, <3>3 DEF Twins
      <4>. QED  BY <2>1, <2>18, <3>2, <3>3, <4>1 DEF NoDuplicateCandidates
    <3>4. CASE t = v
      <4>1. SUFFICES ASSUME r \notin overtaken, e.prepared PROVE FALSE
        BY <2>3, <2>10, <2>11, <3>4 DEF Unaware
      <4>2. e.action = "changed" /\ skill = e.skill
        <5>1. status = "pending_review"
          BY <2>10, <2>11, <3>1, <3>4 DEF Twins
        <5>. QED  BY <2>2, <2>3, <5>1
      <4>3. /\ version[u].status = "pending_review" /\ version[u].path = p
            /\ version[u].skill = e.skill /\ version[u].base = e.base /\ version[u].digest = found
        BY <2>10, <2>11, <2>18, <3>1, <3>2, <3>4, <4>2 DEF Twins
      <4>4. version[u].run # r
        BY <2>6, <3>2, <4>3 DEF Imported
      <4>5. Twin(u, r, p)
        BY <2>3, <4>3, <4>4 DEF Twin
      <4>6. run[r].applied < source.revision
        BY <2>1, <2>3, <3>2, <4>1, <4>2, <4>5 DEF TwinsShutOut, Asks
      <4>. QED  BY <2>25, <4>6
    <3>. QED  BY <2>16, <3>1, <3>3, <3>4
  <2>. QED  BY <2>15, <2>20, <2>21, <2>22, <2>23, <2>24, <2>26, <2>27 DEF GitInv
<1>. QED  BY <1>1, <1>3, <1>4

-----------------------------------------------------------------------------
(* All steps.                                                                *)

LEMMA GitInitHolds ==
  ASSUME GitAssumption, GitInit
  PROVE  GitInv
<1>1. PICK s \in Skills \cup {None}, d \in Digests, tied \in BOOLEAN :
       /\ published = [t \in Skills |-> IF t = s THEN 1 ELSE 0]
       /\ created = IF s = None THEN 0 ELSE 1
       /\ version = [v \in Versions |->
            IF v = 1 /\ s # None
            THEN [skill |-> s, status |-> "published", digest |-> d, base |-> 0,
                  run |-> None, path |-> None]
            ELSE Unbound]
       /\ binding = [p \in Paths |->
            IF tied /\ SlugOf[p] = s THEN [skill |-> s, base |-> 1, last |-> 0, digest |-> None]
            ELSE Unbound]
  BY DEF GitInit
<1>2. /\ source = [revision |-> 1, archived |-> FALSE, token |-> 0, live |-> FALSE]
      /\ shelved = {} /\ run = [r \in Runs |-> Unused] /\ worker = [w \in Workers |-> Free]
      /\ overtaken = {} /\ interventions = 0
  BY DEF GitInit
<1>3. /\ 0 \in OptVersions /\ 1 \in OptVersions /\ 1 \in Versions /\ 1 \in Revisions
      /\ 0 \in 0..MaxRevision /\ 0 \in 0..MaxInterventions
  BY DEF OptVersions, Versions, Revisions, GitAssumption
<1>4. PICK x : x = [skill |-> s, status |-> "published", digest |-> d, base |-> 0,
                    run |-> None, path |-> None]
  OBVIOUS
<1>5. s # None => x \in Version /\ x # Unbound
  <2>1. s # None => x \in Version
    BY <1>3, <1>4 DEF Version
  <2>. QED  BY <2>1, UnboundIsNothing
<1>6. PICK b : b = [skill |-> s, base |-> 1, last |-> 0, digest |-> None]
  OBVIOUS
<1>7. \A p \in Paths : SlugOf[p] = s => s # None /\ b \in Binding
  BY <1>3, <1>6 DEF Binding, GitAssumption
<1>8. GitTypeOK
  <2>1. source \in [revision : Revisions, archived : BOOLEAN, token : 0..MaxRevision, live : BOOLEAN]
    BY <1>2, <1>3
  <2>2. published \in [Skills -> OptVersions] /\ created \in OptVersions
    BY <1>1, <1>3
  <2>3. version \in [Versions -> Version \cup {Unbound}]
    BY <1>1, <1>4, <1>5
  <2>4. binding \in [Paths -> Binding \cup {Unbound}]
    BY <1>1, <1>6, <1>7
  <2>. QED  BY <1>2, <1>3, <2>1, <2>2, <2>3, <2>4 DEF GitTypeOK
<1>9. CatalogOrdered
  <2>1. \A v \in Versions : version[v] # Unbound <=> v <= created
    <3>1. SUFFICES ASSUME NEW v \in Versions PROVE version[v] # Unbound <=> v <= created
      OBVIOUS
    <3>2. v \in Nat /\ v # 0
      BY DEF Versions
    <3>3. version[v] = IF v = 1 /\ s # None THEN x ELSE Unbound
      BY <1>1, <1>4
    <3>. QED  BY <1>1, <1>5, <3>2, <3>3
  <2>2. ASSUME NEW t \in Skills, published[t] # 0
        PROVE  published[t] <= created /\ version[published[t]].skill = t
    <3>1. t = s /\ published[t] = 1 /\ s # None /\ created = 1
      BY <1>1, <2>2 DEF GitAssumption
    <3>2. version[1] = x /\ x.skill = s
      BY <1>1, <1>3, <1>4, <3>1
    <3>. QED  BY <3>1, <3>2
  <2>. QED  BY <2>1, <2>2 DEF CatalogOrdered
<1>10. \A v \in 1..created : v = 1 /\ s # None /\ version[v] = x
  BY <1>1, <1>3, <1>4
<1>11. ImportsOfRuns
  <2>1. x.run = None /\ x.path = None /\ x.status = "published"
    BY <1>4
  <2>. QED  BY <1>10, <2>1 DEF ImportsOfRuns
<1>12. PlansFit /\ ClaimsApart /\ TwinsShutOut /\ CompleteMeansEvery
  BY <1>2 DEF PlansFit, ClaimsApart, TwinsShutOut, CompleteMeansEvery, Used
<1>13. NoDuplicateCandidates
  BY <1>10, <1>1 DEF NoDuplicateCandidates, Twins
<1>14. BindingsFit
  <2>1. SUFFICES ASSUME NEW p \in Paths, binding[p] # Unbound PROVE BindingFits(binding[p])
    BY DEF BindingsFit, Bound
  <2>2. binding[p] = b /\ s \in Skills /\ s # None
    BY <1>1, <1>6, <1>7, <2>1
  <2>3. b.skill = s /\ b.last = 0 /\ b.digest = None /\ published[s] = 1 /\ created = 1
    BY <1>1, <1>6, <2>2
  <2>. QED  BY <2>2, <2>3 DEF BindingFits
<1>15. WorkersFit
  BY <1>2 DEF WorkersFit
<1>. QED  BY <1>8, <1>9, <1>11, <1>12, <1>13, <1>14, <1>15 DEF GitInv

LEMMA GitStutters ==
  ASSUME GitAssumption, GitInv, UNCHANGED gitVars
  PROVE  GitInv' /\ RunsHold
<1>1. /\ source' = source /\ published' = published /\ shelved' = shelved /\ version' = version
      /\ created' = created /\ binding' = binding /\ run' = run /\ worker' = worker
      /\ overtaken' = overtaken /\ interventions' = interventions
  BY DEF gitVars, catalog
<1>2. GitTypeOK /\ GitTypeOK'
  BY <1>1 DEF GitInv, GitTypeOK
<1>3. /\ RunsHold /\ VersionsHold /\ CatalogOrdered' /\ ImportsOfRuns' /\ PlansFit'
      /\ ClaimsApart' /\ TwinsShutOut' /\ NoDuplicateCandidates' /\ CompleteMeansEvery'
  BY <1>1, <1>2, GitFacts, SourceChanges
<1>4. BindingsFit' /\ WorkersFit'
  BY <1>1 DEF GitInv, BindingsFit, BindingFits, Bound, WorkersFit, WorkerFits, Stored, Used, Planned,
     Imported
<1>. QED  BY <1>2, <1>3, <1>4 DEF GitInv

LEMMA GitNextHolds ==
  ASSUME GitAssumption, GitInv, [GitNext]_gitVars
  PROVE  GitInv' /\ RunsHold
<1>1. CASE UNCHANGED gitVars
  BY <1>1, GitStutters
<1>2. CASE People
  <2>1. interventions' \in 0..MaxInterventions
    BY <1>2 DEF People, GitInv, GitTypeOK, GitAssumption
  <2>2. \/ Update
        \/ \E p \in Paths : Disconnect(p) \/ \E s \in Skills : Bind(p, s)
        \/ \E v \in Versions : Review(v)
        \/ \E s \in Skills : PublishByHand(s) \/ Shelve(s)
    BY <1>2, Zenon DEF People
  <2>3. CASE Update
    BY <2>1, <2>3, UpdateHolds
  <2>4. ASSUME NEW p \in Paths, Disconnect(p) PROVE GitInv' /\ RunsHold
    BY <2>1, <2>4, DisconnectHolds
  <2>5. ASSUME NEW p \in Paths, NEW s \in Skills, Bind(p, s) PROVE GitInv' /\ RunsHold
    BY <2>1, <2>5, BindHolds
  <2>6. ASSUME NEW v \in Versions, Review(v) PROVE GitInv' /\ RunsHold
    BY <2>1, <2>6, ReviewHolds
  <2>7. ASSUME NEW s \in Skills, PublishByHand(s) \/ Shelve(s) PROVE GitInv' /\ RunsHold
    BY <2>1, <2>7, PublishByHandHolds, ShelveHolds
  <2>. QED  BY <2>2, <2>3, <2>4, <2>5, <2>6, <2>7, Zenon
<1>3. CASE System
  <2>1. interventions' = interventions
    BY <1>3 DEF System
  <2>2. ASSUME NEW r \in Runs, PreviewRead(r) \/ PreviewPlan(r) \/ PreviewSave(r)
        PROVE  GitInv' /\ RunsHold
    BY <2>1, <2>2, PreviewReadHolds, PreviewPlanHolds, PreviewSaveHolds
  <2>3. ASSUME NEW w \in Workers, NEW r \in Runs, Claim(w, r) PROVE GitInv' /\ RunsHold
    BY <2>1, <2>3, ClaimHolds
  <2>4. ASSUME NEW w \in Workers, worker[w] # Free,
               \/ Renew(w) \/ Look(w) \/ Reserve(w) \/ Insert(w) \/ BindVersion(w) \/ Keep(w)
               \/ Note(w) \/ ItemFails(w) \/ SaveError(w) \/ Finish(w) \/ ApplyFails(w)
               \/ MarkPartial(w) \/ Release(w) \/ Crash(w)
        PROVE  GitInv' /\ RunsHold
    BY <2>1, <2>4, RenewHolds, LookHolds, ReserveHolds, InsertHolds, BindVersionHolds, KeepHolds,
       NoteHolds, FailsHold, SaveErrorHolds, FinishHolds, MarkPartialHolds, ReleaseHolds, CrashHolds
  <2>5. CASE Expire
    BY <2>1, <2>5, ExpireHolds
  <2>6. \/ \E r \in Runs : PreviewRead(r) \/ PreviewPlan(r) \/ PreviewSave(r)
        \/ \E w \in Workers :
             \/ \E r \in Runs : Claim(w, r)
             \/ /\ worker[w] # Free
                /\ \/ Renew(w) \/ Look(w) \/ Reserve(w) \/ Insert(w) \/ BindVersion(w) \/ Keep(w)
                   \/ Note(w) \/ ItemFails(w) \/ SaveError(w) \/ Finish(w) \/ ApplyFails(w)
                   \/ MarkPartial(w) \/ Release(w) \/ Crash(w)
        \/ Expire
    BY <1>3, Zenon DEF System
  <2>. QED  BY <2>2, <2>3, <2>4, <2>5, <2>6, Zenon
<1>. QED  BY <1>1, <1>2, <1>3 DEF GitNext

-----------------------------------------------------------------------------
(* A binding shows what the last claim made of its path.  A claim that may   *)
(* still settle a path has the source's revision, above those of all other   *)
(* claims; and a run that is claimed again was the last to be claimed, for   *)
(* it goes on where its own last claim left the source.                      *)

\* A claim is later than what the run read, and only a claim brings results.
ClaimsCame ==
  \A r \in Runs : Used(r) =>
    /\ run[r].applied = 0 \/ run[r].at < run[r].applied
    /\ \A p \in Paths : run[r].results[p] # "none" => run[r].applied # 0

LatestAt(r, p) ==
  Settled(r, p) /\ \A other \in Runs : Settled(other, p) => run[other].applied <= run[r].applied
ShowsAt(p) ==
  p \in Bound /\ binding[p].last # 0 =>
    \A r \in Runs : LatestAt(r, p) => binding[p].last \in MadeOf(r, p)

LEMMA LastAtPaths == LastClaimShows <=> \A p \in Paths : ShowsAt(p)
BY DEF LastClaimShows, ShowsAt, LatestAt, Bound

LEMMA LastAtPathsNext == LastClaimShows' <=> \A p \in Paths : ShowsAt(p)'
BY DEF LastClaimShows, ShowsAt, LatestAt, Bound

LEMMA SettledFacts ==
  ASSUME GitAssumption, GitInv, ClaimsCame, NEW r \in Runs, NEW p \in Paths, Settled(r, p)
  PROVE  /\ run[r].applied \in Nat /\ run[r].at \in Nat /\ source.revision \in Nat
         /\ run[r].at < run[r].applied /\ run[r].applied # 0
         /\ run[r].applied <= source.revision
<1>1. Used(r) /\ run[r].results[p] # "none"
  BY DEF Settled, Used
<1>2. GitTypeOK /\ ClaimsApart
  BY DEF GitInv
<1>. QED  BY <1>1, <1>2, RunFacts, GitFacts DEF ClaimsCame, ClaimsApart

\* What is settled stays settled, by the same plan.
LEMMA SettledStays ==
  ASSUME GitInv, RunsHold, NEW r \in Runs, NEW p \in Paths, Settled(r, p)
  PROVE  Settled(r, p)' /\ run'[r].plan = run[r].plan
<1>1. Stored(r)
  BY DEF GitInv, PlansFit, Settled, Used
<1>. QED  BY <1>1 DEF RunsHold, Settled, Stored, Used

\* A step that leaves a path's binding, or the version it shows, to people, and settles nothing.
LEMMA PathRests ==
  ASSUME GitInv, RunsHold, NEW p \in Paths, ShowsAt(p),
         binding'[p] = binding[p] \/ binding'[p] = Unbound \/ binding'[p].last = 0,
         \A r \in Runs : Imported(r, p) \subseteq Imported(r, p)',
         \A r \in Runs : Settled(r, p)' => Settled(r, p) /\ run'[r].applied = run[r].applied
  PROVE  ShowsAt(p)'
<1>1. SUFFICES ASSUME p \in Bound', binding'[p].last # 0, NEW r \in Runs, LatestAt(r, p)'
               PROVE  binding'[p].last \in MadeOf(r, p)'
  BY DEF ShowsAt
<1>2. binding'[p] = binding[p] /\ p \in Bound
  BY <1>1 DEF Bound
<1>3. LatestAt(r, p)
  <2>1. Settled(r, p) /\ run'[r].applied = run[r].applied
    BY <1>1 DEF LatestAt
  <2>2. ASSUME NEW other \in Runs, Settled(other, p) PROVE run[other].applied <= run[r].applied
    <3>1. Settled(other, p)' /\ run'[other].applied = run[other].applied
      BY <2>2, SettledStays
    <3>. QED  BY <1>1, <2>1, <3>1 DEF LatestAt
  <2>. QED  BY <2>1, <2>2 DEF LatestAt
<1>4. binding[p].last \in MadeOf(r, p)
  BY <1>1, <1>2, <1>3 DEF ShowsAt
<1>5. run'[r].plan = run[r].plan
  BY <1>3, SettledStays DEF LatestAt
<1>. QED  BY <1>2, <1>4, <1>5 DEF MadeOf

\* How the record of a run may change in a step that claims nothing.
Rests(r) ==
  Used(r)' =>
    \/ /\ Used(r) /\ run'[r].at = run[r].at /\ run'[r].applied = run[r].applied
       /\ run'[r].plan = run[r].plan
       /\ \A p \in Paths : run'[r].results[p] # "none" =>
            run[r].results[p] # "none" \/ run[r].applied # 0
    \/ /\ \A p \in Paths : run'[r].results[p] = "none"
       /\ \/ run'[r].applied = 0
          \/ Used(r) /\ run'[r].at = run[r].at /\ run'[r].applied = run[r].applied
SettlesNot(r, p) ==
  Used(r)' /\ run'[r].results[p] = "done" =>
    run[r].results[p] = "done" \/ run[r].plan[p].action \notin {"added", "changed", "unchanged"}

LEMMA ClaimsCameStays ==
  ASSUME ClaimsCame, \A r \in Runs : Rests(r)
  PROVE  ClaimsCame'
BY DEF ClaimsCame, Rests, Used

LEMMA SettledNoMore ==
  ASSUME NEW r \in Runs, NEW p \in Paths, Rests(r), SettlesNot(r, p)
  PROVE  Settled(r, p)' => Settled(r, p) /\ run'[r].applied = run[r].applied
BY DEF Rests, SettlesNot, Settled, Used

\* Every path rests.
LEMMA AllRest ==
  ASSUME GitInv, RunsHold, ClaimsCame, LastClaimShows,
         \A p \in Paths : binding'[p] = binding[p] \/ binding'[p] = Unbound \/ binding'[p].last = 0,
         \A r \in Runs, p \in Paths : Imported(r, p) \subseteq Imported(r, p)',
         \A r \in Runs : Rests(r), \A r \in Runs, p \in Paths : SettlesNot(r, p)
  PROVE  ClaimsCame' /\ LastClaimShows'
<1>1. ASSUME NEW p \in Paths PROVE ShowsAt(p)'
  <2>1. ShowsAt(p)
    BY LastAtPaths
  <2>2. \A r \in Runs : Settled(r, p)' => Settled(r, p) /\ run'[r].applied = run[r].applied
    BY SettledNoMore
  <2>. QED  BY <2>1, <2>2, PathRests
<1>. QED  BY <1>1, LastAtPathsNext, ClaimsCameStays

LEMMA AsTheyAre ==
  ASSUME run' = run
  PROVE  \A r \in Runs : Rests(r) /\ \A p \in Paths : SettlesNot(r, p)
BY DEF Rests, SettlesNot, Used

\* No step takes an import back.
LEMMA ImportsKept ==
  ASSUME GitAssumption, GitInv, VersionsHold, NEW r \in Runs, NEW p \in Paths, created' \in Nat
  PROVE  Imported(r, p) \subseteq Imported(r, p)'
<1>1. created \in Nat
  BY GitFacts DEF GitInv
<1>. QED  BY <1>1 DEF VersionsHold, Imported

\* A result is merged at one path.
LEMMA SavedRests ==
  ASSUME GitAssumption, GitInv, NEW w \in Workers, worker[w] # Free, worker[w].step \in UnderLease,
         NEW result \in {"done", "error"}, run' = Saved(worker[w].run, worker[w].path, result)
  PROVE  /\ \A r \in Runs : Rests(r)
         /\ \A r \in Runs, p \in Paths :
              r # worker[w].run \/ p # worker[w].path \/ result = "error" => SettlesNot(r, p)
<1>1. PICK r, p : r = worker[w].run /\ p = worker[w].path
  OBVIOUS
<1>2. /\ r \in Runs /\ p \in Paths /\ Stored(r) /\ worker[w] \in Worker
      /\ worker[w].lease <= run[r].applied
  BY <1>1, AtEntry DEF WorkerFits
<1>3. GitTypeOK /\ Used(r)
  BY <1>2 DEF GitInv, Stored
<1>4. run[r].applied # 0 /\ run[r] \in Run
  <2>1. worker[w].lease \in Revisions /\ run[r].applied \in Nat
    BY <1>2, <1>3, RunFacts DEF Worker
  <2>. QED  BY <1>2, <1>3, <2>1, GitFacts DEF Revisions, GitAssumption
<1>5. PICK x : x = [stage |-> "partial", at |-> run[r].at, applied |-> run[r].applied,
                    commit |-> run[r].commit, plan |-> run[r].plan,
                    results |-> [run[r].results EXCEPT ![p] = Merged(run[r].results[p], result)]]
  OBVIOUS
<1>6. run' = [run EXCEPT ![r] = x]
  BY <1>1, <1>5 DEF Saved
<1>7. run'[r] = x /\ \A q \in Runs \ {r} : run'[q] = run[q]
  BY <1>2, <1>3, <1>6 DEF GitTypeOK
<1>8. /\ x.at = run[r].at /\ x.applied = run[r].applied /\ x.plan = run[r].plan
      /\ \A q \in Paths : x.results[q] = IF q = p THEN Merged(run[r].results[p], result)
                                         ELSE run[r].results[q]
  BY <1>2, <1>3, <1>5, RunFacts
<1>9. ASSUME NEW q \in Runs PROVE Rests(q)
  BY <1>3, <1>4, <1>7, <1>8, <1>9 DEF Rests, Used
<1>10. ASSUME NEW q \in Runs, NEW path \in Paths, q # r \/ path # p \/ result = "error"
       PROVE  SettlesNot(q, path)
  BY <1>7, <1>8, <1>10 DEF SettlesNot, Merged
<1>. QED  BY <1>1, <1>9, <1>10

\* A stage is all that changes.
LEMMA StageRests ==
  ASSUME GitAssumption, GitInv, NEW r \in Runs, Used(r), NEW stage,
         run' = [run EXCEPT ![r].stage = stage]
  PROVE  \A q \in Runs : Rests(q) /\ \A p \in Paths : SettlesNot(q, p)
<1>1. GitTypeOK
  BY DEF GitInv
<1>2. run[r] \in Run
  BY <1>1, GitFacts
<1>3. PICK x : x = [run[r] EXCEPT !.stage = stage]
  OBVIOUS
<1>4. /\ x.at = run[r].at /\ x.applied = run[r].applied /\ x.plan = run[r].plan
      /\ x.results = run[r].results
  BY <1>2, <1>3 DEF Run
<1>5. run'[r] = x /\ \A q \in Runs \ {r} : run'[q] = run[q]
  BY <1>1, <1>3 DEF GitTypeOK
<1>. QED  BY <1>4, <1>5 DEF Rests, SettlesNot, Used

\* What only a claim, or a binding that commits, does not do.
Rest ==
  /\ \A p \in Paths : binding'[p] = binding[p] \/ binding'[p] = Unbound \/ binding'[p].last = 0
  /\ \A r \in Runs : Rests(r) /\ \A p \in Paths : SettlesNot(r, p)

LEMMA PeopleRest ==
  ASSUME GitAssumption, GitInv, People
  PROVE  Rest /\ VersionsHold
<1>1. GitTypeOK /\ CatalogOrdered
  BY DEF GitInv
<1>2. created \in Nat /\ \A v \in 1..created : v \in Versions /\ version[v] \in Version
  BY <1>1, GitFacts, VersionFacts
<1>3. CASE Update \/ \E p \in Paths : Disconnect(p) \/ \E s \in Skills : Bind(p, s)
  <2>1. UNCHANGED <<version, created, run>>
    BY <1>3 DEF Update, Disconnect, Bind, catalog
  <2>2. \A p \in Paths : binding'[p] = binding[p] \/ binding'[p] = Unbound \/ binding'[p].last = 0
    BY <1>1, <1>3 DEF Update, Disconnect, Bind, GitTypeOK
  <2>. QED  BY <1>2, <2>1, <2>2, AsTheyAre DEF Rest, VersionsHold
<1>4. ASSUME NEW v \in Versions, Review(v) PROVE Rest /\ VersionsHold
  <2>1. UNCHANGED <<binding, run, created>>
    BY <1>4 DEF Review
  <2>2. PICK status : version' = [version EXCEPT ![v].status = status]
    BY <1>4 DEF Review
  <2>3. ASSUME NEW u \in 1..created
        PROVE  /\ version'[u].skill = version[u].skill /\ version'[u].digest = version[u].digest
               /\ version'[u].base = version[u].base
               /\ version'[u].run = version[u].run /\ version'[u].path = version[u].path
    BY <1>1, <1>2, <2>2 DEF GitTypeOK, Version
  <2>. QED  BY <1>2, <2>1, <2>3, AsTheyAre DEF Rest, VersionsHold
<1>5. ASSUME NEW s \in Skills, PublishByHand(s) PROVE Rest /\ VersionsHold
  <2>1. UNCHANGED <<binding, run>> /\ created' = created + 1
    BY <1>5 DEF PublishByHand
  <2>2. PICK x : version' = [version EXCEPT ![created + 1] = x]
    BY <1>5 DEF PublishByHand
  <2>3. \A u \in 1..created : version'[u] = version[u]
    BY <1>1, <1>2, <2>2 DEF GitTypeOK
  <2>. QED  BY <1>2, <2>1, <2>3, AsTheyAre DEF Rest, VersionsHold
<1>6. ASSUME NEW s \in Skills, Shelve(s) PROVE Rest /\ VersionsHold
  BY <1>2, <1>6, AsTheyAre DEF Shelve, Rest, VersionsHold
<1>. QED  BY <1>3, <1>4, <1>5, <1>6, Zenon DEF People

LEMMA PreviewsRest ==
  ASSUME GitAssumption, GitInv, NEW r \in Runs, PreviewRead(r) \/ PreviewPlan(r) \/ PreviewSave(r)
  PROVE  Rest /\ VersionsHold
<1>1. GitTypeOK /\ PlansFit
  BY DEF GitInv
<1>2. VersionsHold
  <2>1. UNCHANGED <<version, created>> /\ created \in Nat
    BY <1>1, GitFacts DEF PreviewRead, PreviewPlan, PreviewSave, catalog
  <2>. QED  BY <2>1 DEF VersionsHold
<1>3. UNCHANGED binding
  BY DEF PreviewRead, PreviewPlan, PreviewSave
<1>4. CASE PreviewRead(r)
  <2>1. PICK x : /\ x.applied = 0 /\ \A p \in Paths : x.results[p] = "none"
                 /\ run' = [run EXCEPT ![r] = x]
    BY <1>4 DEF PreviewRead
  <2>2. run'[r] = x /\ \A q \in Runs \ {r} : run'[q] = run[q]
    BY <1>1, <2>1 DEF GitTypeOK
  <2>3. \A q \in Runs : Rests(q) /\ \A p \in Paths : SettlesNot(q, p)
    BY <2>1, <2>2 DEF Rests, SettlesNot, Used
  <2>. QED  BY <1>2, <1>3, <2>3 DEF Rest
<1>5. CASE run[r].stage \in {"reading", "planned"} /\ ~PreviewRead(r)
  <2>1. Used(r) /\ ~Stored(r) /\ \A p \in Paths : run[r].results[p] = "none"
    BY <1>1, <1>5 DEF Used, Unused, Stored, PlansFit
  <2>2. CASE PreviewPlan(r)
    <3>1. PICK added, refused : run' = PlannedRun(r, added, refused)
      BY <2>2 DEF PreviewPlan
    <3>2. PICK x : x = [stage |-> "planned", at |-> run[r].at, applied |-> run[r].applied,
                        commit |-> run[r].commit,
                        plan |-> [p \in Paths |-> PlanEntry(p, run[r].commit[p], added, refused)],
                        results |-> run[r].results]
      OBVIOUS
    <3>3. run' = [run EXCEPT ![r] = x]
      BY <3>1, <3>2 DEF PlannedRun
    <3>4. run'[r] = x /\ \A q \in Runs \ {r} : run'[q] = run[q]
      BY <1>1, <3>3 DEF GitTypeOK
    <3>5. x.at = run[r].at /\ x.applied = run[r].applied /\ x.results = run[r].results
      BY <3>2
    <3>6. \A q \in Runs : Rests(q) /\ \A p \in Paths : SettlesNot(q, p)
      BY <2>1, <3>4, <3>5 DEF Rests, SettlesNot, Used
    <3>. QED  BY <1>2, <1>3, <3>6 DEF Rest
  <2>3. CASE run' = [run EXCEPT ![r].stage = "preview"]
    BY <1>2, <1>3, <2>1, <2>3, StageRests DEF Rest
  <2>4. CASE run' = [run EXCEPT ![r] = Unused]
    <3>1. run'[r] = Unused /\ \A q \in Runs \ {r} : run'[q] = run[q]
      BY <1>1, <2>4 DEF GitTypeOK
    <3>2. \A q \in Runs : Rests(q) /\ \A p \in Paths : SettlesNot(q, p)
      BY <3>1 DEF Rests, SettlesNot, Used
    <3>. QED  BY <1>2, <1>3, <3>2 DEF Rest
  <2>5. CASE PreviewSave(r)
    BY <2>3, <2>4, <2>5 DEF PreviewSave
  <2>. QED  BY <1>5, <2>2, <2>5
<1>6. PreviewRead(r) \/ run[r].stage \in {"reading", "planned"}
  BY DEF PreviewPlan, PreviewSave
<1>. QED  BY <1>4, <1>5, <1>6

\* A worker that commits no binding.
LEMMA WorkersRest ==
  ASSUME GitAssumption, GitInv, NEW w \in Workers, worker[w] # Free,
         \/ Renew(w) \/ Look(w) \/ Reserve(w) \/ Insert(w) \/ Note(w) \/ ItemFails(w)
         \/ SaveError(w) \/ Finish(w) \/ ApplyFails(w) \/ MarkPartial(w) \/ Release(w) \/ Crash(w)
         \/ Lost(w) \/ Only(w, "error")
  PROVE  Rest /\ VersionsHold
<1>1. GitTypeOK /\ WorkersFit
  BY DEF GitInv
<1>2. created \in Nat
  BY <1>1, GitFacts
<1>3. UNCHANGED binding
  BY DEF Renew, Look, Reserve, Insert, Note, ItemFails, SaveError, Finish, ApplyFails, MarkPartial,
     Release, Crash, Lost, Only
<1>4. VersionsHold
  <2>1. CASE UNCHANGED <<version, created>>
    BY <1>2, <2>1 DEF VersionsHold
  <2>2. CASE Insert(w) /\ ~(UNCHANGED <<version, created>>)
    <3>1. PICK x : version' = [version EXCEPT ![created + 1] = x] /\ created' = created + 1
      BY <2>2 DEF Insert, Lost, Only, catalog
    <3>2. \A u \in 1..created : version'[u] = version[u]
      BY <1>1, <1>2, <3>1 DEF GitTypeOK
    <3>. QED  BY <1>2, <3>1, <3>2 DEF VersionsHold
  <2>3. UNCHANGED <<version, created>> \/ Insert(w)
    BY DEF Renew, Look, Reserve, Note, ItemFails, SaveError, Finish, ApplyFails, MarkPartial,
       Release, Crash, Lost, Only, catalog
  <2>. QED  BY <2>1, <2>2, <2>3
<1>5. CASE UNCHANGED run
  BY <1>3, <1>4, <1>5, AsTheyAre DEF Rest
<1>6. CASE Note(w) /\ ~UNCHANGED run
  <2>1. /\ worker[w].step = "note" /\ worker[w].step \in UnderLease
        /\ run' = Saved(worker[w].run, worker[w].path, "done")
    BY <1>6 DEF Note, Lost, Only, SaveDone, UnderLease
  <2>2. EntryOf(w).action \notin {"added", "changed", "unchanged"}
    BY <2>1, AtEntry DEF WorkerFits, EntryOf
  <2>3. SettlesNot(worker[w].run, worker[w].path)
    BY <2>2 DEF SettlesNot, EntryOf
  <2>. QED  BY <1>3, <1>4, <2>1, <2>3, SavedRests DEF Rest
<1>7. CASE SaveError(w) /\ ~UNCHANGED run
  <2>1. /\ worker[w].step \in UnderLease
        /\ run' = Saved(worker[w].run, worker[w].path, "error")
    BY <1>7 DEF SaveError, Lost, Only, UnderLease
  <2>. QED  BY <1>3, <1>4, <2>1, SavedRests DEF Rest
<1>8. CASE (Finish(w) \/ MarkPartial(w)) /\ ~UNCHANGED run
  <2>1. PICK r, stage : r = worker[w].run /\ run' = [run EXCEPT ![r].stage = stage]
    BY <1>8 DEF Finish, MarkPartial, Lost, Only
  <2>2. r \in Runs /\ Used(r)
    <3>1. worker[w] \in Worker /\ WorkerFits(worker[w])
      BY <1>1, GitFacts DEF WorkersFit
    <3>. QED  BY <2>1, <3>1 DEF Worker, WorkerFits, Stored
  <2>. QED  BY <1>3, <1>4, <2>1, <2>2, StageRests DEF Rest
<1>9. UNCHANGED run \/ Note(w) \/ SaveError(w) \/ Finish(w) \/ MarkPartial(w)
  BY DEF Renew, Look, Reserve, Insert, ItemFails, ApplyFails, Release, Crash, Lost, Only
<1>. QED  BY <1>5, <1>6, <1>7, <1>8, <1>9

\* A claim raises the run above the others; one that has settled something goes on where its own
\* last claim left the source, so it was the latest already.
LEMMA ClaimShows ==
  ASSUME GitAssumption, GitInv, ClaimsCame, LastClaimShows, NEW w \in Workers, NEW r \in Runs,
         Claim(w, r)
  PROVE  ClaimsCame' /\ LastClaimShows'
<1>1. GitTypeOK /\ ClaimsApart
  BY DEF GitInv
<1>2. /\ run' = [run EXCEPT ![r].applied = source.revision + 1] /\ MayClaim(r)
      /\ UNCHANGED <<binding, version, created>>
  BY DEF Claim, catalog
<1>3. Used(r) /\ run[r] \in Run /\ source.revision \in Nat
  <2>1. Used(r)
    BY <1>2 DEF MayClaim, Used, Unused
  <2>. QED  BY <1>1, <2>1, GitFacts
<1>4. PICK x : x = [stage |-> run[r].stage, at |-> run[r].at, applied |-> source.revision + 1,
                    commit |-> run[r].commit, plan |-> run[r].plan, results |-> run[r].results]
  OBVIOUS
<1>5. /\ x.applied = source.revision + 1 /\ x.at = run[r].at /\ x.plan = run[r].plan
      /\ x.results = run[r].results /\ x # Unused
  <2>1. x.stage # Unused.stage
    BY <1>3, <1>4 DEF Run, Unused
  <2>. QED  BY <1>4, <2>1
<1>6. run'[r] = x /\ \A q \in Runs \ {r} : run'[q] = run[q]
  <2>1. [run[r] EXCEPT !.applied = source.revision + 1] = x
    BY <1>3, <1>4 DEF Run
  <2>2. run' = [run EXCEPT ![r] = [run[r] EXCEPT !.applied = source.revision + 1]]
    BY <1>2
  <2>. QED  BY <1>1, <2>1, <2>2 DEF GitTypeOK
<1>7. ClaimsCame'
  <2>1. SUFFICES ASSUME NEW q \in Runs, Used(q)'
                 PROVE  /\ run'[q].applied = 0 \/ run'[q].at < run'[q].applied
                        /\ \A p \in Paths : run'[q].results[p] # "none" => run'[q].applied # 0
    BY DEF ClaimsCame
  <2>2. CASE q = r
    <3>1. run[r].at <= source.revision /\ run[r].at \in Nat
      BY <1>1, <1>3, RunFacts DEF ClaimsApart
    <3>. QED  BY <1>3, <1>5, <1>6, <2>2, <3>1
  <2>3. CASE q # r
    BY <1>6, <2>1, <2>3 DEF ClaimsCame, Used
  <2>. QED  BY <2>2, <2>3
<1>8. ASSUME NEW p \in Paths PROVE ShowsAt(p)'
  <2>1. \A q \in Runs : Settled(q, p)' <=> Settled(q, p)
    BY <1>3, <1>5, <1>6 DEF Settled, Used
  <2>2. ASSUME NEW q \in Runs PROVE MadeOf(q, p)' = MadeOf(q, p)
    <3>1. run'[q].plan = run[q].plan
      BY <1>5, <1>6
    <3>2. Imported(q, p)' = Imported(q, p)
      BY <1>2 DEF Imported
    <3>. QED  BY <3>1, <3>2 DEF MadeOf
  <2>3. ASSUME NEW q \in Runs, LatestAt(q, p)' PROVE LatestAt(q, p)
    <3>1. Settled(q, p) /\ \A other \in Runs : Settled(other, p) => run'[other].applied <= run'[q].applied
      BY <2>1, <2>3 DEF LatestAt
    <3>2. CASE Settled(r, p)
      <4>1. run[q].applied <= source.revision /\ run[q].applied \in Nat
        BY <3>1, SettledFacts
      <4>2. q = r
        BY <1>3, <1>5, <1>6, <3>1, <3>2, <4>1
      <4>3. run[r].applied = source.revision
        BY <1>2, <3>2, SettledFacts DEF MayClaim
      <4>. QED  BY <3>1, <4>2, <4>3, SettledFacts DEF LatestAt
    <3>3. CASE ~Settled(r, p)
      BY <1>6, <3>1, <3>3 DEF LatestAt
    <3>. QED  BY <3>2, <3>3
  <2>4. ShowsAt(p)
    BY LastAtPaths
  <2>. QED  BY <1>2, <2>2, <2>3, <2>4 DEF ShowsAt, Bound
<1>. QED  BY <1>7, <1>8, LastAtPathsNext

\* A binding is committed under the lease of the latest claim there is.
LEMMA CommitShows ==
  ASSUME GitAssumption, GitInv, RunsHold, ClaimsCame, LastClaimShows,
         NEW w \in Workers, worker[w] # Free, worker[w].step \in UnderLease, Fenced(w),
         EntryOf(w).action \in {"added", "changed", "unchanged"},
         run' = Saved(worker[w].run, worker[w].path, "done"), UNCHANGED <<source, catalog>>,
         NEW b, binding' = [binding EXCEPT ![worker[w].path] = b],
         b.last \in MadeOf(worker[w].run, worker[w].path)
  PROVE  ClaimsCame' /\ LastClaimShows'
<1>1. GitTypeOK /\ ClaimsApart
  BY DEF GitInv
<1>2. PICK r, p : r = worker[w].run /\ p = worker[w].path
  OBVIOUS
<1>3. /\ r \in Runs /\ p \in Paths /\ Stored(r) /\ worker[w] \in Worker /\ Planned(r, p)
      /\ worker[w].lease <= run[r].applied
  BY <1>2, AtEntry DEF WorkerFits
<1>4. /\ binding'[p] = b /\ \A q \in Paths : q # p => binding'[q] = binding[q]
      /\ UNCHANGED <<version, created>>
  BY <1>1, <1>2, <1>3 DEF GitTypeOK, catalog
<1>5. run[r].applied = source.revision /\ run[r].applied # 0 /\ source.revision \in Nat
  <2>1. source.revision = worker[w].lease /\ worker[w].lease # 0 /\ source.revision \in Nat
    BY <1>1, <1>3, GitFacts DEF Fenced, Worker, Revisions
  <2>2. run[r].applied <= source.revision /\ run[r].applied \in Nat
    BY <1>1, <1>3, RunFacts DEF ClaimsApart, Stored
  <2>. QED  BY <1>3, <2>1, <2>2
<1>6. /\ run'[r].applied = run[r].applied /\ run'[r].plan = run[r].plan /\ Used(r)'
      /\ run'[r].results[p] = "done" /\ \A q \in Runs \ {r} : run'[q] = run[q]
  <2>1. /\ run'[r].applied = run[r].applied /\ run'[r].plan = run[r].plan /\ Used(r)'
        /\ \A q \in Runs \ {r} : run'[q] = run[q]
    BY <1>1, <1>2, <1>3, SavedRun DEF Stored
  <2>2. run'[r].results = [run[r].results EXCEPT ![p] = "done"]
    BY <1>1, <1>2, <1>3 DEF Saved, Merged, GitTypeOK
  <2>3. run[r].results \in [Paths -> {"none", "done", "error"}]
    BY <1>1, <1>3, RunFacts DEF Stored
  <2>. QED  BY <1>3, <2>1, <2>2, <2>3
<1>7. (\A q \in Runs : Rests(q)) /\ \A q \in Runs, path \in Paths : path # p => SettlesNot(q, path)
  BY <1>2, SavedRests
<1>8. ASSUME NEW path \in Paths PROVE ShowsAt(path)'
  <2>1. CASE path # p
    <3>1. \A q \in Runs : Settled(q, path)' => Settled(q, path) /\ run'[q].applied = run[q].applied
      BY <1>7, <2>1, SettledNoMore
    <3>2. \A q \in Runs : Imported(q, path) \subseteq Imported(q, path)'
      BY <1>4 DEF Imported
    <3>3. ShowsAt(path)
      BY LastAtPaths
    <3>. QED  BY <1>4, <2>1, <3>1, <3>2, <3>3, PathRests
  <2>2. CASE path = p
    <3>1. SUFFICES ASSUME NEW q \in Runs, LatestAt(q, p)' PROVE b.last \in MadeOf(q, p)'
      BY <1>4, <2>2 DEF ShowsAt
    <3>2. Settled(r, p)'
      BY <1>2, <1>3, <1>6 DEF Settled, EntryOf, Planned, Used
    <3>3. run[r].applied <= run'[q].applied
      BY <1>3, <1>6, <3>1, <3>2 DEF LatestAt
    <3>4. q = r
      <4>1. SUFFICES ASSUME q # r PROVE FALSE
        OBVIOUS
      <4>2. run'[q] = run[q] /\ Used(q)
        BY <1>6, <3>1, <4>1 DEF LatestAt, Settled, Used
      <4>3. run[q].applied <= source.revision /\ run[q].applied \in Nat
        BY <1>1, <4>2, RunFacts DEF ClaimsApart
      <4>4. run[q].applied = run[r].applied
        BY <1>5, <3>3, <4>2, <4>3
      <4>. QED  BY <1>1, <1>3, <1>5, <4>1, <4>2, <4>4 DEF ClaimsApart, Stored
    <3>. QED  BY <1>2, <1>4, <1>6, <3>4 DEF MadeOf, Imported
  <2>. QED  BY <2>1, <2>2
<1>. QED  BY <1>7, <1>8, LastAtPathsNext, ClaimsCameStays

LEMMA BindingShows ==
  ASSUME GitAssumption, GitInv, RunsHold, ClaimsCame, LastClaimShows,
         NEW w \in Workers, worker[w] # Free, BindVersion(w) \/ Keep(w),
         ~Lost(w), ~Only(w, "error")
  PROVE  ClaimsCame' /\ LastClaimShows'
<1>1. PICK r, p, e : r = worker[w].run /\ p = worker[w].path /\ e = EntryOf(w)
  OBVIOUS
<1>2. /\ worker[w].step \in UnderLease /\ Fenced(w)
      /\ run' = Saved(r, p, "done") /\ UNCHANGED <<source, catalog>>
  BY <1>1 DEF BindVersion, Keep, UnderLease, SaveDone
<1>3. WorkerFits(worker[w])
  BY <1>2, AtEntry
<1>4. MadeOf(r, p) = IF e.action # "unchanged" THEN Imported(r, p)
                     ELSE IF e.candidate # 0 THEN {e.candidate} ELSE {e.last, e.base}
  BY <1>1 DEF MadeOf, EntryOf
<1>5. CASE BindVersion(w)
  <2>1. worker[w].step = "bind"
    BY <1>5 DEF BindVersion
  <2>2. e.action \in {"added", "changed"} /\ worker[w].version \in Imported(r, p)
    BY <1>1, <1>3, <2>1 DEF WorkerFits, EntryOf
  <2>3. PICK b : b.last = worker[w].version /\ binding' = [binding EXCEPT ![p] = b]
    BY <1>1, <1>5 DEF BindVersion
  <2>4. b.last \in MadeOf(r, p)
    BY <1>4, <2>2, <2>3
  <2>. QED  BY <1>1, <1>2, <2>2, <2>3, <2>4, CommitShows
<1>6. CASE Keep(w)
  <2>1. worker[w].step = "keep"
    BY <1>6 DEF Keep
  <2>2. e.action = "unchanged"
    BY <1>1, <1>3, <2>1 DEF WorkerFits, EntryOf
  <2>3. PICK b : b = Kept(w)
    OBVIOUS
  <2>4. Keepable(w) /\ binding' = [binding EXCEPT ![p] = b]
    BY <1>1, <1>6, <2>3 DEF Keep
  <2>5. /\ binding[p].skill = e.skill /\ binding[p].last = e.last /\ published[e.skill] = e.base
    BY <1>1, <2>4 DEF Keepable, Unmoved
  <2>6. b.last = IF e.candidate # 0 THEN e.candidate
                 ELSE IF \/ binding[p].digest = DigestAt(w)
                         \/ Status(binding[p].last) = "pending_review" THEN binding[p].last
                 ELSE published[binding[p].skill]
    BY <1>1, <2>3 DEF Kept
  <2>7. b.last \in MadeOf(r, p)
    BY <1>4, <2>2, <2>5, <2>6
  <2>. QED  BY <1>1, <1>2, <2>2, <2>4, <2>7, CommitShows
<1>. QED  BY <1>5, <1>6

LEMMA LastHolds ==
  ASSUME GitAssumption, GitInv, ClaimsCame, LastClaimShows, [GitNext]_gitVars
  PROVE  ClaimsCame' /\ LastClaimShows'
<1>1. RunsHold /\ created' \in Nat
  <2>1. GitInv' /\ RunsHold
    BY GitNextHolds
  <2>. QED  BY <2>1 DEF GitInv, GitTypeOK, OptVersions
<1>2. ASSUME Rest, VersionsHold PROVE ClaimsCame' /\ LastClaimShows'
  <2>1. \A r \in Runs, p \in Paths : Imported(r, p) \subseteq Imported(r, p)'
    BY <1>1, <1>2, ImportsKept
  <2>. QED  BY <1>1, <1>2, <2>1, AllRest DEF Rest
<1>3. CASE UNCHANGED gitVars
  <2>1. Rest
    BY <1>3, AsTheyAre DEF gitVars, Rest
  <2>2. VersionsHold
    BY <1>1, <1>3 DEF gitVars, catalog, VersionsHold
  <2>. QED  BY <1>2, <2>1, <2>2
<1>4. CASE People
  BY <1>2, <1>4, PeopleRest
<1>5. CASE System
  <2>1. ASSUME NEW r \in Runs, PreviewRead(r) \/ PreviewPlan(r) \/ PreviewSave(r)
        PROVE  ClaimsCame' /\ LastClaimShows'
    BY <1>2, <2>1, PreviewsRest
  <2>2. ASSUME NEW w \in Workers, NEW r \in Runs, Claim(w, r) PROVE ClaimsCame' /\ LastClaimShows'
    BY <2>2, ClaimShows
  <2>3. ASSUME NEW w \in Workers, worker[w] # Free,
               \/ Renew(w) \/ Look(w) \/ Reserve(w) \/ Insert(w) \/ BindVersion(w) \/ Keep(w)
               \/ Note(w) \/ ItemFails(w) \/ SaveError(w) \/ Finish(w) \/ ApplyFails(w)
               \/ MarkPartial(w) \/ Release(w) \/ Crash(w)
        PROVE  ClaimsCame' /\ LastClaimShows'
    <3>1. CASE (BindVersion(w) \/ Keep(w)) /\ ~Lost(w) /\ ~Only(w, "error")
      BY <1>1, <2>3, <3>1, BindingShows
    <3>2. CASE ~((BindVersion(w) \/ Keep(w)) /\ ~Lost(w) /\ ~Only(w, "error"))
      BY <1>2, <2>3, <3>2, WorkersRest
    <3>. QED  BY <3>1, <3>2
  <2>4. CASE Expire
    <3>1. Rest
      BY <2>4, AsTheyAre DEF Expire, Rest
    <3>2. VersionsHold
      BY <1>1, <2>4 DEF Expire, catalog, VersionsHold
    <3>. QED  BY <1>2, <3>1, <3>2
  <2>5. \/ \E r \in Runs : PreviewRead(r) \/ PreviewPlan(r) \/ PreviewSave(r)
        \/ \E w \in Workers :
             \/ \E r \in Runs : Claim(w, r)
             \/ /\ worker[w] # Free
                /\ \/ Renew(w) \/ Look(w) \/ Reserve(w) \/ Insert(w) \/ BindVersion(w) \/ Keep(w)
                   \/ Note(w) \/ ItemFails(w) \/ SaveError(w) \/ Finish(w) \/ ApplyFails(w)
                   \/ MarkPartial(w) \/ Release(w) \/ Crash(w)
        \/ Expire
    BY <1>5, Zenon DEF System
  <2>. QED  BY <2>1, <2>2, <2>3, <2>4, <2>5, Zenon
<1>. QED  BY <1>3, <1>4, <1>5 DEF GitNext

-----------------------------------------------------------------------------
(* What holds in every state and step.                                       *)

\* Bindings, plans and leases fit the catalog in every state, for any repository, any number of
\* previews and requests, whatever is cut off and whatever people do meanwhile.
THEOREM ImportsInOrder == GitSpec => []GitInv
<1>1. GitInit => GitInv
  BY GitAssumption, GitInitHolds
<1>2. GitInv /\ [GitNext]_gitVars => GitInv'
  BY GitAssumption, GitNextHolds
<1>. QED  BY <1>1, <1>2, PTL DEF GitSpec

\* Reviewers never see two open candidates of one path with the same content on the same base
\* (git-sources.ts:613-629, 674-687, 793-811), whatever is cut off, retried or previewed by several
\* people; but for the second of the two from a preview that began under another run's lease, or
\* of a bundle the preview could not prepare (git-sources.ts:552-554).
THEOREM OneCandidateEach == GitSpec => []NoDuplicateCandidates
<1>1. GitInv => NoDuplicateCandidates
  BY DEF GitInv
<1>. QED  BY <1>1, ImportsInOrder, PTL

\* Whoever was the last to claim the source and settle a path has the last word on its binding
\* (git-sources.ts:697-709), however many workers of earlier claims are still about, for any
\* repository, any number of previews, requests and interventions.
THEOREM LastClaimHasTheWord == GitSpec => []LastClaimShows
<1>1. GitInit => ClaimsCame /\ LastClaimShows
  BY DEF GitInit, ClaimsCame, LastClaimShows, Settled, Used
<1>2. GitInv /\ ClaimsCame /\ LastClaimShows /\ [GitNext]_gitVars => (ClaimsCame /\ LastClaimShows)'
  BY GitAssumption, LastHolds
<1>. QED  BY <1>1, <1>2, ImportsInOrder, PTL DEF GitSpec

\* What a binding says of the last version it imported is true (git-sources.ts:885-1065).
THEOREM BindingsTrue == GitSpec => []BindingHonest
<1>1. GitInv => BindingHonest
  BY DEF GitInv, BindingsFit, BindingFits, BindingHonest
<1>. QED  BY <1>1, ImportsInOrder, PTL

\* A complete run has a committed result that is no error for every entry of its plan
\* (git-sources.ts:1092-1107).
THEOREM NothingLeftOut == GitSpec => []CompleteMeansEvery
<1>1. GitInv => CompleteMeansEvery
  BY DEF GitInv
<1>. QED  BY <1>1, ImportsInOrder, PTL

\* A committed result is never replaced by an error (git-sources.ts:710-742): it needs that a
\* run with results is stored, which the invariant says.
THEOREM NoResultReplaced == GitSpec => ResultsStand
<1>1. GitInv /\ [GitNext]_gitVars => [ResultsStandStep]_gitVars
  <2>1. SUFFICES ASSUME GitInv, [GitNext]_gitVars, NEW r \in Runs, NEW p \in Paths, Used(r),
                        run[r].results[p] = "done"
                 PROVE  run'[r] # Unused /\ run'[r].results[p] = "done"
    BY DEF ResultsStandStep, Used
  <2>2. Stored(r)
    BY <2>1 DEF GitInv, PlansFit
  <2>3. RunsHold
    BY <2>1, GitAssumption, GitNextHolds
  <2>. QED  BY <2>1, <2>2, <2>3 DEF RunsHold, Stored, Used
<1>. QED  BY <1>1, ImportsInOrder, PTL DEF GitSpec, ResultsStand

=============================================================================
