------------------------- MODULE LocalProjections -------------------------
(***************************************************************************)
(* The installed skills of one machine: packages/local-runtime             *)
(* src/projections.ts over src/store.ts, as src/runtime.ts and src/cli.ts  *)
(* drive it.                                                               *)
(*                                                                         *)
(* A projection is a symbolic link at a discovery path that points to an   *)
(* immutable directory (a generation).  What the links should be is kept   *)
(* in a SQLite store that several command-line processes share.  A         *)
(* transaction of the store excludes the others and is undone by a crash;  *)
(* the links are not part of it, so a crash inside one leaves the two in   *)
(* disagreement and a later `recover` has to settle them from a journal.   *)
(*                                                                         *)
(* A generation is a number, in the order of staging; 0 is "none".  A      *)
(* projection's id is the hash of its path and its source, so the id       *)
(* determines the path; two sources may claim one path.  The usage event   *)
(* that an installation records is UsageDelivery's.                        *)
(***************************************************************************)
EXTENDS Naturals, FiniteSets

CONSTANTS Projects,        \* directories with a skillplane.json
          Ids,             \* projection ids
          Paths,           \* discovery paths
          PathOf,          \* the path of each id
          Versions,        \* published versions (content digests) of a skill
          Envelope,        \* the permissions each version asks for (its trust envelope)
          Procs,           \* command-line processes
          Plans,           \* what may happen on this machine: see `plan`
          MaxGenerations,  \* bound: generations ever staged, under any plan
          MaxMeddling,     \* bound: times the user touches a path by hand, under any plan
          None,            \* no version, no project
          Foreign          \* a path holding something that is not ours

Gens == 1..MaxGenerations
OptGens == 0..MaxGenerations

ASSUME LocalAssumption ==
  /\ MaxGenerations \in Nat /\ MaxMeddling \in Nat /\ IsFiniteSet(Projects)
  /\ PathOf \in [Ids -> Paths]
  /\ Plans \subseteq [wants : SUBSET (Ids \X Versions \X Projects),
                      generations : OptGens, meddling : 0..MaxMeddling]
  /\ None \notin Versions \cup Projects \cup Ids
  /\ Foreign \notin Nat

VARIABLES
  \* the file system
  link,        \* what each path holds: a generation, nothing, or something foreign
  made,        \* the record written with each generation (ProjectionRecord)
  staged,      \* how many generations were ever staged
  \* the store
  projection,  \* projection:<id>, the generation that is installed
  owners,      \* projection_owner rows
  journal,     \* journal:<id>:<eventId>, swaps announced
  leaving,     \* uninstall-journal:<id>
  history,     \* history:<id>:<eventId>
  trust,       \* trust:<id>, the digest approved last
  pending,     \* pending-trust:<id>
  \* the projects' configurations, processes and history
  plan,        \* what `sync` may be asked to install (<<id, version, project>>), and the
               \* bounds on staging and meddling under this plan
  proc,        \* where each command is, and what it has read
  holds,       \* projections whose sync was answered and not asked away since
  reviewed,    \* versions a person approved for each id
  robbed,      \* generations whose journal entry a recovery dropped under a live sync
  overrun,     \* paths a sync took as vacant although a record of the store is there
  disarmed,    \* generations whose removal was announced and whose announcement a stale removal erased
  meddling     \* paths the user touched by hand, how often

disk == <<link, made, staged>>
store == <<projection, owners, journal, leaving, history, trust, pending>>
ghosts == <<holds, reviewed, robbed, overrun, disarmed, meddling>>
vars == <<disk, store, plan, proc, ghosts>>

Record == [id : Ids, version : Versions, project : Projects,
           replaces : Ids \cup {None}]
Absent == [id |-> None]

Idle == [step |-> "idle"]
Sync == [step : {"stage", "swap", "confirm"}, id : Ids, version : Versions,
         project : Projects, old : OptGens, replaced : OptGens, gen : OptGens]
Process == {Idle}
           \cup [step : {"rollback"}, id : Ids, version : Versions, project : Projects]
           \cup Sync
           \cup [step : {"finish"}, gen : Gens]

TypeOK ==
  /\ link \in [Paths -> OptGens \cup {Foreign}]
  /\ made \in [Gens -> Record \cup {Absent}]
  /\ staged \in OptGens
  /\ projection \in [Ids -> OptGens]
  /\ owners \in [Ids -> SUBSET Projects]
  /\ journal \subseteq Gens
  /\ leaving \in [Ids -> OptGens]
  /\ history \subseteq Gens
  /\ trust \in [Ids -> Versions \cup {None}]
  /\ pending \in [Ids -> Versions \cup {None}]
  /\ plan \in Plans
  /\ proc \in [Procs -> Process]
  /\ holds \subseteq Ids \X Projects
  /\ reviewed \in [Ids -> SUBSET Versions]
  /\ robbed \subseteq Gens
  /\ overrun \subseteq Paths
  /\ disarmed \subseteq Gens
  /\ meddling \in 0..MaxMeddling

Init ==
  /\ link = [p \in Paths |-> 0]
  /\ made = [g \in Gens |-> Absent]
  /\ staged = 0
  /\ projection = [i \in Ids |-> 0]
  /\ owners = [i \in Ids |-> {}]
  /\ journal = {}
  /\ leaving = [i \in Ids |-> 0]
  /\ history = {}
  /\ trust = [i \in Ids |-> None]
  /\ pending = [i \in Ids |-> None]
  /\ plan \in Plans
  /\ proc = [p \in Procs |-> Idle]
  /\ holds = {}
  /\ reviewed = [i \in Ids |-> {}]
  /\ robbed = {}
  /\ overrun = {}
  /\ disarmed = {}
  /\ meddling = 0

-----------------------------------------------------------------------------
(* What the operations read.                                               *)

LinkOf(g) == link[PathOf[made[g].id]]

\* verifyForSync passes: the link is gone, or still the one this record installed.
Verified(g) == LinkOf(g) \in {0, g}

\* Mutant: the check no longer looks for an announced removal.
CurrentGeneration(g) == projection[made[g].id] = g

\* assertCurrent passes: not being uninstalled, and still the installed generation.
Current(g) == leaving[made[g].id] = 0 /\ projection[made[g].id] = g

\* Mutant: being one of the owners is enough.
AnOwner(g, project) == project \in owners[made[g].id]

\* assertReplacementOwner passes.
SoleOwner(g, project) == owners[made[g].id] = {project}

\* The installed record of another id at the path of id.
Rivals(id) == {projection[other] : other \in {o \in Ids \ {id} : PathOf[o] = PathOf[id]}} \ {0}

\* Mutant: the envelopes are compared the other way round.
Narrows(old, version) ==
  ~((IF old = 0 THEN {} ELSE Envelope[made[old].version]) \subseteq Envelope[version])

\* trustExpands(old, new), where a first installation has nothing to compare with.
Expands(old, version) ==
  ~(Envelope[version] \subseteq IF old = 0 THEN {} ELSE Envelope[made[old].version])

\* sameState: the installed generation already has the wanted content.
SameState(old, version) == old # 0 /\ made[old].version = version

\* The record a sync builds on, and the one it changes: its own, or the rival it replaces.
Existing(s) == IF s.old # 0 THEN s.old ELSE s.replaced
Changing(s) ==
  IF s.replaced # 0 THEN s.replaced
  ELSE IF SameState(s.old, s.version) THEN 0 ELSE s.old

Goto(p, state) == proc' = [proc EXCEPT ![p] = state]

\* The call throws: the command ends; the store and the links are as they were.
Throw(p) == Goto(p, Idle) /\ UNCHANGED <<disk, store, ghosts>>

-----------------------------------------------------------------------------
(* sync.  Everything up to the journal entry is read outside a transaction. *)

\* Projections.sync up to the trust check: what is installed, who owns it, what the link
\* shows and what was approved, each refusal with its error.
BeginSync(p, id, version, project) ==
  \E rival \in IF projection[id] = 0 /\ Rivals(id) # {} THEN Rivals(id) ELSE {0} :
    LET old == projection[id]
        s == [step |-> IF SameState(old, version) /\ LinkOf(old) = old
                       THEN "confirm" ELSE "stage",
              id |-> id, version |-> version, project |-> project,
              old |-> old, replaced |-> rival, gen |-> 0]
        refused == \/ Changing(s) # 0 /\ ~SoleOwner(Changing(s), project)
                   \/ Existing(s) # 0 /\ ~Verified(Existing(s))
                   \/ Existing(s) = 0 /\ link[PathOf[id]] # 0
        unapproved == Expands(old, version) /\ trust[id] # version
    IN \/ refused /\ Throw(p)
       \/ /\ ~refused /\ unapproved
          /\ pending' = [pending EXCEPT ![id] = version]
          /\ Goto(p, Idle)
          /\ UNCHANGED <<disk, projection, owners, journal, leaving, history, trust, ghosts>>
       \/ /\ ~refused /\ ~unapproved
          /\ Goto(p, s)
          /\ UNCHANGED <<disk, store, ghosts>>

\* One entry of the plan of `skillplane sync`.  The command has run recover before it asked
\* the workspaces for their catalogs; other commands may have done anything since then.
SyncRead(p) ==
  /\ proc[p].step = "idle"
  /\ \E wanted \in plan.wants : BeginSync(p, wanted[1], wanted[2], wanted[3])

\* Mutant: the owners of what the record replaces are kept.
RememberOnly(owned, id, project, replaced) == [owned EXCEPT ![id] = @ \cup {project}]

\* rememberOwner: the new owner is added and what the record replaces is forgotten.
Remember(owned, id, project, replaced) ==
  [i \in Ids |-> IF i = replaced THEN {} ELSE IF i = id THEN owned[i] \cup {project} ELSE owned[i]]

\* The installed state is the wanted one: a transaction checks that it still is, without
\* reading the content again, and records the project.  Once more it forgets what the record
\* replaced, should that be recorded again.
SyncConfirm(p) ==
  LET s == proc[p]
      gone == made[s.old].replaces IN
  /\ s.step = "confirm"
  /\ \/ /\ Current(s.old) /\ LinkOf(s.old) = s.old
        /\ projection' = [i \in Ids |-> IF i = gone THEN 0 ELSE projection[i]]
        /\ owners' = Remember(owners, s.id, s.project, gone)
        /\ holds' = {h \in holds : h[1] # gone} \cup {<<s.id, s.project>>}
        /\ Goto(p, Idle)
        /\ UNCHANGED <<disk, journal, leaving, history, trust, pending,
                       reviewed, robbed, overrun, disarmed, meddling>>
     \/ ~(Current(s.old) /\ LinkOf(s.old) = s.old) /\ Throw(p)

\* Mutant: the record names the generation instead of the projection it replaces.
ReplacesGeneration(s) == s.replaced

\* replacesId of the new record.
Replaces(s) == IF s.replaced = 0 THEN None ELSE made[s.replaced].id

\* The generation is written next to the link and announced in the journal (autocommit).
SyncStage(p) ==
  LET s == proc[p]
      g == staged + 1 IN
  /\ s.step = "stage" /\ staged < plan.generations
  /\ staged' = g
  /\ made' = [made EXCEPT ![g] =
       [id |-> s.id, version |-> s.version, project |-> s.project, replaces |-> Replaces(s)]]
  /\ journal' = journal \cup {g}
  /\ Goto(p, [s EXCEPT !.step = "swap", !.gen = g])
  /\ UNCHANGED <<link, projection, owners, leaving, history, trust, pending, ghosts>>

\* What the swap transaction checks again before it touches the link.
SwapAllowed(s) ==
  /\ Existing(s) # 0 => Current(Existing(s)) /\ Verified(Existing(s))
  /\ Changing(s) # 0 => SoleOwner(Changing(s), s.project)
  /\ Existing(s) = 0 => link[PathOf[s.id]] = 0

\* The rename of the new link over the path.
Rename(s) ==
  /\ link' = [link EXCEPT ![PathOf[s.id]] = s.gen]
  /\ overrun' = overrun \cup
       {path \in {PathOf[s.id]} : Existing(s) = 0
                                 /\ \E i \in Ids : PathOf[i] = path /\ projection[i] # 0}

\* The swap transaction, committed.
SyncSwap(p) ==
  LET s == proc[p]
      gone == made[s.gen].replaces IN
  /\ s.step = "swap"
  /\ \/ /\ SwapAllowed(s)
        /\ Rename(s)
        /\ history' = history \cup ({s.old} \ {0})
        /\ projection' = [i \in Ids |-> IF i = s.id THEN s.gen ELSE IF i = gone THEN 0 ELSE projection[i]]
        /\ owners' = Remember(owners, s.id, s.project, gone)
        /\ journal' = journal \ {s.gen}
        /\ pending' = [pending EXCEPT ![s.id] = None]
        /\ holds' = {h \in holds : h[1] # gone} \cup {<<s.id, s.project>>}
        /\ Goto(p, Idle)
        /\ UNCHANGED <<made, staged, leaving, trust, reviewed, robbed, disarmed, meddling>>
     \/ ~SwapAllowed(s) /\ Throw(p)

\* The process dies, or the commit fails, after the rename: the store is rolled back and
\* the link is not.
SyncSwapCut(p) ==
  LET s == proc[p] IN
  /\ s.step = "swap" /\ SwapAllowed(s)
  /\ Rename(s)
  /\ Goto(p, Idle)
  /\ UNCHANGED <<made, staged, store, holds, reviewed, robbed, disarmed, meddling>>

-----------------------------------------------------------------------------
(* recover, the first thing `sync`, `resolve` and `doctor` do: it finishes   *)
(* the announced removals it reads, each in a transaction of its own, and    *)
(* then settles the journal.  It may have read the removals long before      *)
(* either, so the two are actions of their own.                              *)

\* recover has read an announced removal.
RecoverRead(p) ==
  /\ proc[p].step = "idle"
  /\ \E id \in {i \in Ids : leaving[i] # 0} : Goto(p, [step |-> "finish", gen |-> leaving[id]])
  /\ UNCHANGED <<disk, store, ghosts>>

\* finishUninstall's three ways: the journal entry is stale; it throws; it may unlink.
Stale(g) == projection[made[g].id] \notin {0, g}
Finishable(g) == Cardinality(owners[made[g].id]) <= 1 /\ Verified(g)

\* finishUninstall(record), one transaction.
FinishUninstall(p) ==
  LET g == proc[p].gen
      id == made[g].id IN
  /\ proc[p].step = "finish"
  /\ \/ /\ Stale(g)
        /\ leaving' = [leaving EXCEPT ![id] = 0]
        /\ disarmed' = disarmed \cup ({leaving[id]} \ {0, g})
        /\ Goto(p, Idle)
        /\ UNCHANGED <<disk, projection, owners, journal, history, trust, pending,
                       holds, reviewed, robbed, overrun, meddling>>
     \/ ~Stale(g) /\ ~Finishable(g) /\ Throw(p)
     \/ /\ ~Stale(g) /\ Finishable(g)
        /\ link' = [link EXCEPT ![PathOf[id]] = 0]
        /\ projection' = [projection EXCEPT ![id] = 0]
        /\ owners' = [owners EXCEPT ![id] = {}]
        /\ leaving' = [leaving EXCEPT ![id] = 0]
        /\ Goto(p, Idle)
        /\ UNCHANGED <<made, staged, journal, history, trust, pending, ghosts>>

\* The process dies between the unlink and the commit of that transaction.
FinishCut(p) ==
  LET g == proc[p].gen IN
  /\ proc[p].step = "finish"
  /\ ~Stale(g) /\ Finishable(g)
  /\ link' = [link EXCEPT ![PathOf[made[g].id]] = 0]
  /\ Goto(p, Idle)
  /\ UNCHANGED <<made, staged, store, ghosts>>

\* Mutant: the relative link is compared with the absolute directory and never matches.
ReachedLiterally == {g \in journal : LinkOf(g) = Foreign}

\* The journalled swaps that reached the disk.
Reached == {g \in journal : LinkOf(g) = g}

\* One transaction over the journal: a swap that reached the disk is adopted, the others
\* are forgotten.
RecoverJournal(p) ==
  LET adopts(id) == {g \in Reached : made[g].id = id}
      replaces(id) == {g \in Reached : made[g].replaces = id}
      recordOf(id) == IF adopts(id) # {} THEN CHOOSE g \in adopts(id) : TRUE
                      ELSE IF replaces(id) # {} THEN 0 ELSE projection[id]
      ownersOf(id) == IF replaces(id) # {} THEN {}
                      ELSE owners[id] \cup {made[g].project : g \in adopts(id)}
  IN
  /\ proc[p].step = "idle"
  /\ projection' = [id \in Ids |-> recordOf(id)]
  /\ owners' = [id \in Ids |-> ownersOf(id)]
  /\ history' = history \cup ({projection[made[g].id] : g \in Reached} \ (Reached \cup {0}))
  /\ journal' = {}
  /\ holds' = {h \in holds : replaces(h[1]) = {}}
  /\ robbed' = robbed \cup {g \in journal \ Reached :
                              \E q \in Procs : proc[q].step = "swap" /\ proc[q].gen = g}
  /\ UNCHANGED <<disk, leaving, trust, pending, proc, reviewed, overrun, disarmed, meddling>>

-----------------------------------------------------------------------------
(* uninstall, approve, rollback.                                            *)

\* The first transaction of uninstall: a project that shares the projection only leaves
\* it; otherwise the removal is announced.
BeginUninstall(p, id, project) ==
  LET g == projection[id]
      shared == owners[id] \ {project} # {}
      refused == \/ project = None /\ Cardinality(owners[id]) > 1
                 \/ project # None /\ project \notin owners[id]
      leaves == project # None /\ shared
  IN
  \/ refused /\ Throw(p)
  \/ /\ ~refused /\ leaves
     /\ owners' = [owners EXCEPT ![id] = @ \ {project}]
     /\ holds' = holds \ {<<id, project>>}
     /\ Goto(p, Idle)
     /\ UNCHANGED <<disk, projection, journal, leaving, history, trust, pending,
                    reviewed, robbed, overrun, disarmed, meddling>>
  \/ ~refused /\ ~leaves /\ ~Verified(g) /\ Throw(p)
  \/ /\ ~refused /\ ~leaves /\ Verified(g)
     /\ leaving' = [leaving EXCEPT ![id] = g]
     /\ holds' = {h \in holds : h[1] # id}
     /\ Goto(p, [step |-> "finish", gen |-> g])
     /\ UNCHANGED <<disk, projection, owners, journal, history, trust, pending,
                    reviewed, robbed, overrun, disarmed, meddling>>

\* `skillplane uninstall ID`, and what `skillplane sync` does with a projection of its
\* project that the plan no longer lists.
Uninstall(p) ==
  /\ proc[p].step = "idle"
  /\ \E id \in {i \in Ids : projection[i] # 0}, project \in Projects \cup {None} :
       BeginUninstall(p, id, project)

\* `skillplane approve-trust ID DIGEST`: only the digest that is pending.
Approve(id) ==
  /\ pending[id] # None
  /\ trust' = [trust EXCEPT ![id] = pending[id]]
  /\ reviewed' = [reviewed EXCEPT ![id] = @ \cup {pending[id]}]
  /\ UNCHANGED <<disk, projection, owners, journal, leaving, history, pending, proc,
                 holds, robbed, overrun, disarmed, meddling>>

\* `skillplane rollback ID`: the newest other content this id ever showed is approved
\* again, and synchronised pinned once its bundle has been read.
Rollback(p, id) ==
  LET g == projection[id]
      previous == {h \in history : made[h].id = id /\ made[h].version # made[g].version}
  IN
  /\ proc[p].step = "idle"
  /\ g # 0 /\ Cardinality(owners[id]) = 1 /\ LinkOf(g) = g /\ previous # {}
  /\ \E h \in previous, project \in owners[id] :
       /\ \A other \in previous : other <= h
       /\ trust' = [trust EXCEPT ![id] = made[h].version]
       /\ Goto(p, [step |-> "rollback", id |-> id, version |-> made[h].version,
                   project |-> project])
  /\ UNCHANGED <<disk, projection, owners, journal, leaving, history, pending, ghosts>>

RollbackSync(p) ==
  LET s == proc[p] IN
  /\ s.step = "rollback"
  /\ BeginSync(p, s.id, s.version, s.project)

-----------------------------------------------------------------------------
(* The environment.                                                         *)

\* A command ends where it is: the process dies, or has nothing more to do.
Stop(p) ==
  /\ proc[p].step # "idle"
  /\ Goto(p, Idle)
  /\ UNCHANGED <<disk, store, ghosts>>

\* The user removes what is at a path, or puts something else there.
Meddle(path) ==
  /\ meddling < plan.meddling
  /\ \E what \in {0, Foreign} \ {link[path]} : link' = [link EXCEPT ![path] = what]
  /\ meddling' = meddling + 1
  /\ UNCHANGED <<made, staged, store, proc, holds, reviewed, robbed, overrun, disarmed>>

Step ==
  \/ \E p \in Procs :
       \/ SyncRead(p) \/ SyncConfirm(p) \/ SyncStage(p) \/ SyncSwap(p) \/ SyncSwapCut(p)
       \/ RecoverRead(p) \/ RecoverJournal(p)
       \/ Uninstall(p) \/ FinishUninstall(p) \/ FinishCut(p)
       \/ \E id \in Ids : Rollback(p, id)
       \/ RollbackSync(p) \/ Stop(p)
  \/ \E id \in Ids : Approve(id)
  \/ \E path \in Paths : Meddle(path)

\* Nothing here changes what the projects ask for.
Next == Step /\ UNCHANGED plan

Spec == Init /\ [][Next]_vars

-----------------------------------------------------------------------------
(* What must hold.  Three races the code leaves open are named by the ghost  *)
(* variables `robbed`, `overrun` and `disarmed`; the properties say that     *)
(* nothing else can break what they promise.                                 *)

\* The link and the store agree but for a swap a later `recover` still finds in its journal
\* (projections.ts:346-366 with recover, 162-191): a link that shows a generation of ours is
\* what the store has installed, or a swap still announced.  The exception: a swap whose
\* announcement another command's recover dropped while its sync was still on the way.
SwapsReconciled ==
  \A path \in Paths : link[path] \in Gens =>
    LET g == link[path] IN projection[made[g].id] = g \/ g \in journal \cup robbed

\* Of two projections with one discovery path at most one is recorded, so two sources never
\* both own it (projections.ts:258-273); the exception is a path a sync believed empty since
\* before the record came.  And a recorded projection has an owning project, an owner
\* a recorded projection, whatever was adopted, replaced or removed in between: without
\* an owner no sync would ever remove it (runtime.ts asks projectIds), without a record every
\* sync of its project fails.
OneRecordPerPath ==
  \A i, j \in Ids : i # j /\ PathOf[i] = PathOf[j] /\ PathOf[i] \notin overrun =>
    projection[i] = 0 \/ projection[j] = 0
RecordsOwned == \A i \in Ids : projection[i] # 0 <=> owners[i] # {}
RecordsConsistent == OneRecordPerPath /\ RecordsOwned

\* A sync that answered stands: what it installed or confirmed stays recorded for its project
\* until the project asks it away, a full removal of the id is announced or another source
\* replaces it -- whatever stale removals (projections.ts:439-447) are finished in between.  The
\* exception: a removal whose announcement a stale removal erased.
InstalledStays ==
  \A h \in holds :
    \/ projection[h[1]] # 0 /\ h[2] \in owners[h[1]]
    \/ \E g \in disarmed : made[g].id = h[1]

\* recover finishes every announced removal before it does anything else and throws when it
\* cannot, which stops sync, resolve and doctor for every projection: an announced removal is
\* stale or can be finished.  The exceptions: an overrun path, and a path where the user has put
\* something else.
UninstallCanFinish ==
  \A i \in Ids : leaving[i] # 0 =>
    \/ Stale(leaving[i]) \/ Finishable(leaving[i])
    \/ PathOf[i] \in overrun \/ link[PathOf[i]] = Foreign

\* Nothing runs with permissions nobody reviewed (approvedTrust, projections.ts:207-235):
\* through updates, narrowing, re-installation and rollback, what the installed version asks
\* for is within what a person approved for this id.
Granted(id) == UNION {Envelope[v] : v \in reviewed[id]}
ReviewedBeforeUse ==
  \A i \in Ids : projection[i] # 0 => Envelope[made[projection[i]].version] \subseteq Granted(i)

\* While two projects own a projection no command changes or removes what it shows: one
\* project's update, rollback, replacement or removal never reaches the other's session
\* (assertReplacementOwner inside the transaction, projections.ts:350); at most the same content
\* is put back.  The exception: a sync that read nothing at the path before the projection came,
\* and finds the link removed by hand.
Content(id) == IF projection[id] = 0 THEN None ELSE made[projection[id]].version
SharedStays ==
  [][\A i \in Ids : Cardinality(owners[i]) > 1 /\ PathOf[i] \notin overrun' =>
       Content(i)' = Content(i)]_vars
=============================================================================
