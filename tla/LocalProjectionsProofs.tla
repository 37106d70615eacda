----------------------- MODULE LocalProjectionsProofs -----------------------
(* Why links and store agree, and what installed projections may rely on,    *)
(* for any number of commands, projections, paths, projects and generations. *)
EXTENDS LocalProjections, FiniteSetTheorems, TLAPS

\* A staged generation of projection i.
Made(g, i) == g \in 1..staged /\ made[g].id = i

\* The record of a generation names what the projection at its path was.
RecordsSound ==
  \A g \in 1..staged :
    /\ made[g] \in Record
    /\ made[g].replaces # None =>
         made[g].replaces # made[g].id /\ PathOf[made[g].replaces] = PathOf[made[g].id]

\* What the store, the disk and the commands refer to was staged, for the id or the path it is
\* used for.
References ==
  /\ \A i \in Ids : /\ projection[i] # 0 => Made(projection[i], i)
                    /\ leaving[i] # 0 => Made(leaving[i], i)
  /\ \A path \in Paths : link[path] \in Gens =>
       link[path] \in 1..staged /\ PathOf[made[link[path]].id] = path
  /\ journal \subseteq 1..staged /\ history \subseteq 1..staged /\ disarmed \subseteq 1..staged

Recorded(s) ==
  [id |-> s.id, version |-> s.version, project |-> s.project, replaces |-> Replaces(s)]
Knows(s) ==
  /\ s.step = "finish" => s.gen \in 1..staged
  /\ s.step \in {"stage", "swap", "confirm"} =>
       /\ s.old # 0 => Made(s.old, s.id)
       /\ s.replaced # 0 => /\ s.old = 0 /\ s.replaced \in 1..staged
                            /\ made[s.replaced].id # s.id
                            /\ PathOf[made[s.replaced].id] = PathOf[s.id]
  /\ s.step = "confirm" => s.old # 0
  /\ s.step = "swap" => s.gen \in 1..staged /\ made[s.gen] = Recorded(s)
CommandsKnow == \A p \in Procs : Knows(proc[p])

\* A generation on its way to its swap is nowhere else, and the journal or a robbery has it.
Unseen(g) ==
  /\ \A path \in Paths : link[path] # g
  /\ \A i \in Ids : projection[i] # g /\ leaving[i] # g
Unused(g) ==
  /\ \A i \in Ids : projection[i] # g /\ leaving[i] # g
  /\ \A p \in Procs : proc[p].step = "finish" => proc[p].gen # g
SwapsFresh ==
  /\ \A p \in Procs : proc[p].step = "swap" =>
       /\ Unseen(proc[p].gen) /\ proc[p].gen \in journal \cup robbed
       /\ \A q \in Procs \ {p} : proc[q].step \in {"swap", "finish"} => proc[q].gen # proc[p].gen
  /\ \A g \in journal : Unused(g)

\* Whatever was staged, trusted or is to be staged was reviewed.
AllGranted ==
  /\ \A g \in 1..staged : Envelope[made[g].version] \subseteq Granted(made[g].id)
  /\ \A i \in Ids : trust[i] # None => Envelope[trust[i]] \subseteq Granted(i)
  /\ \A p \in Procs : proc[p].step = "stage" => Envelope[proc[p].version] \subseteq Granted(proc[p].id)

\* A recorded projection whose path shows a generation is that generation's, or the one it
\* replaces; a shared one has its content.
Shared(i) == \E P, Q \in owners[i] : P # Q
ShownAs ==
  \A i \in Ids : projection[i] # 0 /\ link[PathOf[i]] \in Gens /\ PathOf[i] \notin overrun =>
    LET g == link[PathOf[i]] IN
    /\ i = made[g].id \/ i = made[g].replaces
    /\ Shared(i) => i = made[g].id /\ made[projection[i]].version = made[g].version

\* A removal of the installed generation is still announced, and nobody holds what is to go;
\* or its announcement was erased.
Disarmed(i) == \E g \in disarmed : made[g].id = i
RemovalsAnnounced ==
  /\ \A p \in Procs : proc[p].step = "finish" =>
       LET i == made[proc[p].gen].id IN
       projection[i] = proc[p].gen => leaving[i] = proc[p].gen \/ Disarmed(i)
  /\ \A i \in Ids : leaving[i] # 0 /\ projection[i] = leaving[i] =>
       Disarmed(i) \/ \A h \in holds : h[1] # i

\* What is announced to be removed is still installed, owned by one project at most, and its
\* path shows nothing else of ours.
RemovalsReady ==
  \A i \in Ids : leaving[i] # 0 /\ PathOf[i] \notin overrun =>
    projection[i] = leaving[i] /\ link[PathOf[i]] \in {0, leaving[i], Foreign} /\ ~Shared(i)

Inv ==
  /\ TypeOK /\ RecordsSound /\ References /\ CommandsKnow /\ SwapsFresh
  /\ AllGranted
  /\ RecordsOwned /\ OneRecordPerPath /\ ShownAs /\ SwapsReconciled
  /\ RemovalsAnnounced /\ InstalledStays /\ RemovalsReady

-----------------------------------------------------------------------------
(* Constants, and what the types say of a command.                          *)

LEMMA Constants ==
  /\ PathOf \in [Ids -> Paths]
  /\ MaxGenerations \in Nat /\ Gens = 1..MaxGenerations /\ OptGens = 0..MaxGenerations
  /\ None \notin Versions /\ None \notin Projects /\ None \notin Ids
  /\ Foreign \notin Nat /\ 0 \notin Gens /\ Foreign \notin Gens
BY LocalAssumption DEF LocalAssumption, Gens, OptGens

SyncSteps == {"stage", "swap", "confirm"}

LEMMA ProcessKinds ==
  ASSUME NEW s \in Process
  PROVE  /\ s.step \in {"idle", "rollback", "finish"} \cup SyncSteps
         /\ s.step = "rollback" => s.id \in Ids /\ s.version \in Versions /\ s.project \in Projects
         /\ s.step = "finish" => s.gen \in Gens
         /\ s.step \in SyncSteps => s \in Sync
BY DEF Process, Sync, Idle, SyncSteps

LEMMA SyncFields ==
  ASSUME NEW s \in Sync
  PROVE  /\ s \in Process /\ s.step \in SyncSteps
         /\ s.id \in Ids /\ s.version \in Versions /\ s.project \in Projects
         /\ s.old \in OptGens /\ s.replaced \in OptGens /\ s.gen \in OptGens
BY DEF Sync, Process, SyncSteps

LEMMA IdleKind == Idle \in Process /\ Idle.step = "idle"
BY DEF Idle, Process

LEMMA StagedGens ==
  ASSUME TypeOK
  PROVE  /\ staged \in 0..MaxGenerations /\ \A g \in 1..staged : g \in Gens /\ g # 0
         /\ \A g \in Gens : g # 0 /\ g # Foreign
BY Constants DEF TypeOK

LEMMA InitHolds == Init => Inv
<1> SUFFICES ASSUME Init PROVE Inv
  OBVIOUS
<1> USE Constants
<1>1. TypeOK
  <2>1. /\ link \in [Paths -> OptGens \cup {Foreign}] /\ made \in [Gens -> Record \cup {Absent}]
        /\ staged \in OptGens /\ projection \in [Ids -> OptGens]
        /\ owners \in [Ids -> SUBSET Projects] /\ journal \subseteq Gens
        /\ leaving \in [Ids -> OptGens] /\ history \subseteq Gens
    BY DEF Init
  <2>2. /\ trust \in [Ids -> Versions \cup {None}] /\ pending \in [Ids -> Versions \cup {None}]
        /\ plan \in Plans
        /\ holds \subseteq Ids \X Projects /\ reviewed \in [Ids -> SUBSET Versions]
        /\ robbed \subseteq Gens /\ overrun \subseteq Paths /\ disarmed \subseteq Gens
    BY DEF Init
  <2>3. proc \in [Procs -> Process]
    BY IdleKind DEF Init
  <2>4. meddling \in 0..MaxMeddling
    BY LocalAssumption DEF Init, LocalAssumption
  <2> QED
    BY <2>1, <2>2, <2>3, <2>4 DEF TypeOK
<1>2. staged = 0 /\ 1..staged = {}
  BY DEF Init
<1>3. \A p \in Procs : proc[p].step = "idle"
  BY IdleKind DEF Init
<1>4. RecordsSound /\ References /\ CommandsKnow
  BY <1>2, <1>3 DEF Init, RecordsSound, References, CommandsKnow, Knows
<1>5. SwapsFresh /\ AllGranted
  BY <1>2, <1>3 DEF Init, SwapsFresh, AllGranted
<1>6. RecordsOwned /\ OneRecordPerPath /\ ShownAs /\ SwapsReconciled
  BY DEF Init, RecordsOwned, OneRecordPerPath, ShownAs, SwapsReconciled
<1>7. RemovalsAnnounced /\ InstalledStays /\ RemovalsReady
  BY <1>3 DEF Init, RemovalsAnnounced, InstalledStays, RemovalsReady
<1> QED
  BY <1>1, <1>4, <1>5, <1>6, <1>7 DEF Inv

-----------------------------------------------------------------------------
(* Steps that only move a command.                                          *)

LEMMA MoveHolds ==
  ASSUME Inv, NEW p \in Procs, NEW s \in Process, s.step \notin {"swap", "finish"}, Knows(s),
         s.step = "stage" => Envelope[s.version] \subseteq Granted(s.id),
         proc' = [proc EXCEPT ![p] = s],
         trust' \in [Ids -> Versions \cup {None}], pending' \in [Ids -> Versions \cup {None}],
         \A i \in Ids : trust'[i] # None => Envelope[trust'[i]] \subseteq Granted(i),
         UNCHANGED <<disk, projection, owners, journal, leaving, history, plan, ghosts>>
  PROVE  Inv'
<1> USE DEF Inv
<1>1. proc \in [Procs -> Process] /\ proc' \in [Procs -> Process]
  BY DEF TypeOK
<1>2. \A q \in Procs : proc'[q] = IF q = p THEN s ELSE proc[q]
  BY <1>1
<1>3. TypeOK'
  BY <1>1 DEF TypeOK, disk, ghosts
<1>4. RecordsSound' /\ References'
  BY DEF RecordsSound, References, Made, disk, ghosts
<1>5. CommandsKnow'
  <2>1. \A t : Knows(t)' <=> Knows(t)
    BY DEF Knows, Recorded, Replaces, Made, disk
  <2> QED
    BY <1>2, <2>1 DEF CommandsKnow
<1>6. SwapsFresh'
  BY <1>2 DEF SwapsFresh, Unseen, Unused, disk, ghosts
<1>7. AllGranted'
  BY <1>2 DEF AllGranted, Granted, disk, ghosts
<1>8. RecordsOwned' /\ OneRecordPerPath' /\ ShownAs' /\ SwapsReconciled'
  BY DEF RecordsOwned, OneRecordPerPath, ShownAs, Shared, SwapsReconciled, disk, ghosts
<1>9. RemovalsAnnounced'
  BY <1>2 DEF RemovalsAnnounced, Disarmed, disk, ghosts
<1>10. InstalledStays' /\ RemovalsReady'
  BY DEF InstalledStays, RemovalsReady, Shared, disk, ghosts
<1> QED
  BY <1>3, <1>4, <1>5, <1>6, <1>7, <1>8, <1>9, <1>10

\* A command that throws, ends or dies.
LEMMA EndHolds ==
  ASSUME Inv, NEW p \in Procs, Goto(p, Idle), UNCHANGED <<disk, store, ghosts, plan>>
  PROVE  Inv'
<1>1. Knows(Idle) /\ Idle \in Process /\ Idle.step = "idle"
  BY IdleKind DEF Knows
<1>2. /\ trust' \in [Ids -> Versions \cup {None}] /\ pending' \in [Ids -> Versions \cup {None}]
      /\ \A i \in Ids : trust'[i] # None => Envelope[trust'[i]] \subseteq Granted(i)
  BY DEF Inv, TypeOK, AllGranted, store
<1> QED
  BY <1>1, <1>2, MoveHolds DEF Goto, store

\* sync up to the trust check.
LEMMA BeginSyncHolds ==
  ASSUME Inv, NEW p \in Procs, NEW id \in Ids, NEW version \in Versions, NEW project \in Projects,
         BeginSync(p, id, version, project), UNCHANGED plan
  PROVE  Inv'
<1> USE Constants
<1>1. PICK rival \in IF projection[id] = 0 /\ Rivals(id) # {} THEN Rivals(id) ELSE {0} :
        LET old == projection[id]
            s == [step |-> IF SameState(old, version) /\ LinkOf(old) = old
                           THEN "confirm" ELSE "stage",
                  id |-> id, version |-> version, project |-> project,
                  old |-> old, replaced |-> rival, gen |-> 0]
            unapproved == Expands(old, version) /\ trust[id] # version
        IN \/ Throw(p)
           \/ /\ pending' = [pending EXCEPT ![id] = version]
              /\ Goto(p, Idle)
              /\ UNCHANGED <<disk, projection, owners, journal, leaving, history, trust, ghosts>>
           \/ /\ ~unapproved
              /\ Goto(p, s)
              /\ UNCHANGED <<disk, store, ghosts>>
  BY Zenon DEF BeginSync
<1> DEFINE s == [step |-> IF SameState(projection[id], version) /\ LinkOf(projection[id]) = projection[id]
                          THEN "confirm" ELSE "stage",
                 id |-> id, version |-> version, project |-> project,
                 old |-> projection[id], replaced |-> rival, gen |-> 0]
<1>2. /\ projection \in [Ids -> OptGens] /\ staged \in OptGens
      /\ trust \in [Ids -> Versions \cup {None}] /\ pending \in [Ids -> Versions \cup {None}]
  BY DEF Inv, TypeOK
<1>3. rival # 0 => /\ projection[id] = 0 /\ rival \in 1..staged
                   /\ made[rival].id # id /\ PathOf[made[rival].id] = PathOf[id]
  <2>1. ASSUME rival # 0 PROVE projection[id] = 0 /\ rival \in Rivals(id)
    BY <1>1, <2>1
  <2>2. ASSUME rival # 0
        PROVE \E other \in Ids \ {id} : PathOf[other] = PathOf[id] /\ rival = projection[other]
    BY <2>1, <2>2 DEF Rivals
  <2> QED
    BY <2>1, <2>2 DEF Inv, References, Made
<1>4. rival \in OptGens
  BY <1>2, <1>3
<1>5. /\ s.step = (IF SameState(projection[id], version) /\ LinkOf(projection[id]) = projection[id]
                   THEN "confirm" ELSE "stage")
      /\ s.id = id /\ s.version = version /\ s.project = project
      /\ s.old = projection[id] /\ s.replaced = rival /\ s.gen = 0
  OBVIOUS
<1>6. s \in Sync
  BY <1>2, <1>4 DEF Sync
<1> HIDE DEF s
<1>7. s \in Process /\ s.step \in {"stage", "confirm"}
  BY <1>5, <1>6, SyncFields
<1>8. Knows(s)
  <2>1. s.step = "confirm" => s.old # 0
    BY <1>5 DEF SameState
  <2>2. s.old # 0 => Made(s.old, s.id)
    BY <1>5 DEF Inv, References
  <2> QED
    BY <1>3, <1>5, <1>7, <2>1, <2>2 DEF Knows
<1>9. ASSUME ~(Expands(projection[id], version) /\ trust[id] # version)
      PROVE  Envelope[version] \subseteq Granted(id)
  <2>1. CASE trust[id] = version
    BY <2>1 DEF Inv, AllGranted
  <2>2. CASE ~Expands(projection[id], version)
    <3>1. CASE projection[id] = 0
      BY <2>2, <3>1 DEF Expands
    <3>2. CASE projection[id] # 0
      <4>1. Envelope[version] \subseteq Envelope[made[projection[id]].version]
        BY <2>2, <3>2 DEF Expands
      <4>2. projection[id] \in 1..staged /\ made[projection[id]].id = id
        BY <3>2 DEF Inv, References, Made
      <4>3. Envelope[made[projection[id]].version] \subseteq Granted(id)
        BY <4>2 DEF Inv, AllGranted
      <4> QED
        BY <4>1, <4>3
    <3> QED
      BY <3>1, <3>2
  <2> QED
    BY <1>9, <2>1, <2>2
<1>10. CASE Throw(p)
  BY <1>10, EndHolds DEF Throw
<1>11. CASE /\ pending' = [pending EXCEPT ![id] = version]
            /\ Goto(p, Idle)
            /\ UNCHANGED <<disk, projection, owners, journal, leaving, history, trust, ghosts>>
  <2>1. Knows(Idle) /\ Idle \in Process /\ Idle.step = "idle"
    BY IdleKind DEF Knows
  <2>2. /\ trust' \in [Ids -> Versions \cup {None}] /\ pending' \in [Ids -> Versions \cup {None}]
        /\ \A i \in Ids : trust'[i] # None => Envelope[trust'[i]] \subseteq Granted(i)
    BY <1>2, <1>11 DEF Inv, AllGranted
  <2> QED
    BY <1>11, <2>1, <2>2, MoveHolds DEF Goto
<1>12. CASE /\ ~(Expands(projection[id], version) /\ trust[id] # version)
            /\ Goto(p, s)
            /\ UNCHANGED <<disk, store, ghosts>>
  <2>1. /\ trust' \in [Ids -> Versions \cup {None}] /\ pending' \in [Ids -> Versions \cup {None}]
        /\ \A i \in Ids : trust'[i] # None => Envelope[trust'[i]] \subseteq Granted(i)
    BY <1>2, <1>12 DEF Inv, AllGranted, store
  <2>2. Envelope[s.version] \subseteq Granted(s.id)
    BY <1>5, <1>9, <1>12
  <2> QED
    BY <1>7, <1>8, <1>12, <2>1, <2>2, MoveHolds DEF Goto, store
<1> QED
  BY <1>1, <1>10, <1>11, <1>12 DEF s

LEMMA RollbackHolds ==
  ASSUME Inv, NEW p \in Procs, NEW id \in Ids, Rollback(p, id), UNCHANGED plan
  PROVE  Inv'
<1>1. PICK h \in {g \in history : made[g].id = id /\ made[g].version # made[projection[id]].version} :
        \E project \in owners[id] :
          /\ trust' = [trust EXCEPT ![id] = made[h].version]
          /\ Goto(p, [step |-> "rollback", id |-> id, version |-> made[h].version,
                      project |-> project])
  BY Zenon DEF Rollback
<1>2. PICK project \in owners[id] :
          /\ trust' = [trust EXCEPT ![id] = made[h].version]
          /\ Goto(p, [step |-> "rollback", id |-> id, version |-> made[h].version,
                      project |-> project])
  BY <1>1, Zenon
<1>3. UNCHANGED <<disk, projection, owners, journal, leaving, history, pending, ghosts>>
  BY DEF Rollback
<1>4. h \in 1..staged /\ made[h] \in Record /\ made[h].id = id /\ project \in Projects
  BY <1>1, <1>2 DEF Inv, References, RecordsSound, TypeOK
<1>5. made[h].version \in Versions
  BY <1>4 DEF Record
<1> DEFINE s == [step |-> "rollback", id |-> id, version |-> made[h].version, project |-> project]
<1>6. s \in Process /\ s.step = "rollback"
  BY <1>4, <1>5 DEF Process
<1>7. Goto(p, s)
  BY <1>2
<1> HIDE DEF s
<1>8. Envelope[made[h].version] \subseteq Granted(id)
  BY <1>4 DEF Inv, AllGranted
<1>9. trust \in [Ids -> Versions \cup {None}] /\ pending \in [Ids -> Versions \cup {None}]
  BY DEF Inv, TypeOK
<1>10. \A i \in Ids : trust'[i] # None => Envelope[trust'[i]] \subseteq Granted(i)
  BY <1>2, <1>8, <1>9 DEF Inv, AllGranted
<1> QED
  BY <1>2, <1>3, <1>5, <1>6, <1>7, <1>9, <1>10, MoveHolds DEF Goto, Knows

-----------------------------------------------------------------------------
(* Steps that end a command with an effect on the links or the store.       *)

LEMMA Moved ==
  ASSUME Inv, NEW p \in Procs, NEW s \in Process, Goto(p, s)
  PROVE  /\ proc' \in [Procs -> Process] /\ proc'[p] = s
         /\ \A q \in Procs : q # p => proc'[q] = proc[q]
BY DEF Inv, TypeOK, Goto

LEMMA Stopped ==
  ASSUME Inv, NEW p \in Procs, Goto(p, Idle), UNCHANGED <<made, staged, trust, reviewed>>
  PROVE  /\ proc' \in [Procs -> Process] /\ proc'[p].step = "idle"
         /\ \A q \in Procs : q # p => proc'[q] = proc[q]
         /\ RecordsSound' /\ CommandsKnow' /\ AllGranted'
<1>1. /\ proc' \in [Procs -> Process] /\ proc'[p].step = "idle"
      /\ \A q \in Procs : q # p => proc'[q] = proc[q]
  BY Moved, IdleKind
<1>2. RecordsSound'
  BY DEF Inv, RecordsSound
<1>3. CommandsKnow'
  <2>1. \A t : Knows(t)' <=> Knows(t)
    BY DEF Knows, Recorded, Replaces, Made
  <2>2. Knows(proc'[p])
    BY <1>1 DEF Knows
  <2> QED
    BY <1>1, <2>1, <2>2 DEF Inv, CommandsKnow
<1>4. AllGranted'
  BY <1>1 DEF Inv, AllGranted, Granted
<1> QED
  BY <1>1, <1>2, <1>3, <1>4

\* What the command's own notes say when its step is a sync's.
LEMMA SyncNotes ==
  ASSUME Inv, NEW p \in Procs, proc[p].step \in SyncSteps
  PROVE  /\ proc[p] \in Sync /\ Knows(proc[p])
         /\ proc[p].id \in Ids /\ proc[p].version \in Versions /\ proc[p].project \in Projects
         /\ proc[p].old \in OptGens /\ proc[p].replaced \in OptGens /\ proc[p].gen \in OptGens
BY ProcessKinds, SyncFields DEF Inv, TypeOK, CommandsKnow

LEMMA SyncConfirmHolds ==
  ASSUME Inv, NEW p \in Procs, SyncConfirm(p), UNCHANGED plan
  PROVE  Inv'
<1> USE Constants
<1> DEFINE s == proc[p]
           gone == made[s.old].replaces
           confirmed ==
             /\ Current(s.old) /\ LinkOf(s.old) = s.old
             /\ projection' = [i \in Ids |-> IF i = gone THEN 0 ELSE projection[i]]
             /\ owners' = Remember(owners, s.id, s.project, gone)
             /\ holds' = {h \in holds : h[1] # gone} \cup {<<s.id, s.project>>}
             /\ Goto(p, Idle)
             /\ UNCHANGED <<disk, journal, leaving, history, trust, pending,
                            reviewed, robbed, overrun, disarmed, meddling>>
<1>1. s.step = "confirm" /\ (confirmed \/ Throw(p))
  BY DEF SyncConfirm
<1>2. CASE Throw(p)
  BY <1>2, EndHolds DEF Throw
<1>3. CASE confirmed
  <2>1. s.id \in Ids /\ s.project \in Projects /\ s.old # 0 /\ Made(s.old, s.id)
    BY <1>1, SyncNotes DEF SyncSteps, Knows
  <2>2. leaving[s.id] = 0 /\ projection[s.id] = s.old /\ link[PathOf[s.id]] = s.old
    BY <1>3, <2>1 DEF Current, LinkOf, Made
  <2>3. UNCHANGED <<link, made, staged>>
    BY <1>3 DEF disk
  <2>4. /\ proc' \in [Procs -> Process] /\ proc'[p].step = "idle"
        /\ \A q \in Procs : q # p => proc'[q] = proc[q]
        /\ RecordsSound' /\ CommandsKnow' /\ AllGranted'
    BY <1>3, <2>3, Stopped
  <2>5. gone # s.id /\ (gone \in Ids => PathOf[gone] = PathOf[s.id])
    BY <2>1 DEF Inv, RecordsSound, Made
  <2>6. /\ owners \in [Ids -> SUBSET Projects] /\ owners' \in [Ids -> SUBSET Projects]
        /\ \A i \in Ids : owners'[i] = IF i = gone THEN {}
                                       ELSE IF i = s.id THEN owners[i] \cup {s.project}
                                       ELSE owners[i]
    BY <1>3, <2>1 DEF Inv, TypeOK, Remember
  <2>7. /\ projection \in [Ids -> OptGens] /\ projection' \in [Ids -> OptGens]
        /\ \A i \in Ids : projection'[i] = IF i = gone THEN 0 ELSE projection[i]
    BY <1>3, <2>1 DEF Inv, TypeOK
  <2>8. UNCHANGED <<journal, leaving, history, trust, pending, reviewed, robbed, overrun,
                    disarmed, meddling>>
    BY <1>3
  <2>9. holds' = {h \in holds : h[1] # gone} \cup {<<s.id, s.project>>}
    BY <1>3
  \* Where no path is overrun, what the record replaced is not recorded.
  <2>10. gone \in Ids /\ PathOf[gone] \notin overrun => projection[gone] = 0
    BY <2>1, <2>2, <2>5 DEF Inv, OneRecordPerPath
  <2> HIDE DEF s, gone
  <2>11. TypeOK'
    <3>1. holds' \subseteq Ids \X Projects
      BY <2>1, <2>9 DEF Inv, TypeOK
    <3> QED
      BY <2>3, <2>4, <2>6, <2>7, <2>8, <3>1 DEF Inv, TypeOK
  <2>12. References'
    BY <2>3, <2>7, <2>8 DEF Inv, References, Made
  <2>13. SwapsFresh'
    <3>1. \A g : g # 0 => (Unseen(g) => Unseen(g)') /\ (Unused(g) => Unused(g)')
      BY <2>3, <2>4, <2>7, <2>8 DEF Unseen, Unused
    <3>2. \A g \in journal : g # 0
      BY DEF Inv, TypeOK
    <3>3. \A q \in Procs : proc[q].step = "swap" => proc[q].gen # 0
      BY StagedGens DEF Inv, CommandsKnow, Knows
    <3> QED
      BY <2>4, <2>8, <3>1, <3>2, <3>3 DEF Inv, SwapsFresh
  <2>14. RecordsOwned'
    BY <2>1, <2>2, <2>5, <2>6, <2>7 DEF Inv, RecordsOwned
  <2>15. OneRecordPerPath'
    BY <2>7, <2>8 DEF Inv, OneRecordPerPath
  <2>16. SwapsReconciled'
    <3>1. SUFFICES ASSUME NEW path \in Paths, link[path] \in Gens
                   PROVE  projection'[made[link[path]].id] = link[path]
                          \/ link[path] \in journal \cup robbed
      BY <2>3, <2>8 DEF SwapsReconciled
    <3>2. /\ link[path] \in 1..staged /\ PathOf[made[link[path]].id] = path
          /\ made[link[path]] \in Record
      BY <3>1 DEF Inv, References, RecordsSound
    <3>3. made[link[path]].id \in Ids
      BY <3>2 DEF Record
    <3>4. made[link[path]].id # gone
      BY <2>1, <2>2, <2>5, <3>2, <3>3 DEF Made
    <3> QED
      BY <2>7, <3>1, <3>3, <3>4 DEF Inv, SwapsReconciled
  <2>17. ShownAs'
    BY <2>1, <2>2, <2>3, <2>5, <2>6, <2>7, <2>8 DEF Inv, ShownAs, Shared, Made
  <2>18. RemovalsAnnounced'
    <3>1. \A i \in Ids : leaving[i] # 0 => i # s.id
      BY <2>2
    <3>2. \A i \in Ids : (\A h \in holds : h[1] # i) /\ i # s.id => \A h \in holds' : h[1] # i
      BY <2>9
    <3>3. \A i \in Ids : \A g : g # 0 /\ projection'[i] = g => projection[i] = g
      BY <2>7
    <3>4. \A q \in Procs : proc[q].step = "finish" =>
            proc[q].gen \in 1..staged /\ made[proc[q].gen].id \in Ids /\ proc[q].gen # 0
      BY StagedGens DEF Inv, CommandsKnow, Knows, RecordsSound, Record
    <3> QED
      BY <2>3, <2>4, <2>8, <3>1, <3>2, <3>3, <3>4 DEF Inv, RemovalsAnnounced, Disarmed
  <2>19. InstalledStays'
    <3>1. SUFFICES ASSUME NEW h \in holds'
                   PROVE  \/ projection'[h[1]] # 0 /\ h[2] \in owners'[h[1]]
                          \/ \E g \in disarmed : made[g].id = h[1]
      BY <2>3, <2>8 DEF InstalledStays
    <3>2. CASE h = <<s.id, s.project>>
      BY <2>1, <2>2, <2>5, <2>6, <2>7, <3>2
    <3>3. CASE h \in holds /\ h[1] # gone
      <4>1. h[1] \in Ids
        BY <3>3 DEF Inv, TypeOK
      <4> QED
        BY <2>6, <2>7, <3>3, <4>1 DEF Inv, InstalledStays
    <3> QED
      BY <2>9, <3>1, <3>2, <3>3
  <2>20. RemovalsReady'
    BY <2>2, <2>3, <2>6, <2>7, <2>8, <2>10 DEF Inv, RemovalsReady, Shared
  <2> QED
    BY <2>4, <2>11, <2>12, <2>13, <2>14, <2>15, <2>16, <2>17, <2>18, <2>19, <2>20 DEF Inv
<1> QED
  BY <1>1, <1>2, <1>3

\* A new generation leaves everything that refers to the others as it was.
LEMMA SyncStageHolds ==
  ASSUME Inv, NEW p \in Procs, SyncStage(p), UNCHANGED plan
  PROVE  Inv'
<1> USE Constants
<1> DEFINE s == proc[p]
           g == staged + 1
<1>1. /\ s.step = "stage" /\ staged < plan.generations
      /\ staged' = g
      /\ made' = [made EXCEPT ![g] = Recorded(s)]
      /\ journal' = journal \cup {g}
      /\ Goto(p, [s EXCEPT !.step = "swap", !.gen = g])
      /\ UNCHANGED <<link, projection, owners, leaving, history, trust, pending, ghosts>>
  BY DEF SyncStage, Recorded
<1>2. /\ s \in Sync /\ Knows(s) /\ s.id \in Ids /\ s.version \in Versions /\ s.project \in Projects
      /\ s.old \in OptGens /\ s.replaced \in OptGens
  BY <1>1, SyncNotes DEF SyncSteps
<1>3. /\ staged \in Nat /\ g \in Nat /\ g # 0 /\ g \notin 1..staged /\ g \in Gens
      /\ 1..g = 1..staged \cup {g}
  <2>1. staged \in 0..MaxGenerations /\ plan.generations \in 0..MaxGenerations
    BY LocalAssumption DEF Inv, TypeOK, LocalAssumption
  <2> QED
    BY <1>1, <2>1
<1>4. PICK t : /\ t = [s EXCEPT !.step = "swap", !.gen = g]
               /\ t \in Sync /\ t.step = "swap" /\ t.gen = g
               /\ t.id = s.id /\ t.version = s.version /\ t.project = s.project
               /\ t.old = s.old /\ t.replaced = s.replaced
  <2> DEFINE r == [s EXCEPT !.step = "swap"]
             t == [r EXCEPT !.gen = g]
  <2>1. /\ r \in Sync /\ r.id = s.id /\ r.version = s.version /\ r.project = s.project
        /\ r.step = "swap" /\ r.old = s.old /\ r.replaced = s.replaced
    BY <1>2 DEF Sync
  <2>2. t = [s EXCEPT !.step = "swap", !.gen = g]
    BY Zenon
  <2> HIDE DEF r
  <2>3. g \in OptGens
    BY <1>3
  <2>4. /\ t \in Sync /\ t.id = r.id /\ t.version = r.version /\ t.project = r.project
        /\ t.step = r.step /\ t.old = r.old /\ t.replaced = r.replaced /\ t.gen = g
    BY <2>1, <2>3 DEF Sync
  <2> QED
    BY <2>1, <2>2, <2>4
<1>5. t \in Process
  BY <1>4, SyncFields
<1>6. /\ proc' \in [Procs -> Process] /\ proc'[p] = t
      /\ \A q \in Procs : q # p => proc'[q] = proc[q]
  BY <1>1, <1>4, <1>5, Moved
<1>7. made \in [Gens -> Record \cup {Absent}]
  BY DEF Inv, TypeOK
<1>8. /\ made'[g] = Recorded(s)
      /\ \A h \in 1..staged : h \in Gens /\ made'[h] = made[h]
  BY <1>1, <1>3, <1>7, StagedGens DEF Inv
<1>9. /\ Recorded(s).id = s.id /\ Recorded(s).version = s.version
      /\ Recorded(s).project = s.project /\ Recorded(s).replaces = Replaces(s)
  BY DEF Recorded
<1>10. s.replaced # 0 => s.replaced \in 1..staged /\ made[s.replaced].id # s.id
                         /\ PathOf[made[s.replaced].id] = PathOf[s.id]
  BY <1>1, <1>2 DEF Knows
<1>11. s.old # 0 => s.old \in 1..staged
  BY <1>1, <1>2 DEF Knows, Made
<1>12. \A h \in 1..staged : made[h] \in Record
  BY DEF Inv, RecordsSound
<1>13. Recorded(s) \in Record
  <2>1. Replaces(s) \in Ids \cup {None}
    BY <1>10, <1>12 DEF Replaces, Record
  <2> QED
    BY <1>2, <2>1 DEF Recorded, Record
<1>14. made' \in [Gens -> Record \cup {Absent}]
  BY <1>1, <1>3, <1>7, <1>13
<1>0. /\ staged' = g /\ journal' = journal \cup {g}
      /\ UNCHANGED <<link, projection, owners, leaving, history, trust, pending>>
      /\ UNCHANGED <<holds, reviewed, robbed, overrun, disarmed, meddling>>
  BY <1>1 DEF ghosts
<1> HIDE DEF s, g
<1>15. TypeOK'
  <2>1. staged' \in OptGens /\ journal' \subseteq Gens
    BY <1>0, <1>3 DEF Inv, TypeOK
  <2> QED
    BY <1>0, <1>6, <1>14, <2>1 DEF Inv, TypeOK
<1>16. RecordsSound'
  BY <1>1, <1>3, <1>8, <1>9, <1>10, <1>13 DEF Inv, RecordsSound, Replaces
<1>17. References'
  <2>1. \A i \in Ids : /\ projection'[i] # 0 => Made(projection[i], i)'
                       /\ leaving'[i] # 0 => Made(leaving[i], i)'
    BY <1>1, <1>3, <1>8 DEF Inv, References, Made
  <2>2. \A path \in Paths : link'[path] \in Gens =>
          link'[path] \in 1..staged' /\ PathOf[made'[link'[path]].id] = path
    BY <1>1, <1>3, <1>8 DEF Inv, References
  <2>3. journal' \subseteq 1..staged' /\ history' \subseteq 1..staged' /\ disarmed' \subseteq 1..staged'
    BY <1>1, <1>3 DEF Inv, References, ghosts
  <2> QED
    BY <2>1, <2>2, <2>3 DEF References
<1>18. CommandsKnow'
  <2>1. ASSUME NEW q \in Procs, q # p PROVE Knows(proc[q])'
    <3>1. proc'[q] = proc[q] /\ Knows(proc[q])
      BY <1>6, <2>1 DEF Inv, CommandsKnow
    <3>2. \A r : Knows(r) => Knows(r)'
      BY <1>1, <1>3, <1>8 DEF Knows, Made, Recorded, Replaces
    <3> QED
      BY <3>1, <3>2
  <2>2. Knows(proc[p])'
    <3>1. Replaces(t)' = Replaces(s)
      BY <1>4, <1>8, <1>10 DEF Replaces
    <3>2. Recorded(t)' = Recorded(s)
      BY <1>4, <3>1 DEF Recorded
    <3>3. Knows(t)'
      BY <1>1, <1>2, <1>3, <1>4, <1>8, <3>2 DEF Knows, Made
    <3> QED
      BY <1>6, <3>3
  <2> QED
    BY <2>1, <2>2 DEF CommandsKnow
<1>19. /\ \A path \in Paths : link[path] # g
       /\ \A i \in Ids : projection[i] # g /\ leaving[i] # g
       /\ \A q \in Procs : proc[q].step \in {"swap", "finish"} => proc[q].gen # g
       /\ g \notin journal
  <2>1. /\ \A path \in Paths : link[path] # g
        /\ \A i \in Ids : projection[i] # g /\ leaving[i] # g
        /\ g \notin journal
    BY <1>3 DEF Inv, References, Made
  <2>2. \A q \in Procs : proc[q].step \in {"swap", "finish"} => proc[q].gen # g
    BY <1>3 DEF Inv, CommandsKnow, Knows
  <2> QED
    BY <2>1, <2>2
<1>20. SwapsFresh'
  <2>1. ASSUME NEW q \in Procs, proc'[q].step = "swap"
        PROVE  /\ Unseen(proc[q].gen)' /\ proc'[q].gen \in journal' \cup robbed'
               /\ \A r \in Procs \ {q} : proc'[r].step \in {"swap", "finish"} => proc'[r].gen # proc'[q].gen
    <3>1. CASE q = p
      BY <1>0, <1>4, <1>6, <1>19, <3>1 DEF Unseen
    <3>2. CASE q # p
      <4>1. proc'[q] = proc[q] /\ proc[q].step = "swap" /\ proc[q].gen # g
        BY <1>6, <1>19, <2>1, <3>2
      <4>2. /\ Unseen(proc[q].gen) /\ proc[q].gen \in journal \cup robbed
            /\ \A r \in Procs \ {q} : proc[r].step \in {"swap", "finish"} => proc[r].gen # proc[q].gen
        BY <4>1 DEF Inv, SwapsFresh
      <4>3. Unseen(proc[q].gen)'
        BY <1>0, <4>1, <4>2 DEF Unseen
      <4>4. \A r \in Procs \ {q} : proc'[r].step \in {"swap", "finish"} => proc'[r].gen # proc'[q].gen
        BY <1>4, <1>6, <4>1, <4>2
      <4> QED
        BY <1>0, <4>1, <4>2, <4>3, <4>4
    <3> QED
      BY <3>1, <3>2
  <2>2. ASSUME NEW h \in journal' PROVE Unused(h)'
    <3>1. \A i \in Ids : projection'[i] # h /\ leaving'[i] # h
      BY <1>0, <1>19 DEF Inv, SwapsFresh, Unused
    <3>2. ASSUME NEW q \in Procs, proc'[q].step = "finish" PROVE proc'[q].gen # h
      <4>1. proc'[q] = proc[q]
        BY <1>4, <1>6, <3>2
      <4> QED
        BY <1>0, <1>19, <3>2, <4>1 DEF Inv, SwapsFresh, Unused
    <3> QED
      BY <3>1, <3>2 DEF Unused
  <2> QED
    BY <2>1, <2>2 DEF SwapsFresh
<1>21. AllGranted'
  <2>1. \A i \in Ids : Granted(i)' = Granted(i)
    BY <1>1 DEF Granted, ghosts
  <2>2. Envelope[s.version] \subseteq Granted(s.id)
    BY <1>1 DEF Inv, AllGranted, s
  <2>3. \A h \in 1..staged : Envelope[made[h].version] \subseteq Granted(made[h].id) /\ made[h].id \in Ids
    BY <1>12 DEF Inv, AllGranted, Record
  <2>4. \A h \in 1..staged' : Envelope[made'[h].version] \subseteq Granted(made[h].id)'
    BY <1>1, <1>2, <1>3, <1>8, <1>9, <2>1, <2>2, <2>3
  <2>5. \A i \in Ids : trust'[i] # None => Envelope[trust'[i]] \subseteq Granted(i)'
    BY <1>1, <2>1 DEF Inv, AllGranted
  <2>6. \A q \in Procs : proc'[q].step = "stage" => Envelope[proc'[q].version] \subseteq Granted(proc[q].id)'
    BY <1>1, <1>4, <1>6 DEF Inv, AllGranted, Granted, ghosts
  <2> QED
    BY <2>4, <2>5, <2>6 DEF AllGranted
<1>22. RecordsOwned' /\ OneRecordPerPath'
  BY <1>1 DEF Inv, RecordsOwned, OneRecordPerPath, ghosts
<1>23. ShownAs'
  BY <1>1, <1>8 DEF Inv, References, Made, ShownAs, Shared, ghosts
<1>24. SwapsReconciled'
  BY <1>1, <1>8 DEF Inv, References, SwapsReconciled, ghosts
<1>25. \A i \in Ids : Disarmed(i) => Disarmed(i)'
  BY <1>1, <1>8 DEF Inv, References, Disarmed, ghosts
<1>26. RemovalsAnnounced'
  <2>1. ASSUME NEW q \in Procs, proc'[q].step = "finish"
        PROVE  LET i == made[proc[q].gen].id IN
               (projection[i] = proc[q].gen => leaving[i] = proc[q].gen \/ Disarmed(i))'
    <3>1. q # p /\ proc'[q] = proc[q]
      BY <1>4, <1>6, <2>1
    <3>2. proc[q].gen \in 1..staged /\ made'[proc[q].gen] = made[proc[q].gen]
      BY <1>8, <2>1, <3>1 DEF Inv, CommandsKnow, Knows
    <3>3. made[proc[q].gen].id \in Ids
      BY <1>12, <3>2 DEF Record
    <3> QED
      BY <1>1, <1>25, <2>1, <3>1, <3>2, <3>3 DEF Inv, RemovalsAnnounced
  <2>2. \A i \in Ids : leaving'[i] # 0 /\ projection'[i] = leaving'[i] =>
          Disarmed(i)' \/ \A h \in holds' : h[1] # i
    BY <1>1, <1>25 DEF Inv, RemovalsAnnounced, ghosts
  <2> QED
    BY <2>1, <2>2 DEF RemovalsAnnounced
<1>27. InstalledStays'
  BY <1>1, <1>8 DEF Inv, References, InstalledStays, ghosts
<1>28. RemovalsReady'
  BY <1>1 DEF Inv, RemovalsReady, Shared, ghosts
<1> QED
  BY <1>15, <1>16, <1>17, <1>18, <1>20, <1>21, <1>22, <1>23, <1>24, <1>26, <1>27, <1>28 DEF Inv

-----------------------------------------------------------------------------
(* The swap.                                                                *)

\* Who is recorded at the path of a swap that is allowed.
LEMMA SwapAffects ==
  ASSUME Inv, NEW p \in Procs, proc[p].step = "swap", SwapAllowed(proc[p]),
         NEW j \in Ids, PathOf[j] = PathOf[proc[p].id], projection[j] # 0,
         PathOf[j] \notin overrun, Existing(proc[p]) # 0
  PROVE  /\ projection[j] = Existing(proc[p]) /\ made[Existing(proc[p])].id = j /\ leaving[j] = 0
         /\ j = proc[p].id => /\ proc[p].old # 0
                              /\ Shared(j) => made[proc[p].old].version = proc[p].version
         /\ j # proc[p].id => /\ proc[p].old = 0 /\ proc[p].replaced # 0
                              /\ j = made[proc[p].replaced].id /\ ~Shared(j)
<1> USE Constants
<1> DEFINE s == proc[p]
           e == Existing(s)
<1>1. /\ Knows(s) /\ s.id \in Ids /\ s.old \in OptGens /\ s.replaced \in OptGens
  BY SyncNotes DEF SyncSteps
<1>2. /\ s.old # 0 => Made(s.old, s.id)
      /\ s.replaced # 0 => /\ s.old = 0 /\ s.replaced \in 1..staged
                           /\ made[s.replaced].id # s.id
                           /\ PathOf[made[s.replaced].id] = PathOf[s.id]
  BY <1>1 DEF Knows
<1>3. e # 0 /\ Current(e)
  BY DEF SwapAllowed
<1>4. e \in 1..staged /\ made[e].id \in Ids /\ PathOf[made[e].id] = PathOf[s.id]
  BY <1>1, <1>2, <1>3 DEF Existing, Made, Inv, RecordsSound, Record
<1>5. leaving[made[e].id] = 0 /\ projection[made[e].id] = e
  BY <1>3 DEF Current
<1>6. made[e].id = j
  BY <1>3, <1>4, <1>5 DEF Inv, OneRecordPerPath
<1>7. ASSUME NEW g, SoleOwner(g, s.project), made[g].id = j PROVE ~Shared(j)
  BY <1>7 DEF SoleOwner, Shared
<1>8. ASSUME j = s.id
      PROVE  s.old # 0 /\ (Shared(j) => made[s.old].version = s.version)
  <2>1. s.old # 0 /\ s.replaced = 0 /\ e = s.old
    BY <1>2, <1>3, <1>6, <1>8 DEF Existing
  <2>2. ASSUME Shared(j) PROVE made[s.old].version = s.version
    <3>1. Changing(s) = 0
      <4> SUFFICES ASSUME Changing(s) # 0 PROVE FALSE
        OBVIOUS
      <4>1. Changing(s) = s.old
        BY <2>1 DEF Changing
      <4>2. SoleOwner(s.old, s.project)
        BY <4>1 DEF SwapAllowed
      <4> QED
        BY <1>6, <1>7, <2>1, <2>2, <4>2
    <3> QED
      BY <2>1, <3>1 DEF Changing, SameState
  <2> QED
    BY <2>1, <2>2
<1>9. ASSUME j # s.id
      PROVE  s.old = 0 /\ s.replaced # 0 /\ j = made[s.replaced].id /\ ~Shared(j)
  <2>1. s.old = 0
    BY <1>2, <1>6, <1>9 DEF Existing, Made
  <2>2. s.replaced # 0 /\ e = s.replaced /\ Changing(s) = s.replaced
    BY <1>3, <2>1 DEF Existing, Changing
  <2>3. SoleOwner(s.replaced, s.project)
    BY <2>2 DEF SwapAllowed
  <2> QED
    BY <1>6, <1>7, <2>1, <2>2, <2>3
<1> QED
  BY <1>3, <1>5, <1>6, <1>8, <1>9

\* What both ways of the swap have in common.
LEMMA SwapFacts ==
  ASSUME Inv, NEW p \in Procs, proc[p].step = "swap", Rename(proc[p])
  PROVE  /\ proc[p].id \in Ids /\ proc[p].version \in Versions /\ proc[p].project \in Projects
         /\ proc[p].old \in OptGens
         /\ proc[p].gen \in 1..staged /\ proc[p].gen \in Gens /\ proc[p].gen # 0
         /\ made[proc[p].gen].id = proc[p].id /\ made[proc[p].gen].version = proc[p].version
         /\ made[proc[p].gen].replaces \in Ids \cup {None}
         /\ proc[p].replaced = 0 => made[proc[p].gen].replaces = None
         /\ proc[p].replaced # 0 => made[proc[p].gen].replaces = made[proc[p].replaced].id
         /\ made[proc[p].gen].replaces # proc[p].id
         /\ made[proc[p].gen].replaces # None =>
              PathOf[made[proc[p].gen].replaces] = PathOf[proc[p].id]
         /\ link \in [Paths -> OptGens \cup {Foreign}] /\ link' \in [Paths -> OptGens \cup {Foreign}]
         /\ link'[PathOf[proc[p].id]] = proc[p].gen
         /\ \A path \in Paths : path # PathOf[proc[p].id] => link'[path] = link[path]
         /\ overrun \subseteq overrun' /\ overrun' \subseteq Paths
         /\ \A i \in Ids : PathOf[i] = PathOf[proc[p].id] /\ projection[i] # 0
                           /\ PathOf[i] \notin overrun' => Existing(proc[p]) # 0
<1> USE Constants
<1> DEFINE s == proc[p]
<1>1. /\ Knows(s) /\ s.id \in Ids /\ s.version \in Versions /\ s.project \in Projects
      /\ s.old \in OptGens
  BY SyncNotes DEF SyncSteps
<1>2. /\ s.gen \in 1..staged /\ made[s.gen] = Recorded(s)
      /\ s.gen \in Gens /\ s.gen # 0
  BY <1>1, StagedGens DEF Inv, Knows
<1>3. /\ made[s.gen].id = s.id /\ made[s.gen].version = s.version
      /\ made[s.gen].replaces = Replaces(s)
  BY <1>2 DEF Recorded
<1>4. /\ s.replaced = 0 => made[s.gen].replaces = None
      /\ s.replaced # 0 => made[s.gen].replaces = made[s.replaced].id
  BY <1>3 DEF Replaces
<1>5. /\ made[s.gen].replaces \in Ids \cup {None} /\ made[s.gen].replaces # s.id
      /\ made[s.gen].replaces # None => PathOf[made[s.gen].replaces] = PathOf[s.id]
  BY <1>1, <1>2, <1>3 DEF Inv, RecordsSound, Record
<1>6. /\ link \in [Paths -> OptGens \cup {Foreign}] /\ overrun \subseteq Paths
      /\ PathOf[s.id] \in Paths
  BY <1>1 DEF Inv, TypeOK
<1>7. /\ link' = [link EXCEPT ![PathOf[s.id]] = s.gen]
      /\ overrun' = overrun \cup
           {path \in {PathOf[s.id]} : Existing(s) = 0
                                     /\ \E i \in Ids : PathOf[i] = path /\ projection[i] # 0}
  BY DEF Rename
<1> HIDE DEF s
<1>8. s.gen \in OptGens
  BY <1>2
<1>9. /\ link' \in [Paths -> OptGens \cup {Foreign}] /\ link'[PathOf[s.id]] = s.gen
      /\ \A path \in Paths : path # PathOf[s.id] => link'[path] = link[path]
  BY <1>6, <1>7, <1>8
<1>10. /\ overrun \subseteq overrun' /\ overrun' \subseteq Paths
       /\ \A i \in Ids : PathOf[i] = PathOf[s.id] /\ projection[i] # 0
                         /\ PathOf[i] \notin overrun' => Existing(s) # 0
  BY <1>6, <1>7
<1> QED
  BY <1>1, <1>2, <1>3, <1>4, <1>5, <1>6, <1>9, <1>10 DEF s

LEMMA SyncSwapCutHolds ==
  ASSUME Inv, NEW p \in Procs, SyncSwapCut(p), UNCHANGED plan
  PROVE  Inv'
<1> USE Constants
<1> DEFINE s == proc[p]
<1>1. /\ s.step = "swap" /\ SwapAllowed(s) /\ Rename(s) /\ Goto(p, Idle)
      /\ UNCHANGED <<made, staged, store, holds, reviewed, robbed, disarmed, meddling>>
  BY DEF SyncSwapCut
<1>2. UNCHANGED <<projection, owners, journal, leaving, history, trust, pending>>
  BY <1>1 DEF store
<1>3. /\ proc' \in [Procs -> Process] /\ proc'[p].step = "idle"
      /\ \A q \in Procs : q # p => proc'[q] = proc[q]
      /\ RecordsSound' /\ CommandsKnow' /\ AllGranted'
  BY <1>1, <1>2, Stopped
<1>4. /\ s.id \in Ids /\ s.gen \in 1..staged /\ s.gen \in Gens /\ s.gen # 0
      /\ made[s.gen].id = s.id /\ made[s.gen].version = s.version
      /\ s.replaced # 0 => made[s.gen].replaces = made[s.replaced].id
      /\ link \in [Paths -> OptGens \cup {Foreign}] /\ link' \in [Paths -> OptGens \cup {Foreign}]
      /\ link'[PathOf[s.id]] = s.gen
      /\ \A path \in Paths : path # PathOf[s.id] => link'[path] = link[path]
      /\ overrun \subseteq overrun' /\ overrun' \subseteq Paths
  BY <1>1, SwapFacts
<1>5. ASSUME NEW j \in Ids, PathOf[j] = PathOf[s.id], projection[j] # 0, PathOf[j] \notin overrun'
      PROVE  /\ leaving[j] = 0
             /\ j = s.id => s.old # 0 /\ projection[j] = s.old
                            /\ (Shared(j) => made[s.old].version = s.version)
             /\ j # s.id => j = made[s.gen].replaces /\ ~Shared(j)
  <2>1. Existing(s) # 0 /\ PathOf[j] \notin overrun
    BY <1>1, <1>4, <1>5, SwapFacts
  <2> QED
    BY <1>1, <1>4, <1>5, <2>1, SwapAffects DEF Existing
<1>6. Unseen(s.gen) /\ s.gen \in journal \cup robbed
  BY <1>1 DEF Inv, SwapsFresh
<1>7. \A q \in Procs \ {p} : proc[q].step \in {"swap", "finish"} => proc[q].gen # s.gen
  BY <1>1 DEF Inv, SwapsFresh
<1> HIDE DEF s
<1>8. TypeOK'
  BY <1>1, <1>2, <1>3, <1>4 DEF Inv, TypeOK
<1>9. References'
  <2>1. \A path \in Paths : link'[path] \in Gens =>
          link'[path] \in 1..staged' /\ PathOf[made'[link'[path]].id] = path
    BY <1>1, <1>4 DEF Inv, References
  <2> QED
    BY <1>1, <1>2, <2>1 DEF Inv, References, Made
<1>10. SwapsFresh'
  <2>1. ASSUME NEW q \in Procs, proc'[q].step = "swap"
        PROVE  /\ Unseen(proc[q].gen)' /\ proc'[q].gen \in journal' \cup robbed'
               /\ \A r \in Procs \ {q} : proc'[r].step \in {"swap", "finish"} => proc'[r].gen # proc'[q].gen
    <3>1. q # p /\ proc'[q] = proc[q] /\ proc[q].gen # s.gen
      BY <1>3, <1>7, <2>1
    <3>2. Unseen(proc[q].gen) /\ proc[q].gen \in journal \cup robbed
      BY <2>1, <3>1 DEF Inv, SwapsFresh
    <3>3. Unseen(proc[q].gen)'
      BY <1>2, <1>4, <3>1, <3>2 DEF Unseen
    <3>4. \A r \in Procs \ {q} : proc[r].step \in {"swap", "finish"} => proc[r].gen # proc[q].gen
      BY <2>1, <3>1 DEF Inv, SwapsFresh
    <3>5. \A r \in Procs \ {q} : proc'[r].step \in {"swap", "finish"} => proc'[r].gen # proc'[q].gen
      BY <1>3, <3>1, <3>4
    <3> QED
      BY <1>1, <1>2, <3>1, <3>2, <3>3, <3>5
  <2>2. \A h \in journal' : Unused(h)'
    BY <1>2, <1>3 DEF Inv, SwapsFresh, Unused
  <2> QED
    BY <2>1, <2>2 DEF SwapsFresh
<1>11. RecordsOwned' /\ OneRecordPerPath'
  BY <1>2, <1>4 DEF Inv, RecordsOwned, OneRecordPerPath
<1>12. ShownAs'
  <2>1. ASSUME NEW i \in Ids, projection'[i] # 0, link'[PathOf[i]] \in Gens, PathOf[i] \notin overrun'
        PROVE  /\ i = made'[link'[PathOf[i]]].id \/ i = made'[link'[PathOf[i]]].replaces
               /\ Shared(i)' => /\ i = made'[link'[PathOf[i]]].id
                                /\ made'[projection'[i]].version = made'[link'[PathOf[i]]].version
    <3>1. CASE PathOf[i] = PathOf[s.id]
      <4>1. /\ i = s.id => projection[i] = s.old /\ (Shared(i) => made[s.old].version = s.version)
            /\ i # s.id => i = made[s.gen].replaces /\ ~Shared(i)
        BY <1>2, <1>5, <2>1, <3>1
      <4>2. Shared(i)' <=> Shared(i)
        BY <1>2 DEF Shared
      <4> QED
        BY <1>1, <1>2, <1>4, <3>1, <4>1, <4>2
    <3>2. CASE PathOf[i] # PathOf[s.id]
      <4>1. PathOf[i] \in Paths /\ link'[PathOf[i]] = link[PathOf[i]] /\ PathOf[i] \notin overrun
        BY <1>4, <2>1, <3>2
      <4> QED
        BY <1>1, <1>2, <2>1, <4>1 DEF Inv, ShownAs, Shared
    <3> QED
      BY <3>1, <3>2
  <2> QED
    BY <2>1 DEF ShownAs
<1>13. SwapsReconciled'
  BY <1>1, <1>2, <1>4, <1>6 DEF Inv, SwapsReconciled
<1>14. RemovalsAnnounced'
  BY <1>1, <1>2, <1>3 DEF Inv, RemovalsAnnounced, Disarmed
<1>15. InstalledStays'
  BY <1>1, <1>2 DEF Inv, InstalledStays
<1>16. RemovalsReady'
  <2>1. ASSUME NEW i \in Ids, leaving[i] # 0, PathOf[i] \notin overrun'
        PROVE  projection[i] = leaving[i] /\ link'[PathOf[i]] \in {0, leaving[i], Foreign} /\ ~Shared(i)
    <3>1. PathOf[i] \notin overrun
      BY <1>4, <2>1
    <3>2. projection[i] = leaving[i] /\ link[PathOf[i]] \in {0, leaving[i], Foreign} /\ ~Shared(i)
      BY <2>1, <3>1 DEF Inv, RemovalsReady
    <3>3. PathOf[i] # PathOf[s.id]
      BY <1>5, <2>1, <3>2
    <3> QED
      BY <1>4, <3>2, <3>3
  <2> QED
    BY <1>2, <2>1 DEF RemovalsReady, Shared
<1> QED
  BY <1>3, <1>8, <1>9, <1>10, <1>11, <1>12, <1>13, <1>14, <1>15, <1>16 DEF Inv

LEMMA SyncSwapHolds ==
  ASSUME Inv, NEW p \in Procs, SyncSwap(p), UNCHANGED plan
  PROVE  Inv'
<1> USE Constants
<1> DEFINE s == proc[p]
           gone == made[s.gen].replaces
<1>1. CASE SwapAllowed(s)
  <2>1. /\ s.step = "swap"
        /\ Rename(s)
        /\ history' = history \cup ({s.old} \ {0})
        /\ projection' = [i \in Ids |-> IF i = s.id THEN s.gen ELSE IF i = gone THEN 0 ELSE projection[i]]
        /\ owners' = Remember(owners, s.id, s.project, gone)
        /\ journal' = journal \ {s.gen}
        /\ pending' = [pending EXCEPT ![s.id] = None]
        /\ holds' = {h \in holds : h[1] # gone} \cup {<<s.id, s.project>>}
        /\ Goto(p, Idle)
        /\ UNCHANGED <<made, staged, leaving, trust, reviewed, robbed, disarmed, meddling>>
    BY <1>1 DEF SyncSwap
  <2>2. /\ proc' \in [Procs -> Process] /\ proc'[p].step = "idle"
        /\ \A q \in Procs : q # p => proc'[q] = proc[q]
        /\ RecordsSound' /\ CommandsKnow' /\ AllGranted'
    BY <2>1, Stopped
  <2>3. /\ s.id \in Ids /\ s.project \in Projects /\ s.old \in OptGens
        /\ s.gen \in 1..staged /\ s.gen \in Gens /\ s.gen # 0
        /\ made[s.gen].id = s.id /\ made[s.gen].version = s.version
        /\ gone \in Ids \cup {None} /\ gone # s.id
        /\ gone # None => PathOf[gone] = PathOf[s.id]
        /\ s.replaced # 0 => gone = made[s.replaced].id
        /\ link \in [Paths -> OptGens \cup {Foreign}] /\ link' \in [Paths -> OptGens \cup {Foreign}]
        /\ link'[PathOf[s.id]] = s.gen
        /\ \A path \in Paths : path # PathOf[s.id] => link'[path] = link[path]
        /\ overrun \subseteq overrun' /\ overrun' \subseteq Paths
    BY <2>1, SwapFacts
  <2>4. s.old # 0 => s.old \in 1..staged
    BY <2>1, SyncNotes DEF SyncSteps, Knows, Made
  <2>5. ASSUME NEW j \in Ids, PathOf[j] = PathOf[s.id], projection[j] # 0, PathOf[j] \notin overrun'
        PROVE  leaving[j] = 0 /\ (j # s.id => j = gone)
    <3>1. Existing(s) # 0 /\ PathOf[j] \notin overrun
      BY <2>1, <2>3, <2>5, SwapFacts
    <3> QED
      BY <1>1, <2>1, <2>3, <2>5, <3>1, SwapAffects
  <2>6. Unseen(s.gen)
    BY <2>1 DEF Inv, SwapsFresh
  <2>7. \A q \in Procs \ {p} : proc[q].step \in {"swap", "finish"} => proc[q].gen # s.gen
    BY <2>1 DEF Inv, SwapsFresh
  <2>8. projection \in [Ids -> OptGens] /\ owners \in [Ids -> SUBSET Projects]
        /\ pending \in [Ids -> Versions \cup {None}] /\ holds \subseteq Ids \X Projects
        /\ journal \subseteq Gens /\ history \subseteq Gens
    BY DEF Inv, TypeOK
  <2>9. \A g \in journal : Unused(g)
    BY DEF Inv, SwapsFresh
  <2> HIDE DEF s, gone
  <2>10. \A i \in Ids : /\ projection'[i] = IF i = s.id THEN s.gen ELSE IF i = gone THEN 0 ELSE projection[i]
                        /\ owners'[i] = IF i = gone THEN {}
                                        ELSE IF i = s.id THEN owners[i] \cup {s.project} ELSE owners[i]
    BY <2>1 DEF Remember
  <2>11. projection' \in [Ids -> OptGens]
    BY <2>1, <2>3, <2>8
  <2>12. owners' \in [Ids -> SUBSET Projects]
    BY <2>1, <2>3, <2>8 DEF Remember
  <2>13. TypeOK'
    <3>0. history' \subseteq Gens
      BY <2>1, <2>4, <2>8, StagedGens DEF Inv
    <3>1. journal' \subseteq Gens
      BY <2>1, <2>8
    <3>3. holds' \subseteq Ids \X Projects
      <4>1. <<s.id, s.project>> \in Ids \X Projects
        BY <2>3
      <4>2. {h \in holds : h[1] # gone} \subseteq Ids \X Projects
        BY <2>8
      <4> HIDE <2>10
      <4> QED
        BY <2>1, <4>1, <4>2
    <3>2. pending' \in [Ids -> Versions \cup {None}]
      BY <2>1, <2>8
    <3> QED
      BY <2>1, <2>2, <2>3, <2>11, <2>12, <3>0, <3>1, <3>2, <3>3 DEF Inv, TypeOK
  <2>14. References'
    <3>1. \A path \in Paths : link'[path] \in Gens =>
            link'[path] \in 1..staged' /\ PathOf[made'[link'[path]].id] = path
      BY <2>1, <2>3 DEF Inv, References
    <3>2. \A i \in Ids : /\ projection'[i] # 0 => Made(projection[i], i)'
                         /\ leaving'[i] # 0 => Made(leaving[i], i)'
      BY <2>1, <2>3, <2>10 DEF Inv, References, Made
    <3>3. journal' \subseteq 1..staged' /\ history' \subseteq 1..staged' /\ disarmed' \subseteq 1..staged'
      BY <2>1, <2>4 DEF Inv, References
    <3> QED
      BY <3>1, <3>2, <3>3 DEF References
  <2>15. SwapsFresh'
    <3>1. ASSUME NEW q \in Procs, proc'[q].step = "swap"
          PROVE  /\ Unseen(proc[q].gen)' /\ proc'[q].gen \in journal' \cup robbed'
                 /\ \A r \in Procs \ {q} : proc'[r].step \in {"swap", "finish"} => proc'[r].gen # proc'[q].gen
      <4>1. q # p /\ proc'[q] = proc[q] /\ proc[q].gen # s.gen
        BY <2>2, <2>7, <3>1
      <4>2. Unseen(proc[q].gen) /\ proc[q].gen \in journal \cup robbed
        BY <3>1, <4>1 DEF Inv, SwapsFresh
      <4>3. proc[q].gen # 0
        BY <3>1, <4>1, StagedGens DEF Inv, CommandsKnow, Knows
      <4>4. Unseen(proc[q].gen)'
        BY <2>1, <2>3, <2>10, <4>1, <4>2, <4>3 DEF Unseen
      <4>5. \A r \in Procs \ {q} : proc[r].step \in {"swap", "finish"} => proc[r].gen # proc[q].gen
        BY <3>1, <4>1 DEF Inv, SwapsFresh
      <4>6. \A r \in Procs \ {q} : proc'[r].step \in {"swap", "finish"} => proc'[r].gen # proc'[q].gen
        BY <2>2, <4>1, <4>5
      <4> QED
        BY <2>1, <4>1, <4>2, <4>4, <4>6
    <3>2. ASSUME NEW h \in journal' PROVE Unused(h)'
      <4>1. h \in journal /\ h # s.gen /\ h # 0
        BY <2>1, <2>8, <3>2
      <4>2. Unused(h)
        BY <2>9, <4>1
      <4> QED
        BY <2>1, <2>2, <2>10, <4>1, <4>2 DEF Unused
    <3> QED
      BY <3>1, <3>2 DEF SwapsFresh
  <2>16. RecordsOwned'
    BY <2>3, <2>10 DEF Inv, RecordsOwned
  <2>17. \A j \in Ids : PathOf[j] = PathOf[s.id] /\ projection'[j] # 0 /\ PathOf[j] \notin overrun' => j = s.id
    BY <2>5, <2>10
  <2>18. OneRecordPerPath'
    <3>1. ASSUME NEW i \in Ids, NEW j \in Ids, i # j, PathOf[i] = PathOf[j], PathOf[i] \notin overrun',
                 projection'[i] # 0, projection'[j] # 0
          PROVE  FALSE
      <4>1. PathOf[i] # PathOf[s.id]
        BY <2>17, <3>1
      <4>2. i # s.id /\ j # s.id /\ i # gone /\ j # gone /\ PathOf[i] \notin overrun
        BY <2>3, <3>1, <4>1
      <4> QED
        BY <2>10, <3>1, <4>2 DEF Inv, OneRecordPerPath
    <3> QED
      BY <3>1 DEF OneRecordPerPath
  <2>19. ASSUME NEW i \in Ids, PathOf[i] # PathOf[s.id]
         PROVE  /\ projection'[i] = projection[i] /\ owners'[i] = owners[i]
                /\ link'[PathOf[i]] = link[PathOf[i]] /\ PathOf[i] \in Paths
    BY <2>3, <2>10, <2>19
  <2>20. ShownAs'
    <3>1. ASSUME NEW i \in Ids, projection'[i] # 0, link'[PathOf[i]] \in Gens, PathOf[i] \notin overrun'
          PROVE  /\ i = made'[link'[PathOf[i]]].id \/ i = made'[link'[PathOf[i]]].replaces
                 /\ Shared(i)' => /\ i = made'[link'[PathOf[i]]].id
                                  /\ made'[projection'[i]].version = made'[link'[PathOf[i]]].version
      <4>1. CASE PathOf[i] = PathOf[s.id]
        BY <2>1, <2>3, <2>10, <2>17, <3>1, <4>1
      <4>2. CASE PathOf[i] # PathOf[s.id]
        <5>1. PathOf[i] \notin overrun /\ (Shared(i)' <=> Shared(i))
          BY <2>3, <2>19, <3>1, <4>2 DEF Shared
        <5> QED
          BY <2>1, <2>19, <3>1, <4>2, <5>1 DEF Inv, ShownAs
      <4> QED
        BY <4>1, <4>2
    <3> QED
      BY <3>1 DEF ShownAs
  <2>21. SwapsReconciled'
    <3>1. ASSUME NEW path \in Paths, link'[path] \in Gens
          PROVE  LET g == link'[path] IN projection'[made'[g].id] = g \/ g \in journal' \cup robbed'
      <4>1. CASE path = PathOf[s.id]
        BY <2>1, <2>3, <2>10, <4>1
      <4>2. CASE path # PathOf[s.id]
        <5>1. /\ link'[path] = link[path] /\ link[path] # s.gen
              /\ made[link[path]].id \in Ids /\ PathOf[made[link[path]].id] = path
          BY <2>1, <2>3, <2>6, <3>1, <4>2 DEF Inv, References, RecordsSound, Record, Unseen
        <5>2. projection[made[link[path]].id] = link[path] \/ link[path] \in journal \cup robbed
          BY <3>1, <5>1 DEF Inv, SwapsReconciled
        <5> QED
          BY <2>1, <2>19, <4>2, <5>1, <5>2
      <4> QED
        BY <4>1, <4>2
    <3> QED
      BY <3>1 DEF SwapsReconciled
  <2>22. RemovalsAnnounced'
    <3>1. ASSUME NEW q \in Procs, proc'[q].step = "finish"
          PROVE  LET i == made[proc[q].gen].id IN
                 (projection[i] = proc[q].gen => leaving[i] = proc[q].gen \/ Disarmed(i))'
      <4>1. q # p /\ proc'[q] = proc[q] /\ proc[q].gen # s.gen
        BY <2>2, <2>7, <3>1
      <4>2. proc[q].gen \in 1..staged /\ proc[q].gen # 0 /\ made[proc[q].gen].id \in Ids
        BY <3>1, <4>1, StagedGens DEF Inv, CommandsKnow, Knows, RecordsSound, Record
      <4> QED
        BY <2>1, <2>10, <3>1, <4>1, <4>2 DEF Inv, RemovalsAnnounced, Disarmed
    <3>2. ASSUME NEW i \in Ids, leaving'[i] # 0, projection'[i] = leaving'[i]
          PROVE  Disarmed(i)' \/ \A h \in holds' : h[1] # i
      <4>1. i # s.id
        BY <2>1, <2>6, <2>10, <3>2 DEF Unseen
      <4>2. projection[i] = leaving[i] /\ leaving[i] # 0
        BY <2>1, <2>10, <3>2, <4>1
      <4> QED
        BY <2>1, <4>1, <4>2 DEF Inv, RemovalsAnnounced, Disarmed
    <3> QED
      BY <3>1, <3>2 DEF RemovalsAnnounced
  <2>23. InstalledStays'
    <3>1. ASSUME NEW h \in holds'
          PROVE  \/ projection'[h[1]] # 0 /\ h[2] \in owners'[h[1]]
                 \/ \E g \in disarmed' : made'[g].id = h[1]
      <4>1. CASE h = <<s.id, s.project>>
        BY <2>3, <2>10, <4>1
      <4>2. CASE h # <<s.id, s.project>>
        <5>1. h \in holds /\ h[1] # gone /\ h[1] \in Ids
          BY <2>1, <2>8, <3>1, <4>2
        <5>2. \/ projection[h[1]] # 0 /\ h[2] \in owners[h[1]]
              \/ \E g \in disarmed : made[g].id = h[1]
          BY <5>1 DEF Inv, InstalledStays
        <5> QED
          BY <2>1, <2>3, <2>10, <5>1, <5>2
      <4> QED
        BY <4>1, <4>2
    <3> QED
      BY <3>1 DEF InstalledStays
  <2>24. RemovalsReady'
    <3>1. ASSUME NEW i \in Ids, leaving'[i] # 0, PathOf[i] \notin overrun'
          PROVE  projection'[i] = leaving'[i] /\ link'[PathOf[i]] \in {0, leaving'[i], Foreign} /\ ~Shared(i)'
      <4>1. PathOf[i] \notin overrun /\ leaving[i] # 0
        BY <2>1, <2>3, <3>1
      <4>2. projection[i] = leaving[i] /\ link[PathOf[i]] \in {0, leaving[i], Foreign} /\ ~Shared(i)
        BY <4>1 DEF Inv, RemovalsReady
      <4>3. PathOf[i] # PathOf[s.id]
        BY <2>5, <3>1, <4>1, <4>2
      <4> QED
        BY <2>1, <2>19, <4>2, <4>3 DEF Shared
    <3> QED
      BY <3>1 DEF RemovalsReady
  <2> QED
    BY <2>2, <2>13, <2>14, <2>15, <2>16, <2>18, <2>20, <2>21, <2>22, <2>23, <2>24 DEF Inv
<1>2. CASE ~SwapAllowed(s)
  BY <1>2, EndHolds DEF SyncSwap, Throw
<1> QED
  BY <1>1, <1>2

-----------------------------------------------------------------------------
(* recover.                                                                 *)

LEMMA RecoverReadHolds ==
  ASSUME Inv, NEW p \in Procs, RecoverRead(p), UNCHANGED plan
  PROVE  Inv'
<1> USE Constants
<1>1. PICK id \in Ids : leaving[id] # 0 /\ Goto(p, [step |-> "finish", gen |-> leaving[id]])
  BY DEF RecoverRead
<1>2. /\ UNCHANGED <<link, made, staged>>
      /\ UNCHANGED <<projection, owners, journal, leaving, history, trust, pending>>
      /\ UNCHANGED <<holds, reviewed, robbed, overrun, disarmed, meddling>>
  BY DEF RecoverRead, disk, store, ghosts
<1>3. leaving[id] \in 1..staged /\ leaving[id] \in Gens /\ made[leaving[id]].id = id
  BY <1>1, StagedGens DEF Inv, References, Made
<1>4. PICK s \in Process : s.step = "finish" /\ s.gen = leaving[id] /\ Goto(p, s)
  <2> DEFINE s == [step |-> "finish", gen |-> leaving[id]]
  <2>1. s \in Process /\ s.step = "finish" /\ s.gen = leaving[id]
    BY <1>3 DEF Process
  <2> QED
    BY <1>1, <2>1
<1>5. /\ proc' \in [Procs -> Process] /\ proc'[p] = s
      /\ \A q \in Procs : q # p => proc'[q] = proc[q]
  BY <1>4, Moved
<1>6. TypeOK'
  BY <1>2, <1>5 DEF Inv, TypeOK
<1>7. RecordsSound' /\ References'
  BY <1>2 DEF Inv, RecordsSound, References, Made
<1>8. CommandsKnow'
  <2>1. \A t : Knows(t)' <=> Knows(t)
    BY <1>2 DEF Knows, Recorded, Replaces, Made
  <2>2. Knows(s)
    BY <1>3, <1>4 DEF Knows
  <2> QED
    BY <1>5, <2>1, <2>2 DEF Inv, CommandsKnow
<1>9. SwapsFresh'
  <2>1. ASSUME NEW q \in Procs, proc'[q].step = "swap"
        PROVE  /\ Unseen(proc[q].gen)' /\ proc'[q].gen \in journal' \cup robbed'
               /\ \A r \in Procs \ {q} : proc'[r].step \in {"swap", "finish"} => proc'[r].gen # proc'[q].gen
    <3>1. q # p /\ proc'[q] = proc[q]
      BY <1>4, <1>5, <2>1
    <3>2. /\ Unseen(proc[q].gen) /\ proc[q].gen \in journal \cup robbed
          /\ \A r \in Procs \ {q} : proc[r].step \in {"swap", "finish"} => proc[r].gen # proc[q].gen
      BY <2>1, <3>1 DEF Inv, SwapsFresh
    <3>3. Unseen(proc[q].gen)' /\ s.gen # proc[q].gen
      BY <1>2, <1>4, <3>1, <3>2 DEF Unseen
    <3> QED
      BY <1>2, <1>5, <3>1, <3>2, <3>3
  <2>2. ASSUME NEW h \in journal' PROVE Unused(h)'
    <3>1. Unused(h) /\ s.gen # h
      BY <1>2, <1>4 DEF Inv, SwapsFresh, Unused
    <3> QED
      BY <1>2, <1>5, <3>1 DEF Unused
  <2> QED
    BY <2>1, <2>2 DEF SwapsFresh
<1>10. AllGranted'
  BY <1>2, <1>4, <1>5 DEF Inv, AllGranted, Granted
<1>11. RecordsOwned' /\ OneRecordPerPath' /\ ShownAs' /\ SwapsReconciled'
  BY <1>2 DEF Inv, RecordsOwned, OneRecordPerPath, ShownAs, Shared, SwapsReconciled
<1>12. RemovalsAnnounced'
  BY <1>2, <1>3, <1>4, <1>5 DEF Inv, RemovalsAnnounced, Disarmed
<1>13. InstalledStays' /\ RemovalsReady'
  BY <1>2 DEF Inv, InstalledStays, RemovalsReady, Shared
<1> QED
  BY <1>6, <1>7, <1>8, <1>9, <1>10, <1>11, <1>12, <1>13 DEF Inv

\* A recovery adopts for an id the generation its path shows, drops what such a generation
\* replaced, or leaves the id alone.
AdoptedBy(i, g) ==
  /\ made[g].id = i /\ projection'[i] = g /\ owners'[i] = owners[i] \cup {made[g].project}
DroppedFor(i, g) ==
  /\ made[g].replaces = i /\ projection'[i] = 0 /\ owners'[i] = {}
  /\ \A h \in holds' : h[1] # i
LeftAlone(i) ==
  /\ projection'[i] = projection[i] /\ owners'[i] = owners[i]
  /\ \A g \in Reached : made[g].id # i /\ made[g].replaces # i

LEMMA ReachedFacts ==
  ASSUME Inv, NEW g \in Reached
  PROVE  /\ g \in journal /\ g \in 1..staged /\ g \in Gens /\ g # 0
         /\ made[g].id \in Ids /\ made[g].project \in Projects /\ link[PathOf[made[g].id]] = g
         /\ made[g].replaces # made[g].id
         /\ \A i \in Ids : made[g].id = i \/ made[g].replaces = i => link[PathOf[i]] = g
<1>1. g \in journal /\ link[PathOf[made[g].id]] = g
  BY DEF Reached, LinkOf
<1>2. g \in 1..staged /\ g \in Gens /\ g # 0
  BY <1>1, StagedGens DEF Inv, References
<1>3. made[g] \in Record /\ (made[g].replaces # None =>
        made[g].replaces # made[g].id /\ PathOf[made[g].replaces] = PathOf[made[g].id])
  BY <1>2 DEF Inv, RecordsSound
<1>4. made[g].id \in Ids /\ made[g].project \in Projects
  BY <1>3 DEF Record
<1> QED
  BY <1>1, <1>2, <1>3, <1>4, Constants

LEMMA RecoverEffect ==
  ASSUME Inv, NEW p \in Procs, RecoverJournal(p), NEW i \in Ids
  PROVE  \/ \E g \in Reached : AdoptedBy(i, g) /\ link[PathOf[i]] = g
         \/ \E g \in Reached : DroppedFor(i, g) /\ link[PathOf[i]] = g
         \/ LeftAlone(i)
<1> DEFINE adopts == {g \in Reached : made[g].id = i}
           replaces == {g \in Reached : made[g].replaces = i}
<1>1. /\ projection'[i] = IF adopts # {} THEN CHOOSE g \in adopts : TRUE
                          ELSE IF replaces # {} THEN 0 ELSE projection[i]
      /\ owners'[i] = IF replaces # {} THEN {}
                      ELSE owners[i] \cup {made[g].project : g \in adopts}
  BY DEF RecoverJournal
<1>2. holds' = {h \in holds : {g \in Reached : made[g].replaces = h[1]} = {}}
  BY DEF RecoverJournal
<1>3. \A g \in adopts \cup replaces : g \in Reached /\ link[PathOf[i]] = g
  BY ReachedFacts
<1>4. \A g \in adopts, k \in replaces : FALSE
  <2> SUFFICES ASSUME NEW g \in adopts, NEW k \in replaces PROVE FALSE
    OBVIOUS
  <2>1. g = k
    BY <1>3
  <2> QED
    BY <2>1, ReachedFacts
<1>5. CASE adopts # {}
  <2>1. PICK g : g \in adopts
    BY <1>5
  <2>2. adopts = {g}
    BY <1>3, <2>1
  <2>3. replaces = {}
    BY <1>4, <2>1
  <2>4. projection'[i] \in adopts /\ owners'[i] = owners[i] \cup {made[k].project : k \in {g}}
    BY <1>1, <1>5, <2>2, <2>3
  <2>5. AdoptedBy(i, g)
    BY <2>1, <2>2, <2>4 DEF AdoptedBy
  <2> QED
    BY <1>3, <2>1, <2>5
<1>6. CASE adopts = {} /\ replaces # {}
  <2>1. PICK g : g \in replaces
    BY <1>6
  <2>2. \A h \in holds' : h[1] # i
    BY <1>2, <2>1
  <2>3. DroppedFor(i, g)
    BY <1>1, <1>6, <2>1, <2>2 DEF DroppedFor
  <2> QED
    BY <1>3, <2>1, <2>3
<1>7. CASE adopts = {} /\ replaces = {}
  <2>1. projection'[i] = projection[i] /\ owners'[i] = owners[i]
    BY <1>1, <1>7
  <2> QED
    BY <1>7, <2>1 DEF LeftAlone
<1> QED
  BY <1>5, <1>6, <1>7

LEMMA RecoverJournalHolds ==
  ASSUME Inv, NEW p \in Procs, RecoverJournal(p), UNCHANGED plan
  PROVE  Inv'
<1> USE Constants
<1>1. /\ proc[p].step = "idle" /\ journal' = {} /\ UNCHANGED <<link, made, staged>>
      /\ UNCHANGED <<leaving, trust, pending, proc, reviewed, overrun, disarmed, meddling>>
      /\ holds' \subseteq holds
      /\ history' = history \cup ({projection[made[g].id] : g \in Reached} \ (Reached \cup {0}))
      /\ robbed' = robbed \cup {g \in journal \ Reached :
                                  \E q \in Procs : proc[q].step = "swap" /\ proc[q].gen = g}
  BY DEF RecoverJournal, disk
<1>2. \A i \in Ids : \/ \E g \in Reached : AdoptedBy(i, g) /\ link[PathOf[i]] = g
                     \/ \E g \in Reached : DroppedFor(i, g) /\ link[PathOf[i]] = g
                     \/ LeftAlone(i)
  BY RecoverEffect
<1>3. /\ projection \in [Ids -> OptGens] /\ owners \in [Ids -> SUBSET Projects]
      /\ leaving \in [Ids -> OptGens] /\ holds \subseteq Ids \X Projects
  BY DEF Inv, TypeOK
<1>4. \A g \in Reached : g \in journal /\ g \in 1..staged /\ g \in Gens /\ g # 0
                        /\ made[g].id \in Ids /\ made[g].project \in Projects
                        /\ link[PathOf[made[g].id]] = g
  BY ReachedFacts
<1>5. \A i \in Ids : projection'[i] \in OptGens /\ owners'[i] \in SUBSET Projects
  BY <1>2, <1>3, <1>4 DEF AdoptedBy, DroppedFor, LeftAlone
<1>6. projection' \in [Ids -> OptGens] /\ owners' \in [Ids -> SUBSET Projects]
  <2>1. projection' = [i \in Ids |-> projection'[i]]
    BY DEF RecoverJournal
  <2>2. owners' = [i \in Ids |-> owners'[i]]
    BY DEF RecoverJournal
  <2> QED
    BY <1>5, <2>1, <2>2
<1>7. history' \subseteq 1..staged
  <2> SUFFICES ASSUME NEW h \in history' PROVE h \in 1..staged
    OBVIOUS
  <2>1. CASE h \in history
    BY <2>1 DEF Inv, References
  <2>2. CASE h \notin history
    <3>1. PICK g \in Reached : h = projection[made[g].id] /\ h # 0
      BY <1>1, <2>2
    <3> QED
      BY <1>4, <3>1 DEF Inv, References, Made
  <2> QED
    BY <2>1, <2>2
<1>8. TypeOK'
  <2>1. history' \subseteq Gens
    BY <1>7, StagedGens DEF Inv
  <2>2. robbed' \subseteq Gens /\ journal' \subseteq Gens /\ holds' \subseteq Ids \X Projects
    BY <1>1, <1>3 DEF Inv, TypeOK
  <2> QED
    BY <1>1, <1>6, <2>1, <2>2 DEF Inv, TypeOK
<1>9. RecordsSound' /\ CommandsKnow' /\ AllGranted'
  <2>1. \A t : Knows(t)' <=> Knows(t)
    BY <1>1 DEF Knows, Recorded, Replaces, Made
  <2> QED
    BY <1>1, <2>1 DEF Inv, RecordsSound, CommandsKnow, AllGranted, Granted
<1>10. References'
  <2>1. ASSUME NEW i \in Ids, projection'[i] # 0 PROVE Made(projection[i], i)'
    BY <1>1, <1>2, <1>4, <2>1 DEF AdoptedBy, DroppedFor, LeftAlone, Inv, References, Made
  <2> QED
    BY <1>1, <1>7, <2>1 DEF Inv, References, Made
<1>11. SwapsFresh'
  <2>1. ASSUME NEW q \in Procs, proc'[q].step = "swap"
        PROVE  /\ Unseen(proc[q].gen)' /\ proc'[q].gen \in journal' \cup robbed'
               /\ \A r \in Procs \ {q} : proc'[r].step \in {"swap", "finish"} => proc'[r].gen # proc'[q].gen
    <3>1. proc'[q] = proc[q] /\ proc[q].step = "swap"
      BY <1>1, <2>1
    <3>2. /\ Unseen(proc[q].gen) /\ proc[q].gen \in journal \cup robbed
          /\ \A r \in Procs \ {q} : proc[r].step \in {"swap", "finish"} => proc[r].gen # proc[q].gen
      BY <3>1 DEF Inv, SwapsFresh
    <3>3. proc[q].gen \notin Reached /\ proc[q].gen # 0
      <4>1. proc[q].gen \in 1..staged /\ made[proc[q].gen].id \in Ids
        BY <3>1 DEF Inv, CommandsKnow, Knows, RecordsSound, Record
      <4>2. PathOf[made[proc[q].gen].id] \in Paths
        BY <4>1
      <4> QED
        BY <3>2, <4>1, <4>2, StagedGens DEF Unseen, Reached, LinkOf, Inv
    <3>4. Unseen(proc[q].gen)'
      BY <1>1, <1>2, <3>1, <3>2, <3>3 DEF Unseen, AdoptedBy, DroppedFor, LeftAlone
    <3>5. proc[q].gen \in robbed'
      BY <1>1, <3>1, <3>2, <3>3
    <3> QED
      BY <1>1, <3>1, <3>2, <3>4, <3>5
  <2> QED
    BY <1>1, <2>1 DEF SwapsFresh
<1>12. RecordsOwned'
  <2>1. ASSUME NEW i \in Ids PROVE projection'[i] # 0 <=> owners'[i] # {}
    <3>1. CASE \E g \in Reached : AdoptedBy(i, g)
      BY <1>4, <3>1 DEF AdoptedBy
    <3>2. CASE \E g \in Reached : DroppedFor(i, g)
      BY <3>2 DEF DroppedFor
    <3>3. CASE LeftAlone(i)
      BY <3>3 DEF LeftAlone, Inv, RecordsOwned
    <3> QED
      BY <1>2, <3>1, <3>2, <3>3
  <2> QED
    BY <2>1 DEF RecordsOwned
\* Where a swap reached the disk, the id it adopts is the only one recorded.
<1>13. ASSUME NEW i \in Ids, NEW j \in Ids, i # j, PathOf[i] = PathOf[j], PathOf[i] \notin overrun,
              projection'[i] # 0, NEW g \in Reached, AdoptedBy(j, g), link[PathOf[j]] = g
       PROVE  FALSE
  <2>1. projection[i] # 0 /\ LeftAlone(i)
    BY <1>2, <1>13 DEF AdoptedBy, DroppedFor, LeftAlone
  <2>2. i = made[g].id \/ i = made[g].replaces
    BY <1>4, <1>13, <2>1 DEF Inv, ShownAs
  <2> QED
    BY <1>13, <2>1, <2>2 DEF LeftAlone
<1>14. OneRecordPerPath'
  <2> SUFFICES ASSUME NEW i \in Ids, NEW j \in Ids, i # j, PathOf[i] = PathOf[j],
                      PathOf[i] \notin overrun, projection'[i] # 0, projection'[j] # 0
               PROVE  FALSE
    BY <1>1 DEF OneRecordPerPath
  <2>1. CASE LeftAlone(i) /\ LeftAlone(j)
    BY <2>1 DEF Inv, OneRecordPerPath, LeftAlone
  <2>2. CASE ~LeftAlone(i)
    <3>1. PICK g \in Reached : AdoptedBy(i, g) /\ link[PathOf[i]] = g
      BY <1>2, <2>2 DEF DroppedFor
    <3> QED
      BY <1>13, <3>1
  <2>3. CASE ~LeftAlone(j)
    <3>1. PICK g \in Reached : AdoptedBy(j, g) /\ link[PathOf[j]] = g
      BY <1>2, <2>3 DEF DroppedFor
    <3> QED
      BY <1>13, <3>1
  <2> QED
    BY <2>1, <2>2, <2>3
<1>15. ShownAs'
  <2>1. ASSUME NEW i \in Ids, projection'[i] # 0, link[PathOf[i]] \in Gens, PathOf[i] \notin overrun
        PROVE  /\ i = made[link[PathOf[i]]].id \/ i = made[link[PathOf[i]]].replaces
               /\ Shared(i)' => /\ i = made[link[PathOf[i]]].id
                                /\ made[projection'[i]].version = made[link[PathOf[i]]].version
    <3>1. CASE LeftAlone(i)
      BY <2>1, <3>1 DEF Inv, ShownAs, LeftAlone, Shared
    <3>2. CASE ~LeftAlone(i)
      <4>1. PICK g \in Reached : AdoptedBy(i, g) /\ link[PathOf[i]] = g
        BY <1>2, <2>1, <3>2 DEF DroppedFor
      <4> QED
        BY <4>1 DEF AdoptedBy
    <3> QED
      BY <3>1, <3>2
  <2> QED
    BY <1>1, <2>1 DEF ShownAs
<1>16. SwapsReconciled'
  <2>1. ASSUME NEW path \in Paths, link[path] \in Gens
        PROVE  projection'[made[link[path]].id] = link[path] \/ link[path] \in robbed'
    <3> DEFINE g == link[path]
               i == made[g].id
    <3>1. g \in 1..staged /\ i \in Ids /\ PathOf[i] = path
      BY <2>1 DEF Inv, References, RecordsSound, Record
    <3>2. projection[i] = g \/ g \in journal \cup robbed
      BY <2>1 DEF Inv, SwapsReconciled
    <3>3. g \in journal => g \in Reached
      BY <3>1 DEF Reached, LinkOf
    <3>4. \/ g \in Reached /\ AdoptedBy(i, g)
          \/ g \in Reached /\ DroppedFor(i, g)
          \/ LeftAlone(i)
      BY <1>2, <3>1
    <3>5. ASSUME g \in Reached PROVE AdoptedBy(i, g)
      <4>1. made[g].replaces # i
        BY <3>5, ReachedFacts
      <4> QED
        BY <3>4, <3>5, <4>1 DEF DroppedFor, LeftAlone
    <3> QED
      BY <1>1, <3>2, <3>3, <3>4, <3>5 DEF AdoptedBy, LeftAlone
  <2> QED
    BY <1>1, <2>1 DEF SwapsReconciled
<1>17. \A i \in Ids : projection'[i] # projection[i] => projection'[i] \in journal \cup {0}
  BY <1>2, <1>4 DEF AdoptedBy, DroppedFor, LeftAlone
<1>18. \A g \in journal : Unused(g)
  BY DEF Inv, SwapsFresh
<1>19. RemovalsAnnounced'
  <2>1. ASSUME NEW q \in Procs, proc'[q].step = "finish"
        PROVE  LET i == made[proc[q].gen].id IN
               (projection[i] = proc[q].gen => leaving[i] = proc[q].gen \/ Disarmed(i))'
    <3>1. /\ proc'[q] = proc[q] /\ proc[q].gen \in 1..staged /\ proc[q].gen # 0
          /\ made[proc[q].gen].id \in Ids
      BY <1>1, <2>1, StagedGens DEF Inv, CommandsKnow, Knows, RecordsSound, Record
    <3>2. proc[q].gen \notin journal
      BY <1>18, <2>1, <3>1 DEF Unused
    <3> QED
      BY <1>1, <1>17, <2>1, <3>1, <3>2 DEF Inv, RemovalsAnnounced, Disarmed
  <2>2. ASSUME NEW i \in Ids, leaving'[i] # 0, projection'[i] = leaving'[i]
        PROVE  Disarmed(i)' \/ \A h \in holds' : h[1] # i
    <3>1. projection[i] = leaving[i] /\ leaving[i] # 0
      BY <1>1, <1>17, <1>18, <2>2 DEF Unused
    <3> QED
      BY <1>1, <3>1 DEF Inv, RemovalsAnnounced, Disarmed
  <2> QED
    BY <2>1, <2>2 DEF RemovalsAnnounced
<1>20. InstalledStays'
  <2>1. ASSUME NEW h \in holds'
        PROVE  \/ projection'[h[1]] # 0 /\ h[2] \in owners'[h[1]]
               \/ \E g \in disarmed : made[g].id = h[1]
    <3>1. h \in holds /\ h[1] \in Ids
      BY <1>1, <1>3, <2>1
    <3>2. \/ projection[h[1]] # 0 /\ h[2] \in owners[h[1]]
          \/ \E g \in disarmed : made[g].id = h[1]
      BY <3>1 DEF Inv, InstalledStays
    <3>3. \/ LeftAlone(h[1])
          \/ \E g \in Reached : AdoptedBy(h[1], g)
      BY <1>2, <2>1, <3>1 DEF DroppedFor
    <3> QED
      BY <1>4, <3>2, <3>3 DEF LeftAlone, AdoptedBy
  <2> QED
    BY <1>1, <2>1 DEF InstalledStays
<1>21. RemovalsReady'
  <2>1. ASSUME NEW i \in Ids, leaving[i] # 0, PathOf[i] \notin overrun
        PROVE  projection'[i] = leaving[i] /\ link[PathOf[i]] \in {0, leaving[i], Foreign} /\ ~Shared(i)'
    <3>1. projection[i] = leaving[i] /\ link[PathOf[i]] \in {0, leaving[i], Foreign} /\ ~Shared(i)
      BY <2>1 DEF Inv, RemovalsReady
    <3>2. leaving[i] \notin Reached
      BY <1>4, <1>18 DEF Unused
    <3>3. LeftAlone(i)
      BY <1>2, <1>4, <3>1, <3>2
    <3> QED
      BY <3>1, <3>3 DEF LeftAlone, Shared
  <2> QED
    BY <1>1, <2>1 DEF RemovalsReady
<1> QED
  BY <1>8, <1>9, <1>10, <1>11, <1>12, <1>14, <1>15, <1>16, <1>19, <1>20, <1>21 DEF Inv

-----------------------------------------------------------------------------
(* uninstall.                                                               *)

\* Counting the owners tells whether a projection is shared.
LEMMA OwnersCounted ==
  ASSUME NEW S \in SUBSET Projects
  PROVE  /\ Cardinality(S) <= 1 <=> \A P, Q \in S : P = Q
         /\ Cardinality(S) > 1 <=> \E P, Q \in S : P # Q
<1>1. IsFiniteSet(S) /\ Cardinality(S) \in Nat
  BY LocalAssumption, FS_Subset, FS_CardinalityType DEF LocalAssumption
<1>2. ASSUME \A P, Q \in S : P = Q PROVE Cardinality(S) <= 1
  <2>1. CASE S = {}
    BY <2>1, FS_EmptySet
  <2>2. CASE S # {}
    <3>1. PICK P : P \in S
      BY <2>2
    <3>2. S = {P}
      BY <1>2, <3>1
    <3> QED
      BY <3>2, FS_Singleton
  <2> QED
    BY <2>1, <2>2
<1>3. ASSUME NEW P \in S, NEW Q \in S, P # Q PROVE Cardinality(S) > 1
  <2>1. {P, Q} \in SUBSET S /\ {P, Q} = {P} \cup {Q}
    OBVIOUS
  <2>2. IsFiniteSet({P}) /\ Cardinality({P}) = 1
    BY FS_Singleton
  <2>3. Cardinality({P} \cup {Q}) = 2
    <3>1. Q \notin {P}
      BY <1>3
    <3> QED
      BY <2>2, <3>1, FS_AddElement
  <2>4. Cardinality({P} \cup {Q}) <= Cardinality(S)
    <3>1. {P} \cup {Q} \in SUBSET S
      OBVIOUS
    <3> QED
      BY <1>1, <3>1, FS_Subset
  <2> QED
    BY <1>1, <2>3, <2>4
<1>4. Cardinality(S) > 1 <=> ~(Cardinality(S) <= 1)
  BY <1>1
<1> QED
  BY <1>2, <1>3, <1>4

LEMMA BeginUninstallHolds ==
  ASSUME Inv, NEW p \in Procs, NEW id \in Ids, projection[id] # 0,
         NEW project \in Projects \cup {None}, BeginUninstall(p, id, project), UNCHANGED plan
  PROVE  Inv'
<1> USE Constants
<1> DEFINE g == projection[id]
           refused == \/ project = None /\ Cardinality(owners[id]) > 1
                      \/ project # None /\ project \notin owners[id]
           leaves == project # None /\ owners[id] \ {project} # {}
<1>1. \/ Throw(p)
      \/ /\ leaves
         /\ owners' = [owners EXCEPT ![id] = owners[id] \ {project}]
         /\ holds' = holds \ {<<id, project>>}
         /\ Goto(p, Idle)
         /\ UNCHANGED <<disk, projection, journal, leaving, history, trust, pending,
                        reviewed, robbed, overrun, disarmed, meddling>>
      \/ /\ ~refused /\ ~leaves /\ Verified(g)
         /\ leaving' = [leaving EXCEPT ![id] = g]
         /\ holds' = {h \in holds : h[1] # id}
         /\ Goto(p, [step |-> "finish", gen |-> g])
         /\ UNCHANGED <<disk, projection, owners, journal, history, trust, pending,
                        reviewed, robbed, overrun, disarmed, meddling>>
  BY DEF BeginUninstall
<1>2. /\ g \in 1..staged /\ g \in Gens /\ g \in OptGens /\ made[g].id = id
      /\ PathOf[id] \in Paths
  BY StagedGens DEF Inv, TypeOK, References, Made
<1>3. /\ owners \in [Ids -> SUBSET Projects] /\ holds \subseteq Ids \X Projects
      /\ leaving \in [Ids -> OptGens]
  BY DEF Inv, TypeOK
<1>4. CASE Throw(p)
  BY <1>4, EndHolds DEF Throw
<1>5. CASE /\ leaves
           /\ owners' = [owners EXCEPT ![id] = owners[id] \ {project}]
           /\ holds' = holds \ {<<id, project>>}
           /\ Goto(p, Idle)
           /\ UNCHANGED <<disk, projection, journal, leaving, history, trust, pending,
                          reviewed, robbed, overrun, disarmed, meddling>>
  <2>1. UNCHANGED <<link, made, staged>>
    BY <1>5 DEF disk
  <2>2. /\ proc' \in [Procs -> Process] /\ proc'[p].step = "idle"
        /\ \A q \in Procs : q # p => proc'[q] = proc[q]
        /\ RecordsSound' /\ CommandsKnow' /\ AllGranted'
    BY <1>5, <2>1, Stopped
  <2>3. /\ owners' \in [Ids -> SUBSET Projects]
        /\ \A i \in Ids : owners'[i] = IF i = id THEN owners[id] \ {project} ELSE owners[i]
    BY <1>3, <1>5
  <2>4. \A i \in Ids : Shared(i)' => Shared(i)
    BY <2>3 DEF Shared
  <2>5. TypeOK'
    BY <1>3, <1>5, <2>1, <2>2, <2>3 DEF Inv, TypeOK
  <2>6. References'
    BY <1>5, <2>1 DEF Inv, References, Made
  <2>7. SwapsFresh'
    BY <1>5, <2>1, <2>2 DEF Inv, SwapsFresh, Unseen, Unused
  <2>8. RecordsOwned'
    BY <1>5, <2>3 DEF Inv, RecordsOwned
  <2>9. OneRecordPerPath' /\ SwapsReconciled'
    BY <1>5, <2>1 DEF Inv, OneRecordPerPath, SwapsReconciled
  <2>10. ShownAs'
    BY <1>5, <2>1, <2>4 DEF Inv, ShownAs
  <2>11. RemovalsAnnounced'
    BY <1>5, <2>1, <2>2 DEF Inv, RemovalsAnnounced, Disarmed
  <2>12. InstalledStays'
    <3>1. ASSUME NEW h \in holds'
          PROVE  \/ projection[h[1]] # 0 /\ h[2] \in owners'[h[1]]
                 \/ \E d \in disarmed : made[d].id = h[1]
      <4>1. h \in holds /\ h = <<h[1], h[2]>> /\ h[1] \in Ids /\ h # <<id, project>>
        BY <1>3, <1>5, <3>1
      <4>2. h[1] = id => h[2] # project
        BY <4>1
      <4> QED
        BY <2>3, <4>1, <4>2 DEF Inv, InstalledStays
    <3> QED
      BY <1>5, <2>1, <3>1 DEF InstalledStays
  <2>13. RemovalsReady'
    BY <1>5, <2>1, <2>4 DEF Inv, RemovalsReady
  <2> QED
    BY <2>2, <2>5, <2>6, <2>7, <2>8, <2>9, <2>10, <2>11, <2>12, <2>13 DEF Inv
<1>6. CASE /\ ~refused /\ ~leaves /\ Verified(g)
           /\ leaving' = [leaving EXCEPT ![id] = g]
           /\ holds' = {h \in holds : h[1] # id}
           /\ Goto(p, [step |-> "finish", gen |-> g])
           /\ UNCHANGED <<disk, projection, owners, journal, history, trust, pending,
                          reviewed, robbed, overrun, disarmed, meddling>>
  <2>1. /\ UNCHANGED <<link, made, staged>>
        /\ UNCHANGED <<projection, owners, journal, history, trust, pending>>
        /\ UNCHANGED <<reviewed, robbed, overrun, disarmed, meddling>>
    BY <1>6 DEF disk
  <2>2. PICK s \in Process : s.step = "finish" /\ s.gen = g /\ Goto(p, s)
    <3> DEFINE s == [step |-> "finish", gen |-> g]
    <3>1. s \in Process /\ s.step = "finish" /\ s.gen = g
      BY <1>2 DEF Process
    <3> QED
      BY <1>6, <3>1
  <2>3. /\ proc' \in [Procs -> Process] /\ proc'[p] = s
        /\ \A q \in Procs : q # p => proc'[q] = proc[q]
    BY <2>2, Moved
  <2>4. ~Shared(id)
    <3>1. owners[id] \in SUBSET Projects
      BY <1>3
    <3>2. CASE project = None
      BY <1>6, <3>1, <3>2, OwnersCounted DEF Shared
    <3>3. CASE project # None
      BY <1>6, <3>3 DEF Shared
    <3> QED
      BY <3>2, <3>3
  <2>5. link[PathOf[id]] \in {0, g}
    BY <1>2, <1>6 DEF Verified, LinkOf
  <2>6. \A i \in Ids : leaving'[i] = IF i = id THEN g ELSE leaving[i]
    BY <1>3, <1>6
  <2>7. holds' = {h \in holds : h[1] # id}
    BY <1>6
  <2>8. leaving' \in [Ids -> OptGens]
    BY <1>2, <1>3, <1>6
  <2>9. TypeOK'
    BY <1>3, <2>1, <2>3, <2>7, <2>8 DEF Inv, TypeOK
  <2>10. RecordsSound'
    BY <2>1 DEF Inv, RecordsSound
  <2>11. References'
    <3>1. \A i \in Ids : leaving'[i] # 0 => Made(leaving[i], i)'
      BY <1>2, <2>1, <2>6 DEF Inv, References, Made
    <3> QED
      BY <2>1, <3>1 DEF Inv, References, Made
  <2>12. CommandsKnow'
    <3>1. \A t : Knows(t)' <=> Knows(t)
      BY <2>1 DEF Knows, Recorded, Replaces, Made
    <3>2. Knows(s)
      BY <1>2, <2>2 DEF Knows
    <3> QED
      BY <2>3, <3>1, <3>2 DEF Inv, CommandsKnow
  <2>13. SwapsFresh'
    <3>1. ASSUME NEW q \in Procs, proc'[q].step = "swap"
          PROVE  /\ Unseen(proc[q].gen)' /\ proc'[q].gen \in journal' \cup robbed'
                 /\ \A r \in Procs \ {q} : proc'[r].step \in {"swap", "finish"} => proc'[r].gen # proc'[q].gen
      <4>1. q # p /\ proc'[q] = proc[q]
        BY <2>2, <2>3, <3>1
      <4>2. /\ Unseen(proc[q].gen) /\ proc[q].gen \in journal \cup robbed
            /\ \A r \in Procs \ {q} : proc[r].step \in {"swap", "finish"} => proc[r].gen # proc[q].gen
        BY <3>1, <4>1 DEF Inv, SwapsFresh
      <4>3. s.gen # proc[q].gen
        BY <2>2, <4>2 DEF Unseen
      <4>4. Unseen(proc[q].gen)'
        BY <2>1, <2>2, <2>6, <4>1, <4>2, <4>3 DEF Unseen
      <4> QED
        BY <2>1, <2>3, <4>1, <4>2, <4>3, <4>4
    <3>2. ASSUME NEW h \in journal' PROVE Unused(h)'
      <4>1. Unused(h) /\ s.gen # h
        BY <2>1, <2>2, <3>2 DEF Inv, SwapsFresh, Unused
      <4> QED
        BY <2>1, <2>2, <2>3, <2>6, <4>1 DEF Unused
    <3> QED
      BY <3>1, <3>2 DEF SwapsFresh
  <2>14. AllGranted'
    BY <2>1, <2>2, <2>3 DEF Inv, AllGranted, Granted
  <2>15. RecordsOwned' /\ OneRecordPerPath' /\ ShownAs' /\ SwapsReconciled'
    BY <2>1 DEF Inv, RecordsOwned, OneRecordPerPath, ShownAs, Shared, SwapsReconciled
  <2>16. RemovalsAnnounced'
    <3>1. ASSUME NEW q \in Procs, proc'[q].step = "finish"
          PROVE  LET i == made[proc[q].gen].id IN
                 (projection[i] = proc[q].gen => leaving[i] = proc[q].gen \/ Disarmed(i))'
      <4>1. CASE q = p
        BY <1>2, <2>1, <2>2, <2>3, <2>6, <4>1
      <4>2. CASE q # p
        <5>1. /\ proc'[q] = proc[q] /\ proc[q].gen \in 1..staged /\ made[proc[q].gen].id \in Ids
          BY <2>3, <3>1, <4>2 DEF Inv, CommandsKnow, Knows, RecordsSound, Record
        <5> QED
          BY <2>1, <2>6, <3>1, <5>1 DEF Inv, RemovalsAnnounced, Disarmed
      <4> QED
        BY <4>1, <4>2
    <3>2. \A i \in Ids : leaving'[i] # 0 /\ projection'[i] = leaving'[i] =>
            Disarmed(i)' \/ \A h \in holds' : h[1] # i
      BY <2>1, <2>6, <2>7 DEF Inv, RemovalsAnnounced, Disarmed
    <3> QED
      BY <3>1, <3>2 DEF RemovalsAnnounced
  <2>17. InstalledStays'
    BY <2>1, <2>7 DEF Inv, InstalledStays
  <2>18. RemovalsReady'
    BY <2>1, <2>4, <2>5, <2>6 DEF Inv, RemovalsReady, Shared
  <2> QED
    BY <2>9, <2>10, <2>11, <2>12, <2>13, <2>14, <2>15, <2>16, <2>17, <2>18 DEF Inv
<1> QED
  BY <1>1, <1>4, <1>5, <1>6

\* What the command is about when its step is the end of a removal.
LEMMA RemovalNotes ==
  ASSUME Inv, NEW p \in Procs, proc[p].step = "finish"
  PROVE  /\ proc[p].gen \in 1..staged /\ proc[p].gen \in Gens /\ proc[p].gen # 0
         /\ made[proc[p].gen].id \in Ids /\ PathOf[made[proc[p].gen].id] \in Paths
         /\ \A i \in Ids : projection[i] = proc[p].gen => i = made[proc[p].gen].id
<1>1. proc[p].gen \in 1..staged
  BY DEF Inv, CommandsKnow, Knows
<1>2. proc[p].gen \in Gens /\ proc[p].gen # 0
  BY <1>1, StagedGens DEF Inv
<1>3. made[proc[p].gen].id \in Ids
  BY <1>1 DEF Inv, RecordsSound, Record
<1>4. PathOf[made[proc[p].gen].id] \in Paths
  BY <1>3, Constants
<1>5. \A i \in Ids : projection[i] = proc[p].gen => i = made[proc[p].gen].id
  BY <1>2 DEF Inv, References, Made
<1> QED
  BY <1>1, <1>2, <1>3, <1>4, <1>5

LEMMA FinishCutHolds ==
  ASSUME Inv, NEW p \in Procs, FinishCut(p), UNCHANGED plan
  PROVE  Inv'
<1> USE Constants
<1> DEFINE there == PathOf[made[proc[p].gen].id]
<1>1. /\ proc[p].step = "finish" /\ link' = [link EXCEPT ![there] = 0] /\ Goto(p, Idle)
      /\ UNCHANGED <<made, staged>>
      /\ UNCHANGED <<projection, owners, journal, leaving, history, trust, pending>>
      /\ UNCHANGED <<holds, reviewed, robbed, overrun, disarmed, meddling>>
  BY DEF FinishCut, store, ghosts
<1>2. /\ proc' \in [Procs -> Process] /\ proc'[p].step = "idle"
      /\ \A q \in Procs : q # p => proc'[q] = proc[q]
      /\ RecordsSound' /\ CommandsKnow' /\ AllGranted'
  BY <1>1, Stopped
<1>3. /\ link' \in [Paths -> OptGens \cup {Foreign}] /\ there \in Paths
      /\ \A path \in Paths : link'[path] = IF path = there THEN 0 ELSE link[path]
  BY <1>1, RemovalNotes DEF Inv, TypeOK
<1> HIDE DEF there
<1>4. TypeOK'
  BY <1>1, <1>2, <1>3 DEF Inv, TypeOK
<1>5. References'
  <2>1. \A path \in Paths : link'[path] \in Gens =>
          link'[path] \in 1..staged' /\ PathOf[made'[link'[path]].id] = path
    BY <1>1, <1>3 DEF Inv, References
  <2> QED
    BY <1>1, <2>1 DEF Inv, References, Made
<1>6. SwapsFresh'
  <2>1. \A q \in Procs : proc[q].step = "swap" => proc[q].gen # 0
    BY StagedGens DEF Inv, CommandsKnow, Knows
  <2> QED
    BY <1>1, <1>2, <1>3, <2>1 DEF Inv, SwapsFresh, Unseen, Unused
<1>7. RecordsOwned' /\ OneRecordPerPath'
  BY <1>1 DEF Inv, RecordsOwned, OneRecordPerPath
<1>8. ShownAs'
  BY <1>1, <1>3 DEF Inv, ShownAs, Shared
<1>9. SwapsReconciled'
  BY <1>1, <1>3 DEF Inv, SwapsReconciled
<1>10. RemovalsAnnounced'
  BY <1>1, <1>2 DEF Inv, RemovalsAnnounced, Disarmed
<1>11. InstalledStays'
  BY <1>1 DEF Inv, InstalledStays
<1>12. RemovalsReady'
  BY <1>1, <1>3 DEF Inv, RemovalsReady, Shared
<1> QED
  BY <1>2, <1>4, <1>5, <1>6, <1>7, <1>8, <1>9, <1>10, <1>11, <1>12 DEF Inv

LEMMA FinishUninstallHolds ==
  ASSUME Inv, NEW p \in Procs, FinishUninstall(p), UNCHANGED plan
  PROVE  Inv'
<1> USE Constants
<1> DEFINE g == proc[p].gen
           id == made[g].id
<1>1. /\ proc[p].step = "finish"
      /\ \/ /\ Stale(g)
            /\ leaving' = [leaving EXCEPT ![id] = 0]
            /\ disarmed' = disarmed \cup ({leaving[id]} \ {0, g})
            /\ Goto(p, Idle)
            /\ UNCHANGED <<disk, projection, owners, journal, history, trust, pending,
                           holds, reviewed, robbed, overrun, meddling>>
         \/ Throw(p)
         \/ /\ ~Stale(g)
            /\ link' = [link EXCEPT ![PathOf[id]] = 0]
            /\ projection' = [projection EXCEPT ![id] = 0]
            /\ owners' = [owners EXCEPT ![id] = {}]
            /\ leaving' = [leaving EXCEPT ![id] = 0]
            /\ Goto(p, Idle)
            /\ UNCHANGED <<made, staged, journal, history, trust, pending, ghosts>>
  BY DEF FinishUninstall
<1>2. /\ g \in 1..staged /\ g \in Gens /\ g # 0 /\ id \in Ids /\ PathOf[id] \in Paths
      /\ \A i \in Ids : projection[i] = g => i = id
  BY <1>1, RemovalNotes
<1>3. /\ link \in [Paths -> OptGens \cup {Foreign}] /\ projection \in [Ids -> OptGens]
      /\ owners \in [Ids -> SUBSET Projects] /\ leaving \in [Ids -> OptGens]
      /\ disarmed \subseteq Gens
  BY DEF Inv, TypeOK
<1>4. leaving[id] # 0 => leaving[id] \in 1..staged /\ leaving[id] \in Gens /\ made[leaving[id]].id = id
  BY <1>2, StagedGens DEF Inv, References, Made
<1>5. CASE Throw(p)
  BY <1>5, EndHolds DEF Throw
<1>6. CASE /\ Stale(g)
           /\ leaving' = [leaving EXCEPT ![id] = 0]
           /\ disarmed' = disarmed \cup ({leaving[id]} \ {0, g})
           /\ Goto(p, Idle)
           /\ UNCHANGED <<disk, projection, owners, journal, history, trust, pending,
                          holds, reviewed, robbed, overrun, meddling>>
  <2>1. /\ UNCHANGED <<link, made, staged>>
        /\ UNCHANGED <<projection, owners, journal, history, trust, pending>>
        /\ UNCHANGED <<holds, reviewed, robbed, overrun, meddling>>
        /\ projection[id] # g
    BY <1>6 DEF disk, Stale
  <2>2. /\ proc' \in [Procs -> Process] /\ proc'[p].step = "idle"
        /\ \A q \in Procs : q # p => proc'[q] = proc[q]
        /\ RecordsSound' /\ CommandsKnow' /\ AllGranted'
    BY <1>6, <2>1, Stopped
  <2>3. /\ leaving' \in [Ids -> OptGens]
        /\ \A i \in Ids : leaving'[i] = IF i = id THEN 0 ELSE leaving[i]
    BY <1>2, <1>3, <1>6
  <2>4. /\ disarmed \subseteq disarmed' /\ disarmed' \subseteq Gens /\ disarmed' \subseteq 1..staged
        /\ leaving[id] \notin {0, g} => leaving[id] \in disarmed'
    BY <1>3, <1>4, <1>6 DEF Inv, References
  <2> HIDE DEF g, id
  <2>5. TypeOK'
    BY <2>1, <2>2, <2>3, <2>4 DEF Inv, TypeOK
  <2>6. References'
    BY <2>1, <2>3, <2>4 DEF Inv, References, Made
  <2>7. SwapsFresh'
    <3>1. \A q \in Procs : proc[q].step = "swap" => proc[q].gen # 0
      BY StagedGens DEF Inv, CommandsKnow, Knows
    <3>2. \A h \in journal : h # 0
      BY DEF Inv, TypeOK
    <3> QED
      BY <2>1, <2>2, <2>3, <3>1, <3>2 DEF Inv, SwapsFresh, Unseen, Unused
  <2>8. RecordsOwned' /\ OneRecordPerPath' /\ ShownAs' /\ SwapsReconciled'
    BY <2>1 DEF Inv, RecordsOwned, OneRecordPerPath, ShownAs, Shared, SwapsReconciled
  <2>9. \A i \in Ids : Disarmed(i) => Disarmed(i)'
    BY <2>1, <2>4 DEF Disarmed
  <2>10. RemovalsAnnounced'
    <3>1. ASSUME NEW q \in Procs, proc'[q].step = "finish"
          PROVE  LET i == made[proc[q].gen].id IN
                 (projection[i] = proc[q].gen => leaving[i] = proc[q].gen \/ Disarmed(i))'
      <4>1. /\ proc'[q] = proc[q] /\ proc[q].gen \in 1..staged /\ proc[q].gen # 0
            /\ made[proc[q].gen].id \in Ids
        BY <2>2, <3>1, RemovalNotes
      <4>2. PICK k, i : k = proc[q].gen /\ i = made[k].id
        OBVIOUS
      <4>3. ASSUME projection[i] = k PROVE leaving'[i] = k \/ Disarmed(i)'
        <5>1. leaving[i] = k \/ Disarmed(i)
          BY <3>1, <4>1, <4>2, <4>3 DEF Inv, RemovalsAnnounced
        <5>2. CASE i # id \/ Disarmed(i)
          BY <2>3, <2>9, <4>1, <4>2, <5>1, <5>2
        <5>3. CASE i = id /\ leaving[id] = k
          <6>1. leaving[id] \in disarmed'
            BY <2>1, <2>4, <4>1, <4>2, <4>3, <5>3
          <6> QED
            BY <2>1, <4>2, <5>3, <6>1 DEF Disarmed
        <5> QED
          BY <5>1, <5>2, <5>3
      <4> QED
        BY <2>1, <4>1, <4>2, <4>3
    <3>2. \A i \in Ids : leaving'[i] # 0 /\ projection'[i] = leaving'[i] =>
            Disarmed(i)' \/ \A h \in holds' : h[1] # i
      BY <2>1, <2>3, <2>9 DEF Inv, RemovalsAnnounced
    <3> QED
      BY <3>1, <3>2 DEF RemovalsAnnounced
  <2>11. InstalledStays'
    BY <2>1, <2>4 DEF Inv, InstalledStays
  <2>12. RemovalsReady'
    BY <2>1, <2>3 DEF Inv, RemovalsReady, Shared
  <2> QED
    BY <2>2, <2>5, <2>6, <2>7, <2>8, <2>10, <2>11, <2>12 DEF Inv
<1>7. CASE /\ ~Stale(g)
           /\ link' = [link EXCEPT ![PathOf[id]] = 0]
           /\ projection' = [projection EXCEPT ![id] = 0]
           /\ owners' = [owners EXCEPT ![id] = {}]
           /\ leaving' = [leaving EXCEPT ![id] = 0]
           /\ Goto(p, Idle)
           /\ UNCHANGED <<made, staged, journal, history, trust, pending, ghosts>>
  <2>1. /\ UNCHANGED <<made, staged, journal, history, trust, pending>>
        /\ UNCHANGED <<holds, reviewed, robbed, overrun, disarmed, meddling>>
        /\ projection[id] \in {0, g}
    BY <1>7 DEF ghosts, Stale
  <2>2. /\ proc' \in [Procs -> Process] /\ proc'[p].step = "idle"
        /\ \A q \in Procs : q # p => proc'[q] = proc[q]
        /\ RecordsSound' /\ CommandsKnow' /\ AllGranted'
    BY <1>7, <2>1, Stopped
  <2>3. /\ link' \in [Paths -> OptGens \cup {Foreign}]
        /\ \A path \in Paths : link'[path] = IF path = PathOf[id] THEN 0 ELSE link[path]
    BY <1>2, <1>3, <1>7
  <2>4. projection' \in [Ids -> OptGens] /\ owners' \in [Ids -> SUBSET Projects]
        /\ leaving' \in [Ids -> OptGens]
    BY <1>2, <1>3, <1>7
  <2>5. \A i \in Ids : /\ projection'[i] = IF i = id THEN 0 ELSE projection[i]
                       /\ owners'[i] = IF i = id THEN {} ELSE owners[i]
                       /\ leaving'[i] = IF i = id THEN 0 ELSE leaving[i]
    BY <1>3, <1>7
  <2>6. projection[id] = g => Disarmed(id) \/ \A h \in holds : h[1] # id
    BY <1>1, <1>2 DEF Inv, RemovalsAnnounced
  <2> HIDE DEF g, id
  <2>7. TypeOK'
    BY <2>1, <2>2, <2>3, <2>4 DEF Inv, TypeOK
  <2>8. References'
    <3>1. \A path \in Paths : link'[path] \in Gens =>
            link'[path] \in 1..staged' /\ PathOf[made'[link'[path]].id] = path
      BY <2>1, <2>3 DEF Inv, References
    <3> QED
      BY <2>1, <2>5, <3>1 DEF Inv, References, Made
  <2>9. SwapsFresh'
    <3>1. \A q \in Procs : proc[q].step = "swap" => proc[q].gen # 0
      BY StagedGens DEF Inv, CommandsKnow, Knows
    <3>2. \A h \in journal : h # 0
      BY DEF Inv, TypeOK
    <3>3. ASSUME NEW q \in Procs, proc'[q].step = "swap"
          PROVE  /\ Unseen(proc[q].gen)' /\ proc'[q].gen \in journal' \cup robbed'
                 /\ \A r \in Procs \ {q} : proc'[r].step \in {"swap", "finish"} => proc'[r].gen # proc'[q].gen
      <4>1. q # p /\ proc'[q] = proc[q] /\ proc[q].gen # 0
        BY <2>2, <3>1, <3>3
      <4>2. /\ Unseen(proc[q].gen) /\ proc[q].gen \in journal \cup robbed
            /\ \A r \in Procs \ {q} : proc[r].step \in {"swap", "finish"} => proc[r].gen # proc[q].gen
        BY <3>3, <4>1 DEF Inv, SwapsFresh
      <4>3. Unseen(proc[q].gen)'
        BY <2>3, <2>5, <4>1, <4>2 DEF Unseen
      <4> QED
        BY <2>1, <2>2, <4>1, <4>2, <4>3
    <3>4. \A h \in journal' : Unused(h)'
      BY <2>1, <2>2, <2>5, <3>2 DEF Inv, SwapsFresh, Unused
    <3> QED
      BY <3>3, <3>4 DEF SwapsFresh
  <2>10. RecordsOwned' /\ OneRecordPerPath'
    BY <2>1, <2>5 DEF Inv, RecordsOwned, OneRecordPerPath
  <2>11. ShownAs'
    BY <2>1, <2>3, <2>5 DEF Inv, ShownAs, Shared
  <2>12. SwapsReconciled'
    <3>1. ASSUME NEW path \in Paths, link'[path] \in Gens
          PROVE  LET k == link'[path] IN projection'[made'[k].id] = k \/ k \in journal' \cup robbed'
      <4>1. path # PathOf[id] /\ link'[path] = link[path]
        BY <2>3, <3>1
      <4>2. made[link[path]].id \in Ids /\ made[link[path]].id # id
        BY <3>1, <4>1 DEF Inv, References, RecordsSound, Record
      <4> QED
        BY <2>1, <2>5, <3>1, <4>1, <4>2 DEF Inv, SwapsReconciled
    <3> QED
      BY <3>1 DEF SwapsReconciled
  <2>13. RemovalsAnnounced'
    <3>1. ASSUME NEW q \in Procs, proc'[q].step = "finish"
          PROVE  LET i == made[proc[q].gen].id IN
                 (projection[i] = proc[q].gen => leaving[i] = proc[q].gen \/ Disarmed(i))'
      <4>1. /\ proc'[q] = proc[q] /\ proc[q].gen # 0 /\ made[proc[q].gen].id \in Ids
        BY <2>2, <3>1, RemovalNotes
      <4> QED
        BY <2>1, <2>5, <3>1, <4>1 DEF Inv, RemovalsAnnounced, Disarmed
    <3>2. \A i \in Ids : leaving'[i] # 0 /\ projection'[i] = leaving'[i] =>
            Disarmed(i)' \/ \A h \in holds' : h[1] # i
      BY <2>1, <2>5 DEF Inv, RemovalsAnnounced, Disarmed
    <3> QED
      BY <3>1, <3>2 DEF RemovalsAnnounced
  <2>14. InstalledStays'
    <3>1. ASSUME NEW h \in holds'
          PROVE  \/ projection'[h[1]] # 0 /\ h[2] \in owners'[h[1]]
                 \/ \E d \in disarmed' : made'[d].id = h[1]
      <4>1. h \in holds /\ h[1] \in Ids
        BY <2>1, <3>1 DEF Inv, TypeOK
      <4>2. \/ projection[h[1]] # 0 /\ h[2] \in owners[h[1]]
            \/ \E d \in disarmed : made[d].id = h[1]
        BY <4>1 DEF Inv, InstalledStays
      <4>3. CASE h[1] = id
        BY <2>1, <2>6, <4>1, <4>2, <4>3 DEF Disarmed
      <4>4. CASE h[1] # id
        BY <2>1, <2>5, <4>1, <4>2, <4>4
      <4> QED
        BY <4>3, <4>4
    <3> QED
      BY <3>1 DEF InstalledStays
  <2>15. RemovalsReady'
    BY <2>1, <2>3, <2>5 DEF Inv, RemovalsReady, Shared
  <2> QED
    BY <2>2, <2>7, <2>8, <2>9, <2>10, <2>11, <2>12, <2>13, <2>14, <2>15 DEF Inv
<1> QED
  BY <1>1, <1>5, <1>6, <1>7

-----------------------------------------------------------------------------
(* The user, and every step.                                                *)

LEMMA ApproveHolds ==
  ASSUME Inv, NEW id \in Ids, Approve(id), UNCHANGED plan
  PROVE  Inv'
<1> USE Constants
<1>1. /\ pending[id] # None
      /\ trust' = [trust EXCEPT ![id] = pending[id]]
      /\ reviewed' = [reviewed EXCEPT ![id] = reviewed[id] \cup {pending[id]}]
      /\ UNCHANGED <<link, made, staged>>
      /\ UNCHANGED <<projection, owners, journal, leaving, history, pending, proc>>
      /\ UNCHANGED <<holds, robbed, overrun, disarmed, meddling>>
  BY DEF Approve, disk
<1>2. /\ pending \in [Ids -> Versions \cup {None}] /\ trust \in [Ids -> Versions \cup {None}]
      /\ reviewed \in [Ids -> SUBSET Versions] /\ pending[id] \in Versions
  BY <1>1 DEF Inv, TypeOK
<1>3. trust' \in [Ids -> Versions \cup {None}] /\ reviewed' \in [Ids -> SUBSET Versions]
  BY <1>1, <1>2
<1>4. TypeOK'
  BY <1>1, <1>3 DEF Inv, TypeOK
<1>5. RecordsSound' /\ References' /\ CommandsKnow'
  <2>1. \A t : Knows(t)' <=> Knows(t)
    BY <1>1 DEF Knows, Recorded, Replaces, Made
  <2> QED
    BY <1>1, <2>1 DEF Inv, RecordsSound, References, Made, CommandsKnow
<1>6. SwapsFresh'
  BY <1>1 DEF Inv, SwapsFresh, Unseen, Unused
<1>7. AllGranted'
  <2>1. ASSUME NEW i \in Ids PROVE Granted(i) \subseteq Granted(i)'
    <3>1. reviewed[i] \subseteq reviewed'[i]
      BY <1>1, <1>2
    <3> QED
      BY <3>1 DEF Granted
  <2>2. Envelope[pending[id]] \subseteq Granted(id)'
    <3>1. pending[id] \in reviewed'[id]
      BY <1>1, <1>2
    <3> QED
      BY <3>1 DEF Granted
  <2>3. \A g \in 1..staged' : Envelope[made'[g].version] \subseteq Granted(made[g].id)'
    <3>1. ASSUME NEW g \in 1..staged
          PROVE  Envelope[made[g].version] \subseteq Granted(made[g].id)'
      <4>1. PICK i \in Ids : i = made[g].id
        BY DEF Inv, RecordsSound, Record
      <4>2. Envelope[made[g].version] \subseteq Granted(i)'
        BY <2>1, <4>1 DEF Inv, AllGranted
      <4> QED
        BY <1>1, <4>1, <4>2
    <3> QED
      BY <1>1, <3>1
  <2>4. \A i \in Ids : trust'[i] # None => Envelope[trust'[i]] \subseteq Granted(i)'
    BY <1>1, <1>2, <2>1, <2>2 DEF Inv, AllGranted
  <2>5. ASSUME NEW p \in Procs, proc'[p].step = "stage"
        PROVE  Envelope[proc'[p].version] \subseteq Granted(proc[p].id)'
    <3>1. PICK i \in Ids : i = proc[p].id
      BY <1>1, <2>5, SyncNotes DEF SyncSteps
    <3>2. Envelope[proc[p].version] \subseteq Granted(i)'
      BY <1>1, <2>1, <2>5, <3>1 DEF Inv, AllGranted
    <3> QED
      BY <1>1, <3>1, <3>2
  <2> QED
    BY <2>3, <2>4, <2>5 DEF AllGranted
<1>8. RecordsOwned' /\ OneRecordPerPath' /\ ShownAs' /\ SwapsReconciled'
  BY <1>1 DEF Inv, RecordsOwned, OneRecordPerPath, ShownAs, Shared, SwapsReconciled
<1>9. RemovalsAnnounced' /\ InstalledStays' /\ RemovalsReady'
  BY <1>1 DEF Inv, RemovalsAnnounced, Disarmed, InstalledStays, RemovalsReady, Shared
<1> QED
  BY <1>4, <1>5, <1>6, <1>7, <1>8, <1>9 DEF Inv

LEMMA MeddleHolds ==
  ASSUME Inv, NEW path \in Paths, Meddle(path), UNCHANGED plan
  PROVE  Inv'
<1> USE Constants
<1>1. PICK what \in {0, Foreign} : link' = [link EXCEPT ![path] = what]
  BY DEF Meddle
<1>2. /\ meddling < plan.meddling /\ meddling' = meddling + 1
      /\ UNCHANGED <<made, staged, proc>>
      /\ UNCHANGED <<projection, owners, journal, leaving, history, trust, pending>>
      /\ UNCHANGED <<holds, reviewed, robbed, overrun, disarmed>>
  BY DEF Meddle, store
<1>3. /\ link' \in [Paths -> OptGens \cup {Foreign}]
      /\ \A q \in Paths : link'[q] = IF q = path THEN what ELSE link[q]
  BY <1>1 DEF Inv, TypeOK
<1>4. meddling' \in 0..MaxMeddling
  <2>1. plan.meddling \in 0..MaxMeddling /\ MaxMeddling \in Nat /\ meddling \in 0..MaxMeddling
    BY LocalAssumption DEF LocalAssumption, Inv, TypeOK
  <2> QED
    BY <1>2, <2>1
<1>5. TypeOK'
  BY <1>2, <1>3, <1>4 DEF Inv, TypeOK
<1>6. RecordsSound' /\ CommandsKnow' /\ AllGranted'
  <2>1. \A t : Knows(t)' <=> Knows(t)
    BY <1>2 DEF Knows, Recorded, Replaces, Made
  <2> QED
    BY <1>2, <2>1 DEF Inv, RecordsSound, CommandsKnow, AllGranted, Granted
<1>7. References'
  <2>1. \A q \in Paths : link'[q] \in Gens =>
          link'[q] \in 1..staged' /\ PathOf[made'[link'[q]].id] = q
    BY <1>2, <1>3 DEF Inv, References
  <2> QED
    BY <1>2, <2>1 DEF Inv, References, Made
<1>8. SwapsFresh'
  <2>1. \A q \in Procs : proc[q].step = "swap" => proc[q].gen # 0 /\ proc[q].gen # Foreign
    BY StagedGens DEF Inv, CommandsKnow, Knows
  <2> QED
    BY <1>2, <1>3, <2>1 DEF Inv, SwapsFresh, Unseen, Unused
<1>9. RecordsOwned' /\ OneRecordPerPath'
  BY <1>2 DEF Inv, RecordsOwned, OneRecordPerPath
<1>10. ShownAs'
  BY <1>2, <1>3 DEF Inv, ShownAs, Shared
<1>11. SwapsReconciled'
  BY <1>2, <1>3 DEF Inv, SwapsReconciled
<1>12. RemovalsAnnounced' /\ InstalledStays'
  BY <1>2 DEF Inv, RemovalsAnnounced, Disarmed, InstalledStays
<1>13. RemovalsReady'
  BY <1>2, <1>3 DEF Inv, RemovalsReady, Shared
<1> QED
  BY <1>5, <1>6, <1>7, <1>8, <1>9, <1>10, <1>11, <1>12, <1>13 DEF Inv

LEMMA StutterHolds == ASSUME Inv, UNCHANGED vars PROVE Inv'
<1>1. /\ UNCHANGED <<link, made, staged, plan, proc>>
      /\ UNCHANGED <<projection, owners, journal, leaving, history, trust, pending>>
      /\ UNCHANGED <<holds, reviewed, robbed, overrun, disarmed, meddling>>
  BY DEF vars, disk, store, ghosts
<1>2. TypeOK'
  BY <1>1 DEF Inv, TypeOK
<1>3. RecordsSound' /\ References' /\ CommandsKnow' /\ AllGranted'
  <2>1. \A t : Knows(t)' <=> Knows(t)
    BY <1>1 DEF Knows, Recorded, Replaces, Made
  <2> QED
    BY <1>1, <2>1 DEF Inv, RecordsSound, References, Made, CommandsKnow, AllGranted, Granted
<1>4. SwapsFresh' /\ RecordsOwned' /\ OneRecordPerPath'
  BY <1>1 DEF Inv, SwapsFresh, Unseen, Unused, RecordsOwned, OneRecordPerPath
<1>5. ShownAs' /\ SwapsReconciled' /\ RemovalsAnnounced' /\ InstalledStays' /\ RemovalsReady'
  BY <1>1 DEF Inv, ShownAs, Shared, SwapsReconciled, RemovalsAnnounced, Disarmed,
              InstalledStays, RemovalsReady
<1> QED
  BY <1>2, <1>3, <1>4, <1>5 DEF Inv

LEMMA CommandHolds ==
  ASSUME Inv, NEW p \in Procs, UNCHANGED plan,
         \/ SyncRead(p) \/ SyncConfirm(p) \/ SyncStage(p) \/ SyncSwap(p) \/ SyncSwapCut(p)
         \/ RecoverRead(p) \/ RecoverJournal(p)
         \/ Uninstall(p) \/ FinishUninstall(p) \/ FinishCut(p)
         \/ \E id \in Ids : Rollback(p, id)
         \/ RollbackSync(p) \/ Stop(p)
  PROVE  Inv'
<1>1. CASE SyncRead(p)
  <2>1. PICK wanted \in plan.wants : BeginSync(p, wanted[1], wanted[2], wanted[3])
    BY <1>1 DEF SyncRead
  <2>2. plan.wants \subseteq Ids \X Versions \X Projects
    BY LocalAssumption DEF Inv, TypeOK, LocalAssumption
  <2>3. wanted[1] \in Ids /\ wanted[2] \in Versions /\ wanted[3] \in Projects
    BY <2>2
  <2> QED
    BY <2>1, <2>3, BeginSyncHolds
<1>2. CASE Uninstall(p)
  <2>1. PICK id \in {i \in Ids : projection[i] # 0} :
          \E project \in Projects \cup {None} : BeginUninstall(p, id, project)
    BY <1>2, Zenon DEF Uninstall
  <2>2. PICK project \in Projects \cup {None} : BeginUninstall(p, id, project)
    BY <2>1
  <2> QED
    BY <2>1, <2>2, BeginUninstallHolds
<1>3. CASE RollbackSync(p)
  <2>1. /\ proc[p].step = "rollback" /\ BeginSync(p, proc[p].id, proc[p].version, proc[p].project)
    BY <1>3 DEF RollbackSync
  <2>2. proc[p].id \in Ids /\ proc[p].version \in Versions /\ proc[p].project \in Projects
    BY <2>1, ProcessKinds DEF Inv, TypeOK
  <2> QED
    BY <2>1, <2>2, BeginSyncHolds
<1>4. CASE Stop(p)
  BY <1>4, EndHolds DEF Stop
<1>5. CASE SyncConfirm(p) \/ SyncStage(p) \/ SyncSwap(p) \/ SyncSwapCut(p)
  BY <1>5, SyncConfirmHolds, SyncStageHolds, SyncSwapHolds, SyncSwapCutHolds
<1>6. CASE RecoverRead(p) \/ RecoverJournal(p)
  BY <1>6, RecoverReadHolds, RecoverJournalHolds
<1>7. CASE FinishUninstall(p) \/ FinishCut(p)
  BY <1>7, FinishUninstallHolds, FinishCutHolds
<1>8. CASE \E id \in Ids : Rollback(p, id)
  BY <1>8, RollbackHolds
<1> QED
  BY <1>1, <1>2, <1>3, <1>4, <1>5, <1>6, <1>7, <1>8

\* The invariant holds in every state: links, records, journals and what the commands carry
\* agree, whatever the commands do between each other's steps and wherever they die.
THEOREM LinksAndRecordsAgree == Spec => []Inv
<1>1. Init => Inv
  BY InitHolds
<1>2. Inv /\ [Next]_vars => Inv'
  <2> SUFFICES ASSUME Inv, [Next]_vars PROVE Inv'
    OBVIOUS
  <2>1. CASE UNCHANGED vars
    BY <2>1, StutterHolds
  <2>2. CASE Next
    <3>1. UNCHANGED plan /\ Step
      BY <2>2 DEF Next
    <3>2. CASE \E id \in Ids : Approve(id)
      BY <3>1, <3>2, ApproveHolds
    <3>3. CASE \E path \in Paths : Meddle(path)
      BY <3>1, <3>3, MeddleHolds
    <3>4. CASE \E p \in Procs :
                 \/ SyncRead(p) \/ SyncConfirm(p) \/ SyncStage(p) \/ SyncSwap(p) \/ SyncSwapCut(p)
                 \/ RecoverRead(p) \/ RecoverJournal(p)
                 \/ Uninstall(p) \/ FinishUninstall(p) \/ FinishCut(p)
                 \/ \E id \in Ids : Rollback(p, id)
                 \/ RollbackSync(p) \/ Stop(p)
      BY <3>1, <3>4, CommandHolds, Zenon
    <3> QED
      BY <3>1, <3>2, <3>3, <3>4, Zenon DEF Step
  <2> QED
    BY <2>1, <2>2
<1> QED
  BY <1>1, <1>2, PTL DEF Spec

-----------------------------------------------------------------------------
(* What follows from it.                                                    *)

\* Links, store and commands keep their types (projections.ts, store.ts).
THEOREM TypesHold == Spec => []TypeOK
<1>1. Inv => TypeOK
  BY DEF Inv
<1> QED
  BY <1>1, LinksAndRecordsAgree, PTL

\* Link and store agree but for a swap that recover still finds (projections.ts:162-191 and
\* 346-366).
THEOREM SwapsAlwaysReconciled == Spec => []SwapsReconciled
<1>1. Inv => SwapsReconciled
  BY DEF Inv
<1> QED
  BY <1>1, LinksAndRecordsAgree, PTL

\* One record for a path, an owner for every record (projections.ts:258-273).
THEOREM RecordsAlwaysConsistent == Spec => []RecordsConsistent
<1>1. Inv => RecordsConsistent
  BY DEF Inv, RecordsConsistent
<1> QED
  BY <1>1, LinksAndRecordsAgree, PTL

\* What a sync answered stays until it is asked away (projections.ts:439-447).
THEOREM InstalledAlwaysStays == Spec => []InstalledStays
<1>1. Inv => InstalledStays
  BY DEF Inv
<1> QED
  BY <1>1, LinksAndRecordsAgree, PTL

\* An announced removal never blocks recover (projections.ts:169-191).
THEOREM RemovalsCanFinish == Spec => []UninstallCanFinish
<1>1. Inv => UninstallCanFinish
  <2> SUFFICES ASSUME Inv, NEW i \in Ids, leaving[i] # 0,
                      PathOf[i] \notin overrun, link[PathOf[i]] # Foreign
               PROVE  Finishable(leaving[i])
    BY DEF UninstallCanFinish
  <2>1. made[leaving[i]].id = i
    BY DEF Inv, References, Made
  <2>2. link[PathOf[i]] \in {0, leaving[i]} /\ ~Shared(i)
    BY DEF Inv, RemovalsReady
  <2>3. owners[i] \in SUBSET Projects
    BY DEF Inv, TypeOK
  <2>4. Cardinality(owners[i]) <= 1
    BY <2>2, <2>3, OwnersCounted DEF Shared
  <2> QED
    BY <2>1, <2>2, <2>4 DEF Finishable, Verified, LinkOf
<1> QED
  BY <1>1, LinksAndRecordsAgree, PTL

\* Nothing runs with permissions nobody reviewed (approvedTrust, projections.ts:207-235).
THEOREM AlwaysReviewedBeforeUse == Spec => []ReviewedBeforeUse
<1>1. Inv => ReviewedBeforeUse
  BY DEF Inv, AllGranted, References, Made, ReviewedBeforeUse
<1> QED
  BY <1>1, LinksAndRecordsAgree, PTL

\* What keeps the record of an id, and the generations, keeps its content.
LEMMA ContentKept ==
  ASSUME Inv, NEW i \in Ids, projection'[i] = projection[i],
         \A g \in 1..staged : made'[g] = made[g]
  PROVE  Content(i)' = Content(i)
BY DEF Inv, References, Made, Content

\* What a confirmed record replaced is not recorded, where no path is overrun.
LEMMA ConfirmKeepsShared ==
  ASSUME Inv, NEW p \in Procs, SyncConfirm(p), NEW i \in Ids, Shared(i), PathOf[i] \notin overrun'
  PROVE  Content(i)' = Content(i)
<1> DEFINE s == proc[p]
           gone == made[s.old].replaces
<1>1. s.step = "confirm" /\ UNCHANGED <<made, overrun>>
  BY DEF SyncConfirm, Throw, disk, ghosts
<1>2. s.id \in Ids /\ s.old # 0 /\ Made(s.old, s.id)
  BY <1>1, SyncNotes DEF SyncSteps, Knows
<1>3. CASE Throw(p)
  BY <1>3, ContentKept DEF Throw, disk, store
<1>4. CASE /\ Current(s.old)
           /\ projection' = [j \in Ids |-> IF j = gone THEN 0 ELSE projection[j]]
  <2>1. projection[s.id] = s.old
    BY <1>2, <1>4 DEF Current, Made
  <2>2. i = gone => i # s.id /\ PathOf[i] = PathOf[s.id]
    BY <1>2, Constants DEF Inv, RecordsSound, Made
  <2>3. projection[i] # 0
    BY DEF Inv, RecordsOwned, Shared
  <2>4. i # gone
    BY <1>1, <1>2, <2>1, <2>2, <2>3 DEF Inv, OneRecordPerPath
  <2> QED
    BY <1>1, <1>4, <2>4, ContentKept
<1> QED
  BY <1>3, <1>4 DEF SyncConfirm

\* A swap leaves a shared projection at its path its content.
LEMMA SwapKeepsShared ==
  ASSUME Inv, NEW p \in Procs, SyncSwap(p), NEW i \in Ids, Shared(i), PathOf[i] \notin overrun'
  PROVE  Content(i)' = Content(i)
<1> USE Constants
<1> DEFINE s == proc[p]
           gone == made[s.gen].replaces
<1>1. s.step = "swap"
  BY DEF SyncSwap
<1>2. CASE SwapAllowed(s)
  <2>1. /\ Rename(s)
        /\ projection' = [j \in Ids |-> IF j = s.id THEN s.gen ELSE IF j = gone THEN 0 ELSE projection[j]]
        /\ made' = made
    BY <1>2 DEF SyncSwap
  <2>2. /\ s.gen \in 1..staged /\ s.gen # 0 /\ made[s.gen].version = s.version /\ gone # s.id
        /\ gone # None => PathOf[gone] = PathOf[s.id]
        /\ s.replaced # 0 => gone = made[s.replaced].id
        /\ overrun \subseteq overrun'
    BY <1>1, <2>1, SwapFacts
  <2>3. projection[i] # 0
    BY DEF Inv, RecordsOwned, Shared
  <2>4. ASSUME PathOf[i] = PathOf[s.id]
        PROVE  /\ i = s.id => projection[i] = s.old /\ s.old # 0 /\ made[s.old].version = s.version
               /\ i # gone
    <3>1. PathOf[i] \notin overrun /\ Existing(s) # 0
      BY <1>1, <2>1, <2>2, <2>3, <2>4, SwapFacts
    <3>2. /\ projection[i] = Existing(s)
          /\ i = s.id => s.old # 0 /\ (Shared(i) => made[s.old].version = s.version)
          /\ i # s.id => ~Shared(i)
      BY <1>1, <1>2, <2>3, <2>4, <3>1, SwapAffects
    <3>3. i = s.id
      BY <3>2
    <3>4. projection[i] = s.old
      BY <3>2, <3>3 DEF Existing
    <3> QED
      BY <2>2, <3>2, <3>3, <3>4
  <2>5. i # gone
    BY <2>2, <2>4
  <2>6. CASE i = s.id
    <3>1. projection'[i] = s.gen /\ made[projection[i]].version = made[s.gen].version
      BY <2>1, <2>2, <2>4, <2>6
    <3> QED
      BY <2>1, <2>2, <2>3, <3>1 DEF Content
  <2>7. CASE i # s.id
    <3>1. projection'[i] = projection[i]
      BY <2>1, <2>5, <2>7
    <3> QED
      BY <2>1, <3>1, ContentKept
  <2> QED
    BY <2>6, <2>7
<1>3. CASE ~SwapAllowed(s)
  <2>1. UNCHANGED <<projection, made>>
    BY <1>3 DEF SyncSwap, Throw, disk, store
  <2> QED
    BY <2>1, ContentKept
<1> QED
  BY <1>2, <1>3

LEMMA RecoverKeepsShared ==
  ASSUME Inv, NEW p \in Procs, RecoverJournal(p), NEW i \in Ids, Shared(i), PathOf[i] \notin overrun'
  PROVE  Content(i)' = Content(i)
<1>1. made' = made /\ overrun' = overrun /\ projection[i] # 0
  BY DEF RecoverJournal, disk, Inv, RecordsOwned, Shared
<1>2. ASSUME NEW g \in Reached, link[PathOf[i]] = g
      PROVE  i = made[g].id /\ made[projection[i]].version = made[g].version
  BY <1>1, <1>2, ReachedFacts DEF Inv, ShownAs
<1>3. CASE LeftAlone(i)
  BY <1>1, <1>3, ContentKept DEF LeftAlone
<1>4. CASE \E g \in Reached : AdoptedBy(i, g) /\ link[PathOf[i]] = g
  <2>1. PICK g \in Reached : AdoptedBy(i, g) /\ link[PathOf[i]] = g
    BY <1>4
  <2>2. projection'[i] = g /\ g # 0 /\ made[projection[i]].version = made[g].version
    BY <1>2, <2>1, ReachedFacts DEF AdoptedBy
  <2> QED
    BY <1>1, <2>2 DEF Content
<1>5. CASE \E g \in Reached : DroppedFor(i, g) /\ link[PathOf[i]] = g
  BY <1>2, <1>5, ReachedFacts DEF DroppedFor
<1> QED
  BY <1>3, <1>4, <1>5, RecoverEffect

LEMMA FinishKeepsShared ==
  ASSUME Inv, NEW p \in Procs, FinishUninstall(p), NEW i \in Ids, Shared(i)
  PROVE  Content(i)' = Content(i)
<1> DEFINE id == made[proc[p].gen].id
<1>1. made' = made
  BY DEF FinishUninstall, disk, Throw
<1>2. proc[p].step = "finish"
  BY DEF FinishUninstall
<1>3. id \in Ids
  BY <1>2, RemovalNotes
<1>4. \/ projection' = projection
      \/ Finishable(proc[p].gen) /\ projection' = [projection EXCEPT ![id] = 0]
  BY DEF FinishUninstall, Throw, store
<1>5. Finishable(proc[p].gen) => i # id
  <2>1. owners[id] \in SUBSET Projects
    BY <1>3 DEF Inv, TypeOK
  <2> QED
    BY <2>1, OwnersCounted DEF Finishable, Shared
<1>6. projection'[i] = projection[i]
  BY <1>4, <1>5 DEF Inv, TypeOK
<1> QED
  BY <1>1, <1>6, ContentKept

LEMMA StageKeepsShared ==
  ASSUME Inv, NEW p \in Procs, SyncStage(p), NEW i \in Ids
  PROVE  Content(i)' = Content(i)
<1>1. projection' = projection
  BY DEF SyncStage
<1>2. \E r : made' = [made EXCEPT ![staged + 1] = r]
  BY DEF SyncStage
<1>3. \A g \in 1..staged : g \in Gens /\ g # staged + 1
  BY StagedGens DEF Inv
<1>4. \A g \in 1..staged : made'[g] = made[g]
  BY <1>2, <1>3 DEF Inv, TypeOK
<1> QED
  BY <1>1, <1>4, ContentKept

\* While two projects own a projection, no command changes what it shows
\* (assertReplacementOwner inside the transaction, projections.ts:350).
THEOREM SharedAlwaysStays == Spec => SharedStays
<1>1. Inv /\ [Next]_vars =>
        [\A i \in Ids : Cardinality(owners[i]) > 1 /\ PathOf[i] \notin overrun' =>
           Content(i)' = Content(i)]_vars
  <2> SUFFICES ASSUME Inv, Next, NEW i \in Ids, Cardinality(owners[i]) > 1, PathOf[i] \notin overrun'
               PROVE  Content(i)' = Content(i)
    OBVIOUS
  <2>1. Shared(i)
    BY OwnersCounted DEF Inv, TypeOK, Shared
  <2>2. Step
    BY DEF Next
  <2>3. CASE \E id \in Ids : Approve(id)
    BY <2>3, ContentKept DEF Approve, disk
  <2>4. CASE \E path \in Paths : Meddle(path)
    BY <2>4, ContentKept DEF Meddle, store
  <2>5. ASSUME NEW p \in Procs,
               \/ SyncRead(p) \/ SyncConfirm(p) \/ SyncStage(p) \/ SyncSwap(p) \/ SyncSwapCut(p)
               \/ RecoverRead(p) \/ RecoverJournal(p)
               \/ Uninstall(p) \/ FinishUninstall(p) \/ FinishCut(p)
               \/ \E id \in Ids : Rollback(p, id)
               \/ RollbackSync(p) \/ Stop(p)
        PROVE  Content(i)' = Content(i)
    <3>1. CASE \/ SyncConfirm(p) \/ SyncStage(p) \/ SyncSwap(p) \/ RecoverJournal(p)
               \/ FinishUninstall(p)
      BY <2>1, <3>1, ConfirmKeepsShared, StageKeepsShared, SwapKeepsShared, RecoverKeepsShared,
         FinishKeepsShared
    <3>2. ASSUME NEW id, NEW version, NEW project, BeginSync(p, id, version, project)
          PROVE  UNCHANGED <<projection, made>>
      BY <3>2 DEF BeginSync, Throw, disk, store
    <3>3. CASE SyncRead(p) \/ RollbackSync(p)
      BY <3>2, <3>3, ContentKept DEF SyncRead, RollbackSync
    <3>4. ASSUME NEW id, NEW project, BeginUninstall(p, id, project)
          PROVE  UNCHANGED <<projection, made>>
      BY <3>4 DEF BeginUninstall, Throw, disk, store
    <3>5. CASE Uninstall(p)
      BY <3>4, <3>5, ContentKept DEF Uninstall
    <3>6. CASE SyncSwapCut(p) \/ RecoverRead(p) \/ FinishCut(p) \/ Stop(p)
      BY <3>6, ContentKept DEF SyncSwapCut, RecoverRead, FinishCut, Stop, Throw, disk, store
    <3>7. CASE \E id \in Ids : Rollback(p, id)
      BY <3>7, ContentKept DEF Rollback, disk
    <3> QED
      BY <2>5, <3>1, <3>3, <3>5, <3>6, <3>7
  <2> QED
    BY <2>2, <2>3, <2>4, <2>5, Zenon DEF Step
<1> QED
  BY <1>1, LinksAndRecordsAgree, PTL DEF Spec, SharedStays
=============================================================================
