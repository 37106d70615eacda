---------------------- MODULE ProjectionPipelineProofs ----------------------
(***************************************************************************)
(* What the projection pipeline shows the public, for every set of         *)
(* workspaces, skills, regions and drainers and all bounds: the directory, *)
(* the counters and the routes are always what a prefix of each workspace's *)
(* log adds up to, and what the whole log adds up to is what the cell      *)
(* holds.  From that: the order of delivery, the totals, the visible head  *)
(* and, once the log is drained, that nothing is missing.                  *)
(***************************************************************************)
EXTENDS ProjectionOutboxProofs, FiniteSetTheorems

-----------------------------------------------------------------------------
(***************************************************************************)
(* The invariant.                                                          *)
(***************************************************************************)
\* Rows before an item that a drainer has in its hands are settled.
Oldest(item) ==
  \A m \in 1..(item[2] - 1) : outbox[item[1]][m].status # "pending"

OldestInHand ==
  \A d \in Drainers :
    /\ \A item \in todo[d] : Oldest(item)
    /\ pc[d] \in {"apply", "ack"} => Oldest(current[d])

\* An event has its effect only when all before it are settled.
InOrder ==
  \A w \in Workspaces : \A n \in 1..Len(outbox[w]) :
    Effected(w, n) => \A m \in 1..(n - 1) : outbox[w][m].status # "pending"

\* The events that workspace w has committed.
Log(w) == [n \in 1..Len(outbox[w]) |-> outbox[w][n].event]

\* Events that the directory takes.
Direct(ev) == ev.kind \in {"published", "unpublished"}
Directs(log, s, n) == log[n].skill = s /\ Direct(log[n])

\* The versions of skill s that the first k events of a log leave visible.
Standing(log, s, k) ==
  {v \in Versions : \E n \in 1..k :
     /\ Directs(log, s, n) /\ log[n].kind = "published" /\ log[n].version = v
     /\ \A m \in (n + 1)..k : Directs(log, s, m) => log[m].kind = "published"}

\* The sum of the deltas of the first k events of a log.
Deltas(log, k, delta) == {n \in 1..k : log[n].delta = delta}
Balance(log, k) == Cardinality(Deltas(log, k, 1)) - Cardinality(Deltas(log, k, -1))

\* Later events carry later epochs, up to that of the writes admitted now.
EpochsRise(w) ==
  \A n \in 1..Len(outbox[w]) :
    /\ outbox[w][n].epoch <= HomeEpoch(w)
    /\ \A m \in 1..n : outbox[w][m].epoch <= outbox[w][n].epoch

\* A skill has one route event, its creation's.
RoutedOnce(log, skills) ==
  \A n \in 1..Len(log) : log[n].kind = "route" =>
    /\ skills[log[n].skill].current > 0
    /\ \A m \in 1..Len(log) : log[m].kind = "route" /\ log[m].skill = log[n].skill => m = n

\* A version other than the current one is announced behind another of the same head.
HeadFirst(log) ==
  \A n \in 1..Len(log) : log[n].kind = "published" =>
    /\ log[n].version \in Versions
    /\ log[n].version # log[n].current =>
         /\ n > 1 /\ Directs(log, log[n].skill, n - 1)
         /\ log[n - 1].kind = "published" /\ log[n - 1].current = log[n].current

\* A log leaves of skill s what its state sk shows the public.
LogShows(log, s, sk) ==
  /\ Standing(log, s, Len(log)) = PublicVersions(sk)
  /\ \A n \in 1..Len(log) :
       /\ Directs(log, s, n) /\ log[n].kind = "published"
       /\ \A m \in (n + 1)..Len(log) : ~Directs(log, s, m)
       => log[n].current = sk.current

\* A log adds up to the number of skills that count.
LogCounts(log, counting) ==
  /\ \A n \in 1..Len(log) : log[n].delta # 0 <=> log[n].kind = "count"
  /\ IsFiniteSet(counting)
  /\ Balance(log, Len(log)) = Cardinality(counting)

LogInv ==
  \A w \in Workspaces :
    /\ EpochsRise(w) /\ RoutedOnce(Log(w), skill[w]) /\ HeadFirst(Log(w))
    /\ LogCounts(Log(w), Counting(w))
    /\ \A s \in Skills : LogShows(Log(w), s, skill[w][s])

\* A directory entry is what its last event, and the log up to it, left.
EntryInv(log, s, entry) ==
  LET ev == log[entry.seq] IN
  /\ entry.seq \in 0..Len(log)
  /\ entry.seq = 0 => entry.state = "absent" /\ \A v \in Versions : entry.rows[v].state = "absent"
  /\ entry.seq > 0 =>
       /\ Directs(log, s, entry.seq) /\ entry.state = ev.kind
       /\ ev.kind = "published" =>
            /\ entry.current = ev.current
            /\ entry.rows[ev.version] = [seq |-> entry.seq, state |-> "published"]
       /\ ev.kind = "unpublished" =>
            /\ entry.current = ev.version
            /\ \A v \in Versions : entry.rows[v].state # "absent" => entry.withdrawn[v] = entry.seq
  /\ \A v \in Versions :
       /\ entry.rows[v].seq <= entry.seq /\ entry.withdrawn[v] <= entry.seq
       /\ entry.rows[v].state = "published" =>
            entry.state = "published" /\ entry.withdrawn[v] < entry.seq
  /\ Visible(entry) = Standing(log, s, entry.seq)
  /\ entry.state = "published" => entry.current \in Visible(entry)

\* The counter is what the log up to its checkpoint adds up to.
CounterInv(w) ==
  LET c == counter[w].checkpoint IN
  /\ c.seq \in 0..Len(outbox[w])
  /\ c.seq = 0 => c.epoch = 0
  /\ c.seq > 0 => outbox[w][c.seq].event.kind = "count" /\ c.epoch = outbox[w][c.seq].epoch
  /\ counter[w].total = Balance(Log(w), c.seq)

ControlInv ==
  /\ \A w \in Workspaces : CounterInv(w) /\ \A s \in Skills : EntryInv(Log(w), s, directory[w][s])
  /\ \A w \in Workspaces, s \in Skills : <<w, s>> \in routes => skill[w][s].current > 0

\* A drainer that is about to apply a pending event is in the workspace's cell.
MovedSettled ==
  /\ \A w \in Workspaces : move[w] \in {"drained", "resumed"} => Drained(w)
  /\ \A d \in Drainers :
       LET w == current[d][1] IN
       pc[d] = "apply" /\ outbox[w][current[d][2]].status = "pending" =>
         cell[d] = placement[w].region
-----------------------------------------------------------------------------
(***************************************************************************)
(* The log.  A committed event keeps its place; a settled one stays so.    *)
(***************************************************************************)
SettledStays ==
  \A w \in Workspaces : \A n \in 1..Len(outbox[w]) :
    outbox[w][n].status # "pending" => outbox'[w][n].status # "pending"

\* What a commit adds to the log: its events, all under the route's epoch.
Appended(w, evs, e) ==
  /\ Len(outbox'[w]) = Len(outbox[w]) + Len(evs)
  /\ \A n \in 1..Len(outbox[w]) : outbox'[w][n] = outbox[w][n]
  /\ \A n \in 1..Len(evs) :
       LET row == outbox'[w][Len(outbox[w]) + n] IN
       row.event = evs[n] /\ row.epoch = e /\ row.status = "pending"
  /\ \A u \in Workspaces \ {w} : outbox'[u] = outbox[u]

LEMMA CommitLog ==
  ASSUME TypeOK, Dense, NEW w \in Workspaces, NEW s \in Skills,
         NEW sk \in SkillStates, NEW evs \in Seq(Events), Commit(w, s, sk, evs)
  PROVE  \E route \in routed[w] :
           /\ route.region = placement[w].region /\ Admits(w, route)
           /\ Appended(w, evs, route.epoch)
<1>1. PICK route \in routed[w] :
        /\ route.region = placement[w].region /\ Admits(w, route)
        /\ IF evs = <<>>
             THEN UNCHANGED <<outbox, lastSequence>>
             ELSE outbox' = [outbox EXCEPT ![w] = Extended(w, evs, route.epoch)]
  BY DEF Commit
<1>2. \A u \in Workspaces : outbox[u] \in Seq(Rows) /\ Len(outbox[u]) \in Nat
  BY LenProperties DEF TypeOK
<1>3. CASE evs = <<>>
  BY <1>1, <1>2, <1>3 DEF Appended
<1>4. CASE evs # <<>>
  <2> DEFINE new == Extended(w, evs, route.epoch)
             L == Len(outbox[w])
  <2>1. route.epoch \in Nat
    BY DEF TypeOK
  <2>2. /\ Len(new) = L + Len(evs)
        /\ \A n \in 1..L : new[n] = outbox[w][n]
        /\ \A n \in 1..Len(evs) : new[L + n] = NewRow(evs[n], route.epoch)
    BY <2>1, ExtendedAppends
  <2>3. outbox' = [outbox EXCEPT ![w] = new] /\ outbox \in [Workspaces -> Seq(Rows)]
    BY <1>1, <1>4 DEF TypeOK
  <2>. HIDE DEF new, L
  <2>4. outbox'[w] = new /\ \A u \in Workspaces \ {w} : outbox'[u] = outbox[u]
    BY <2>3
  <2>5. \A n \in 1..Len(evs) :
          LET row == outbox'[w][L + n] IN
          row.event = evs[n] /\ row.epoch = route.epoch /\ row.status = "pending"
    <3>1. \A ev, x : LET row == NewRow(ev, x) IN
                    row.event = ev /\ row.epoch = x /\ row.status = "pending"
      BY DEF NewRow
    <3>2. \A n \in 1..Len(evs) : outbox'[w][L + n] = NewRow(evs[n], route.epoch)
      BY <2>2, <2>4
    <3>. QED  BY <3>1, <3>2
  <2>6. Appended(w, evs, route.epoch)
    BY <2>2, <2>4, <2>5 DEF Appended, L
  <2>. QED  BY <1>1, <2>6
<1>. QED  BY <1>3, <1>4

LEMMA AppendedKeepsSettled ==
  ASSUME TypeOK, NEW w \in Workspaces, NEW evs, NEW e, Appended(w, evs, e)
  PROVE  SettledStays
BY DEF Appended, SettledStays

LEMMA ReleasedKeepsSettled ==
  ASSUME TypeOK, NEW d, NEW items, outbox' = Released(d, items)
  PROVE  SettledStays
<1> SUFFICES ASSUME NEW w \in Workspaces, NEW n \in 1..Len(outbox[w])
             PROVE  outbox'[w][n].status = outbox[w][n].status
  BY DEF SettledStays
<1>1. outbox[w][n] \in Rows /\ n \in DOMAIN outbox[w]
  BY OutboxType
<1>2. \/ outbox'[w][n] = outbox[w][n]
      \/ outbox'[w][n] = [outbox[w][n] EXCEPT !.token = None, !.live = FALSE]
  BY <1>1 DEF Released
<1>. QED  BY <1>1, <1>2 DEF Rows

LEMMA DrainerKeepsSettled ==
  ASSUME TypeOK, InHand, NEW d \in Drainers, DrainerStep(d)
  PROVE  SettledStays
<1>1. CASE Claim(d)
  <2>1. PICK r \in Regions :
          LET rows == Eligible(r, IF pc[d] = "idle" THEN {} ELSE blocked[d])
          IN  outbox' = [w \in Workspaces |-> [n \in DOMAIN outbox[w] |->
                           IF <<w, n>> \in rows
                             THEN [outbox[w][n] EXCEPT !.token = d, !.live = TRUE]
                             ELSE outbox[w][n]]]
    BY <1>1, Zenon DEF Claim
  <2> SUFFICES ASSUME NEW w \in Workspaces, NEW n \in 1..Len(outbox[w])
               PROVE  outbox'[w][n].status = outbox[w][n].status
    BY DEF SettledStays
  <2>2. outbox[w][n] \in Rows /\ n \in DOMAIN outbox[w]
    BY OutboxType
  <2>3. \/ outbox'[w][n] = outbox[w][n]
        \/ outbox'[w][n] = [outbox[w][n] EXCEPT !.token = d, !.live = TRUE]
    BY <2>1, <2>2
  <2>. QED  BY <2>2, <2>3 DEF Rows
<1>2. CASE Check(d)
  <2>1. outbox' = outbox \/ \E items : outbox' = Released(d, items)
    BY <1>2 DEF Check, FailItem
  <2>. QED  BY <2>1, ReleasedKeepsSettled DEF SettledStays
<1>3. CASE Ack(d)
  <2> DEFINE w == current[d][1]
             n == current[d][2]
  <2>1. w \in Workspaces /\ n \in 1..Len(outbox[w]) /\ current[d] = <<w, n>>
    BY <1>3 DEF Ack, InHand, Items
  <2>2. CASE RowOf(current[d]).token = d /\ RowOf(current[d]).status = "pending"
    <3> DEFINE row == [outbox[w][n] EXCEPT !.token = None, !.live = FALSE,
                                           !.status = "processed"]
    <3>1. outbox' = [outbox EXCEPT ![w][n] = row]
      BY <1>3, <2>2 DEF Ack
    <3>2. outbox[w][n] \in Rows
      BY <2>1, OutboxType
    <3>3. row.status = "processed"
      BY <3>2 DEF Rows
    <3>4. n \in DOMAIN outbox[w] /\ outbox \in [Workspaces -> Seq(Rows)]
      BY <2>1, OutboxType DEF TypeOK
    <3>. HIDE DEF row
    <3>5. \A u \in Workspaces : \A m \in 1..Len(outbox[u]) :
            outbox'[u][m] = IF u = w /\ m = n THEN row ELSE outbox[u][m]
      BY <2>1, <3>1, <3>4
    <3>. QED  BY <3>3, <3>5 DEF SettledStays
  <2>3. CASE ~(RowOf(current[d]).token = d /\ RowOf(current[d]).status = "pending")
    <3>1. outbox' = Released(d, {current[d]})
      BY <1>3, <2>3 DEF Ack, FailItem
    <3>. QED  BY <3>1, ReleasedKeepsSettled
  <2>. QED  BY <2>2, <2>3
<1>4. CASE Fail(d)
  <2>1. outbox' = Released(d, {current[d]})
    BY <1>4 DEF Fail, FailItem
  <2>. QED  BY <2>1, ReleasedKeepsSettled
<1>5. CASE Finish(d)
  <2>1. outbox' = Released(d, todo[d])
    BY <1>5 DEF Finish
  <2>. QED  BY <2>1, ReleasedKeepsSettled
<1>6. CASE Apply(d) \/ Crash(d)
  <2>1. UNCHANGED outbox
    BY <1>6 DEF Apply, Crash, region
  <2>. QED  BY <2>1 DEF SettledStays
<1>. QED  BY <1>1, <1>2, <1>3, <1>4, <1>5, <1>6 DEF DrainerStep

LEMMA RowStepKeepsSettled ==
  ASSUME TypeOK, NEW w \in Workspaces, NEW n \in DOMAIN outbox[w], RowStep(w, n)
  PROVE  SettledStays
<1>1. outbox[w][n] \in Rows /\ outbox \in [Workspaces -> Seq(Rows)]
  BY OutboxType DEF TypeOK
<1>2. PICK row :
        /\ row.status = "pending" => outbox[w][n].status = "pending"
        /\ outbox' = [outbox EXCEPT ![w][n] = row]
  <2>1. CASE LapseClaim(w, n) \/ OverrunLease(w, n)
    <3>1. outbox' = [outbox EXCEPT ![w][n] = [outbox[w][n] EXCEPT !.live = FALSE]]
      BY <1>1, <2>1 DEF LapseClaim, OverrunLease
    <3>. QED  BY <1>1, <3>1 DEF Rows
  <2>2. CASE RetireRow(w, n)
    <3>1. outbox' = [outbox EXCEPT ![w][n] = [outbox[w][n] EXCEPT !.status = "retired"]]
      BY <1>1, <2>2 DEF RetireRow
    <3>. QED  BY <1>1, <3>1 DEF Rows
  <2>. QED  BY <2>1, <2>2 DEF RowStep
<1>3. \A u \in Workspaces : \A m \in 1..Len(outbox[u]) :
        outbox'[u][m] = IF u = w /\ m = n THEN row ELSE outbox[u][m]
  <2>1. \A u \in Workspaces : DOMAIN outbox[u] = 1..Len(outbox[u])
    BY OutboxType
  <2>. QED  BY <1>1, <1>2, <2>1
<1>. QED  BY <1>2, <1>3 DEF SettledStays
-----------------------------------------------------------------------------
(***************************************************************************)
(* Drainers work on the oldest events that are not settled.                *)
(***************************************************************************)

\* A step of drainer d takes events up for work from those it claimed.
LEMMA Hands ==
  ASSUME TypeOK, NEW d \in Drainers, DrainerStep(d)
  PROVE  /\ \A x \in Drainers :
              pc'[x] \in {"apply", "ack"} =>
                \/ pc[x] \in {"apply", "ack"} /\ current'[x] = current[x]
                \/ current'[x] \in todo[x]
         /\ Claim(d) \/ \A x \in Drainers : todo'[x] \subseteq todo[x]
<1>1. /\ pc \in [Drainers -> {"idle", "run", "apply", "ack"}]
      /\ todo \in [Drainers -> SUBSET Items]
      /\ current \in [Drainers -> Items \cup {<<>>}]
  BY DEF TypeOK
<1>2. CASE Claim(d)
  <2>1. pc' = [pc EXCEPT ![d] = "run"] /\ UNCHANGED current
    BY <1>2 DEF Claim
  <2>. QED  BY <1>1, <1>2, <2>1
<1>3. CASE Check(d)
  <2>1. PICK item \in todo[d] :
          /\ todo' = [todo EXCEPT ![d] = @ \ {item}]
          /\ \/ /\ pc' = [pc EXCEPT ![d] = "apply"]
                /\ current' = [current EXCEPT ![d] = item]
             \/ /\ pc' = [pc EXCEPT ![d] = "run"]
                /\ current' = [current EXCEPT ![d] = <<>>]
    BY <1>3 DEF Check, FailItem
  <2>. QED  BY <1>1, <2>1
<1>4. CASE Apply(d)
  <2>1. pc[d] = "apply" /\ pc' = [pc EXCEPT ![d] = "ack"] /\ UNCHANGED <<todo, current>>
    BY <1>4 DEF Apply
  <2>. QED  BY <1>1, <2>1
<1>5. CASE Ack(d) \/ Fail(d)
  <2>1. /\ pc' = [pc EXCEPT ![d] = "run"] /\ current' = [current EXCEPT ![d] = <<>>]
        /\ UNCHANGED todo
    BY <1>5 DEF Ack, Fail, FailItem
  <2>. QED  BY <1>1, <2>1
<1>6. CASE Finish(d)
  <2>1. /\ pc' = [pc EXCEPT ![d] = "idle"] /\ todo' = [todo EXCEPT ![d] = {}]
        /\ UNCHANGED current
    BY <1>6 DEF Finish
  <2>. QED  BY <1>1, <2>1
<1>7. CASE Crash(d)
  <2>1. /\ pc' = [pc EXCEPT ![d] = "idle"] /\ todo' = [todo EXCEPT ![d] = {}]
        /\ current' = [current EXCEPT ![d] = <<>>]
    BY <1>7 DEF Crash
  <2>. QED  BY <1>1, <2>1
<1>. QED  BY <1>2, <1>3, <1>4, <1>5, <1>6, <1>7 DEF DrainerStep

LEMMA OldestItem ==
  ASSUME TypeOK, SettledStays, NEW item \in Items,
         item[2] \in 1..Len(outbox[item[1]]), Oldest(item)
  PROVE  Oldest(item)'
<1>1. item[1] \in Workspaces /\ item[2] \in Nat
  BY DEF Items
<1>2. \A m \in 1..(item[2] - 1) : m \in 1..Len(outbox[item[1]])
  BY <1>1, OutboxType
<1>. QED  BY <1>1, <1>2 DEF Oldest, SettledStays

LEMMA OldestKept ==
  ASSUME TypeInv, OldestInHand, SettledStays,
         \A d \in Drainers :
           /\ pc'[d] \in {"apply", "ack"} =>
                \/ pc[d] \in {"apply", "ack"} /\ current'[d] = current[d]
                \/ current'[d] \in todo[d]
           /\ todo'[d] \subseteq todo[d]
  PROVE  OldestInHand'
<1> SUFFICES ASSUME NEW d \in Drainers
             PROVE  /\ \A item \in todo'[d] : Oldest(item)'
                    /\ pc'[d] \in {"apply", "ack"} => Oldest(current[d])'
  BY DEF OldestInHand, Oldest
<1>1. \A item \in todo[d] : item \in Items /\ item[2] \in 1..Len(outbox[item[1]]) /\ Oldest(item)
  BY DEF TypeInv, TypeOK, InHand, OldestInHand
<1>2. \A item \in todo[d] : Oldest(item)'
  BY <1>1, OldestItem DEF TypeInv
<1>3. ASSUME pc[d] \in {"apply", "ack"}, current'[d] = current[d]
      PROVE  Oldest(current[d])'
  <2>1. PICK item : item = current[d]
    OBVIOUS
  <2>2. item \in Items /\ item[2] \in 1..Len(outbox[item[1]]) /\ Oldest(item)
    BY <1>3, <2>1 DEF TypeInv, InHand, OldestInHand
  <2>3. Oldest(item)'
    BY <2>2, OldestItem DEF TypeInv
  <2>. QED  BY <1>3, <2>1, <2>3 DEF Oldest
<1>4. ASSUME current'[d] \in todo[d]
      PROVE  Oldest(current[d])'
  <2>1. PICK item \in todo[d] : item = current'[d]
    BY <1>4
  <2>2. Oldest(item)'
    BY <1>2
  <2>. QED  BY <2>1, <2>2 DEF Oldest
<1>. QED  BY <1>2, <1>3, <1>4

LEMMA ClaimOldest ==
  ASSUME TypeInv, OldestInHand, NEW d \in Drainers, Claim(d), SettledStays
  PROVE  OldestInHand'
<1> SUFFICES ASSUME NEW x \in Drainers
             PROVE  /\ \A item \in todo'[x] : Oldest(item)'
                    /\ pc'[x] \in {"apply", "ack"} => Oldest(current[x])'
  BY DEF OldestInHand, Oldest
<1>1. /\ pc \in [Drainers -> {"idle", "run", "apply", "ack"}]
      /\ todo \in [Drainers -> SUBSET Items]
  BY DEF TypeInv, TypeOK
<1>2. PICK rows :
        /\ \E r, skip : rows = Eligible(r, skip)
        /\ pc' = [pc EXCEPT ![d] = "run"]
        /\ todo' = [todo EXCEPT ![d] = rows]
        /\ UNCHANGED current
  BY Zenon DEF Claim
<1>3. ASSUME NEW item \in rows
      PROVE  Oldest(item) /\ item \in Items /\ item[2] \in 1..Len(outbox[item[1]])
  <2>1. PICK r, skip : rows = Eligible(r, skip)
    BY <1>2
  <2>2. item \in Items /\ item[2] \in 1..Len(outbox[item[1]])
    BY <2>1, EligibleRows DEF TypeInv
  <2>3. PICK w \in Workspaces : item \in {w} \X Claimable(w)
    BY <2>1 DEF Eligible
  <2>4. item[1] = w /\ item[2] \in Claimable(w)
    BY <2>3
  <2>5. ASSUME NEW m \in 1..(item[2] - 1)
        PROVE  outbox[w][m].status # "pending"
    <3>1. m \in 1..Len(outbox[w]) /\ m < item[2] /\ item[2] \in Int
      BY <2>2, <2>4, OutboxType DEF TypeInv
    <3>2. m \notin Pending(w)
      BY <2>4, <3>1 DEF Claimable
    <3>. QED  BY <3>1, <3>2, OutboxType DEF Pending, TypeInv
  <2>. QED  BY <2>2, <2>4, <2>5 DEF Oldest
<1>4. \A item \in rows : Oldest(item)'
  BY <1>3, OldestItem DEF TypeInv
<1>5. ASSUME x # d, NEW item \in todo'[x]
      PROVE  Oldest(item)'
  <2>1. item \in todo[x] /\ item \in Items
    BY <1>1, <1>2, <1>5
  <2>2. item[2] \in 1..Len(outbox[item[1]]) /\ Oldest(item)
    BY <2>1 DEF TypeInv, InHand, OldestInHand
  <2>. QED  BY <2>1, <2>2, OldestItem DEF TypeInv
<1>6. ASSUME pc'[x] \in {"apply", "ack"}
      PROVE  Oldest(current[x])'
  <2>1. pc[x] \in {"apply", "ack"} /\ current'[x] = current[x]
    BY <1>1, <1>2, <1>6
  <2>2. PICK item : item = current[x]
    OBVIOUS
  <2>3. item \in Items /\ item[2] \in 1..Len(outbox[item[1]]) /\ Oldest(item)
    BY <2>1, <2>2 DEF TypeInv, InHand, OldestInHand
  <2>4. Oldest(item)'
    BY <2>3, OldestItem DEF TypeInv
  <2>. QED  BY <2>1, <2>2, <2>4 DEF Oldest
<1>7. x = d => todo'[x] = rows
  BY <1>1, <1>2
<1>. QED  BY <1>4, <1>5, <1>6, <1>7

\* What each step does to the log: it appends a commit, or changes no event and settles.
LEMMA StepsOfLog ==
  ASSUME TypeInv, [Next]_vars
  PROVE  \/ \E w \in Workspaces, s \in Skills : RegionalStep(w, s)
         \/ /\ SameRows /\ SettledStays /\ UNCHANGED skill
            /\ \/ \E d \in Drainers : DrainerStep(d) /\ UNCHANGED moving
               \/ /\ UNCHANGED drain
                  /\ UNCHANGED control \/ \E w \in Workspaces : RetireCount(w)
<1>. USE DEF TypeInv
<1>1. ASSUME NEW d \in Drainers, DrainerStep(d)
      PROVE  SameRows /\ SettledStays /\ UNCHANGED skill /\ UNCHANGED moving
  <2>1. UNCHANGED skill /\ UNCHANGED moving
    BY <1>1 DEF DrainerStep, Claim, Check, Apply, Ack, Fail, Finish, Crash, region
  <2>. QED  BY <1>1, <2>1, DrainerRows, DrainerKeepsSettled
<1>2. ASSUME NEW w \in Workspaces, NEW n \in DOMAIN outbox[w], RowStep(w, n)
      PROVE  SameRows /\ SettledStays /\ UNCHANGED <<skill, drain, control>>
  <2>1. UNCHANGED <<skill, drain, control>>
    BY <1>2 DEF RowStep, LapseClaim, OverrunLease, RetireRow
  <2>. QED  BY <1>2, <2>1, RowStepRows, RowStepKeepsSettled
<1>3. ASSUME UNCHANGED outbox
      PROVE  SameRows /\ SettledStays
  BY <1>3, StillRows DEF SettledStays
<1>4. ASSUME NEW w \in Workspaces, RetireCount(w)
      PROVE  UNCHANGED <<outbox, skill, drain>>
  BY <1>4 DEF RetireCount, region
<1>5. ASSUME NEW w \in Workspaces, MoveStep(w)
      PROVE  UNCHANGED <<outbox, skill, drain, control>>
  BY <1>5 DEF MoveStep, PrepareSource, BeginMove, QuiesceSource, DrainOutboxes,
              ResumeTarget, RollbackSource, Activate, region
<1>6. ASSUME UNCHANGED vars
      PROVE  UNCHANGED <<outbox, skill, drain, control>>
  BY <1>6 DEF vars, region
<1>7. CASE \E w \in Workspaces, s \in Skills : RegionalStep(w, s)
  BY <1>7
<1>8. CASE \E d \in Drainers : DrainerStep(d)
  BY <1>1, <1>8
<1>9. CASE \E w \in Workspaces : \E n \in DOMAIN outbox[w] : RowStep(w, n)
  BY <1>2, <1>9
<1>10. CASE \E w \in Workspaces : RetireCount(w)
  BY <1>3, <1>4, <1>10
<1>11. CASE \E w \in Workspaces : MoveStep(w)
  BY <1>3, <1>5, <1>11
<1>12. CASE UNCHANGED vars
  BY <1>3, <1>6, <1>12
<1>. QED  BY <1>7, <1>8, <1>9, <1>10, <1>11, <1>12, Zenon DEF Next

LEMMA OldestNext ==
  ASSUME TypeInv, OldestInHand, [Next]_vars
  PROVE  OldestInHand'
<1>1. CASE \E w \in Workspaces, s \in Skills : RegionalStep(w, s)
  <2>1. PICK w \in Workspaces, s \in Skills : RegionalStep(w, s)
    BY <1>1
  <2>2. PICK sk \in SkillStates, evs \in Seq(Events) : Commit(w, s, sk, evs)
    BY <2>1, RegionalCommits DEF TypeInv
  <2>3. SettledStays
    BY <2>2, CommitLog, AppendedKeepsSettled DEF TypeInv
  <2>4. UNCHANGED <<pc, todo, current>>
    BY <2>2 DEF Commit, drain
  <2>. QED  BY <2>3, <2>4, OldestKept
<1>2. CASE SettledStays /\ \E d \in Drainers : DrainerStep(d)
  <2>1. PICK d \in Drainers : DrainerStep(d)
    BY <1>2
  <2>. QED  BY <1>2, <2>1, Hands, OldestKept, ClaimOldest DEF TypeInv
<1>3. CASE SettledStays /\ UNCHANGED drain
  BY <1>3, OldestKept DEF drain
<1>. QED  BY <1>1, <1>2, <1>3, StepsOfLog
-----------------------------------------------------------------------------
(***************************************************************************)
(* What one regional transaction says in its events.                       *)
(***************************************************************************)
Counts(sk) == sk.current > 0 /\ ~sk.archived

\* Each event is about the skill; a version other than the current one is announced behind
\* another of the same block.
Announces(s, sk, evs) ==
  \A i \in 1..Len(evs) :
    /\ evs[i].skill = s /\ (evs[i].delta # 0 <=> evs[i].kind = "count")
    /\ evs[i].kind = "published" =>
         /\ evs[i].version \in Versions /\ evs[i].current = sk.current
         /\ evs[i].version # sk.current => i > 1 /\ evs[i - 1].kind = "published"

\* What the public sees of the skill before and after a block of events: it stays, it goes,
\* or the versions that the block announces are added to it.
Keeps(old, sk, evs) ==
  /\ \A i \in 1..Len(evs) : ~Direct(evs[i])
  /\ PublicVersions(sk) = PublicVersions(old)
  /\ PublicVersions(old) # {} => sk.current = old.current

Hides(sk, evs) ==
  /\ \E i \in 1..Len(evs) : evs[i].kind = "unpublished"
  /\ \A i \in 1..Len(evs) : evs[i].kind # "published"
  /\ PublicVersions(sk) = {}

VersionsOf(evs) ==
  {v \in Versions : \E i \in 1..Len(evs) : evs[i].kind = "published" /\ evs[i].version = v}

Shows(old, sk, evs) ==
  /\ \E i \in 1..Len(evs) : evs[i].kind = "published"
  /\ \A i \in 1..Len(evs) : evs[i].kind # "unpublished"
  /\ PublicVersions(sk) = PublicVersions(old) \cup VersionsOf(evs)

Turns(old, sk, evs) == Keeps(old, sk, evs) \/ Hides(sk, evs) \/ Shows(old, sk, evs)

\* A skill is routed when it is created.
Routes(old, evs) ==
  \A i \in 1..Len(evs) : evs[i].kind = "route" =>
    old.current = 0 /\ \A j \in 1..Len(evs) : evs[j].kind = "route" => j = i

\* It is counted in, or out, when it starts or ceases to count.
CountsIn(old, sk, evs) ==
  \/ (\A i \in 1..Len(evs) : evs[i].kind # "count") /\ (Counts(sk) <=> Counts(old))
  \/ \E i \in 1..Len(evs) :
       /\ \A j \in 1..Len(evs) : evs[j].kind = "count" <=> j = i
       /\ \/ evs[i].delta = 1 /\ ~Counts(old) /\ Counts(sk)
          \/ evs[i].delta = -1 /\ Counts(old) /\ ~Counts(sk)

Block(s, old, sk, evs) ==
  /\ sk.current \in Nat \ {0}
  /\ Announces(s, sk, evs) /\ Turns(old, sk, evs) /\ Routes(old, evs) /\ CountsIn(old, sk, evs)

LEMMA Joined ==
  ASSUME NEW a \in Seq(Events), NEW b \in Seq(Events)
  PROVE  /\ a \o b \in Seq(Events) /\ Len(a \o b) = Len(a) + Len(b)
         /\ Len(a) \in Nat /\ Len(b) \in Nat
         /\ \A i \in 1..Len(a) : i \in 1..Len(a \o b) /\ (a \o b)[i] = a[i]
         /\ \A i \in 1..Len(b) : Len(a) + i \in 1..Len(a \o b) /\ (a \o b)[Len(a) + i] = b[i]
         /\ \A i \in 1..Len(a \o b) :
              \/ i \in 1..Len(a) /\ (a \o b)[i] = a[i]
              \/ i - Len(a) \in 1..Len(b) /\ (a \o b)[i] = b[i - Len(a)]
<1>1. Len(a) \in Nat /\ Len(b) \in Nat
  BY LenProperties
<1>2. /\ a \o b \in Seq(Events) /\ Len(a \o b) = Len(a) + Len(b)
      /\ \A i \in 1..Len(a) + Len(b) :
           (a \o b)[i] = IF i <= Len(a) THEN a[i] ELSE b[i - Len(a)]
  BY ConcatProperties
<1>3. ASSUME NEW i \in 1..Len(b)
      PROVE  Len(a) + i \in 1..Len(a \o b) /\ (a \o b)[Len(a) + i] = b[i]
  <2>1. Len(a) + i \in 1..(Len(a) + Len(b)) /\ ~(Len(a) + i <= Len(a)) /\ Len(a) + i - Len(a) = i
    BY <1>1
  <2>. QED  BY <1>2, <2>1
<1>. QED  BY <1>1, <1>2, <1>3

\* The directory's part of a block, followed by the rest of it.
LEMMA JoinedBlock ==
  ASSUME NEW a \in Seq(Events), NEW b \in Seq(Events), NEW s, NEW old, NEW sk,
         Announces(s, sk, a), Announces(s, sk, b), Turns(old, sk, a),
         \A i \in 1..Len(a) : Direct(a[i]), \A i \in 1..Len(b) : ~Direct(b[i])
  PROVE  Announces(s, sk, a \o b) /\ Turns(old, sk, a \o b)
<1> DEFINE c == a \o b
<1>1. /\ Len(a) \in Nat /\ Len(b) \in Nat
      /\ \A i \in 1..Len(a) : i \in 1..Len(c) /\ c[i] = a[i]
      /\ \A i \in 1..Len(c) :
           \/ i \in 1..Len(a) /\ c[i] = a[i]
           \/ i - Len(a) \in 1..Len(b) /\ c[i] = b[i - Len(a)]
  BY Joined
<1>. HIDE DEF c
<1>2. Announces(s, sk, c)
  <2> SUFFICES ASSUME NEW i \in 1..Len(c)
               PROVE  /\ c[i].skill = s /\ (c[i].delta # 0 <=> c[i].kind = "count")
                      /\ c[i].kind = "published" =>
                           /\ c[i].version \in Versions /\ c[i].current = sk.current
                           /\ c[i].version # sk.current => i > 1 /\ c[i - 1].kind = "published"
    BY DEF Announces
  <2>1. CASE i \in 1..Len(a) /\ c[i] = a[i]
    <3>1. i > 1 => i - 1 \in 1..Len(a)
      BY <2>1
    <3>. QED  BY <1>1, <2>1, <3>1 DEF Announces
  <2>2. CASE i - Len(a) \in 1..Len(b) /\ c[i] = b[i - Len(a)]
    BY <2>2 DEF Announces, Direct
  <2>. QED  BY <1>1, <2>1, <2>2
<1>3. \A i \in 1..Len(c) : Direct(c[i]) => i \in 1..Len(a) /\ c[i] = a[i]
  BY <1>1
<1>4. \A i \in 1..Len(c) :
        c[i].kind = "published" \/ c[i].kind = "unpublished" => i \in 1..Len(a) /\ c[i] = a[i]
  BY <1>3 DEF Direct
<1>5. Keeps(old, sk, a) => Keeps(old, sk, c)
  <2>1. (\A i \in 1..Len(a) : ~Direct(a[i])) => \A i \in 1..Len(c) : ~Direct(c[i])
    BY <1>3
  <2>. QED  BY <2>1, Zenon DEF Keeps
<1>6. Hides(sk, a) => Hides(sk, c)
  <2>1. (\E i \in 1..Len(a) : a[i].kind = "unpublished")
          => \E i \in 1..Len(c) : c[i].kind = "unpublished"
    BY <1>1
  <2>2. (\A i \in 1..Len(a) : a[i].kind # "published")
          => \A i \in 1..Len(c) : c[i].kind # "published"
    BY <1>4
  <2>. QED  BY <2>1, <2>2, Zenon DEF Hides
<1>7. Shows(old, sk, a) => Shows(old, sk, c)
  <2>1. (\E i \in 1..Len(a) : a[i].kind = "published")
          => \E i \in 1..Len(c) : c[i].kind = "published"
    BY <1>1
  <2>2. (\A i \in 1..Len(a) : a[i].kind # "unpublished")
          => \A i \in 1..Len(c) : c[i].kind # "unpublished"
    BY <1>4
  <2>3. VersionsOf(a) = VersionsOf(c)
    <3>1. \A v : (\E i \in 1..Len(a) : a[i].kind = "published" /\ a[i].version = v)
                => (\E i \in 1..Len(c) : c[i].kind = "published" /\ c[i].version = v)
      BY <1>1
    <3>2. \A v : (\E i \in 1..Len(c) : c[i].kind = "published" /\ c[i].version = v)
                => (\E i \in 1..Len(a) : a[i].kind = "published" /\ a[i].version = v)
      BY <1>4
    <3>. QED  BY <3>1, <3>2, Zenon DEF VersionsOf
  <2>. QED  BY <2>1, <2>2, <2>3, Zenon DEF Shows
<1>8. Turns(old, sk, c)
  BY <1>5, <1>6, <1>7 DEF Turns
<1>. QED  BY <1>2, <1>8 DEF c

LEMMA PublicVersionsIn ==
  ASSUME NEW sk \in SkillStates
  PROVE  PublicVersions(sk) \in SUBSET Versions /\ sk.current \in Nat /\ sk.current <= MaxVersion
BY MaxVersionAssumption DEF PublicVersions, SkillStates, Versions

\* enqueueCurrentSkillProjection announces all of a skill that has become visible again, and
\* the current version of one that was visible.
LEMMA ProjectionBlock ==
  ASSUME NEW s \in Skills, NEW old \in SkillStates, NEW sk \in SkillStates, NEW history \in BOOLEAN,
         sk.current > 0,
         sk.public /\ ~sk.archived =>
           IF history THEN PublicVersions(old) = {}
           ELSE PublicVersions(old) \cup {sk.current} = 1..sk.current
  PROVE  LET evs == CurrentProjection(s, sk, history) IN
         /\ evs \in Seq(Events) /\ \A i \in 1..Len(evs) : Direct(evs[i])
         /\ Announces(s, sk, evs) /\ Turns(old, sk, evs)
<1> DEFINE evs == CurrentProjection(s, sk, history)
<1>1. evs \in Seq(Events)
  BY CurrentProjectionType
<1>2. sk.current \in Nat /\ sk.current \in Versions /\ sk.current <= MaxVersion
  BY MaxVersionAssumption DEF SkillStates, Versions
<1>3. CASE ~sk.public \/ sk.archived
  <2>1. evs = <<UnpublishedEvent(s, sk.current)>>
    BY <1>3 DEF CurrentProjection
  <2>2. Len(evs) = 1 /\ evs[1] = UnpublishedEvent(s, sk.current)
    BY <2>1
  <2>. HIDE DEF evs
  <2>3. PublicVersions(sk) = {}
    BY <1>3 DEF PublicVersions
  <2>4. \A i \in 1..Len(evs) :
          /\ evs[i].kind = "unpublished" /\ evs[i].skill = s /\ evs[i].delta = 0
    BY <2>2 DEF UnpublishedEvent
  <2>5. 1 \in 1..Len(evs)
    BY <2>2
  <2>6. Announces(s, sk, evs) /\ Turns(old, sk, evs) /\ \A i \in 1..Len(evs) : Direct(evs[i])
    BY <2>3, <2>4, <2>5 DEF Announces, Turns, Hides, Direct
  <2>. QED  BY <1>1, <2>6 DEF evs
<1>4. CASE sk.public /\ ~sk.archived
  <2> DEFINE versionAt(i) == IF history THEN (IF i = 1 THEN sk.current ELSE i - 1) ELSE sk.current
             length == IF history THEN sk.current ELSE 1
  <2>1. /\ Len(evs) = length
        /\ \A i \in 1..length : evs[i] = PublishedEvent(s, versionAt(i), sk.current)
    <3>1. CASE history
      <4>1. evs = [i \in 1..sk.current |->
                     PublishedEvent(s, IF i = 1 THEN sk.current ELSE i - 1, sk.current)]
        BY <1>4, <3>1 DEF CurrentProjection
      <4>2. DOMAIN evs = 1..sk.current
        BY <4>1
      <4>3. Len(evs) = sk.current
        BY <1>1, <1>2, <4>2, LenProperties
      <4>. QED  BY <3>1, <4>1, <4>3
    <3>2. CASE ~history
      <4>1. evs = <<PublishedEvent(s, sk.current, sk.current)>>
        BY <1>4, <3>2 DEF CurrentProjection
      <4>. QED  BY <3>2, <4>1
    <3>. QED  BY <3>1, <3>2
  <2>2. length \in Nat /\ length >= 1 /\ length <= sk.current
    BY <1>2
  <2>3. \A i \in 1..length :
          /\ versionAt(i) \in Versions
          /\ versionAt(i) # sk.current => i > 1
    <3>1. CASE history
      BY <1>2, <3>1, MaxVersionAssumption DEF Versions
    <3>2. CASE ~history
      BY <1>2, <3>2
    <3>. QED  BY <3>1, <3>2
  <2>. HIDE DEF evs, length, versionAt
  <2>4. \A i \in 1..Len(evs) :
          /\ evs[i].kind = "published" /\ evs[i].skill = s /\ evs[i].delta = 0
          /\ evs[i].version = versionAt(i) /\ evs[i].current = sk.current
    BY <2>1 DEF PublishedEvent
  <2>5. Announces(s, sk, evs)
    <3> SUFFICES ASSUME NEW i \in 1..Len(evs), versionAt(i) # sk.current
                 PROVE  evs[i - 1].kind = "published"
      BY <2>1, <2>3, <2>4 DEF Announces
    <3>1. i - 1 \in 1..Len(evs)
      BY <2>1, <2>2, <2>3
    <3>. QED  BY <2>4, <3>1
  <2>6. PublicVersions(sk) = 1..sk.current
    BY <1>4 DEF PublicVersions
  <2>7. PublicVersions(old) \cup VersionsOf(evs) = 1..sk.current
    <3>1. VersionsOf(evs) = {v \in Versions : \E i \in 1..length : versionAt(i) = v}
      BY <2>1, <2>4 DEF VersionsOf
    <3>2. CASE history
      <4>1. PublicVersions(old) = {}
        BY <1>4, <3>2
      <4>2. {v \in Versions : \E i \in 1..length : versionAt(i) = v} = 1..sk.current
        <5>1. length = sk.current
          BY <3>2 DEF length
        <5>2. ASSUME NEW v \in 1..sk.current
              PROVE  v \in Versions /\ \E i \in 1..length : versionAt(i) = v
          <6>1. v \in Versions
            BY <1>2, MaxVersionAssumption DEF Versions
          <6>2. CASE v = sk.current
            <7>1. 1 \in 1..length /\ versionAt(1) = v
              BY <2>2, <3>2, <6>2 DEF versionAt
            <7>. QED  BY <6>1, <7>1
          <6>3. CASE v # sk.current
            <7>1. v + 1 \in 1..length /\ v + 1 # 1 /\ v + 1 - 1 = v
              BY <1>2, <5>1, <6>3
            <7>2. versionAt(v + 1) = v
              BY <3>2, <7>1 DEF versionAt
            <7>. QED  BY <6>1, <7>1, <7>2
          <6>. QED  BY <6>2, <6>3
        <5>3. ASSUME NEW i \in 1..length
              PROVE  versionAt(i) \in 1..sk.current
          BY <1>2, <3>2, <5>1 DEF versionAt
        <5>. QED  BY <5>2, <5>3
      <4>. QED  BY <3>1, <4>1, <4>2
    <3>3. CASE ~history
      <4>1. PublicVersions(old) \cup {sk.current} = 1..sk.current
        BY <1>4, <3>3
      <4>2. {v \in Versions : \E i \in 1..length : versionAt(i) = v} = {sk.current}
        BY <1>2, <3>3 DEF versionAt, length
      <4>. QED  BY <3>1, <4>1, <4>2
    <3>. QED  BY <3>2, <3>3
  <2>8. 1 \in 1..Len(evs)
    BY <2>1, <2>2
  <2>9. Turns(old, sk, evs)
    BY <2>4, <2>6, <2>7, <2>8 DEF Turns, Shows
  <2>10. \A i \in 1..Len(evs) : Direct(evs[i])
    BY <2>4 DEF Direct
  <2>. QED  BY <1>1, <2>5, <2>9, <2>10 DEF evs
<1>. QED  BY <1>3, <1>4

\* A block that speaks of the directory only neither counts nor routes.
LEMMA DirectBlock ==
  ASSUME NEW s, NEW old, NEW sk, NEW evs \in Seq(Events), sk.current \in Nat \ {0},
         Announces(s, sk, evs), Turns(old, sk, evs),
         \A i \in 1..Len(evs) : Direct(evs[i]), Counts(sk) <=> Counts(old)
  PROVE  Block(s, old, sk, evs)
<1>1. \A i \in 1..Len(evs) : evs[i].kind # "count" /\ evs[i].kind # "route"
  BY DEF Direct
<1>. QED  BY <1>1 DEF Block, Routes, CountsIn

\* One that ends with the count of the skill.
LEMMA CountedBlock ==
  ASSUME NEW s \in Skills, NEW old, NEW sk, NEW a \in Seq(Events), sk.current \in Nat \ {0},
         NEW d \in {-1, 1},
         Announces(s, sk, a), Turns(old, sk, a), \A i \in 1..Len(a) : Direct(a[i]),
         IF d = 1 THEN ~Counts(old) /\ Counts(sk) ELSE Counts(old) /\ ~Counts(sk)
  PROVE  Block(s, old, sk, a \o <<CountEvent(s, d)>>)
<1> DEFINE b == <<CountEvent(s, d)>>
           c == a \o b
<1>1. b \in Seq(Events) /\ Len(b) = 1 /\ b[1] = CountEvent(s, d)
  <2>1. 0 \in 0..MaxVersion /\ d \in {-1, 0, 1}
    BY MaxVersionAssumption
  <2>2. CountEvent(s, d) \in Events
    BY <2>1, EventTypes
  <2>. QED  BY <2>2
<1>2. \A i \in 1..Len(b) :
        b[i].kind = "count" /\ b[i].skill = s /\ b[i].delta = d
  BY <1>1 DEF CountEvent
<1>. HIDE DEF b
<1>3. Announces(s, sk, b) /\ \A i \in 1..Len(b) : ~Direct(b[i])
  BY <1>2 DEF Announces, Direct
<1>4. Announces(s, sk, c) /\ Turns(old, sk, c)
  BY <1>1, <1>3, JoinedBlock
<1>5. /\ Len(a) \in Nat /\ Len(c) = Len(a) + 1
      /\ \A i \in 1..Len(a) : c[i] = a[i]
      /\ Len(a) + 1 \in 1..Len(c) /\ c[Len(a) + 1] = b[1]
  <2>1. 1 \in 1..Len(b)
    BY <1>1
  <2>2. /\ Len(c) = Len(a) + Len(b) /\ Len(a) \in Nat
        /\ \A i \in 1..Len(a) : c[i] = a[i]
        /\ \A i \in 1..Len(b) : Len(a) + i \in 1..Len(c) /\ c[Len(a) + i] = b[i]
    BY <1>1, Joined
  <2>. HIDE DEF c
  <2>. QED  BY <1>1, <2>1, <2>2
<1>. HIDE DEF c
<1>6. \A i \in 1..Len(a) : c[i].kind # "count" /\ c[i].kind # "route"
  BY <1>5 DEF Direct
<1>7. \A i \in 1..Len(c) : i \in 1..Len(a) \/ i = Len(a) + 1
  BY <1>5
<1>8. c[Len(a) + 1].kind = "count" /\ c[Len(a) + 1].delta = d
  BY <1>1, <1>2, <1>5
<1>9. \A i \in 1..Len(c) : c[i].kind # "route"
  BY <1>6, <1>7, <1>8
<1>10. \A j \in 1..Len(c) : c[j].kind = "count" <=> j = Len(a) + 1
  BY <1>5, <1>6, <1>7, <1>8
<1>11. CountsIn(old, sk, c)
  BY <1>5, <1>8, <1>10 DEF CountsIn
<1>12. Routes(old, c)
  BY <1>9 DEF Routes
<1>. QED  BY <1>4, <1>11, <1>12 DEF Block, c, b

\* Creation routes the skill as well.
LEMMA CreatedBlock ==
  ASSUME NEW s \in Skills, NEW old, NEW sk, NEW a \in Seq(Events), sk.current \in Nat \ {0},
         old.current = 0, Announces(s, sk, a), Turns(old, sk, a),
         \A i \in 1..Len(a) : Direct(a[i]), ~Counts(old), Counts(sk)
  PROVE  Block(s, old, sk, a \o <<RouteEvent(s), CountEvent(s, 1)>>)
<1> DEFINE b == <<RouteEvent(s), CountEvent(s, 1)>>
           c == a \o b
<1>1. b \in Seq(Events) /\ Len(b) = 2 /\ b[1] = RouteEvent(s) /\ b[2] = CountEvent(s, 1)
  <2>1. 0 \in 0..MaxVersion /\ 1 \in {-1, 0, 1}
    BY MaxVersionAssumption
  <2>2. CountEvent(s, 1) \in Events /\ RouteEvent(s) \in Events
    BY <2>1, EventTypes
  <2>. QED  BY <2>2
<1>2. /\ b[1].kind = "route" /\ b[1].skill = s /\ b[1].delta = 0
      /\ b[2].kind = "count" /\ b[2].skill = s /\ b[2].delta = 1
  BY <1>1 DEF RouteEvent, CountEvent
<1>. HIDE DEF b
<1>a. \A i \in 1..Len(b) : i = 1 \/ i = 2
  BY <1>1
<1>3. Announces(s, sk, b) /\ \A i \in 1..Len(b) : ~Direct(b[i])
  BY <1>2, <1>a DEF Announces, Direct
<1>4. Announces(s, sk, c) /\ Turns(old, sk, c)
  BY <1>1, <1>3, JoinedBlock
<1>5. /\ Len(a) \in Nat /\ Len(c) = Len(a) + 2
      /\ \A i \in 1..Len(a) : c[i] = a[i]
      /\ Len(a) + 1 \in 1..Len(c) /\ c[Len(a) + 1] = b[1]
      /\ Len(a) + 2 \in 1..Len(c) /\ c[Len(a) + 2] = b[2]
  <2>1. 1 \in 1..Len(b) /\ 2 \in 1..Len(b)
    BY <1>1
  <2>2. /\ Len(c) = Len(a) + Len(b) /\ Len(a) \in Nat
        /\ \A i \in 1..Len(a) : c[i] = a[i]
        /\ \A i \in 1..Len(b) : Len(a) + i \in 1..Len(c) /\ c[Len(a) + i] = b[i]
    BY <1>1, Joined
  <2>. HIDE DEF c
  <2>. QED  BY <1>1, <2>1, <2>2
<1>. HIDE DEF c
<1>6. \A i \in 1..Len(a) : c[i].kind # "count" /\ c[i].kind # "route"
  BY <1>5 DEF Direct
<1>7. \A i \in 1..Len(c) : i \in 1..Len(a) \/ i = Len(a) + 1 \/ i = Len(a) + 2
  BY <1>5
<1>8. /\ c[Len(a) + 2].kind = "count" /\ c[Len(a) + 2].delta = 1
      /\ c[Len(a) + 1].kind = "route"
  BY <1>2, <1>5
<1>9. \A j \in 1..Len(c) : c[j].kind = "route" => j = Len(a) + 1
  BY <1>6, <1>7, <1>8
<1>10. \A j \in 1..Len(c) : c[j].kind = "count" <=> j = Len(a) + 2
  BY <1>5, <1>6, <1>7, <1>8
<1>11. CountsIn(old, sk, c)
  BY <1>5, <1>8, <1>10 DEF CountsIn
<1>12. Routes(old, c)
  BY <1>9 DEF Routes
<1>. QED  BY <1>4, <1>11, <1>12 DEF Block, c, b

LEMMA Blocks ==
  ASSUME TypeOK, NEW w \in Workspaces, NEW s \in Skills, RegionalStep(w, s)
  PROVE  \E sk \in SkillStates, evs \in Seq(Events) :
           Commit(w, s, sk, evs) /\ Block(s, skill[w][s], sk, evs)
<1> DEFINE old == skill[w][s]
<1>1. old \in SkillStates
  BY DEF TypeOK
<1>2. /\ old.current \in 0..MaxVersion /\ old.current \in Nat
      /\ old.public \in BOOLEAN /\ old.archived \in BOOLEAN
  BY <1>1, MaxVersionAssumption DEF SkillStates
<1>. HIDE DEF old
<1>3. ASSUME CreateSkill(w, s) PROVE \E sk \in SkillStates, evs \in Seq(Events) :
           Commit(w, s, sk, evs) /\ Block(s, old, sk, evs)
  <2>1. PICK public \in BOOLEAN :
          Commit(w, s, [current |-> 1, public |-> public, archived |-> FALSE],
                 (IF public THEN <<PublishedEvent(s, 1, 1)>> ELSE <<>>)
                   \o <<RouteEvent(s), CountEvent(s, 1)>>)
    BY <1>3 DEF CreateSkill
  <2> DEFINE sk == [current |-> 1, public |-> public, archived |-> FALSE]
             a == IF public THEN <<PublishedEvent(s, 1, 1)>> ELSE <<>>
             b == <<RouteEvent(s), CountEvent(s, 1)>>
  <2>2. /\ sk \in SkillStates /\ sk.current = 1 /\ sk.public = public /\ ~sk.archived
        /\ Counts(sk)
    BY MaxVersionAssumption DEF SkillStates, Counts
  <2>3. 1 \in 0..MaxVersion /\ 0 \in 0..MaxVersion /\ 1 \in {-1, 0, 1} /\ 1 \in Versions
    BY MaxVersionAssumption DEF Versions
  <2>4. /\ PublishedEvent(s, 1, 1) \in Events
        /\ RouteEvent(s) \in Events /\ CountEvent(s, 1) \in Events
    BY <2>3, EventTypes
  <2>5. old.current = 0
    BY <1>3 DEF CreateSkill, old
  <2>6. ~Counts(old) /\ PublicVersions(old) = {}
    BY <2>5 DEF Counts, PublicVersions
  <2>7. a \in Seq(Events) /\ b \in Seq(Events)
    BY <2>4
  <2>8. a \o b \in Seq(Events)
    BY <2>7, ConcatProperties
  <2>9. Announces(s, sk, a) /\ Turns(old, sk, a) /\ \A i \in 1..Len(a) : Direct(a[i])
    <3>1. CASE public
      <4>1. Len(a) = 1 /\ a[1] = PublishedEvent(s, 1, 1)
        BY <3>1
      <4>2. /\ a[1].kind = "published" /\ a[1].skill = s /\ a[1].delta = 0
            /\ a[1].version = 1 /\ a[1].current = 1
        BY <4>1 DEF PublishedEvent
      <4>3. \A i : i \in 1..Len(a) <=> i = 1
        BY <4>1
      <4>4. PublicVersions(sk) = {1}
        BY <2>2, <3>1 DEF PublicVersions
      <4>. HIDE DEF a, sk
      <4>5. VersionsOf(a) = {1}
        BY <2>3, <4>2, <4>3 DEF VersionsOf
      <4>6. Shows(old, sk, a)
        BY <2>6, <4>2, <4>3, <4>4, <4>5 DEF Shows
      <4>7. Announces(s, sk, a)
        BY <2>2, <2>3, <4>2, <4>3 DEF Announces
      <4>8. \A i \in 1..Len(a) : Direct(a[i])
        BY <4>2, <4>3 DEF Direct
      <4>. QED  BY <4>6, <4>7, <4>8 DEF Turns
    <3>2. CASE ~public
      <4>1. \A i : i \notin 1..Len(a)
        BY <3>2
      <4>2. PublicVersions(sk) = {}
        BY <2>2, <3>2 DEF PublicVersions
      <4>. HIDE DEF a, sk
      <4>3. Keeps(old, sk, a)
        BY <2>6, <4>1, <4>2 DEF Keeps
      <4>. QED  BY <4>1, <4>3 DEF Announces, Turns
    <3>. QED  BY <3>1, <3>2
  <2>. HIDE DEF a, sk
  <2>10. Block(s, old, sk, a \o b)
    BY <2>2, <2>5, <2>6, <2>7, <2>9, CreatedBlock
  <2>. QED  BY <2>1, <2>2, <2>8, <2>10 DEF a, sk
<1>4. ASSUME old.current \in 1..(MaxVersion - 1), ~old.archived
      PROVE  LET sk == [old EXCEPT !.current = @ + 1] IN
             /\ sk \in SkillStates /\ sk.current = old.current + 1
             /\ sk.public = old.public /\ sk.archived = old.archived
             /\ Counts(sk) /\ Counts(old)
             /\ sk.public /\ ~sk.archived =>
                  PublicVersions(old) \cup {sk.current} = 1..sk.current
  <2> DEFINE sk == [old EXCEPT !.current = @ + 1]
  <2>1. /\ sk \in SkillStates /\ sk.current = old.current + 1
        /\ sk.public = old.public /\ sk.archived = old.archived
    BY <1>1, <1>4, MaxVersionAssumption DEF SkillStates
  <2>. HIDE DEF sk
  <2>2. Counts(sk) /\ Counts(old)
    BY <1>2, <1>4, <2>1 DEF Counts
  <2>3. ASSUME sk.public PROVE PublicVersions(old) \cup {sk.current} = 1..sk.current
    BY <1>2, <1>4, <2>1, <2>3 DEF PublicVersions
  <2>. QED  BY <2>1, <2>2, <2>3 DEF sk
<1>5. ASSUME PublishAmendment(w, s) PROVE \E sk \in SkillStates, evs \in Seq(Events) :
           Commit(w, s, sk, evs) /\ Block(s, old, sk, evs)
  <2> DEFINE sk == [old EXCEPT !.current = @ + 1]
             evs == CurrentProjection(s, sk, FALSE)
  <2>1. old.current \in 1..(MaxVersion - 1) /\ ~old.archived /\ Commit(w, s, sk, evs)
    BY <1>5 DEF PublishAmendment, old
  <2>2. /\ sk \in SkillStates /\ sk.current = old.current + 1 /\ Counts(sk) /\ Counts(old)
        /\ sk.public /\ ~sk.archived => PublicVersions(old) \cup {sk.current} = 1..sk.current
    BY <1>4, <2>1
  <2>. HIDE DEF sk
  <2>3. sk.current \in Nat \ {0} /\ sk.current > 0
    BY <1>2, <2>2
  <2>4. /\ evs \in Seq(Events) /\ \A i \in 1..Len(evs) : Direct(evs[i])
        /\ Announces(s, sk, evs) /\ Turns(old, sk, evs)
    BY <1>1, <2>2, <2>3, ProjectionBlock
  <2>. HIDE DEF evs
  <2>5. Block(s, old, sk, evs)
    BY <2>2, <2>3, <2>4, DirectBlock
  <2>. QED  BY <2>1, <2>2, <2>4, <2>5
<1>6. ASSUME PublishCandidate(w, s) PROVE \E sk \in SkillStates, evs \in Seq(Events) :
           Commit(w, s, sk, evs) /\ Block(s, old, sk, evs)
  <2> DEFINE sk == [old EXCEPT !.current = @ + 1]
             evs == IF sk.public THEN <<PublishedEvent(s, sk.current, sk.current)>> ELSE <<>>
  <2>1. old.current \in 1..(MaxVersion - 1) /\ ~old.archived /\ Commit(w, s, sk, evs)
    BY <1>6 DEF PublishCandidate, old
  <2>2. /\ sk \in SkillStates /\ sk.current = old.current + 1 /\ Counts(sk) /\ Counts(old)
        /\ sk.public = old.public /\ sk.archived = old.archived
        /\ sk.public /\ ~sk.archived => PublicVersions(old) \cup {sk.current} = 1..sk.current
    BY <1>4, <2>1
  <2>. HIDE DEF sk
  <2>3. sk.current \in Nat \ {0} /\ sk.current > 0
    BY <1>2, <2>2
  <2>4. CASE sk.public
    <3>1. evs = CurrentProjection(s, sk, FALSE)
      BY <2>1, <2>2, <2>4 DEF CurrentProjection
    <3>2. /\ evs \in Seq(Events) /\ \A i \in 1..Len(evs) : Direct(evs[i])
          /\ Announces(s, sk, evs) /\ Turns(old, sk, evs)
      BY <1>1, <2>2, <2>3, <3>1, ProjectionBlock
    <3>. HIDE DEF evs
    <3>3. Block(s, old, sk, evs)
      BY <2>2, <2>3, <3>2, DirectBlock
    <3>. QED  BY <2>1, <2>2, <3>2, <3>3
  <2>5. CASE ~sk.public
    <3>1. evs = <<>> /\ evs \in Seq(Events) /\ \A i : i \notin 1..Len(evs)
      BY <2>5
    <3>2. PublicVersions(sk) = {} /\ PublicVersions(old) = {}
      BY <2>2, <2>5 DEF PublicVersions
    <3>. HIDE DEF evs
    <3>3. Keeps(old, sk, evs) /\ Announces(s, sk, evs)
      BY <3>1, <3>2 DEF Keeps, Announces
    <3>4. Block(s, old, sk, evs)
      BY <2>2, <2>3, <3>1, <3>3, DirectBlock DEF Turns
    <3>. QED  BY <2>1, <2>2, <3>1, <3>4
  <2>. QED  BY <2>4, <2>5
<1>7. ASSUME SetVisibility(w, s) PROVE \E sk \in SkillStates, evs \in Seq(Events) :
           Commit(w, s, sk, evs) /\ Block(s, old, sk, evs)
  <2>1. PICK public \in BOOLEAN :
          Commit(w, s, [old EXCEPT !.public = public],
                 CurrentProjection(s, [old EXCEPT !.public = public],
                                   public /\ ~old.public))
    BY <1>7 DEF SetVisibility, old
  <2> DEFINE sk == [old EXCEPT !.public = public]
             history == public /\ ~old.public
             evs == CurrentProjection(s, sk, history)
  <2>2. /\ sk \in SkillStates /\ sk.current = old.current /\ sk.public = public
        /\ sk.archived = old.archived /\ history \in BOOLEAN
    BY <1>1 DEF SkillStates
  <2>3. old.current > 0
    BY <1>7 DEF SetVisibility, old
  <2>4. sk.current \in Nat \ {0} /\ sk.current > 0 /\ (Counts(sk) <=> Counts(old))
    BY <1>2, <2>2, <2>3 DEF Counts
  <2>. HIDE DEF sk
  <2>5. ASSUME sk.public, ~sk.archived
        PROVE  IF history THEN PublicVersions(old) = {}
                          ELSE PublicVersions(old) \cup {sk.current} = 1..sk.current
    <3>1. CASE old.public
      <4>1. PublicVersions(old) = 1..sk.current /\ ~history
        BY <2>2, <2>5, <3>1 DEF PublicVersions
      <4>2. sk.current \in 1..sk.current
        BY <2>4
      <4>. QED  BY <4>1, <4>2
    <3>2. CASE ~old.public
      BY <2>2, <2>5, <3>2 DEF PublicVersions
    <3>. QED  BY <3>1, <3>2
  <2>. HIDE DEF history
  <2>6. /\ evs \in Seq(Events) /\ \A i \in 1..Len(evs) : Direct(evs[i])
        /\ Announces(s, sk, evs) /\ Turns(old, sk, evs)
    BY <1>1, <2>2, <2>4, <2>5, ProjectionBlock
  <2>. HIDE DEF evs
  <2>7. Block(s, old, sk, evs)
    BY <2>4, <2>6, DirectBlock
  <2>. QED  BY <2>1, <2>2, <2>6, <2>7 DEF sk, history, evs
<1>8. ASSUME SetArchived(w, s) PROVE \E sk \in SkillStates, evs \in Seq(Events) :
           Commit(w, s, sk, evs) /\ Block(s, old, sk, evs)
  <2>1. PICK archived \in BOOLEAN :
          Commit(w, s, [old EXCEPT !.archived = archived],
                 CurrentProjection(s, [old EXCEPT !.archived = archived],
                                   ~archived /\ old.archived)
                   \o IF archived # old.archived
                        THEN <<CountEvent(s, IF archived THEN -1 ELSE 1)>> ELSE <<>>)
    BY <1>8 DEF SetArchived, old
  <2> DEFINE sk == [old EXCEPT !.archived = archived]
             history == ~archived /\ old.archived
             a == CurrentProjection(s, sk, history)
             d == IF archived THEN -1 ELSE 1
             b == IF archived # old.archived THEN <<CountEvent(s, d)>> ELSE <<>>
  <2>2. /\ sk \in SkillStates /\ sk.current = old.current /\ sk.public = old.public
        /\ sk.archived = archived /\ history \in BOOLEAN
    BY <1>1 DEF SkillStates
  <2>3. old.current > 0
    BY <1>8 DEF SetArchived, old
  <2>4. sk.current \in Nat \ {0} /\ sk.current > 0
    BY <1>2, <2>2, <2>3
  <2>. HIDE DEF sk
  <2>5. ASSUME sk.public, ~sk.archived
        PROVE  IF history THEN PublicVersions(old) = {}
                          ELSE PublicVersions(old) \cup {sk.current} = 1..sk.current
    <3>1. CASE ~old.archived
      <4>1. PublicVersions(old) = 1..sk.current /\ ~history
        BY <2>2, <2>5, <3>1 DEF PublicVersions
      <4>2. sk.current \in 1..sk.current
        BY <2>4
      <4>. QED  BY <4>1, <4>2
    <3>2. CASE old.archived
      BY <2>2, <2>5, <3>2 DEF PublicVersions
    <3>. QED  BY <3>1, <3>2
  <2>. HIDE DEF history
  <2>6. /\ a \in Seq(Events) /\ \A i \in 1..Len(a) : Direct(a[i])
        /\ Announces(s, sk, a) /\ Turns(old, sk, a)
    BY <1>1, <2>2, <2>4, <2>5, ProjectionBlock
  <2>. HIDE DEF a
  <2>7. CASE archived # old.archived
    <3>1. d \in {-1, 1} /\ d \in {-1, 0, 1} /\ 0 \in 0..MaxVersion /\ b = <<CountEvent(s, d)>>
      BY <2>7, MaxVersionAssumption
    <3>2. CountEvent(s, d) \in Events
      BY <3>1, EventTypes
    <3>3. b \in Seq(Events)
      BY <3>1, <3>2
    <3>4. a \o b \in Seq(Events)
      BY <2>6, <3>3, ConcatProperties
    <3>5. IF d = 1 THEN ~Counts(old) /\ Counts(sk) ELSE Counts(old) /\ ~Counts(sk)
      BY <2>2, <2>3, <2>7, <1>2 DEF Counts
    <3>. HIDE DEF d
    <3>6. Block(s, old, sk, a \o <<CountEvent(s, d)>>)
      BY <2>4, <2>6, <3>1, <3>5, CountedBlock
    <3>7. Block(s, old, sk, a \o b)
      BY <3>1, <3>6
    <3>. QED  BY <2>1, <2>2, <3>4, <3>7 DEF sk, history, a, d
  <2>8. CASE archived = old.archived
    <3>1. b = <<>> /\ a \o b = a
      BY <2>6, <2>8, ConcatEmptySeq
    <3>2. Counts(sk) <=> Counts(old)
      BY <2>2, <2>8 DEF Counts
    <3>3. Block(s, old, sk, a)
      BY <2>4, <2>6, <3>2, DirectBlock
    <3>. QED  BY <2>1, <2>2, <2>6, <3>1, <3>3 DEF sk, history, a
  <2>. QED  BY <2>7, <2>8
<1>. QED  BY <1>3, <1>5, <1>6, <1>7, <1>8 DEF RegionalStep, old
-----------------------------------------------------------------------------
(***************************************************************************)
(* Logs as sequences of events: what appending a block does to what they   *)
(* leave visible, route and count.                                         *)
(***************************************************************************)
LEMMA LogIs ==
  ASSUME TypeOK, NEW w \in Workspaces
  PROVE  /\ Log(w) \in Seq(Events) /\ Len(Log(w)) = Len(outbox[w]) /\ Len(Log(w)) \in Nat
         /\ \A n \in 1..Len(outbox[w]) : Log(w)[n] = outbox[w][n].event /\ Log(w)[n] \in Events
<1>1. /\ Len(outbox[w]) \in Nat
      /\ \A n \in 1..Len(outbox[w]) : outbox[w][n].event \in Events
  BY OutboxType DEF Rows
<1>2. Log(w) \in [1..Len(outbox[w]) -> Events]
  BY <1>1 DEF Log
<1>3. Log(w) \in Seq(Events) /\ Len(Log(w)) = Len(outbox[w])
  BY <1>1, <1>2, FunctionIsSequence
<1>4. \A n \in 1..Len(outbox[w]) : Log(w)[n] = outbox[w][n].event
  BY DEF Log
<1>. QED  BY <1>1, <1>3, <1>4

LEMMA LogStays ==
  ASSUME TypeOK, SameRows, NEW w \in Workspaces
  PROVE  Log(w)' = Log(w)
<1>1. Len(outbox'[w]) = Len(outbox[w])
  BY SameRowsKept
<1>2. \A n \in 1..Len(outbox[w]) : outbox'[w][n].event = outbox[w][n].event
  BY DEF SameRows
<1>. QED  BY <1>1, <1>2 DEF Log

LEMMA LogGrows ==
  ASSUME TypeOK, TypeOK', NEW w \in Workspaces, NEW evs \in Seq(Events), NEW e,
         Appended(w, evs, e)
  PROVE  /\ Log(w)' = Log(w) \o evs
         /\ \A u \in Workspaces \ {w} : Log(u)' = Log(u)
<1> DEFINE L == Len(outbox[w])
<1>1. /\ Log(w) \in Seq(Events) /\ Len(Log(w)) = L /\ L \in Nat
      /\ \A n \in 1..L : Log(w)[n] = outbox[w][n].event
  BY LogIs
<1>2. /\ Log(w)' \in Seq(Events) /\ Len(Log(w)') = L + Len(evs)
      /\ \A n \in 1..(L + Len(evs)) : Log(w)'[n] = outbox'[w][n].event
  <2>1. /\ Log(w)' \in Seq(Events) /\ Len(Log(w)') = Len(outbox'[w])
        /\ \A n \in 1..Len(outbox'[w]) : Log(w)'[n] = outbox'[w][n].event
    <3>1. \A n \in 1..Len(outbox'[w]) : outbox'[w][n].event \in Events
      <4>1. outbox'[w] \in Seq(Rows)
        BY DEF TypeOK
      <4>2. \A n \in 1..Len(outbox'[w]) : outbox'[w][n] \in Rows
        BY <4>1, ElementOfSeq
      <4>. QED  BY <4>2 DEF Rows
    <3>2. Len(outbox'[w]) \in Nat
      BY LenProperties DEF TypeOK
    <3> DEFINE new == [n \in 1..Len(outbox'[w]) |-> outbox'[w][n].event]
    <3>3. new \in [1..Len(outbox'[w]) -> Events]
      BY <3>1
    <3>4. new \in Seq(Events) /\ Len(new) = Len(outbox'[w])
      BY <3>2, <3>3, FunctionIsSequence
    <3>5. Log(w)' = new
      BY DEF Log
    <3>. QED  BY <3>4, <3>5
  <2>. QED  BY <2>1 DEF Appended
<1>3. Len(evs) \in Nat
  BY LenProperties
<1> DEFINE c == Log(w) \o evs
<1>4. c \in Seq(Events) /\ Len(c) = L + Len(evs)
  <2>1. PICK log \in Seq(Events) : log = Log(w) /\ Len(log) = L
    BY <1>1
  <2>2. log \o evs \in Seq(Events)
    BY Joined
  <2>3. Len(log \o evs) = Len(log) + Len(evs)
    BY Joined
  <2>. QED  BY <2>1, <2>2, <2>3
<1>5. ASSUME NEW n \in 1..(L + Len(evs))
      PROVE  c[n] = Log(w)'[n]
  <2>1. \/ n \in 1..L /\ c[n] = Log(w)[n]
        \/ n - L \in 1..Len(evs) /\ c[n] = evs[n - L]
    BY <1>1, <1>4, Joined
  <2>2. CASE n \in 1..L /\ c[n] = Log(w)[n]
    BY <1>1, <1>2, <2>2 DEF Appended
  <2>3. CASE n - L \in 1..Len(evs) /\ c[n] = evs[n - L]
    <3>1. outbox'[w][L + (n - L)].event = evs[n - L]
      BY <2>3 DEF Appended
    <3>2. L + (n - L) = n
      BY <1>1
    <3>. QED  BY <1>2, <2>3, <3>1, <3>2
  <2>. QED  BY <2>1, <2>2, <2>3
<1>6. Log(w)' = c
  <2>. HIDE DEF c
  <2>1. PICK g : g = Log(w)'
    OBVIOUS
  <2>2. /\ g \in Seq(Events) /\ Len(g) = Len(c) /\ \A i \in 1..Len(c) : c[i] = g[i]
    BY <1>2, <1>4, <1>5, <2>1
  <2>3. c = g
    BY <1>4, <2>2, SeqEqual
  <2>. QED  BY <2>1, <2>3
<1>7. \A u \in Workspaces \ {w} : Log(u)' = Log(u)
  BY DEF Appended, Log
<1>. QED  BY <1>6, <1>7

\* Events that the directory does not take for s change nothing for it.
LEMMA StandsStill ==
  ASSUME NEW log, NEW more, NEW s, NEW j \in Nat, NEW k \in Nat, j <= k,
         \A n \in 1..j : more[n] = log[n],
         \A m \in (j + 1)..k : ~Directs(more, s, m)
  PROVE  Standing(more, s, k) = Standing(log, s, j)
<1>1. \A n \in 1..j : Directs(more, s, n) <=> Directs(log, s, n)
  BY DEF Directs
<1>2. ASSUME NEW v \in Standing(more, s, k)
      PROVE  v \in Standing(log, s, j)
  <2>1. PICK n \in 1..k :
          /\ Directs(more, s, n) /\ more[n].kind = "published" /\ more[n].version = v
          /\ \A m \in (n + 1)..k : Directs(more, s, m) => more[m].kind = "published"
    BY <1>2 DEF Standing
  <2>2. n \in 1..j
    BY <2>1
  <2>3. \A m \in (n + 1)..j : Directs(log, s, m) => log[m].kind = "published"
    BY <1>1, <2>1, <2>2
  <2>4. Directs(log, s, n) /\ log[n].kind = "published" /\ log[n].version = v /\ v \in Versions
    BY <1>1, <1>2, <2>1, <2>2 DEF Standing
  <2>. QED  BY <2>2, <2>3, <2>4 DEF Standing
<1>3. ASSUME NEW v \in Standing(log, s, j)
      PROVE  v \in Standing(more, s, k)
  <2>1. PICK n \in 1..j :
          /\ Directs(log, s, n) /\ log[n].kind = "published" /\ log[n].version = v
          /\ \A m \in (n + 1)..j : Directs(log, s, m) => log[m].kind = "published"
    BY <1>3 DEF Standing
  <2>2. \A m \in (n + 1)..k : Directs(more, s, m) => more[m].kind = "published"
    <3> SUFFICES ASSUME NEW m \in (n + 1)..k, Directs(more, s, m)
                 PROVE  more[m].kind = "published"
      OBVIOUS
    <3>1. m \in (n + 1)..j /\ m \in 1..j
      BY <2>1
    <3>. QED  BY <1>1, <2>1, <3>1
  <2>3. n \in 1..k /\ Directs(more, s, n) /\ more[n].kind = "published" /\ more[n].version = v
        /\ v \in Versions
    BY <1>1, <1>3, <2>1 DEF Standing
  <2>. QED  BY <2>2, <2>3 DEF Standing
<1>. QED  BY <1>2, <1>3

\* A withdrawal leaves nothing.
LEMMA StandingFalls ==
  ASSUME NEW log, NEW s, NEW k \in Nat, NEW n \in 1..k,
         Directs(log, s, n), log[n].kind = "unpublished",
         \A m \in (n + 1)..k : Directs(log, s, m) => log[m].kind # "published"
  PROVE  Standing(log, s, k) = {}
<1> SUFFICES ASSUME NEW v, NEW x \in 1..k,
                    Directs(log, s, x), log[x].kind = "published",
                    \A m \in (x + 1)..k : Directs(log, s, m) => log[m].kind = "published"
             PROVE  FALSE
  BY DEF Standing
<1>1. ~(n \in (x + 1)..k) /\ ~(x \in (n + 1)..k)
  BY Zenon
<1>2. n = x
  BY <1>1
<1>. QED  BY <1>2

\* Publications after the j-th event add their versions.
LEMMA StandingGrows ==
  ASSUME NEW log, NEW s, NEW j \in Nat, NEW k \in Nat, j <= k,
         \A m \in (j + 1)..k : Directs(log, s, m) => log[m].kind = "published"
  PROVE  Standing(log, s, k) = Standing(log, s, j) \cup
           {v \in Versions : \E n \in (j + 1)..k :
              Directs(log, s, n) /\ log[n].kind = "published" /\ log[n].version = v}
<1> DEFINE new == {v \in Versions : \E n \in (j + 1)..k :
              Directs(log, s, n) /\ log[n].kind = "published" /\ log[n].version = v}
<1>1. ASSUME NEW v \in Standing(log, s, k)
      PROVE  v \in Standing(log, s, j) \cup new
  <2>1. PICK n \in 1..k :
          /\ Directs(log, s, n) /\ log[n].kind = "published" /\ log[n].version = v
          /\ \A m \in (n + 1)..k : Directs(log, s, m) => log[m].kind = "published"
    BY <1>1 DEF Standing
  <2>2. v \in Versions
    BY <1>1 DEF Standing
  <2>3. CASE n \in 1..j
    <3>1. \A m \in (n + 1)..j : m \in (n + 1)..k
      BY <2>3
    <3>2. v \in Standing(log, s, j)
      BY <2>1, <2>2, <2>3, <3>1 DEF Standing
    <3>. QED  BY <3>2
  <2>4. CASE n \in (j + 1)..k
    BY <2>1, <2>2, <2>4
  <2>. QED  BY <2>3, <2>4
<1>2. ASSUME NEW v \in Standing(log, s, j)
      PROVE  v \in Standing(log, s, k)
  <2>1. PICK n \in 1..j :
          /\ Directs(log, s, n) /\ log[n].kind = "published" /\ log[n].version = v
          /\ \A m \in (n + 1)..j : Directs(log, s, m) => log[m].kind = "published"
    BY <1>2 DEF Standing
  <2>2. \A m \in (n + 1)..k : m \in (n + 1)..j \/ m \in (j + 1)..k
    OBVIOUS
  <2>3. n \in 1..k /\ v \in Versions
    BY <1>2 DEF Standing
  <2>. QED  BY <2>1, <2>2, <2>3 DEF Standing
<1>3. ASSUME NEW v \in new
      PROVE  v \in Standing(log, s, k)
  <2>1. PICK n \in (j + 1)..k :
          Directs(log, s, n) /\ log[n].kind = "published" /\ log[n].version = v
    BY <1>3
  <2>2. n \in 1..k /\ \A m \in (n + 1)..k : m \in (j + 1)..k
    BY <2>1
  <2>. QED  BY <1>3, <2>1, <2>2 DEF Standing
<1>. QED  BY <1>1, <1>2, <1>3

LEMMA StandingAdds ==
  ASSUME NEW log, NEW s, NEW j \in Nat, NEW n \in Nat, j < n,
         Directs(log, s, n), log[n].kind = "published", log[n].version \in Versions,
         \A m \in 1..n : j < m /\ m # n => ~Directs(log, s, m)
  PROVE  Standing(log, s, n) = Standing(log, s, j) \cup {log[n].version}
<1>1. \A m \in (j + 1)..n : Directs(log, s, m) => m = n
  <2>1. \A m \in (j + 1)..n : m \in 1..n /\ j < m
    OBVIOUS
  <2>. QED  BY <2>1
<1>2. j <= n /\ \A m \in (j + 1)..n : Directs(log, s, m) => log[m].kind = "published"
  BY <1>1
<1>3. Standing(log, s, n) = Standing(log, s, j) \cup
        {u \in Versions : \E m \in (j + 1)..n :
           Directs(log, s, m) /\ log[m].kind = "published" /\ log[m].version = u}
  BY <1>2, StandingGrows
<1>4. n \in (j + 1)..n
  OBVIOUS
<1>5. {u \in Versions : \E m \in (j + 1)..n :
         Directs(log, s, m) /\ log[m].kind = "published" /\ log[m].version = u}
        = {log[n].version}
  BY <1>1, <1>4
<1>. QED  BY <1>3, <1>5

LEMMA AppendHeads ==
  ASSUME NEW log \in Seq(Events), NEW evs \in Seq(Events), NEW s, NEW sk,
         HeadFirst(log), Announces(s, sk, evs)
  PROVE  HeadFirst(log \o evs)
<1> DEFINE c == log \o evs
           L == Len(log)
<1>1. /\ L \in Nat /\ Len(evs) \in Nat
      /\ \A i \in 1..L : c[i] = log[i]
      /\ \A i \in 1..Len(evs) : c[L + i] = evs[i]
      /\ \A i \in 1..Len(c) :
           \/ i \in 1..L /\ c[i] = log[i]
           \/ i - L \in 1..Len(evs) /\ c[i] = evs[i - L]
  BY Joined
<1>2. L \in Nat /\ Len(evs) \in Nat
  BY <1>1
<1>. HIDE DEF c, L
<1> SUFFICES ASSUME NEW n \in 1..Len(c), c[n].kind = "published"
             PROVE  /\ c[n].version \in Versions
                    /\ c[n].version # c[n].current =>
                         /\ n > 1 /\ Directs(c, c[n].skill, n - 1)
                         /\ c[n - 1].kind = "published" /\ c[n - 1].current = c[n].current
  BY DEF HeadFirst, c
<1>3. CASE n \in 1..L /\ c[n] = log[n]
  <2>1. n > 1 => n - 1 \in 1..L /\ c[n - 1] = log[n - 1]
    BY <1>1, <1>3
  <2>2. /\ log[n].version \in Versions
        /\ log[n].version # log[n].current =>
             /\ n > 1 /\ Directs(log, log[n].skill, n - 1)
             /\ log[n - 1].kind = "published" /\ log[n - 1].current = log[n].current
    BY <1>3 DEF HeadFirst, L
  <2>. QED  BY <1>3, <2>1, <2>2 DEF Directs
<1>4. CASE n - L \in 1..Len(evs) /\ c[n] = evs[n - L]
  <2>1. PICK i \in 1..Len(evs) : i = n - L /\ n = L + i /\ c[n] = evs[i]
    BY <1>2, <1>4
  <2>a. evs[i].kind = "published"
    BY <2>1
  <2>b. \A j \in 1..Len(evs) : evs[j].kind = "published" =>
          /\ evs[j].version \in Versions /\ evs[j].current = sk.current /\ evs[j].skill = s
          /\ evs[j].version # sk.current => j > 1 /\ evs[j - 1].kind = "published"
    BY DEF Announces
  <2>2. /\ evs[i].version \in Versions /\ evs[i].current = sk.current /\ evs[i].skill = s
        /\ evs[i].version # sk.current => i > 1 /\ evs[i - 1].kind = "published"
    BY <2>a, <2>b
  <2>3. ASSUME i > 1, evs[i - 1].kind = "published"
        PROVE  /\ n > 1 /\ c[n - 1] = evs[i - 1] /\ evs[i - 1].skill = s
               /\ evs[i - 1].current = sk.current
    <3>1. i - 1 \in 1..Len(evs)
      BY <1>2, <2>3
    <3>2. n - 1 = L + (i - 1) /\ n > 1
      BY <1>2, <2>1, <2>3
    <3>3. c[n - 1] = evs[i - 1]
      BY <1>1, <3>1, <3>2
    <3>4. evs[i - 1].skill = s /\ evs[i - 1].current = sk.current
      BY <2>3, <2>b, <3>1
    <3>. QED  BY <3>2, <3>3, <3>4
  <2>. QED  BY <2>1, <2>2, <2>3 DEF Directs, Direct
<1>. QED  BY <1>1, <1>3, <1>4

LEMMA AppendRoutes ==
  ASSUME NEW log \in Seq(Events), NEW evs \in Seq(Events), NEW s \in Skills, NEW sk,
         NEW skills, NEW after,
         RoutedOnce(log, skills), Announces(s, sk, evs), Routes(skills[s], evs),
         sk.current \in Nat \ {0}, after[s] = sk, \A u \in Skills \ {s} : after[u] = skills[u]
  PROVE  RoutedOnce(log \o evs, after)
<1> DEFINE c == log \o evs
           L == Len(log)
<1>1. /\ L \in Nat /\ Len(evs) \in Nat
      /\ \A i \in 1..L : c[i] = log[i]
      /\ \A i \in 1..Len(evs) : c[L + i] = evs[i]
      /\ \A i \in 1..Len(c) :
           \/ i \in 1..L /\ c[i] = log[i]
           \/ i - L \in 1..Len(evs) /\ c[i] = evs[i - L]
  BY Joined
<1>2. \A n \in 1..L : log[n].skill \in Skills
  <2>1. \A n \in 1..L : log[n] \in Events
    BY ElementOfSeq
  <2>. QED  BY <2>1 DEF Events
<1>3. \A n \in 1..L : log[n].kind = "route" =>
        /\ skills[log[n].skill].current > 0
        /\ \A m \in 1..L : log[m].kind = "route" /\ log[m].skill = log[n].skill => m = n
  BY DEF RoutedOnce
<1>. HIDE DEF c, L
<1>4. \A i \in 1..Len(evs) : evs[i].kind = "route" =>
        evs[i].skill = s /\ skills[s].current = 0
        /\ \A j \in 1..Len(evs) : evs[j].kind = "route" => j = i
  BY DEF Announces, Routes
<1>5. ASSUME NEW n \in 1..L, log[n].kind = "route"
      PROVE  after[log[n].skill].current > 0
  <2>1. CASE log[n].skill = s
    BY <2>1
  <2>2. CASE log[n].skill # s
    BY <1>2, <1>3, <1>5, <2>2
  <2>. QED  BY <2>1, <2>2
<1>6. ASSUME NEW n \in 1..L, NEW i \in 1..Len(evs), log[n].kind = "route", evs[i].kind = "route"
      PROVE  log[n].skill # evs[i].skill
  BY <1>3, <1>4, <1>6
<1>7. ASSUME NEW n \in 1..Len(c), c[n].kind = "route"
      PROVE  /\ after[c[n].skill].current > 0
             /\ \A m \in 1..Len(c) : c[m].kind = "route" /\ c[m].skill = c[n].skill => m = n
  <2> SUFFICES ASSUME NEW m \in 1..Len(c), c[m].kind = "route", c[m].skill = c[n].skill
               PROVE  m = n
    <3>1. CASE n \in 1..L /\ c[n] = log[n]
      BY <1>5, <1>7, <3>1
    <3>2. CASE n - L \in 1..Len(evs) /\ c[n] = evs[n - L]
      BY <1>4, <1>7, <3>2
    <3>3. after[c[n].skill].current > 0
      BY <1>1, <3>1, <3>2
    <3>. QED  BY <3>3
  <2>1. \/ n \in 1..L /\ c[n] = log[n]
        \/ n - L \in 1..Len(evs) /\ c[n] = evs[n - L]
    BY <1>1
  <2>2. \/ m \in 1..L /\ c[m] = log[m]
        \/ m - L \in 1..Len(evs) /\ c[m] = evs[m - L]
    BY <1>1
  <2>3. CASE n \in 1..L /\ m \in 1..L /\ c[n] = log[n] /\ c[m] = log[m]
    BY <1>3, <1>7, <2>3
  <2>4. CASE n - L \in 1..Len(evs) /\ m - L \in 1..Len(evs)
             /\ c[n] = evs[n - L] /\ c[m] = evs[m - L]
    <3>1. m - L = n - L
      BY <1>4, <1>7, <2>4
    <3>. QED  BY <1>1, <3>1
  <2>. QED  BY <1>6, <1>7, <2>1, <2>2, <2>3, <2>4
<1>. QED  BY <1>7 DEF RoutedOnce, c

\* The block shows the public what the skill has become, and leaves the others alone.
LEMMA AppendShows ==
  ASSUME NEW log \in Seq(Events), NEW evs \in Seq(Events), NEW s, NEW sk, NEW u, NEW old,
         LogShows(log, u, old), HeadFirst(log), Announces(s, sk, evs),
         u = s => Turns(old, sk, evs)
  PROVE  LogShows(log \o evs, u, IF u = s THEN sk ELSE old)
<1> DEFINE c == log \o evs
           L == Len(log)
           k == Len(evs)
<1>1. /\ L \in Nat /\ k \in Nat /\ Len(c) = L + k
      /\ \A i \in 1..L : c[i] = log[i]
      /\ \A i \in 1..k : c[L + i] = evs[i]
      /\ \A i \in 1..Len(c) :
           \/ i \in 1..L /\ c[i] = log[i]
           \/ i - L \in 1..k /\ c[i] = evs[i - L]
  BY Joined
<1>2. /\ Standing(log, u, L) = PublicVersions(old)
      /\ \A n \in 1..L :
           /\ Directs(log, u, n) /\ log[n].kind = "published"
           /\ \A m \in (n + 1)..L : ~Directs(log, u, m)
           => log[n].current = old.current
  BY DEF LogShows
<1>3. \A n \in 1..L : log[n].kind = "published" => log[n].version \in Versions
  BY DEF HeadFirst
<1>4. \A i \in 1..k : evs[i].skill = s
  BY DEF Announces
<1>0. L \in Nat /\ k \in Nat /\ L + k \in Nat /\ L <= L + k
  BY <1>1
<1>. HIDE DEF c, L, k
<1>5. \A m \in (L + 1)..(L + k) : m - L \in 1..k /\ c[m] = evs[m - L]
  BY <1>1
<1>6. \A n \in 1..L : Directs(c, u, n) <=> Directs(log, u, n)
  BY <1>1 DEF Directs
<1>7. ASSUME \A m \in (L + 1)..(L + k) : ~Directs(c, u, m)
      PROVE  /\ Standing(c, u, L + k) = PublicVersions(old)
             /\ \A n \in 1..(L + k) :
                  /\ Directs(c, u, n) /\ c[n].kind = "published"
                  /\ \A m \in (n + 1)..(L + k) : ~Directs(c, u, m)
                  => c[n].current = old.current /\ PublicVersions(old) # {}
  <2>1. Standing(c, u, L + k) = PublicVersions(old)
    BY <1>1, <1>2, <1>7, StandsStill
  <2>2. ASSUME NEW n \in 1..(L + k), Directs(c, u, n), c[n].kind = "published",
               \A m \in (n + 1)..(L + k) : ~Directs(c, u, m)
        PROVE  c[n].current = old.current /\ PublicVersions(old) # {}
    <3>1. n \in 1..L
      BY <1>1, <1>7, <2>2
    <3>2. \A m \in (n + 1)..L : m \in (n + 1)..(L + k) /\ m \in 1..L
      BY <1>1, <3>1
    <3>3. \A m \in (n + 1)..L : ~Directs(log, u, m)
      BY <1>6, <2>2, <3>2
    <3>4. Directs(log, u, n) /\ log[n].kind = "published" /\ c[n] = log[n]
      BY <1>1, <1>6, <2>2, <3>1
    <3>5. log[n].version \in Standing(log, u, L)
      BY <1>3, <3>1, <3>3, <3>4 DEF Standing
    <3>. QED  BY <1>2, <3>1, <3>3, <3>4, <3>5
  <2>. QED  BY <2>1, <2>2
<1>8. CASE u # s
  <2>1. \A m \in (L + 1)..(L + k) : ~Directs(c, u, m)
    BY <1>4, <1>5, <1>8 DEF Directs
  <2>. QED  BY <1>1, <1>7, <1>8, <2>1 DEF LogShows, c
<1>9. CASE u = s /\ Keeps(old, sk, evs)
  <2>1. \A i \in 1..k : ~Direct(evs[i])
    BY <1>9 DEF Keeps, k
  <2>2. \A m \in (L + 1)..(L + k) : ~Directs(c, u, m)
    BY <1>5, <2>1 DEF Directs
  <2>3. PublicVersions(sk) = PublicVersions(old)
        /\ (PublicVersions(old) # {} => sk.current = old.current)
    BY <1>9 DEF Keeps
  <2>. QED  BY <1>1, <1>7, <1>9, <2>2, <2>3 DEF LogShows, c
<1>10. CASE u = s /\ Hides(sk, evs)
  <2>1. PICK i \in 1..k : evs[i].kind = "unpublished"
    BY <1>10 DEF Hides, k
  <2>2. (\A j \in 1..k : evs[j].kind # "published") /\ PublicVersions(sk) = {}
    BY <1>10 DEF Hides, k
  <2>3. L + i \in 1..(L + k) /\ c[L + i] = evs[i]
    BY <1>1, <1>0
  <2>4. Directs(c, u, L + i) /\ c[L + i].kind = "unpublished"
    BY <1>4, <1>10, <2>1, <2>3 DEF Directs, Direct
  <2>5. \A m \in (L + 1)..(L + k) : c[m].kind # "published"
    BY <1>5, <2>2
  <2>6. \A m \in (L + i + 1)..(L + k) : m \in (L + 1)..(L + k)
    BY <1>0
  <2>7. Standing(c, u, L + k) = {}
    BY <1>0, <2>3, <2>4, <2>5, <2>6, StandingFalls
  <2>8. ASSUME NEW n \in 1..(L + k), c[n].kind = "published"
        PROVE  L + i \in (n + 1)..(L + k)
    BY <1>1, <2>3, <2>5, <2>8
  <2>. QED  BY <1>1, <1>10, <2>2, <2>4, <2>7, <2>8 DEF LogShows, c
<1>11. CASE u = s /\ Shows(old, sk, evs)
  <2>1. PICK i \in 1..k : evs[i].kind = "published"
    BY <1>11 DEF Shows, k
  <2>2. /\ \A j \in 1..k : evs[j].kind # "unpublished"
        /\ PublicVersions(sk) = PublicVersions(old) \cup VersionsOf(evs)
    BY <1>11 DEF Shows, k
  <2>3. \A m \in (L + 1)..(L + k) : Directs(c, u, m) <=> c[m].kind = "published"
    BY <1>4, <1>5, <1>11, <2>2 DEF Directs, Direct
  <2>4. {v \in Versions : \E n \in (L + 1)..(L + k) :
           Directs(c, u, n) /\ c[n].kind = "published" /\ c[n].version = v} = VersionsOf(evs)
    <3>1. ASSUME NEW v, NEW n \in (L + 1)..(L + k), c[n].kind = "published", c[n].version = v
          PROVE  \E j \in 1..k : evs[j].kind = "published" /\ evs[j].version = v
      BY <1>5, <3>1
    <3>2. ASSUME NEW v, NEW j \in 1..k, evs[j].kind = "published", evs[j].version = v
          PROVE  \E n \in (L + 1)..(L + k) :
                   Directs(c, u, n) /\ c[n].kind = "published" /\ c[n].version = v
      <4>1. L + j \in (L + 1)..(L + k) /\ c[L + j] = evs[j]
        BY <1>1
      <4>. QED  BY <2>3, <3>2, <4>1
    <3>. QED  BY <3>1, <3>2 DEF VersionsOf, k
  <2>5. Standing(c, u, L) = Standing(log, u, L)
    <3>1. \A m \in (L + 1)..L : ~Directs(c, u, m)
      BY <1>0
    <3>2. L <= L
      BY <1>0
    <3>. QED  BY <1>1, <1>0, <3>1, <3>2, StandsStill
  <2>6. Standing(c, u, L + k) = Standing(c, u, L) \cup
          {v \in Versions : \E n \in (L + 1)..(L + k) :
             Directs(c, u, n) /\ c[n].kind = "published" /\ c[n].version = v}
    BY <1>0, <2>3, StandingGrows
  <2>7. Standing(c, u, L + k) = PublicVersions(sk)
    BY <1>2, <2>2, <2>4, <2>5, <2>6
  <2>8. ASSUME NEW n \in 1..(L + k), c[n].kind = "published",
               \A m \in (n + 1)..(L + k) : ~Directs(c, u, m)
        PROVE  c[n].current = sk.current
    <3>9. L + i \in (L + 1)..(L + k)
      BY <1>0
    <3>1. L + i \in (L + 1)..(L + k) /\ c[L + i] = evs[i]
      BY <1>1, <3>9
    <3>2. Directs(c, u, L + i)
      BY <2>1, <2>3, <3>1
    <3>3. ~(L + i \in (n + 1)..(L + k))
      BY <2>8, <3>2
    <3>4. n \in (L + 1)..(L + k)
      BY <1>0, <3>9, <3>3
    <3>. QED  BY <1>5, <2>8, <3>4 DEF Announces, k
  <2>. QED  BY <1>1, <1>11, <2>7, <2>8 DEF LogShows, c
<1>. QED  BY <1>8, <1>9, <1>10, <1>11 DEF Turns, c

LEMMA DeltasFinite ==
  ASSUME NEW log, NEW k \in Nat, NEW d
  PROVE  IsFiniteSet(Deltas(log, k, d)) /\ Cardinality(Deltas(log, k, d)) \in Nat
<1>1. IsFiniteSet(1..k)
  BY FS_Interval
<1>2. Deltas(log, k, d) \in SUBSET (1..k)
  BY DEF Deltas
<1>3. IsFiniteSet(Deltas(log, k, d))
  BY <1>1, <1>2, FS_Subset
<1>. QED  BY <1>3, FS_CardinalityType

LEMMA BalanceStays ==
  ASSUME NEW log, NEW more, NEW j \in Nat, NEW k \in Nat, j <= k,
         \A n \in 1..j : more[n] = log[n],
         \A m \in (j + 1)..k : more[m].delta = 0
  PROVE  Balance(more, k) = Balance(log, j)
<1>1. ASSUME NEW d \in {-1, 1}
      PROVE  Deltas(more, k, d) = Deltas(log, j, d)
  <2>1. \A n \in 1..k : more[n].delta = d <=> n \in 1..j /\ log[n].delta = d
    OBVIOUS
  <2>2. \A n \in 1..j : n \in 1..k
    OBVIOUS
  <2>. QED  BY <2>1, <2>2 DEF Deltas
<1>. QED  BY <1>1 DEF Balance

LEMMA BalanceMoves ==
  ASSUME NEW log, NEW more, NEW j \in Nat, NEW k \in Nat, NEW n \in 1..k, j < n,
         \A m \in 1..j : more[m] = log[m],
         \A m \in 1..k : j < m /\ m # n => more[m].delta = 0,
         more[n].delta \in {-1, 0, 1}
  PROVE  Balance(more, k) = Balance(log, j) + more[n].delta
<1> DEFINE delta == more[n].delta
<1>1. \A d : /\ IsFiniteSet(Deltas(log, j, d)) /\ Cardinality(Deltas(log, j, d)) \in Nat
  BY DeltasFinite
<1>2. ASSUME NEW d \in {-1, 1}
      PROVE  Cardinality(Deltas(more, k, d)) =
               IF delta = d THEN Cardinality(Deltas(log, j, d)) + 1
                            ELSE Cardinality(Deltas(log, j, d))
  <2>1. \A m \in 1..k : more[m].delta = d <=>
          (m \in 1..j /\ log[m].delta = d) \/ (m = n /\ delta = d)
    <3> SUFFICES ASSUME NEW m \in 1..k
                 PROVE  more[m].delta = d <=>
                          (m \in 1..j /\ log[m].delta = d) \/ (m = n /\ delta = d)
      OBVIOUS
    <3>1. CASE m \in 1..j
      <4>1. m # n /\ more[m] = log[m]
        BY <3>1
      <4>. QED  BY <3>1, <4>1
    <3>2. CASE j < m
      <4>1. m \notin 1..j
        BY <3>2
      <4>2. d # 0
        OBVIOUS
      <4>. QED  BY <3>2, <4>1, <4>2
    <3>. QED  BY <3>1, <3>2
  <2>2. n \in 1..k /\ n \notin 1..j /\ \A m \in 1..j : m \in 1..k
    OBVIOUS
  <2>3. CASE delta = d
    <3>1. Deltas(more, k, d) = Deltas(log, j, d) \cup {n}
      BY <2>1, <2>2, <2>3 DEF Deltas
    <3>2. n \notin Deltas(log, j, d)
      BY <2>2 DEF Deltas
    <3>. QED  BY <1>1, <2>3, <3>1, <3>2, FS_AddElement
  <2>4. CASE delta # d
    <3>1. Deltas(more, k, d) = Deltas(log, j, d)
      BY <2>1, <2>2, <2>4 DEF Deltas
    <3>. QED  BY <2>4, <3>1
  <2>. QED  BY <2>3, <2>4
<1>3. delta \in {-1, 0, 1}
  OBVIOUS
<1>. HIDE DEF delta
<1>4. Cardinality(Deltas(more, k, 1)) =
        IF delta = 1 THEN Cardinality(Deltas(log, j, 1)) + 1 ELSE Cardinality(Deltas(log, j, 1))
  BY <1>2
<1>5. Cardinality(Deltas(more, k, -1)) =
        IF delta = -1 THEN Cardinality(Deltas(log, j, -1)) + 1
                      ELSE Cardinality(Deltas(log, j, -1))
  BY <1>2
<1>6. Balance(more, k) = Balance(log, j) + delta
  BY <1>1, <1>3, <1>4, <1>5 DEF Balance
<1>. QED  BY <1>6 DEF delta

LEMMA AppendCounts ==
  ASSUME NEW log \in Seq(Events), NEW evs \in Seq(Events), NEW s, NEW sk, NEW old,
         NEW counting, NEW after,
         LogCounts(log, counting), Announces(s, sk, evs), CountsIn(old, sk, evs),
         Counts(old) <=> s \in counting,
         after = IF Counts(sk) THEN counting \cup {s} ELSE counting \ {s}
  PROVE  LogCounts(log \o evs, after)
<1> DEFINE c == log \o evs
           L == Len(log)
           k == Len(evs)
<1>1. /\ L \in Nat /\ k \in Nat /\ Len(c) = L + k
      /\ \A i \in 1..L : c[i] = log[i]
      /\ \A i \in 1..k : L + i \in 1..Len(c) /\ c[L + i] = evs[i]
      /\ \A i \in 1..Len(c) :
           \/ i \in 1..L /\ c[i] = log[i]
           \/ i - L \in 1..k /\ c[i] = evs[i - L]
  BY Joined
<1>2. /\ \A n \in 1..L : log[n].delta # 0 <=> log[n].kind = "count"
      /\ IsFiniteSet(counting) /\ Balance(log, L) = Cardinality(counting)
  BY DEF LogCounts
<1>3. \A i \in 1..k : evs[i].delta # 0 <=> evs[i].kind = "count"
  BY DEF Announces
<1>. HIDE DEF c, L, k
<1>4. L \in Nat /\ k \in Nat /\ L + k \in Nat /\ L <= L + k
  BY <1>1
<1>5. \A m \in (L + 1)..(L + k) : m - L \in 1..k /\ c[m] = evs[m - L]
  BY <1>1, <1>4
<1>6. \A n \in 1..Len(c) : c[n].delta # 0 <=> c[n].kind = "count"
  <2> SUFFICES ASSUME NEW n \in 1..Len(c)
               PROVE  c[n].delta # 0 <=> c[n].kind = "count"
    OBVIOUS
  <2>1. CASE n \in 1..L /\ c[n] = log[n]
    BY <1>2, <2>1
  <2>2. CASE n - L \in 1..k /\ c[n] = evs[n - L]
    BY <1>3, <2>2
  <2>. QED  BY <1>1, <2>1, <2>2
<1>7. IsFiniteSet(after)
  BY <1>2, FS_AddElement, FS_RemoveElement
<1>8. Cardinality(counting) \in Nat
  BY <1>2, FS_CardinalityType
<1>9. ASSUME \A i \in 1..k : evs[i].kind # "count", Counts(sk) <=> Counts(old)
      PROVE  Balance(c, Len(c)) = Cardinality(after)
  <2>1. \A m \in (L + 1)..(L + k) : c[m].delta = 0
    BY <1>3, <1>5, <1>9
  <2>2. Balance(c, L + k) = Balance(log, L)
    BY <1>1, <1>4, <2>1, BalanceStays
  <2>3. after = counting
    BY <1>9
  <2>. QED  BY <1>1, <1>2, <2>2, <2>3
<1>10. ASSUME NEW i \in 1..k, \A j \in 1..k : evs[j].kind = "count" <=> j = i,
              \/ evs[i].delta = 1 /\ ~Counts(old) /\ Counts(sk)
              \/ evs[i].delta = -1 /\ Counts(old) /\ ~Counts(sk)
       PROVE  Balance(c, Len(c)) = Cardinality(after)
  <2>1. L + i \in (L + 1)..(L + k) /\ c[L + i] = evs[i]
    BY <1>1, <1>4
  <2>2. \A m \in (L + 1)..(L + k) : m # L + i => c[m].delta = 0
    <3> SUFFICES ASSUME NEW m \in (L + 1)..(L + k), m # L + i
                 PROVE  c[m].delta = 0
      OBVIOUS
    <3>1. m - L \in 1..k /\ m - L # i /\ c[m] = evs[m - L]
      BY <1>4, <1>5
    <3>. QED  BY <1>3, <1>10, <3>1
  <2>3. c[L + i].delta \in {-1, 0, 1}
    BY <1>10, <2>1
  <2>4. Balance(c, L + k) = Balance(log, L) + evs[i].delta
    <3>1. PICK n, last : n = L + i /\ last = L + k
      OBVIOUS
    <3>2. n \in 1..last /\ L < n /\ last \in Nat /\ L \in Nat
      BY <1>4, <3>1
    <3>3. \A m \in 1..last : L < m /\ m # n => c[m].delta = 0
      <4>1. \A m \in 1..last : L < m => m \in (L + 1)..(L + k)
        BY <1>4, <3>1
      <4>. QED  BY <2>2, <3>1, <4>1
    <3>4. c[n].delta \in {-1, 0, 1}
      BY <2>1, <2>3, <3>1
    <3>5. \A m \in 1..L : c[m] = log[m]
      BY <1>1
    <3>6. Balance(c, last) = Balance(log, L) + c[n].delta
      <4>1. PICK more, j : more = c /\ j = L
        OBVIOUS
      <4>2. /\ j \in Nat /\ last \in Nat /\ n \in 1..last /\ j < n
            /\ more[n].delta \in {-1, 0, 1}
        BY <3>2, <3>4, <4>1
      <4>3. /\ \A m \in 1..j : more[m] = log[m]
            /\ \A m \in 1..last : j < m /\ m # n => more[m].delta = 0
        BY <3>3, <3>5, <4>1
      <4>4. Balance(more, last) = Balance(log, j) + more[n].delta
        BY <4>2, <4>3, BalanceMoves
      <4>. QED  BY <4>1, <4>4
    <3>. QED  BY <2>1, <3>1, <3>6
  <2>5. CASE evs[i].delta = 1 /\ ~Counts(old) /\ Counts(sk)
    <3>1. Cardinality(after) = Cardinality(counting) + 1
      BY <1>2, <2>5, FS_AddElement
    <3>. QED  BY <1>1, <1>2, <2>4, <2>5, <3>1
  <2>6. CASE evs[i].delta = -1 /\ Counts(old) /\ ~Counts(sk)
    <3>1. Cardinality(after) = Cardinality(counting) - 1
      BY <1>2, <2>6, FS_RemoveElement
    <3>. QED  BY <1>1, <1>2, <1>8, <2>4, <2>6, <3>1
  <2>. QED  BY <1>10, <2>5, <2>6
<1>11. Balance(c, Len(c)) = Cardinality(after)
  BY <1>9, <1>10 DEF CountsIn, k
<1>. QED  BY <1>6, <1>7, <1>11 DEF LogCounts, c
-----------------------------------------------------------------------------
(***************************************************************************)
(* The log always shows and counts what the cell holds.                    *)
(***************************************************************************)
LEMMA HomeRises ==
  ASSUME TypeInv, HomeInv, [Next]_vars, NEW w \in Workspaces
  PROVE  HomeEpoch(w) <= HomeEpoch(w)' /\ HomeEpoch(w) \in Nat
<1>1. /\ placement \in [Workspaces -> Placements] /\ placement[w] \in Placements
      /\ MovePhase(w)
  BY DEF TypeInv, TypeOK, HomeInv
<1>2. HomeEpoch(w) \in Nat /\ placement[w].epoch \in Nat
  BY <1>1 DEF HomeEpoch, Placements
<1>3. CASE UNCHANGED placement
  BY <1>2, <1>3 DEF HomeEpoch
<1>4. ASSUME NEW u \in Workspaces, MoveStep(u), ~UNCHANGED placement
      PROVE  HomeEpoch(w) <= HomeEpoch(w)'
  <2>1. BeginMove(u) \/ Activate(u)
    BY <1>4 DEF MoveStep, PrepareSource, QuiesceSource, DrainOutboxes, ResumeTarget,
                RollbackSource
  <2>2. placement[u] \in Placements
    BY <1>1
  <2>3. CASE BeginMove(u)
    <3>1. PICK target :
            placement' = [placement EXCEPT ![u] =
              [placement[u] EXCEPT !.state = "moving", !.epoch = placement[u].epoch + 1,
                        !.target = target, !.sourceEpoch = placement[u].epoch]]
      BY <2>3, Zenon DEF BeginMove
    <3>2. u = w => placement'[w].state = "moving" /\ placement'[w].sourceEpoch = placement[w].epoch
      BY <1>1, <2>2, <3>1 DEF Placements
    <3>3. u # w => placement'[w] = placement[w]
      BY <1>1, <3>1
    <3>4. u = w => placement[w].state = "active"
      BY <1>1, <2>3 DEF BeginMove, MovePhase, Settled
    <3>. QED  BY <1>2, <3>2, <3>3, <3>4 DEF HomeEpoch
  <2>4. CASE Activate(u)
    <3>1. \E r : placement' = [placement EXCEPT ![u] =
            [placement[u] EXCEPT !.state = "active", !.region = r,
                                 !.epoch = placement[u].epoch + 1]]
      BY <2>4, Zenon DEF Activate
    <3>2. u = w => placement'[w].state = "active" /\ placement'[w].epoch = placement[w].epoch + 1
      BY <1>1, <2>2, <3>1 DEF Placements
    <3>3. u # w => placement'[w] = placement[w]
      BY <1>1, <3>1
    <3>4. HomeEpoch(w) <= placement[w].epoch
      BY <1>1, <1>2 DEF MovePhase, HomeEpoch, Placements
    <3>. QED  BY <1>2, <3>2, <3>3, <3>4 DEF HomeEpoch
  <2>. QED  BY <2>1, <2>3, <2>4
<1>5. ASSUME ~(\E u \in Workspaces : MoveStep(u))
      PROVE  UNCHANGED placement
  <2>1. ASSUME NEW u \in Workspaces, NEW s \in Skills, RegionalStep(u, s)
        PROVE  UNCHANGED placement
    <3>1. PICK sk \in SkillStates, evs \in Seq(Events) : Commit(u, s, sk, evs)
      BY <2>1, RegionalCommits DEF TypeInv
    <3>. QED  BY <3>1 DEF Commit, moving
  <2>2. ASSUME NEW d \in Drainers, DrainerStep(d) PROVE UNCHANGED placement
    BY <2>2 DEF DrainerStep, Claim, Check, Apply, Ack, Fail, Finish, Crash, moving
  <2>3. ASSUME NEW u \in Workspaces, NEW n \in DOMAIN outbox[u], RowStep(u, n)
        PROVE  UNCHANGED placement
    BY <2>3 DEF RowStep, LapseClaim, OverrunLease, RetireRow, moving
  <2>4. ASSUME NEW u \in Workspaces, RetireCount(u) PROVE UNCHANGED placement
    BY <2>4 DEF RetireCount, moving
  <2>5. CASE UNCHANGED vars
    BY <2>5 DEF vars, moving
  <2>. QED  BY <1>5, <2>1, <2>2, <2>3, <2>4, <2>5 DEF Next
<1>. QED  BY <1>2, <1>3, <1>4, <1>5

LEMMA LogInit == Init => LogInv
<1> SUFFICES ASSUME Init, NEW w \in Workspaces
             PROVE  /\ EpochsRise(w) /\ RoutedOnce(Log(w), skill[w]) /\ HeadFirst(Log(w))
                    /\ LogCounts(Log(w), Counting(w))
                    /\ \A s \in Skills : LogShows(Log(w), s, skill[w][s])
  BY DEF LogInv
<1>1. outbox[w] = <<>> /\ Len(outbox[w]) = 0
  BY DEF Init
<1>2. \A s \in Skills : skill[w][s].current = 0
  BY DEF Init
<1>3. PICK log : log = Log(w)
  OBVIOUS
<1>4. Len(log) = 0
  <2>1. log \in [1..0 -> Events]
    BY <1>1, <1>3 DEF Log
  <2>. QED  BY <2>1, FunctionIsSequence
<1>5. \A i : i \notin 1..0
  OBVIOUS
<1>6. Counting(w) = {}
  BY <1>2 DEF Counting
<1>7. Balance(log, 0) = 0
  <2>1. \A d : Deltas(log, 0, d) = {}
    BY <1>5 DEF Deltas
  <2>. QED  BY <2>1, FS_EmptySet DEF Balance
<1>8. LogCounts(log, Counting(w))
  BY <1>4, <1>5, <1>6, <1>7, FS_EmptySet DEF LogCounts
<1>9. ASSUME NEW s \in Skills
      PROVE  LogShows(log, s, skill[w][s])
  <2>1. PublicVersions(skill[w][s]) = {}
    BY <1>2 DEF PublicVersions
  <2>2. Standing(log, s, 0) = {}
    BY <1>5 DEF Standing
  <2>. QED  BY <1>4, <1>5, <2>1, <2>2 DEF LogShows
<1>10. RoutedOnce(log, skill[w]) /\ HeadFirst(log) /\ EpochsRise(w)
  BY <1>1, <1>4, <1>5 DEF RoutedOnce, HeadFirst, EpochsRise
<1>. QED  BY <1>3, <1>8, <1>9, <1>10

LEMMA LogKept ==
  ASSUME TypeInv, LogInv, SameRows, UNCHANGED skill,
         \A w \in Workspaces : HomeEpoch(w) <= HomeEpoch(w)' /\ HomeEpoch(w) \in Nat
                               /\ HomeEpoch(w)' \in Nat
  PROVE  LogInv'
<1> SUFFICES ASSUME NEW w \in Workspaces
             PROVE  /\ EpochsRise(w)' /\ RoutedOnce(Log(w), skill[w])' /\ HeadFirst(Log(w))'
                    /\ LogCounts(Log(w), Counting(w))'
                    /\ \A s \in Skills : LogShows(Log(w), s, skill[w][s])'
  BY DEF LogInv
<1>1. Log(w)' = Log(w)
  BY LogStays DEF TypeInv
<1>2. EpochsRise(w)'
  <2>1. /\ Len(outbox'[w]) = Len(outbox[w]) /\ Len(outbox[w]) \in Nat
        /\ \A n \in 1..Len(outbox[w]) : outbox'[w][n].epoch = outbox[w][n].epoch
                                        /\ outbox[w][n].epoch \in Nat
    BY SameRowsKept, OutboxType DEF TypeInv, SameRows, Rows
  <2>2. \A n \in 1..Len(outbox[w]) :
          /\ outbox[w][n].epoch <= HomeEpoch(w)
          /\ \A m \in 1..n : outbox[w][m].epoch <= outbox[w][n].epoch
    BY DEF LogInv, EpochsRise
  <2>3. \A n \in 1..Len(outbox[w]) : \A m \in 1..n : m \in 1..Len(outbox[w])
    BY <2>1
  <2>. QED  BY <2>1, <2>2, <2>3 DEF EpochsRise
<1>3. Counting(w)' = Counting(w)
  BY DEF Counting
<1>4. /\ RoutedOnce(Log(w), skill[w]) /\ HeadFirst(Log(w))
      /\ LogCounts(Log(w), Counting(w)) /\ \A s \in Skills : LogShows(Log(w), s, skill[w][s])
  BY DEF LogInv
<1>. QED  BY <1>1, <1>2, <1>3, <1>4

LEMMA LogNext ==
  ASSUME TypeInv, TypeInv', HomeInv, HomeInv', LogInv, [Next]_vars
  PROVE  LogInv'
<1>1. \A w \in Workspaces : HomeEpoch(w) <= HomeEpoch(w)' /\ HomeEpoch(w) \in Nat
                            /\ HomeEpoch(w)' \in Nat
  <2>1. \A w \in Workspaces : placement'[w] \in Placements
    BY DEF TypeInv, TypeOK
  <2>2. \A w \in Workspaces : HomeEpoch(w)' \in Nat
    BY <2>1 DEF HomeEpoch, Placements
  <2>. QED  BY <2>2, HomeRises
<1>2. ASSUME NEW w \in Workspaces, NEW s \in Skills, RegionalStep(w, s)
      PROVE  LogInv'
  <2>1. PICK sk \in SkillStates, evs \in Seq(Events) :
          Commit(w, s, sk, evs) /\ Block(s, skill[w][s], sk, evs)
    BY <1>2, Blocks DEF TypeInv
  <2>2. PICK route \in routed[w] :
          route.region = placement[w].region /\ Admits(w, route) /\ Appended(w, evs, route.epoch)
    BY <2>1, CommitLog DEF TypeInv
  <2>3. route.epoch = HomeEpoch(w)
    BY <2>2, HomeAdmits DEF OnlyHomeAdmits, HomeEpoch
  <2>4. skill' = [skill EXCEPT ![w][s] = sk] /\ skill \in [Workspaces -> [Skills -> SkillStates]]
        /\ UNCHANGED moving
    BY <2>1 DEF Commit, TypeInv, TypeOK
  <2>5. /\ skill'[w][s] = sk /\ \A u \in Skills \ {s} : skill'[w][u] = skill[w][u]
        /\ \A u \in Workspaces \ {w} : skill'[u] = skill[u]
    BY <2>4
  <2>6. /\ Log(w)' = Log(w) \o evs /\ \A u \in Workspaces \ {w} : Log(u)' = Log(u)
    BY <2>2, LogGrows DEF TypeInv
  <2>7. \A u \in Workspaces : HomeEpoch(u)' = HomeEpoch(u)
    BY <2>4 DEF HomeEpoch, moving
  <2>8. PICK log \in Seq(Events) : log = Log(w)
    BY LogIs DEF TypeInv
  <2>9. /\ Announces(s, sk, evs) /\ Turns(skill[w][s], sk, evs) /\ Routes(skill[w][s], evs)
        /\ CountsIn(skill[w][s], sk, evs) /\ sk.current \in Nat \ {0}
    BY <2>1 DEF Block
  <2>10. /\ RoutedOnce(log, skill[w]) /\ HeadFirst(log) /\ LogCounts(log, Counting(w))
         /\ \A u \in Skills : LogShows(log, u, skill[w][u])
    BY <2>8 DEF LogInv
  <2>11. HeadFirst(log \o evs)
    BY <2>9, <2>10, AppendHeads
  <2>12. RoutedOnce(log \o evs, skill'[w])
    BY <2>5, <2>9, <2>10, AppendRoutes
  <2>13. LogCounts(log \o evs, Counting(w)')
    <3>1. Counts(skill[w][s]) <=> s \in Counting(w)
      BY DEF Counts, Counting
    <3>2. Counting(w)' = IF Counts(sk) THEN Counting(w) \cup {s} ELSE Counting(w) \ {s}
      BY <2>5 DEF Counts, Counting
    <3>. QED  BY <2>9, <2>10, <3>1, <3>2, AppendCounts
  <2>14. ASSUME NEW u \in Skills
         PROVE  LogShows(log \o evs, u, skill'[w][u])
    <3>1. LogShows(log \o evs, u, IF u = s THEN sk ELSE skill[w][u])
      BY <2>9, <2>10, AppendShows
    <3>. QED  BY <2>5, <3>1
  <2>15. ASSUME NEW u \in Workspaces
         PROVE  EpochsRise(u)'
    <3>1. \A n \in 1..Len(outbox[u]) :
            /\ outbox[u][n].epoch <= HomeEpoch(u) /\ outbox[u][n].epoch \in Nat
            /\ \A m \in 1..n : outbox[u][m].epoch <= outbox[u][n].epoch
      BY OutboxType DEF LogInv, EpochsRise, TypeInv, Rows
    <3>2. CASE u # w
      BY <2>2, <2>7, <3>1, <3>2 DEF Appended, EpochsRise
    <3>3. CASE u = w
      <4> DEFINE L == Len(outbox[w])
                 e == HomeEpoch(w)
      <4>1. /\ Len(outbox'[w]) = L + Len(evs)
            /\ \A n \in 1..L : outbox'[w][n] = outbox[w][n]
            /\ \A n \in 1..Len(evs) : outbox'[w][L + n].epoch = e
        BY <2>2, <2>3 DEF Appended
      <4>2. L \in Nat /\ Len(evs) \in Nat /\ e \in Nat /\ HomeEpoch(w)' = e
        BY <1>1, <2>7, OutboxType, LenProperties DEF TypeInv
      <4>. HIDE DEF L, e
      <4>3. \A n \in 1..(L + Len(evs)) :
              \/ n \in 1..L
              \/ n - L \in 1..Len(evs) /\ L + (n - L) = n
        BY <4>2
      <4>4. \A n \in 1..(L + Len(evs)) :
              \/ n \in 1..L /\ outbox'[w][n] = outbox[w][n]
              \/ n \notin 1..L /\ outbox'[w][n].epoch = e
        BY <4>1, <4>2, <4>3
      <4>5. \A n \in 1..L : outbox[w][n].epoch <= e
        BY <3>1, <3>3 DEF L, e
      <4>6. ASSUME NEW n \in 1..(L + Len(evs)), NEW m \in 1..n
            PROVE  outbox'[w][m].epoch <= outbox'[w][n].epoch /\ outbox'[w][n].epoch <= e
        <5>1. m \in 1..(L + Len(evs)) /\ (n \in 1..L => m \in 1..L)
          BY <4>2
        <5>2. n \in 1..L => outbox[w][m].epoch <= outbox[w][n].epoch
          BY <3>1, <3>3 DEF L
        <5>3. e <= e
          BY <4>2
        <5>. QED  BY <4>4, <4>5, <5>1, <5>2, <5>3
      <4>7. \A n \in 1..Len(outbox'[w]) : n \in 1..(L + Len(evs))
        BY <4>1
      <4>8. \A n \in 1..Len(outbox'[w]) : n \in 1..n
        BY <4>1, <4>2
      <4>. QED  BY <3>3, <4>2, <4>6, <4>7, <4>8 DEF EpochsRise
    <3>. QED  BY <3>2, <3>3
  <2>16. ASSUME NEW u \in Workspaces
         PROVE  /\ EpochsRise(u)' /\ RoutedOnce(Log(u), skill[u])' /\ HeadFirst(Log(u))'
                /\ LogCounts(Log(u), Counting(u))'
                /\ \A x \in Skills : LogShows(Log(u), x, skill[u][x])'
    <3>1. CASE u = w
      BY <2>6, <2>8, <2>11, <2>12, <2>13, <2>14, <2>15, <3>1
    <3>2. CASE u # w
      <4>1. Log(u)' = Log(u) /\ skill'[u] = skill[u]
        BY <2>5, <2>6, <3>2
      <4>2. Counting(u)' = Counting(u)
        BY <4>1 DEF Counting
      <4>3. /\ RoutedOnce(Log(u), skill[u]) /\ HeadFirst(Log(u))
            /\ LogCounts(Log(u), Counting(u))
            /\ \A x \in Skills : LogShows(Log(u), x, skill[u][x])
        BY DEF LogInv
      <4>. QED  BY <2>15, <4>1, <4>2, <4>3
    <3>. QED  BY <3>1, <3>2
  <2>. QED  BY <2>16 DEF LogInv
<1>3. CASE SameRows /\ UNCHANGED skill
  BY <1>1, <1>3, LogKept
<1>. QED  BY <1>2, <1>3, StepsOfLog
-----------------------------------------------------------------------------
(***************************************************************************)
(* One delivery: what an event does to a directory entry that its earlier  *)
(* events have brought up to date, and that a redelivery does nothing.     *)
(***************************************************************************)
LEMMA EntryFields ==
  ASSUME NEW entry \in Entries
  PROVE  /\ entry.seq \in Nat /\ entry.state \in RowStates
         /\ entry = [seq |-> entry.seq, state |-> entry.state, current |-> entry.current,
                     rows |-> entry.rows, withdrawn |-> entry.withdrawn]
         /\ entry.rows = [v \in Versions |-> entry.rows[v]]
         /\ entry.withdrawn = [v \in Versions |-> entry.withdrawn[v]]
         /\ \A v \in Versions :
              /\ entry.rows[v] \in [seq : Nat, state : RowStates]
              /\ entry.rows[v].seq \in Nat /\ entry.withdrawn[v] \in Nat
BY DEF Entries

LEMMA PublishedIs ==
  ASSUME NEW entry \in Entries, NEW v \in Versions, NEW cur, NEW n \in Nat,
         entry.seq <= n, entry.rows[v].seq <= n
  PROVE  Published(entry, v, cur, n) =
           [seq |-> n, state |-> "published", current |-> cur,
            rows |-> [entry.rows EXCEPT ![v] = [seq |-> n, state |-> "published"]],
            withdrawn |-> entry.withdrawn]
<1> DEFINE rows == [entry.rows EXCEPT
                      ![v] = IF @.seq <= n THEN [seq |-> n, state |-> "published"] ELSE @]
<1>1. Published(entry, v, cur, n) =
        [entry EXCEPT !.seq = n, !.state = "published", !.current = cur, !.rows = rows]
  BY DEF Published, AcceptsHead, Entries
<1>2. rows = [entry.rows EXCEPT ![v] = [seq |-> n, state |-> "published"]]
  OBVIOUS
<1>. HIDE DEF rows
<1>. QED  BY <1>1, <1>2 DEF Entries

LEMMA EntryPublishes ==
  ASSUME NEW log, NEW s, NEW entry \in Entries, NEW n \in 1..Len(log), Len(log) \in Nat,
         EntryInv(log, s, entry), HeadFirst(log),
         Directs(log, s, n), log[n].kind = "published", entry.seq < n,
         \A m \in 1..n : entry.seq < m /\ m # n => ~Directs(log, s, m)
  PROVE  LET new == Published(entry, log[n].version, log[n].current, n) IN
         /\ EntryInv(log, s, new) /\ new.seq = n /\ new.state = "published"
         /\ new.current = log[n].current
         /\ Visible(new) = Visible(entry) \cup {log[n].version}
<1> DEFINE v == log[n].version
           cur == log[n].current
           new == Published(entry, v, cur, n)
           q == entry.seq
<1>1. /\ q \in Nat /\ entry.state \in RowStates
      /\ \A u \in Versions : entry.rows[u].seq \in Nat /\ entry.withdrawn[u] \in Nat
      /\ entry.rows = [u \in Versions |-> entry.rows[u]]
  BY EntryFields
<1>2. v \in Versions /\ n \in Nat /\ q \in 0..(n - 1)
  BY <1>1 DEF HeadFirst
<1>3. \A u \in Versions :
        /\ entry.rows[u].seq <= q /\ entry.withdrawn[u] <= q
        /\ entry.rows[u].state = "published" =>
             entry.state = "published" /\ entry.withdrawn[u] < q
  BY DEF EntryInv
<1>4. /\ Visible(entry) = Standing(log, s, q)
      /\ entry.state = "published" => entry.current \in Visible(entry)
  BY DEF EntryInv
<1>5. new = [seq |-> n, state |-> "published", current |-> cur,
             rows |-> [entry.rows EXCEPT ![v] = [seq |-> n, state |-> "published"]],
             withdrawn |-> entry.withdrawn]
  <2>1. entry.rows[v].seq <= n
    BY <1>1, <1>2, <1>3
  <2>. QED  BY <1>1, <1>2, <2>1, PublishedIs
<1>6. /\ new.seq = n /\ new.state = "published" /\ new.current = cur
      /\ new.withdrawn = entry.withdrawn
      /\ new.rows[v] = [seq |-> n, state |-> "published"]
      /\ \A u \in Versions \ {v} : new.rows[u] = entry.rows[u]
  BY <1>1, <1>2, <1>5
<1>. HIDE DEF new
<1>7. \A u \in Versions :
        /\ new.rows[u].seq <= n /\ new.withdrawn[u] <= n /\ new.withdrawn[u] < n
        /\ new.rows[u].state = "published" <=> u = v \/ entry.rows[u].state = "published"
  BY <1>1, <1>2, <1>3, <1>6
<1>8. Visible(new) = Visible(entry) \cup {v}
  <2>1. Visible(new) = {u \in Versions : u = v \/ entry.rows[u].state = "published"}
    BY <1>1, <1>2, <1>6, <1>7 DEF Visible
  <2>2. Visible(entry) = {u \in Versions : entry.rows[u].state = "published"}
    BY <1>1, <1>3 DEF Visible
  <2>. QED  BY <1>2, <2>1, <2>2
<1>9. Standing(log, s, n) = Standing(log, s, q) \cup {v}
  <2>1. PICK j \in Nat : j = q
    BY <1>1
  <2>2. j < n /\ log[n].version \in Versions
    BY <1>2, <2>1
  <2>3. \A m \in 1..n : j < m /\ m # n => ~Directs(log, s, m)
    BY <1>2, <2>1
  <2>4. n \in Nat
    BY <1>2
  <2>5. Standing(log, s, n) = Standing(log, s, j) \cup {log[n].version}
    BY <2>2, <2>3, <2>4, StandingAdds
  <2>. QED  BY <2>1, <2>5
<1>10. cur \in Visible(new)
  <2>1. CASE v = cur
    BY <1>8, <2>1
  <2>2. CASE v # cur
    <3>1. /\ n > 1 /\ log[n].skill = s /\ Directs(log, s, n - 1)
          /\ log[n - 1].kind = "published" /\ log[n - 1].current = cur
      BY <2>2 DEF HeadFirst, Directs
    <3>2. q = n - 1
      BY <1>1, <1>2, <3>1
    <3>3. entry.state = "published" /\ entry.current = cur
      BY <1>2, <3>1, <3>2 DEF EntryInv
    <3>. QED  BY <1>4, <1>8, <3>3
  <2>. QED  BY <2>1, <2>2
<1>11. EntryInv(log, s, new)
  <2>1. n \in 0..Len(log) /\ n > 0 /\ ~(n = 0)
    BY <1>2
  <2>2. Directs(log, s, n) /\ log[n].kind = "published" /\ log[n].kind # "unpublished"
    OBVIOUS
  <2>3. Visible(new) = Standing(log, s, n)
    BY <1>4, <1>8, <1>9
  <2>4. new.rows[v] = [seq |-> new.seq, state |-> "published"]
    BY <1>6
  <2>. HIDE DEF v, cur
  <2>. QED  BY <1>6, <1>7, <1>10, <2>1, <2>2, <2>3, <2>4 DEF EntryInv, v, cur
<1>. QED  BY <1>6, <1>8, <1>11 DEF new

LEMMA EntryWithdraws ==
  ASSUME NEW log, NEW s, NEW entry \in Entries, NEW n \in 1..Len(log), Len(log) \in Nat,
         EntryInv(log, s, entry), Directs(log, s, n), log[n].kind = "unpublished", entry.seq < n
  PROVE  LET new == Unpublished(entry, log[n].version, n) IN
         /\ EntryInv(log, s, new) /\ new.seq = n /\ new.state = "unpublished"
         /\ Visible(new) = {}
<1> DEFINE v == log[n].version
           new == Unpublished(entry, v, n)
           q == entry.seq
<1>1. /\ q \in Nat
      /\ \A u \in Versions : entry.rows[u] \in [seq : Nat, state : RowStates]
                             /\ entry.rows[u].seq \in Nat /\ entry.withdrawn[u] \in Nat
  BY EntryFields
<1>2. n \in Nat /\ q <= n /\ n > 0
  BY <1>1
<1>3. \A u \in Versions : entry.rows[u].seq <= q /\ entry.withdrawn[u] <= q
  BY DEF EntryInv
<1>4. new = [seq |-> n, state |-> "unpublished", current |-> v,
             rows |-> [u \in Versions |->
                         IF entry.rows[u].state = "published" /\ entry.rows[u].seq <= n
                           THEN [seq |-> n, state |-> "unpublished"] ELSE entry.rows[u]],
             withdrawn |-> [u \in Versions |->
                              IF entry.rows[u].state # "absent" /\ entry.withdrawn[u] < n
                                THEN n ELSE entry.withdrawn[u]]]
  BY <1>2 DEF Unpublished, AcceptsHead
<1>5. new.seq = n /\ new.state = "unpublished" /\ new.current = v
  BY <1>4
<1>6. \A u \in Versions :
        /\ new.rows[u] = IF entry.rows[u].state = "published" /\ entry.rows[u].seq <= n
                           THEN [seq |-> n, state |-> "unpublished"] ELSE entry.rows[u]
        /\ new.withdrawn[u] = IF entry.rows[u].state # "absent" /\ entry.withdrawn[u] < n
                                THEN n ELSE entry.withdrawn[u]
  BY <1>4
<1>. HIDE DEF new
<1>7. ASSUME NEW u \in Versions
      PROVE  /\ new.rows[u].state # "published"
             /\ new.rows[u].seq <= n /\ new.withdrawn[u] <= n
             /\ new.rows[u].state # "absent" => new.withdrawn[u] = n
  <2>1. entry.rows[u].seq <= n /\ entry.withdrawn[u] < n
    BY <1>1, <1>2, <1>3
  <2>2. CASE entry.rows[u].state = "published"
    <3>1. new.rows[u] = [seq |-> n, state |-> "unpublished"] /\ new.withdrawn[u] = n
      BY <1>6, <2>1, <2>2
    <3>. QED  BY <1>2, <3>1
  <2>3. CASE entry.rows[u].state # "published"
    BY <1>1, <1>2, <1>6, <2>1, <2>3
  <2>. QED  BY <2>2, <2>3
<1>8. Visible(new) = {}
  BY <1>5 DEF Visible
<1>9. Standing(log, s, n) = {}
  <2>1. n \in 1..n /\ \A m \in (n + 1)..n : m \notin 1..n
    BY <1>2
  <2>2. \A m \in (n + 1)..n : Directs(log, s, m) => log[m].kind # "published"
    BY <1>2
  <2>. QED  BY <1>2, <2>1, <2>2, StandingFalls
<1>10. EntryInv(log, s, new)
  BY <1>2, <1>5, <1>7, <1>8, <1>9 DEF EntryInv
<1>. QED  BY <1>5, <1>8, <1>10 DEF new

LEMMA EntryRedelivered ==
  ASSUME NEW log, NEW s, NEW entry \in Entries, NEW n \in 1..Len(log), Len(log) \in Nat,
         EntryInv(log, s, entry), HeadFirst(log), Directs(log, s, n), n <= entry.seq
  PROVE  /\ log[n].kind = "published" =>
              Published(entry, log[n].version, log[n].current, n) = entry
         /\ log[n].kind = "unpublished" => Unpublished(entry, log[n].version, n) = entry
<1> DEFINE v == log[n].version
           q == entry.seq
<1>1. /\ q \in Nat /\ n \in Nat
      /\ entry = [seq |-> q, state |-> entry.state, current |-> entry.current,
                  rows |-> entry.rows, withdrawn |-> entry.withdrawn]
      /\ entry.rows = [u \in Versions |-> entry.rows[u]]
      /\ entry.withdrawn = [u \in Versions |-> entry.withdrawn[u]]
      /\ \A u \in Versions : entry.rows[u].seq \in Nat /\ entry.withdrawn[u] \in Nat
  <2>1. n \in Nat
    OBVIOUS
  <2>. QED  BY <2>1, EntryFields, Zenon
<1>2. CASE n < q
  BY <1>1, <1>2 DEF Published, Unpublished, AcceptsHead
<1>3. CASE n = q /\ log[n].kind = "published"
  <2>1. /\ entry.state = "published" /\ entry.current = log[n].current
        /\ entry.rows[v] = [seq |-> n, state |-> "published"]
    BY <1>3 DEF EntryInv
  <2>2. v \in Versions
    BY <1>3 DEF HeadFirst
  <2>3. entry.rows[v].seq <= n
    BY <1>1, <2>1
  <2>4. Published(entry, v, log[n].current, n) =
          [seq |-> n, state |-> "published", current |-> log[n].current,
           rows |-> [entry.rows EXCEPT ![v] = [seq |-> n, state |-> "published"]],
           withdrawn |-> entry.withdrawn]
    <3>1. entry.seq <= n /\ n \in Nat
      BY <1>1, <1>3
    <3>. QED  BY <2>2, <2>3, <3>1, PublishedIs
  <2>5. [entry.rows EXCEPT ![v] = [seq |-> n, state |-> "published"]] = entry.rows
    BY <1>1, <2>1
  <2>. QED  BY <1>1, <1>3, <2>1, <2>4, <2>5
<1>4. CASE n = q /\ log[n].kind = "unpublished"
  <2>1. /\ entry.state = "unpublished" /\ entry.current = v
        /\ \A u \in Versions : entry.rows[u].state # "absent" => entry.withdrawn[u] = n
        /\ \A u \in Versions : entry.rows[u].state # "published"
    BY <1>4 DEF EntryInv
  <2> DEFINE rows == [u \in Versions |->
                        IF /\ entry.rows[u].state = "published"
                           /\ entry.rows[u].seq <= n
                          THEN [seq |-> n, state |-> "unpublished"]
                          ELSE entry.rows[u]]
             withdrawn == [u \in Versions |->
                             IF /\ entry.rows[u].state # "absent"
                                /\ entry.withdrawn[u] < n
                               THEN n ELSE entry.withdrawn[u]]
  <2>2. rows = entry.rows
    BY <1>1, <2>1
  <2>3. withdrawn = entry.withdrawn
    <3>1. \A u \in Versions : (IF /\ entry.rows[u].state # "absent"
                                  /\ entry.withdrawn[u] < n
                               THEN n ELSE entry.withdrawn[u]) = entry.withdrawn[u]
      BY <1>1, <2>1
    <3>. QED  BY <1>1, <3>1
  <2>4. Unpublished(entry, v, n) =
          [seq |-> n, state |-> "unpublished", current |-> v, rows |-> rows,
           withdrawn |-> withdrawn]
    BY <1>1, <1>4 DEF Unpublished, AcceptsHead
  <2>. HIDE DEF rows, withdrawn
  <2>. QED  BY <1>1, <1>4, <2>1, <2>2, <2>3, <2>4
<1>5. n < q \/ n = q
  BY <1>1
<1>. QED  BY <1>2, <1>3, <1>4, <1>5
-----------------------------------------------------------------------------
(***************************************************************************)
(* An event in its turn: what executing it does to the directory, to the   *)
(* counter and to the routes when all before it have had their effect.     *)
(***************************************************************************)

\* All events of w before the n-th have had their effect.
InTurn(w, n) == \A m \in 1..Len(outbox[w]) : m < n => Effected(w, m)

\* A checkpoint covers the events up to its own.
LEMMA CoversIs ==
  ASSUME NEW L \in Nat, NEW rows, \A n \in 1..L : rows[n].epoch \in Nat,
         \A n \in 1..L : \A m \in 1..n : rows[m].epoch <= rows[n].epoch,
         NEW c, c.seq \in 0..L, c.seq = 0 => c.epoch = 0,
         c.seq > 0 => c.epoch = rows[c.seq].epoch, NEW m \in 1..L
  PROVE  Covers(c, rows[m].epoch, m) <=> m <= c.seq
<1>1. rows[m].epoch \in Nat /\ m \in Nat /\ c.seq \in Nat /\ m > 0
  OBVIOUS
<1>2. CASE c.seq = 0
  BY <1>1, <1>2 DEF Covers
<1>3. CASE c.seq > 0
  <2>1. c.seq \in 1..L /\ c.epoch = rows[c.seq].epoch /\ c.epoch \in Nat
    BY <1>1, <1>3
  <2>2. CASE m <= c.seq
    <3>1. m \in 1..c.seq
      BY <1>1, <2>2
    <3>2. rows[m].epoch <= c.epoch
      BY <2>1, <3>1
    <3>. QED  BY <1>1, <2>1, <2>2, <3>2 DEF Covers
  <2>3. CASE c.seq < m
    <3>1. c.seq \in 1..m
      BY <1>1, <2>1, <2>3
    <3>2. c.epoch <= rows[m].epoch
      BY <2>1, <3>1
    <3>. QED  BY <1>1, <2>1, <2>3, <3>2 DEF Covers
  <2>. QED  BY <1>1, <2>2, <2>3
<1>. QED  BY <1>1, <1>2, <1>3

LEMMA CoveredUpTo ==
  ASSUME TypeOK, LogInv, NEW w \in Workspaces, CounterInv(w), NEW m \in 1..Len(outbox[w])
  PROVE  Covers(counter[w].checkpoint, outbox[w][m].epoch, m) <=> m <= counter[w].checkpoint.seq
<1> DEFINE L == Len(outbox[w])
           rows == outbox[w]
           c == counter[w].checkpoint
<1>1. L \in Nat /\ \A n \in 1..L : rows[n].epoch \in Nat
  BY OutboxType DEF Rows
<1>2. \A n \in 1..L : \A x \in 1..n : rows[x].epoch <= rows[n].epoch
  BY DEF LogInv, EpochsRise
<1>3. c.seq \in 0..L /\ (c.seq = 0 => c.epoch = 0) /\ (c.seq > 0 => c.epoch = rows[c.seq].epoch)
  BY DEF CounterInv
<1>. HIDE DEF L, rows, c
<1>4. \A x \in 1..L : Covers(c, rows[x].epoch, x) <=> x <= c.seq
  BY <1>1, <1>2, <1>3, CoversIs
<1>. QED  BY <1>4 DEF L, rows, c

LEMMA DirectoryTakes ==
  ASSUME TypeOK, LogInv, ControlInv, NEW w \in Workspaces, NEW n \in 1..Len(outbox[w]),
         InTurn(w, n), Project(w, n), Direct(outbox[w][n].event)
  PROVE  LET ev == outbox[w][n].event
             entry == directory[w][ev.skill]
             new == directory'[w][ev.skill]
         IN
         /\ UNCHANGED <<counter, routes>>
         /\ directory' = [directory EXCEPT ![w][ev.skill] = new]
         /\ EntryInv(Log(w), ev.skill, new)
         /\ n <= entry.seq => new = entry
         /\ entry.seq < n =>
              /\ new.seq = n /\ new.state = ev.kind
              /\ ev.kind = "published" =>
                   new.current = ev.current /\ Visible(new) = Visible(entry) \cup {ev.version}
              /\ ev.kind = "unpublished" => Visible(new) = {}
<1> DEFINE ev == outbox[w][n].event
           s == ev.skill
           entry == directory[w][s]
           new == directory'[w][s]
<1>1. PICK log \in Seq(Events) : /\ log = Log(w) /\ Len(log) = Len(outbox[w]) /\ Len(log) \in Nat
                                 /\ \A m \in 1..Len(outbox[w]) : log[m] = outbox[w][m].event
  BY LogIs
<1>2. ev \in Events /\ s \in Skills /\ log[n] = ev /\ n \in Nat /\ n \in 1..Len(log)
  <2>1. n \in Nat /\ n \in 1..Len(log) /\ log[n] = ev
    BY <1>1
  <2>2. outbox[w][n] \in Rows
    BY OutboxType
  <2>. QED  BY <2>1, <2>2 DEF Rows, Events
<1>3. entry \in Entries /\ directory \in [Workspaces -> [Skills -> Entries]]
  BY <1>2 DEF TypeOK
<1>4. EntryInv(log, s, entry) /\ HeadFirst(log)
  BY <1>1, <1>2 DEF ControlInv, LogInv
<1>5. ev.kind \in {"published", "unpublished"} /\ Directs(log, s, n)
  BY <1>2 DEF Direct, Directs
<1>6. ASSUME NEW m \in 1..n, entry.seq < m, m # n
      PROVE  ~Directs(log, s, m)
  <2>1. m \in 1..Len(outbox[w]) /\ m < n
    BY <1>2, <1>6
  <2>2. Effected(w, m)
    BY <2>1 DEF InTurn
  <2>3. entry.seq \in Nat /\ m \in Nat /\ ~(m <= entry.seq)
    <3>1. entry.seq \in Nat
      BY <1>3 DEF Entries
    <3>. QED  BY <1>2, <1>6, <3>1
  <2>4. ASSUME Directs(log, s, m)
        PROVE  entry.seq >= m
    <3>1. outbox[w][m].event.skill = s /\ outbox[w][m].event.kind \in {"published", "unpublished"}
      BY <1>1, <2>1, <2>4 DEF Directs, Direct
    <3>. QED  BY <2>2, <3>1 DEF Effected
  <2>. QED  BY <2>3, <2>4
<1>7. /\ UNCHANGED <<counter, routes>>
      /\ directory' = [directory EXCEPT ![w][s] =
           IF ev.kind = "published" THEN Published(entry, ev.version, ev.current, n)
                                    ELSE Unpublished(entry, ev.version, n)]
  BY <1>5 DEF Project
<1>8. /\ new = IF ev.kind = "published" THEN Published(entry, ev.version, ev.current, n)
                                        ELSE Unpublished(entry, ev.version, n)
      /\ directory' = [directory EXCEPT ![w][s] = new]
  BY <1>2, <1>3, <1>7
<1>. HIDE DEF new, entry, s, ev
<1>9. CASE n <= entry.seq
  <2>1. new = entry
    BY <1>1, <1>2, <1>3, <1>4, <1>5, <1>8, <1>9, EntryRedelivered
  <2>2. ~(entry.seq < n)
    BY <1>2, <1>3, <1>9 DEF Entries
  <2>. QED  BY <1>1, <1>4, <1>7, <1>8, <2>1, <2>2 DEF new, entry, s, ev
<1>10. CASE entry.seq < n /\ ev.kind = "published"
  <2>1. new = Published(entry, log[n].version, log[n].current, n) /\ log[n].kind = "published"
    BY <1>2, <1>8, <1>10
  <2>2. /\ EntryInv(log, s, new) /\ new.seq = n /\ new.state = "published"
        /\ new.current = log[n].current
        /\ Visible(new) = Visible(entry) \cup {log[n].version}
    BY <1>1, <1>2, <1>3, <1>4, <1>5, <1>6, <1>10, <2>1, EntryPublishes
  <2>3. ~(n <= entry.seq)
    BY <1>2, <1>3, <1>10 DEF Entries
  <2>. QED  BY <1>1, <1>2, <1>7, <1>8, <1>10, <2>2, <2>3 DEF new, entry, s, ev
<1>11. CASE entry.seq < n /\ ev.kind = "unpublished"
  <2>1. new = Unpublished(entry, log[n].version, n) /\ log[n].kind = "unpublished"
    BY <1>2, <1>8, <1>11
  <2>2. /\ EntryInv(log, s, new) /\ new.seq = n /\ new.state = "unpublished"
        /\ Visible(new) = {}
    <3>1. n \in 1..Len(log) /\ Len(log) \in Nat /\ EntryInv(log, s, entry) /\ Directs(log, s, n)
      BY <1>1, <1>2, <1>4, <1>5
    <3>2. entry \in Entries /\ entry.seq < n
      BY <1>3, <1>11
    <3>3. log[n].kind = "unpublished"
      BY <2>1
    <3> DEFINE fell == Unpublished(entry, log[n].version, n)
    <3>4. /\ EntryInv(log, s, fell) /\ fell.seq = n /\ fell.state = "unpublished"
          /\ Visible(fell) = {}
      BY <3>1, <3>2, <3>3, EntryWithdraws
    <3>. QED  BY <2>1, <3>4
  <2>3. ~(n <= entry.seq)
    BY <1>2, <1>3, <1>11 DEF Entries
  <2>. QED  BY <1>1, <1>2, <1>7, <1>8, <1>11, <2>2, <2>3 DEF new, entry, s, ev
<1>12. \/ n <= entry.seq
       \/ entry.seq < n /\ ev.kind = "published"
       \/ entry.seq < n /\ ev.kind = "unpublished"
  <2>1. entry.seq \in Nat
    BY <1>3 DEF Entries
  <2>. QED  BY <1>2, <1>5, <2>1
<1>. QED  BY <1>9, <1>10, <1>11, <1>12, Zenon

LEMMA CounterTakes ==
  ASSUME TypeOK, LogInv, ControlInv, Remembered, NEW w \in Workspaces,
         NEW n \in 1..Len(outbox[w]), InTurn(w, n), Project(w, n), UNCHANGED outbox,
         outbox[w][n].event.kind = "count"
  PROVE  LET c == counter[w]
             new == counter'[w]
         IN
         /\ UNCHANGED <<directory, routes>>
         /\ \A u \in Workspaces \ {w} : counter'[u] = counter[u]
         /\ CounterInv(w)'
         /\ n <= c.checkpoint.seq => new.total = c.total /\ new.checkpoint = c.checkpoint
         /\ c.checkpoint.seq < n =>
              /\ new.checkpoint = [epoch |-> outbox[w][n].epoch, seq |-> n]
              /\ new.total = c.total + outbox[w][n].event.delta
<1> DEFINE ev == outbox[w][n].event
           e == outbox[w][n].epoch
           c == counter[w]
           new == counter'[w]
           j == c.checkpoint.seq
<1>1. PICK log \in Seq(Events) : /\ log = Log(w) /\ Len(log) = Len(outbox[w]) /\ Len(log) \in Nat
                                 /\ \A m \in 1..Len(outbox[w]) : log[m] = outbox[w][m].event
  BY LogIs
<1>2. ev \in Events /\ log[n] = ev /\ n \in Nat /\ n \in 1..Len(log) /\ ev.delta \in {-1, 0, 1}
      /\ e \in Nat
  <2>1. n \in Nat /\ n \in 1..Len(log) /\ log[n] = ev
    BY <1>1
  <2>2. outbox[w][n] \in Rows
    BY OutboxType
  <2>3. ev \in Events /\ e \in Nat
    BY <2>2 DEF Rows
  <2>. QED  BY <2>1, <2>3 DEF Events
<1>3. /\ c \in Counters /\ counter \in [Workspaces -> Counters]
      /\ c = [total |-> c.total, checkpoint |-> c.checkpoint, claimed |-> c.claimed]
      /\ c.total \in Int /\ j \in Nat
  BY DEF TypeOK, Counters
<1>4. /\ j \in 0..Len(outbox[w]) /\ c.total = Balance(log, j)
      /\ CounterInv(w)
  BY <1>1 DEF ControlInv, CounterInv
<1>5. /\ UNCHANGED <<directory, routes>>
      /\ counter' = [counter EXCEPT ![w] = Counted(c, e, n, ev.delta)]
  BY DEF Project
<1>6. new = Counted(c, e, n, ev.delta) /\ \A u \in Workspaces \ {w} : counter'[u] = counter[u]
  BY <1>3, <1>5
<1>7. /\ Covers(c.checkpoint, e, n) <=> n <= j
      /\ n \in c.claimed => Covers(c.checkpoint, e, n)
  BY <1>4, CoveredUpTo DEF Remembered
<1>8. /\ n <= j => new.total = c.total /\ new.checkpoint = c.checkpoint
      /\ j < n => /\ new.checkpoint = [epoch |-> e, seq |-> n]
                  /\ new.total = c.total + ev.delta
  <2>1. CASE n <= j
    <3>1. ~(j < n)
      BY <1>2, <1>3, <2>1
    <3>. QED  BY <1>3, <1>6, <1>7, <2>1, <3>1 DEF Counted
  <2>2. CASE j < n
    <3>1. ~(n <= j) /\ n \notin c.claimed /\ ~Covers(c.checkpoint, e, n)
      BY <1>2, <1>3, <1>7, <2>2
    <3>2. new = [total |-> c.total + ev.delta, checkpoint |-> [epoch |-> e, seq |-> n],
                 claimed |-> c.claimed \cup {n}]
      BY <1>3, <1>6, <3>1 DEF Counted
    <3>. QED  BY <3>1, <3>2
  <2>. QED  BY <1>2, <1>3, <2>1, <2>2
<1>9. CounterInv(w)'
  <2>1. Log(w)' = log /\ outbox' = outbox
    BY <1>1 DEF Log
  <2>2. CASE n <= j
    <3>1. new.total = c.total /\ new.checkpoint = c.checkpoint
      BY <1>8, <2>2
    <3>2. /\ new.checkpoint.seq \in 0..Len(outbox[w])
          /\ new.checkpoint.seq = 0 => new.checkpoint.epoch = 0
          /\ new.checkpoint.seq > 0 =>
               /\ outbox[w][new.checkpoint.seq].event.kind = "count"
               /\ new.checkpoint.epoch = outbox[w][new.checkpoint.seq].epoch
          /\ new.total = Balance(log, new.checkpoint.seq)
      BY <1>4, <3>1 DEF CounterInv
    <3>. QED  BY <2>1, <3>2 DEF CounterInv
  <2>3. CASE j < n
    <3>1. new.checkpoint = [epoch |-> e, seq |-> n] /\ new.total = c.total + ev.delta
      BY <1>8, <2>3
    <3>2. ASSUME NEW m \in 1..n, j < m, m # n
          PROVE  log[m].delta = 0
      <4>1. m \in 1..Len(outbox[w]) /\ m < n /\ m \in Nat
        BY <1>2, <3>2
      <4>2. Effected(w, m)
        BY <4>1 DEF InTurn
      <4>3. ~Covers(c.checkpoint, outbox[w][m].epoch, m)
        BY <1>3, <1>4, <3>2, <4>1, CoveredUpTo
      <4>4. log[m].kind # "count"
        BY <1>1, <4>1, <4>2, <4>3 DEF Effected
      <4>5. LogCounts(log, Counting(w))
        BY <1>1 DEF LogInv
      <4>. QED  BY <1>1, <4>1, <4>4, <4>5 DEF LogCounts
    <3>3. Balance(log, n) = Balance(log, j) + ev.delta
      <4>1. \A m \in 1..n : j < m /\ m # n => log[m].delta = 0
        BY <3>2
      <4>2. n \in 1..n /\ \A m \in 1..j : log[m] = log[m]
        BY <1>2
      <4>3. log[n].delta \in {-1, 0, 1}
        BY <1>2
      <4>4. Balance(log, n) = Balance(log, j) + log[n].delta
        BY <1>2, <1>3, <2>3, <4>1, <4>2, <4>3, BalanceMoves
      <4>. QED  BY <1>2, <4>4
    <3>. QED  BY <1>2, <1>4, <2>1, <3>1, <3>3 DEF CounterInv
  <2>. QED  BY <1>2, <1>3, <2>2, <2>3
<1>. QED  BY <1>5, <1>6, <1>8, <1>9

LEMMA RoutesTake ==
  ASSUME TypeOK, LogInv, NEW w \in Workspaces, NEW n \in 1..Len(outbox[w]), Project(w, n),
         outbox[w][n].event.kind = "route"
  PROVE  LET s == outbox[w][n].event.skill IN
         /\ UNCHANGED <<directory, counter>>
         /\ routes' = routes \cup {<<w, s>>}
         /\ s \in Skills /\ skill[w][s].current > 0
         /\ \A m \in 1..Len(outbox[w]) :
              outbox[w][m].event.kind = "route" /\ outbox[w][m].event.skill = s => m = n
<1>1. PICK log \in Seq(Events) : /\ log = Log(w) /\ Len(log) = Len(outbox[w]) /\ Len(log) \in Nat
                                 /\ \A m \in 1..Len(outbox[w]) : log[m] = outbox[w][m].event
  BY LogIs
<1>2. RoutedOnce(log, skill[w]) /\ outbox[w][n].event.skill \in Skills
  BY <1>1, OutboxType DEF LogInv, Rows, Events
<1>3. UNCHANGED <<directory, counter>> /\ routes' = routes \cup {<<w, outbox[w][n].event.skill>>}
  BY DEF Project
<1>. QED  BY <1>1, <1>2, <1>3 DEF RoutedOnce
\* Executing an event in its turn leaves the control plane what the log up to it adds up to,
\* and gives that event its effect and no other.
Takes(w, n) ==
  /\ ControlInv'
  /\ \A u \in Workspaces : \A m \in 1..Len(outbox[u]) :
       Effected(u, m)' <=> Effected(u, m) \/ (u = w /\ m = n)
  /\ Effected(w, n) =>
       /\ UNCHANGED <<directory, routes>>
       /\ \A u \in Workspaces : counter'[u].total = counter[u].total

LEMMA TakesDirect ==
  ASSUME TypeOK, LogInv, ControlInv, NEW w \in Workspaces, NEW n \in 1..Len(outbox[w]),
         InTurn(w, n), Project(w, n), UNCHANGED <<outbox, skill>>,
         Direct(outbox[w][n].event)
  PROVE  Takes(w, n)
<1> DEFINE ev == outbox[w][n].event
           s == ev.skill
           entry == directory[w][s]
           new == directory'[w][s]
<1>1. /\ UNCHANGED <<counter, routes>>
      /\ directory' = [directory EXCEPT ![w][s] = new]
      /\ EntryInv(Log(w), s, new)
      /\ n <= entry.seq => new = entry
      /\ entry.seq < n => new.seq = n
  BY DirectoryTakes
<1>2. s \in Skills /\ n \in Nat /\ ev.kind \in {"published", "unpublished"}
  <2>1. outbox[w][n] \in Rows /\ n \in Nat
    BY OutboxType
  <2>. QED  BY <2>1 DEF Rows, Events, Direct
<1>3. directory \in [Workspaces -> [Skills -> Entries]] /\ entry.seq \in Nat
  BY <1>2 DEF TypeOK, Entries
<1>4. /\ \A u \in Workspaces : u # w => directory'[u] = directory[u]
      /\ \A x \in Skills : x # s => directory'[w][x] = directory[w][x]
  BY <1>1, <1>2, <1>3
<1>5. ControlInv'
  <2>1. \A u \in Workspaces : Log(u)' = Log(u) /\ CounterInv(u)'
    BY <1>1 DEF Log, ControlInv, CounterInv
  <2>2. ASSUME NEW u \in Workspaces, NEW x \in Skills
        PROVE  EntryInv(Log(u), x, directory'[u][x])
    BY <1>1, <1>4 DEF ControlInv
  <2>3. \A u \in Workspaces, x \in Skills : <<u, x>> \in routes' => skill'[u][x].current > 0
    BY <1>1 DEF ControlInv
  <2>. QED  BY <2>1, <2>2, <2>3 DEF ControlInv
<1>6. ASSUME NEW u \in Workspaces, NEW m \in 1..Len(outbox[u])
      PROVE  Effected(u, m)' <=> Effected(u, m) \/ (u = w /\ m = n)
  <2> DEFINE em == outbox[u][m].event
  <2>1. em.skill \in Skills /\ em.kind \in {"published", "unpublished", "count", "route"}
        /\ m \in Nat
    <3>1. outbox[u][m] \in Rows /\ m \in Nat
      BY OutboxType
    <3>. QED  BY <3>1 DEF Rows, Events
  <2>2. CASE em.kind \notin {"published", "unpublished"}
    <3>1. ~(u = w /\ m = n)
      BY <1>2, <2>2
    <3>2. CASE em.kind = "count"
      BY <1>1, <3>1, <3>2 DEF Effected
    <3>3. CASE em.kind = "route"
      BY <1>1, <3>1, <3>3 DEF Effected
    <3>. QED  BY <2>1, <2>2, <3>2, <3>3
  <2>3. CASE em.kind \in {"published", "unpublished"}
    <3>1. /\ Effected(u, m)' <=> directory'[u][em.skill].seq >= m
          /\ Effected(u, m) <=> directory[u][em.skill].seq >= m
      BY <2>3 DEF Effected
    <3>2. CASE u = w /\ em.skill = s
      <4>1. m < n => entry.seq >= m
        BY <3>1, <3>2 DEF InTurn
      <4>2. CASE n <= entry.seq
        BY <1>1, <1>2, <1>3, <2>1, <3>1, <3>2, <4>2
      <4>3. CASE entry.seq < n
        <5>1. new.seq = n
          BY <1>1, <4>3
        <5>2. n >= m <=> (entry.seq >= m \/ m = n)
          BY <1>2, <1>3, <2>1, <4>1, <4>3
        <5>. QED  BY <3>1, <3>2, <5>1, <5>2
      <4>. QED  BY <1>2, <1>3, <4>2, <4>3
    <3>3. CASE ~(u = w /\ em.skill = s)
      <4>1. directory'[u][em.skill] = directory[u][em.skill]
        BY <1>4, <2>1, <3>3
      <4>2. ~(u = w /\ m = n)
        BY <3>3
      <4>. QED  BY <3>1, <4>1, <4>2
    <3>. QED  BY <3>2, <3>3
  <2>. QED  BY <2>2, <2>3
<1>7. ASSUME Effected(w, n)
      PROVE  UNCHANGED directory
  <2>1. n <= entry.seq
    BY <1>2, <1>3, <1>7 DEF Effected
  <2>2. directory' = [directory EXCEPT ![w][s] = directory[w][s]]
    BY <1>1, <2>1
  <2>. QED  BY <1>2, <1>3, <2>2
<1>. QED  BY <1>1, <1>5, <1>6, <1>7 DEF Takes

LEMMA TakesCount ==
  ASSUME TypeOK, LogInv, ControlInv, Remembered, NEW w \in Workspaces,
         NEW n \in 1..Len(outbox[w]), InTurn(w, n), Project(w, n),
         UNCHANGED <<outbox, skill>>, outbox[w][n].event.kind = "count"
  PROVE  Takes(w, n)
<1> DEFINE c == counter[w].checkpoint
           new == counter'[w].checkpoint
           L == Len(outbox[w])
<1>1. /\ UNCHANGED <<directory, routes>>
      /\ \A u \in Workspaces \ {w} : counter'[u] = counter[u]
      /\ CounterInv(w)'
      /\ n <= c.seq => counter'[w].total = counter[w].total /\ new = c
      /\ c.seq < n => new = [epoch |-> outbox[w][n].epoch, seq |-> n]
  BY CounterTakes
<1>2. L \in Nat /\ \A m \in 1..L : m \in Nat /\ outbox[w][m].epoch \in Nat
  BY OutboxType DEF Rows
<1>3. c.seq \in Nat /\ n \in Nat
  BY <1>2 DEF TypeOK, Counters
<1>4. ControlInv'
  <2>1. \A u \in Workspaces : Log(u)' = Log(u)
    BY DEF Log
  <2>2. ASSUME NEW u \in Workspaces
        PROVE  CounterInv(u)'
    <3>1. CASE u # w
      BY <1>1, <2>1, <3>1 DEF ControlInv, CounterInv
    <3>2. CASE u = w
      BY <1>1, <3>2
    <3>. QED  BY <3>1, <3>2
  <2>. QED  BY <1>1, <2>1, <2>2 DEF ControlInv
<1>5. \A m \in 1..L : Covers(c, outbox[w][m].epoch, m) <=> m <= c.seq
  BY CoveredUpTo DEF ControlInv
<1>6. \A m \in 1..L : Covers(new, outbox[w][m].epoch, m) <=> m <= new.seq
  <2>1. \A x \in 1..L : \A m \in 1..x : outbox[w][m].epoch <= outbox[w][x].epoch
    BY DEF LogInv, EpochsRise
  <2>2. /\ new.seq \in 0..L /\ (new.seq = 0 => new.epoch = 0)
        /\ new.seq > 0 => new.epoch = outbox[w][new.seq].epoch
    BY <1>1 DEF CounterInv
  <2>3. PICK rows, k : rows = outbox[w] /\ k = new
    OBVIOUS
  <2>. HIDE DEF new, L
  <2>4. \A m \in 1..L : Covers(k, rows[m].epoch, m) <=> m <= k.seq
    BY <1>2, <2>1, <2>2, <2>3, CoversIs
  <2>. QED  BY <2>3, <2>4
<1>7. ASSUME NEW u \in Workspaces, NEW m \in 1..Len(outbox[u])
      PROVE  Effected(u, m)' <=> Effected(u, m) \/ (u = w /\ m = n)
  <2>1. CASE u # w
    BY <1>1, <2>1 DEF Effected
  <2>2. CASE u = w /\ outbox[w][m].event.kind # "count"
    <3> DEFINE em == outbox[w][m].event
    <3>1. m # n /\ em.kind \in {"published", "unpublished", "route"}
      <4>1. outbox[w][m] \in Rows
        BY <2>2, OutboxType
      <4>. QED  BY <2>2, <4>1 DEF Rows, Events
    <3>2. CASE em.kind = "route"
      BY <1>1, <2>2, <3>1, <3>2 DEF Effected
    <3>3. CASE em.kind \in {"published", "unpublished"}
      BY <1>1, <2>2, <3>1, <3>3 DEF Effected
    <3>. QED  BY <3>1, <3>2, <3>3
  <2>3. CASE u = w /\ outbox[w][m].event.kind = "count"
    <3>1. /\ Effected(w, m)' <=> m <= new.seq
          /\ Effected(w, m) <=> m <= c.seq
      BY <1>5, <1>6, <2>3 DEF Effected
    <3>2. m < n => m <= c.seq
      BY <2>3, <3>1 DEF InTurn
    <3>3. CASE n <= c.seq
      <4>1. new = c
        BY <1>1, <3>3
      <4>2. m = n => m <= c.seq
        BY <3>3
      <4>. QED  BY <2>3, <3>1, <4>1, <4>2
    <3>4. CASE c.seq < n
      <4>1. new.seq = n
        BY <1>1, <3>4
      <4>2. m <= n <=> (m <= c.seq \/ m = n)
        BY <1>2, <1>3, <2>3, <3>2, <3>4
      <4>. QED  BY <2>3, <3>1, <4>1, <4>2
    <3>. QED  BY <1>3, <3>3, <3>4
  <2>. QED  BY <2>1, <2>2, <2>3
<1>8. ASSUME Effected(w, n)
      PROVE  \A u \in Workspaces : counter'[u].total = counter[u].total
  <2>1. n <= c.seq
    BY <1>5, <1>8 DEF Effected
  <2>. QED  BY <1>1, <2>1
<1>. QED  BY <1>1, <1>4, <1>7, <1>8 DEF Takes

LEMMA TakesRoute ==
  ASSUME TypeOK, LogInv, ControlInv, NEW w \in Workspaces, NEW n \in 1..Len(outbox[w]),
         Project(w, n), UNCHANGED <<outbox, skill>>, outbox[w][n].event.kind = "route"
  PROVE  Takes(w, n)
<1> DEFINE s == outbox[w][n].event.skill
<1>1. /\ UNCHANGED <<directory, counter>>
      /\ routes' = routes \cup {<<w, s>>}
      /\ s \in Skills /\ skill[w][s].current > 0
      /\ \A m \in 1..Len(outbox[w]) :
           outbox[w][m].event.kind = "route" /\ outbox[w][m].event.skill = s => m = n
  BY RoutesTake
<1>2. ControlInv'
  <2>1. \A u \in Workspaces : Log(u)' = Log(u) /\ CounterInv(u)'
    BY <1>1 DEF Log, ControlInv, CounterInv
  <2>2. \A u \in Workspaces, x \in Skills : <<u, x>> \in routes' => skill'[u][x].current > 0
    BY <1>1 DEF ControlInv
  <2>. QED  BY <1>1, <2>1, <2>2 DEF ControlInv
<1>3. ASSUME NEW u \in Workspaces, NEW m \in 1..Len(outbox[u])
      PROVE  Effected(u, m)' <=> Effected(u, m) \/ (u = w /\ m = n)
  <2>1. CASE outbox[u][m].event.kind # "route"
    <3>1. ~(u = w /\ m = n)
      BY <2>1
    <3>2. Effected(u, m)' <=> Effected(u, m)
      BY <1>1, <2>1 DEF Effected
    <3>. QED  BY <3>1, <3>2
  <2>2. CASE outbox[u][m].event.kind = "route"
    <3>1. /\ Effected(u, m)' <=> <<u, outbox[u][m].event.skill>> \in routes'
          /\ Effected(u, m) <=> <<u, outbox[u][m].event.skill>> \in routes
      BY <2>2 DEF Effected
    <3>2. u = w /\ outbox[u][m].event.skill = s <=> u = w /\ m = n
      BY <1>1, <2>2
    <3>. QED  BY <1>1, <3>1, <3>2
  <2>. QED  BY <2>1, <2>2
<1>4. ASSUME Effected(w, n)
      PROVE  UNCHANGED routes
  BY <1>1, <1>4 DEF Effected
<1>. QED  BY <1>1, <1>2, <1>3, <1>4 DEF Takes

LEMMA TakesInTurn ==
  ASSUME TypeOK, LogInv, ControlInv, Remembered, NEW w \in Workspaces,
         NEW n \in 1..Len(outbox[w]), InTurn(w, n), Project(w, n), UNCHANGED <<outbox, skill>>
  PROVE  Takes(w, n)
<1>1. outbox[w][n] \in Rows
  BY OutboxType
<1>2. Direct(outbox[w][n].event) \/ outbox[w][n].event.kind \in {"count", "route"}
  BY <1>1 DEF Rows, Events, Direct
<1>. QED  BY <1>2, TakesDirect, TakesCount, TakesRoute

\* A drainer applies an event in its turn.
LEMMA AppliesInTurn ==
  ASSUME TypeInv, AckedMeansApplied, OldestInHand, NEW d \in Drainers, Apply(d)
  PROVE  /\ current[d][1] \in Workspaces
         /\ current[d][2] \in 1..Len(outbox[current[d][1]])
         /\ InTurn(current[d][1], current[d][2])
         /\ Project(current[d][1], current[d][2])
<1> DEFINE w == current[d][1]
           n == current[d][2]
<1>1. w \in Workspaces /\ n \in 1..Len(outbox[w]) /\ Project(w, n) /\ pc[d] = "apply"
  BY DEF Apply, InHand, Items, TypeInv
<1>2. Oldest(current[d])
  BY <1>1 DEF OldestInHand
<1>3. ASSUME NEW m \in 1..Len(outbox[w]), m < n
      PROVE  Effected(w, m)
  <2>1. Len(outbox[w]) \in Nat /\ DOMAIN outbox[w] = 1..Len(outbox[w])
    BY <1>1, OutboxType DEF TypeInv
  <2>2. m \in 1..(n - 1)
    BY <1>1, <1>3, <2>1
  <2>3. outbox[w][m].status # "pending"
    BY <1>2, <2>2 DEF Oldest
  <2>. QED  BY <1>1, <1>3, <2>1, <2>3 DEF AckedMeansApplied, Pending
<1>. QED  BY <1>1, <1>3 DEF InTurn
-----------------------------------------------------------------------------
(***************************************************************************)
(* The control plane is what a part of the log adds up to, and no event    *)
(* has had its effect before all older ones are settled.                   *)
(***************************************************************************)

\* Steps that neither commit nor apply an event.
Quiet ==
  /\ SameRows /\ SettledStays /\ UNCHANGED <<skill, directory, routes>>
  /\ \A w \in Workspaces : /\ counter'[w].total = counter[w].total
                           /\ counter'[w].checkpoint = counter[w].checkpoint

LEMMA StepsOfControl ==
  ASSUME TypeInv, [Next]_vars
  PROVE  \/ \E w \in Workspaces, s \in Skills : RegionalStep(w, s)
         \/ \E d \in Drainers : Apply(d)
         \/ Quiet
<1>1. ASSUME NEW d \in Drainers, DrainerStep(d), ~Apply(d)
      PROVE  UNCHANGED control
  BY <1>1 DEF DrainerStep, Claim, Check, Ack, Fail, Finish, Crash
<1>2. ASSUME NEW w \in Workspaces, RetireCount(w)
      PROVE  /\ UNCHANGED <<directory, routes>>
             /\ \A u \in Workspaces : /\ counter'[u].total = counter[u].total
                                      /\ counter'[u].checkpoint = counter[u].checkpoint
  <2>1. PICK n \in counter[w].claimed :
          /\ counter' = [counter EXCEPT ![w].claimed = @ \ {n}]
          /\ UNCHANGED <<directory, routes>>
    BY <1>2 DEF RetireCount
  <2>2. counter \in [Workspaces -> Counters]
    BY DEF TypeInv, TypeOK
  <2>3. \A u \in Workspaces : u # w => counter'[u] = counter[u]
    BY <2>1, <2>2
  <2>4. counter'[w] = [counter[w] EXCEPT !.claimed = @ \ {n}]
    BY <2>1, <2>2
  <2>5. counter[w] \in Counters
    BY <2>2
  <2>6. /\ counter'[w].total = counter[w].total
        /\ counter'[w].checkpoint = counter[w].checkpoint
    BY <2>4, <2>5 DEF Counters
  <2>. QED  BY <2>1, <2>3, <2>6
<1>3. UNCHANGED control => /\ UNCHANGED <<directory, routes>>
                           /\ \A u \in Workspaces : /\ counter'[u].total = counter[u].total
                                                    /\ counter'[u].checkpoint = counter[u].checkpoint
  BY DEF control
<1>. QED  BY <1>1, <1>2, <1>3, StepsOfLog DEF Quiet

\* What an entry says of the log stays true when events are appended.
LEMMA EntryStays ==
  ASSUME NEW log, NEW more, NEW s, NEW entry, Len(log) \in Nat, Len(more) \in Nat,
         Len(log) <= Len(more), \A n \in 1..Len(log) : more[n] = log[n],
         EntryInv(log, s, entry)
  PROVE  EntryInv(more, s, entry)
<1> DEFINE q == entry.seq
<1>1. q \in 0..Len(log) /\ q \in Nat /\ q \in 0..Len(more)
  BY DEF EntryInv
<1>2. \A n \in 1..q : more[n] = log[n]
  BY <1>1
<1>3. q > 0 => more[q] = log[q]
  BY <1>1, <1>2
<1>4. Standing(more, s, q) = Standing(log, s, q)
  <2>1. PICK j \in Nat : j = q
    BY <1>1
  <2>2. j <= j /\ (\A n \in 1..j : more[n] = log[n]) /\ \A m \in (j + 1)..j : ~Directs(more, s, m)
    BY <1>2, <2>1
  <2>. QED  BY <2>1, <2>2, StandsStill
<1>. QED  BY <1>1, <1>3, <1>4 DEF EntryInv, Directs

LEMMA ControlInit == Init => ControlInv /\ InOrder
<1> SUFFICES ASSUME Init PROVE ControlInv /\ InOrder
  OBVIOUS
<1>1. ASSUME NEW w \in Workspaces
      PROVE  /\ outbox[w] = <<>> /\ Len(outbox[w]) = 0 /\ Len(Log(w)) = 0
             /\ counter[w] = NoCounter /\ \A s \in Skills : directory[w][s] = NoEntry
  <2>1. outbox[w] = <<>> /\ Len(outbox[w]) = 0
    BY DEF Init
  <2>2. Log(w) \in [1..0 -> Events]
    BY <2>1 DEF Log
  <2>. QED  BY <2>1, <2>2, FunctionIsSequence DEF Init
<1>2. \A i : i \notin 1..0
  OBVIOUS
<1>3. ASSUME NEW w \in Workspaces
      PROVE  CounterInv(w)
  <2>1. \A d : Deltas(Log(w), 0, d) = {}
    BY <1>2 DEF Deltas
  <2>2. Balance(Log(w), 0) = 0
    BY <2>1, FS_EmptySet DEF Balance
  <2>. QED  BY <1>1, <2>2 DEF CounterInv, NoCounter
<1>4. ASSUME NEW w \in Workspaces, NEW s \in Skills
      PROVE  EntryInv(Log(w), s, directory[w][s])
  <2>1. Standing(Log(w), s, 0) = {}
    BY <1>2 DEF Standing
  <2>2. Visible(NoEntry) = {}
    BY DEF Visible, NoEntry
  <2>3. PICK log, entry : log = Log(w) /\ entry = directory[w][s]
    OBVIOUS
  <2>4. /\ entry = NoEntry /\ entry.seq = 0 /\ entry.state = "absent" /\ Len(log) = 0
        /\ \A v \in Versions : /\ entry.rows[v].seq = 0 /\ entry.rows[v].state = "absent"
                               /\ entry.withdrawn[v] = 0
    BY <1>1, <2>3 DEF NoEntry
  <2>. QED  BY <2>1, <2>2, <2>3, <2>4 DEF EntryInv
<1>5. \A w \in Workspaces, s \in Skills : <<w, s>> \notin routes
  BY DEF Init
<1>6. InOrder
  BY <1>1, <1>2 DEF InOrder
<1>. QED  BY <1>3, <1>4, <1>5, <1>6 DEF ControlInv

\* A commit changes nothing of the control plane; its events have had no effect.
LEMMA ControlCommits ==
  ASSUME TypeInv, TypeInv', LogInv, LogInv', ControlInv,
         NEW w \in Workspaces, NEW s \in Skills, RegionalStep(w, s)
  PROVE  /\ ControlInv' /\ UNCHANGED control
         /\ \A u \in Workspaces :
              /\ Len(outbox[u]) <= Len(outbox'[u])
              /\ \A m \in 1..Len(outbox[u]) : outbox'[u][m] = outbox[u][m]
              /\ \A m \in 1..Len(outbox'[u]) :
                   Effected(u, m)' <=> m \in 1..Len(outbox[u]) /\ Effected(u, m)
         /\ \E evs \in Seq(Events) : Log(w)' = Log(w) \o evs
         /\ \A u \in Workspaces \ {w} : Log(u)' = Log(u)
<1>1. PICK sk \in SkillStates, evs \in Seq(Events) :
        Commit(w, s, sk, evs) /\ Block(s, skill[w][s], sk, evs)
  BY Blocks DEF TypeInv
<1>2. PICK e : Appended(w, evs, e)
  BY <1>1, CommitLog DEF TypeInv
<1>3. Log(w)' = Log(w) \o evs /\ \A u \in Workspaces \ {w} : Log(u)' = Log(u)
  BY <1>2, LogGrows DEF TypeInv
<1>4. /\ UNCHANGED control /\ directory' = directory /\ counter' = counter /\ routes' = routes
      /\ skill' = [skill EXCEPT ![w][s] = sk]
  BY <1>1 DEF Commit, control
<1>5. ASSUME NEW u \in Workspaces
      PROVE  /\ Len(outbox[u]) \in Nat /\ Len(outbox'[u]) \in Nat
             /\ Len(outbox[u]) <= Len(outbox'[u])
             /\ \A m \in 1..Len(outbox[u]) : outbox'[u][m] = outbox[u][m]
  <2>1. Len(outbox[u]) \in Nat /\ Len(evs) \in Nat
    BY OutboxType, LenProperties DEF TypeInv
  <2>2. CASE u = w
    BY <1>2, <2>1, <2>2 DEF Appended
  <2>3. CASE u # w
    BY <1>2, <2>1, <2>3 DEF Appended
  <2>. QED  BY <2>2, <2>3
<1>6. ASSUME NEW u \in Workspaces
      PROVE  /\ Len(Log(u)) = Len(outbox[u]) /\ Len(Log(u)') = Len(outbox'[u])
             /\ \A m \in 1..Len(outbox[u]) : Log(u)'[m] = Log(u)[m]
  <2>1. Len(Log(u)) = Len(outbox[u]) /\ \A m \in 1..Len(outbox[u]) : Log(u)[m] = outbox[u][m].event
    BY LogIs DEF TypeInv
  <2>2. Log(u)' = [m \in 1..Len(outbox'[u]) |-> outbox'[u][m].event]
    BY DEF Log
  <2> DEFINE new == [m \in 1..Len(outbox'[u]) |-> outbox'[u][m].event]
  <2>3. \A m \in 1..Len(outbox'[u]) : outbox'[u][m].event \in Events
    <3>1. outbox'[u] \in Seq(Rows)
      BY DEF TypeInv, TypeOK
    <3>2. \A m \in 1..Len(outbox'[u]) : outbox'[u][m] \in Rows
      BY <3>1, ElementOfSeq
    <3>. QED  BY <3>2 DEF Rows
  <2>4. new \in [1..Len(outbox'[u]) -> Events]
    BY <2>3
  <2>5. Len(new) = Len(outbox'[u])
    BY <1>5, <2>4, FunctionIsSequence
  <2>6. \A m \in 1..Len(outbox[u]) : m \in 1..Len(outbox'[u]) /\ new[m] = outbox[u][m].event
    <3>1. \A m \in 1..Len(outbox[u]) : m \in 1..Len(outbox'[u])
      BY <1>5
    <3>. QED  BY <1>5, <3>1
  <2>. QED  BY <2>1, <2>2, <2>5, <2>6
<1>7. ASSUME NEW u \in Workspaces
      PROVE  CounterInv(u)'
  <2>1. PICK log, more, k :
          log = Log(u) /\ more = Log(u)' /\ k = counter[u].checkpoint
    OBVIOUS
  <2>2. /\ k.seq \in 0..Len(outbox[u]) /\ (k.seq = 0 => k.epoch = 0)
        /\ k.seq > 0 => /\ outbox[u][k.seq].event.kind = "count"
                        /\ k.epoch = outbox[u][k.seq].epoch
        /\ counter[u].total = Balance(log, k.seq)
    BY <2>1 DEF ControlInv, CounterInv
  <2>3. PICK j \in Nat : j = k.seq
    BY <1>5, <2>2
  <2>4. /\ j <= j /\ \A n \in 1..j : more[n] = log[n]
        /\ \A m \in (j + 1)..j : more[m].delta = 0
    <3>1. \A n \in 1..j : n \in 1..Len(outbox[u])
      BY <1>5, <2>2, <2>3
    <3>2. j <= j /\ \A m \in (j + 1)..j : more[m].delta = 0
      OBVIOUS
    <3>. QED  BY <1>6, <2>1, <3>1, <3>2
  <2>5. Balance(more, j) = Balance(log, j)
    BY <2>4, BalanceStays
  <2>6. j \in 0..Len(outbox'[u]) /\ (j > 0 => outbox'[u][j] = outbox[u][j])
    <3>1. j > 0 => j \in 1..Len(outbox[u])
      BY <1>5, <2>2, <2>3
    <3>2. j \in 0..Len(outbox'[u])
      BY <1>5, <2>2, <2>3
    <3>. QED  BY <1>5, <3>1, <3>2
  <2>. QED  BY <1>4, <2>1, <2>2, <2>3, <2>5, <2>6 DEF CounterInv
<1>8. ASSUME NEW u \in Workspaces, NEW x \in Skills
      PROVE  EntryInv(Log(u), x, directory[u][x])'
  <2>1. PICK log, more, entry :
          log = Log(u) /\ more = Log(u)' /\ entry = directory[u][x]
    OBVIOUS
  <2>2. EntryInv(log, x, entry)
    BY <2>1 DEF ControlInv
  <2>3. /\ Len(log) \in Nat /\ Len(more) \in Nat /\ Len(log) <= Len(more)
        /\ \A n \in 1..Len(log) : more[n] = log[n]
    BY <1>5, <1>6, <2>1
  <2>4. EntryInv(more, x, entry)
    BY <2>2, <2>3, EntryStays
  <2>. QED  BY <1>4, <2>1, <2>4
<1>9. ASSUME NEW u \in Workspaces, NEW x \in Skills, <<u, x>> \in routes'
      PROVE  skill'[u][x].current > 0
  <2>1. skill[u][x].current > 0
    BY <1>4, <1>9 DEF ControlInv
  <2>2. sk.current > 0
    BY <1>1 DEF Block
  <2>3. skill \in [Workspaces -> [Skills -> SkillStates]]
    BY DEF TypeInv, TypeOK
  <2>. QED  BY <1>4, <2>1, <2>2, <2>3
<1>10. ControlInv'
  BY <1>7, <1>8, <1>9 DEF ControlInv
<1>11. ASSUME NEW u \in Workspaces, NEW m \in 1..Len(outbox[u])
       PROVE  Effected(u, m)' <=> Effected(u, m)
  BY <1>4, <1>5 DEF Effected
<1>12. ASSUME NEW u \in Workspaces, NEW m \in 1..Len(outbox'[u]), m \notin 1..Len(outbox[u])
       PROVE  ~Effected(u, m)'
  <2>1. u = w
    BY <1>2, <1>12 DEF Appended
  <2> DEFINE L == Len(outbox[w])
             ev == outbox'[w][m].event
  <2>2. L \in Nat /\ Len(outbox'[w]) = L + Len(evs) /\ Len(evs) \in Nat
    BY <1>2, <1>5, LenProperties DEF Appended
  <2>3. PICK i \in 1..Len(evs) : m = L + i
    <3>1. m - L \in 1..Len(evs) /\ m = L + (m - L)
      BY <1>12, <2>1, <2>2
    <3>. QED  BY <3>1
  <2>4. ev = evs[i]
    BY <1>2, <2>3 DEF Appended
  <2>5. m > L /\ m \in Nat
    BY <2>2, <2>3
  <2>6. ev \in Events
    BY <2>4, ElementOfSeq
  <2>7. ev.kind \in {"published", "unpublished", "count", "route"} /\ ev.skill \in Skills
    BY <2>6 DEF Events
  <2>8. CASE ev.kind \in {"published", "unpublished"}
    <3>1. EntryInv(Log(w), ev.skill, directory[w][ev.skill])
      BY <2>7 DEF ControlInv
    <3>2. directory[w][ev.skill].seq \in 0..L
      BY <1>6, <3>1 DEF EntryInv
    <3>3. \A q \in 0..L : ~(q >= m)
      <4>1. L \in Nat
        BY <1>5
      <4>. HIDE DEF L
      <4>. QED  BY <2>5, <4>1
    <3>4. ~(directory[w][ev.skill].seq >= m)
      BY <3>2, <3>3
    <3>. QED  BY <1>4, <2>1, <2>8, <3>4 DEF Effected
  <2>9. CASE ev.kind = "count"
    <3>1. PICK rows, k, M : rows = outbox'[w] /\ k = counter[w].checkpoint /\ M = Len(outbox'[w])
      OBVIOUS
    <3>2. M \in Nat /\ \A n \in 1..M : rows[n].epoch \in Nat
      <4>1. outbox'[w] \in Seq(Rows)
        BY DEF TypeInv, TypeOK
      <4>2. \A n \in 1..Len(outbox'[w]) : outbox'[w][n] \in Rows
        BY <4>1, ElementOfSeq
      <4>. QED  BY <1>5, <3>1, <4>2 DEF Rows
    <3>3. \A n \in 1..M : \A x \in 1..n : rows[x].epoch <= rows[n].epoch
      BY <3>1 DEF LogInv, EpochsRise
    <3>4. k.seq \in 0..M /\ (k.seq = 0 => k.epoch = 0) /\ (k.seq > 0 => k.epoch = rows[k.seq].epoch)
      BY <1>4, <1>7, <3>1 DEF CounterInv
    <3>5. Covers(k, rows[m].epoch, m) <=> m <= k.seq
      <4>1. m \in 1..M
        BY <1>12, <2>1, <3>1
      <4>. QED  BY <3>2, <3>3, <3>4, <4>1, CoversIs
    <3>6. k.seq \in 0..L
      BY <3>1 DEF ControlInv, CounterInv
    <3>7. ~(m <= k.seq)
      BY <2>2, <2>5, <3>6
    <3>. QED  BY <1>4, <2>1, <2>9, <3>1, <3>5, <3>7 DEF Effected
  <2>10. CASE ev.kind = "route"
    <3>1. evs[i].kind = "route" /\ ev.skill = s
      BY <1>1, <2>4, <2>10 DEF Block, Announces
    <3>2. skill[w][s].current = 0
      BY <1>1, <3>1 DEF Block, Routes
    <3>3. <<w, s>> \notin routes
      BY <3>2 DEF ControlInv
    <3>. QED  BY <1>4, <2>1, <2>10, <3>1, <3>3 DEF Effected
  <2>. QED  BY <2>7, <2>8, <2>9, <2>10
<1>13. \A u \in Workspaces : \A m \in 1..Len(outbox[u]) : m \in 1..Len(outbox'[u])
  BY <1>5
<1>. QED  BY <1>3, <1>4, <1>5, <1>10, <1>11, <1>12, <1>13

\* Quiet steps leave effects as they are.
LEMMA QuietEffects ==
  ASSUME TypeOK, Quiet
  PROVE  \A u \in Workspaces :
           /\ Len(outbox'[u]) = Len(outbox[u]) /\ Log(u)' = Log(u)
           /\ \A m \in 1..Len(outbox[u]) : Effected(u, m)' <=> Effected(u, m)
<1>1. ASSUME NEW u \in Workspaces
      PROVE  /\ Len(outbox'[u]) = Len(outbox[u]) /\ Log(u)' = Log(u)
             /\ \A m \in 1..Len(outbox[u]) : /\ outbox'[u][m].event = outbox[u][m].event
                                             /\ outbox'[u][m].epoch = outbox[u][m].epoch
  BY SameRowsKept, LogStays DEF Quiet, SameRows
<1>. QED  BY <1>1 DEF Quiet, Effected

LEMMA ControlNext ==
  ASSUME TypeInv, TypeInv', LogInv, LogInv', DeliveryInv, OldestInHand, ControlInv, InOrder,
         [Next]_vars
  PROVE  ControlInv' /\ InOrder'
<1>1. ASSUME NEW w \in Workspaces, NEW s \in Skills, RegionalStep(w, s)
      PROVE  ControlInv' /\ InOrder'
  <2>1. ControlInv' /\ \A u \in Workspaces :
           /\ \A m \in 1..Len(outbox[u]) : outbox'[u][m] = outbox[u][m]
           /\ \A m \in 1..Len(outbox'[u]) :
                Effected(u, m)' <=> m \in 1..Len(outbox[u]) /\ Effected(u, m)
    BY <1>1, ControlCommits
  <2>2. ASSUME NEW u \in Workspaces, NEW n \in 1..Len(outbox'[u]), Effected(u, n)',
               NEW m \in 1..(n - 1)
        PROVE  outbox'[u][m].status # "pending"
    <3>1. n \in 1..Len(outbox[u]) /\ Effected(u, n)
      BY <2>1, <2>2
    <3>2. outbox[u][m].status # "pending"
      BY <3>1 DEF InOrder
    <3>3. m \in 1..Len(outbox[u])
      <4>1. Len(outbox[u]) \in Nat
        BY OutboxType DEF TypeInv
      <4>. QED  BY <3>1, <4>1
    <3>. QED  BY <2>1, <3>2, <3>3
  <2>. QED  BY <2>1, <2>2 DEF InOrder
<1>2. ASSUME NEW d \in Drainers, Apply(d)
      PROVE  ControlInv' /\ InOrder'
  <2> DEFINE w == current[d][1]
             n == current[d][2]
  <2>1. w \in Workspaces /\ n \in 1..Len(outbox[w]) /\ InTurn(w, n) /\ Project(w, n)
    BY <1>2, AppliesInTurn DEF DeliveryInv
  <2>2. UNCHANGED <<outbox, skill>> /\ Oldest(current[d])
    BY <1>2 DEF Apply, region, OldestInHand
  <2>3. Takes(w, n)
    BY <2>1, <2>2, TakesInTurn DEF DeliveryInv, TypeInv
  <2>4. ASSUME NEW u \in Workspaces, NEW x \in 1..Len(outbox[u]), Effected(u, x)'
        PROVE  \A m \in 1..(x - 1) : outbox[u][m].status # "pending"
    <3>1. Effected(u, x) \/ (u = w /\ x = n)
      BY <2>3, <2>4 DEF Takes
    <3>. QED  BY <2>2, <3>1 DEF InOrder, Oldest
  <2>. QED  BY <2>2, <2>3, <2>4 DEF InOrder, Takes
<1>3. CASE Quiet
  <2>1. \A u \in Workspaces :
           /\ Len(outbox'[u]) = Len(outbox[u]) /\ Log(u)' = Log(u)
           /\ \A m \in 1..Len(outbox[u]) : Effected(u, m)' <=> Effected(u, m)
    BY <1>3, QuietEffects DEF TypeInv
  <2>2. ASSUME NEW u \in Workspaces, NEW n \in 1..Len(outbox'[u]), Effected(u, n)',
               NEW m \in 1..(n - 1)
        PROVE  outbox'[u][m].status # "pending"
    <3>1. n \in 1..Len(outbox[u]) /\ Effected(u, n)
      BY <2>1, <2>2
    <3>2. outbox[u][m].status # "pending"
      BY <3>1 DEF InOrder
    <3>3. m \in 1..Len(outbox[u])
      <4>1. Len(outbox[u]) \in Nat
        BY OutboxType DEF TypeInv
      <4>. QED  BY <3>1, <4>1
    <3>. QED  BY <1>3, <3>2, <3>3 DEF Quiet, SettledStays
  <2>3. ASSUME NEW u \in Workspaces
        PROVE  CounterInv(u)'
    <3>1. \A n \in 1..Len(outbox[u]) : /\ outbox'[u][n].event = outbox[u][n].event
                                       /\ outbox'[u][n].epoch = outbox[u][n].epoch
      BY <1>3 DEF Quiet, SameRows
    <3>2. /\ counter'[u].total = counter[u].total
          /\ counter'[u].checkpoint = counter[u].checkpoint
      BY <1>3 DEF Quiet
    <3>3. CounterInv(u) /\ Len(outbox[u]) \in Nat
      BY OutboxType DEF ControlInv, TypeInv
    <3>4. counter[u].checkpoint.seq > 0 => counter[u].checkpoint.seq \in 1..Len(outbox[u])
      BY <3>3 DEF CounterInv
    <3>. QED  BY <2>1, <3>1, <3>2, <3>3, <3>4 DEF CounterInv
  <2>4. \A u \in Workspaces, x \in Skills : EntryInv(Log(u), x, directory[u][x])'
    BY <1>3, <2>1 DEF Quiet, ControlInv
  <2>5. \A u \in Workspaces, x \in Skills : <<u, x>> \in routes' => skill'[u][x].current > 0
    BY <1>3 DEF Quiet, ControlInv
  <2>. QED  BY <2>2, <2>3, <2>4, <2>5 DEF InOrder, ControlInv
<1>. QED  BY <1>1, <1>2, <1>3, StepsOfControl
-----------------------------------------------------------------------------
PipelineInv == DeliveryInv /\ HomeInv /\ OldestInHand /\ LogInv /\ ControlInv /\ InOrder

LEMMA PipelineInit == Init => PipelineInv
<1> SUFFICES ASSUME Init PROVE PipelineInv
  OBVIOUS
<1>1. OldestInHand
  BY DEF Init, OldestInHand
<1>. QED  BY <1>1, DeliveryInit, HomeInit, LogInit, ControlInit DEF PipelineInv

LEMMA PipelineNext == PipelineInv /\ [Next]_vars => PipelineInv'
<1> SUFFICES ASSUME PipelineInv, [Next]_vars PROVE PipelineInv'
  OBVIOUS
<1>1. DeliveryInv /\ TypeInv /\ HomeInv /\ OldestInHand /\ LogInv /\ ControlInv /\ InOrder
  BY DEF PipelineInv, DeliveryInv
<1>2. DeliveryInv' /\ TypeInv'
  BY <1>1, DeliveryNext DEF DeliveryInv
<1>3. HomeInv'
  BY <1>1, <1>2, HomeNext
<1>4. OldestInHand'
  BY <1>1, OldestNext
<1>5. LogInv'
  BY <1>1, <1>2, <1>3, LogNext
<1>6. ControlInv' /\ InOrder'
  BY <1>1, <1>2, <1>5, ControlNext
<1>. QED  BY <1>2, <1>3, <1>4, <1>5, <1>6 DEF PipelineInv

LEMMA Pipeline == Spec => []PipelineInv
BY PipelineInit, PipelineNext, PTL DEF Spec

\* Whatever part of the events has been delivered, a public head points to a version
\* that readers can see (enqueueCurrentSkillProjection announces the current version
\* first, and PostgresPublicProjectionDirectory takes events of one head in order).
THEOREM HeadVisible == Spec => []CurrentVersionVisible
<1>1. PipelineInv => CurrentVersionVisible
  BY DEF PipelineInv, ControlInv, EntryInv, CurrentVersionVisible
<1>. QED  BY <1>1, Pipeline, PTL

LEMMA SumIsBalance ==
  ASSUME TypeOK, NEW w \in Workspaces, NEW k \in 0..Len(outbox[w])
  PROVE  SumTo(w, k) = Balance(Log(w), k)
<1>1. Len(outbox[w]) \in Nat
  BY OutboxType
<1>2. \A n \in 1..k : n \in 1..Len(outbox[w])
  BY <1>1
<1>3. \A n \in 1..k : Log(w)[n] = outbox[w][n].event
  BY <1>2, LogIs
<1>4. \A d : Moved(w, k, d) = Deltas(Log(w), k, d)
  BY <1>3 DEF Moved, Deltas
<1>. QED  BY <1>4 DEF SumTo, Balance

\* The public counter is the sum of the deltas of the events up to its checkpoint, each
\* counted once, although ids are forgotten and events delivered again (the checkpoint
\* of PostgresPublicCounterDirectory behind the claimed event ids).
THEOREM CounterExact == Spec => []CountedOnce
<1>1. ASSUME PipelineInv PROVE CountedOnce
  <2> SUFFICES ASSUME NEW w \in Workspaces
               PROVE  /\ counter[w].checkpoint.seq \in 0..Len(outbox[w])
                      /\ counter[w].total = SumTo(w, counter[w].checkpoint.seq)
    BY DEF CountedOnce
  <2>1. CounterInv(w) /\ TypeOK
    BY <1>1 DEF PipelineInv, ControlInv, DeliveryInv, TypeInv
  <2>. QED  BY <2>1, SumIsBalance DEF CounterInv
<1>. QED  BY <1>1, Pipeline, PTL

LEMMA DrainedShows ==
  ASSUME NEW log, NEW s, NEW sk, NEW entry, Len(log) \in Nat,
         EntryInv(log, s, entry), LogShows(log, s, sk),
         \A n \in 1..Len(log) : Directs(log, s, n) => entry.seq >= n
  PROVE  /\ Visible(entry) = PublicVersions(sk)
         /\ Visible(entry) # {} => entry.current = sk.current
<1>1. PICK j \in Nat : j = entry.seq
  BY DEF EntryInv
<1>2. j <= Len(log) /\ \A m \in (j + 1)..Len(log) : ~Directs(log, s, m)
  BY <1>1 DEF EntryInv
<1>3. Standing(log, s, Len(log)) = Standing(log, s, j)
  <2>1. PICK k \in Nat : k = Len(log)
    OBVIOUS
  <2>2. j <= k /\ (\A n \in 1..j : log[n] = log[n]) /\ \A m \in (j + 1)..k : ~Directs(log, s, m)
    BY <1>2, <2>1
  <2>. QED  BY <2>1, <2>2, StandsStill
<1>4. Visible(entry) = PublicVersions(sk)
  BY <1>1, <1>3 DEF EntryInv, LogShows
<1>5. ASSUME Visible(entry) # {}
      PROVE  entry.current = sk.current
  <2>1. entry.state = "published"
    BY <1>5 DEF Visible
  <2>2. j \in 1..Len(log)
    BY <1>1, <1>2, <2>1 DEF EntryInv
  <2>3. Directs(log, s, j) /\ log[j].kind = "published" /\ entry.current = log[j].current
    BY <1>1, <2>1, <2>2 DEF EntryInv
  <2>. QED  BY <1>2, <2>2, <2>3 DEF LogShows
<1>. QED  BY <1>4, <1>5

\* When the outbox of a workspace has been drained, the public directory and the
\* counter show exactly what the cell holds: every published version of every public
\* skill under the current one, nothing of any other, and the number of live skills
\* (enqueueCurrentSkillProjection and its callers, drainRegionalProjectionOutbox,
\* PostgresPublicProjectionDirectory).
THEOREM DrainedCurrent == Spec => []DrainedMeansCurrent
<1>1. ASSUME PipelineInv PROVE DrainedMeansCurrent
  <2> SUFFICES ASSUME NEW w \in Workspaces, Drained(w)
               PROVE  /\ counter[w].total = Cardinality(Counting(w))
                      /\ \A s \in Skills :
                           LET entry == directory[w][s] IN
                           /\ Visible(entry) = PublicVersions(skill[w][s])
                           /\ Visible(entry) # {} => entry.current = skill[w][s].current
    BY DEF DrainedMeansCurrent
  <2>1. /\ TypeOK /\ LogInv /\ AckedMeansApplied /\ CounterInv(w)
        /\ \A s \in Skills : EntryInv(Log(w), s, directory[w][s])
    BY <1>1 DEF PipelineInv, ControlInv, DeliveryInv, TypeInv
  <2>2. PICK log \in Seq(Events) :
          /\ log = Log(w) /\ Len(log) = Len(outbox[w]) /\ Len(log) \in Nat
          /\ \A m \in 1..Len(outbox[w]) : log[m] = outbox[w][m].event
    BY <2>1, LogIs
  <2>3. \A n \in 1..Len(log) : Effected(w, n)
    <3>1. DOMAIN outbox[w] = 1..Len(outbox[w])
      BY <2>1, OutboxType
    <3>. QED  BY <2>1, <2>2, <3>1 DEF AckedMeansApplied, Drained
  <2>4. ASSUME NEW s \in Skills
        PROVE  /\ Visible(directory[w][s]) = PublicVersions(skill[w][s])
               /\ Visible(directory[w][s]) # {} => directory[w][s].current = skill[w][s].current
    <3>1. \A n \in 1..Len(log) : Directs(log, s, n) => directory[w][s].seq >= n
      BY <2>2, <2>3 DEF Effected, Directs, Direct
    <3>2. LogShows(log, s, skill[w][s]) /\ EntryInv(log, s, directory[w][s])
      BY <2>1, <2>2 DEF LogInv
    <3>. QED  BY <2>2, <3>1, <3>2, DrainedShows
  <2>5. counter[w].total = Cardinality(Counting(w))
    <3> DEFINE c == counter[w].checkpoint
    <3>1. LogCounts(log, Counting(w))
      BY <2>1, <2>2 DEF LogInv
    <3>2. c.seq \in 0..Len(log) /\ counter[w].total = Balance(log, c.seq)
      BY <2>1, <2>2 DEF CounterInv
    <3>3. \A n \in 1..Len(log) : Covers(c, outbox[w][n].epoch, n) <=> n <= c.seq
      BY <2>1, <2>2, CoveredUpTo
    <3>4. PICK j \in Nat, k \in Nat : j = c.seq /\ k = Len(log)
      BY <2>2, <3>2
    <3>5. ASSUME NEW n \in (j + 1)..k
          PROVE  log[n].delta = 0
      <4>1. n \in 1..Len(log) /\ ~(n <= c.seq)
        BY <3>4
      <4>2. log[n].kind # "count"
        BY <2>2, <2>3, <3>3, <4>1 DEF Effected
      <4>. QED  BY <3>1, <4>1, <4>2 DEF LogCounts
    <3>6. j <= k /\ \A n \in 1..j : log[n] = log[n]
      BY <3>2, <3>4
    <3>7. Balance(log, k) = Balance(log, j)
      BY <3>5, <3>6, BalanceStays
    <3>. QED  BY <3>1, <3>2, <3>4, <3>7 DEF LogCounts
  <2>. QED  BY <2>4, <2>5
<1>. QED  BY <1>1, Pipeline, PTL
-----------------------------------------------------------------------------
(***************************************************************************)
(* The pipeline implements OrderedDelivery.                                *)
(***************************************************************************)
Taken(w) == {n \in DOMAIN outbox[w] : Effected(w, n)}

MappedLog == [w \in Workspaces |-> [n \in DOMAIN outbox[w] |-> outbox[w][n].event]]
MappedDelivered == [w \in Workspaces |-> Cardinality({n \in DOMAIN outbox[w] : Effected(w, n)})]
MappedShown == [w \in Workspaces |-> [s \in Skills |-> Visible(directory[w][s])]]
HeadOf(entry) == IF entry.state = "published" THEN entry.current ELSE 0
MappedHead ==
  [w \in Workspaces |-> [s \in Skills |->
     IF directory[w][s].state = "published" THEN directory[w][s].current ELSE 0]]
MappedTotal == [w \in Workspaces |-> counter[w].total]

LEMMA MappedLogIs ==
  ASSUME TypeOK, NEW w \in Workspaces
  PROVE  MappedLog[w] = Log(w)
BY OutboxType DEF MappedLog, Log

\* The events that have had their effect when the n-th is in turn, and after it.
LEMMA TakenBefore ==
  ASSUME TypeOK, InOrder, AckedMeansApplied, NEW w \in Workspaces, NEW n \in 1..Len(outbox[w]),
         InTurn(w, n), ~Effected(w, n)
  PROVE  Taken(w) = 1..(n - 1) /\ Cardinality(Taken(w)) = n - 1
<1>1. DOMAIN outbox[w] = 1..Len(outbox[w]) /\ Len(outbox[w]) \in Nat /\ n \in Nat
  BY OutboxType
<1>2. ASSUME NEW m \in 1..Len(outbox[w])
      PROVE  Effected(w, m) <=> m < n
  <2>1. m < n => Effected(w, m)
    BY DEF InTurn
  <2>2. ASSUME n < m, Effected(w, m)
        PROVE  FALSE
    <3>1. n \in 1..(m - 1)
      BY <1>1, <2>2
    <3>2. outbox[w][n].status # "pending"
      BY <2>2, <3>1 DEF InOrder
    <3>. QED  BY <1>1, <3>2 DEF AckedMeansApplied, Pending
  <2>3. m < n \/ m = n \/ n < m
    BY <1>1
  <2>4. m = n => ~(m < n)
    BY <1>1
  <2>5. n < m => ~(m < n)
    BY <1>1
  <2>. QED  BY <2>1, <2>2, <2>3, <2>4, <2>5
<1>3. \A m : m \in 1..(n - 1) <=> m \in 1..Len(outbox[w]) /\ m < n
  BY <1>1
<1>4. Taken(w) = 1..(n - 1)
  BY <1>1, <1>2, <1>3 DEF Taken
<1>5. Cardinality(1..(n - 1)) = n - 1
  <2>1. 1 \in Int /\ n - 1 \in Int /\ ~(1 > n - 1) => (n - 1) - 1 + 1 = n - 1
    BY <1>1
  <2>. QED  BY <1>1, <2>1, FS_Interval
<1>. QED  BY <1>4, <1>5

LEMMA TakenAfter ==
  ASSUME TypeOK, NEW w \in Workspaces, NEW n \in 1..Len(outbox[w]), UNCHANGED outbox,
         Takes(w, n), Taken(w) = 1..(n - 1)
  PROVE  /\ Cardinality(Taken(w)') = n
         /\ \A u \in Workspaces : u # w => Taken(u)' = Taken(u)
<1>1. \A u \in Workspaces : DOMAIN outbox[u] = 1..Len(outbox[u]) /\ Len(outbox[u]) \in Nat
  BY OutboxType
<1>2. n \in Nat /\ n > 0
  BY <1>1
<1>3. \A u \in Workspaces : u # w => Taken(u)' = Taken(u)
  BY <1>1 DEF Takes, Taken
<1>4. Taken(w)' = Taken(w) \cup {n}
  BY <1>1 DEF Takes, Taken
<1>5. Taken(w)' = 1..n
  BY <1>2, <1>4
<1>6. Cardinality(1..n) = n
  BY <1>2, FS_Interval
<1>. QED  BY <1>3, <1>5, <1>6

LEMMA Executes ==
  ASSUME TypeOK, LogInv, ControlInv, Remembered, NEW w \in Workspaces,
         NEW n \in 1..Len(outbox[w]), InTurn(w, n), Project(w, n), UNCHANGED outbox,
         ~Effected(w, n)
  PROVE  LET ev == outbox[w][n].event IN
         \/ /\ ev.kind = "published"
            /\ MappedShown' = [MappedShown EXCEPT ![w][ev.skill] = @ \cup {ev.version}]
            /\ MappedHead' = [MappedHead EXCEPT ![w][ev.skill] = ev.current]
            /\ UNCHANGED <<MappedTotal, routes>>
         \/ /\ ev.kind = "unpublished"
            /\ MappedShown' = [MappedShown EXCEPT ![w][ev.skill] = {}]
            /\ MappedHead' = [MappedHead EXCEPT ![w][ev.skill] = 0]
            /\ UNCHANGED <<MappedTotal, routes>>
         \/ /\ ev.kind = "count"
            /\ MappedTotal' = [MappedTotal EXCEPT ![w] = @ + ev.delta]
            /\ UNCHANGED <<MappedShown, MappedHead, routes>>
         \/ /\ ev.kind = "route"
            /\ routes' = routes \cup {<<w, ev.skill>>}
            /\ UNCHANGED <<MappedShown, MappedHead, MappedTotal>>
<1> DEFINE ev == outbox[w][n].event
           s == ev.skill
           entry == directory[w][s]
           new == directory'[w][s]
<1>1. outbox[w][n] \in Rows /\ n \in Nat
  BY OutboxType
<1>2. ev.kind \in {"published", "unpublished", "count", "route"} /\ s \in Skills
  BY <1>1 DEF Rows, Events
<1>3. directory \in [Workspaces -> [Skills -> Entries]] /\ entry.seq \in Nat
  BY <1>2 DEF TypeOK, Entries
<1>4. CASE Direct(ev)
  <2>1. /\ UNCHANGED <<counter, routes>>
        /\ directory' = [directory EXCEPT ![w][s] = new]
        /\ entry.seq < n =>
             /\ new.state = ev.kind
             /\ ev.kind = "published" =>
                  new.current = ev.current /\ Visible(new) = Visible(entry) \cup {ev.version}
             /\ ev.kind = "unpublished" => Visible(new) = {}
    <3>1. Direct(outbox[w][n].event)
      BY <1>4
    <3>2. /\ UNCHANGED <<counter, routes>>
          /\ directory' = [directory EXCEPT ![w][s] = new]
      BY <3>1, DirectoryTakes
    <3>3. entry.seq < n => new.state = ev.kind
      BY <3>1, DirectoryTakes
    <3>4. entry.seq < n /\ ev.kind = "published" =>
             new.current = ev.current /\ Visible(new) = Visible(entry) \cup {ev.version}
      BY <3>1, DirectoryTakes
    <3>5. entry.seq < n /\ ev.kind = "unpublished" => Visible(new) = {}
      BY <3>1, DirectoryTakes
    <3>. QED  BY <3>2, <3>3, <3>4, <3>5
  <2>2. ev.kind \in {"published", "unpublished"}
    BY <1>4 DEF Direct
  <2>3. entry.seq < n
    <3>1. ~(entry.seq >= n)
      BY <2>2 DEF Effected
    <3>. QED  BY <1>1, <1>3, <3>1
  <2>4. UNCHANGED <<MappedTotal, routes>>
    BY <2>1 DEF MappedTotal
  <2>5. \A u \in Workspaces, x \in Skills :
          directory'[u][x] = IF u = w /\ x = s THEN new ELSE directory[u][x]
    BY <1>2, <1>3, <2>1
  <2>6. /\ MappedShown' = [u \in Workspaces |-> [x \in Skills |-> Visible(directory'[u][x])]]
        /\ MappedShown = [u \in Workspaces |-> [x \in Skills |-> Visible(directory[u][x])]]
    BY DEF MappedShown, Visible
  <2>7. /\ MappedHead' = [u \in Workspaces |-> [x \in Skills |-> HeadOf(directory'[u][x])]]
        /\ MappedHead = [u \in Workspaces |-> [x \in Skills |-> HeadOf(directory[u][x])]]
    BY DEF MappedHead, HeadOf
  <2>. HIDE DEF ev, s, entry, new
  <2>8. MappedShown' = [MappedShown EXCEPT ![w][s] = Visible(new)]
    <3>1. MappedShown' = [u \in Workspaces |-> [x \in Skills |->
                            IF u = w /\ x = s THEN Visible(new) ELSE Visible(directory[u][x])]]
      BY <2>5, <2>6
    <3>2. \A u \in Workspaces : u # w => MappedShown'[u] = MappedShown[u]
      BY <2>6, <3>1
    <3>3. MappedShown'[w] = [MappedShown[w] EXCEPT ![s] = Visible(new)]
      BY <2>6, <3>1
    <3>. QED  BY <2>6, <3>1, <3>2, <3>3
  <2>9. MappedHead' = [MappedHead EXCEPT ![w][s] = HeadOf(new)]
    <3>1. MappedHead' = [u \in Workspaces |-> [x \in Skills |->
                           IF u = w /\ x = s THEN HeadOf(new) ELSE HeadOf(directory[u][x])]]
      BY <2>5, <2>7
    <3>2. \A u \in Workspaces : u # w => MappedHead'[u] = MappedHead[u]
      BY <2>7, <3>1
    <3>3. MappedHead'[w] = [MappedHead[w] EXCEPT ![s] = HeadOf(new)]
      BY <2>7, <3>1
    <3>. QED  BY <2>7, <3>1, <3>2, <3>3
  <2>10. MappedShown[w][s] = Visible(entry)
    BY <1>2, <2>6 DEF entry
  <2>11. CASE ev.kind = "published"
    <3>1. Visible(new) = MappedShown[w][s] \cup {ev.version} /\ HeadOf(new) = ev.current
      BY <2>1, <2>3, <2>10, <2>11 DEF HeadOf
    <3>2. /\ MappedShown' = [MappedShown EXCEPT ![w][s] = @ \cup {ev.version}]
          /\ MappedHead' = [MappedHead EXCEPT ![w][s] = ev.current]
      BY <2>8, <2>9, <3>1
    <3>. QED  BY <2>4, <2>11, <3>2 DEF ev, s
  <2>12. CASE ev.kind = "unpublished"
    <3>1. Visible(new) = {} /\ HeadOf(new) = 0
      BY <2>1, <2>3, <2>12 DEF HeadOf
    <3>2. /\ MappedShown' = [MappedShown EXCEPT ![w][s] = {}]
          /\ MappedHead' = [MappedHead EXCEPT ![w][s] = 0]
      BY <2>8, <2>9, <3>1
    <3>. QED  BY <2>4, <2>12, <3>2 DEF ev, s
  <2>. QED  BY <2>2, <2>11, <2>12
<1>5. CASE ev.kind = "count"
  <2> DEFINE c == counter[w].checkpoint
  <2>1. /\ UNCHANGED <<directory, routes>>
        /\ \A u \in Workspaces \ {w} : counter'[u] = counter[u]
        /\ c.seq < n => counter'[w].total = counter[w].total + ev.delta
    BY <1>5, CounterTakes
  <2>2. Covers(c, outbox[w][n].epoch, n) <=> n <= c.seq
    BY CoveredUpTo DEF ControlInv
  <2>3. c.seq \in Nat
    BY DEF TypeOK, Counters
  <2>4. c.seq < n
    BY <1>1, <1>5, <2>2, <2>3 DEF Effected
  <2>5. MappedTotal' = [MappedTotal EXCEPT ![w] = @ + ev.delta]
    BY <2>1, <2>4 DEF MappedTotal
  <2>6. UNCHANGED <<MappedShown, MappedHead, routes>>
    BY <2>1 DEF MappedShown, MappedHead, Visible
  <2>. QED  BY <1>5, <2>5, <2>6
<1>6. CASE ev.kind = "route"
  <2>1. UNCHANGED <<directory, counter>> /\ routes' = routes \cup {<<w, s>>}
    BY <1>6 DEF Project
  <2>2. UNCHANGED <<MappedShown, MappedHead, MappedTotal>>
    BY <2>1 DEF MappedShown, MappedHead, MappedTotal, Visible
  <2>. QED  BY <1>6, <2>1, <2>2
<1>. QED  BY <1>2, <1>4, <1>5, <1>6 DEF Direct

\* The first application of an event is its Deliver step.
LEMMA MappedDeliver ==
  ASSUME TypeOK, LogInv, ControlInv, InOrder, AckedMeansApplied, Remembered,
         NEW w \in Workspaces, NEW n \in 1..Len(outbox[w]), InTurn(w, n), Project(w, n),
         UNCHANGED <<outbox, skill>>, ~Effected(w, n)
  PROVE  Ordered!Deliver(w)
<1>1. Takes(w, n)
  BY TakesInTurn
<1>2. Taken(w) = 1..(n - 1) /\ Cardinality(Taken(w)) = n - 1
  BY TakenBefore
<1>3. Cardinality(Taken(w)') = n /\ \A u \in Workspaces : u # w => Taken(u)' = Taken(u)
  BY <1>1, <1>2, TakenAfter
<1>4. MappedLog[w] = Log(w) /\ Len(Log(w)) = Len(outbox[w]) /\ Log(w)[n] = outbox[w][n].event
      /\ n \in Nat /\ Len(outbox[w]) \in Nat
  BY MappedLogIs, LogIs, OutboxType
<1>5. /\ MappedDelivered = [u \in Workspaces |-> Cardinality(Taken(u))]
      /\ MappedDelivered' = [u \in Workspaces |-> Cardinality(Taken(u)')]
  BY DEF MappedDelivered, Taken
<1>6. /\ MappedDelivered[w] = n - 1
      /\ MappedDelivered' = [MappedDelivered EXCEPT ![w] = @ + 1]
  <2>1. MappedDelivered[w] = n - 1 /\ (n - 1) + 1 = n
    BY <1>2, <1>4, <1>5
  <2>. QED  BY <1>3, <1>5, <2>1
<1>7. MappedDelivered[w] < Len(MappedLog[w]) /\ MappedLog[w][MappedDelivered[w] + 1] = outbox[w][n].event
  <2>1. n - 1 < Len(outbox[w]) /\ (n - 1) + 1 = n
    BY <1>4
  <2>. QED  BY <1>4, <1>6, <2>1
<1>8. UNCHANGED MappedLog
  BY DEF MappedLog
<1>9. LET ev == MappedLog[w][MappedDelivered[w] + 1] IN
         \/ /\ ev.kind = "published"
            /\ MappedShown' = [MappedShown EXCEPT ![w][ev.skill] = @ \cup {ev.version}]
            /\ MappedHead' = [MappedHead EXCEPT ![w][ev.skill] = ev.current]
            /\ UNCHANGED <<MappedTotal, routes>>
         \/ /\ ev.kind = "unpublished"
            /\ MappedShown' = [MappedShown EXCEPT ![w][ev.skill] = {}]
            /\ MappedHead' = [MappedHead EXCEPT ![w][ev.skill] = 0]
            /\ UNCHANGED <<MappedTotal, routes>>
         \/ /\ ev.kind = "count"
            /\ MappedTotal' = [MappedTotal EXCEPT ![w] = @ + ev.delta]
            /\ UNCHANGED <<MappedShown, MappedHead, routes>>
         \/ /\ ev.kind = "route"
            /\ routes' = routes \cup {<<w, ev.skill>>}
            /\ UNCHANGED <<MappedShown, MappedHead, MappedTotal>>
  BY <1>7, Executes
<1>. QED  BY <1>6, <1>7, <1>8, <1>9, Zenon
          DEF Ordered!Deliver, Ordered!Execute, MappedLog, MappedDelivered, MappedShown,
              MappedHead, MappedTotal
\* Committing extends a log, or leaves it as it is.
LEMMA Extends ==
  ASSUME NEW log \in Seq(Events), NEW evs \in Seq(Events)
  PROVE  \/ log \o evs = log
         \/ Len(log \o evs) > Len(log) /\ SubSeq(log \o evs, 1, Len(log)) = log
<1>1. /\ log \o evs \in Seq(Events) /\ Len(log \o evs) = Len(log) + Len(evs)
      /\ Len(log) \in Nat /\ Len(evs) \in Nat
      /\ \A i \in 1..Len(log) : i \in 1..Len(log \o evs) /\ (log \o evs)[i] = log[i]
  BY Joined
<1>2. CASE Len(evs) = 0
  <2>1. PICK both \in Seq(Events) : both = log \o evs
    BY <1>1
  <2>2. Len(both) = Len(log) /\ \A i \in 1..Len(log) : both[i] = log[i]
    BY <1>1, <1>2, <2>1
  <2>3. both = log
    BY <2>2, SeqEqual
  <2>. QED  BY <2>1, <2>3
<1>3. CASE Len(evs) > 0
  <2>1. Len(log \o evs) > Len(log)
    BY <1>1, <1>3
  <2>2. PICK both \in Seq(Events), k \in Nat : both = log \o evs /\ k = Len(log)
    BY <1>1
  <2>3. /\ 1 \in Int /\ k \in Int /\ \A i \in 1..k : both[i] \in Events
    BY <1>1, <2>2, ElementOfSeq
  <2>4. /\ SubSeq(both, 1, k) \in Seq(Events)
        /\ Len(SubSeq(both, 1, k)) = IF 1 <= k THEN k - 1 + 1 ELSE 0
        /\ \A i \in 1..(k - 1 + 1) : SubSeq(both, 1, k)[i] = both[1 + i - 1]
    BY <2>3, SubSeqProperties
  <2>5. k - 1 + 1 = k /\ \A i \in 1..k : 1 + i - 1 = i
    BY <2>2
  <2>6. Len(SubSeq(both, 1, k)) = Len(log)
    BY <2>2, <2>4, <2>5
  <2>7. \A i \in 1..k : SubSeq(both, 1, k)[i] = log[i]
    BY <1>1, <2>2, <2>4, <2>5
  <2>8. PICK front \in Seq(Events) : front = SubSeq(both, 1, k)
    BY <2>4
  <2>9. front = log
    BY <2>2, <2>6, <2>7, <2>8, SeqEqual
  <2>. QED  BY <2>1, <2>2, <2>8, <2>9
<1>. QED  BY <1>1, <1>2, <1>3

MappedVars == <<MappedLog, MappedDelivered, MappedShown, MappedHead, MappedTotal, routes>>

LEMMA MappedInit == Init => Ordered!Init
<1> SUFFICES ASSUME Init PROVE Ordered!Init
  OBVIOUS
<1>1. \A w \in Workspaces : outbox[w] = <<>> /\ DOMAIN outbox[w] = {}
  BY DEF Init
<1>2. MappedLog = [w \in Workspaces |-> <<>>]
  <2>1. ASSUME NEW w \in Workspaces
        PROVE  [n \in DOMAIN outbox[w] |-> outbox[w][n].event] = <<>>
    <3>1. DOMAIN outbox[w] = DOMAIN <<>> /\ DOMAIN <<>> = {}
      BY <1>1
    <3>. QED  BY <3>1
  <2>. QED  BY <2>1 DEF MappedLog
<1>3. MappedDelivered = [w \in Workspaces |-> 0]
  <2>1. \A w \in Workspaces : {n \in DOMAIN outbox[w] : Effected(w, n)} = {}
    BY <1>1
  <2>. QED  BY <2>1, FS_EmptySet DEF MappedDelivered
<1>4. /\ MappedShown = [w \in Workspaces |-> [s \in Skills |-> {}]]
      /\ MappedHead = [w \in Workspaces |-> [s \in Skills |-> 0]]
  <2>1. \A w \in Workspaces, s \in Skills : directory[w][s] = NoEntry
    BY DEF Init
  <2>2. Visible(NoEntry) = {} /\ NoEntry.state # "published"
    BY DEF Visible, NoEntry
  <2>. QED  BY <2>1, <2>2 DEF MappedShown, MappedHead
<1>5. MappedTotal = [w \in Workspaces |-> 0] /\ routes = {}
  BY DEF Init, MappedTotal, NoCounter
<1>. QED  BY <1>2, <1>3, <1>4, <1>5, Zenon
          DEF Ordered!Init, MappedLog, MappedDelivered, MappedShown, MappedHead, MappedTotal

\* A commit of a transaction is a Commit step, or none when it announces nothing.
LEMMA MappedCommit ==
  ASSUME TypeInv, TypeInv', LogInv, LogInv', ControlInv,
         NEW w \in Workspaces, NEW s \in Skills, RegionalStep(w, s)
  PROVE  Ordered!Commit(w) \/ UNCHANGED MappedVars
<1>1. PICK evs \in Seq(Events) : Log(w)' = Log(w) \o evs
  BY ControlCommits
<1>2. /\ UNCHANGED control /\ \A u \in Workspaces \ {w} : Log(u)' = Log(u)
      /\ \A u \in Workspaces :
           /\ Len(outbox[u]) <= Len(outbox'[u])
           /\ \A m \in 1..Len(outbox'[u]) :
                Effected(u, m)' <=> m \in 1..Len(outbox[u]) /\ Effected(u, m)
  BY ControlCommits
<1>3. /\ MappedLog = [u \in Workspaces |-> Log(u)]
      /\ MappedLog' = [u \in Workspaces |-> Log(u)']
  <2>1. \A u \in Workspaces : /\ DOMAIN outbox[u] = 1..Len(outbox[u])
                              /\ DOMAIN outbox'[u] = 1..Len(outbox'[u])
    BY LenProperties DEF TypeInv, TypeOK
  <2>. QED  BY <2>1 DEF MappedLog, Log
<1>4. UNCHANGED <<MappedShown, MappedHead, MappedTotal, routes>>
  BY <1>2 DEF control, MappedShown, MappedHead, MappedTotal, Visible
<1>5. UNCHANGED MappedDelivered
  <2>1. ASSUME NEW u \in Workspaces
        PROVE  Taken(u)' = Taken(u)
    <3>1. /\ DOMAIN outbox[u] = 1..Len(outbox[u]) /\ Len(outbox[u]) \in Nat
          /\ DOMAIN outbox'[u] = 1..Len(outbox'[u]) /\ Len(outbox'[u]) \in Nat
      BY LenProperties DEF TypeInv, TypeOK
    <3>2. \A m \in 1..Len(outbox[u]) : m \in 1..Len(outbox'[u])
      BY <1>2, <3>1
    <3>. QED  BY <1>2, <3>1, <3>2 DEF Taken
  <2>2. /\ MappedDelivered = [u \in Workspaces |-> Cardinality(Taken(u))]
        /\ MappedDelivered' = [u \in Workspaces |-> Cardinality(Taken(u)')]
    BY DEF MappedDelivered, Taken
  <2>. QED  BY <2>1, <2>2
<1>6. PICK log \in Seq(Events) : log = Log(w)
  BY LogIs DEF TypeInv
<1>7. CASE log \o evs = log
  <2>1. \A u \in Workspaces : Log(u)' = Log(u)
    BY <1>1, <1>2, <1>6, <1>7
  <2>. QED  BY <1>3, <1>4, <1>5, <2>1 DEF MappedVars
<1>8. CASE Len(log \o evs) > Len(log) /\ SubSeq(log \o evs, 1, Len(log)) = log
  <2>1. MappedLog[w] = log /\ MappedLog'[w] = log \o evs
    BY <1>1, <1>3, <1>6
  <2>2. /\ Len(MappedLog'[w]) > Len(MappedLog[w])
        /\ SubSeq(MappedLog'[w], 1, Len(MappedLog[w])) = MappedLog[w]
    BY <1>8, <2>1
  <2>3. MappedLog' = [MappedLog EXCEPT ![w] = MappedLog'[w]]
    BY <1>2, <1>3
  <2>. QED  BY <1>4, <1>5, <2>2, <2>3, Zenon
            DEF Ordered!Commit, MappedLog, MappedDelivered, MappedShown, MappedHead, MappedTotal
<1>. QED  BY <1>6, <1>7, <1>8, Extends

\* Redelivery, claims, acknowledgements, retention and moves change nothing of the promise.
LEMMA MappedQuiet ==
  ASSUME TypeOK, Quiet
  PROVE  UNCHANGED MappedVars
<1>1. \A u \in Workspaces :
           /\ Len(outbox'[u]) = Len(outbox[u]) /\ Log(u)' = Log(u)
           /\ \A m \in 1..Len(outbox[u]) : Effected(u, m)' <=> Effected(u, m)
  BY QuietEffects
<1>2. /\ outbox' \in [Workspaces -> Seq(Rows)] /\ outbox \in [Workspaces -> Seq(Rows)]
  BY SameRowsKept DEF Quiet, TypeOK
<1>3. \A u \in Workspaces : /\ DOMAIN outbox[u] = 1..Len(outbox[u])
                            /\ DOMAIN outbox'[u] = 1..Len(outbox[u])
  BY <1>1, <1>2, LenProperties
<1>4. MappedLog' = MappedLog
  BY <1>1, <1>3 DEF MappedLog, Log
<1>5. MappedDelivered' = MappedDelivered
  BY <1>1, <1>3 DEF MappedDelivered
<1>6. UNCHANGED <<MappedShown, MappedHead, MappedTotal, routes>>
  BY DEF Quiet, MappedShown, MappedHead, MappedTotal, Visible
<1>. QED  BY <1>4, <1>5, <1>6 DEF MappedVars

LEMMA MappedRedelivery ==
  ASSUME TypeOK, LogInv, ControlInv, Remembered, NEW w \in Workspaces,
         NEW n \in 1..Len(outbox[w]), InTurn(w, n), Project(w, n),
         UNCHANGED <<outbox, skill>>, Effected(w, n)
  PROVE  UNCHANGED MappedVars
<1>1. /\ \A u \in Workspaces : \A m \in 1..Len(outbox[u]) : Effected(u, m)' <=> Effected(u, m)
      /\ UNCHANGED <<directory, routes>>
      /\ \A u \in Workspaces : counter'[u].total = counter[u].total
  BY TakesInTurn DEF Takes
<1>2. \A u \in Workspaces : DOMAIN outbox[u] = 1..Len(outbox[u])
  BY OutboxType
<1>3. MappedDelivered' = MappedDelivered
  BY <1>1, <1>2 DEF MappedDelivered
<1>. QED  BY <1>1, <1>3 DEF MappedVars, MappedLog, MappedShown, MappedHead, MappedTotal, Visible

LEMMA MappedNext ==
  ASSUME PipelineInv, PipelineInv', [Next]_vars
  PROVE  [Ordered!Next]_Ordered!vars
<1>. /\ DeliveryInv /\ TypeInv /\ TypeInv' /\ TypeOK /\ LogInv /\ LogInv' /\ ControlInv /\ InOrder
     /\ AckedMeansApplied /\ Remembered /\ OldestInHand
  BY DEF PipelineInv, DeliveryInv, TypeInv
<1>1. UNCHANGED MappedVars => UNCHANGED Ordered!vars
  BY Zenon DEF MappedVars, Ordered!vars, MappedLog, MappedDelivered, MappedShown, MappedHead,
               MappedTotal
<1>2. ASSUME NEW w \in Workspaces, NEW s \in Skills, RegionalStep(w, s)
      PROVE  [Ordered!Next]_Ordered!vars
  <2>2. Ordered!Commit(w) \/ UNCHANGED MappedVars
    BY <1>2, MappedCommit
  <2>. QED  BY <1>1, <2>2, Zenon DEF Ordered!Next
<1>3. ASSUME NEW d \in Drainers, Apply(d)
      PROVE  [Ordered!Next]_Ordered!vars
  <2>1. PICK w, n : w \in Workspaces /\ n \in 1..Len(outbox[w]) /\ InTurn(w, n) /\ Project(w, n)
    BY <1>3, AppliesInTurn
  <2>2. UNCHANGED <<outbox, skill>>
    BY <1>3 DEF Apply, region
  <2>3. CASE Effected(w, n)
    BY <1>1, <2>1, <2>2, <2>3, MappedRedelivery
  <2>4. CASE ~Effected(w, n)
    <3>1. Ordered!Deliver(w)
      BY <2>1, <2>2, <2>4, MappedDeliver
    <3>. QED  BY <2>1, <3>1, Zenon DEF Ordered!Next
  <2>. QED  BY <2>3, <2>4
<1>4. CASE Quiet
  BY <1>1, <1>4, MappedQuiet
<1>. QED  BY <1>2, <1>3, <1>4, StepsOfControl

\* The pipeline is in-order, exactly-once delivery: whatever drainers claim, crash over or
\* deliver twice, the public side of every workspace is the result of executing a prefix
\* of its committed events, each once.
THEOREM InOrderOnce == Spec => DeliversInOrder
<1>1. Init => Ordered!Init
  BY MappedInit
<1>2. PipelineInv /\ PipelineInv' /\ [Next]_vars => [Ordered!Next]_Ordered!vars
  BY MappedNext
<1>. QED  BY <1>1, <1>2, Pipeline, PTL DEF Spec, DeliversInOrder, Ordered!Spec
-----------------------------------------------------------------------------
(***************************************************************************)
(* A cell that has given a workspace away has nothing left to deliver.     *)
(***************************************************************************)
LEMMA Movings ==
  ASSUME TypeInv, [Next]_vars
  PROVE  (\E w \in Workspaces : MoveStep(w)) \/ UNCHANGED moving
<1>1. ASSUME NEW w \in Workspaces, NEW s \in Skills, RegionalStep(w, s)
      PROVE  UNCHANGED moving
  <2>1. PICK sk \in SkillStates, evs \in Seq(Events) : Commit(w, s, sk, evs)
    BY <1>1, RegionalCommits DEF TypeInv
  <2>. QED  BY <2>1 DEF Commit
<1>2. ASSUME NEW d \in Drainers, DrainerStep(d) PROVE UNCHANGED moving
  BY <1>2 DEF DrainerStep, Claim, Check, Apply, Ack, Fail, Finish, Crash
<1>3. ASSUME NEW w \in Workspaces, NEW n \in DOMAIN outbox[w], RowStep(w, n)
      PROVE  UNCHANGED moving
  BY <1>3 DEF RowStep, LapseClaim, OverrunLease, RetireRow
<1>4. ASSUME NEW w \in Workspaces, RetireCount(w) PROVE UNCHANGED moving
  BY <1>4 DEF RetireCount
<1>5. CASE UNCHANGED vars
  BY <1>5 DEF vars
<1>. QED  BY <1>1, <1>2, <1>3, <1>4, <1>5 DEF Next

\* A region changes hands only once its outbox is drained.
LEMMA MoveRegions ==
  ASSUME TypeInv, MovedSettled, NEW w \in Workspaces, MoveStep(w)
  PROVE  /\ UNCHANGED <<outbox, drain>>
         /\ \A u \in Workspaces :
              /\ move'[u] \in {"drained", "resumed"} => Drained(u)
              /\ placement'[u].region # placement[u].region => Drained(u)
<1>1. /\ placement \in [Workspaces -> Placements]
      /\ move \in [Workspaces ->
           {"none", "prepared", "cas", "quiesced", "drained", "resumed", "restored"}]
  BY DEF TypeInv, TypeOK
<1>2. UNCHANGED <<outbox, drain>>
  BY DEF MoveStep, PrepareSource, BeginMove, QuiesceSource, DrainOutboxes, ResumeTarget,
         RollbackSource, Activate, region
<1>3. /\ \A u \in Workspaces : u # w => move'[u] = move[u]
      /\ move'[w] \in {"drained", "resumed"} => move[w] = "drained" \/ Drained(w)
  BY <1>1 DEF MoveStep, PrepareSource, BeginMove, QuiesceSource, DrainOutboxes, ResumeTarget,
              RollbackSource, Activate
<1>4. ASSUME NEW u \in Workspaces, placement'[u].region # placement[u].region
      PROVE  Drained(u)
  <2>1. BeginMove(w) \/ Activate(w) \/ UNCHANGED placement
    BY DEF MoveStep, PrepareSource, QuiesceSource, DrainOutboxes, ResumeTarget, RollbackSource
  <2>2. CASE BeginMove(w)
    <3>1. PICK target :
            placement' = [placement EXCEPT ![w] =
              [placement[w] EXCEPT !.state = "moving", !.epoch = placement[w].epoch + 1,
                        !.target = target, !.sourceEpoch = placement[w].epoch]]
      BY <2>2, Zenon DEF BeginMove
    <3>2. placement[w] \in Placements
      BY <1>1
    <3>3. placement'[w].region = placement[w].region
      BY <1>1, <3>1, <3>2 DEF Placements
    <3>. QED  BY <1>1, <1>4, <3>1, <3>3
  <2>3. CASE Activate(w)
    <3>1. PICK e :
            placement' = [placement EXCEPT ![w] =
              [placement[w] EXCEPT !.state = "active",
                 !.region = IF move[w] = "resumed" THEN placement[w].target
                                                   ELSE placement[w].region,
                 !.epoch = e]]
      BY <2>3, Zenon DEF Activate
    <3>2. placement[w] \in Placements
      BY <1>1
    <3>3. CASE move[w] = "resumed"
      BY <1>1, <1>4, <3>1, <3>3 DEF MovedSettled
    <3>4. CASE move[w] # "resumed"
      <4>1. placement'[w].region = placement[w].region
        BY <1>1, <3>1, <3>2, <3>4 DEF Placements
      <4>. QED  BY <1>1, <1>4, <3>1, <4>1
    <3>. QED  BY <3>3, <3>4
  <2>. QED  BY <1>4, <2>1, <2>2, <2>3
<1>. QED  BY <1>2, <1>3, <1>4 DEF MovedSettled

LEMMA DrainedStays ==
  ASSUME TypeInv, NEW w \in Workspaces, Drained(w), SameRows, SettledStays
  PROVE  Drained(w)'
<1>1. /\ DOMAIN outbox[w] = 1..Len(outbox[w])
      /\ outbox' \in [Workspaces -> Seq(Rows)] /\ Len(outbox'[w]) = Len(outbox[w])
  BY OutboxType, SameRowsKept DEF TypeInv
<1>2. DOMAIN outbox'[w] = 1..Len(outbox[w])
  BY <1>1, LenProperties
<1>. QED  BY <1>1, <1>2 DEF Drained, Pending, SettledStays

\* A drainer reads the placement before it applies an event.
LEMMA HandsInCell ==
  ASSUME TypeInv, NEW x \in Drainers, DrainerStep(x), NEW d \in Drainers, pc'[d] = "apply"
  PROVE  /\ cell'[d] = cell[d]
         /\ \/ pc[d] = "apply" /\ current'[d] = current[d]
            \/ current'[d] \in todo[d] /\ placement[current'[d][1]].region = cell[d]
<1>1. /\ pc \in [Drainers -> {"idle", "run", "apply", "ack"}]
      /\ todo \in [Drainers -> SUBSET Items]
      /\ current \in [Drainers -> Items \cup {<<>>}]
      /\ cell \in [Drainers -> Regions]
  BY DEF TypeInv, TypeOK
<1>2. CASE Claim(x)
  <2>1. pc' = [pc EXCEPT ![x] = "run"] /\ UNCHANGED current /\ \E r : cell' = [cell EXCEPT ![x] = r]
    BY <1>2 DEF Claim
  <2>. QED  BY <1>1, <2>1
<1>3. CASE Check(x)
  <2>1. UNCHANGED cell
    BY <1>3 DEF Check
  <2>2. PICK item \in todo[x] :
          \/ /\ pc' = [pc EXCEPT ![x] = "apply"] /\ Accepted(x, item)
             /\ current' = [current EXCEPT ![x] = item]
          \/ /\ pc' = [pc EXCEPT ![x] = "run"]
             /\ current' = [current EXCEPT ![x] = <<>>]
    BY <1>3 DEF Check, FailItem
  <2>3. Accepted(x, item) => placement[item[1]].region = cell[x]
    BY DEF Accepted
  <2>. QED  BY <1>1, <2>1, <2>2, <2>3
<1>4. CASE Apply(x)
  <2>1. pc[x] = "apply" /\ pc' = [pc EXCEPT ![x] = "ack"] /\ UNCHANGED <<todo, current, cell>>
    BY <1>4 DEF Apply
  <2>. QED  BY <1>1, <2>1
<1>5. CASE Ack(x) \/ Fail(x)
  <2>1. /\ pc' = [pc EXCEPT ![x] = "run"] /\ current' = [current EXCEPT ![x] = <<>>]
        /\ UNCHANGED <<todo, cell>>
    BY <1>5 DEF Ack, Fail, FailItem
  <2>. QED  BY <1>1, <2>1
<1>6. CASE Finish(x)
  <2>1. pc' = [pc EXCEPT ![x] = "idle"] /\ UNCHANGED <<current, cell>>
    BY <1>6 DEF Finish
  <2>. QED  BY <1>1, <2>1
<1>7. CASE Crash(x)
  <2>1. /\ pc' = [pc EXCEPT ![x] = "idle"] /\ current' = [current EXCEPT ![x] = <<>>]
        /\ UNCHANGED cell
    BY <1>7 DEF Crash
  <2>. QED  BY <1>1, <2>1
<1>. QED  BY <1>2, <1>3, <1>4, <1>5, <1>6, <1>7 DEF DrainerStep

LEMMA MovedInit == Init => MovedSettled
<1>1. Init => /\ \A w \in Workspaces : move[w] = "none"
              /\ \A d \in Drainers : pc[d] = "idle"
  BY DEF Init
<1>. QED  BY <1>1 DEF MovedSettled

LEMMA MovedNext ==
  ASSUME TypeInv, HomeInv, MovedSettled, [Next]_vars
  PROVE  MovedSettled'
<1> DEFINE InCell(d) ==
      pc[d] = "apply" /\ outbox[current[d][1]][current[d][2]].status = "pending" =>
        cell[d] = placement[current[d][1]].region
<1>1. \A d \in Drainers : InCell(d)
  BY DEF MovedSettled
<1>2. \A d \in Drainers : pc[d] = "apply" =>
        current[d][1] \in Workspaces /\ current[d][2] \in 1..Len(outbox[current[d][1]])
  BY DEF TypeInv, InHand, Items
<1>3. ASSUME NEW w \in Workspaces, NEW s \in Skills, RegionalStep(w, s)
      PROVE  MovedSettled'
  <2>1. PICK sk \in SkillStates, evs \in Seq(Events) : Commit(w, s, sk, evs)
    BY <1>3, RegionalCommits DEF TypeInv
  <2>2. PICK route \in routed[w] :
          route.region = placement[w].region /\ Admits(w, route) /\ Appended(w, evs, route.epoch)
    BY <2>1, CommitLog DEF TypeInv
  <2>3. UNCHANGED <<drain, moving>>
    BY <2>1 DEF Commit
  <2>4. move[w] \notin {"drained", "resumed"}
    BY <2>2 DEF HomeInv, MovePhase, Admits
  <2>5. ASSUME NEW u \in Workspaces, move'[u] \in {"drained", "resumed"}
        PROVE  Drained(u)'
    <3>1. u # w /\ move[u] \in {"drained", "resumed"}
      BY <2>3, <2>4, <2>5 DEF moving
    <3>2. outbox'[u] = outbox[u] /\ Drained(u)
      BY <2>2, <3>1 DEF Appended, MovedSettled
    <3>. QED  BY <3>2 DEF Drained, Pending
  <2>6. \A u \in Workspaces : \A m \in 1..Len(outbox[u]) : outbox'[u][m] = outbox[u][m]
    BY <2>2 DEF Appended
  <2>7. ASSUME NEW d \in Drainers
        PROVE  InCell(d)'
    BY <1>1, <1>2, <2>3, <2>6 DEF drain, moving
  <2>. QED  BY <2>5, <2>7 DEF MovedSettled
<1>4. ASSUME NEW x \in Drainers, DrainerStep(x)
      PROVE  MovedSettled'
  <2>1. SameRows /\ SettledStays /\ UNCHANGED moving
    <3>1. UNCHANGED moving
      BY <1>4 DEF DrainerStep, Claim, Check, Apply, Ack, Fail, Finish, Crash
    <3>. QED  BY <1>4, <3>1, DrainerRows, DrainerKeepsSettled DEF TypeInv
  <2>2. \A u \in Workspaces : move'[u] \in {"drained", "resumed"} => Drained(u)'
    BY <2>1, DrainedStays DEF MovedSettled, moving
  <2>3. ASSUME NEW d \in Drainers, pc'[d] = "apply",
               outbox'[current'[d][1]][current'[d][2]].status = "pending"
        PROVE  cell'[d] = placement'[current'[d][1]].region
    <3>1. /\ cell'[d] = cell[d] /\ placement' = placement
          /\ \/ pc[d] = "apply" /\ current'[d] = current[d]
             \/ current'[d] \in todo[d] /\ placement[current'[d][1]].region = cell[d]
      BY <1>4, <2>1, <2>3, HandsInCell DEF moving
    <3>2. CASE pc[d] = "apply" /\ current'[d] = current[d]
      <4>1. outbox[current[d][1]][current[d][2]].status = "pending"
        BY <1>2, <2>1, <2>3, <3>2 DEF SettledStays
      <4>. QED  BY <1>1, <3>1, <3>2, <4>1
    <3>. QED  BY <3>1, <3>2
  <2>. QED  BY <2>2, <2>3 DEF MovedSettled
<1>5. ASSUME NEW w \in Workspaces, MoveStep(w)
      PROVE  MovedSettled'
  <2>1. /\ UNCHANGED <<outbox, drain>>
        /\ \A u \in Workspaces :
              /\ move'[u] \in {"drained", "resumed"} => Drained(u)
              /\ placement'[u].region # placement[u].region => Drained(u)
    BY <1>5, MoveRegions
  <2>2. \A u \in Workspaces : Drained(u)' <=> Drained(u)
    BY <2>1 DEF Drained, Pending
  <2>3. ASSUME NEW d \in Drainers, pc'[d] = "apply",
               outbox'[current'[d][1]][current'[d][2]].status = "pending"
        PROVE  cell'[d] = placement'[current'[d][1]].region
    <3>1. /\ pc[d] = "apply" /\ current'[d] = current[d] /\ cell'[d] = cell[d]
          /\ outbox[current[d][1]][current[d][2]].status = "pending"
      BY <2>1, <2>3 DEF drain
    <3>2. ~Drained(current[d][1])
      BY <1>2, <3>1, OutboxType DEF Drained, Pending, TypeInv
    <3>. QED  BY <1>1, <1>2, <2>1, <3>1, <3>2
  <2>. QED  BY <2>1, <2>2, <2>3 DEF MovedSettled
<1>6. CASE SameRows /\ SettledStays /\ UNCHANGED <<drain, moving>>
  <2>1. \A u \in Workspaces : move'[u] \in {"drained", "resumed"} => Drained(u)'
    BY <1>6, DrainedStays DEF MovedSettled, moving
  <2>2. ASSUME NEW d \in Drainers
        PROVE  InCell(d)'
    BY <1>1, <1>2, <1>6 DEF drain, moving, SettledStays
  <2>. QED  BY <2>1, <2>2 DEF MovedSettled
<1>. QED  BY <1>3, <1>4, <1>5, <1>6, StepsOfLog, Movings

\* What the public sees of a workspace changes only by the cell that is its home: a
\* drainer left over in the old cell finds nothing but settled events in its hands and
\* republishes nothing (drainOutboxes runs behind the quiesce of the source).
THEOREM OldCellSilent == Spec => StaleCellSilent
<1> DEFINE Silent ==
      \A w \in Workspaces : \A d \in Drainers :
       (/\ pc[d] = "apply" /\ pc'[d] = "ack" /\ current[d][1] = w
        /\ cell[d] # placement[w].region)
       => UNCHANGED <<directory[w], counter[w].total, routes>>
<1>1. ASSUME PipelineInv, MovedSettled, [Next]_vars
      PROVE  [Silent]_vars
  <2> SUFFICES ASSUME NEW w \in Workspaces, NEW d \in Drainers,
                      pc[d] = "apply", pc'[d] = "ack", current[d][1] = w,
                      cell[d] # placement[w].region
               PROVE  UNCHANGED <<directory[w], counter[w].total, routes>>
    OBVIOUS
  <2>1. /\ DeliveryInv /\ TypeInv /\ TypeOK /\ LogInv /\ ControlInv /\ AckedMeansApplied
        /\ Remembered /\ OldestInHand
    BY <1>1 DEF PipelineInv, DeliveryInv, TypeInv
  <2>2. CASE \E x \in Drainers : Apply(x)
    <3>1. PICK x \in Drainers : Apply(x)
      BY <2>2
    <3>2. x = d
      BY <2>1, <3>1 DEF Apply, TypeOK
    <3>3. PICK n : n = current[d][2]
      OBVIOUS
    <3>4. n \in 1..Len(outbox[w]) /\ InTurn(w, n) /\ Project(w, n)
      BY <2>1, <3>1, <3>2, <3>3, AppliesInTurn
    <3>5. UNCHANGED <<outbox, skill>>
      BY <3>1 DEF Apply, region
    <3>6. outbox[w][n].status # "pending"
      BY <1>1, <3>3 DEF MovedSettled
    <3>7. Effected(w, n)
      <4>1. DOMAIN outbox[w] = 1..Len(outbox[w])
        BY <2>1, OutboxType
      <4>. QED  BY <2>1, <3>4, <3>6, <4>1 DEF AckedMeansApplied, Pending
    <3>8. /\ UNCHANGED <<directory, routes>>
          /\ \A u \in Workspaces : counter'[u].total = counter[u].total
      BY <2>1, <3>4, <3>5, <3>7, TakesInTurn DEF Takes
    <3>. QED  BY <3>8
  <2>3. CASE Quiet
    BY <2>3 DEF Quiet
  <2>4. CASE \E u \in Workspaces, s \in Skills : RegionalStep(u, s)
    <3>1. UNCHANGED pc
      <4>1. PICK u \in Workspaces, s \in Skills : RegionalStep(u, s)
        BY <2>4
      <4>2. PICK sk \in SkillStates, evs \in Seq(Events) : Commit(u, s, sk, evs)
        BY <2>1, <4>1, RegionalCommits
      <4>. QED  BY <4>2 DEF Commit, drain
    <3>. QED  BY <3>1
  <2>. QED  BY <1>1, <2>1, <2>2, <2>3, <2>4, StepsOfControl
<1>2. PipelineInv /\ MovedSettled /\ [Next]_vars => MovedSettled'
  BY MovedNext DEF PipelineInv, DeliveryInv
<1>3. Spec => [](PipelineInv /\ MovedSettled)
  BY <1>2, MovedInit, PipelineInit, PipelineNext, PTL DEF Spec
<1>4. Spec => [][Silent]_vars
  BY <1>1, <1>3, PTL DEF Spec
<1>. QED  BY <1>4 DEF StaleCellSilent
=============================================================================
