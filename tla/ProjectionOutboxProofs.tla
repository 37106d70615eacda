----------------------- MODULE ProjectionOutboxProofs -----------------------
(***************************************************************************)
(* Proofs about ProjectionOutbox, for every set of workspaces, skills,     *)
(* regions and drainers and all bounds.                                    *)
(***************************************************************************)
EXTENDS ProjectionOutbox, SequenceTheorems, TLAPS

-----------------------------------------------------------------------------
(***************************************************************************)
(* Sequences, and the number the next event is given.                      *)
(***************************************************************************)

\* A function on 1..n is a sequence.
LEMMA FunctionIsSequence ==
  ASSUME NEW S, NEW n \in Nat, NEW f \in [1..n -> S]
  PROVE  f \in Seq(S) /\ Len(f) = n
<1>1. f \in Seq(S)
  BY SeqDef
<1>. QED  BY <1>1, LenProperties

\* Changing a sequence's elements, each to one of its own kind, keeps its length.
LEMMA SameLength ==
  ASSUME NEW S, NEW f \in Seq(S), NEW g, DOMAIN g = DOMAIN f,
         g = [n \in DOMAIN f |-> g[n]],
         \A n \in 1..Len(f) : g[n] \in S
  PROVE  g \in Seq(S) /\ Len(g) = Len(f)
<1>1. DOMAIN f = 1..Len(f) /\ Len(f) \in Nat
  BY LenProperties
<1>2. g \in [1..Len(f) -> S]
  BY <1>1
<1>. QED  BY <1>1, <1>2, FunctionIsSequence

\* Largest picks the upper bound that a set contains.
LEMMA LargestIs ==
  ASSUME NEW S \in SUBSET Int, NEW m \in S, \A n \in S : n <= m
  PROVE  Largest(S) = m
<1>1. \E x \in S : \A n \in S : n <= x
  OBVIOUS
<1>2. Largest(S) \in S /\ \A n \in S : n <= Largest(S)
  BY <1>1, Zenon DEF Largest
<1>3. Largest(S) <= m /\ m <= Largest(S)
  BY <1>2
<1>4. Largest(S) \in Int /\ m \in Int
  BY <1>2
<1>. QED  BY <1>3, <1>4

\* The sequence counter and the rows agree, so events are appended.
Dense == \A w \in Workspaces : lastSequence[w] = Len(outbox[w])

LEMMA NextSequenceIs ==
  ASSUME TypeOK, Dense, NEW w \in Workspaces
  PROVE  NextSequence(w) = Len(outbox[w]) + 1
<1>1. outbox[w] \in Seq(Rows) /\ lastSequence[w] = Len(outbox[w])
  BY DEF TypeOK, Dense
<1>2. DOMAIN outbox[w] = 1..Len(outbox[w]) /\ Len(outbox[w]) \in Nat
  BY <1>1, LenProperties
<1> DEFINE S == {lastSequence[w]} \cup LiveSequences(w)
<1>3. S \in SUBSET Int /\ lastSequence[w] \in S /\ \A n \in S : n <= lastSequence[w]
  BY <1>1, <1>2 DEF LiveSequences
<1>4. Largest(S) = lastSequence[w]
  BY <1>3, LargestIs
<1>. QED  BY <1>1, <1>4 DEF NextSequence

\* Committing events appends a pending row for each and leaves the others alone.
LEMMA ExtendedAppends ==
  ASSUME TypeOK, Dense, NEW w \in Workspaces, NEW evs \in Seq(Events), NEW e \in Nat
  PROVE  /\ Extended(w, evs, e) \in Seq(Rows)
         /\ Len(Extended(w, evs, e)) = Len(outbox[w]) + Len(evs)
         /\ \A n \in 1..Len(outbox[w]) : Extended(w, evs, e)[n] = outbox[w][n]
         /\ \A n \in 1..Len(Extended(w, evs, e)) \ (1..Len(outbox[w])) :
              Extended(w, evs, e)[n].status = "pending"
         /\ \A n \in 1..Len(evs) :
              Extended(w, evs, e)[Len(outbox[w]) + n] = NewRow(evs[n], e)
<1> DEFINE L == Len(outbox[w])
           K == L + Len(evs)
           f == [n \in 1..K |-> IF n \in (L + 1)..K THEN NewRow(evs[n - (L + 1) + 1], e)
                                                  ELSE outbox[w][n]]
<1>1. outbox[w] \in Seq(Rows)
  BY DEF TypeOK
<1>2. L \in Nat /\ Len(evs) \in Nat /\ K \in Nat
  BY <1>1, LenProperties
<1>3. Largest({K, L}) = K
  <2>1. {K, L} \in SUBSET Int /\ K \in {K, L} /\ \A n \in {K, L} : n <= K
    BY <1>2
  <2>. QED  BY <2>1, LargestIs
<1>4. Extended(w, evs, e) = f
  <2>1. NextSequence(w) = L + 1
    BY NextSequenceIs
  <2>2. (L + 1) + Len(evs) - 1 = K
    BY <1>2
  <2>. HIDE DEF L, K
  <2>. QED  BY <1>3, <2>1, <2>2 DEF Extended, f, L
<1>5. \A ev \in Events : NewRow(ev, e) \in Rows /\ NewRow(ev, e).status = "pending"
  BY DEF NewRow, Rows
<1>6. ASSUME NEW n \in (L + 1)..K
      PROVE  NewRow(evs[n - (L + 1) + 1], e) \in Rows
  <2>1. n - (L + 1) + 1 \in 1..Len(evs)
    BY <1>2
  <2>. QED  BY <1>5, <2>1, ElementOfSeq
<1>7. f \in [1..K -> Rows]
  <2> SUFFICES ASSUME NEW n \in 1..K
               PROVE  f[n] \in Rows
    OBVIOUS
  <2>1. CASE n \in (L + 1)..K
    BY <1>6, <2>1
  <2>2. CASE n \notin (L + 1)..K
    <3>1. n \in 1..L
      BY <1>2, <2>2
    <3>. QED  BY <1>1, <2>2, <3>1, ElementOfSeq
  <2>. QED  BY <2>1, <2>2
<1>8. f \in Seq(Rows) /\ Len(f) = K
  BY <1>2, <1>7, FunctionIsSequence
<1>9. \A n \in 1..L : f[n] = outbox[w][n]
  BY <1>2
<1>10. ASSUME NEW n \in 1..K \ (1..L)
       PROVE  f[n].status = "pending"
  <2>1. n - (L + 1) + 1 \in 1..Len(evs) /\ n \in (L + 1)..K
    BY <1>2
  <2>. QED  BY <1>5, <2>1, ElementOfSeq
<1>11. ASSUME NEW n \in 1..Len(evs)
       PROVE  f[L + n] = NewRow(evs[n], e)
  <2>1. L + n \in (L + 1)..K /\ L + n \in 1..K /\ (L + n) - (L + 1) + 1 = n
    BY <1>2
  <2>. QED  BY <2>1
<1>. QED  BY <1>4, <1>8, <1>9, <1>10, <1>11
-----------------------------------------------------------------------------
(***************************************************************************)
(* Every regional operation is one commit of well-formed events.           *)
(***************************************************************************)

\* A step keeps the events of the rows it finds ...
RowsKept ==
  \A w \in Workspaces :
    /\ Len(outbox[w]) <= Len(outbox'[w])
    /\ \A n \in 1..Len(outbox[w]) : /\ outbox'[w][n].event = outbox[w][n].event
                                    /\ outbox'[w][n].epoch = outbox[w][n].epoch

\* ... and settles none of the pending ones.
NoneSettled ==
  \A w \in Workspaces : \A n \in 1..Len(outbox'[w]) :
    outbox'[w][n].status # "pending" =>
      n \in 1..Len(outbox[w]) /\ outbox[w][n].status # "pending"

LEMMA CommitAppends ==
  ASSUME TypeOK, Dense, NEW w \in Workspaces, NEW s \in Skills,
         NEW sk \in SkillStates, NEW evs \in Seq(Events), Commit(w, s, sk, evs)
  PROVE  /\ skill' \in [Workspaces -> [Skills -> SkillStates]]
         /\ outbox' \in [Workspaces -> Seq(Rows)]
         /\ lastSequence' \in [Workspaces -> Nat]
         /\ Dense' /\ RowsKept /\ NoneSettled
         /\ UNCHANGED <<drain, control, moving, faults>>
<1>1. PICK route \in routed[w] :
        /\ skill' = [skill EXCEPT ![w][s] = sk]
        /\ IF evs = <<>>
             THEN UNCHANGED <<outbox, lastSequence>>
             ELSE /\ outbox' = [outbox EXCEPT ![w] = Extended(w, evs, route.epoch)]
                  /\ lastSequence' = [lastSequence EXCEPT
                                        ![w] = NextSequence(w) + Len(evs) - 1]
        /\ UNCHANGED <<drain, control, moving, faults>>
  BY DEF Commit
<1>2. route.epoch \in Nat
  BY DEF TypeOK
<1>3. skill' \in [Workspaces -> [Skills -> SkillStates]]
  BY <1>1 DEF TypeOK
<1>4. \A u \in Workspaces : outbox[u] \in Seq(Rows) /\ Len(outbox[u]) \in Nat
  BY LenProperties DEF TypeOK
<1>5. CASE evs = <<>>
  BY <1>1, <1>3, <1>4, <1>5 DEF TypeOK, Dense, RowsKept, NoneSettled
<1>6. CASE evs # <<>>
  <2> DEFINE new == Extended(w, evs, route.epoch)
  <2>1. /\ new \in Seq(Rows)
        /\ Len(new) = Len(outbox[w]) + Len(evs)
        /\ \A n \in 1..Len(outbox[w]) : new[n] = outbox[w][n]
        /\ \A n \in 1..Len(new) \ (1..Len(outbox[w])) : new[n].status = "pending"
    BY <1>2, ExtendedAppends
  <2>2. /\ outbox' = [outbox EXCEPT ![w] = new]
        /\ lastSequence' = [lastSequence EXCEPT ![w] = NextSequence(w) + Len(evs) - 1]
    BY <1>1, <1>6
  <2>3. NextSequence(w) + Len(evs) - 1 = Len(new) /\ Len(new) \in Nat /\ Len(evs) \in Nat
    BY <1>4, <2>1, NextSequenceIs, LenProperties
  <2>. HIDE DEF new
  <2>4. outbox \in [Workspaces -> Seq(Rows)] /\ lastSequence \in [Workspaces -> Nat]
    BY DEF TypeOK
  <2>5. /\ outbox' \in [Workspaces -> Seq(Rows)]
        /\ lastSequence' \in [Workspaces -> Nat]
    BY <2>1, <2>2, <2>3, <2>4
  <2>6. outbox'[w] = new /\ \A u \in Workspaces \ {w} : outbox'[u] = outbox[u]
    BY <2>2, <2>4
  <2>7. Dense'
    <3>1. lastSequence'[w] = Len(new)
      BY <2>2, <2>3, <2>4
    <3>2. \A u \in Workspaces \ {w} : lastSequence'[u] = lastSequence[u]
      BY <2>2, <2>4
    <3>. QED  BY <2>6, <3>1, <3>2 DEF Dense
  <2>8. RowsKept
    <3> SUFFICES ASSUME NEW u \in Workspaces
                 PROVE  /\ Len(outbox[u]) <= Len(outbox'[u])
                        /\ \A n \in 1..Len(outbox[u]) :
                             /\ outbox'[u][n].event = outbox[u][n].event
                             /\ outbox'[u][n].epoch = outbox[u][n].epoch
      BY DEF RowsKept
    <3>1. CASE u = w
      BY <1>4, <2>1, <2>3, <2>6, <3>1
    <3>2. CASE u # w
      BY <1>4, <2>6, <3>2
    <3>. QED  BY <3>1, <3>2
  <2>9. NoneSettled
    BY <1>4, <2>1, <2>3, <2>6 DEF NoneSettled
  <2>. QED  BY <1>1, <1>3, <2>5, <2>7, <2>8, <2>9
<1>. QED  BY <1>5, <1>6

LEMMA EventTypes ==
  ASSUME NEW s \in Skills, NEW v \in 0..MaxVersion, NEW cur \in 0..MaxVersion,
         NEW d \in {-1, 0, 1}
  PROVE  /\ PublishedEvent(s, v, cur) \in Events
         /\ UnpublishedEvent(s, v) \in Events
         /\ CountEvent(s, d) \in Events
         /\ RouteEvent(s) \in Events
<1>1. 0 \in 0..MaxVersion
  BY MaxVersionAssumption
<1>. QED  BY <1>1 DEF PublishedEvent, UnpublishedEvent, CountEvent, RouteEvent, Events

\* A skill is always announced by well-formed events.
LEMMA CurrentProjectionType ==
  ASSUME NEW s \in Skills, NEW sk \in SkillStates, NEW history \in BOOLEAN
  PROVE  CurrentProjection(s, sk, history) \in Seq(Events)
<1>1. sk.current \in 0..MaxVersion /\ sk.current \in Nat
  BY MaxVersionAssumption DEF SkillStates
<1>2. UnpublishedEvent(s, sk.current) \in Events
  BY <1>1, EventTypes
<1>3. PublishedEvent(s, sk.current, sk.current) \in Events
  BY <1>1, EventTypes
<1> DEFINE f == [i \in 1..sk.current |->
                   PublishedEvent(s, IF i = 1 THEN sk.current ELSE i - 1, sk.current)]
<1>4. f \in [1..sk.current -> Events]
  <2>1. \A i \in 1..sk.current : (IF i = 1 THEN sk.current ELSE i - 1) \in 0..MaxVersion
    BY <1>1, MaxVersionAssumption
  <2>2. \A i \in 1..sk.current :
          PublishedEvent(s, IF i = 1 THEN sk.current ELSE i - 1, sk.current) \in Events
    BY <1>1, <2>1, EventTypes
  <2>. QED  BY <2>2
<1>5. f \in Seq(Events)
  BY <1>1, <1>4, FunctionIsSequence
<1>. QED  BY <1>2, <1>3, <1>5 DEF CurrentProjection

LEMMA RegionalCommits ==
  ASSUME TypeOK, NEW w \in Workspaces, NEW s \in Skills, RegionalStep(w, s)
  PROVE  \E sk \in SkillStates, evs \in Seq(Events) : Commit(w, s, sk, evs)
<1> DEFINE old == skill[w][s]
<1>1. old \in SkillStates
  BY DEF TypeOK
<1>2. old.current \in 0..MaxVersion /\ old.public \in BOOLEAN /\ old.archived \in BOOLEAN
  BY <1>1 DEF SkillStates
<1>3. CASE CreateSkill(w, s)
  <2>1. PICK public \in BOOLEAN :
          Commit(w, s, [current |-> 1, public |-> public, archived |-> FALSE],
                 (IF public THEN <<PublishedEvent(s, 1, 1)>> ELSE <<>>)
                   \o <<RouteEvent(s), CountEvent(s, 1)>>)
    BY <1>3 DEF CreateSkill
  <2>2. [current |-> 1, public |-> public, archived |-> FALSE] \in SkillStates
    BY MaxVersionAssumption DEF SkillStates
  <2>3. 1 \in 0..MaxVersion
    BY MaxVersionAssumption
  <2>4. (IF public THEN <<PublishedEvent(s, 1, 1)>> ELSE <<>>) \in Seq(Events)
    BY <2>3, EventTypes
  <2>5. <<RouteEvent(s), CountEvent(s, 1)>> \in Seq(Events)
    BY <2>3, EventTypes
  <2>6. ((IF public THEN <<PublishedEvent(s, 1, 1)>> ELSE <<>>)
            \o <<RouteEvent(s), CountEvent(s, 1)>>) \in Seq(Events)
    BY <2>4, <2>5, ConcatProperties
  <2>. QED  BY <2>1, <2>2, <2>6
<1>4. ASSUME old.current \in 1..(MaxVersion - 1)
      PROVE  [old EXCEPT !.current = @ + 1] \in SkillStates
  BY <1>1, <1>4, MaxVersionAssumption DEF SkillStates
<1>5. CASE PublishCandidate(w, s)
  <2> DEFINE sk == [old EXCEPT !.current = @ + 1]
  <2>1. sk \in SkillStates
    BY <1>4, <1>5 DEF PublishCandidate
  <2>2. sk.current \in 0..MaxVersion
    BY <2>1 DEF SkillStates
  <2>3. PublishedEvent(s, sk.current, sk.current) \in Events
    BY <2>2, EventTypes
  <2>4. (IF sk.public THEN <<PublishedEvent(s, sk.current, sk.current)>> ELSE <<>>)
          \in Seq(Events)
    BY <2>3
  <2>. QED  BY <1>5, <2>1, <2>4 DEF PublishCandidate
<1>6. CASE PublishAmendment(w, s)
  <2>1. [old EXCEPT !.current = @ + 1] \in SkillStates
    BY <1>4, <1>6 DEF PublishAmendment
  <2>2. CurrentProjection(s, [old EXCEPT !.current = @ + 1], FALSE) \in Seq(Events)
    BY <2>1, CurrentProjectionType
  <2>. QED  BY <1>6, <2>1, <2>2 DEF PublishAmendment
<1>7. CASE SetVisibility(w, s)
  <2>1. PICK public \in BOOLEAN :
          Commit(w, s, [old EXCEPT !.public = public],
                 CurrentProjection(s, [old EXCEPT !.public = public],
                                   public /\ ~old.public))
    BY <1>7 DEF SetVisibility
  <2>2. [old EXCEPT !.public = public] \in SkillStates
    BY <1>1 DEF SkillStates
  <2>3. (public /\ ~old.public) \in BOOLEAN
    OBVIOUS
  <2>4. CurrentProjection(s, [old EXCEPT !.public = public], public /\ ~old.public)
          \in Seq(Events)
    BY <2>2, <2>3, CurrentProjectionType
  <2>. QED  BY <2>1, <2>2, <2>4
<1>8. CASE SetArchived(w, s)
  <2> DEFINE count(a) == IF a # old.archived
                           THEN <<CountEvent(s, IF a THEN -1 ELSE 1)>> ELSE <<>>
  <2>1. PICK archived \in BOOLEAN :
          Commit(w, s, [old EXCEPT !.archived = archived],
                 CurrentProjection(s, [old EXCEPT !.archived = archived],
                                   ~archived /\ old.archived) \o count(archived))
    BY <1>8 DEF SetArchived
  <2>2. [old EXCEPT !.archived = archived] \in SkillStates
    BY <1>1 DEF SkillStates
  <2>3. (~archived /\ old.archived) \in BOOLEAN
    OBVIOUS
  <2>4. CurrentProjection(s, [old EXCEPT !.archived = archived], ~archived /\ old.archived)
          \in Seq(Events)
    BY <2>2, <2>3, CurrentProjectionType
  <2>5. count(archived) \in Seq(Events)
    <3>1. (IF archived THEN -1 ELSE 1) \in {-1, 0, 1}
      OBVIOUS
    <3>2. CountEvent(s, IF archived THEN -1 ELSE 1) \in Events
      BY <1>2, <3>1, EventTypes
    <3>. QED  BY <3>2
  <2>6. (CurrentProjection(s, [old EXCEPT !.archived = archived],
                           ~archived /\ old.archived) \o count(archived)) \in Seq(Events)
    BY <2>4, <2>5, ConcatProperties
  <2>. QED  BY <2>1, <2>2, <2>6
<1>. QED  BY <1>3, <1>5, <1>6, <1>7, <1>8 DEF RegionalStep

-----------------------------------------------------------------------------
(***************************************************************************)
(* Every other step changes at most claims and statuses of rows.           *)
(***************************************************************************)
SameRows ==
  /\ outbox' = [w \in Workspaces |-> [n \in DOMAIN outbox[w] |-> outbox'[w][n]]]
  /\ \A w \in Workspaces : \A n \in 1..Len(outbox[w]) :
       /\ outbox'[w][n] \in Rows
       /\ outbox'[w][n].event = outbox[w][n].event
       /\ outbox'[w][n].epoch = outbox[w][n].epoch

LEMMA OutboxType ==
  ASSUME TypeOK, NEW w \in Workspaces
  PROVE  /\ outbox[w] \in Seq(Rows)
         /\ DOMAIN outbox[w] = 1..Len(outbox[w]) /\ Len(outbox[w]) \in Nat
         /\ \A n \in 1..Len(outbox[w]) : outbox[w][n] \in Rows
<1>1. outbox[w] \in Seq(Rows)
  BY DEF TypeOK
<1>. QED  BY <1>1, LenProperties, ElementOfSeq

LEMMA SameRowsKept ==
  ASSUME TypeOK, SameRows
  PROVE  /\ outbox' \in [Workspaces -> Seq(Rows)]
         /\ RowsKept
         /\ \A w \in Workspaces : Len(outbox'[w]) = Len(outbox[w])
<1>1. ASSUME NEW w \in Workspaces
      PROVE  outbox'[w] \in Seq(Rows) /\ Len(outbox'[w]) = Len(outbox[w])
  <2>1. DOMAIN outbox[w] = 1..Len(outbox[w]) /\ Len(outbox[w]) \in Nat
    BY OutboxType
  <2>2. outbox'[w] = [n \in DOMAIN outbox[w] |-> outbox'[w][n]]
    BY DEF SameRows
  <2>3. \A n \in 1..Len(outbox[w]) : outbox'[w][n] \in Rows
    BY DEF SameRows
  <2>4. outbox'[w] \in [1..Len(outbox[w]) -> Rows]
    BY <2>1, <2>2, <2>3
  <2>. QED  BY <2>1, <2>4, FunctionIsSequence
<1>2. outbox' \in [Workspaces -> Seq(Rows)]
  BY <1>1 DEF SameRows
<1>3. RowsKept
  BY <1>1, OutboxType DEF SameRows, RowsKept
<1>. QED  BY <1>1, <1>2, <1>3

\* Giving claims back settles nothing.
LEMMA ReleasedRows ==
  ASSUME TypeOK, NEW d, NEW items, outbox' = Released(d, items)
  PROVE  SameRows /\ NoneSettled
<1>1. outbox' = [w \in Workspaces |-> [n \in DOMAIN outbox[w] |->
         IF /\ <<w, n>> \in items
            /\ outbox[w][n].token = d
            /\ outbox[w][n].status = "pending"
           THEN [outbox[w][n] EXCEPT !.token = None, !.live = FALSE]
           ELSE outbox[w][n]]]
  BY DEF Released
<1>2. outbox' = [w \in Workspaces |-> [n \in DOMAIN outbox[w] |-> outbox'[w][n]]]
  BY <1>1
<1>3. ASSUME NEW w \in Workspaces, NEW n \in 1..Len(outbox[w])
      PROVE  /\ outbox'[w][n] \in Rows
             /\ outbox'[w][n].event = outbox[w][n].event
             /\ outbox'[w][n].epoch = outbox[w][n].epoch
             /\ outbox'[w][n].status = outbox[w][n].status
  <2>1. outbox[w][n] \in Rows /\ n \in DOMAIN outbox[w]
    BY OutboxType
  <2>2. \/ outbox'[w][n] = outbox[w][n]
        \/ outbox'[w][n] = [outbox[w][n] EXCEPT !.token = None, !.live = FALSE]
    BY <1>1, <2>1
  <2>3. [outbox[w][n] EXCEPT !.token = None, !.live = FALSE] \in Rows
    BY <2>1 DEF Rows
  <2>. QED  BY <2>1, <2>2, <2>3 DEF Rows
<1>4. SameRows
  BY <1>2, <1>3 DEF SameRows
<1>5. \A w \in Workspaces : Len(outbox'[w]) = Len(outbox[w])
  BY <1>4, SameRowsKept
<1>. QED  BY <1>3, <1>4, <1>5 DEF NoneSettled

\* A change of one row at most.
LEMMA OneRow ==
  ASSUME TypeOK, NEW w \in Workspaces, NEW n, NEW row \in Rows,
         row.event = outbox[w][n].event, row.epoch = outbox[w][n].epoch,
         outbox' = [outbox EXCEPT ![w][n] = row]
  PROVE  /\ SameRows
         /\ \A u \in Workspaces : \A m \in 1..Len(outbox[u]) :
              <<u, m>> # <<w, n>> => outbox'[u][m] = outbox[u][m]
         /\ n \in 1..Len(outbox[w]) => outbox'[w][n] = row
<1>1. outbox \in [Workspaces -> Seq(Rows)]
  BY DEF TypeOK
<1>2. /\ outbox'[w] = [outbox[w] EXCEPT ![n] = row]
      /\ \A u \in Workspaces \ {w} : outbox'[u] = outbox[u]
      /\ DOMAIN outbox' = Workspaces
  BY <1>1
<1>3. \A u \in Workspaces :
        /\ DOMAIN outbox[u] = 1..Len(outbox[u])
        /\ outbox[u] \in [1..Len(outbox[u]) -> Rows]
  BY <1>1, LenProperties
<1>4. \A u \in Workspaces :
        /\ DOMAIN outbox'[u] = DOMAIN outbox[u]
        /\ outbox'[u] = [m \in DOMAIN outbox[u] |-> outbox'[u][m]]
  <2> SUFFICES ASSUME NEW u \in Workspaces
               PROVE  /\ DOMAIN outbox'[u] = DOMAIN outbox[u]
                      /\ outbox'[u] = [m \in DOMAIN outbox[u] |-> outbox'[u][m]]
    OBVIOUS
  <2>2. CASE u = w
    <3>1. DOMAIN outbox'[w] = DOMAIN outbox[w]
      BY <1>2
    <3>2. outbox'[w] = [m \in DOMAIN outbox'[w] |-> outbox'[w][m]]
      BY <1>2
    <3>. QED  BY <2>2, <3>1, <3>2
  <2>3. CASE u # w
    <3>1. outbox'[u] = outbox[u]
      BY <1>2, <2>3
    <3>2. outbox[u] = [m \in DOMAIN outbox[u] |-> outbox[u][m]]
      BY <1>3
    <3>. QED  BY <3>1, <3>2
  <2>. QED  BY <2>2, <2>3
<1>5. outbox' = [u \in Workspaces |-> [m \in DOMAIN outbox[u] |-> outbox'[u][m]]]
  <2>1. outbox' = [u \in Workspaces |-> outbox'[u]]
    BY <1>1
  <2>. QED  BY <1>4, <2>1
<1>6. \A u \in Workspaces : \A m \in 1..Len(outbox[u]) :
        outbox'[u][m] = IF u = w /\ m = n THEN row ELSE outbox[u][m]
  BY <1>2, <1>3
<1>7. \A u \in Workspaces : \A m \in 1..Len(outbox[u]) : outbox[u][m] \in Rows
  BY <1>3
<1>. QED  BY <1>5, <1>6, <1>7 DEF SameRows

LEMMA StillRows ==
  ASSUME TypeOK, UNCHANGED outbox
  PROVE  SameRows /\ NoneSettled
<1>1. outbox \in [Workspaces -> Seq(Rows)]
  BY DEF TypeOK
<1>2. \A w \in Workspaces : outbox[w] = [n \in DOMAIN outbox[w] |-> outbox[w][n]]
  BY <1>1, OutboxType
<1>3. outbox' = [w \in Workspaces |-> [n \in DOMAIN outbox[w] |-> outbox'[w][n]]]
  <2>1. outbox' = [w \in Workspaces |-> outbox[w]]
    BY <1>1
  <2>. QED  BY <1>2, <2>1
<1>. QED  BY <1>3, OutboxType DEF SameRows, NoneSettled

\* An event in a drainer's hands is a row of the outbox.
InHand ==
  \A d \in Drainers :
    /\ pc[d] \in {"apply", "ack"} =>
         current[d] \in Items /\ current[d][2] \in 1..Len(outbox[current[d][1]])
    /\ \A item \in todo[d] : item[2] \in 1..Len(outbox[item[1]])

LEMMA ClaimRows ==
  ASSUME TypeOK, NEW d \in Drainers, Claim(d)
  PROVE  SameRows /\ NoneSettled
<1>1. PICK rows :
        outbox' = [w \in Workspaces |-> [n \in DOMAIN outbox[w] |->
                     IF <<w, n>> \in rows
                       THEN [outbox[w][n] EXCEPT !.token = d, !.live = TRUE]
                       ELSE outbox[w][n]]]
  <2>1. PICK r \in Regions :
          LET rows == Eligible(r, IF pc[d] = "idle" THEN {} ELSE blocked[d])
          IN  outbox' = [w \in Workspaces |-> [n \in DOMAIN outbox[w] |->
                           IF <<w, n>> \in rows
                             THEN [outbox[w][n] EXCEPT !.token = d, !.live = TRUE]
                             ELSE outbox[w][n]]]
    BY Zenon DEF Claim
  <2>. QED  BY <2>1, Zenon
<1>2. outbox' = [w \in Workspaces |-> [n \in DOMAIN outbox[w] |-> outbox'[w][n]]]
  BY <1>1
<1>3. ASSUME NEW w \in Workspaces, NEW n \in 1..Len(outbox[w])
      PROVE  /\ outbox'[w][n] \in Rows
             /\ outbox'[w][n].event = outbox[w][n].event
             /\ outbox'[w][n].epoch = outbox[w][n].epoch
             /\ outbox'[w][n].status = outbox[w][n].status
  <2>1. outbox[w][n] \in Rows /\ n \in DOMAIN outbox[w]
    BY OutboxType
  <2>2. \/ outbox'[w][n] = outbox[w][n]
        \/ outbox'[w][n] = [outbox[w][n] EXCEPT !.token = d, !.live = TRUE]
    BY <1>1, <2>1
  <2>3. [outbox[w][n] EXCEPT !.token = d, !.live = TRUE] \in Rows
    BY <2>1 DEF Rows
  <2>. QED  BY <2>1, <2>2, <2>3 DEF Rows
<1>4. SameRows
  BY <1>2, <1>3 DEF SameRows
<1>5. \A w \in Workspaces : Len(outbox'[w]) = Len(outbox[w])
  BY <1>4, SameRowsKept
<1>. QED  BY <1>3, <1>4, <1>5 DEF NoneSettled

\* An acknowledgement settles the event in the drainer's hands and no other.
LEMMA AckRows ==
  ASSUME TypeOK, InHand, NEW d \in Drainers, Ack(d)
  PROVE  /\ SameRows
         /\ \A w \in Workspaces : \A n \in 1..Len(outbox'[w]) :
              outbox'[w][n].status # "pending" =>
                \/ outbox[w][n].status # "pending"
                \/ current[d] = <<w, n>>
<1> DEFINE w == current[d][1]
           n == current[d][2]
<1>1. w \in Workspaces /\ n \in 1..Len(outbox[w]) /\ current[d] = <<w, n>>
  BY DEF Ack, InHand, Items
<1>2. outbox[w][n] \in Rows
  BY <1>1, OutboxType
<1>3. CASE RowOf(current[d]).token = d /\ RowOf(current[d]).status = "pending"
  <2> DEFINE row == [outbox[w][n] EXCEPT !.token = None, !.live = FALSE,
                                         !.status = "processed"]
  <2>1. /\ row \in Rows
        /\ row.event = outbox[w][n].event /\ row.epoch = outbox[w][n].epoch
    BY <1>2 DEF Rows
  <2>2. outbox' = [outbox EXCEPT ![w][n] = row]
    BY <1>3 DEF Ack
  <2>. HIDE DEF row
  <2>3. /\ SameRows
        /\ \A u \in Workspaces : \A m \in 1..Len(outbox[u]) :
             <<u, m>> # <<w, n>> => outbox'[u][m] = outbox[u][m]
    BY <1>1, <2>1, <2>2, OneRow
  <2>4. \A u \in Workspaces : Len(outbox'[u]) = Len(outbox[u])
    BY <2>3, SameRowsKept
  <2>. QED  BY <1>1, <2>3, <2>4
<1>4. CASE ~(RowOf(current[d]).token = d /\ RowOf(current[d]).status = "pending")
  <2>1. outbox' = Released(d, {current[d]})
    BY <1>4 DEF Ack, FailItem
  <2>2. SameRows /\ NoneSettled
    BY <2>1, ReleasedRows
  <2>. QED  BY <2>2 DEF NoneSettled
<1>. QED  BY <1>3, <1>4

LEMMA DrainerRows ==
  ASSUME TypeOK, InHand, NEW d \in Drainers, DrainerStep(d)
  PROVE  SameRows /\ (NoneSettled \/ Ack(d))
<1>1. CASE Claim(d)
  BY <1>1, ClaimRows
<1>2. CASE Check(d)
  <2>1. outbox' = outbox \/ \E items : outbox' = Released(d, items)
    BY <1>2 DEF Check, FailItem
  <2>. QED  BY <2>1, StillRows, ReleasedRows
<1>3. CASE Ack(d)
  BY <1>3, AckRows
<1>4. CASE Fail(d)
  <2>1. outbox' = Released(d, {current[d]})
    BY <1>4 DEF Fail, FailItem
  <2>. QED  BY <2>1, ReleasedRows
<1>5. CASE Finish(d)
  <2>1. outbox' = Released(d, todo[d])
    BY <1>5 DEF Finish
  <2>. QED  BY <2>1, ReleasedRows
<1>6. CASE Apply(d) \/ Crash(d)
  <2>1. UNCHANGED outbox
    BY <1>6 DEF Apply, Crash, region
  <2>. QED  BY <2>1, StillRows
<1>. QED  BY <1>1, <1>2, <1>3, <1>4, <1>5, <1>6 DEF DrainerStep

LEMMA RowStepRows ==
  ASSUME TypeOK, NEW w \in Workspaces, NEW n \in DOMAIN outbox[w], RowStep(w, n)
  PROVE  SameRows /\ NoneSettled
<1>1. outbox[w][n] \in Rows /\ n \in 1..Len(outbox[w])
  BY OutboxType
<1>2. PICK row \in Rows :
        /\ row.event = outbox[w][n].event /\ row.epoch = outbox[w][n].epoch
        /\ row.status # "pending" => outbox[w][n].status # "pending"
        /\ outbox' = [outbox EXCEPT ![w][n] = row]
  <2>1. CASE LapseClaim(w, n) \/ OverrunLease(w, n)
    <3>1. outbox' = [outbox EXCEPT ![w][n] = [outbox[w][n] EXCEPT !.live = FALSE]]
      BY <2>1 DEF LapseClaim, OverrunLease, TypeOK
    <3>2. [outbox[w][n] EXCEPT !.live = FALSE] \in Rows
      BY <1>1 DEF Rows
    <3>. QED  BY <1>1, <3>1, <3>2 DEF Rows
  <2>2. CASE RetireRow(w, n)
    <3>1. outbox' = [outbox EXCEPT ![w][n] = [outbox[w][n] EXCEPT !.status = "retired"]]
      BY <2>2 DEF RetireRow, TypeOK
    <3>2. [outbox[w][n] EXCEPT !.status = "retired"] \in Rows
      BY <1>1 DEF Rows
    <3>. QED  BY <1>1, <2>2, <3>1, <3>2 DEF Rows, RetireRow
  <2>. QED  BY <2>1, <2>2 DEF RowStep
<1>3. /\ SameRows
      /\ \A u \in Workspaces : \A m \in 1..Len(outbox[u]) :
           <<u, m>> # <<w, n>> => outbox'[u][m] = outbox[u][m]
      /\ outbox'[w][n] = row
  BY <1>1, <1>2, OneRow
<1>4. \A u \in Workspaces : Len(outbox'[u]) = Len(outbox[u])
  BY <1>3, SameRowsKept
<1>. QED  BY <1>1, <1>2, <1>3, <1>4 DEF NoneSettled

-----------------------------------------------------------------------------
(***************************************************************************)
(* The directory's statements keep its rows well formed.                   *)
(***************************************************************************)
LEMMA DirectoryTypes ==
  ASSUME NEW entry \in Entries, NEW v \in 0..MaxVersion,
         NEW cur \in 0..MaxVersion, NEW n \in Nat
  PROVE  /\ Published(entry, v, cur, n) \in Entries
         /\ Unpublished(entry, v, n) \in Entries
<1>1. /\ entry.rows \in [Versions -> [seq : Nat, state : RowStates]]
      /\ entry.withdrawn \in [Versions -> Nat]
      /\ \A u \in Versions : /\ entry.rows[u] \in [seq : Nat, state : RowStates]
                             /\ entry.withdrawn[u] \in Nat
  BY DEF Entries
<1>2. /\ [seq |-> n, state |-> "published"] \in [seq : Nat, state : RowStates]
      /\ [seq |-> n, state |-> "unpublished"] \in [seq : Nat, state : RowStates]
  BY DEF RowStates
<1>3. Published(entry, v, cur, n) \in Entries
  <2> DEFINE rows == [entry.rows EXCEPT
                        ![v] = IF @.seq <= n THEN [seq |-> n, state |-> "published"]
                                             ELSE @]
  <2>1. rows \in [Versions -> [seq : Nat, state : RowStates]]
    BY <1>1, <1>2
  <2>2. Published(entry, v, cur, n) =
          IF AcceptsHead(entry, n)
            THEN [entry EXCEPT !.seq = n, !.state = "published", !.current = cur,
                               !.rows = rows]
            ELSE entry
    BY DEF Published, Entries
  <2>. HIDE DEF rows
  <2>. QED  BY <2>1, <2>2 DEF Entries, RowStates
<1>4. Unpublished(entry, v, n) \in Entries
  <2> DEFINE rows == [u \in Versions |->
                        IF /\ entry.rows[u].state = "published"
                           /\ entry.rows[u].seq <= n
                          THEN [seq |-> n, state |-> "unpublished"]
                          ELSE entry.rows[u]]
             withdrawn == [u \in Versions |->
                             IF /\ entry.rows[u].state # "absent"
                                /\ entry.withdrawn[u] < n
                               THEN n ELSE entry.withdrawn[u]]
  <2>1. rows \in [Versions -> [seq : Nat, state : RowStates]]
    BY <1>1, <1>2
  <2>2. withdrawn \in [Versions -> Nat]
    BY <1>1
  <2>3. Unpublished(entry, v, n) =
          IF AcceptsHead(entry, n)
            THEN [seq |-> n, state |-> "unpublished", current |-> v,
                  rows |-> rows, withdrawn |-> withdrawn]
            ELSE entry
    BY DEF Unpublished
  <2>. HIDE DEF rows, withdrawn
  <2>. QED  BY <2>1, <2>2, <2>3 DEF Entries, RowStates
<1>. QED  BY <1>3, <1>4

LEMMA CountedType ==
  ASSUME NEW c \in Counters, NEW e \in Nat, NEW n \in Nat, NEW d \in {-1, 0, 1}
  PROVE  Counted(c, e, n, d) \in Counters
<1> DEFINE cp == IF Covers(c.checkpoint, e, n) THEN c.checkpoint
                 ELSE [epoch |-> e, seq |-> n]
           tot == IF Covers(c.checkpoint, e, n) THEN c.total ELSE c.total + d
<1>1. /\ c.checkpoint \in [epoch : Nat, seq : Nat]
      /\ c.total \in Int /\ c.claimed \in SUBSET Nat
  BY DEF Counters
<1>2. cp \in [epoch : Nat, seq : Nat] /\ tot \in Int
  BY <1>1
<1>3. Counted(c, e, n, d) =
        IF n \in c.claimed THEN c
        ELSE [c EXCEPT !.claimed = c.claimed \cup {n}, !.checkpoint = cp, !.total = tot]
  BY DEF Counted, Covers, Counters
<1>4. (c.claimed \cup {n}) \in SUBSET Nat
  BY <1>1
<1>. HIDE DEF cp, tot
<1>5. [c EXCEPT !.claimed = c.claimed \cup {n}, !.checkpoint = cp, !.total = tot]
        \in Counters
  BY <1>1, <1>2, <1>4 DEF Counters
<1>. QED  BY <1>3, <1>5

\* Executing an event keeps the control plane well formed.
LEMMA ProjectTypes ==
  ASSUME TypeOK, NEW w \in Workspaces, NEW n \in 1..Len(outbox[w]), Project(w, n)
  PROVE  /\ directory' \in [Workspaces -> [Skills -> Entries]]
         /\ counter' \in [Workspaces -> Counters]
         /\ routes' \in SUBSET (Workspaces \X Skills)
<1> DEFINE row == outbox[w][n]
           ev == row.event
<1>1. /\ row.epoch \in Nat /\ n \in Nat
      /\ ev \in Events /\ ev.skill \in Skills /\ ev.version \in 0..MaxVersion
      /\ ev.current \in 0..MaxVersion /\ ev.delta \in {-1, 0, 1}
      /\ ev.kind \in {"published", "unpublished", "count", "route"}
  BY OutboxType DEF Rows, Events
<1>2. /\ directory \in [Workspaces -> [Skills -> Entries]]
      /\ counter \in [Workspaces -> Counters]
      /\ routes \in SUBSET (Workspaces \X Skills)
  BY DEF TypeOK
<1>3. CASE ev.kind = "published"
  <2>1. /\ directory' = [directory EXCEPT ![w][ev.skill] =
                           Published(@, ev.version, ev.current, n)]
        /\ UNCHANGED <<counter, routes>>
    BY <1>3 DEF Project
  <2>2. Published(directory[w][ev.skill], ev.version, ev.current, n) \in Entries
    BY <1>1, <1>2, DirectoryTypes
  <2>. QED  BY <1>1, <1>2, <2>1, <2>2
<1>4. CASE ev.kind = "unpublished"
  <2>1. /\ directory' = [directory EXCEPT ![w][ev.skill] =
                           Unpublished(@, ev.version, n)]
        /\ UNCHANGED <<counter, routes>>
    BY <1>4 DEF Project
  <2>2. Unpublished(directory[w][ev.skill], ev.version, n) \in Entries
    BY <1>1, <1>2, DirectoryTypes
  <2>. QED  BY <1>1, <1>2, <2>1, <2>2
<1>5. CASE ev.kind = "count"
  <2>1. /\ counter' = [counter EXCEPT ![w] = Counted(@, row.epoch, n, ev.delta)]
        /\ UNCHANGED <<directory, routes>>
    BY <1>5 DEF Project
  <2>2. Counted(counter[w], row.epoch, n, ev.delta) \in Counters
    BY <1>1, <1>2, CountedType
  <2>. QED  BY <1>2, <2>1, <2>2
<1>6. CASE ev.kind = "route"
  <2>1. routes' = routes \cup {<<w, ev.skill>>} /\ UNCHANGED <<directory, counter>>
    BY <1>6 DEF Project
  <2>. QED  BY <1>1, <1>2, <2>1
<1>. QED  BY <1>1, <1>3, <1>4, <1>5, <1>6

-----------------------------------------------------------------------------
(***************************************************************************)
(* Type correctness, with the two facts it rests on: sequences are dense,  *)
(* and a drainer works on rows of the outbox only.                         *)
(***************************************************************************)
TypeInv == TypeOK /\ Dense /\ InHand

LEMMA TypeInit == Init => TypeInv
<1> SUFFICES ASSUME Init PROVE TypeInv
  OBVIOUS
<1>1. NoEntry \in Entries /\ NoCounter \in Counters
  BY MaxVersionAssumption DEF NoEntry, Entries, NoCounter, Counters, RowStates, Versions
<1>2. <<>> \in Seq(Rows) /\ Len(<<>>) = 0
  BY EmptySeq
<1>3. TypeOK
  BY <1>1, <1>2, MaxVersionAssumption, ConstantsAssumption
  DEF Init, TypeOK, SkillStates, Placements
<1>4. Dense
  BY <1>2 DEF Init, Dense
<1>5. InHand
  BY DEF Init, InHand
<1>. QED  BY <1>3, <1>4, <1>5 DEF TypeInv

\* What a drainer has in its hands stays a row when rows are only added.
LEMMA InHandKept ==
  ASSUME TypeOK, InHand, RowsKept, outbox' \in [Workspaces -> Seq(Rows)],
         \A d \in Drainers :
           /\ pc'[d] \in {"apply", "ack"} =>
                \/ pc[d] \in {"apply", "ack"} /\ current'[d] = current[d]
                \/ current'[d] \in todo[d]
           /\ todo'[d] \subseteq todo[d]
  PROVE  InHand'
<1> SUFFICES ASSUME NEW d \in Drainers
             PROVE  /\ pc'[d] \in {"apply", "ack"} =>
                         /\ current'[d] \in Items
                         /\ current'[d][2] \in 1..Len(outbox'[current'[d][1]])
                    /\ \A item \in todo'[d] : item[2] \in 1..Len(outbox'[item[1]])
  BY DEF InHand
<1>1. ASSUME NEW item \in Items, item[2] \in 1..Len(outbox[item[1]])
      PROVE  item[2] \in 1..Len(outbox'[item[1]])
  <2>1. item[1] \in Workspaces /\ item[2] \in Nat
    BY DEF Items
  <2>2. Len(outbox[item[1]]) <= Len(outbox'[item[1]])
    BY <2>1 DEF RowsKept
  <2>3. Len(outbox'[item[1]]) \in Nat
    BY <2>1, LenProperties
  <2>. QED  BY <1>1, <2>1, <2>2, <2>3, OutboxType
<1>2. todo[d] \subseteq Items
  BY DEF TypeOK
<1>3. \A item \in todo[d] : item[2] \in 1..Len(outbox[item[1]])
  BY DEF InHand
<1>. QED  BY <1>1, <1>2, <1>3 DEF InHand

LEMMA EligibleRows ==
  ASSUME TypeOK, NEW r, NEW skip
  PROVE  /\ Eligible(r, skip) \in SUBSET Items
         /\ \A item \in Eligible(r, skip) : item[2] \in 1..Len(outbox[item[1]])
<1> SUFFICES ASSUME NEW item \in Eligible(r, skip)
             PROVE  item \in Items /\ item[2] \in 1..Len(outbox[item[1]])
  OBVIOUS
<1>1. PICK w \in Workspaces : item \in {w} \X Claimable(w)
  BY DEF Eligible
<1>2. item[1] = w /\ item[2] \in Claimable(w) /\ item = <<w, item[2]>>
  BY <1>1
<1>3. item[2] \in 1..Len(outbox[w])
  BY <1>2, OutboxType DEF Claimable, Pending
<1>4. item[2] \in Nat
  BY <1>3, OutboxType
<1>. QED  BY <1>2, <1>3, <1>4 DEF Items

DrainType ==
  /\ pc \in [Drainers -> {"idle", "run", "apply", "ack"}]
  /\ todo \in [Drainers -> SUBSET Items]
  /\ current \in [Drainers -> Items \cup {<<>>}]
  /\ blocked \in [Drainers -> SUBSET Workspaces]
  /\ cell \in [Drainers -> Regions]

\* Drainers.
LEMMA DrainerTypes ==
  ASSUME TypeInv, NEW d \in Drainers, DrainerStep(d)
  PROVE  TypeInv'
<1>. USE DEF TypeInv
<1>1. SameRows
  BY DrainerRows
<1>2. /\ outbox' \in [Workspaces -> Seq(Rows)] /\ RowsKept
      /\ \A w \in Workspaces : Len(outbox'[w]) = Len(outbox[w])
  BY <1>1, SameRowsKept
<1>3. UNCHANGED <<skill, lastSequence, moving>>
  BY DEF DrainerStep, Claim, Check, Apply, Ack, Fail, Finish, Crash, region
<1>4. Dense'
  BY <1>2, <1>3 DEF Dense
<1>5. ASSUME NEW item \in Items
      PROVE  item[1] \in Workspaces
  BY DEF Items
<1>6. TypeOK'
  <2>1. CASE Claim(d)
    <3>1. PICK r \in Regions :
            /\ todo' = [todo EXCEPT ![d] =
                          Eligible(r, IF pc[d] = "idle" THEN {} ELSE blocked[d])]
            /\ pc' = [pc EXCEPT ![d] = "run"]
            /\ blocked' = [blocked EXCEPT ![d] = IF pc[d] = "idle" THEN {} ELSE blocked[d]]
            /\ cell' = [cell EXCEPT ![d] = r]
            /\ UNCHANGED <<current, control, faults>>
      BY <2>1, Zenon DEF Claim
    <3>2. Eligible(r, IF pc[d] = "idle" THEN {} ELSE blocked[d]) \in SUBSET Items
      BY EligibleRows
    <3>3. (IF pc[d] = "idle" THEN {} ELSE blocked[d]) \in SUBSET Workspaces
      BY DEF TypeOK
    <3>4. DrainType'
      BY <3>1, <3>2, <3>3 DEF TypeOK, DrainType
    <3>. QED  BY <1>2, <1>3, <3>1, <3>4 DEF TypeOK, DrainType, control, moving
  <2>2. CASE Check(d)
    <3>1. todo[d] \in SUBSET Items
      BY DEF TypeOK
    <3>2. PICK item \in todo[d] :
            /\ todo' = [todo EXCEPT ![d] = @ \ {item}]
            /\ \/ /\ pc' = [pc EXCEPT ![d] = "apply"]
                  /\ current' = [current EXCEPT ![d] = item]
                  /\ UNCHANGED blocked
               \/ FailItem(d, item)
      BY <2>2 DEF Check
    <3>3. UNCHANGED <<cell, control, faults>>
      BY <2>2 DEF Check
    <3>4. item[1] \in Workspaces /\ item \in Items
      BY <1>5, <3>1
    <3>5. DrainType'
      <4>. USE DEF TypeOK, DrainType
      <4>1. todo' \in [Drainers -> SUBSET Items] /\ cell' \in [Drainers -> Regions]
        BY <3>2, <3>3
      <4>2. CASE FailItem(d, item)
        BY <3>4, <4>1, <4>2 DEF FailItem
      <4>3. CASE ~FailItem(d, item)
        <5>1. /\ pc' = [pc EXCEPT ![d] = "apply"]
              /\ current' = [current EXCEPT ![d] = item]
              /\ UNCHANGED blocked
          BY <3>2, <4>3
        <5>2. current' \in [Drainers -> Items \cup {<<>>}]
          BY <3>4, <5>1
        <5>. QED  BY <4>1, <5>1, <5>2
      <4>. QED  BY <4>2, <4>3
    <3>. QED  BY <1>2, <1>3, <3>3, <3>5 DEF TypeOK, DrainType, control, moving
  <2>3. CASE Apply(d)
    <3>1. current[d][1] \in Workspaces /\ current[d][2] \in 1..Len(outbox[current[d][1]])
      BY <1>5, <2>3 DEF Apply, InHand
    <3>2. /\ directory' \in [Workspaces -> [Skills -> Entries]]
          /\ counter' \in [Workspaces -> Counters]
          /\ routes' \in SUBSET (Workspaces \X Skills)
      BY <2>3, <3>1, ProjectTypes DEF Apply
    <3>. QED  BY <1>2, <1>3, <2>3, <3>2 DEF TypeOK, Apply, moving
  <2>4. CASE Ack(d)
    <3>1. current[d][1] \in Workspaces
      BY <1>5, <2>4 DEF Ack, InHand
    <3>2. \/ /\ pc' = [pc EXCEPT ![d] = "run"]
             /\ current' = [current EXCEPT ![d] = <<>>]
             /\ UNCHANGED blocked
          \/ FailItem(d, current[d])
      BY <2>4 DEF Ack
    <3>3. UNCHANGED <<todo, cell, control, faults>>
      BY <2>4 DEF Ack
    <3>4. DrainType'
      <4>. USE DEF TypeOK, DrainType
      <4>1. CASE FailItem(d, current[d])
        BY <3>1, <3>3, <4>1 DEF FailItem
      <4>2. CASE ~FailItem(d, current[d])
        BY <3>2, <3>3, <4>2
      <4>. QED  BY <4>1, <4>2
    <3>. QED  BY <1>2, <1>3, <3>3, <3>4 DEF TypeOK, DrainType, control, moving
  <2>5. CASE Fail(d)
    <3>1. current[d][1] \in Workspaces
      BY <1>5, <2>5 DEF Fail, InHand
    <3>2. DrainType'
      BY <2>5, <3>1 DEF TypeOK, Fail, FailItem, DrainType
    <3>. QED  BY <1>2, <1>3, <2>5, <3>2 DEF TypeOK, Fail, DrainType, control, moving
  <2>6. CASE Finish(d)
    BY <1>2, <1>3, <2>6 DEF TypeOK, Finish, control, moving
  <2>7. CASE Crash(d)
    BY <1>2, <1>3, <2>7 DEF TypeOK, Crash, control, moving
  <2>. QED  BY <2>1, <2>2, <2>3, <2>4, <2>5, <2>6, <2>7 DEF DrainerStep
<1>7. InHand'
  <2>1. CASE Claim(d)
    <3>1. PICK r \in Regions :
            /\ todo' = [todo EXCEPT ![d] =
                          Eligible(r, IF pc[d] = "idle" THEN {} ELSE blocked[d])]
            /\ pc' = [pc EXCEPT ![d] = "run"]
            /\ UNCHANGED current
      BY <2>1, Zenon DEF Claim
    <3> DEFINE rows == Eligible(r, IF pc[d] = "idle" THEN {} ELSE blocked[d])
    <3>2. rows \in SUBSET Items /\ \A item \in rows : item[2] \in 1..Len(outbox[item[1]])
      BY EligibleRows
    <3>. HIDE DEF rows
    <3>3. \A e \in Drainers : /\ todo'[e] = IF e = d THEN rows ELSE todo[e]
                              /\ pc'[e] = IF e = d THEN "run" ELSE pc[e]
      BY <3>1 DEF TypeOK, rows
    <3>4. \A e \in Drainers : todo[e] \subseteq Items
      BY DEF TypeOK
    <3>5. \A item \in Items : Len(outbox'[item[1]]) = Len(outbox[item[1]])
      BY <1>2, <1>5
    <3>6. ASSUME NEW e \in Drainers
          PROVE  \A item \in todo'[e] : item[2] \in 1..Len(outbox'[item[1]])
      BY <3>2, <3>3, <3>4, <3>5 DEF InHand
    <3>7. ASSUME NEW e \in Drainers, pc'[e] \in {"apply", "ack"}
          PROVE  /\ current'[e] \in Items
                 /\ current'[e][2] \in 1..Len(outbox'[current'[e][1]])
      <4>1. current'[e] = current[e] /\ pc[e] \in {"apply", "ack"}
        BY <3>1, <3>3, <3>7
      <4>. QED  BY <3>5, <4>1 DEF InHand
    <3>. QED  BY <3>6, <3>7 DEF InHand
  <2>2. CASE ~Claim(d)
    <3> DEFINE Kept == \A e \in Drainers :
                 /\ pc'[e] \in {"apply", "ack"} =>
                      \/ pc[e] \in {"apply", "ack"} /\ current'[e] = current[e]
                      \/ current'[e] \in todo[e]
                 /\ todo'[e] \subseteq todo[e]
    <3>1. Kept
      <4>1. CASE Check(d)
        <5>1. PICK item \in todo[d] :
                /\ todo' = [todo EXCEPT ![d] = @ \ {item}]
                /\ \/ /\ pc' = [pc EXCEPT ![d] = "apply"]
                      /\ current' = [current EXCEPT ![d] = item]
                   \/ /\ pc' = [pc EXCEPT ![d] = "run"]
                      /\ current' = [current EXCEPT ![d] = <<>>]
          BY <4>1 DEF Check, FailItem
        <5>. QED  BY <5>1 DEF TypeOK
      <4>2. CASE Apply(d)
        BY <4>2 DEF TypeOK, Apply
      <4>3. CASE Ack(d) \/ Fail(d)
        <5>1. /\ pc' = [pc EXCEPT ![d] = "run"]
              /\ current' = [current EXCEPT ![d] = <<>>]
              /\ UNCHANGED todo
          BY <4>3 DEF Ack, Fail, FailItem
        <5>. QED  BY <5>1 DEF TypeOK
      <4>4. CASE Finish(d) \/ Crash(d)
        <5>1. pc' = [pc EXCEPT ![d] = "idle"] /\ todo' = [todo EXCEPT ![d] = {}]
          BY <4>4 DEF Finish, Crash
        <5>2. UNCHANGED current \/ current' = [current EXCEPT ![d] = <<>>]
          BY <4>4 DEF Finish, Crash
        <5>. QED  BY <5>1, <5>2 DEF TypeOK
      <4>. QED  BY <2>2, <4>1, <4>2, <4>3, <4>4 DEF DrainerStep
    <3>. HIDE DEF Kept
    <3>. QED  BY <1>2, <3>1, InHandKept DEF Kept
  <2>. QED  BY <2>1, <2>2
<1>. QED  BY <1>4, <1>6, <1>7

\* Steps that leave the drainers alone keep what they have in hand.
LEMMA OthersKeepInHand ==
  ASSUME TypeOK, InHand, RowsKept, outbox' \in [Workspaces -> Seq(Rows)],
         UNCHANGED drain
  PROVE  InHand'
<1>1. UNCHANGED <<pc, todo, current>>
  BY DEF drain
<1>2. \A d \in Drainers :
        /\ pc'[d] \in {"apply", "ack"} =>
             \/ pc[d] \in {"apply", "ack"} /\ current'[d] = current[d]
             \/ current'[d] \in todo[d]
        /\ todo'[d] \subseteq todo[d]
  BY <1>1
<1>. QED  BY <1>2, InHandKept

LEMMA RegionalTypes ==
  ASSUME TypeInv, NEW w \in Workspaces, NEW s \in Skills, RegionalStep(w, s)
  PROVE  TypeInv'
<1>. USE DEF TypeInv
<1>1. PICK sk \in SkillStates, evs \in Seq(Events) : Commit(w, s, sk, evs)
  BY RegionalCommits
<1>2. /\ skill' \in [Workspaces -> [Skills -> SkillStates]]
      /\ outbox' \in [Workspaces -> Seq(Rows)]
      /\ lastSequence' \in [Workspaces -> Nat]
      /\ Dense' /\ RowsKept
      /\ UNCHANGED <<drain, control, moving, faults>>
  BY <1>1, CommitAppends
<1>3. TypeOK'
  BY <1>2 DEF TypeOK, drain, control, moving
<1>4. InHand'
  BY <1>2, OthersKeepInHand
<1>. QED  BY <1>2, <1>3, <1>4

LEMMA RowStepTypes ==
  ASSUME TypeInv, NEW w \in Workspaces, NEW n \in DOMAIN outbox[w], RowStep(w, n)
  PROVE  TypeInv'
<1>. USE DEF TypeInv
<1>1. SameRows
  BY RowStepRows
<1>2. /\ outbox' \in [Workspaces -> Seq(Rows)] /\ RowsKept
      /\ \A u \in Workspaces : Len(outbox'[u]) = Len(outbox[u])
  BY <1>1, SameRowsKept
<1>3. UNCHANGED <<skill, lastSequence, drain, control, moving>> /\ faults' \in Nat
  BY DEF RowStep, LapseClaim, OverrunLease, RetireRow, TypeOK
<1>4. TypeOK' /\ Dense'
  BY <1>2, <1>3 DEF TypeOK, Dense, drain, control, moving
<1>5. InHand'
  BY <1>2, <1>3, OthersKeepInHand
<1>. QED  BY <1>4, <1>5

LEMMA RetireCountTypes ==
  ASSUME TypeInv, NEW w \in Workspaces, RetireCount(w)
  PROVE  TypeInv'
<1>. USE DEF TypeInv
<1>1. PICK n \in counter[w].claimed :
        /\ counter' = [counter EXCEPT ![w].claimed = @ \ {n}]
        /\ UNCHANGED <<region, drain, directory, routes, moving, faults>>
  BY DEF RetireCount
<1>2. counter' \in [Workspaces -> Counters]
  <2>1. counter[w] \in Counters
    BY DEF TypeOK
  <2>2. [counter[w] EXCEPT !.claimed = @ \ {n}] \in Counters
    BY <2>1 DEF Counters
  <2>. QED  BY <1>1, <2>2 DEF TypeOK
<1>3. TypeOK' /\ Dense' /\ InHand'
  BY <1>1, <1>2 DEF TypeOK, Dense, InHand, region, drain, moving
<1>. QED  BY <1>3

LEMMA MoveTypes ==
  ASSUME TypeInv, NEW w \in Workspaces, MoveStep(w)
  PROVE  TypeInv'
<1>. USE DEF TypeInv
<1>1. UNCHANGED <<region, drain, control, faults>>
  BY DEF MoveStep, PrepareSource, BeginMove, QuiesceSource, DrainOutboxes,
         ResumeTarget, RollbackSource, Activate
<1>2. Dense' /\ InHand'
  BY <1>1 DEF Dense, InHand, region, drain
<1> DEFINE MoveStates ==
             {"none", "prepared", "cas", "quiesced", "drained", "resumed", "restored"}
           Fences == [raised : BOOLEAN, active : Nat]
           Routes == [region : Regions, epoch : Nat]
           p == placement[w]
<1>3. /\ placement \in [Workspaces -> Placements]
      /\ move \in [Workspaces -> MoveStates]
      /\ fence \in [Workspaces -> [Regions -> Fences]]
      /\ routed \in [Workspaces -> SUBSET Routes]
  BY DEF TypeOK
<1>7. /\ p \in Placements /\ p.epoch \in Nat
      /\ p.target \in Regions /\ p.region \in Regions
  BY <1>3 DEF Placements
<1>8. ASSUME NEW e \in Nat, NEW r \in Regions
      PROVE  /\ [p EXCEPT !.state = "moving", !.epoch = e, !.target = r,
                            !.sourceEpoch = p.epoch] \in Placements
             /\ [p EXCEPT !.state = "active", !.region = r, !.epoch = e] \in Placements
             /\ [region |-> r, epoch |-> e] \in Routes
  BY <1>7 DEF Placements
<1>9. p.epoch + 1 \in Nat
  BY <1>7
<1>4. ASSUME NEW r \in Regions
      PROVE  Lowered(w, r, p.epoch + 1) \in [Workspaces -> [Regions -> Fences]]
  <2>1. fence[w][r].active \in Nat
    BY <1>3
  <2>2. Larger(fence[w][r].active, p.epoch + 1) \in Nat
    BY <1>9, <2>1 DEF Larger
  <2>. QED  BY <1>3, <2>2 DEF Lowered
<1>5. /\ placement' \in [Workspaces -> Placements]
      /\ move' \in [Workspaces -> MoveStates]
      /\ fence' \in [Workspaces -> [Regions -> Fences]]
      /\ routed' \in [Workspaces -> SUBSET Routes]
  <2>1. CASE PrepareSource(w) \/ DrainOutboxes(w)
    BY <1>3, <2>1 DEF PrepareSource, DrainOutboxes
  <2>2. CASE BeginMove(w)
    <3>1. PICK target \in Regions :
            placement' = [placement EXCEPT ![w] =
              [p EXCEPT !.state = "moving", !.epoch = p.epoch + 1, !.target = target,
                        !.sourceEpoch = p.epoch]]
      BY <2>2, Zenon DEF BeginMove
    <3>2. placement' \in [Workspaces -> Placements]
      BY <1>3, <1>8, <1>9, <3>1
    <3>. QED  BY <1>3, <2>2, <3>2 DEF BeginMove
  <2>3. CASE QuiesceSource(w)
    <3>1. /\ fence' = [fence EXCEPT ![w][p.region].raised = TRUE]
          /\ move' = [move EXCEPT ![w] = "quiesced"]
          /\ UNCHANGED <<placement, routed>>
      BY <2>3 DEF QuiesceSource
    <3>2. [fence[w][p.region] EXCEPT !.raised = TRUE] \in Fences
      <4>1. \A f \in Fences : [f EXCEPT !.raised = TRUE] \in Fences
        OBVIOUS
      <4>. QED  BY <1>3, <1>7, <4>1
    <3>3. fence' \in [Workspaces -> [Regions -> Fences]]
      BY <1>3, <1>7, <3>1, <3>2
    <3>. QED  BY <1>3, <3>1, <3>3
  <2>4. CASE ResumeTarget(w)
    <3>1. /\ fence' = Lowered(w, p.target, p.epoch + 1)
          /\ move' = [move EXCEPT ![w] = "resumed"]
          /\ UNCHANGED <<placement, routed>>
      BY <2>4 DEF ResumeTarget
    <3>. QED  BY <1>3, <1>7, <1>4, <3>1
  <2>5. CASE RollbackSource(w)
    <3>1. /\ fence' = Lowered(w, p.region, p.epoch + 1)
          /\ move' = [move EXCEPT ![w] = "restored"]
          /\ UNCHANGED <<placement, routed>>
      BY <2>5 DEF RollbackSource
    <3>. QED  BY <1>3, <1>7, <1>4, <3>1
  <2>6. CASE Activate(w)
    <3>1. PICK r \in Regions :
            /\ placement' = [placement EXCEPT ![w] =
                 [p EXCEPT !.state = "active", !.region = r, !.epoch = p.epoch + 1]]
            /\ routed' = [routed EXCEPT ![w] =
                 @ \cup {[region |-> r, epoch |-> p.epoch + 1]}]
            /\ move' = [move EXCEPT ![w] = "none"]
            /\ UNCHANGED fence
      <4>1. (IF move[w] = "resumed" THEN p.target ELSE p.region) \in Regions
        BY <1>7
      <4>. QED  BY <1>3, <2>6, <4>1 DEF Activate
    <3>2. placement' \in [Workspaces -> Placements]
      BY <1>3, <1>8, <1>9, <3>1
    <3>3. routed' \in [Workspaces -> SUBSET Routes]
      BY <1>3, <1>8, <1>9, <3>1
    <3>. QED  BY <1>3, <3>1, <3>2, <3>3
  <2>. QED  BY <2>1, <2>2, <2>3, <2>4, <2>5, <2>6 DEF MoveStep
<1>6. TypeOK'
  BY <1>1, <1>5 DEF TypeOK, region, drain, control
<1>. QED  BY <1>2, <1>6

LEMMA TypeNext == TypeInv /\ [Next]_vars => TypeInv'
<1> SUFFICES ASSUME TypeInv, [Next]_vars PROVE TypeInv'
  OBVIOUS
<1>1. ASSUME NEW w \in Workspaces, NEW s \in Skills, RegionalStep(w, s) PROVE TypeInv'
  BY <1>1, RegionalTypes
<1>2. ASSUME NEW d \in Drainers, DrainerStep(d) PROVE TypeInv'
  BY <1>2, DrainerTypes
<1>3. ASSUME NEW w \in Workspaces, NEW n \in DOMAIN outbox[w], RowStep(w, n) PROVE TypeInv'
  BY <1>3, RowStepTypes
<1>4. ASSUME NEW w \in Workspaces, RetireCount(w) PROVE TypeInv'
  BY <1>4, RetireCountTypes
<1>5. ASSUME NEW w \in Workspaces, MoveStep(w) PROVE TypeInv'
  BY <1>5, MoveTypes
<1>6. CASE UNCHANGED vars
  BY <1>6 DEF TypeInv, TypeOK, Dense, InHand, vars, region, drain, control, moving
<1>. QED  BY <1>1, <1>2, <1>3, <1>4, <1>5, <1>6 DEF Next

\* Type correctness: transactions, drainers, retention and moves keep rows, claims,
\* the directory, placements and fences in the types the code gives them.
THEOREM TypeCorrect == Spec => []TypeOK
<1>1. TypeInv => TypeOK
  BY DEF TypeInv
<1>. QED  BY <1>1, TypeInit, TypeNext, PTL DEF Spec

-----------------------------------------------------------------------------
(***************************************************************************)
(* No event is acknowledged before its effect.  The induction also needs   *)
(* that a drainer about to acknowledge has caused the effect, and that the *)
(* event ids the counter remembers are below its checkpoint.               *)
(***************************************************************************)
AppliedInHand ==
  \A d \in Drainers : pc[d] = "ack" => Effected(current[d][1], current[d][2])

Remembered ==
  \A w \in Workspaces : \A n \in counter[w].claimed :
    /\ n \in 1..Len(outbox[w])
    /\ Covers(counter[w].checkpoint, outbox[w][n].epoch, n)

DeliveryInv == TypeInv /\ AppliedInHand /\ Remembered /\ AckedMeansApplied

\* The control plane never goes back.
ControlGrows ==
  /\ \A w \in Workspaces, s \in Skills : directory[w][s].seq <= directory'[w][s].seq
  /\ \A w \in Workspaces : \A e \in Nat, n \in Nat :
       Covers(counter[w].checkpoint, e, n) => Covers(counter'[w].checkpoint, e, n)
  /\ routes \subseteq routes'

LEMMA EffectedKept ==
  ASSUME TypeOK, TypeOK', RowsKept, ControlGrows,
         NEW w \in Workspaces, NEW n \in 1..Len(outbox[w]), Effected(w, n)
  PROVE  Effected(w, n)'
<1> DEFINE ev == outbox[w][n].event
           e == outbox[w][n].epoch
<1>1. /\ outbox'[w][n].event = ev /\ outbox'[w][n].epoch = e
  BY DEF RowsKept
<1>2. /\ ev \in Events /\ e \in Nat /\ n \in Nat
  BY OutboxType DEF Rows
<1>3. ev.skill \in Skills /\ ev.kind \in {"published", "unpublished", "count", "route"}
  BY <1>2 DEF Events
<1>4. directory[w][ev.skill].seq \in Nat /\ directory'[w][ev.skill].seq \in Nat
  BY <1>3 DEF TypeOK, Entries
<1>5. CASE ev.kind \in {"published", "unpublished"}
  <2>1. directory[w][ev.skill].seq >= n
    BY <1>5 DEF Effected
  <2>2. directory'[w][ev.skill].seq >= n
    BY <1>2, <1>3, <1>4, <2>1 DEF ControlGrows
  <2>. QED  BY <1>1, <1>5, <2>2 DEF Effected
<1>6. CASE ev.kind = "count"
  <2>1. Covers(counter[w].checkpoint, e, n)
    BY <1>6 DEF Effected
  <2>2. Covers(counter'[w].checkpoint, e, n)
    BY <1>2, <2>1 DEF ControlGrows
  <2>. QED  BY <1>1, <1>6, <2>2 DEF Effected
<1>7. CASE ev.kind = "route"
  BY <1>1, <1>7 DEF Effected, ControlGrows
<1>. QED  BY <1>3, <1>5, <1>6, <1>7

LEMMA StillGrows ==
  ASSUME UNCHANGED <<directory, routes>>, TypeOK,
         \A w \in Workspaces : counter'[w].checkpoint = counter[w].checkpoint
  PROVE  ControlGrows
<1>1. \A w \in Workspaces, s \in Skills : directory[w][s].seq \in Nat
  BY DEF TypeOK, Entries
<1>. QED  BY <1>1 DEF ControlGrows

\* Executing an event leaves its effect and takes none back.
LEMMA ProjectEffects ==
  ASSUME TypeOK, Remembered, NEW w \in Workspaces, NEW n \in 1..Len(outbox[w]),
         Project(w, n), UNCHANGED outbox
  PROVE  /\ ControlGrows /\ Effected(w, n)'
         /\ \A u \in Workspaces : \A m \in counter'[u].claimed :
              /\ m \in 1..Len(outbox[u])
              /\ Covers(counter'[u].checkpoint, outbox[u][m].epoch, m)
<1> DEFINE ev == outbox[w][n].event
           e == outbox[w][n].epoch
           entry == directory[w][ev.skill]
           c == counter[w]
<1>1. /\ ev \in Events /\ e \in Nat /\ n \in Nat
  BY OutboxType DEF Rows
<1>2. ev.skill \in Skills /\ ev.kind \in {"published", "unpublished", "count", "route"}
  BY <1>1 DEF Events
<1>3. /\ directory \in [Workspaces -> [Skills -> Entries]]
      /\ counter \in [Workspaces -> Counters]
  BY DEF TypeOK
<1>4. \A u \in Workspaces, s \in Skills : directory[u][s].seq \in Nat
  BY <1>3 DEF Entries
<1>5. CASE ev.kind \in {"published", "unpublished"}
  <2>1. PICK new :
          /\ directory' = [directory EXCEPT ![w][ev.skill] = new]
          /\ new \in {Published(entry, ev.version, ev.current, n),
                      Unpublished(entry, ev.version, n)}
          /\ UNCHANGED <<counter, routes>>
    BY <1>5 DEF Project
  <2>2. new.seq \in Nat /\ new.seq >= n /\ new.seq >= entry.seq
    <3>1. entry \in Entries /\ entry.seq \in Nat
      BY <1>2, <1>3, <1>4
    <3>2. Published(entry, ev.version, ev.current, n).seq
            = IF AcceptsHead(entry, n) THEN n ELSE entry.seq
      BY <3>1 DEF Published, Entries
    <3>3. Unpublished(entry, ev.version, n).seq
            = IF AcceptsHead(entry, n) THEN n ELSE entry.seq
      BY <3>1 DEF Unpublished
    <3>. QED  BY <1>1, <2>1, <3>1, <3>2, <3>3 DEF AcceptsHead
  <2>3. \A u \in Workspaces, s \in Skills :
          directory'[u][s] = IF u = w /\ s = ev.skill THEN new ELSE directory[u][s]
    BY <1>3, <2>1
  <2>4. ControlGrows
    BY <1>4, <2>1, <2>2, <2>3 DEF ControlGrows
  <2>5. Effected(w, n)'
    BY <1>2, <1>5, <2>2, <2>3 DEF Effected
  <2>. QED  BY <2>1, <2>4, <2>5 DEF Remembered
<1>6. CASE ev.kind = "count"
  <2>1. /\ counter' = [counter EXCEPT ![w] = Counted(c, e, n, ev.delta)]
        /\ UNCHANGED <<directory, routes>>
    BY <1>6 DEF Project
  <2>2. c.checkpoint.epoch \in Nat /\ c.checkpoint.seq \in Nat
    BY <1>3 DEF Counters
  <2> DEFINE new == Counted(c, e, n, ev.delta)
  <2>3. /\ Covers(new.checkpoint, e, n)
        /\ new.claimed \subseteq c.claimed \cup {n}
        /\ \A f \in Nat, m \in Nat : Covers(c.checkpoint, f, m) => Covers(new.checkpoint, f, m)
    <3>1. CASE n \in c.claimed
      BY <3>1 DEF Counted, Remembered
    <3>2. CASE n \notin c.claimed
      <4>1. /\ new.claimed = c.claimed \cup {n}
            /\ new.checkpoint = IF Covers(c.checkpoint, e, n) THEN c.checkpoint
                                ELSE [epoch |-> e, seq |-> n]
        BY <1>3, <3>2 DEF Counted, Counters
      <4>2. CASE Covers(c.checkpoint, e, n)
        BY <4>1, <4>2
      <4>3. CASE ~Covers(c.checkpoint, e, n)
        BY <1>1, <2>2, <4>1, <4>3 DEF Covers
      <4>. QED  BY <4>1, <4>2, <4>3
    <3>. QED  BY <3>1, <3>2
  <2>. HIDE DEF new
  <2>4. \A u \in Workspaces : counter'[u] = IF u = w THEN new ELSE counter[u]
    BY <1>3, <2>1 DEF new
  <2>5. ControlGrows
    BY <1>4, <2>1, <2>3, <2>4 DEF ControlGrows
  <2>6. Effected(w, n)'
    BY <1>6, <2>3, <2>4 DEF Effected
  <2>7. ASSUME NEW u \in Workspaces, NEW m \in counter'[u].claimed
        PROVE  /\ m \in 1..Len(outbox[u])
               /\ Covers(counter'[u].checkpoint, outbox[u][m].epoch, m)
    <3>1. CASE u # w
      BY <2>4, <2>7, <3>1 DEF Remembered
    <3>2. CASE u = w /\ m = n
      BY <2>3, <2>4, <3>2
    <3>3. CASE u = w /\ m # n
      <4>1. m \in c.claimed
        BY <2>3, <2>4, <2>7, <3>3
      <4>2. /\ m \in 1..Len(outbox[w])
            /\ Covers(c.checkpoint, outbox[w][m].epoch, m)
        BY <4>1 DEF Remembered
      <4>3. m \in Nat /\ outbox[w][m].epoch \in Nat
        BY <4>2, OutboxType DEF Rows
      <4>. QED  BY <2>3, <2>4, <3>3, <4>2, <4>3
    <3>. QED  BY <3>1, <3>2, <3>3
  <2>. QED  BY <2>5, <2>6, <2>7
<1>7. CASE ev.kind = "route"
  <2>1. routes' = routes \cup {<<w, ev.skill>>} /\ UNCHANGED <<directory, counter>>
    BY <1>7 DEF Project
  <2>2. ControlGrows
    BY <1>4, <2>1 DEF ControlGrows
  <2>3. Effected(w, n)'
    BY <1>7, <2>1 DEF Effected
  <2>. QED  BY <2>1, <2>2, <2>3 DEF Remembered
<1>. QED  BY <1>2, <1>5, <1>6, <1>7

\* Steps that take nothing back and settle nothing keep the three facts.
LEMMA DeliveryKept ==
  ASSUME DeliveryInv, TypeInv', RowsKept, ControlGrows, NoneSettled,
         \A d \in Drainers : pc'[d] = "ack" => pc[d] = "ack" /\ current'[d] = current[d],
         \A w \in Workspaces :
           /\ counter'[w].claimed \subseteq counter[w].claimed
           /\ counter'[w].checkpoint = counter[w].checkpoint
  PROVE  DeliveryInv'
<1>. USE DEF DeliveryInv, TypeInv
<1>1. AppliedInHand'
  <2> SUFFICES ASSUME NEW d \in Drainers, pc'[d] = "ack"
               PROVE  Effected(current[d][1], current[d][2])'
    BY DEF AppliedInHand
  <2>1. pc[d] = "ack" /\ current'[d] = current[d]
    OBVIOUS
  <2>2. /\ current[d][1] \in Workspaces
        /\ current[d][2] \in 1..Len(outbox[current[d][1]])
    BY <2>1 DEF InHand, Items
  <2>3. Effected(current[d][1], current[d][2])
    BY <2>1 DEF AppliedInHand
  <2>4. PICK w, n :
          w \in Workspaces /\ n \in 1..Len(outbox[w]) /\ w = current[d][1] /\ n = current[d][2]
    BY <2>2
  <2>5. Effected(w, n)'
    BY <2>3, <2>4, EffectedKept
  <2>. QED  BY <2>1, <2>4, <2>5
<1>2. Remembered'
  <2> SUFFICES ASSUME NEW w \in Workspaces, NEW n \in counter'[w].claimed
               PROVE  /\ n \in 1..Len(outbox'[w])
                      /\ Covers(counter'[w].checkpoint, outbox'[w][n].epoch, n)
    BY DEF Remembered
  <2>1. n \in counter[w].claimed
    OBVIOUS
  <2>2. n \in 1..Len(outbox[w]) /\ Covers(counter[w].checkpoint, outbox[w][n].epoch, n)
    BY <2>1 DEF Remembered
  <2>3. outbox'[w] \in Seq(Rows)
    BY DEF TypeOK
  <2>4. Len(outbox'[w]) \in Nat /\ Len(outbox[w]) \in Nat
    BY <2>3, LenProperties, OutboxType
  <2>. QED  BY <2>2, <2>4 DEF RowsKept
<1>3. AckedMeansApplied'
  <2> SUFFICES ASSUME NEW w \in Workspaces, NEW n \in DOMAIN outbox'[w],
                      outbox'[w][n].status # "pending"
               PROVE  Effected(w, n)'
    BY DEF AckedMeansApplied, Pending
  <2>1. outbox'[w] \in Seq(Rows)
    BY DEF TypeOK
  <2>2. n \in 1..Len(outbox'[w])
    BY <2>1, LenProperties
  <2>3. n \in 1..Len(outbox[w]) /\ outbox[w][n].status # "pending"
    BY <2>2 DEF NoneSettled
  <2>4. Effected(w, n)
    BY <2>3, OutboxType DEF AckedMeansApplied, Pending
  <2>. QED  BY <2>3, <2>4, EffectedKept
<1>. QED  BY <1>1, <1>2, <1>3

LEMMA DeliveryInit == Init => DeliveryInv
<1> SUFFICES ASSUME Init PROVE DeliveryInv
  OBVIOUS
<1>1. AppliedInHand /\ Remembered
  BY DEF Init, AppliedInHand, Remembered, NoCounter
<1>2. AckedMeansApplied
  <2>1. \A w \in Workspaces : outbox[w] = <<>> /\ DOMAIN outbox[w] = {}
    BY DEF Init
  <2>. QED  BY <2>1 DEF AckedMeansApplied
<1>. QED  BY <1>1, <1>2, TypeInit DEF DeliveryInv

\* The step from effect to acknowledgement.
LEMMA ApplyDelivers ==
  ASSUME DeliveryInv, TypeInv', NEW d \in Drainers, Apply(d)
  PROVE  DeliveryInv'
<1>. USE DEF DeliveryInv, TypeInv
<1> DEFINE w == current[d][1]
           n == current[d][2]
<1>1. w \in Workspaces /\ n \in 1..Len(outbox[w])
  BY DEF Apply, InHand, Items
<1>2. /\ Project(w, n) /\ UNCHANGED <<outbox, current>>
      /\ pc' = [pc EXCEPT ![d] = "ack"]
  BY DEF Apply, region
<1>3. /\ ControlGrows /\ Effected(w, n)'
      /\ \A u \in Workspaces : \A m \in counter'[u].claimed :
           /\ m \in 1..Len(outbox[u])
           /\ Covers(counter'[u].checkpoint, outbox[u][m].epoch, m)
  BY <1>1, <1>2, ProjectEffects
<1>4. RowsKept
  BY <1>2, StillRows, SameRowsKept
<1>5. AppliedInHand'
  <2> SUFFICES ASSUME NEW x \in Drainers, pc'[x] = "ack"
               PROVE  Effected(current[x][1], current[x][2])'
    BY DEF AppliedInHand
  <2>1. CASE x = d
    BY <1>2, <1>3, <2>1 DEF Effected
  <2>2. CASE x # d
    <3>1. pc[x] = "ack"
      BY <1>2, <2>2 DEF TypeOK
    <3>2. /\ current[x][1] \in Workspaces
          /\ current[x][2] \in 1..Len(outbox[current[x][1]])
      BY <3>1 DEF InHand, Items
    <3>3. Effected(current[x][1], current[x][2])
      BY <3>1 DEF AppliedInHand
    <3>4. PICK v, m :
            v \in Workspaces /\ m \in 1..Len(outbox[v]) /\ v = current[x][1] /\ m = current[x][2]
      BY <3>2
    <3>5. Effected(v, m)'
      BY <1>3, <1>4, <3>3, <3>4, EffectedKept
    <3>. QED  BY <1>2, <3>4, <3>5
  <2>. QED  BY <2>1, <2>2
<1>6. Remembered'
  BY <1>2, <1>3 DEF Remembered
<1>7. AckedMeansApplied'
  <2> SUFFICES ASSUME NEW u \in Workspaces, NEW m \in DOMAIN outbox[u],
                      outbox[u][m].status # "pending"
               PROVE  Effected(u, m)'
    BY <1>2 DEF AckedMeansApplied, Pending
  <2>1. m \in 1..Len(outbox[u]) /\ Effected(u, m)
    BY OutboxType DEF AckedMeansApplied, Pending
  <2>. QED  BY <1>3, <1>4, <2>1, EffectedKept
<1>. QED  BY <1>5, <1>6, <1>7

LEMMA AckDelivers ==
  ASSUME DeliveryInv, TypeInv', NEW d \in Drainers, Ack(d)
  PROVE  DeliveryInv'
<1>. USE DEF DeliveryInv, TypeInv
<1> DEFINE w == current[d][1]
           n == current[d][2]
<1>1. /\ w \in Workspaces /\ n \in 1..Len(outbox[w]) /\ current[d] = <<w, n>>
      /\ Effected(w, n)
  BY DEF Ack, InHand, Items, AppliedInHand
<1>2. /\ pc' = [pc EXCEPT ![d] = "run"]
      /\ current' = [current EXCEPT ![d] = <<>>]
      /\ UNCHANGED control
  BY DEF Ack, FailItem
<1>3. /\ SameRows /\ RowsKept
      /\ \A u \in Workspaces : Len(outbox'[u]) = Len(outbox[u])
  BY AckRows, SameRowsKept
<1>4. ControlGrows
  BY <1>2, StillGrows DEF control
<1>5. ASSUME NEW u \in Workspaces, NEW m \in 1..Len(outbox[u]), Effected(u, m)
      PROVE  Effected(u, m)'
  BY <1>3, <1>4, <1>5, EffectedKept
<1>6. AppliedInHand'
  <2> SUFFICES ASSUME NEW x \in Drainers, pc'[x] = "ack"
               PROVE  Effected(current[x][1], current[x][2])'
    BY DEF AppliedInHand
  <2>1. pc[x] = "ack" /\ current'[x] = current[x]
    BY <1>2 DEF TypeOK
  <2>2. /\ current[x][1] \in Workspaces
        /\ current[x][2] \in 1..Len(outbox[current[x][1]])
        /\ Effected(current[x][1], current[x][2])
    BY <2>1 DEF InHand, Items, AppliedInHand
  <2>3. PICK v, m :
          v \in Workspaces /\ m \in 1..Len(outbox[v]) /\ v = current[x][1] /\ m = current[x][2]
    BY <2>2
  <2>4. Effected(v, m)'
    BY <1>5, <2>2, <2>3
  <2>. QED  BY <2>1, <2>3, <2>4
<1>7. Remembered'
  BY <1>2, <1>3 DEF Remembered, control, SameRows
<1>8. AckedMeansApplied'
  <2> SUFFICES ASSUME NEW u \in Workspaces, NEW m \in DOMAIN outbox'[u],
                      outbox'[u][m].status # "pending"
               PROVE  Effected(u, m)'
    BY DEF AckedMeansApplied, Pending
  <2>1. outbox'[u] \in Seq(Rows)
    BY DEF TypeOK
  <2>2. m \in 1..Len(outbox'[u]) /\ m \in 1..Len(outbox[u])
    BY <1>3, <2>1, LenProperties
  <2>3. outbox[u][m].status # "pending" \/ current[d] = <<u, m>>
    BY <2>2, AckRows
  <2>4. Effected(u, m)
    BY <1>1, <2>2, <2>3, OutboxType DEF AckedMeansApplied, Pending
  <2>. QED  BY <1>5, <2>2, <2>4
<1>. QED  BY <1>6, <1>7, <1>8

LEMMA DeliveryNext == DeliveryInv /\ [Next]_vars => DeliveryInv'
<1> SUFFICES ASSUME DeliveryInv, [Next]_vars PROVE DeliveryInv'
  OBVIOUS
<1>1. TypeInv /\ TypeInv' /\ TypeOK /\ InHand
  BY TypeNext DEF DeliveryInv, TypeInv
<1>2. ASSUME NEW w \in Workspaces, NEW s \in Skills, RegionalStep(w, s) PROVE DeliveryInv'
  <2>1. PICK sk \in SkillStates, evs \in Seq(Events) : Commit(w, s, sk, evs)
    BY <1>1, <1>2, RegionalCommits
  <2>2. RowsKept /\ NoneSettled /\ UNCHANGED <<drain, control>>
    BY <1>1, <2>1, CommitAppends DEF TypeInv
  <2>3. ControlGrows
    BY <1>1, <2>2, StillGrows DEF control
  <2>. QED  BY <1>1, <2>2, <2>3, DeliveryKept DEF drain, control
<1>3. ASSUME NEW d \in Drainers, DrainerStep(d) PROVE DeliveryInv'
  <2>1. CASE Apply(d)
    BY <1>1, <2>1, ApplyDelivers
  <2>2. CASE Ack(d)
    BY <1>1, <2>2, AckDelivers
  <2>3. CASE ~Apply(d) /\ ~Ack(d)
    <3>1. SameRows /\ NoneSettled
      BY <1>1, <1>3, <2>3, DrainerRows
    <3>2. RowsKept
      BY <1>1, <3>1, SameRowsKept
    <3>3. UNCHANGED control
      BY <1>3, <2>3 DEF DrainerStep, Claim, Check, Fail, Finish, Crash
    <3>4. ControlGrows
      BY <1>1, <3>3, StillGrows DEF control
    <3>5. \A x \in Drainers : pc'[x] = "ack" => pc[x] = "ack" /\ current'[x] = current[x]
      <4>1. CASE Claim(d)
        <5>1. pc' = [pc EXCEPT ![d] = "run"] /\ UNCHANGED current
          BY <4>1 DEF Claim
        <5>. QED  BY <1>1, <5>1 DEF TypeOK
      <4>2. CASE Check(d)
        <5>1. PICK item :
                \/ /\ pc' = [pc EXCEPT ![d] = "apply"]
                   /\ current' = [current EXCEPT ![d] = item]
                \/ /\ pc' = [pc EXCEPT ![d] = "run"]
                   /\ current' = [current EXCEPT ![d] = <<>>]
          BY <4>2 DEF Check, FailItem
        <5>. QED  BY <1>1, <5>1 DEF TypeOK
      <4>3. CASE Fail(d)
        BY <1>1, <4>3 DEF Fail, FailItem, TypeOK
      <4>4. CASE Finish(d) \/ Crash(d)
        <5>1. /\ pc' = [pc EXCEPT ![d] = "idle"]
              /\ UNCHANGED current \/ current' = [current EXCEPT ![d] = <<>>]
          BY <4>4 DEF Finish, Crash
        <5>. QED  BY <1>1, <5>1 DEF TypeOK
      <4>. QED  BY <1>3, <2>3, <4>1, <4>2, <4>3, <4>4 DEF DrainerStep
    <3>. QED  BY <1>1, <3>1, <3>2, <3>3, <3>4, <3>5, DeliveryKept DEF control
  <2>. QED  BY <2>1, <2>2, <2>3
<1>4. ASSUME NEW w \in Workspaces, NEW n \in DOMAIN outbox[w], RowStep(w, n)
      PROVE  DeliveryInv'
  <2>1. SameRows /\ NoneSettled
    BY <1>1, <1>4, RowStepRows
  <2>2. RowsKept
    BY <1>1, <2>1, SameRowsKept
  <2>3. UNCHANGED <<drain, control>>
    BY <1>4 DEF RowStep, LapseClaim, OverrunLease, RetireRow
  <2>4. ControlGrows
    BY <1>1, <2>3, StillGrows DEF control
  <2>. QED  BY <1>1, <2>1, <2>2, <2>3, <2>4, DeliveryKept DEF drain, control
<1>5. ASSUME NEW w \in Workspaces, RetireCount(w) PROVE DeliveryInv'
  <2>1. PICK n \in counter[w].claimed :
          /\ counter' = [counter EXCEPT ![w].claimed = @ \ {n}]
          /\ UNCHANGED <<region, drain, directory, routes>>
    BY <1>5 DEF RetireCount
  <2>2. SameRows /\ NoneSettled /\ RowsKept
    BY <1>1, <2>1, StillRows, SameRowsKept DEF region
  <2>3. \A u \in Workspaces :
          /\ counter'[u].claimed \subseteq counter[u].claimed
          /\ counter'[u].checkpoint = counter[u].checkpoint
    BY <1>1, <2>1 DEF TypeOK, Counters
  <2>4. ControlGrows
    BY <1>1, <2>1, <2>3, StillGrows
  <2>. QED  BY <1>1, <2>1, <2>2, <2>3, <2>4, DeliveryKept DEF drain
<1>6. ASSUME UNCHANGED <<region, drain, control>> PROVE DeliveryInv'
  <2>1. SameRows /\ NoneSettled /\ RowsKept
    BY <1>1, <1>6, StillRows, SameRowsKept DEF region
  <2>2. ControlGrows
    BY <1>1, <1>6, StillGrows DEF control
  <2>. QED  BY <1>1, <1>6, <2>1, <2>2, DeliveryKept DEF drain, control
<1>7. ASSUME NEW w \in Workspaces, MoveStep(w) PROVE DeliveryInv'
  <2>1. UNCHANGED <<region, drain, control>>
    BY <1>7 DEF MoveStep, PrepareSource, BeginMove, QuiesceSource, DrainOutboxes,
                ResumeTarget, RollbackSource, Activate
  <2>. QED  BY <1>6, <2>1
<1>8. CASE UNCHANGED vars
  BY <1>6, <1>8 DEF vars
<1>. QED  BY <1>2, <1>3, <1>4, <1>5, <1>7, <1>8 DEF Next

\* Whatever drainers crash, lose their claims or deliver twice, an event that is
\* acknowledged, or already forgotten by retention, has had its effect on the
\* control plane (drainRegionalProjectionOutbox marks a row processed only after
\* applyRegionalPublicProjection returned).
THEOREM Delivered == Spec => []AckedMeansApplied
<1>1. DeliveryInv => AckedMeansApplied
  BY DEF DeliveryInv
<1>. QED  BY <1>1, DeliveryInit, DeliveryNext, PTL DEF Spec

-----------------------------------------------------------------------------
(***************************************************************************)
(* A workspace has one cell that admits its writes.  The induction follows *)
(* the move: which epoch writes carry, which fences are up, and from which *)
(* epoch on the home's fence admits.                                       *)
(***************************************************************************)

\* The epoch a write accepted now was routed with.
HomeEpoch(w) ==
  IF placement[w].state = "active" THEN placement[w].epoch
                                   ELSE placement[w].sourceEpoch

Settled(w) == move[w] \in {"none", "prepared"}

MovePhase(w) ==
  LET p == placement[w] IN
  /\ Settled(w) <=> p.state = "active"
  /\ p.state = "moving" => p.sourceEpoch < p.epoch /\ p.target # p.region
  /\ move[w] \in {"quiesced", "drained", "resumed"} => fence[w][p.region].raised
  /\ move[w] = "resumed" => fence[w][p.target].active > p.epoch
  /\ move[w] = "restored" => fence[w][p.region].active > p.epoch
  /\ fence[w][p.region].active >= HomeEpoch(w)

RoutesFenced(w) ==
  \A route \in routed[w] :
    /\ route.epoch <= HomeEpoch(w)
    /\ route.epoch = HomeEpoch(w) => route.region = placement[w].region
    /\ route.region # placement[w].region =>
         \/ fence[w][route.region].raised
         \/ move[w] = "resumed" /\ route.region = placement[w].target

HomeInv == \A w \in Workspaces : MovePhase(w) /\ RoutesFenced(w)

\* The parts of the type invariant a move touches.
MoveType ==
  /\ placement \in [Workspaces -> Placements]
  /\ move \in [Workspaces ->
       {"none", "prepared", "cas", "quiesced", "drained", "resumed", "restored"}]
  /\ fence \in [Workspaces -> [Regions -> [raised : BOOLEAN, active : Nat]]]
  /\ routed \in [Workspaces -> SUBSET [region : Regions, epoch : Nat]]

LEMMA HomeInit == Init => HomeInv
BY ConstantsAssumption
DEF Init, HomeInv, MovePhase, RoutesFenced, HomeEpoch, Settled

LEMMA HomeElsewhere ==
  ASSUME HomeInv, NEW w \in Workspaces,
         \A u \in Workspaces \ {w} :
           /\ placement'[u] = placement[u] /\ move'[u] = move[u]
           /\ fence'[u] = fence[u] /\ routed'[u] = routed[u],
         MovePhase(w)', RoutesFenced(w)'
  PROVE  HomeInv'
BY DEF HomeInv, MovePhase, RoutesFenced, HomeEpoch, Settled

LEMMA HomeMove ==
  ASSUME MoveType, MoveType', HomeInv, NEW w \in Workspaces, MoveStep(w)
  PROVE  HomeInv'
<1> DEFINE p == placement[w]
<1>1. /\ p.region \in Regions /\ p.target \in Regions
      /\ p.epoch \in Nat /\ p.sourceEpoch \in Nat /\ p.state \in {"active", "moving"}
      /\ \A r \in Regions : fence[w][r].active \in Nat /\ fence[w][r].raised \in BOOLEAN
      /\ \A route \in routed[w] : route.region \in Regions /\ route.epoch \in Nat
  BY DEF MoveType, Placements
<1>2. MovePhase(w) /\ RoutesFenced(w)
  BY DEF HomeInv
<1>3. \A u \in Workspaces \ {w} :
        /\ placement'[u] = placement[u] /\ move'[u] = move[u]
        /\ fence'[u] = fence[u] /\ routed'[u] = routed[u]
  BY DEF MoveStep, PrepareSource, BeginMove, QuiesceSource, DrainOutboxes,
         ResumeTarget, RollbackSource, Activate, Lowered, MoveType
<1>4. MovePhase(w)' /\ RoutesFenced(w)'
  <2>1. CASE PrepareSource(w)
    <3>1. /\ move[w] = "none" /\ move'[w] = "prepared"
          /\ UNCHANGED <<placement, fence, routed>>
      BY <2>1 DEF PrepareSource, MoveType
    <3>. QED  BY <1>2, <3>1 DEF MovePhase, RoutesFenced, HomeEpoch, Settled
  <2>2. CASE BeginMove(w)
    <3>1. PICK target \in Regions \ {p.region} :
            placement' = [placement EXCEPT ![w] =
              [p EXCEPT !.state = "moving", !.epoch = p.epoch + 1,
                        !.target = target, !.sourceEpoch = p.epoch]]
      BY <2>2, Zenon DEF BeginMove
    <3>2. /\ placement'[w].state = "moving" /\ placement'[w].epoch = p.epoch + 1
          /\ placement'[w].target = target /\ placement'[w].sourceEpoch = p.epoch
          /\ placement'[w].region = p.region
      BY <3>1 DEF MoveType, Placements
    <3>3. /\ move[w] = "prepared" /\ move'[w] = "cas"
          /\ UNCHANGED <<fence, routed>>
      BY <2>2 DEF BeginMove, MoveType
    <3>4. HomeEpoch(w)' = HomeEpoch(w)
      BY <1>2, <3>2, <3>3 DEF MovePhase, HomeEpoch, Settled
    <3>5. MovePhase(w)'
      BY <1>1, <1>2, <3>2, <3>3, <3>4 DEF MovePhase, Settled
    <3>6. RoutesFenced(w)'
      BY <1>2, <3>2, <3>3, <3>4 DEF RoutesFenced
    <3>. QED  BY <3>5, <3>6
  <2>3. CASE QuiesceSource(w)
    <3>1. /\ move[w] = "cas" /\ move'[w] = "quiesced"
          /\ UNCHANGED <<placement, routed>>
      BY <2>3 DEF QuiesceSource, MoveType
    <3>2. \A r \in Regions :
            /\ fence'[w][r].active = fence[w][r].active
            /\ fence'[w][r].raised = (fence[w][r].raised \/ r = p.region)
      <4>1. fence' = [fence EXCEPT ![w][p.region].raised = TRUE]
        BY <2>3 DEF QuiesceSource
      <4>2. \A r \in Regions :
              fence'[w][r] = IF r = p.region THEN [fence[w][r] EXCEPT !.raised = TRUE]
                                             ELSE fence[w][r]
        BY <1>1, <4>1 DEF MoveType
      <4>3. \A r \in Regions : fence[w][r] \in [raised : BOOLEAN, active : Nat]
        BY DEF MoveType
      <4>. QED  BY <4>2, <4>3
    <3>3. MovePhase(w)'
      BY <1>1, <1>2, <3>1, <3>2 DEF MovePhase, HomeEpoch, Settled
    <3>4. RoutesFenced(w)'
      BY <1>1, <1>2, <3>1, <3>2 DEF RoutesFenced, HomeEpoch
    <3>. QED  BY <3>3, <3>4
  <2>4. CASE DrainOutboxes(w)
    <3>1. /\ move[w] = "quiesced" /\ move'[w] = "drained"
          /\ UNCHANGED <<placement, fence, routed>>
      BY <2>4 DEF DrainOutboxes, MoveType
    <3>. QED  BY <1>2, <3>1 DEF MovePhase, RoutesFenced, HomeEpoch, Settled
  <2>5. ASSUME NEW r \in Regions, fence' = Lowered(w, r, p.epoch + 1)
        PROVE  /\ fence'[w][r].raised = FALSE
               /\ fence'[w][r].active > p.epoch
               /\ fence'[w][r].active >= fence[w][r].active
               /\ \A q \in Regions \ {r} : fence'[w][q] = fence[w][q]
    <3>1. fence'[w][r] = [raised |-> FALSE,
                          active |-> Larger(fence[w][r].active, p.epoch + 1)]
      BY <2>5 DEF Lowered, MoveType
    <3>2. \A q \in Regions \ {r} : fence'[w][q] = fence[w][q]
      BY <2>5 DEF Lowered, MoveType
    <3>. QED  BY <1>1, <3>1, <3>2 DEF Larger
  <2>6. CASE ResumeTarget(w)
    <3>1. /\ move[w] = "drained" /\ move'[w] = "resumed"
          /\ fence' = Lowered(w, p.target, p.epoch + 1)
          /\ UNCHANGED <<placement, routed>>
      BY <2>6 DEF ResumeTarget, MoveType
    <3>2. p.target # p.region
      BY <1>1, <1>2, <3>1 DEF MovePhase, Settled
    <3>3. MovePhase(w)'
      BY <1>1, <1>2, <2>5, <3>1, <3>2 DEF MovePhase, HomeEpoch, Settled
    <3>4. RoutesFenced(w)'
      BY <1>1, <1>2, <2>5, <3>1, <3>2 DEF RoutesFenced, HomeEpoch
    <3>. QED  BY <3>3, <3>4
  <2>7. CASE RollbackSource(w)
    <3>1. /\ move[w] \in {"cas", "quiesced", "drained"} /\ move'[w] = "restored"
          /\ fence' = Lowered(w, p.region, p.epoch + 1)
          /\ UNCHANGED <<placement, routed>>
      BY <2>7 DEF RollbackSource, MoveType
    <3>2. /\ fence'[w][p.region].active > p.epoch
          /\ fence'[w][p.region].active >= fence[w][p.region].active
          /\ \A q \in Regions \ {p.region} : fence'[w][q] = fence[w][q]
          /\ fence'[w][p.region].active \in Nat
      BY <1>1, <2>5, <3>1 DEF MoveType
    <3>3. HomeEpoch(w)' = HomeEpoch(w) /\ HomeEpoch(w) \in Nat
      BY <1>1, <3>1 DEF HomeEpoch
    <3>4. MovePhase(w)'
      BY <1>1, <1>2, <3>1, <3>2, <3>3 DEF MovePhase, Settled
    <3>5. RoutesFenced(w)'
      BY <1>1, <1>2, <3>1, <3>2, <3>3 DEF RoutesFenced
    <3>. QED  BY <3>4, <3>5
  <2>8. CASE Activate(w)
    <3> DEFINE r == IF move[w] = "resumed" THEN p.target ELSE p.region
               e == p.epoch + 1
    <3>1. /\ move[w] \in {"resumed", "restored"} /\ move'[w] = "none"
          /\ placement' = [placement EXCEPT ![w] =
               [p EXCEPT !.state = "active", !.region = r, !.epoch = e]]
          /\ routed' = [routed EXCEPT ![w] = @ \cup {[region |-> r, epoch |-> e]}]
          /\ UNCHANGED fence
      BY <2>8 DEF Activate, MoveType
    <3>2. /\ placement'[w].state = "active" /\ placement'[w].epoch = e
          /\ placement'[w].region = r
          /\ routed'[w] = routed[w] \cup {[region |-> r, epoch |-> e]}
      BY <3>1 DEF MoveType, Placements
    <3>3. p.state = "moving" /\ p.sourceEpoch < p.epoch
      BY <1>1, <1>2, <3>1 DEF MovePhase, Settled
    <3>4. HomeEpoch(w)' = e /\ HomeEpoch(w) = p.sourceEpoch
      BY <3>2, <3>3 DEF HomeEpoch
    <3>5. fence[w][r].active >= e /\ r \in Regions
      BY <1>1, <1>2, <3>1 DEF MovePhase
    <3>6. MovePhase(w)'
      BY <1>1, <3>1, <3>2, <3>4, <3>5 DEF MovePhase, Settled
    <3>7. \A route \in routed[w] :
            /\ route.epoch < e
            /\ route.region # r => fence[w][route.region].raised
      <4>1. CASE move[w] = "resumed"
        BY <1>1, <1>2, <3>3, <3>4, <4>1 DEF MovePhase, RoutesFenced
      <4>2. CASE move[w] = "restored"
        BY <1>1, <1>2, <3>3, <3>4, <4>2 DEF RoutesFenced
      <4>. QED  BY <3>1, <4>1, <4>2
    <3>8. RoutesFenced(w)'
      BY <1>1, <3>1, <3>2, <3>4, <3>5, <3>7 DEF RoutesFenced
    <3>. QED  BY <3>6, <3>8
  <2>. QED  BY <2>1, <2>2, <2>3, <2>4, <2>6, <2>7, <2>8 DEF MoveStep
<1>. QED  BY <1>3, <1>4, HomeElsewhere

LEMMA HomeNext == TypeInv /\ TypeInv' /\ HomeInv /\ [Next]_vars => HomeInv'
<1> SUFFICES ASSUME TypeInv, TypeInv', HomeInv, [Next]_vars PROVE HomeInv'
  OBVIOUS
<1>1. MoveType /\ MoveType'
  BY DEF TypeInv, TypeOK, MoveType
<1>2. CASE \E w \in Workspaces : MoveStep(w)
  BY <1>1, <1>2, HomeMove
<1>3. CASE UNCHANGED moving
  BY <1>3 DEF moving, HomeInv, MovePhase, RoutesFenced, HomeEpoch, Settled
<1>4. CASE ~(\E w \in Workspaces : MoveStep(w))
  <2>1. ASSUME NEW w \in Workspaces, NEW s \in Skills, RegionalStep(w, s)
        PROVE  UNCHANGED moving
    <3>1. PICK sk \in SkillStates, evs \in Seq(Events) : Commit(w, s, sk, evs)
      BY <2>1, RegionalCommits DEF TypeInv
    <3>. QED  BY <3>1 DEF Commit
  <2>2. ASSUME NEW d \in Drainers, DrainerStep(d) PROVE UNCHANGED moving
    BY <2>2 DEF DrainerStep, Claim, Check, Apply, Ack, Fail, Finish, Crash
  <2>3. ASSUME NEW w \in Workspaces, NEW n \in DOMAIN outbox[w], RowStep(w, n)
        PROVE  UNCHANGED moving
    BY <2>3 DEF RowStep, LapseClaim, OverrunLease, RetireRow
  <2>4. ASSUME NEW w \in Workspaces, RetireCount(w) PROVE UNCHANGED moving
    BY <2>4 DEF RetireCount
  <2>5. CASE UNCHANGED vars
    BY <1>3, <2>5 DEF vars, moving
  <2>. QED  BY <1>3, <1>4, <2>1, <2>2, <2>3, <2>4, <2>5 DEF Next
<1>. QED  BY <1>2, <1>4

LEMMA HomeAdmits == TypeInv /\ HomeInv => OnlyHomeAdmits
<1> SUFFICES ASSUME TypeInv, HomeInv, NEW w \in Workspaces, NEW route \in routed[w],
                    Admits(w, route)
             PROVE  /\ route.region = placement[w].region
                    /\ route.epoch = HomeEpoch(w)
  BY DEF OnlyHomeAdmits, HomeEpoch
<1>1. MoveType
  BY DEF TypeInv, TypeOK, MoveType
<1>2. /\ placement[w] \in Placements /\ HomeEpoch(w) \in Nat
      /\ route.region \in Regions /\ route.epoch \in Nat
      /\ fence[w][route.region].active \in Nat
  BY <1>1 DEF MoveType, Placements, HomeEpoch
<1>3. MovePhase(w) /\ RoutesFenced(w)
  BY DEF HomeInv
<1>4. CASE route.region = placement[w].region
  BY <1>2, <1>3, <1>4 DEF MovePhase, RoutesFenced, Admits
<1>5. CASE route.region # placement[w].region
  <2>1. move[w] = "resumed" /\ route.region = placement[w].target
    BY <1>3, <1>5 DEF RoutesFenced, Admits
  <2>2. /\ fence[w][route.region].active > placement[w].epoch
        /\ HomeEpoch(w) < placement[w].epoch /\ placement[w].epoch \in Nat
    BY <1>2, <1>3, <2>1 DEF MovePhase, Settled, HomeEpoch, Placements
  <2>3. route.epoch <= HomeEpoch(w)
    BY <1>3 DEF RoutesFenced
  <2>. QED  BY <1>2, <2>2, <2>3 DEF Admits
<1>. QED  BY <1>4, <1>5

\* A cell that has given a workspace away admits no write any more, and no cell
\* admits one routed before a move or a roll back (the fence trigger of migration
\* 0041 with quiesceSource, resumeTarget and rollbackSource).
THEOREM OneHome == Spec => []OnlyHomeAdmits
<1>. QED  BY HomeAdmits, TypeInit, TypeNext, HomeInit, HomeNext, PTL DEF Spec
=============================================================================
