-------------------------- MODULE AnalyticsHistory --------------------------
(***************************************************************************)
(* What is left of a workspace's audit detail when it expires: the daily   *)
(* rollup of packages/observability/src/rollups.ts, the retention of       *)
(* src/retention.ts that runs it before it deletes, and the write fence    *)
(* both of them respect (src/routing-epoch.ts).                            *)
(*                                                                         *)
(* Workspaces do not share rows, so one is modelled.  A summary and its    *)
(* dimensions are the set of the events they were computed from.           *)
(***************************************************************************)
EXTENDS Naturals, FiniteSets, FiniteSetsExt

CONSTANTS AuditEvents,
          Jobs,       \* running `analytics:rollup` and `audit:retention` commands
          DayLength,  \* instants of a day
          Retained,   \* retentionDays, in instants
          Late,       \* how long the transaction of an event may take to commit
          BatchSize,
          MaxTime,    \* bound: the last instant
          MaxCommands, MaxFences  \* bounds

\* Nothing of a day expires while the day may still get events: 90 days and more of retention
\* (retention.ts:43) against a day and the time of a transaction.
ASSUME HistoryAssumption ==
  /\ IsFiniteSet(AuditEvents)
  /\ DayLength \in Nat \ {0} /\ Retained \in Nat /\ Late \in Nat /\ MaxTime \in Nat
  /\ MaxCommands \in Nat /\ MaxFences \in Nat
  /\ Retained + 1 >= DayLength + Late

Times == 0..MaxTime
DayOf(time) == time \div DayLength
Days == {DayOf(time) : time \in Times}
Unwritten == [at |-> 0, class |-> "unwritten"]
NoRun == [tally |-> 0, exists |-> FALSE]
Idle == [step |-> "resting"]

VARIABLES
  now,
  logged,    \* audit_events: occurred_at and retention_class; a deleted row keeps its place
  gone,     \* the events that were deleted
  summary,  \* analytics_daily_summary and analytics_daily_dimensions
  ran,      \* analytics_rollup_runs: source_event_count
  fence,    \* is source_epoch > 0
  job,      \* where each command is
  spoiled,  \* days of which a run deleted what it had passed over, or that were replaced
            \* when something of them was gone (which nothing in the code records)
  left      \* bound: commands that may still be started, and changes of the fence

historyVars == <<now, logged, gone, summary, ran, fence, job, spoiled, left>>

HistoryTypeOK ==
  /\ now \in Times
  /\ logged \in [AuditEvents -> [at : Times, class : {"unwritten", "permanent", "detailed"}]]
  /\ gone \subseteq AuditEvents /\ spoiled \subseteq Days
  /\ left \in [commands : 0..MaxCommands, fences : 0..MaxFences]
  /\ summary \in [Days -> SUBSET AuditEvents]
  /\ ran \in [Days -> [tally : 0..Cardinality(AuditEvents), exists : BOOLEAN]]
  /\ fence \in BOOLEAN
  /\ job \in [Jobs -> {Idle} \cup
       [step : {"roll", "build", "delete", "audit"}, kind : {"rollup", "retention"},
        todo : SUBSET Days, cutoff : Times, tally : 0..Cardinality(AuditEvents),
        skipped : SUBSET Days]]

HistoryInit ==
  /\ now = 0
  /\ logged = [e \in AuditEvents |-> Unwritten]
  /\ gone = {} /\ spoiled = {}
  /\ summary = [d \in Days |-> {}]
  /\ ran = [d \in Days |-> NoRun]
  /\ fence = FALSE
  /\ job = [j \in Jobs |-> Idle]
  /\ left = [commands |-> MaxCommands, fences |-> MaxFences]

Rows == {e \in AuditEvents : logged[e].class # "unwritten"} \ gone
RowsOf(d) == {e \in Rows : DayOf(logged[e].at) = d}
Expired(cutoff) == {e \in Rows : logged[e].class = "detailed" /\ logged[e].at < cutoff}
Doing(j, step) == job[j].step = step
Today(j) == Min(job[j].todo)
DaysLeft(j) == job[j].todo \ {Today(j)}

-----------------------------------------------------------------------------
Tick ==
  /\ now < MaxTime
  /\ now' = now + 1
  /\ UNCHANGED <<logged, gone, summary, ran, fence, job, spoiled, left>>

\* An event carries the time at which its transaction began.
LogEvent(class) ==
  /\ ~fence
  /\ \E e \in AuditEvents, at \in Times :
       /\ logged[e] = Unwritten /\ at <= now /\ now <= at + Late
       /\ logged' = [logged EXCEPT ![e] = [at |-> at, class |-> class]]

WriteAuditEvent ==
  /\ \E class \in {"permanent", "detailed"} : LogEvent(class)
  /\ UNCHANGED <<now, gone, summary, ran, fence, job, spoiled, left>>

\* A move raises the fence, rolling it back lowers it.  Either waits for the transactions that
\* hold the fence's row in share mode.
ChangeFence ==
  /\ \A j \in Jobs : ~Doing(j, "build")
  /\ left.fences > 0 /\ left' = [left EXCEPT !.fences = @ - 1]
  /\ fence' = ~fence
  /\ UNCHANGED <<now, logged, gone, summary, ran, job, spoiled>>

-----------------------------------------------------------------------------
(* The commands.                                                            *)

Start(j) ==
  job[j] = Idle /\ left.commands > 0 /\ left' = [left EXCEPT !.commands = @ - 1]

\* analytics-rollup.mjs: yesterday, or any day somebody names.
StartRollup(j, d) ==
  /\ Start(j) /\ d <= DayOf(now)
  /\ job' = [job EXCEPT ![j] =
       [step |-> "roll", kind |-> "rollup", todo |-> {d}, cutoff |-> 0, tally |-> 0,
        skipped |-> {}]]
  /\ UNCHANGED <<now, logged, gone, summary, ran, fence, spoiled>>

\* audit-retention.mjs: a workspace with expired rows that is not fenced, and every day from
\* its earliest to its latest of them.
StartRetention(j) ==
  LET days(old) == {DayOf(logged[e].at) : e \in old} IN
  /\ Start(j) /\ ~fence /\ now >= Retained
  /\ LET old == Expired(now - Retained) IN
       /\ old # {}
       /\ job' = [job EXCEPT ![j] =
            [step |-> "roll", kind |-> "retention", todo |-> Min(days(old))..Max(days(old)),
             cutoff |-> now - Retained, tally |-> 0, skipped |-> {}]]
  /\ UNCHANGED <<now, logged, gone, summary, ran, fence, spoiled>>

\* Mutant: a recomputed day replaces the one that is stored.
NeverFuller(d, rows) == FALSE

\* preserveFullerSnapshot: the stored day was computed from no fewer events.
Fuller(d, rows) == ran[d].exists /\ ran[d].tally >= rows

\* The days of a command in turn; one that finds the fence raised is passed over.
SkipDay(j) ==
  /\ Doing(j, "roll") /\ job[j].todo # {} /\ fence
  /\ job' = [job EXCEPT ![j] =
       [@ EXCEPT !.todo = DaysLeft(j), !.skipped = job[j].skipped \cup {Today(j)}]]
  /\ UNCHANGED <<now, logged, gone, summary, ran, fence, spoiled, left>>

\* Under the fence's row and the advisory lock of the day, its rows are counted.
CountRows(j) ==
  LET rows == Cardinality(RowsOf(Today(j))) IN
  /\ Doing(j, "roll") /\ job[j].todo # {} /\ ~fence
  /\ \A other \in Jobs : Doing(other, "build") => Today(other) # Today(j)
  /\ job' = [job EXCEPT ![j] =
       IF job[j].kind = "retention" /\ Fuller(Today(j), rows)
       THEN [@ EXCEPT !.todo = DaysLeft(j)]
       ELSE [@ EXCEPT !.step = "build", !.tally = rows]]
  /\ UNCHANGED <<now, logged, gone, summary, ran, fence, spoiled, left>>

\* insertSummary and insertDimensions: whatever is stored of a day is computed of its rows.
Aggregated(d) == RowsOf(d)

\* In the same transaction, but in statements of their own, the day is replaced.
ReplaceDay(j) ==
  LET d == Today(j) IN
  /\ Doing(j, "build")
  /\ summary' = [summary EXCEPT ![d] = Aggregated(d)]
  /\ ran' = [ran EXCEPT ![d] = [tally |-> job[j].tally, exists |-> TRUE]]
  /\ job' = [job EXCEPT ![j] = [@ EXCEPT !.step = "roll", !.todo = DaysLeft(j)]]
  /\ spoiled' = spoiled \cup
       {x \in {d} : job[j].kind = "rollup" /\ \E e \in gone : DayOf(logged[e].at) = d}
  /\ UNCHANGED <<now, logged, gone, fence, left>>

EndRollups(j) ==
  /\ Doing(j, "roll") /\ job[j].todo = {}
  /\ job' = [job EXCEPT ![j] =
       IF job[j].kind = "retention" THEN [@ EXCEPT !.step = "delete"] ELSE Idle]
  /\ UNCHANGED <<now, logged, gone, summary, ran, fence, spoiled, left>>

\* One batch, the earliest rows first, in a transaction; the empty one is the last.  A fence
\* ends the workspace's turn.
DeleteBatch(j) ==
  LET old == Expired(job[j].cutoff) IN
  /\ Doing(j, "delete")
  /\ IF fence
     THEN job' = [job EXCEPT ![j] = Idle] /\ UNCHANGED <<gone, spoiled>>
     ELSE \E batch \in SUBSET old :
       /\ Cardinality(batch) =
            IF Cardinality(old) < BatchSize THEN Cardinality(old) ELSE BatchSize
       /\ \A e \in batch, kept \in old \ batch : logged[e].at <= logged[kept].at
       /\ gone' = gone \cup batch
       /\ spoiled' = spoiled \cup ({DayOf(logged[e].at) : e \in batch} \cap job[j].skipped)
       /\ job' = [job EXCEPT ![j] =
            [@ EXCEPT !.step = IF batch = {} THEN "audit" ELSE "delete"]]
  /\ UNCHANGED <<now, logged, summary, ran, fence, left>>

\* The retention itself is an event.
AuditRetention(j) ==
  /\ Doing(j, "audit")
  /\ LogEvent("permanent") \/ (fence /\ UNCHANGED logged)
  /\ job' = [job EXCEPT ![j] = Idle]
  /\ UNCHANGED <<now, gone, summary, ran, fence, spoiled, left>>

\* A command dies, or a statement of its transaction fails.
JobDies(j) ==
  /\ job[j] # Idle
  /\ job' = [job EXCEPT ![j] = Idle]
  /\ UNCHANGED <<now, logged, gone, summary, ran, fence, spoiled, left>>

HistoryNext ==
  \/ Tick \/ WriteAuditEvent \/ ChangeFence
  \/ \E j \in Jobs :
       \/ StartRetention(j) \/ \E d \in Days : StartRollup(j, d)
       \/ SkipDay(j) \/ CountRows(j) \/ ReplaceDay(j) \/ EndRollups(j)
       \/ DeleteBatch(j) \/ AuditRetention(j) \/ JobDies(j)

HistorySpec == HistoryInit /\ [][HistoryNext]_historyVars

-----------------------------------------------------------------------------
\* DECISION-0006: aggregate counts survive expiry.  A deleted event is part of its day's
\* stored aggregates, though commands overlap, die between batches and are run again, count
\* and recompute in separate statements, and see events commit late (rollups.ts:285-317 with
\* retention.ts:78-131).  Two kinds of days are excepted: those of which a run deleted events
\* that it had not recomputed because the fence was up just then (rollups.ts:366-368), and
\* those that somebody recomputed from what was left (rollups.ts:293).
HistorySurvives ==
  \A e \in gone : DayOf(logged[e].at) \notin spoiled => e \in summary[DayOf(logged[e].at)]
=============================================================================
