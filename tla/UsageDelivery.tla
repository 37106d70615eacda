--------------------------- MODULE UsageDelivery ---------------------------
(***************************************************************************)
(* A usage event's way from a machine's queue to the cloud: the UsageQueue *)
(* of packages/local-runtime/src/analytics.ts, as `skillplane              *)
(* usage-upload` drives it, and skill_usage_report of packages/mcp         *)
(* src/tools/usage.ts, which counts the event once per account under a     *)
(* receipt (an idempotency record whose key is the event's id).            *)
(*                                                                         *)
(* Several uploads may run on one store, under any login.  A call that the *)
(* client gives up goes on at the server.  The statements of a claim are   *)
(* one step here: Idempotency models them one by one.                      *)
(***************************************************************************)
EXTENDS Naturals, FiniteSets

CONSTANTS Events, Accounts, Uploaders,
          BatchLimit,  \* LIMIT 100
          MaxCalls     \* bound: calls ever made

Calls == 1..MaxCalls

ASSUME CallsAssumption == MaxCalls \in Nat

VARIABLES
  consent,  \* analytics:consent
  queue,    \* the rows of the usage table: uploaded = 0, 1 or -1
  upload,   \* the running `usage-upload` commands
  call,     \* calls of skill_usage_report
  calls,    \* how many were made
  receipt,  \* the account's receipt for an event; "lapsed": its lock has run out
  counted   \* audit rows of an account for an event

usageVars == <<consent, queue, upload, call, calls, receipt, counted>>

Resting == [step |-> "resting"]
NoCall == [step |-> "unmade"]
Verdicts == {"none", "accepted", "fatal", "transient"}

UsageTypeOK ==
  /\ consent \in BOOLEAN
  /\ queue \in [Events -> {"unrecorded", "pending", "uploaded", "quarantined"}]
  /\ upload \in [Uploaders -> {Resting} \cup
       [step : {"sending"}, account : Accounts, batch : SUBSET Events, waiting : 0..MaxCalls]]
  /\ call \in [Calls -> {NoCall} \cup
       [step : {"arrive", "work", "release", "answered"}, account : Accounts, event : Events,
        verdict : Verdicts]]
  /\ calls \in 0..MaxCalls
  /\ receipt \in [Accounts -> [Events -> {"absent", "open", "lapsed", "done"}]]
  /\ counted \in [Accounts -> [Events -> Nat]]

UsageInit ==
  /\ consent = FALSE
  /\ queue = [e \in Events |-> "unrecorded"]
  /\ upload = [u \in Uploaders |-> Resting]
  /\ call = [c \in Calls |-> NoCall]
  /\ calls = 0
  /\ receipt = [a \in Accounts |-> [e \in Events |-> "absent"]]
  /\ counted = [a \in Accounts |-> [e \in Events |-> 0]]

server == <<receipt, counted>>

-----------------------------------------------------------------------------
(* The client.                                                              *)

Consent ==
  /\ consent' = ~consent
  /\ UNCHANGED <<queue, upload, call, calls, server>>

\* record: a row for a new id; a known id keeps the row it has.
RecordUsage(e) ==
  /\ queue[e] = "unrecorded"
  /\ queue' = [queue EXCEPT ![e] = "pending"]
  /\ UNCHANGED <<consent, upload, call, calls, server>>

\* upload: consent is asked once, then at most a batch of the pending rows is read.
BeginUpload(u, a) ==
  LET pendings == {e \in Events : queue[e] = "pending"} IN
  /\ upload[u] = Resting /\ consent
  /\ \E batch \in SUBSET pendings :
       /\ Cardinality(batch) =
            IF Cardinality(pendings) < BatchLimit THEN Cardinality(pendings) ELSE BatchLimit
       /\ upload' = [upload EXCEPT ![u] =
            [step |-> "sending", account |-> a, batch |-> batch, waiting |-> 0]]
  /\ UNCHANGED <<consent, queue, call, calls, server>>

\* A row that cannot be read, or a skill that is not in the account's list any more.
RefuseUnsent(u, e) ==
  /\ queue' = [queue EXCEPT ![e] = "quarantined"]
  /\ upload' = [upload EXCEPT ![u].batch = @ \ {e}]
  /\ UNCHANGED <<consent, call, calls, server>>

Send(u, e) ==
  LET c == calls + 1 IN
  /\ calls < MaxCalls
  /\ calls' = c
  /\ call' = [call EXCEPT ![c] =
       [step |-> "arrive", account |-> upload[u].account, event |-> e, verdict |-> "none"]]
  /\ upload' = [upload EXCEPT ![u].batch = @ \ {e}, ![u].waiting = c]
  /\ UNCHANGED <<consent, queue, server>>

NextRow(u) ==
  /\ upload[u].waiting = 0
  /\ \E e \in upload[u].batch : RefuseUnsent(u, e) \/ Send(u, e)

\* Mutant: the row keeps the verdict itself.
RowVerbatim(e, verdict) == IF verdict = "accepted" THEN "uploaded" ELSE verdict

\* The row after an answer: UPDATE ... WHERE id = ?, whatever it says meanwhile.
RowAfter(e, verdict) ==
  CASE verdict = "accepted" -> "uploaded"
    [] verdict = "fatal" -> "quarantined"
    [] OTHER -> queue[e]

\* The answer arrives, or the client stops waiting (15 s) or cannot be reached.
TakeAnswer(u) ==
  LET c == upload[u].waiting IN
  /\ c # 0
  /\ \E verdict \in {"transient"} \cup
           (IF call[c].step = "answered" THEN {call[c].verdict} ELSE {}) :
       queue' = [queue EXCEPT ![call[c].event] = RowAfter(call[c].event, verdict)]
  /\ upload' = [upload EXCEPT ![u].waiting = 0]
  /\ UNCHANGED <<consent, call, calls, server>>

\* The command has visited its batch, or dies.
EndUpload(u) ==
  /\ upload' = [upload EXCEPT ![u] = Resting]
  /\ UNCHANGED <<consent, queue, call, calls, server>>

-----------------------------------------------------------------------------
(* The server.                                                              *)

GoTo(c, where, verdict) == call' = [call EXCEPT ![c].step = where, ![c].verdict = verdict]
Reply(c, verdict) == GoTo(c, "answered", verdict)
Receipt(c) == receipt[call[c].account][call[c].event]
SetReceipt(c, status) ==
  receipt' = [receipt EXCEPT ![call[c].account][call[c].event] = status]

\* The skill and the version are looked up, then the receipt is claimed.
ClaimReceipt(c) ==
  /\ call[c].step = "arrive"
  /\ \/ /\ \E verdict \in {"fatal", "transient"} : Reply(c, verdict)
        /\ UNCHANGED receipt
     \/ /\ Receipt(c) = "done" /\ Reply(c, "accepted")
        /\ UNCHANGED receipt
     \/ /\ Receipt(c) = "open" /\ Reply(c, "transient")
        /\ UNCHANGED receipt
     \/ /\ Receipt(c) \in {"absent", "lapsed"} /\ GoTo(c, "work", "none")
        /\ SetReceipt(c, "open")
  /\ UNCHANGED <<consent, queue, upload, calls, counted>>

\* Mutant: a completed receipt is completed again.
CompletableAgain(c) == Receipt(c) # "absent"

\* complete: UPDATE ... WHERE response_status IS NULL finds the receipt.
Completable(c) == Receipt(c) \in {"open", "lapsed"}

\* One transaction: the audit row and the receipt's completion.  Its answer may be lost, and
\* a receipt that is gone or completed rolls it back with IDEMPOTENCY_KEY_REUSED.
CountUsage(c) ==
  /\ call[c].step = "work"
  /\ \/ /\ Completable(c)
        /\ counted' = [counted EXCEPT ![call[c].account][call[c].event] = @ + 1]
        /\ SetReceipt(c, "done")
        /\ Reply(c, "accepted") \/ GoTo(c, "release", "transient")
     \/ /\ ~Completable(c) /\ GoTo(c, "release", "fatal")
        /\ UNCHANGED server
     \/ /\ GoTo(c, "release", "transient")
        /\ UNCHANGED server
  /\ UNCHANGED <<consent, queue, upload, calls>>

\* release deletes the receipt if it is not completed, whoever claimed it last.
ReleaseReceipt(c) ==
  /\ call[c].step = "release"
  /\ IF Completable(c) THEN SetReceipt(c, "absent") ELSE UNCHANGED receipt
  /\ Reply(c, call[c].verdict)
  /\ UNCHANGED <<consent, queue, upload, calls, counted>>

\* The worker dies, or its release fails.
CallDies(c) ==
  /\ call[c].step \in {"arrive", "work", "release"}
  /\ Reply(c, "transient")
  /\ UNCHANGED <<consent, queue, upload, calls, server>>

\* Thirty seconds have passed.
ReceiptLapses(a, e) ==
  /\ receipt[a][e] = "open"
  /\ receipt' = [receipt EXCEPT ![a][e] = "lapsed"]
  /\ UNCHANGED <<consent, queue, upload, call, calls, counted>>

UsageNext ==
  \/ Consent
  \/ \E e \in Events : RecordUsage(e) \/ \E a \in Accounts : ReceiptLapses(a, e)
  \/ \E u \in Uploaders :
       \/ \E a \in Accounts : BeginUpload(u, a)
       \/ upload[u] # Resting /\ (NextRow(u) \/ TakeAnswer(u) \/ EndUpload(u))
  \/ \E c \in Calls : ClaimReceipt(c) \/ CountUsage(c) \/ ReleaseReceipt(c) \/ CallDies(c)

UsageSpec == UsageInit /\ [][UsageNext]_usageVars

-----------------------------------------------------------------------------
\* docs/local-first-workspaces.md:243-246: per-event receipts make retries idempotent.  An
\* event shown as uploaded was counted, and no account counts an event twice, however often
\* it is sent, by uploads of one store that overlap, crash or lose their answers
\* (analytics.ts:127-158 with usage.ts:43-91).
UsageCountedOnce ==
  \A e \in Events :
    /\ \A a \in Accounts : counted[a][e] <= 1
    /\ queue[e] = "uploaded" => \E a \in Accounts : counted[a][e] = 1
=============================================================================
