--------------------------- MODULE ServicesProofs ---------------------------
(* Why the smaller systems keep what they promise: an account counts a usage *)
(* event once, a revoked version stays out of what is composed, no edit of a *)
(* context overwrites what its editor has not seen, no write is lost when a  *)
(* workspace moves and its moves are tested, and what expires has been       *)
(* counted.  They share nothing: each part of this module is about one of    *)
(* them, and the last shows that it is so where they are checked together.   *)
EXTENDS MCServices, GitSourcesProofs, Integers, FiniteSetTheorems, SequenceTheorems,
        WellFoundedInduction, TLAPS

-----------------------------------------------------------------------------
(* Usage events: UsageDelivery.                                             *)

CallStates ==
  [step : {"arrive", "work", "release", "answered"}, account : Accounts, event : Events,
   verdict : Verdicts]
UploadStates ==
  [step : {"sending"}, account : Accounts, batch : SUBSET Events, waiting : 0..MaxCalls]

\* An account's rows for an event are as many as its completed receipts.
CountedByReceipt ==
  \A a \in Accounts, e \in Events : counted[a][e] = IF receipt[a][e] = "done" THEN 1 ELSE 0

\* Who was told of success was told of a completed receipt.
AcceptedDone ==
  \A c \in Calls :
    /\ call[c].step = "release" => call[c].verdict # "accepted"
    /\ call[c].step = "answered" /\ call[c].verdict = "accepted" =>
         receipt[call[c].account][call[c].event] = "done"

\* So was the queue.
UploadedDone ==
  \A e \in Events : queue[e] = "uploaded" => \E a \in Accounts : receipt[a][e] = "done"

\* An upload waits for a call that was made.
CallsMade ==
  /\ \A c \in Calls : c <= calls => call[c] \in CallStates
  /\ \A u \in Uploaders : upload[u] # Resting => upload[u].waiting <= calls

UsageInv == UsageTypeOK /\ CountedByReceipt /\ AcceptedDone /\ UploadedDone /\ CallsMade

LEMMA UsageInitHolds == ASSUME CallsAssumption PROVE UsageInit => UsageInv
<1> SUFFICES ASSUME UsageInit PROVE UsageInv
  OBVIOUS
<1>1. UsageTypeOK
  <2>1. consent \in BOOLEAN /\ calls \in 0..MaxCalls
    <3>1. consent \in BOOLEAN
      BY Zenon DEF UsageInit
    <3>2. calls \in 0..MaxCalls
      BY DEF CallsAssumption, UsageInit
    <3> QED
      BY <3>1, <3>2
  <2>2. queue \in [Events -> {"unrecorded", "pending", "uploaded", "quarantined"}]
    BY DEF UsageInit
  <2>3. upload \in [Uploaders -> {Resting} \cup UploadStates]
    BY DEF UsageInit
  <2>4. call \in [Calls -> {NoCall} \cup CallStates]
    BY DEF UsageInit
  <2>5. receipt \in [Accounts -> [Events -> {"absent", "open", "lapsed", "done"}]]
    BY DEF UsageInit
  <2>6. counted \in [Accounts -> [Events -> Nat]]
    BY DEF UsageInit
  <2> QED
    BY <2>1, <2>2, <2>3, <2>4, <2>5, <2>6 DEF UsageTypeOK, UploadStates, CallStates
<1>2. CountedByReceipt /\ AcceptedDone /\ UploadedDone
  BY DEF UsageInit, CountedByReceipt, AcceptedDone, UploadedDone, NoCall
<1>3. CallsMade
  BY DEF CallsAssumption, UsageInit, CallsMade, Calls, Resting
<1> QED
  BY <1>1, <1>2, <1>3 DEF UsageInv

\* What the client does: receipts and counts are as they were.
LEMMA ClientHolds ==
  ASSUME CallsAssumption, UsageInv,
         \/ Consent
         \/ \E e \in Events : RecordUsage(e)
         \/ \E u \in Uploaders :
              \/ \E a \in Accounts : BeginUpload(u, a)
              \/ upload[u] # Resting /\ (NextRow(u) \/ TakeAnswer(u) \/ EndUpload(u))
  PROVE  UsageInv'
<1>0. /\ queue \in [Events -> {"unrecorded", "pending", "uploaded", "quarantined"}]
      /\ upload \in [Uploaders -> {Resting} \cup UploadStates]
      /\ call \in [Calls -> {NoCall} \cup CallStates]
      /\ calls \in 0..MaxCalls
  BY DEF UsageInv, UsageTypeOK, UploadStates, CallStates
<1>1. CASE Consent
  BY <1>1 DEF Consent, server, UsageInv, UsageTypeOK, CountedByReceipt, AcceptedDone, UploadedDone, CallsMade
<1>2. ASSUME NEW e \in Events, RecordUsage(e) PROVE UsageInv'
  BY <1>0, <1>2 DEF RecordUsage, server, UsageInv, UsageTypeOK, CountedByReceipt, AcceptedDone, UploadedDone, CallsMade

\* An upload goes on to another state, and the queue with it.
<1>3. ASSUME NEW u \in Uploaders, NEW state \in {Resting} \cup UploadStates,
             upload' = [upload EXCEPT ![u] = state], state # Resting => state.waiting <= calls,
             queue' \in [Events -> {"unrecorded", "pending", "uploaded", "quarantined"}],
             \A e \in Events : queue'[e] = "uploaded" => \E a \in Accounts : receipt[a][e] = "done",
             UNCHANGED <<consent, call, calls, receipt, counted>>
      PROVE  UsageInv'
  <2>1. upload' \in [Uploaders -> {Resting} \cup UploadStates]
    BY <1>0, <1>3
  <2>2. ASSUME NEW t \in Uploaders, upload'[t] # Resting PROVE upload'[t].waiting <= calls
    BY <1>0, <1>3, <2>2 DEF UsageInv, CallsMade
  <2> QED
    BY <1>3, <2>1, <2>2
    DEF UsageInv, UsageTypeOK, UploadStates, CountedByReceipt, AcceptedDone, UploadedDone, CallsMade
<1>4. ASSUME NEW u \in Uploaders, NEW a \in Accounts, BeginUpload(u, a) PROVE UsageInv'
  <2>1. PICK batch \in SUBSET {e \in Events : queue[e] = "pending"} : upload' = [upload EXCEPT ![u] =
            [step |-> "sending", account |-> a, batch |-> batch, waiting |-> 0]]
    BY <1>4, Zenon DEF BeginUpload
  <2> DEFINE state == [step |-> "sending", account |-> a, batch |-> batch, waiting |-> 0]
  <2>2. state \in UploadStates /\ state.waiting = 0
    BY DEF UploadStates, CallsAssumption
  <2>3. upload' = [upload EXCEPT ![u] = state]
    BY <2>1
  <2> HIDE DEF state
  <2>4. UNCHANGED <<consent, queue, call, calls, receipt, counted>>
    BY <1>4, Zenon DEF BeginUpload, server
  <2>5. /\ queue' \in [Events -> {"unrecorded", "pending", "uploaded", "quarantined"}]
        /\ \A e \in Events : queue'[e] = "uploaded" => \E b \in Accounts : receipt[b][e] = "done"
    BY <1>0, <2>4 DEF UsageInv, UploadedDone
  <2>6. state.waiting <= calls
    BY <1>0, <2>2 DEF CallsAssumption
  <2> QED
    BY <1>3, <2>2, <2>3, <2>4, <2>5, <2>6
<1>5. ASSUME NEW u \in Uploaders, upload[u] # Resting, EndUpload(u) PROVE UsageInv'
  BY <1>0, <1>3, <1>5 DEF EndUpload, server, UsageInv, UploadedDone
<1>6. ASSUME NEW u \in Uploaders, upload[u] # Resting
      PROVE  /\ upload[u] \in UploadStates /\ upload[u].waiting <= calls
             /\ upload[u].waiting \in 0..MaxCalls /\ upload[u].batch \subseteq Events
             /\ upload[u].account \in Accounts
  BY <1>0, <1>6 DEF UploadStates, UsageInv, CallsMade
<1>7. ASSUME NEW u \in Uploaders, upload[u] # Resting, TakeAnswer(u) PROVE UsageInv'
  <2> DEFINE c == upload[u].waiting
  <2>1. c # 0 /\ c \in Calls /\ c <= calls
    BY <1>6, <1>7 DEF TakeAnswer, Calls, CallsAssumption
  <2>2. call[c] \in CallStates
    BY <2>1 DEF UsageInv, CallsMade
  <2>3. PICK verdict \in {"transient"} \cup (IF call[c].step = "answered" THEN {call[c].verdict} ELSE {}) :
          queue' = [queue EXCEPT ![call[c].event] = RowAfter(call[c].event, verdict)]
    BY <1>7 DEF TakeAnswer
  <2>4. upload' = [upload EXCEPT ![u].waiting = 0] /\ UNCHANGED <<consent, call, calls, server>>
    BY <1>7 DEF TakeAnswer
  <2> HIDE DEF c
  <2>5. call[c].event \in Events /\ call[c].account \in Accounts
    BY <2>2 DEF CallStates
  <2>6. RowAfter(call[c].event, verdict) \in {"unrecorded", "pending", "uploaded", "quarantined"}
    BY <1>0, <2>5 DEF RowAfter
  <2>7. ASSUME NEW e \in Events, queue'[e] = "uploaded" PROVE \E a \in Accounts : receipt[a][e] = "done"
    <3>1. CASE queue[e] = "uploaded"
      BY <3>1 DEF UsageInv, UploadedDone
    <3>2. CASE queue[e] # "uploaded"
      <4>1. e = call[c].event /\ verdict = "accepted"
        BY <1>0, <2>3, <2>5, <2>7, <3>2 DEF RowAfter
      <4>2. call[c].step = "answered" /\ call[c].verdict = "accepted"
        BY <2>3, <4>1
      <4> QED
        BY <2>1, <2>5, <4>1, <4>2 DEF UsageInv, AcceptedDone
    <3> QED
      BY <3>1, <3>2
  <2>8. [upload[u] EXCEPT !.waiting = 0] \in UploadStates /\ [upload[u] EXCEPT !.waiting = 0].waiting <= calls
    <3>1. upload[u] \in UploadStates
      BY <1>6, <1>7
    <3>2. 0 \in 0..MaxCalls /\ 0 <= calls
      BY <1>0 DEF CallsAssumption
    <3>3. [upload[u] EXCEPT !.waiting = 0].waiting = 0
      BY <3>1 DEF UploadStates
    <3> QED
      BY <3>1, <3>2, <3>3 DEF UploadStates
  <2>9. upload' = [upload EXCEPT ![u] = [upload[u] EXCEPT !.waiting = 0]]
    BY <1>0, <2>4
  <2>10. queue' \in [Events -> {"unrecorded", "pending", "uploaded", "quarantined"}]
    BY <1>0, <2>3, <2>6
  <2> QED
    BY <1>3, <2>4, <2>7, <2>8, <2>9, <2>10 DEF server
<1>8. ASSUME NEW u \in Uploaders, upload[u] # Resting, NEW e \in upload[u].batch, RefuseUnsent(u, e)
      PROVE  UsageInv'
  <2>1. e \in Events
    BY <1>6, <1>8
  <2> DEFINE state == [upload[u] EXCEPT !.batch = @ \ {e}]
  <2>2. state \in UploadStates /\ state.waiting <= calls
    BY <1>6, <1>8 DEF UploadStates
  <2>3. upload' = [upload EXCEPT ![u] = state]
    BY <1>0, <1>8 DEF RefuseUnsent
  <2> HIDE DEF state
  <2>4. queue' = [queue EXCEPT ![e] = "quarantined"] /\ UNCHANGED <<consent, call, calls, server>>
    BY <1>8 DEF RefuseUnsent
  <2>5. \A f \in Events : queue'[f] = "uploaded" => \E a \in Accounts : receipt[a][f] = "done"
    BY <1>0, <2>1, <2>4 DEF UsageInv, UploadedDone
  <2> QED
    BY <1>0, <1>3, <2>1, <2>2, <2>3, <2>4, <2>5 DEF server
<1>9. ASSUME NEW u \in Uploaders, upload[u] # Resting, NEW e \in upload[u].batch, Send(u, e)
      PROVE  UsageInv'
  <2>1. e \in Events /\ upload[u].account \in Accounts
    BY <1>6, <1>9
  <2> DEFINE c == calls + 1
             state == [upload[u] EXCEPT !.batch = @ \ {e}, !.waiting = c]
             made == [step |-> "arrive", account |-> upload[u].account, event |-> e, verdict |-> "none"]
  <2>2. c \in Calls /\ c \in 0..MaxCalls /\ calls \in Nat
    BY <1>0, <1>9 DEF Send, Calls, CallsAssumption
  <2>3. made \in CallStates /\ made.step = "arrive"
    BY <2>1 DEF CallStates, Verdicts
  <2>4. /\ calls' = c /\ call' = [call EXCEPT ![c] = made]
        /\ UNCHANGED <<consent, queue, receipt, counted>>
    BY <1>9 DEF Send, server
  <2>5. state \in UploadStates /\ state.waiting = c
    <3>1. upload[u] \in UploadStates /\ upload[u].batch \ {e} \in SUBSET Events
      BY <1>6, <1>9
    <3>2. [upload[u] EXCEPT !.batch = upload[u].batch \ {e}] \in UploadStates
      BY <3>1 DEF UploadStates
    <3>3. [[upload[u] EXCEPT !.batch = upload[u].batch \ {e}] EXCEPT !.waiting = c] \in UploadStates
      BY <2>2, <3>2 DEF UploadStates
    <3>4. state = [[upload[u] EXCEPT !.batch = upload[u].batch \ {e}] EXCEPT !.waiting = c]
      BY <3>1 DEF UploadStates
    <3>5. state.waiting = c
      BY <3>1 DEF UploadStates
    <3> QED
      BY <3>3, <3>4, <3>5
  <2>6. upload' = [upload EXCEPT ![u] = state]
    BY <1>0, <1>9 DEF Send
  <2> HIDE DEF state, made
  <2>7. call' \in [Calls -> {NoCall} \cup CallStates] /\ upload' \in [Uploaders -> {Resting} \cup UploadStates]
    BY <1>0, <2>2, <2>3, <2>4, <2>5, <2>6
  <2>8. UsageTypeOK'
    BY <2>2, <2>4, <2>7 DEF UsageInv, UsageTypeOK, CallStates, UploadStates
  <2>9. AcceptedDone'
    BY <1>0, <2>2, <2>3, <2>4 DEF UsageInv, AcceptedDone
  <2>10. ASSUME NEW d \in Calls, d <= c PROVE call'[d] \in CallStates
    <3>1. CASE d = c
      BY <1>0, <2>2, <2>3, <2>4, <3>1
    <3>2. CASE d # c
      <4>1. d <= calls
        BY <1>0, <2>2, <2>10, <3>2 DEF Calls
      <4> QED
        BY <1>0, <2>4, <3>2, <4>1 DEF UsageInv, CallsMade
    <3> QED
      BY <3>1, <3>2
  <2>11. ASSUME NEW t \in Uploaders, upload'[t] # Resting PROVE upload'[t].waiting <= c
    <3>1. CASE t = u
      BY <1>0, <2>2, <2>5, <2>6, <3>1
    <3>2. CASE t # u
      <4>1. upload'[t] = upload[t] /\ upload[t] # Resting
        BY <1>0, <2>6, <2>11, <3>2
      <4>2. upload[t].waiting <= calls /\ upload[t].waiting \in 0..MaxCalls
        BY <4>1, <1>6
      <4> QED
        BY <2>2, <4>1, <4>2
    <3> QED
      BY <3>1, <3>2
  <2>12. CallsMade'
    BY <2>4, <2>10, <2>11 DEF CallsMade
  <2> QED
    BY <2>4, <2>8, <2>9, <2>12 DEF UsageInv, CountedByReceipt, UploadedDone
<1>10. ASSUME NEW u \in Uploaders, upload[u] # Resting, NextRow(u) PROVE UsageInv'
  BY <1>8, <1>9, <1>10 DEF NextRow
<1> QED
  BY <1>1, <1>2, <1>4, <1>5, <1>7, <1>10

\* What the server does: a completed receipt stays completed.
LEMMA ServerHolds ==
  ASSUME CallsAssumption, UsageInv,
         \/ \E c \in Calls : ClaimReceipt(c) \/ CountUsage(c) \/ ReleaseReceipt(c) \/ CallDies(c)
         \/ \E e \in Events, a \in Accounts : ReceiptLapses(a, e)
  PROVE  UsageInv'
<1> DEFINE Statuses == {"absent", "open", "lapsed", "done"}
<1>0. /\ queue \in [Events -> {"unrecorded", "pending", "uploaded", "quarantined"}]
      /\ upload \in [Uploaders -> {Resting} \cup UploadStates]
      /\ call \in [Calls -> {NoCall} \cup CallStates]
      /\ receipt \in [Accounts -> [Events -> Statuses]]
      /\ counted \in [Accounts -> [Events -> Nat]]
  BY DEF UsageInv, UsageTypeOK, UploadStates, CallStates

\* One receipt goes on, with its count.
<1>1. ASSUME NEW a \in Accounts, NEW e \in Events, NEW status \in Statuses,
             receipt[a][e] # "done", receipt' = [receipt EXCEPT ![a][e] = status],
             counted' = IF status = "done" THEN [counted EXCEPT ![a][e] = @ + 1] ELSE counted
      PROVE  /\ receipt' \in [Accounts -> [Events -> Statuses]]
             /\ counted' \in [Accounts -> [Events -> Nat]]
             /\ CountedByReceipt'
             /\ receipt'[a][e] = status
             /\ \A b \in Accounts, f \in Events : receipt[b][f] = "done" => receipt'[b][f] = "done"
  <2>1. counted[a][e] = 0
    BY <1>1 DEF UsageInv, CountedByReceipt
  <2>2. receipt' \in [Accounts -> [Events -> Statuses]] /\ receipt'[a][e] = status
    BY <1>0, <1>1
  <2>3. /\ counted' \in [Accounts -> [Events -> Nat]]
        /\ counted'[a][e] = IF status = "done" THEN 1 ELSE 0
    BY <1>0, <1>1, <2>1
  <2>4. ASSUME NEW b \in Accounts, NEW f \in Events, ~(b = a /\ f = e)
        PROVE  receipt'[b][f] = receipt[b][f] /\ counted'[b][f] = counted[b][f]
    BY <1>0, <1>1, <2>4
  <2>5. CountedByReceipt'
    <3>1. ASSUME NEW b \in Accounts, NEW f \in Events
          PROVE  counted'[b][f] = IF receipt'[b][f] = "done" THEN 1 ELSE 0
      <4>1. CASE b = a /\ f = e
        BY <2>2, <2>3, <4>1
      <4>2. CASE ~(b = a /\ f = e)
        BY <2>4, <4>2 DEF UsageInv, CountedByReceipt
      <4> QED
        BY <4>1, <4>2
    <3> QED
      BY <3>1 DEF CountedByReceipt
  <2>6. \A b \in Accounts, f \in Events : receipt[b][f] = "done" => receipt'[b][f] = "done"
    BY <1>1, <2>4
  <2> QED
    BY <2>2, <2>3, <2>5, <2>6

\* What a step of one call has to leave behind.
<1>2. ASSUME NEW c \in Calls, NEW where \in {"work", "release", "answered"}, NEW verdict \in Verdicts,
             call[c].step \in {"arrive", "work", "release"}, GoTo(c, where, verdict),
             where = "release" => verdict # "accepted",
             where = "answered" /\ verdict = "accepted" =>
               receipt'[call[c].account][call[c].event] = "done",
             receipt' \in [Accounts -> [Events -> Statuses]],
             counted' \in [Accounts -> [Events -> Nat]],
             CountedByReceipt',
             \A b \in Accounts, f \in Events : receipt[b][f] = "done" => receipt'[b][f] = "done",
             UNCHANGED <<consent, queue, upload, calls>>
      PROVE  UsageInv'
  <2>1. call[c] \in CallStates
    BY <1>0, <1>2 DEF NoCall
  <2> DEFINE state == [[call[c] EXCEPT !.step = where] EXCEPT !.verdict = verdict]
  <2>2. /\ state \in CallStates /\ state.step = where /\ state.verdict = verdict
        /\ state.account = call[c].account /\ state.event = call[c].event
    BY <2>1 DEF CallStates
  <2>3. call' = [call EXCEPT ![c] = state]
    BY <1>0, <1>2 DEF GoTo
  <2> HIDE DEF state
  <2>4. call' \in [Calls -> {NoCall} \cup CallStates] /\ call'[c] = state
    BY <1>0, <2>2, <2>3
  <2>5. \A d \in Calls : d # c => call'[d] = call[d]
    BY <1>0, <2>3
  <2>6. UsageTypeOK'
    BY <1>2, <2>4 DEF UsageInv, UsageTypeOK, CallStates
  <2>7. ASSUME NEW d \in Calls
        PROVE  /\ call'[d].step = "release" => call'[d].verdict # "accepted"
               /\ call'[d].step = "answered" /\ call'[d].verdict = "accepted" =>
                    receipt'[call'[d].account][call'[d].event] = "done"
    <3>1. CASE d = c
      BY <1>2, <2>2, <2>4, <3>1
    <3>2. CASE d # c
      <4>1. ASSUME call[d].step = "answered"
            PROVE  call[d].account \in Accounts /\ call[d].event \in Events
        BY <1>0, <4>1 DEF NoCall, CallStates
      <4> QED
        BY <1>2, <2>5, <3>2, <4>1 DEF UsageInv, AcceptedDone
    <3> QED
      BY <3>1, <3>2
  <2>8. AcceptedDone'
    BY <2>7 DEF AcceptedDone
  <2>9. UploadedDone'
    BY <1>2 DEF UsageInv, UploadedDone
  <2>10. ASSUME NEW d \in Calls, d <= calls PROVE call'[d] \in CallStates
    BY <2>2, <2>4, <2>5, <2>10 DEF UsageInv, CallsMade
  <2>11. CallsMade'
    BY <1>2, <2>10 DEF UsageInv, CallsMade
  <2> QED
    BY <1>2, <2>6, <2>8, <2>9, <2>11 DEF UsageInv
<1>3. ASSUME NEW c \in Calls, call[c].step \in {"arrive", "work", "release"}
      PROVE  /\ call[c].account \in Accounts /\ call[c].event \in Events
             /\ call[c].verdict \in Verdicts
             /\ Receipt(c) = receipt[call[c].account][call[c].event]
  BY <1>0, <1>3 DEF NoCall, CallStates, Receipt

\* A step that leaves the receipts as they are.
<1>4. ASSUME NEW c \in Calls, NEW where \in {"work", "release", "answered"}, NEW verdict \in Verdicts,
             call[c].step \in {"arrive", "work", "release"}, GoTo(c, where, verdict),
             where = "release" => verdict # "accepted",
             where = "answered" /\ verdict = "accepted" => Receipt(c) = "done",
             UNCHANGED <<consent, queue, upload, calls, receipt, counted>>
      PROVE  UsageInv'
  <2>1. CountedByReceipt'
    BY <1>4 DEF UsageInv, CountedByReceipt
  <2> QED
    BY <1>0, <1>2, <1>3, <1>4, <2>1
<1>5. ASSUME NEW c \in Calls, ClaimReceipt(c) PROVE UsageInv'
  <2>1. call[c].step = "arrive" /\ UNCHANGED <<consent, queue, upload, calls, counted>>
    BY <1>5, Zenon DEF ClaimReceipt
  <2>2. ASSUME NEW verdict \in {"fatal", "transient"}, Reply(c, verdict), UNCHANGED receipt PROVE UsageInv'
    BY <1>4, <2>1, <2>2 DEF Reply, Verdicts
  <2>3. ASSUME Receipt(c) = "done", Reply(c, "accepted"), UNCHANGED receipt PROVE UsageInv'
    BY <1>4, <2>1, <2>3 DEF Reply, Verdicts
  <2>4. ASSUME Receipt(c) = "open", Reply(c, "transient"), UNCHANGED receipt PROVE UsageInv'
    BY <1>4, <2>1, <2>4 DEF Reply, Verdicts
  <2>5. ASSUME Receipt(c) \in {"absent", "lapsed"}, GoTo(c, "work", "none"), SetReceipt(c, "open")
        PROVE  UsageInv'
    <3>1. /\ receipt' = [receipt EXCEPT ![call[c].account][call[c].event] = "open"]
          /\ receipt[call[c].account][call[c].event] # "done"
          /\ call[c].account \in Accounts /\ call[c].event \in Events
      BY <1>3, <2>1, <2>5 DEF SetReceipt
    <3>2. /\ receipt' \in [Accounts -> [Events -> Statuses]]
          /\ counted' \in [Accounts -> [Events -> Nat]]
          /\ CountedByReceipt'
          /\ \A b \in Accounts, f \in Events : receipt[b][f] = "done" => receipt'[b][f] = "done"
      BY <1>1, <2>1, <3>1
    <3> QED
      BY <1>2, <2>1, <2>5, <3>2 DEF Verdicts
  <2> QED
    BY <1>5, <2>2, <2>3, <2>4, <2>5, Zenon DEF ClaimReceipt
<1>6. ASSUME NEW c \in Calls, CountUsage(c) PROVE UsageInv'
  <2>1. call[c].step = "work" /\ UNCHANGED <<consent, queue, upload, calls>>
    BY <1>6, Zenon DEF CountUsage
  <2>2. ASSUME Completable(c),
               counted' = [counted EXCEPT ![call[c].account][call[c].event] = @ + 1],
               SetReceipt(c, "done"), Reply(c, "accepted") \/ GoTo(c, "release", "transient")
        PROVE  UsageInv'
    <3>1. /\ receipt' = [receipt EXCEPT ![call[c].account][call[c].event] = "done"]
          /\ receipt[call[c].account][call[c].event] # "done"
          /\ call[c].account \in Accounts /\ call[c].event \in Events
      BY <1>3, <2>1, <2>2 DEF SetReceipt, Completable
    <3>2. /\ receipt' \in [Accounts -> [Events -> Statuses]]
          /\ counted' \in [Accounts -> [Events -> Nat]]
          /\ CountedByReceipt'
          /\ receipt'[call[c].account][call[c].event] = "done"
          /\ \A b \in Accounts, f \in Events : receipt[b][f] = "done" => receipt'[b][f] = "done"
      BY <1>1, <2>2, <3>1
    <3>3. CASE GoTo(c, "answered", "accepted")
      BY <1>2, <2>1, <3>2, <3>3 DEF Verdicts
    <3>4. CASE GoTo(c, "release", "transient")
      BY <1>2, <2>1, <3>2, <3>4 DEF Verdicts
    <3> QED
      BY <2>2, <3>3, <3>4 DEF Reply
  <2>3. ASSUME NEW verdict \in {"fatal", "transient"}, GoTo(c, "release", verdict), UNCHANGED server
        PROVE  UsageInv'
    BY <1>4, <2>1, <2>3 DEF server, Verdicts
  <2> QED
    BY <1>6, <2>2, <2>3, Zenon DEF CountUsage
<1>7. ASSUME NEW c \in Calls, ReleaseReceipt(c) PROVE UsageInv'
  <2>1. /\ call[c].step = "release" /\ GoTo(c, "answered", call[c].verdict)
        /\ UNCHANGED <<consent, queue, upload, calls, counted>>
        /\ IF Completable(c) THEN SetReceipt(c, "absent") ELSE UNCHANGED receipt
    BY <1>7, Zenon DEF ReleaseReceipt, Reply
  <2>2. call[c].verdict # "accepted" /\ call[c].verdict \in Verdicts
    BY <1>3, <2>1 DEF UsageInv, AcceptedDone
  <2>3. CASE ~Completable(c)
    BY <1>4, <2>1, <2>2, <2>3
  <2>4. CASE Completable(c)
    <3>1. /\ receipt' = [receipt EXCEPT ![call[c].account][call[c].event] = "absent"]
          /\ receipt[call[c].account][call[c].event] # "done"
          /\ call[c].account \in Accounts /\ call[c].event \in Events
      BY <1>3, <2>1, <2>4 DEF SetReceipt, Completable
    <3>2. /\ receipt' \in [Accounts -> [Events -> Statuses]]
          /\ counted' \in [Accounts -> [Events -> Nat]]
          /\ CountedByReceipt'
          /\ \A b \in Accounts, f \in Events : receipt[b][f] = "done" => receipt'[b][f] = "done"
      BY <1>1, <2>1, <3>1
    <3> QED
      BY <1>2, <2>1, <2>2, <3>2
  <2> QED
    BY <2>3, <2>4
<1>8. ASSUME NEW c \in Calls, CallDies(c) PROVE UsageInv'
  BY <1>4, <1>8 DEF CallDies, Reply, server, Verdicts
<1>9. ASSUME NEW a \in Accounts, NEW e \in Events, ReceiptLapses(a, e) PROVE UsageInv'
  <2>1. /\ receipt[a][e] # "done" /\ receipt' = [receipt EXCEPT ![a][e] = "lapsed"]
        /\ UNCHANGED <<consent, queue, upload, call, calls, counted>>
    BY <1>9 DEF ReceiptLapses
  <2>2. /\ receipt' \in [Accounts -> [Events -> Statuses]]
        /\ counted' \in [Accounts -> [Events -> Nat]]
        /\ CountedByReceipt'
        /\ \A b \in Accounts, f \in Events : receipt[b][f] = "done" => receipt'[b][f] = "done"
    BY <1>1, <2>1
  <2>3. UsageTypeOK'
    BY <2>1, <2>2 DEF UsageInv, UsageTypeOK
  <2>4. ASSUME NEW d \in Calls, call[d].step = "answered"
        PROVE  call[d].account \in Accounts /\ call[d].event \in Events
    BY <1>0, <2>4 DEF NoCall, CallStates
  <2>5. AcceptedDone'
    BY <2>1, <2>2, <2>4 DEF UsageInv, AcceptedDone
  <2>6. UploadedDone' /\ CallsMade'
    BY <2>1, <2>2 DEF UsageInv, UploadedDone, CallsMade
  <2> QED
    BY <2>2, <2>3, <2>5, <2>6 DEF UsageInv
<1> QED
  BY <1>5, <1>6, <1>7, <1>8, <1>9

\* The invariant holds in every state: a receipt, its count and what was told of it agree.
THEOREM ReceiptsAgree == UsageSpec => []UsageInv
<1>1. UsageInit => UsageInv
  BY CallsAssumption, UsageInitHolds
<1>2. UsageInv /\ [UsageNext]_usageVars => UsageInv'
  <2> SUFFICES ASSUME UsageInv, [UsageNext]_usageVars PROVE UsageInv'
    OBVIOUS
  <2>1. CASE UNCHANGED usageVars
    BY <2>1 DEF usageVars, UsageInv, UsageTypeOK, CountedByReceipt, AcceptedDone, UploadedDone, CallsMade
  <2>2. CASE UsageNext
    BY <2>2, CallsAssumption, ClientHolds, ServerHolds, Zenon DEF UsageNext
  <2> QED
    BY <2>1, <2>2
<1> QED
  BY <1>1, <1>2, PTL DEF UsageSpec

\* An event shown as uploaded was counted, and no account counts an event twice
\* (analytics.ts:127-158 with usage.ts:43-91), whatever overlaps, crashes or is sent again.
THEOREM CountedOncePerAccount == UsageSpec => []UsageCountedOnce
<1>1. UsageInv => UsageCountedOnce
  BY DEF UsageInv, CountedByReceipt, UploadedDone, UsageCountedOnce
<1> QED
  BY <1>1, ReceiptsAgree, PTL

-----------------------------------------------------------------------------
(* Revoked versions: Composition.                                           *)

SetterStates == [step : {"check", "control", "cell", "release"}, order : Orders]
ResolverStates ==
  [step : {"mark", "source", "answered"}, todo : SUBSET Lock, node : Lock,
   publishing : BOOLEAN, seen : [Lock -> Marks], revokedBefore : SUBSET Lock]

\* A mark is in the control plane before it is anywhere else.
ControlFirst ==
  /\ \A v \in Lock : cellMark[v] \subseteq controlMark[v]
  /\ \A s \in Setters : setter[s].step = "cell" =>
       OrderOf[setter[s].order].state \in controlMark[OrderOf[setter[s].order].version]

\* An order that was answered is done, and a done order's mark is in the cell.
DoneMarked ==
  /\ \A o \in told : claim[o] = "done"
  /\ \A o \in Orders : claim[o] = "done" => OrderOf[o].state \in cellMark[OrderOf[o].version]

\* What was revoked when a reader began is revoked for it still, and is among the nodes whose
\* marks it has not read.
StillAhead ==
  \A r \in Resolvers :
    /\ resolver[r].step # "resting" =>
         \A v \in resolver[r].revokedBefore : "revoked" \in controlMark[v]
    /\ resolver[r].step = "mark" =>
         resolver[r].revokedBefore \subseteq resolver[r].todo \cup {resolver[r].node}
    /\ resolver[r].step = "source" => resolver[r].revokedBefore \subseteq resolver[r].todo
    /\ resolver[r].step = "answered" => resolver[r].revokedBefore = {}

CompositionInv == CompositionTypeOK /\ ControlFirst /\ DoneMarked /\ StillAhead

LEMMA CompositionInitHolds == ASSUME OrdersAssumption PROVE CompositionInit => CompositionInv
  BY DEF CompositionInit, CompositionInv, CompositionTypeOK, ControlFirst, DoneMarked, StillAhead,
         NoSetter, NoResolver, Marks

\* Where an attempt is, the marks and the claims being as they were.
LEMMA SetterMoves ==
  ASSUME OrdersAssumption, CompositionInv, NEW s \in Setters, NEW state \in SetterStates \cup {NoSetter},
         setter' = [setter EXCEPT ![s] = state],
         state.step = "cell" => OrderOf[state.order].state \in controlMark'[OrderOf[state.order].version],
         \A v \in Lock : controlMark[v] \subseteq controlMark'[v]
  PROVE  /\ setter' \in [Setters -> {NoSetter} \cup SetterStates]
         /\ \A t \in Setters : setter'[t].step = "cell" =>
              OrderOf[setter'[t].order].state \in controlMark'[OrderOf[setter'[t].order].version]
<1>1. setter \in [Setters -> {NoSetter} \cup SetterStates]
  BY DEF CompositionInv, CompositionTypeOK, SetterStates
<1>2. setter' \in [Setters -> {NoSetter} \cup SetterStates]
  BY <1>1
<1>3. ASSUME NEW t \in Setters, setter'[t].step = "cell"
      PROVE  OrderOf[setter'[t].order].state \in controlMark'[OrderOf[setter'[t].order].version]
  <2>1. CASE t = s
    BY <1>1, <1>3, <2>1
  <2>2. CASE t # s
    <3>1. setter'[t] = setter[t]
      BY <1>1, <2>2
    <3>2. setter[t] \in SetterStates
      BY <1>1, <1>3, <3>1 DEF NoSetter
    <3>3. OrderOf[setter[t].order].version \in Lock
      BY <3>2 DEF OrdersAssumption, SetterStates
    <3>4. OrderOf[setter[t].order].state \in controlMark[OrderOf[setter[t].order].version]
      BY <1>3, <3>1 DEF CompositionInv, ControlFirst
    <3> QED
      BY <3>1, <3>3, <3>4
  <2> QED
    BY <2>1, <2>2
<1> QED
  BY <1>2, <1>3

LEMMA SetterHolds ==
  ASSUME OrdersAssumption, CompositionInv, NEW s \in Setters,
         \/ \E o \in Orders : ClaimOrder(s, o)
         \/ CheckVersion(s) \/ MarkControl(s) \/ MarkCell(s) \/ ReleaseClaim(s) \/ SetterDies(s)
  PROVE  CompositionInv'
<1>0. /\ controlMark \in [Lock -> Marks] /\ cellMark \in [Lock -> Marks]
      /\ claim \in [Orders -> {"absent", "open", "done"}]
      /\ setter \in [Setters -> {NoSetter} \cup SetterStates]
      /\ told \subseteq Orders
  BY DEF CompositionInv, CompositionTypeOK, SetterStates
<1>1. ASSUME NEW step \in {"control", "cell", "release"}, NEW f \in {"check", "control", "cell"}, At(s, f)
      PROVE  [setter[s] EXCEPT !.step = step] \in SetterStates
             /\ setter[s] \in SetterStates /\ setter[s].order \in Orders
  BY <1>0, <1>1 DEF At, NoSetter, SetterStates

\* A failed attempt only goes on to its release.
<1>2. ASSUME NEW f \in {"check", "control", "cell"}, At(s, f), Fails(s) PROVE CompositionInv'
  <2> DEFINE state == [setter[s] EXCEPT !.step = "release"]
  <2>1. state \in SetterStates /\ state.step = "release"
    BY <1>1, <1>2 DEF SetterStates
  <2>2. setter' = [setter EXCEPT ![s] = state]
        /\ UNCHANGED <<controlMark, cellMark, claim, told, resolver>>
    BY <1>0, <1>2 DEF Fails, GotoStep
  <2> HIDE DEF state
  <2> QED
    BY <1>0, <2>1, <2>2, SetterMoves
    DEF CompositionInv, CompositionTypeOK, ControlFirst, DoneMarked, StillAhead, SetterStates
<1>3. ASSUME NEW o \in Orders, ClaimOrder(s, o) PROVE CompositionInv'
  <2>1. CASE claim[o] = "done"
    <3>1. /\ told' = told \cup {o}
          /\ UNCHANGED <<controlMark, cellMark, claim, setter, resolver>>
      BY <1>3, <2>1 DEF ClaimOrder
    <3> QED
      BY <1>0, <2>1, <3>1
      DEF CompositionInv, CompositionTypeOK, ControlFirst, DoneMarked, StillAhead
  <2>2. CASE claim[o] # "done"
    <3> DEFINE state == [step |-> "check", order |-> o]
    <3>1. state \in SetterStates /\ state.step = "check"
      BY DEF SetterStates
    <3>2. /\ claim' = [claim EXCEPT ![o] = "open"]
          /\ setter' = [setter EXCEPT ![s] = state]
          /\ UNCHANGED <<controlMark, cellMark, told, resolver>>
      BY <1>3, <2>2 DEF ClaimOrder
    <3> HIDE DEF state
    <3>3. o \notin told
      BY <2>2 DEF CompositionInv, DoneMarked
    <3>4. DoneMarked'
      BY <1>0, <3>2, <3>3 DEF CompositionInv, DoneMarked
    <3> QED
      BY <1>0, <3>1, <3>2, <3>4, SetterMoves
      DEF CompositionInv, CompositionTypeOK, ControlFirst, StillAhead, SetterStates
  <2> QED
    BY <2>1, <2>2
<1>4. ASSUME CheckVersion(s) PROVE CompositionInv'
  <2>1. At(s, "check")
    BY <1>4 DEF CheckVersion
  <2>2. CASE Fails(s)
    BY <1>2, <2>1, <2>2
  <2>3. CASE GotoStep(s, "control") /\ UNCHANGED <<controlMark, cellMark, claim, told, resolver>>
    <3> DEFINE state == [setter[s] EXCEPT !.step = "control"]
    <3>1. state \in SetterStates /\ state.step = "control"
      BY <1>1, <2>1 DEF SetterStates
    <3>2. setter' = [setter EXCEPT ![s] = state]
      BY <1>0, <2>3 DEF GotoStep
    <3> HIDE DEF state
    <3> QED
      BY <1>0, <2>3, <3>1, <3>2, SetterMoves
      DEF CompositionInv, CompositionTypeOK, ControlFirst, DoneMarked, StillAhead, SetterStates
  <2> QED
    BY <1>4, <2>2, <2>3 DEF CheckVersion
<1>5. ASSUME MarkControl(s) PROVE CompositionInv'
  <2>1. At(s, "control")
    BY <1>5 DEF MarkControl
  <2>2. CASE Fails(s)
    BY <1>2, <2>1, <2>2
  <2>3. ASSUME controlMark' = Marked(controlMark, setter[s].order), NEW step \in {"cell", "release"},
               GotoStep(s, step), UNCHANGED <<cellMark, claim, told, resolver>>
        PROVE  CompositionInv'
    <3> DEFINE state == [setter[s] EXCEPT !.step = step]
               order == OrderOf[setter[s].order]
    <3>1. state \in SetterStates /\ state.order = setter[s].order
      BY <1>1, <2>1 DEF SetterStates
    <3>2. setter' = [setter EXCEPT ![s] = state]
      BY <1>0, <2>3 DEF GotoStep
    <3>3. order.version \in Lock /\ order.state \in {"deprecated", "revoked"}
      BY <1>1, <2>1 DEF OrdersAssumption
    <3>4. controlMark' = [controlMark EXCEPT ![order.version] = @ \cup {order.state}]
      BY <2>3 DEF Marked
    <3> HIDE DEF state, order
    <3>5. controlMark' \in [Lock -> Marks]
      BY <1>0, <3>3, <3>4 DEF Marks
    <3>6. /\ \A v \in Lock : controlMark[v] \subseteq controlMark'[v]
          /\ order.state \in controlMark'[order.version]
      BY <1>0, <3>3, <3>4
    <3>7. /\ setter' \in [Setters -> {NoSetter} \cup SetterStates]
          /\ \A t \in Setters : setter'[t].step = "cell" =>
               OrderOf[setter'[t].order].state \in controlMark'[OrderOf[setter'[t].order].version]
      BY <3>1, <3>2, <3>6, SetterMoves DEF order
    <3>8. StillAhead'
      <4>1. ASSUME NEW r \in Resolvers, resolver[r].step # "resting", NEW v \in resolver[r].revokedBefore
            PROVE  "revoked" \in controlMark'[v]
        <5>1. resolver[r] \in ResolverStates
          BY <4>1 DEF CompositionInv, CompositionTypeOK, ResolverStates, NoResolver
        <5>2. v \in Lock
          BY <4>1, <5>1 DEF ResolverStates
        <5>3. "revoked" \in controlMark[v]
          BY <4>1 DEF CompositionInv, StillAhead
        <5> QED
          BY <3>6, <5>2, <5>3
      <4> QED
        BY <2>3, <4>1 DEF CompositionInv, StillAhead
    <3> QED
      BY <1>0, <2>3, <3>5, <3>6, <3>7, <3>8
      DEF CompositionInv, CompositionTypeOK, ControlFirst, DoneMarked, SetterStates
  <2> QED
    BY <1>5, <2>2, <2>3, Zenon DEF MarkControl
<1>6. ASSUME MarkCell(s) PROVE CompositionInv'
  <2> DEFINE o == setter[s].order
  <2>1. At(s, "cell") /\ o \in Orders /\ setter[s] \in SetterStates
    BY <1>1, <1>6 DEF MarkCell
  <2>2. CASE Fails(s)
    BY <1>2, <2>1, <2>2
  <2>3. ASSUME claim[o] = "open",
               cellMark' = [cellMark EXCEPT ![OrderOf[o].version] = @ \cup {OrderOf[o].state}],
               claim' = [claim EXCEPT ![o] = "done"],
               \/ told' = told \cup {o} /\ setter' = [setter EXCEPT ![s] = NoSetter]
               \/ GotoStep(s, "release") /\ UNCHANGED told,
               UNCHANGED <<controlMark, resolver>>
        PROVE  CompositionInv'
    <3> HIDE DEF o
    <3>1. OrderOf[o].version \in Lock /\ OrderOf[o].state \in {"deprecated", "revoked"}
      BY <2>1 DEF OrdersAssumption
    <3>2. OrderOf[o].state \in controlMark[OrderOf[o].version]
      BY <2>1 DEF CompositionInv, ControlFirst, At, o
    <3>3. \E state \in SetterStates \cup {NoSetter} :
            state.step # "cell" /\ setter' = [setter EXCEPT ![s] = state]
      <4>1. CASE setter' = [setter EXCEPT ![s] = NoSetter]
        BY <4>1 DEF NoSetter
      <4>2. CASE GotoStep(s, "release")
        <5>1. [setter[s] EXCEPT !.step = "release"] \in SetterStates
              /\ [setter[s] EXCEPT !.step = "release"].step # "cell"
          BY <2>1 DEF SetterStates
        <5>2. setter' = [setter EXCEPT ![s] = [setter[s] EXCEPT !.step = "release"]]
          BY <1>0, <4>2 DEF GotoStep
        <5> QED
          BY <5>1, <5>2
      <4> QED
        BY <2>3, <4>1, <4>2
    <3>4. PICK state \in SetterStates \cup {NoSetter} :
            state.step # "cell" /\ setter' = [setter EXCEPT ![s] = state]
      BY <3>3
    <3>5. /\ setter' \in [Setters -> {NoSetter} \cup SetterStates]
          /\ \A t \in Setters : setter'[t].step = "cell" =>
               OrderOf[setter'[t].order].state \in controlMark'[OrderOf[setter'[t].order].version]
      BY <2>3, <3>4, SetterMoves
    <3>6. /\ cellMark' \in [Lock -> Marks]
          /\ \A v \in Lock : cellMark'[v] \subseteq controlMark[v]
          /\ \A v \in Lock : cellMark[v] \subseteq cellMark'[v]
          /\ OrderOf[o].state \in cellMark'[OrderOf[o].version]
      BY <1>0, <2>3, <3>1, <3>2 DEF Marks, CompositionInv, ControlFirst
    <3>7. ASSUME NEW p \in Orders, claim'[p] = "done"
          PROVE  OrderOf[p].state \in cellMark'[OrderOf[p].version]
      <4>1. CASE p = o
        BY <3>6, <4>1
      <4>2. CASE p # o
        <5>1. claim[p] = "done" /\ OrderOf[p].version \in Lock
          BY <1>0, <2>3, <3>7, <4>2 DEF OrdersAssumption
        <5> QED
          BY <3>6, <5>1 DEF CompositionInv, DoneMarked
      <4> QED
        BY <4>1, <4>2
    <3>8. DoneMarked'
      <4>1. told' \subseteq told \cup {o}
        BY <2>3
      <4> QED
        BY <1>0, <2>1, <2>3, <3>7, <4>1 DEF CompositionInv, DoneMarked
    <3>9. CompositionTypeOK'
      BY <1>0, <2>1, <2>3, <3>5, <3>6 DEF CompositionInv, CompositionTypeOK, SetterStates
    <3> QED
      BY <2>3, <3>5, <3>6, <3>8, <3>9 DEF CompositionInv, ControlFirst, StillAhead
  <2> HIDE DEF o
  <2> QED
    BY <1>6, <2>2, <2>3, Zenon DEF MarkCell, o
<1>7. ASSUME ReleaseClaim(s) \/ SetterDies(s) PROVE CompositionInv'
  <2>1. /\ setter' = [setter EXCEPT ![s] = NoSetter]
        /\ UNCHANGED <<controlMark, cellMark, told, resolver>>
    BY <1>7 DEF ReleaseClaim, SetterDies
  <2>2. /\ claim' \in [Orders -> {"absent", "open", "done"}]
        /\ \A o \in Orders : claim'[o] = "done" <=> claim[o] = "done"
    <3>1. CASE ReleaseClaim(s)
      <4>1. claim' = IF claim[setter[s].order] = "open"
                     THEN [claim EXCEPT ![setter[s].order] = "absent"] ELSE claim
        BY <3>1 DEF ReleaseClaim
      <4> QED
        BY <1>0, <4>1
    <3>2. CASE SetterDies(s)
      BY <1>0, <3>2 DEF SetterDies
    <3> QED
      BY <1>7, <3>1, <3>2
  <2>3. /\ setter' \in [Setters -> {NoSetter} \cup SetterStates]
        /\ \A t \in Setters : setter'[t].step = "cell" =>
             OrderOf[setter'[t].order].state \in controlMark'[OrderOf[setter'[t].order].version]
    BY <2>1, SetterMoves DEF NoSetter
  <2> QED
    BY <1>0, <2>1, <2>2, <2>3
    DEF CompositionInv, CompositionTypeOK, ControlFirst, DoneMarked, StillAhead, SetterStates
<1> QED
  BY <1>3, <1>4, <1>5, <1>6, <1>7

\* A reader takes a step, the marks being as they are.
LEMMA ReaderMoves ==
  ASSUME CompositionInv, NEW r \in Resolvers, NEW state \in ResolverStates \cup {NoResolver},
         resolver' = [resolver EXCEPT ![r] = state],
         UNCHANGED <<controlMark, cellMark, claim, setter, told>>,
         state.step # "resting" => \A v \in state.revokedBefore : "revoked" \in controlMark[v],
         state.step = "mark" => state.revokedBefore \subseteq state.todo \cup {state.node},
         state.step = "source" => state.revokedBefore \subseteq state.todo,
         state.step = "answered" => state.revokedBefore = {}
  PROVE  CompositionInv'
<1>1. resolver \in [Resolvers -> {NoResolver} \cup ResolverStates]
  BY DEF CompositionInv, CompositionTypeOK, ResolverStates
<1>2. CompositionTypeOK' /\ ControlFirst' /\ DoneMarked'
  BY <1>1 DEF CompositionInv, CompositionTypeOK, ControlFirst, DoneMarked, ResolverStates
<1>3. ASSUME NEW q \in Resolvers
      PROVE  /\ resolver'[q].step # "resting" =>
                  \A v \in resolver'[q].revokedBefore : "revoked" \in controlMark[v]
             /\ resolver'[q].step = "mark" =>
                  resolver'[q].revokedBefore \subseteq resolver'[q].todo \cup {resolver'[q].node}
             /\ resolver'[q].step = "source" => resolver'[q].revokedBefore \subseteq resolver'[q].todo
             /\ resolver'[q].step = "answered" => resolver'[q].revokedBefore = {}
  <2>1. CASE q = r
    <3>1. resolver'[q] = state
      BY <1>1, <2>1
    <3> QED
      BY <3>1
  <2>2. CASE q # r
    <3>1. resolver'[q] = resolver[q]
      BY <1>1, <2>2
    <3> QED
      BY <3>1 DEF CompositionInv, StillAhead
  <2> QED
    BY <2>1, <2>2
<1> QED
  BY <1>2, <1>3 DEF CompositionInv, StillAhead

LEMMA ReaderHolds ==
  ASSUME OrdersAssumption, CompositionInv, NEW r \in Resolvers,
         BeginResolve(r) \/ ReadMark(r) \/ ReadSource(r)
  PROVE  CompositionInv'
<1>0. resolver \in [Resolvers -> {NoResolver} \cup ResolverStates] /\ cellMark \in [Lock -> Marks]
  BY DEF CompositionInv, CompositionTypeOK, ResolverStates
<1>1. ASSUME resolver[r].step # "resting"
      PROVE  resolver[r] \in ResolverStates
  BY <1>0, <1>1 DEF NoResolver
<1>2. ASSUME Refused(r), UNCHANGED <<controlMark, cellMark, claim, setter, told>>
      PROVE  CompositionInv'
  BY <1>2, ReaderMoves DEF Refused, NoResolver
<1>3. CASE BeginResolve(r)
  <2>1. UNCHANGED <<controlMark, cellMark, claim, setter, told>>
    BY <1>3 DEF BeginResolve
  <2>2. PICK publishing \in BOOLEAN : \E first \in Lock :
       resolver' = [resolver EXCEPT ![r] =
         [step |-> "mark", todo |-> Lock \ {first}, node |-> first, publishing |-> publishing,
          seen |-> IF publishing THEN cellMark ELSE [v \in Lock |-> {}],
          revokedBefore |-> RevokedNow]]
    BY <1>3 DEF BeginResolve
  <2>3. PICK first \in Lock :
       resolver' = [resolver EXCEPT ![r] =
         [step |-> "mark", todo |-> Lock \ {first}, node |-> first, publishing |-> publishing,
          seen |-> IF publishing THEN cellMark ELSE [v \in Lock |-> {}],
          revokedBefore |-> RevokedNow]]
    BY <2>2
  <2> DEFINE seen == IF publishing THEN cellMark ELSE [v \in Lock |-> {}]
             state == [step |-> "mark", todo |-> Lock \ {first}, node |-> first,
                       publishing |-> publishing, seen |-> seen, revokedBefore |-> RevokedNow]
  <2>4. seen \in [Lock -> Marks]
    BY <1>0 DEF Marks
  <2>5. RevokedNow \subseteq Lock
    BY DEF RevokedNow
  <2>6. ASSUME NEW v \in RevokedNow PROVE "revoked" \in controlMark[v]
    <3>1. v \in Lock
      BY DEF RevokedNow
    <3>2. CASE "revoked" \in cellMark[v]
      BY <3>1, <3>2 DEF CompositionInv, ControlFirst
    <3>3. ASSUME NEW o \in told, OrderOf[o] = [version |-> v, state |-> "revoked"]
          PROVE  "revoked" \in controlMark[v]
      <4>1. o \in Orders /\ claim[o] = "done"
        BY DEF CompositionInv, CompositionTypeOK, DoneMarked
      <4>2. "revoked" \in cellMark[v]
        BY <3>3, <4>1 DEF CompositionInv, DoneMarked
      <4> QED
        BY <3>1, <4>2 DEF CompositionInv, ControlFirst
    <3> QED
      BY <3>2, <3>3 DEF RevokedNow
  <2>7. state \in ResolverStates
    <3> HIDE DEF seen
    <3> QED
      BY <2>4, <2>5 DEF ResolverStates
  <2>8. /\ state.step = "mark" /\ state.revokedBefore = RevokedNow
        /\ state.revokedBefore \subseteq state.todo \cup {state.node}
    BY <2>5
  <2>9. resolver' = [resolver EXCEPT ![r] = state]
    BY <2>3
  <2> HIDE DEF state, seen
  <2> QED
    BY <2>1, <2>6, <2>7, <2>8, <2>9, ReaderMoves
<1>4. CASE ReadMark(r)
  <2>1. resolver[r].step = "mark" /\ resolver[r] \in ResolverStates
        /\ UNCHANGED <<controlMark, cellMark, claim, setter, told>>
    BY <1>1, <1>4 DEF ReadMark
  <2>2. CASE ~Available(resolver[r].node)
    BY <1>2, <1>4, <2>1, <2>2 DEF ReadMark
  <2>3. CASE Available(resolver[r].node)
    <3> DEFINE state == [resolver[r] EXCEPT !.step = "source"]
    <3>1. state \in ResolverStates /\ state.step = "source"
          /\ state.revokedBefore = resolver[r].revokedBefore /\ state.todo = resolver[r].todo
      BY <2>1 DEF ResolverStates
    <3>2. resolver' = [resolver EXCEPT ![r] = state]
      BY <1>0, <1>4, <2>3 DEF ReadMark
    <3> HIDE DEF state
    <3>3. /\ \A v \in resolver[r].revokedBefore : "revoked" \in controlMark[v]
          /\ resolver[r].revokedBefore \subseteq resolver[r].todo \cup {resolver[r].node}
      BY <2>1 DEF CompositionInv, StillAhead
    <3>4. resolver[r].node \notin resolver[r].revokedBefore
      BY <2>3, <3>3 DEF Available
    <3> QED
      BY <2>1, <3>1, <3>2, <3>3, <3>4, ReaderMoves
  <2> QED
    BY <2>2, <2>3
<1>5. CASE ReadSource(r)
  <2>1. resolver[r].step = "source" /\ resolver[r] \in ResolverStates
        /\ UNCHANGED <<controlMark, cellMark, claim, setter, told>>
    BY <1>1, <1>5 DEF ReadSource
  <2>2. /\ \A v \in resolver[r].revokedBefore : "revoked" \in controlMark[v]
        /\ resolver[r].revokedBefore \subseteq resolver[r].todo
    BY <2>1 DEF CompositionInv, StillAhead
  <2>3. CASE Refused(r)
    BY <1>2, <2>1, <2>3
  <2>4. ASSUME resolver[r].todo = {}, resolver' = [resolver EXCEPT ![r].step = "answered"]
        PROVE  CompositionInv'
    <3> DEFINE state == [resolver[r] EXCEPT !.step = "answered"]
    <3>1. state \in ResolverStates /\ state.step = "answered"
          /\ state.revokedBefore = resolver[r].revokedBefore
      BY <2>1 DEF ResolverStates
    <3>2. resolver' = [resolver EXCEPT ![r] = state]
      BY <1>0, <2>4
    <3> HIDE DEF state
    <3> QED
      BY <2>1, <2>2, <2>4, <3>1, <3>2, ReaderMoves
  <2>5. ASSUME NEW next \in resolver[r].todo,
               resolver' = [resolver EXCEPT ![r].step = "mark", ![r].node = next, ![r].todo = @ \ {next}]
        PROVE  CompositionInv'
    <3> DEFINE state == [resolver[r] EXCEPT !.step = "mark", !.node = next, !.todo = @ \ {next}]
    <3>1. /\ state.step = "mark" /\ state.node = next /\ state.todo = resolver[r].todo \ {next}
          /\ state.revokedBefore = resolver[r].revokedBefore
      BY <2>1 DEF ResolverStates
    <3>2. next \in Lock /\ resolver[r].todo \ {next} \in SUBSET Lock
      BY <2>1 DEF ResolverStates
    <3>3. state \in ResolverStates
      <4>1. [resolver[r] EXCEPT !.step = "mark"] \in ResolverStates
        BY <2>1 DEF ResolverStates
      <4>2. [[resolver[r] EXCEPT !.step = "mark"] EXCEPT !.node = next] \in ResolverStates
        BY <3>2, <4>1 DEF ResolverStates
      <4>3. [[[resolver[r] EXCEPT !.step = "mark"] EXCEPT !.node = next]
                EXCEPT !.todo = resolver[r].todo \ {next}] \in ResolverStates
        BY <3>2, <4>2 DEF ResolverStates
      <4>4. state = [[[resolver[r] EXCEPT !.step = "mark"] EXCEPT !.node = next]
                        EXCEPT !.todo = resolver[r].todo \ {next}]
        BY <2>1 DEF ResolverStates
      <4> QED
        BY <4>3, <4>4
    <3>4. resolver' = [resolver EXCEPT ![r] = state]
      BY <1>0, <2>5
    <3> HIDE DEF state
    <3> QED
      BY <2>1, <2>2, <3>1, <3>3, <3>4, ReaderMoves
  <2> QED
    BY <1>5, <2>3, <2>4, <2>5, Zenon DEF ReadSource
<1> QED
  BY <1>3, <1>4, <1>5

THEOREM MarksInOrder == CompositionSpec => []CompositionInv
<1>1. CompositionInit => CompositionInv
  BY OrdersAssumption, CompositionInitHolds
<1>2. CompositionInv /\ [CompositionNext]_compositionVars => CompositionInv'
  <2>1. CompositionInv /\ CompositionNext => CompositionInv'
    BY OrdersAssumption, SetterHolds, ReaderHolds, Zenon DEF CompositionNext
  <2>2. CompositionInv /\ UNCHANGED compositionVars => CompositionInv'
    BY DEF compositionVars, CompositionInv, CompositionTypeOK, ControlFirst, DoneMarked, StillAhead
  <2> QED
    BY <2>1, <2>2
<1> QED
  BY <1>1, <1>2, PTL DEF CompositionSpec

\* No call of resolve or validatePublication that began after a revocation was answered, or had
\* taken effect in a cell, serves the version; version-lifecycle.ts writes the control plane
\* first, and composition-service.ts reads it for every node.
THEOREM RevokedNeverServed == CompositionSpec => []RevokedStaysOut
<1>1. CompositionInv => RevokedStaysOut
  BY DEF CompositionInv, ControlFirst, DoneMarked, StillAhead, RevokedStaysOut, CompositionTypeOK
<1> QED
  BY <1>1, MarksInOrder, PTL

-----------------------------------------------------------------------------
(* Edits: ContextEdits.                                                     *)

\* The types, without the bounds: what happens does not depend on them.
Shapes ==
  /\ context \in [archived : BOOLEAN, stamp : Nat, revision : Nat, writes : Nat]
  /\ note \in [archived : BOOLEAN, revision : Nat]
  /\ editor \in [Editors -> {NoEdit} \cup
       [kind : Kinds, stated : BOOLEAN, millis : Nat, revision : Nat, writes : Nat]]

\* No editor saw a later time than the row has, and one opened before the last write saw an
\* earlier millisecond.
OldTimesDiffer ==
  \A e \in Editors : editor[e] # NoEdit =>
    /\ Millis(context.stamp) >= editor[e].millis
    /\ context.writes = editor[e].writes \/ Millis(context.stamp) > editor[e].millis

EditsInv == Shapes /\ OldTimesDiffer

\* A millisecond's worth of microseconds later, the milliseconds differ.
LEMMA LaterMillis ==
  ASSUME ClockAssumption, NEW s \in Nat, NEW t \in Nat, t >= s + Milli
  PROVE  Millis(t) \in Nat /\ Millis(s) \in Nat /\ Millis(t) > Millis(s)
<1>1. PICK m \in Nat \ {0} : m = Milli
  BY DEF ClockAssumption
<1>2. /\ s \div m \in Int /\ m * (s \div m) <= s /\ s < m * (s \div m) + m
      /\ t \div m \in Int /\ m * (t \div m) <= t /\ t < m * (t \div m) + m
  BY SMT
<1>3. m * (s \div m) < m * (t \div m)
  BY <1>1, <1>2
<1>4. (s \div m) < (t \div m)
  <2> DEFINE a == s \div m
             b == t \div m
  <2>1. a \in Int /\ b \in Int /\ m * a < m * b
    BY <1>2, <1>3
  <2> HIDE DEF a, b
  <2>2. a < b
    BY <2>1, SMT
  <2> QED BY <2>2 DEF a, b
<1>5. s \div m >= 0 /\ t \div m >= 0
  BY SMT
<1> QED
  BY <1>1, <1>2, <1>4, <1>5 DEF Millis

LEMMA NextStampLater ==
  ASSUME ClockAssumption, NEW s \in Nat, NEW clock \in Nat
  PROVE  NextStamp(s, clock) \in Nat /\ NextStamp(s, clock) >= s + Milli
  BY DEF ClockAssumption, NextStamp

LEMMA EditsInitHolds == ASSUME ClockAssumption PROVE ContextInit => EditsInv
<1> SUFFICES ASSUME ContextInit PROVE EditsInv
  OBVIOUS
<1>1. PICK clock \in 0..MaxClock :
        context = [archived |-> FALSE, stamp |-> clock, revision |-> 1, writes |-> 0]
  BY DEF ContextInit
<1>2. Shapes
  BY <1>1 DEF ContextInit, Shapes, ClockAssumption, NoEdit
<1>3. OldTimesDiffer
  BY DEF ContextInit, OldTimesDiffer
<1> QED
  BY <1>2, <1>3 DEF EditsInv

\* A write of the context's row keeps the types and moves its time on.
LEMMA EditWriteHolds ==
  ASSUME ClockAssumption, NEW changed \in [archived : BOOLEAN, stamp : Nat, revision : Nat, writes : Nat],
         context \in [archived : BOOLEAN, stamp : Nat, revision : Nat, writes : Nat],
         changed.writes = context.writes, Write(changed)
  PROVE  /\ context' \in [archived : BOOLEAN, stamp : Nat, revision : Nat, writes : Nat]
         /\ context'.revision = changed.revision
         /\ Millis(context'.stamp) > Millis(context.stamp)
         /\ Millis(context.stamp) \in Nat
         /\ Millis(context'.stamp) \in Nat
<1>1. PICK clock \in 0..MaxClock :
        context' = [changed EXCEPT !.stamp = NextStamp(context.stamp, clock), !.writes = @ + 1]
  BY DEF Write
<1>2. clock \in Nat /\ context.stamp \in Nat
  BY DEF ClockAssumption
<1>3. NextStamp(context.stamp, clock) \in Nat /\ NextStamp(context.stamp, clock) >= context.stamp + Milli
  BY <1>2, NextStampLater
<1>4. context'.stamp = NextStamp(context.stamp, clock)
  BY <1>1
<1>5. context' \in [archived : BOOLEAN, stamp : Nat, revision : Nat, writes : Nat]
  <2>1. PICK t \in Nat : t = NextStamp(context.stamp, clock)
    BY <1>3
  <2>2. context' = [changed EXCEPT !.stamp = t, !.writes = changed.writes + 1]
    BY <1>1, <2>1
  <2>3. PICK moved \in [archived : BOOLEAN, stamp : Nat, revision : Nat, writes : Nat] :
          moved = [changed EXCEPT !.stamp = t]
    OBVIOUS
  <2>4. PICK w \in Nat : w = changed.writes + 1
    OBVIOUS
  <2>5. context' = [moved EXCEPT !.writes = w]
    BY <2>2, <2>3, <2>4
  <2> QED
    BY <2>5
<1>6. context'.revision = changed.revision
  BY <1>1
<1> QED
  BY <1>2, <1>3, <1>4, <1>5, <1>6, LaterMillis

\* What every edit does to the context's row: nothing, or a later time.
LEMMA EditHolds ==
  ASSUME ClockAssumption, EditsInv, NEW e \in Editors, Submit(e)
  PROVE  /\ context' \in [archived : BOOLEAN, stamp : Nat, revision : Nat, writes : Nat]
         /\ note' \in [archived : BOOLEAN, revision : Nat]
         /\ editor' = [editor EXCEPT ![e] = NoEdit]
         /\ context' = context \/ Millis(context'.stamp) > Millis(context.stamp)
         /\ Millis(context.stamp) \in Nat /\ Millis(context'.stamp) \in Nat
<1>0. context \in [archived : BOOLEAN, stamp : Nat, revision : Nat, writes : Nat]
      /\ note \in [archived : BOOLEAN, revision : Nat]
  BY DEF EditsInv, Shapes
<1>1. Millis(context.stamp) \in Nat
  BY <1>0, LaterMillis DEF ClockAssumption, Millis
<1>2. editor' = [editor EXCEPT ![e] = NoEdit]
  BY DEF Submit
<1>3. CASE UpdateContext(e)
  <2>1. Write(context) /\ note' = note
    BY <1>3 DEF UpdateContext
  <2> QED
    BY <1>0, <1>2, <2>1, EditWriteHolds
<1>4. CASE SetArchived(e)
  <2> DEFINE changed == [context EXCEPT !.archived = editor[e].kind = "archive"]
  <2>1. Write(changed) /\ note' = note
    BY <1>4 DEF SetArchived
  <2>2. changed \in [archived : BOOLEAN, stamp : Nat, revision : Nat, writes : Nat]
    BY <1>0
  <2>3. changed.writes = context.writes
    BY <1>0
  <2> HIDE DEF changed
  <2> QED
    BY <1>0, <1>2, <2>1, <2>2, <2>3, EditWriteHolds
<1>5. CASE UpdateKnowledge(e)
  <2> DEFINE changed == [context EXCEPT !.revision = @ + 1]
  <2>1. Write(changed) /\ note' = note
    BY <1>5 DEF UpdateKnowledge
  <2>2. changed \in [archived : BOOLEAN, stamp : Nat, revision : Nat, writes : Nat]
    BY <1>0
  <2>3. changed.writes = context.writes
    BY <1>0
  <2> HIDE DEF changed
  <2> QED
    BY <1>0, <1>2, <2>1, <2>2, <2>3, EditWriteHolds
<1>6. CASE ReviseNote(e)
  <2>1. note' = [note EXCEPT !.revision = @ + 1] /\ context' = context
    BY <1>6 DEF ReviseNote
  <2> QED
    BY <1>0, <1>1, <1>2, <2>1
<1>7. CASE DropNote(e)
  <2>1. note' = [note EXCEPT !.archived = TRUE] /\ context' = context
    BY <1>7 DEF DropNote
  <2> QED
    BY <1>0, <1>1, <1>2, <2>1
<1>8. CASE UNCHANGED <<context, note, shelf>>
  BY <1>0, <1>1, <1>2, <1>8
<1> QED
  BY <1>3, <1>4, <1>5, <1>6, <1>7, <1>8, Zenon DEF Submit

LEMMA EditsNextHolds == ASSUME ClockAssumption PROVE EditsInv /\ [ContextNext]_contextVars => EditsInv'
<1> SUFFICES ASSUME EditsInv, [ContextNext]_contextVars PROVE EditsInv'
  OBVIOUS
<1>0. /\ context \in [archived : BOOLEAN, stamp : Nat, revision : Nat, writes : Nat]
      /\ note \in [archived : BOOLEAN, revision : Nat]
      /\ editor \in [Editors -> {NoEdit} \cup
           [kind : Kinds, stated : BOOLEAN, millis : Nat, revision : Nat, writes : Nat]]
      /\ Millis(context.stamp) \in Nat
  BY LaterMillis DEF EditsInv, Shapes, ClockAssumption, Millis
<1>1. CASE ShelveSkill
  BY <1>1 DEF ShelveSkill, EditsInv, Shapes, OldTimesDiffer
<1>2. ASSUME NEW e \in Editors, Open(e) PROVE EditsInv'
  <2>1. PICK kind \in Kinds : \E stated \in BOOLEAN : editor' = [editor EXCEPT ![e] =
            [kind |-> kind, stated |-> stated, millis |-> Millis(context.stamp),
             revision |-> IF kind = "revise" THEN note.revision ELSE context.revision,
             writes |-> context.writes]]
    BY <1>2 DEF Open
  <2>2. PICK stated \in BOOLEAN : editor' = [editor EXCEPT ![e] =
            [kind |-> kind, stated |-> stated, millis |-> Millis(context.stamp),
             revision |-> IF kind = "revise" THEN note.revision ELSE context.revision,
             writes |-> context.writes]]
    BY <2>1
  <2> DEFINE opened == [kind |-> kind, stated |-> stated, millis |-> Millis(context.stamp),
             revision |-> IF kind = "revise" THEN note.revision ELSE context.revision,
             writes |-> context.writes]
  <2>3. opened \in [kind : Kinds, stated : BOOLEAN, millis : Nat, revision : Nat, writes : Nat]
    BY <1>0
  <2>4. opened.writes = context.writes /\ opened.millis = Millis(context.stamp)
    OBVIOUS
  <2>5. context' = context /\ note' = note /\ editor' = [editor EXCEPT ![e] = opened]
    BY <1>2, <2>2 DEF Open
  <2> HIDE DEF opened
  <2>6. Shapes'
    BY <1>0, <2>3, <2>5 DEF Shapes
  <2>7. OldTimesDiffer'
    BY <1>0, <2>4, <2>5 DEF EditsInv, OldTimesDiffer
  <2> QED
    BY <2>6, <2>7 DEF EditsInv
<1>3. ASSUME NEW e \in Editors, Submit(e) PROVE EditsInv'
  <2>1. /\ context' \in [archived : BOOLEAN, stamp : Nat, revision : Nat, writes : Nat]
        /\ note' \in [archived : BOOLEAN, revision : Nat]
        /\ editor' = [editor EXCEPT ![e] = NoEdit]
        /\ context' = context \/ Millis(context'.stamp) > Millis(context.stamp)
        /\ Millis(context.stamp) \in Nat /\ Millis(context'.stamp) \in Nat
    BY <1>3, EditHolds
  <2>2. Shapes'
    BY <1>0, <2>1 DEF Shapes
  <2>3. ASSUME NEW f \in Editors, editor'[f] # NoEdit
        PROVE  /\ Millis(context'.stamp) >= editor'[f].millis
               /\ context'.writes = editor'[f].writes \/ Millis(context'.stamp) > editor'[f].millis
    <3>1. editor'[f] = editor[f] /\ editor[f] # NoEdit
      BY <1>0, <2>1, <2>3
    <3>2. editor[f].millis \in Nat
      BY <1>0, <3>1
    <3>3. /\ Millis(context.stamp) >= editor[f].millis
          /\ context.writes = editor[f].writes \/ Millis(context.stamp) > editor[f].millis
      BY <3>1 DEF EditsInv, OldTimesDiffer
    <3>4. CASE context' = context
      BY <3>1, <3>3, <3>4
    <3>5. CASE Millis(context'.stamp) > Millis(context.stamp)
      BY <2>1, <3>1, <3>2, <3>3, <3>5
    <3> QED
      BY <2>1, <3>4, <3>5
  <2> QED
    BY <2>2, <2>3 DEF EditsInv, OldTimesDiffer
<1>4. CASE UNCHANGED contextVars
  BY <1>4 DEF contextVars, EditsInv, Shapes, OldTimesDiffer
<1> QED
  BY <1>1, <1>2, <1>3, <1>4, Zenon DEF ContextNext

\* The invariant, for every clock and however many edits there are.
THEOREM TimesTell == ContextSpec => []EditsInv
<1>1. ContextInit => EditsInv
  BY ClockAssumption, EditsInitHolds
<1>2. EditsInv /\ [ContextNext]_contextVars => EditsInv'
  BY ClockAssumption, EditsNextHolds
<1> QED
  BY <1>1, <1>2, PTL DEF ContextSpec

LEMMA EditsStepHolds ==
  ASSUME ClockAssumption PROVE EditsInv /\ [ContextNext]_contextVars => NothingOverwrittenStep
<1> SUFFICES ASSUME EditsInv, [ContextNext]_contextVars,
                    NEW f \in Editors, editor[f] # NoEdit, editor'[f] = NoEdit, editor[f].stated
             PROVE  /\ editor[f].kind \in {"metadata", "archive", "restore"} /\ context' # context =>
                         context.writes = editor[f].writes
                    /\ context'.revision # context.revision => context.revision = editor[f].revision
                    /\ note'.revision # note.revision => note.revision = editor[f].revision
  BY DEF NothingOverwrittenStep
<1>0. /\ context \in [archived : BOOLEAN, stamp : Nat, revision : Nat, writes : Nat]
      /\ note \in [archived : BOOLEAN, revision : Nat]
      /\ editor \in [Editors -> {NoEdit} \cup
           [kind : Kinds, stated : BOOLEAN, millis : Nat, revision : Nat, writes : Nat]]
      /\ Millis(context.stamp) \in Nat
  BY LaterMillis DEF EditsInv, Shapes, ClockAssumption, Millis
<1>01. editor[f].millis \in Nat
  BY <1>0
<1>1. Submit(f)
  <2>1. ASSUME NEW e \in Editors, Submit(e) PROVE e = f
    BY <1>0, <2>1 DEF Submit
  <2>2. ASSUME NEW e \in Editors, Open(e) PROVE FALSE
    <3>1. editor[e] = NoEdit /\ e # f
      BY <2>2 DEF Open
    <3>2. editor'[f] = editor[f]
      <4>1. PICK kind \in Kinds : \E stated \in BOOLEAN : editor' = [editor EXCEPT ![e] =
            [kind |-> kind, stated |-> stated, millis |-> Millis(context.stamp),
             revision |-> IF kind = "revise" THEN note.revision ELSE context.revision,
             writes |-> context.writes]]
        BY <2>2 DEF Open
      <4> QED
        BY <1>0, <3>1, <4>1
    <3> QED
      BY <3>2
  <2>3. ~ShelveSkill /\ ~UNCHANGED contextVars
    BY DEF ShelveSkill, contextVars
  <2> QED
    BY <2>1, <2>2, <2>3, Zenon DEF ContextNext

\* Only metadata and archiving name a time, and they name the row's.
<1>2. ASSUME editor[f].kind \in {"metadata", "archive", "restore"}, context' # context
      PROVE  context.writes = editor[f].writes
  <2>1. AsRead(f)
    BY <1>1, <1>2, Zenon DEF Submit, UpdateContext, SetArchived, UpdateKnowledge, ReviseNote, DropNote
  <2>2. Millis(context.stamp) = editor[f].millis
    BY <2>1 DEF AsRead
  <2>3. context.writes = editor[f].writes \/ Millis(context.stamp) > editor[f].millis
    BY DEF EditsInv, OldTimesDiffer
  <2> QED
    BY <1>0, <1>01, <2>2, <2>3
<1>3. ASSUME context'.revision # context.revision
      PROVE  context.revision = editor[f].revision
  <2>1. ~UpdateContext(f)
    BY <1>0, <1>3, EditWriteHolds DEF UpdateContext
  <2>2. ~SetArchived(f)
    <3> DEFINE changed == [context EXCEPT !.archived = editor[f].kind = "archive"]
    <3>1. SUFFICES ASSUME Write(changed) PROVE FALSE
      BY DEF SetArchived
    <3>2. /\ changed \in [archived : BOOLEAN, stamp : Nat, revision : Nat, writes : Nat]
          /\ changed.writes = context.writes /\ changed.revision = context.revision
      BY <1>0
    <3> HIDE DEF changed
    <3> QED
      BY <1>0, <1>3, <3>1, <3>2, EditWriteHolds
  <2>3. ~ReviseNote(f) /\ ~DropNote(f) /\ context' # context
    BY <1>3 DEF ReviseNote, DropNote
  <2>4. UpdateKnowledge(f)
    BY <1>1, <2>1, <2>2, <2>3, Zenon DEF Submit
  <2> QED
    BY <2>4 DEF UpdateKnowledge
<1>4. ASSUME note'.revision # note.revision
      PROVE  note.revision = editor[f].revision
  <2>1. ~UpdateContext(f) /\ ~SetArchived(f) /\ ~UpdateKnowledge(f) /\ note' # note
    BY <1>4 DEF UpdateContext, SetArchived, UpdateKnowledge
  <2>2. ~DropNote(f)
    BY <1>0, <1>4 DEF DropNote
  <2>3. ReviseNote(f)
    BY <1>1, <2>1, <2>2, Zenon DEF Submit
  <2> QED
    BY <2>3 DEF ReviseNote
<1> QED
  BY <1>2, <1>3, <1>4

\* No edit that says what its editor has read overwrites one the editor has not read: contexts.ts
\* compares milliseconds of a time that every write moves by at least one.
THEOREM NoLostEdits == ContextSpec => NothingOverwritten
<1>1. ContextSpec => []EditsInv
  BY TimesTell
<1>2. EditsInv /\ [ContextNext]_contextVars => [NothingOverwrittenStep]_contextVars
  BY ClockAssumption, EditsStepHolds
<1> QED
  BY <1>1, <1>2, PTL DEF ContextSpec, NothingOverwritten

\* The types, with the bounds: every write takes the row a millisecond on at most, unless the
\* clock is further.
InBounds ==
  context.stamp <= MaxClock + context.writes * Milli /\ context.revision <= context.writes + 1
EditsTyped == ContextTypeOK /\ InBounds

LEMMA MilliTimes ==
  ASSUME ClockAssumption, NEW a \in Nat, NEW b \in Nat, a <= b
  PROVE  /\ a * Milli \in Nat /\ b * Milli \in Nat /\ a * Milli <= b * Milli
         /\ (a + 1) * Milli = a * Milli + Milli
<1>1. PICK m \in Nat \ {0} : m = Milli
  BY DEF ClockAssumption
<1>2. a * m \in Nat /\ b * m \in Nat /\ (a + 1) * m = a * m + m
  OBVIOUS
<1>3. PICK k \in Nat : b = a + k
  <2>1. b - a \in Nat /\ b = a + (b - a)
    OBVIOUS
  <2>. QED  BY <2>1
<1>4. b * m = a * m + k * m /\ k * m \in Nat
  BY <1>3
<1>. QED  BY <1>1, <1>2, <1>4

\* A time within the bound is one of the column's, and so are its milliseconds.
LEMMA StampFits ==
  ASSUME ClockAssumption, NEW s \in Nat, NEW writes \in 0..MaxEdits, s <= MaxClock + writes * Milli
  PROVE  s \in Stamps /\ Millis(s) \in Stamps
<1>1. /\ writes * Milli \in Nat /\ (MaxEdits + 1) * Milli \in Nat
      /\ writes * Milli <= (MaxEdits + 1) * Milli
  <2>1. writes \in Nat /\ MaxEdits + 1 \in Nat /\ writes <= MaxEdits + 1
    BY DEF ClockAssumption
  <2>. QED  BY <2>1, MilliTimes
<1>2. PICK top \in Nat : top = MaxClock + (MaxEdits + 1) * Milli /\ s <= top
  BY <1>1 DEF ClockAssumption
<1>3. Stamps = 0..top
  BY <1>2 DEF Stamps
<1>4. Millis(s) \in Nat /\ Millis(s) <= s
  <2>1. PICK m \in Nat \ {0} : m = Milli
    BY DEF ClockAssumption
  <2>2. s \div m \in Int /\ m * (s \div m) <= s /\ s \div m >= 0
    BY SMT
  <2>3. s \div m <= m * (s \div m)
    <3> DEFINE q == s \div m
    <3>1. q \in Nat
      BY <2>2
    <3> HIDE DEF q
    <3>2. q <= m * q
      BY <3>1, SMT
    <3>. QED  BY <3>2 DEF q
  <2>4. m * (s \div m) \in Int
    BY <2>2
  <2>. QED  BY <2>1, <2>2, <2>3, <2>4 DEF Millis
<1>. QED  BY <1>2, <1>3, <1>4

LEMMA WriteFits ==
  ASSUME ClockAssumption, EditsTyped, NEW changed,
         changed \in [archived : BOOLEAN, stamp : Stamps, revision : 1..MaxEdits + 1,
                      writes : 0..MaxEdits],
         changed.writes = context.writes, changed.revision <= context.writes + 2,
         changed.revision <= MaxEdits + 1, Write(changed)
  PROVE  /\ context' \in [archived : BOOLEAN, stamp : Stamps, revision : 1..MaxEdits + 1,
                          writes : 0..MaxEdits]
         /\ InBounds'
<1>1. PICK clock \in 0..MaxClock :
        context' = [changed EXCEPT !.stamp = NextStamp(context.stamp, clock), !.writes = @ + 1]
  BY DEF Write
<1>2. context.writes \in 0..MaxEdits /\ context.writes < MaxEdits /\ context.stamp \in Stamps
  BY DEF EditsTyped, ContextTypeOK, Write
<1>3. context.writes + 1 \in 0..MaxEdits /\ context.writes \in Nat
  BY <1>2 DEF ClockAssumption
<1>4. clock \in Nat /\ context.stamp \in Nat /\ MaxClock \in Nat /\ Milli \in Nat
  BY <1>2, MilliTimes DEF ClockAssumption, Stamps
<1>5. /\ context.writes * Milli \in Nat
      /\ (context.writes + 1) * Milli = context.writes * Milli + Milli
  BY <1>3, MilliTimes
<1>6. context.stamp <= MaxClock + context.writes * Milli
  BY DEF EditsTyped, InBounds
<1>7. /\ NextStamp(context.stamp, clock) \in Nat
      /\ NextStamp(context.stamp, clock) <= MaxClock + (context.writes + 1) * Milli
  <2>1. PICK k \in Nat : k = context.writes * Milli /\ (context.writes + 1) * Milli = k + Milli
    BY <1>5
  <2>. QED  BY <1>1, <1>4, <1>6, <2>1 DEF NextStamp
<1>8. PICK t : t = NextStamp(context.stamp, clock)
  OBVIOUS
<1>9. t \in Stamps
  BY <1>3, <1>7, <1>8, StampFits
<1>10. context' = [changed EXCEPT !.stamp = t, !.writes = context.writes + 1]
  BY <1>1, <1>8
<1>11. /\ context'.stamp = t /\ context'.writes = context.writes + 1
       /\ context'.revision = changed.revision
  BY <1>10
<1>12. InBounds'
  BY <1>3, <1>7, <1>8, <1>11 DEF InBounds
<1>. QED  BY <1>3, <1>9, <1>10, <1>12

LEMMA SubmitFits ==
  ASSUME ClockAssumption, EditsTyped, NEW e \in Editors, Submit(e)
  PROVE  EditsTyped'
<1>1. /\ context \in [archived : BOOLEAN, stamp : Stamps, revision : 1..MaxEdits + 1, writes : 0..MaxEdits]
      /\ note \in [archived : BOOLEAN, revision : 1..MaxEdits + 1]
      /\ shelf \in BOOLEAN /\ InBounds /\ context.revision <= context.writes + 1
      /\ MaxEdits \in Nat
  BY DEF EditsTyped, ContextTypeOK, InBounds, ClockAssumption
<1>2. editor' = [editor EXCEPT ![e] = NoEdit]
  BY DEF Submit
<1>3. ASSUME NEW changed, Write(changed), UNCHANGED <<note, shelf>>,
             changed \in [archived : BOOLEAN, stamp : Stamps, revision : 1..MaxEdits + 1,
                          writes : 0..MaxEdits],
             changed.writes = context.writes, changed.revision <= context.writes + 2
      PROVE  EditsTyped'
  <2>1. changed.revision <= MaxEdits + 1
    BY <1>1, <1>3
  <2>. QED  BY <1>1, <1>2, <1>3, <2>1, WriteFits DEF EditsTyped, ContextTypeOK
<1>4. CASE UpdateContext(e)
  BY <1>1, <1>3, <1>4 DEF UpdateContext
<1>5. CASE SetArchived(e)
  <2> DEFINE changed == [context EXCEPT !.archived = editor[e].kind = "archive"]
  <2>1. changed \in [archived : BOOLEAN, stamp : Stamps, revision : 1..MaxEdits + 1, writes : 0..MaxEdits]
    BY <1>1
  <2>2. changed.writes = context.writes /\ changed.revision <= context.writes + 2
    BY <1>1
  <2>3. Write(changed) /\ UNCHANGED <<note, shelf>>
    BY <1>5 DEF SetArchived
  <2> HIDE DEF changed
  <2>. QED  BY <1>3, <2>1, <2>2, <2>3
<1>6. CASE UpdateKnowledge(e)
  <2> DEFINE changed == [context EXCEPT !.revision = @ + 1]
  <2>1. Write(changed) /\ UNCHANGED <<note, shelf>>
    BY <1>6 DEF UpdateKnowledge
  <2>2. context.writes < MaxEdits
    BY <1>6 DEF UpdateKnowledge, Write
  <2>3. changed \in [archived : BOOLEAN, stamp : Stamps, revision : 1..MaxEdits + 1, writes : 0..MaxEdits]
    BY <1>1, <2>2
  <2>4. changed.writes = context.writes /\ changed.revision <= context.writes + 2
    BY <1>1
  <2> HIDE DEF changed
  <2>. QED  BY <1>3, <2>1, <2>3, <2>4
<1>7. CASE ReviseNote(e)
  <2>1. /\ note' = [note EXCEPT !.revision = @ + 1] /\ note.revision <= MaxEdits
        /\ UNCHANGED <<context, shelf>>
    BY <1>7 DEF ReviseNote
  <2>2. note' \in [archived : BOOLEAN, revision : 1..MaxEdits + 1]
    BY <1>1, <2>1
  <2>. QED  BY <1>1, <1>2, <2>1, <2>2 DEF EditsTyped, ContextTypeOK, InBounds
<1>8. CASE DropNote(e)
  <2>1. note' = [note EXCEPT !.archived = TRUE] /\ UNCHANGED <<context, shelf>>
    BY <1>8 DEF DropNote
  <2>. QED  BY <1>1, <1>2, <2>1 DEF EditsTyped, ContextTypeOK, InBounds
<1>9. CASE UNCHANGED <<context, note, shelf>>
  BY <1>1, <1>2, <1>9 DEF EditsTyped, ContextTypeOK, InBounds
<1>. QED  BY <1>4, <1>5, <1>6, <1>7, <1>8, <1>9, Zenon DEF Submit

LEMMA OpenFits ==
  ASSUME ClockAssumption, EditsTyped, NEW e \in Editors, Open(e)
  PROVE  EditsTyped'
<1>1. /\ context \in [archived : BOOLEAN, stamp : Stamps, revision : 1..MaxEdits + 1, writes : 0..MaxEdits]
      /\ note \in [archived : BOOLEAN, revision : 1..MaxEdits + 1]
      /\ UNCHANGED <<context, note, shelf>>
  BY DEF EditsTyped, ContextTypeOK, Open
<1>2. Millis(context.stamp) \in Stamps
  <2>1. context.stamp \in Nat
    BY <1>1, MilliTimes DEF Stamps, ClockAssumption
  <2>. QED  BY <1>1, <2>1, StampFits DEF EditsTyped, InBounds
<1>3. PICK kind \in Kinds, stated \in BOOLEAN : editor' = [editor EXCEPT ![e] =
            [kind |-> kind, stated |-> stated, millis |-> Millis(context.stamp),
             revision |-> IF kind = "revise" THEN note.revision ELSE context.revision,
             writes |-> context.writes]]
  BY DEF Open
<1>4. PICK opened : opened = [kind |-> kind, stated |-> stated, millis |-> Millis(context.stamp),
             revision |-> IF kind = "revise" THEN note.revision ELSE context.revision,
             writes |-> context.writes]
  OBVIOUS
<1>5. opened \in [kind : Kinds, stated : BOOLEAN, millis : Stamps, revision : 1..MaxEdits + 1,
                  writes : 0..MaxEdits]
  BY <1>1, <1>2, <1>4
<1>. QED  BY <1>1, <1>3, <1>4, <1>5 DEF EditsTyped, ContextTypeOK, InBounds

\* The types of an edited context, for every clock and however many edits there are.
THEOREM EditsHaveTypes == ContextSpec => []EditsTyped
<1>1. ContextInit => EditsTyped
  <2> SUFFICES ASSUME ContextInit PROVE EditsTyped
    OBVIOUS
  <2>1. PICK clock \in 0..MaxClock :
          context = [archived |-> FALSE, stamp |-> clock, revision |-> 1, writes |-> 0]
    BY DEF ContextInit
  <2>2. InBounds
    BY <2>1, ClockAssumption, MilliTimes DEF InBounds, ClockAssumption
  <2>3. clock \in Stamps
    BY <2>1, <2>2, ClockAssumption, StampFits DEF InBounds, ClockAssumption
  <2>4. 1 \in 1..MaxEdits + 1 /\ 0 \in 0..MaxEdits
    BY ClockAssumption DEF ClockAssumption
  <2>5. context \in [archived : BOOLEAN, stamp : Stamps, revision : 1..MaxEdits + 1, writes : 0..MaxEdits]
    BY <2>1, <2>3, <2>4
  <2>6. /\ note \in [archived : BOOLEAN, revision : 1..MaxEdits + 1] /\ shelf \in BOOLEAN
        /\ editor = [e \in Editors |-> NoEdit]
    BY <2>4 DEF ContextInit
  <2>. QED  BY <2>2, <2>5, <2>6 DEF EditsTyped, ContextTypeOK
<1>2. EditsTyped /\ [ContextNext]_contextVars => EditsTyped'
  <2> SUFFICES ASSUME EditsTyped, [ContextNext]_contextVars PROVE EditsTyped'
    OBVIOUS
  <2>1. CASE ShelveSkill
    BY <2>1 DEF ShelveSkill, EditsTyped, ContextTypeOK, InBounds
  <2>2. CASE UNCHANGED contextVars
    BY <2>2 DEF contextVars, EditsTyped, ContextTypeOK, InBounds
  <2>. QED  BY <2>1, <2>2, ClockAssumption, OpenFits, SubmitFits DEF ContextNext
<1>. QED  BY <1>1, <1>2, PTL DEF ContextSpec

-----------------------------------------------------------------------------
(* Moves: WorkspaceMoves.                                                   *)

\* The phase says where the workspace is: at the source of its move until activation, then
\* at the target; and only a move whose rollback was exercised is activated.
PlacedByPhase ==
  /\ placed.phase # "active" => Source # Target
  /\ placed.phase \in {"moving", "resume-source"} => placed.region = Source
  /\ placed.phase = "resume-target" => placed.region = Target /\ placed.move \in reverted
  /\ placed.phase = "moving" => placed.epoch >= placed.move.epoch + 1
  /\ placed.phase \in {"resume-source", "resume-target"} => placed.epoch >= placed.move.epoch + 2

\* Requests are routed to the workspace's cell, or to one it left, which is fenced.
OldCellsFenced ==
  \A route \in routes : route.region # placed.region => gate[route.region].raised

\* What is recorded of moves is true of the past.
RecordsTrue ==
  /\ drills \subseteq reverted
  /\ \A i \in Pendings : journal[i].proof.tested /\ journal[i].proof.move \in reverted

\* The origin that a command works with is that of its target.
OfTarget ==
  /\ command.origin = Origin(command.target)
  /\ command.origin.source # command.target /\ command.origin.target = command.target

\* The move that is recorded is the command's.
Underway ==
  /\ command.target = Target
  /\ command.origin.source = Source /\ command.origin.target = Target

\* A move that is no drill has a run, and its rollback was exercised.
Exercised == ~command.drilling => command.origin \in reverted /\ Len(journal) > 0

\* What a command relies on at each of its steps.
CommandFits ==
  CASE command.step = "none" -> command = NoCommand
    [] command.step = "finalize" -> CanFinalize(command.target)
    [] command.step = "drill" -> OfTarget
    [] command.step = "start" ->
         /\ InRecovery => Target = command.target
         /\ Origin(command.target).source # command.target
         /\ Origin(command.target) \in reverted
    [] command.step = "move" ->
         /\ OfTarget /\ Exercised
         /\ command.drilling => placed.phase # "resume-target"
    [] command.step = "fence" -> placed.phase = "active" /\ OfTarget /\ Exercised
    [] command.step \in {"quiesce", "copy", "activate", "restore"} ->
         /\ placed.phase = "moving" /\ Underway
         /\ ~command.drilling => Len(journal) > 0
         /\ command.step # "restore" => placed.move = command.origin /\ Exercised
         /\ command.step \in {"copy", "activate"} => gate[Source].raised
         /\ command.step = "activate" => ~command.drilling /\ rows[Target] = rows[Source]
    [] command.step \in {"rollback", "reopen", "restored"} ->
         /\ placed.phase = "resume-source" /\ Underway
         /\ ~command.drilling => Len(journal) > 0
    [] command.step \in {"resume", "settle"} ->
         /\ placed.phase = "resume-target" /\ placed.move = command.origin
         /\ Exercised /\ ~command.drilling
    [] command.step = "record" ->
         /\ placed.phase = "active" /\ placed.region = command.origin.source
         /\ command.origin.source # command.target /\ command.origin.target = command.target
         /\ [command.origin EXCEPT !.epoch = placed.epoch] \in reverted
    [] command.step = "complete" ->
         /\ placed.phase = "active" /\ placed.region = command.origin.target
         /\ Exercised /\ ~command.drilling

MovesInv ==
  /\ MovesTypeOK /\ EveryWriteKept /\ ProofFitsPlacement /\ TestedMovesOnly
  /\ PlacedByPhase /\ OldCellsFenced /\ RecordsTrue /\ CommandFits

-----------------------------------------------------------------------------
(* What every step of a command has in common.                              *)

LEMMA MovesFacts ==
  ASSUME MovesInv
  PROVE  /\ MovesTypeOK /\ EveryWriteKept /\ ProofFitsPlacement /\ TestedMovesOnly
         /\ PlacedByPhase /\ OldCellsFenced /\ RecordsTrue /\ CommandFits
         /\ placed \in Placements /\ placed.move \in Move
         /\ Source \in Regions /\ Target \in Regions
         /\ command # NoCommand => command \in Commands /\ command.origin \in Move
BY DEF MovesInv, MovesTypeOK, Placements, Move, Source, Target, Commands

\* The command goes to another step.
LEMMA GotoMoves ==
  ASSUME command \in Commands, NEW step \in Steps, Goto(step)
  PROVE  command' \in Commands /\ command' = [command EXCEPT !.step = step]
BY DEF Goto, Commands

\* DataFn's transitions keep the types.
LEMMA TransitionTypes ==
  ASSUME placed \in Placements, NEW r \in Regions,
         routes \subseteq [region : Regions, epoch : Epochs],
         NEW phase \in {"active", "moving", "resume-source", "resume-target"},
         Transition(r, phase)
  PROVE  placed' \in Placements /\ routes' \subseteq [region : Regions, epoch : Epochs]
<1>1. placed.move \in Move /\ placed.epoch + 1 \in Epochs
  BY DEF Placements, Transition
<1>. QED  BY <1>1 DEF Transition, Placements

\* Records that stay as they are stay true.
LEMMA RecordsKept ==
  ASSUME RecordsTrue, ProofFitsPlacement, TestedMovesOnly,
         UNCHANGED <<journal, drills, answered>>, reverted \subseteq reverted'
  PROVE  RecordsTrue' /\ ProofFitsPlacement' /\ TestedMovesOnly'
BY DEF RecordsTrue, ProofFitsPlacement, TestedMovesOnly, Pendings

\* The newest of the pending runs is one of them.
LEMMA NewestIsPending ==
  ASSUME MovesTypeOK, Pendings # {}
  PROVE  NewestPending \in Pendings
<1>1. Len(journal) \in Nat /\ DOMAIN journal = 1..Len(journal) /\ Pendings \subseteq 1..Len(journal)
  BY LenProperties DEF MovesTypeOK, Pendings
<1> DEFINE Ages == {Len(journal) - i : i \in Pendings}
<1>2. Ages \in SUBSET Nat /\ Ages # {}
  <2>1. ASSUME NEW i \in Pendings PROVE Len(journal) - i \in Nat
    <3>1. PICK k \in Nat : k = Len(journal) /\ i \in 1..k
      BY <1>1
    <3>. QED  BY <3>1
  <2>. QED  BY <2>1
<1>3. PICK least \in Ages : \A age \in Ages : least <= age
  BY <1>2, Least
<1>4. PICK i \in Pendings : least = Len(journal) - i
  OBVIOUS
<1>5. ASSUME NEW other \in Pendings PROVE other <= i
  <2>1. PICK k \in Nat : k = Len(journal) /\ i \in 1..k /\ other \in 1..k
    BY <1>1
  <2>2. k - i <= k - other
    BY <1>3, <1>4, <2>1
  <2>. QED  BY <2>1, <2>2
<1>. QED  BY <1>5 DEF NewestPending

\* A run of the journal changes: the journal keeps its type.
LEMMA RunChanges ==
  ASSUME MovesTypeOK, NEW i \in DOMAIN journal, NEW row \in RunRows
  PROVE  LET new == [journal EXCEPT ![i] = row] IN
         /\ new \in Seq(RunRows) /\ Len(new) = Len(journal) /\ DOMAIN new = DOMAIN journal
         /\ new[i] = row /\ \A j \in DOMAIN journal : j # i => new[j] = journal[j]
BY ExceptSeq DEF MovesTypeOK

\* The run that is marked failed is no pending one any more.
LEMMA RunFailed ==
  ASSUME MovesTypeOK, RecordsTrue, ProofFitsPlacement, TestedMovesOnly, Len(journal) > 0,
         journal' = [journal EXCEPT ![Len(journal)].status = "failed"],
         UNCHANGED <<drills, answered>>, reverted \subseteq reverted'
  PROVE  /\ journal' \in Seq(RunRows) /\ Len(journal') = Len(journal)
         /\ RecordsTrue' /\ ProofFitsPlacement' /\ TestedMovesOnly'
<1>1. Len(journal) \in DOMAIN journal /\ journal[Len(journal)] \in RunRows
  BY LenProperties, ElementOfSeq DEF MovesTypeOK
<1>2. PICK row \in RunRows :
        row = [journal[Len(journal)] EXCEPT !.status = "failed"] /\ row.status # "running"
  BY <1>1 DEF RunRows
<1>3. journal' = [journal EXCEPT ![Len(journal)] = row]
  BY <1>2
<1>4. /\ journal' \in Seq(RunRows) /\ Len(journal') = Len(journal)
      /\ DOMAIN journal' = DOMAIN journal /\ journal'[Len(journal)] = row
      /\ \A j \in DOMAIN journal : j # Len(journal) => journal'[j] = journal[j]
  BY <1>1, <1>3, RunChanges
<1>5. RecordsTrue'
  BY <1>2, <1>4 DEF RecordsTrue, Pendings
<1>6. ProofFitsPlacement' /\ TestedMovesOnly'
  BY DEF ProofFitsPlacement, TestedMovesOnly
<1>. QED  BY <1>4, <1>5, <1>6

LEMMA WriteHolds ==
  ASSUME MovesAssumption, MovesInv, WriteRouted
  PROVE  MovesInv'
<1>1. /\ MovesTypeOK /\ EveryWriteKept /\ PlacedByPhase /\ OldCellsFenced /\ CommandFits
      /\ RecordsTrue /\ ProofFitsPlacement /\ TestedMovesOnly
      /\ placed \in Placements /\ Source \in Regions /\ Target \in Regions
  BY MovesFacts
<1>2. PICK route \in routes :
        /\ ~gate[route.region].raised
        /\ rows' = [rows EXCEPT ![route.region] = @ + 1]
  BY DEF WriteRouted
<1>3. /\ written <= MaxWrites /\ written' = written + 1
      /\ UNCHANGED <<placed, gate, routes, journal, drills, command, mishaps, reverted, answered>>
  BY DEF WriteRouted
<1>4. route.region = placed.region /\ placed.region \in Regions
  BY <1>1, <1>2 DEF OldCellsFenced, Placements
<1>5. rows' \in [Regions -> 0..MaxWrites + 1] /\ written' \in 1..MaxWrites + 1
  BY <1>1, <1>2, <1>3, <1>4 DEF MovesTypeOK, EveryWriteKept, MovesAssumption
<1>6. MovesTypeOK' /\ EveryWriteKept'
  BY <1>1, <1>2, <1>3, <1>4, <1>5 DEF MovesTypeOK, EveryWriteKept
<1>7. PlacedByPhase' /\ OldCellsFenced'
  BY <1>1, <1>3 DEF PlacedByPhase, OldCellsFenced, Source, Target
<1>8. RecordsTrue' /\ ProofFitsPlacement' /\ TestedMovesOnly'
  BY <1>1, <1>3, RecordsKept
<1>9. CommandFits'
  <2>1. /\ UNCHANGED <<Source, Target, InRecovery, OfTarget, Underway, Exercised>>
        /\ UNCHANGED <<Origin(command.target), CanFinalize(command.target)>>
    BY <1>3 DEF Source, Target, InRecovery, OfTarget, Underway, Exercised, Origin, CanFinalize,
            Finalizes, NewestPending, Pendings
  <2>2. command.step = "activate" => placed.phase = "moving" /\ gate[Source].raised
    BY <1>1 DEF CommandFits
  <2>3. command.step = "activate" => rows'[Source] = rows[Source] /\ rows'[Target] = rows[Target]
    BY <1>1, <1>2, <1>4, <2>2 DEF PlacedByPhase, MovesTypeOK
  <2>. QED  BY <1>1, <1>3, <2>1, <2>3 DEF CommandFits, Source, Target
<1>. QED  BY <1>6, <1>7, <1>8, <1>9 DEF MovesInv

LEMMA BeginHolds ==
  ASSUME MovesAssumption, MovesInv, NEW target \in Regions, BeginCommand(target)
  PROVE  MovesInv'
<1>1. /\ MovesTypeOK /\ EveryWriteKept /\ PlacedByPhase /\ OldCellsFenced
      /\ RecordsTrue /\ ProofFitsPlacement /\ TestedMovesOnly
      /\ placed \in Placements /\ placed.move \in Move
  BY MovesFacts
<1>2. /\ CanFinalize(target) \/ Origin(target).source # target
      /\ InRecovery => placed.move.target = target
      /\ command' = [step |-> IF CanFinalize(target) THEN "finalize" ELSE "drill", target |-> target,
                     origin |-> Origin(target),
                     drilling |-> FALSE, recovering |-> FALSE, failed |-> FALSE]
      /\ UNCHANGED <<placed, rows, gate, routes, written, journal, drills, mishaps, reverted, answered>>
  BY DEF BeginCommand, cells
<1>3. Origin(target) \in Move /\ Origin(target).target = target
  BY <1>1, <1>2 DEF Origin, Move, Placements
<1>4. command' \in Commands
  BY <1>2, <1>3 DEF Commands, Steps
<1>5. MovesTypeOK' /\ EveryWriteKept'
  BY <1>1, <1>2, <1>4 DEF MovesTypeOK, EveryWriteKept
<1>6. PlacedByPhase' /\ OldCellsFenced'
  BY <1>1, <1>2 DEF PlacedByPhase, OldCellsFenced, Source, Target
<1>7. RecordsTrue' /\ ProofFitsPlacement' /\ TestedMovesOnly'
  BY <1>1, <1>2, RecordsKept
<1>8. CommandFits'
  <2>1. CASE CanFinalize(target)
    <3>1. CanFinalize(target)'
      BY <1>2, <2>1 DEF CanFinalize, Finalizes, NewestPending, Pendings
    <3>. QED  BY <1>2, <2>1, <3>1 DEF CommandFits
  <2>2. CASE ~CanFinalize(target)
    <3>1. Origin(target)' = Origin(target)
      BY <1>2 DEF Origin, InRecovery
    <3>. QED  BY <1>2, <1>3, <2>2, <3>1 DEF CommandFits, OfTarget
  <2>. QED  BY <2>1, <2>2
<1>. QED  BY <1>5, <1>6, <1>7, <1>8 DEF MovesInv

\* A command that is over leaves nothing to rely on.
LEMMA EndHolds ==
  ASSUME MovesInv, End, UNCHANGED <<placed, rows, gate, routes, written, drills, reverted>>,
         journal' \in Seq(RunRows), Len(journal') <= MaxRuns, mishaps' \in 0..MaxFaults,
         answered' \in {NoProof} \cup [proof : Proof, region : Regions, epoch : Epochs, tested : {TRUE}],
         RecordsTrue', ProofFitsPlacement', TestedMovesOnly'
  PROVE  MovesInv'
<1>1. MovesTypeOK /\ EveryWriteKept /\ PlacedByPhase /\ OldCellsFenced
  BY MovesFacts
<1>2. command' = NoCommand
  BY DEF End
<1>3. MovesTypeOK' /\ EveryWriteKept' /\ OldCellsFenced'
  BY <1>1, <1>2 DEF MovesTypeOK, EveryWriteKept, OldCellsFenced
<1>4. PlacedByPhase' /\ CommandFits'
  BY <1>1, <1>2 DEF PlacedByPhase, CommandFits, NoCommand, Source, Target
<1>. QED  BY <1>3, <1>4 DEF MovesInv

\* The command goes on and only it changes.
LEMMA StepHolds ==
  ASSUME MovesInv, command' \in Commands, CommandFits',
         UNCHANGED <<placed, rows, gate, routes, written, journal, drills, mishaps, reverted, answered>>
  PROVE  MovesInv'
<1>1. /\ MovesTypeOK /\ EveryWriteKept /\ PlacedByPhase /\ OldCellsFenced
      /\ RecordsTrue /\ ProofFitsPlacement /\ TestedMovesOnly
  BY MovesFacts
<1>2. MovesTypeOK' /\ EveryWriteKept' /\ OldCellsFenced'
  BY <1>1 DEF MovesTypeOK, EveryWriteKept, OldCellsFenced
<1>3. PlacedByPhase'
  BY <1>1 DEF PlacedByPhase, Source, Target
<1>4. RecordsTrue' /\ ProofFitsPlacement' /\ TestedMovesOnly'
  BY <1>1, RecordsKept
<1>. QED  BY <1>2, <1>3, <1>4 DEF MovesInv

LEMMA FinalizeHolds ==
  ASSUME MovesAssumption, MovesInv, command \in Commands, Finalize
  PROVE  MovesInv'
<1>1. /\ MovesTypeOK /\ RecordsTrue /\ CommandFits /\ placed \in Placements
  BY MovesFacts
<1>2. CanFinalize(command.target) /\ UNCHANGED placed
  BY <1>1 DEF CommandFits, Finalize
<1>3. PICK i \in Pendings : i = NewestPending
  BY <1>1, <1>2, NewestIsPending DEF CanFinalize
<1>4. /\ i \in DOMAIN journal /\ journal[i] \in RunRows /\ journal[i].proof \in Proof
      /\ journal[i].proof.move \in reverted
      /\ journal[i].proof.final = placed.epoch /\ journal[i].proof.move.target = placed.region
  <2>1. i \in DOMAIN journal /\ journal[i] \in RunRows
    BY <1>1, <1>3, ElementOfSeq, LenProperties DEF Pendings, MovesTypeOK
  <2>2. journal[i].proof.tested /\ journal[i].proof.move \in reverted
    BY <1>1, <1>3 DEF RecordsTrue
  <2>3. journal[i].proof \in Proof
    BY <2>1, <2>2 DEF RunRows, NoProof
  <2>4. Finalizes(journal[i].proof, command.target)
    BY <1>2, <1>3 DEF CanFinalize
  <2>. QED  BY <2>1, <2>2, <2>3, <2>4 DEF Finalizes
<1>5. PICK row \in RunRows :
        row = [journal[i] EXCEPT !.status = "completed"] /\ row.proof = journal[i].proof
  BY <1>4 DEF RunRows
<1>6. journal' = [journal EXCEPT ![i] = row]
  <2>1. journal' = [journal EXCEPT ![i].status = "completed"]
    BY <1>3 DEF Finalize
  <2>. QED  BY <1>5, <2>1
<1>7. /\ journal' \in Seq(RunRows) /\ Len(journal') <= MaxRuns /\ DOMAIN journal' = DOMAIN journal
      /\ journal'[i] = row /\ \A j \in DOMAIN journal : j # i => journal'[j] = journal[j]
  BY <1>1, <1>4, <1>6, RunChanges DEF MovesTypeOK
<1>8. answered' = [proof |-> journal[i].proof, region |-> placed.region, epoch |-> placed.epoch,
                   tested |-> TRUE]
  BY <1>3 DEF Finalize, Answer
<1>9. UNCHANGED <<rows, gate, routes, written, drills, mishaps, reverted>> /\ End
  BY DEF Finalize, cells
<1>10. RecordsTrue'
  BY <1>1, <1>5, <1>7, <1>9 DEF RecordsTrue, Pendings
<1>11. ProofFitsPlacement' /\ TestedMovesOnly'
  BY <1>2, <1>4, <1>8, <1>9 DEF ProofFitsPlacement, TestedMovesOnly
<1>12. /\ mishaps' \in 0..MaxFaults
       /\ answered' \in [proof : Proof, region : Regions, epoch : Epochs, tested : {TRUE}]
  BY <1>1, <1>4, <1>8, <1>9 DEF MovesTypeOK, Placements
<1>. QED  BY <1>2, <1>7, <1>9, <1>10, <1>11, <1>12, EndHolds

LEMMA DrillHolds ==
  ASSUME MovesAssumption, MovesInv, command \in Commands, Drill
  PROVE  MovesInv'
<1>1. /\ MovesTypeOK /\ RecordsTrue /\ ProofFitsPlacement /\ TestedMovesOnly /\ CommandFits
  BY MovesFacts
<1>2. /\ command.step = "drill" /\ OfTarget
      /\ UNCHANGED <<placed, rows, gate, routes, written, journal, drills, mishaps, reverted, answered>>
  BY <1>1 DEF Drill, CommandFits, cells
<1>3. \A t : Origin(t)' = Origin(t)
  BY <1>2 DEF Origin, InRecovery
<1>4. CASE command.origin \in drills
  <2>1. Goto("start") /\ command.origin \in reverted
    BY <1>1, <1>4 DEF Drill, RecordsTrue
  <2>2. command' \in Commands /\ command' = [command EXCEPT !.step = "start"]
    BY <2>1, GotoMoves DEF Steps
  <2>3. InRecovery => Target = command.target
    BY <1>2 DEF OfTarget, Origin, Target
  <2>4. CommandFits'
    BY <1>2, <1>3, <2>1, <2>2, <2>3 DEF CommandFits, OfTarget, Commands, InRecovery, Target
  <2>. QED  BY <1>2, <2>2, <2>4, StepHolds
<1>5. CASE command.origin \notin drills /\ placed.phase = "resume-target"
  <2>1. End
    BY <1>5 DEF Drill
  <2>2. RecordsTrue' /\ ProofFitsPlacement' /\ TestedMovesOnly'
    BY <1>1, <1>2, RecordsKept
  <2>. QED  BY <1>1, <1>2, <2>1, <2>2, EndHolds DEF MovesTypeOK
<1>6. CASE command.origin \notin drills /\ placed.phase # "resume-target"
  <2>1. command' = [command EXCEPT !.step = "move", !.drilling = TRUE]
    BY <1>6 DEF Drill
  <2>2. command' \in Commands /\ command'.step = "move" /\ command'.drilling
        /\ command'.target = command.target /\ command'.origin = command.origin
    BY <2>1 DEF Commands, Steps
  <2>3. CommandFits'
    BY <1>2, <1>3, <1>6, <2>2 DEF CommandFits, OfTarget, Exercised
  <2>. QED  BY <1>2, <2>2, <2>3, StepHolds
<1>. QED  BY <1>4, <1>5, <1>6

LEMMA StartRunHolds ==
  ASSUME MovesAssumption, MovesInv, command \in Commands, StartRun
  PROVE  MovesInv'
<1>1. /\ MovesTypeOK /\ EveryWriteKept /\ PlacedByPhase /\ OldCellsFenced /\ CommandFits
      /\ RecordsTrue /\ ProofFitsPlacement /\ TestedMovesOnly
      /\ placed \in Placements /\ placed.move \in Move
  BY MovesFacts
<1>2. /\ command.step = "start" /\ Len(journal) < MaxRuns
      /\ UNCHANGED <<placed, rows, gate, routes, written, drills, mishaps, reverted, answered>>
  BY DEF StartRun, cells
<1>3. PICK row :
        row = [status |-> "running", pending |-> FALSE, proof |-> NoProof]
  OBVIOUS
<1>4. row \in RunRows /\ ~row.pending /\ journal' = Append(journal, row)
  BY <1>3 DEF StartRun, RunRows
<1>5. /\ journal' \in Seq(RunRows) /\ Len(journal') = Len(journal) + 1
      /\ Len(journal) \in Nat /\ DOMAIN journal' = 1..(Len(journal) + 1)
      /\ journal'[Len(journal) + 1] = row
      /\ \A i \in 1..Len(journal) : i \in DOMAIN journal /\ journal'[i] = journal[i]
  BY <1>1, <1>4, AppendProperties, LenProperties DEF MovesTypeOK
<1>6. RecordsTrue'
  <2>1. \A i \in Pendings' : i \in 1..Len(journal) /\ i \in Pendings
    BY <1>3, <1>5 DEF Pendings
  <2>. QED  BY <1>1, <1>2, <1>5, <2>1 DEF RecordsTrue
<1>7. ProofFitsPlacement' /\ TestedMovesOnly'
  BY <1>1, <1>2 DEF ProofFitsPlacement, TestedMovesOnly
<1>8. /\ Origin(command.target) \in Move /\ Origin(command.target) \in reverted
      /\ Origin(command.target).target = command.target
      /\ Origin(command.target).source # command.target
  <2>1. command.target \in Regions
    BY DEF Commands
  <2>. QED  BY <1>1, <1>2, <2>1 DEF CommandFits, Origin, Placements, Move, Target
<1>9. /\ command' \in Commands /\ command'.step = "move" /\ ~command'.drilling
      /\ command'.target = command.target /\ command'.origin = Origin(command.target)
  <2>1. command' = [command EXCEPT !.step = "move", !.drilling = FALSE,
                                   !.origin = Origin(command.target)]
    BY DEF StartRun
  <2>. QED  BY <1>8, <2>1 DEF Commands, Steps
<1>10. MovesTypeOK' /\ EveryWriteKept'
  <2>1. Len(journal') <= MaxRuns
    BY <1>2, <1>5 DEF MovesAssumption
  <2>. QED  BY <1>1, <1>2, <1>5, <1>9, <2>1 DEF MovesTypeOK, EveryWriteKept
<1>11. PlacedByPhase' /\ OldCellsFenced'
  BY <1>1, <1>2 DEF PlacedByPhase, OldCellsFenced, Source, Target
<1>12. CommandFits'
  <2>2. Origin(command.target)' = Origin(command.target)
    BY <1>2, <1>9 DEF Origin, InRecovery
  <2>3. OfTarget' /\ Exercised'
    BY <1>2, <1>5, <1>8, <1>9, <2>2 DEF OfTarget, Exercised
  <2>. QED  BY <1>9, <2>3 DEF CommandFits
<1>. QED  BY <1>6, <1>7, <1>10, <1>11, <1>12 DEF MovesInv

LEMMA BeginMoveHolds ==
  ASSUME MovesAssumption, MovesInv, command \in Commands, BeginMove
  PROVE  MovesInv'
<1>1. /\ MovesTypeOK /\ EveryWriteKept /\ PlacedByPhase /\ OldCellsFenced /\ CommandFits
      /\ RecordsTrue /\ ProofFitsPlacement /\ TestedMovesOnly
      /\ placed \in Placements /\ placed.move \in Move
  BY MovesFacts
<1>2. /\ OfTarget /\ Exercised
      /\ command.drilling => placed.phase # "resume-target"
      /\ UNCHANGED <<rows, gate, written, journal, drills, mishaps, reverted, answered>>
  BY <1>1 DEF BeginMove, CommandFits
<1>3. PICK step \in Steps :
        step = CASE placed.phase = "active" -> "fence"
                 [] placed.phase = "moving" -> "restore"
                 [] placed.phase = "resume-source" -> "rollback"
                 [] placed.phase = "resume-target" -> "resume"
  BY <1>1 DEF Placements, Steps
<1>4. /\ command' \in Commands /\ command'.step = step /\ command'.target = command.target
      /\ command'.origin = command.origin /\ command'.drilling = command.drilling
  <2>1. command' = [command EXCEPT !.recovering = InRecovery, !.step = step]
    BY <1>3 DEF BeginMove
  <2>. QED  BY <2>1 DEF Commands, InRecovery
<1>5. /\ placed' \in Placements /\ routes' \subseteq [region : Regions, epoch : Epochs]
      /\ placed'.region = placed.region /\ placed'.phase = placed.phase /\ placed'.move = placed.move
      /\ placed' = placed \/ (InRecovery /\ placed'.epoch = placed.epoch + 1)
      /\ \A route \in routes' : route \in routes \/ route.region = placed.region
  <2>1. CASE UNCHANGED <<placed, routes>>
    BY <1>1, <2>1 DEF MovesTypeOK
  <2>2. CASE InRecovery /\ Transition(placed.region, placed.phase)
    <3>1. placed.region \in Regions
          /\ placed.phase \in {"active", "moving", "resume-source", "resume-target"}
      BY <1>1 DEF Placements
    <3>2. placed' \in Placements /\ routes' \subseteq [region : Regions, epoch : Epochs]
      BY <1>1, <2>2, <3>1, TransitionTypes DEF MovesTypeOK
    <3>. QED  BY <2>2, <3>1, <3>2 DEF Transition
  <2>. QED  BY <2>1, <2>2 DEF BeginMove
<1>6. MovesTypeOK' /\ EveryWriteKept'
  BY <1>1, <1>2, <1>4, <1>5 DEF MovesTypeOK, EveryWriteKept
<1>7. OldCellsFenced'
  BY <1>1, <1>2, <1>5 DEF OldCellsFenced
<1>8. PlacedByPhase'
  <2>1. placed.epoch \in Nat /\ placed.move.epoch \in Nat
    BY <1>1 DEF Placements, Move, Epochs
  <2>. QED  BY <1>1, <1>2, <1>5, <2>1 DEF PlacedByPhase, Source, Target
<1>9. RecordsTrue' /\ ProofFitsPlacement' /\ TestedMovesOnly'
  BY <1>1, <1>2, RecordsKept
<1>10. CommandFits'
  <2>1. CASE placed.phase = "active"
    <3>1. placed' = placed /\ step = "fence"
      BY <1>3, <1>5, <2>1 DEF InRecovery
    <3>. QED  BY <1>2, <1>4, <2>1, <3>1
          DEF CommandFits, OfTarget, Exercised, Origin, InRecovery
  <2>2. CASE placed.phase # "active"
    <3>1. command.origin = placed.move /\ command.origin.target = command.target
      BY <1>2, <2>2 DEF OfTarget, Origin, InRecovery
    <3>2. Underway' /\ Exercised'
      BY <1>2, <1>4, <1>5, <3>1 DEF Underway, Exercised, Source, Target
    <3>3. ~command.drilling => Len(journal) > 0
      BY <1>2 DEF Exercised
    <3>4. placed.phase = "resume-target" => ~command.drilling
      BY <1>2
    <3>. QED  BY <1>1, <1>2, <1>3, <1>4, <1>5, <2>2, <3>1, <3>2, <3>3, <3>4
          DEF CommandFits, Placements
  <2>. QED  BY <2>1, <2>2
<1>. QED  BY <1>6, <1>7, <1>8, <1>9, <1>10 DEF MovesInv

LEMMA FencePlacementHolds ==
  ASSUME MovesAssumption, MovesInv, command \in Commands, FencePlacement
  PROVE  MovesInv'
<1>1. /\ MovesTypeOK /\ EveryWriteKept /\ OldCellsFenced /\ CommandFits
      /\ RecordsTrue /\ ProofFitsPlacement /\ TestedMovesOnly
      /\ placed \in Placements /\ command.origin \in Move
  BY MovesFacts DEF Commands
<1>2. /\ placed.phase = "active" /\ OfTarget /\ Exercised /\ Goto("quiesce")
      /\ placed' = [region |-> placed.region, epoch |-> placed.epoch + 1, move |-> command.origin,
                    phase |-> "moving"]
      /\ placed.epoch + 1 \in Epochs
      /\ UNCHANGED <<rows, gate, routes, written, journal, drills, mishaps, reverted, answered>>
  BY <1>1 DEF FencePlacement, CommandFits, cells
<1>3. /\ command.origin.source = placed.region /\ command.origin.target = command.target
      /\ command.origin.source # command.target /\ command.origin.epoch = placed.epoch
  BY <1>2 DEF OfTarget, Origin, InRecovery
<1>4. command' \in Commands /\ command' = [command EXCEPT !.step = "quiesce"]
  BY <1>2, GotoMoves DEF Steps
<1>5. placed' \in Placements
  BY <1>1, <1>2 DEF Placements
<1>6. MovesTypeOK' /\ EveryWriteKept' /\ OldCellsFenced'
  BY <1>1, <1>2, <1>4, <1>5 DEF MovesTypeOK, EveryWriteKept, OldCellsFenced
<1>7. PlacedByPhase'
  <2>1. placed'.epoch >= command.origin.epoch + 1
    BY <1>1, <1>2, <1>3 DEF Placements, Epochs
  <2>. QED  BY <1>2, <1>3, <2>1 DEF PlacedByPhase, Source, Target
<1>8. RecordsTrue' /\ ProofFitsPlacement' /\ TestedMovesOnly'
  BY <1>1, <1>2, RecordsKept
<1>9. CommandFits'
  <2>1. Underway' /\ Exercised' /\ placed'.move = command'.origin
    BY <1>2, <1>3, <1>4 DEF Underway, Exercised, Source, Target, Commands
  <2>. QED  BY <1>2, <1>4, <2>1 DEF CommandFits, Exercised, Commands
<1>. QED  BY <1>6, <1>7, <1>8, <1>9 DEF MovesInv

LEMMA QuiesceSourceHolds ==
  ASSUME MovesAssumption, MovesInv, command \in Commands, QuiesceSource
  PROVE  MovesInv'
<1>1. /\ MovesTypeOK /\ EveryWriteKept /\ PlacedByPhase /\ OldCellsFenced /\ CommandFits
      /\ RecordsTrue /\ ProofFitsPlacement /\ TestedMovesOnly
      /\ Source \in Regions
  BY MovesFacts
<1>2. /\ placed.phase = "moving" /\ Underway /\ placed.move = command.origin /\ Exercised
      /\ gate' = [gate EXCEPT ![Source].raised = TRUE] /\ Goto("copy")
      /\ UNCHANGED <<placed, rows, routes, written, journal, drills, mishaps, reverted, answered>>
  BY <1>1 DEF QuiesceSource, CommandFits
<1>3. command' \in Commands /\ command' = [command EXCEPT !.step = "copy"]
  BY <1>2, GotoMoves DEF Steps
<1>4. /\ gate' \in [Regions -> Gates] /\ gate'[Source].raised
      /\ \A r \in Regions : gate[r].raised => gate'[r].raised
  BY <1>1, <1>2 DEF MovesTypeOK, Gates
<1>5. MovesTypeOK' /\ EveryWriteKept'
  BY <1>1, <1>2, <1>3, <1>4 DEF MovesTypeOK, EveryWriteKept
<1>6. OldCellsFenced'
  BY <1>1, <1>2, <1>4 DEF OldCellsFenced, MovesTypeOK
<1>7. PlacedByPhase'
  BY <1>1, <1>2 DEF PlacedByPhase, Source, Target
<1>8. RecordsTrue' /\ ProofFitsPlacement' /\ TestedMovesOnly'
  BY <1>1, <1>2, RecordsKept
<1>9. CommandFits'
  <2>1. Underway' /\ Exercised' /\ gate'[Source'].raised
    BY <1>2, <1>3, <1>4 DEF Underway, Exercised, Source, Target, Commands
  <2>. QED  BY <1>2, <1>3, <2>1 DEF CommandFits, Exercised, Commands, Source
<1>. QED  BY <1>5, <1>6, <1>7, <1>8, <1>9 DEF MovesInv

LEMMA CopyRowsHolds ==
  ASSUME MovesAssumption, MovesInv, command \in Commands, CopyRows
  PROVE  MovesInv'
<1>1. /\ MovesTypeOK /\ EveryWriteKept /\ PlacedByPhase /\ OldCellsFenced /\ CommandFits
      /\ RecordsTrue /\ ProofFitsPlacement /\ TestedMovesOnly
      /\ Source \in Regions /\ Target \in Regions
  BY MovesFacts
<1>2. /\ placed.phase = "moving" /\ Underway /\ placed.move = command.origin /\ Exercised
      /\ gate[Source].raised
      /\ rows' = [rows EXCEPT ![Target] = rows[Source]]
      /\ Goto(IF command.drilling THEN "restore" ELSE "activate")
      /\ UNCHANGED <<placed, gate, routes, written, journal, drills, mishaps, reverted, answered>>
  BY <1>1 DEF CopyRows, CommandFits
<1>3. /\ command' \in Commands
      /\ command' = [command EXCEPT !.step = IF command.drilling THEN "restore" ELSE "activate"]
  BY <1>2, GotoMoves DEF Steps
<1>4. Source # Target /\ placed.region = Source
  BY <1>1, <1>2 DEF PlacedByPhase
<1>5. /\ rows' \in [Regions -> 0..MaxWrites + 1]
      /\ rows'[Target] = rows[Source] /\ rows'[Source] = rows[Source]
  BY <1>1, <1>2, <1>4 DEF MovesTypeOK
<1>6. MovesTypeOK' /\ EveryWriteKept'
  BY <1>1, <1>2, <1>3, <1>4, <1>5 DEF MovesTypeOK, EveryWriteKept
<1>7. PlacedByPhase' /\ OldCellsFenced'
  BY <1>1, <1>2 DEF PlacedByPhase, OldCellsFenced, Source, Target
<1>8. RecordsTrue' /\ ProofFitsPlacement' /\ TestedMovesOnly'
  BY <1>1, <1>2, RecordsKept
<1>9. CommandFits'
  <2>1. Underway' /\ Exercised' /\ Source' = Source /\ Target' = Target
    BY <1>2, <1>3 DEF Underway, Exercised, Source, Target, Commands
  <2>. QED  BY <1>2, <1>3, <1>5, <2>1 DEF CommandFits, Exercised, Commands
<1>. QED  BY <1>6, <1>7, <1>8, <1>9 DEF MovesInv

LEMMA ActivateHolds ==
  ASSUME MovesAssumption, MovesInv, command \in Commands, Activate
  PROVE  MovesInv'
<1>1. /\ MovesTypeOK /\ EveryWriteKept /\ PlacedByPhase /\ OldCellsFenced /\ CommandFits
      /\ RecordsTrue /\ ProofFitsPlacement /\ TestedMovesOnly
      /\ placed \in Placements /\ placed.move \in Move /\ Source \in Regions /\ Target \in Regions
  BY MovesFacts
<1>2. /\ placed.phase = "moving" /\ Underway /\ placed.move = command.origin /\ Exercised
      /\ gate[Source].raised /\ ~command.drilling /\ rows[Target] = rows[Source]
      /\ Transition(Target, "resume-target") /\ Goto("resume")
      /\ UNCHANGED <<rows, gate, written, journal, drills, mishaps, reverted, answered>>
  BY <1>1 DEF Activate, CommandFits
<1>3. command' \in Commands /\ command' = [command EXCEPT !.step = "resume"]
  BY <1>2, GotoMoves DEF Steps
<1>4. placed' \in Placements /\ routes' \subseteq [region : Regions, epoch : Epochs]
  BY <1>1, <1>2, TransitionTypes DEF MovesTypeOK
<1>5. /\ placed' = [region |-> Target, epoch |-> placed.epoch + 1, move |-> placed.move,
                    phase |-> "resume-target"]
      /\ routes' = routes \cup {[region |-> Target, epoch |-> placed.epoch + 1]}
  BY <1>2 DEF Transition
<1>6. Source # Target /\ placed.region = Source /\ placed.epoch >= placed.move.epoch + 1
  BY <1>1, <1>2 DEF PlacedByPhase
<1>7. MovesTypeOK' /\ EveryWriteKept'
  BY <1>1, <1>2, <1>3, <1>4, <1>5, <1>6 DEF MovesTypeOK, EveryWriteKept
<1>8. OldCellsFenced'
  BY <1>1, <1>2, <1>5, <1>6 DEF OldCellsFenced
<1>9. PlacedByPhase'
  <2>1. placed'.epoch >= placed'.move.epoch + 2
    BY <1>1, <1>5, <1>6 DEF Placements, Move, Epochs
  <2>2. placed'.move \in reverted'
    BY <1>2, <1>5 DEF Exercised
  <2>. QED  BY <1>5, <1>6, <2>1, <2>2 DEF PlacedByPhase, Source, Target
<1>10. RecordsTrue' /\ ProofFitsPlacement' /\ TestedMovesOnly'
  BY <1>1, <1>2, RecordsKept
<1>11. CommandFits'
  BY <1>2, <1>3, <1>5 DEF CommandFits, Exercised, Commands
<1>. QED  BY <1>7, <1>8, <1>9, <1>10, <1>11 DEF MovesInv

\* The cell where the workspace is takes writes again.
LEMMA OpenedHome ==
  ASSUME MovesAssumption, MovesTypeOK, placed \in Placements, placed.move \in Move,
         OldCellsFenced, NEW r \in Regions, r = placed.region, placed.epoch >= placed.move.epoch + 2,
         gate' = Opened(r), UNCHANGED <<placed, routes>>
  PROVE  gate' \in [Regions -> Gates] /\ OldCellsFenced'
<1>1. PICK since \in Epochs : since = placed.move.epoch + 2
  <2>1. placed.epoch \in Epochs /\ placed.move.epoch \in Epochs
    BY DEF Placements, Move
  <2>. QED  BY <2>1 DEF Epochs, MovesAssumption
<1>2. PICK opened \in Gates :
        opened = [raised |-> FALSE,
                  active |-> IF gate[r].active < since THEN since ELSE gate[r].active]
  BY DEF Gates, MovesTypeOK
<1>3. gate' = [gate EXCEPT ![r] = opened]
  BY <1>1, <1>2 DEF Opened
<1>. QED  BY <1>3 DEF MovesTypeOK, OldCellsFenced

LEMMA ResumeTargetHolds ==
  ASSUME MovesAssumption, MovesInv, command \in Commands, ResumeTarget
  PROVE  MovesInv'
<1>1. /\ MovesTypeOK /\ EveryWriteKept /\ PlacedByPhase /\ OldCellsFenced /\ CommandFits
      /\ RecordsTrue /\ ProofFitsPlacement /\ TestedMovesOnly
      /\ placed \in Placements /\ placed.move \in Move /\ Target \in Regions
  BY MovesFacts
<1>2. /\ placed.phase = "resume-target" /\ placed.move = command.origin
      /\ Exercised /\ ~command.drilling
      /\ gate' = Opened(Target) /\ Goto("settle")
      /\ UNCHANGED <<placed, rows, routes, written, journal, drills, mishaps, reverted, answered>>
  BY <1>1 DEF ResumeTarget, CommandFits
<1>3. command' \in Commands /\ command' = [command EXCEPT !.step = "settle"]
  BY <1>2, GotoMoves DEF Steps
<1>4. placed.region = Target /\ placed.epoch >= placed.move.epoch + 2
  BY <1>1, <1>2 DEF PlacedByPhase
<1>5. gate' \in [Regions -> Gates] /\ OldCellsFenced'
  BY <1>1, <1>2, <1>4, OpenedHome
<1>6. MovesTypeOK' /\ EveryWriteKept'
  BY <1>1, <1>2, <1>3, <1>5 DEF MovesTypeOK, EveryWriteKept
<1>7. PlacedByPhase'
  BY <1>1, <1>2 DEF PlacedByPhase, Source, Target
<1>8. RecordsTrue' /\ ProofFitsPlacement' /\ TestedMovesOnly'
  BY <1>1, <1>2, RecordsKept
<1>9. CommandFits'
  BY <1>2, <1>3 DEF CommandFits, Exercised, Commands
<1>. QED  BY <1>5, <1>6, <1>7, <1>8, <1>9 DEF MovesInv

LEMMA SettleHolds ==
  ASSUME MovesAssumption, MovesInv, command \in Commands, Settle
  PROVE  MovesInv'
<1>1. /\ MovesTypeOK /\ EveryWriteKept /\ PlacedByPhase /\ OldCellsFenced /\ CommandFits
      /\ RecordsTrue /\ ProofFitsPlacement /\ TestedMovesOnly
      /\ placed \in Placements /\ placed.region \in Regions
  BY MovesFacts DEF Placements
<1>2. /\ placed.phase = "resume-target" /\ placed.move = command.origin
      /\ Exercised /\ ~command.drilling
      /\ Transition(placed.region, "active") /\ Goto("complete")
      /\ UNCHANGED <<rows, gate, written, journal, drills, mishaps, reverted, answered>>
  BY <1>1 DEF Settle, CommandFits
<1>3. command' \in Commands /\ command' = [command EXCEPT !.step = "complete"]
  BY <1>2, GotoMoves DEF Steps
<1>4. placed' \in Placements /\ routes' \subseteq [region : Regions, epoch : Epochs]
  BY <1>1, <1>2, TransitionTypes DEF MovesTypeOK
<1>5. /\ placed' = [region |-> placed.region, epoch |-> placed.epoch + 1, move |-> placed.move,
                    phase |-> "active"]
      /\ routes' = routes \cup {[region |-> placed.region, epoch |-> placed.epoch + 1]}
  BY <1>2 DEF Transition
<1>6. placed.region = command.origin.target
  BY <1>1, <1>2 DEF PlacedByPhase, Target
<1>7. MovesTypeOK' /\ EveryWriteKept'
  BY <1>1, <1>2, <1>3, <1>4, <1>5 DEF MovesTypeOK, EveryWriteKept
<1>8. OldCellsFenced' /\ PlacedByPhase'
  BY <1>1, <1>2, <1>5 DEF OldCellsFenced, PlacedByPhase
<1>9. RecordsTrue' /\ ProofFitsPlacement' /\ TestedMovesOnly'
  BY <1>1, <1>2, RecordsKept
<1>10. CommandFits'
  BY <1>2, <1>3, <1>5, <1>6 DEF CommandFits, Exercised, Commands
<1>. QED  BY <1>7, <1>8, <1>9, <1>10 DEF MovesInv

LEMMA RestoreHolds ==
  ASSUME MovesAssumption, MovesInv, command \in Commands, Restore
  PROVE  MovesInv'
<1>1. /\ MovesTypeOK /\ EveryWriteKept /\ PlacedByPhase /\ OldCellsFenced /\ CommandFits
      /\ RecordsTrue /\ ProofFitsPlacement /\ TestedMovesOnly
      /\ placed \in Placements /\ placed.move \in Move /\ Source \in Regions
  BY MovesFacts
<1>2. /\ placed.phase = "moving" /\ Underway /\ (~command.drilling => Len(journal) > 0)
      /\ Transition(Source, "resume-source") /\ Goto("rollback")
      /\ UNCHANGED <<rows, gate, written, journal, drills, mishaps, reverted, answered>>
  BY <1>1 DEF Restore, CommandFits
<1>3. command' \in Commands /\ command' = [command EXCEPT !.step = "rollback"]
  BY <1>2, GotoMoves DEF Steps
<1>4. placed' \in Placements /\ routes' \subseteq [region : Regions, epoch : Epochs]
  BY <1>1, <1>2, TransitionTypes DEF MovesTypeOK
<1>5. /\ placed' = [region |-> Source, epoch |-> placed.epoch + 1, move |-> placed.move,
                    phase |-> "resume-source"]
      /\ routes' = routes \cup {[region |-> Source, epoch |-> placed.epoch + 1]}
  BY <1>2 DEF Transition
<1>6. Source # Target /\ placed.region = Source /\ placed.epoch >= placed.move.epoch + 1
  BY <1>1, <1>2 DEF PlacedByPhase
<1>7. MovesTypeOK' /\ EveryWriteKept'
  BY <1>1, <1>2, <1>3, <1>4, <1>5, <1>6 DEF MovesTypeOK, EveryWriteKept
<1>8. OldCellsFenced'
  BY <1>1, <1>2, <1>5, <1>6 DEF OldCellsFenced
<1>9. PlacedByPhase'
  <2>1. placed'.epoch >= placed'.move.epoch + 2
    BY <1>1, <1>5, <1>6 DEF Placements, Move, Epochs
  <2>. QED  BY <1>5, <1>6, <2>1 DEF PlacedByPhase, Source, Target
<1>10. RecordsTrue' /\ ProofFitsPlacement' /\ TestedMovesOnly'
  BY <1>1, <1>2, RecordsKept
<1>11. CommandFits'
  <2>1. Underway'
    BY <1>2, <1>3, <1>5 DEF Underway, Source, Target, Commands
  <2>. QED  BY <1>2, <1>3, <1>5, <2>1 DEF CommandFits, Commands
<1>. QED  BY <1>7, <1>8, <1>9, <1>10, <1>11 DEF MovesInv

LEMMA DeleteCopyHolds ==
  ASSUME MovesAssumption, MovesInv, command \in Commands, DeleteCopy
  PROVE  MovesInv'
<1>1. /\ MovesTypeOK /\ EveryWriteKept /\ PlacedByPhase /\ OldCellsFenced /\ CommandFits
      /\ RecordsTrue /\ ProofFitsPlacement /\ TestedMovesOnly
      /\ Source \in Regions /\ Target \in Regions
  BY MovesFacts
<1>2. /\ placed.phase = "resume-source" /\ Underway /\ (~command.drilling => Len(journal) > 0)
      /\ rows' = [rows EXCEPT ![Target] = 0] /\ Goto("reopen")
      /\ UNCHANGED <<placed, gate, routes, written, journal, drills, mishaps, reverted, answered>>
  BY <1>1 DEF DeleteCopy, CommandFits
<1>3. command' \in Commands /\ command' = [command EXCEPT !.step = "reopen"]
  BY <1>2, GotoMoves DEF Steps
<1>4. Source # Target /\ placed.region = Source
  BY <1>1, <1>2 DEF PlacedByPhase
<1>5. rows' \in [Regions -> 0..MaxWrites + 1] /\ rows'[Source] = rows[Source]
  BY <1>1, <1>2, <1>4 DEF MovesTypeOK, MovesAssumption
<1>6. MovesTypeOK' /\ EveryWriteKept'
  BY <1>1, <1>2, <1>3, <1>4, <1>5 DEF MovesTypeOK, EveryWriteKept
<1>7. PlacedByPhase' /\ OldCellsFenced'
  BY <1>1, <1>2 DEF PlacedByPhase, OldCellsFenced, Source, Target
<1>8. RecordsTrue' /\ ProofFitsPlacement' /\ TestedMovesOnly'
  BY <1>1, <1>2, RecordsKept
<1>9. CommandFits'
  <2>1. Underway'
    BY <1>2, <1>3 DEF Underway, Source, Target, Commands
  <2>. QED  BY <1>2, <1>3, <2>1 DEF CommandFits, Commands
<1>. QED  BY <1>6, <1>7, <1>8, <1>9 DEF MovesInv

LEMMA ReopenSourceHolds ==
  ASSUME MovesAssumption, MovesInv, command \in Commands, ReopenSource
  PROVE  MovesInv'
<1>1. /\ MovesTypeOK /\ EveryWriteKept /\ PlacedByPhase /\ OldCellsFenced /\ CommandFits
      /\ RecordsTrue /\ ProofFitsPlacement /\ TestedMovesOnly
      /\ placed \in Placements /\ placed.move \in Move /\ Source \in Regions
  BY MovesFacts
<1>2. /\ placed.phase = "resume-source" /\ Underway /\ (~command.drilling => Len(journal) > 0)
      /\ gate' = Opened(Source) /\ Goto("restored")
      /\ UNCHANGED <<placed, rows, routes, written, journal, drills, mishaps, reverted, answered>>
  BY <1>1 DEF ReopenSource, CommandFits
<1>3. command' \in Commands /\ command' = [command EXCEPT !.step = "restored"]
  BY <1>2, GotoMoves DEF Steps
<1>4. placed.region = Source /\ placed.epoch >= placed.move.epoch + 2
  BY <1>1, <1>2 DEF PlacedByPhase
<1>5. gate' \in [Regions -> Gates] /\ OldCellsFenced'
  BY <1>1, <1>2, <1>4, OpenedHome
<1>6. MovesTypeOK' /\ EveryWriteKept'
  BY <1>1, <1>2, <1>3, <1>5 DEF MovesTypeOK, EveryWriteKept
<1>7. PlacedByPhase'
  BY <1>1, <1>2 DEF PlacedByPhase, Source, Target
<1>8. RecordsTrue' /\ ProofFitsPlacement' /\ TestedMovesOnly'
  BY <1>1, <1>2, RecordsKept
<1>9. CommandFits'
  <2>1. Underway'
    BY <1>2, <1>3 DEF Underway, Source, Target, Commands
  <2>. QED  BY <1>2, <1>3, <2>1 DEF CommandFits, Commands
<1>. QED  BY <1>5, <1>6, <1>7, <1>8, <1>9 DEF MovesInv

LEMMA RestoredHolds ==
  ASSUME MovesAssumption, MovesInv, command \in Commands, Restored
  PROVE  MovesInv'
<1>1. /\ MovesTypeOK /\ EveryWriteKept /\ PlacedByPhase /\ OldCellsFenced /\ CommandFits
      /\ RecordsTrue /\ ProofFitsPlacement /\ TestedMovesOnly
      /\ placed \in Placements /\ placed.move \in Move /\ Source \in Regions
      /\ command.target \in Regions /\ command.origin \in Move
  BY MovesFacts DEF Commands
<1>2. /\ placed.phase = "resume-source" /\ Underway /\ (~command.drilling => Len(journal) > 0)
      /\ Transition(Source, "active")
      /\ reverted' = reverted \cup {[placed.move EXCEPT !.epoch = placed.epoch + 1]}
      /\ UNCHANGED <<rows, gate, written, drills, mishaps, answered>>
  BY <1>1 DEF Restored, CommandFits
<1>3. placed' \in Placements /\ routes' \subseteq [region : Regions, epoch : Epochs]
  BY <1>1, <1>2, TransitionTypes DEF MovesTypeOK
<1>4. /\ placed' = [region |-> Source, epoch |-> placed.epoch + 1, move |-> placed.move,
                    phase |-> "active"]
      /\ routes' = routes \cup {[region |-> Source, epoch |-> placed.epoch + 1]}
      /\ placed.epoch + 1 \in Epochs
  BY <1>2 DEF Transition
<1>5. placed.region = Source /\ Source # Target
  BY <1>1, <1>2 DEF PlacedByPhase
<1>6. PICK back \in Move :
        /\ back = [source |-> Source, target |-> command.target, epoch |-> placed.epoch + 1]
        /\ reverted' = reverted \cup {back}
  <2>1. [placed.move EXCEPT !.epoch = placed.epoch + 1] =
          [source |-> Source, target |-> command.target, epoch |-> placed.epoch + 1]
    BY <1>1, <1>2 DEF Move, Source, Target, Underway
  <2>. QED  BY <1>1, <1>2, <1>4, <2>1 DEF Move
<1>7. /\ journal' \in Seq(RunRows) /\ Len(journal') <= MaxRuns
      /\ RecordsTrue' /\ ProofFitsPlacement' /\ TestedMovesOnly'
  <2>1. CASE UNCHANGED journal
    BY <1>1, <1>2, <2>1, RecordsKept DEF MovesTypeOK
  <2>2. CASE /\ ~command.drilling
             /\ journal' = [journal EXCEPT ![Len(journal)].status = "failed"]
    BY <1>1, <1>2, <1>6, <2>2, RunFailed DEF MovesTypeOK
  <2>. QED  BY <2>1, <2>2 DEF Restored
<1>8. OldCellsFenced' /\ PlacedByPhase'
  BY <1>1, <1>2, <1>4, <1>5 DEF OldCellsFenced, PlacedByPhase
<1>9. command' \in Commands \cup {NoCommand} /\ CommandFits'
  <2>1. CASE End
    BY <2>1 DEF End, CommandFits, NoCommand
  <2>2. CASE command.drilling /\ Goto("record")
    <3>1. command' \in Commands /\ command' = [command EXCEPT !.step = "record"]
      BY <2>2, GotoMoves DEF Steps
    <3>2. [command'.origin EXCEPT !.epoch = placed'.epoch] = back
      BY <1>1, <1>2, <1>4, <1>6, <3>1 DEF Commands, Underway, Move
    <3>. QED  BY <1>2, <1>4, <1>5, <1>6, <3>1, <3>2 DEF CommandFits, Commands, Underway
  <2>3. CASE ~command.drilling /\ Goto("start")
    <3>1. command' \in Commands /\ command' = [command EXCEPT !.step = "start"]
      BY <2>3, GotoMoves DEF Steps
    <3>2. Origin(command.target)' = back /\ ~InRecovery'
      BY <1>4, <1>6, <3>1 DEF Origin, InRecovery, Commands
    <3>3. Source # command.target
      BY <1>2, <1>5 DEF Underway
    <3>. QED  BY <1>6, <3>1, <3>2, <3>3 DEF CommandFits
  <2>. QED  BY <2>1, <2>2, <2>3 DEF Restored
<1>10. MovesTypeOK' /\ EveryWriteKept'
  BY <1>1, <1>2, <1>3, <1>4, <1>5, <1>6, <1>7, <1>9 DEF MovesTypeOK, EveryWriteKept
<1>. QED  BY <1>7, <1>8, <1>9, <1>10 DEF MovesInv

LEMMA RecordDrillHolds ==
  ASSUME MovesAssumption, MovesInv, command \in Commands, RecordDrill
  PROVE  MovesInv'
<1>1. /\ MovesTypeOK /\ EveryWriteKept /\ PlacedByPhase /\ OldCellsFenced /\ CommandFits
      /\ RecordsTrue /\ ProofFitsPlacement /\ TestedMovesOnly
      /\ command.origin \in Move
  BY MovesFacts DEF Commands
<1>2. /\ placed.phase = "active" /\ placed.region = command.origin.source
      /\ command.origin.source # command.target /\ command.origin.target = command.target
      /\ [command.origin EXCEPT !.epoch = placed.epoch] \in reverted
      /\ drills' = drills \cup {[command.origin EXCEPT !.epoch = placed.epoch]}
      /\ Goto("start")
      /\ UNCHANGED <<placed, rows, gate, routes, written, journal, mishaps, reverted, answered>>
  BY <1>1 DEF RecordDrill, CommandFits, cells
<1>3. command' \in Commands /\ command' = [command EXCEPT !.step = "start"]
  BY <1>2, GotoMoves DEF Steps
<1>4. RecordsTrue' /\ ProofFitsPlacement' /\ TestedMovesOnly'
  BY <1>1, <1>2 DEF RecordsTrue, ProofFitsPlacement, TestedMovesOnly, Pendings
<1>5. MovesTypeOK' /\ EveryWriteKept'
  BY <1>1, <1>2, <1>3 DEF MovesTypeOK, EveryWriteKept
<1>6. PlacedByPhase' /\ OldCellsFenced'
  BY <1>1, <1>2 DEF PlacedByPhase, OldCellsFenced, Source, Target
<1>7. CommandFits'
  <2>1. /\ ~InRecovery'
        /\ Origin(command.target)' = [command.origin EXCEPT !.epoch = placed.epoch]
    BY <1>1, <1>2, <1>3 DEF Origin, InRecovery, Commands, Move
  <2>. QED  BY <1>1, <1>2, <1>3, <2>1 DEF CommandFits, Move, Commands
<1>. QED  BY <1>4, <1>5, <1>6, <1>7 DEF MovesInv

LEMMA CompleteRunHolds ==
  ASSUME MovesAssumption, MovesInv, command \in Commands, CompleteRun
  PROVE  MovesInv'
<1>1. /\ MovesTypeOK /\ CommandFits /\ RecordsTrue /\ ProofFitsPlacement /\ TestedMovesOnly
      /\ placed \in Placements /\ command.origin \in Move
  BY MovesFacts DEF Commands
<1>2. /\ placed.region = command.origin.target /\ command.origin \in reverted /\ Len(journal) > 0
      /\ End /\ UNCHANGED <<placed, rows, gate, routes, written, drills, reverted>>
  BY <1>1 DEF CompleteRun, CommandFits, Exercised, cells
<1>3. PICK proof \in Proof :
        proof = [move |-> command.origin, final |-> placed.epoch, tested |-> TRUE]
  BY <1>1 DEF Proof, Placements
<1>4. PICK last : last = Len(journal)
  OBVIOUS
<1>5. last \in DOMAIN journal /\ journal[last] \in RunRows
  BY <1>1, <1>2, <1>4, LenProperties, ElementOfSeq DEF MovesTypeOK
<1>6. \/ /\ journal' = [journal EXCEPT ![last] =
              [status |-> "completed", pending |-> @.pending, proof |-> proof]]
         /\ Answer(proof) /\ UNCHANGED mishaps
      \/ /\ journal' = [journal EXCEPT ![last] =
              [status |-> @.status, pending |-> TRUE, proof |-> proof]]
         /\ Fault /\ UNCHANGED answered
  BY <1>3, <1>4 DEF CompleteRun
<1>7. PICK row \in RunRows : journal' = [journal EXCEPT ![last] = row] /\ row.proof = proof
  <2>1. \A status, pending :
          status \in {"running", "completed", "failed"} /\ pending \in BOOLEAN =>
            [status |-> status, pending |-> pending, proof |-> proof] \in RunRows
    BY DEF RunRows
  <2>2. journal[last].status \in {"running", "completed", "failed"} /\ journal[last].pending \in BOOLEAN
    BY <1>5 DEF RunRows
  <2>3. \E status \in {"running", "completed", "failed"}, pending \in BOOLEAN :
          journal' = [journal EXCEPT ![last] =
            [status |-> status, pending |-> pending, proof |-> proof]]
    BY <1>5, <1>6, <2>2
  <2>4. PICK status \in {"running", "completed", "failed"}, pending \in BOOLEAN :
          journal' = [journal EXCEPT ![last] =
            [status |-> status, pending |-> pending, proof |-> proof]]
    BY <2>3
  <2>5. PICK row \in RunRows : row = [status |-> status, pending |-> pending, proof |-> proof]
    BY <2>1
  <2>. QED  BY <2>4, <2>5
<1>8. /\ journal' \in Seq(RunRows) /\ Len(journal') = Len(journal)
      /\ DOMAIN journal' = DOMAIN journal /\ journal'[last] = row
      /\ \A j \in DOMAIN journal : j # last => journal'[j] = journal[j]
  BY <1>1, <1>5, <1>7, RunChanges
<1>9. RecordsTrue'
  BY <1>1, <1>2, <1>3, <1>7, <1>8 DEF RecordsTrue, Pendings
<1>10. ProofFitsPlacement' /\ TestedMovesOnly'
  BY <1>1, <1>2, <1>3, <1>6 DEF ProofFitsPlacement, TestedMovesOnly, Answer
<1>11. mishaps' \in 0..MaxFaults
  BY <1>1, <1>6 DEF MovesTypeOK, Fault, MovesAssumption
<1>12. answered' \in {NoProof} \cup
         [proof : Proof, region : Regions, epoch : Epochs, tested : {TRUE}]
  <2>1. placed.region \in Regions /\ placed.epoch \in Epochs
    BY <1>1 DEF Placements
  <2>2. CASE UNCHANGED answered
    BY <1>1, <2>2 DEF MovesTypeOK
  <2>3. CASE Answer(proof)
    BY <2>1, <2>3 DEF Answer
  <2>. QED  BY <1>6, <2>2, <2>3
<1>. QED  BY <1>1, <1>2, <1>8, <1>9, <1>10, <1>11, <1>12, EndHolds DEF MovesTypeOK

LEMMA HookFailsHolds ==
  ASSUME MovesAssumption, MovesInv, command \in Commands, HookFails
  PROVE  MovesInv'
<1>1. /\ MovesTypeOK /\ EveryWriteKept /\ PlacedByPhase /\ OldCellsFenced /\ CommandFits
      /\ RecordsTrue /\ ProofFitsPlacement /\ TestedMovesOnly
  BY MovesFacts
<1>2. /\ mishaps' \in 0..MaxFaults
      /\ UNCHANGED <<placed, rows, gate, routes, written, drills, reverted, answered>>
  BY <1>1 DEF HookFails, Fault, cells, MovesTypeOK, MovesAssumption
<1>3. CASE /\ command.step \in {"quiesce", "copy", "activate"}
           /\ command' = [command EXCEPT !.step = "restore", !.failed = TRUE]
           /\ UNCHANGED journal
  <2>1. /\ command' \in Commands /\ command'.step = "restore"
        /\ command'.target = command.target /\ command'.origin = command.origin
        /\ command'.drilling = command.drilling
    BY <1>3 DEF Commands, Steps
  <2>2. /\ placed.phase = "moving" /\ Underway /\ (~command.drilling => Len(journal) > 0)
    BY <1>1, <1>3 DEF CommandFits
  <2>3. CommandFits'
    <3>1. Underway'
      BY <1>2, <2>1, <2>2 DEF Underway, Source, Target
    <3>. QED  BY <1>2, <1>3, <2>1, <2>2, <3>1 DEF CommandFits
  <2>4. MovesTypeOK' /\ EveryWriteKept' /\ OldCellsFenced' /\ PlacedByPhase'
    BY <1>1, <1>2, <1>3, <2>1
       DEF MovesTypeOK, EveryWriteKept, OldCellsFenced, PlacedByPhase, Source, Target
  <2>5. RecordsTrue' /\ ProofFitsPlacement' /\ TestedMovesOnly'
    BY <1>1, <1>2, <1>3, RecordsKept
  <2>. QED  BY <2>3, <2>4, <2>5 DEF MovesInv
<1>4. CASE /\ command.step = "fence" /\ End
           /\ journal' = IF command.drilling THEN journal
                         ELSE [journal EXCEPT ![Len(journal)].status = "failed"]
  <2>1. CASE command.drilling
    <3>1. RecordsTrue' /\ ProofFitsPlacement' /\ TestedMovesOnly'
      BY <1>1, <1>2, <1>4, <2>1, RecordsKept
    <3>. QED  BY <1>1, <1>2, <1>4, <2>1, <3>1, EndHolds DEF MovesTypeOK
  <2>2. CASE ~command.drilling
    <3>1. Len(journal) > 0
      BY <1>1, <1>4, <2>2 DEF CommandFits, Exercised
    <3>2. /\ journal' \in Seq(RunRows) /\ Len(journal') = Len(journal)
          /\ RecordsTrue' /\ ProofFitsPlacement' /\ TestedMovesOnly'
      BY <1>1, <1>2, <1>4, <2>2, <3>1, RunFailed
    <3>. QED  BY <1>1, <1>2, <1>4, <3>2, EndHolds DEF MovesTypeOK
  <2>. QED  BY <2>1, <2>2
<1>. QED  BY <1>3, <1>4 DEF HookFails

LEMMA CommandDiesHolds ==
  ASSUME MovesAssumption, MovesInv, CommandDies
  PROVE  MovesInv'
<1>1. MovesTypeOK /\ RecordsTrue /\ ProofFitsPlacement /\ TestedMovesOnly
  BY MovesFacts
<1>2. /\ End /\ mishaps' \in 0..MaxFaults
      /\ UNCHANGED <<placed, rows, gate, routes, written, journal, drills, reverted, answered>>
  BY <1>1 DEF CommandDies, Fault, cells, MovesTypeOK, MovesAssumption
<1>3. RecordsTrue' /\ ProofFitsPlacement' /\ TestedMovesOnly'
  BY <1>1, <1>2, RecordsKept
<1>. QED  BY <1>1, <1>2, <1>3, EndHolds DEF MovesTypeOK

LEMMA MovesInitHolds == MovesAssumption /\ MovesInit => MovesInv
<1> SUFFICES ASSUME MovesAssumption, MovesInit PROVE MovesInv
  OBVIOUS
<1>1. PICK home \in Regions :
        /\ placed = [region |-> home, epoch |-> 1, phase |-> "active",
                     move |-> [source |-> home, target |-> home, epoch |-> 1]]
        /\ rows = [r \in Regions |-> IF r = home THEN 1 ELSE 0]
        /\ routes = {[region |-> home, epoch |-> 1]}
  BY DEF MovesInit
<1>2. /\ gate = [r \in Regions |-> [raised |-> FALSE, active |-> 1]]
      /\ written = 1 /\ journal = <<>> /\ drills = {} /\ reverted = {}
      /\ command = NoCommand /\ mishaps = 0 /\ answered = NoProof
  BY DEF MovesInit
<1>3. 1 \in Epochs /\ [source |-> home, target |-> home, epoch |-> 1] \in Move
  BY DEF MovesAssumption, Epochs, Move
<1>4. /\ placed \in Placements /\ rows \in [Regions -> 0..MaxWrites + 1] /\ written \in 1..MaxWrites + 1
      /\ gate \in [Regions -> Gates] /\ routes \subseteq [region : Regions, epoch : Epochs]
  BY <1>1, <1>2, <1>3 DEF Placements, Gates, MovesAssumption
<1>5. MovesTypeOK
  BY <1>2, <1>4 DEF MovesTypeOK, MovesAssumption
<1>6. EveryWriteKept /\ PlacedByPhase /\ OldCellsFenced
  BY <1>1, <1>2 DEF EveryWriteKept, PlacedByPhase, OldCellsFenced
<1>7. RecordsTrue /\ ProofFitsPlacement /\ TestedMovesOnly /\ CommandFits
  BY <1>2 DEF RecordsTrue, Pendings, ProofFitsPlacement, TestedMovesOnly, CommandFits, NoCommand
<1>. QED  BY <1>5, <1>6, <1>7 DEF MovesInv

LEMMA MovesNextHolds == MovesAssumption /\ MovesInv /\ [MovesNext]_movesVars => MovesInv'
<1> SUFFICES ASSUME MovesAssumption, MovesInv, [MovesNext]_movesVars PROVE MovesInv'
  OBVIOUS
<1>1. CASE WriteRouted
  BY <1>1, WriteHolds
<1>2. CASE \E target \in Regions : BeginCommand(target)
  BY <1>2, BeginHolds
<1>3. ASSUME command # NoCommand,
             \/ Finalize \/ Drill \/ StartRun \/ BeginMove \/ FencePlacement \/ QuiesceSource
             \/ CopyRows \/ Activate \/ ResumeTarget \/ Settle \/ Restore \/ DeleteCopy
             \/ ReopenSource \/ Restored \/ RecordDrill \/ CompleteRun \/ HookFails \/ CommandDies
      PROVE  MovesInv'
  <2>1. command \in Commands
    BY <1>3, MovesFacts
  <2>. QED  BY <1>3, <2>1, FinalizeHolds, DrillHolds, StartRunHolds, BeginMoveHolds,
               FencePlacementHolds, QuiesceSourceHolds, CopyRowsHolds, ActivateHolds,
               ResumeTargetHolds, SettleHolds, RestoreHolds, DeleteCopyHolds, ReopenSourceHolds,
               RestoredHolds, RecordDrillHolds, CompleteRunHolds, HookFailsHolds, CommandDiesHolds
<1>4. CASE UNCHANGED movesVars
  <2>1. RecordsTrue' /\ ProofFitsPlacement' /\ TestedMovesOnly'
    BY <1>4, MovesFacts, RecordsKept DEF movesVars
  <2>2. MovesTypeOK' /\ EveryWriteKept' /\ PlacedByPhase' /\ OldCellsFenced'
    BY <1>4, MovesFacts DEF movesVars, MovesTypeOK, EveryWriteKept, PlacedByPhase, OldCellsFenced,
       Source, Target
  <2>3. CommandFits'
    BY <1>4, MovesFacts DEF movesVars, CommandFits, OfTarget, Underway, Exercised, CanFinalize,
       Finalizes, NewestPending, Pendings, Origin, InRecovery, Source, Target
  <2>. QED  BY <2>1, <2>2, <2>3 DEF MovesInv
<1>. QED  BY <1>1, <1>2, <1>3, <1>4, Zenon DEF MovesNext

\* The steps of drills, moves and recoveries (concrete-migration.ts:917-1348) keep the phase,
\* the fences and the records in order.
THEOREM MovesInOrder == MovesSpec => []MovesInv
<1>1. MovesInit => MovesInv
  BY MovesAssumption, MovesInitHolds
<1>2. MovesInv /\ [MovesNext]_movesVars => MovesInv'
  BY MovesAssumption, MovesNextHolds
<1>. QED  BY <1>1, <1>2, PTL DEF MovesSpec

\* No write is lost by a move, what is said to have been proved describes the placement it is
\* said of, and only moves whose rollback was exercised are proved tested (migration.ts and
\* concrete-migration.ts): for any regions and any number of commands, drills and failures.
THEOREM NoWriteLost == MovesSpec => []MovesHonest
<1>1. MovesInv => MovesHonest
  BY DEF MovesInv, MovesHonest
<1>. QED  BY <1>1, MovesInOrder, PTL

-----------------------------------------------------------------------------
(* Moves are tested moves of one store: TestedMoves.                        *)

\* Until its change of home, a move is fenced for as long as its command runs; the move that
\* completes is the latest one; and so is a move whose proof is of the epoch of today.
FenceFresh ==
  command.step \in {"quiesce", "copy", "activate"} => placed.epoch = placed.move.epoch + 1
CompletesLatest == command.step = "complete" => placed.move = command.origin
ProofOfPast(proof) ==
  /\ proof.final <= placed.epoch
  /\ proof.final = placed.epoch => placed.phase = "active" /\ placed.move = proof.move
ProofsOfPast == \A i \in Pendings : ProofOfPast(journal[i].proof)
LatestInv == MovesInv /\ FenceFresh /\ CompletesLatest /\ ProofsOfPast

MappedProved ==
  IF answered = NoProof THEN {} ELSE {[move |-> answered.proof.move, epoch |-> answered.epoch]}

LEMMA LatestFacts ==
  ASSUME MovesAssumption, LatestInv
  PROVE  /\ MovesTypeOK /\ CommandFits /\ PlacedByPhase /\ EveryWriteKept
         /\ placed \in Placements /\ placed.move \in Move
         /\ placed.epoch \in Nat /\ placed.move.epoch \in Nat
         /\ Source \in Regions /\ Target \in Regions /\ placed.region \in Regions
         /\ command # NoCommand => command \in Commands /\ command.origin \in Move
         /\ \A i \in Pendings : i \in DOMAIN journal /\ journal[i] \in RunRows /\ journal[i].proof \in Proof
<1>1. Epochs \subseteq Nat
  BY DEF Epochs, MovesAssumption
<1>2. /\ MovesTypeOK /\ CommandFits /\ PlacedByPhase /\ EveryWriteKept /\ RecordsTrue
      /\ placed \in Placements /\ placed.move \in Move
      /\ Source \in Regions /\ Target \in Regions
      /\ command # NoCommand => command \in Commands /\ command.origin \in Move
  BY MovesFacts DEF LatestInv
<1>3. placed.epoch \in Nat /\ placed.move.epoch \in Nat /\ placed.region \in Regions
  BY <1>1, <1>2 DEF Placements, Move
<1>4. ASSUME NEW i \in Pendings
      PROVE  i \in DOMAIN journal /\ journal[i] \in RunRows /\ journal[i].proof \in Proof
  <2>1. i \in DOMAIN journal /\ journal[i] \in RunRows
    BY <1>2, ElementOfSeq DEF Pendings, MovesTypeOK
  <2>2. journal[i].proof.tested
    BY <1>2 DEF RecordsTrue
  <2>. QED  BY <2>1, <2>2 DEF RunRows, NoProof
<1>. QED  BY <1>2, <1>3, <1>4

\* No proof becomes pending, and the placement stays or takes a later epoch.
LEMMA ProofsAge ==
  ASSUME MovesAssumption, LatestInv, placed' = placed \/ placed.epoch < placed'.epoch,
         placed'.epoch \in Nat,
         \A i \in Pendings' : i \in Pendings /\ journal'[i].proof = journal[i].proof
  PROVE  ProofsOfPast'
<1>1. \A i \in Pendings : journal[i].proof.final \in Nat
  <2>1. Epochs \subseteq Nat
    BY DEF Epochs, MovesAssumption
  <2>. QED  BY <2>1, LatestFacts DEF Proof
<1>2. ASSUME NEW i \in Pendings' PROVE ProofOfPast(journal[i].proof)'
  <2>1. i \in Pendings /\ journal'[i].proof = journal[i].proof /\ ProofOfPast(journal[i].proof)
    BY DEF LatestInv, ProofsOfPast
  <2>2. CASE placed' = placed
    BY <2>1, <2>2 DEF ProofOfPast
  <2>3. CASE placed.epoch < placed'.epoch
    BY <1>1, <2>1, <2>3, LatestFacts DEF ProofOfPast
  <2>. QED  BY <2>2, <2>3
<1>. QED  BY <1>2 DEF ProofsOfPast

\* The journal without a new pending run: it stays, its newest run fails, its pending run is
\* completed, or it gets a new run.
LEMMA PendingsFewer ==
  ASSUME MovesAssumption, LatestInv,
         \/ journal' = journal
         \/ journal' = [journal EXCEPT ![Len(journal)].status = "failed"]
         \/ journal' = [journal EXCEPT ![NewestPending].status = "completed"]
         \/ journal' = Append(journal, [status |-> "running", pending |-> FALSE, proof |-> NoProof])
  PROVE  \A i \in Pendings' : i \in Pendings /\ journal'[i].proof = journal[i].proof
<1>1. journal \in Seq(RunRows) /\ Len(journal) \in Nat /\ DOMAIN journal = 1..Len(journal)
  BY LatestFacts, LenProperties DEF MovesTypeOK
<1>2. \A i \in DOMAIN journal : journal[i] \in RunRows
  BY <1>1, ElementOfSeq
<1>3. CASE journal' = journal
  BY <1>3 DEF Pendings
<1>4. ASSUME NEW k, NEW status \in {"failed", "completed"},
             journal' = [journal EXCEPT ![k].status = status]
      PROVE  \A i \in Pendings' : i \in Pendings /\ journal'[i].proof = journal[i].proof
  <2>1. DOMAIN journal' = DOMAIN journal
    BY <1>4
  <2>2. ASSUME NEW i \in Pendings' PROVE i \in Pendings /\ journal'[i].proof = journal[i].proof
    <3>1. i \in DOMAIN journal /\ journal'[i].status = "running" /\ journal'[i].pending
      BY <2>1 DEF Pendings
    <3>2. CASE i = k
      BY <1>2, <1>4, <3>1, <3>2 DEF RunRows
    <3>3. CASE i # k
      BY <1>4, <3>1, <3>3 DEF Pendings
    <3>. QED  BY <3>2, <3>3
  <2>. QED  BY <2>2
<1>5. ASSUME journal' = Append(journal, [status |-> "running", pending |-> FALSE, proof |-> NoProof])
      PROVE  \A i \in Pendings' : i \in Pendings /\ journal'[i].proof = journal[i].proof
  <2>1. /\ DOMAIN journal' = 1..(Len(journal) + 1)
        /\ journal'[Len(journal) + 1].pending = FALSE
        /\ \A i \in 1..Len(journal) : journal'[i] = journal[i]
    BY <1>1, <1>5
  <2>2. ASSUME NEW i \in Pendings' PROVE i \in Pendings /\ journal'[i].proof = journal[i].proof
    <3>1. i \in 1..(Len(journal) + 1) /\ journal'[i].status = "running" /\ journal'[i].pending
      BY <2>1 DEF Pendings
    <3>2. i # Len(journal) + 1
      BY <2>1, <3>1
    <3>3. i \in 1..Len(journal)
      BY <1>1, <3>1, <3>2
    <3>. QED  BY <1>1, <2>1, <3>1, <3>3 DEF Pendings
  <2>. QED  BY <2>2
<1>. QED  BY <1>3, <1>4, <1>5

\* A transition raises the epoch.
LEMMA TransitionRaises ==
  ASSUME MovesAssumption, LatestInv, NEW r \in Regions, NEW phase, Transition(r, phase)
  PROVE  /\ placed' = [region |-> r, epoch |-> placed.epoch + 1, move |-> placed.move, phase |-> phase]
         /\ placed'.epoch = placed.epoch + 1 /\ placed'.epoch \in Nat
         /\ placed'.region = r /\ placed'.move = placed.move /\ placed'.phase = phase
BY LatestFacts DEF Transition

\* What stays of the past when the placement stays or takes a later epoch, and no run is added
\* to the pending ones.
LEMMA PastKept ==
  ASSUME MovesAssumption, LatestInv, placed' = placed \/ placed.epoch < placed'.epoch,
         placed'.epoch \in Nat,
         \/ journal' = journal
         \/ journal' = [journal EXCEPT ![Len(journal)].status = "failed"]
         \/ journal' = [journal EXCEPT ![NewestPending].status = "completed"]
         \/ journal' = Append(journal, [status |-> "running", pending |-> FALSE, proof |-> NoProof])
  PROVE  ProofsOfPast'
BY PendingsFewer, ProofsAge

\* A step that nobody outside sees, of a command that goes on to a step that needs no epoch.
Unseen == UNCHANGED <<placed, reverted, answered>> /\ rows'[placed.region] = rows[placed.region]
LEMMA UnseenStutters ==
  ASSUME Unseen
  PROVE  UNCHANGED Moves!vars
BY DEF Unseen, Moves!vars, InRecovery

LEMMA UnseenHolds ==
  ASSUME MovesAssumption, LatestInv, placed' = placed,
         \/ journal' = journal
         \/ journal' = [journal EXCEPT ![Len(journal)].status = "failed"]
         \/ journal' = [journal EXCEPT ![NewestPending].status = "completed"]
         \/ journal' = Append(journal, [status |-> "running", pending |-> FALSE, proof |-> NoProof]),
         command'.step \notin {"quiesce", "copy", "activate", "complete"}
  PROVE  FenceFresh' /\ CompletesLatest' /\ ProofsOfPast'
<1>1. ProofsOfPast'
  BY PastKept, LatestFacts
<1>. QED  BY <1>1 DEF FenceFresh, CompletesLatest

-----------------------------------------------------------------------------
(* Each step is one of the promise's, or cannot be seen.                     *)

\* What a step must show.
Shown == FenceFresh' /\ CompletesLatest' /\ ProofsOfPast' /\ (Moves!Next \/ UNCHANGED Moves!vars)

LEMMA WriteShown == ASSUME MovesAssumption, LatestInv, WriteRouted PROVE Shown
<1>1. PICK route \in routes :
        /\ ~gate[route.region].raised
        /\ rows' = [rows EXCEPT ![route.region] = @ + 1]
  BY DEF WriteRouted
<1>2. UNCHANGED <<placed, gate, routes, journal, drills, command, mishaps, reverted, answered>>
  BY DEF WriteRouted
<1>3. route.region = placed.region /\ placed.region \in Regions /\ rows \in [Regions -> 0..MaxWrites + 1]
  BY <1>1, LatestFacts, MovesFacts DEF OldCellsFenced, LatestInv, MovesTypeOK
<1>4. rows'[placed.region] = rows[placed.region] + 1
  BY <1>1, <1>3
<1>5. Moves!Write
  BY <1>2, <1>4 DEF Moves!Write, InRecovery
<1>6. ProofsOfPast'
  BY <1>2, PastKept, LatestFacts
<1>7. FenceFresh' /\ CompletesLatest'
  BY <1>2 DEF LatestInv, FenceFresh, CompletesLatest
<1>. QED  BY <1>5, <1>6, <1>7 DEF Shown, Moves!Next

\* Steps that only take the command further, and what is recorded of runs and drills.
LEMMA UnseenShown ==
  ASSUME MovesAssumption, LatestInv,
         \/ \E target \in Regions : BeginCommand(target)
         \/ command # NoCommand /\ (Drill \/ StartRun \/ ResumeTarget \/ ReopenSource \/ RecordDrill
                                      \/ HookFails \/ CommandDies)
  PROVE  Shown
<1>1. /\ UNCHANGED <<placed, rows, reverted, answered>>
      /\ \/ journal' = journal
         \/ journal' = [journal EXCEPT ![Len(journal)].status = "failed"]
         \/ journal' = Append(journal, [status |-> "running", pending |-> FALSE, proof |-> NoProof])
  BY DEF BeginCommand, Drill, StartRun, ResumeTarget, ReopenSource, RecordDrill, HookFails,
         CommandDies, cells
<1>2. command'.step \notin {"quiesce", "copy", "activate", "complete"}
  <2>1. CASE \E target \in Regions : BeginCommand(target)
    BY <2>1 DEF BeginCommand
  <2>2. CASE ResumeTarget \/ ReopenSource \/ RecordDrill
    BY <2>2, LatestFacts DEF ResumeTarget, ReopenSource, RecordDrill, Goto, Commands, NoCommand
  <2>3. CASE CommandDies
    BY <2>3 DEF CommandDies, End, NoCommand
  <2>4. ASSUME command # NoCommand, NEW step \in Steps, command' = [command EXCEPT !.step = step]
        PROVE  command'.step = step
    BY <2>4, LatestFacts DEF Commands
  <2>5. ASSUME command # NoCommand, Drill
        PROVE  command'.step \notin {"quiesce", "copy", "activate", "complete"}
    <3>1. CASE command.origin \in drills
      BY <2>4, <2>5, <3>1 DEF Drill, Goto, Steps
    <3>2. CASE command.origin \notin drills /\ placed.phase = "resume-target"
      BY <2>5, <3>2 DEF Drill, End, NoCommand
    <3>3. CASE command.origin \notin drills /\ placed.phase # "resume-target"
      <4>1. command \in Commands /\ command' = [command EXCEPT !.step = "move", !.drilling = TRUE]
        BY <2>5, <3>3, LatestFacts DEF Drill
      <4>. QED  BY <4>1 DEF Commands
    <3>. QED  BY <3>1, <3>2, <3>3
  <2>6. ASSUME command # NoCommand, StartRun
        PROVE  command'.step \notin {"quiesce", "copy", "activate", "complete"}
    <3>1. command \in Commands /\ command'.step = "move"
      BY <2>6, LatestFacts DEF StartRun, Commands
    <3>. QED  BY <3>1
  <2>7. ASSUME command # NoCommand, HookFails
        PROVE  command'.step \notin {"quiesce", "copy", "activate", "complete"}
    <3>1. command \in Commands
      BY <2>7, LatestFacts
    <3>2. CASE command' = [command EXCEPT !.step = "restore", !.failed = TRUE]
      BY <3>1, <3>2 DEF Commands
    <3>3. CASE End
      BY <3>3 DEF End, NoCommand
    <3>. QED  BY <2>7, <3>2, <3>3 DEF HookFails
  <2>. QED  BY <2>1, <2>2, <2>3, <2>5, <2>6, <2>7
<1>3. FenceFresh' /\ CompletesLatest' /\ ProofsOfPast'
  BY <1>1, <1>2, UnseenHolds
<1>4. UNCHANGED Moves!vars
  BY <1>1, UnseenStutters DEF Unseen
<1>. QED  BY <1>3, <1>4 DEF Shown

LEMMA FinalizeShown ==
  ASSUME MovesAssumption, LatestInv, command # NoCommand, Finalize
  PROVE  Shown
<1> DEFINE proof == journal[NewestPending].proof
<1>1. /\ command.step = "finalize" /\ CanFinalize(command.target)
      /\ journal' = [journal EXCEPT ![NewestPending].status = "completed"]
      /\ Answer(proof) /\ command' = NoCommand
      /\ UNCHANGED <<placed, rows, gate, routes, written, drills, mishaps, reverted>>
  BY LatestFacts DEF Finalize, CommandFits, End, cells
<1>2. NewestPending \in Pendings
  BY <1>1, NewestIsPending, LatestFacts DEF CanFinalize
<1>3. /\ placed.phase = "active" /\ placed.region = Target /\ placed.move = proof.move
  BY <1>1, <1>2 DEF LatestInv, ProofsOfPast, ProofOfPast, CanFinalize, Finalizes, Target
<1>4. placed.move \in reverted
  BY <1>2, <1>3, MovesFacts DEF LatestInv, RecordsTrue
<1>5. MappedProved' = {[move |-> placed.move, epoch |-> placed.epoch]}
  <2>1. answered'.tested /\ answered'.proof = proof /\ answered'.epoch = placed.epoch
    BY <1>1 DEF Answer
  <2>. QED  BY <1>3, <2>1 DEF MappedProved, NoProof
<1>6. Moves!Prove
  BY <1>1, <1>3, <1>4, <1>5 DEF Moves!Prove, MappedProved, InRecovery, Target
<1>7. FenceFresh' /\ CompletesLatest' /\ ProofsOfPast'
  BY <1>1, UnseenHolds DEF NoCommand
<1>. QED  BY <1>6, <1>7 DEF Shown, Moves!Next

LEMMA CompleteShown ==
  ASSUME MovesAssumption, LatestInv, command # NoCommand, CompleteRun
  PROVE  Shown
<1> DEFINE proof == [move |-> command.origin, final |-> placed.epoch, tested |-> TRUE]
           last == Len(journal)
<1>1. /\ command.step = "complete" /\ command' = NoCommand
      /\ UNCHANGED <<placed, rows, gate, routes, written, drills, reverted>>
      /\ \/ /\ journal' = [journal EXCEPT ![last] =
                [status |-> "completed", pending |-> @.pending, proof |-> proof]]
            /\ Answer(proof)
         \/ /\ journal' = [journal EXCEPT ![last] =
                [status |-> @.status, pending |-> TRUE, proof |-> proof]]
            /\ UNCHANGED answered
  BY DEF CompleteRun, End, cells
<1>2. /\ placed.phase = "active" /\ placed.region = Target /\ placed.move = command.origin
      /\ command.origin \in reverted
  BY <1>1, LatestFacts DEF CommandFits, LatestInv, CompletesLatest, Exercised, Target
<1>3. FenceFresh' /\ CompletesLatest'
  BY <1>1 DEF FenceFresh, CompletesLatest, NoCommand
<1>4. ProofsOfPast'
  <2>1. ASSUME NEW i \in Pendings' PROVE ProofOfPast(journal[i].proof)'
    <3>1. DOMAIN journal' = DOMAIN journal
      BY <1>1
    <3>2. CASE i = last
      <4>1. i \in DOMAIN journal /\ last \in DOMAIN journal
        BY <3>1, <3>2 DEF Pendings
      <4>2. \/ journal'[last] = [status |-> "completed", pending |-> journal[last].pending, proof |-> proof]
            \/ journal'[last] = [status |-> journal[last].status, pending |-> TRUE, proof |-> proof]
        BY <1>1, <4>1
      <4>3. journal'[last].proof = proof
        <5>1. CASE journal'[last] = [status |-> "completed", pending |-> journal[last].pending, proof |-> proof]
          BY <5>1
        <5>2. CASE journal'[last] = [status |-> journal[last].status, pending |-> TRUE, proof |-> proof]
          BY <5>2
        <5>. QED  BY <4>2, <5>1, <5>2
      <4>. QED  BY <1>1, <1>2, <3>2, <4>3, LatestFacts DEF ProofOfPast
    <3>3. CASE i # last
      <4>1. journal'[i] = journal[i] /\ i \in Pendings
        BY <1>1, <3>1, <3>3 DEF Pendings
      <4>. QED  BY <1>1, <4>1 DEF LatestInv, ProofsOfPast, ProofOfPast
    <3>. QED  BY <3>2, <3>3
  <2>. QED  BY <2>1 DEF ProofsOfPast
<1>5. CASE Answer(proof)
  <2>1. answered'.tested /\ answered'.proof = proof /\ answered'.epoch = placed.epoch
    BY <1>1, <1>5 DEF Answer
  <2>2. MappedProved' = {[move |-> placed.move, epoch |-> placed.epoch]}
    BY <1>2, <2>1 DEF MappedProved, NoProof
  <2>3. Moves!Prove
    BY <1>1, <1>2, <2>2 DEF Moves!Prove, MappedProved, InRecovery, Target
  <2>. QED  BY <1>3, <1>4, <2>3 DEF Shown, Moves!Next
<1>6. CASE UNCHANGED answered
  <2>1. UNCHANGED Moves!vars
    BY <1>1, <1>6, UnseenStutters DEF Unseen
  <2>. QED  BY <1>3, <1>4, <2>1 DEF Shown
<1>. QED  BY <1>1, <1>5, <1>6

\* Copying and deleting touch the cell that is not the home.
LEMMA RowsShown ==
  ASSUME MovesAssumption, LatestInv, command # NoCommand, CopyRows \/ DeleteCopy \/ QuiesceSource
  PROVE  Shown
<1>1. UNCHANGED <<placed, journal, reverted, answered>> /\ command \in Commands
  BY LatestFacts DEF CopyRows, DeleteCopy, QuiesceSource
<1>2. /\ placed.region # Target \/ rows' = rows
      /\ rows' = rows \/ rows' = [rows EXCEPT ![Target] = rows[Source]] \/ rows' = [rows EXCEPT ![Target] = 0]
  BY LatestFacts DEF CopyRows, DeleteCopy, QuiesceSource, CommandFits, PlacedByPhase
<1>3. Unseen
  BY <1>1, <1>2, LatestFacts DEF Unseen, MovesTypeOK
<1>4. ProofsOfPast'
  BY <1>1, PastKept, LatestFacts
<1>5. command'.step \in {"quiesce", "copy", "activate"} => placed.epoch = placed.move.epoch + 1
  <2>1. CASE CopyRows \/ QuiesceSource
    BY <2>1 DEF CopyRows, QuiesceSource, LatestInv, FenceFresh
  <2>2. CASE DeleteCopy
    BY <1>1, <2>2 DEF DeleteCopy, Goto, Commands
  <2>. QED  BY <2>1, <2>2
<1>6. command'.step # "complete"
  BY <1>1 DEF CopyRows, DeleteCopy, QuiesceSource, Goto, Commands
<1>. QED  BY <1>1, <1>3, <1>4, <1>5, <1>6, UnseenStutters DEF Shown, FenceFresh, CompletesLatest

LEMMA FenceShown ==
  ASSUME MovesAssumption, LatestInv, command # NoCommand, FencePlacement
  PROVE  Shown
<1>1. /\ command \in Commands /\ command.step = "fence" /\ command' = [command EXCEPT !.step = "quiesce"]
      /\ placed' = [region |-> placed.region, epoch |-> placed.epoch + 1, move |-> command.origin,
                    phase |-> "moving"]
      /\ UNCHANGED <<rows, journal, reverted, answered>>
  BY LatestFacts DEF FencePlacement, Goto, cells
<1>2. placed.phase = "active" /\ OfTarget
  BY <1>1, LatestFacts DEF CommandFits
<1>3. /\ command.origin = [source |-> placed.region, target |-> command.target, epoch |-> placed.epoch]
      /\ command.target # placed.region /\ command.target \in Regions
  BY <1>1, <1>2 DEF OfTarget, Origin, InRecovery, Commands
<1>4. Moves!Fence(command.target)
  BY <1>1, <1>2, <1>3 DEF Moves!Fence, InRecovery
<1>5. ProofsOfPast'
  BY <1>1, PastKept, LatestFacts
<1>6. FenceFresh' /\ CompletesLatest'
  BY <1>1, <1>3 DEF FenceFresh, CompletesLatest, Commands
<1>. QED  BY <1>3, <1>4, <1>5, <1>6 DEF Shown, Moves!Next

\* A transition, and the command goes on to a step that needs no epoch.
LEMMA TransitionHolds ==
  ASSUME MovesAssumption, LatestInv, NEW r \in Regions, NEW phase, Transition(r, phase),
         journal' = journal \/ journal' = [journal EXCEPT ![Len(journal)].status = "failed"],
         command'.step \notin {"quiesce", "copy", "activate"},
         command'.step = "complete" => placed.move = command'.origin
  PROVE  FenceFresh' /\ CompletesLatest' /\ ProofsOfPast'
<1>1. placed'.epoch \in Nat /\ placed.epoch < placed'.epoch /\ placed'.move = placed.move
  BY TransitionRaises, LatestFacts
<1>2. ProofsOfPast'
  BY <1>1, PastKept
<1>. QED  BY <1>1, <1>2 DEF FenceFresh, CompletesLatest

LEMMA BeginMoveShown ==
  ASSUME MovesAssumption, LatestInv, command # NoCommand, BeginMove
  PROVE  Shown
<1>1. /\ command \in Commands
      /\ UNCHANGED <<rows, journal, reverted, answered>>
      /\ UNCHANGED placed \/ (InRecovery /\ Transition(placed.region, placed.phase))
  BY LatestFacts DEF BeginMove
<1>2. command'.step \in {"fence", "restore", "rollback", "resume"}
  <2>1. PICK step \in {"fence", "restore", "rollback", "resume"} :
          command' = [command EXCEPT !.recovering = InRecovery, !.step = step]
    BY LatestFacts DEF BeginMove, Placements
  <2>. QED  BY <1>1, <2>1 DEF Commands
<1>3. CASE UNCHANGED placed
  <2>1. Unseen
    BY <1>1, <1>3 DEF Unseen
  <2>. QED  BY <1>1, <1>2, <1>3, <2>1, UnseenHolds, UnseenStutters DEF Shown
<1>4. CASE InRecovery /\ Transition(placed.region, placed.phase)
  <2>1. /\ placed'.epoch = placed.epoch + 1 /\ placed'.region = placed.region
        /\ placed'.move = placed.move /\ placed'.phase = placed.phase
    BY <1>4, TransitionRaises, LatestFacts
  <2>2. Moves!Renew
    BY <1>1, <1>4, <2>1 DEF Moves!Renew, InRecovery
  <2>3. FenceFresh' /\ CompletesLatest' /\ ProofsOfPast'
    BY <1>1, <1>2, <1>4, TransitionHolds, LatestFacts
  <2>. QED  BY <2>2, <2>3 DEF Shown, Moves!Next
<1>. QED  BY <1>1, <1>3, <1>4

LEMMA ActivateShown ==
  ASSUME MovesAssumption, LatestInv, command # NoCommand, Activate
  PROVE  Shown
<1>1. /\ command \in Commands /\ command.step = "activate" /\ command' = [command EXCEPT !.step = "resume"]
      /\ Transition(Target, "resume-target") /\ UNCHANGED <<rows, journal, reverted, answered>>
  BY LatestFacts DEF Activate, Goto
<1>2. /\ placed.phase = "moving" /\ placed.move = command.origin /\ placed.move \in reverted
      /\ rows[Target] = rows[Source] /\ placed.region = Source
      /\ placed.epoch = placed.move.epoch + 1
  BY <1>1, LatestFacts DEF CommandFits, Exercised, PlacedByPhase, LatestInv, FenceFresh
<1>3. /\ placed'.epoch = placed.epoch + 1 /\ placed'.region = Target
      /\ placed'.move = placed.move /\ placed'.phase = "resume-target"
  BY <1>1, TransitionRaises, LatestFacts
<1>4. Moves!Relocate
  BY <1>1, <1>2, <1>3 DEF Moves!Relocate, InRecovery, Source, Target
<1>5. command'.step = "resume"
  BY <1>1 DEF Commands
<1>6. FenceFresh' /\ CompletesLatest' /\ ProofsOfPast'
  BY <1>1, <1>5, TransitionHolds, LatestFacts
<1>. QED  BY <1>4, <1>6 DEF Shown, Moves!Next

LEMMA SettleShown ==
  ASSUME MovesAssumption, LatestInv, command # NoCommand, Settle
  PROVE  Shown
<1>1. /\ command \in Commands /\ command.step = "settle" /\ command' = [command EXCEPT !.step = "complete"]
      /\ Transition(placed.region, "active") /\ UNCHANGED <<rows, journal, reverted, answered>>
  BY LatestFacts DEF Settle, Goto
<1>2. placed.phase = "resume-target" /\ placed.move = command.origin /\ placed.region = Target
  BY <1>1, LatestFacts DEF CommandFits, PlacedByPhase
<1>3. /\ placed'.epoch = placed.epoch + 1 /\ placed'.region = placed.region
      /\ placed'.move = placed.move /\ placed'.phase = "active"
  BY <1>1, TransitionRaises, LatestFacts
<1>4. Moves!Settle
  BY <1>1, <1>2, <1>3 DEF Moves!Settle, InRecovery, Target
<1>5. command'.step = "complete" /\ command'.origin = command.origin
  BY <1>1 DEF Commands
<1>6. FenceFresh' /\ CompletesLatest' /\ ProofsOfPast'
  BY <1>1, <1>2, <1>5, TransitionHolds, LatestFacts
<1>. QED  BY <1>4, <1>6 DEF Shown, Moves!Next

LEMMA RestoreShown ==
  ASSUME MovesAssumption, LatestInv, command # NoCommand, Restore
  PROVE  Shown
<1>1. /\ command \in Commands /\ command.step = "restore" /\ command' = [command EXCEPT !.step = "rollback"]
      /\ Transition(Source, "resume-source") /\ UNCHANGED <<rows, journal, reverted, answered>>
  BY LatestFacts DEF Restore, Goto
<1>2. placed.phase = "moving" /\ placed.region = Source
  BY <1>1, LatestFacts DEF CommandFits, PlacedByPhase
<1>3. /\ placed'.epoch = placed.epoch + 1 /\ placed'.region = Source
      /\ placed'.move = placed.move /\ placed'.phase = "resume-source"
  BY <1>1, TransitionRaises, LatestFacts
<1>4. Moves!Renew
  BY <1>1, <1>2, <1>3 DEF Moves!Renew, InRecovery
<1>5. command'.step = "rollback"
  BY <1>1 DEF Commands
<1>6. FenceFresh' /\ CompletesLatest' /\ ProofsOfPast'
  BY <1>1, <1>5, TransitionHolds, LatestFacts
<1>. QED  BY <1>4, <1>6 DEF Shown, Moves!Next

LEMMA RestoredShown ==
  ASSUME MovesAssumption, LatestInv, command # NoCommand, Restored
  PROVE  Shown
<1>1. /\ command \in Commands /\ command.step = "restored"
      /\ Transition(Source, "active") /\ UNCHANGED <<rows, answered>>
      /\ reverted' = reverted \cup {[placed.move EXCEPT !.epoch = placed.epoch + 1]}
      /\ journal' = journal \/ journal' = [journal EXCEPT ![Len(journal)].status = "failed"]
  BY LatestFacts DEF Restored
<1>2. placed.phase = "resume-source" /\ placed.region = Source
  BY <1>1, LatestFacts DEF CommandFits, PlacedByPhase
<1>3. /\ placed'.epoch = placed.epoch + 1 /\ placed'.region = Source
      /\ placed'.move = placed.move /\ placed'.phase = "active"
  BY <1>1, TransitionRaises, LatestFacts
<1>4. Moves!Exercise
  BY <1>1, <1>2, <1>3 DEF Moves!Exercise, InRecovery, Source
<1>5. command'.step \in {"none", "record", "start"}
  BY <1>1 DEF Restored, End, Goto, Commands, NoCommand
<1>6. FenceFresh' /\ CompletesLatest' /\ ProofsOfPast'
  BY <1>1, <1>5, TransitionHolds, LatestFacts
<1>. QED  BY <1>4, <1>6 DEF Shown, Moves!Next

LEMMA MovesStepShown ==
  ASSUME MovesAssumption, LatestInv, [MovesNext]_movesVars
  PROVE  Shown
<1>1. CASE WriteRouted
  BY <1>1, WriteShown
<1>2. CASE \E target \in Regions : BeginCommand(target)
  BY <1>2, UnseenShown
<1>3. ASSUME command # NoCommand,
             \/ Finalize \/ Drill \/ StartRun \/ BeginMove \/ FencePlacement \/ QuiesceSource
             \/ CopyRows \/ Activate \/ ResumeTarget \/ Settle \/ Restore \/ DeleteCopy
             \/ ReopenSource \/ Restored \/ RecordDrill \/ CompleteRun \/ HookFails \/ CommandDies
      PROVE  Shown
  BY <1>3, UnseenShown, FinalizeShown, CompleteShown, RowsShown, FenceShown, BeginMoveShown,
     ActivateShown, SettleShown, RestoreShown, RestoredShown
<1>4. CASE UNCHANGED movesVars
  <2>1. UNCHANGED <<placed, rows, journal, command, reverted, answered>>
    BY <1>4 DEF movesVars
  <2>2. FenceFresh' /\ CompletesLatest' /\ ProofsOfPast'
    BY <2>1, PastKept, LatestFacts DEF LatestInv, FenceFresh, CompletesLatest
  <2>. QED  BY <2>1, <2>2, UnseenStutters DEF Shown, Unseen
<1>. QED  BY <1>1, <1>2, <1>3, <1>4, Zenon DEF MovesNext

\* Whatever is copied, deleted, undone and recovered behind it, a workspace is one store with
\* one home, which changes only by a move exercised just before, and proved is only the move
\* that brought it where it is (migration.ts:246-400 with concrete-migration.ts:917-1348): for
\* any regions and any number of commands, drills and failures.
THEOREM MovesAreTested == MovesSpec => KeepsMoves
<1>1. MovesInit => LatestInv /\ Moves!Init
  <2> SUFFICES ASSUME MovesInit PROVE LatestInv /\ Moves!Init
    OBVIOUS
  <2>1. MovesInv
    BY MovesAssumption, MovesInitHolds
  <2>2. PICK home \in Regions :
          /\ placed = [region |-> home, epoch |-> 1, phase |-> "active",
                       move |-> [source |-> home, target |-> home, epoch |-> 1]]
          /\ rows = [r \in Regions |-> IF r = home THEN 1 ELSE 0]
    BY DEF MovesInit
  <2>3. command = NoCommand /\ journal = <<>> /\ reverted = {} /\ answered = NoProof
    BY DEF MovesInit
  <2>4. FenceFresh /\ CompletesLatest /\ ProofsOfPast
    BY <2>3 DEF FenceFresh, CompletesLatest, ProofsOfPast, Pendings, NoCommand
  <2>5. Moves!Init
    BY <2>2, <2>3 DEF Moves!Init, InRecovery
  <2>. QED  BY <2>1, <2>4, <2>5 DEF LatestInv
<1>2. LatestInv /\ [MovesNext]_movesVars => LatestInv' /\ [Moves!Next]_Moves!vars
  <2>1. LatestInv /\ [MovesNext]_movesVars => MovesInv'
    BY MovesAssumption, MovesNextHolds DEF LatestInv
  <2>2. LatestInv /\ [MovesNext]_movesVars => Shown
    BY MovesAssumption, MovesStepShown
  <2>. QED  BY <2>1, <2>2 DEF LatestInv, Shown
<1>. QED  BY <1>1, <1>2, PTL DEF MovesSpec, KeepsMoves, Moves!Spec

-----------------------------------------------------------------------------
(* Expired events: AnalyticsHistory.                                        *)

JobStates ==
  [step : {"roll", "build", "delete", "audit"}, kind : {"rollup", "retention"},
   todo : SUBSET Days, cutoff : Nat, tally : Nat, skipped : SUBSET Days]

HistoryShape ==
  /\ now \in Nat
  /\ logged \in [AuditEvents -> [at : Times, class : {"unwritten", "permanent", "detailed"}]]
  /\ gone \subseteq AuditEvents
  /\ summary \in [Days -> SUBSET AuditEvents]
  /\ ran \in [Days -> [tally : Nat, exists : BOOLEAN]]
  /\ job \in [Jobs -> {Idle} \cup JobStates]

\* The events of a day, the deleted ones with them; whether none of them is deleted; whether
\* no more of them can come.
Whole(d) == {e \in AuditEvents : logged[e].class # "unwritten" /\ DayOf(logged[e].at) = d}
Untouched(d) == \A e \in gone : DayOf(logged[e].at) # d
Over(d) == \A time \in Nat : DayOf(time) = d => time + Late < now

\* What is stored of a day tells of all its events, and its run says so.
KeptWhole(d) ==
  summary[d] = Whole(d) /\ ran[d].exists /\ ran[d].tally >= Cardinality(Whole(d))

\* A retention is past a day: it will delete events of it and neither recompute it nor hold
\* it for passed over.
Relies(x, d) ==
  /\ x.kind = "retention" /\ d \notin x.todo /\ d \notin x.skipped
  /\ \E e \in Expired(x.cutoff) : DayOf(logged[e].at) = d
Unrelied(d) == \A k \in Jobs, y \in JobStates : job[k] = y => ~Relies(y, d)

\* A deleted event's day is over, and kept unless it is excepted.
GoneHolds ==
  /\ \A e \in gone : logged[e].class # "unwritten"
  /\ \A e \in gone, d \in Days :
       DayOf(logged[e].at) = d => Over(d) /\ (d \in spoiled \/ KeptWhole(d))

\* What is stored of a day was computed from events of it, and no fewer than the run says.
StoredHolds ==
  \A d \in Days :
    \/ d \in spoiled
    \/ /\ summary[d] \subseteq Whole(d)
       /\ ran[d].exists => ran[d].tally <= Cardinality(summary[d])

\* A retention has a day of expired events still to do, or passed it over, or it is kept.
RetentionHolds(x) ==
  /\ x.step \in {"delete", "audit"} => x.kind = "retention" /\ x.todo = {}
  /\ x.kind = "retention" =>
       /\ x.cutoff + Retained <= now
       /\ \A d \in x.todo : Over(d)
       /\ \A e \in Expired(x.cutoff) : \A d \in Days :
            DayOf(logged[e].at) = d => d \in x.todo \cup x.skipped \cup spoiled \/ KeptWhole(d)

\* What a command counted of the day it is about to replace.
Counted(x, d) ==
  \/ x.kind = "retention" /\ x.tally = Cardinality(Whole(d)) /\ ~Fuller(d, x.tally)
  \/ x.kind = "rollup" /\ (x.tally = Cardinality(Whole(d)) \/ Unrelied(d))
BuildHolds(x, d) ==
  /\ d \in x.todo
  /\ x.tally <= Cardinality(Whole(d))
  /\ \/ d \in spoiled
     \/ x.kind = "rollup" /\ ~Untouched(d)
     \/ Untouched(d) /\ Counted(x, d)

RetentionsHold == \A j \in Jobs, x \in JobStates : job[j] = x => RetentionHolds(x)
BuildsHold ==
  \A j \in Jobs, x \in JobStates : job[j] = x /\ x.step = "build" => BuildHolds(x, Min(x.todo))
BuildersApart ==
  \A j, k \in Jobs, x, y \in JobStates :
    job[j] = x /\ job[k] = y /\ x.step = "build" /\ y.step = "build" /\ j # k =>
      Min(x.todo) # Min(y.todo)

HistoryInv ==
  /\ HistoryShape /\ GoneHolds /\ StoredHolds
  /\ RetentionsHold /\ BuildsHold /\ BuildersApart

-----------------------------------------------------------------------------
(* Days.                                                                    *)

LEMMA MinIn == ASSUME NEW S \in SUBSET Nat, S # {} PROVE Min(S) \in S /\ \A y \in S : Min(S) <= y
<1>1. \E x \in S : \A y \in S : x <= y
  BY Least
<1> QED
  BY <1>1 DEF Min

LEMMA MaxIn ==
  ASSUME NEW S \in SUBSET Nat, S # {}, NEW top \in Nat, \A y \in S : y <= top
  PROVE  Max(S) \in S /\ \A y \in S : Max(S) >= y
<1> DEFINE R == {top - y : y \in S}
<1>1. R \in SUBSET Nat /\ R # {}
  <2>1. ASSUME NEW y \in S PROVE top - y \in Nat
    <3>1. y \in Nat /\ y <= top
      OBVIOUS
    <3> QED
      BY <3>1
  <2> QED
    BY <2>1
<1>2. PICK r \in R : \A q \in R : r <= q
  BY <1>1, Least
<1>3. PICK x \in S : r = top - x
  BY <1>2
<1>4. ASSUME NEW y \in S PROVE x >= y
  <2>1. top - y \in R
    OBVIOUS
  <2>2. r <= top - y
    BY <1>2, <2>1
  <2> QED
    BY <2>2, <1>3, SMT
<1>5. \E z \in S : \A y \in S : z >= y
  BY <1>4
<1> QED
  BY <1>5 DEF Max

LEMMA DayMath ==
  ASSUME NEW K \in Nat \ {0}, NEW a \in Nat, NEW b \in Nat
  PROVE  /\ a \div K \in Nat /\ a \div K <= a
         /\ a <= b => a \div K <= b \div K
         /\ a \div K <= b \div K => a <= b + (K - 1)
         /\ (a * K) \div K = a
         /\ a <= b \div K => a * K <= b
<1>1. a \div K \in Nat /\ (a \div K) * K <= a /\ a < (a \div K) * K + K
  BY SMT
<1>2. b \div K \in Nat /\ (b \div K) * K <= b /\ b < (b \div K) * K + K
  BY SMT
<1>3. a \div K <= a
  BY SMT
<1>4. a <= b => a \div K <= b \div K
  BY SMT
<1>5. ASSUME a \div K <= b \div K PROVE a <= b + (K - 1)
  <2>1. (a \div K) * K <= (b \div K) * K
    BY <1>1, <1>2, <1>5, SMT
  <2> QED
    BY <2>1, <1>1, <1>2, SMT
<1>6. (a * K) \div K = a
  BY SMT
<1>7. ASSUME a <= b \div K PROVE a * K <= b
  <2>1. a * K <= (b \div K) * K
    BY <1>2, <1>7, SMT
  <2> QED
    BY <2>1, <1>2, SMT
<1> QED
  BY <1>1, <1>3, <1>4, <1>5, <1>6, <1>7

LEMMA DaysAreNat == ASSUME HistoryAssumption PROVE Days \subseteq Nat /\ \A time \in Times : DayOf(time) \in Days
<1>1. \A time \in Times : time \in Nat /\ DayOf(time) \in Nat
  BY DayMath DEF HistoryAssumption, Times, DayOf
<1> QED
  BY <1>1 DEF Days

\* A day up to that of an instant is one, too.
LEMMA DaysBefore ==
  ASSUME HistoryAssumption, NEW time \in Times, NEW d \in Nat, d <= DayOf(time)
  PROVE  d \in Days
<1> DEFINE first == d * DayLength
<1>1. time \in Nat /\ DayLength \in Nat \ {0} /\ MaxTime \in Nat /\ time <= MaxTime
  BY DEF HistoryAssumption, Times
<1>2. first \in Nat /\ first <= time
  BY <1>1, DayMath DEF DayOf
<1>3. DayOf(first) = d
  BY <1>1, DayMath DEF DayOf
<1>4. first \in Times
  BY <1>1, <1>2 DEF Times
<1> QED
  BY <1>3, <1>4 DEF Days

\* A day is over once an event of it, or of a later one, has expired.
LEMMA ExpiredOver ==
  ASSUME HistoryAssumption, now \in Nat, NEW cutoff \in Nat, cutoff + Retained <= now,
         NEW at \in Times, at < cutoff, NEW d \in Nat, d <= DayOf(at)
  PROVE  Over(d)
<1>1. at \in Nat /\ DayLength \in Nat \ {0} /\ Late \in Nat /\ Retained \in Nat
      /\ Retained + 1 >= DayLength + Late
  BY DEF HistoryAssumption, Times
<1>2. ASSUME NEW time \in Nat, DayOf(time) = d PROVE time + Late < now
  <2>1. time <= at + (DayLength - 1)
    BY <1>1, <1>2, DayMath DEF DayOf
  <2> QED
    BY <2>1, <1>1
<1> QED
  BY <1>2 DEF Over

-----------------------------------------------------------------------------
(* What a step leaves alone.                                                *)

LEMMA SameRows ==
  ASSUME logged' = logged, gone' = gone
  PROVE  /\ \A d : Whole(d)' = Whole(d) /\ Untouched(d)' = Untouched(d) /\ RowsOf(d)' = RowsOf(d)
         /\ \A cutoff : Expired(cutoff)' = Expired(cutoff)
BY DEF Whole, Untouched, RowsOf, Expired, Rows, DayOf

LEMMA HistoryInitHolds == ASSUME HistoryAssumption PROVE HistoryInit => HistoryInv
<1> SUFFICES ASSUME HistoryInit PROVE HistoryInv
  OBVIOUS
<1>1. HistoryShape
  <2>1. Unwritten \in [at : Times, class : {"unwritten", "permanent", "detailed"}]
    BY DEF HistoryAssumption, Unwritten, Times
  <2>2. NoRun \in [tally : Nat, exists : BOOLEAN]
    BY DEF NoRun
  <2>3. now \in Nat /\ gone \subseteq AuditEvents
    BY DEF HistoryInit
  <2>4. logged \in [AuditEvents -> [at : Times, class : {"unwritten", "permanent", "detailed"}]]
    BY <2>1, Zenon DEF HistoryInit
  <2>5. summary \in [Days -> SUBSET AuditEvents] /\ ran \in [Days -> [tally : Nat, exists : BOOLEAN]]
    BY <2>2, Zenon DEF HistoryInit
  <2>6. job \in [Jobs -> {Idle} \cup JobStates]
    BY Zenon DEF HistoryInit
  <2> QED
    BY <2>3, <2>4, <2>5, <2>6 DEF HistoryShape
<1>2. GoneHolds
  BY DEF GoneHolds, HistoryInit
<1>3. StoredHolds
  BY DEF StoredHolds, HistoryInit, NoRun
<1>4. \A j \in Jobs, x \in JobStates : job[j] # x
  BY DEF HistoryInit, Idle, JobStates
<1>5. RetentionsHold /\ BuildsHold /\ BuildersApart
  BY <1>4 DEF RetentionsHold, BuildsHold, BuildersApart
<1> QED
  BY <1>1, <1>2, <1>3, <1>5 DEF HistoryInv

\* A step in which one command goes on, and all it changes is where that command is.
LEMMA OneJob ==
  ASSUME HistoryInv, UNCHANGED <<now, logged, gone, summary, ran, spoiled>>,
         NEW j \in Jobs, NEW z \in {Idle} \cup JobStates, job' = [job EXCEPT ![j] = z],
         z \in JobStates => RetentionHolds(z),
         z \in JobStates /\ z.step = "build" => BuildHolds(z, Min(z.todo)),
         \A k \in Jobs, y \in JobStates :
           job[k] = y /\ y.step = "build" /\ k # j /\ z \in JobStates /\ Relies(z, Min(y.todo)) =>
             \E x \in JobStates : job[j] = x /\ Relies(x, Min(y.todo)),
         \A k \in Jobs, y \in JobStates :
           job[k] = y /\ y.step = "build" /\ k # j /\ z \in JobStates /\ z.step = "build" =>
             Min(z.todo) # Min(y.todo)
  PROVE  HistoryInv'
<1>0. /\ now' = now /\ logged' = logged /\ gone' = gone /\ summary' = summary /\ ran' = ran
      /\ spoiled' = spoiled
  OBVIOUS
<1>1. HistoryShape /\ job \in [Jobs -> {Idle} \cup JobStates]
  BY DEF HistoryInv, HistoryShape
<1>2. /\ \A d : Whole(d)' = Whole(d) /\ Untouched(d)' = Untouched(d)
      /\ \A cutoff : Expired(cutoff)' = Expired(cutoff)
  BY <1>0, SameRows
<1>3. /\ \A d : KeptWhole(d)' = KeptWhole(d) /\ Over(d)' = Over(d)
      /\ \A d, n : Fuller(d, n)' = Fuller(d, n)
  BY <1>0, <1>2 DEF KeptWhole, Over, Fuller, DayOf
<1>4. \A x \in JobStates : RetentionHolds(x)' = RetentionHolds(x)
  BY <1>0, <1>2, <1>3 DEF RetentionHolds, DayOf
<1>5. \A x \in JobStates : \A d : Relies(x, d)' = Relies(x, d)
  BY <1>0, <1>2 DEF Relies, DayOf
<1>6. \A k \in Jobs : job'[k] = IF k = j THEN z ELSE job[k]
  BY <1>1
<1>7. HistoryShape'
  <2>1. job' \in [Jobs -> {Idle} \cup JobStates]
    BY <1>1
  <2> QED
    BY <1>0, <1>1, <2>1 DEF HistoryShape
<1>8. GoneHolds' /\ StoredHolds'
  <2>1. GoneHolds /\ StoredHolds
    BY DEF HistoryInv
  <2>2. GoneHolds'
    BY <1>0, <1>3, <2>1 DEF GoneHolds, DayOf
  <2>3. StoredHolds'
    BY <1>0, <1>2, <2>1 DEF StoredHolds
  <2> QED
    BY <2>2, <2>3
<1>9. RetentionsHold'
  <2>1. ASSUME NEW k \in Jobs, NEW x \in JobStates, job'[k] = x PROVE RetentionHolds(x)'
    <3>1. CASE k = j
      BY <1>4, <1>6, <2>1, <3>1
    <3>2. CASE k # j
      BY <1>4, <1>6, <2>1, <3>2 DEF HistoryInv, RetentionsHold
    <3> QED
      BY <3>1, <3>2
  <2> QED
    BY <2>1 DEF RetentionsHold
<1>10. BuildsHold'
  <2>1. ASSUME NEW k \in Jobs, NEW x \in JobStates, job'[k] = x, x.step = "build"
        PROVE  BuildHolds(x, Min(x.todo))'
    <3> DEFINE d == Min(x.todo)
    <3>1. BuildHolds(x, d)
      BY <1>6, <2>1 DEF HistoryInv, BuildsHold
    <3>2. ASSUME x.kind = "rollup", Unrelied(d) PROVE Unrelied(d)'
      <4>1. ASSUME NEW l \in Jobs, NEW y \in JobStates, job'[l] = y PROVE ~Relies(y, d)
        <5>1. CASE l # j
          BY <1>6, <4>1, <5>1, <3>2 DEF Unrelied
        <5>2. CASE l = j /\ k = j
          <6>1. y = x
            BY <1>6, <2>1, <4>1, <5>2
          <6> QED
            BY <6>1, <3>2 DEF Relies
        <5>3. CASE l = j /\ k # j
          <6>1. y = z /\ job[k] = x
            BY <1>6, <2>1, <4>1, <5>3
          <6>2. SUFFICES ASSUME Relies(z, d) PROVE FALSE
            BY <6>1
          <6>3. PICK w \in JobStates : job[j] = w /\ Relies(w, d)
            BY <6>1, <6>2, <2>1, <5>3
          <6> QED
            BY <6>3, <3>2 DEF Unrelied
        <5> QED
          BY <5>1, <5>2, <5>3
      <4> QED
        BY <4>1, <1>5 DEF Unrelied
    <3> HIDE DEF d
    <3>3. Counted(x, d) => Counted(x, d)'
      BY <1>2, <1>3, <3>2 DEF Counted
    <3>4. BuildHolds(x, d)'
      BY <1>0, <1>2, <3>1, <3>3 DEF BuildHolds
    <3> QED
      BY <3>4 DEF d
  <2> QED
    BY <2>1 DEF BuildsHold
<1>11. BuildersApart'
  <2>1. ASSUME NEW k \in Jobs, NEW l \in Jobs, NEW x \in JobStates, NEW y \in JobStates,
               job'[k] = x, job'[l] = y, x.step = "build", y.step = "build", k # l
        PROVE  Min(x.todo) # Min(y.todo)
    <3>1. CASE k # j /\ l # j
      BY <1>6, <2>1, <3>1 DEF HistoryInv, BuildersApart
    <3>2. CASE k = j
      BY <1>6, <2>1, <3>2
    <3>3. CASE l = j
      BY <1>6, <2>1, <3>3
    <3> QED
      BY <3>1, <3>2, <3>3
  <2> QED
    BY <2>1 DEF BuildersApart
<1> QED
  BY <1>7, <1>8, <1>9, <1>10, <1>11 DEF HistoryInv

-----------------------------------------------------------------------------
(* The commands.                                                            *)

LEMMA StartRollupHolds ==
  ASSUME HistoryAssumption, HistoryInv, NEW j \in Jobs, NEW d \in Days, StartRollup(j, d)
  PROVE  HistoryInv'
<1> DEFINE z == [step |-> "roll", kind |-> "rollup", todo |-> {d}, cutoff |-> 0, tally |-> 0,
                 skipped |-> {}]
<1>1. job' = [job EXCEPT ![j] = z]
  BY DEF StartRollup
<1>2. UNCHANGED <<now, logged, gone, summary, ran, spoiled>>
  BY DEF StartRollup
<1>3. z \in JobStates /\ z.kind = "rollup" /\ z.step = "roll"
  BY DEF JobStates
<1> HIDE DEF z
<1>4. RetentionHolds(z) /\ \A x : ~Relies(z, x)
  BY <1>3 DEF RetentionHolds, Relies
<1> QED
  BY <1>1, <1>2, <1>3, <1>4, OneJob

LEMMA StartRetentionHolds ==
  ASSUME HistoryAssumption, HistoryInv, NEW j \in Jobs, StartRetention(j)
  PROVE  HistoryInv'
<1> DEFINE cutoff == now - Retained
           old == Expired(cutoff)
           days == {DayOf(logged[e].at) : e \in old}
           z == [step |-> "roll", kind |-> "retention", todo |-> Min(days)..Max(days),
                 cutoff |-> cutoff, tally |-> 0, skipped |-> {}]
<1>1. job' = [job EXCEPT ![j] = z]
  BY DEF StartRetention
<1>2. UNCHANGED <<now, logged, gone, summary, ran, spoiled>> /\ old # {} /\ now >= Retained
  BY DEF StartRetention
<1>3. HistoryShape
  BY DEF HistoryInv
<1>4. cutoff \in Nat /\ cutoff + Retained = now /\ now \in Nat
  BY <1>2, <1>3 DEF HistoryAssumption, HistoryShape
<1>5. ASSUME NEW e \in old
      PROVE  /\ logged[e].at \in Times /\ logged[e].at \in Nat /\ logged[e].at < cutoff
             /\ DayOf(logged[e].at) \in Nat /\ DayOf(logged[e].at) <= cutoff
  <2>1. e \in AuditEvents /\ logged[e].at < cutoff
    BY DEF Expired, Rows
  <2>2. logged[e].at \in Times
    BY <2>1, <1>3 DEF HistoryShape
  <2>3. logged[e].at \in Nat /\ DayLength \in Nat \ {0}
    BY <2>2 DEF Times, HistoryAssumption
  <2>4. DayOf(logged[e].at) \in Nat /\ DayOf(logged[e].at) <= logged[e].at
    BY <2>3, DayMath DEF DayOf
  <2> QED
    BY <2>1, <2>2, <2>3, <2>4, <1>4
<1> HIDE DEF cutoff
<1>6. days \in SUBSET Nat /\ days # {} /\ \A d \in days : d <= cutoff
  BY <1>2, <1>5
<1>7. Min(days) \in days /\ Max(days) \in days /\ \A d \in days : Min(days) <= d /\ d <= Max(days)
  <2>1. Min(days) \in days /\ \A d \in days : Min(days) <= d
    BY <1>6, MinIn
  <2>2. Max(days) \in days /\ \A d \in days : Max(days) >= d
    BY <1>4, <1>6, MaxIn
  <2>3. \A d \in days : d <= Max(days)
    <3> HIDE DEF days
    <3> QED
      BY <2>2, <1>6
  <2> QED
    BY <2>1, <2>2, <2>3
<1>8. ASSUME NEW d \in Min(days)..Max(days) PROVE d \in Days /\ Over(d)
  <2>1. d \in Nat /\ d <= Max(days)
    <3>1. Min(days) \in Nat /\ Max(days) \in Nat
      BY <1>6, <1>7
    <3> HIDE DEF days
    <3> QED
      BY <3>1
  <2>2. PICK e \in old : Max(days) = DayOf(logged[e].at)
    BY <1>7
  <2>3. logged[e].at \in Times /\ logged[e].at < cutoff /\ d <= DayOf(logged[e].at)
    BY <1>5, <2>1, <2>2
  <2>4. d \in Days
    BY <2>1, <2>3, DaysBefore
  <2>5. cutoff + Retained <= now
    BY <1>4
  <2>6. Over(d)
    BY <1>4, <2>1, <2>3, <2>5, ExpiredOver
  <2> QED
    BY <2>4, <2>6
<1>9. \A e \in old : DayOf(logged[e].at) \in Min(days)..Max(days)
  <2>1. ASSUME NEW d \in days PROVE d \in Min(days)..Max(days)
    <3> HIDE DEF days
    <3>1. d \in Nat /\ Min(days) \in Nat /\ Max(days) \in Nat
      BY <1>6, <1>7
    <3>2. Min(days) <= d /\ d <= Max(days)
      BY <1>7
    <3> QED
      BY <3>1, <3>2
  <2> QED
    BY <2>1
<1>10. /\ z \in JobStates /\ z.kind = "retention" /\ z.step = "roll" /\ z.cutoff = cutoff
       /\ z.todo = Min(days)..Max(days)
  <2>1. Min(days)..Max(days) \in SUBSET Days
    BY <1>8
  <2> HIDE DEF days
  <2> QED
    BY <1>4, <2>1 DEF JobStates
<1> HIDE DEF z, days
<1>11. RetentionHolds(z)
  <2>1. z.cutoff + Retained <= now
    BY <1>4, <1>10
  <2>2. \A d \in z.todo : Over(d)
    BY <1>8, <1>10
  <2>3. \A e \in Expired(z.cutoff) : DayOf(logged[e].at) \in z.todo
    BY <1>9, <1>10
  <2>4. z.step \notin {"delete", "audit"}
    BY <1>10
  <2> QED
    BY <2>1, <2>2, <2>3, <2>4 DEF RetentionHolds
<1>12. \A d : ~Relies(z, d)
  BY <1>9, <1>10 DEF Relies
<1>13. z \in {Idle} \cup JobStates /\ z.step # "build"
  BY <1>10
<1> QED
  BY <1>1, <1>2, <1>11, <1>12, <1>13, OneJob

LEMMA JobDiesHolds ==
  ASSUME HistoryInv, NEW j \in Jobs, NEW z \in {Idle}, job' = [job EXCEPT ![j] = z],
         UNCHANGED <<now, logged, gone, summary, ran, spoiled>>
  PROVE  HistoryInv'
<1>1. z \notin JobStates /\ z \in {Idle} \cup JobStates
  BY DEF Idle, JobStates
<1> QED
  BY <1>1, OneJob

\* A command that does something is in a state of its own.
LEMMA AtWork ==
  ASSUME HistoryShape, NEW j \in Jobs, NEW step, Doing(j, step), step # "resting"
  PROVE  \E x \in JobStates : job[j] = x /\ x.step = step
<1>1. job[j] \in {Idle} \cup JobStates /\ job[j].step = step
  BY DEF HistoryShape, Doing
<1>2. job[j] # Idle
  BY <1>1 DEF Idle
<1> QED
  BY <1>1, <1>2

\* The day a command is at is one of those it has to do.
LEMMA TodayIn ==
  ASSUME HistoryAssumption, NEW x \in JobStates, x.todo # {}
  PROVE  Min(x.todo) \in x.todo /\ Min(x.todo) \in Days /\ Min(x.todo) \in Nat
<1>1. x.todo \in SUBSET Days /\ Days \in SUBSET Nat
  BY DaysAreNat DEF JobStates
<1>2. x.todo \in SUBSET Nat
  BY <1>1
<1> QED
  BY <1>1, <1>2, MinIn

LEMMA SkipDayHolds ==
  ASSUME HistoryAssumption, HistoryInv, NEW j \in Jobs, SkipDay(j)
  PROVE  HistoryInv'
<1>1. HistoryShape /\ Doing(j, "roll") /\ job[j].todo # {}
  BY DEF HistoryInv, SkipDay
<1>2. PICK x \in JobStates : job[j] = x /\ x.step = "roll"
  BY <1>1, AtWork
<1> DEFINE d == Min(x.todo)
           z == [x EXCEPT !.todo = x.todo \ {d}, !.skipped = x.skipped \cup {d}]
<1>3. job' = [job EXCEPT ![j] = z]
  BY <1>2 DEF SkipDay, DaysLeft, Today
<1>4. UNCHANGED <<now, logged, gone, summary, ran, spoiled>>
  BY DEF SkipDay
<1>5. d \in x.todo /\ d \in Days
  BY <1>1, <1>2, TodayIn
<1> HIDE DEF d
<1>6. /\ z \in JobStates /\ z.step = "roll" /\ z.kind = x.kind /\ z.cutoff = x.cutoff
      /\ z.todo = x.todo \ {d} /\ z.skipped = x.skipped \cup {d}
  BY <1>2, <1>5 DEF JobStates
<1> HIDE DEF z
<1>7. RetentionHolds(z)
  <2>1. RetentionHolds(x)
    BY <1>2 DEF HistoryInv, RetentionsHold
  <2> QED
    BY <2>1, <1>6 DEF RetentionHolds
<1>8. \A day : Relies(z, day) => Relies(x, day)
  BY <1>6 DEF Relies
<1>9. z \in {Idle} \cup JobStates /\ z.step # "build"
  BY <1>6
<1> QED
  BY <1>2, <1>3, <1>4, <1>7, <1>8, <1>9, OneJob

LEMMA EndRollupsHolds ==
  ASSUME HistoryAssumption, HistoryInv, NEW j \in Jobs, EndRollups(j)
  PROVE  HistoryInv'
<1>1. HistoryShape /\ Doing(j, "roll") /\ job[j].todo = {}
  BY DEF HistoryInv, EndRollups
<1>2. PICK x \in JobStates : job[j] = x /\ x.step = "roll"
  BY <1>1, AtWork
<1>3. UNCHANGED <<now, logged, gone, summary, ran, spoiled>>
  BY DEF EndRollups
<1>4. CASE x.kind # "retention"
  <2>1. job' = [job EXCEPT ![j] = Idle]
    BY <1>2, <1>4 DEF EndRollups
  <2> QED
    BY <2>1, <1>3, JobDiesHolds
<1>5. CASE x.kind = "retention"
  <2> DEFINE z == [x EXCEPT !.step = "delete"]
  <2>1. job' = [job EXCEPT ![j] = z]
    BY <1>2, <1>5 DEF EndRollups
  <2>2. /\ z \in JobStates /\ z.step = "delete" /\ z.kind = x.kind /\ z.cutoff = x.cutoff
        /\ z.todo = x.todo /\ z.skipped = x.skipped /\ x.todo = {}
    BY <1>1, <1>2 DEF JobStates
  <2> HIDE DEF z
  <2>3. RetentionHolds(x)
    BY <1>2 DEF HistoryInv, RetentionsHold
  <2>4. RetentionHolds(z)
    BY <1>5, <2>2, <2>3 DEF RetentionHolds
  <2>5. \A day : Relies(z, day) => Relies(x, day)
    BY <2>2 DEF Relies
  <2>6. z \in {Idle} \cup JobStates /\ z.step # "build"
    BY <2>2
  <2> QED
    BY <1>2, <1>3, <2>1, <2>4, <2>5, <2>6, OneJob
<1> QED
  BY <1>4, <1>5

\* The rows of a day are those of its events that are not deleted.
LEMMA RowsOfDay ==
  ASSUME HistoryAssumption, NEW d
  PROVE  /\ IsFiniteSet(Whole(d)) /\ Cardinality(Whole(d)) \in Nat
         /\ RowsOf(d) \subseteq Whole(d) /\ Cardinality(RowsOf(d)) \in Nat
         /\ Cardinality(RowsOf(d)) <= Cardinality(Whole(d))
         /\ Untouched(d) => RowsOf(d) = Whole(d)
<1>1. Whole(d) \in SUBSET AuditEvents /\ IsFiniteSet(AuditEvents)
  BY DEF Whole, HistoryAssumption
<1>2. RowsOf(d) \in SUBSET Whole(d)
  BY DEF RowsOf, Rows, Whole
<1>3. IsFiniteSet(Whole(d))
  BY <1>1, FS_Subset
<1>4. IsFiniteSet(RowsOf(d)) /\ Cardinality(RowsOf(d)) <= Cardinality(Whole(d))
  BY <1>2, <1>3, FS_Subset
<1>5. Cardinality(Whole(d)) \in Nat /\ Cardinality(RowsOf(d)) \in Nat
  BY <1>3, <1>4, FS_CardinalityType
<1>6. Untouched(d) => RowsOf(d) = Whole(d)
  BY DEF Untouched, RowsOf, Rows, Whole
<1> QED
  BY <1>2, <1>3, <1>4, <1>5, <1>6

\* The day of an event is a day.
LEMMA DayOfEvent ==
  ASSUME HistoryAssumption, HistoryShape, NEW e \in AuditEvents
  PROVE  /\ logged[e].at \in Times /\ logged[e].at \in Nat
         /\ DayOf(logged[e].at) \in Days /\ DayOf(logged[e].at) \in Nat
<1>1. logged[e].at \in Times
  BY DEF HistoryShape
<1>2. logged[e].at \in Nat
  BY <1>1 DEF Times
<1> QED
  BY <1>1, <1>2, DaysAreNat

\* A stored day of which a retention finds no more rows than its run counted is kept, and it
\* finds some more only if none of the day is deleted.
LEMMA FullerKept ==
  ASSUME HistoryAssumption, HistoryInv, NEW d \in Days, d \notin spoiled
  PROVE  /\ Fuller(d, Cardinality(RowsOf(d))) => KeptWhole(d)
         /\ ~Fuller(d, Cardinality(RowsOf(d))) => Untouched(d)
<1>1. /\ IsFiniteSet(Whole(d)) /\ Cardinality(Whole(d)) \in Nat
      /\ Cardinality(RowsOf(d)) \in Nat /\ Cardinality(RowsOf(d)) <= Cardinality(Whole(d))
      /\ Untouched(d) => RowsOf(d) = Whole(d)
  BY RowsOfDay
<1>2. summary[d] \in SUBSET Whole(d) /\ (ran[d].exists => ran[d].tally <= Cardinality(summary[d]))
  BY DEF HistoryInv, StoredHolds
<1>3. IsFiniteSet(summary[d]) /\ Cardinality(summary[d]) <= Cardinality(Whole(d))
      /\ (Cardinality(Whole(d)) = Cardinality(summary[d]) => Whole(d) = summary[d])
  BY <1>1, <1>2, FS_Subset
<1>4. Cardinality(summary[d]) \in Nat
  BY <1>3, FS_CardinalityType
<1>5. ran[d].tally \in Nat
  BY DEF HistoryInv, HistoryShape
<1>6. ~Untouched(d) => KeptWhole(d)
  BY DEF HistoryInv, GoneHolds, Untouched
<1>7. ASSUME Fuller(d, Cardinality(RowsOf(d))), Untouched(d) PROVE KeptWhole(d)
  <2>1. ran[d].exists /\ ran[d].tally >= Cardinality(Whole(d))
    BY <1>1, <1>7 DEF Fuller
  <2>2. Cardinality(Whole(d)) = Cardinality(summary[d])
    BY <1>1, <1>2, <1>3, <1>4, <1>5, <2>1
  <2> QED
    BY <1>3, <2>1, <2>2 DEF KeptWhole
<1>8. ASSUME KeptWhole(d) PROVE Fuller(d, Cardinality(RowsOf(d)))
  BY <1>1, <1>5, <1>8 DEF KeptWhole, Fuller
<1> QED
  BY <1>6, <1>7, <1>8

LEMMA CountRowsHolds ==
  ASSUME HistoryAssumption, HistoryInv, NEW j \in Jobs, CountRows(j)
  PROVE  HistoryInv'
<1>1. HistoryShape /\ Doing(j, "roll") /\ job[j].todo # {}
  BY DEF HistoryInv, CountRows
<1>2. PICK x \in JobStates : job[j] = x /\ x.step = "roll"
  BY <1>1, AtWork
<1> DEFINE d == Min(x.todo)
           found == Cardinality(RowsOf(d))
           past == [x EXCEPT !.todo = x.todo \ {d}]
           build == [x EXCEPT !.step = "build", !.tally = found]
<1>3. job' = [job EXCEPT ![j] =
                IF x.kind = "retention" /\ Fuller(d, found) THEN past ELSE build]
  BY <1>2 DEF CountRows, DaysLeft, Today
<1>4. UNCHANGED <<now, logged, gone, summary, ran, spoiled>>
  BY DEF CountRows
<1>5. d \in x.todo /\ d \in Days
  BY <1>1, <1>2, TodayIn
<1>6. \A k \in Jobs, y \in JobStates : job[k] = y /\ y.step = "build" => Min(y.todo) # d
  BY <1>2 DEF CountRows, Doing, Today
<1>7. RetentionHolds(x)
  BY <1>2 DEF HistoryInv, RetentionsHold
<1>8. found \in Nat /\ found <= Cardinality(Whole(d)) /\ (Untouched(d) => RowsOf(d) = Whole(d))
  BY RowsOfDay
<1>9. d \in spoiled \/ (Fuller(d, found) /\ KeptWhole(d)) \/ (~Fuller(d, found) /\ Untouched(d))
  BY <1>5, FullerKept
<1>10. Untouched(d) => found = Cardinality(Whole(d))
  BY <1>8
<1> HIDE DEF d, found
<1>11. CASE x.kind = "retention" /\ Fuller(d, found)
  <2>1. job' = [job EXCEPT ![j] = past]
    BY <1>3, <1>11
  <2>2. /\ past \in JobStates /\ past.step = "roll" /\ past.kind = x.kind
        /\ past.cutoff = x.cutoff /\ past.todo = x.todo \ {d} /\ past.skipped = x.skipped
    BY <1>2, <1>5 DEF JobStates
  <2> HIDE DEF past
  <2>3. d \in spoiled \/ KeptWhole(d)
    BY <1>9, <1>11
  <2>4. RetentionHolds(past)
    BY <1>7, <2>2, <2>3 DEF RetentionHolds
  <2>5. \A day : day # d /\ Relies(past, day) => Relies(x, day)
    BY <2>2 DEF Relies
  <2>6. past \in {Idle} \cup JobStates /\ past.step # "build"
    BY <2>2
  <2>7. \A k \in Jobs, y \in JobStates :
           job[k] = y /\ y.step = "build" /\ k # j /\ past \in JobStates /\ Relies(past, Min(y.todo)) =>
             \E w \in JobStates : job[j] = w /\ Relies(w, Min(y.todo))
    BY <1>2, <1>6, <2>5
  <2>8. \A k \in Jobs, y \in JobStates :
           job[k] = y /\ y.step = "build" /\ k # j /\ past \in JobStates /\ past.step = "build" =>
             Min(past.todo) # Min(y.todo)
    BY <1>6, <2>6
  <2> QED
    BY <1>4, <2>1, <2>4, <2>6, <2>7, <2>8, OneJob
<1>12. CASE ~(x.kind = "retention" /\ Fuller(d, found))
  <2>1. job' = [job EXCEPT ![j] = build]
    BY <1>3, <1>12
  <2>2. /\ build \in JobStates /\ build.step = "build" /\ build.kind = x.kind
        /\ build.cutoff = x.cutoff /\ build.todo = x.todo /\ build.skipped = x.skipped
        /\ build.tally = found
    BY <1>2, <1>8 DEF JobStates
  <2>3. Min(build.todo) = d
    BY <2>2 DEF d
  <2> HIDE DEF build
  <2>4. RetentionHolds(build)
    BY <1>7, <2>2 DEF RetentionHolds
  <2>5. \A day : Relies(build, day) => Relies(x, day)
    BY <2>2 DEF Relies
  <2>6. build.kind \in {"rollup", "retention"}
    BY <2>2 DEF JobStates
  <2>7. Untouched(d) => d \in spoiled \/ Counted(build, d)
    BY <1>9, <1>10, <1>12, <2>2, <2>6 DEF Counted
  <2>8. ~Untouched(d) => d \in spoiled \/ build.kind = "rollup"
    BY <1>9, <1>12, <2>2, <2>6
  <2>9. BuildHolds(build, Min(build.todo))
    BY <1>5, <1>8, <2>2, <2>3, <2>7, <2>8 DEF BuildHolds
  <2>10. build \in {Idle} \cup JobStates
    BY <2>2
  <2>11. \A k \in Jobs, y \in JobStates :
           job[k] = y /\ y.step = "build" /\ k # j /\ build \in JobStates /\ Relies(build, Min(y.todo)) =>
             \E w \in JobStates : job[j] = w /\ Relies(w, Min(y.todo))
    BY <1>2, <1>6, <2>5
  <2>12. \A k \in Jobs, y \in JobStates :
           job[k] = y /\ y.step = "build" /\ k # j /\ build \in JobStates /\ build.step = "build" =>
             Min(build.todo) # Min(y.todo)
    BY <1>6, <2>3
  <2> QED
    BY <1>4, <2>1, <2>4, <2>9, <2>10, <2>11, <2>12, OneJob
<1> QED
  BY <1>11, <1>12

-----------------------------------------------------------------------------
(* Time, events and the fence.                                              *)

LEMMA TickHolds ==
  ASSUME HistoryInv, now' = now + 1, UNCHANGED <<logged, gone, summary, ran, job, spoiled>>
  PROVE  HistoryInv'
<1>0. /\ logged' = logged /\ gone' = gone /\ summary' = summary /\ ran' = ran
      /\ job' = job /\ spoiled' = spoiled /\ now' = now + 1
  OBVIOUS
<1>1. HistoryShape /\ GoneHolds /\ StoredHolds /\ RetentionsHold /\ BuildsHold /\ BuildersApart
  BY DEF HistoryInv
<1>2. /\ \A d : Whole(d)' = Whole(d) /\ Untouched(d)' = Untouched(d)
      /\ \A cutoff : Expired(cutoff)' = Expired(cutoff)
  BY <1>0, SameRows
<1>3. ASSUME NEW d, Over(d) PROVE Over(d)'
  <2>1. ASSUME NEW time \in Nat, DayOf(time) = d, HistoryAssumption PROVE time + Late < now'
    BY <1>0, <1>1, <1>3, <2>1 DEF Over, HistoryShape, HistoryAssumption
  <2> QED
    BY <2>1, HistoryAssumption DEF Over, DayOf
<1>4. /\ \A d : KeptWhole(d)' = KeptWhole(d)
      /\ \A d, n : Fuller(d, n)' = Fuller(d, n)
  BY <1>0, <1>2 DEF KeptWhole, Fuller
<1>5. \A x \in JobStates : \A d : Relies(x, d)' = Relies(x, d)
  BY <1>0, <1>2 DEF Relies, DayOf
<1>6. ASSUME NEW x \in JobStates, RetentionHolds(x) PROVE RetentionHolds(x)'
  <2>1. x.cutoff \in Nat /\ Retained \in Nat /\ now \in Nat
    BY <1>1, HistoryAssumption DEF JobStates, HistoryAssumption, HistoryShape
  <2>2. x.cutoff + Retained <= now => x.cutoff + Retained <= now'
    BY <1>0, <2>1
  <2> QED
    BY <1>0, <1>2, <1>3, <1>4, <1>6, <2>2 DEF RetentionHolds, DayOf
<1>7. \A d : Unrelied(d)' = Unrelied(d)
  BY <1>0, <1>5 DEF Unrelied
<1>8. \A x \in JobStates : \A d : BuildHolds(x, d)' = BuildHolds(x, d)
  BY <1>0, <1>2, <1>4, <1>7 DEF BuildHolds, Counted
<1>9. HistoryShape'
  BY <1>0, <1>1 DEF HistoryShape
<1>10. GoneHolds'
  BY <1>0, <1>1, <1>3, <1>4 DEF GoneHolds, DayOf
<1>11. StoredHolds'
  BY <1>0, <1>1, <1>2 DEF StoredHolds
<1>12. RetentionsHold'
  BY <1>0, <1>1, <1>6 DEF RetentionsHold
<1>13. BuildsHold'
  BY <1>0, <1>1, <1>8 DEF BuildsHold
<1>14. BuildersApart'
  BY <1>0, <1>1 DEF BuildersApart
<1> QED
  BY <1>9, <1>10, <1>11, <1>12, <1>13, <1>14 DEF HistoryInv

\* A step that changes none of it.
LEMMA HistoryStill ==
  ASSUME HistoryInv, UNCHANGED <<now, logged, gone, summary, ran, job, spoiled>>
  PROVE  HistoryInv'
<1>1. /\ now' = now /\ logged' = logged /\ gone' = gone /\ summary' = summary /\ ran' = ran
      /\ job' = job /\ spoiled' = spoiled
  OBVIOUS
<1>2. /\ \A d : Whole(d)' = Whole(d) /\ Untouched(d)' = Untouched(d)
      /\ \A cutoff : Expired(cutoff)' = Expired(cutoff)
  BY <1>1, SameRows
<1>3. /\ \A d : KeptWhole(d)' = KeptWhole(d) /\ Over(d)' = Over(d)
      /\ \A d, n : Fuller(d, n)' = Fuller(d, n)
  BY <1>1, <1>2 DEF KeptWhole, Over, Fuller, DayOf
<1>4. \A x \in JobStates : \A d : Relies(x, d)' = Relies(x, d)
  BY <1>1, <1>2 DEF Relies, DayOf
<1>5. \A x \in JobStates : RetentionHolds(x)' = RetentionHolds(x)
  BY <1>1, <1>2, <1>3 DEF RetentionHolds, DayOf
<1>6. \A d : Unrelied(d)' = Unrelied(d)
  BY <1>1, <1>4 DEF Unrelied
<1>7. \A x \in JobStates : \A d : BuildHolds(x, d)' = BuildHolds(x, d)
  BY <1>1, <1>2, <1>3, <1>6 DEF BuildHolds, Counted
<1>8. HistoryShape' /\ BuildersApart'
  BY <1>1 DEF HistoryInv, HistoryShape, BuildersApart
<1>9. GoneHolds' /\ StoredHolds'
  BY <1>1, <1>2, <1>3 DEF HistoryInv, GoneHolds, StoredHolds, DayOf
<1>10. RetentionsHold' /\ BuildsHold'
  BY <1>1, <1>5, <1>7 DEF HistoryInv, RetentionsHold, BuildsHold
<1> QED
  BY <1>8, <1>9, <1>10 DEF HistoryInv

\* An event is of a day that is not over, and it has not expired for any retention.  The one
\* that tells of a retention ends it.
LEMMA EventHolds ==
  ASSUME HistoryAssumption, HistoryInv, NEW class \in {"permanent", "detailed"},
         LogEvent(class), UNCHANGED <<now, gone, summary, ran, spoiled>>,
         job' \in [Jobs -> {Idle} \cup JobStates],
         \A k \in Jobs, y \in JobStates : job'[k] = y => job[k] = y
  PROVE  HistoryInv'
<1>0. now' = now /\ gone' = gone /\ summary' = summary /\ ran' = ran /\ spoiled' = spoiled
  OBVIOUS
<1>1. HistoryShape /\ GoneHolds /\ StoredHolds /\ RetentionsHold /\ BuildsHold /\ BuildersApart
  BY DEF HistoryInv
<1>2. PICK e \in AuditEvents, at \in Times :
        /\ logged[e] = Unwritten /\ at <= now /\ now <= at + Late
        /\ logged' = [logged EXCEPT ![e] = [at |-> at, class |-> class]]
  BY Zenon DEF LogEvent
<1> DEFINE D == DayOf(at)
<1>3. at \in Nat /\ Late \in Nat /\ Retained \in Nat /\ Late <= Retained /\ now \in Nat
  BY <1>1 DEF HistoryAssumption, HistoryShape, Times
<1>4. ~Over(D)
  BY <1>2, <1>3 DEF Over
<1>5. logged[e].class = "unwritten"
  BY <1>2 DEF Unwritten
<1>6. [at |-> at, class |-> class] \in [at : Times, class : {"unwritten", "permanent", "detailed"}]
  OBVIOUS
<1>7. /\ logged'[e] = [at |-> at, class |-> class]
      /\ \A other \in AuditEvents : other # e => logged'[other] = logged[other]
      /\ logged' \in [AuditEvents -> [at : Times, class : {"unwritten", "permanent", "detailed"}]]
  <2>1. logged \in [AuditEvents -> [at : Times, class : {"unwritten", "permanent", "detailed"}]]
    BY <1>1 DEF HistoryShape
  <2> QED
    BY <1>2, <1>6, <2>1
<1>8. /\ logged'[e].at = at /\ logged'[e].class = class /\ class # "unwritten"
      /\ gone \subseteq AuditEvents /\ e \notin gone
  BY <1>1, <1>5, <1>7 DEF HistoryShape, GoneHolds
<1> HIDE DEF D
<1>9. \A d : Whole(d) \subseteq Whole(d)' /\ (d # D => Whole(d)' = Whole(d))
  BY <1>5, <1>7, <1>8 DEF Whole, DayOf, D
<1>10. \A d : Untouched(d)' = Untouched(d)
  BY <1>0, <1>7, <1>8 DEF Untouched, DayOf
<1>11. \A d : Over(d)' = Over(d) /\ (Over(d) => Whole(d)' = Whole(d) /\ KeptWhole(d)' = KeptWhole(d))
  <2>1. \A d : Over(d)' = Over(d)
    BY <1>0 DEF Over, DayOf
  <2>2. \A d : Over(d) => Whole(d)' = Whole(d)
    BY <1>4, <1>9
  <2> QED
    BY <1>0, <2>1, <2>2 DEF KeptWhole
<1>12. ASSUME NEW cutoff \in Nat, cutoff + Retained <= now PROVE Expired(cutoff)' = Expired(cutoff)
  <2>1. ~(at < cutoff)
    BY <1>2, <1>3, <1>12
  <2> QED
    BY <1>0, <1>5, <1>7, <1>8, <2>1 DEF Expired, Rows
<1>13. ASSUME NEW cutoff \in Nat, NEW old \in Expired(cutoff)
       PROVE  old \in AuditEvents /\ old # e /\ logged'[old] = logged[old]
  BY <1>5, <1>7 DEF Expired, Rows
<1>14. ASSUME NEW cutoff \in Nat, cutoff + Retained <= now, NEW old \in Expired(cutoff)
       PROVE  Over(DayOf(logged[old].at))
  <2>1. logged[old].at < cutoff /\ old \in AuditEvents
    BY DEF Expired, Rows
  <2>2. logged[old].at \in Times /\ DayOf(logged[old].at) \in Nat
    BY <1>1, <2>1, DayOfEvent
  <2>3. DayOf(logged[old].at) <= DayOf(logged[old].at)
    BY <2>2
  <2> QED
    BY <1>3, <1>14, <2>1, <2>2, <2>3, ExpiredOver
<1>15. ASSUME NEW x \in JobStates, RetentionHolds(x), NEW d, Relies(x, d)'
       PROVE  Relies(x, d) /\ Over(d)
  <2>1. /\ x.kind = "retention" /\ x.cutoff \in Nat /\ x.cutoff + Retained <= now
        /\ d \notin x.todo /\ d \notin x.skipped
    BY <1>15 DEF Relies, RetentionHolds, JobStates
  <2>2. Expired(x.cutoff)' = Expired(x.cutoff)
    BY <1>12, <2>1
  <2>3. PICK old \in Expired(x.cutoff) : DayOf(logged'[old].at) = d
    BY <1>15, <2>2 DEF Relies, DayOf
  <2>4. DayOf(logged[old].at) = d
    BY <1>13, <2>1, <2>3
  <2>5. Over(d)
    BY <1>14, <2>1, <2>4
  <2> QED
    BY <2>1, <2>3, <2>4, <2>5 DEF Relies
<1>16. ASSUME NEW x \in JobStates, RetentionHolds(x) PROVE RetentionHolds(x)'
  <2>1. CASE x.kind # "retention"
    BY <1>16, <2>1 DEF RetentionHolds
  <2>2. CASE x.kind = "retention"
    <3>1. x.cutoff \in Nat /\ x.cutoff + Retained <= now
      BY <1>16, <2>2 DEF RetentionHolds, JobStates
    <3>2. Expired(x.cutoff)' = Expired(x.cutoff)
      BY <1>12, <3>1
    <3>3. \A d \in x.todo : Over(d)'
      BY <1>11, <1>16, <2>2 DEF RetentionHolds
    <3>4. ASSUME NEW old \in Expired(x.cutoff), NEW d \in Days, DayOf(logged'[old].at) = d
          PROVE  d \in x.todo \cup x.skipped \cup spoiled \/ KeptWhole(d)'
      <4>1. DayOf(logged[old].at) = d
        BY <1>13, <3>1, <3>4
      <4>2. Over(d)
        BY <1>14, <3>1, <4>1
      <4>3. d \in x.todo \cup x.skipped \cup spoiled \/ KeptWhole(d)
        BY <1>16, <2>2, <4>1 DEF RetentionHolds
      <4> QED
        BY <1>11, <4>2, <4>3
    <3> QED
      BY <1>0, <1>16, <2>2, <3>1, <3>2, <3>3, <3>4 DEF RetentionHolds, DayOf
  <2> QED
    BY <2>1, <2>2
<1>17. \A d : Cardinality(Whole(d)) \in Nat
  BY RowsOfDay
<1>18. \A d : Cardinality(Whole(d)') \in Nat /\ Cardinality(Whole(d)) <= Cardinality(Whole(d)')
  <2>1. ASSUME NEW d PROVE Cardinality(Whole(d)') \in Nat /\ Cardinality(Whole(d)) <= Cardinality(Whole(d)')
    <3>1. Whole(d)' \in SUBSET AuditEvents /\ IsFiniteSet(AuditEvents)
      BY DEF Whole, HistoryAssumption
    <3>2. IsFiniteSet(Whole(d)')
      BY <3>1, FS_Subset
    <3>3. Whole(d) \in SUBSET (Whole(d)')
      BY <1>9
    <3> QED
      BY <3>2, <3>3, FS_Subset, FS_CardinalityType
  <2> QED
    BY <2>1
<1>19. ASSUME NEW k \in Jobs, NEW x \in JobStates, job'[k] = x, x.step = "build", NEW d,
              BuildHolds(x, d)
       PROVE  BuildHolds(x, d)'
  <2>1. job[k] = x /\ RetentionHolds(x)
    BY <1>1, <1>19 DEF RetentionsHold
  <2>2. x.tally \in Nat /\ x.kind \in {"retention", "rollup"}
    BY DEF JobStates
  <2>3. d \in x.todo /\ x.tally <= Cardinality(Whole(d)')
    BY <1>17, <1>18, <1>19, <2>2 DEF BuildHolds
  <2>4. CASE d \in spoiled \/ (x.kind = "rollup" /\ ~Untouched(d))
    BY <1>0, <1>10, <2>3, <2>4 DEF BuildHolds
  <2>5. CASE d \notin spoiled /\ ~(x.kind = "rollup" /\ ~Untouched(d))
    <3>1. Untouched(d) /\ Counted(x, d)
      BY <1>19, <2>5 DEF BuildHolds
    <3>2. Counted(x, d)'
      <4>1. CASE x.kind = "retention"
        <5>1. Over(d)
          BY <2>1, <2>3, <4>1 DEF RetentionHolds
        <5> QED
          BY <1>0, <1>11, <3>1, <4>1, <5>1 DEF Counted, Fuller
      <4>2. CASE x.kind = "rollup" /\ d # D /\ x.tally = Cardinality(Whole(d))
        BY <1>9, <4>2 DEF Counted
      <4>3. CASE x.kind = "rollup" /\ (d = D \/ x.tally # Cardinality(Whole(d)))
        <5>1. ASSUME NEW l \in Jobs, NEW y \in JobStates, job'[l] = y, Relies(y, d)' PROVE FALSE
          <6>1. job[l] = y /\ RetentionHolds(y)
            BY <1>1, <5>1 DEF RetentionsHold
          <6>2. Relies(y, d) /\ Over(d)
            BY <1>15, <5>1, <6>1
          <6>3. d # D /\ Unrelied(d)
            BY <1>4, <3>1, <4>3, <6>2 DEF Counted
          <6> QED
            BY <6>1, <6>2, <6>3 DEF Unrelied
        <5>2. Unrelied(d)'
          BY <5>1 DEF Unrelied
        <5> QED
          BY <4>3, <5>2 DEF Counted
      <4> QED
        BY <2>2, <4>1, <4>2, <4>3
    <3> QED
      BY <1>10, <2>3, <3>1, <3>2 DEF BuildHolds
  <2> QED
    BY <2>4, <2>5
<1>20. HistoryShape'
  BY <1>0, <1>1, <1>7 DEF HistoryShape
<1>21. GoneHolds'
  <2>1. \A old \in gone : logged'[old] = logged[old]
    BY <1>7, <1>8
  <2>2. \A old \in gone : logged'[old].class # "unwritten"
    BY <1>1, <2>1 DEF GoneHolds
  <2>3. ASSUME NEW old \in gone, NEW d \in Days, DayOf(logged'[old].at) = d
        PROVE  Over(d)' /\ (d \in spoiled \/ KeptWhole(d)')
    <3>1. Over(d) /\ (d \in spoiled \/ KeptWhole(d))
      BY <1>1, <2>1, <2>3 DEF GoneHolds
    <3> QED
      BY <1>11, <3>1
  <2> QED
    BY <1>0, <2>2, <2>3 DEF GoneHolds, DayOf
<1>22. StoredHolds'
  <2>1. ASSUME NEW d \in Days, d \notin spoiled
        PROVE  summary[d] \subseteq Whole(d)' /\ (ran[d].exists => ran[d].tally <= Cardinality(summary[d]))
    BY <1>1, <1>9, <2>1 DEF StoredHolds
  <2> QED
    BY <1>0, <2>1 DEF StoredHolds
<1>23. RetentionsHold'
  BY <1>1, <1>16 DEF RetentionsHold
<1>24. BuildsHold'
  BY <1>1, <1>19 DEF BuildsHold
<1>25. BuildersApart'
  BY <1>1 DEF BuildersApart
<1> QED
  BY <1>20, <1>21, <1>22, <1>23, <1>24, <1>25 DEF HistoryInv

-----------------------------------------------------------------------------
(* Days that are replaced, and events that are deleted.                     *)

LEMMA ReplaceDayHolds ==
  ASSUME HistoryAssumption, HistoryInv, NEW j \in Jobs, ReplaceDay(j)
  PROVE  HistoryInv'
<1>1. HistoryShape /\ GoneHolds /\ StoredHolds /\ RetentionsHold /\ BuildsHold /\ BuildersApart
  BY DEF HistoryInv
<1>2. PICK x \in JobStates : job[j] = x /\ x.step = "build"
  <2>1. Doing(j, "build")
    BY DEF ReplaceDay
  <2> QED
    BY <1>1, <2>1, AtWork
<1> DEFINE d == Min(x.todo)
           z == [x EXCEPT !.step = "roll", !.todo = x.todo \ {d}]
           new == [tally |-> x.tally, exists |-> TRUE]
<1>3. /\ summary' = [summary EXCEPT ![d] = RowsOf(d)]
      /\ ran' = [ran EXCEPT ![d] = new]
      /\ job' = [job EXCEPT ![j] = z]
  BY <1>2 DEF ReplaceDay, DaysLeft, Today, Aggregated
<1>4. spoiled' = spoiled \cup {day \in {d} : x.kind = "rollup" /\ \E e \in gone : DayOf(logged[e].at) = day}
  BY <1>2 DEF ReplaceDay, Today
<1>5. now' = now /\ logged' = logged /\ gone' = gone
  BY DEF ReplaceDay
<1>6. BuildHolds(x, d) /\ RetentionHolds(x)
  BY <1>1, <1>2 DEF BuildsHold, RetentionsHold
<1>7. d \in x.todo /\ d \in Days
  <2>1. x.todo # {}
    BY <1>6 DEF BuildHolds
  <2> QED
    BY <2>1, TodayIn
<1>8. /\ IsFiniteSet(Whole(d)) /\ Cardinality(Whole(d)) \in Nat
      /\ RowsOf(d) \subseteq Whole(d) /\ Cardinality(RowsOf(d)) \in Nat
      /\ Cardinality(RowsOf(d)) <= Cardinality(Whole(d))
      /\ Untouched(d) => RowsOf(d) = Whole(d)
  BY RowsOfDay
<1> HIDE DEF d
<1>9. /\ z \in JobStates /\ z.step = "roll" /\ z.kind = x.kind /\ z.cutoff = x.cutoff
      /\ z.todo = x.todo \ {d} /\ z.skipped = x.skipped
  BY <1>2 DEF JobStates
<1>10. new \in [tally : Nat, exists : BOOLEAN] /\ new.tally = x.tally /\ new.exists
  BY DEF JobStates
<1> HIDE DEF z, new
<1>11. /\ summary'[d] = RowsOf(d) /\ ran'[d] = new
       /\ \A day \in Days : day # d => summary'[day] = summary[day] /\ ran'[day] = ran[day]
       /\ summary' \in [Days -> SUBSET AuditEvents] /\ ran' \in [Days -> [tally : Nat, exists : BOOLEAN]]
  <2>1. RowsOf(d) \in SUBSET AuditEvents
    BY DEF RowsOf, Rows
  <2>2. summary \in [Days -> SUBSET AuditEvents] /\ ran \in [Days -> [tally : Nat, exists : BOOLEAN]]
    BY <1>1 DEF HistoryShape
  <2> QED
    BY <1>3, <1>7, <1>10, <2>1, <2>2
<1>12. \A k \in Jobs : job'[k] = IF k = j THEN z ELSE job[k]
  BY <1>1, <1>3 DEF HistoryShape
<1>13. job' \in [Jobs -> {Idle} \cup JobStates]
  BY <1>1, <1>3, <1>9 DEF HistoryShape
<1>14. /\ \A day : Whole(day)' = Whole(day) /\ Untouched(day)' = Untouched(day)
       /\ \A cutoff : Expired(cutoff)' = Expired(cutoff)
  BY <1>5, SameRows
<1>15. \A day : Over(day)' = Over(day)
  BY <1>5 DEF Over, DayOf
<1>16. \A day \in Days : day # d => KeptWhole(day)' = KeptWhole(day)
  BY <1>11, <1>14 DEF KeptWhole
<1>17. \A day \in Days : \A n : day # d => Fuller(day, n)' = Fuller(day, n)
  BY <1>11 DEF Fuller
<1>18. \A y \in JobStates : \A day : Relies(y, day)' = Relies(y, day)
  BY <1>5, <1>14 DEF Relies, DayOf
<1>19. spoiled \subseteq spoiled'
  BY <1>4
<1>20. x.kind = "rollup" /\ ~Untouched(d) => d \in spoiled'
  BY <1>4 DEF Untouched
<1>21. d \in spoiled' \/ (Untouched(d) /\ Counted(x, d))
  BY <1>6, <1>19, <1>20 DEF BuildHolds
<1>22. Untouched(d) /\ x.tally = Cardinality(Whole(d)) => KeptWhole(d)'
  <2> SUFFICES ASSUME Untouched(d), x.tally = Cardinality(Whole(d)) PROVE KeptWhole(d)'
    OBVIOUS
  <2>1. summary'[d] = Whole(d) /\ ran'[d].exists /\ ran'[d].tally = Cardinality(Whole(d))
    BY <1>8, <1>10, <1>11
  <2> QED
    BY <1>8, <1>14, <2>1 DEF KeptWhole
<1>23. \/ d \in spoiled' \/ KeptWhole(d)'
       \/ x.kind = "rollup" /\ Unrelied(d)
  BY <1>21, <1>22 DEF Counted
<1>24. HistoryShape'
  BY <1>1, <1>5, <1>11, <1>13 DEF HistoryShape
<1>25. GoneHolds'
  <2>1. ASSUME NEW e \in gone, NEW day \in Days, DayOf(logged[e].at) = day
        PROVE  Over(day) /\ (day \in spoiled' \/ KeptWhole(day)')
    <3>1. Over(day) /\ (day \in spoiled \/ KeptWhole(day))
      BY <1>1, <2>1 DEF GoneHolds
    <3>2. CASE day = d
      <4>1. ~Untouched(d)
        BY <2>1, <3>2 DEF Untouched
      <4> QED
        BY <1>21, <3>1, <3>2, <4>1
    <3>3. CASE day # d
      BY <1>16, <1>19, <3>1, <3>3
    <3> QED
      BY <3>2, <3>3
  <2>2. \A e \in gone : logged[e].class # "unwritten"
    BY <1>1 DEF GoneHolds
  <2> QED
    BY <1>5, <1>15, <2>1, <2>2 DEF GoneHolds, DayOf
<1>26. StoredHolds'
  <2>1. ASSUME NEW day \in Days, day \notin spoiled'
        PROVE  /\ summary'[day] \subseteq Whole(day)
               /\ ran'[day].exists => ran'[day].tally <= Cardinality(summary'[day])
    <3>1. CASE day = d
      <4>1. Untouched(d) /\ RowsOf(d) = Whole(d) /\ x.tally <= Cardinality(Whole(d))
        BY <1>6, <1>8, <1>21, <2>1, <3>1 DEF BuildHolds
      <4> QED
        BY <1>10, <1>11, <3>1, <4>1
    <3>2. CASE day # d
      BY <1>1, <1>11, <1>19, <2>1, <3>2 DEF StoredHolds
    <3> QED
      BY <3>1, <3>2
  <2> QED
    BY <1>14, <2>1 DEF StoredHolds
<1>27. RetentionsHold'
  <2>1. ASSUME NEW k \in Jobs, NEW y \in JobStates, job'[k] = y PROVE RetentionHolds(y)'
    <3>1. PICK w \in JobStates :
            /\ job[k] = w /\ w.kind = y.kind /\ w.cutoff = y.cutoff /\ w.skipped = y.skipped
            /\ y.todo \subseteq w.todo
            /\ y.step \in {"delete", "audit"} => w.step = y.step
            /\ k = j => w = x
            /\ \A day \in w.todo : day # d => day \in y.todo
      <4>1. CASE k = j
        BY <1>2, <1>9, <1>12, <2>1, <4>1
      <4>2. CASE k # j
        BY <1>12, <2>1, <4>2
      <4> QED
        BY <4>1, <4>2
    <3>2. RetentionHolds(w)
      BY <1>1, <3>1 DEF RetentionsHold
    <3>3. y.step \in {"delete", "audit"} => y.kind = "retention" /\ y.todo = {}
      BY <3>1, <3>2 DEF RetentionHolds
    <3>4. ASSUME y.kind = "retention"
          PROVE  /\ y.cutoff + Retained <= now'
                 /\ \A day \in y.todo : Over(day)'
                 /\ \A e \in Expired(y.cutoff)' : \A day \in Days :
                      DayOf(logged'[e].at) = day =>
                        day \in y.todo \cup y.skipped \cup spoiled' \/ KeptWhole(day)'
      <4>1. y.cutoff + Retained <= now'
        BY <1>5, <3>1, <3>2, <3>4 DEF RetentionHolds
      <4>2. \A day \in y.todo : Over(day)'
        BY <1>15, <3>1, <3>2, <3>4 DEF RetentionHolds
      <4>3. ASSUME NEW e \in Expired(y.cutoff), NEW day \in Days, DayOf(logged[e].at) = day
            PROVE  day \in y.todo \cup y.skipped \cup spoiled' \/ KeptWhole(day)'
        <5>1. day \in w.todo \cup w.skipped \cup spoiled \/ KeptWhole(day)
          BY <3>1, <3>2, <3>4, <4>3 DEF RetentionHolds
        <5>2. CASE day # d
          BY <1>16, <1>19, <3>1, <5>1, <5>2
        <5>3. CASE day = d
          <6>1. SUFFICES ASSUME x.kind = "rollup", Unrelied(d)
                         PROVE  day \in y.todo \cup y.skipped
            BY <1>23, <5>3
          <6>2. ~Relies(w, d) /\ k # j
            BY <3>1, <3>4, <6>1 DEF Unrelied
          <6>3. d \in w.todo \/ d \in w.skipped
            BY <3>1, <3>4, <4>3, <5>3, <6>2 DEF Relies
          <6>4. w = y
            BY <1>12, <2>1, <3>1, <6>2
          <6> QED
            BY <5>3, <6>3, <6>4
        <5> QED
          BY <5>2, <5>3
      <4> QED
        BY <1>5, <1>14, <4>1, <4>2, <4>3
    <3> QED
      BY <3>3, <3>4 DEF RetentionHolds, DayOf
  <2> QED
    BY <2>1 DEF RetentionsHold
<1>28. ASSUME NEW k \in Jobs, NEW y \in JobStates, job'[k] = y, y.step = "build"
       PROVE  k # j /\ job[k] = y
  BY <1>9, <1>12, <1>28
<1>29. BuildsHold'
  <2>1. ASSUME NEW k \in Jobs, NEW y \in JobStates, job'[k] = y, y.step = "build"
        PROVE  BuildHolds(y, Min(y.todo))'
    <3>1. k # j /\ job[k] = y
      BY <1>28, <2>1
    <3>2. Min(y.todo) # d
      BY <1>1, <1>2, <2>1, <3>1 DEF BuildersApart, d
    <3>3. BuildHolds(y, Min(y.todo))
      BY <1>1, <2>1, <3>1 DEF BuildsHold
    <3>4. PICK day : day = Min(y.todo)
      OBVIOUS
    <3>5. day # d /\ BuildHolds(y, day)
      BY <3>2, <3>3, <3>4
    <3>6. day \in Days
      BY <3>5 DEF BuildHolds, JobStates
    <3>7. ASSUME Unrelied(day) PROVE Unrelied(day)'
      <4>1. ASSUME NEW l \in Jobs, NEW v \in JobStates, job'[l] = v PROVE ~Relies(v, day)
        <5>1. CASE l = j
          <6>1. v = z
            BY <1>12, <4>1, <5>1
          <6>2. ~Relies(x, day)
            BY <1>2, <3>7 DEF Unrelied
          <6> QED
            BY <1>9, <3>5, <6>1, <6>2 DEF Relies
        <5>2. CASE l # j
          BY <1>12, <3>7, <4>1, <5>2 DEF Unrelied
        <5> QED
          BY <5>1, <5>2
      <4> QED
        BY <1>18, <4>1 DEF Unrelied
    <3>8. Counted(y, day) => Counted(y, day)'
      BY <1>14, <1>17, <3>5, <3>6, <3>7 DEF Counted
    <3>9. BuildHolds(y, day)'
      BY <1>14, <1>19, <3>5, <3>8 DEF BuildHolds
    <3> QED
      BY <3>4, <3>9
  <2> QED
    BY <2>1 DEF BuildsHold
<1>30. BuildersApart'
  BY <1>1, <1>28 DEF BuildersApart
<1> QED
  BY <1>24, <1>25, <1>26, <1>27, <1>29, <1>30 DEF HistoryInv

LEMMA DeleteBatchHolds ==
  ASSUME HistoryAssumption, HistoryInv, NEW j \in Jobs, DeleteBatch(j)
  PROVE  HistoryInv'
<1>1. HistoryShape /\ GoneHolds /\ StoredHolds /\ RetentionsHold /\ BuildsHold /\ BuildersApart
  BY DEF HistoryInv
<1>2. PICK x \in JobStates : job[j] = x /\ x.step = "delete"
  <2>1. Doing(j, "delete")
    BY DEF DeleteBatch
  <2> QED
    BY <1>1, <2>1, AtWork
<1>3. now' = now /\ logged' = logged /\ summary' = summary /\ ran' = ran
  BY DEF DeleteBatch
<1>4. CASE fence
  <2>1. job' = [job EXCEPT ![j] = Idle] /\ gone' = gone /\ spoiled' = spoiled
    BY <1>4 DEF DeleteBatch
  <2> QED
    BY <1>3, <2>1, JobDiesHolds
<1>5. CASE ~fence
  <2> DEFINE old == Expired(x.cutoff)
             z(s) == [x EXCEPT !.step = s]
  <2>1. PICK batch \in SUBSET old :
          /\ gone' = gone \cup batch
          /\ spoiled' = spoiled \cup ({DayOf(logged[e].at) : e \in batch} \cap x.skipped)
          /\ job' = [job EXCEPT ![j] = z(IF batch = {} THEN "audit" ELSE "delete")]
    BY <1>2, <1>5 DEF DeleteBatch
  <2>2. PICK step \in {"audit", "delete"} : job' = [job EXCEPT ![j] = z(step)]
    BY <2>1
  <2> DEFINE w == z(step)
  <2>3. /\ w \in JobStates /\ w.step = step /\ w.kind = x.kind /\ w.cutoff = x.cutoff
        /\ w.todo = x.todo /\ w.skipped = x.skipped
    BY DEF JobStates
  <2>4. job' = [job EXCEPT ![j] = w]
    BY <2>2
  <2> HIDE DEF z, w, old
  <2>5. RetentionHolds(x)
    BY <1>1, <1>2 DEF RetentionsHold
  <2>6. x.kind = "retention" /\ x.todo = {} /\ x.cutoff + Retained <= now /\ x.cutoff \in Nat
    BY <1>2, <2>5 DEF RetentionHolds, JobStates
  <2>7. \A k \in Jobs : job'[k] = IF k = j THEN w ELSE job[k]
    BY <1>1, <2>4 DEF HistoryShape
  <2>8. job' \in [Jobs -> {Idle} \cup JobStates]
    BY <1>1, <2>3, <2>4 DEF HistoryShape
  <2>9. ASSUME NEW e \in batch
        PROVE  /\ e \in AuditEvents /\ logged[e].class # "unwritten"
               /\ DayOf(logged[e].at) \in Days
               /\ \A d \in Days : DayOf(logged[e].at) = d => Over(d) /\ (d \in spoiled' \/ KeptWhole(d))
    <3>1. e \in Expired(x.cutoff)
      BY DEF old
    <3>2. /\ e \in AuditEvents /\ logged[e].class = "detailed" /\ logged[e].at < x.cutoff
      BY <3>1 DEF Expired, Rows
    <3>3. logged[e].at \in Times /\ DayOf(logged[e].at) \in Days /\ DayOf(logged[e].at) \in Nat
      BY <1>1, <3>2, DayOfEvent
    <3>4. ASSUME NEW d \in Days, DayOf(logged[e].at) = d
          PROVE  Over(d) /\ (d \in spoiled' \/ KeptWhole(d))
      <4>1. d \in Nat /\ d <= DayOf(logged[e].at) /\ now \in Nat
        BY <1>1, <3>3, <3>4 DEF HistoryShape
      <4>2. Over(d)
        BY <2>6, <3>2, <3>3, <4>1, ExpiredOver
      <4>3. d \in x.todo \cup x.skipped \cup spoiled \/ KeptWhole(d)
        BY <2>5, <2>6, <3>1, <3>4 DEF RetentionHolds
      <4>4. d \in x.skipped => d \in spoiled'
        BY <2>1, <3>4
      <4> QED
        BY <2>1, <2>6, <4>2, <4>3, <4>4
    <3> QED
      BY <3>2, <3>3, <3>4
  <2>10. spoiled \subseteq spoiled' /\ gone \subseteq gone' /\ gone' \subseteq AuditEvents
    BY <1>1, <2>1, <2>9 DEF HistoryShape
  <2>11. \A d : Whole(d)' = Whole(d) /\ Over(d)' = Over(d)
    BY <1>3 DEF Whole, Over, DayOf
  <2>12. \A d : KeptWhole(d)' = KeptWhole(d)
    BY <1>3, <2>11 DEF KeptWhole
  <2>13. \A d, n : Fuller(d, n)' = Fuller(d, n)
    BY <1>3 DEF Fuller
  <2>14. \A cutoff : Expired(cutoff)' \subseteq Expired(cutoff)
    BY <1>3, <2>10 DEF Expired, Rows
  <2>15. \A y \in JobStates : \A d : Relies(y, d)' => Relies(y, d)
    BY <1>3, <2>14 DEF Relies, DayOf
  <2>16. \A d : Unrelied(d) => Unrelied(d)'
    <3>1. ASSUME NEW d, Unrelied(d), NEW l \in Jobs, NEW v \in JobStates, job'[l] = v
          PROVE  ~Relies(v, d)'
      <4>1. CASE l = j
        <5>1. v = w /\ ~Relies(x, d)
          BY <1>2, <2>7, <3>1, <4>1 DEF Unrelied
        <5>2. ~Relies(v, d)
          BY <2>3, <5>1 DEF Relies
        <5> QED
          BY <2>15, <5>2
      <4>2. CASE l # j
        BY <2>7, <2>15, <3>1, <4>2 DEF Unrelied
      <4> QED
        BY <4>1, <4>2
    <3> QED
      BY <3>1 DEF Unrelied
  <2>17. ASSUME NEW y \in JobStates, RetentionHolds(y) PROVE RetentionHolds(y)'
    <3>1. y.step \in {"delete", "audit"} => y.kind = "retention" /\ y.todo = {}
      BY <2>17 DEF RetentionHolds
    <3>2. ASSUME y.kind = "retention"
          PROVE  /\ y.cutoff + Retained <= now'
                 /\ \A d \in y.todo : Over(d)'
                 /\ \A e \in Expired(y.cutoff)' : \A d \in Days :
                      DayOf(logged'[e].at) = d =>
                        d \in y.todo \cup y.skipped \cup spoiled' \/ KeptWhole(d)'
      BY <1>3, <2>10, <2>11, <2>12, <2>14, <2>17, <3>2 DEF RetentionHolds
    <3> QED
      BY <3>1, <3>2 DEF RetentionHolds, DayOf
  <2>18. HistoryShape'
    BY <1>1, <1>3, <2>8, <2>10 DEF HistoryShape
  <2>19. GoneHolds'
    <3>1. ASSUME NEW e \in gone' PROVE logged[e].class # "unwritten"
      BY <1>1, <2>1, <2>9 DEF GoneHolds
    <3>2. ASSUME NEW e \in gone', NEW d \in Days, DayOf(logged[e].at) = d
          PROVE  Over(d) /\ (d \in spoiled' \/ KeptWhole(d))
      <4>1. CASE e \in gone
        BY <1>1, <2>10, <3>2, <4>1 DEF GoneHolds
      <4>2. CASE e \in batch
        BY <2>9, <3>2, <4>2
      <4> QED
        BY <2>1, <4>1, <4>2
    <3> QED
      BY <1>3, <2>11, <2>12, <3>1, <3>2 DEF GoneHolds, DayOf
  <2>20. StoredHolds'
    BY <1>1, <1>3, <2>10, <2>11 DEF StoredHolds
  <2>21. RetentionsHold'
    <3>1. ASSUME NEW k \in Jobs, NEW y \in JobStates, job'[k] = y PROVE RetentionHolds(y)
      <4>1. CASE k = j
        <5>1. y = w
          BY <2>7, <3>1, <4>1
        <5>2. RetentionHolds(w)
          BY <2>3, <2>5, <2>6 DEF RetentionHolds
        <5> QED
          BY <5>1, <5>2
      <4>2. CASE k # j
        BY <1>1, <2>7, <3>1, <4>2 DEF RetentionsHold
      <4> QED
        BY <4>1, <4>2
    <3> QED
      BY <2>17, <3>1 DEF RetentionsHold
  <2>22. ASSUME NEW k \in Jobs, NEW y \in JobStates, job'[k] = y, y.step = "build"
         PROVE  k # j /\ job[k] = y
    BY <2>3, <2>7, <2>22
  <2>23. ASSUME NEW y \in JobStates, NEW d \in Days, BuildHolds(y, d) PROVE BuildHolds(y, d)'
    <3>1. d \in y.todo /\ y.tally <= Cardinality(Whole(d)) /\ y.tally \in Nat
          /\ y.kind \in {"rollup", "retention"}
      BY <2>23 DEF BuildHolds, JobStates
    <3>2. ~Untouched(d) => ~Untouched(d)'
      BY <1>3, <2>10 DEF Untouched, DayOf
    <3>3. CASE d \in spoiled \/ (y.kind = "rollup" /\ ~Untouched(d))
      BY <2>10, <2>11, <3>1, <3>2, <3>3 DEF BuildHolds
    <3>4. CASE Untouched(d) /\ Counted(y, d) /\ \E e \in batch : DayOf(logged[e].at) = d
      <4>1. d \in spoiled' \/ KeptWhole(d)
        BY <2>9, <3>4
      <4>2. ~Untouched(d)'
        BY <1>3, <2>1, <3>4 DEF Untouched, DayOf
      <4>3. y.kind = "retention" => ~KeptWhole(d)
        BY <3>4 DEF Counted, KeptWhole, Fuller
      <4> QED
        BY <2>11, <3>1, <4>1, <4>2, <4>3 DEF BuildHolds
    <3>5. CASE Untouched(d) /\ Counted(y, d) /\ ~\E e \in batch : DayOf(logged[e].at) = d
      <4>1. Untouched(d)'
        BY <1>3, <2>1, <3>5 DEF Untouched, DayOf
      <4>2. Counted(y, d)'
        BY <2>11, <2>13, <2>16, <3>5 DEF Counted
      <4> QED
        BY <2>11, <3>1, <4>1, <4>2 DEF BuildHolds
    <3> QED
      BY <2>23, <3>3, <3>4, <3>5 DEF BuildHolds
  <2>24. BuildsHold'
    <3>1. ASSUME NEW k \in Jobs, NEW y \in JobStates, job'[k] = y, y.step = "build"
          PROVE  BuildHolds(y, Min(y.todo))'
      <4>1. BuildHolds(y, Min(y.todo))
        BY <1>1, <2>22, <3>1 DEF BuildsHold
      <4>2. Min(y.todo) \in Days
        BY <4>1 DEF BuildHolds, JobStates
      <4> QED
        BY <2>23, <4>1, <4>2
    <3> QED
      BY <3>1 DEF BuildsHold
  <2>25. BuildersApart'
    BY <1>1, <2>22 DEF BuildersApart
  <2> QED
    BY <2>18, <2>19, <2>20, <2>21, <2>24, <2>25 DEF HistoryInv
<1> QED
  BY <1>4, <1>5

LEMMA HistoryStepHolds == ASSUME HistoryAssumption, HistoryInv, HistoryNext PROVE HistoryInv'
<1>1. CASE Tick
  <2>1. now' = now + 1 /\ UNCHANGED <<logged, gone, summary, ran, job, spoiled>>
    BY <1>1 DEF Tick
  <2> QED
    BY <2>1, TickHolds
<1>2. CASE WriteAuditEvent
  <2>1. PICK class \in {"permanent", "detailed"} : LogEvent(class)
    BY <1>2, Zenon DEF WriteAuditEvent
  <2>2. UNCHANGED <<now, gone, summary, ran, job, spoiled>>
    BY <1>2 DEF WriteAuditEvent
  <2>3. job' \in [Jobs -> {Idle} \cup JobStates] /\ \A k \in Jobs, y \in JobStates : job'[k] = y => job[k] = y
    BY <2>2 DEF HistoryInv, HistoryShape
  <2> QED
    BY <2>1, <2>2, <2>3, EventHolds
<1>3. CASE ChangeFence
  <2>1. UNCHANGED <<now, logged, gone, summary, ran, job, spoiled>>
    BY <1>3 DEF ChangeFence
  <2> QED
    BY <2>1, HistoryStill
<1>4. ASSUME NEW j \in Jobs, AuditRetention(j) PROVE HistoryInv'
  <2>1. UNCHANGED <<now, gone, summary, ran, spoiled>> /\ job' = [job EXCEPT ![j] = Idle]
    BY <1>4 DEF AuditRetention
  <2>2. CASE LogEvent("permanent")
    <3>1. job' \in [Jobs -> {Idle} \cup JobStates]
      BY <2>1 DEF HistoryInv, HistoryShape
    <3>2. \A y \in JobStates : y # Idle
      BY DEF Idle, JobStates
    <3>3. \A k \in Jobs, y \in JobStates : job'[k] = y => job[k] = y
      BY <2>1, <3>2 DEF HistoryInv, HistoryShape
    <3> QED
      BY <2>1, <2>2, <3>1, <3>3, EventHolds
  <2>3. CASE UNCHANGED logged
    BY <2>1, <2>3, JobDiesHolds
  <2> QED
    BY <1>4, <2>2, <2>3 DEF AuditRetention
<1>5. ASSUME NEW j \in Jobs, JobDies(j) PROVE HistoryInv'
  <2>1. UNCHANGED <<now, logged, gone, summary, ran, spoiled>> /\ job' = [job EXCEPT ![j] = Idle]
    BY <1>5 DEF JobDies
  <2> QED
    BY <2>1, JobDiesHolds
<1>6. ASSUME NEW j \in Jobs,
             \/ StartRetention(j) \/ \E d \in Days : StartRollup(j, d)
             \/ SkipDay(j) \/ CountRows(j) \/ ReplaceDay(j) \/ EndRollups(j)
             \/ DeleteBatch(j) \/ AuditRetention(j) \/ JobDies(j)
      PROVE  HistoryInv'
  BY <1>4, <1>5, <1>6, StartRetentionHolds, StartRollupHolds, SkipDayHolds, CountRowsHolds,
     ReplaceDayHolds, EndRollupsHolds, DeleteBatchHolds
<1> QED
  BY <1>1, <1>2, <1>3, <1>6, Zenon DEF HistoryNext

\* What is deleted, stored, counted and still to do of each day fits together (HistoryInv), for
\* any events, commands, days' length and retention that outlasts a day and a late commit.
THEOREM DaysAccountedFor == HistorySpec => []HistoryInv
<1>1. HistoryInit => HistoryInv
  BY HistoryInitHolds, HistoryAssumption
<1>2. HistoryInv /\ [HistoryNext]_historyVars => HistoryInv'
  <2>1. HistoryInv /\ HistoryNext => HistoryInv'
    BY HistoryStepHolds, HistoryAssumption
  <2>2. HistoryInv /\ UNCHANGED historyVars => HistoryInv'
    BY HistoryStill DEF historyVars
  <2> QED
    BY <2>1, <2>2
<1> QED
  BY <1>1, <1>2, PTL DEF HistorySpec

\* Aggregate counts survive expiry: a deleted event is part of its day's stored aggregates,
\* whatever commands overlap, die and are run again, and however late, within Late, events
\* commit; but for the days of which a run deleted what it had passed over, or that were
\* recomputed when something of them was gone (rollups.ts:285-317, retention.ts:78-131).
THEOREM CountsSurvive == HistorySpec => []HistorySurvives
<1>1. HistoryInv => HistorySurvives
  <2> SUFFICES ASSUME HistoryInv, NEW e \in gone, DayOf(logged[e].at) \notin spoiled
               PROVE  e \in summary[DayOf(logged[e].at)]
    BY DEF HistorySurvives
  <2> DEFINE d == DayOf(logged[e].at)
  <2>1. e \in AuditEvents /\ logged[e].class # "unwritten"
    BY DEF HistoryInv, HistoryShape, GoneHolds
  <2>2. d \in Days
    BY <2>1, DayOfEvent, HistoryAssumption DEF HistoryInv
  <2>3. KeptWhole(d)
    BY <2>2 DEF HistoryInv, GoneHolds
  <2>4. e \in Whole(d)
    BY <2>1 DEF Whole
  <2> QED
    BY <2>3, <2>4 DEF KeptWhole
<1> QED
  BY <1>1, DaysAccountedFor, PTL

\* The types, with the bounds.
JobBounded(x) == x # Idle => x.cutoff <= MaxTime /\ x.tally <= Cardinality(AuditEvents)
HistoryTyped ==
  /\ HistoryInv
  /\ now <= MaxTime /\ fence \in BOOLEAN /\ spoiled \subseteq Days
  /\ left \in [commands : 0..MaxCommands, fences : 0..MaxFences]
  /\ \A d \in Days : ran[d].tally <= Cardinality(AuditEvents)
  /\ \A j \in Jobs : JobBounded(job[j])

LEMMA HistoryTypes == ASSUME HistoryAssumption, HistoryTyped PROVE HistoryTypeOK
<1>1. Cardinality(AuditEvents) \in Nat /\ MaxTime \in Nat
  BY FS_CardinalityType DEF HistoryAssumption
<1>2. HistoryShape
  BY DEF HistoryTyped, HistoryInv
<1>3. now \in Times
  BY <1>1, <1>2 DEF HistoryTyped, HistoryShape, Times
<1>4. ran \in [Days -> [tally : 0..Cardinality(AuditEvents), exists : BOOLEAN]]
  <2>1. ASSUME NEW d \in Days PROVE ran[d] \in [tally : 0..Cardinality(AuditEvents), exists : BOOLEAN]
    <3>1. ran[d] \in [tally : Nat, exists : BOOLEAN] /\ ran[d].tally <= Cardinality(AuditEvents)
      BY <1>2 DEF HistoryTyped, HistoryShape
    <3>. QED  BY <1>1, <3>1
  <2>. QED  BY <1>2, <2>1 DEF HistoryShape
<1>5. job \in [Jobs -> {Idle} \cup
       [step : {"roll", "build", "delete", "audit"}, kind : {"rollup", "retention"},
        todo : SUBSET Days, cutoff : Times, tally : 0..Cardinality(AuditEvents),
        skipped : SUBSET Days]]
  <2>1. ASSUME NEW j \in Jobs, job[j] # Idle
        PROVE  job[j] \in [step : {"roll", "build", "delete", "audit"}, kind : {"rollup", "retention"},
                 todo : SUBSET Days, cutoff : Times, tally : 0..Cardinality(AuditEvents),
                 skipped : SUBSET Days]
    <3>1. job[j] \in JobStates
      BY <1>2, <2>1 DEF HistoryShape
    <3>2. job[j].cutoff <= MaxTime /\ job[j].tally <= Cardinality(AuditEvents)
      BY <2>1 DEF HistoryTyped, JobBounded
    <3>. QED  BY <1>1, <3>1, <3>2 DEF JobStates, Times
  <2>. QED  BY <1>2, <2>1 DEF HistoryShape
<1>. QED  BY <1>2, <1>3, <1>4, <1>5 DEF HistoryTyped, HistoryTypeOK, HistoryShape

\* One command goes to a bounded state.
LEMMA OneJobTyped ==
  ASSUME HistoryTyped, HistoryInv', UNCHANGED <<now, ran, fence>>, NEW j \in Jobs, NEW z,
         job' = [job EXCEPT ![j] = z], JobBounded(z),
         spoiled' \subseteq Days, left' \in [commands : 0..MaxCommands, fences : 0..MaxFences]
  PROVE  HistoryTyped'
<1>1. \A k \in Jobs : JobBounded(job'[k])
  BY DEF HistoryTyped, HistoryInv, HistoryShape
<1>. QED  BY <1>1 DEF HistoryTyped, JobBounded

\* A command that starts uses up one.
LEMMA StartTyped ==
  ASSUME HistoryAssumption, HistoryTyped, NEW j \in Jobs, Start(j)
  PROVE  left' \in [commands : 0..MaxCommands, fences : 0..MaxFences]
BY DEF HistoryTyped, HistoryAssumption, Start

LEMMA HistoryStepTyped == ASSUME HistoryAssumption, HistoryTyped, HistoryNext PROVE HistoryTyped'
<1>0. /\ HistoryInv' /\ HistoryShape /\ HistoryShape' /\ HistoryInv
      /\ Cardinality(AuditEvents) \in Nat /\ MaxTime \in Nat
      /\ now \in Nat /\ now <= MaxTime /\ spoiled \subseteq Days
      /\ left \in [commands : 0..MaxCommands, fences : 0..MaxFences]
  BY HistoryStepHolds, FS_CardinalityType DEF HistoryTyped, HistoryInv, HistoryShape, HistoryAssumption
<1>1. CASE Tick
  BY <1>0, <1>1 DEF Tick, HistoryTyped, JobBounded
<1>2. CASE WriteAuditEvent
  BY <1>0, <1>2 DEF WriteAuditEvent, HistoryTyped, JobBounded
<1>3. CASE ChangeFence
  <2>1. left' = [left EXCEPT !.fences = @ - 1] /\ left.fences > 0
    BY <1>3 DEF ChangeFence
  <2>2. left' \in [commands : 0..MaxCommands, fences : 0..MaxFences]
    BY <1>0, <2>1 DEF HistoryAssumption
  <2>. QED  BY <1>0, <1>3, <2>2 DEF ChangeFence, HistoryTyped, JobBounded
<1>4. ASSUME NEW j \in Jobs, job[j] # Idle
      PROVE  job[j] \in JobStates /\ job[j].cutoff <= MaxTime /\ job[j].tally <= Cardinality(AuditEvents)
  BY <1>0, <1>4 DEF HistoryShape, HistoryTyped, JobBounded
<1>5. ASSUME NEW j \in Jobs, NEW step, step # "resting", Doing(j, step) PROVE job[j] # Idle
  BY <1>5 DEF Doing, Idle
<1>6. ASSUME NEW j \in Jobs, NEW d \in Days, StartRollup(j, d) PROVE HistoryTyped'
  <2> DEFINE z == [step |-> "roll", kind |-> "rollup", todo |-> {d}, cutoff |-> 0, tally |-> 0,
                   skipped |-> {}]
  <2>1. JobBounded(z)
    BY <1>0 DEF JobBounded
  <2>2. UNCHANGED <<now, ran, fence, spoiled>> /\ job' = [job EXCEPT ![j] = z] /\ Start(j)
    BY <1>6 DEF StartRollup
  <2> HIDE DEF z
  <2>. QED  BY <1>0, <2>1, <2>2, StartTyped, OneJobTyped
<1>7. ASSUME NEW j \in Jobs, StartRetention(j) PROVE HistoryTyped'
  <2>1. PICK todo : job' = [job EXCEPT ![j] =
            [step |-> "roll", kind |-> "retention", todo |-> todo,
             cutoff |-> now - Retained, tally |-> 0, skipped |-> {}]]
    BY <1>7 DEF StartRetention
  <2> DEFINE z == [step |-> "roll", kind |-> "retention", todo |-> todo,
                   cutoff |-> now - Retained, tally |-> 0, skipped |-> {}]
  <2>2. JobBounded(z)
    BY <1>0 DEF JobBounded, HistoryAssumption
  <2>3. UNCHANGED <<now, ran, fence, spoiled>> /\ job' = [job EXCEPT ![j] = z] /\ Start(j)
    BY <1>7, <2>1 DEF StartRetention
  <2> HIDE DEF z
  <2>. QED  BY <1>0, <2>2, <2>3, StartTyped, OneJobTyped
<1>8. ASSUME NEW j \in Jobs, SkipDay(j) PROVE HistoryTyped'
  <2>1. job[j] # Idle
    BY <1>5, <1>8 DEF SkipDay
  <2> DEFINE z == [job[j] EXCEPT !.todo = DaysLeft(j), !.skipped = job[j].skipped \cup {Today(j)}]
  <2>2. JobBounded(z)
    BY <1>4, <2>1 DEF JobBounded, JobStates
  <2>3. UNCHANGED <<now, ran, fence, spoiled, left>> /\ job' = [job EXCEPT ![j] = z]
    BY <1>8 DEF SkipDay
  <2> HIDE DEF z
  <2>. QED  BY <1>0, <2>2, <2>3, OneJobTyped
<1>9. ASSUME NEW j \in Jobs, CountRows(j) PROVE HistoryTyped'
  <2> DEFINE found == Cardinality(RowsOf(Today(j)))
  <2>1. job[j] # Idle
    BY <1>5, <1>9 DEF CountRows
  <2>2. found <= Cardinality(AuditEvents)
    <3>1. RowsOf(Today(j)) \in SUBSET AuditEvents /\ IsFiniteSet(AuditEvents)
      BY DEF RowsOf, Rows, HistoryAssumption
    <3>. QED  BY <3>1, FS_Subset
  <2>3. PICK z : /\ job' = [job EXCEPT ![j] = z]
                 /\ \/ z = [job[j] EXCEPT !.todo = DaysLeft(j)]
                    \/ z = [job[j] EXCEPT !.step = "build", !.tally = found]
    BY <1>9 DEF CountRows
  <2>4. JobBounded(z)
    BY <1>4, <2>1, <2>2, <2>3 DEF JobBounded, JobStates
  <2>5. UNCHANGED <<now, ran, fence, spoiled, left>>
    BY <1>9 DEF CountRows
  <2>. QED  BY <1>0, <2>3, <2>4, <2>5, OneJobTyped
<1>10. ASSUME NEW j \in Jobs, ReplaceDay(j) PROVE HistoryTyped'
  <2> DEFINE d == Today(j)
             z == [job[j] EXCEPT !.step = "roll", !.todo = DaysLeft(j)]
  <2>1. job[j] # Idle /\ job[j].step = "build"
    BY <1>5, <1>10 DEF ReplaceDay, Doing
  <2>2. job[j] \in JobStates /\ job[j].tally <= Cardinality(AuditEvents)
    BY <1>4, <2>1
  <2>3. d \in Days
    <3>1. BuildHolds(job[j], Min(job[j].todo))
      BY <1>0, <2>1, <2>2 DEF HistoryInv, BuildsHold
    <3>. QED  BY <2>2, <3>1, TodayIn DEF BuildHolds, Today
  <2>4. JobBounded(z)
    BY <1>4, <2>1, <2>2 DEF JobBounded, JobStates
  <2>5. /\ ran' = [ran EXCEPT ![d] = [tally |-> job[j].tally, exists |-> TRUE]]
        /\ job' = [job EXCEPT ![j] = z] /\ UNCHANGED <<now, fence, left>>
        /\ spoiled' = spoiled \cup
             {x \in {d} : job[j].kind = "rollup" /\ \E e \in gone : DayOf(logged[e].at) = d}
    BY <1>10 DEF ReplaceDay
  <2>6. spoiled' \subseteq Days
    BY <1>0, <2>3, <2>5
  <2>7. \A day \in Days : ran'[day].tally <= Cardinality(AuditEvents)
    BY <1>0, <2>2, <2>3, <2>5 DEF HistoryTyped, HistoryShape
  <2> HIDE DEF z, d
  <2>8. \A k \in Jobs : JobBounded(job'[k])
    BY <1>0, <2>4, <2>5 DEF HistoryTyped, HistoryShape
  <2>. QED  BY <1>0, <2>5, <2>6, <2>7, <2>8 DEF HistoryTyped, JobBounded
<1>11. ASSUME NEW j \in Jobs, EndRollups(j) PROVE HistoryTyped'
  <2>1. job[j] # Idle
    BY <1>5, <1>11 DEF EndRollups
  <2>2. PICK z : /\ job' = [job EXCEPT ![j] = z]
                 /\ z = [job[j] EXCEPT !.step = "delete"] \/ z = Idle
    BY <1>11 DEF EndRollups
  <2>3. JobBounded(z)
    BY <1>4, <2>1, <2>2 DEF JobBounded, JobStates
  <2>4. UNCHANGED <<now, ran, fence, spoiled, left>>
    BY <1>11 DEF EndRollups
  <2>. QED  BY <1>0, <2>2, <2>3, <2>4, OneJobTyped
<1>12. ASSUME NEW j \in Jobs, DeleteBatch(j) PROVE HistoryTyped'
  <2>1. job[j] # Idle
    BY <1>5, <1>12 DEF DeleteBatch
  <2>2. UNCHANGED <<now, ran, fence, left>>
    BY <1>12 DEF DeleteBatch
  <2>3. CASE fence
    <3>1. job' = [job EXCEPT ![j] = Idle] /\ spoiled' = spoiled
      BY <1>12, <2>3 DEF DeleteBatch
    <3>2. JobBounded(Idle)
      BY DEF JobBounded
    <3>. QED  BY <1>0, <2>2, <3>1, <3>2, OneJobTyped
  <2>4. CASE ~fence
    <3>1. PICK batch, z :
            /\ spoiled' = spoiled \cup ({DayOf(logged[e].at) : e \in batch} \cap job[j].skipped)
            /\ job' = [job EXCEPT ![j] = z]
            /\ z = [job[j] EXCEPT !.step = "audit"] \/ z = [job[j] EXCEPT !.step = "delete"]
      BY <1>12, <2>4 DEF DeleteBatch
    <3>2. JobBounded(z)
      BY <1>4, <2>1, <3>1 DEF JobBounded, JobStates
    <3>3. spoiled' \subseteq Days
      BY <1>0, <1>4, <2>1, <3>1 DEF JobStates
    <3>. QED  BY <1>0, <2>2, <3>1, <3>2, <3>3, OneJobTyped
  <2>. QED  BY <2>3, <2>4
<1>13. ASSUME NEW j \in Jobs, AuditRetention(j) \/ JobDies(j) PROVE HistoryTyped'
  <2>1. job' = [job EXCEPT ![j] = Idle] /\ UNCHANGED <<now, ran, fence, spoiled, left>>
    BY <1>13 DEF AuditRetention, JobDies
  <2>2. JobBounded(Idle)
    BY DEF JobBounded
  <2>. QED  BY <1>0, <2>1, <2>2, OneJobTyped
<1>14. ASSUME NEW j \in Jobs,
             \/ StartRetention(j) \/ \E d \in Days : StartRollup(j, d)
             \/ SkipDay(j) \/ CountRows(j) \/ ReplaceDay(j) \/ EndRollups(j)
             \/ DeleteBatch(j) \/ AuditRetention(j) \/ JobDies(j)
      PROVE  HistoryTyped'
  BY <1>6, <1>7, <1>8, <1>9, <1>10, <1>11, <1>12, <1>13, <1>14
<1>. QED  BY <1>1, <1>2, <1>3, <1>14, Zenon DEF HistoryNext

\* The types of what is kept of expired events, with the bounds.
THEOREM HistoryHasTypes == HistorySpec => []HistoryTypeOK
<1>1. HistoryInit => HistoryTyped
  <2> SUFFICES ASSUME HistoryInit PROVE HistoryTyped
    OBVIOUS
  <2>1. HistoryInv /\ Cardinality(AuditEvents) \in Nat /\ MaxTime \in Nat
    BY HistoryAssumption, HistoryInitHolds, FS_CardinalityType DEF HistoryAssumption
  <2>2. now = 0 /\ fence = FALSE /\ spoiled = {}
    BY DEF HistoryInit
  <2>3. left \in [commands : 0..MaxCommands, fences : 0..MaxFences]
    BY HistoryAssumption DEF HistoryInit, HistoryAssumption
  <2>4. \A d \in Days : ran[d].tally <= Cardinality(AuditEvents)
    BY <2>1 DEF HistoryInit, NoRun
  <2>5. \A j \in Jobs : JobBounded(job[j])
    BY DEF HistoryInit, JobBounded
  <2>6. now <= MaxTime
    BY <2>1, <2>2
  <2>7. fence \in BOOLEAN
    BY <2>2
  <2>8. spoiled \subseteq Days
    BY <2>2
  <2>. QED  BY <2>1, <2>3, <2>4, <2>5, <2>6, <2>7, <2>8 DEF HistoryTyped
<1>2. HistoryTyped /\ [HistoryNext]_historyVars => HistoryTyped'
  <2>1. HistoryTyped /\ HistoryNext => HistoryTyped'
    BY HistoryAssumption, HistoryStepTyped
  <2>2. HistoryTyped /\ UNCHANGED historyVars => HistoryTyped'
    BY HistoryStill DEF historyVars, HistoryTyped, JobBounded
  <2>. QED  BY <2>1, <2>2
<1>3. HistoryTyped => HistoryTypeOK
  BY HistoryAssumption, HistoryTypes
<1>. QED  BY <1>1, <1>2, <1>3, PTL DEF HistorySpec

-----------------------------------------------------------------------------
(* Together: MCServices.                                                     *)

\* The systems that are checked together share nothing: what each does there it may do alone.
LEMMA NothingShared ==
  Spec => GitSpec /\ UsageSpec /\ CompositionSpec /\ ContextSpec /\ MovesSpec /\ HistorySpec
<1>1. Init => GitInit /\ UsageInit /\ CompositionInit /\ ContextInit /\ MovesInit /\ HistoryInit
  BY Zenon DEF Init
<1>2. [Next]_vars =>
        /\ [GitNext]_gitVars /\ [UsageNext]_usageVars /\ [CompositionNext]_compositionVars
        /\ [ContextNext]_contextVars /\ [MovesNext]_movesVars /\ [HistoryNext]_historyVars
  <2>1. CASE Importing
    BY <2>1, Zenon DEF Importing
  <2>2. CASE Delivery
    BY <2>2, Zenon DEF Delivery
  <2>3. CASE Composing
    BY <2>3, Zenon DEF Composing
  <2>4. CASE Editing
    BY <2>4, Zenon DEF Editing
  <2>5. CASE Moving
    BY <2>5, Zenon DEF Moving
  <2>6. CASE Expiring
    BY <2>6, Zenon DEF Expiring
  <2>7. CASE UNCHANGED vars
    BY <2>7 DEF vars
  <2>. QED  BY <2>1, <2>2, <2>3, <2>4, <2>5, <2>6, <2>7, Zenon DEF Next
<1>. QED
  BY <1>1, <1>2, PTL DEF Spec, GitSpec, UsageSpec, CompositionSpec, ContextSpec, MovesSpec, HistorySpec

\* The variables of every system have their types, together and alone.
THEOREM EveryTypeHolds == Spec => []TypeOK
<1>1. GitInv => GitTypeOK
  BY DEF GitInv
<1>2. UsageInv => UsageTypeOK
  BY DEF UsageInv
<1>3. CompositionInv => CompositionTypeOK
  BY DEF CompositionInv
<1>4. EditsTyped => ContextTypeOK
  BY DEF EditsTyped
<1>5. MovesInv => MovesTypeOK
  BY DEF MovesInv
<1>6. ASSUME GitTypeOK, UsageTypeOK, CompositionTypeOK, ContextTypeOK, MovesTypeOK, HistoryTypeOK
      PROVE  TypeOK
  BY <1>6, Zenon DEF TypeOK
<1>. QED
  BY <1>1, <1>2, <1>3, <1>4, <1>5, <1>6, NothingShared, ImportsInOrder, ReceiptsAgree,
     MarksInOrder, EditsHaveTypes, MovesInOrder, HistoryHasTypes, PTL
=============================================================================
