--------------------------- MODULE SettlementProofs ---------------------------
(***************************************************************************)
(* The settlement service keeps its promise about money for every number   *)
(* of intents, jobs and deposits: Settlement implements RampPromise.  It   *)
(* asks for one checkout, drops no event and tells the customer the truth. *)
(***************************************************************************)
EXTENDS Settlement, TLAPS

JobRecords == [at : Stages, intent : Intents, tx : Txs \union {None}]

\* A job at some stage of intent i is a job in progress.
LEMMA BusyJob ==
    ASSUME TypeOK, NEW j \in Jobs, NEW i \in Intents, NEW s, At(j, s, i)
    PROVE  job[j] \in JobRecords /\ job[j].at = s /\ job[j].intent = i
BY NoneAssumption DEF TypeOK, At, Idle, JobRecords

\* Starting, continuing and finishing a job keep the table of jobs typed.
LEMMA BeginTyped ==
    ASSUME TypeOK, NEW j \in Jobs, NEW s \in Stages, NEW i \in Intents,
           NEW t \in Txs \union {None}, Begin(j, s, i, t)
    PROVE  job' \in [Jobs -> {Idle} \union JobRecords]
BY DEF TypeOK, Begin, JobRecords

\* A job that goes on to its next stage stays well formed.
LEMMA ContinueTyped ==
    ASSUME TypeOK, NEW j \in Jobs, NEW s, NEW u \in Stages, NEW i \in Intents,
           At(j, s, i), Continue(j, u)
    PROVE  job' \in [Jobs -> {Idle} \union JobRecords]
<1>1. job[j] \in JobRecords
  BY BusyJob
<1>2. [job[j] EXCEPT !.at = u] \in JobRecords
  BY <1>1 DEF JobRecords
<1> QED
  BY <1>2 DEF TypeOK, Continue, JobRecords

\* A job that ends leaves the jobs well formed.
LEMMA FinishTyped ==
    ASSUME TypeOK, NEW j \in Jobs, Finish(j)
    PROVE  job' \in [Jobs -> {Idle} \union JobRecords]
BY DEF TypeOK, Finish, JobRecords

\* Counting a call keeps the counters typed.
LEMMA CallTyped ==
    ASSUME TypeOK, NEW i \in Intents, NEW c \in Calls, CallOf(i, c)
    PROVE  calls' \in [Intents -> [Calls -> Nat]]
<1>1. calls[i] \in [Calls -> Nat]
  BY DEF TypeOK
<1>2. [calls[i] EXCEPT ![c] = @ + 1] \in [Calls -> Nat]
  BY <1>1
<1> QED
  BY <1>2 DEF TypeOK, CallOf

\* Moving an event through the inbox keeps the inbox typed.
LEMMA InboxTyped ==
    ASSUME TypeOK, NEW i \in Intents, NEW e \in Events, NEW v \in {"none", "queued", "done"},
           inbox' = [inbox EXCEPT ![i][e] = v]
    PROVE  inbox' \in [Intents -> [Events -> {"none", "queued", "done"}]]
<1>1. inbox[i] \in [Events -> {"none", "queued", "done"}]
  BY DEF TypeOK
<1>2. [inbox[i] EXCEPT ![e] = v] \in [Events -> {"none", "queued", "done"}]
  BY <1>1
<1> QED
  BY <1>2 DEF TypeOK

\* The empty tables are well formed.
LEMMA TypeInit == Init => TypeOK
BY NoneAssumption DEF Init, TypeOK, Statuses, Calls

\* Every request, webhook and job step keeps the tables well formed.
LEMMA TypeNext ==
    ASSUME TypeOK, [Next]_vars
    PROVE  TypeOK'
<1> USE DEF JobRecords
<1>1. ASSUME NEW i \in Intents, NEW k \in Kinds, NEW r \in BOOLEAN, create_intent(i, k, r)
      PROVE  TypeOK'
  BY <1>1 DEF TypeOK, create_intent, Statuses, Kinds, world
<1>2. ASSUME NEW i \in Intents, prepare_signature(i)
      PROVE  TypeOK'
  BY <1>2 DEF TypeOK, prepare_signature, Statuses, world
<1>3. ASSUME NEW i \in Intents, NEW j \in Jobs, ReserveCheckout(j, i)
      PROVE  TypeOK'
  <2>1. job' \in [Jobs -> {Idle} \union JobRecords]
    BY <1>3, BeginTyped DEF ReserveCheckout, Stages
  <2> QED
    BY <1>3, <2>1 DEF TypeOK, ReserveCheckout, world
<1>4. ASSUME NEW i \in Intents, NEW j \in Jobs, SendCheckout(j, i)
      PROVE  TypeOK'
  <2>1. job' \in [Jobs -> {Idle} \union JobRecords]
    BY <1>4, ContinueTyped DEF SendCheckout, Stages
  <2>2. calls' \in [Intents -> [Calls -> Nat]]
    BY <1>4, CallTyped DEF SendCheckout, Calls
  <2> QED
    BY <1>4, <2>1, <2>2 DEF TypeOK, SendCheckout, stored
<1>5. ASSUME NEW i \in Intents, NEW j \in Jobs, NEW a \in {"ready", "unknown"},
             SaveCheckout(j, i, a)
      PROVE  TypeOK'
  <2>1. job' \in [Jobs -> {Idle} \union JobRecords]
    BY <1>5, FinishTyped DEF SaveCheckout
  <2> QED
    BY <1>5, <2>1 DEF TypeOK, SaveCheckout, CheckoutState, world
<1>6. ASSUME NEW i \in Intents, NEW j \in Jobs, NEW t \in Txs, ClaimDeposit(j, i, t)
      PROVE  TypeOK'
  <2>1. job' \in [Jobs -> {Idle} \union JobRecords]
    BY <1>6, BeginTyped DEF ClaimDeposit, Stages
  <2> QED
    BY <1>6, <2>1 DEF TypeOK, ClaimDeposit, stored, world
<1>7. ASSUME NEW i \in Intents, NEW j \in Jobs, NEW t \in Txs, RecordDeposit(j, i, t)
      PROVE  TypeOK'
  <2>1. job' \in [Jobs -> {Idle} \union JobRecords]
    BY <1>7, FinishTyped DEF RecordDeposit
  <2> QED
    BY <1>7, <2>1 DEF TypeOK, RecordDeposit, world
<1>8. ASSUME ConfirmDeposits
      PROVE  TypeOK'
  BY <1>8 DEF TypeOK, ConfirmDeposits, Statuses, world
<1>9. ASSUME NEW i \in Intents, NEW j \in Jobs, ClaimDisbursement(j, i)
      PROVE  TypeOK'
  <2>1. job' \in [Jobs -> {Idle} \union JobRecords]
    BY <1>9, BeginTyped DEF ClaimDisbursement, Stages
  <2> QED
    BY <1>9, <2>1 DEF TypeOK, ClaimDisbursement, Statuses, world
<1>10. ASSUME NEW i \in Intents, NEW j \in Jobs, VerifyPayment(j, i)
       PROVE  TypeOK'
  <2>1. job' \in [Jobs -> {Idle} \union JobRecords]
    BY <1>10, ContinueTyped DEF VerifyPayment, Stages
  <2> QED
    BY <1>10, <2>1 DEF TypeOK, VerifyPayment, stored, world
<1>11. ASSUME NEW i \in Intents, NEW j \in Jobs, FailDisbursement(j, i)
       PROVE  TypeOK'
  <2>1. job' \in [Jobs -> {Idle} \union JobRecords]
    BY <1>11, FinishTyped DEF FailDisbursement
  <2> QED
    BY <1>11, <2>1 DEF TypeOK, FailDisbursement, Statuses, world
<1>12. ASSUME NEW i \in Intents, NEW j \in Jobs, SignTransfer(j, i)
       PROVE  TypeOK'
  <2>1. job' \in [Jobs -> {Idle} \union JobRecords]
    BY <1>12, ContinueTyped DEF SignTransfer, Stages
  <2>2. calls' \in [Intents -> [Calls -> Nat]]
    BY <1>12, CallTyped DEF SignTransfer, Calls
  <2> QED
    BY <1>12, <2>1, <2>2 DEF TypeOK, SignTransfer, stored, world
<1>13. ASSUME NEW i \in Intents, NEW j \in Jobs, NEW final \in BOOLEAN,
              RecordDisbursement(j, i, final)
       PROVE  TypeOK'
  <2>1. job' \in [Jobs -> {Idle} \union JobRecords]
    BY <1>13, FinishTyped DEF RecordDisbursement
  <2> QED
    BY <1>13, <2>1 DEF TypeOK, RecordDisbursement, Statuses, world
<1>14. ASSUME NEW i \in Intents, NEW j \in Jobs, ClaimPayout(j, i)
       PROVE  TypeOK'
  <2>1. job' \in [Jobs -> {Idle} \union JobRecords]
    BY <1>14, BeginTyped DEF ClaimPayout, Stages
  <2> QED
    BY <1>14, <2>1 DEF TypeOK, ClaimPayout, Statuses, world
<1>15. ASSUME NEW i \in Intents, NEW j \in Jobs, SkipPayout(j, i)
       PROVE  TypeOK'
  <2>1. job' \in [Jobs -> {Idle} \union JobRecords]
    BY <1>15, FinishTyped DEF SkipPayout
  <2> QED
    BY <1>15, <2>1 DEF TypeOK, SkipPayout, stored, world
<1>16. ASSUME NEW i \in Intents, NEW j \in Jobs, SendPayout(j, i)
       PROVE  TypeOK'
  <2>1. job' \in [Jobs -> {Idle} \union JobRecords]
    BY <1>16, ContinueTyped DEF SendPayout, Stages
  <2>2. calls' \in [Intents -> [Calls -> Nat]]
    BY <1>16, CallTyped DEF SendPayout, Calls
  <2> QED
    BY <1>16, <2>1, <2>2 DEF TypeOK, SendPayout, stored
<1>17. ASSUME NEW i \in Intents, NEW j \in Jobs, NEW reply \in Replies,
              RecordReply(j, i, reply)
       PROVE  TypeOK'
  <2>1. job' \in [Jobs -> {Idle} \union JobRecords]
    BY <1>17, FinishTyped DEF RecordReply
  <2> QED
    BY <1>17, <2>1 DEF TypeOK, RecordReply, StatusAfterReply, Statuses, world
<1>18. ASSUME NEW i \in Intents, NEW e \in Events, insert_webhook_event(i, e)
       PROVE  TypeOK'
  <2>1. inbox' \in [Intents -> [Events -> {"none", "queued", "done"}]]
    BY <1>18, InboxTyped DEF insert_webhook_event
  <2> QED
    BY <1>18, <2>1 DEF TypeOK, insert_webhook_event, world
<1>19. ASSUME NEW i \in Intents, ProcessPayment(i)
       PROVE  TypeOK'
  <2>1. inbox' \in [Intents -> [Events -> {"none", "queued", "done"}]]
    BY <1>19, InboxTyped DEF ProcessPayment, Consume, Events
  <2> QED
    BY <1>19, <2>1 DEF TypeOK, ProcessPayment, Statuses, world
<1>20. ASSUME NEW i \in Intents, NEW e \in Events \ {"charge.success"}, ProcessPayout(i, e)
       PROVE  TypeOK'
  <2>1. inbox' \in [Intents -> [Events -> {"none", "queued", "done"}]]
    BY <1>20, InboxTyped DEF ProcessPayout, Consume
  <2>2. Recorded(e) \in {"success", "failed", "reversed"}
    BY DEF Recorded, Events
  <2> QED
    BY <1>20, <2>1, <2>2 DEF TypeOK, ProcessPayout, Statuses, world
<1>21. ASSUME NEW i \in Intents, World(i)
       PROVE  TypeOK'
  <2>1. CASE ExpireQuote(i)
    BY <2>1 DEF TypeOK, ExpireQuote, stored
  <2>2. CASE OpenCheckout(i)
    BY <2>2 DEF TypeOK, OpenCheckout, stored
  <2>3. CASE PayCheckout(i)
    BY <2>3 DEF TypeOK, PayCheckout, stored
  <2>4. ASSUME NEW t \in Txs, FundDeposit(i, t)
        PROVE  TypeOK'
    BY <2>4 DEF TypeOK, FundDeposit, stored
  <2>5. ASSUME NEW b \in {"processing", "refused", "paid", "failed", "reversed"},
               MoveBankTransfer(i, b)
        PROVE  TypeOK'
    BY <2>5 DEF TypeOK, MoveBankTransfer, stored
  <2> QED
    BY <1>21, <2>1, <2>2, <2>3, <2>4, <2>5 DEF World
<1>22. ASSUME NEW j \in Jobs, Abandon(j)
       PROVE  TypeOK'
  <2>1. job' \in [Jobs -> {Idle} \union JobRecords]
    BY <1>22, FinishTyped DEF Abandon
  <2> QED
    BY <1>22, <2>1 DEF TypeOK, Abandon, stored, world
<1>23. CASE UNCHANGED vars
  BY <1>23 DEF TypeOK, vars, stored, world
<1> QED
  BY <1>1, <1>2, <1>3, <1>4, <1>5, <1>6, <1>7, <1>8, <1>9, <1>10, <1>11, <1>12,
     <1>13, <1>14, <1>15, <1>16, <1>17, <1>18, <1>19, <1>20, <1>21, <1>22, <1>23
  DEF Next, Request, Webhook, JobStep

\* Every step keeps the reasons the promise rests on.
LEMMA PromiseNext ==
    ASSUME TypeOK, PromiseInv, [Next]_vars
    PROVE  PromiseInv'
<1> USE NoneAssumption DEF PromiseInv, JobInv, SoleJob, AttemptInv, Disburses, Dispatches,
        Undisbursed, At, Proven, Idle
<1>1. ASSUME NEW i \in Intents, NEW k \in Kinds, NEW r \in BOOLEAN, create_intent(i, k, r)
      PROVE  PromiseInv'
  BY <1>1 DEF TypeOK, create_intent, world, Kinds
<1>2. ASSUME NEW i \in Intents, prepare_signature(i)
      PROVE  PromiseInv'
  BY <1>2 DEF TypeOK, prepare_signature, world
<1>3. ASSUME NEW i \in Intents, NEW j \in Jobs, ReserveCheckout(j, i)
      PROVE  PromiseInv'
  BY <1>3 DEF TypeOK, ReserveCheckout, Begin, world
<1>4. ASSUME NEW i \in Intents, NEW j \in Jobs, SendCheckout(j, i)
      PROVE  PromiseInv'
  BY <1>4 DEF TypeOK, SendCheckout, Continue, CallOf, stored
<1>5. ASSUME NEW i \in Intents, NEW j \in Jobs, NEW a \in {"ready", "unknown"}, SaveCheckout(j, i, a)
      PROVE  PromiseInv'
  BY <1>5 DEF TypeOK, SaveCheckout, Finish, world
<1>6. ASSUME NEW i \in Intents, NEW j \in Jobs, NEW t \in Txs, ClaimDeposit(j, i, t)
      PROVE  PromiseInv'
  BY <1>6 DEF TypeOK, ClaimDeposit, Begin, stored, world
<1>7. ASSUME NEW i \in Intents, NEW j \in Jobs, NEW t \in Txs, RecordDeposit(j, i, t)
      PROVE  PromiseInv'
  BY <1>7 DEF TypeOK, RecordDeposit, Finish, world
<1>8. ASSUME ConfirmDeposits
      PROVE  PromiseInv'
  BY <1>8 DEF TypeOK, ConfirmDeposits, world
<1>9. ASSUME NEW i \in Intents, NEW j \in Jobs, ClaimDisbursement(j, i)
      PROVE  PromiseInv'
  <2>1. /\ kind[i] = "onramp" /\ calls[i]["transfer"] = 0
        /\ \A k \in Jobs : ~Disburses(k, i)
    BY <1>9 DEF ClaimDisbursement
  <2>2. /\ job[j] = Idle
        /\ job' = [job EXCEPT ![j] = [at |-> "disburse", intent |-> i, tx |-> None]]
        /\ status' = [status EXCEPT ![i] = "settlement_in_progress"]
    BY <1>9 DEF ClaimDisbursement, Begin
  <2>3. UNCHANGED <<kind, payout, credit, deposit, charge, calls>>
    BY <1>9 DEF ClaimDisbursement, world
  <2>4. \A k \in Jobs, c \in Intents : JobInv(k, c)'
    <3> TAKE k \in Jobs, c \in Intents
    <3>1. CASE k = j
      BY <3>1, <2>1, <2>2, <2>3 DEF TypeOK
    <3>2. CASE k # j
      BY <3>2, <2>1, <2>2, <2>3 DEF TypeOK
    <3> QED
      BY <3>1, <3>2
  <2>5. SoleJob'
    BY <2>1, <2>2 DEF TypeOK
  <2>6. \A c \in Intents : AttemptInv(c)'
    BY <2>1, <2>2, <2>3 DEF TypeOK
  <2>7. \A t \in Txs : credit'[t] # None => Proven(credit[t], t)'
    BY <2>3 DEF TypeOK
  <2> QED
    BY <2>4, <2>5, <2>6, <2>7, <2>3
<1>10. ASSUME NEW i \in Intents, NEW j \in Jobs, VerifyPayment(j, i)
      PROVE  PromiseInv'
  BY <1>10 DEF TypeOK, VerifyPayment, PaymentVerified, Continue, stored, world
<1>11. ASSUME NEW i \in Intents, NEW j \in Jobs, FailDisbursement(j, i)
      PROVE  PromiseInv'
  BY <1>11 DEF TypeOK, FailDisbursement, Finish, world
<1>12. ASSUME NEW i \in Intents, NEW j \in Jobs, SignTransfer(j, i)
      PROVE  PromiseInv'
  <2>1. /\ job[j].at = "sign" /\ job[j].intent = i /\ kind[i] = "onramp"
        /\ status[i] \notin Undisbursed
        /\ \A k \in Jobs : Disburses(k, i) => k = j
    BY <1>12 DEF SignTransfer
  <2>2. /\ job' = [job EXCEPT ![j].at = "signed"]
        /\ calls' = [calls EXCEPT ![i]["transfer"] = @ + 1]
    BY <1>12 DEF SignTransfer, Continue, CallOf
  <2>3. UNCHANGED <<kind, status, payout, credit, deposit, charge>>
    BY <1>12 DEF SignTransfer, stored, world
  <2>8. job[j] \in JobRecords
    BY <1>12, BusyJob DEF SignTransfer
  <2>9. \A c \in Intents, m \in Calls : c # i \/ m # "transfer" => calls'[c][m] = calls[c][m]
    BY <2>2 DEF TypeOK
  <2>10. /\ \A k \in Jobs : k # j => job'[k] = job[k]
         /\ job'[j].at = "signed" /\ job'[j].intent = i
    BY <2>1, <2>2, <2>8 DEF TypeOK, JobRecords
  <2>4. \A k \in Jobs, c \in Intents : JobInv(k, c)'
    <3> TAKE k \in Jobs, c \in Intents
    <3>1. CASE k = j
      BY <3>1, <2>1, <2>3, <2>10
    <3>2. CASE k # j
      BY <3>2, <2>1, <2>3, <2>9, <2>10 DEF Calls
    <3> QED
      BY <3>1, <3>2
  <2>5. SoleJob'
    BY <2>1, <2>10
  <2>6. \A c \in Intents : AttemptInv(c)'
    BY <2>1, <2>3, <2>9 DEF Calls
  <2>7. \A t \in Txs : credit'[t] # None => Proven(credit[t], t)'
    BY <2>3
  <2> QED
    BY <2>4, <2>5, <2>6, <2>7, <2>3
<1>13. ASSUME NEW i \in Intents, NEW j \in Jobs, NEW final \in BOOLEAN, RecordDisbursement(j, i, final)
      PROVE  PromiseInv'
  BY <1>13 DEF TypeOK, RecordDisbursement, Finish, world
<1>14. ASSUME NEW i \in Intents, NEW j \in Jobs, ClaimPayout(j, i)
      PROVE  PromiseInv'
  <2>1. /\ kind[i] = "offramp" /\ calls[i]["payout"] = 0 /\ status[i] = "settlement_completed"
        /\ \A k \in Jobs : ~Dispatches(k, i)
        /\ \E t \in Txs : Proven(i, t)
    BY <1>14 DEF ClaimPayout
  <2>2. /\ job[j] = Idle
        /\ job' = [job EXCEPT ![j] = [at |-> "payout", intent |-> i, tx |-> None]]
        /\ status' = [status EXCEPT ![i] = "payout_in_progress"]
        /\ payout' = [payout EXCEPT ![i] = "unknown"]
    BY <1>14 DEF ClaimPayout, Begin
  <2>3. UNCHANGED <<kind, credit, deposit, charge, calls>>
    BY <1>14 DEF ClaimPayout, world
  <2>8. (\E t \in Txs : Proven(i, t))'
    BY <2>1, <2>3
  <2>9. /\ job'[j].at = "payout" /\ job'[j].intent = i
        /\ payout'[i] # "none"
    BY <2>2 DEF TypeOK
  <2>4. \A k \in Jobs, c \in Intents : JobInv(k, c)'
    <3> TAKE k \in Jobs, c \in Intents
    <3>1. CASE k = j
      BY <3>1, <2>1, <2>3, <2>8, <2>9
    <3>2. CASE k # j
      BY <3>2, <2>1, <2>2, <2>3 DEF TypeOK
    <3> QED
      BY <3>1, <3>2
  <2>5. SoleJob'
    BY <2>1, <2>2 DEF TypeOK
  <2>6. \A c \in Intents : AttemptInv(c)'
    BY <2>1, <2>2, <2>3 DEF TypeOK
  <2>7. \A t \in Txs : credit'[t] # None => Proven(credit[t], t)'
    BY <2>3 DEF TypeOK
  <2> QED
    BY <2>4, <2>5, <2>6, <2>7, <2>3
<1>15. ASSUME NEW i \in Intents, NEW j \in Jobs, SkipPayout(j, i)
      PROVE  PromiseInv'
  BY <1>15 DEF TypeOK, SkipPayout, Finish, stored, world
<1>16. ASSUME NEW i \in Intents, NEW j \in Jobs, SendPayout(j, i)
      PROVE  PromiseInv'
  <2>1. /\ job[j].at = "payout" /\ job[j].intent = i /\ kind[i] = "offramp"
        /\ payout[i] # "none"
        /\ \A k \in Jobs : Dispatches(k, i) => k = j
    BY <1>16 DEF SendPayout
  <2>2. /\ job' = [job EXCEPT ![j].at = "payout_sent"]
        /\ calls' = [calls EXCEPT ![i]["payout"] = @ + 1]
    BY <1>16 DEF SendPayout, Continue, CallOf
  <2>3. UNCHANGED <<kind, status, payout, credit, deposit, charge>>
    BY <1>16 DEF SendPayout, stored, world
  <2>8. job[j] \in JobRecords
    BY <1>16, BusyJob DEF SendPayout
  <2>9. \A c \in Intents, m \in Calls : c # i \/ m # "payout" => calls'[c][m] = calls[c][m]
    BY <2>2 DEF TypeOK
  <2>10. /\ \A k \in Jobs : k # j => job'[k] = job[k]
         /\ job'[j].at = "payout_sent" /\ job'[j].intent = i
    BY <2>1, <2>2, <2>8 DEF TypeOK, JobRecords
  <2>4. \A k \in Jobs, c \in Intents : JobInv(k, c)'
    <3> TAKE k \in Jobs, c \in Intents
    <3>1. CASE k = j
      BY <3>1, <2>1, <2>3, <2>10
    <3>2. CASE k # j
      BY <3>2, <2>1, <2>3, <2>9, <2>10 DEF Calls
    <3> QED
      BY <3>1, <3>2
  <2>5. SoleJob'
    BY <2>1, <2>10
  <2>6. \A c \in Intents : AttemptInv(c)'
    BY <2>1, <2>3, <2>9 DEF Calls
  <2>7. \A t \in Txs : credit'[t] # None => Proven(credit[t], t)'
    BY <2>3
  <2> QED
    BY <2>4, <2>5, <2>6, <2>7, <2>3
<1>17. ASSUME NEW i \in Intents, NEW j \in Jobs, NEW reply \in Replies, RecordReply(j, i, reply)
      PROVE  PromiseInv'
  <2>1. \A c \in Intents : payout'[c] = "none" <=> payout[c] = "none"
    BY <1>17, RepliesAssumption DEF TypeOK, RecordReply
  <2>2. \A c \in Intents : status[c] # status'[c] =>
          status[c] = "payout_in_progress" /\ status'[c] = "manual_review_required"
    BY <1>17 DEF TypeOK, RecordReply, StatusAfterReply
  <2>3. UNCHANGED <<kind, credit, deposit, charge, calls>>
    BY <1>17 DEF RecordReply, world
  <2>4. \A k \in Jobs : job'[k] \in {job[k], Idle}
    BY <1>17 DEF TypeOK, RecordReply, Finish
  <2> QED
    BY <2>1, <2>2, <2>3, <2>4
<1>18. ASSUME NEW i \in Intents, NEW e \in Events, insert_webhook_event(i, e)
      PROVE  PromiseInv'
  BY <1>18 DEF TypeOK, insert_webhook_event, world
<1>19. ASSUME NEW i \in Intents, ProcessPayment(i)
      PROVE  PromiseInv'
  BY <1>19 DEF TypeOK, ProcessPayment, Matches, world
<1>20. ASSUME NEW i \in Intents, NEW e \in Events \ {"charge.success"}, ProcessPayout(i, e)
      PROVE  PromiseInv'
  <2>1. \A c \in Intents : payout'[c] = "none" <=> payout[c] = "none"
    <3>1. Recorded(e) \in {"success", "failed", "reversed"}
      BY DEF Recorded, Events
    <3> QED
      BY <1>20, <3>1 DEF TypeOK, ProcessPayout, Open
  <2>2. \A c \in Intents : status[c] # status'[c] =>
          status[c] = "payout_in_progress" /\ status'[c] \in {"payout_completed", "failed"}
    BY <1>20 DEF TypeOK, ProcessPayout
  <2>3. UNCHANGED <<kind, credit, deposit, charge, calls, job>>
    BY <1>20 DEF ProcessPayout, world
  <2> QED
    BY <2>1, <2>2, <2>3
<1>21. ASSUME NEW i \in Intents, World(i)
       PROVE  PromiseInv'
  <2>1. CASE ExpireQuote(i)
    BY <2>1 DEF ExpireQuote, stored
  <2>2. CASE OpenCheckout(i)
    BY <2>2 DEF TypeOK, OpenCheckout, stored
  <2>3. CASE PayCheckout(i)
    BY <2>3 DEF TypeOK, PayCheckout, stored
  <2>4. ASSUME NEW t \in Txs, FundDeposit(i, t)
        PROVE  PromiseInv'
    <3>1. \A u \in Txs : deposit'[u] = deposit[u] \/ deposit[u].intent = None
      BY <2>4 DEF TypeOK, FundDeposit
    <3>2. \A u \in Txs, c \in Intents : Proven(c, u) => Proven(c, u)'
      <4> SUFFICES ASSUME NEW u \in Txs, NEW c \in Intents, Proven(c, u)
                   PROVE  Proven(c, u)'
        OBVIOUS
      <4>1. deposit[u].intent = c
        OBVIOUS
      <4> QED
        BY <3>1, <4>1
    <3>3. UNCHANGED <<kind, status, payout, credit, charge, calls, job>>
      BY <2>4 DEF FundDeposit, stored
    <3>4. \A u \in Txs : credit[u] # None => credit[u] \in Intents
      BY DEF TypeOK
    <3> QED
      BY <3>2, <3>3, <3>4
  <2>5. ASSUME NEW b \in {"processing", "refused", "paid", "failed", "reversed"},
               MoveBankTransfer(i, b)
        PROVE  PromiseInv'
    BY <2>5 DEF MoveBankTransfer, stored
  <2> QED
    BY <1>21, <2>1, <2>2, <2>3, <2>4, <2>5 DEF World
<1>22. ASSUME NEW j \in Jobs, Abandon(j)
       PROVE  PromiseInv'
  BY <1>22 DEF TypeOK, Abandon, Finish, stored, world
<1>23. CASE UNCHANGED vars
  BY <1>23 DEF vars, stored, world
<1> QED
  BY <1>1, <1>2, <1>3, <1>4, <1>5, <1>6, <1>7, <1>8, <1>9, <1>10, <1>11, <1>12,
     <1>13, <1>14, <1>15, <1>16, <1>17, <1>18, <1>19, <1>20, <1>21, <1>22, <1>23
  DEF Next, Request, Webhook, JobStep

\* With no intent yet, nothing is promised and nothing paid.
LEMMA PromiseInitially == Init => PromiseInv
BY NoneAssumption DEF Init, PromiseInv, JobInv, SoleJob, AttemptInv, Disburses, Dispatches,
   Undisbursed, At, Proven, Idle, Calls

\* The state of the promise in terms of the service's state.
FundedNow == {i \in Intents : Funded(i)}

OutNow == [i \in Intents |-> calls[i]["transfer"] + calls[i]["payout"]]

\* A step that pays nothing out and funds at most intent i is a step of the
\* promise, or none.
LEMMA FundingStep ==
    ASSUME NEW i \in Intents, Funded(i) => Funded(i)',
           \A c \in Intents \ {i} : Funded(c)' <=> Funded(c),
           OutNow' = OutNow
    PROVE  [Promise!Next]_<<FundedNow, OutNow>>
<1>1. CASE Funded(i)'
  <2>1. FundedNow' = FundedNow \union {i}
    BY <1>1 DEF FundedNow
  <2> QED
    BY <2>1 DEF Promise!Next, Promise!Receive, FundedNow, OutNow
<1>2. CASE ~Funded(i)'
  <2>1. FundedNow' = FundedNow
    BY <1>2 DEF FundedNow
  <2> QED
    BY <2>1
<1> QED
  BY <1>1, <1>2

\* A step that leaves the kinds, the checkouts, the deposits and the calls alone
\* is invisible to the promise.
LEMMA SilentStep ==
    ASSUME UNCHANGED <<kind, charge, deposit, calls>>
    PROVE  UNCHANGED <<FundedNow, OutNow>>
BY DEF FundedNow, OutNow, Funded

\* The first payment of a funded intent is a step of the promise.
LEMMA PayingStep ==
    ASSUME NEW i \in Intents, NEW c \in {"transfer", "payout"}, TypeOK,
           CallOf(i, c), Funded(i), OutNow[i] = 0,
           UNCHANGED <<kind, charge, deposit>>
    PROVE  Promise!Next
<1>1. FundedNow' = FundedNow /\ i \in FundedNow
  BY DEF FundedNow, Funded
<1>2. OutNow' = [OutNow EXCEPT ![i] = 1]
  <2>1. /\ calls[i]["transfer"] \in Nat /\ calls[i]["payout"] \in Nat
        /\ calls[i]["transfer"] + calls[i]["payout"] = 0
    BY DEF TypeOK, Calls, OutNow
  <2>2. calls'[i]["transfer"] + calls'[i]["payout"] = 1
    BY <2>1 DEF TypeOK, Calls, CallOf
  <2>3. \A k \in Intents : k # i => calls'[k] = calls[k]
    BY DEF TypeOK, CallOf
  <2> QED
    BY <2>2, <2>3 DEF OutNow
<1> QED
  BY <1>1, <1>2 DEF Promise!Next, Promise!PayOut, FundedNow, OutNow

\* Every step of the service is a step of the promise, or none.
LEMMA PromiseStep ==
    ASSUME TypeOK, PromiseInv, [Next]_vars
    PROVE  [Promise!Next]_<<FundedNow, OutNow>>
<1>1. ASSUME NEW i \in Intents, NEW k \in Kinds, NEW r \in BOOLEAN, create_intent(i, k, r)
      PROVE  [Promise!Next]_<<FundedNow, OutNow>>
  <2>1. kind[i] = "none" /\ OutNow' = OutNow
    BY <1>1 DEF create_intent, PromiseInv, AttemptInv, OutNow
  <2>2. Funded(i) => Funded(i)'
    BY <1>1, <2>1 DEF create_intent, Funded, world
  <2>3. \A c \in Intents \ {i} : Funded(c)' <=> Funded(c)
    BY <1>1 DEF create_intent, Funded, world, TypeOK
  <2> QED
    BY <2>1, <2>2, <2>3, FundingStep
<1>2. ASSUME NEW i \in Intents, NEW j \in Jobs, SendCheckout(j, i)
      PROVE  [Promise!Next]_<<FundedNow, OutNow>>
  <2>1. OutNow' = OutNow
    BY <1>2 DEF SendCheckout, CallOf, OutNow, TypeOK, Calls
  <2>2. \A c \in Intents : charge'[c] = "paid" <=> charge[c] = "paid"
    BY <1>2 DEF SendCheckout, TypeOK
  <2>3. \A c \in Intents : Funded(c)' <=> Funded(c)
    BY <1>2, <2>2 DEF SendCheckout, Funded, stored
  <2> QED
    BY <2>1, <2>3, FundingStep
<1>3. ASSUME NEW i \in Intents, NEW j \in Jobs, SignTransfer(j, i)
      PROVE  [Promise!Next]_<<FundedNow, OutNow>>
  <2>1. /\ kind[i] = "onramp" /\ charge[i] = "paid"
        /\ calls[i]["transfer"] = 0 /\ calls[i]["payout"] = 0
    BY <1>3 DEF SignTransfer, PromiseInv, JobInv, AttemptInv, At, Disburses
  <2>2. Funded(i) /\ OutNow[i] = 0
    BY <2>1 DEF Funded, OutNow
  <2>3. CallOf(i, "transfer") /\ UNCHANGED <<kind, charge, deposit>>
    BY <1>3 DEF SignTransfer, stored, world
  <2> QED
    BY <2>2, <2>3, PayingStep
<1>4. ASSUME NEW i \in Intents, NEW j \in Jobs, SendPayout(j, i)
      PROVE  [Promise!Next]_<<FundedNow, OutNow>>
  <2>1. /\ \E t \in Txs : Proven(i, t)
        /\ calls[i]["transfer"] = 0 /\ calls[i]["payout"] = 0
    BY <1>4 DEF SendPayout, PromiseInv, JobInv, AttemptInv, At, Dispatches
  <2>2. Funded(i) /\ OutNow[i] = 0
    BY <2>1 DEF Funded, OutNow, Proven
  <2>3. CallOf(i, "payout") /\ UNCHANGED <<kind, charge, deposit>>
    BY <1>4 DEF SendPayout, stored
  <2> QED
    BY <2>2, <2>3, PayingStep
<1>5. ASSUME NEW i \in Intents, World(i)
      PROVE  [Promise!Next]_<<FundedNow, OutNow>>
  <2>1. OutNow' = OutNow /\ kind' = kind
    BY <1>5 DEF World, ExpireQuote, OpenCheckout, PayCheckout, FundDeposit,
                MoveBankTransfer, stored, OutNow
  <2>2. CASE ExpireQuote(i) \/ \E b \in {"processing", "refused", "paid", "failed", "reversed"} :
                MoveBankTransfer(i, b)
    <3>1. UNCHANGED <<kind, charge, deposit, calls>>
      BY <2>2 DEF ExpireQuote, MoveBankTransfer, stored
    <3> QED
      BY <3>1, SilentStep
  <2>3. CASE OpenCheckout(i) \/ PayCheckout(i)
    <3>1. deposit' = deposit /\ \A c \in Intents \ {i} : charge'[c] = charge[c]
      BY <2>3 DEF OpenCheckout, PayCheckout, TypeOK
    <3>2. charge[i] # "paid"
      BY <2>3 DEF OpenCheckout, PayCheckout
    <3>3. Funded(i) => Funded(i)'
      BY <3>1, <3>2 DEF Funded
    <3>4. \A c \in Intents \ {i} : Funded(c)' <=> Funded(c)
      BY <2>1, <3>1 DEF Funded
    <3> QED
      BY <2>1, <3>3, <3>4, FundingStep
  <2>4. ASSUME NEW t \in Txs, FundDeposit(i, t)
        PROVE  [Promise!Next]_<<FundedNow, OutNow>>
    <3>1. /\ charge' = charge /\ deposit[t].intent = None /\ deposit'[t].intent = i
          /\ \A u \in Txs \ {t} : deposit'[u] = deposit[u]
      BY <2>4 DEF FundDeposit, TypeOK
    <3>2. \A c \in Intents : deposit[t] # [intent |-> c, late |-> FALSE]
      BY <3>1, NoneAssumption
    <3>3. \A c \in Intents \ {i} : deposit'[t] # [intent |-> c, late |-> FALSE]
      BY <3>1
    <3>4. Funded(i) => Funded(i)'
      BY <2>1, <3>1, <3>2 DEF Funded
    <3>5. \A c \in Intents \ {i} : Funded(c)' <=> Funded(c)
      BY <2>1, <3>1, <3>2, <3>3 DEF Funded
    <3> QED
      BY <2>1, <3>4, <3>5, FundingStep
  <2> QED
    BY <1>5, <2>2, <2>3, <2>4 DEF World
<1>6. ASSUME NEW i \in Intents, prepare_signature(i) \/ Webhook(i)
      PROVE  UNCHANGED <<kind, charge, deposit, calls>>
  BY <1>6 DEF prepare_signature, Webhook, insert_webhook_event, ProcessPayment,
              ProcessPayout, world
<1>7. ASSUME ConfirmDeposits \/ UNCHANGED vars \/ \E j \in Jobs : Abandon(j)
      PROVE  UNCHANGED <<kind, charge, deposit, calls>>
  BY <1>7 DEF ConfirmDeposits, Abandon, vars, stored, world
<1>8. ASSUME NEW i \in Intents, NEW j \in Jobs,
             \/ ReserveCheckout(j, i) \/ ClaimDisbursement(j, i) \/ ClaimPayout(j, i)
             \/ \E t \in Txs : ClaimDeposit(j, i, t)
      PROVE  UNCHANGED <<kind, charge, deposit, calls>>
  BY <1>8 DEF ReserveCheckout, ClaimDisbursement, ClaimPayout, ClaimDeposit, stored, world
<1>9. ASSUME NEW i \in Intents, NEW j \in Jobs,
             \/ \E a \in {"ready", "unknown"} : SaveCheckout(j, i, a)
             \/ \E t \in Txs : RecordDeposit(j, i, t)
             \/ VerifyPayment(j, i) \/ FailDisbursement(j, i) \/ SkipPayout(j, i)
             \/ \E final \in BOOLEAN : RecordDisbursement(j, i, final)
             \/ \E reply \in Replies : RecordReply(j, i, reply)
      PROVE  UNCHANGED <<kind, charge, deposit, calls>>
  BY <1>9 DEF SaveCheckout, RecordDeposit, VerifyPayment, FailDisbursement, SkipPayout,
              RecordDisbursement, RecordReply, stored, world
<1> QED
  BY <1>1, <1>2, <1>3, <1>4, <1>5, <1>6, <1>7, <1>8, <1>9, SilentStep
  DEF Next, Request, JobStep

\* TypeOK and PromiseInv hold in every reachable state of the service.
THEOREM PromiseInvariant == Spec => [](TypeOK /\ PromiseInv)
<1>1. Init => TypeOK /\ PromiseInv
  BY TypeInit, PromiseInitially
<1>2. TypeOK /\ PromiseInv /\ [Next]_vars => (TypeOK /\ PromiseInv)'
  BY TypeNext, PromiseNext
<1> QED
  BY <1>1, <1>2, PTL DEF Spec

\* The service implements the promise about money: whatever its workers,
\* crashes, timeouts and webhooks do, an intent is paid out at most once and
\* only for funds that came in within its quote.
THEOREM PromiseKept == Spec => KeepsPromise
<1>1. Init => Promise!Init
  BY NoneAssumption DEF Init, Promise!Init, Funded, Calls
<1>2. TypeOK /\ PromiseInv /\ [Next]_vars => [Promise!Next]_<<FundedNow, OutNow>>
  BY PromiseStep
<1>3. FundedNow = {i \in Intents : Funded(i)}
      /\ OutNow = [i \in Intents |-> calls[i]["transfer"] + calls[i]["payout"]]
  BY DEF FundedNow, OutNow
<1> QED
  BY <1>1, <1>2, PromiseInvariant, PTL DEF Spec, KeepsPromise, Promise!Spec, FundedNow, OutNow

-------------------------------------------------------------------------------
(* One checkout, recorded events, true outcomes *)

\* Every step keeps the reference of a checkout ahead of its request.
LEMMA CheckoutNext ==
    ASSUME TypeOK, CheckoutInv, [Next]_vars
    PROVE  CheckoutInv'
<1> USE NoneAssumption DEF CheckoutInv, At, Idle
<1>1. ASSUME NEW i \in Intents, NEW k \in Kinds, NEW r \in BOOLEAN, create_intent(i, k, r)
      PROVE  CheckoutInv'
  BY <1>1 DEF TypeOK, create_intent, Kinds, world
<1>2. ASSUME NEW i \in Intents, prepare_signature(i)
      PROVE  CheckoutInv'
  BY <1>2 DEF TypeOK, prepare_signature, world
<1>3. ASSUME NEW i \in Intents, NEW j \in Jobs, ReserveCheckout(j, i)
      PROVE  CheckoutInv'
  <2>1. /\ checkout[i] = "none" /\ checkout' = [checkout EXCEPT ![i] = "initializing"]
        /\ job[j] = Idle /\ job' = [job EXCEPT ![j] = [at |-> "checkout", intent |-> i, tx |-> None]]
        /\ UNCHANGED <<status, charge, calls>>
        /\ status[i] # "none"
    BY <1>3 DEF ReserveCheckout, Unreserved, Begin, world
  <2>2. \A k \in Jobs : k # j => job'[k] = job[k]
    BY <2>1 DEF TypeOK
  <2>3. \A c \in Intents : checkout'[c] = "none" => checkout[c] = "none" /\ c # i
    BY <2>1 DEF TypeOK
  <2>4. job'[j].at = "checkout" /\ job'[j].intent = i
    BY <2>1 DEF TypeOK
  <2>5. \A k \in Jobs : ~At(k, "checkout", i)
    BY <2>1
  <2>6. \A c \in Intents : c # i => checkout'[c] = checkout[c]
    BY <2>1 DEF TypeOK
  <2> QED
    BY <2>1, <2>2, <2>3, <2>4, <2>5, <2>6
<1>4. ASSUME NEW i \in Intents, NEW j \in Jobs, SendCheckout(j, i)
      PROVE  CheckoutInv'
  <2>1. job[j] \in JobRecords
    BY <1>4, BusyJob DEF SendCheckout
  <2>2. /\ \A k \in Jobs : k # j => job'[k] = job[k]
        /\ job'[j].at = "checkout_sent" /\ job'[j].intent = job[j].intent
    BY <1>4, <2>1 DEF SendCheckout, Continue, TypeOK, JobRecords
  <2>3. calls' = [calls EXCEPT ![i]["checkout"] = @ + 1]
    BY <1>4 DEF SendCheckout, CallOf
  <2>4. /\ calls[i]["checkout"] = 0 /\ checkout[i] # "none"
        /\ \A k \in Jobs : At(k, "checkout", i) => k = j
    BY <1>4 DEF SendCheckout
  <2>5. /\ calls'[i]["checkout"] = 1
        /\ \A c \in Intents : c # i => calls'[c] = calls[c]
    BY <2>3, <2>4 DEF TypeOK, Calls
  <2>6. \A c \in Intents : c # i => charge'[c] = charge[c]
    BY <1>4 DEF SendCheckout, TypeOK
  <2>7. status' = status /\ checkout' = checkout
    BY <1>4 DEF SendCheckout, stored
  <2> QED
    BY <2>2, <2>4, <2>5, <2>6, <2>7
<1>5. ASSUME NEW i \in Intents, NEW j \in Jobs, NEW a \in {"ready", "unknown"}, SaveCheckout(j, i, a)
      PROVE  CheckoutInv'
  BY <1>5 DEF TypeOK, SaveCheckout, CheckoutState, Finish, world
<1>6. ASSUME NEW i \in Intents, NEW j \in Jobs, NEW t \in Txs, ClaimDeposit(j, i, t)
      PROVE  CheckoutInv'
  BY <1>6 DEF TypeOK, ClaimDeposit, Begin, stored, world
<1>7. ASSUME NEW i \in Intents, NEW j \in Jobs, NEW t \in Txs, RecordDeposit(j, i, t)
      PROVE  CheckoutInv'
  BY <1>7 DEF TypeOK, RecordDeposit, Finish, world
<1>8. ASSUME ConfirmDeposits
      PROVE  CheckoutInv'
  BY <1>8 DEF TypeOK, ConfirmDeposits, world
<1>9. ASSUME NEW i \in Intents, NEW j \in Jobs, ClaimDisbursement(j, i)
      PROVE  CheckoutInv'
  BY <1>9 DEF TypeOK, ClaimDisbursement, Begin, world
<1>10. ASSUME NEW i \in Intents, NEW j \in Jobs, VerifyPayment(j, i)
      PROVE  CheckoutInv'
  BY <1>10 DEF TypeOK, VerifyPayment, Continue, stored, world
<1>11. ASSUME NEW i \in Intents, NEW j \in Jobs, FailDisbursement(j, i)
      PROVE  CheckoutInv'
  BY <1>11 DEF TypeOK, FailDisbursement, Finish, world
<1>12. ASSUME NEW i \in Intents, NEW j \in Jobs, SignTransfer(j, i)
      PROVE  CheckoutInv'
  BY <1>12 DEF TypeOK, SignTransfer, Continue, CallOf, stored, world
<1>13. ASSUME NEW i \in Intents, NEW j \in Jobs, NEW final \in BOOLEAN, RecordDisbursement(j, i, final)
      PROVE  CheckoutInv'
  BY <1>13 DEF TypeOK, RecordDisbursement, Finish, world
<1>14. ASSUME NEW i \in Intents, NEW j \in Jobs, ClaimPayout(j, i)
      PROVE  CheckoutInv'
  BY <1>14 DEF TypeOK, ClaimPayout, Begin, world
<1>15. ASSUME NEW i \in Intents, NEW j \in Jobs, SkipPayout(j, i)
      PROVE  CheckoutInv'
  BY <1>15 DEF TypeOK, SkipPayout, Finish, stored, world
<1>16. ASSUME NEW i \in Intents, NEW j \in Jobs, SendPayout(j, i)
      PROVE  CheckoutInv'
  BY <1>16 DEF TypeOK, SendPayout, Continue, CallOf, stored
<1>17. ASSUME NEW i \in Intents, NEW j \in Jobs, NEW reply \in Replies, RecordReply(j, i, reply)
      PROVE  CheckoutInv'
  BY <1>17 DEF TypeOK, RecordReply, StatusAfterReply, Finish, world
<1>18. ASSUME NEW i \in Intents, NEW e \in Events, insert_webhook_event(i, e)
      PROVE  CheckoutInv'
  BY <1>18 DEF TypeOK, insert_webhook_event, Reported, Events, world
<1>19. ASSUME NEW i \in Intents, ProcessPayment(i)
      PROVE  CheckoutInv'
  BY <1>19 DEF TypeOK, ProcessPayment, Consume, Matches, world
<1>20. ASSUME NEW i \in Intents, NEW e \in Events \ {"charge.success"}, ProcessPayout(i, e)
      PROVE  CheckoutInv'
  BY <1>20 DEF TypeOK, ProcessPayout, Consume, Open, Recorded, Events, world
<1>21. ASSUME NEW i \in Intents, World(i)
      PROVE  CheckoutInv'
  <2>1. UNCHANGED <<status, checkout, job, calls>>
    BY <1>21 DEF World, ExpireQuote, OpenCheckout, PayCheckout, FundDeposit, MoveBankTransfer, stored
  <2>2. \A c \in Intents : charge[c] = "none" => charge'[c] = "none"
    BY <1>21 DEF World, ExpireQuote, OpenCheckout, PayCheckout, FundDeposit, MoveBankTransfer, TypeOK
  <2> QED
    BY <2>1, <2>2
<1>22. ASSUME NEW j \in Jobs, Abandon(j)
      PROVE  CheckoutInv'
  BY <1>22 DEF TypeOK, Abandon, Finish, stored, world
<1>23. ASSUME UNCHANGED vars
      PROVE  CheckoutInv'
  BY <1>23 DEF TypeOK, vars, stored, world
<1> QED
  BY <1>1, <1>2, <1>3, <1>4, <1>5, <1>6, <1>7, <1>8, <1>9, <1>10, <1>11, <1>12,
     <1>13, <1>14, <1>15, <1>16, <1>17, <1>18, <1>19, <1>20, <1>21, <1>22, <1>23
  DEF Next, Request, Webhook, JobStep

\* Every step keeps what was reported true.
LEMMA ReportNext ==
    ASSUME TypeOK, PromiseInv, ReportInv, [Next]_vars
    PROVE  ReportInv'
<1> USE DEF ReportInv
<1>1. ASSUME NEW i \in Intents, NEW j \in Jobs,
             \/ ReserveCheckout(j, i) \/ ClaimDisbursement(j, i)
             \/ \E t \in Txs : ClaimDeposit(j, i, t)
      PROVE  ReportInv'
  BY <1>1 DEF TypeOK, ReserveCheckout, ClaimDisbursement, ClaimDeposit, stored, world
<1>2. ASSUME NEW i \in Intents, NEW j \in Jobs,
             \/ \E a \in {"ready", "unknown"} : SaveCheckout(j, i, a)
             \/ \E t \in Txs : RecordDeposit(j, i, t)
             \/ VerifyPayment(j, i) \/ SignTransfer(j, i) \/ SkipPayout(j, i)
      PROVE  ReportInv'
  BY <1>2 DEF TypeOK, SaveCheckout, RecordDeposit, VerifyPayment, SignTransfer, SkipPayout, stored, world
<1>3. ASSUME NEW i \in Intents, NEW j \in Jobs,
             FailDisbursement(j, i) \/ \E final \in BOOLEAN : RecordDisbursement(j, i, final)
      PROVE  ReportInv'
  BY <1>3 DEF TypeOK, FailDisbursement, RecordDisbursement, world
<1>4. ASSUME UNCHANGED vars \/ \E j \in Jobs : Abandon(j)
      PROVE  ReportInv'
  BY <1>4 DEF TypeOK, Abandon, vars, stored, world
<1>5. ASSUME ConfirmDeposits
      PROVE  ReportInv'
  BY <1>5 DEF TypeOK, ConfirmDeposits, world
<1>6. ASSUME NEW i \in Intents, NEW k \in Kinds, NEW r \in BOOLEAN, create_intent(i, k, r)
      PROVE  ReportInv'
  BY <1>6 DEF TypeOK, create_intent, Kinds, world
<1>7. ASSUME NEW i \in Intents, prepare_signature(i)
      PROVE  ReportInv'
  BY <1>7 DEF TypeOK, prepare_signature, world
<1>8. ASSUME NEW i \in Intents, NEW j \in Jobs, SendCheckout(j, i)
      PROVE  ReportInv'
  BY <1>8 DEF TypeOK, SendCheckout, Continue, CallOf, stored
<1>9. ASSUME NEW i \in Intents, NEW j \in Jobs, ClaimPayout(j, i)
      PROVE  ReportInv'
  BY <1>9 DEF TypeOK, ClaimPayout, Begin, world
<1>10. ASSUME NEW i \in Intents, NEW j \in Jobs, SendPayout(j, i)
      PROVE  ReportInv'
  <2>1. payout[i] # "none"
    BY <1>10 DEF SendPayout, PromiseInv, JobInv, Dispatches, At
  <2> QED
    BY <1>10, <2>1 DEF TypeOK, SendPayout, stored
<1>11. ASSUME NEW i \in Intents, NEW j \in Jobs, NEW reply \in Replies, RecordReply(j, i, reply)
      PROVE  ReportInv'
  BY <1>11, RepliesAssumption DEF TypeOK, RecordReply, world
<1>12. ASSUME NEW i \in Intents, NEW e \in Events, insert_webhook_event(i, e)
      PROVE  ReportInv'
  <2>1. CASE e = "charge.success"
    BY <1>12, <2>1 DEF TypeOK, insert_webhook_event, Reported, Events, world
  <2>2. CASE e = "transfer.success"
    BY <1>12, <2>2 DEF TypeOK, insert_webhook_event, Reported, Events, world
  <2>3. CASE e = "transfer.failed"
    BY <1>12, <2>3 DEF TypeOK, insert_webhook_event, Reported, Events, world
  <2>4. CASE e = "transfer.reversed"
    BY <1>12, <2>4 DEF TypeOK, insert_webhook_event, Reported, Events, world
  <2> QED
    BY <2>1, <2>2, <2>3, <2>4 DEF Events
<1>13. ASSUME NEW i \in Intents, ProcessPayment(i)
      PROVE  ReportInv'
  BY <1>13 DEF TypeOK, ProcessPayment, Consume, Matches, world
<1>14. ASSUME NEW i \in Intents, NEW e \in Events \ {"charge.success"}, ProcessPayout(i, e)
      PROVE  ReportInv'
  BY <1>14 DEF TypeOK, ProcessPayout, Consume, Open, Recorded, Events, world
<1>15. ASSUME NEW i \in Intents, World(i)
      PROVE  ReportInv'
  <2>1. CASE ExpireQuote(i)
    BY <2>1 DEF TypeOK, ExpireQuote, stored
  <2>2. CASE OpenCheckout(i) \/ PayCheckout(i)
    BY <2>2 DEF TypeOK, OpenCheckout, PayCheckout, stored
  <2>3. CASE \E t \in Txs : FundDeposit(i, t)
    BY <2>3 DEF TypeOK, FundDeposit, stored
  <2>4. ASSUME NEW b, MoveBankTransfer(i, b) PROVE ReportInv'
    BY <2>4 DEF TypeOK, MoveBankTransfer, stored
  <2> QED
    BY <1>15, <2>1, <2>2, <2>3, <2>4 DEF World
<1> QED
  BY <1>1, <1>2, <1>3, <1>4, <1>5, <1>6, <1>7, <1>8, <1>9, <1>10, <1>11, <1>12,
     <1>13, <1>14, <1>15
  DEF Next, Request, Webhook, JobStep

\* Every step keeps a disbursement the only thing that moves its intent.
LEMMA DisburseNext ==
    ASSUME TypeOK, PromiseInv, DisburseInv, [Next]_vars
    PROVE  DisburseInv'
<1> USE NoneAssumption DEF DisburseInv, Disburses, At, Idle
<1>1. ASSUME NEW i \in Intents, NEW k \in Kinds, NEW r \in BOOLEAN, create_intent(i, k, r)
      PROVE  DisburseInv'
  <2>1. kind[i] = "none"
    BY <1>1 DEF create_intent, PromiseInv, AttemptInv
  <2> QED
    BY <1>1, <2>1 DEF TypeOK, create_intent, Kinds, world
<1>2. ASSUME NEW i \in Intents, prepare_signature(i)
      PROVE  DisburseInv'
  BY <1>2 DEF TypeOK, prepare_signature, world
<1>3. ASSUME NEW i \in Intents, NEW j \in Jobs, ReserveCheckout(j, i)
      PROVE  DisburseInv'
  BY <1>3 DEF TypeOK, ReserveCheckout, Unreserved, Begin, world
<1>4. ASSUME NEW i \in Intents, NEW j \in Jobs, SendCheckout(j, i)
      PROVE  DisburseInv'
  BY <1>4 DEF TypeOK, SendCheckout, Continue, CallOf, stored
<1>5. ASSUME NEW i \in Intents, NEW j \in Jobs, NEW a \in {"ready", "unknown"}, SaveCheckout(j, i, a)
      PROVE  DisburseInv'
  BY <1>5 DEF TypeOK, SaveCheckout, CheckoutState, Finish, world
<1>6. ASSUME NEW i \in Intents, NEW j \in Jobs, NEW t \in Txs, ClaimDeposit(j, i, t)
      PROVE  DisburseInv'
  BY <1>6 DEF TypeOK, ClaimDeposit, Begin, stored, world
<1>7. ASSUME NEW i \in Intents, NEW j \in Jobs, NEW t \in Txs, RecordDeposit(j, i, t)
      PROVE  DisburseInv'
  BY <1>7 DEF TypeOK, RecordDeposit, Finish, world
<1>8. ASSUME ConfirmDeposits
      PROVE  DisburseInv'
  BY <1>8 DEF TypeOK, ConfirmDeposits, world
<1>9. ASSUME NEW i \in Intents, NEW j \in Jobs, ClaimDisbursement(j, i)
      PROVE  DisburseInv'
  BY <1>9 DEF TypeOK, ClaimDisbursement, Begin, world
<1>10. ASSUME NEW i \in Intents, NEW j \in Jobs, VerifyPayment(j, i)
      PROVE  DisburseInv'
  <2>1. job[j] \in JobRecords
    BY <1>10, BusyJob DEF VerifyPayment
  <2>2. /\ \A k \in Jobs : k # j => job'[k] = job[k]
        /\ job'[j].at = "sign" /\ job'[j].intent = job[j].intent
    BY <1>10, <2>1 DEF VerifyPayment, Continue, TypeOK, JobRecords
  <2>3. UNCHANGED <<kind, status, disbursed>>
    BY <1>10 DEF VerifyPayment, stored
  <2>4. job[j].at = "disburse"
    BY <1>10 DEF VerifyPayment
  <2> QED
    BY <2>2, <2>3, <2>4
<1>11. ASSUME NEW i \in Intents, NEW j \in Jobs, FailDisbursement(j, i)
      PROVE  DisburseInv'
  <2>1. /\ Disburses(j, i)
        /\ \A k \in Jobs : Disburses(k, i) => k = j
    BY <1>11 DEF FailDisbursement, PromiseInv, SoleJob
  <2>2. /\ \A k \in Jobs : k # j => job'[k] = job[k]
        /\ job'[j] = Idle
    BY <1>11 DEF FailDisbursement, Finish, TypeOK
  <2>3. /\ \A c \in Intents : c # i => status'[c] = status[c]
        /\ UNCHANGED <<kind, disbursed>>
    BY <1>11 DEF FailDisbursement, TypeOK
  <2> QED
    BY <2>1, <2>2, <2>3
<1>12. ASSUME NEW i \in Intents, NEW j \in Jobs, SignTransfer(j, i)
      PROVE  DisburseInv'
  <2>1. job[j] \in JobRecords
    BY <1>12, BusyJob DEF SignTransfer
  <2>2. /\ \A k \in Jobs : k # j => job'[k] = job[k]
        /\ job'[j].at = "signed" /\ job'[j].intent = job[j].intent
    BY <1>12, <2>1 DEF SignTransfer, Continue, TypeOK, JobRecords
  <2>3. UNCHANGED <<kind, status, disbursed>>
    BY <1>12 DEF SignTransfer, stored
  <2>4. job[j].at = "sign"
    BY <1>12 DEF SignTransfer
  <2> QED
    BY <2>2, <2>3, <2>4
<1>13. ASSUME NEW i \in Intents, NEW j \in Jobs, NEW final \in BOOLEAN, RecordDisbursement(j, i, final)
      PROVE  DisburseInv'
  <2>1. /\ Disburses(j, i) /\ kind[i] = "onramp"
        /\ \A k \in Jobs : Disburses(k, i) => k = j
    BY <1>13 DEF RecordDisbursement, PromiseInv, SoleJob, JobInv
  <2>2. /\ \A k \in Jobs : k # j => job'[k] = job[k]
        /\ job'[j] = Idle
    BY <1>13 DEF RecordDisbursement, Finish, TypeOK
  <2>3. /\ \A c \in Intents : c # i => status'[c] = status[c] /\ disbursed'[c] = disbursed[c]
        /\ kind' = kind
    BY <1>13 DEF RecordDisbursement, TypeOK
  <2>4. disbursed'[i] = "success" => status'[i] = "settlement_completed"
    BY <1>13, <2>1 DEF RecordDisbursement, TypeOK
  <2> QED
    BY <2>1, <2>2, <2>3, <2>4
<1>14. ASSUME NEW i \in Intents, NEW j \in Jobs, ClaimPayout(j, i)
      PROVE  DisburseInv'
  BY <1>14 DEF TypeOK, ClaimPayout, Begin, world
<1>15. ASSUME NEW i \in Intents, NEW j \in Jobs, SkipPayout(j, i)
      PROVE  DisburseInv'
  BY <1>15 DEF TypeOK, SkipPayout, Finish, stored, world
<1>16. ASSUME NEW i \in Intents, NEW j \in Jobs, SendPayout(j, i)
      PROVE  DisburseInv'
  BY <1>16 DEF TypeOK, SendPayout, Continue, CallOf, stored
<1>17. ASSUME NEW i \in Intents, NEW j \in Jobs, NEW reply \in Replies, RecordReply(j, i, reply)
      PROVE  DisburseInv'
  BY <1>17 DEF TypeOK, RecordReply, StatusAfterReply, Finish, world
<1>18. ASSUME NEW i \in Intents, NEW e \in Events, insert_webhook_event(i, e)
      PROVE  DisburseInv'
  BY <1>18 DEF TypeOK, insert_webhook_event, Reported, Events, world
<1>19. ASSUME NEW i \in Intents, ProcessPayment(i)
      PROVE  DisburseInv'
  BY <1>19 DEF TypeOK, ProcessPayment, Consume, Matches, world
<1>20. ASSUME NEW i \in Intents, NEW e \in Events \ {"charge.success"}, ProcessPayout(i, e)
      PROVE  DisburseInv'
  BY <1>20 DEF TypeOK, ProcessPayout, Consume, Open, Recorded, Events, world
<1>21. ASSUME NEW i \in Intents, World(i)
      PROVE  DisburseInv'
  <2>1. UNCHANGED <<kind, status, disbursed, job>>
    BY <1>21 DEF World, ExpireQuote, OpenCheckout, PayCheckout, FundDeposit, MoveBankTransfer, stored
  <2> QED
    BY <2>1
<1>22. ASSUME NEW j \in Jobs, Abandon(j)
      PROVE  DisburseInv'
  BY <1>22 DEF TypeOK, Abandon, Finish, stored, world
<1>23. ASSUME UNCHANGED vars
      PROVE  DisburseInv'
  BY <1>23 DEF TypeOK, vars, stored, world
<1> QED
  BY <1>1, <1>2, <1>3, <1>4, <1>5, <1>6, <1>7, <1>8, <1>9, <1>10, <1>11, <1>12,
     <1>13, <1>14, <1>15, <1>16, <1>17, <1>18, <1>19, <1>20, <1>21, <1>22, <1>23
  DEF Next, Request, Webhook, JobStep

\* Every step keeps a processed event recorded.
LEMMA NoEventDroppedNext ==
    ASSUME TypeOK, PromiseInv, CheckoutInv, ReportInv, NoEventDropped, [Next]_vars
    PROVE  NoEventDropped'
<1> USE DEF NoEventDropped
<1>1. ASSUME NEW i \in Intents, NEW j \in Jobs,
             \/ ReserveCheckout(j, i) \/ ClaimDisbursement(j, i)
             \/ \E t \in Txs : ClaimDeposit(j, i, t)
      PROVE  NoEventDropped'
  BY <1>1 DEF TypeOK, ReserveCheckout, ClaimDisbursement, ClaimDeposit, stored, world
<1>2. ASSUME NEW i \in Intents, NEW j \in Jobs,
             \/ \E a \in {"ready", "unknown"} : SaveCheckout(j, i, a)
             \/ \E t \in Txs : RecordDeposit(j, i, t)
             \/ VerifyPayment(j, i) \/ SignTransfer(j, i) \/ SkipPayout(j, i)
      PROVE  NoEventDropped'
  BY <1>2 DEF TypeOK, SaveCheckout, RecordDeposit, VerifyPayment, SignTransfer, SkipPayout, stored, world
<1>3. ASSUME NEW i \in Intents, NEW j \in Jobs,
             FailDisbursement(j, i) \/ \E final \in BOOLEAN : RecordDisbursement(j, i, final)
      PROVE  NoEventDropped'
  BY <1>3 DEF TypeOK, FailDisbursement, RecordDisbursement, world
<1>4. ASSUME UNCHANGED vars \/ \E j \in Jobs : Abandon(j)
      PROVE  NoEventDropped'
  BY <1>4 DEF TypeOK, Abandon, vars, stored, world
<1>5. ASSUME ConfirmDeposits
      PROVE  NoEventDropped'
  BY <1>5 DEF TypeOK, ConfirmDeposits, world
<1>6. ASSUME NEW i \in Intents, NEW k \in Kinds, NEW r \in BOOLEAN, create_intent(i, k, r)
      PROVE  NoEventDropped'
  <2>1. checkout[i] = "none" /\ charge[i] = "none"
    BY <1>6 DEF create_intent, CheckoutInv
  <2>2. inbox[i]["charge.success"] = "none"
    BY <2>1 DEF ReportInv
  <2> QED
    BY <1>6, <2>2 DEF TypeOK, create_intent, world
<1>7. ASSUME NEW i \in Intents, prepare_signature(i)
      PROVE  NoEventDropped'
  BY <1>7 DEF TypeOK, prepare_signature, world
<1>8. ASSUME NEW i \in Intents, NEW j \in Jobs, SendCheckout(j, i)
      PROVE  NoEventDropped'
  BY <1>8 DEF TypeOK, SendCheckout, Continue, CallOf, stored
<1>9. ASSUME NEW i \in Intents, NEW j \in Jobs, ClaimPayout(j, i)
      PROVE  NoEventDropped'
  <2>1. bank[i] = "none"
    BY <1>9 DEF ClaimPayout, ReportInv
  <2>2. \A e \in Events \ {"charge.success"} : inbox[i][e] = "none"
    BY <2>1 DEF ReportInv, Events
  <2> QED
    BY <1>9, <2>2 DEF TypeOK, ClaimPayout, Begin, world
<1>10. ASSUME NEW i \in Intents, NEW j \in Jobs, SendPayout(j, i)
      PROVE  NoEventDropped'
  BY <1>10 DEF TypeOK, SendPayout, Continue, CallOf, stored
<1>11. ASSUME NEW i \in Intents, NEW j \in Jobs, NEW reply \in Replies, RecordReply(j, i, reply)
      PROVE  NoEventDropped'
  BY <1>11 DEF TypeOK, RecordReply, StatusAfterReply, Finish, world
<1>12. ASSUME NEW i \in Intents, NEW e \in Events, insert_webhook_event(i, e)
      PROVE  NoEventDropped'
  BY <1>12 DEF TypeOK, insert_webhook_event, Reported, Events, world
<1>13. ASSUME NEW i \in Intents, ProcessPayment(i)
      PROVE  NoEventDropped'
  <2>1. charge[i] # "none"
    BY <1>13 DEF ProcessPayment, Consume, ReportInv
  <2>2. checkout[i] # "none"
    BY <2>1 DEF CheckoutInv
  <2>3. status'[i] # "awaiting_payment"
    BY <1>13, <2>2 DEF ProcessPayment, Matches, TypeOK
  <2>4. /\ payout' = payout /\ \A c \in Intents : c # i => status'[c] = status[c] /\ inbox'[c] = inbox[c]
        /\ \A e \in Events \ {"charge.success"} : inbox'[i][e] = inbox[i][e]
    BY <1>13 DEF ProcessPayment, Consume, TypeOK
  <2> QED
    BY <2>3, <2>4
<1>14. ASSUME NEW i \in Intents, NEW e \in Events \ {"charge.success"}, ProcessPayout(i, e)
      PROVE  NoEventDropped'
  <2>1. bank[i] # "none"
    BY <1>14 DEF ProcessPayout, Consume, ReportInv, Events
  <2>2. payout[i] # "none"
    BY <2>1 DEF ReportInv
  <2>3. payout'[i] \in {"success", "failed", "reversed"}
    BY <1>14, <2>2 DEF ProcessPayout, Open, Recorded, Events, TypeOK
  <2>4. /\ \A c \in Intents : c # i => /\ status'[c] = status[c] /\ inbox'[c] = inbox[c]
                                       /\ payout'[c] = payout[c]
        /\ inbox'[i]["charge.success"] = inbox[i]["charge.success"]
        /\ status[i] # "awaiting_payment" => status'[i] # "awaiting_payment"
    BY <1>14 DEF ProcessPayout, Consume, TypeOK, Events
  <2> QED
    BY <2>3, <2>4
<1>15. ASSUME NEW i \in Intents, World(i)
      PROVE  NoEventDropped'
  <2>1. CASE ExpireQuote(i)
    BY <2>1 DEF TypeOK, ExpireQuote, stored
  <2>2. CASE OpenCheckout(i) \/ PayCheckout(i)
    BY <2>2 DEF TypeOK, OpenCheckout, PayCheckout, stored
  <2>3. CASE \E t \in Txs : FundDeposit(i, t)
    BY <2>3 DEF TypeOK, FundDeposit, stored
  <2>4. ASSUME NEW b, MoveBankTransfer(i, b) PROVE NoEventDropped'
    BY <2>4 DEF TypeOK, MoveBankTransfer, stored
  <2> QED
    BY <1>15, <2>1, <2>2, <2>3, <2>4 DEF World
<1> QED
  BY <1>1, <1>2, <1>3, <1>4, <1>5, <1>6, <1>7, <1>8, <1>9, <1>10, <1>11, <1>12,
     <1>13, <1>14, <1>15
  DEF Next, Request, Webhook, JobStep

\* Every step keeps the outcome that the customer is told true.
LEMMA OutcomeNext ==
    ASSUME TypeOK, ReportInv, OutcomeIsTrue, [Next]_vars
    PROVE  OutcomeIsTrue'
<1> USE DEF OutcomeIsTrue
<1>1. ASSUME NEW i \in Intents, NEW j \in Jobs,
             \/ ReserveCheckout(j, i) \/ ClaimDisbursement(j, i)
             \/ \E t \in Txs : ClaimDeposit(j, i, t)
      PROVE  OutcomeIsTrue'
  BY <1>1 DEF TypeOK, ReserveCheckout, ClaimDisbursement, ClaimDeposit, stored, world
<1>2. ASSUME NEW i \in Intents, NEW j \in Jobs,
             \/ \E a \in {"ready", "unknown"} : SaveCheckout(j, i, a)
             \/ \E t \in Txs : RecordDeposit(j, i, t)
             \/ VerifyPayment(j, i) \/ SignTransfer(j, i) \/ SkipPayout(j, i)
      PROVE  OutcomeIsTrue'
  BY <1>2 DEF TypeOK, SaveCheckout, RecordDeposit, VerifyPayment, SignTransfer, SkipPayout, stored, world
<1>3. ASSUME NEW i \in Intents, NEW j \in Jobs,
             FailDisbursement(j, i) \/ \E final \in BOOLEAN : RecordDisbursement(j, i, final)
      PROVE  OutcomeIsTrue'
  BY <1>3 DEF TypeOK, FailDisbursement, RecordDisbursement, world
<1>4. ASSUME UNCHANGED vars \/ \E j \in Jobs : Abandon(j)
      PROVE  OutcomeIsTrue'
  BY <1>4 DEF TypeOK, Abandon, vars, stored, world
<1>5. ASSUME ConfirmDeposits
      PROVE  OutcomeIsTrue'
  BY <1>5 DEF TypeOK, ConfirmDeposits, world
<1>6. ASSUME NEW i \in Intents, NEW k \in Kinds, NEW r \in BOOLEAN, create_intent(i, k, r)
      PROVE  OutcomeIsTrue'
  BY <1>6 DEF TypeOK, create_intent, Kinds, world
<1>7. ASSUME NEW i \in Intents, prepare_signature(i)
      PROVE  OutcomeIsTrue'
  BY <1>7 DEF TypeOK, prepare_signature, world
<1>8. ASSUME NEW i \in Intents, NEW j \in Jobs, SendCheckout(j, i)
      PROVE  OutcomeIsTrue'
  BY <1>8 DEF TypeOK, SendCheckout, Continue, CallOf, stored
<1>9. ASSUME NEW i \in Intents, NEW j \in Jobs, ClaimPayout(j, i)
      PROVE  OutcomeIsTrue'
  BY <1>9 DEF TypeOK, ClaimPayout, Begin, world
<1>10. ASSUME NEW i \in Intents, NEW j \in Jobs, SendPayout(j, i)
      PROVE  OutcomeIsTrue'
  BY <1>10 DEF TypeOK, SendPayout, Continue, CallOf, stored
<1>11. ASSUME NEW i \in Intents, NEW j \in Jobs, NEW reply \in Replies, RecordReply(j, i, reply)
      PROVE  OutcomeIsTrue'
  BY <1>11 DEF TypeOK, RecordReply, StatusAfterReply, Finish, world
<1>12. ASSUME NEW i \in Intents, NEW e \in Events, insert_webhook_event(i, e)
      PROVE  OutcomeIsTrue'
  BY <1>12 DEF TypeOK, insert_webhook_event, Reported, Events, world
<1>13. ASSUME NEW i \in Intents, ProcessPayment(i)
      PROVE  OutcomeIsTrue'
  BY <1>13 DEF TypeOK, ProcessPayment, Consume, Matches, world
<1>14. ASSUME NEW i \in Intents, NEW e \in Events \ {"charge.success"}, ProcessPayout(i, e)
      PROVE  OutcomeIsTrue'
  <2>1. /\ e = "transfer.success" => bank[i] \in {"paid", "reversed"}
        /\ e # "transfer.success" => bank[i] \in {"failed", "reversed"}
    BY <1>14 DEF ProcessPayout, Consume, ReportInv, Events
  <2> QED
    BY <1>14, <2>1 DEF TypeOK, ProcessPayout, world
<1>15. ASSUME NEW i \in Intents, World(i)
      PROVE  OutcomeIsTrue'
  <2>1. CASE ExpireQuote(i)
    BY <2>1 DEF TypeOK, ExpireQuote, stored
  <2>2. CASE OpenCheckout(i) \/ PayCheckout(i)
    BY <2>2 DEF TypeOK, OpenCheckout, PayCheckout, stored
  <2>3. CASE \E t \in Txs : FundDeposit(i, t)
    BY <2>3 DEF TypeOK, FundDeposit, stored
  <2>4. ASSUME NEW b, MoveBankTransfer(i, b) PROVE OutcomeIsTrue'
    BY <2>4 DEF TypeOK, MoveBankTransfer, stored
  <2> QED
    BY <1>15, <2>1, <2>2, <2>3, <2>4 DEF World
<1> QED
  BY <1>1, <1>2, <1>3, <1>4, <1>5, <1>6, <1>7, <1>8, <1>9, <1>10, <1>11, <1>12,
     <1>13, <1>14, <1>15
  DEF Next, Request, Webhook, JobStep

\* The invariants behind the checkout, the events and the disbursement hold in
\* every reachable state of the service.
THEOREM LedgerInvariant ==
    Spec => [](CheckoutInv /\ ReportInv /\ DisburseInv /\ NoEventDropped /\ OutcomeIsTrue)
<1>1. Init => CheckoutInv /\ ReportInv /\ DisburseInv /\ NoEventDropped /\ OutcomeIsTrue
  BY NoneAssumption DEF Init, CheckoutInv, ReportInv, DisburseInv, NoEventDropped,
     OutcomeIsTrue, Disburses, At, Idle, Events, Calls
<1>2. /\ TypeOK /\ PromiseInv /\ CheckoutInv /\ ReportInv /\ DisburseInv
      /\ NoEventDropped /\ OutcomeIsTrue /\ [Next]_vars
      => (CheckoutInv /\ ReportInv /\ DisburseInv /\ NoEventDropped /\ OutcomeIsTrue)'
  BY CheckoutNext, ReportNext, DisburseNext, NoEventDroppedNext, OutcomeNext
<1> QED
  BY <1>1, <1>2, PromiseInvariant, PTL DEF Spec

\* Concurrent, repeated and crashed payment requests ask the provider for one
\* checkout per intent (initialize_payment).
THEOREM CheckoutOnce == Spec => []OneCheckout
<1>1. CheckoutInv => OneCheckout
  BY DEF CheckoutInv, OneCheckout
<1> QED
  BY <1>1, LedgerInvariant, PTL

\* What the customer is told about a payout agrees with the bank (the webhook
\* processing and the reply of the dispatch pass).
THEOREM OutcomeTrue == Spec => []OutcomeIsTrue
BY LedgerInvariant, PTL

\* No event that reports money is consumed without effect (process_webhooks).
THEOREM EventsRecorded == Spec => []NoEventDropped
BY LedgerInvariant, PTL

\* A terminal status, a finished disbursement and a successful payout stay.
LEMMA SettledStep ==
    ASSUME TypeOK, PromiseInv, DisburseInv, [Next]_vars, NEW i \in Intents
    PROVE  /\ status[i] \in Terminal => status'[i] = status[i]
           /\ disbursed[i] = "success" => /\ disbursed'[i] = "success"
                                          /\ status'[i] = "settlement_completed"
           /\ payout[i] = "success" => payout'[i] = "success"
<1> DEFINE Stays(c) ==
             /\ status[c] \in Terminal => status'[c] = status[c]
             /\ disbursed[c] = "success" => /\ disbursed'[c] = "success"
                                            /\ status'[c] = "settlement_completed"
             /\ payout[c] = "success" => payout'[c] = "success"
<1> HIDE DEF Stays
<1>1. ASSUME status'[i] = status[i], disbursed'[i] = disbursed[i], payout'[i] = payout[i]
      PROVE  Stays(i)
  BY <1>1 DEF Stays, DisburseInv
<1>2. ASSUME NEW c \in Intents, NEW k \in Kinds, NEW r \in BOOLEAN, create_intent(c, k, r)
      PROVE  Stays(i)
  BY <1>2 DEF Stays, create_intent, TypeOK, Terminal, DisburseInv
<1>3. ASSUME NEW c \in Intents, prepare_signature(c) \/ ProcessPayment(c)
      PROVE  Stays(i)
  BY <1>3 DEF Stays, prepare_signature, ProcessPayment, Matches, TypeOK, Terminal, DisburseInv
<1>4. ASSUME ConfirmDeposits
      PROVE  Stays(i)
  BY <1>4 DEF Stays, ConfirmDeposits, TypeOK, Terminal, DisburseInv
<1>5. ASSUME NEW c \in Intents, NEW j \in Jobs, ClaimDisbursement(j, c)
      PROVE  Stays(i)
  BY <1>5 DEF Stays, ClaimDisbursement, TypeOK, Terminal, DisburseInv
<1>6. ASSUME NEW c \in Intents, NEW j \in Jobs, ClaimPayout(j, c)
      PROVE  Stays(i)
  BY <1>6 DEF Stays, ClaimPayout, TypeOK, Terminal, DisburseInv
<1>7. ASSUME NEW c \in Intents, NEW j \in Jobs,
             FailDisbursement(j, c) \/ \E final \in BOOLEAN : RecordDisbursement(j, c, final)
      PROVE  Stays(i)
  <2>1. status[c] = "settlement_in_progress" /\ disbursed[c] = "none"
    BY <1>7 DEF FailDisbursement, RecordDisbursement, DisburseInv, Disburses, At
  <2> QED
    BY <1>7, <2>1 DEF Stays, FailDisbursement, RecordDisbursement, TypeOK, Terminal, DisburseInv
<1>8. ASSUME NEW c \in Intents, NEW j \in Jobs, NEW reply \in Replies, RecordReply(j, c, reply)
      PROVE  Stays(i)
  BY <1>8 DEF Stays, RecordReply, StatusAfterReply, TypeOK, Terminal, DisburseInv
<1>9. ASSUME NEW c \in Intents, NEW e \in Events \ {"charge.success"}, ProcessPayout(c, e)
      PROVE  Stays(i)
  BY <1>9 DEF Stays, ProcessPayout, Open, TypeOK, Terminal, DisburseInv
<1>10. ASSUME NEW c \in Intents, NEW j \in Jobs,
              \/ ReserveCheckout(j, c) \/ SendCheckout(j, c)
              \/ \E a \in {"ready", "unknown"} : SaveCheckout(j, c, a)
              \/ \E t \in Txs : ClaimDeposit(j, c, t) \/ RecordDeposit(j, c, t)
              \/ VerifyPayment(j, c) \/ SignTransfer(j, c)
              \/ SkipPayout(j, c) \/ SendPayout(j, c)
       PROVE  Stays(i)
  BY <1>1, <1>10 DEF ReserveCheckout, SendCheckout, SaveCheckout, ClaimDeposit, RecordDeposit,
     VerifyPayment, SignTransfer, SkipPayout, SendPayout, stored
<1>11. ASSUME NEW c \in Intents, World(c) \/ \E e \in Events : insert_webhook_event(c, e)
       PROVE  Stays(i)
  BY <1>1, <1>11 DEF World, ExpireQuote, OpenCheckout, PayCheckout, FundDeposit,
     MoveBankTransfer, insert_webhook_event, stored
<1>12. ASSUME UNCHANGED vars \/ \E j \in Jobs : Abandon(j)
       PROVE  Stays(i)
  BY <1>1, <1>12 DEF Abandon, vars, stored
<1>13. Stays(i)
  BY <1>2, <1>3, <1>4, <1>5, <1>6, <1>7, <1>8, <1>9, <1>10, <1>11, <1>12
  DEF Next, Request, Webhook, JobStep
<1> QED
  BY <1>13 DEF Stays

\* A late reply or webhook undoes no terminal status, finished disbursement or
\* successful payout.
THEOREM SettledForever == Spec => SettledIsForever
<1>1. TypeOK /\ PromiseInv /\ DisburseInv /\ [Next]_vars =>
        [\A i \in Intents :
           /\ status[i] \in Terminal => status'[i] = status[i]
           /\ disbursed[i] = "success" => /\ disbursed'[i] = "success"
                                          /\ status'[i] = "settlement_completed"
           /\ payout[i] = "success" => payout'[i] = "success"]_vars
  BY SettledStep
<1> QED
  BY <1>1, PromiseInvariant, LedgerInvariant, PTL DEF Spec, SettledIsForever
===============================================================================
