------------------------------ MODULE Settlement ------------------------------
(***************************************************************************)
(* The settlement service (apps/settlement): ramp intents in Postgres, the *)
(* request handlers that create, sign for and pay them, the workers that   *)
(* disburse treasury assets and dispatch bank payouts, and the webhook     *)
(* inbox the payment provider writes to.                                   *)
(*                                                                         *)
(* An action is one database transaction, one message of a remote call, or *)
(* one step of the provider, the user or the chain.  A job is a handler or *)
(* worker pass between two such steps: it holds what the code keeps in     *)
(* local variables and is lost in a crash.  Any number of jobs run at once *)
(* (requests are concurrent, and the service may run on several hosts:     *)
(* every pass claims its rows with FOR UPDATE SKIP LOCKED).                *)
(***************************************************************************)
EXTENDS Naturals, FiniteSets

CONSTANTS
    Intents,    \* ids of ramp intents
    Jobs,       \* handlers and worker passes that may run at the same time
    Txs,        \* deposit transactions on the source chain
    Replies,    \* statuses the provider's reply to a payout may carry
    None

ASSUME NoneAssumption == None \notin Intents \union Txs

\* "none" stands for a payout row that does not exist.
ASSUME RepliesAssumption == "none" \notin Replies

VARIABLES
    kind,       \* ramp_intents.intent_type
    status,     \* ramp_intents.status
    checkout,   \* metadata.checkout_initialization_state (the reference is set
                \* exactly when it is not "none")
    routed,     \* the intent names a usable destination wallet or bank recipient
    expired,    \* the executable quote has expired
    disbursed,  \* ramp_disbursements.status
    credit,     \* verified rows of ramp_chain_transfers: the intent of a deposit
    payout,     \* ramp_payouts.provider_status
    inbox,      \* ramp_webhook_inbox, per intent and event
    job,        \* the jobs in progress
    charge,     \* the hosted checkout at the payment provider
    deposit,    \* deposits on chain: the intent whose reference they carry
    bank,       \* the bank transfer at the payment provider
    calls       \* remote calls made, per intent: nothing in the code reads it

stored == <<kind, status, checkout, routed, disbursed, credit, payout, inbox>>
world  == <<expired, charge, deposit, bank>>
vars   == <<stored, world, job, calls>>

Kinds == {"onramp", "offramp"}

\* The statuses the service writes; "none" is an intent that does not exist.
Statuses ==
    {"none", "awaiting_user_transfer_signature",
     "awaiting_user_transfer_confirmation", "awaiting_payment",
     "payment_confirmed", "settlement_in_progress", "settlement_completed",
     "payout_in_progress", "payout_completed", "failed",
     "manual_review_required"}

\* IntentStatus::is_terminal, without the statuses nothing ever writes.
Terminal == {"payout_completed", "failed", "manual_review_required"}

Events == {"charge.success", "transfer.success", "transfer.failed",
           "transfer.reversed"}

\* The remote calls that move or ask for money.
Calls == {"checkout", "transfer", "payout"}

Stages == {"checkout", "checkout_sent", "verify_deposit", "disburse",
           "sign", "signed", "payout", "payout_sent"}

Idle == [at |-> "idle", intent |-> None, tx |-> None]

Init ==
    /\ kind = [i \in Intents |-> "none"]
    /\ status = [i \in Intents |-> "none"]
    /\ checkout = [i \in Intents |-> "none"]
    /\ routed = [i \in Intents |-> FALSE]
    /\ expired = [i \in Intents |-> FALSE]
    /\ disbursed = [i \in Intents |-> "none"]
    /\ credit = [t \in Txs |-> None]
    /\ payout = [i \in Intents |-> "none"]
    /\ inbox = [i \in Intents |-> [e \in Events |-> "none"]]
    /\ job = [j \in Jobs |-> Idle]
    /\ charge = [i \in Intents |-> "none"]
    /\ deposit = [t \in Txs |-> [intent |-> None, late |-> FALSE]]
    /\ bank = [i \in Intents |-> "none"]
    /\ calls = [i \in Intents |-> [c \in Calls |-> 0]]

------------------------------------------------------------------------------
(* Jobs.                                                                    *)

\* Job j starts on intent i (and deposit t) at stage s.
Begin(j, s, i, t) ==
    /\ job[j] = Idle
    /\ job' = [job EXCEPT ![j] = [at |-> s, intent |-> i, tx |-> t]]

\* Job j is at stage s of its work on intent i.
At(j, s, i) == job[j].at = s /\ job[j].intent = i

Continue(j, s) == job' = [job EXCEPT ![j].at = s]

\* Fault variant of Finish: the job forgets its stage but not its intent.
FinishKeepingIntent(j) == job' = [job EXCEPT ![j].at = "idle"]

Finish(j) == job' = [job EXCEPT ![j] = Idle]

CallOf(i, c) == calls' = [calls EXCEPT ![i][c] = @ + 1]

\* The process dies, or an error leaves the job early.  The database keeps
\* what was committed; nothing takes the attempt up again.
Abandon(j) ==
    /\ job[j] # Idle
    /\ Finish(j)
    /\ UNCHANGED <<stored, world, calls>>

------------------------------------------------------------------------------
(* Requests on an intent.                                                   *)

\* POST /v1/ramp/intents.  The quote, the account lookups and the inserts are
\* one transaction; the recipient may be missing or the provider may fail to
\* create it, and the intent is stored all the same.
create_intent(i, k, r) ==
    /\ status[i] = "none"
    /\ kind' = [kind EXCEPT ![i] = k]
    /\ status' = [status EXCEPT ![i] =
                    IF k = "offramp" THEN "awaiting_user_transfer_signature"
                                     ELSE "awaiting_payment"]
    /\ routed' = [routed EXCEPT ![i] = r]
    /\ UNCHANGED <<checkout, disbursed, credit, payout, inbox, world, job, calls>>

\* POST prepare-signature: snapshots the treasury and the deposit reference.
prepare_signature(i) ==
    /\ status[i] = "awaiting_user_transfer_signature"
    /\ ~expired[i]
    /\ status' = [status EXCEPT ![i] = "awaiting_user_transfer_confirmation"]
    /\ UNCHANGED <<kind, checkout, routed, disbursed, credit, payout, inbox,
                   world, job, calls>>

\* Fault variant of Unreserved: an attempt that did not finish is tried again.
ForgetsReservation(i) == checkout[i] # "ready"

\* Neither a reference nor the trace of an earlier checkout.
Unreserved(i) == checkout[i] = "none"

\* initialize_payment, first transaction: the reference is committed before the
\* provider is called.
ReserveCheckout(j, i) ==
    /\ kind[i] = "onramp"
    /\ status[i] = "awaiting_payment"
    /\ ~expired[i]
    /\ Unreserved(i)
    /\ Begin(j, "checkout", i, None)
    /\ checkout' = [checkout EXCEPT ![i] = "initializing"]
    /\ UNCHANGED <<kind, status, routed, disbursed, credit, payout, inbox,
                   world, calls>>

\* The request to open a hosted checkout leaves; its outcome is open.
SendCheckout(j, i) ==
    /\ At(j, "checkout", i)
    /\ Continue(j, "checkout_sent")
    /\ CallOf(i, "checkout")
    /\ charge' = [charge EXCEPT ![i] = IF @ = "none" THEN "asked" ELSE @]
    /\ UNCHANGED <<stored, expired, deposit, bank>>

\* The state an answer leaves: a webhook may have advanced the intent meanwhile.
CheckoutState(i, answer) ==
    IF status[i] = "awaiting_payment" /\ checkout[i] = "initializing"
    THEN answer ELSE checkout[i]

\* The provider's answer: "ready" with a payable link, or "unknown" for an
\* error, a timeout or a reference that does not match.
SaveCheckout(j, i, answer) ==
    /\ At(j, "checkout_sent", i)
    /\ answer = "ready" => charge[i] \in {"open", "paid", "late"}
    /\ checkout' = [checkout EXCEPT ![i] = CheckoutState(i, answer)]
    /\ Finish(j)
    /\ UNCHANGED <<kind, status, routed, disbursed, credit, payout, inbox,
                   world, calls>>

\* confirm_deposit up to the proof: the claim names an intent that has a
\* treasury snapshot, and its deposit is not recorded yet.
ClaimDeposit(j, i, t) ==
    /\ kind[i] = "offramp"
    /\ status[i] # "awaiting_user_transfer_signature"
    /\ credit[t] # i
    /\ Begin(j, "verify_deposit", i, t)
    /\ UNCHANGED <<stored, world, calls>>

\* fetch_and_verify: finalized, in time, to the treasury, with the reference of
\* this intent.
Proven(i, t) == deposit[t] = [intent |-> i, late |-> FALSE]

\* One verified deposit per intent and one intent per transaction output.
Unclaimed(i, t) == credit[t] = None /\ \A u \in Txs : credit[u] # i

\* confirm_deposit after the proof, under the row lock.
RecordDeposit(j, i, t) ==
    /\ At(j, "verify_deposit", i)
    /\ job[j].tx = t
    /\ Proven(i, t)
    /\ Finish(j)
    /\ credit' = IF status[i] = "awaiting_user_transfer_confirmation"
                    /\ Unclaimed(i, t)
                 THEN [credit EXCEPT ![t] = i] ELSE credit
    /\ UNCHANGED <<kind, status, checkout, routed, disbursed, payout, inbox,
                   world, calls>>

------------------------------------------------------------------------------
(* Workers.                                                                 *)

\* run_chain_confirmation_pass
ConfirmDeposits ==
    LET S == {i \in Intents : /\ status[i] = "awaiting_user_transfer_confirmation"
                              /\ \E t \in Txs : credit[t] = i}
    IN  /\ S # {}
        /\ status' = [i \in Intents |-> IF i \in S THEN "settlement_completed"
                                                   ELSE status[i]]
        /\ UNCHANGED <<kind, checkout, routed, disbursed, credit, payout, inbox,
                       world, job, calls>>

\* Fault variant of ClaimDisbursement: the row is read, but not claimed.
ClaimWithoutCommit(j, i) ==
    /\ kind[i] = "onramp"
    /\ status[i] = "payment_confirmed"
    /\ disbursed[i] = "none"
    /\ Begin(j, "disburse", i, None)
    /\ UNCHANGED <<stored, world, calls>>

\* run_disbursement_pass, first transaction: the attempt is committed before
\* anything is verified, signed or sent.
ClaimDisbursement(j, i) ==
    /\ kind[i] = "onramp"
    /\ status[i] = "payment_confirmed"
    /\ disbursed[i] = "none"
    /\ Begin(j, "disburse", i, None)
    /\ status' = [status EXCEPT ![i] = "settlement_in_progress"]
    /\ UNCHANGED <<kind, checkout, routed, disbursed, credit, payout, inbox,
                   world, calls>>

\* verify_checkout, verify_payment and verify_funding_deadline succeed.
PaymentVerified(i) == charge[i] = "paid"

VerifyPayment(j, i) ==
    /\ At(j, "disburse", i)
    /\ routed[i]
    /\ PaymentVerified(i)
    /\ Continue(j, "sign")
    /\ UNCHANGED <<stored, world, calls>>

\* No wallet, a payment that does not verify (or a provider that cannot be
\* reached), or a signer that fails, before or after the broadcast.
FailDisbursement(j, i) ==
    /\ \E s \in {"disburse", "sign", "signed"} : At(j, s, i)
    /\ status' = [status EXCEPT ![i] = "manual_review_required"]
    /\ Finish(j)
    /\ UNCHANGED <<kind, checkout, routed, disbursed, credit, payout, inbox,
                   world, calls>>

\* SignerEngine::transfer signs and broadcasts.
SignTransfer(j, i) ==
    /\ At(j, "sign", i)
    /\ Continue(j, "signed")
    /\ CallOf(i, "transfer")
    /\ UNCHANGED <<stored, world>>

\* The signer answered: Solana transfers are final, the others only submitted.
RecordDisbursement(j, i, final) ==
    /\ At(j, "signed", i)
    /\ disbursed' = IF disbursed[i] = "none"
                    THEN [disbursed EXCEPT ![i] = IF final THEN "success"
                                                           ELSE "submitted"]
                    ELSE disbursed
    /\ status' = [status EXCEPT ![i] = IF final THEN "settlement_completed"
                                                ELSE "settlement_in_progress"]
    /\ Finish(j)
    /\ UNCHANGED <<kind, checkout, routed, credit, payout, inbox, world, calls>>

\* run_payout_dispatch_pass, first transaction.
ClaimPayout(j, i) ==
    /\ kind[i] = "offramp"
    /\ status[i] = "settlement_completed"
    /\ \E t \in Txs : credit[t] = i
    /\ payout[i] = "none"
    /\ Begin(j, "payout", i, None)
    /\ status' = [status EXCEPT ![i] = "payout_in_progress"]
    /\ payout' = [payout EXCEPT ![i] = "unknown"]
    /\ UNCHANGED <<kind, checkout, routed, disbursed, credit, inbox, world, calls>>

\* A missing recipient skips the payout: the claim stays behind.
SkipPayout(j, i) ==
    /\ At(j, "payout", i)
    /\ ~routed[i]
    /\ Finish(j)
    /\ UNCHANGED <<stored, world, calls>>

SendPayout(j, i) ==
    /\ At(j, "payout", i)
    /\ routed[i]
    /\ Continue(j, "payout_sent")
    /\ CallOf(i, "payout")
    /\ bank' = [bank EXCEPT ![i] = IF @ = "none" THEN "asked" ELSE @]
    /\ UNCHANGED <<stored, expired, charge, deposit>>

\* Fault variant: acceptance is taken for completion.
CompletesEarly(i, accepted) ==
    IF status[i] = "payout_in_progress"
    THEN IF accepted THEN "payout_completed" ELSE "manual_review_required"
    ELSE status[i]

\* The status of the intent after the provider's reply, unless a webhook has
\* moved it already.
StatusAfterReply(i, accepted) ==
    IF status[i] = "payout_in_progress" /\ ~accepted
    THEN "manual_review_required" ELSE status[i]

\* The second transaction of the dispatch: the provider accepted the payout,
\* with a status of its own, or refused it.
RecordReply(j, i, reply) ==
    /\ At(j, "payout_sent", i)
    /\ bank[i] \notin {"none", "asked"}
    /\ reply = "failed" <=> bank[i] = "refused"
    /\ reply = "success" => bank[i] = "paid"
    /\ payout' = [payout EXCEPT ![i] = IF @ = "unknown" THEN reply ELSE @]
    /\ status' = [status EXCEPT ![i] = StatusAfterReply(i, bank[i] # "refused")]
    /\ Finish(j)
    /\ UNCHANGED <<kind, checkout, routed, disbursed, credit, inbox, world, calls>>

------------------------------------------------------------------------------
(* Webhooks.                                                                *)

\* The events an honest provider sends about intent i.
Reported(i, e) ==
    CASE e = "charge.success"    -> charge[i] \in {"paid", "late"}
      [] e = "transfer.success"  -> bank[i] \in {"paid", "reversed"}
      [] e = "transfer.failed"   -> bank[i] = "failed"
      [] e = "transfer.reversed" -> bank[i] = "reversed"

\* The webhook handler stores an event once; a repeated one has no effect.
insert_webhook_event(i, e) ==
    /\ Reported(i, e)
    /\ inbox[i][e] = "none"
    /\ inbox' = [inbox EXCEPT ![i][e] = "queued"]
    /\ UNCHANGED <<kind, status, checkout, routed, disbursed, credit, payout,
                   world, job, calls>>

\* The event is marked processed whether or not it had an effect.
Consume(i, e) ==
    /\ inbox[i][e] = "queued"
    /\ inbox' = [inbox EXCEPT ![i][e] = "done"]

\* A payment matches the intent that holds its reference.
Matches(i) == checkout[i] # "none" /\ status[i] = "awaiting_payment"

ProcessPayment(i) ==
    /\ Consume(i, "charge.success")
    /\ status' = [status EXCEPT ![i] = IF Matches(i) THEN "payment_confirmed" ELSE @]
    /\ UNCHANGED <<kind, checkout, routed, disbursed, credit, payout, world, job,
                   calls>>

\* Fault variant of Open: a payout whose reply is outstanding is not there yet.
OpenOnceAnswered(i) == payout[i] \notin {"none", "success", "unknown"}

\* A payout event takes effect once its row exists and has not succeeded.
Open(i) == payout[i] \notin {"none", "success"}

\* What an event makes of the payout row.
Recorded(e) ==
    CASE e = "transfer.success"  -> "success"
      [] e = "transfer.failed"   -> "failed"
      [] e = "transfer.reversed" -> "reversed"

ProcessPayout(i, e) ==
    /\ Consume(i, e)
    /\ payout' = IF Open(i) THEN [payout EXCEPT ![i] = Recorded(e)] ELSE payout
    /\ status' = IF Open(i) /\ status[i] = "payout_in_progress"
                 THEN [status EXCEPT ![i] =
                         IF e = "transfer.success" THEN "payout_completed"
                                                   ELSE "failed"]
                 ELSE status
    /\ UNCHANGED <<kind, checkout, routed, disbursed, credit, world, job, calls>>

------------------------------------------------------------------------------
(* The provider, the user, the chain and the clock.                         *)

ExpireQuote(i) ==
    /\ status[i] # "none"
    /\ ~expired[i]
    /\ expired' = [expired EXCEPT ![i] = TRUE]
    /\ UNCHANGED <<stored, charge, deposit, bank, job, calls>>

\* The checkout request may reach the provider after the caller gave up on it.
OpenCheckout(i) ==
    /\ charge[i] = "asked"
    /\ charge' = [charge EXCEPT ![i] = "open"]
    /\ UNCHANGED <<stored, expired, deposit, bank, job, calls>>

PayCheckout(i) ==
    /\ charge[i] = "open"
    /\ charge' = [charge EXCEPT ![i] = IF expired[i] THEN "late" ELSE "paid"]
    /\ UNCHANGED <<stored, expired, deposit, bank, job, calls>>

\* A deposit with the reference of intent i becomes final; it is late when its
\* block is later than the quote's expiry.
FundDeposit(i, t) ==
    /\ kind[i] = "offramp"
    /\ status[i] # "awaiting_user_transfer_signature"
    /\ deposit[t].intent = None
    /\ deposit' = [deposit EXCEPT ![t] = [intent |-> i, late |-> expired[i]]]
    /\ UNCHANGED <<stored, expired, charge, bank, job, calls>>

\* A bank transfer is refused, or taken up and then paid or failed; what was
\* paid may still come back.
MoveBankTransfer(i, b) ==
    /\ \/ bank[i] = "asked" /\ b \in {"processing", "refused"}
       \/ bank[i] = "processing" /\ b \in {"paid", "failed"}
       \/ bank[i] = "paid" /\ b = "reversed"
    /\ bank' = [bank EXCEPT ![i] = b]
    /\ UNCHANGED <<stored, expired, charge, deposit, job, calls>>

World(i) ==
    \/ ExpireQuote(i)
    \/ OpenCheckout(i)
    \/ PayCheckout(i)
    \/ \E t \in Txs : FundDeposit(i, t)
    \/ \E b \in {"processing", "refused", "paid", "failed", "reversed"} :
          MoveBankTransfer(i, b)

------------------------------------------------------------------------------
Request(i) ==
    \/ \E k \in Kinds, r \in BOOLEAN : create_intent(i, k, r)
    \/ prepare_signature(i)

\* What job j does next on intent i.
JobStep(j, i) ==
    \/ SendCheckout(j, i)
    \/ \E a \in {"ready", "unknown"} : SaveCheckout(j, i, a)
    \/ \E t \in Txs : RecordDeposit(j, i, t)
    \/ VerifyPayment(j, i)
    \/ FailDisbursement(j, i)
    \/ SignTransfer(j, i)
    \/ \E final \in BOOLEAN : RecordDisbursement(j, i, final)
    \/ SkipPayout(j, i)
    \/ SendPayout(j, i)
    \/ \E reply \in Replies : RecordReply(j, i, reply)

Webhook(i) ==
    \/ \E e \in Events : insert_webhook_event(i, e)
    \/ ProcessPayment(i)
    \/ \E e \in Events \ {"charge.success"} : ProcessPayout(i, e)

Next ==
    \/ ConfirmDeposits
    \/ \E i \in Intents : Request(i) \/ Webhook(i) \/ World(i)
    \/ \E j \in Jobs : Abandon(j)
    \/ \E j \in Jobs, i \in Intents :
          \/ JobStep(j, i)
          \/ ReserveCheckout(j, i)
          \/ ClaimDisbursement(j, i)
          \/ ClaimPayout(j, i)
          \/ \E t \in Txs : ClaimDeposit(j, i, t)

Spec == Init /\ [][Next]_vars

\* Providers resend a webhook until it is stored, the workers poll for ever in
\* tasks of their own, so no request can starve them, and a job that starts ends.
Fairness ==
    /\ \A i \in Intents : WF_vars(Webhook(i))
    /\ \A i \in Intents : SF_vars(\E j \in Jobs : ClaimDisbursement(j, i))
    /\ \A j \in Jobs : WF_vars(Abandon(j) \/ \E i \in Intents : JobStep(j, i))

FairSpec == Spec /\ Fairness

------------------------------------------------------------------------------
(* Properties.                                                              *)

\* Every variable has the values the tables and the code allow, and a job that
\* ended holds no intent.
TypeOK ==
    /\ kind \in [Intents -> Kinds \union {"none"}]
    /\ status \in [Intents -> Statuses]
    /\ checkout \in [Intents -> {"none", "initializing", "unknown", "ready"}]
    /\ routed \in [Intents -> BOOLEAN]
    /\ expired \in [Intents -> BOOLEAN]
    /\ disbursed \in [Intents -> {"none", "submitted", "success"}]
    /\ credit \in [Txs -> Intents \union {None}]
    /\ payout \in [Intents -> Replies \union
                     {"none", "unknown", "success", "failed", "reversed"}]
    /\ inbox \in [Intents -> [Events -> {"none", "queued", "done"}]]
    /\ job \in [Jobs -> {Idle} \union
                  [at : Stages, intent : Intents, tx : Txs \union {None}]]
    /\ charge \in [Intents -> {"none", "asked", "open", "paid", "late"}]
    /\ deposit \in [Txs -> [intent : Intents \union {None}, late : BOOLEAN]]
    /\ bank \in [Intents -> {"none", "asked", "processing", "refused", "paid",
                             "failed", "reversed"}]
    /\ calls \in [Intents -> [Calls -> Nat]]

\* The funds of intent i came in within its quote.
Funded(i) ==
    \/ kind[i] = "onramp" /\ charge[i] = "paid"
    \/ \E t \in Txs : deposit[t] = [intent |-> i, late |-> FALSE]

Promise == INSTANCE RampPromise WITH
    funded <- {i \in Intents : Funded(i)},
    out    <- [i \in Intents |-> calls[i]["transfer"] + calls[i]["payout"]]

\* The workers implement the promise about money: over every interleaving of
\* passes, crashes, timeouts and webhooks an intent is paid out at most once,
\* and only for funds that came in within its quote.
KeepsPromise == Promise!Spec

\* Why the promise holds: an intent has at most one job that may pay it out, the
\* claim that started the job is durable and never repeated, and a job that is
\* about to pay holds evidence of funds that cannot go away.
Disburses(j, i) == job[j].intent = i /\ job[j].at \in {"disburse", "sign", "signed"}

Dispatches(j, i) == job[j].intent = i /\ job[j].at \in {"payout", "payout_sent"}

Undisbursed == {"none", "awaiting_payment", "payment_confirmed"}

\* What job j on intent i relies on.
JobInv(j, i) ==
    /\ Disburses(j, i) => kind[i] = "onramp" /\ status[i] \notin Undisbursed
    /\ Dispatches(j, i) => kind[i] = "offramp" /\ payout[i] # "none"
    /\ At(j, "disburse", i) \/ At(j, "sign", i) => calls[i]["transfer"] = 0
    /\ At(j, "payout", i) => calls[i]["payout"] = 0
    /\ At(j, "sign", i) => charge[i] = "paid"
    /\ At(j, "payout", i) => \E t \in Txs : Proven(i, t)

SoleJob ==
    \A j, k \in Jobs, i \in Intents :
        (Disburses(j, i) /\ Disburses(k, i)) \/ (Dispatches(j, i) /\ Dispatches(k, i))
            => j = k

\* No attempt has been made on an intent that was not claimed.
AttemptInv(i) ==
    /\ status[i] = "none" => kind[i] = "none" /\ payout[i] = "none"
    /\ status[i] \in Undisbursed => calls[i]["transfer"] = 0
    /\ payout[i] = "none" => calls[i]["payout"] = 0
    /\ kind[i] # "onramp" => calls[i]["transfer"] = 0
    /\ kind[i] # "offramp" => calls[i]["payout"] = 0

PromiseInv ==
    /\ \A j \in Jobs, i \in Intents : JobInv(j, i)
    /\ SoleJob
    /\ \A i \in Intents : AttemptInv(i)
    /\ \A t \in Txs : credit[t] # None => Proven(credit[t], t)

\* Why an intent has one checkout: its reference is committed before the request
\* and never cleared, and only the job that committed it sends the request.
CheckoutInv ==
    /\ \A i \in Intents :
         /\ status[i] = "none" => checkout[i] = "none"
         /\ checkout[i] = "none" => calls[i]["checkout"] = 0 /\ charge[i] = "none"
         /\ calls[i]["checkout"] <= 1
    /\ \A j \in Jobs, i \in Intents :
         At(j, "checkout", i) => checkout[i] # "none" /\ calls[i]["checkout"] = 0
    /\ \A j, k \in Jobs, i \in Intents :
         At(j, "checkout", i) /\ At(k, "checkout", i) => j = k

\* What the provider reported is so and stays so, and there is a row to record
\* it in: a payout row precedes the bank transfer.
ReportInv ==
    \A i \in Intents :
        /\ bank[i] # "none" => payout[i] # "none"
        /\ inbox[i]["charge.success"] # "none" => charge[i] # "none"
        /\ inbox[i]["transfer.success"] # "none" => bank[i] \in {"paid", "reversed"}
        /\ inbox[i]["transfer.failed"] # "none" => bank[i] = "failed"
        /\ inbox[i]["transfer.reversed"] # "none" => bank[i] = "reversed"

\* A disbursement in progress is the only thing that moves its intent.
DisburseInv ==
    /\ \A j \in Jobs, i \in Intents :
         Disburses(j, i) => status[i] = "settlement_in_progress" /\ disbursed[i] = "none"
    /\ \A i \in Intents :
         /\ disbursed[i] # "none" => kind[i] = "onramp"
         /\ disbursed[i] = "success" => status[i] = "settlement_completed"

\* Concurrent and repeated payment requests ask the provider for one checkout,
\* also when an attempt crashed or its answer was lost.
OneCheckout == \A i \in Intents : calls[i]["checkout"] <= 1

\* No webhook that reports money is consumed without effect for want of a row
\* or a reference: a processed payment has left awaiting_payment, and a
\* processed payout event is recorded in its payout row.
NoEventDropped ==
    \A i \in Intents :
        /\ inbox[i]["charge.success"] = "done" => status[i] # "awaiting_payment"
        /\ \A e \in Events \ {"charge.success"} :
              inbox[i][e] = "done" => payout[i] \in {"success", "failed", "reversed"}

\* What the customer is told about a payout agrees with the bank: completed
\* means it was paid, failed means it was not or came back.
OutcomeIsTrue ==
    \A i \in Intents :
        /\ status[i] = "payout_completed" => bank[i] \in {"paid", "reversed"}
        /\ status[i] = "failed" => bank[i] \in {"failed", "reversed"}

\* A terminal status, a finished disbursement and a successful payout stay as
\* they are: a late reply or webhook cannot undo them.
SettledIsForever ==
    [][\A i \in Intents :
         /\ status[i] \in Terminal => status'[i] = status[i]
         /\ disbursed[i] = "success" => /\ disbursed'[i] = "success"
                                        /\ status'[i] = "settlement_completed"
         /\ payout[i] = "success" => payout'[i] = "success"]_vars

\* Once a payout row is final it stays: no later event rewrites it.
PayoutIsMonotone ==
    [][\A i \in Intents :
         payout[i] \in {"success", "reversed"} => payout'[i] = payout[i]]_vars

\* A bank transfer that was paid or failed ends its intent.
PayoutEnds ==
    \A i \in Intents : (bank[i] \in {"paid", "failed"}) ~> (status[i] \in Terminal)
==============================================================================
