------------------------------- MODULE Delivery -------------------------------
(***************************************************************************)
(* Delivery of a signed transaction to its destination chain:              *)
(* ReconciledDestinationTransport::send over the two receipt stores, the   *)
(* Upstash store of production (receipts and leases shared by all backend  *)
(* processes) and the file store (a capped file, no lease).                *)
(*                                                                         *)
(* A worker is a thread of a process.  Each action is one request of send  *)
(* with the local computation that follows its reply.  Time passes in      *)
(* ticks: every request has a client timeout, a lease has a time to live.  *)
(* An execution stands for its deterministic id, transaction id and bytes, *)
(* which the code derives from each other.                                 *)
(*                                                                         *)
(* Source: crates/clear-msig-execution/src/chains/delivery*.rs.            *)
(***************************************************************************)
EXTENDS Integers, Sequences

CONSTANTS
    Workers, Executions,
    Process,          \* Process[w]: the process worker w is a thread of
    Leaked,           \* owner of a lease whose token no live worker holds
    Store,            \* "upstash" or "file"
    Providers,        \* which shapes of response the executions' nodes may have
    Faults,           \* misbehaviours of the network and the RPC nodes
    LeaseTTL,         \* LOCK_TTL_MILLIS, in ticks
    StoreLimit,       \* client timeout of one store command, in ticks
    ProbeLimit,       \* client timeouts of the requests of one probe
    SubmitLimit,      \* client timeout of one broadcast
    MaxAttempts,      \* u32::MAX in the code, where attempts saturates
    MaxReceipts       \* MAX_RECEIPTS of the file store

\* post_json (EVM, JSON-RPC Bitcoin and Zcash), post_text (Bitcoin over Esplora)
\* and post_form_hex (Zcash over Blockchair).
ResponseShapes == {"JsonRpc", "PlainText", "Blockchair"}

ASSUME DeliveryAssumption ==
    /\ Store \in {"upstash", "file"}
    /\ Providers \subseteq [Executions -> ResponseShapes]
    /\ Faults \subseteq {"late", "stale", "mismatch"}
    /\ {LeaseTTL, StoreLimit, ProbeLimit, SubmitLimit} \subseteq Nat
    /\ MaxAttempts \in Nat \ {0}
    /\ MaxReceipts \in Nat \ {0}
    /\ Leaked \notin Workers

VARIABLES
    lease,     \* the lock key of each execution: its owner and time to live
    receipt,   \* the stored DestinationReceipt of each execution
    order,     \* executions with a receipt in the file, oldest update first
    shape,     \* the ResponseShape of the node each execution is sent to
    chain,     \* what the destination chain holds of each execution
    late,      \* a broadcast its client gave up on is still on its way
    pc,        \* the request each worker is waiting for
    exec,      \* the execution each worker delivers
    rcpt,      \* the worker's local copy of the receipt
    left,      \* ticks left before the pending request times out
    queried,   \* history: this run of send has had a NotFound answer
    sent,      \* history: a broadcast of this execution has been started
    misled     \* history: what send was last told of this execution was not so

stored  == <<lease, receipt, order>>
network == <<chain, late, sent, misled>>
worker  == <<pc, exec, rcpt, left, queried>>
vars    == <<shape, stored, network, worker>>

-------------------------------------------------------------------------------
(* State *)

DeliveryStates == {"Prepared", "Unknown", "Submitted", "Confirmed", "Failed"}

\* "None": the store has no receipt.
Receipts == [state : DeliveryStates \cup {"None"}, attempts : 0 .. MaxAttempts]
NoReceipt == [state |-> "None", attempts |-> 0]

ChainStates == {"absent", "pending", "confirmed", "reverted"}

PCs == {"idle", "acquire", "acquired", "load", "probe", "prepare", "submit",
        "reprobe", "finish", "release"}

Limit(step) ==
    CASE step \in {"acquire", "acquired", "load", "prepare", "finish"} -> StoreLimit
      [] step \in {"probe", "reprobe"} -> ProbeLimit
      [] step = "submit" -> SubmitLimit
      [] OTHER -> 0

Leases == [owner : Workers \cup {Leaked}, ttl : 0 .. LeaseTTL]
NoLease == [owner |-> Leaked, ttl |-> 0]

\* One type invariant: the shape of the stores, the chain and the workers.
TypeOK ==
    /\ lease \in [Executions -> Leases]
    /\ receipt \in [Executions -> Receipts]
    /\ order \in Seq(Executions)
    /\ shape \in [Executions -> ResponseShapes]
    /\ chain \in [Executions -> ChainStates]
    /\ late \in [Executions -> BOOLEAN]
    /\ sent \in [Executions -> BOOLEAN]
    /\ misled \in [Executions -> BOOLEAN]
    /\ pc \in [Workers -> PCs]
    /\ exec \in [Workers -> Executions]
    /\ rcpt \in [Workers -> Receipts]
    /\ left \in [Workers -> Nat]
    /\ queried \in [Workers -> BOOLEAN]
    /\ \A w \in Workers : left[w] <= Limit(pc[w])

Init ==
    /\ lease = [e \in Executions |-> NoLease]
    /\ receipt = [e \in Executions |-> NoReceipt]
    /\ order = <<>>
    /\ shape \in Providers
    /\ chain = [e \in Executions |-> "absent"]
    /\ late = [e \in Executions |-> FALSE]
    /\ sent = [e \in Executions |-> FALSE]
    /\ misled = [e \in Executions |-> FALSE]
    /\ pc = [w \in Workers |-> "idle"]
    /\ exec \in [Workers -> Executions]
    /\ rcpt = [w \in Workers |-> NoReceipt]
    /\ left = [w \in Workers |-> 0]
    /\ queried = [w \in Workers |-> FALSE]

-------------------------------------------------------------------------------
(* Control of one run of send *)

\* The worker waits for the reply of its next request.
Goto(w, step) ==
    /\ pc' = [pc EXCEPT ![w] = step]
    /\ left' = [left EXCEPT ![w] = Limit(step)]

\* send returns: its local variables are gone.
Return(w) ==
    /\ pc' = [pc EXCEPT ![w] = "idle"]
    /\ left' = [left EXCEPT ![w] = 0]
    /\ rcpt' = [rcpt EXCEPT ![w] = NoReceipt]
    /\ queried' = [queried EXCEPT ![w] = FALSE]

\* The process-local lock of an execution is held by the thread that is
\* delivering it; the others wait for it before they do anything else.
LocalLockFree(w, e) ==
    \A v \in Workers \ {w} :
        Process[v] = Process[w] /\ pc[v] # "idle" => exec[v] # e

Start(w, e) ==
    /\ pc[w] = "idle"
    /\ LocalLockFree(w, e)
    /\ exec' = [exec EXCEPT ![w] = e]
    /\ Goto(w, "acquire")
    /\ UNCHANGED <<stored, network, rcpt, queried>>

-------------------------------------------------------------------------------
(* The lease *)

\* Fault variant: the key is set over an existing one.
TakesOver(e) == TRUE
\* NX: the key is set only if it is absent.
LeaseFree(e) == lease[e].ttl = 0

\* SET NX PX: the key is set when it reaches the store, the reply comes later.
Acquire(w) ==
    /\ pc[w] = "acquire" /\ Store = "upstash"
    /\ LeaseFree(exec[w])
    /\ lease' = [lease EXCEPT ![exec[w]] = [owner |-> w, ttl |-> LeaseTTL]]
    /\ pc' = [pc EXCEPT ![w] = "acquired"]
    /\ UNCHANGED <<receipt, order, network, exec, rcpt, left, queried>>

\* The file store grants a lease to everyone.
AcquireFile(w) == pc[w] = "acquire" /\ Store = "file"

Acquired(w) ==
    /\ pc[w] = "acquired" \/ AcquireFile(w)
    /\ Goto(w, "load")
    /\ UNCHANGED <<stored, network, exec, rcpt, queried>>

\* The reply is lost or the command cancelled: nobody knows the token any more.
AcquireLost(w) ==
    /\ pc[w] = "acquired"
    /\ lease' = [lease EXCEPT ![exec[w]].owner = Leaked]
    /\ Return(w)
    /\ UNCHANGED <<receipt, order, network, exec>>

\* The lease is held by another process, or the store cannot be reached.
AcquireRefused(w) ==
    /\ pc[w] = "acquire" /\ Store = "upstash"
    /\ Return(w)
    /\ UNCHANGED <<stored, network, exec>>

\* Fault variant: the token is not compared.
AnyToken(w) == TRUE
TokenMatches(w) == lease[exec[w]].owner = w

\* Compare the token and delete the key, at whatever time this comes to pass.
Release(w) ==
    /\ pc[w] = "release"
    /\ lease' = IF TokenMatches(w)
                THEN [lease EXCEPT ![exec[w]] = NoLease] ELSE lease
    /\ Return(w)
    /\ UNCHANGED <<receipt, order, network, exec>>

\* A failed release is logged and the lease left to expire.
ReleaseLost(w) ==
    /\ pc[w] = "release" /\ Store = "upstash"
    /\ lease' = IF lease[exec[w]].owner = w
                THEN [lease EXCEPT ![exec[w]].owner = Leaked] ELSE lease
    /\ Return(w)
    /\ UNCHANGED <<receipt, order, network, exec>>

-------------------------------------------------------------------------------
(* The receipt *)

\* What is journaled before a broadcast: one more attempt, saturating.
Prepare(r) ==
    [state |-> "Prepared",
     attempts |-> IF r.attempts < MaxAttempts THEN r.attempts + 1 ELSE MaxAttempts]

\* A stored receipt that may have been broadcast is reconciled first.
NeedsProbe(r) == r.attempts > 0 \/ r.state \notin {"None", "Prepared"}

Fail(w) ==
    /\ Goto(w, "release")
    /\ UNCHANGED <<stored, network, exec, rcpt, queried>>

\* A Failed receipt is terminal, any other goes on to a probe or a broadcast.
Terminal(r) == r.state = "Failed"

Load(w) ==
    /\ pc[w] = "load"
    /\ ~Terminal(receipt[exec[w]])
    /\ LET r == receipt[exec[w]]
       IN  \/ /\ NeedsProbe(r)
              /\ rcpt' = [rcpt EXCEPT ![w] = r]
              /\ Goto(w, "probe")
           \/ /\ ~NeedsProbe(r)
              /\ rcpt' = [rcpt EXCEPT ![w] = Prepare(r)]
              /\ Goto(w, "prepare")
    /\ UNCHANGED <<stored, network, exec, queried>>

\* A Failed receipt, or a store that does not answer.
LoadFails(w) == pc[w] = "load" /\ Fail(w)

\* BTreeMap insert, then drop the oldest receipts of the file until it fits.
\* Latest moves an execution to the end, as its receipt is the latest update.  The
\* code compares whole seconds and then keys, so the receipt it has just saved can
\* go only if all the others are of that second, or the clock stepped back.
Latest(e) ==
    IF \E i \in 1 .. Len(order) : order[i] = e
    THEN [i \in 1 .. Len(order) |->
            IF i = Len(order) THEN e
            ELSE IF \E j \in 1 .. i : order[j] = e THEN order[i + 1] ELSE order[i]]
    ELSE Append(order, e)
Evicts(e) == Store = "file" /\ Len(Latest(e)) > MaxReceipts
Save(e, r) ==
    IF Evicts(e)
    THEN /\ receipt' = [receipt EXCEPT ![e] = r, ![Head(Latest(e))] = NoReceipt]
         /\ order' = Tail(Latest(e))
    ELSE /\ receipt' = [receipt EXCEPT ![e] = r]
         /\ order' = IF Store = "file" THEN Latest(e) ELSE order

\* The journal entry must be acknowledged before the broadcast goes out.
PersistPrepared(w) ==
    /\ pc[w] = "prepare"
    /\ Save(exec[w], rcpt[w])
    /\ Goto(w, "submit")
    /\ UNCHANGED <<lease, network, exec, rcpt, queried>>

PersistFinal(w) ==
    /\ pc[w] = "finish"
    /\ Save(exec[w], rcpt[w])
    /\ Goto(w, "release")
    /\ UNCHANGED <<lease, network, exec, rcpt, queried>>

\* A save that is not acknowledged may or may not have been applied.
PersistFails(w) ==
    /\ pc[w] \in {"prepare", "finish"}
    /\ \/ Save(exec[w], rcpt[w])
       \/ UNCHANGED <<receipt, order>>
    /\ Goto(w, "release")
    /\ UNCHANGED <<lease, network, exec, rcpt, queried>>

-------------------------------------------------------------------------------
(* The destination chain, seen through an RPC node *)

\* probe: what a node can answer.  A stale node has not seen the transaction, and
\* there is no query for a transaction sent through Blockchair.
Answers(e) ==
    IF shape[e] = "Blockchair" THEN {"error"}
    ELSE {CASE chain[e] = "absent"    -> "NotFound"
            [] chain[e] = "pending"   -> "Submitted"
            [] chain[e] = "confirmed" -> "Confirmed"
            [] chain[e] = "reverted"  -> "Failed"}
         \cup (IF "stale" \in Faults THEN {"NotFound"} ELSE {})
         \cup {"error"}

\* Fault variant: a failed probe counts as NotFound.
NotSeen(answer) == answer \in {"NotFound", "error"}
\* Only a NotFound answer lets send broadcast again.
MayBroadcast(answer) == answer = "NotFound"

\* History: an answer is believed until the next one, an error tells nothing.
Believes(e, answer) ==
    misled' = [misled EXCEPT ![e] =
                 IF answer = "error" THEN misled[e]
                 ELSE answer = "NotFound" /\ chain[e] # "absent"]

Probe(w) ==
    /\ pc[w] = "probe"
    /\ \E answer \in Answers(exec[w]) : Believes(exec[w], answer) /\
         \/ /\ MayBroadcast(answer)
            /\ queried' = [queried EXCEPT ![w] = (answer = "NotFound")]
            /\ rcpt' = [rcpt EXCEPT ![w] = Prepare(rcpt[w])]
            /\ Goto(w, "prepare")
         \/ /\ ~MayBroadcast(answer)
            /\ rcpt' = [rcpt EXCEPT ![w].state =
                          IF answer = "error" THEN "Unknown" ELSE answer]
            /\ Goto(w, "finish")
            /\ UNCHANGED queried
    /\ UNCHANGED <<stored, chain, late, sent, exec>>

\* What comes back from a node that takes the transaction: its id, a success that
\* names no transaction id or another, or nothing a client can read as a success.
Taken == {"txid", "noTxid", "failure"} \cup (IF "mismatch" \in Faults THEN {"otherTxid"} ELSE {})
\* And from a node that does not: an error, one of the known wordings for a
\* transaction that is there already, or the same two that tell nothing.
Refused(c) == {"error", "noTxid", "failure"} \cup (IF c = "absent" THEN {} ELSE {"known"})

\* Fault variant: every shape rejects a success that names no transaction id.
NoTxidRejected(s, body) ==
    CASE body = "txid"                     -> "Accepted"
      [] body = "otherTxid"                -> "Mismatch"
      [] body = "known" /\ s = "JsonRpc"   -> "MaybeKnown"
      [] body = "failure"                  -> "Unknown"
      [] OTHER                             -> "Rejected"

\* ResponseShape::read_tx_id.  Only JsonRpc tells a known transaction from a
\* refused one; PlainText rejects whatever body names no transaction id.
ReadTxId(s, body) ==
    CASE body = "txid"                     -> "Accepted"
      [] body = "otherTxid"                -> "Mismatch"
      [] body = "known" /\ s = "JsonRpc"   -> "MaybeKnown"
      [] body \in {"error", "known"}       -> "Rejected"
      [] body = "noTxid" /\ s = "PlainText" -> "Rejected"
      [] OTHER                             -> "Unknown"

StateAfter(reply) ==
    CASE reply = "Accepted"                 -> "Submitted"
      [] reply \in {"Rejected", "Mismatch"} -> "Failed"
      [] OTHER                              -> "Unknown"

\* The local receipt follows the reply; MaybeKnown is settled by a second probe.
Replied(w, reply) ==
    /\ rcpt' = [rcpt EXCEPT ![w].state = StateAfter(reply)]
    /\ Goto(w, IF reply = "MaybeKnown" THEN "reprobe" ELSE "finish")
    /\ UNCHANGED <<stored, exec, queried>>

\* History: the node has the transaction, and its reply is read as if it had not.
Garbled(e, body) == body = "otherTxid" \/ (body = "noTxid" /\ shape[e] = "PlainText")

\* The node takes the transaction into its mempool.
SubmitAccepted(w) ==
    LET e == exec[w] IN
    /\ pc[w] = "submit"
    /\ sent' = [sent EXCEPT ![e] = TRUE]
    /\ chain[e] \in {"absent", "pending"}
    /\ chain' = [chain EXCEPT ![e] = "pending"]
    /\ \E body \in Taken :
         /\ Replied(w, ReadTxId(shape[e], body))
         /\ misled' = [misled EXCEPT ![e] = misled[e] \/ Garbled(e, body)]
    /\ UNCHANGED late

\* The node refuses it: invalid, or already there.
SubmitRefused(w) ==
    /\ pc[w] = "submit"
    /\ sent' = [sent EXCEPT ![exec[w]] = TRUE]
    /\ \E body \in Refused(chain[exec[w]]) : Replied(w, ReadTxId(shape[exec[w]], body))
    /\ UNCHANGED <<chain, late, misled>>

\* The client gives up before the request reaches a node.
SubmitLate(w) ==
    /\ pc[w] = "submit" /\ "late" \in Faults
    /\ sent' = [sent EXCEPT ![exec[w]] = TRUE]
    /\ late' = [late EXCEPT ![exec[w]] = TRUE]
    /\ Replied(w, "Unknown")
    /\ UNCHANGED <<chain, misled>>

Reprobe(w) ==
    /\ pc[w] = "reprobe"
    /\ \E answer \in Answers(exec[w]) :
         rcpt' = [rcpt EXCEPT ![w].state =
                    IF answer \in {"NotFound", "error"} THEN "Unknown" ELSE answer]
    /\ Goto(w, "finish")
    /\ UNCHANGED <<stored, network, exec, queried>>

-------------------------------------------------------------------------------
(* The environment *)

\* A block takes it or it is dropped.  Reverted (EVM status 0, or a negative count of
\* confirmations) is an answer that only JSON-RPC gives.
Mine(e) ==
    /\ chain[e] = "pending"
    /\ \E c \in {"confirmed", "absent"} \cup (IF shape[e] = "JsonRpc" THEN {"reverted"} ELSE {}) :
         chain' = [chain EXCEPT ![e] = c]
    /\ UNCHANGED <<stored, late, sent, misled, worker>>

\* History: send has settled that there is no transaction of this execution.
Settled(e) ==
    \/ receipt[e].state = "Failed"
    \/ \E w \in Workers :
         /\ exec[w] = e
         /\ pc[w] \in {"prepare", "submit"} \/ (pc[w] = "finish" /\ rcpt[w].state = "Failed")

\* The broadcast that was on its way lands.
LateArrival(e) ==
    /\ late[e]
    /\ late' = [late EXCEPT ![e] = FALSE]
    /\ chain' = [chain EXCEPT ![e] = IF chain[e] = "absent" THEN "pending" ELSE chain[e]]
    /\ misled' = [misled EXCEPT ![e] = misled[e] \/ (chain[e] = "absent" /\ Settled(e))]
    /\ UNCHANGED <<stored, sent, worker>>

\* A process stops with all its threads; the tokens they held are lost.
Crash(p) ==
    LET dead == {w \in Workers : Process[w] = p}
    IN  /\ \E w \in dead : pc[w] # "idle"
        /\ pc' = [w \in Workers |-> IF w \in dead THEN "idle" ELSE pc[w]]
        /\ left' = [w \in Workers |-> IF w \in dead THEN 0 ELSE left[w]]
        /\ rcpt' = [w \in Workers |-> IF w \in dead THEN NoReceipt ELSE rcpt[w]]
        /\ queried' = [w \in Workers |-> IF w \in dead THEN FALSE ELSE queried[w]]
        /\ lease' = [e \in Executions |->
                       IF lease[e].owner \in dead
                       THEN [lease[e] EXCEPT !.owner = Leaked] ELSE lease[e]]
        /\ UNCHANGED <<receipt, order, network, exec>>

\* Fault variant: the lease has no expiry.
NeverExpires(l) == l
Elapse(l) == IF l.ttl > 1 THEN [l EXCEPT !.ttl = l.ttl - 1] ELSE NoLease

\* A tick passes: no request outlives its client timeout.
Tick ==
    /\ \A w \in Workers : pc[w] \notin {"idle", "release"} => left[w] > 0
    /\ \/ \E w \in Workers : left[w] > 0
       \/ \E e \in Executions : lease[e].ttl > 0
    /\ left' = [w \in Workers |-> IF left[w] > 0 THEN left[w] - 1 ELSE 0]
    /\ lease' = [e \in Executions |-> Elapse(lease[e])]
    /\ UNCHANGED <<receipt, order, network, pc, exec, rcpt, queried>>

SendStep(w) ==
    \/ Acquire(w) \/ Acquired(w) \/ AcquireLost(w) \/ AcquireRefused(w)
    \/ Load(w) \/ LoadFails(w) \/ Probe(w)
    \/ PersistPrepared(w) \/ PersistFinal(w) \/ PersistFails(w)
    \/ SubmitAccepted(w) \/ SubmitRefused(w) \/ SubmitLate(w) \/ Reprobe(w)
    \/ Release(w) \/ ReleaseLost(w)

Next ==
    /\ \/ \E w \in Workers : SendStep(w) \/ \E e \in Executions : Start(w, e)
       \/ \E e \in Executions : Mine(e) \/ LateArrival(e)
       \/ \E w \in Workers : Crash(Process[w])
       \/ Tick
    /\ UNCHANGED shape

Spec == Init /\ [][Next]_vars

-------------------------------------------------------------------------------
(* Properties *)

\* No two workers broadcast one execution at the same time, on one process or
\* on several (send; docs/trust-boundaries.md, production blocker 2).
SoleBroadcaster ==
    \A v, w \in Workers :
        pc[v] = "submit" /\ pc[w] = "submit" /\ exec[v] = exec[w] => v = w

\* While a broadcast is under way the store holds exactly the receipt that its
\* worker journaled for it, and whatever has been broadcast has a receipt with
\* an attempt on it (the save of the Prepared receipt in send).
Journaled ==
    /\ \A w \in Workers : pc[w] = "submit" => receipt[exec[w]] = rcpt[w]
    /\ \A e \in Executions : sent[e] => receipt[e].attempts > 0

\* An execution that has been broadcast before is broadcast again only by a run
\* of send that has had a NotFound answer for it (the reconciliation in send).
RebroadcastQueried ==
    \A w \in Workers : pc[w] = "submit" /\ sent[exec[w]] => queried[w]

\* A Failed receipt is terminal: no step changes it (the early return in send).
FailedIsForever ==
    [][\A e \in Executions :
          receipt[e].state = "Failed" => receipt'[e] = receipt[e]]_vars

\* The store-wide lease covers every write: a worker that is about to replace a
\* receipt owns the lease of its execution (DestinationReceiptStore).
WritesUnderLease ==
    \A w \in Workers :
        pc[w] \in {"prepare", "finish"} => lease[exec[w]].owner = w

\* What the local lock gives whatever the store: two threads of one process never
\* deliver the same execution at the same time (local_lock in send).
LocalLock ==
    /\ DOMAIN pc = Workers /\ DOMAIN exec = Workers
    /\ \A v, w \in Workers :
         /\ Process[v] = Process[w] /\ exec[v] = exec[w]
         /\ pc[v] # "idle" /\ pc[w] # "idle"
         => v = w

\* The lease outlasts a run of send up to the end of its broadcast: three store
\* commands, a probe and the broadcast.  This holds with the limits of the code.
LeaseOutlastsBroadcast ==
    /\ Store = "upstash"
    /\ LeaseTTL > 3 * StoreLimit + ProbeLimit + SubmitLimit

\* The time a run may still take after its pending request, up to that end.
Rest(step) ==
    CASE step = "acquired" -> 2 * StoreLimit + ProbeLimit + SubmitLimit
      [] step = "load"     -> StoreLimit + ProbeLimit + SubmitLimit
      [] step = "probe"    -> StoreLimit + SubmitLimit
      [] step = "prepare"  -> SubmitLimit
      [] OTHER             -> 0

\* Why no two workers broadcast at once: until its broadcast has ended a worker
\* owns a lease that lives longer than the worker can still take.
LeaseCovers ==
    \A w \in Workers :
        pc[w] \in {"acquired", "load", "probe", "prepare", "submit"} =>
            /\ lease[exec[w]].owner = w
            /\ lease[exec[w]].ttl > left[w] + Rest(pc[w])

\* The lease outlasts a whole run of send: four store commands, two probes and
\* the broadcast.  This holds with the limits of Bitcoin and Zcash.
LeaseOutlastsRun ==
    /\ Store = "upstash"
    /\ LeaseTTL > 4 * StoreLimit + 2 * ProbeLimit + SubmitLimit

\* The time a run may still take after its pending request, up to its last write.
RunRest(step) ==
    CASE step = "acquired" -> 3 * StoreLimit + 2 * ProbeLimit + SubmitLimit
      [] step = "load"     -> 2 * StoreLimit + 2 * ProbeLimit + SubmitLimit
      [] step = "probe"    -> 2 * StoreLimit + ProbeLimit + SubmitLimit
      [] step = "prepare"  -> StoreLimit + ProbeLimit + SubmitLimit
      [] step = "submit"   -> StoreLimit + ProbeLimit
      [] step = "reprobe"  -> StoreLimit
      [] OTHER             -> 0

\* Why no write comes after the lease: it lives longer than the run.
RunCovers ==
    \A w \in Workers :
        pc[w] \in {"acquired", "load", "probe", "prepare", "submit", "reprobe", "finish"} =>
            /\ lease[exec[w]].owner = w
            /\ lease[exec[w]].ttl > left[w] + RunRest(pc[w])

\* What a run has read or written under its lease stays as it was: nobody else
\* replaces the receipt, which is the journaled one while the broadcast lasts.
ReceiptHeld ==
    \A w \in Workers :
        /\ pc[w] \in {"probe", "prepare", "reprobe", "finish"}
             => receipt[exec[w]].state # "Failed"
        /\ pc[w] \in {"prepare", "submit"} => rcpt[w].state = "Prepared"
        /\ pc[w] = "submit" => receipt[exec[w]] = rcpt[w]

\* What is stored and what is held locally has an attempt on it once it counts.
AttemptsCounted ==
    /\ \A e \in Executions :
         (receipt[e].state # "None" \/ sent[e]) => receipt[e].attempts > 0
    /\ \A w \in Workers :
         /\ pc[w] \in {"probe", "prepare", "submit", "reprobe", "finish"}
              => rcpt[w].attempts > 0
         /\ pc[w] = "submit" => receipt[exec[w]].attempts > 0

\* RebroadcastQueried from the moment the decision to broadcast is taken.
QueriedBeforePrepare ==
    \A w \in Workers :
        pc[w] \in {"prepare", "submit"} /\ sent[exec[w]] => queried[w]

BroadcastInv == LeaseCovers /\ AttemptsCounted /\ QueriedBeforePrepare

\* The chain has not paid the execution and holds nothing that might.
Unpaid(e) == chain[e] \in {"absent", "reverted"}

\* Whatever the provider's response shape, and with nodes that are stale, answer
\* with another id or let a broadcast land late: a receipt says Failed, which is
\* for good, only of a transaction that has not been paid and will not be, or of
\* one whose node told send what is not so (send, read_tx_id and probe).
FailedIsUnpaid ==
    \A e \in Executions : receipt[e].state = "Failed" => Unpaid(e) \/ misled[e]

\* A malformed reply leaves delivery unknown (apps/api/README.md:124-125).  That is
\* not so of PlainText, and belongs to no run.
MalformedIsUnknown ==
    \A s \in ResponseShapes : StateAfter(ReadTxId(s, "noTxid")) = "Unknown"

\* Why: what the chain holds was broadcast; unless it was told what is not so, a
\* run broadcasts only what the chain does not hold, and is to store Failed only
\* of what is not paid.
ChainKnown ==
    /\ \A e \in Executions : late[e] \/ chain[e] # "absent" => sent[e]
    /\ \A w \in Workers :
         /\ pc[w] \in {"prepare", "submit"} => chain[exec[w]] = "absent" \/ misled[exec[w]]
         /\ pc[w] = "finish" /\ rcpt[w].state = "Failed" => Unpaid(exec[w]) \/ misled[exec[w]]

\* A receipt is there with an attempt on it or not at all, and a run goes on with one.
Kept ==
    /\ \A e \in Executions : receipt[e].state = "None" <=> receipt[e].attempts = 0
    /\ \A w \in Workers :
         pc[w] \in {"probe", "prepare", "submit", "reprobe", "finish"} =>
             rcpt[w].state # "None" /\ rcpt[w].attempts > 0

\* The file holds one receipt of an execution.
OrderedOnce ==
    \A i, j \in 1 .. Len(order) : order[i] = order[j] => i = j

\* FailedIsUnpaid over the file of one process, whose receipts may be dropped:
\* what is known, on the same grounds, of an execution with no receipt dropped.
KnownOfKept(e) ==
    /\ late[e] \/ chain[e] # "absent" => sent[e]
    /\ sent[e] => receipt[e].state # "None"
    /\ receipt[e].state = "Failed" => Unpaid(e) \/ misled[e]
    /\ \A w \in Workers : exec[w] = e =>
         /\ pc[w] \in {"probe", "prepare", "submit"} => receipt[e].state # "Failed"
         /\ pc[w] \in {"prepare", "submit"} =>
              (chain[e] = "absent" \/ misled[e]) /\ rcpt[w].state = "Prepared"
         /\ pc[w] = "submit" => receipt[e] = rcpt[w]
         /\ pc[w] = "finish" /\ rcpt[w].state = "Failed" => Unpaid(e) \/ misled[e]
===============================================================================
