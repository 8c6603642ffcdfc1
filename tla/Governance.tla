------------------------------ MODULE Governance ------------------------------
(***************************************************************************)
(* The voting core of the clear-wallet program: one wallet, its intents    *)
(* (the rules under which proposals are voted) and its proposals, legacy   *)
(* and typed.  One action is one successful instruction, a transaction     *)
(* that fails leaves every account as it was.  Signatures are represented  *)
(* by the member that made them.                                           *)
(*                                                                         *)
(* Source: programs/clear-wallet/src/{instructions,state}.                 *)
(***************************************************************************)
EXTENDS Integers, Sequences, FiniteSets

CONSTANTS
    Members,          \* public keys that can appear in an intent
    CreateArgs,       \* the rules create_wallet may be called with
    Bodies,           \* intent bodies a proposal can carry
    Targets,          \* intent indices a proposal can name as its target
    MaxProposals,     \* bound on wallet.proposal_index (a u64 in the code)
    MaxIntentIndex,   \* u8::MAX in the code
    MaxActive,        \* u16::MAX in the code, the cap of active_proposal_count
    MaxTime,          \* bound on the clock
    MaxTTL            \* MAX_ACTION_TTL_SECONDS

ProposalIds == 0 .. (MaxProposals - 1)
IntentIds   == 0 .. MaxIntentIndex

\* Intent.approvers is a Vec of at most 16 addresses; a vote is an index in it.
MaxApprovers == 16
ApproverIndices == 1 .. MaxApprovers
ApproverLists ==
    UNION {[1 .. n -> Members] : n \in 0 .. MaxApprovers}

IntentTypes == {"AddIntent", "RemoveIntent", "UpdateIntent", "Custom"}

\* The fields of an Intent account that govern it.
IntentRecords ==
    [type : IntentTypes \cup {"None"}, approved : BOOLEAN,
     approval_threshold : Nat, cancellation_threshold : Nat,
     timelock : Nat, active : Nat,
     proposers : SUBSET Members, approvers : ApproverLists]

\* An address at which no intent account exists yet.
NoIntent ==
    [type |-> "None", approved |-> FALSE,
     approval_threshold |-> 0, cancellation_threshold |-> 0,
     timelock |-> 0, active |-> 0, proposers |-> {}, approvers |-> <<>>]

ASSUME BoundsAssumption ==
    /\ MaxProposals \in Nat
    /\ MaxIntentIndex \in Nat /\ MaxIntentIndex >= 2
    /\ MaxActive \in Nat
    /\ MaxTime \in Nat
    /\ MaxTTL \in Nat
    /\ Targets \subseteq IntentIds

\* create_wallet checks its arguments: 1 <= threshold <= #approvers.
ASSUME CreateArgsAssumption ==
    \A a \in CreateArgs :
        /\ a \in IntentRecords
        /\ a.approved /\ a.active = 0
        /\ a.approval_threshold \in 1 .. Len(a.approvers)
        /\ a.cancellation_threshold \in 1 .. Len(a.approvers)

\* Clients encode a new intent body with a zero active_proposal_count.
ASSUME BodiesAssumption ==
    \A b \in Bodies : b \in IntentRecords /\ b.type # "None" /\ b.active = 0

VARIABLES
    now,              \* Clock::unix_timestamp
    proposal_index,   \* ClearWallet.proposal_index
    intent_index,     \* ClearWallet.intent_index
    intent,           \* the Intent account of each index
    proposal,         \* the Proposal or TypedProposal account of each index
    cast              \* history: who set each approval bit, and when

vars == <<now, proposal_index, intent_index, intent, proposal, cast>>

-------------------------------------------------------------------------------
(* Proposals *)

\* "PolicyUpdate": a SetProtection or SetAssetProtection with policy bytes.
TypedKinds == {"Governance", "PolicyUpdate", "Action"}
Kinds == TypedKinds \cup IntentTypes

\* "None": never created; "Closed": account closed by a cleanup instruction.
Statuses == {"None", "Active", "Approved", "Executed", "Cancelled", "Closed"}

ProposalRecords ==
    [status : Statuses, typed : BOOLEAN, kind : Kinds, intent : IntentIds,
     target : IntentIds, body : Bodies \cup {NoIntent},
     approved_at : 0 .. MaxTime, expires_at : 0 .. (MaxTime + MaxTTL),
     approvals : SUBSET ApproverIndices, cancellations : SUBSET ApproverIndices]

NoProposal ==
    [status |-> "None", typed |-> FALSE, kind |-> "Custom", intent |-> 0,
     target |-> 0, body |-> NoIntent, approved_at |-> 0, expires_at |-> 0,
     approvals |-> {}, cancellations |-> {}]

Votes == [idx : ApproverIndices, member : Members, at : 0 .. MaxTime]

Open(p) == proposal[p].status \in {"Active", "Approved"}
IntentOf(p) == intent[proposal[p].intent]
OpenOn(i) == {p \in ProposalIds : Open(p) /\ proposal[p].intent = i}

\* Intent::approver_index: the first position of the address, 0 if absent.
approver_index(list, m) ==
    LET at == {k \in DOMAIN list : list[k] = m}
    IN  IF at = {} THEN 0 ELSE CHOOSE k \in at : \A l \in at : k <= l

\* Fault variant: the count is not taken down.
lost_decrement(n) == n
saturating_sub(n) == IF n > 0 THEN n - 1 ELSE 0

-------------------------------------------------------------------------------
(* create_wallet *)

\* The three meta intents share the creation arguments.
Init ==
    /\ now = 0
    /\ proposal_index = 0
    /\ intent_index = 2
    /\ \E a \in CreateArgs :
         intent = [i \in IntentIds |->
                     CASE i = 0 -> [a EXCEPT !.type = "AddIntent"]
                       [] i = 1 -> [a EXCEPT !.type = "RemoveIntent"]
                       [] i = 2 -> [a EXCEPT !.type = "UpdateIntent"]
                       [] OTHER -> NoIntent]
    /\ proposal = [p \in ProposalIds |-> NoProposal]
    /\ cast = [p \in ProposalIds |-> {}]

-------------------------------------------------------------------------------
(* propose and propose_typed_v4 *)

\* What both instructions do once their own checks have passed: store the
\* proposal with the proposer's approval already counted, count it as open.
StoreProposal(m, i, typed, kind, target, body, expires) ==
    LET p    == proposal_index
        idx  == approver_index(intent[i].approvers, m)
        bits == IF idx = 0 THEN {} ELSE {idx}
        met  == idx # 0 /\ intent[i].approval_threshold <= 1
    IN  /\ p < MaxProposals
        /\ proposal[p].status \in {"None", "Closed"}
        /\ m \in intent[i].proposers
        /\ intent[i].approved
        /\ intent[i].active < MaxActive
        /\ proposal' = [proposal EXCEPT ![p] =
             [status |-> IF met THEN "Approved" ELSE "Active",
              typed |-> typed, kind |-> kind, intent |-> i,
              target |-> target, body |-> body,
              approved_at |-> IF met THEN now ELSE 0,
              expires_at |-> expires,
              approvals |-> bits, cancellations |-> {}]]
        /\ cast' = [cast EXCEPT ![p] =
             {[idx |-> k, member |-> m, at |-> now] : k \in bits}]
        /\ intent' = [intent EXCEPT ![i].active = @ + 1]
        /\ proposal_index' = p + 1
        /\ UNCHANGED <<now, intent_index>>

\* The params a legacy proposal carries are the ones its intent type reads.
LegacyParams(type) ==
    CASE type = "AddIntent"    -> {0} \X Bodies
      [] type = "RemoveIntent" -> Targets \X {NoIntent}
      [] type = "UpdateIntent" -> Targets \X Bodies
      [] OTHER                 -> {0} \X {NoIntent}

Propose(m, i) ==
    /\ intent[i].type # "None"
    /\ \E params \in LegacyParams(intent[i].type) :
         StoreProposal(m, i, FALSE, intent[i].type, params[1], params[2], 0)

TypedParams(kind) ==
    IF kind = "Governance" THEN Targets \X Bodies ELSE {0} \X {NoIntent}

ProposeTypedV4(m, i) ==
    \E kind \in TypedKinds, expires \in (now + 1) .. (now + MaxTTL) :
        \E params \in TypedParams(kind) :
            StoreProposal(m, i, TRUE, kind, params[1], params[2], expires)

-------------------------------------------------------------------------------
(* approve, cancel and their typed forms *)

\* Fault variant: the first approval sets approved_at.
ApprovedAtOnce(old, met) == IF met /\ old.approved_at = 0 THEN now ELSE old.approved_at
ApprovedAt(old, met) == IF met THEN now ELSE old.approved_at

\* set_approval, and the status change that follows it.
SetApproval(p, idx, m) ==
    LET old  == proposal[p]
        bits == old.approvals \cup {idx}
        met  == Cardinality(bits) >= IntentOf(p).approval_threshold
    IN  /\ idx \in DOMAIN IntentOf(p).approvers
        /\ IntentOf(p).approvers[idx] = m
        /\ idx \notin old.approvals
        /\ proposal' = [proposal EXCEPT ![p] =
             [old EXCEPT !.approvals = bits,
                         !.cancellations = old.cancellations \ {idx},
                         !.status = IF met THEN "Approved" ELSE old.status,
                         !.approved_at = ApprovedAt(old, met)]]
        /\ cast' = [cast EXCEPT ![p] =
             @ \cup {[idx |-> idx, member |-> m, at |-> now]}]
        /\ UNCHANGED <<now, proposal_index, intent_index, intent>>

Approve(p, idx, m) ==
    /\ ~proposal[p].typed
    /\ proposal[p].status = "Active"
    /\ IntentOf(p).approved
    /\ SetApproval(p, idx, m)

ApproveTyped(p, idx, m) ==
    /\ proposal[p].typed
    /\ proposal[p].status = "Active"
    /\ IntentOf(p).approved
    /\ proposal[p].expires_at > now
    /\ SetApproval(p, idx, m)

\* Fault variant: a lost quorum leaves the status alone.
StatusKept(old, cancelled, short) == IF cancelled THEN "Cancelled" ELSE old.status
StatusAfterCancel(old, cancelled, short) ==
    CASE cancelled -> "Cancelled"
      [] ~cancelled /\ old.status = "Approved" /\ short -> "Active"
      [] OTHER -> old.status

\* set_cancellation, and the status change that follows it.
SetCancellation(p, idx) ==
    LET old       == proposal[p]
        bits      == old.cancellations \cup {idx}
        left      == old.approvals \ {idx}
        cancelled == Cardinality(bits) >= IntentOf(p).cancellation_threshold
        short     == Cardinality(left) < IntentOf(p).approval_threshold
    IN  /\ idx \in DOMAIN IntentOf(p).approvers
        /\ idx \notin old.cancellations
        /\ proposal' = [proposal EXCEPT ![p] =
             [old EXCEPT !.approvals = left,
                         !.cancellations = bits,
                         !.status = StatusAfterCancel(old, cancelled, short)]]
        /\ cast' = [cast EXCEPT ![p] = {v \in @ : v.idx # idx}]
        /\ intent' = IF cancelled
                     THEN [intent EXCEPT ![proposal[p].intent].active =
                                             saturating_sub(@)]
                     ELSE intent
        /\ UNCHANGED <<now, proposal_index, intent_index>>

Cancel(p, idx) ==
    /\ ~proposal[p].typed
    /\ Open(p)
    /\ SetCancellation(p, idx)

CancelTyped(p, idx) ==
    /\ proposal[p].typed
    /\ Open(p)
    /\ IntentOf(p).approved
    /\ proposal[p].expires_at > now
    /\ SetCancellation(p, idx)

-------------------------------------------------------------------------------
(* execute, ika_sign and the typed executors *)

Ready(p) ==
    /\ proposal[p].status = "Approved"
    /\ now >= proposal[p].approved_at + IntentOf(p).timelock

TypedReady(p) ==
    /\ proposal[p].typed
    /\ Ready(p)
    /\ IntentOf(p).approved
    /\ proposal[p].expires_at > now

\* The last two statements of every executor.  rules is the intents after the
\* action itself: a rewritten intent's own count is the one that is decremented.
MarkExecuted(p, rules) ==
    /\ proposal' = [proposal EXCEPT ![p].status = "Executed"]
    /\ intent' = [rules EXCEPT ![proposal[p].intent].active = saturating_sub(@)]
    /\ UNCHANGED <<now, proposal_index, cast>>

\* Fault variant: the index is not held below its limit.
AddIntentUnbounded(p) ==
    /\ ~proposal[p].typed /\ Ready(p)
    /\ IntentOf(p).type = "AddIntent"
    /\ intent_index' = intent_index + 1
    /\ MarkExecuted(p, [intent EXCEPT ![intent_index + 1] = proposal[p].body])
ExecuteAddIntent(p) ==
    /\ ~proposal[p].typed /\ Ready(p)
    /\ IntentOf(p).type = "AddIntent"
    /\ intent_index < MaxIntentIndex
    /\ intent_index' = intent_index + 1
    /\ MarkExecuted(p, [intent EXCEPT ![intent_index + 1] = proposal[p].body])

\* Fault variant: open proposals do not stop a removal.
RemoveInUse(p) ==
    /\ ~proposal[p].typed /\ Ready(p)
    /\ IntentOf(p).type = "RemoveIntent"
    /\ MarkExecuted(p, [intent EXCEPT ![proposal[p].target].approved = FALSE])
    /\ UNCHANGED intent_index
ExecuteRemoveIntent(p) ==
    /\ ~proposal[p].typed /\ Ready(p)
    /\ IntentOf(p).type = "RemoveIntent"
    /\ intent[proposal[p].target].active = 0
    /\ MarkExecuted(p, [intent EXCEPT ![proposal[p].target].approved = FALSE])
    /\ UNCHANGED intent_index

\* Fault variant: open proposals do not stop an update.
UpdateInUse(p) ==
    /\ ~proposal[p].typed /\ Ready(p)
    /\ IntentOf(p).type = "UpdateIntent"
    /\ intent[proposal[p].target].type # "None"
    /\ MarkExecuted(p, [intent EXCEPT ![proposal[p].target] = proposal[p].body])
    /\ UNCHANGED intent_index
ExecuteUpdateIntent(p) ==
    /\ ~proposal[p].typed /\ Ready(p)
    /\ IntentOf(p).type = "UpdateIntent"
    /\ intent[proposal[p].target].type # "None"
    /\ intent[proposal[p].target].active = 0
    /\ MarkExecuted(p, [intent EXCEPT ![proposal[p].target] = proposal[p].body])
    /\ UNCHANGED intent_index

\* The instructions a custom intent invokes act on other programs' accounts.
ExecuteCustom(p) ==
    /\ ~proposal[p].typed /\ Ready(p)
    /\ IntentOf(p).type = "Custom"
    /\ MarkExecuted(p, intent)
    /\ UNCHANGED intent_index

\* ika_sign builds the message from the intent's transaction template, which
\* only custom intents have; the signing network's accounts are external.
IkaSign(p) ==
    /\ ~proposal[p].typed /\ Ready(p)
    /\ IntentOf(p).type = "Custom" /\ IntentOf(p).approved
    /\ MarkExecuted(p, intent)
    /\ UNCHANGED intent_index

ValidSnapshot(b) ==
    /\ b.active = 0
    /\ b.approval_threshold \in 1 .. Len(b.approvers)
    /\ b.cancellation_threshold \in 1 .. Len(b.approvers)
    /\ b.proposers # {}

\* Fault variant: all open proposals of the executing intent are discounted.
IgnoresOwnIntent(p) ==
    IF proposal[p].target = proposal[p].intent THEN 0 ELSE intent[proposal[p].target].active
\* The open proposals that block a rewrite: the executing one is discounted
\* when it is a proposal of the very intent it rewrites.
EffectiveActive(p) ==
    LET t == proposal[p].target
    IN  IF t = proposal[p].intent
        THEN saturating_sub(intent[t].active) ELSE intent[t].active

ExecuteTypedIntentGovernance(p) ==
    /\ TypedReady(p)
    /\ proposal[p].kind = "Governance"
    /\ ValidSnapshot(proposal[p].body)
    /\ intent[proposal[p].target].type # "None"
    /\ EffectiveActive(p) = 0
    /\ MarkExecuted(p, [intent EXCEPT ![proposal[p].target] = proposal[p].body])
    /\ UNCHANGED intent_index

\* Sends, policy updates, escrows, agent sessions, schedules: what they do
\* besides consuming the proposal is the subject of other modules.
ExecuteTypedAction(p) ==
    /\ TypedReady(p)
    /\ proposal[p].kind \in {"PolicyUpdate", "Action"}
    /\ MarkExecuted(p, intent)
    /\ UNCHANGED intent_index

-------------------------------------------------------------------------------
(* cleanup_proposal, cleanup_typed_proposal, and the clock *)

Final(p) == proposal[p].status \in {"Executed", "Cancelled"}

\* The account's lamports go to rent_refund and its data is gone.
Close(p) ==
    /\ proposal' = [proposal EXCEPT ![p] = [NoProposal EXCEPT !.status = "Closed"]]
    /\ cast' = [cast EXCEPT ![p] = {}]
    /\ UNCHANGED <<now, proposal_index, intent_index, intent>>

CleanupProposal(p) == Final(p) /\ ~proposal[p].typed /\ Close(p)

\* A PolicyUpdate stays on chain, so that other devices can recover the policy.
CleanupTypedProposal(p) ==
    /\ Final(p) /\ proposal[p].typed
    /\ proposal[p].kind # "PolicyUpdate"
    /\ Close(p)

Tick ==
    /\ now < MaxTime
    /\ now' = now + 1
    /\ UNCHANGED <<proposal_index, intent_index, intent, proposal, cast>>

-------------------------------------------------------------------------------

Execute(p) ==
    \/ ExecuteAddIntent(p)
    \/ ExecuteRemoveIntent(p)
    \/ ExecuteUpdateIntent(p)
    \/ ExecuteCustom(p)
    \/ IkaSign(p)
    \/ ExecuteTypedIntentGovernance(p)
    \/ ExecuteTypedAction(p)

Vote(p) ==
    \E idx \in ApproverIndices :
        \/ \E m \in Members : Approve(p, idx, m)
        \/ \E m \in Members : ApproveTyped(p, idx, m)
        \/ Cancel(p, idx)
        \/ CancelTyped(p, idx)

Next ==
    \/ \E m \in Members, i \in IntentIds : Propose(m, i)
    \/ \E m \in Members, i \in IntentIds : ProposeTypedV4(m, i)
    \/ \E p \in ProposalIds : Vote(p)
    \/ \E p \in ProposalIds : Execute(p)
    \/ \E p \in ProposalIds : CleanupProposal(p)
    \/ \E p \in ProposalIds : CleanupTypedProposal(p)
    \/ Tick

Spec == Init /\ [][Next]_vars

-------------------------------------------------------------------------------
(* Properties *)

\* Every account holds well-formed data: the fields of the wallet, of each
\* Intent and of each Proposal or TypedProposal stay in the ranges of their
\* declarations in state/.
TypeOK ==
    /\ now \in 0 .. MaxTime
    /\ proposal_index \in 0 .. MaxProposals
    /\ intent_index \in 2 .. MaxIntentIndex
    /\ intent \in [IntentIds -> IntentRecords]
    /\ proposal \in [ProposalIds -> ProposalRecords]
    /\ cast \in [ProposalIds -> SUBSET Votes]

\* active_proposal_count of an intent is the number of its open proposals
\* (state/intent.rs:66): whatever order votes, executions, rewrites of intents
\* and cleanups come in, no decrement is lost or taken twice.
ActiveCountExact ==
    \A i \in IntentIds : intent[i].active = Cardinality(OpenOn(i))

\* A proposal that an executor would accept has its quorum: the executors look
\* only at status, so a status of Approved must never outlive the approvals that
\* earned it or the threshold they were counted against.
QuorumHolds ==
    \A p \in ProposalIds :
        proposal[p].status = "Approved" =>
            Cardinality(proposal[p].approvals) >= IntentOf(p).approval_threshold

\* Every approval bit of an open proposal was set by the member who holds that
\* position in the approver list the proposal is counted under now: bits are
\* positions, so a list rewritten under an open proposal would hand them to
\* other members.
BackedApprovals ==
    \A p \in ProposalIds : Open(p) =>
        /\ proposal[p].approvals = {v.idx : v \in cast[p]}
        /\ \A v \in cast[p] :
             /\ v.idx \in DOMAIN IntentOf(p).approvers
             /\ IntentOf(p).approvers[v.idx] = v.member

\* An open proposal's intent is approved, so a removed intent has no proposal
\* that execute or cancel (which do not look at intent.approved) could act on.
OpenOnApprovedIntent ==
    \A p \in ProposalIds : Open(p) => IntentOf(p).approved

Rules(i) == [intent[i] EXCEPT !.active = 0]

\* The rules of an intent do not change under a proposal that stays open
\* (state/intent.rs:67), through any of the three instructions that rewrite
\* intents, the typed one with its same-intent discount included.
OpenIntentFrozen ==
    [][\A p \in ProposalIds :
         Open(p) /\ Open(p)' => Rules(proposal[p].intent)' = Rules(proposal[p].intent)]_vars

\* When a proposal is executed every approval that counts has stood for the
\* whole timelock, also when an earlier quorum was lost to a cancel vote and
\* won again (approved_at is then the later time), and the votes against it are
\* fewer than the cancellation threshold.
TimelockServed ==
    [][\A p \in ProposalIds :
         Open(p) /\ proposal[p]'.status = "Executed" =>
            /\ \A v \in cast[p] : now >= v.at + IntentOf(p).timelock
            /\ proposal[p].cancellations # {} =>
                 Cardinality(proposal[p].cancellations)
                     < IntentOf(p).cancellation_threshold]_vars

Expired(p) == proposal[p].typed /\ Open(p) /\ proposal[p].expires_at <= now

\* Approving, cancelling and executing a typed proposal all require it to be
\* unexpired and cleanup requires it to be final, so an expired open proposal
\* keeps its place in active_proposal_count for good and the intent it was made
\* under can never be rewritten or removed again.
ExpiredPinsIntent ==
    [][\A p \in ProposalIds :
         Expired(p) => Expired(p)' /\ Rules(proposal[p].intent)' = Rules(proposal[p].intent)]_vars

\* A proposal index is used once and finality is final: an executed proposal is
\* never cancelled, a cancelled one never executed, and neither is open again,
\* also after its account was closed and its address became free, so that the
\* approvals of a proposal can be spent only once.
FinalIsForever ==
    [][\A p \in ProposalIds :
         proposal[p].status \in {"Executed", "Cancelled", "Closed"} =>
            proposal[p]'.status \in {proposal[p].status, "Closed"}]_vars

-------------------------------------------------------------------------------
(* The inductive invariant of GovernanceProofs *)

\* Addresses beyond wallet.intent_index hold no intent yet.
FreshIntents ==
    \A i \in IntentIds :
        i > intent_index => intent[i].type = "None" /\ ~intent[i].approved

\* Indices from wallet.proposal_index on were never used.
FreshProposals == \A p \in ProposalIds : p >= proposal_index => proposal[p].status = "None"

GovInv ==
    /\ TypeOK
    /\ ActiveCountExact
    /\ QuorumHolds
    /\ BackedApprovals
    /\ OpenOnApprovedIntent
    /\ FreshIntents

\* No vote is from the future, a quorum is dated after the votes it counts, and
\* a proposal that is still open has too few votes against it.
VotesInv ==
    \A p \in ProposalIds :
        /\ \A v \in cast[p] : v.at <= now
        /\ proposal[p].status = "Approved" =>
             \A v \in cast[p] : v.at <= proposal[p].approved_at
        /\ Open(p) /\ proposal[p].cancellations # {} =>
             Cardinality(proposal[p].cancellations) < IntentOf(p).cancellation_threshold
===============================================================================
