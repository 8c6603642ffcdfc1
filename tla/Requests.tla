------------------------------ MODULE Requests ------------------------------
(***************************************************************************)
(* One browser tab working on one existing wallet request: approving it,   *)
(* voting to cancel it, executing it and checking what became of earlier   *)
(* attempts (apps/web: useProposalWorkflow, submitReviewedVote, the        *)
(* RequestRecoveryStore, the signing lock and the request page).           *)
(*                                                                         *)
(* Every await of the hook is a step of its own, so the chain, the other   *)
(* members, the wallet account and the page may change between any two.    *)
(* The tab reads the finalized state, which lags behind the chain; a       *)
(* submission may land, land late, land twice or get lost, and its reply   *)
(* may be lost although it landed.                                         *)
(***************************************************************************)
EXTENDS Naturals, Sequences, FiniteSets, SequencesExt

CONSTANTS
    Members,          \* approvers of the request's intent
    Accounts,         \* wallet accounts the person can connect in this tab
    Holds,            \* Holds[a]: member keys that account a signs with
    Threshold,        \* approvals that make the request Approved
    CancelThreshold,  \* cancellations that make it Cancelled
    Kind,             \* executionKind: "native", "governance" or "external"
    Attempts,         \* attempt slots: bounds the clicks of one behaviour
    MaxChanges,       \* bound on account switches, remounts and reloads
    MaxSaved          \* RequestRecoveryStore loads at most this many entries

VARIABLES
    chain,       \* the proposal account as the program holds it
    final,       \* the same at the finalized commitment
    shown,       \* reviewQuery.data: what the page displays, or NoReview
    account,     \* connected account
    generation,  \* lifecycle.generation: account switches and remounts
    instance,    \* which mount of the page is alive
    attempts,    \* the hook's asynchronous operations
    entries,     \* RequestRecoveryStore.entries
    stored,      \* their copy in sessionStorage
    held,        \* signingLock.held
    pending,     \* signingLock.pendingProviderOperations
    net,         \* submissions handed to the backend
    asked,       \* history: submissions of this tab not yet finalized
    cast,        \* history: votes and executions the chain ever finalized
    told,        \* history: outcomes the tab reported as confirmed
    lossy        \* history: a reload forgot a saved entry

vars == <<chain, final, shown, account, generation, instance, attempts,
          entries, stored, held, pending, net, asked, cast, told, lossy>>

store == <<entries, stored>>
lock == <<held, pending>>
page == <<shown, account, generation, instance>>
ledger == <<chain, final>>
history == <<asked, cast, told, lossy>>

Votes == {"approve", "cancel"}
Status == {"Active", "Approved", "Executed", "Cancelled"}
Proposals == [status : Status, approvals : SUBSET Members, cancels : SUBSET Members]
NoReview == [status |-> "none", approvals |-> {}, cancels |-> {}]
NoActor == "none"

\* What a submission asks for: a member's vote, or the execution.
Acts == (Votes \X Members) \cup {<<"execute", NoActor>>}

SavedRequests == [phase : {"vote"}, actor : Members, vote : Votes,
                  owner : Accounts, outcome : {"unknown", "submitted"}]
          \cup [phase : {"execution"}, actor : {NoActor}, vote : {"execute"},
                owner : Accounts, outcome : {"unknown", "submitted"}]

Pcs == {"idle", "read", "prepare", "sign", "review", "prompt", "final",
        "context", "submitted", "verify", "done"}
AttemptRecords ==
    [kind : Votes \cup {"execute", "checkVotes", "checkExecution", "none"},
     pc : Pcs, gen : Nat, inst : Nat, owner : Accounts \cup {NoActor},
     actor : Members \cup {NoActor}, seen : Proposals \cup {NoReview},
     base : Proposals \cup {NoReview}, saved : SUBSET SavedRequests]
Unused == [kind |-> "none", pc |-> "idle", gen |-> 0, inst |-> 0, owner |-> NoActor,
           actor |-> NoActor, seen |-> NoReview, base |-> NoReview, saved |-> {}]

\* A settled operation; nothing reads its record again.
Done == [Unused EXCEPT !.pc = "done"]

TypeOK ==
    /\ chain \in Proposals /\ final \in Proposals
    /\ shown \in Proposals \cup {NoReview}
    /\ account \in Accounts
    /\ generation \in 0..MaxChanges /\ instance \in 0..MaxChanges
    /\ attempts \in [Attempts -> AttemptRecords]
    /\ entries \in Seq(SavedRequests) /\ stored \in Seq(SavedRequests)
    /\ held \in BOOLEAN /\ pending \in 0..Cardinality(Attempts)
    /\ \A m \in net : /\ m.id \in Attempts
                      /\ m.kind \in Votes \cup {"execute"}
                      /\ m.landed \in BOOLEAN
    /\ asked \subseteq [id : Attempts, act : Acts]
    /\ cast \subseteq Acts /\ told \subseteq Acts
    /\ lossy \in BOOLEAN

Init ==
    /\ chain = [status |-> "Active", approvals |-> {}, cancels |-> {}]
    /\ final = chain
    /\ shown = NoReview
    /\ account \in Accounts
    /\ generation = 0 /\ instance = 0
    /\ attempts = [a \in Attempts |-> Unused]
    /\ entries = <<>> /\ stored = <<>>
    /\ held = FALSE /\ pending = 0
    /\ net = {} /\ asked = {} /\ cast = {} /\ told = {} /\ lossy = FALSE

-----------------------------------------------------------------------------
(* The program's side of a vote and of an execution. *)

\* The chain after member m casts vote v; an opposite vote is replaced.
AfterVote(p, m, v) ==
    LET ap == IF v = "approve" THEN p.approvals \cup {m} ELSE p.approvals \ {m}
        ca == IF v = "cancel" THEN p.cancels \cup {m} ELSE p.cancels \ {m}
    IN  [approvals |-> ap, cancels |-> ca,
         status |-> IF Cardinality(ca) >= CancelThreshold THEN "Cancelled"
                    ELSE IF Cardinality(ap) >= Threshold THEN "Approved" ELSE "Active"]

CanVote(p, m, v) ==
    \/ v = "approve" /\ p.status = "Active" /\ m \notin p.approvals
    \/ v = "cancel" /\ p.status \in {"Active", "Approved"} /\ m \notin p.cancels

\* Another browser, or the CLI, votes or executes.
Elsewhere ==
    /\ \/ \E m \in Members, v \in Votes :
              CanVote(chain, m, v) /\ chain' = AfterVote(chain, m, v)
       \/ chain.status = "Approved" /\ chain' = [chain EXCEPT !.status = "Executed"]
    /\ UNCHANGED <<final, page, attempts, store, lock, net, history>>

\* What a finalized account shows to have happened.
Recorded(p) ==
    {<<"approve", m>> : m \in p.approvals} \cup {<<"cancel", m>> : m \in p.cancels}
    \cup (IF p.status = "Executed" THEN {<<"execute", NoActor>>} ELSE {})

\* The cluster finalizes what it has; submissions of this tab become certain.
Finalize ==
    /\ final # chain
    /\ final' = chain
    /\ cast' = cast \cup Recorded(chain)
    /\ asked' = {q \in asked : q.act \notin Recorded(chain)}
    /\ UNCHANGED <<chain, page, attempts, store, lock, net, told, lossy>>

\* A submission reaches the program. withRetry may send the same payload
\* again, so it stays in the network and may be tried again.
Land(m) ==
    /\ \/ /\ m.kind = "execute" /\ chain.status = "Approved"
          /\ chain' = [chain EXCEPT !.status = "Executed"]
       \/ /\ m.kind \in Votes /\ CanVote(chain, m.actor, m.kind)
          /\ chain' = AfterVote(chain, m.actor, m.kind)
    /\ net' = (net \ {m}) \cup {[m EXCEPT !.landed = TRUE]}
    /\ UNCHANGED <<final, page, attempts, store, lock, history>>

Drop(m) ==
    /\ net' = net \ {m}
    /\ UNCHANGED <<ledger, page, attempts, store, lock, history>>

-----------------------------------------------------------------------------
(* RequestRecoveryStore *)

\* update: the tab's memory always changes; sessionStorage may refuse the write.
Update(new) ==
    /\ entries' = new
    /\ stored' \in {new, stored}

votesFor == SelectSeq(entries, LAMBDA e : e.phase = "vote")
voteFor(m) == \E i \in DOMAIN entries : entries[i].phase = "vote" /\ entries[i].actor = m
executionFor == \E i \in DOMAIN entries : entries[i].phase = "execution"

\* begin's key: wallet, endpoint and proposal are fixed here, so it is the
\* connected account and the identity of the action.
KeyOf(owner, kind, actor) == <<owner, kind, actor>>
SavedKey(e) == KeyOf(e.owner, e.vote, e.actor)
Saved(k) == \E i \in DOMAIN entries : SavedKey(entries[i]) = k
Without(k) == SelectSeq(entries, LAMBDA e : SavedKey(e) # k)

Entry(a, outcome) ==
    [phase |-> IF a.kind = "execute" THEN "execution" ELSE "vote",
     actor |-> a.actor, vote |-> a.kind, owner |-> a.owner, outcome |-> outcome]
Key(a) == KeyOf(a.owner, a.kind, a.actor)
Act(a) == <<a.kind, a.actor>>

-----------------------------------------------------------------------------
(* Lifecycle of the page *)

Live(a) == attempts[a].pc \notin {"idle", "done"}

\* approvalInFlight of the page instance that is mounted.
InFlight == \E a \in Attempts :
    /\ Live(a) /\ attempts[a].inst = instance
    /\ attempts[a].kind \in Votes \cup {"execute"}

\* identityGuard / assertIdentity.
Current(a) == attempts[a].inst = instance /\ attempts[a].gen = generation

\* reviewQuery (re)fetches: a canonical review exists of any finalized state.
ShowReview ==
    /\ shown # final
    /\ shown' = final
    /\ UNCHANGED <<ledger, account, generation, instance, attempts, store, lock, net, history>>

SwitchAccount(x) ==
    /\ x # account /\ generation < MaxChanges
    /\ account' = x /\ generation' = generation + 1
    /\ UNCHANGED <<ledger, shown, instance, attempts, store, lock, net, history>>

\* Leaving the page and opening it again: work of the old mount keeps running.
Remount ==
    /\ generation < MaxChanges
    /\ generation' = generation + 1 /\ instance' = instance + 1
    /\ shown' = NoReview
    /\ UNCHANGED <<ledger, account, attempts, store, lock, net, history>>

\* Reloading the tab: memory is gone, the first MaxSaved stored entries return.
Reload ==
    /\ generation < MaxChanges
    /\ generation' = generation + 1 /\ instance' = instance + 1
    /\ shown' = NoReview
    /\ attempts' = [a \in Attempts |->
                       IF Live(a) THEN Done ELSE attempts[a]]
    /\ entries' = SubSeq(stored, 1, IF Len(stored) < MaxSaved THEN Len(stored) ELSE MaxSaved)
    /\ lossy' = (lossy \/ entries' # entries)
    /\ held' = FALSE /\ pending' = 0
    /\ UNCHANGED <<ledger, account, stored, net, asked, cast, told>>

-----------------------------------------------------------------------------
(* Steps shared by the operations *)

\* finally: approvalInFlight.current = false, and the signing lock if it is ours.
End(a) == attempts' = [attempts EXCEPT ![a] = Done]
Goto(a, pc) == attempts' = [attempts EXCEPT ![a].pc = pc]
Holding(a) == attempts[a].pc \in {"review", "prompt"}

\* The rejection of any await: a failed read, a refused preparation, a
\* cancelled review, a guard that throws. Nothing was submitted.
Fail(a) ==
    /\ attempts[a].pc \in {"read", "prepare", "sign", "review", "final", "context"}
    /\ End(a)
    /\ held' = (held /\ ~Holding(a))
    /\ UNCHANGED <<ledger, page, store, pending, net, history>>

\* Buttons of the request page and the first synchronous part of a mutation.
Begin(a, kind) ==
    /\ attempts[a].pc = "idle"
    /\ attempts' = [attempts EXCEPT ![a] =
           [Unused EXCEPT !.kind = kind, !.pc = "read", !.gen = generation,
                          !.inst = instance, !.owner = account, !.seen = shown,
                          !.saved = IF kind = "checkVotes" THEN ToSet(votesFor) ELSE {}]]
    /\ UNCHANGED <<ledger, page, store, lock, net, history>>

pickSigner(members) == {m \in Holds[account] : m \in members}

ClickApprove(a) ==
    /\ ~InFlight
    /\ shown.status = "Active"
    /\ pickSigner(Members \ shown.approvals) # {}
    /\ Begin(a, "approve")

ClickCancel(a) ==
    /\ ~InFlight
    /\ shown.status \in {"Active", "Approved"}
    /\ pickSigner(Members \ shown.cancels) # {}
    /\ Begin(a, "cancel")

ClickExecute(a) ==
    /\ ~InFlight /\ ~executionFor
    /\ shown.status = "Approved"
    /\ pickSigner(Members) # {}
    /\ Begin(a, "execute")

ClickCheckVotes(a) == ~InFlight /\ votesFor # <<>> /\ Begin(a, "checkVotes")
ClickCheckExecution(a) == ~InFlight /\ executionFor /\ Begin(a, "checkExecution")

\* reviewId commits to the approvals and the status; the cancellation
\* fingerprint to the whole account.
reviewId(p) == <<p.approvals, p.status>>
SameReview(a, p) ==
    IF attempts[a].kind = "approve" THEN reviewId(p) = reviewId(attempts[a].seen)
                                    ELSE p = attempts[a].seen

-----------------------------------------------------------------------------
(* Approve and cancel: read, prepare, sign, re-read, submit, verify *)

ReadApproval(a) ==
    /\ attempts[a].kind = "approve" /\ attempts[a].pc = "read"
    /\ SameReview(a, final) /\ final.status = "Active"
    /\ Current(a)
    /\ \E m \in pickSigner(Members \ final.approvals) :
          /\ ~voteFor(m)
          /\ attempts' = [attempts EXCEPT ![a].pc = "prepare", ![a].actor = m,
                                          ![a].seen = final]
    /\ UNCHANGED <<ledger, page, store, lock, net, history>>

ReadCancellation(a) ==
    /\ attempts[a].kind = "cancel" /\ attempts[a].pc = "read"
    /\ final.status \in {"Active", "Approved"}
    /\ Current(a)
    /\ \E m \in pickSigner(Members \ final.cancels) :
          /\ ~voteFor(m)
          /\ attempts' = [attempts EXCEPT ![a].pc = "prepare", ![a].actor = m,
                                          ![a].seen = final]
    /\ UNCHANGED <<ledger, page, store, lock, net, history>>

\* The prepared descriptor is bound to the review, then the state is read again.
Prepare(a) ==
    /\ attempts[a].pc = "prepare"
    /\ SameReview(a, final) /\ Current(a)
    /\ Goto(a, "sign")
    /\ UNCHANGED <<ledger, page, store, lock, net, history>>

\* withSigningLock: refused while a signature is requested or a wallet prompt
\* of an abandoned request is still open.
LockFree == ~held /\ pending = 0

\* captureTypedSigningState: the confirmed authority at the start of signing.
SigningState(a) ==
    LET r == attempts[a]
        votes(p) == IF r.kind = "approve" THEN p.approvals ELSE p.cancels
    IN  CanVote(chain, r.actor, r.kind)
        /\ Cardinality(votes(chain)) = Cardinality(votes(r.seen))

SignBegin(a) ==
    /\ attempts[a].pc = "sign"
    /\ LockFree /\ Current(a) /\ SigningState(a)
    /\ held' = TRUE
    /\ attempts' = [attempts EXCEPT ![a].pc = "review", ![a].base = chain]
    /\ UNCHANGED <<ledger, page, store, pending, net, history>>

\* The person reads the document and continues to the wallet.
ConfirmReview(a) ==
    /\ attempts[a].pc = "review"
    /\ Current(a) /\ chain = attempts[a].base
    /\ pending' = pending + 1
    /\ Goto(a, "prompt")
    /\ UNCHANGED <<ledger, page, store, held, net, history>>

\* signBytes resolves: the guards and the chain check run again before the
\* signature is handed back; otherwise it is thrown away.
PromptAnswered(a) ==
    /\ attempts[a].pc = "prompt"
    /\ pending' = pending - 1 /\ held' = FALSE
    /\ \/ Current(a) /\ chain = attempts[a].base /\ Goto(a, "final")
       \/ End(a)
    /\ UNCHANGED <<ledger, page, store, net, history>>

\* withWalletSignatureTimeout gives up; the provider's promise is still open.
PromptTimeout(a) ==
    /\ attempts[a].pc = "prompt"
    /\ held' = FALSE
    /\ End(a)
    /\ UNCHANGED <<ledger, page, store, pending, net, history>>

\* The wallet closes a prompt whose request was abandoned.
ProviderSettles ==
    /\ pending > Cardinality({a \in Attempts : attempts[a].pc = "prompt"})
    /\ pending' = pending - 1
    /\ UNCHANGED <<ledger, page, attempts, store, held, net, history>>

\* The review read again after signing (approve) or the context (cancel).
FinalRead(a) ==
    /\ attempts[a].pc = "final"
    /\ SameReview(a, final) /\ Current(a)
    /\ Goto(a, "context")
    /\ UNCHANGED <<ledger, page, store, lock, net, history>>

\* approvalContextMatches compares the approvals; a cancellation goes on with
\* the context it has just checked.
ContextMatches(a) ==
    attempts[a].kind = "approve" => final.approvals = attempts[a].seen.approvals

\* submitReviewedVote up to its first await: entry written, then submitted.
SubmitVote(a) ==
    LET r == attempts[a] IN
    /\ r.kind \in Votes /\ r.pc = "context"
    /\ ContextMatches(a) /\ Current(a)
    /\ ~voteFor(r.actor) /\ ~Saved(Key(r))
    /\ Update(Append(Without(Key(r)), Entry(r, "unknown")))
    /\ net' = net \cup {[id |-> a, kind |-> r.kind, actor |-> r.actor, landed |-> FALSE]}
    /\ asked' = asked \cup {[id |-> a, act |-> Act(r)]}
    /\ Goto(a, "submitted")
    /\ UNCHANGED <<ledger, page, lock, cast, told, lossy>>

\* The reply names the transaction: accepted. The guard may still throw.
ReplyAccepted(a) ==
    /\ attempts[a].pc = "submitted"
    /\ \E m \in net : m.id = a /\ m.landed
    /\ Update(Append(Without(Key(attempts[a])), Entry(attempts[a], "submitted")))
    /\ IF Current(a) THEN Goto(a, "verify") ELSE End(a)
    /\ UNCHANGED <<ledger, page, lock, net, history>>

\* No usable reply: refused, malformed, timed out or lost. The entry stays.
ReplyMissing(a) ==
    /\ attempts[a].pc = "submitted"
    /\ End(a)
    /\ UNCHANGED <<ledger, page, store, lock, net, history>>

\* Fault variant: the acknowledged submission is taken for the vote.
voteIsAcknowledged(p, m, v) == TRUE

voteIsRecorded(p, m, v) ==
    IF v = "approve" THEN m \in p.approvals /\ m \notin p.cancels
                     ELSE m \in p.cancels /\ m \notin p.approvals

VerifyVote(a) ==
    LET r == attempts[a] IN
    /\ r.kind \in Votes /\ r.pc = "verify"
    /\ End(a)
    /\ \/ /\ Current(a) /\ voteIsRecorded(final, r.actor, r.kind)
          /\ Update(Without(Key(r)))
          /\ told' = told \cup {Act(r)}
       \/ UNCHANGED <<store, told>>
    /\ UNCHANGED <<ledger, page, lock, net, asked, cast, lossy>>

\* checkVotesMutation: read-only; clears the attempts that are recorded.
CheckVotes(a) ==
    /\ attempts[a].kind = "checkVotes" /\ attempts[a].pc = "read"
    /\ Current(a)
    /\ Update(SelectSeq(entries, LAMBDA e :
           ~(e \in attempts[a].saved /\ voteIsRecorded(final, e.actor, e.vote))))
    /\ End(a)
    /\ UNCHANGED <<ledger, page, lock, net, history>>

-----------------------------------------------------------------------------
(* Execution of an approved request *)

ExecuteRead(a) ==
    LET r == attempts[a] IN
    /\ r.kind = "execute" /\ r.pc = "read"
    /\ final.status = "Approved"
    /\ Kind = "native" => reviewId(final) = reviewId(shown)
    /\ Current(a)
    /\ ~Saved(Key(r))
    /\ Update(Append(Without(Key(r)), Entry(r, "unknown")))
    /\ net' = net \cup {[id |-> a, kind |-> "execute", actor |-> NoActor, landed |-> FALSE]}
    /\ asked' = asked \cup {[id |-> a, act |-> Act(r)]}
    /\ Goto(a, "submitted")
    /\ UNCHANGED <<ledger, page, lock, cast, told, lossy>>

\* An execution on another chain is never confirmed by the Solana account.
Settled(p) == Kind # "external" /\ p.status = "Executed"

VerifyExecution(a) ==
    LET r == attempts[a] IN
    /\ r.kind = "execute" /\ r.pc = "verify"
    /\ End(a)
    /\ \/ /\ Current(a) /\ Settled(final)
          /\ Update(Without(Key(r)))
          /\ told' = told \cup {Act(r)}
       \/ UNCHANGED <<store, told>>
    /\ UNCHANGED <<ledger, page, lock, net, asked, cast, lossy>>

CheckExecution(a) ==
    /\ attempts[a].kind = "checkExecution" /\ attempts[a].pc = "read"
    /\ Current(a)
    /\ IF Settled(final) THEN Update(SelectSeq(entries, LAMBDA e : e.phase # "execution"))
                         ELSE UNCHANGED store
    /\ End(a)
    /\ UNCHANGED <<ledger, page, lock, net, history>>

-----------------------------------------------------------------------------
Step(a) ==
    \/ ReadApproval(a) \/ ReadCancellation(a) \/ Prepare(a)
    \/ SignBegin(a) \/ ConfirmReview(a) \/ PromptAnswered(a) \/ PromptTimeout(a)
    \/ FinalRead(a) \/ SubmitVote(a)
    \/ ReplyAccepted(a) \/ ReplyMissing(a) \/ VerifyVote(a)
    \/ ExecuteRead(a) \/ VerifyExecution(a)
    \/ CheckVotes(a) \/ CheckExecution(a)
    \/ Fail(a)

Click(a) ==
    \/ ClickApprove(a) \/ ClickCancel(a) \/ ClickExecute(a)
    \/ ClickCheckVotes(a) \/ ClickCheckExecution(a)

Environment ==
    \/ Elsewhere \/ Finalize \/ ShowReview \/ Remount \/ Reload
    \/ \E x \in Accounts : SwitchAccount(x)
    \/ \E m \in net : Land(m) \/ Drop(m)
    \/ ProviderSettles

Next ==
    \/ \E a \in Attempts : Step(a) \/ Click(a)
    \/ Environment

Spec == Init /\ [][Next]_vars

-----------------------------------------------------------------------------
(* Properties *)

\* While it is unknown what became of a vote of this tab, the tab does not
\* submit another vote of that member, not even the opposite one, and it asks
\* for the execution once only: whatever account switches, remounts, reloads
\* and lost replies happen (unless a reload lost the entry).
OneOutstanding ==
    lossy \/ \A p, q \in asked : p.act[2] = q.act[2] => p.id = q.id

\* The wallet shows one prompt at a time, also after a prompt was abandoned.
OnePrompt == pending <= 1

\* What the tab reports as confirmed was recorded at finalized commitment,
\* an acknowledged submission alone never counts.
ToldTrue == told \subseteq cast

\* A submission is made under the account and mount that the person used
\* when they clicked: no step of an attempt that outlived them submits.
SubmitsForCurrent ==
       \A a \in Attempts :
         attempts[a].pc # "submitted" /\ attempts'[a].pc = "submitted"
            => attempts[a].owner = account /\ attempts[a].inst = instance
=============================================================================
