----------------------------- MODULE Workflows -----------------------------
(***************************************************************************)
(* One browser tab creating a wallet request and carrying it through: the  *)
(* five send pages, the batch send, saved limits, member and rule changes, *)
(* the setup pages and the agent approvals (apps/web).                     *)
(*                                                                         *)
(* Every handler is one asynchronous function that awaits the backend, the *)
(* chain and the signer in a fixed order.  Its script lists those steps in *)
(* the order of the code; the actions below say what each kind of step     *)
(* does.  Between two steps the person may change a policy, switch the     *)
(* account, leave the page and come back or reload the tab, and other      *)
(* members may vote.  Calls to the backend may land late, or not at all,   *)
(* or land and lose their reply.                                           *)
(***************************************************************************)
EXTENDS Naturals, Sequences, FiniteSets, SequencesExt

CONSTANTS
    Attempts,     \* clicks of one behaviour, 1..n; each may create a request
    Accounts,     \* accounts the person can connect in this tab
    Threshold,    \* approvals that make a request Approved
    HasExtra,     \* the tab can sign as the approver a policy adds
    MaxChanges    \* bound on policy edits, switches, remounts and reloads

VARIABLES
    script,    \* the steps of the page's handler
    auto,      \* the proposing key is itself an approver of the rule
    policy,    \* what the locally saved policy asks of this change
    account,   \* connected account
    changes,   \* edits, switches, remounts and reloads so far
    att,       \* the attempts
    memory,    \* the recovery entry of the mounted page, per account
    stored,    \* its copy in sessionStorage, per account
    exec,      \* execution entries of RequestRecoveryStore, per request
    chain,     \* the proposal account of each request
    net,       \* calls handed to the backend; one that never lands is lost
    hist       \* history, see Histories

vars == <<script, auto, policy, account, changes, att, memory,
          stored, exec, chain, net, hist>>

tab == <<script, auto, policy, account, changes>>
saves == <<memory, stored>>
world == <<chain, net>>

Plans == {"allow", "deny", "extra", "cooldown"}
Voters == {"me", "extra", "other"}
Statuses == {"none", "Active", "Approved", "Executed", "Cancelled"}
NoRequest == 0
NoEntry == [req |-> NoRequest, outcome |-> "none"]
Entries == [req : Attempts, outcome : {"unknown", "submitted"}] \cup {NoEntry}

-----------------------------------------------------------------------------
(* Scripts: the order of the awaited steps in each handler. *)

BtcPropose == <<"send", "policy", "prepare", "sign", "submitting", "create", "accepted">>
BtcFinish == <<"approve", "extras", "cooldown", "wait", "execute", "executed">>

ZecPropose == <<"send", "policy", "prepare", "sign", "submitting", "create", "accepted">>
ZecFinish == <<"approve", "policy", "extras", "cooldown", "wait", "execute", "executed">>

EthPropose == <<"send", "policy", "prepare", "sign", "submitting", "create", "accepted">>
EthFinish == <<"approve", "policy", "extras", "cooldown", "wait", "execute", "executed">>

Erc20Propose == <<"send", "policy", "prepare", "sign", "submitting", "create", "accepted">>
Erc20Finish == <<"approve", "policy", "extras", "cooldown", "wait", "execute", "executed">>

\* A Solana send captures the policy review once and checks it again before
\* every call it makes; a failed own approval leaves the request waiting.
SolanaPropose == <<"send", "policy", "prepare", "recheck", "sign", "recheck",
                   "submitting", "create", "accepted">>
SolanaFinish == <<"approveOrLeave", "policy", "extras", "cooldown", "wait",
                  "recheck", "execute", "executed">>

BatchPropose == <<"request", "prepare", "sign", "submitting", "create", "accepted">>
BatchFinish == <<"approve", "executeSaved">>

SaveLimits == <<"request", "prepare", "sign", "submitting", "create",
                "accepted", "approve", "wait", "canonical", "complete">>

\* Member, role, threshold and timelock changes refuse while another request
\* is open, then run completeTypedGovernance.
NoOpenRequest == <<"blockers">>
Govern == <<"request", "prepare", "sign", "submitting", "create", "accepted">>
GovernFinish == <<"approve", "wait", "canonical", "complete">>

AgentTrade == <<"request", "prepare", "sign", "submitting", "create", "accepted">>
AgentTradeFinish == <<"approveOrLeave", "wait", "canonical", "recorded">>
AgentRisk == <<"request", "prepare", "sign", "submitting", "create", "accepted">>
AgentRiskFinish == <<"approveOrLeave", "wait", "canonical", "recorded">>
AgentSession == <<"request", "prepare", "sign", "submitting", "create", "accepted">>
AgentSessionFinish == <<"approveOrLeave", "wait", "canonical", "recorded">>
AgentSettlement == <<"request", "prepare", "sign", "submitting", "create", "accepted">>
AgentSettlementFinish == <<"approve", "wait", "canonical", "recorded">>

\* Installing a sending rule; the proposer must be the only approver needed,
\* and the creation entry is kept after the rule is installed.
Install == <<"request", "prepare", "sign", "submitting", "create", "accepted",
             "approved", "canonical">>
NewWallet == <<"prepare", "wallet">> \o Install
SetupSolana == Install
SetupEth == Install
SetupErc20 == Install
SetupZcash == Install
SetupBitcoin == <<"request", "prepare", "sign", "submitting", "create", "accepted",
                  "approved", "wait", "canonical">>

AddMember == NoOpenRequest \o Govern \o GovernFinish
RemoveMember == NoOpenRequest \o Govern \o GovernFinish
ChangeRole == NoOpenRequest \o Govern \o GovernFinish
ChangeThreshold == NoOpenRequest \o Govern \o GovernFinish
ChangeTimelock == NoOpenRequest \o Govern \o GovernFinish

Scripts ==
    [btc |-> BtcPropose \o BtcFinish, zec |-> ZecPropose \o ZecFinish,
     eth |-> EthPropose \o EthFinish, erc20 |-> Erc20Propose \o Erc20Finish,
     sol |-> SolanaPropose \o SolanaFinish, batch |-> BatchPropose \o BatchFinish,
     limits |-> SaveLimits, addMember |-> AddMember, removeMember |-> RemoveMember,
     role |-> ChangeRole, threshold |-> ChangeThreshold, timelock |-> ChangeTimelock,
     trade |-> AgentTrade \o AgentTradeFinish, risk |-> AgentRisk \o AgentRiskFinish,
     session |-> AgentSession \o AgentSessionFinish,
     settlement |-> AgentSettlement \o AgentSettlementFinish,
     newWallet |-> NewWallet, setupSol |-> SetupSolana, setupEth |-> SetupEth,
     setupErc20 |-> SetupErc20, setupZec |-> SetupZcash, setupBtc |-> SetupBitcoin]

\* Agent approvals look for the request an earlier attempt left behind.
Resumable == script[Len(script)] = "recorded"

-----------------------------------------------------------------------------
UsesSend == script[1] = "send"
Protected == "policy" \in ToSet(script)

Subs == {"start", "prompt", "reply", "verify"}
\* current: no account switch or remount since the click (identity and mount
\* generations); reviewed: no policy or input event since (signing review
\* revision); here: the page that started it is still mounted.
Unused == [at |-> 0, sub |-> "start", current |-> FALSE, reviewed |-> FALSE,
           here |-> FALSE, account |-> "none", plan |-> "allow",
           cooled |-> FALSE, req |-> NoRequest]
Ended == [Unused EXCEPT !.at = 99]

Calls == [kind : {"create", "execute"}, req : Attempts, voter : {"none"}]
          \cup [kind : {"approve"}, req : Attempts, voter : Voters]
Call(k, r, v) == [kind |-> k, req |-> r, voter |-> v]

\* denied: requests whose creation was signed while the policy said deny;
\* posted: accounts under which its creation was handed to the backend;
\* excused: requests the person acknowledged, or that completed;
\* tries: execution calls made;
\* told: what the page reported; clobbered: a save replaced the entry of
\* another request that nobody had acknowledged.
Histories ==
    [denied : SUBSET Attempts,
     posted : [Attempts -> Accounts \cup {"none"}],
     excused : SUBSET Attempts,
     tries : [Attempts -> 0..Cardinality(Attempts)],
     told : [Attempts -> {"none", "sent", "waiting", "confirmed"}],
     clobbered : BOOLEAN]

TypeOK ==
    /\ script \in Seq(STRING)
    /\ auto \in BOOLEAN /\ policy \in Plans /\ account \in Accounts
    /\ changes \in 0..MaxChanges
    /\ \A a \in Attempts : /\ att[a].at \in 0..Len(script) \cup {99}
                           /\ att[a].sub \in Subs /\ att[a].plan \in Plans
                           /\ att[a].req \in Attempts \cup {NoRequest}
    /\ memory \in [Accounts -> Entries] /\ stored \in [Accounts -> Entries]
    /\ exec \in [Attempts -> {"none", "unknown", "submitted"}]
    /\ \A r \in Attempts : /\ chain[r].status \in Statuses
                           /\ chain[r].yes \subseteq Voters
                           /\ chain[r].final \in BOOLEAN
    /\ net \subseteq Calls
    /\ hist \in Histories

Init ==
    /\ script \in {Scripts[f] : f \in DOMAIN Scripts}
    /\ auto \in BOOLEAN
    /\ policy \in IF Protected THEN Plans ELSE {"allow"}
    /\ account = CHOOSE c \in Accounts : TRUE
    /\ changes = 0
    /\ att = [a \in Attempts |-> Unused]
    /\ memory = [c \in Accounts |-> NoEntry] /\ stored = memory
    /\ exec = [r \in Attempts |-> "none"]
    /\ chain = [r \in Attempts |-> [status |-> "none", yes |-> {}, final |-> FALSE]]
    /\ net = {}
    /\ hist = [denied |-> {},
               posted |-> [r \in Attempts |-> "none"],
               excused |-> {},
               tries |-> [r \in Attempts |-> 0],
               told |-> [r \in Attempts |-> "none"], clobbered |-> FALSE]

-----------------------------------------------------------------------------
(* Attempts, recovery entries and what a read of the chain may show. *)

Running(a) == att[a].at \in DOMAIN script
Doing(a, step) == Running(a) /\ script[att[a].at] = step
At(a, step, sub) == Doing(a, step) /\ att[a].sub = sub
Resumed(a) == att[a].req # a

\* assertCurrent: neither the identity nor the mount changed since the click.
Current(a) == att[a].current

\* The signer also refuses once a policy or input event revoked the review.
Fresh(a) == Current(a) /\ att[a].reviewed

Advanced(a) ==
    IF att[a].at = Len(script) \/ (Resumed(a) /\ Doing(a, "canonical")) THEN Ended
    ELSE [att[a] EXCEPT !.at = @ + 1, !.sub = "start"]
Advance(a) == att' = [att EXCEPT ![a] = Advanced(a)]
Enter(a, sub) == att' = [att EXCEPT ![a].sub = sub]

\* The handler's finally: the attempt ends, saved entries stay.
Stop(a) == att' = [att EXCEPT ![a] = Ended]

\* The page goes on when the check holds and fails otherwise.
AdvanceIf(a, ok) == IF ok THEN Advance(a) ELSE Stop(a)

Saved(c) == IF memory[c] # NoEntry THEN memory[c] ELSE stored[c]

\* SendRecovery keeps its memory per mount, RequestRecoveryStore per tab.
SaveEntry(a, outcome) ==
    LET c == att[a].account
        entry == [req |-> a, outcome |-> outcome]
        lost == stored[c].req \notin ({NoRequest, a} \cup hist.excused)
    IN  /\ stored' = [stored EXCEPT ![c] = entry]
        /\ memory' = IF UsesSend /\ ~att[a].here THEN memory
                     ELSE [memory EXCEPT ![c] = entry]
        /\ hist' = [hist EXCEPT !.clobbered = @ \/ lost]

DropEntry(c) ==
    /\ memory' = [memory EXCEPT ![c] = NoEntry]
    /\ stored' = [stored EXCEPT ![c] = NoEntry]

\* A read of the chain may lag behind what has landed, until the execution
\* was seen at the finalized commitment.
Lags == [none |-> {"none"}, Active |-> {"none", "Active"},
         Approved |-> {"none", "Active", "Approved"},
         Executed |-> {"none", "Active", "Approved", "Executed"},
         Cancelled |-> {"none", "Active", "Approved", "Cancelled"}]
Read(r) == IF chain[r].final THEN {chain[r].status} ELSE Lags[chain[r].status]

\* The call took effect; only this tab executes the requests it creates.
Landed(kind, r, v) ==
    CASE kind = "create" -> chain[r].status # "none"
      [] kind = "approve" -> v \in chain[r].yes
      [] kind = "execute" -> chain[r].status = "Executed"

Holding(a) == {b \in Attempts \ {a} :
                 /\ Running(b) /\ ~Resumed(b)
                 /\ \E i \in 1..(att[b].at - 1) : script[i] \in {"send", "request"}
                 /\ IF UsesSend THEN att[b].here = att[a].here
                    ELSE att[b].account = att[a].account}

-----------------------------------------------------------------------------
(* The person and the page. *)

\* Nothing is pending on the mounted page and, on a send page, no saved
\* request hides the form.
Ready == /\ \A b \in Attempts : Running(b) => ~att[b].here
         /\ UsesSend => Saved(account) = NoEntry

Starting(a, r, at) ==
    [at |-> at, sub |-> "start", current |-> TRUE, reviewed |-> TRUE,
     here |-> TRUE, account |-> account, plan |-> "allow", cooled |-> FALSE, req |-> r]

Click(a) ==
    /\ att[a] = Unused /\ \A b \in Attempts : b < a => att[b] # Unused
    /\ Ready
    /\ att' = [att EXCEPT ![a] = Starting(a, a, 1)]
    /\ UNCHANGED <<tab, saves, exec, world, hist>>

\* The agent pages resume a request of theirs that was accepted earlier.
Resume(a, r) ==
    /\ Resumable
    /\ att[a] = Unused /\ \A b \in Attempts : b < a => att[b] # Unused
    /\ Ready
    /\ r # a /\ Landed("create", r, "none")
    /\ att' = [att EXCEPT ![a] =
                  Starting(a, r, CHOOSE i \in DOMAIN script : script[i] = "canonical")]
    /\ UNCHANGED <<tab, saves, exec, world, hist>>

\* The checkbox and "Start a separate send" of a saved request's notice.
StartSeparate ==
    /\ Saved(account) # NoEntry
    /\ ~\E b \in Attempts : /\ Running(b) /\ ~Resumed(b)
                            /\ IF UsesSend THEN att[b].here
                               ELSE att[b].account = account
    /\ DropEntry(account)
    /\ hist' = [hist EXCEPT !.excused = @ \cup {Saved(account).req}]
    /\ UNCHANGED <<tab, att, exec, world>>

ChangePolicy ==
    /\ changes < MaxChanges /\ changes' = changes + 1
    /\ policy' \in IF Protected THEN Plans \ {policy} ELSE {policy}
    /\ att' = [a \in Attempts |-> IF ~Running(a) THEN att[a]
                  ELSE [att[a] EXCEPT !.reviewed = FALSE]]
    /\ UNCHANGED <<script, auto, account, saves, exec, world, hist>>

SwitchAccount ==
    /\ changes < MaxChanges /\ changes' = changes + 1
    /\ account' \in Accounts \ {account}
    /\ att' = [a \in Attempts |-> IF ~Running(a) THEN att[a]
                  ELSE [att[a] EXCEPT !.current = FALSE]]
    /\ UNCHANGED <<script, auto, policy, saves, exec, world, hist>>

\* The page is left and opened again; its attempts go on in the background.
Remount ==
    /\ changes < MaxChanges /\ changes' = changes + 1
    /\ att' = [a \in Attempts |-> IF ~Running(a) THEN att[a]
                  ELSE [att[a] EXCEPT !.current = FALSE, !.here = FALSE]]
    /\ memory' = IF UsesSend THEN [c \in Accounts |-> NoEntry] ELSE memory
    /\ UNCHANGED <<script, auto, policy, account, stored, exec, world, hist>>

\* The tab reloads: every attempt is gone, sessionStorage is not.
Reload ==
    /\ changes < MaxChanges /\ changes' = changes + 1
    /\ att' = [a \in Attempts |-> IF Running(a) THEN Ended ELSE att[a]]
    /\ memory' = [c \in Accounts |-> NoEntry]
    /\ UNCHANGED <<script, auto, policy, account, stored, exec, world, hist>>

\* The batch page's Cancel is noticed at the next check.
CancelBatch(a) ==
    /\ script[Len(script)] = "executeSaved" /\ Running(a) /\ att[a].here /\ Current(a)
    /\ changes < MaxChanges /\ changes' = changes + 1
    /\ att' = [att EXCEPT ![a].current = FALSE]
    /\ UNCHANGED <<script, auto, policy, account, saves, exec, world, hist>>

-----------------------------------------------------------------------------
(* The steps of a handler. *)

\* Refuses while the same change is saved or already being prepared.
BeginStep(a) ==
    /\ Doing(a, "send") \/ Doing(a, "request")
    /\ AdvanceIf(a, Current(a) /\ Saved(att[a].account) = NoEntry /\ Holding(a) = {})
    /\ UNCHANGED <<tab, saves, exec, world, hist>>

BlockersStep(a) ==
    /\ Doing(a, "blockers")
    /\ \E seen \in [Attempts -> Statuses] :
          /\ \A r \in Attempts : seen[r] \in Read(r)
          /\ AdvanceIf(a, \A r \in Attempts : seen[r] \notin {"Active", "Approved"})
    /\ UNCHANGED <<tab, saves, exec, world, hist>>

\* resolvePolicyEnforcement and assertPolicyNotDenied.
PolicyStep(a) ==
    /\ Doing(a, "policy")
    /\ att' = [att EXCEPT ![a] = IF policy = "deny" THEN Ended
                                 ELSE [Advanced(a) EXCEPT !.plan = policy]]
    /\ UNCHANGED <<tab, saves, exec, world, hist>>

RecheckStep(a) ==
    /\ Doing(a, "recheck")
    /\ AdvanceIf(a, Fresh(a))
    /\ UNCHANGED <<tab, saves, exec, world, hist>>

\* Reads and preparation by the backend, the identity checked afterwards.
PrepareStep(a) ==
    /\ Doing(a, "prepare")
    /\ AdvanceIf(a, Current(a))
    /\ UNCHANGED <<tab, saves, exec, world, hist>>

\* createWallet: a wallet that exists already counts as created.
WalletStep(a) ==
    /\ Doing(a, "wallet")
    /\ AdvanceIf(a, Current(a))
    /\ UNCHANGED <<tab, saves, exec, world, hist>>

OpenPrompt(a) ==
    /\ At(a, "sign", "start")
    /\ IF Fresh(a) THEN Enter(a, "prompt") ELSE Stop(a)
    /\ UNCHANGED <<tab, saves, exec, world, hist>>

Sign(a) ==
    /\ At(a, "sign", "prompt")
    /\ AdvanceIf(a, Fresh(a))
    /\ hist' = IF Fresh(a) /\ Protected /\ policy = "deny"
               THEN [hist EXCEPT !.denied = @ \cup {a}] ELSE hist
    /\ UNCHANGED <<tab, saves, exec, world>>

\* Fault variant: the request is saved only once its reply is there.
SubmittingUnsaved(a) ==
    /\ Doing(a, "submitting")
    /\ AdvanceIf(a, Current(a))
    /\ UNCHANGED <<tab, saves, exec, world, hist>>

SubmittingStep(a) ==
    /\ Doing(a, "submitting")
    /\ AdvanceIf(a, Current(a))
    /\ IF Current(a) THEN SaveEntry(a, "unknown") ELSE UNCHANGED <<saves, hist>>
    /\ UNCHANGED <<tab, exec, world>>

PostCreate(a) ==
    /\ At(a, "create", "start")
    /\ Enter(a, "reply")
    /\ net' = net \cup {Call("create", a, "none")}
    /\ hist' = [hist EXCEPT !.posted[a] = att[a].account]
    /\ UNCHANGED <<tab, saves, exec, chain>>

CreateReply(a) ==
    /\ At(a, "create", "reply")
    /\ Landed("create", a, "none")
    /\ Advance(a)
    /\ UNCHANGED <<tab, saves, exec, world, hist>>

\* accepted saves first and checks the identity afterwards.
AcceptedStep(a) ==
    /\ Doing(a, "accepted")
    /\ SaveEntry(a, "submitted")
    /\ AdvanceIf(a, Current(a))
    /\ UNCHANGED <<tab, exec, world>>

\* approveIfNeeded: no signature once Approved or once this approver's bit is
\* set; an account that stays unreadable needs one above threshold 1, and
\* after a failed read.
NeedsVote(r, seen) ==
    CASE seen = "Approved" -> {FALSE}
      [] seen = "Active" -> {"me" \notin chain[r].yes}
      [] seen = "none" -> {Threshold > 1, TRUE}
      [] OTHER -> {TRUE}

Approving(a) == Doing(a, "approve") \/ Doing(a, "approveOrLeave")

DecideVote(a) ==
    /\ Approving(a) /\ att[a].sub = "start"
    /\ \E seen \in Read(a), needs \in BOOLEAN :
          /\ needs \in NeedsVote(a, seen)
          /\ CASE ~needs -> Advance(a)
               [] needs /\ Fresh(a) -> Enter(a, "prompt")
               [] needs /\ ~Fresh(a) -> Stop(a)
    /\ UNCHANGED <<tab, saves, exec, world, hist>>

\* A matched rule that adds an approver: it must be one this tab can sign as.
DecideExtra(a) ==
    /\ At(a, "extras", "start")
    /\ CASE att[a].plan # "extra" -> Advance(a)
         [] att[a].plan = "extra" /\ HasExtra /\ Fresh(a) -> Enter(a, "prompt")
         [] OTHER -> Stop(a)
    /\ UNCHANGED <<tab, saves, exec, world, hist>>

Voter(a) == IF Doing(a, "extras") THEN "extra" ELSE "me"

SignVote(a) ==
    /\ Approving(a) \/ Doing(a, "extras")
    /\ att[a].sub = "prompt"
    /\ IF Fresh(a)
       THEN Enter(a, "reply") /\ net' = net \cup {Call("approve", a, Voter(a))}
       ELSE Stop(a) /\ net' = net
    /\ UNCHANGED <<tab, saves, exec, chain, hist>>

VoteReply(a) ==
    /\ Approving(a) \/ Doing(a, "extras")
    /\ att[a].sub = "reply"
    /\ Landed("approve", a, Voter(a))
    /\ Advance(a)
    /\ UNCHANGED <<tab, saves, exec, world, hist>>

CooldownStep(a) ==
    /\ Doing(a, "cooldown")
    /\ att' = [att EXCEPT ![a] = [Advanced(a) EXCEPT !.cooled = att[a].plan = "cooldown"]]
    /\ UNCHANGED <<tab, saves, exec, world, hist>>

Tell(r, what) == hist' = [hist EXCEPT !.told[r] = what]

\* Setup accepts only a request its own creation approved.
ApprovedStep(a) ==
    /\ Doing(a, "approved")
    /\ \E seen \in Read(a), readError \in BOOLEAN :
          AdvanceIf(a, Current(a) /\ (seen = "Approved" \/ (seen = "none" /\ ~readError)))
    /\ UNCHANGED <<tab, saves, exec, world, hist>>

\* waitForProposalApproval gives up after a few reads: the request waits.
WaitStep(a) ==
    /\ Doing(a, "wait")
    /\ \E seen \in Read(a) :
          /\ AdvanceIf(a, seen = "Approved" /\ Current(a))
          /\ IF seen # "Approved" /\ Current(a) THEN Tell(a, "waiting") ELSE hist' = hist
    /\ UNCHANGED <<tab, saves, exec, world>>

PostExecute(r) ==
    /\ net' = net \cup {Call("execute", r, "none")}
    /\ hist' = [hist EXCEPT !.tries[r] = @ + 1]

\* The send pages execute once, without a retry and without an entry.
ExecuteStep(a) ==
    /\ At(a, "execute", "start")
    /\ IF Current(a) THEN Enter(a, "reply") /\ PostExecute(a)
       ELSE Stop(a) /\ UNCHANGED <<net, hist>>
    /\ UNCHANGED <<tab, saves, exec, chain>>

ExecuteReply(a) ==
    /\ At(a, "execute", "reply")
    /\ Landed("execute", a, "none")
    /\ Advance(a)
    /\ UNCHANGED <<tab, saves, exec, world, hist>>

\* A result that came back for a page still current is shown as sent.
ExecutedStep(a) ==
    /\ Doing(a, "executed")
    /\ LET told == IF Current(a) THEN "sent" ELSE hist.told[a]
           c == att[a].account
           lost == stored[c].req \notin ({NoRequest, a} \cup hist.excused)
           entry == [req |-> a, outcome |-> "submitted"]
       IN  /\ stored' = [stored EXCEPT ![c] = entry]
           /\ memory' = IF UsesSend /\ ~att[a].here THEN memory
                        ELSE [memory EXCEPT ![c] = entry]
           /\ hist' = [hist EXCEPT !.told[a] = told, !.clobbered = @ \/ lost]
    /\ Stop(a)
    /\ UNCHANGED <<tab, exec, world>>

\* The execution was read at the finalized commitment.
Confirm(r) == Tell(r, "confirmed") /\ chain' = [chain EXCEPT ![r].final = TRUE]

\* executeCanonicalAction and its relatives: finalized state first, then the
\* saved execution entry, then one execution with the entry saved before it.
CanonicalStart(a) ==
    /\ \/ At(a, "canonical", "start") \/ At(a, "executeSaved", "start")
    /\ LET r == att[a].req IN
       \E seen \in Read(r) :
          CASE ~Current(a) ->
                 Stop(a) /\ UNCHANGED <<exec, chain, net, hist>>
            [] Current(a) /\ seen = "Executed" /\ Doing(a, "canonical") ->
                 /\ exec' = [exec EXCEPT ![r] = "none"]
                 /\ Advance(a) /\ Confirm(r) /\ net' = net
            [] Current(a) /\ seen = "Approved" /\ exec[r] = "none" ->
                 /\ exec' = [exec EXCEPT ![r] = "unknown"]
                 /\ Enter(a, "reply") /\ PostExecute(r) /\ chain' = chain
            [] OTHER ->
                 Stop(a) /\ UNCHANGED <<exec, chain, net, hist>>
    /\ UNCHANGED <<tab, saves>>

CanonicalReply(a) ==
    /\ \/ At(a, "canonical", "reply") \/ At(a, "executeSaved", "reply")
    /\ LET r == att[a].req IN
       /\ Landed("execute", r, "none")
       /\ exec' = [exec EXCEPT ![r] = "submitted"]
       /\ CASE Doing(a, "executeSaved") -> Advance(a) /\ Tell(r, "sent")
            [] Doing(a, "canonical") /\ Current(a) -> Enter(a, "verify") /\ hist' = hist
            [] OTHER -> Stop(a) /\ hist' = hist
    /\ UNCHANGED <<tab, saves, world>>

\* Only a finalized read that shows the execution removes the entry.
CanonicalVerify(a) ==
    /\ At(a, "canonical", "verify")
    /\ LET r == att[a].req IN
       \E seen \in Read(r) :
          IF seen = "Executed" /\ Current(a)
          THEN Advance(a) /\ exec' = [exec EXCEPT ![r] = "none"] /\ Confirm(r)
          ELSE Stop(a) /\ UNCHANGED <<exec, chain, hist>>
    /\ UNCHANGED <<tab, saves, net>>

CompleteStep(a) ==
    /\ Doing(a, "complete") \/ Doing(a, "recorded")
    /\ AdvanceIf(a, Current(a))
    /\ IF Current(a)
       THEN DropEntry(att[a].account) /\ hist' = [hist EXCEPT !.excused = @ \cup {a}]
       ELSE UNCHANGED <<saves, hist>>
    /\ UNCHANGED <<tab, exec, world>>

\* An awaited call or prompt fails, is refused or times out.
Fail(a) ==
    /\ Running(a) /\ script[att[a].at] \notin {"send", "request", "submitting", "accepted",
                                               "executed", "complete", "recorded"}
    /\ Stop(a)
    /\ IF Doing(a, "approveOrLeave") THEN Tell(a, "waiting") ELSE hist' = hist
    /\ UNCHANGED <<tab, saves, exec, world>>

-----------------------------------------------------------------------------
(* The network, the program and the other members. *)

WithVote(p, v) ==
    LET yes == p.yes \cup {v}
    IN  [status |-> IF Cardinality(yes) >= Threshold THEN "Approved" ELSE "Active",
         yes |-> yes, final |-> FALSE]

\* A late call or vote on a request that no running attempt can read commutes
\* with every step until one can, so it is taken then.
Watched(r) == \E a \in Attempts :
                 Running(a) /\ (att[a].req = r \/ script[1] = "blockers")

Land(c) ==
    /\ c \in net /\ Watched(c.req)
    /\ LET p == chain[c.req] IN
       /\ CASE c.kind = "create" -> p.status = "none"
            [] c.kind = "approve" -> p.status = "Active" /\ c.voter \notin p.yes
            [] c.kind = "execute" -> p.status = "Approved"
       /\ chain' = [chain EXCEPT ![c.req] =
             CASE c.kind = "create" -> IF auto THEN WithVote(p, "me")
                                       ELSE [p EXCEPT !.status = "Active"]
               [] c.kind = "approve" -> WithVote(p, c.voter)
               [] c.kind = "execute" -> [p EXCEPT !.status = "Executed"]]
    /\ net' = net \ {c}
    /\ UNCHANGED <<tab, att, saves, exec, hist>>

OtherVotes(r) ==
    /\ Watched(r)
    /\ \/ /\ chain[r].status = "Active" /\ "other" \notin chain[r].yes
          /\ chain' = [chain EXCEPT ![r] = WithVote(@, "other")]
       \/ /\ chain[r].status \in {"Active", "Approved"}
          /\ chain' = [chain EXCEPT ![r].status = "Cancelled"]
    /\ UNCHANGED <<tab, att, saves, exec, net, hist>>

\* A step of a handler begins, or what it awaits comes to pass.
Begins(a) ==
    \/ BeginStep(a) \/ BlockersStep(a) \/ PolicyStep(a) \/ RecheckStep(a)
    \/ PrepareStep(a) \/ WalletStep(a) \/ OpenPrompt(a)
    \/ SubmittingStep(a) \/ PostCreate(a) \/ AcceptedStep(a)
    \/ DecideVote(a) \/ DecideExtra(a) \/ CooldownStep(a) \/ ApprovedStep(a)
    \/ WaitStep(a) \/ ExecuteStep(a) \/ ExecutedStep(a) \/ CanonicalStart(a)
    \/ CompleteStep(a)

Continues(a) ==
    \/ Sign(a) \/ CreateReply(a) \/ SignVote(a) \/ VoteReply(a)
    \/ ExecuteReply(a) \/ CanonicalReply(a) \/ CanonicalVerify(a)

Step(a) ==
    \/ att[a].sub = "start" /\ Begins(a)
    \/ att[a].sub # "start" /\ Continues(a)
    \/ Fail(a)

Person ==
    \/ \E a \in Attempts : Click(a)
    \/ \E a, r \in Attempts : Resume(a, r)
    \/ \E a \in Attempts : CancelBatch(a)
    \/ StartSeparate \/ ChangePolicy \/ SwitchAccount \/ Remount \/ Reload

Environment ==
    \/ \E c \in net : Land(c)
    \/ \E r \in Attempts : OtherVotes(r)

Next == Person \/ Environment \/ \E a \in Attempts : Running(a) /\ Step(a)

Spec == Init /\ [][Next]_vars

-----------------------------------------------------------------------------
(* Properties. *)

\* A change is handed to the backend a second time under one account only
\* after the earlier request was acknowledged by the person or completed:
\* whatever was lost, reloaded or remounted in between, the saved entry
\* stops the second attempt.
OneRequest ==
    \A a, b \in Attempts :
        /\ a # b /\ a < b
        /\ hist.posted[a] # "none" /\ hist.posted[a] = hist.posted[b]
        /\ ~hist.clobbered
        => a \in hist.excused

\* A send whose policy turned to deny, at the click or at any moment before
\* the signature, is never signed, so no request is created for it.
DenyNeverSigns == hist.denied = {}

\* A page that executes its own request under a policy that adds an approver
\* or a cooldown does so only with that approval on the chain, or after the
\* cooldown.
ProtectionHonoured ==
       \A a \in Attempts :
          hist'.tries[a] > hist.tries[a] =>
              /\ att[a].plan = "extra" => "extra" \in chain[a].yes
              /\ att[a].plan = "cooldown" => att[a].cooled

\* One tab asks for the execution of a request once, over all its attempts,
\* mounts, accounts and resumptions.
OneExecution == \A r \in Attempts : hist.tries[r] <= 1

\* "Sent" and "confirmed" are only reported for requests that executed, and
\* "waiting" only for requests that exist.
ToldTrue ==
    \A r \in Attempts :
        /\ hist.told[r] \in {"sent", "confirmed"} => chain[r].status = "Executed"
        /\ hist.told[r] = "waiting" => chain[r].status # "none"
=============================================================================
