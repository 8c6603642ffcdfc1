---------------------------- MODULE AgentRuntime ----------------------------
(***************************************************************************)
(* The server side of agent trading in the web application: the state of a *)
(* wallet's agent (features/agents/server), the signal inbox and its       *)
(* import (lib/agents/serverInbox.ts, serverInboxImport.ts), the autonomy  *)
(* tick and the automatic placing of paper trades.                         *)
(*                                                                         *)
(* The whole state of a wallet is ONE value in Redis.  Every handler reads *)
(* it, changes its copy and writes all of it back, with no lock and no     *)
(* version check, so a handler overwrites what was written since it read.  *)
(* The inbox is another such value.  A handler may stop at any point.      *)
(***************************************************************************)
EXTENDS Naturals, FiniteSets

CONSTANTS
    Workers,        \* requests served at the same time
    Sessions,       \* allowances; members sign a grant for each
    Proposals,      \* trade proposals; every import or tick makes a new one
    Signals,        \* signals of an outside trader, by clientSignalId
    SignalOf,       \* the signal a proposal was imported from, or None
    Policies,       \* contents of the vault policy, by policy hash
    Permits,        \* <<policy, proposal>>: the trade is within the limits
    MaxOpen,        \* maxOpenPositionsPerAgent
    FirstPolicy, FirstSession,
    Menus,          \* bound: kinds of requests that are served in one behaviour
    MaxRequests,    \* bound on the requests served
    MaxEnded,       \* bound on the sessions and proposals that expire
    None

VARIABLES
    db,         \* the wallet's state in Redis
    inbox,      \* the agent's inbox in Redis: signals waiting for an import
    nonces,     \* signals whose idempotency key is taken
    automatic,  \* autoImportSessionSignals of the registered key
    worker,     \* the requests being served
    menu,       \* the kinds of requests of this behaviour
    started,    \* number of requests served so far
    ended,      \* sessions and proposals whose time is over
    lost        \* some write replaced a state that its writer had not read

vars == <<db, inbox, nonces, automatic, worker, menu, started, ended, lost>>
queue == <<inbox, nonces, automatic>>

SessionStatus == {"none", "active", "paused", "expired", "revoked"}
TradeStatus == {"none", "needs_approval", "approved", "blocked", "rejected", "executed"}

\* The part of AgentServerWalletState that decides about trades.  The list of
\* approvals is the set of sessions and executions a member signed for.
States ==
    [agent : {"active", "paused"},
     policy : Policies,
     paused : BOOLEAN,
     approvals : SUBSET (Sessions \cup Proposals),
     session : [Sessions -> [status : SessionStatus, policy : Policies \cup {None}]],
     trade : [Proposals -> [status : TradeStatus, policy : Policies \cup {None}]],
     exec : [Proposals -> {"none", "open", "closed"}],
     score : [proposals : Nat, executed : Nat, rejected : Nat]]

\* A request: what is asked for, and about what.
Requests ==
    [kind : {"agent"}, to : {"active", "paused"}]
    \cup [kind : {"policy"}, to : Policies, paused : BOOLEAN]
    \cup [kind : {"pause"}, to : BOOLEAN]
    \cup [kind : {"approval"}, of : Sessions \cup Proposals]
    \cup [kind : {"session"}, of : Sessions]
    \cup [kind : {"status"}, of : Sessions, to : SessionStatus \ {"none"}]
    \cup [kind : {"save", "approve", "reject", "open", "close"}, of : Proposals]
    \cup [kind : {"signal", "import", "delete"}, of : Signals]
    \cup [kind : {"register"}, to : BOOLEAN]
    \cup [kind : {"tick"}]

NoRequest == [kind |-> "none"]
Idle == [request |-> NoRequest, pc |-> "idle", trade |-> None, approved |-> FALSE,
         copy |-> None, list |-> None]

\* An agent that trades under a signed allowance.
Init ==
    /\ db = [agent |-> "active", policy |-> FirstPolicy, paused |-> FALSE,
             approvals |-> {FirstSession},
             session |-> [s \in Sessions |->
                 IF s = FirstSession THEN [status |-> "active", policy |-> FirstPolicy]
                                     ELSE [status |-> "none", policy |-> None]],
             trade |-> [p \in Proposals |-> [status |-> "none", policy |-> None]],
             exec |-> [p \in Proposals |-> "none"],
             score |-> [proposals |-> 0, executed |-> 0, rejected |-> 0]]
    /\ menu \in Menus
    /\ inbox = {}
    /\ nonces = {}
    /\ automatic \in BOOLEAN
    /\ automatic => "signal" \in menu
    /\ worker = [w \in Workers |-> Idle]
    /\ started = 0
    /\ ended = {}
    /\ lost = FALSE

(***************************************************************************)
(* The policy check.                                                       *)
(***************************************************************************)
OpenPositions(b) == {p \in Proposals : b.exec[p] = "open"}

activeSessionFor(b) ==
    {s \in Sessions : /\ b.session[s].status = "active"
                      /\ s \notin ended
                      /\ s \in b.approvals}

\* The violations that block, whatever the time.
blocked(b, p) ==
    \/ b.paused
    \/ b.agent # "active"
    \/ p \in ended
    \/ <<b.policy, p>> \notin Permits
    \/ Cardinality(OpenPositions(b)) >= MaxOpen

\* The decisions the check can reach.  With a trade on record the cooldown
\* and the daily loss cap may block as well.  An allowance issued under an
\* older policy leaves the decision to a member.
evaluateProposalFromState(b, p) ==
    IF blocked(b, p) THEN {"blocked"}
    ELSE (IF \E q \in Proposals : b.exec[q] # "none" THEN {"blocked"} ELSE {})
         \cup (IF activeSessionFor(b) = {} THEN {"requires_human_approval"}
               ELSE {IF b.session[s].policy = b.policy THEN "allowed"
                     ELSE "requires_human_approval" : s \in activeSessionFor(b)})

statusForEvaluation(decision) ==
    CASE decision = "blocked" -> "blocked"
      [] decision = "allowed" -> "approved"
      [] OTHER -> "needs_approval"

(***************************************************************************)
(* What a request may make of the state it read: the states it may write,  *)
(* none when it is refused or has nothing to write.                        *)
(***************************************************************************)
\* Fault variant: the status of a revoked allowance is not looked at.
AnySessionTransition(b, s, to) ==
    to = "active" => s \notin ended /\ s \in b.approvals

validateSessionTransition(b, s, to) ==
    /\ b.session[s].status \in {"revoked", "expired"} => to = b.session[s].status
    /\ to = "active" => s \notin ended /\ s \in b.approvals

\* The allowance that becomes active revokes the agent's other ones.
setSession(b, s, to, policy) ==
    [b EXCEPT !.session = [r \in Sessions |->
        IF r = s THEN [status |-> to, policy |-> policy]
        ELSE IF to = "active" /\ b.session[r].status = "active"
             THEN [b.session[r] EXCEPT !.status = "revoked"]
             ELSE b.session[r]]]

\* A session is bound to the policy of the moment, and a later save of it is
\* refused when that binding would change.
saveSession(b, s) ==
    IF /\ b.session[s].status = "none" \/ b.session[s].policy = b.policy
       /\ validateSessionTransition(b, s, "active")
        THEN {setSession(b, s, "active", b.policy)}
        ELSE {}

updateSessionStatus(b, s, to) ==
    IF b.session[s].status # "none" /\ validateSessionTransition(b, s, to)
        THEN {setSession(b, s, to, b.session[s].policy)}
        ELSE {}

\* The proposal already imported from the same signal.
duplicateOf(b, p) ==
    {q \in Proposals \ {p} : /\ SignalOf[p] # None
                             /\ SignalOf[q] = SignalOf[p]
                             /\ b.trade[q].status # "none"}

\* What the save finds instead of saving: the finished proposal itself, or
\* the proposal of the same signal.
findKnown(b, p) ==
    IF b.trade[p].status \in {"executed", "rejected"} THEN {p} ELSE duplicateOf(b, p)

scorecardForNewProposal(c) == [c EXCEPT !.proposals = @ + 1]

\* Approvals, blocks and rule violations are counted in the same way.
scorecardForStatusChange(c, before, after) ==
    [c EXCEPT !.executed = IF before # "executed" /\ after = "executed" THEN @ + 1 ELSE @,
              !.rejected = IF before # "rejected" /\ after = "rejected" THEN @ + 1 ELSE @]

saveProposal(b, p) ==
    IF findKnown(b, p) # {} THEN {}
    ELSE {[b EXCEPT !.trade[p] = [status |-> statusForEvaluation(d), policy |-> b.policy],
                    !.score = IF b.trade[p].status = "none" THEN scorecardForNewProposal(@)
                              ELSE scorecardForStatusChange(@, b.trade[p].status,
                                                            statusForEvaluation(d))] :
              d \in evaluateProposalFromState(b, p)}

approveProposal(b, p) ==
    IF b.trade[p].status \in {"none", "executed", "rejected"} THEN {}
    ELSE {[b EXCEPT !.trade[p] = [status |-> IF d = "blocked" THEN "blocked" ELSE "approved",
                                  policy |-> b.policy]] :
              d \in evaluateProposalFromState(b, p)}

rejectProposal(b, p) ==
    IF b.trade[p].status \in {"none", "executed"} THEN {}
    ELSE {[b EXCEPT !.trade[p].status = "rejected",
                    !.score = scorecardForStatusChange(@, b.trade[p].status, "rejected")]}

\* Fault variant: the scorecard is not brought up to date.
openUncounted(b, p) ==
    [b EXCEPT !.exec[p] = "open", !.trade[p].status = "executed"]

\* The execution is added and its proposal marked.
openExecution(b, p) ==
    [b EXCEPT !.exec[p] = "open",
              !.trade[p].status = "executed",
              !.score = scorecardForStatusChange(@, b.trade[p].status, "executed")]

\* A new execution: an approved proposal without one, approved under the
\* policy in force and not blocked now; an automatic one needs an allowance.
validateNewExecution(b, p, auto) ==
    /\ b.exec[p] = "none"
    /\ b.trade[p].status = "approved"
    /\ b.trade[p].policy = b.policy
    /\ \E d \in evaluateProposalFromState(b, p) :
           d # "blocked" /\ (auto => d = "allowed")

saveExecution(b, p, auto) ==
    IF validateNewExecution(b, p, auto) THEN {openExecution(b, p)} ELSE {}

closeExecution(b, p) ==
    IF b.exec[p] = "open" THEN {[b EXCEPT !.exec[p] = "closed"]} ELSE {}

\* The pc tells the two writes of an automatic flow apart.
Writes(w, b) ==
    LET k == worker[w].request
        p == worker[w].trade IN
    CASE worker[w].pc = "importStore" -> saveProposal(b, p)
      [] worker[w].pc = "placeStore" -> saveExecution(b, p, TRUE)
      [] k.kind = "agent" -> {[b EXCEPT !.agent = k.to]}
      [] k.kind = "policy" -> {[b EXCEPT !.policy = k.to, !.paused = k.paused]}
      [] k.kind = "pause" -> {[b EXCEPT !.paused = k.to]}
      [] k.kind = "approval" -> {[b EXCEPT !.approvals = @ \cup {k.of}]}
      [] k.kind = "session" -> saveSession(b, k.of)
      [] k.kind = "status" -> updateSessionStatus(b, k.of, k.to)
      [] k.kind = "save" -> saveProposal(b, k.of)
      [] k.kind = "approve" -> approveProposal(b, k.of)
      [] k.kind = "reject" -> rejectProposal(b, k.of)
      [] k.kind = "open" -> saveExecution(b, k.of, FALSE)
      [] k.kind = "close" -> closeExecution(b, k.of)

(***************************************************************************)
(* Serving a request.                                                      *)
(***************************************************************************)
\* Checks a route makes with a read of its own, before the handler's read.
Admitted(k) ==
    CASE k.kind = "session" -> k.of \in db.approvals
      [] k.kind = "close" -> db.exec[k.of] = "open" => k.of \in db.approvals
      [] OTHER -> TRUE

FirstStep(k) ==
    CASE k.kind \in {"signal", "import", "register"} -> k.kind
      [] k.kind = "delete" -> "removeRead"
      [] k.kind = "tick" -> "scan"
      [] k.kind \in {"session", "close"} -> "load"
      [] OTHER -> "store"

\* A request arrives.  One that its route admits without a read goes straight
\* to the handler's own read of the state.
Serve(w, k) ==
    /\ worker[w].pc = "idle"
    /\ k.kind \in menu
    /\ started < MaxRequests
    /\ Admitted(k)
    /\ started' = started + 1
    /\ worker' = [worker EXCEPT ![w] =
                     [Idle EXCEPT !.request = k, !.pc = FirstStep(k),
                                  !.copy = IF FirstStep(k) = "store" THEN db ELSE None]]
    /\ UNCHANGED <<db, queue, menu, ended, lost>>

Finish(w) == worker' = [worker EXCEPT ![w] = Idle]
Goto(w, pc) == worker' = [worker EXCEPT ![w].pc = pc]

\* getAgentServerWalletState at the start of a handler.
Load(w) ==
    /\ worker[w].pc \in {"load", "importLoad", "placeLoad"}
    /\ worker' = [worker EXCEPT ![w].copy = db,
                                ![w].pc = CASE @ = "load" -> "store"
                                            [] @ = "importLoad" -> "importStore"
                                            [] @ = "placeLoad" -> "placeStore"]
    /\ UNCHANGED <<db, queue, started, menu, ended, lost>>

Write(w, next) ==
    /\ db' = next
    /\ lost' = (lost \/ db # worker[w].copy)
    /\ UNCHANGED <<queue, started, menu, ended>>

\* The last write of a request, or its refusal.
Store(w) ==
    /\ worker[w].pc \in {"store", "placeStore"}
    /\ Finish(w)
    /\ LET results == Writes(w, worker[w].copy) IN
       IF results = {} THEN UNCHANGED <<db, queue, started, menu, ended, lost>>
       ELSE \E next \in results : Write(w, next)

\* The request, or the server, stops here.
Crash(w) ==
    /\ worker[w].pc # "idle"
    /\ Finish(w)
    /\ UNCHANGED <<db, queue, started, menu, ended, lost>>

(***************************************************************************)
(* The inbox.                                                              *)
(***************************************************************************)
Register(w) ==
    /\ worker[w].pc = "register"
    /\ automatic' = worker[w].request.to
    /\ Finish(w)
    /\ UNCHANGED <<db, inbox, nonces, started, menu, ended, lost>>

\* enqueueAgentSignal reads the list; a signal in it is a duplicate.
SignalRead(w) ==
    LET g == worker[w].request.of IN
    /\ worker[w].pc = "signal"
    /\ IF g \in inbox THEN Finish(w)
       ELSE worker' = [worker EXCEPT ![w].pc = "claim", ![w].list = inbox]
    /\ UNCHANGED <<db, queue, started, menu, ended, lost>>

\* The idempotency key is taken, once a day.
SignalClaim(w) ==
    LET g == worker[w].request.of IN
    /\ worker[w].pc = "claim"
    /\ IF g \in nonces THEN Finish(w) ELSE Goto(w, "enqueue")
    /\ nonces' = nonces \cup {g}
    /\ UNCHANGED <<db, inbox, automatic, started, menu, ended, lost>>

\* The list is written back with the signal; automatic trading goes on.
SignalEnqueue(w) ==
    /\ worker[w].pc = "enqueue"
    /\ inbox' = worker[w].list \cup {worker[w].request.of}
    /\ IF automatic
           THEN worker' = [worker EXCEPT ![w].pc = "import", ![w].list = None]
           ELSE Finish(w)
    /\ UNCHANGED <<db, nonces, automatic, started, menu, ended, lost>>

NonceExpires(g) ==
    /\ g \in nonces
    /\ nonces' = nonces \ {g}
    /\ UNCHANGED <<db, inbox, automatic, worker, started, menu, ended, lost>>

\* Proposals no request has made yet, for a signal or (None) for a tick.
Fresh(g) ==
    {p \in Proposals : /\ SignalOf[p] = g
                       /\ db.trade[p].status = "none"
                       /\ \A v \in Workers : worker[v].trade # p}

\* The import finds the signal in the list, or has nothing to do.
ImportRead(w) ==
    LET g == worker[w].request.of IN
    /\ worker[w].pc = "import"
    /\ IF g \in inbox
           THEN \E p \in Fresh(g) :
                    worker' = [worker EXCEPT ![w].pc = "judge", ![w].trade = p]
           ELSE Finish(w)
    /\ UNCHANGED <<db, queue, started, menu, ended, lost>>

\* A signal that came in goes on only when the allowance allows it; one a
\* member imports is saved whatever the decision.
ImportJudge(w) ==
    /\ worker[w].pc = "judge"
    /\ \E d \in evaluateProposalFromState(db, worker[w].trade) :
           IF worker[w].request.kind = "signal" /\ d # "allowed"
               THEN Finish(w)
               ELSE Goto(w, "importLoad")
    /\ UNCHANGED <<db, queue, started, menu, ended, lost>>

\* What follows a save: a signal leaves the inbox, a tick places its trade.
AfterSave(w, p, status) ==
    LET next == IF worker[w].request.kind # "tick" THEN "removeRead"
                ELSE IF status = "approved" THEN "placeRead" ELSE "idle" IN
    IF next = "idle" THEN Finish(w)
    ELSE worker' = [worker EXCEPT ![w].pc = next, ![w].trade = p, ![w].copy = None,
                                  ![w].approved = (status = "approved")]

\* saveAgentServerProposal returns the saved proposal, or the known one.
ImportStore(w) ==
    LET b == worker[w].copy
        p == worker[w].trade IN
    /\ worker[w].pc = "importStore"
    /\ \/ \E next \in saveProposal(b, p) :
              Write(w, next) /\ AfterSave(w, p, next.trade[p].status)
       \/ /\ \E q \in findKnown(b, p) : AfterSave(w, q, b.trade[q].status)
          /\ UNCHANGED <<db, queue, started, menu, ended, lost>>

\* removeAgentInboxSignals
RemoveRead(w) ==
    /\ worker[w].pc = "removeRead"
    /\ worker' = [worker EXCEPT ![w].pc = "removeWrite", ![w].list = inbox]
    /\ UNCHANGED <<db, queue, started, menu, ended, lost>>

RemoveWrite(w) ==
    /\ worker[w].pc = "removeWrite"
    /\ inbox' = worker[w].list \ {worker[w].request.of}
    /\ IF worker[w].request.kind = "signal" /\ worker[w].approved
           THEN worker' = [worker EXCEPT ![w].pc = "placeRead", ![w].list = None]
           ELSE Finish(w)
    /\ UNCHANGED <<db, nonces, automatic, started, menu, ended, lost>>

(***************************************************************************)
(* The autonomy tick, and the automatic placing of an approved trade.      *)
(***************************************************************************)
\* An active agent with an active allowance gets a trade idea, or none.
TickScan(w) ==
    /\ worker[w].pc = "scan"
    /\ \/ /\ db.agent = "active"
          /\ \E s \in Sessions : db.session[s].status = "active" /\ s \notin ended
          /\ \E p \in Fresh(None) :
                 worker' = [worker EXCEPT ![w].pc = "importLoad", ![w].trade = p]
       \/ Finish(w)
    /\ UNCHANGED <<db, queue, started, menu, ended, lost>>

\* A trade that has its execution is already placed.
PlaceRead(w) ==
    /\ worker[w].pc = "placeRead"
    /\ IF db.exec[worker[w].trade] # "none" THEN Finish(w) ELSE Goto(w, "placeJudge")
    /\ UNCHANGED <<db, queue, started, menu, ended, lost>>

PlaceJudge(w) ==
    /\ worker[w].pc = "placeJudge"
    /\ \E d \in evaluateProposalFromState(db, worker[w].trade) :
           IF d = "allowed" THEN Goto(w, "placeLoad") ELSE Finish(w)
    /\ UNCHANGED <<db, queue, started, menu, ended, lost>>

\* An allowance or a proposal expires.
TimePasses(x) ==
    /\ x \notin ended /\ Cardinality(ended) < MaxEnded
    /\ ended' = ended \cup {x}
    /\ UNCHANGED <<db, queue, worker, started, menu, lost>>

Proceed(w) ==
    \/ Load(w) \/ Store(w) \/ Crash(w)
    \/ Register(w) \/ SignalRead(w) \/ SignalClaim(w) \/ SignalEnqueue(w)
    \/ ImportRead(w) \/ ImportJudge(w) \/ ImportStore(w)
    \/ RemoveRead(w) \/ RemoveWrite(w)
    \/ TickScan(w) \/ PlaceRead(w) \/ PlaceJudge(w)

Work(w) ==
    \/ worker[w].pc = "idle" /\ started < MaxRequests /\ \E k \in Requests : Serve(w, k)
    \/ worker[w].pc # "idle" /\ Proceed(w)

Next ==
    \/ \E w \in Workers : Work(w)
    \/ \E g \in Signals : NonceExpires(g)
    \/ \E x \in Sessions \cup Proposals : TimePasses(x)

Spec == Init /\ [][Next]_vars

(***************************************************************************)
(* Properties.                                                             *)
(***************************************************************************)
TypeOK ==
    /\ db \in States
    /\ inbox \subseteq Signals
    /\ nonces \subseteq Signals
    /\ automatic \in BOOLEAN
    /\ \A w \in Workers : worker[w].copy = None \/ worker[w].copy \in States
    /\ menu \in Menus
    /\ started \in 0..MaxRequests
    /\ ended \subseteq Sessions \cup Proposals
    /\ lost \in BOOLEAN

\* The agent never has two active allowances.
OneAllowance ==
    \A r, s \in Sessions :
        db.session[r].status = "active" /\ db.session[s].status = "active" => r = s

\* Through every interleaving the books agree: exactly the executed proposals
\* have an execution, and the scorecard counts what the lists show.
BooksMatch ==
    /\ \A p \in Proposals : db.trade[p].status = "executed" <=> db.exec[p] # "none"
    /\ db.score.executed = Cardinality({p \in Proposals : db.exec[p] # "none"})
    /\ db.score.rejected = Cardinality({p \in Proposals : db.trade[p].status = "rejected"})
    /\ db.score.proposals = Cardinality({p \in Proposals : db.trade[p].status # "none"})

\* The agent never has more open positions than the policy allows.
WithinPositions == Cardinality(OpenPositions(db)) <= MaxOpen

\* A signal that is sent again, queued twice or imported twice becomes one
\* proposal.
OneProposalPerSignal ==
    \A p, q \in Proposals :
        /\ SignalOf[p] # None /\ SignalOf[p] = SignalOf[q]
        /\ db.trade[p].status # "none" /\ db.trade[q].status # "none"
        => p = q

\* A rejected or executed proposal and a revoked or expired allowance stay
\* what they are, unless a request overwrites a state it has not read.
Terminal ==
       lost' \/ /\ \A p \in Proposals :
                      db.trade[p].status \in {"rejected", "executed"}
                      => db'.trade[p].status = db.trade[p].status
                /\ \A s \in Sessions :
                      db.session[s].status \in {"revoked", "expired"}
                      => db'.session[s].status = db.session[s].status

\* A request that trades on its own opens a position only while a signed
\* allowance of the policy in force is active, however long ago the proposal
\* was approved, unless a request overwrites a state it has not read.
AutomaticUnderAllowance ==
       \A w \in Workers, p \in Proposals :
          /\ worker[w].pc = "placeStore" /\ worker'[w].pc = "idle"
          /\ db.exec[p] = "none" /\ db'.exec[p] = "open"
          => lost' \/ \E s \in activeSessionFor(db) : db.session[s].policy = db.policy
=============================================================================
