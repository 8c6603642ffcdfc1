------------------------------ MODULE Operations ----------------------------
(***************************************************************************)
(* Work that goes on over many visits: the treasury's escrow projects and  *)
(* recurring schedules in the browser, and the agents' state on the        *)
(* server.  They save under keys of their own and never call each other,   *)
(* so a behaviour is about one of them: the escrow card in one tab, the    *)
(* escrow card in two tabs, the recurring page, or the agents.             *)
(***************************************************************************)
EXTENDS Naturals, FiniteSets

CONSTANTS
    CardOps,      \* handler calls of an escrow card alone in the browser
    TabOps,       \* handler calls of two escrow cards side by side
    PageOps,      \* handler calls of the recurring page
    Total,        \* payments of the schedule
    CardChanges,  \* bound on interruptions of a card alone
    MaxChanges,   \* the same elsewhere
    Workers, Sessions, Proposals, Signals, SignalOf, Policies, Permits, MaxOpen,
    FirstPolicy, FirstSession, Menus, MaxRequests, MaxEnded, None \* see AgentRuntime

ASSUME OperationsAssumption ==
    /\ CardOps \cup TabOps \cup PageOps \subseteq Nat \ {0}
    /\ Total \in Nat \ {0} /\ CardChanges \in Nat /\ MaxChanges \in Nat
    /\ SignalOf \in [Proposals -> Signals \cup {None}]
    /\ Permits \subseteq Policies \X Proposals
    /\ MaxOpen \in Nat \ {0} /\ {MaxRequests, MaxEnded} \subseteq Nat
    /\ FirstPolicy \in Policies /\ FirstSession \in Sessions

VARIABLES
    focus,                                              \* what this behaviour is about
    view, visit, ops, net, changes, asked, late,        \* of either page
    external, record, marks, rows, ready, chain,        \* of an escrow card
    journal, cache, requests, sched, final, verified, others, \* of the recurring page
    db, inbox, nonces, automatic, worker, menu, started, ended, lost \* of the agents

pages == <<view, visit, ops, net, changes, asked, late>>
cardOnly == <<external, record, marks, rows, ready, chain>>
pageOnly == <<journal, cache, requests, sched, final, verified, others>>
agents == <<db, inbox, nonces, automatic, worker, menu, started, ended, lost>>
vars == <<focus, pages, cardOnly, pageOnly, agents>>

Card == INSTANCE Escrow WITH Tabs <- {1}, Ops <- CardOps, MaxChanges <- CardChanges
Cards == INSTANCE Escrow WITH Tabs <- {1, 2}, Ops <- TabOps
Schedule == INSTANCE Recurring WITH Tabs <- {1}, Ops <- PageOps
Agents == INSTANCE AgentRuntime

\* The variables of what a behaviour is not about have no meaning.
NoPages ==
    /\ view = 0 /\ visit = 0 /\ ops = 0 /\ net = 0 /\ changes = 0 /\ asked = 0
    /\ late = 0
NoCard ==
    /\ external = 0 /\ record = 0 /\ marks = 0 /\ rows = 0 /\ ready = 0 /\ chain = 0
NoSchedule ==
    /\ journal = 0 /\ cache = 0 /\ requests = 0 /\ sched = 0
    /\ final = 0 /\ verified = 0 /\ others = 0
NoAgents ==
    /\ db = 0 /\ inbox = 0 /\ nonces = 0 /\ automatic = 0 /\ worker = 0
    /\ menu = 0 /\ started = 0 /\ ended = 0 /\ lost = 0

Init ==
    \/ focus = "escrow" /\ Card!Init /\ NoSchedule /\ NoAgents
    \/ focus = "escrow tabs" /\ Cards!Init /\ NoSchedule /\ NoAgents
    \/ focus = "recurring" /\ Schedule!Init /\ NoCard /\ NoAgents
    \/ focus = "agents" /\ Agents!Init /\ NoPages /\ NoCard /\ NoSchedule

Next ==
    \/ focus = "escrow" /\ Card!Next /\ UNCHANGED <<focus, pageOnly, agents>>
    \/ focus = "escrow tabs" /\ Cards!Next /\ UNCHANGED <<focus, pageOnly, agents>>
    \/ focus = "recurring" /\ Schedule!Next /\ UNCHANGED <<focus, cardOnly, agents>>
    \/ focus = "agents" /\ Agents!Next /\ UNCHANGED <<focus, pages, cardOnly, pageOnly>>

Spec == Init /\ [][Next]_vars

-----------------------------------------------------------------------------
(* Properties.  Their parts are stated, with the code they are about, in   *)
(* Escrow, Recurring and AgentRuntime.                                     *)

\* An escrow or schedule request is sent for execution once and stays the one
\* its saved record names while it is open, as long as no handler overwrites a
\* record that changed since it read it; an agent has one active allowance,
\* one proposal per outside signal and no more positions than its limit,
\* however its requests overlap.
PaidOnce ==
    CASE focus = "escrow" -> Card!OneExecution /\ Card!OneOpenRequest
      [] focus = "escrow tabs" -> Cards!OneExecution /\ Cards!OneOpenRequest
      [] focus = "recurring" -> Schedule!OneExecution /\ Schedule!OneOpenRequest
      [] focus = "agents" -> /\ Agents!OneAllowance /\ Agents!OneProposalPerSignal
                             /\ Agents!WithinPositions

\* Milestones are marked released and projects returned only when a request
\* of that kind was executed on Solana; a payment that may still land is saved
\* and stays the only one, and each payment reported as verified is another
\* one on Solana; an agent's score counts what its trades say.
BooksTrue ==
    CASE focus = "escrow" -> Card!TypeOK /\ Card!MarkedTrue
      [] focus = "escrow tabs" -> Cards!TypeOK /\ Cards!MarkedTrue
      [] focus = "recurring" -> /\ Schedule!TypeOK /\ Schedule!VerifiedTrue
                                /\ Schedule!PaymentRemembered
      [] focus = "agents" -> Agents!TypeOK /\ Agents!BooksMatch

\* A rejected or executed proposal and a revoked or expired allowance stay
\* what they are, and a request that trades on its own opens a position only
\* while a signed allowance of the policy in force is active, unless a request
\* overwrites a state it has not read.
EndedStays ==
    [][focus = "agents" => Agents!Terminal /\ Agents!AutomaticUnderAllowance]_vars
=============================================================================
