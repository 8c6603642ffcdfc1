----------------------------- MODULE AgentDesk -----------------------------
(***************************************************************************)
(* The agent trading pages of the web application (features/agents and     *)
(* app/app/wallet/[name]/agents): the state a device keeps for a wallet's  *)
(* agent, and the handlers of the pages that change it.                    *)
(*                                                                         *)
(* The device keeps one value (local-state/repository.ts).  A store        *)
(* operation reads and writes it without giving up the thread, so it is    *)
(* one step.  A handler awaits the wallet, the server or the owner between *)
(* its store operations, and several handlers of several pages may be      *)
(* under way.  Every change is sent to the server too: a request that      *)
(* fails leaves the change on the device, and is not sent again.           *)
(***************************************************************************)
EXTENDS Naturals, FiniteSets

CONSTANTS
    Calls,      \* handlers that may be under way at the same time
    Trades,     \* trade ideas; every draft is a new one
    Local,      \* those of a venue this device opens itself (practice)
    SignalOf,   \* the outside signal an idea was made from, or None
    Sessions,   \* budgets
    Rules,      \* contents of the vault policy, by policy hash
    Fits,       \* <<rules, trade>>: the trade is within the limits
    MaxOpen,    \* maxOpenPositionsPerAgent
    FirstRules, FirstSession,
    Menus,      \* bound: the handlers <<page, handler>> used in one behaviour
    MaxStarts,  \* bound on the handlers started
    None

VARIABLES
    disk,       \* the state saved on this device
    remote,     \* what the server holds: pause, rules, profile, automatic trading
    calls,      \* the handlers under way
    ui,         \* the owner-approval dialog and the rules form
    ghost       \* the menu and the history the properties speak of

vars == <<disk, remote, calls, ui, ghost>>

Status == {"none", "needs_approval", "approved", "blocked", "rejected", "executed"}
Session == [status : {"none", "active", "revoked"}, rules : Rules \cup {None},
            chain : {"none", "granting", "granted", "revoking", "ended"}]

\* The parts of an agent's profile that another page or the public library
\* depends on; the profile is always sent whole.
Profiles == [agent : {"active", "paused", "revoked"}, public : {"none", "draft", "published"},
             review : {"none", "pending_review", "approved", "delisted"}]
NewProfile == [agent |-> "active", public |-> "none", review |-> "none"]

Idle == [page |-> None, h |-> None, pc |-> "idle", of |-> None, to |-> None,
         dec |-> None, n |-> 0, got |-> 0]

Init ==
    /\ disk = [paused |-> FALSE, rules |-> FirstRules, profile |-> NewProfile, auto |-> FALSE,
               trade |-> [t \in Trades |-> "none"],
               opened |-> [t \in Trades |-> 0], closed |-> [t \in Trades |-> 0],
               session |-> [s \in Sessions |->
                   IF s = FirstSession
                   THEN [status |-> "active", rules |-> FirstRules, chain |-> "granted"]
                   ELSE [status |-> "none", rules |-> None, chain |-> "none"]]]
    /\ remote = [paused |-> FALSE, rules |-> FirstRules, profile |-> NewProfile,
                 auto |-> FALSE, approved |-> FALSE]
    /\ calls = [c \in Calls |-> Idle]
    /\ ui = [request |-> None, resolver |-> None, signing |-> 0, form |-> None]
    /\ ghost \in [menu : Menus, started : {0}, overlap : {{}}, failed : {FALSE}]

-----------------------------------------------------------------------------
(* The policy check and the store. *)

positions(b) == {t \in Trades : b.opened[t] > b.closed[t]}
activeSessionFor(b) == {s \in Sessions : b.session[s].status = "active"}

\* evaluateStrategy and evaluateVenueAndMarket find nothing to object to.
withinLimits(b, t) == <<b.rules, t>> \in Fits

\* evaluateSession: a budget bound to the rules of this moment needs no
\* approval; any other trade does.
evaluateSession(b) ==
    IF \E s \in activeSessionFor(b) : b.session[s].rules = b.rules
    THEN "allowed" ELSE "requires_human_approval"

\* What evaluateAgentTradeProposal may decide.  Once a trade is on record the
\* cooldown and the daily loss cap may block as well.
evaluateProposalForCurrentRisk(b, t) ==
    IF \/ b.paused \/ b.profile.agent # "active" \/ ~withinLimits(b, t)
       \/ Cardinality(positions(b)) >= MaxOpen
    THEN {"blocked"}
    ELSE (IF \E u \in Trades : b.opened[u] > 0 THEN {"blocked"} ELSE {})
         \cup {evaluateSession(b)}

statusForEvaluation(d) ==
    CASE d = "blocked" -> "blocked"
      [] d = "allowed" -> "approved"
      [] d = "requires_human_approval" -> "needs_approval"

\* executionFromProposal: a record of an open practice trade.
openedRecord(b, t) ==
    [b EXCEPT !.trade[t] = "executed", !.opened[t] = @ + 1]

\* Another idea made from the same signal is saved already.
findDuplicateClientSignalIndex(b, t) ==
    /\ SignalOf[t] # None
    /\ \E u \in Trades \ {t} : SignalOf[u] = SignalOf[t] /\ b.trade[u] # "none"

saveAgentProposal(b, t, s) ==
    IF b.trade[t] = "none" /\ findDuplicateClientSignalIndex(b, t) THEN b
    ELSE [b EXCEPT !.trade[t] = s]

\* Fault variant: an approved idea is opened on the strength of the decision
\* its page made, whatever the rules say by now.
canExecuteAsDecided(b, t) == {TRUE}

\* The rules are applied again before a practice trade is opened.
canExecuteProposal(b, t) ==
    {d = "allowed" : d \in evaluateProposalForCurrentRisk(b, t)}

\* The possible results of saveAgentProposalAndExecuteIfAllowed.
saveAgentProposalAndExecuteIfAllowed(b, t, s) ==
    IF b.trade[t] = "none" /\ findDuplicateClientSignalIndex(b, t) THEN {b}
    ELSE {IF s = "approved" /\ ok /\ t \in Local THEN openedRecord(b, t)
          ELSE [b EXCEPT !.trade[t] = s] : ok \in canExecuteProposal(b, t)}

transitionAgentProposal(b, t, s) ==
    IF b.trade[t] \in {"none", s, "executed"} THEN b ELSE [b EXCEPT !.trade[t] = s]

openAgentPaperTrade(b, t) ==
    IF b.trade[t] \in {"none", "executed", "rejected"} THEN {b}
    ELSE {IF d = "blocked" THEN [b EXCEPT !.trade[t] = "blocked"]
          ELSE IF d = "requires_human_approval" /\ b.trade[t] # "approved"
               THEN [b EXCEPT !.trade[t] = "needs_approval"]
          ELSE IF t \in Local THEN openedRecord(b, t)
          ELSE [b EXCEPT !.trade[t] = "approved"] : d \in evaluateProposalForCurrentRisk(b, t)}

recheckAgentProposal(b, t) ==
    IF b.trade[t] \in {"none", "executed", "rejected"} THEN {b}
    ELSE {IF d = "allowed" /\ t \in Local THEN openedRecord(b, t)
          ELSE [b EXCEPT !.trade[t] = statusForEvaluation(d)] :
              d \in evaluateProposalForCurrentRisk(b, t)}

closeMockAgentExecution(b, t) ==
    IF t \in positions(b) THEN [b EXCEPT !.closed[t] = @ + 1] ELSE b

closeOpenMockAgentExecutions(b) == [b EXCEPT !.closed = b.opened]

\* Saving an active budget ends the agent's other ones and binds it to the
\* rules of this moment.
saveAgentSession(b, s, r) ==
    [b EXCEPT !.session = [u \in Sessions |->
        CASE u = s -> [r EXCEPT !.rules = b.rules]
          [] u # s /\ r.status = "active" /\ @[u].status = "active" ->
                 [@[u] EXCEPT !.status = "revoked"]
          [] OTHER -> @[u]]]

\* renewAgentSession: a new budget n with the limits of s.
renewAgentSession(b, s, n) ==
    saveAgentSession(b, n, [b.session[s] EXCEPT !.status = "active"])

setAgentVaultEmergencyPause(b, enabled) == [b EXCEPT !.paused = enabled]
saveAgentVaultPolicy(b, form) == [b EXCEPT !.rules = form.rules, !.paused = form.paused]

\* A trader that is not active loses its budgets with its status.
updateAgentStatus(b, status) ==
    [b EXCEPT !.profile.agent = status,
              !.session = [s \in Sessions |->
                  IF status # "active" /\ @[s].status = "active"
                  THEN [@[s] EXCEPT !.status = "revoked"] ELSE @[s]]]

\* A review that was once given stays when the profile is put on show again.
publishAgentProfile(b) ==
    [b EXCEPT !.profile.public = "published",
              !.profile.review = IF @ = "none" THEN "pending_review" ELSE @]
unpublishAgentProfile(b) == [b EXCEPT !.profile.public = "draft"]
moderateAgentPublishingProfile(b, status) ==
    IF b.profile.public = "none" THEN b ELSE [b EXCEPT !.profile.review = status]
updateAgentConnectionSettings(b, auto) == [b EXCEPT !.auto = auto]

-----------------------------------------------------------------------------
(* What the pages offer. *)

Unsaved == {t \in Trades : disk.trade[t] = "none" /\ \A c \in Calls : calls[c].of # t}
Unused == {s \in Sessions : disk.session[s].status = "none" /\ \A c \in Calls : calls[c].to # s}

Of(page) == {c \in Calls : calls[c].page = page}

\* The buttons of an idea on the dashboard: what its status offers.
ProposalActions(t, h) ==
    CASE h \in {"approve", "reject"} -> disk.trade[t] = "needs_approval"
      [] h = "recheck" -> disk.trade[t] = "blocked"
      [] h = "execute" -> disk.trade[t] = "approved" /\ t \in Local
      [] h = "venue" -> disk.trade[t] = "approved" /\ t \notin Local

\* The same on the page of one agent.
ProposalRow(t, h) ==
    \/ h = "recheck" /\ disk.trade[t] = "blocked"
    \/ h \in {"approve", "reject"} /\ disk.trade[t] = "needs_approval"
    \/ h = (IF t \in Local THEN "execute" ELSE "venue") /\ disk.trade[t] = "approved"

\* A budget that can be traded with is ended; any other one is renewed.
usable(s) ==
    /\ disk.session[s].status = "active" /\ disk.session[s].rules = disk.rules
    /\ disk.session[s].chain = "granted"
SessionCard(s, h) == disk.session[s].status # "none" /\ (h = "revoke" <=> usable(s))
SessionRow(s, h) == disk.session[s].status # "none" /\ (h = "revoke" <=> usable(s))

\* A card of an open trade has a button that closes it.
ExecutionCard(t) == t \in positions(disk)
ExecutionRow(t) == t \in positions(disk)
TradeRow(t) == t \in positions(disk)
OpenTradeRow(t) == t \in positions(disk)

\* A trader is paused, resumed, or its access removed; removed access can be
\* given again, but a removed trader cannot be paused.
AgentCard(status) ==
    \/ status = "paused" /\ disk.profile.agent = "active"
    \/ status = "active" /\ disk.profile.agent \in {"paused", "revoked"}
    \/ status = "revoked" /\ disk.profile.agent # "revoked"
AgentDetailStatus(status) ==
    \/ status = "paused" /\ disk.profile.agent = "active"
    \/ status = "active" /\ disk.profile.agent # "active"
    \/ status = "revoked" /\ disk.profile.agent # "revoked"

\* The scout reports on an active trader; a blocked report has no button.
ScoutCard(t) ==
    disk.profile.agent = "active" /\ evaluateProposalForCurrentRisk(disk, t) # {"blocked"}

\* The next step of the journey on the start page: an approved idea of a
\* connected venue is placed, a built-in trader is asked for an idea, and
\* automatic trading is switched on.
actionForStep(h, t) ==
    CASE h = "place" -> t \notin Local /\ disk.trade[t] = "approved"
      [] h = "idea" -> disk.trade[t] = "none"
      [] h = "auto" -> ~disk.auto

\* A draft is put on show; a published profile is reviewed or taken back.
PublishingPanel(h) == h = "publish" <=> disk.profile.public # "published"

\* runAction: one action of the dashboard at a time, and none while the kill
\* switch is being changed.
runAction == Of("dashboard") = {}

\* setKillSwitch: a stop may be asked for during an action, a resume may not,
\* and each waits for the one before.
killLock(enabled) ==
    /\ \A c \in Of("dashboard") : calls[c].h # "kill"
    /\ enabled \/ Of("dashboard") = {}

\* The detail page and the trades page disable their buttons during the part
\* of a handler that they await: the budgets' wallet approval.
detailIdle == \A c \in Of("detail") : calls[c].pc # "chain"

\* The buttons of the control room and of the journey are disabled while a
\* transition is pending, and all of the page while the dialog is open.
startIdle == Of("start") = {} /\ ui.request = None

-----------------------------------------------------------------------------
(* A handler is started, waits, and ends. *)

Begin(c, page, h, pc, of, to, dec) ==
    /\ calls[c] = Idle
    /\ <<page, h>> \in ghost.menu
    /\ ghost.started < MaxStarts
    /\ calls' = [calls EXCEPT ![c] =
           [page |-> page, h |-> h, pc |-> pc, of |-> of, to |-> to, dec |-> dec,
            n |-> ghost.started + 1, got |-> 0]]

Started == [ghost EXCEPT !.started = @ + 1]

\* A request about the pause and the rules, or about the profile, leaves while
\* another of that kind is unanswered.
Requests(kind) == {c \in Calls : calls[c].pc = kind}
Overlapping(kind) == IF Requests(kind) = {} THEN {} ELSE {kind}
Sent(kind) == [Started EXCEPT !.overlap = @ \cup Overlapping(kind)]

End(c) == calls' = [calls EXCEPT ![c] = Idle]
Wait(c, pc) == calls' = [calls EXCEPT ![c].pc = pc]

\* A store operation and the request that reports it.
Store(c, page, h, of, results) ==
    /\ Begin(c, page, h, "sync", of, None, None)
    /\ disk' \in results
    /\ ghost' = Started
    /\ UNCHANGED <<remote, ui>>

\* The profile that a handler sends: the one it has just saved.
syncAgentProfile(b, n) == n.profile

\* A change of the profile: saved here, then sent whole.
StoreProfile(c, page, h, n) ==
    /\ Begin(c, page, h, "profile", None, syncAgentProfile(disk, n), None)
    /\ disk' = n
    /\ ghost' = Sent("profile")
    /\ UNCHANGED <<remote, ui>>

\* The wallet is asked for an approval on chain first.
AskChain(c, page, h, of, to) ==
    /\ Begin(c, page, h, "chain", of, to, None)
    /\ ghost' = Started
    /\ UNCHANGED <<remote, ui>>

\* The handlers of a budget's row, on either page.
RevokeOn(c, page, rows) ==
    /\ \E s \in rows :
            AskChain(c, page, "revoke", disk.session[s], s)
    /\ UNCHANGED disk

\* A grant that is still waiting for approvals is taken up again; otherwise a
\* new budget is saved here before it is granted on chain.
RenewOn(c, page, rows) ==
    \E s \in rows :
           \/ /\ disk.session[s].chain = "granting"
              /\ AskChain(c, page, "renew", disk.session[s], s)
              /\ UNCHANGED disk
           \/ /\ disk.session[s].chain # "granting" /\ disk.profile.agent = "active"
              /\ \E n \in Unused :
                   /\ AskChain(c, page, "renew", renewAgentSession(disk, s, n).session[n], n)
                   /\ disk' = renewAgentSession(disk, s, n)

\* The server answers, or the request fails; either way the handler is over.
SyncAnswered(c) ==
    /\ calls[c].pc = "sync"
    /\ End(c)
    /\ UNCHANGED <<disk, remote, ui, ghost>>

\* The answer to a pause or to new rules.
PauseAnswered(c) ==
    /\ calls[c].pc = "pause"
    /\ \E applied, ok \in BOOLEAN :
         /\ ok => applied
         /\ remote' = IF ~applied THEN remote
                      ELSE [remote EXCEPT !.paused = calls[c].to.paused,
                                          !.rules = calls[c].to.rules]
         /\ ghost' = [ghost EXCEPT !.failed = @ \/ ~ok]
    /\ IF calls[c].h = "rules" THEN Wait(c, "govern") ELSE End(c)
    /\ UNCHANGED <<disk, ui>>

\* The answer to a profile.
ProfileAnswered(c) ==
    /\ calls[c].pc = "profile"
    /\ \E applied, ok \in BOOLEAN :
         /\ ok => applied
         /\ remote' = IF applied THEN [remote EXCEPT !.profile = calls[c].to] ELSE remote
         /\ ghost' = [ghost EXCEPT !.failed = @ \/ ~ok]
    /\ End(c)
    /\ UNCHANGED <<disk, ui>>

\* The body of syncAgentEmergencyPause.
PauseRequest(enabled) == [paused |-> enabled, rules |-> remote.rules]

-----------------------------------------------------------------------------
(* The dashboard (useAgentDashboardActions.tsx). *)

\* An idea of the scout: drafted, checked and saved at once.
prepareScoutIdea(c) ==
    /\ runAction
    /\ \E t \in Unsaved : \E d \in evaluateProposalForCurrentRisk(disk, t) :
         /\ ScoutCard(t)
         /\ Store(c, "dashboard", "scout", t,
               IF d = "allowed" /\ t \in Local
               THEN saveAgentProposalAndExecuteIfAllowed(disk, t, "approved")
               ELSE {saveAgentProposal(disk, t, statusForEvaluation(d))})

\* The scan runs on the server, which answers with the ideas it prepared.
runAutonomyScan(c) ==
    /\ runAction
    /\ \E t \in Unsaved : Begin(c, "dashboard", "scan", "scan", t, None, None)
    /\ ghost' = Started
    /\ UNCHANGED <<disk, remote, ui>>

ScanAnswered(c) ==
    /\ calls[c].pc = "scan"
    /\ \/ UNCHANGED disk
       \/ \E s \in {"needs_approval", "approved", "blocked"} :
              disk' = saveAgentProposal(disk, calls[c].of, s)
    /\ End(c)
    /\ UNCHANGED <<remote, ui, ghost>>

setKillSwitch(c) ==
    /\ killLock(~disk.paused)
    /\ Begin(c, "dashboard", "kill", "pause", None, PauseRequest(~disk.paused), None)
    /\ disk' = setAgentVaultEmergencyPause(disk, ~disk.paused)
    /\ ghost' = Sent("pause")
    /\ UNCHANGED <<remote, ui>>

submitVenueProposal(c) ==
    /\ runAction
    /\ \E t \in Trades : ProposalActions(t, "venue") /\ Store(c, "dashboard", "venue", t, {disk})

\* The approval is made on chain before it is saved.
approveProposal(c) ==
    /\ runAction
    /\ \E t \in Trades : ProposalActions(t, "approve") /\ AskChain(c, "dashboard", "approve", t, None)
    /\ UNCHANGED disk

\* Whatever the idea has become by now, it is found again by its id.
ApprovalOnChain(c) ==
    /\ calls[c].pc = "chain" /\ calls[c].h = "approve"
    /\ \/ End(c) /\ UNCHANGED disk
       \/ /\ disk' = transitionAgentProposal(disk, calls[c].of, "approved")
          /\ Wait(c, "sync")
    /\ UNCHANGED <<remote, ui, ghost>>

rejectProposal(c) ==
    /\ runAction
    /\ \E t \in Trades : /\ ProposalActions(t, "reject")
                         /\ Store(c, "dashboard", "reject", t,
                                  {transitionAgentProposal(disk, t, "rejected")})

executeProposal(c) ==
    /\ runAction
    /\ \E t \in Trades : /\ ProposalActions(t, "execute")
                         /\ Store(c, "dashboard", "execute", t, openAgentPaperTrade(disk, t))

recheckProposal(c) ==
    /\ runAction
    /\ \E t \in Trades : /\ ProposalActions(t, "recheck")
                         /\ Store(c, "dashboard", "recheck", t, recheckAgentProposal(disk, t))

closeExecution(c) ==
    /\ runAction
    /\ \E t \in Trades : /\ ExecutionCard(t)
                         /\ Store(c, "dashboard", "close", t, {closeMockAgentExecution(disk, t)})

closeAllOpenPaperTrades(c) ==
    /\ runAction /\ positions(disk) # {}
    /\ Store(c, "dashboard", "closeAll", None, {closeOpenMockAgentExecutions(disk)})

\* Trades whose market reached the loss exit or the profit target.
closeAutomaticExitTrades(c) ==
    /\ runAction
    /\ \E due \in SUBSET positions(disk) :
         /\ due # {}
         /\ Store(c, "dashboard", "exits", None,
                  {[disk EXCEPT !.closed = [t \in Trades |->
                       IF t \in due THEN @[t] + 1 ELSE @[t]]]})

setAgentStatus(c) ==
    /\ runAction
    /\ \E status \in {"active", "paused", "revoked"} :
         /\ AgentCard(status)
         /\ StoreProfile(c, "dashboard", "status", updateAgentStatus(disk, status))

\* A budget is ended on chain first: the row offers it for a granted one.
revokeSession(c) ==
    runAction /\ RevokeOn(c, "dashboard", {s \in Sessions : SessionCard(s, "revoke")})
renewSession(c) ==
    runAction /\ RenewOn(c, "dashboard", {s \in Sessions : SessionCard(s, "renew")})

\* The wallet's answer about a budget.  What is saved is the copy the handler
\* took when it started; a wallet of several owners only posts a request.
SessionOnChain(c) ==
    /\ calls[c].pc = "chain" /\ calls[c].h \in {"revoke", "renew"} /\ calls[c].page # "budget"
    /\ \/ End(c) /\ UNCHANGED disk
       \/ \E done \in BOOLEAN :
            LET r == calls[c].of
                answer == IF calls[c].h = "renew"
                          THEN [r EXCEPT !.chain = IF done THEN "granted" ELSE "granting"]
                          ELSE [r EXCEPT !.chain = IF done THEN "ended" ELSE "revoking",
                                         !.status = IF done THEN "revoked" ELSE @]
            IN  disk' = saveAgentSession(disk, calls[c].to, answer) /\ Wait(c, "sync")
    /\ UNCHANGED <<remote, ui, ghost>>

-----------------------------------------------------------------------------
(* The page of one agent (useAgentDetailController.tsx).  Its handlers do    *)
(* not wait for the server, and nothing keeps two of them apart.             *)

setKillSwitchDetail(c) ==
    /\ detailIdle
    /\ Begin(c, "detail", "kill", "pause", None, PauseRequest(~disk.paused), None)
    /\ disk' = setAgentVaultEmergencyPause(disk, ~disk.paused)
    /\ ghost' = Sent("pause")
    /\ UNCHANGED <<remote, ui>>

setStatusDetail(c) ==
    /\ detailIdle
    /\ \E status \in {"active", "paused", "revoked"} :
         /\ AgentDetailStatus(status)
         /\ StoreProfile(c, "detail", "status", updateAgentStatus(disk, status))

revokeSessionDetail(c) ==
    detailIdle /\ RevokeOn(c, "detail", {s \in Sessions : SessionRow(s, "revoke")})
renewSessionDetail(c) ==
    detailIdle /\ RenewOn(c, "detail", {s \in Sessions : SessionRow(s, "renew")})

\* Here the idea is approved on this device without the wallet.
approveSignal(c) ==
    /\ detailIdle
    /\ \E t \in Trades : /\ ProposalRow(t, "approve")
                         /\ Store(c, "detail", "approve", t,
                                  {transitionAgentProposal(disk, t, "approved")})

rejectSignal(c) ==
    /\ detailIdle
    /\ \E t \in Trades : /\ ProposalRow(t, "reject")
                         /\ Store(c, "detail", "reject", t,
                                  {transitionAgentProposal(disk, t, "rejected")})

recheckSignal(c) ==
    /\ detailIdle
    /\ \E t \in Trades : /\ ProposalRow(t, "recheck")
                         /\ Store(c, "detail", "recheck", t, recheckAgentProposal(disk, t))

openPaperTrade(c) ==
    /\ detailIdle
    /\ \E t \in Trades : /\ ProposalRow(t, "execute")
                         /\ Store(c, "detail", "execute", t, openAgentPaperTrade(disk, t))

submitVenueTrade(c) ==
    /\ detailIdle
    /\ \E t \in Trades : ProposalRow(t, "venue") /\ Store(c, "detail", "venue", t, {disk})

closePaperTrade(c) ==
    /\ detailIdle
    /\ \E t \in Trades : /\ ExecutionRow(t)
                         /\ Store(c, "detail", "close", t, {closeMockAgentExecution(disk, t)})

closeAllDetail(c) ==
    /\ detailIdle /\ positions(disk) # {}
    /\ Store(c, "detail", "closeAll", None, {closeOpenMockAgentExecutions(disk)})

\* The public profile of the agent, its review, and an edit of its name.
setPublished(c) ==
    /\ detailIdle
    /\ \E h \in {"publish", "unpublish"} :
         /\ PublishingPanel(h)
         /\ StoreProfile(c, "detail", "publish",
                IF h = "publish" THEN publishAgentProfile(disk) ELSE unpublishAgentProfile(disk))

setPublishingModeration(c) ==
    /\ detailIdle /\ PublishingPanel("review")
    /\ \E status \in {"pending_review", "approved", "delisted"} :
         StoreProfile(c, "detail", "review", moderateAgentPublishingProfile(disk, status))

saveAgentChanges(c) == detailIdle /\ StoreProfile(c, "detail", "edit", disk)

\* agents/[agent]/strategy: the trading style is saved into the same profile.
submitStrategy(c) == Of("strategy") = {} /\ StoreProfile(c, "strategy", "edit", disk)

\* The list of trades closes them the same way.
closeTrade(c) ==
    \E t \in Trades : /\ TradeRow(t)
                      /\ Store(c, "trades", "close", t, {closeMockAgentExecution(disk, t)})

closeAllOpen(c) ==
    /\ positions(disk) # {}
    /\ Store(c, "trades", "closeAll", None, {closeOpenMockAgentExecutions(disk)})

-----------------------------------------------------------------------------
(* The start page (useStartTradingController.tsx).  Its actions ask the      *)
(* owner first, in a dialog that one promise at a time waits for.            *)

requestOwnerApproval(c, h, of) ==
    /\ startIdle
    /\ Begin(c, "start", h, "dialog", of, None, None)
    /\ ui' = [ui EXCEPT !.request = ghost.started + 1, !.resolver = c]
    /\ ghost' = Started
    /\ UNCHANGED <<disk, remote>>

\* Cancel, Escape and the cross are disabled while the approval is signed.
dialogOffersCancel == ui.request # None /\ ui.signing = 0

cancelOwnerApproval ==
    /\ dialogOffersCancel
    /\ calls' = [c \in Calls |-> IF c = ui.resolver THEN Idle ELSE calls[c]]
    /\ ui' = [ui EXCEPT !.request = None, !.resolver = None]
    /\ UNCHANGED <<disk, remote, ghost>>

approveOwnerRequest ==
    /\ ui.request # None /\ ui.signing = 0
    /\ ui' = [ui EXCEPT !.signing = ui.request]
    /\ UNCHANGED <<disk, remote, calls, ghost>>

\* The approval is signed, saved and reported; whichever promise waits by
\* then receives it.  A refusal leaves the dialog open.
OwnerSigned ==
    /\ ui.signing # 0
    /\ \/ /\ ui' = [ui EXCEPT !.signing = 0]
          /\ UNCHANGED calls
       \/ /\ ui' = [ui EXCEPT !.signing = 0, !.request = None, !.resolver = None]
          /\ calls' = [c \in Calls |->
                 IF c = ui.resolver THEN [calls[c] EXCEPT !.pc = "approved", !.got = ui.signing]
                 ELSE calls[c]]
    /\ UNCHANGED <<disk, remote, ghost>>

\* The handler goes on with its approval.
placeFirstOutsideTrade(c) ==
    \E t \in Trades : actionForStep("place", t) /\ requestOwnerApproval(c, "place", t)
pauseThisTrader(c) == disk.profile.agent # "paused" /\ requestOwnerApproval(c, "pauseTrader", None)
pauseAllTrading(c) == ~disk.paused /\ requestOwnerApproval(c, "pauseAll", None)
closeOnePracticeTrade(c) ==
    \E t \in Trades : OpenTradeRow(t) /\ requestOwnerApproval(c, "close", t)
closeAllPracticeTrades(c) ==
    positions(disk) # {} /\ requestOwnerApproval(c, "closeAll", None)

OwnerApproved(c) ==
    /\ calls[c].pc = "approved"
    /\ \/ /\ calls[c].h = "place" /\ UNCHANGED disk
          /\ Wait(c, "sync") /\ UNCHANGED ghost
       \/ /\ calls[c].h = "pauseTrader" /\ disk' = updateAgentStatus(disk, "paused")
          /\ calls' = [calls EXCEPT ![c].pc = "profile",
                                    ![c].to = syncAgentProfile(disk, updateAgentStatus(disk, "paused"))]
          /\ ghost' = [ghost EXCEPT !.overlap = @ \cup Overlapping("profile")]
       \/ /\ calls[c].h = "close" /\ disk' = closeMockAgentExecution(disk, calls[c].of)
          /\ Wait(c, "sync") /\ UNCHANGED ghost
       \/ /\ calls[c].h = "closeAll" /\ disk' = closeOpenMockAgentExecutions(disk)
          /\ Wait(c, "sync") /\ UNCHANGED ghost
       \/ /\ calls[c].h = "pauseAll" /\ disk' = setAgentVaultEmergencyPause(disk, TRUE)
          /\ calls' = [calls EXCEPT ![c].pc = "pause", ![c].to = PauseRequest(TRUE)]
          /\ ghost' = [ghost EXCEPT !.overlap = @ \cup Overlapping("pause")]
    /\ UNCHANGED <<remote, ui>>

\* A prepared idea of the trader, under the allowance the page shows.
askBuiltInTraderForIdea(c) ==
    /\ startIdle
    /\ \E t \in Unsaved : \E d \in evaluateProposalForCurrentRisk(disk, t) :
         actionForStep("idea", t) /\ Store(c, "start", "idea", t,
               IF d = "allowed" /\ t \in Local
               THEN saveAgentProposalAndExecuteIfAllowed(disk, t, "approved")
               ELSE {saveAgentProposal(disk, t, statusForEvaluation(d))})

\* Automatic trading: signed by the wallet, recorded on the server, and only
\* then switched on here and registered there.
enableAutomaticTrading(c) ==
    /\ startIdle /\ actionForStep("auto", None)
    /\ Begin(c, "start", "auto", "record", None, TRUE, None)
    /\ ghost' = Started
    /\ UNCHANGED <<disk, remote, ui>>

AutomaticRecorded(c) ==
    /\ calls[c].pc = "record"
    /\ \E applied, ok \in BOOLEAN :
         /\ ok => applied
         /\ remote' = [remote EXCEPT !.approved = @ \/ applied]
         /\ IF ok
            THEN /\ disk' = updateAgentConnectionSettings(disk, TRUE)
                 /\ calls' = [calls EXCEPT ![c].pc = "register", ![c].dec = disk.auto]
            ELSE End(c) /\ UNCHANGED disk
    /\ UNCHANGED <<ui, ghost>>

\* setAgentAutomaticTrading puts the old value back when the server refuses;
\* the connection page, which switches it off, does not.
AutomaticRegistered(c) ==
    /\ calls[c].pc = "register"
    /\ \E applied, ok \in BOOLEAN :
         /\ ok => applied
         /\ remote' = IF applied THEN [remote EXCEPT !.auto = calls[c].to] ELSE remote
         /\ disk' = IF ok \/ calls[c].page # "start" THEN disk
                    ELSE updateAgentConnectionSettings(disk, calls[c].dec)
    /\ End(c)
    /\ UNCHANGED <<ui, ghost>>

-----------------------------------------------------------------------------
(* The rules (agents/policy/page.tsx). *)

\* The form is filled once, when the page opens, and edited by the owner.
OpenPolicy ==
    /\ ui.form = None /\ \E h \in ghost.menu : h[1] = "policy"
    /\ \E r \in Rules : ui' = [ui EXCEPT !.form = [rules |-> r, paused |-> disk.paused]]
    /\ UNCHANGED <<disk, remote, calls, ghost>>

\* Saved here, then sent; the toggle "Stop all trading" goes with the rules.
submitPolicy(c) ==
    /\ ui.form # None /\ Of("policy") = {}
    /\ Begin(c, "policy", "rules", "pause", None, ui.form, None)
    /\ disk' = saveAgentVaultPolicy(disk, ui.form)
    /\ ghost' = Sent("pause")
    /\ UNCHANGED <<remote, ui>>

\* Every granted budget is put under the new rules on chain; the copy taken
\* before is saved again.
GovernSessions(c) ==
    /\ calls[c].pc = "govern"
    /\ \/ /\ \E s \in Sessions :
               /\ disk.session[s].status = "active" /\ disk.session[s].chain = "granted"
               /\ calls' = [calls EXCEPT ![c].pc = "risk", ![c].of = disk.session[s], ![c].to = s]
          /\ UNCHANGED ui
       \/ /\ \A s \in Sessions : ~(disk.session[s].status = "active" /\ disk.session[s].chain = "granted")
          /\ End(c) /\ ui' = [ui EXCEPT !.form = None]
    /\ UNCHANGED <<disk, remote, ghost>>

RiskOnChain(c) ==
    /\ calls[c].pc = "risk"
    /\ \/ UNCHANGED <<disk, ui>>
       \/ /\ disk' = saveAgentSession(disk, calls[c].to, calls[c].of)
          /\ ui' = [ui EXCEPT !.form = None]
    /\ End(c)
    /\ UNCHANGED <<remote, ghost>>

-----------------------------------------------------------------------------
(* New budgets and new ideas. *)

\* agents/sessions/new: after the owner's approval the grant is made on chain.
submitBudget(c) ==
    /\ Of("budget") = {} /\ disk.profile.agent = "active"
    /\ \E s \in Unused :
         AskChain(c, "budget", "renew", [status |-> "active", rules |-> disk.rules, chain |-> "none"], s)
    /\ UNCHANGED disk

\* approveOwnerRequest: the owner's approval is saved, the grant and its rules
\* go to the chain, and only their answer is saved as a budget.
BudgetOnChain(c) ==
    /\ calls[c].pc = "chain" /\ calls[c].page = "budget"
    /\ \/ End(c) /\ UNCHANGED disk
       \/ \E done \in BOOLEAN :
            /\ disk' = saveAgentSession(disk, calls[c].to,
                   [calls[c].of EXCEPT !.chain = IF done THEN "granted" ELSE "granting"])
            /\ Wait(c, "sync")
    /\ UNCHANGED <<remote, ui, ghost>>

\* agents/proposals/new: the idea is checked, then encrypted, then saved.
submitIdea(c) ==
    /\ Of("idea") = {}
    /\ \E t \in Unsaved : \E d \in evaluateProposalForCurrentRisk(disk, t) :
         Begin(c, "idea", "idea", "draft", t, None, d)
    /\ ghost' = Started
    /\ UNCHANGED <<disk, remote, ui>>

\* agents/[agent]/connection: an idea typed on the page itself is checked the
\* same way before it is saved.
submit(c) ==
    /\ \A d \in Of("connection") : calls[d].h # "sample"
    /\ \E t \in Unsaved : \E d \in evaluateProposalForCurrentRisk(disk, t) :
         Begin(c, "connection", "sample", "draft", t, None, d)
    /\ ghost' = Started
    /\ UNCHANGED <<disk, remote, ui>>

\* The server imports a signal of the inbox and answers with the idea it made
\* of it.
importInboxSignal(c) ==
    /\ \A d \in Of("connection") : calls[d].h # "import"
    /\ \E t \in Unsaved : \E d \in {"allowed", "requires_human_approval", "blocked"} :
         Begin(c, "connection", "import", "draft", t, None, d)
    /\ ghost' = Started
    /\ UNCHANGED <<disk, remote, ui>>

\* The timer of the page does the same for the ideas within the budget.
runAutoReview(c) ==
    /\ disk.auto /\ \A d \in Of("connection") : calls[d].h # "review"
    /\ \E t \in Unsaved : Begin(c, "connection", "review", "draft", t, None, "allowed")
    /\ ghost' = Started
    /\ UNCHANGED <<disk, remote, ui>>

\* The drafted or imported idea is saved; an allowed one may open.
PersistIdea(c) ==
    /\ calls[c].pc = "draft"
    /\ \/ End(c) /\ UNCHANGED disk
       \/ /\ disk' \in IF calls[c].dec = "allowed"
                       THEN saveAgentProposalAndExecuteIfAllowed(disk, calls[c].of, "approved")
                       ELSE {saveAgentProposal(disk, calls[c].of, statusForEvaluation(calls[c].dec))}
          /\ Wait(c, "sync")
    /\ UNCHANGED <<remote, ui, ghost>>

\* Switching automatic trading off needs no approval.
toggleAutoReview(c) ==
    /\ disk.auto
    /\ Begin(c, "connection", "autoOff", "register", None, FALSE, TRUE)
    /\ disk' = updateAgentConnectionSettings(disk, FALSE)
    /\ ghost' = Started
    /\ UNCHANGED <<remote, ui>>

-----------------------------------------------------------------------------
\* The person, or a timer, starts a handler.
Starts(c) ==
    \/ prepareScoutIdea(c) \/ runAutonomyScan(c)
    \/ setKillSwitch(c) \/ submitVenueProposal(c) \/ approveProposal(c)
    \/ rejectProposal(c) \/ executeProposal(c)
    \/ recheckProposal(c) \/ closeExecution(c) \/ closeAllOpenPaperTrades(c)
    \/ closeAutomaticExitTrades(c) \/ setAgentStatus(c) \/ revokeSession(c)
    \/ renewSession(c)
    \/ setPublished(c) \/ setPublishingModeration(c) \/ saveAgentChanges(c)
    \/ submitStrategy(c)
    \/ setKillSwitchDetail(c) \/ setStatusDetail(c) \/ revokeSessionDetail(c)
    \/ renewSessionDetail(c) \/ approveSignal(c) \/ rejectSignal(c)
    \/ recheckSignal(c) \/ openPaperTrade(c) \/ submitVenueTrade(c)
    \/ closePaperTrade(c) \/ closeAllDetail(c) \/ closeTrade(c) \/ closeAllOpen(c)
    \/ placeFirstOutsideTrade(c) \/ pauseThisTrader(c) \/ pauseAllTrading(c)
    \/ closeOnePracticeTrade(c) \/ closeAllPracticeTrades(c)
    \/ askBuiltInTraderForIdea(c) \/ enableAutomaticTrading(c)
    \/ submitPolicy(c) \/ submitBudget(c) \/ submitIdea(c) \/ submit(c)
    \/ importInboxSignal(c) \/ runAutoReview(c) \/ toggleAutoReview(c)

\* What a handler awaits comes to pass.
Answered(c) ==
    \/ ScanAnswered(c) \/ ApprovalOnChain(c) \/ SessionOnChain(c)
    \/ ProfileAnswered(c) \/ OwnerApproved(c) \/ AutomaticRecorded(c)
    \/ AutomaticRegistered(c) \/ GovernSessions(c) \/ RiskOnChain(c)
    \/ BudgetOnChain(c) \/ PersistIdea(c) \/ SyncAnswered(c) \/ PauseAnswered(c)

Next ==
    \/ \E c \in Calls : \/ calls[c] = Idle /\ ghost.started < MaxStarts /\ Starts(c)
                        \/ calls[c] # Idle /\ Answered(c)
    \/ cancelOwnerApproval \/ approveOwnerRequest \/ OwnerSigned \/ OpenPolicy

Spec == Init /\ [][Next]_vars

-----------------------------------------------------------------------------
(* Properties *)

\* Types of the saved state, the handlers and the pages.
TypeOK ==
    /\ disk.trade \in [Trades -> Status]
    /\ disk.opened \in [Trades -> 0 .. 2] /\ disk.closed \in [Trades -> 0 .. 2]
    /\ disk.session \in [Sessions -> Session]
    /\ disk.rules \in Rules /\ disk.profile \in Profiles
    /\ remote \in [paused : BOOLEAN, rules : Rules, profile : Profiles, auto : BOOLEAN,
                   approved : BOOLEAN]
    /\ \A c \in Calls : calls[c].pc \in {"idle", "sync", "pause", "profile", "chain", "scan", "dialog",
           "approved", "record", "register", "govern", "risk", "draft"}

\* However often an idea is approved, rechecked, opened or imported, and from
\* however many pages, it is opened once, and two ideas made from the same
\* signal never both trade (findDuplicateClientSignalIndex).
OneTrade ==
    /\ \A t \in Trades : /\ disk.closed[t] <= disk.opened[t]
                         /\ disk.opened[t] = (IF disk.trade[t] = "executed" THEN 1 ELSE 0)
    /\ \A t, u \in Trades :
          t # u /\ SignalOf[t] # None /\ SignalOf[t] = SignalOf[u]
          => "none" \in {disk.trade[t], disk.trade[u]}

\* A saved budget may be one that a handler read long ago; still the agent
\* never has two active ones.
OneAllowance == Cardinality(activeSessionFor(disk)) <= 1

\* A practice trade opens only under the rules of that moment, however long
\* ago its page checked them: not while trading is stopped or the agent is
\* paused, and never past the limit of open positions.
OpensWithinRules ==
       \A t \in Trades : disk'.opened[t] > disk.opened[t] =>
          /\ ~disk.paused /\ disk.profile.agent = "active" /\ <<disk.rules, t>> \in Fits
          /\ Cardinality(positions(disk)) < MaxOpen
          /\ disk.trade[t] = "approved" \/ activeSessionFor(disk) # {}

\* Trading is never resumed under an action of the dashboard: while the
\* request to resume is unanswered the dashboard does nothing else.
ResumeAlone ==
    \A c \in Of("dashboard") :
        calls[c].pc = "pause" /\ ~calls[c].to.paused => Of("dashboard") = {c}

\* Once the server has answered, and unless an answer was lost, it is stopped
\* exactly when the device says so.  The dashboard alone keeps its requests in
\* order; two pages may overtake each other.
PauseAgrees ==
    \/ ghost.failed \/ Requests("pause") # {}
    \/ "pause" \in ghost.overlap /\ \E h \in ghost.menu : h[1] # "dashboard"
    \/ remote.paused = disk.paused

\* The same of the profile: status, listing and review at the server are those
\* of the device, unless an answer was lost or two requests were under way.
ProfileAgrees ==
    \/ ghost.failed \/ Requests("profile") # {} \/ "profile" \in ghost.overlap
    \/ remote.profile = disk.profile

\* What the start page asks the owner about is what it does with the answer:
\* no handler goes on with the approval of another request.
ApprovedActionOnly == \A c \in Calls : calls[c].got \in {0, calls[c].n}

\* The server trades automatically, and this device shows it, only after an
\* owner's signed approval was recorded on the server.
AutomationNeedsApproval == disk.auto \/ remote.auto => remote.approved
=============================================================================
