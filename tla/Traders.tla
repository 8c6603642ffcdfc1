------------------------------ MODULE Traders ------------------------------
(***************************************************************************)
(* What the traders' pages tell and offer an owner (apps/web), in four     *)
(* parts of which a behaviour shows one, named by ui.part:                 *)
(*                                                                         *)
(*   "notices"     the list of notices built from the store, and which of  *)
(*                 them have been seen (notifications.ts)                  *)
(*   "delegation"  the signer a trader may use on Solana and its page      *)
(*                 (solanaDelegation.ts, agents/solana/page.tsx)           *)
(*   "standing"    how far a trader is trusted: its track record, the      *)
(*                 recommended allowance, the allowance granted from it,   *)
(*                 and whether the dashboard calls the trader ready        *)
(*                 (trackRecord.ts, allocation.ts, readiness.ts,           *)
(*                 sessions/new/page.tsx)                                  *)
(*   "library"     the prepared traders and their demonstration history    *)
(*                 (useAgentLibraryController.tsx, demoHistory.ts)         *)
(*                                                                         *)
(* disk is the store of the browser, ui the pages, calls what they await,  *)
(* remote the time, ghost what a property needs to remember.               *)
(***************************************************************************)
EXTENDS Integers, Sequences, FiniteSets, FiniteSetsExt, SequencesExt

CONSTANTS MaxNoticeSteps,      \* changes of the store, part "notices"
          NoticeLimit,         \* notices of the list (the code: 20)
          SeenLimit,           \* seen notices remembered (the code: 500)
          MaxDelegationSteps,  \* steps, part "delegation"
          MaxStandingSteps,    \* steps, part "standing"
          MaxStandingTrades,   \* trades ever opened, part "standing"
          MaxLibrarySteps      \* steps, part "library"

VARIABLES disk, remote, calls, ui, ghost

vars == <<disk, remote, calls, ui, ghost>>

Part(p) == ui.part = p
Acts(p, n) == Part(p) /\ ui.acts < n
Acted == [ui EXCEPT !.acts = @ + 1]

-----------------------------------------------------------------------------
(* Notices. A notice is made of a record of the store, has a severity and  *)
(* the time of the record's last change.                                   *)

Ideas == {1}
Critical == 3
Warning == 2
Info == 1

Notice(kind, of, severity, at) == [id |-> <<kind, of>>, severity |-> severity, at |-> at]

proposalNotifications(d) ==
  {Notice(IF d.idea[i].status = "needs_approval" THEN "approve" ELSE "blocked", i,
          IF d.idea[i].status = "needs_approval" THEN Critical ELSE Warning, d.idea[i].at) :
     i \in {j \in Ideas : d.idea[j].status \in {"needs_approval", "blocked"}}}

\* The one trade of the model: open, won or lost.
executionNotifications(d) ==
  CASE d.trade.status = "none" -> {}
    [] d.trade.status = "open" -> {Notice("open", 1, Info, d.trade.at)}
    [] d.trade.status = "won"  -> {Notice("closed", 1, Info, d.trade.at)}
    [] d.trade.status = "lost" -> {Notice("closed", 1, Warning, d.trade.at)}

\* An allowance about to end is as new as the page.
sessionNotifications(d, now) ==
  IF d.expiring THEN {Notice("expiring", 1, Warning, now)} ELSE {}

publishingNotifications(d) ==
  IF d.review.status \in {"none", "approved"} THEN {}
  ELSE {Notice(d.review.status, 1, IF d.review.status = "delisted" THEN Warning ELSE Info, d.review.at)}

\* Every change of the pause, its lifting too, is news while trading is
\* paused; an owner's approval always is.
eventNotifications(d) ==
  {Notice(d.events[e].kind, e, IF d.events[e].kind = "pause" THEN Critical ELSE Info, d.events[e].at) :
     e \in {f \in DOMAIN d.events : d.events[f].kind = "owner" \/ d.paused}}

allNotifications(d, now) ==
  proposalNotifications(d) \cup executionNotifications(d) \cup sessionNotifications(d, now)
    \cup publishingNotifications(d) \cup eventNotifications(d)

notificationSort(a, b) == a.severity > b.severity \/ (a.severity = b.severity /\ a.at > b.at)

\* The list: sorted, and cut. Two notices of the same rank keep some order.
listed(all) ==
  LET sorted == SetToSortSeq(all, notificationSort)
  IN Range(SubSeq(sorted, 1, Min({NoticeLimit, Len(sorted)})))
buildAgentNotifications(d, now) == listed(allNotifications(d, now))

Shown == buildAgentNotifications(disk, ui.acts)
Unread == {n \in Shown : n.id \notin ui.seen}

keepNewest(s) == SubSeq(s, Max({1, Len(s) - SeenLimit + 1}), Len(s))

\* Ids that were seen keep their place, new ones go to the end.
newlySeen(seen, ids) == SelectSeq(ids, LAMBDA id : id \notin Range(seen))
writeSeen(seen, ids) == keepNewest(seen \o newlySeen(seen, ids))

\* A mark, in this tab or in another one, which this tab hears of later.
mark(ids, here) ==
  /\ disk' = [disk EXCEPT !.seen = writeSeen(@, ids)]
  /\ ghost' = [ghost EXCEPT !.marked = @ \o newlySeen(disk.seen, ids)]
  /\ ui' = IF here THEN [Acted EXCEPT !.seen = Range(disk'.seen)] ELSE Acted
  /\ UNCHANGED <<remote, calls>>

markAgentNoticeSeen(id) ==
  /\ Acts("notices", MaxNoticeSteps)
  /\ id \in {n.id : n \in Unread}
  /\ mark(<<id>>, TRUE)

\* The ids in the order of the list; any order of equals.
markAllAgentNoticesSeen ==
  /\ Acts("notices", MaxNoticeSteps) /\ Unread # {}
  /\ \E ids \in SetToSeqs({n.id : n \in Shown}) : mark(ids, TRUE)

OtherTabMarks(id) ==
  /\ Acts("notices", MaxNoticeSteps)
  /\ id \in {n.id : n \in Shown} \ Range(disk.seen)
  /\ mark(<<id>>, FALSE)

subscribeAgentNotifications ==
  /\ Part("notices") /\ ui.seen # Range(disk.seen)
  /\ ui' = [ui EXCEPT !.seen = Range(disk.seen)]
  /\ UNCHANGED <<disk, remote, calls, ghost>>

changed(d) ==
  /\ Acts("notices", MaxNoticeSteps)
  /\ disk' = d /\ ui' = Acted
  /\ UNCHANGED <<remote, calls, ghost>>

now == ui.acts + 1

\* The changes of the store that make or end a notice.
IdeaChanges(i, s) == Part("notices") /\ changed([disk EXCEPT !.idea[i] = [status |-> s, at |-> now]])
TradeChanges(s) ==
  /\ Part("notices")
  /\ \/ disk.trade.status = "none" /\ s = "open"
     \/ disk.trade.status = "open" /\ s \in {"won", "lost"}
  /\ changed([disk EXCEPT !.trade = [status |-> s, at |-> now]])
PauseChanges ==
  Part("notices") /\ changed([disk EXCEPT !.paused = ~@, !.events = Append(@, [kind |-> "pause", at |-> now])])
OwnerApproves == Part("notices") /\ changed([disk EXCEPT !.events = Append(@, [kind |-> "owner", at |-> now])])
AllowanceNearsEnd == Part("notices") /\ ~disk.expiring /\ changed([disk EXCEPT !.expiring = TRUE])
ReviewChanges(s) ==
  Part("notices") /\ s # disk.review.status /\ changed([disk EXCEPT !.review = [status |-> s, at |-> now]])

NoticesInit ==
  /\ ui = [part |-> "notices", acts |-> 0, seen |-> {}]
  /\ disk = [idea |-> [i \in Ideas |-> [status |-> "none", at |-> 0]],
             trade |-> [status |-> "none", at |-> 0], expiring |-> FALSE,
             review |-> [status |-> "none", at |-> 0], paused |-> FALSE,
             events |-> <<>>, seen |-> <<>>]
  /\ remote = [now |-> 0] /\ calls = {} /\ ghost = [marked |-> <<>>]

NoticesNext ==
  \/ \E id \in IF Part("notices") THEN {n.id : n \in Shown} ELSE {} :
       markAgentNoticeSeen(id) \/ OtherTabMarks(id)
  \/ Part("notices") /\ markAllAgentNoticesSeen
  \/ subscribeAgentNotifications
  \/ \E i \in Ideas, s \in {"needs_approval", "blocked", "approved"} : IdeaChanges(i, s)
  \/ \E s \in {"open", "won", "lost"} : TradeChanges(s)
  \/ PauseChanges \/ OwnerApproves \/ AllowanceNearsEnd
  \/ \E s \in {"pending", "delisted", "approved"} : ReviewChanges(s)

-----------------------------------------------------------------------------
(* The Solana delegation of two traders, on one page; signer 0 is none.    *)

Agents == 1..2
Signers == 1..2
Lifetimes == 1..2                    \* hours; the rules allow two

emptyDelegation == [signer |-> 0, status |-> "not_started", until |-> 0, rules |-> 0]

\* A revoked signer saved again is active; one to be rotated stays so.
activeStatus(status) == IF status = "revoked" THEN "active" ELSE status

\* What the drafts of a trader start from: the hours left, or those allowed.
draftOf(r) == [signer |-> r.signer,
               hours |-> IF r.until > remote.now THEN r.until - remote.now ELSE Max(Lifetimes)]

loadDraft(d, r) == draftOf(r)

\* The page as it is drawn: its summary is of the moment it was last drawn.
stepsReady(r, rules, at) ==
  [signer |-> r.signer # 0, scope |-> r.signer # 0, policy |-> r.rules = rules,
   expiry |-> r.until > at, lifecycle |-> r.status = "active" /\ r.until > at]

buildAgentSolanaDelegationSummary(r, rules, at) ==
  LET s == stepsReady(r, rules, at) IN \A step \in DOMAIN s : s[step]

drawn(u) == [u EXCEPT !.ready = buildAgentSolanaDelegationSummary(u.copy, u.rules, remote.now),
                      !.at = remote.now]

DelegationAct == Acts("delegation", MaxDelegationSteps)

\* Opened: the rules are read once, the first trader is chosen.
OpenPage ==
  /\ DelegationAct
  /\ LET u == [Acted EXCEPT !.open = TRUE, !.agent = 1, !.rules = disk.rules,
                            !.copy = disk.deleg[1], !.draft = draftOf(disk.deleg[1])]
     IN ui' = drawn(u)
  /\ ghost' = [ghost EXCEPT !.rules = {disk.rules}, !.held = {disk.deleg[1]}]
  /\ UNCHANGED <<disk, remote, calls>>

ChooseAgent(a) ==
  /\ DelegationAct /\ ui.open /\ a # ui.agent
  /\ LET u == [Acted EXCEPT !.agent = a, !.copy = disk.deleg[a],
                            !.draft = loadDraft(ui.draft, disk.deleg[a])]
     IN ui' = drawn(u)
  /\ ghost' = [ghost EXCEPT !.held = {disk.deleg[a]}]
  /\ UNCHANGED <<disk, remote, calls>>

TypeDraft(s, h) ==
  /\ DelegationAct /\ ui.open
  /\ ui' = drawn([Acted EXCEPT !.draft = [signer |-> s, hours |-> h]])
  /\ ghost' = [ghost EXCEPT !.typed[ui.agent] = @ \cup {s}]
  /\ UNCHANGED <<disk, remote, calls>>

\* The record that a save writes: what was stored decides its status.
saveAgentSolanaDelegation(previous, draft, rules) ==
  [signer |-> draft.signer,
   status |-> IF previous.signer # draft.signer THEN "active" ELSE activeStatus(previous.status),
   until |-> remote.now + draft.hours, rules |-> rules]

\* What was written is what the page then shows.
written(r, explicit) ==
  /\ disk' = [disk EXCEPT !.deleg[ui.agent] = r]
  /\ ui' = drawn([Acted EXCEPT !.copy = r])
  /\ ghost' = [ghost EXCEPT !.held = @ \cup {r}, !.explicit = explicit]
  /\ UNCHANGED <<remote, calls>>

save ==
  /\ DelegationAct /\ ui.open /\ ui.draft.signer # 0
  /\ written(saveAgentSolanaDelegation(disk.deleg[ui.agent], ui.draft, ui.rules), FALSE)

\* A button is offered by the page's copy and changes what is stored.
setStatus(s) ==
  /\ DelegationAct /\ ui.open
  /\ ui.copy.signer # 0 /\ ui.copy.status # s
  /\ disk.deleg[ui.agent].signer # 0
  /\ written([disk.deleg[ui.agent] EXCEPT !.status = s], s = "active")

\* Another tab with the same store: the owner revokes, asks for a rotation or
\* saves the rules. A save of the rules leaves the page's copy of them.
OtherTabSets(a, s) ==
  /\ DelegationAct /\ disk.deleg[a].signer # 0 /\ disk.deleg[a].status # s
  /\ LET r == [disk.deleg[a] EXCEPT !.status = s]
     IN /\ disk' = [disk EXCEPT !.deleg[a] = r]
        /\ ghost' = [ghost EXCEPT !.held = IF a = ui.agent THEN @ \cup {r} ELSE @, !.explicit = FALSE]
  /\ ui' = Acted /\ UNCHANGED <<remote, calls>>
OtherTabSavesRules ==
  /\ DelegationAct /\ disk.rules < 2
  /\ disk' = [disk EXCEPT !.rules = @ + 1]
  /\ ghost' = [ghost EXCEPT !.rules = @ \cup {disk.rules + 1}]
  /\ ui' = Acted /\ UNCHANGED <<remote, calls>>
HourPasses ==
  /\ DelegationAct /\ remote.now < 3
  /\ remote' = [now |-> remote.now + 1] /\ ui' = Acted
  /\ UNCHANGED <<disk, calls, ghost>>

DelegationInit ==
  /\ ui = [part |-> "delegation", acts |-> 0, open |-> FALSE, agent |-> 1, rules |-> 0,
           copy |-> emptyDelegation, draft |-> [signer |-> 0, hours |-> 1], ready |-> FALSE, at |-> 0]
  /\ disk = [deleg |-> [a \in Agents |-> emptyDelegation], rules |-> 1]
  /\ remote = [now |-> 0] /\ calls = {}
  /\ ghost = [typed |-> [a \in Agents |-> {}], rules |-> {}, held |-> {}, explicit |-> FALSE]

DelegationNext ==
  \/ OpenPage \/ save \/ OtherTabSavesRules \/ HourPasses
  \/ \E a \in Agents : ChooseAgent(a) \/ \E s \in {"revoked", "rotation_required"} : Part("delegation") /\ OtherTabSets(a, s)
  \/ \E s \in Signers, h \in Lifetimes : TypeDraft(s, h)
  \/ \E s \in {"active", "revoked", "rotation_required"} : setStatus(s)

-----------------------------------------------------------------------------
(* The standing of one trader. Sizes are the code's dollars, hours and the *)
(* numbers of trades are scaled down; a lost trade loses the day's cap and *)
(* eight percent of its size.                                              *)

Lanes == {"paper", "testnet"}
Rules == <<[size |-> 250, lev |-> 2, open |-> 1, hours |-> 1, cool |-> 0],
           [size |-> 500, lev |-> 2, open |-> 2, hours |-> 2, cool |-> 1]>>
DailyLossCap == 1
LossPct == 8

AGENT_ALLOCATION_TIERS ==
  <<[size |-> 250, lev |-> 1, open |-> 1, hours |-> 1, executed |-> 0, score |-> 0,
     drawdown |-> 100, violation |-> 100, overrides |-> 9, positive |-> FALSE],
    [size |-> 500, lev |-> 2, open |-> 2, hours |-> 2, executed |-> 1, score |-> 70,
     drawdown |-> 10, violation |-> 10, overrides |-> 1, positive |-> TRUE],
    [size |-> 1000, lev |-> 2, open |-> 3, hours |-> 3, executed |-> 2, score |-> 82,
     drawdown |-> 6, violation |-> 5, overrides |-> 0, positive |-> TRUE]>>
Tier == AGENT_ALLOCATION_TIERS
Tiers == DOMAIN AGENT_ALLOCATION_TIERS

executionTrackRecordSource(t) == t.lane

laneTrades(d, lane) == {i \in DOMAIN d.trades : executionTrackRecordSource(d.trades[i]) = lane}
pnlOf(d, is) == SumSet({10 * i + d.trades[i].pnl : i \in is}) - SumSet({10 * i : i \in is})
lostIn(d, is) == \E i \in is : d.trades[i].pnl < 0

\* The scorecard of a lane. Its score is given: a trader without activity has 50.
allocationMetrics(d, lane) ==
  LET is == laneTrades(d, lane)
      proposals == Cardinality(is) + d.stopped
  IN [executed |-> Cardinality(is), score |-> IF proposals > 0 THEN d.score ELSE 50,
      drawdown |-> IF lostIn(d, is) THEN LossPct ELSE 0,
      violation |-> IF proposals > 0 THEN (100 * d.stopped) \div proposals ELSE 0,
      overrides |-> d.overrides, pnl |-> pnlOf(d, is)]

tierGaps(t, m) ==
  \/ m.executed < Tier[t].executed \/ m.score < Tier[t].score
  \/ m.drawdown > Tier[t].drawdown \/ m.violation > Tier[t].violation
  \/ m.overrides > Tier[t].overrides \/ (Tier[t].positive /\ m.pnl <= 0)

recommendedTier(d, lane) == Max({1} \cup {t \in Tiers : ~tierGaps(t, allocationMetrics(d, lane))})

least(a, b) == Min({a, b})

agentAllocationLimits(t, r) ==
  [size |-> least(Tier[t].size, r.size), lev |-> least(Tier[t].lev, r.lev),
   open |-> least(Tier[t].open, r.open), hours |-> least(Tier[t].hours, r.hours)]

NoAllowance == [status |-> "none", tier |-> 0, size |-> 0, lev |-> 0, open |-> 0,
                from |-> 0, until |-> 0, rules |-> 0]

inForce(d) == /\ d.session.status = "active" /\ d.session.until > remote.now
              /\ d.session.rules = d.rules

allocationAction(d, t) ==
  LET s == d.session
      l == agentAllocationLimits(t, Rules[d.rules])
  IN IF ~inForce(d) THEN "start"
     ELSE IF s.tier # t THEN IF s.tier > t THEN "demote" ELSE "promote"
     ELSE IF s.size # l.size THEN IF s.size > l.size THEN "demote" ELSE "promote"
     ELSE IF s.lev = l.lev /\ s.open = l.open THEN "hold" ELSE "review"

\* What the library says of the trader in one lane.
recommendAgentAllocation(d, lane) ==
  IF d.agent # "active" \/ d.paused THEN "review" ELSE allocationAction(d, recommendedTier(d, lane))

\* The risk the rules are held against.
openPositions(d) == Cardinality({i \in DOMAIN d.trades : d.trades[i].status = "open"})
resting(d) == \E i \in DOMAIN d.trades : remote.now - d.trades[i].at < Rules[d.rules].cool
lossReached(d) == pnlOf(d, DOMAIN d.trades) <= - DailyLossCap

\* Whether an idea that keeps to the size, venue and market limits is allowed.
evaluateAgentTradeProposal(d) ==
  LET s == d.session IN
  IF \/ d.paused \/ d.agent # "active"
     \/ s.status = "revoked" \/ (s.status = "active" /\ s.until <= remote.now)
     \/ s.until - s.from > Rules[d.rules].hours
     \/ openPositions(d) >= IF s.open > 0 THEN least(s.open, Rules[d.rules].open) ELSE Rules[d.rules].open
     \/ resting(d) \/ lossReached(d)
  THEN "blocked"
  ELSE IF s.status = "active" /\ d.plan /\ s.rules = d.rules THEN "allowed" ELSE "approval"

\* The seven items. The open trades are held against the rules only.
readinessItems(d) ==
  [rules |-> ~d.paused, agent |-> d.agent = "active", plan |-> d.plan, session |-> inForce(d),
   capacity |-> openPositions(d) < Rules[d.rules].open, loss |-> ~lossReached(d), rest |-> ~resting(d)]
buildAgentTradingReadiness(d) == \A i \in DOMAIN readinessItems(d) : readinessItems(d)[i]

StandingAct == Acts("standing", MaxStandingSteps)
standing(d) == disk' = d /\ ui' = Acted /\ UNCHANGED <<remote, calls, ghost>>

ChangeRules(r) == StandingAct /\ r # disk.rules /\ standing([disk EXCEPT !.rules = r])
SetPause == StandingAct /\ standing([disk EXCEPT !.paused = ~@])
\* A trader that is not active loses its allowance.
SetTrader(s) ==
  /\ StandingAct /\ s # disk.agent
  /\ standing([disk EXCEPT !.agent = s, !.session.status = IF @ = "active" /\ s # "active" THEN "revoked" ELSE @])
EditPlan == StandingAct /\ standing([disk EXCEPT !.plan = ~@])
IdeaStopped == StandingAct /\ disk.stopped = 0 /\ standing([disk EXCEPT !.stopped = @ + 1])
HandApproved == StandingAct /\ disk.overrides = 0 /\ standing([disk EXCEPT !.overrides = @ + 1])

TradeOpens(lane) ==
  /\ StandingAct /\ Len(disk.trades) < MaxStandingTrades
  /\ evaluateAgentTradeProposal(disk) = "allowed"
  /\ standing([disk EXCEPT !.trades = Append(@, [lane |-> lane, status |-> "open", pnl |-> 0, at |-> remote.now])])
TradeCloses(i, pnl) ==
  /\ StandingAct /\ disk.trades[i].status = "open"
  /\ standing([disk EXCEPT !.trades[i].status = "closed", !.trades[i].pnl = pnl])
StandingHour ==
  /\ StandingAct /\ remote.now < 3
  /\ remote' = [now |-> remote.now + 1] /\ ui' = Acted /\ UNCHANGED <<disk, calls, ghost>>

\* The form as it is filled at first.
filled(t, r) == agentAllocationLimits(t, r)

\* The card of the library or the dashboard leads to the budget's page with
\* the recommended tier, which fills the form from the rules of this moment.
OpenBudget(lane) ==
  /\ StandingAct /\ ~inForce(disk) /\ disk.agent = "active"
  /\ LET t == recommendedTier(disk, lane)
     IN ui' = [Acted EXCEPT !.form = [tier |-> t, rules |-> disk.rules,
                                      limits |-> filled(t, Rules[disk.rules]), edited |-> FALSE]]
  /\ calls' = {} /\ UNCHANGED <<disk, remote, ghost>>

\* The owner may ask for more trades, a longer or larger allowance.
EditBudget ==
  /\ StandingAct /\ ui.form.tier # 0 /\ ~ui.form.edited
  /\ ui' = [Acted EXCEPT !.form.edited = TRUE, !.form.limits = [size |-> 900, lev |-> 3, open |-> 3, hours |-> 3]]
  /\ UNCHANGED <<disk, remote, calls, ghost>>

\* Bound to the rules the page has read.
boundAgentSessionToPolicy(l, r) ==
  [size |-> least(l.size, r.size), lev |-> least(l.lev, r.lev),
   open |-> least(l.open, r.open), hours |-> least(l.hours, r.hours)]

submit ==
  /\ StandingAct /\ ui.form.tier # 0 /\ calls = {} /\ disk.plan
  /\ LET l == boundAgentSessionToPolicy(ui.form.limits, Rules[ui.form.rules])
     IN calls' = {[status |-> "active", tier |-> ui.form.tier, size |-> l.size, lev |-> l.lev,
                   open |-> l.open, from |-> remote.now, until |-> remote.now + l.hours,
                   rules |-> ui.form.rules]}
  /\ ui' = Acted /\ UNCHANGED <<disk, remote, ghost>>

\* Signed and granted on chain, or not; saved under the rules of that moment.
approveOwnerRequest(g) ==
  /\ Part("standing")
  /\ calls' = {} /\ ui' = [ui EXCEPT !.form.tier = 0]
  /\ \/ /\ disk' = [disk EXCEPT !.session = [g EXCEPT !.rules = disk.rules]]
        /\ ghost' = [ghost EXCEPT !.asRecommended = ~ui.form.edited /\ g.rules = disk.rules]
     \/ UNCHANGED <<disk, ghost>>
  /\ UNCHANGED remote

NoForm == [tier |-> 0, rules |-> 1, limits |-> agentAllocationLimits(1, Rules[1]), edited |-> FALSE]

StandingInit ==
  /\ ui = [part |-> "standing", acts |-> 0, form |-> NoForm]
  /\ \E score \in {70, 82}, r \in DOMAIN Rules :
       disk = [rules |-> r, paused |-> FALSE, agent |-> "active", plan |-> TRUE, trades |-> <<>>,
               stopped |-> 0, overrides |-> 0, score |-> score, session |-> NoAllowance]
  /\ remote = [now |-> 0] /\ calls = {} /\ ghost = [asRecommended |-> FALSE]

StandingNext ==
  \/ \E r \in DOMAIN Rules : ChangeRules(r)
  \/ SetPause \/ EditPlan \/ IdeaStopped \/ HandApproved \/ StandingHour \/ EditBudget \/ submit
  \/ \E s \in {"active", "paused"} : SetTrader(s)
  \/ \E lane \in Lanes : TradeOpens(lane) \/ OpenBudget(lane)
  \/ \E i \in IF Part("standing") THEN DOMAIN disk.trades ELSE {}, pnl \in {-1, 1} : TradeCloses(i, pnl)
  \/ \E g \in IF Part("standing") THEN calls ELSE {} : approveOwnerRequest(g)

-----------------------------------------------------------------------------
(* The library of prepared traders, open in two tabs that share the store. *)

Templates == 1..2
Tabs == 1..2
DemoTrades == 2                      \* demonstration trades of a template
demoId(x) == 10 + x

LibraryAct == Acts("library", MaxLibrarySteps)

\* The templates with a trader that still has access, as a tab draws them;
\* a demonstration trader is one of its template too.
chosen(d) == {t.lib : t \in {u \in d.traders : u.status # "revoked"}}

pending(tab) == \E j \in calls : j.tab = tab

saveTrader(d, t) == [d EXCEPT !.traders = {u \in @ : u.id # t.id} \cup {t}]
createClearSigLibraryTrader(id, x) == [id |-> id, lib |-> x, status |-> "active"]

\* A template that has a trader leads to its budget, another is encrypted,
\* saved, sent to the server; all that time the tab's buttons are off.
chooseTrader(tab, x) ==
  /\ LibraryAct /\ ~pending(tab) /\ ui.next <= MaxLibrarySteps
  /\ IF x \in ui.drawn[tab]
     THEN ui' = [Acted EXCEPT !.drawn[tab] = chosen(disk)] /\ UNCHANGED <<calls, ghost>>
     ELSE /\ calls' = calls \cup {[tab |-> tab, of |-> x, pc |-> "encrypt", id |-> ui.next]}
          /\ ui' = [Acted EXCEPT !.next = @ + 1]
          /\ ghost' = [ghost EXCEPT !.choosers[x] = @ \cup {tab}]
  /\ UNCHANGED <<disk, remote>>

TraderEncrypted(j) ==
  /\ Part("library") /\ j.pc = "encrypt"
  /\ \/ /\ disk' = saveTrader(disk, createClearSigLibraryTrader(j.id, j.of))
        /\ calls' = (calls \ {j}) \cup {[j EXCEPT !.pc = "sync"]}
     \/ calls' = calls \ {j} /\ UNCHANGED disk
  /\ UNCHANGED <<remote, ui, ghost>>

\* Sent or not, the tab goes on to the budget.
TraderSynced(j) ==
  /\ Part("library") /\ j.pc = "sync"
  /\ calls' = calls \ {j}
  /\ ui' = [ui EXCEPT !.drawn[j.tab] = chosen(disk)]
  /\ UNCHANGED <<disk, remote, ghost>>

addDemoHistory(tab) ==
  /\ LibraryAct /\ ~pending(tab)
  /\ calls' = calls \cup {[tab |-> tab, of |-> 0, pc |-> "import", id |-> 0]}
  /\ ui' = Acted /\ UNCHANGED <<disk, remote, ghost>>

hasDemoTrades(d, x) == d.demo[x] > 0

\* The demonstration traders are made, or made active again; each that has no
\* trades gets those of its ideas that the wallet's rules allow.
seedClearSigAgentDemoHistory(d, made) ==
  [traders |-> {t \in d.traders : t.id \notin {demoId(x) : x \in Templates}}
                 \cup {createClearSigLibraryTrader(demoId(x), x) : x \in Templates},
   demo |-> [x \in Templates |-> IF hasDemoTrades(d, x) THEN d.demo[x] ELSE d.demo[x] + made[x]]]

DemoImported(j) ==
  /\ Part("library") /\ j.pc = "import"
  /\ \E made \in [Templates -> 0..DemoTrades] : disk' = seedClearSigAgentDemoHistory(disk, made)
  /\ calls' = calls \ {j}
  /\ ui' = [ui EXCEPT !.drawn[j.tab] = chosen(disk')]
  /\ UNCHANGED <<remote, ghost>>

\* Access is removed on another page.
RemoveAccess(t) ==
  /\ LibraryAct /\ t.status = "active"
  /\ disk' = saveTrader(disk, [t EXCEPT !.status = "revoked"])
  /\ ui' = Acted /\ UNCHANGED <<remote, calls, ghost>>

\* A tab is drawn again, as when its filter changes.
Drawn(tab) ==
  /\ Part("library") /\ ui.drawn[tab] # chosen(disk)
  /\ ui' = [ui EXCEPT !.drawn[tab] = chosen(disk)]
  /\ UNCHANGED <<disk, remote, calls, ghost>>

LibraryInit ==
  /\ ui = [part |-> "library", acts |-> 0, drawn |-> [tab \in Tabs |-> {}], next |-> 1]
  /\ disk = [traders |-> {}, demo |-> [x \in Templates |-> 0]]
  /\ remote = [now |-> 0] /\ calls = {} /\ ghost = [choosers |-> [x \in Templates |-> {}]]

LibraryNext ==
  \/ \E tab \in Tabs : addDemoHistory(tab) \/ Drawn(tab) \/ \E x \in Templates : chooseTrader(tab, x)
  \/ \E j \in IF Part("library") THEN calls ELSE {} : TraderEncrypted(j) \/ TraderSynced(j) \/ DemoImported(j)
  \/ \E t \in IF Part("library") THEN disk.traders ELSE {} : RemoveAccess(t)

-----------------------------------------------------------------------------
Init == NoticesInit \/ DelegationInit \/ StandingInit \/ LibraryInit
Next == NoticesNext \/ DelegationNext \/ StandingNext \/ LibraryNext
Spec == Init /\ [][Next]_vars

-----------------------------------------------------------------------------
(* Properties.                                                             *)

\* Every variable keeps its type in the part shown; no more notices are
\* remembered as seen than the limit, and none twice.
TypeOK ==
  CASE Part("notices") ->
         /\ Len(disk.seen) <= SeenLimit /\ IsInjective(disk.seen)
         /\ ui.seen \subseteq Range(ghost.marked)
    [] Part("delegation") ->
         /\ disk.deleg \in [Agents -> [signer : 0..2, until : 0..5, rules : 0..2,
              status : {"not_started", "active", "rotation_required", "revoked"}]]
         /\ ui.draft \in [signer : 0..2, hours : Lifetimes]
    [] Part("standing") ->
         /\ disk.session.tier \in 0..3 /\ disk.session.size \in 0..500
         /\ Cardinality(calls) <= 1
    [] Part("library") ->
         \A t \in disk.traders : t.status \in {"active", "revoked"} /\ t.lib \in Templates

\* A notice that is cut from the list is outranked by every notice of it: an
\* idea waiting for approval is never hidden behind something less urgent, nor
\* a newer critical notice behind an older one (notifications.ts, slice).
CutAreOutranked ==
  Part("notices") =>
    \A n \in allNotifications(disk, ui.acts) \ Shown : \A m \in Shown :
      m.severity > n.severity \/ (m.severity = n.severity /\ m.at >= n.at)

\* A notice marked as seen, in whatever tab, is unread again only when as many
\* others as are remembered have been marked since (writeSeen, slice).
SeenUntilForgotten ==
  Part("notices") =>
    \A i \in DOMAIN ghost.marked :
      i > Len(ghost.marked) - SeenLimit => ghost.marked[i] \in Range(disk.seen)

\* A signer that must be rotated is never active again without a new key or
\* the owner's own "Mark active" (saveAgentSolanaDelegation, activeStatus).
RotationNeedsNewSigner ==
      \A a \in Agents :
        (/\ Part("delegation") /\ disk.deleg[a].status = "rotation_required"
         /\ disk'.deleg[a].status = "active" /\ disk'.deleg[a].signer = disk.deleg[a].signer)
        => ghost'.explicit

\* The signer stored for a trader was entered while that trader was chosen:
\* a draft never goes to another one (agents/solana/page.tsx, drafts effect).
DraftGoesToItsAgent ==
  Part("delegation") => \A a \in Agents : disk.deleg[a].signer \in ghost.typed[a] \cup {0}

\* "Solana agent delegation is ready" was true when it was drawn: of a
\* delegation that was stored since the trader was chosen, active and in
\* time, and made under rules that have been in force since the page was
\* opened; the page's rules and copy may be old, never invented.
ReadyWasInForce ==
  (Part("delegation") /\ ui.ready) =>
    /\ ui.copy \in ghost.held /\ ui.copy.status = "active" /\ ui.copy.until > ui.at
    /\ ui.copy.rules \in ghost.rules /\ ui.copy.signer # 0

\* A tier above the first is recommended on the record of the lane shown:
\* its own trades reach the number and their sum is a gain; practice on paper
\* earns nothing on the venue (trackRecord.ts, allocation.ts).
LaneEarnsTier ==
  Part("standing") => \A lane \in Lanes :
    LET t == recommendedTier(disk, lane)
        own == {i \in DOMAIN disk.trades : disk.trades[i].lane = lane}
    IN t > 1 => Cardinality(own) >= Tier[t].executed /\ pnlOf(disk, own) > 0

\* An allowance granted as it was recommended is what the recommendation then
\* calls for, as long as the tier is the same, the allowance in force and the
\* trader active: the
\* library does not ask to change what it asked for.
GrantedIsHeld ==
  (Part("standing") /\ ghost.asRecommended /\ inForce(disk) /\ ~disk.paused /\ disk.agent = "active") =>
    \A lane \in Lanes : recommendedTier(disk, lane) = disk.session.tier =>
      recommendAgentAllocation(disk, lane) = "hold"

\* When the trader is called ready, an idea that keeps to the limits is
\* allowed, unless the allowance has fewer places than the rules or is longer
\* than they allow by now, which readiness does not look at.
ReadyCanTrade ==
  (/\ Part("standing") /\ buildAgentTradingReadiness(disk)
   /\ openPositions(disk) < disk.session.open
   /\ disk.session.until - disk.session.from <= Rules[disk.rules].hours)
  => evaluateAgentTradeProposal(disk) = "allowed"

\* "This trader can open practice trades when an idea fits your safety rules":
\* a trader called ready is allowed such an idea.
ReadyMeansAllowed ==
  (Part("standing") /\ buildAgentTradingReadiness(disk))
  => evaluateAgentTradeProposal(disk) = "allowed"

\* A template chosen in one tab only has at most one trader of the owner's
\* own with access, however often it was chosen and removed.
OnePerTemplate ==
  Part("library") => \A x \in Templates :
    Cardinality(ghost.choosers[x]) <= 1 =>
      Cardinality({t \in disk.traders : t.lib = x /\ t.id # demoId(x) /\ t.status # "revoked"}) <= 1

\* The demonstration trades of a template are made once, whichever tab asks
\* and however often (demoHistory.ts, hasDemoTrades).
DemoOnce == Part("library") => \A x \in Templates : disk.demo[x] <= DemoTrades

=============================================================================
