------------------------------ MODULE Markets ------------------------------
(***************************************************************************)
(* What the traders' pages believe about the world outside (apps/web), in  *)
(* two parts of which a behaviour shows one, named by ui.part:             *)
(*                                                                         *)
(*   "market"     the dashboard's market view: the prices of the watched   *)
(*                markets, loaded when the watched set changes, with the   *)
(*                fixed practice prices as fallback; the scout's ideas and *)
(*                the automatic exits computed from them                   *)
(*                (useAgentDashboardController.tsx, clientMarketData.ts,   *)
(*                serverMarketDataAdapters.ts, scout.ts,                   *)
(*                automaticTradeManagement.ts).                            *)
(*   "authority"  the server's reading of an executed trade or settlement  *)
(*                proposal from finalized chain state, by two calls that   *)
(*                different nodes may answer                               *)
(*                (serverSolanaTradeAuthority.ts,                          *)
(*                serverSolanaSettlementAuthority.ts).                     *)
(*                                                                         *)
(* disk is the store of the agents' pages, remote the market's or the      *)
(* chain's truth, calls the reads under way, ui the page or the server.    *)
(***************************************************************************)
EXTENDS Integers, Sequences, FiniteSets, FiniteSetsExt, SequencesExt

CONSTANTS MaxMarketActs,   \* steps of people and of the market, part "market"
          MaxNewsActs,     \* the same on the developers' page, with its news
          MaxTrades,       \* trades ever opened
          MaxSlots         \* finalized states of the chain, part "authority"

VARIABLES disk, remote, calls, ui, ghost

vars == <<disk, remote, calls, ui, ghost>>

-----------------------------------------------------------------------------
(* The market: what the provider lists, in its order, and what is read.    *)

Coins == {1, 2, 3}
Markets == {1, 2}
Universe == <<3, 1, 2>>          \* coin 3 is delisted and still listed first
MockMarkets == {1}               \* markets with a fixed practice price
\* A coin's prices; 0 is a mark the provider has not.
Price(c, level) == 10 * c + level
Levels == 1..3
Moving == {1}                    \* the market whose price changes
MockPrice(m) == Price(m, 2)
referencePrice(m) == Price(1, 2) \* of a market it does not know: the first's

NoSnap == [from |-> "none", mark |-> 0, hot |-> FALSE]
NoIntel == [from |-> "none", news |-> FALSE]

contexts == [i \in DOMAIN Universe |-> remote.mark[Universe[i]]]

\* The place of a market's coin in the universe, which is its place in the
\* contexts.
assetIndex(m) == CHOOSE i \in DOMAIN Universe : Universe[i] = m

\* What the live provider answers: nothing without a positive mark.
fetchHyperliquidMarketData(m) ==
  LET mark == contexts[assetIndex(m)]
  IN IF mark = 0 THEN NoSnap
     ELSE [from |-> "live", mark |-> mark, hot |-> m \in remote.hot]

mockMarketData(m) ==
  IF m \in MockMarkets THEN [from |-> "mock", mark |-> MockPrice(m), hot |-> FALSE]
  ELSE NoSnap

\* The providers that can be reached while a market is loaded.
Reach == {{"live", "mock"}, {"mock"}, {}}

\* Hyperliquid first, the practice prices after, nothing else.
loadAgentMarketDataSnapshot(m, reach) ==
  LET live == IF "live" \in reach THEN fetchHyperliquidMarketData(m) ELSE NoSnap
  IN IF live # NoSnap THEN live
     ELSE IF "mock" \in reach THEN mockMarketData(m) ELSE NoSnap

\* The news items of an answer: the configured feed's, or, without any, the
\* live provider's marked gap and the practice provider's placeholder.
intelligenceItems(source) ==
  IF remote.feed = "on" THEN {"configured"}
  ELSE IF source = "live" THEN {"coverage-gap"} ELSE {"mock"}

isConnectedIntelligenceItem(item) == item # "coverage-gap"

\* A feed that is configured and fails fails the answer of either provider.
loadAgentMarketIntelligenceSnapshot(m, reach) ==
  LET snap == loadAgentMarketDataSnapshot(m, reach)
  IN IF snap = NoSnap \/ remote.feed = "down" THEN NoIntel
     ELSE [from |-> snap.from,
           news |-> \E item \in intelligenceItems(snap.from) : isConnectedIntelligenceItem(item)]

-----------------------------------------------------------------------------
(* The watched markets and their loads.                                    *)

Market == ui.part = "market"
MarketAct == Market /\ ui.acts < IF ui.debug THEN MaxNewsActs ELSE MaxMarketActs

isOpen(t) == t.status = "open"
openTrades(d) == {i \in DOMAIN d.trades : isOpen(d.trades[i])}

\* Of the open trades and of the active trader's playbook.
watchedMarkets(d) ==
  {d.trades[i].m : i \in openTrades(d)} \cup (IF d.active THEN d.playbook ELSE {})

NoneRead == [m \in Markets |-> NoSnap]
NoneKnown == [m \in Markets |-> NoIntel]

load(kind, key, gen) ==
  [kind |-> kind, key |-> key, gen |-> gen, todo |-> key,
   snaps |-> NoneRead, intel |-> NoneKnown]

\* After a change of the store: when the watched set changed, what was being
\* loaded is dropped and the new set is loaded, or, when it is empty,
\* forgotten. News is loaded for developers only.
watching(d, u) ==
  LET key == watchedMarkets(d)
      gen == u.gen + 1
  IN IF key = u.key THEN ui' = u /\ calls' = calls
     ELSE /\ ui' = [u EXCEPT !.key = key, !.gen = gen,
                             !.snaps = IF key = {} THEN NoneRead ELSE @,
                             !.intel = IF key = {} \/ ~u.debug THEN NoneKnown ELSE @]
          /\ calls' = calls \cup
               (IF key = {} THEN {}
                ELSE {load(k, key, gen) : k \in {"price"} \cup (IF u.debug THEN {"news"} ELSE {})})

Acted == [ui EXCEPT !.acts = @ + 1]

\* One market of a load is answered, in whatever order.
LoadOne(j, m, reach) ==
  /\ Market /\ m \in j.todo
  /\ calls' = (calls \ {j}) \cup
       {IF j.kind = "price"
        THEN [j EXCEPT !.todo = @ \ {m},
                       !.snaps[m] = loadAgentMarketDataSnapshot(m, reach)]
        ELSE [j EXCEPT !.todo = @ \ {m},
                       !.intel[m] = loadAgentMarketIntelligenceSnapshot(m, reach)]}
  /\ UNCHANGED <<disk, remote, ui, ghost>>

cancelled(j) == j.gen # ui.gen

\* All have answered: the page takes the load unless it has moved on.
LoadDone(j) ==
  /\ Market /\ j.todo = {} /\ calls' = calls \ {j}
  /\ ui' = IF cancelled(j) THEN ui
           ELSE IF j.kind = "price" THEN [ui EXCEPT !.snaps = j.snaps, !.loaded = ui.gen]
           ELSE [ui EXCEPT !.intel = j.intel]
  /\ UNCHANGED <<disk, remote, ghost>>

MovePrice(c, level) ==
  /\ MarketAct /\ ui' = Acted
  /\ remote' = [remote EXCEPT !.mark[c] = IF level = 0 THEN 0 ELSE Price(c, level)]
  /\ remote' # remote /\ UNCHANGED <<disk, calls, ghost>>

FeedChanges(f) ==
  /\ MarketAct /\ ui.debug /\ f # remote.feed /\ ui' = Acted
  /\ remote' = [remote EXCEPT !.feed = f]
  /\ ghost' = [ghost EXCEPT !.fed = @ \/ f = "on"] /\ UNCHANGED <<disk, calls>>

-----------------------------------------------------------------------------
(* Rules, and the scout's ideas.                                           *)

SmallIdea == 3                 \* the size the scout asks for of itself

minPositive(S, fallback) ==
  LET P == {v \in S : v > 0} IN IF P = {} THEN fallback ELSE Min(P)

inTime(s) == s.on
\* The session was granted under the wallet's rules of now.
isAgentSessionCurrent(s, p) == s.on /\ s.rules = p.rules

NoSession == [on |-> FALSE, markets |-> {}, cap |-> 0, rules |-> [markets |-> {}, cap |-> 0]]

\* The playbook's markets (or the rules') that rules and session allow; when
\* there is none, the playbook's.
candidateMarkets(d, s) ==
  LET preferred == IF d.playbook # {} THEN d.playbook ELSE d.policy.rules.markets
      fit == {m \in preferred :
                /\ d.policy.rules.markets = {} \/ m \in d.policy.rules.markets
                /\ s.markets = {} \/ m \in s.markets}
  IN IF fit = {} THEN preferred ELSE fit

\* The candidate with the most volume that has a price: the first market's
\* volume is the largest.
bestSnapshot(ms, snaps) ==
  LET read == {m \in ms : snaps[m] # NoSnap} IN IF read = {} THEN 0 ELSE Min(read)

suggestedSide(d, snap) == IF d.defensive \/ snap.hot THEN "short" ELSE "long"

\* Where stop and target lie from the entry.
distances(side) ==
  IF side = "long" THEN [stop |-> -1, target |-> 1] ELSE [stop |-> 1, target |-> -1]

\* The idea: sized within every positive limit, priced at the snapshot.
baseScoutProposal(d, s, m, side, snap) ==
  LET mark == IF snap = NoSnap THEN referencePrice(m) ELSE snap.mark
  IN [m |-> m, side |-> side, entry |-> mark,
      size |-> minPositive({SmallIdea, d.policy.rules.cap, s.cap}, 1),
      stop |-> mark + distances(side).stop, target |-> mark + distances(side).target]

intersectOrPolicy(p, s) == IF s.markets = {} THEN p.rules.markets ELSE p.rules.markets \cap s.markets

\* A session of older rules leaves the decision to a person, as none does.
evaluateSession(s, p) == s.on /\ s.rules = p.rules

\* The rules' verdict (lib/agents/policy.ts) as far as an idea of the scout
\* can fail it; MaxTrades is also the limit of open positions.
evaluateAgentTradeProposal(d, s, idea) ==
  IF \/ d.policy.paused \/ ~d.active \/ d.policy.rules.cap = 0
     \/ idea.m \notin intersectOrPolicy(d.policy, s)
     \/ d.playbook # {} /\ idea.m \notin d.playbook
     \/ idea.size > minPositive({d.policy.rules.cap, s.cap}, SmallIdea)
     \/ Cardinality(openTrades(d)) >= MaxTrades
  THEN "blocked"
  ELSE IF evaluateSession(s, d.policy) THEN "allowed" ELSE "needs_approval"

\* The report of the active trader; its session need only be in time.
scoutReport(d, u) ==
  LET s == IF inTime(d.session) THEN d.session ELSE NoSession
      ms == candidateMarkets(d, s)
      best == bestSnapshot(ms, u.snaps)
      m == IF best # 0 THEN best ELSE IF ms = {} THEN 1 ELSE Min(ms)
      snap == IF best # 0 THEN u.snaps[best] ELSE NoSnap
      idea == baseScoutProposal(d, s, m, suggestedSide(d, snap), snap)
  IN [m |-> m, snap |-> snap, idea |-> idea,
      status |-> evaluateAgentTradeProposal(d, s, idea)]

\* The report's market and price, checked again under the session that is
\* current; an allowed idea is opened at its price at once.
buildAgentScoutProposal(d, u) ==
  LET report == scoutReport(d, u)
      s == IF isAgentSessionCurrent(d.session, d.policy) THEN d.session ELSE NoSession
      idea == baseScoutProposal(d, s, report.m, report.idea.side, report.snap)
  IN [idea |-> idea, decision |-> evaluateAgentTradeProposal(d, s, idea)]

prepareScoutIdea ==
  LET report == scoutReport(disk, ui)
      built == buildAgentScoutProposal(disk, ui)
      trade == [m |-> built.idea.m, side |-> built.idea.side, entry |-> built.idea.entry,
                size |-> built.idea.size, stop |-> built.idea.stop,
                target |-> built.idea.target, status |-> "open", why |-> "none", pnl |-> 0]
      d == IF built.decision = "allowed"
           THEN [disk EXCEPT !.trades = Append(@, trade)] ELSE disk
  IN /\ MarketAct /\ disk.active /\ report.status # "blocked"
     /\ Len(disk.trades) < MaxTrades
     /\ disk' = d /\ watching(d, Acted)
     /\ ghost' = [ghost EXCEPT !.told = report.status, !.did = built.decision]
     /\ UNCHANGED remote

\* Other pages change the trader, its playbook, the rules and the session.
setAgentStatus ==
  LET d == [disk EXCEPT !.active = ~@]
  IN /\ MarketAct /\ disk' = d /\ watching(d, Acted) /\ UNCHANGED <<remote, ghost>>

saveStrategy(ms) ==
  LET d == [disk EXCEPT !.playbook = ms]
  IN /\ MarketAct /\ ms # disk.playbook /\ disk' = d /\ watching(d, Acted)
     /\ UNCHANGED <<remote, ghost>>

saveAgentVaultPolicy(rules) ==
  LET d == [disk EXCEPT !.policy.rules = rules]
  IN /\ MarketAct /\ rules # disk.policy.rules /\ disk' = d /\ watching(d, Acted)
     /\ UNCHANGED <<remote, ghost>>

setKillSwitch ==
  LET d == [disk EXCEPT !.policy.paused = ~@]
  IN /\ MarketAct /\ disk' = d /\ watching(d, Acted) /\ UNCHANGED <<remote, ghost>>

saveAgentSession(ms, cap) ==
  LET s == [on |-> TRUE, markets |-> ms, cap |-> cap, rules |-> disk.policy.rules]
      d == [disk EXCEPT !.session = s]
  IN /\ MarketAct /\ s # disk.session /\ disk' = d /\ watching(d, Acted)
     /\ UNCHANGED <<remote, ghost>>

-----------------------------------------------------------------------------
(* Automatic exits.                                                        *)

automaticExitReason(t, mark) ==
  IF t.side = "long"
  THEN IF mark >= t.target THEN "take_profit" ELSE IF mark <= t.stop THEN "stop_loss" ELSE "none"
  ELSE IF mark <= t.target THEN "take_profit" ELSE IF mark >= t.stop THEN "stop_loss" ELSE "none"

estimateAgentOpenTradePerformance(t, mark) ==
  (mark - t.entry) * (IF t.side = "long" THEN 1 ELSE -1)

automaticExitDecisions(d, u) ==
  {i \in openTrades(d) :
     LET snap == u.snaps[d.trades[i].m]
     IN snap # NoSnap /\ automaticExitReason(d.trades[i], snap.mark) # "none"}

\* All trades with a decision are closed at the price the page knows.
closeAutomaticExitTrades ==
  LET out == automaticExitDecisions(disk, ui)
      closed(i) == LET t == disk.trades[i]
                       mark == ui.snaps[t.m].mark
                   IN [t EXCEPT !.status = "closed", !.why = automaticExitReason(t, mark),
                                !.pnl = estimateAgentOpenTradePerformance(t, mark)]
      d == [disk EXCEPT !.trades = [i \in DOMAIN @ |-> IF i \in out THEN closed(i) ELSE @[i]]]
  IN /\ MarketAct /\ out # {} /\ disk' = d /\ watching(d, Acted)
     /\ UNCHANGED <<remote, ghost>>

MarketNext ==
  \/ \E j \in calls : Market /\ LoadDone(j)
  \/ \E j \in calls : Market /\ \E m \in j.todo, reach \in Reach :
        LoadOne(j, m, reach)
  \/ \E c \in Moving, level \in {0, 1, 3} : Market /\ MovePrice(c, level)
  \/ \E f \in {"off", "on", "down"} : Market /\ FeedChanges(f)
  \/ prepareScoutIdea \/ setAgentStatus \/ setKillSwitch \/ closeAutomaticExitTrades
  \/ \E ms \in {{}, {2}, {1, 2}} : Market /\ saveStrategy(ms)
  \/ \E rules \in {[markets |-> {1, 2}, cap |-> 2], [markets |-> {1}, cap |-> 2]} :
        Market /\ saveAgentVaultPolicy(rules)
  \/ \E ms \in {{}, {2}} : Market /\ saveAgentSession(ms, IF ms = {} THEN 4 ELSE 1)

-----------------------------------------------------------------------------
(* An executed proposal, read from the chain. remote is the sequence of    *)
(* its finalized states; a node may answer with an old one.                *)

Authority == ui.part = "authority"
Approvers == {1, 2}
Kinds == {"trade", "settlement"}
Orders == {1, 2}

now == Last(remote)
Finalize(st) ==
  /\ Authority /\ Len(remote) < MaxSlots /\ st # now /\ remote' = Append(remote, st)
  /\ UNCHANGED <<disk, calls, ui, ghost>>

approve(a) ==
  /\ Authority /\ now.prop.st = "open" /\ Finalize([now EXCEPT !.prop.votes = @ \cup {a}])

\* A trade is counted on its session, which must be live.
executeProposal ==
  /\ Authority /\ now.prop.st = "open" /\ Cardinality(now.prop.votes) >= now.threshold
  /\ IF now.prop.kind = "trade"
     THEN now.live /\ Finalize([now EXCEPT !.prop.st = "executed", !.spent = @ + 1])
     ELSE Finalize([now EXCEPT !.prop.st = "executed"])

\* The rule changes only while it has no open proposal.
changeThreshold(n) ==
  /\ Authority /\ now.prop.st # "open" /\ Finalize([now EXCEPT !.threshold = n])
revokeSession == Authority /\ Finalize([now EXCEPT !.live = FALSE])
closeProposal ==
  /\ Authority /\ now.prop.st = "executed" /\ Finalize([now EXCEPT !.prop.st = "closed"])

\* The layout accepts the executed status and the expected kind alone.
parseProposal(prop, kind) == prop.st = "executed" /\ prop.kind = kind

\* First call: the proposal, from a node at some finalized slot.
readProposal(kind, order, slot) ==
  /\ Authority /\ calls = {} /\ ui.reads < 2
  /\ ui' = [ui EXCEPT !.reads = @ + 1]
  /\ calls' = IF parseProposal(remote[slot].prop, kind)
              THEN {[kind |-> kind, order |-> order, prop |-> remote[slot].prop, slot |-> slot]}
              ELSE {}
  /\ UNCHANGED <<disk, remote, ghost>>

\* The second answer is not older, and its proposal is the same.
sameSnapshot(j, slot) == slot >= j.slot /\ remote[slot].prop = j.prop

\* Approvals within the roster reach the rule's threshold.
verifyContext(prop, st) == Cardinality(prop.votes) >= st.threshold

\* The action, policy and payload hashes are those of the exact order.
matchesOrder(prop, order) == prop.order = order

\* The envelope signed holds the threshold of its day.
canonicalEnvelopeHash(prop, st) == prop.signed = st.threshold

\* Session and risk accounts as they are parsed; a settlement reads neither.
sessionOf(j, st) ==
  IF j.kind = "trade" THEN [live |-> st.live, spent |-> st.spent]
  ELSE [live |-> FALSE, spent |-> 0]

authorityOf(j, st) ==
  [kind |-> j.kind, order |-> j.order, votes |-> Cardinality(j.prop.votes),
   threshold |-> st.threshold, session |-> sessionOf(j, st)]

\* A settlement's authority is held against its claim once more.
verifyExecutedAgentSettlement(a) ==
  a.kind = "settlement" => a.threshold >= 1 /\ a.votes >= a.threshold

\* Second call: proposal, wallet and rule, for a trade session and risk too.
readAuthority(j, slot) ==
  LET st == remote[slot]
      ok == /\ sameSnapshot(j, slot) /\ verifyContext(j.prop, st)
            /\ matchesOrder(j.prop, j.order) /\ canonicalEnvelopeHash(j.prop, st)
            /\ verifyExecutedAgentSettlement(authorityOf(j, st))
  IN /\ Authority /\ calls' = {}
     /\ ui' = IF ok THEN [ui EXCEPT !.given = @ \cup {authorityOf(j, st)}] ELSE ui
     /\ UNCHANGED <<disk, remote, ghost>>

AuthorityNext ==
  \/ \E a \in Approvers : approve(a)
  \/ executeProposal \/ revokeSession \/ closeProposal
  \/ \E n \in 1..2 : changeThreshold(n)
  \/ \E kind \in Kinds, order \in Orders : Authority /\
        \E slot \in DOMAIN remote : readProposal(kind, order, slot)
  \/ Authority /\ \E j \in calls : \E slot \in DOMAIN remote : readAuthority(j, slot)

-----------------------------------------------------------------------------

NoGhost == [told |-> "none", did |-> "none", fed |-> FALSE]

InitMarket ==
  /\ \E debug, defensive \in BOOLEAN, hot \in {{}, {1}} :
       /\ (debug => ~defensive /\ hot = {}) /\ (defensive => hot = {})
       /\ disk = [active |-> TRUE, playbook |-> {1}, defensive |-> defensive,
                  policy |-> [rules |-> [markets |-> {1, 2}, cap |-> 2], paused |-> FALSE],
                  session |-> [on |-> TRUE, markets |-> {}, cap |-> 1,
                               rules |-> [markets |-> {1, 2}, cap |-> 2]],
                  trades |-> <<>>]
       /\ remote = [mark |-> [c \in Coins |-> Price(c, 2)], hot |-> hot, feed |-> "off"]
       /\ ui = [part |-> "market", acts |-> 0, debug |-> debug, key |-> {1}, gen |-> 1,
                snaps |-> NoneRead, intel |-> NoneKnown, loaded |-> 0]
       /\ calls = {load(k, {1}, 1) : k \in {"price"} \cup (IF debug THEN {"news"} ELSE {})}
  /\ ghost = NoGhost

InitAuthority ==
  /\ \E kind \in Kinds, threshold \in 1..2 :
       remote = <<[prop |-> [st |-> "open", kind |-> kind, order |-> 1, votes |-> {},
                             signed |-> threshold],
                   threshold |-> threshold, live |-> TRUE, spent |-> 0]>>
  /\ ui = [part |-> "authority", reads |-> 0, given |-> {}]
  /\ disk = [none |-> 0] /\ calls = {} /\ ghost = NoGhost

Init == InitMarket \/ InitAuthority
Next == MarketNext \/ AuthorityNext
Spec == Init /\ [][Next]_vars

-----------------------------------------------------------------------------
(* Properties.                                                             *)

Trade == [m : Markets, side : {"long", "short"}, entry : Nat, size : 1..SmallIdea,
          stop : Nat, target : Nat, status : {"open", "closed"},
          why : {"none", "take_profit", "stop_loss"}, pnl : Int]

\* The page's maps name markets and the chain's history stays within its bound.
TypeOK ==
  IF ui.part = "market"
  THEN /\ disk.trades \in Seq(Trade) /\ ui.key \subseteq Markets
       /\ \A m \in Markets : ui.snaps[m].from \in {"none", "live", "mock"}
       /\ \A j \in calls : j.todo \subseteq j.key /\ j.gen <= ui.gen
  ELSE /\ Len(remote) <= MaxSlots /\ Cardinality(calls) <= 1
       /\ \A a \in ui.given : a.kind \in Kinds /\ a.votes \in 0..2

\* Once the prices of the watched set have arrived, the page holds prices of
\* that set only, however late the answers of an earlier set come.
PricesAreWatched ==
  ui.part = "market" /\ ui.loaded = ui.gen =>
    \A m \in Markets : ui.snaps[m] # NoSnap => m \in ui.key

\* A price shown for a market is a price of that market, whatever else the
\* provider lists before it.
QuoteIsOfMarket ==
  ui.part = "market" =>
    \A m \in Markets : ui.snaps[m] # NoSnap => \E l \in Levels : ui.snaps[m].mark = Price(m, l)

\* A trade closed by its stop lost and one closed by its target won, from the
\* scout's side and distances to the profit written at the exit.
StopLosesTargetWins ==
  ui.part = "market" =>
    \A i \in DOMAIN disk.trades :
      /\ disk.trades[i].why = "take_profit" => disk.trades[i].pnl > 0
      /\ disk.trades[i].why = "stop_loss" => disk.trades[i].pnl < 0

allowedSomewhere(d) ==
  LET s == IF inTime(d.session) THEN d.session ELSE NoSession
      preferred == IF d.playbook # {} THEN d.playbook ELSE d.policy.rules.markets
  IN preferred \cap intersectOrPolicy(d.policy, s) # {}

\* While trading is on and some market of the playbook is allowed, the scout
\* offers an idea the rules do not block.
ScoutFindsAllowed ==
  ui.part = "market" /\ disk.active /\ ~disk.policy.paused
    /\ Cardinality(openTrades(disk)) < MaxTrades /\ allowedSomewhere(disk)
    => scoutReport(disk, ui).status # "blocked"

\* What the scout's card announced is what pressing its button did: "ready"
\* opened a trade and "needs approval" opened none.
ScoutKeepsItsWord == ghost.told = ghost.did

\* An answer of the live provider counts news as covered only if a feed was
\* ever connected.
ConnectedMeansFed ==
  ui.part = "market" =>
    \A m \in Markets : ui.intel[m].from = "live" /\ ui.intel[m].news => ghost.fed

executedWith(st, a) ==
  /\ st.prop.st = "executed" /\ st.prop.kind = a.kind /\ st.prop.order = a.order
  /\ Cardinality(st.prop.votes) >= st.prop.signed

\* An authority is given for an order only if the chain executed a proposal
\* for exactly that order with the approvals it was signed for.
AuthorityIsTrue ==
  ui.part = "authority" =>
    \A a \in ui.given : \E k \in DOMAIN remote : executedWith(remote[k], a)

\* The threshold an authority reports is the one its approvers signed under,
\* even if the rule was changed since.
ThresholdIsSigned ==
  ui.part = "authority" =>
    \A a \in ui.given : a.threshold = remote[1].prop.signed

\* The session an authority for a trade reports has that trade counted.
SessionCountsTrade ==
  ui.part = "authority" => \A a \in ui.given : a.kind = "trade" => a.session.spent > 0
=============================================================================
