---------------------------- MODULE VenueOrders ----------------------------
(***************************************************************************)
(* The trade requests an agent's wallet hands to a trading venue, and the  *)
(* page that sets the venue up (apps/web/src/lib/agents, the routes        *)
(* api/agent-execution and api/agent-settlement, and                       *)
(* wallet/[name]/agents/hyperliquid).                                      *)
(*                                                                         *)
(* The server keeps one list of request records per agent and changes it   *)
(* by reading the whole list and writing it back, with nothing held in     *)
(* between.  No order leaves the server: the execution gate is closed, but *)
(* records of orders sent before that are still in the list, and a close   *)
(* claimed for one of them is checked against the venue's own fills.       *)
(*                                                                         *)
(*   disk    the venue settings saved in the browser                       *)
(*   remote  the record list, trade ideas, approvals, the venue            *)
(*   calls   route handlers and readiness questions under way              *)
(*   ui      the setup page                                                *)
(*   ghost   history for the properties                                    *)
(***************************************************************************)
EXTENDS Integers, Sequences, FiniteSets, SequencesExt, FiniteSetsExt

CONSTANTS MaxOrderActs,        \* steps of people and of the venue in one behaviour
          MaxSetupActs,        \* the same on the setup page
          MaxOrderCalls,       \* handlers under way at a time
          MaxRecordsPerAgent,  \* length of the list (50 in the code)
          MaxFillAttempts      \* questions for the fills of a close (5 in the code)

VARIABLES disk, remote, calls, ui, ghost

vars == <<disk, remote, calls, ui, ghost>>

Ideas  == {1, 2, 3}           \* trade ideas; an idea names its market
Outside == {1, 2}             \* those of the outside venue; 3 is a practice trade
Addresses == {1, 2}           \* public addresses on the venue; 0 is an empty field
Configs == {"missing", "ok"}     \* a setting missing or invalid, or all in place
RecordStatuses == {"waiting_for_setup", "adapter_not_connected", "adapter_error", "submitted", "rejected"}
IdeaStatuses == {"draft", "needs_approval", "approved", "executed", "rejected", "blocked"}
SignerStatuses == {"not_started", "active", "rotation_required", "revoked"}

\* Fills the venue made: two of the closing order, one of another order.
Fills == {1, 2, 3}
OfClose == {1, 2}
FillSize == [f \in Fills |-> 1]
FillPnl  == [f \in Fills |-> IF f = 1 THEN 2 ELSE -1]
OriginalSize == 2             \* of the closing order

NoClaim == [size |-> 0, pnl |-> 0]
Claims  == {[size |-> 2, pnl |-> 1], [size |-> 1, pnl |-> 2]}
Record(id, p, st, art) == [id |-> id, p |-> p, status |-> st, art |-> art, claim |-> NoClaim, ev |-> {}]
Records == [id : 0..(MaxOrderActs + 1), p : Ideas, status : RecordStatuses, art : BOOLEAN,
            claim : Claims \cup {NoClaim}, ev : SUBSET Fills]

-----------------------------------------------------------------------------
(* What the server decides.                                                *)

\* No venue may be submitted to: practice venues live in the browser, and
\* a configured outside venue still waits for its authorization.
serverAgentExecutionReadiness(p, config) ==
  IF p \notin Outside THEN "local_only"
  ELSE IF config # "ok" THEN "not_configured" ELSE "authorization_required"

statusForReadiness(state) ==
  CASE state = "not_configured" -> "waiting_for_setup"
    [] state = "ready" -> "adapter_not_connected"
    [] OTHER -> "rejected"

\* An idea may be handed over when it is approved under the rules in force
\* and still passes them.
validateAgentServerExecutionHandoff(p) ==
  remote.idea[p] = "approved" /\ remote.ruled /\ ~remote.paused

\* The status a request is recorded with.
outcome(p) ==
  IF p \notin remote.signed \/ ~validateAgentServerExecutionHandoff(p) THEN "rejected"
  ELSE statusForReadiness(serverAgentExecutionReadiness(p, remote.config))

isRetryable(status) == status # "submitted"

indexOf(recs, p) == {i \in 1..Len(recs) : recs[i].p = p}

\* Fault variant: a submitted record is replaced like any other.
replaceAny(recs, rec) ==
  LET same == indexOf(recs, rec.p)
  IN IF same # {} THEN [i \in 1..Len(recs) |-> IF i \in same THEN rec ELSE recs[i]]
     ELSE SubSeq(<<rec>> \o recs, 1, Min({MaxRecordsPerAgent, Len(recs) + 1}))
\* A request keeps one record.  One that was submitted, or that ends as it
\* did before, stays as it is; another is replaced where it stands; a new
\* one goes first and the oldest beyond the limit are dropped.
recordAgentServerExecutionRequest(recs, rec) ==
  LET same == indexOf(recs, rec.p)
  IN IF same # {}
     THEN LET i == CHOOSE k \in same : \A j \in same : k <= j
          IN IF ~isRetryable(recs[i].status) \/ recs[i].status = rec.status THEN recs
             ELSE [recs EXCEPT ![i] = rec]
     ELSE SubSeq(<<rec>> \o recs, 1, Min({MaxRecordsPerAgent, Len(recs) + 1}))

-----------------------------------------------------------------------------
(* A claimed close against the venue's answers.                            *)

\* One answer on fills: the fills listed, one of them twice, or a page cut
\* off at the venue's limit.
FillAnswers == [fills : SUBSET Fills, twice : BOOLEAN, cut : BOOLEAN]

matchingFills(a) == a.fills \cap OfClose
sumOver(S, f) == MapThenSumSet(LAMBDA x : f[x], S)

orderConfirmed(order) == order.filled /\ order.reduceOnly

\* The fills of the order are listed once each, add up to the whole order,
\* and the claim says what they say.
fillsCover(a, claim) ==
  /\ ~a.twice /\ ~a.cut
  /\ sumOver(matchingFills(a), FillSize) = OriginalSize
  /\ claim = [size |-> sumOver(matchingFills(a), FillSize), pnl |-> sumOver(matchingFills(a), FillPnl)]

\* Asked again only while no fill of the order is listed.
asksAgain(a, n) == ~a.twice /\ ~a.cut /\ matchingFills(a) = {} /\ n < MaxFillAttempts

\* A verified close is stored on its record, unless the record is gone, says
\* something else was closed, or already has this evidence.
recordAgentServerExecutionSettlement(recs, id, claim, ev) ==
  LET hit == {i \in 1..Len(recs) : recs[i].id = id}
  IN IF hit = {} THEN recs
     ELSE LET i == CHOOSE k \in hit : TRUE
          IN IF recs[i].claim # NoClaim /\ (recs[i].claim # claim \/ recs[i].ev = ev) THEN recs
             ELSE [recs EXCEPT ![i].claim = claim, ![i].ev = ev]

-----------------------------------------------------------------------------
(* What pages make of records and the account's positions.                 *)

recordOf(recs, p) == LET s == indexOf(recs, p) IN IF s = {} THEN "none" ELSE recs[Min(s)].status

\* The summary of an agent's requests against the account: blocked by a
\* venue that cannot be read or a failed order, a warning for a missing
\* account, an open position nobody submitted or a refused request.
buildAgentVenueReconciliationSummary(recs, seen) ==
  LET sub == {recs[i].p : i \in {k \in 1..Len(recs) : recs[k].status = "submitted"}}
      has(st) == \E i \in 1..Len(recs) : recs[i].status = st
      open == IF seen = "ok" THEN remote.positions ELSE {}
  IN IF seen = "unavailable" \/ has("adapter_error") THEN "blocked"
     ELSE IF seen = "missing" \/ open \ sub # {} \/ has("rejected") THEN "warning"
     ELSE "healthy"

policyStep(status) == CASE status = "blocked" -> "blocked" [] status = "draft" -> "current" [] OTHER -> "done"

approvalStep(status) ==
  CASE status = "needs_approval" -> "current" [] status = "rejected" -> "blocked"
    [] status \in {"approved", "executed"} -> "done" [] OTHER -> "waiting"

\* A practice execution outranks the venue's record; an idea marked opened
\* with neither is a warning.
executionStep(status, exec, req) ==
  CASE exec # "none" \/ req = "submitted" -> "done"
    [] req \in {"adapter_error", "rejected"} -> "blocked"
    [] req \in {"waiting_for_setup", "adapter_not_connected"} -> "current"
    [] status = "executed" -> "warning"
    [] status = "approved" -> "current"
    [] OTHER -> "waiting"

requestMatchesOpenPosition(p, req, seen) == req = "submitted" /\ seen = "ok" /\ p \in remote.positions

venueStep(p, status, req, seen) ==
  CASE req = "none" -> IF status = "approved" THEN "current" ELSE "waiting"
    [] req # "submitted" -> IF req = "adapter_error" THEN "blocked" ELSE "waiting"
    [] seen # "ok" -> "current"
    [] requestMatchesOpenPosition(p, req, seen) -> "done"
    [] OTHER -> "warning"

\* One word for a trade: what blocks it first, then what needs a look, then
\* how far it is.
buildAgentTradeLifecycle(p, status, exec, req, seen) ==
  LET steps == {policyStep(status), approvalStep(status), executionStep(status, exec, req)}
               \cup (IF p \in Outside THEN {venueStep(p, status, req, seen)} ELSE {})
  IN CASE "blocked" \in steps -> "blocked"
       [] "warning" \in steps -> "warning"
       [] exec # "none" -> exec
       [] requestMatchesOpenPosition(p, req, seen) -> "open"
       [] req = "submitted" -> "submitted"
       [] status \in {"approved", "executed"} -> "approved"
       [] OTHER -> status

\* The headline over a set of trades: the worst first.
summarizeAgentTradeLifecycles(S) ==
  CASE S = {} -> "No decisions"
    [] "blocked" \in S -> "Blocked"
    [] "warning" \in S -> "Needs review"
    [] "needs_approval" \in S -> "Approval needed"
    [] S \cap {"open", "submitted"} # {} -> "Trading"
    [] OTHER -> "Clear"

-----------------------------------------------------------------------------
(* The setup page.                                                         *)

NoSettings == [acct |-> 0, signer |-> 0, status |-> "not_started"]

savable(a, s) == a # 0 /\ s # 0 => a # s

\* Saving the addresses: a new signer counts as approved, the same one keeps
\* its standing.
saveAgentHyperliquidSetupSettings(old, a, s) ==
  [acct |-> a, signer |-> s,
   status |-> CASE s = 0 -> "not_started" [] s # old.signer -> "active" [] OTHER -> old.status]

\* What an answer says of the account asked about: no account, unreachable,
\* reachable with or without funds.
AccountStates == {"missing", "unavailable", "empty", "funded"}
accountAnswers(a) == IF a = 0 THEN {"missing"} ELSE {"unavailable", "empty", "funded"}
NoReadiness == [acct |-> 0, state |-> "missing", venue |-> "none", executor |-> 0]
readinessOf(a, st) == [acct |-> a, state |-> st, executor |-> 0,
                       venue |-> serverAgentExecutionReadiness(1, remote.config)]

\* The four steps of the page.  The signer counts only when the server's
\* executor reports the same one; the route reports no executor.
buildAgentHyperliquidSetupSummary(r, s) ==
  LET connected == r.venue = "ready" /\ r.executor # 0
      mismatch  == s.signer # 0 /\ r.executor # 0 /\ s.signer # r.executor
  IN [account |-> IF r.acct # 0 THEN "ready" ELSE "todo",
      funding |-> CASE r.state = "funded" -> "ready" [] r.acct # 0 -> "todo" [] OTHER -> "blocked",
      signer  |-> CASE connected /\ s.signer = r.executor /\ s.status = "active" -> "ready"
                    [] mismatch \/ s.status \in {"revoked", "rotation_required"} -> "blocked"
                    [] r.acct # 0 -> "todo" [] OTHER -> "blocked",
      connection |-> CASE connected -> "ready" [] r.venue = "not_configured" -> "blocked" [] OTHER -> "todo"]

\* The account whose figures the page shows.
accountShown == IF ui.seen.acct # 0 THEN ui.seen.acct ELSE ui.set.acct

-----------------------------------------------------------------------------
\* Older records: none, an order, an order with a claimed close.
\* 0 in the signed targets is the approval to close that order.
FirstRecords == {<<>>, <<Record(0, 1, "submitted", TRUE)>>}
                \cup {<<[Record(0, 1, "submitted", TRUE) EXCEPT !.claim = c]>> : c \in Claims}

CallOf(id, k, p, at) == [id |-> id, kind |-> k, p |-> p, at |-> at, status |-> "none", base |-> <<>>,
                         claim |-> NoClaim, ev |-> {}, n |-> 0, acct |-> 0, epoch |-> 0]

Init ==
  /\ disk = NoSettings
  /\ \E recs \in FirstRecords, cfg \in Configs, sg \in {{}, Ideas \cup {0}}, ro \in BOOLEAN :
       remote = [recs |-> recs, idea |-> [p \in Ideas |-> IF p = 2 THEN "needs_approval" ELSE "approved"],
                 ruled |-> TRUE, paused |-> FALSE, signed |-> sg, config |-> cfg, positions |-> {},
                 order |-> [filled |-> FALSE, reduceOnly |-> ro]]
  /\ \E pg \in {"setup", "trades"} :
       /\ pg = "setup" => remote.recs = <<>> /\ remote.signed = {} /\ ~remote.order.reduceOnly
       /\ ui = [page |-> pg, acts |-> 0, set |-> NoSettings, epoch |-> 1,
                seen |-> NoReadiness, from |-> "none", checking |-> pg = "setup"]
       /\ calls = IF pg = "setup" THEN {CallOf(0, "check", 1, "ask")} ELSE {}
  /\ ghost = [overlap |-> FALSE, answered |-> {}]

Act == ui.acts < IF ui.page = "setup" THEN MaxSetupActs ELSE MaxOrderActs
Count == ui' = [ui EXCEPT !.acts = @ + 1]
Trading == ui.page = "trades"

Start(c) ==
  /\ Act /\ Cardinality(calls) < MaxOrderCalls
  /\ calls' = calls \cup {c}
  /\ ghost' = [ghost EXCEPT !.overlap = @ \/ calls # {}]
Step(c, d) == calls' = (calls \ {c}) \cup {d}
End(c) == calls' = calls \ {c}

-----------------------------------------------------------------------------
(* The owner, the rules and the venue.                                     *)

ideaSteps == [draft |-> {"needs_approval"}, needs_approval |-> {"approved", "rejected", "blocked"},
              approved |-> {"executed", "rejected"}, executed |-> {}, rejected |-> {}, blocked |-> {}]
MoveIdea(p) ==
  /\ Trading /\ Act /\ Count
  /\ \E s \in ideaSteps[remote.idea[p]] : remote' = [remote EXCEPT !.idea[p] = s]
  /\ UNCHANGED <<disk, calls, ghost>>

ChangeRules ==
  /\ Trading /\ Act /\ ~remote.paused /\ Count
  /\ \/ remote' = [remote EXCEPT !.ruled = FALSE]
     \/ remote' = [remote EXCEPT !.paused = TRUE]
  /\ UNCHANGED <<disk, calls, ghost>>

Deploy ==
  /\ Act /\ Count
  /\ \E cfg \in Configs \ {remote.config} : remote' = [remote EXCEPT !.config = cfg]
  /\ UNCHANGED <<disk, calls, ghost>>

VenueMoves ==
  /\ Trading /\ Act /\ Count
  /\ \/ remote' = [remote EXCEPT !.positions = SymDiff(@, {1})]
     \/ ~remote.order.filled /\ remote' = [remote EXCEPT !.order.filled = TRUE]
  /\ UNCHANGED <<disk, calls, ghost>>

-----------------------------------------------------------------------------
(* Handing an idea over: checks, then the list is read, then written.      *)

submitAgentVenueExecution(p) ==
  /\ Trading /\ Start(CallOf(ui.acts + 1, "post", p, "check")) /\ Count /\ UNCHANGED <<disk, remote>>

POST(c) ==
  /\ c.kind = "post" /\ c.at = "check"
  /\ Step(c, [c EXCEPT !.at = "read", !.status = outcome(c.p)])
  /\ UNCHANGED <<disk, remote, ui, ghost>>

redisGet(c) ==
  /\ c.at = "read" /\ Step(c, [c EXCEPT !.at = "write", !.base = remote.recs])
  /\ UNCHANGED <<disk, remote, ui, ghost>>

redisSet(c) ==
  /\ c.kind = "post" /\ c.at = "write" /\ End(c)
  /\ LET next == recordAgentServerExecutionRequest(c.base, Record(c.id, c.p, c.status, FALSE))
     IN remote' = [remote EXCEPT !.recs = IF next = c.base THEN @ ELSE next]
  /\ ghost' = [ghost EXCEPT !.answered = @ \cup {c.p}]
  /\ UNCHANGED <<disk, ui>>

\* The store does not answer, or the server ends, between the two.
StoreFails(c) ==
  /\ c.at = "write" /\ End(c) /\ UNCHANGED <<disk, remote, ui, ghost>>

-----------------------------------------------------------------------------
(* Closing an order that was sent before.                                  *)

settleAgentVenueExecution(id) ==
  /\ Trading /\ Start(CallOf(id, "settle", 1, "check")) /\ Count /\ UNCHANGED <<disk, remote>>

\* Only a submitted order with a stored claim gets further: a new close
\* would have to pass the execution gate, which is shut.
settleable(r) == r.status = "submitted" /\ r.art /\ r.claim # NoClaim

SettlePOST(c) ==
  /\ c.kind = "settle" /\ c.at = "check"
  /\ LET hit == {i \in 1..Len(remote.recs) : remote.recs[i].id = c.id /\ settleable(remote.recs[i])}
     IN IF 0 \notin remote.signed \/ hit = {} \/ remote.config # "ok"
        THEN End(c)
        ELSE Step(c, [c EXCEPT !.at = "order", !.claim = remote.recs[CHOOSE i \in hit : TRUE].claim])
  /\ UNCHANGED <<disk, remote, ui, ghost>>

OrderStatus(c) ==
  /\ c.at = "order"
  /\ \/ orderConfirmed(remote.order) /\ Step(c, [c EXCEPT !.at = "fills", !.n = 1])
     \/ End(c)
  /\ UNCHANGED <<disk, remote, ui, ghost>>

verifyHyperliquidTestnetSettlementEvidence(c) ==
  /\ c.at = "fills"
  /\ \E a \in FillAnswers :
       CASE asksAgain(a, c.n) -> Step(c, [c EXCEPT !.n = @ + 1])
         [] fillsCover(a, c.claim) -> Step(c, [c EXCEPT !.at = "read", !.ev = matchingFills(a)])
         [] OTHER -> End(c)
  /\ UNCHANGED <<disk, remote, ui, ghost>>

SettleSet(c) ==
  /\ c.kind = "settle" /\ c.at = "write" /\ End(c)
  /\ LET next == recordAgentServerExecutionSettlement(c.base, c.id, c.claim, c.ev)
     IN remote' = [remote EXCEPT !.recs = IF next = c.base THEN @ ELSE next]
  /\ UNCHANGED <<disk, ui, ghost>>

-----------------------------------------------------------------------------
(* The setup page: forms, questions and polling.                           *)

Setup == ui.page = "setup"

askFor(a) == calls' = calls \cup {[CallOf(ui.acts + 1, "check", 1, "ask") EXCEPT !.acct = a]}

checkReadiness ==
  /\ Setup /\ Act /\ ~ui.checking /\ Cardinality(calls) < MaxOrderCalls
  /\ askFor(ui.set.acct) /\ ui' = [ui EXCEPT !.acts = @ + 1, !.checking = TRUE]
  /\ UNCHANGED <<disk, remote, ghost>>

\* A changed account starts the polling anew, which drops earlier answers.
epochAfter(acct) == IF acct = ui.set.acct THEN ui.epoch ELSE ui.epoch + 1

saveAndCheck(a, s) ==
  /\ Setup /\ Act /\ ~ui.checking /\ savable(a, s) /\ Cardinality(calls) < MaxOrderCalls
  /\ LET saved == saveAgentHyperliquidSetupSettings(disk, a, s)
     IN /\ disk' = saved
        /\ ui' = [ui EXCEPT !.acts = @ + 1, !.set = saved, !.epoch = epochAfter(saved.acct), !.checking = TRUE]
        /\ askFor(saved.acct)
  /\ UNCHANGED <<remote, ghost>>

offered(s) == ui.set.signer # 0 /\ ui.set.status # s

setDelegationStatus(s) ==
  /\ Setup /\ Act /\ offered(s) /\ disk.signer # 0 /\ Cardinality(calls) < MaxOrderCalls
  /\ LET updated == [disk EXCEPT !.status = s]
     IN /\ disk' = updated
        /\ ui' = [ui EXCEPT !.acts = @ + 1, !.set = updated, !.epoch = epochAfter(updated.acct), !.checking = TRUE]
        /\ askFor(updated.acct)
  /\ UNCHANGED <<remote, ghost>>

\* Another tab of the wallet marks the signer or changes the addresses.
OtherTab ==
  /\ Setup /\ Act /\ Count
  /\ \/ \E s \in {"rotation_required", "revoked"} : disk.signer # 0 /\ disk' = [disk EXCEPT !.status = s]
     \/ \E a \in Addresses, s \in Addresses \cup {0} :
          savable(a, s) /\ disk' = saveAgentHyperliquidSetupSettings(disk, a, s)
  /\ UNCHANGED <<remote, calls, ghost>>

tick ==
  /\ Setup /\ Act /\ Cardinality(calls) < MaxOrderCalls /\ Count
  /\ calls' = calls \cup {[CallOf(ui.acts + 1, "poll", 1, "ask") EXCEPT !.acct = ui.set.acct, !.epoch = ui.epoch]}
  /\ UNCHANGED <<disk, remote, ghost>>

\* Fault variant: an answer of a stopped poll still counts.
everyAnswer(c) == TRUE
notCancelled(c) == c.epoch = ui.epoch

\* A question is answered, or fails; only a poll can be cancelled.
loadAgentVenueReadiness(c) ==
  /\ c.at = "ask" /\ End(c)
  /\ \E st \in accountAnswers(c.acct), fails \in BOOLEAN :
       LET r == IF fails THEN NoReadiness ELSE readinessOf(c.acct, st)
       IN IF c.kind = "check"
          THEN ui' = [ui EXCEPT !.seen = r, !.from = "check", !.checking = FALSE]
          ELSE IF notCancelled(c)
          THEN ui' = [ui EXCEPT !.seen = r, !.from = "poll", !.checking = FALSE]
          ELSE UNCHANGED ui
  /\ UNCHANGED <<disk, remote, ghost>>

-----------------------------------------------------------------------------
Next ==
  \/ \E p \in Ideas : MoveIdea(p) \/ submitAgentVenueExecution(p)
  \/ ChangeRules \/ Deploy \/ VenueMoves
  \/ settleAgentVenueExecution(0)
  \/ \E c \in calls :
       \/ POST(c) \/ redisGet(c) \/ redisSet(c) \/ StoreFails(c)
       \/ SettlePOST(c) \/ OrderStatus(c) \/ verifyHyperliquidTestnetSettlementEvidence(c) \/ SettleSet(c)
       \/ loadAgentVenueReadiness(c)
  \/ checkReadiness \/ OtherTab \/ tick
  \/ \E a, s \in Addresses \cup {0} : saveAndCheck(a, s)
  \/ \E s \in {"rotation_required", "revoked"} : setDelegationStatus(s)

Spec == Init /\ [][Next]_vars

-----------------------------------------------------------------------------
(* Type invariant.                                                         *)
TypeOK ==
  /\ disk \in [acct : Addresses \cup {0}, signer : Addresses \cup {0}, status : SignerStatuses]
  /\ disk.signer = 0 <=> disk.status = "not_started"
  /\ disk.signer # 0 => disk.signer # disk.acct
  /\ remote.recs \in Seq(Records) /\ Len(remote.recs) <= MaxRecordsPerAgent
  /\ remote.idea \in [Ideas -> IdeaStatuses] /\ remote.signed \subseteq Ideas \cup {0}
  /\ remote.config \in Configs /\ remote.positions \subseteq Outside
  /\ Cardinality(calls) <= MaxOrderCalls
  /\ ui.acts \in 0..Max({MaxOrderActs, MaxSetupActs}) /\ ui.set.status \in SignerStatuses
  /\ ui.seen.acct \in Addresses \cup {0} /\ ui.seen.state \in AccountStates

\* A trade idea has one record, however its requests overlap
\* (recordAgentServerExecutionRequest): a page never shows two outcomes.
OneRecordPerIdea == \A p \in Ideas : Cardinality(indexOf(remote.recs, p)) <= 1

\* The record of an order that was sent goes away only when the list is full:
\* no later refusal, retry or overlapping request takes its place.
SubmittedStays ==
     \A i \in 1..Len(remote.recs) :
       remote.recs[i].status = "submitted" =>
         \/ \E j \in 1..Len(remote.recs') : remote.recs'[j].id = remote.recs[i].id
                                           /\ remote.recs'[j].status = "submitted"
         \/ Len(remote.recs') = MaxRecordsPerAgent

\* While requests do not overlap, every idea that was handed over is in the
\* list until newer ones push it out.
AnsweredIsKept ==
  ~ghost.overlap => \A p \in ghost.answered :
                      indexOf(remote.recs, p) # {} \/ Len(remote.recs) = MaxRecordsPerAgent

\* A close stored with evidence was a filled, reduce-only order whose fills
\* were all listed, once each, and the claim says exactly what they add up
\* to (hyperliquidSettlementEvidence.ts).
SettledIsProven ==
  \A i \in 1..Len(remote.recs) :
    LET r == remote.recs[i]
    IN r.ev # {} => /\ r.ev = OfClose /\ remote.order = [filled |-> TRUE, reduceOnly |-> TRUE]
                    /\ r.claim = [size |-> OriginalSize, pnl |-> sumOver(OfClose, FillPnl)]

\* A signer marked revoked or for rotation, here or in another tab, does not
\* become active again while it is the saved signer.
SignerStays ==
     disk.signer # 0 /\ disk.signer' = disk.signer /\ disk.status \in {"revoked", "rotation_required"}
       => disk.status' # "active"

\* Once the page is no longer checking, and the last answer came from polling,
\* the account it shows figures of, and calls linked or funded, is the one it has
\* saved, whatever was saved while its question was under way
\* (startAgentVenueReadinessPolling, buildAgentHyperliquidSetupSummary).
PollIsCurrent ==
  LET steps == buildAgentHyperliquidSetupSummary(ui.seen, ui.set)
  IN ~ui.checking /\ ui.from = "poll" =>
       /\ accountShown = ui.set.acct
       /\ "ready" \in {steps.account, steps.funding} => ui.seen.acct = ui.set.acct

\* The two summaries of the same records agree: an agent whose requests are
\* reconciled is not summed up as blocked over its approved trades.
ReadModelsAgree ==
  \A seen \in {"ok", "missing", "unavailable"} :
    buildAgentVenueReconciliationSummary(remote.recs, seen) = "healthy" =>
      summarizeAgentTradeLifecycles(
        {buildAgentTradeLifecycle(p, remote.idea[p], "none", recordOf(remote.recs, p), seen) :
           p \in {q \in Ideas : remote.idea[q] \in {"approved", "executed"}}}) # "Blocked"
=============================================================================
