------------------------------- MODULE Exchange -------------------------------
(***************************************************************************)
(* The pages on which money enters and leaves a wallet: buying with a bank *)
(* payment, selling to a bank account, and the swap page with the solver   *)
(* behind it (apps/web).                                                   *)
(*                                                                         *)
(* Buying and selling make an intent at the settlement service and follow  *)
(* it by asking for its status.  Nothing of an intent is kept in the       *)
(* browser: a page that is left forgets it.                                *)
(*                                                                         *)
(*   disk    the saved swap drafts                                         *)
(*   remote  intents, solver reservations and fills, notifications         *)
(*   calls   the requests of this tab that are under way                   *)
(*   ui      the mounted page: form, stage, last status, quote             *)
(*   ghost   history for the properties                                    *)
(***************************************************************************)
EXTENDS Integers, Sequences, FiniteSets

CONSTANTS MaxExchangeActs,   \* steps of the person: clicks, edits, pages opened
          MaxIntents, MaxReservations

VARIABLES disk, remote, calls, ui, ghost

vars == <<disk, remote, calls, ui, ghost>>

Ramps    == {"buy", "sell"}
Accounts == {1, 2}            \* complete bank account numbers
Amounts  == {-1, 0, 1, 2}     \* unreadable, nothing, ordinary, above the exact range
Swaps    == {1, 2, 3}         \* swap amounts; the dearest is above the cap
SwapCap  == 2
Stock    == 3                 \* what the solver holds of the asset received
DraftLimit == 16

Failing  == {"failed", "review"}
Statuses == {"open", "moving", "settled", "paying", "done"} \cup Failing
Stages   == {"compose", "submitting", "payable", "confirming", "following", "completed", "failed"}

NoIntent == [kind |-> "none", status |-> "open", acct |-> 0, named |-> 0, ref |-> FALSE,
             shown |-> FALSE, paid |-> FALSE]
NoQuote  == [id |-> 0, amt |-> 0, ready |-> FALSE]
NoExec   == [step |-> "none", quote |-> NoQuote, res |-> 0]
Fresh(p) == [page |-> p, acts |-> 0, mount |-> 0, stage |-> "compose", intent |-> 0, reason |-> "none",
             seen |-> "none", err |-> FALSE, acct |-> 0, amt |-> -1, named |-> 0, hash |-> FALSE,
             recorded |-> {}, quote |-> NoQuote, quotes |-> 0, draft |-> NoQuote, saving |-> FALSE,
             fill |-> 0]

-----------------------------------------------------------------------------
(* What the pages compute.                                                 *)

\* A typed amount is never rounded: one that cannot be kept exactly has no
\* value in the smallest unit.
wholeToMinor(a) == IF a = -1 THEN -1 ELSE a
MaxExact == 1
exactAmount(a) == wholeToMinor(a) > 0 /\ wholeToMinor(a) <= MaxExact

bankReady(u) == u.acct \in Accounts /\ u.named # 0

canSubmit(u) ==
  /\ u.stage = "compose" /\ exactAmount(u.amt)
  /\ u.page = "sell" => bankReady(u)

\* The statuses that end a purchase or a sale well, and those that show that it
\* is under way.
Succeeded(p) == IF p = "buy" THEN {"settled", "done"} ELSE {"done"}
UnderWay(p)  == IF p = "buy" THEN {"moving"} ELSE {"settled", "paying"}

\* The status is asked for until it is final.
polls(u) == u.intent # 0 /\ u.seen \notin {"done"} \cup Failing

\* The stage follows the last status that was read, however late a reply of
\* the page's own requests moves it.
drive(u) ==
  CASE u.seen = "none" \/ u.err -> u
    [] u.seen \in Succeeded(u.page) -> [u EXCEPT !.stage = "completed"]
    [] u.seen \in Failing -> [u EXCEPT !.stage = "failed", !.reason = u.seen]
    [] u.seen \in UnderWay(u.page) -> [u EXCEPT !.stage = "following"]
    [] OTHER -> u

\* An outcome is reported once for a mounted page, a review never.
reports(u) ==
  /\ u.stage \in {"completed", "failed"} /\ ~(u.stage = "failed" /\ u.reason = "review")
  /\ <<u.intent, u.stage>> \notin u.recorded

\* A change of the stage or the status with all that follows in the same turn.
\* The report may not arrive; it is not repeated.
Settle(u, r) ==
  LET v == drive(u)
      out == <<v.intent, v.stage>>
  IN IF reports(v)
     THEN /\ ui' = [v EXCEPT !.recorded = @ \cup {out}]
          /\ remote' \in {r, [r EXCEPT !.told = @ \cup {out}]}
     ELSE ui' = v /\ remote' = r

-----------------------------------------------------------------------------
Init ==
  /\ \E p \in Ramps \cup {"swap"}, ika \in BOOLEAN :
       /\ p # "swap" => ~ika
       /\ ui = Fresh(p)
       /\ remote = [intents |-> [i \in 1..MaxIntents |-> NoIntent], made |-> 0, told |-> {},
                    res |-> [i \in 1..MaxReservations |-> [quote |-> NoQuote, st |-> "none", fills |-> 0]],
                    reserved |-> 0, ika |-> ika]
  /\ disk = <<>>
  /\ calls = [submits |-> {}, confirm |-> 0, lookups |-> {}, save |-> {}, exec |-> NoExec]
  /\ ghost = [left |-> {}, edited |-> FALSE]

Act == ui.acts < MaxExchangeActs
Acted(u) == [u EXCEPT !.acts = @ + 1]
OnRamp == ui.page \in Ramps

freshPage(p) == Fresh(p)

\* Leaving forgets the stage; replies of the page that was left change nothing.
Leave(p) ==
  /\ Act /\ p # ui.page
  /\ ui' = [freshPage(p) EXCEPT !.acts = ui.acts + 1, !.mount = ui.mount + 1, !.quotes = ui.quotes]
  /\ ghost' = [ghost EXCEPT !.left = @ \cup {i \in 1..MaxIntents : remote.intents[i].shown}
                                       \cup {s.intent : s \in calls.submits}]
  /\ calls' = [calls EXCEPT !.lookups = {}, !.confirm = 0, !.save = {}, !.exec = NoExec]
  /\ UNCHANGED <<disk, remote>>

EditAmount(a) ==
  /\ Act /\ OnRamp /\ ui.stage = "compose" /\ a # ui.amt
  /\ ui' = Acted([ui EXCEPT !.amt = a])
  /\ UNCHANGED <<disk, remote, calls, ghost>>

\* A changed account drops the holder's name and asks for the new one; the
\* request for the earlier account is no longer current.
EditAccount(a) ==
  /\ Act /\ ui.page = "sell" /\ ui.stage = "compose" /\ a # ui.acct
  /\ ui' = Acted([ui EXCEPT !.acct = a, !.named = 0])
  /\ calls' = [calls EXCEPT !.lookups = {[l EXCEPT !.current = FALSE] : l \in @} \cup
                                        {[acct |-> a, current |-> TRUE]}]
  /\ UNCHANGED <<disk, remote, ghost>>

\* Fault variant: a late answer for an earlier account is shown.
anyAnswer(l) == TRUE

isCurrent(l) == l.current

NameArrives(l) ==
  /\ l \in calls.lookups
  /\ calls' = [calls EXCEPT !.lookups = @ \ {l}]
  /\ \/ ui' = IF isCurrent(l) THEN [ui EXCEPT !.named = l.acct] ELSE ui
     \/ UNCHANGED ui
  /\ UNCHANGED <<disk, remote, ghost>>

-----------------------------------------------------------------------------
(* Buying and selling.                                                     *)

submitFree(u) == canSubmit(u) /\ {s \in calls.submits : s.mount = u.mount} = {}

handleSubmit ==
  /\ Act /\ OnRamp /\ submitFree(ui)
  /\ calls' = [calls EXCEPT !.submits = @ \cup
       {[mount |-> ui.mount, page |-> ui.page, step |-> "create", intent |-> 0, acct |-> ui.acct,
         named |-> ui.named, n |-> ui.acts]}]
  /\ ui' = Acted([ui EXCEPT !.stage = "submitting"])
  /\ UNCHANGED <<disk, remote, ghost>>

Mine(s) == s.mount = ui.mount

BackToForm(s) ==
  /\ calls' = [calls EXCEPT !.submits = @ \ {s}]
  /\ ui' = IF Mine(s) THEN [ui EXCEPT !.stage = "compose", !.intent = 0, !.seen = "none"] ELSE ui

\* Every submission has a key of its own, so what a lost reply left behind is
\* not found again.
createIntent(s) ==
  /\ s \in calls.submits /\ s.step = "create"
  /\ \/ /\ remote.made < MaxIntents
        /\ LET i == remote.made + 1
           IN /\ remote' = [remote EXCEPT !.made = i,
                  !.intents[i] = [NoIntent EXCEPT !.kind = s.page, !.acct = s.acct, !.named = s.named]]
              /\ \/ /\ calls' = [calls EXCEPT !.submits = (@ \ {s}) \cup
                                   {[s EXCEPT !.step = "prepare", !.intent = i]}]
                    /\ UNCHANGED ui
                 \/ BackToForm(s)
     \/ BackToForm(s) /\ UNCHANGED remote
  /\ UNCHANGED <<disk, ghost>>

referenced(page, ref) == page = "sell" => ref

\* A checkout is opened in a tab of its own even when the page was left; the
\* treasury's address is shown only on the page, and with its reference.
prepare(s, ref) ==
  /\ s \in calls.submits /\ s.step = "prepare"
  /\ \/ /\ referenced(s.page, ref)
        /\ calls' = [calls EXCEPT !.submits = @ \ {s}]
        /\ LET r == [remote EXCEPT !.intents[s.intent].ref = ref,
                       !.intents[s.intent].shown = s.page = "buy" \/ Mine(s)]
           IN IF Mine(s)
              THEN Settle([ui EXCEPT !.stage = "payable", !.intent = s.intent, !.seen = "none",
                                     !.err = FALSE, !.hash = FALSE], r)
              ELSE remote' = r /\ UNCHANGED ui
     \/ BackToForm(s) /\ UNCHANGED remote
  /\ ghost' = IF Mine(s) THEN ghost ELSE [ghost EXCEPT !.left = @ \cup {s.intent}]
  /\ UNCHANGED disk

\* The person pays the checkout, or sends the deposit.
Pay(i) ==
  /\ remote.intents[i].shown /\ ~remote.intents[i].paid
  /\ remote' = [remote EXCEPT !.intents[i].paid = TRUE]
  /\ UNCHANGED <<disk, calls, ui, ghost>>

TypeHash ==
  /\ Act /\ ui.page = "sell" /\ ui.stage = "payable" /\ ~ui.hash
  /\ ui' = Acted([ui EXCEPT !.hash = TRUE])
  /\ UNCHANGED <<disk, remote, calls, ghost>>

handleConfirmTx ==
  /\ Act /\ ui.page = "sell" /\ ui.stage = "payable" /\ ui.hash /\ ~ui.err /\ calls.confirm = 0
  /\ calls' = [calls EXCEPT !.confirm = ui.intent]
  /\ Settle(Acted([ui EXCEPT !.stage = "confirming"]), remote)
  /\ UNCHANGED <<disk, ghost>>

\* The service takes a deposit it can see; otherwise, or when the reply is
\* lost, the page goes back to asking for the hash.
confirmReply ==
  /\ calls.confirm # 0
  /\ calls' = [calls EXCEPT !.confirm = 0]
  /\ LET i == calls.confirm
         x == remote.intents[i]
         took == [remote EXCEPT !.intents[i].status = IF x.status = "open" THEN "moving" ELSE @]
     IN \/ x.paid /\ Settle([ui EXCEPT !.stage = "following"], took)
        \/ x.paid /\ Settle([ui EXCEPT !.stage = "payable"], took)
        \/ Settle([ui EXCEPT !.stage = "payable"], remote)
  /\ UNCHANGED <<disk, ghost>>

\* The service moves an intent on.  An unpaid one can only end; a review is
\* resolved either way.
serviceSteps(x) ==
  CASE x.status = "open"    -> {"failed"} \cup (IF x.paid /\ x.kind = "buy" THEN {"moving", "review"} ELSE {})
    [] x.status = "moving"  -> {"settled", "failed", "review"}
    [] x.status = "settled" -> IF x.kind = "sell" THEN {"paying"} ELSE {}
    [] x.status = "paying"  -> {"done", "review"}
    [] x.status = "review"  -> {IF x.kind = "buy" THEN "settled" ELSE "done", "failed"}
    [] OTHER -> {}

ServiceMoves(i, st) ==
  /\ remote.intents[i].kind # "none" /\ st \in serviceSteps(remote.intents[i])
  /\ remote' = [remote EXCEPT !.intents[i].status = st]
  /\ UNCHANGED <<disk, calls, ui, ghost>>

\* A poll, or the refresh button of a notice; one that fails keeps the last
\* status and shows that it is not known.
getIntent ==
  /\ OnRamp /\ ui.intent # 0 /\ ui.stage \notin {"compose", "submitting"}
  /\ polls(ui) \/ ui.err \/ ui.stage = "failed"
  /\ \/ Settle([ui EXCEPT !.seen = remote.intents[ui.intent].status, !.err = FALSE], remote)
     \/ ui' = [ui EXCEPT !.err = TRUE] /\ UNCHANGED remote
  /\ UNCHANGED <<disk, calls, ghost>>

-----------------------------------------------------------------------------
(* The swap page and its solver.                                           *)

policyAllows(q) == q.amt <= SwapCap /\ q.ready
quoteIsExecutable(q) == q # NoQuote /\ policyAllows(q)

\* Every edit makes a new quote and drops what belonged to the earlier one.
buildSwapQuote(u, q) == [u EXCEPT !.quote = q, !.quotes = q.id, !.draft = NoQuote, !.fill = 0]

EditSwap(a, ready) ==
  /\ Act /\ ui.page = "swap"
  /\ ui' = Acted(buildSwapQuote(ui, [id |-> ui.quotes + 1, amt |-> a, ready |-> ready]))
  /\ ghost' = [ghost EXCEPT !.edited = @ \/ calls.save # {}]
  /\ UNCHANGED <<disk, remote, calls>>

loading == calls.save # {} \/ calls.exec.step # "none"

saveDraft ==
  /\ Act /\ ui.page = "swap" /\ quoteIsExecutable(ui.quote) /\ ui.draft = NoQuote /\ ~loading
  /\ calls' = [calls EXCEPT !.save = {ui.quote}]
  /\ ui' = Acted(ui)
  /\ UNCHANGED <<disk, remote, ghost>>

\* The server prices the quote again under its own rules; the reply is stored
\* and shown whatever the form holds by then.
storeSwapDraft(d, q) ==
  LET rest == SelectSeq(d, LAMBDA x : x.id # q.id)
      all == <<q>> \o rest
  IN SubSeq(all, 1, IF Len(all) < DraftLimit THEN Len(all) ELSE DraftLimit)

DraftArrives ==
  /\ \E q \in calls.save :
       \/ disk' = storeSwapDraft(disk, q) /\ ui' = [ui EXCEPT !.draft = q]
       \/ UNCHANGED <<disk, ui>>
  /\ calls' = [calls EXCEPT !.save = {}]
  /\ UNCHANGED <<remote, ghost>>

checkExecution ==
  /\ Act /\ ui.page = "swap" /\ quoteIsExecutable(ui.quote) /\ ui.draft # NoQuote /\ ~loading
  /\ calls' = [calls EXCEPT !.exec = [step |-> "reserve", quote |-> ui.draft, res |-> 0]]
  /\ ui' = Acted(ui)
  /\ UNCHANGED <<disk, remote, ghost>>

\* The solver compares with its whole stock: earlier reservations are not
\* counted.
solverAccepts(q) == policyAllows(q) /\ q.amt <= Stock

solverReserve ==
  LET x == calls.exec
      i == remote.reserved + 1
  IN /\ x.step = "reserve"
     /\ \/ /\ solverAccepts(x.quote) /\ i <= MaxReservations
           /\ remote' = [remote EXCEPT !.reserved = i,
                           !.res[i] = [quote |-> x.quote, st |-> "reserved", fills |-> 0]]
           /\ calls' = [calls EXCEPT !.exec = [x EXCEPT !.step = "fill", !.res = i]]
        \/ UNCHANGED remote /\ calls' = [calls EXCEPT !.exec = NoExec]
     /\ UNCHANGED <<disk, ui, ghost>>

Expire(i) ==
  /\ remote.res[i].st = "reserved"
  /\ remote' = [remote EXCEPT !.res[i].st = "late"]
  /\ UNCHANGED <<disk, calls, ui, ghost>>

\* Whatever the reply, the next attempt begins with a reservation of its own.
endExecution(x, lost) == NoExec

\* A reservation that is past its time is marked and refused.
solverFill(lost) ==
  LET x == calls.exec
      r == remote.res[x.res]
  IN /\ x.step = "fill"
     /\ IF r.st = "late"
        THEN remote' = [remote EXCEPT !.res[x.res].st = "expired"] /\ UNCHANGED ui
        ELSE /\ remote' = [remote EXCEPT !.res[x.res].st = IF remote.ika THEN "reserved" ELSE "blocked",
                                         !.res[x.res].fills = @ + 1]
             /\ ui' = IF lost THEN ui ELSE [ui EXCEPT !.fill = x.res]
     /\ calls' = [calls EXCEPT !.exec = endExecution(x, lost)]
     /\ UNCHANGED <<disk, ghost>>

-----------------------------------------------------------------------------
Ramp ==
  \/ \E a \in Amounts : EditAmount(a)
  \/ \E a \in Accounts : EditAccount(a)
  \/ \E l \in calls.lookups : NameArrives(l)
  \/ handleSubmit
  \/ \E s \in calls.submits : createIntent(s) \/ \E ref \in BOOLEAN : prepare(s, ref)
  \/ \E i \in 1..MaxIntents : Pay(i) \/ \E st \in Statuses : ServiceMoves(i, st)
  \/ TypeHash \/ handleConfirmTx \/ confirmReply \/ getIntent

Solver ==
  \/ \E a \in Swaps, ready \in BOOLEAN : EditSwap(a, ready)
  \/ saveDraft \/ DraftArrives \/ checkExecution \/ solverReserve
  \/ \E lost \in BOOLEAN : solverFill(lost)
  \/ \E i \in 1..MaxReservations : Expire(i)

Next == Ramp \/ Solver \/ \E p \in Ramps \cup {"swap"} : Leave(p)

Spec == Init /\ [][Next]_vars

-----------------------------------------------------------------------------
(* Properties.                                                             *)

TypeOK ==
  /\ ui.page \in Ramps \cup {"swap"} /\ ui.stage \in Stages /\ ui.acts \in 0..MaxExchangeActs
  /\ ui.intent \in 0..MaxIntents /\ ui.named \in {0} \cup Accounts
  /\ ui.stage \in {"payable", "confirming", "following", "completed", "failed"} => ui.intent # 0
  /\ \A i \in 1..MaxIntents : remote.intents[i].status \in Statuses
  /\ Len(disk) <= DraftLimit

\* A page says that a purchase or a sale is complete only when the service has
\* delivered: crypto for a purchase, the bank payout for a sale, also when
\* replies of the page's own requests come in after the status.
CompletedIsTrue ==
  ui.stage = "completed" => remote.intents[ui.intent].status \in Succeeded(ui.page)

\* However its requests fail, a page has asked for at most the payment it is
\* following: every other checkout or deposit belongs to a page that was left,
\* and no deposit is asked for without the reference that identifies it
\* (sell/page.tsx: "Do not send funds").
FollowsWhatIsPayable ==
  \A i \in 1..MaxIntents :
    remote.intents[i].shown =>
      /\ i = ui.intent \/ i \in ghost.left
      /\ remote.intents[i].kind = "sell" => remote.intents[i].ref

\* The account a sale is paid to is the one whose holder's name was on screen
\* when it was submitted.
PaidToNamedAccount ==
  \A i \in 1..MaxIntents :
    remote.intents[i].kind = "sell" => remote.intents[i].acct = remote.intents[i].named

\* An intent is reported with one outcome at most, and with the right one.
OutcomesTrue ==
  \A t \in remote.told :
    LET x == remote.intents[t[1]]
    IN IF t[2] = "completed" THEN x.status \in Succeeded(x.kind) ELSE x.status = "failed"

\* The draft that the swap button would execute is the quote on screen, unless
\* the form was edited while the draft was being saved.
SwapsWhatIsShown ==
  ui.draft = NoQuote \/ ui.draft = ui.quote \/ ghost.edited

\* A reservation is filled at most once, and never for more than the cap, even
\* when replies are lost and the swap is tried again.
FilledOnce ==
  \A i \in 1..MaxReservations :
    /\ remote.res[i].fills <= 1
    /\ remote.res[i].fills > 0 => remote.res[i].quote.amt <= SwapCap

\* The solver's reservations are covered by what it holds (solverService.ts:
\* "Solver reserved liquidity").
ReservationsCovered ==
  LET held == {i \in 1..MaxReservations : remote.res[i].st \in {"reserved", "blocked"}}
      amt(i) == remote.res[i].quote.amt
  IN \A i, j \in held : i # j => amt(i) + amt(j) <= Stock
===============================================================================
