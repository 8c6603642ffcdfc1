-------------------------------- MODULE Sends --------------------------------
(***************************************************************************)
(* The send forms of the web application (apps/web/src/features/send): the *)
(* Solana, Ethereum, ERC-20, Bitcoin and Zcash pages and the batch page.   *)
(*                                                                         *)
(* One page is mounted.  A form is edited, names are resolved and balances *)
(* read by queries that answer late, contacts and rules are changed by     *)
(* other tabs, and one request at a time is checked, reviewed, signed and  *)
(* submitted.  How a submitted request is recovered, approved and executed *)
(* is the subject of Workflows; here a submission is refused, lost,        *)
(* accepted, left waiting or broadcast.                                    *)
(*                                                                         *)
(*   disk    what the browser stores: contacts, rules, the log of attempts *)
(*   remote  the chains and name services                                  *)
(*   calls   what is under way: queries, the single send, the batch run    *)
(*   ui      the mounted page                                              *)
(*   ghost   history for the properties                                    *)
(***************************************************************************)
EXTENDS Integers, Sequences, FiniteSets, FiniteSetsExt, SequencesExt

CONSTANTS MaxEdits,   \* changes of the form by the user
          MaxMoves,   \* changes of the world: names, money, rules, contacts
          MaxSends,   \* attempts to send
          MaxRows     \* MAX_BATCH_RECIPIENTS

VARIABLES disk, remote, calls, ui, ghost

vars == <<disk, remote, calls, ui, ghost>>

-----------------------------------------------------------------------------
(* Texts a user types: two addresses, two registered names, a contact.     *)

Addresses == {"A", "B"}
NameTexts == {"n", "m"}
Contact   == "c"
Nobody    == "nobody"
Texts     == Addresses \cup NameTexts \cup {Contact, ""}

Pages   == {"sol", "eth", "erc20", "btc", "zec"}
AllPages == Pages \cup {"batch"}

\* Amounts in base units; 0 stands for a text no parser accepts.
Amounts == 0..2
Fee     == 1     \* the reserve each page keeps for the network's fee

\* Sets of coins an address may hold (the pages that spend coins).
Purses == {{2}, {2, 3}, {4}}

NoForm == [to |-> "", amt |-> 0]
NoSend == [step |-> "none", text |-> "", to |-> Nobody, amt |-> 0, coin |-> 0,
           stale |-> FALSE]
NoRun  == [step |-> "none", rows |-> <<>>, cancelled |-> FALSE]

Init ==
  \E p \in AllPages, fresh \in BOOLEAN, bound \in BOOLEAN, known \in {Nobody, "A"} :
    /\ known # Nobody => p \in {"sol", "batch"}
    /\ ~bound => fresh /\ p \in Pages \ {"sol"}
    /\ disk = [contact |-> known, denied |-> FALSE, log |-> {}, saved |-> FALSE]
    /\ remote = [names |-> [n |-> "A", m |-> "B"], bal |-> 3, coins |-> {2, 3},
                 rule |-> ~fresh, txs |-> {}, batches |-> 0]
    /\ calls = [asking |-> {}, send |-> NoSend, run |-> NoRun, setup |-> "none"]
    /\ ui = [page |-> p, stage |-> "compose", form |-> NoForm,
             answers |-> [n |-> Nobody, m |-> Nobody],
             bal |-> -1, coins |-> {}, bound |-> bound, rule |-> ~fresh, label |-> NoForm,
             auto |-> fresh, started |-> FALSE, waiting |-> FALSE, error |-> FALSE,
             rows |-> <<NoForm>>, csv |-> <<>>, outcome |-> "none"]
    /\ ghost = [edits |-> 0, moves |-> 0, sends |-> 0, signed |-> {},
                was |-> [n |-> {"A"}, m |-> {"B"}], setups |-> 0,
                fresh |-> TRUE, landed |-> FALSE]

-----------------------------------------------------------------------------
(* Who a text stands for, page by page.                                    *)

looksLikeName(t) == t \in NameTexts

\* A contact's name wins over an address, an address over a registered name;
\* a name that is being asked for again is not resolved meanwhile.
solResolved(u, d, c) ==
  CASE u.form.to = Contact /\ d.contact # Nobody -> d.contact
    [] u.form.to \in Addresses -> u.form.to
    [] looksLikeName(u.form.to) /\ u.form.to \notin c.asking -> u.answers[u.form.to]
    [] OTHER -> Nobody

\* The last answer stands while the name is asked for again.
ethEffectiveRecipient(u) ==
  CASE u.form.to \in Addresses -> u.form.to
    [] looksLikeName(u.form.to) -> u.answers[u.form.to]
    [] OTHER -> Nobody

typedAddress(u) == IF u.form.to \in Addresses THEN u.form.to ELSE Nobody

Recipient(u, d, c) ==
  CASE u.page = "sol" -> solResolved(u, d, c)
    [] u.page = "eth" -> ethEffectiveRecipient(u)
    [] OTHER -> typedAddress(u)

-----------------------------------------------------------------------------
(* Coins.  Both selections take the smallest coin that pays for the amount *)
(* and the fee; Bitcoin returns the rest, Zcash cannot.                    *)

Covering(coins, need) == {c \in coins : c >= need}

selectBitcoinSendUtxo(coins, amt) ==
  IF amt = 0 \/ Covering(coins, amt + Fee) = {} THEN [coin |-> 0, change |-> 0]
  ELSE LET c == Min(Covering(coins, amt + Fee))
       IN [coin |-> c, change |-> c - (amt + Fee)]

selectZcashNoChangeUtxo(coins, amt) ==
  IF amt = 0 \/ Covering(coins, amt + Fee) = {} THEN [coin |-> 0, burns |-> FALSE]
  ELSE LET c == Min(Covering(coins, amt + Fee))
       IN [coin |-> c, burns |-> c - amt # Fee]

Coin(u) ==
  CASE u.page = "btc" -> selectBitcoinSendUtxo(u.coins, u.form.amt).coin
    [] u.page = "zec" -> selectZcashNoChangeUtxo(u.coins, u.form.amt).coin
    [] OTHER -> 0

-----------------------------------------------------------------------------
(* Whether the chain is turned on: a bound address on it, and a rule of    *)
(* the wallet for sending there.  Solana needs no binding.                 *)

SolRule(u)   == u.rule
EthRule(u)   == u.bound /\ u.rule
Erc20Rule(u) == u.bound /\ u.rule
BtcRule(u)   == u.bound /\ u.rule
ZecRule(u)   == u.bound /\ u.rule

-----------------------------------------------------------------------------
(* What each page demands before it offers the button.                     *)

insufficientBalance(u) ==
  u.bal # -1 /\ u.form.amt > 0
    /\ u.bal < u.form.amt + (IF u.page = "erc20" THEN 0 ELSE Fee)

SolCanSubmit(u, d, c) ==
  /\ u.form.amt > 0
  /\ solResolved(u, d, c) # Nobody
  /\ SolRule(u)
  /\ ~insufficientBalance(u)
  /\ ~d.denied

EthCanSubmit(u, d) ==
  /\ u.form.amt > 0
  /\ ethEffectiveRecipient(u) # Nobody
  /\ EthRule(u)
  /\ ~insufficientBalance(u)
  /\ ~d.denied

\* The token's decimals are known once its contract has answered.
Erc20CanSubmit(u, d) ==
  /\ u.bal # -1
  /\ u.form.amt > 0
  /\ typedAddress(u) # Nobody
  /\ Erc20Rule(u)
  /\ ~insufficientBalance(u)
  /\ ~d.denied

BtcCanSubmit(u, d) ==
  /\ BtcRule(u)
  /\ u.form.amt > 0
  /\ Coin(u) # 0
  /\ ~d.denied

ZecCanSubmit(u, d) ==
  /\ ZecRule(u)
  /\ u.form.amt > 0
  /\ typedAddress(u) # Nobody
  /\ selectZcashNoChangeUtxo(u.coins, u.form.amt).coin # 0
  /\ ~selectZcashNoChangeUtxo(u.coins, u.form.amt).burns
  /\ ~insufficientBalance(u)
  /\ ~d.denied

canSubmit(u, d, c) ==
  CASE u.page = "sol"   -> SolCanSubmit(u, d, c)
    [] u.page = "eth"   -> EthCanSubmit(u, d)
    [] u.page = "erc20" -> Erc20CanSubmit(u, d)
    [] u.page = "btc"   -> BtcCanSubmit(u, d)
    [] u.page = "zec"   -> ZecCanSubmit(u, d)
    [] OTHER            -> FALSE

-----------------------------------------------------------------------------
(* What each page shows.  A request left on disk replaces the form, and so *)
(* does a card where the wallet has not turned the chain on; the Bitcoin   *)
(* form stays editable while a request is under way.                       *)

sending == calls.send.step # "none"

RecoveryShown == disk.saved /\ ~sending /\ ~(ui.page = "sol" /\ ui.stage = "sent")

SolanaComposeStage == ui.page = "sol" /\ ui.stage = "compose"
EvmNativeComposeStage == ui.page = "eth" /\ ui.stage = "compose" /\ EthRule(ui)
Erc20ComposeStage == ui.page = "erc20" /\ ui.stage = "compose" /\ Erc20Rule(ui)
BtcComposeForm == ui.page = "btc" /\ BtcRule(ui) /\ ui.label = NoForm
ZcashCompose == ui.page = "zec" /\ ZecRule(ui) /\ ui.label = NoForm /\ ~sending

FormShown ==
  /\ ~RecoveryShown
  /\ \/ SolanaComposeStage
     \/ EvmNativeComposeStage
     \/ Erc20ComposeStage
     \/ BtcComposeForm
     \/ ZcashCompose

-----------------------------------------------------------------------------
(* A review is bound to what the form says; any change of it, and any      *)
(* change of the rules, makes the attempt under way stale.                 *)

ScopeOf(u, d, c) ==
  <<u.form, Recipient(u, d, c), u.rule,
    IF u.page \in {"btc", "zec"} THEN Coin(u) ELSE 0, d.denied>>

Rescoped(u, d, c) ==
  [c EXCEPT !.send.stale = @ \/ (sending /\ ScopeOf(u, d, c) # ScopeOf(ui, disk, calls))]

Change(u, d, c) ==
  /\ ui' = u
  /\ disk' = d
  /\ calls' = Rescoped(u, d, c)

-----------------------------------------------------------------------------
(* The user edits a single-payment form.                                   *)

Edited == /\ ghost.edits < MaxEdits
          /\ ghost' = [ghost EXCEPT !.edits = @ + 1]

setRecipient(t) ==
  /\ FormShown
  /\ t # ui.form.to
  /\ t = Contact => ui.page = "sol"
  /\ Edited
  /\ Change([ui EXCEPT !.form.to = t], disk, calls)
  /\ UNCHANGED remote

setAmount(a) ==
  /\ FormShown
  /\ a # ui.form.amt
  /\ ui.page = "erc20" => ui.bal # -1     \* the token's decimals are needed first
  /\ Edited
  /\ Change([ui EXCEPT !.form.amt = a], disk, calls)
  /\ UNCHANGED remote

\* The Max buttons: what the balance leaves after the reserve, the whole of a
\* token, the largest single coin after the fee.
SolMax   == ui.bal - Fee
EthMax   == ui.bal - Fee
Erc20Max == ui.bal
BtcMax   == IF ui.coins = {} THEN 0 ELSE Max(ui.coins) - Fee

useMax ==
  /\ FormShown
  /\ ui.page # "zec" /\ ui.bal > 0
  /\ LET most == CASE ui.page = "sol"   -> SolMax
                   [] ui.page = "eth"   -> EthMax
                   [] ui.page = "erc20" -> Erc20Max
                   [] OTHER             -> BtcMax
     IN /\ most > 0
        /\ most \in Amounts
        /\ Change([ui EXCEPT !.form.amt = most], disk, calls)
  /\ Edited
  /\ UNCHANGED remote

\* A pasted address is saved as a contact and replaced by the contact's name.
handleSaveNewContact ==
  /\ SolanaComposeStage /\ ~RecoveryShown
  /\ ui.form.to \in Addresses
  /\ disk.contact = Nobody
  /\ Edited
  /\ Change([ui EXCEPT !.form.to = Contact], [disk EXCEPT !.contact = ui.form.to], calls)
  /\ UNCHANGED remote

-----------------------------------------------------------------------------
(* Queries.  A name's answer is kept under the text that was asked for.    *)

AskName(t) ==
  /\ ui.page \in {"sol", "eth"}
  /\ ui.form.to = t /\ t \notin calls.asking
  /\ Change(ui, disk, [calls EXCEPT !.asking = @ \cup {t}])
  /\ UNCHANGED <<remote, ghost>>

queryKey(t) == t

\* A registry answers with the address it has now, or with nothing.
resolveName(t) ==
  /\ t \in calls.asking
  /\ \E got \in {remote.names[t], Nobody} :
       Change([ui EXCEPT !.answers[queryKey(t)] = got], disk,
              [calls EXCEPT !.asking = @ \ {t}])
  /\ UNCHANGED <<remote, ghost>>

ReadBalance ==
  /\ ui.page # "batch"
  /\ ui.bal # remote.bal \/ ui.coins # remote.coins
  /\ Change([ui EXCEPT !.bal = remote.bal, !.coins = remote.coins], disk, calls)
  /\ UNCHANGED <<remote, ghost>>

\* The wallet's chains and intents are read again.
ReadRules ==
  /\ ui.rule # remote.rule
  /\ Change([ui EXCEPT !.rule = remote.rule, !.waiting = FALSE], disk, calls)
  /\ UNCHANGED <<remote, ghost>>

-----------------------------------------------------------------------------
(* The world moves: a name is re-registered, money comes or goes, another  *)
(* tab changes the rules or a contact, a setup that waited lands, an       *)
(* administrator removes sending.                                          *)

Moved(g) == /\ ghost.moves < MaxMoves
            /\ ghost' = [g EXCEPT !.moves = @ + 1]

NameMoves ==
  /\ ui.page \in {"sol", "eth"}
  /\ \E t \in NameTexts, a \in Addresses :
       /\ remote.names[t] # a
       /\ remote' = [remote EXCEPT !.names[t] = a]
       /\ Moved([ghost EXCEPT !.was[t] = @ \cup {a}])
  /\ UNCHANGED <<disk, calls, ui>>

MoneyMoves ==
  /\ ui.page # "batch"
  /\ Moved(ghost)
  /\ \E purse \in Purses :
       /\ purse # remote.coins
       /\ remote' = [remote EXCEPT !.coins = purse, !.bal = Max(purse)]
  /\ UNCHANGED <<disk, calls, ui>>

PolicyChanges ==
  /\ Moved(ghost)
  /\ Change(ui, [disk EXCEPT !.denied = ~@], calls)
  /\ UNCHANGED remote

ContactChanges ==
  /\ ui.page \in {"sol", "batch"}
  /\ Moved(ghost)
  /\ \E a \in Addresses \cup {Nobody} :
       /\ a # disk.contact
       /\ Change(ui, [disk EXCEPT !.contact = a], calls)
  /\ UNCHANGED remote

SetupLands ==
  /\ ui.waiting /\ ~remote.rule
  /\ remote' = [remote EXCEPT !.rule = TRUE]
  /\ UNCHANGED <<disk, calls, ui, ghost>>

RuleRemoved ==
  /\ remote.rule
  /\ Moved(ghost)
  /\ remote' = [remote EXCEPT !.rule = FALSE]
  /\ UNCHANGED <<disk, calls, ui>>

-----------------------------------------------------------------------------
(* Turning sending on.  Bitcoin and Zcash do it on the send page itself,   *)
(* once by themselves when the address asks for it.                        *)

needsSetup == ui.page \in {"btc", "zec"} /\ ui.bound /\ ~ui.rule /\ ~RecoveryShown

StartSetup == calls' = [calls EXCEPT !.setup = "running"]

CountAuto == ghost' = [ghost EXCEPT !.setups = @ + 1]

AutoStart ==
  /\ needsSetup
  /\ ui.auto /\ ~ui.started
  /\ calls.setup = "none"
  /\ ui' = [ui EXCEPT !.started = TRUE]
  /\ StartSetup
  /\ CountAuto
  /\ UNCHANGED <<disk, remote>>

NeedsSetup ==
  /\ needsSetup
  /\ calls.setup = "none"
  /\ ui.page = "btc" => ~ui.waiting
  /\ StartSetup
  /\ UNCHANGED <<disk, remote, ui, ghost>>

SetupAnswered ==
  /\ calls.setup = "running"
  /\ calls' = [calls EXCEPT !.setup = "none"]
  /\ \/ /\ remote' = [remote EXCEPT !.rule = TRUE]
        /\ ui' = [ui EXCEPT !.rule = TRUE, !.waiting = FALSE]
     \/ /\ ui.page = "btc"
        /\ ui' = [ui EXCEPT !.waiting = TRUE]
        /\ UNCHANGED remote
     \/ UNCHANGED <<remote, ui>>
  /\ UNCHANGED <<disk, ghost>>

\* A setup left waiting is looked up again until the chain shows it.
SetupPolled ==
  /\ ui.waiting
  /\ remote.rule
  /\ ui' = [ui EXCEPT !.waiting = FALSE, !.rule = TRUE]
  /\ UNCHANGED <<disk, remote, calls, ghost>>

-----------------------------------------------------------------------------
(* Sending.                                                                *)

Submitted ==
  [NoSend EXCEPT !.step = "policy", !.text = ui.form.to,
                 !.to = Recipient(ui, disk, calls), !.amt = ui.form.amt, !.coin = Coin(ui)]

mayStart == /\ ~sending /\ ~RecoveryShown /\ ghost.sends < MaxSends
            /\ FormShown /\ canSubmit(ui, disk, calls)

SolSubmit ==
  /\ ui.page = "sol" /\ mayStart
  /\ ui' = [ui EXCEPT !.stage = "sending"]

EthSubmit ==
  /\ ui.page = "eth" /\ mayStart
  /\ ui' = [ui EXCEPT !.stage = "sending"]

Erc20Submit ==
  /\ ui.page = "erc20" /\ mayStart
  /\ ui' = [ui EXCEPT !.stage = "sending"]

\* The Bitcoin page checks the address only when the button is pressed.
BtcSubmit ==
  /\ ui.page = "btc" /\ mayStart
  /\ typedAddress(ui) # Nobody
  /\ ui' = [ui EXCEPT !.error = FALSE]

ZecSubmit ==
  /\ ui.page = "zec" /\ mayStart
  /\ UNCHANGED ui

handleSubmit ==
  /\ SolSubmit \/ EthSubmit \/ Erc20Submit \/ BtcSubmit \/ ZecSubmit
  /\ calls' = [calls EXCEPT !.send = Submitted]
  /\ ghost' = [ghost EXCEPT !.sends = @ + 1]
  /\ UNCHANGED <<disk, remote>>

BtcRefused ==
  /\ ui.page = "btc" /\ mayStart
  /\ typedAddress(ui) = Nobody
  /\ ~ui.error
  /\ ui' = [ui EXCEPT !.error = TRUE]
  /\ UNCHANGED <<disk, remote, calls, ghost>>

Ended == [calls EXCEPT !.send = NoSend]

Logged(status, tx) ==
  disk.log \cup {[status |-> status, amt |-> ui.form.amt,
                  to |-> Recipient(ui, disk, calls), tx |-> tx]}

\* Each page's error handler: the form comes back; three of them keep a record.
SolFailed   == [ui |-> [ui EXCEPT !.stage = "compose"], log |-> Logged("failed", 0)]
EthFailed   == [ui |-> [ui EXCEPT !.stage = "compose"], log |-> Logged("failed", 0)]
Erc20Failed == [ui |-> [ui EXCEPT !.stage = "compose"], log |-> Logged("failed", 0)]
BtcFailed   == [ui |-> [ui EXCEPT !.error = TRUE], log |-> disk.log]
ZecFailed   == [ui |-> ui, log |-> disk.log]

OnError ==
  CASE ui.page = "sol"   -> SolFailed
    [] ui.page = "eth"   -> EthFailed
    [] ui.page = "erc20" -> Erc20Failed
    [] ui.page = "btc"   -> BtcFailed
    [] OTHER             -> ZecFailed

\* The attempt ends in its error handler; saved tells whether a trace is kept.
Fails(saved) ==
  /\ ui' = OnError.ui
  /\ disk' = [disk EXCEPT !.log = OnError.log, !.saved = saved]
  /\ calls' = Ended

CheckPolicy ==
  /\ calls.send.step = "policy"
  /\ \/ /\ ~disk.denied
        /\ calls' = [calls EXCEPT !.send.step = "review"]
        /\ UNCHANGED <<disk, ui>>
     \/ Fails(FALSE)      \* denied, or a read failed
  /\ UNCHANGED <<remote, ghost>>

\* Fault variant: the review does not notice that the request went stale.
staleIgnored == FALSE

reviewStale == calls.send.stale

ConfirmReview ==
  /\ calls.send.step = "review"
  /\ IF reviewStale THEN Fails(FALSE)
     ELSE /\ calls' = [calls EXCEPT !.send.step = "sign"]
          /\ UNCHANGED <<disk, ui>>
  /\ UNCHANGED <<remote, ghost>>

CancelReview ==
  /\ calls.send.step = "review"
  /\ Fails(FALSE)
  /\ UNCHANGED <<remote, ghost>>

\* The wallet signs; a signature over stale details is thrown away.
SignStep ==
  /\ calls.send.step = "sign"
  /\ \/ Fails(FALSE) /\ UNCHANGED ghost
     \/ /\ ~reviewStale
        /\ calls' = [calls EXCEPT !.send.step = "create"]
        /\ ghost' = [ghost EXCEPT !.signed = @ \cup
             {[text |-> calls.send.text, to |-> calls.send.to, amt |-> calls.send.amt,
               coin |-> calls.send.coin, form |-> ui.form,
               shows |-> Recipient(ui, disk, calls), denied |-> disk.denied]}]
        /\ UNCHANGED <<disk, ui>>
  /\ UNCHANGED remote

\* The request is refused, accepted, or its answer is lost.
CreateStep ==
  /\ calls.send.step = "create"
  /\ \/ Fails(FALSE)
     \/ Fails(TRUE)
     \/ /\ calls' = [calls EXCEPT !.send.step = "finish"]
        /\ disk' = [disk EXCEPT !.saved = TRUE]
        /\ UNCHANGED ui
  /\ UNCHANGED <<remote, ghost>>

Shown == [to |-> ui.form.to, amt |-> ui.form.amt]

\* Each page's success handler, for a request that waits and for one that was sent.
SolDone(tx) ==
  [ui |-> [ui EXCEPT !.stage = IF tx = 0 THEN "compose" ELSE "sent"],
   log |-> IF tx = 0 THEN disk.log ELSE Logged("submitted", tx)]

EthDone(tx) ==
  [ui |-> [ui EXCEPT !.stage = "sent", !.label = Shown],
   log |-> IF tx = 0 THEN disk.log ELSE Logged("submitted", tx)]

Erc20Done(tx) ==
  [ui |-> [ui EXCEPT !.stage = "sent", !.label = Shown],
   log |-> IF tx = 0 THEN disk.log ELSE Logged("submitted", tx)]

BtcDone(tx) == [ui |-> [ui EXCEPT !.label = Shown], log |-> disk.log]

ZecDone(tx) ==
  [ui |-> [ui EXCEPT !.label = Shown],
   log |-> IF tx = 0 THEN disk.log ELSE Logged("submitted", tx)]

OnSuccess(tx) ==
  CASE ui.page = "sol"   -> SolDone(tx)
    [] ui.page = "eth"   -> EthDone(tx)
    [] ui.page = "erc20" -> Erc20Done(tx)
    [] ui.page = "btc"   -> BtcDone(tx)
    [] OTHER             -> ZecDone(tx)

\* The request waits for approvals, is broadcast, or its execution fails.
FinishStep ==
  /\ calls.send.step = "finish"
  /\ \/ Fails(TRUE) /\ UNCHANGED remote
     \/ /\ ui' = OnSuccess(0).ui
        /\ disk' = [disk EXCEPT !.log = OnSuccess(0).log]
        /\ calls' = Ended
        /\ UNCHANGED remote
     \/ LET tx == Cardinality(remote.txs) + 1 IN
        /\ remote' = [remote EXCEPT !.txs = @ \cup
             {[id |-> tx, to |-> calls.send.to, amt |-> calls.send.amt]}]
        /\ ui' = OnSuccess(tx).ui
        /\ disk' = [disk EXCEPT !.log = OnSuccess(tx).log]
        /\ calls' = Ended
  /\ UNCHANGED ghost

\* The user has checked the saved request and starts another one.
startSeparateRequest ==
  /\ RecoveryShown
  /\ disk' = [disk EXCEPT !.saved = FALSE]
  /\ UNCHANGED <<remote, calls, ui, ghost>>

\* The result card's way back to an empty form (Bitcoin and Zcash).
onAnother ==
  /\ ui.page \in {"btc", "zec"} /\ ~RecoveryShown
  /\ ui.label # NoForm
  /\ ui' = [ui EXCEPT !.label = NoForm, !.form = NoForm]
  /\ UNCHANGED <<disk, remote, calls, ghost>>

-----------------------------------------------------------------------------
(* The batch page.                                                         *)

resolveRow(r, d) ==
  LET to == CASE r.to = Contact -> d.contact
              [] r.to \in Addresses -> r.to
              [] OTHER -> Nobody
  IN IF r = NoForm THEN [kind |-> "empty"]
     ELSE IF to = Nobody THEN [kind |-> "invalid-address"]
     ELSE IF r.amt = 0 THEN [kind |-> "invalid-amount"]
     ELSE [kind |-> "valid", to |-> to, amt |-> r.amt]

validRows(rows, d) ==
  SelectSeq([i \in DOMAIN rows |-> resolveRow(rows[i], d)], LAMBDA r : r.kind = "valid")

canReview(u, d) ==
  /\ Len(validRows(u.rows, d)) = Len(u.rows)
  /\ Len(u.rows) \in 1..MaxRows

onBatch == ui.page = "batch"

Rows(next) ==
  /\ onBatch /\ ui.stage = "compose"
  /\ ui' = [ui EXCEPT !.rows = next]
  /\ ghost.edits < MaxEdits
  /\ ghost' = [ghost EXCEPT !.edits = @ + 1, !.fresh = TRUE]
  /\ UNCHANGED <<disk, remote, calls>>

addRow == Len(ui.rows) < MaxRows /\ Rows(Append(ui.rows, NoForm))

removeRow(i) ==
  Len(ui.rows) > 1 /\ Rows(RemoveAt(ui.rows, i))

updateRow(i) ==
  \E t \in {"A", Contact}, a \in Amounts :
    Rows([ui.rows EXCEPT ![i] = [to |-> t, amt |-> a]])

\* A file's lines: a payable one, one of another asset, one without an amount.
CsvLines == {[to |-> "A", amt |-> 1, asset |-> "SOL"], [to |-> "B", amt |-> 2, asset |-> ""],
             [to |-> "A", amt |-> 1, asset |-> "BTC"], [to |-> "", amt |-> 1, asset |-> "SOL"]}
CsvFiles == {<<l>> : l \in CsvLines} \cup {<<k, l>> : k, l \in CsvLines}
             \cup {<<l, l, l>> : l \in CsvLines}

parseBatchCsv(file) ==
  LET payable == SelectSeq(file, LAMBDA l : l.to # "" /\ l.asset \in {"", "SOL"})
  IN [i \in DOMAIN payable |-> [to |-> payable[i].to, amt |-> payable[i].amt]]

\* Nothing is imported from a file with too many rows.
importCsv ==
  \E file \in CsvFiles :
    LET rows == parseBatchCsv(file)
    IN Len(rows) \in 1..MaxRows /\ Rows(rows)

ReviewBatch ==
  /\ onBatch /\ ui.stage = "compose"
  /\ canReview(ui, disk)
  /\ ui' = [ui EXCEPT !.stage = "review"]
  /\ UNCHANGED <<disk, remote, calls, ghost>>

BackToCompose ==
  /\ onBatch /\ ui.stage = "review"
  /\ ui' = [ui EXCEPT !.stage = "compose"]
  /\ UNCHANGED <<disk, remote, calls, ghost>>

rowsToSend == validRows(ui.rows, disk)

\* The send button of the review.  Rows that no longer resolve send one back.
handleSendBatch ==
  /\ onBatch /\ ui.stage = "review"
  /\ calls.run.step = "none"
  /\ IF ~canReview(ui, disk)
     THEN ui' = [ui EXCEPT !.stage = "compose"] /\ UNCHANGED <<calls, ghost>>
     ELSE /\ ui.rule
          /\ ghost.sends < MaxSends
          /\ ui' = [ui EXCEPT !.stage = "sending", !.outcome = "none"]
          /\ calls' = [calls EXCEPT !.run = [NoRun EXCEPT !.step = "prepare",
                                                          !.rows = rowsToSend]]
          /\ ghost' = [ghost EXCEPT !.sends = @ + 1, !.fresh = FALSE, !.landed = FALSE]
  /\ UNCHANGED <<disk, remote>>

cancelBatch ==
  /\ onBatch /\ calls.run.step # "none" /\ ~calls.run.cancelled
  /\ calls' = [calls EXCEPT !.run.cancelled = TRUE]
  /\ UNCHANGED <<disk, remote, ui, ghost>>

RunEnds(outcome) ==
  /\ ui' = [ui EXCEPT !.stage = "done", !.outcome = outcome]
  /\ calls' = [calls EXCEPT !.run = NoRun]

\* Each step asks for a cancellation first; what a failure means depends on
\* how far the run had come.
batchDenied == disk.denied

BatchPrepare ==
  /\ calls.run.step = "prepare"
  /\ \/ /\ RunEnds(IF calls.run.cancelled THEN "cancelled" ELSE "failed")
     \/ /\ ~calls.run.cancelled /\ ~batchDenied
        /\ calls' = [calls EXCEPT !.run.step = "submit"]
        /\ UNCHANGED ui
  /\ UNCHANGED <<disk, remote, ghost>>

BatchSubmit ==
  /\ calls.run.step = "submit"
  /\ \/ RunEnds("submission_unknown") /\ UNCHANGED <<remote, ghost>>
     \/ /\ remote' = [remote EXCEPT !.batches = @ + 1]
        /\ ghost' = [ghost EXCEPT !.landed = TRUE]
        /\ \/ RunEnds("submission_unknown")
           \/ calls.run.cancelled /\ RunEnds("created")
           \/ ~calls.run.cancelled /\ calls' = [calls EXCEPT !.run.step = "execute"]
                                   /\ UNCHANGED ui
  /\ UNCHANGED disk

BatchExecute ==
  /\ calls.run.step = "execute"
  /\ \E o \in {"created", "execution_submitted", "execution_unknown"} : RunEnds(o)
  /\ UNCHANGED <<disk, remote, ghost>>

batchResultCopy(outcome) == outcome \notin {"execution_unknown", "submission_unknown"}

keepDraft(outcome) == outcome \in {"cancelled", "failed"}

onSendAnother ==
  /\ onBatch /\ ui.stage = "done"
  /\ batchResultCopy(ui.outcome)
  /\ ui' = [ui EXCEPT !.stage = "compose", !.outcome = "none",
                      !.rows = IF keepDraft(ui.outcome) THEN @ ELSE <<NoForm>>]
  /\ ghost' = [ghost EXCEPT !.fresh = @ \/ ~keepDraft(ui.outcome)]
  /\ UNCHANGED <<disk, remote, calls>>

-----------------------------------------------------------------------------
FormStep ==
  \/ \E t \in Texts \ {""} : setRecipient(t)
  \/ \E a \in Amounts : setAmount(a)
  \/ useMax
  \/ handleSaveNewContact

QueryStep ==
  \/ \E t \in NameTexts : AskName(t) \/ resolveName(t)
  \/ ReadBalance
  \/ ReadRules

WorldStep == NameMoves \/ MoneyMoves \/ PolicyChanges \/ ContactChanges \/ SetupLands
               \/ RuleRemoved

SetupStep == AutoStart \/ NeedsSetup \/ SetupAnswered \/ SetupPolled

SendStep ==
  \/ handleSubmit \/ BtcRefused
  \/ CheckPolicy \/ ConfirmReview \/ CancelReview \/ SignStep \/ CreateStep \/ FinishStep
  \/ startSeparateRequest \/ onAnother

BatchStep ==
  \/ addRow
  \/ \E i \in DOMAIN ui.rows : removeRow(i) \/ updateRow(i)
  \/ importCsv
  \/ ReviewBatch \/ BackToCompose \/ handleSendBatch \/ cancelBatch
  \/ BatchPrepare \/ BatchSubmit \/ BatchExecute \/ onSendAnother

Next == FormStep \/ QueryStep \/ WorldStep \/ SetupStep \/ SendStep \/ BatchStep

Spec == Init /\ [][Next]_vars

-----------------------------------------------------------------------------
(* Properties.                                                             *)

TypeOK ==
  /\ ui.page \in AllPages
  /\ ui.stage \in {"compose", "review", "sending", "sent", "done"}
  /\ ui.form \in [to : Texts, amt : Amounts]
  /\ \A t \in NameTexts : ui.answers[t] \in Addresses \cup {Nobody}
  /\ calls.send.step \in {"none", "policy", "review", "sign", "create", "finish"}
  /\ calls.run.step \in {"none", "prepare", "submit", "execute"}
  /\ Len(ui.rows) \in 1..MaxRows

\* What a signature covers is what the form showed when it was given: no edit,
\* late answer of a name service, changed contact, spent coin or changed rule
\* between the click and the signature gets an older request signed.
SignedAsShown ==
  \A s \in ghost.signed :
    /\ s.text = s.form.to /\ s.amt = s.form.amt
    /\ s.to = s.shows
    /\ ~s.denied

\* A payment to a registered name goes to an address that this very name had:
\* an answer never reaches the page for another text.
PaidTheName ==
  \A s \in ghost.signed : s.text \in NameTexts => s.to \in ghost.was[s.text]

\* A signed payment from a coin spends one that covers amount and fee, the
\* smallest such coin the page knew, and a Zcash payment leaves no rest that
\* would be burnt as a fee.
CoinPays ==
  \A s \in ghost.signed :
    /\ ui.page \in {"btc", "zec"} => s.coin >= s.amt + Fee
    /\ ui.page = "zec" => s.coin = s.amt + Fee

\* The log calls an attempt submitted only with a transaction on the chain that
\* moved the amount it names; a request that only waits is never logged as sent.
LogTrue ==
  \A e \in disk.log :
    e.status = "submitted" => \E x \in remote.txs : x.id = e.tx /\ x.amt = e.amt

\* The page turns sending on by itself at most once, however often its queries
\* answer and whatever the setup's outcome.
OneAutoStart == ghost.setups <= 1

\* Rows that may already have been paid for are never left in the form: they
\* can be sent again only by entering them again.
NoRepeatedDraft ==
  ui.page = "batch" /\ ui.stage \in {"compose", "review"} /\ ~ghost.fresh => ~ghost.landed

=============================================================================
