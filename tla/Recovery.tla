------------------------------ MODULE Recovery ------------------------------
(* The Secure pages: vaults held by a roster of wallets and passkeys.         *)
(*                                                                            *)
(* Every page starts an OPERATION (create a vault, import a key's funds into  *)
(* a new vault, enrol a passkey, change the threshold, sweep the vault, add a *)
(* vote) that sends several transactions one after the other.  A transaction  *)
(* may land although its answer was lost, so each is written to a recovery    *)
(* record in the browser's storage before it is sent; the records are shared  *)
(* by the tabs, and an operation that outlives its page stops at the next     *)
(* check of its identity.  The vault program is external: it accepts or       *)
(* refuses a transaction by its roster, votes and counters.                   *)
EXTENDS Naturals, FiniteSets, Sequences, SequencesExt

CONSTANTS
    Tabs,       \* the tabs of one browser
    Flows,      \* operation ids, each used once (crypto.randomUUID)
    Signers,    \* wallets the user may connect
    Passkeys,   \* passkeys this device can present
    Roster,     \* members of the existing vault Home
    Thresholds, \* approvals that vault may ask for
    Others,     \* members who vote from another device
    Home,       \* the vault that exists when the model starts
    Menus       \* [ops, tabs]: what a behaviour does, in which tabs

VARIABLES
    menu,       \* the operations and the tabs of this behaviour
    page,       \* tab -> the Secure page it shows
    stage,      \* tab -> the stage of that page
    key,        \* tab -> TRUE while the pasted secret key is in memory
    wallet,     \* tab -> the connected wallet
    popup,      \* tab -> TRUE while a wallet prompt has not settled
    flow,       \* operation -> its record
    receipts,   \* the recovery records: transaction -> status
    checking,   \* tab -> the records a status request asks about
    att,        \* vault -> its DKG attestation in this browser
    net,        \* transaction -> what the network did with it
    chain       \* the vault program's accounts

vars == <<menu, page, stage, key, wallet, popup, flow, receipts, checking,
          att, net, chain>>

Kinds == {"create", "import", "enroll", "bump", "sweep", "vote"}

PageOf == [create |-> "new", import |-> "import", enroll |-> "enroll",
           bump |-> "threshold", sweep |-> "sweep"]

TxNames == {"create", "enroll_propose", "enroll_finish", "stage",
            "roster_propose", "roster_approve", "roster_finish",
            "roster_execute", "sweep_open", "sweep_propose", "sweep_approve",
            "sweep_execute", "broadcast", "vote"}

NoMember == "nobody"

Unused == [kind |-> "none", tab |-> "none", mounted |-> FALSE,
           current |-> FALSE, signer |-> "none", mode |-> "none", thr |-> 0,
           idx |-> 0, todo |-> <<>>, voter |-> NoMember, parent |-> "none",
           pc |-> "none"]

\* A new id; which of the unused ones does not matter.
Fresh(f) == flow[f] = Unused /\ f = CHOOSE g \in Flows : flow[g] = Unused

Running(f) == flow[f].pc \notin {"none", "done", "failed"}

\* Operations of the page a tab shows now (running.current of that mount).
Mounted(t) == {f \in Flows : Running(f) /\ flow[f].tab = t /\ flow[f].mounted}

Mine(t) == {s \in DOMAIN receipts : flow[s[1]].signer = wallet[t]}

Forget(g, S) == Restrict(g, DOMAIN g \ S)

-----------------------------------------------------------------------------
(* The vault program and the network (external).                              *)

Count(g) == Cardinality(chain.votes[g])

WithVote(c, g, m) ==
    LET v == c.votes[g] \union {m} IN
    [c EXCEPT !.votes[g] = v,
              !.state[g] = IF Cardinality(v) >= c.thr THEN "approved" ELSE @]

\* A credential must be on the roster, a proposal must take the next index, a
\* member votes once, an execution needs an approved proposal.
Accepts(f, x) ==
    LET w == flow[f]
        member == w.voter \in chain.members
    IN
    \/ x \in {"create", "stage"}
    \/ /\ x \in {"enroll_propose", "roster_propose", "sweep_propose",
                 "sweep_open"}
       /\ member /\ chain.count[w.kind] = w.idx
    \/ /\ x \in {"enroll_finish", "roster_finish"}
       /\ member /\ chain.state[f] = "active" /\ chain.thr = 1
    \/ /\ x \in {"roster_approve", "sweep_approve"}
       /\ member /\ chain.state[f] = "active" /\ w.voter \notin chain.votes[f]
    \/ /\ x = "vote"
       /\ member /\ chain.state[w.parent] = "active"
       /\ w.voter \notin chain.votes[w.parent]
    \/ x \in {"roster_execute", "sweep_execute"} /\ chain.state[f] = "approved"
    \/ x = "broadcast" /\ chain.state[f] = "executed"

Opened(c, f) ==
    [c EXCEPT !.count[flow[f].kind] = @ + 1, !.state[f] = "active"]

Effect(f, x) ==
    LET w == flow[f] IN
    CASE x = "create" -> [chain EXCEPT !.vaults = @ \union {f}]
      [] x = "stage" -> chain
      [] x \in {"enroll_propose", "roster_propose", "sweep_propose"} ->
            Opened(chain, f)
      [] x = "sweep_open" -> WithVote(Opened(chain, f), f, w.voter)
      [] x = "enroll_finish" ->
            [chain EXCEPT !.state[f] = "executed",
                          !.members = @ \union {"enrolled"}]
      [] x \in {"roster_finish", "roster_execute"} ->
            [chain EXCEPT !.state[f] = "executed",
                          !.thr = Cardinality(chain.members)]
      [] x \in {"roster_approve", "sweep_approve"} ->
            WithVote(chain, f, w.voter)
      [] x = "vote" -> WithVote(chain, w.parent, w.voter)
      [] x = "sweep_execute" -> [chain EXCEPT !.state[f] = "executed"]
      [] x = "broadcast" -> [chain EXCEPT !.state[f] = "paid"]

Land(s) ==
    /\ net[s] = "pending"
    /\ IF Accepts(s[1], s[2])
       THEN net' = [net EXCEPT ![s] = "ok"] /\ chain' = Effect(s[1], s[2])
       ELSE net' = [net EXCEPT ![s] = "err"] /\ UNCHANGED chain
    /\ UNCHANGED <<menu, page, stage, key, wallet, popup, flow, receipts,
                   checking, att>>

\* The blockhash expires before the transaction is included.
Expire(s) ==
    /\ net[s] = "pending"
    /\ net' = [net EXCEPT ![s] = "dropped"]
    /\ UNCHANGED <<menu, page, stage, key, wallet, popup, flow, receipts,
                   checking, att, chain>>

OtherVote(g, m) ==
    /\ m \in chain.members \ chain.votes[g]
    /\ chain.state[g] = "active" /\ flow[g].kind \in {"bump", "sweep"}
    /\ chain' = WithVote(chain, g, m)
    /\ UNCHANGED <<menu, page, stage, key, wallet, popup, flow, receipts,
                   checking, att, net>>

-----------------------------------------------------------------------------
(* The transactions of an operation, in order.  "register" creates a passkey, *)
(* "dkg" makes the vault's distributed key, "load" reads the vault, "tap" is  *)
(* a passkey assertion, "count" compares the votes with the threshold read,   *)
(* "network" asks the signing network for the vault's signature.              *)

CreateSolo == <<"dkg", "create">>

CreateShared == <<"register", "dkg", "create">>

EnrollByWallet == <<"enroll_propose", "enroll_finish">>

EnrollByPasskey == <<"tap", "enroll_propose", "tap", "enroll_finish">>

BumpByWallet(n) ==
    <<"stage", "roster_propose">> \o
    IF n = 1 THEN <<"roster_finish">>
    ELSE <<"roster_approve", "count", "roster_execute">>

BumpByPasskey(n) ==
    <<"stage", "tap", "roster_propose", "tap">> \o
    IF n = 1 THEN <<"roster_finish">>
    ELSE <<"roster_approve", "count", "roster_execute">>

SweepRest(n) ==
    (IF n > 1 THEN <<"count">> ELSE <<>>) \o
    <<"sweep_execute", "network", "broadcast">>

SweepByWallet(n) == <<"sweep_open">> \o SweepRest(n)

SweepByPasskey(n) ==
    <<"tap", "sweep_propose", "tap", "sweep_approve">> \o SweepRest(n)

Script(kind, mode, n) ==
    CASE kind = "enroll" /\ mode = "wallet" -> EnrollByWallet
      [] kind = "enroll" /\ mode = "passkey" -> EnrollByPasskey
      [] kind = "bump" /\ mode = "wallet" -> BumpByWallet(n)
      [] kind = "bump" /\ mode = "passkey" -> BumpByPasskey(n)
      [] kind = "sweep" /\ mode = "wallet" -> SweepByWallet(n)
      [] kind = "sweep" /\ mode = "passkey" -> SweepByPasskey(n)

At(f, x) == flow[f].pc = "step" /\ Head(flow[f].todo) = x

Sig(f) == <<f, Head(flow[f].todo)>>

-----------------------------------------------------------------------------
(* How an operation ends.                                                     *)

\* The catch blocks of the pages.  An import that may have been submitted is
\* uncertain; the others go back to where they were started.
StageAfterFailure(f) ==
    CASE flow[f].kind = "import" ->
            IF flow[f].pc \in {"send", "confirm"} THEN "uncertain" ELSE "form"
      [] flow[f].kind \in {"enroll", "bump"} -> "form"
      [] flow[f].kind = "vote" -> "running"
      [] OTHER -> "review"

\* The record of an operation that is over keeps what its transactions on the
\* network still need.
Over(w, pc) ==
    [w EXCEPT !.pc = pc, !.current = FALSE, !.todo = <<>>, !.thr = 0,
              !.mode = "none", !.tab = IF w.mounted THEN @ ELSE "none"]

\* run() rethrows; a page that was left does not change.  An import wipes the
\* key whatever happened.
Ends(f) ==
    /\ flow' = [flow EXCEPT ![f] = Over(@, "failed")]
    /\ stage' = IF flow[f].mounted
                THEN [stage EXCEPT ![flow[f].tab] = StageAfterFailure(f)]
                ELSE stage
    /\ key' = IF flow[f].mounted /\ flow[f].kind = "import"
              THEN [key EXCEPT ![flow[f].tab] = FALSE] ELSE key

\* The identity changed, a prompt was declined, a read or a request failed,
\* the blockhash expired: the step throws before anything is sent.
Stops(f) ==
    /\ flow[f].pc \in {"step", "reviewing", "send"}
    /\ Ends(f)
    /\ UNCHANGED <<menu, page, wallet, popup, receipts, checking, att, net,
                   chain>>

\* complete(): the operation succeeded and its records are dropped.
Completes(f) ==
    /\ receipts' = Forget(receipts, {s \in DOMAIN receipts : s[1] = f})
    /\ flow' = [flow EXCEPT ![f] = Over(@, "done")]
    /\ stage' = IF flow[f].kind = "vote" THEN stage
                ELSE [stage EXCEPT ![flow[f].tab] = "done"]

Advance(f) == [flow EXCEPT ![f].todo = Tail(@), ![f].pc = "step"]

-----------------------------------------------------------------------------
(* The steps of an operation.                                                 *)

\* Create a passkey on this device.
Register(f) ==
    /\ At(f, "register") /\ flow[f].current
    /\ flow' = Advance(f)
    /\ UNCHANGED <<menu, page, stage, key, wallet, popup, receipts, checking,
                   att, net, chain>>

\* Make the key, wait for its account, build the transaction and sign it with
\* the local keys; the imported key is wiped as soon as it has signed.
Dkg(f) ==
    /\ At(f, "dkg") /\ flow[f].current
    /\ flow' = Advance(f)
    /\ key' = IF flow[f].kind = "import"
              THEN [key EXCEPT ![flow[f].tab] = FALSE] ELSE key
    /\ UNCHANGED <<menu, page, stage, wallet, popup, receipts, checking, att,
                   net, chain>>

\* What an operation refuses after reading the vault.
EnrollLoadable == chain.thr = 1

BumpLoadable(f) ==
    /\ Cardinality(chain.members) >= 2
    /\ chain.thr # Cardinality(chain.members)
    /\ flow[f].mode = "wallet" => flow[f].signer \in chain.members

\* What the browser holds of a vault's attestation: saved with the confirmed
\* vault, or else kept aside before its creation was sent.
saveAttestation(v) == att' = [att EXCEPT ![v] = "saved"]

savePendingAttestation(v) == att' = [att EXCEPT ![v] = "pending"]

loadAttestation(v) == att[v] # "none"

\* The cached attestation, checked against the chain.
SweepLoadable == loadAttestation(Home)

Loadable(f) ==
    \/ flow[f].kind = "enroll" /\ EnrollLoadable
    \/ flow[f].kind = "bump" /\ BumpLoadable(f)
    \/ flow[f].kind = "sweep" /\ SweepLoadable

\* Read the vault: the threshold and the next index are fixed here.
Load(f) ==
    /\ At(f, "load") /\ flow[f].current /\ Loadable(f)
    /\ flow' = [flow EXCEPT ![f].thr = chain.thr,
                            ![f].idx = chain.count[flow[f].kind],
                            ![f].todo = Script(flow[f].kind, flow[f].mode,
                                               chain.thr)]
    /\ UNCHANGED <<menu, page, stage, key, wallet, popup, receipts, checking,
                   att, net, chain>>

\* A passkey assertion, matched with the roster.
Tap(f, k) ==
    /\ At(f, "tap") /\ flow[f].current
    /\ k \in chain.members
    /\ flow[f].kind = "vote" => k \notin chain.votes[flow[f].parent]
    /\ flow' = [Advance(f) EXCEPT ![f].voter = k]
    /\ UNCHANGED <<menu, page, stage, key, wallet, popup, receipts, checking,
                   att, net, chain>>

\* The signing lock of the tab: an open review, or a prompt not yet settled.
Locked(t) == popup[t] \/ \E g \in Flows : /\ flow[g].tab = t
                                         /\ flow[g].pc = "reviewing"

\* Take the lock and show the review; a busy lock throws (Stops).
OpenReview(f) ==
    /\ flow[f].pc = "step" /\ Head(flow[f].todo) \in TxNames
    /\ flow[f].current /\ ~Locked(flow[f].tab)
    /\ flow' = [flow EXCEPT ![f].pc = "reviewing"]
    /\ UNCHANGED <<menu, page, stage, key, wallet, popup, receipts, checking,
                   att, net, chain>>

\* The network signed a broadcast; every other transaction goes to the wallet.
AcceptReview(f) ==
    /\ flow[f].pc = "reviewing" /\ flow[f].current
    /\ LET b == Head(flow[f].todo) = "broadcast" IN
        /\ flow' = [flow EXCEPT ![f].pc = IF b THEN "send" ELSE "wallet"]
        /\ popup' = [popup EXCEPT ![flow[f].tab] = ~b]
    /\ UNCHANGED <<menu, page, stage, key, wallet, receipts, checking, att,
                   net, chain>>

\* The wallet signs.  A new vault's attestation is stored before it is sent.
WalletSigns(f) ==
    /\ flow[f].pc = "wallet" /\ flow[f].current
    /\ flow' = [flow EXCEPT ![f].pc = "send"]
    /\ popup' = [popup EXCEPT ![flow[f].tab] = FALSE]
    /\ IF Head(flow[f].todo) = "create" THEN savePendingAttestation(f) ELSE UNCHANGED att
    /\ UNCHANGED <<menu, page, stage, key, wallet, receipts, checking, net,
                   chain>>

\* The user declines, or the prompt is left open past its timeout; only a
\* settled prompt frees the lock.
WalletFails(f) ==
    /\ flow[f].pc = "wallet"
    /\ Ends(f)
    /\ \E open \in BOOLEAN : popup' = [popup EXCEPT ![flow[f].tab] = open]
    /\ UNCHANGED <<menu, page, wallet, receipts, checking, att, net, chain>>

PromptSettles(t) ==
    /\ popup[t] /\ \A f \in Flows : ~(flow[f].tab = t /\ flow[f].pc = "wallet")
    /\ popup' = [popup EXCEPT ![t] = FALSE]
    /\ UNCHANGED <<menu, page, stage, key, wallet, flow, receipts, checking,
                   att, net, chain>>

\* sendRawTransaction: the record is durable before the network call.  The
\* node accepts and answers, accepts and the answer is lost, or refuses at
\* preflight (or the tab dies in between): an exception is never evidence.
Submit(f) ==
    /\ flow[f].pc = "send" /\ flow[f].current
    /\ Sig(f) \notin DOMAIN receipts
    /\ receipts' = receipts @@ (Sig(f) :> "unknown")
    /\ \/ /\ net' = net @@ (Sig(f) :> "pending")
          /\ flow' = [flow EXCEPT ![f].pc = "confirm"]
          /\ UNCHANGED <<stage, key>>
       \/ \E r \in {"pending", "dropped"} :
            net' = net @@ (Sig(f) :> r) /\ Ends(f)
    /\ UNCHANGED <<menu, page, wallet, popup, checking, att, chain>>

\* The status a confirmation writes into the record, if it is still there.
Recorded(s, status) ==
    IF s \in DOMAIN receipts THEN [receipts EXCEPT ![s] = status] ELSE receipts

\* A confirmed transaction is recorded even after the page was left; then the
\* operation goes on only if its identity is still current.  The last one
\* completes the operation; a created vault's attestation is saved first.
ConfirmOk(f) ==
    /\ flow[f].pc = "confirm" /\ net[Sig(f)] = "ok"
    /\ \/ /\ ~flow[f].current
          /\ receipts' = Recorded(Sig(f), "confirmed")
          /\ Ends(f) /\ UNCHANGED att
       \/ /\ flow[f].current /\ Len(flow[f].todo) > 1
          /\ receipts' = Recorded(Sig(f), "confirmed")
          /\ flow' = Advance(f) /\ UNCHANGED <<stage, key, att>>
       \/ /\ flow[f].current /\ Len(flow[f].todo) = 1
          /\ Completes(f) /\ UNCHANGED key
          /\ IF Head(flow[f].todo) = "create" THEN saveAttestation(f) ELSE UNCHANGED att
    /\ UNCHANGED <<menu, page, wallet, popup, checking, net, chain>>

\* A transaction that failed on chain is not an advance.
ConfirmErr(f) ==
    /\ flow[f].pc = "confirm" /\ net[Sig(f)] = "err"
    /\ receipts' = Recorded(Sig(f), "failed")
    /\ Ends(f)
    /\ UNCHANGED <<menu, page, wallet, popup, checking, att, net, chain>>

\* The confirmation times out or its request fails; the record stays unknown.
ConfirmLost(f) ==
    /\ flow[f].pc = "confirm" /\ net[Sig(f)] \in {"pending", "dropped"}
    /\ Ends(f)
    /\ UNCHANGED <<menu, page, wallet, popup, receipts, checking, att, net,
                   chain>>

\* Enough votes: go on to the execution.  Otherwise wait at the page's gate.
CountVotes(f) ==
    /\ At(f, "count") /\ flow[f].current
    /\ flow' = IF Count(f) >= flow[f].thr THEN Advance(f)
               ELSE [flow EXCEPT ![f].pc = "collect"]
    /\ UNCHANGED <<menu, page, stage, key, wallet, popup, receipts, checking,
                   att, net, chain>>

\* The vote's page handler reads the live count after the vote and opens the
\* gate of the request it belongs to; the operation counts once more.
Release(f) ==
    LET g == flow[f].parent IN
    /\ flow[f].kind = "vote" /\ flow[f].pc = "done" /\ flow[f].mounted
    /\ flow[g].pc = "collect" /\ flow[g].mounted
    /\ Count(g) >= flow[g].thr
    /\ flow' = [flow EXCEPT ![g].pc = "step"]
    /\ UNCHANGED <<menu, page, stage, key, wallet, popup, receipts, checking,
                   att, net, chain>>

\* The network signs the sweep that the program approved.
NetworkSigns(f) ==
    /\ At(f, "network") /\ flow[f].current
    /\ flow' = Advance(f)
    /\ UNCHANGED <<menu, page, stage, key, wallet, popup, receipts, checking,
                   att, net, chain>>

-----------------------------------------------------------------------------
(* The pages.                                                                 *)

\* Leave a page: its operations lose their identity, its gate rejects whoever
\* waits, the pasted key is wiped.
Open(t, p) ==
    /\ p \in {PageOf[k] : k \in menu.ops \ {"vote"}}
    /\ page' = [page EXCEPT ![t] = p]
    /\ stage' = [stage EXCEPT ![t] = "form"]
    /\ key' = [key EXCEPT ![t] = FALSE]
    /\ checking' = [checking EXCEPT ![t] = {}]
    /\ flow' = [f \in Flows |->
                  IF flow[f].tab # t THEN flow[f]
                  ELSE LET w == [flow[f] EXCEPT !.mounted = FALSE,
                                                !.current = FALSE]
                       IN IF w.pc = "collect" THEN Over(w, "failed")
                          ELSE IF Running(f) THEN w ELSE Over(w, w.pc)]
    /\ UNCHANGED <<menu, wallet, popup, receipts, att, net, chain>>

\* The tab is closed or reloaded: what ran in it is gone.
Reload(t) ==
    /\ stage' = [stage EXCEPT ![t] = "form"]
    /\ key' = [key EXCEPT ![t] = FALSE]
    /\ popup' = [popup EXCEPT ![t] = FALSE]
    /\ checking' = [checking EXCEPT ![t] = {}]
    /\ flow' = [f \in Flows |->
                  IF flow[f].tab # t THEN flow[f]
                  ELSE Over([flow[f] EXCEPT !.mounted = FALSE],
                            IF Running(f) THEN "failed" ELSE flow[f].pc)]
    /\ UNCHANGED <<menu, page, wallet, receipts, att, net, chain>>

\* Another account, another signer, or browser history: the page stays, its
\* running operations are no longer current.
Reconnect(t, w) ==
    /\ \E f \in Mounted(t) : flow[f].current
    /\ wallet' = [wallet EXCEPT ![t] = w]
    /\ checking' = [checking EXCEPT ![t] = {}]
    /\ flow' = [f \in Flows |-> IF f \in Mounted(t)
                                 THEN [flow[f] EXCEPT !.current = FALSE]
                                 ELSE flow[f]]
    /\ UNCHANGED <<menu, page, stage, key, popup, receipts, att, net, chain>>

\* The field for a secret key is on the import page's form only.
KeyField(t) == page[t] = "import" /\ stage[t] = "form"

\* Paste a secret key into the import form.
PasteKey(t) ==
    /\ KeyField(t) /\ ~key[t]
    /\ key' = [key EXCEPT ![t] = TRUE]
    /\ UNCHANGED <<menu, page, stage, wallet, popup, flow, receipts, checking,
                   att, net, chain>>

\* Back to the introduction, or an input that does not parse.
ClearKey(t) ==
    /\ KeyField(t) /\ key[t]
    /\ key' = [key EXCEPT ![t] = FALSE]
    /\ UNCHANGED <<menu, page, stage, wallet, popup, flow, receipts, checking,
                   att, net, chain>>

ToReview(t) ==
    /\ stage[t] = "form"
    /\ stage' = [stage EXCEPT ![t] = "review"]
    /\ UNCHANGED <<menu, page, key, wallet, popup, flow, receipts, checking,
                   att, net, chain>>

\* The shape of a new vault is chosen.
ReviewNew(t) == page[t] = "new" /\ ToReview(t)

\* An import needs a pasted key.
ReviewImport(t) == page[t] = "import" /\ key[t] /\ ToReview(t)

\* A sweep needs the vault's address, which only the attestation knows.
ReviewSweep(t) == page[t] = "sweep" /\ loadAttestation(Home) /\ ToReview(t)

BackToForm(t) ==
    /\ stage[t] = "review"
    /\ stage' = [stage EXCEPT ![t] = "form"]
    /\ UNCHANGED <<menu, page, key, wallet, popup, flow, receipts, checking,
                   att, net, chain>>

\* "Build another" on the page of a finished vault.
BuildAnother(t) ==
    /\ page[t] = "new" /\ stage[t] = "done"
    /\ stage' = [stage EXCEPT ![t] = "form"]
    /\ UNCHANGED <<menu, page, key, wallet, popup, flow, receipts, checking,
                   att, net, chain>>

\* A file for another vault, or with a key the chain does not name, is refused.
importAttestationBackup(v) == saveAttestation(v)

\* Restore the vault's attestation from a file.
ImportBackup ==
    /\ ~loadAttestation(Home) /\ "sweep" \in menu.ops
    /\ importAttestationBackup(Home)
    /\ UNCHANGED <<menu, page, stage, key, wallet, popup, flow, receipts,
                   checking, net, chain>>
-----------------------------------------------------------------------------
(* Starting an operation, adding a vote, checking the records.                *)

Kind(S) == {f \in S : flow[f].kind # "vote"}

Began(t, kind, mode, todo, parent) ==
    [kind |-> kind, tab |-> t, mounted |-> TRUE, current |-> TRUE,
     signer |-> wallet[t], mode |-> mode, thr |-> 0, idx |-> 0, todo |-> todo,
     voter |-> IF mode = "wallet" THEN wallet[t] ELSE NoMember,
     parent |-> parent, pc |-> "step"]

\* Fault variant: the records of earlier operations are not looked at.
BeginUnchecked(t, f, kind, mode, todo) ==
    /\ Fresh(f) /\ Kind(Mounted(t)) = {}
    /\ flow' = [flow EXCEPT ![f] = Began(t, kind, mode, todo, "none")]
    /\ stage' = [stage EXCEPT ![t] = "running"]
    /\ UNCHANGED <<menu, page, key, wallet, popup, receipts, checking, att,
                   net, chain>>

\* run(): one operation at a time in a mount, none while the signer has a
\* record of an earlier one.
Begin(t, f, kind, mode, todo) ==
    /\ Fresh(f) /\ Kind(Mounted(t)) = {} /\ Mine(t) = {}
    /\ flow' = [flow EXCEPT ![f] = Began(t, kind, mode, todo, "none")]
    /\ stage' = [stage EXCEPT ![t] = "running"]
    /\ UNCHANGED <<menu, page, key, wallet, popup, receipts, checking, att,
                   net, chain>>

Shows(t, kind, st) ==
    kind \in menu.ops /\ page[t] = PageOf[kind] /\ stage[t] = st

\* What the page of each operation asks for before its button works.
BuildOffered(t) == Shows(t, "create", "review")

ImportOffered(t) == Shows(t, "import", "review") /\ key[t]

EnrollOffered(t) == Shows(t, "enroll", "form")

BumpOffered(t) == Shows(t, "bump", "form") /\ Cardinality(chain.members) >= 2

SweepOffered(t) == Shows(t, "sweep", "review")

\* handleBuild: a vault of its owner alone, or shared with new passkeys.
Build(t, f, mode) ==
    /\ BuildOffered(t)
    /\ Begin(t, f, "create", mode,
             IF mode = "wallet" THEN CreateSolo ELSE CreateShared)

RunImport(t, f) ==
    ImportOffered(t) /\ Begin(t, f, "import", "wallet", CreateSolo)

Enroll(t, f, mode) ==
    EnrollOffered(t) /\ Begin(t, f, "enroll", mode, <<"register", "load">>)

RunBump(t, f, mode) ==
    BumpOffered(t) /\ Begin(t, f, "bump", mode, <<"load">>)

RunSweep(t, f, mode) ==
    SweepOffered(t) /\ Begin(t, f, "sweep", mode, <<"load">>)

\* A refused import ends like a failed one: the key is wiped.
ImportRefused(t) ==
    /\ ImportOffered(t) /\ Mine(t) # {}
    /\ key' = [key EXCEPT ![t] = FALSE]
    /\ stage' = [stage EXCEPT ![t] = "form"]
    /\ UNCHANGED <<menu, page, wallet, popup, flow, receipts, checking, att,
                   net, chain>>

\* The picker of a request that waits for more votes.  A sweep takes the
\* connected wallet or a passkey; a threshold change started by the wallet
\* has that wallet's vote already.
SweepVoteOffered(t, g, mode) ==
    /\ flow[g].kind = "sweep"
    /\ mode = "wallet" => wallet[t] \in chain.members

BumpVoteOffered(t, g, mode) ==
    /\ flow[g].kind = "bump"
    /\ mode = "wallet" => flow[g].mode = "passkey" /\ wallet[t] \in chain.members

\* addSweepApproval and addRosterChangeApproval refuse a second vote.
VoteSteps(mode) ==
    IF mode = "wallet" THEN <<"vote">> ELSE <<"tap", "vote">>

\* handleAddApproval: one more vote from this device for the request that
\* waits at the gate; it is not held up by that request's own records.
AddVote(t, f, g, mode) ==
    /\ "vote" \in menu.ops /\ Fresh(f)
    /\ g \in Mounted(t) /\ flow[g].pc = "collect"
    /\ Mounted(t) = {g}
    /\ mode = "wallet" => wallet[t] \notin chain.votes[g]
    /\ flow' = [flow EXCEPT ![f] = Began(t, "vote", mode, VoteSteps(mode), g)]
    /\ UNCHANGED <<menu, page, stage, key, wallet, popup, receipts, checking,
                   att, net, chain>>

AddSweepVote(t, f, g, mode) ==
    SweepVoteOffered(t, g, mode) /\ AddVote(t, f, g, mode)

AddBumpVote(t, f, g, mode) ==
    BumpVoteOffered(t, g, mode) /\ AddVote(t, f, g, mode)

\* checkSecureReceipts, up to the status request.  A record that has its
\* status already is asked about too, but the answer cannot change it.
CheckStart(t) ==
    LET asked == {s \in Mine(t) : receipts[s] = "unknown"} IN
    /\ checking[t] = {} /\ asked # {}
    /\ checking' = [checking EXCEPT ![t] = asked]
    /\ UNCHANGED <<menu, page, stage, key, wallet, popup, flow, receipts, att,
                   net, chain>>

Outcome(s) == IF net[s] = "ok" THEN "confirmed" ELSE "failed"

\* The answer is merged into the records as they are now: only a record that
\* is still unknown and was asked about takes the confirmed status.
CheckReply(t) ==
    /\ checking[t] # {}
    /\ receipts' = [s \in DOMAIN receipts |->
                      IF /\ receipts[s] = "unknown" /\ s \in checking[t]
                         /\ net[s] \in {"ok", "err"}
                      THEN Outcome(s) ELSE receipts[s]]
    /\ checking' = [checking EXCEPT ![t] = {}]
    /\ UNCHANGED <<menu, page, stage, key, wallet, popup, flow, att, net, chain>>

\* "I checked these outcomes and the vault".
Acknowledge(t) ==
    /\ Mounted(t) = {} /\ Mine(t) # {}
    /\ \A s \in Mine(t) : receipts[s] # "unknown"
    /\ receipts' = Forget(receipts, Mine(t))
    /\ UNCHANGED <<menu, page, stage, key, wallet, popup, flow, checking, att,
                   net, chain>>

-----------------------------------------------------------------------------
Init ==
    /\ menu \in Menus
    /\ page \in [Tabs -> {PageOf[k] : k \in menu.ops \ {"vote"}}]
    /\ stage = [t \in Tabs |-> "form"]
    /\ key = [t \in Tabs |-> FALSE]
    /\ wallet \in [Tabs -> Signers]
    /\ popup = [t \in Tabs |-> FALSE]
    /\ flow = [f \in Flows |-> Unused]
    /\ receipts = <<>>
    /\ checking = [t \in Tabs |-> {}]
    /\ \E a \in IF "sweep" \in menu.ops THEN {"none", "saved"} ELSE {"saved"} :
         att = [v \in Flows \union {Home} |-> IF v = Home THEN a ELSE "none"]
    /\ net = <<>>
    /\ \E n \in IF menu.ops \subseteq {"create", "import"} THEN {1}
                ELSE Thresholds :
         chain = [thr |-> n, members |-> Roster,
                  count |-> [k \in Kinds |-> 0],
                  votes |-> [f \in Flows |-> {}],
                  state |-> [f \in Flows |-> "none"], vaults |-> {}]

Steps(f) ==
    \/ Register(f) \/ Dkg(f) \/ Load(f) \/ (\E k \in Passkeys : Tap(f, k))
    \/ OpenReview(f) \/ AcceptReview(f) \/ WalletSigns(f) \/ WalletFails(f)
    \/ Submit(f) \/ ConfirmOk(f) \/ ConfirmErr(f) \/ ConfirmLost(f)
    \/ CountVotes(f) \/ Release(f) \/ NetworkSigns(f) \/ Stops(f)

TabSteps(t) ==
    \/ \E p \in {PageOf[k] : k \in menu.ops \ {"vote"}} : Open(t, p)
    \/ Reload(t) \/ (\E w \in Signers : Reconnect(t, w))
    \/ PasteKey(t) \/ ClearKey(t) \/ BackToForm(t) \/ BuildAnother(t)
    \/ ReviewNew(t) \/ ReviewImport(t) \/ ReviewSweep(t)
    \/ PromptSettles(t) \/ ImportRefused(t)
    \/ CheckStart(t) \/ CheckReply(t) \/ Acknowledge(t)
    \/ \E f \in Flows : RunImport(t, f)
    \/ \E f \in {g \in Flows : Fresh(g)}, mode \in {"wallet", "passkey"} :
         \/ Build(t, f, mode) \/ Enroll(t, f, mode)
         \/ RunBump(t, f, mode) \/ RunSweep(t, f, mode)
         \/ \E g \in Flows : AddSweepVote(t, f, g, mode) \/ AddBumpVote(t, f, g, mode)

Next ==
    \/ \E t \in menu.tabs : TabSteps(t)
    \/ \E f \in Flows : flow[f] # Unused /\ Steps(f)
    \/ \E s \in DOMAIN net : Land(s) \/ Expire(s)
    \/ \E g \in Flows, m \in Others : OtherVote(g, m)
    \/ ImportBackup

Spec == Init /\ [][Next]_vars

-----------------------------------------------------------------------------
(* Properties.                                                                *)

\* Every transaction has a recorded status, a known outcome and a known owner.
TypeOK ==
    /\ menu \in Menus
    /\ stage \in [Tabs -> {"form", "review", "running", "done", "uncertain"}]
    /\ key \in [Tabs -> BOOLEAN] /\ popup \in [Tabs -> BOOLEAN]
    /\ wallet \in [Tabs -> Signers]
    /\ DOMAIN receipts \subseteq Flows \X TxNames
    /\ \A s \in DOMAIN receipts : receipts[s] \in {"unknown", "confirmed", "failed"}
    /\ DOMAIN net \subseteq Flows \X TxNames
    /\ \A s \in DOMAIN net : net[s] \in {"pending", "ok", "err", "dropped"}
    /\ \A f \in Flows : flow[f].pc \in {"none", "step", "reviewing", "wallet",
                            "send", "confirm", "collect", "done", "failed"}

\* A transaction the network may still execute is never without an unknown
\* record, whatever reload, lost answer, page change or other tab came between
\* (transactionOperation.ts: "The receipt is durable BEFORE the network call").
NothingForgotten ==
    \A s \in DOMAIN net :
        net[s] = "pending" => s \in DOMAIN receipts /\ receipts[s] = "unknown"

\* A record that claims an outcome claims the one the network decided: a
\* missing status is never read as a failure (receiptReconciliation.ts).
RecordsAreTrue ==
    \A s \in DOMAIN receipts :
        /\ receipts[s] = "confirmed" => net[s] = "ok"
        /\ receipts[s] = "failed" => net[s] = "err"

\* No new operation starts while one of its signer's earlier transactions may
\* still land, in whichever tab it was sent (run() in useSecureOperation.tsx).
NeverStartsOverAnUnknown ==
       \A f \in Flows :
         flow[f] = Unused /\ flow'[f] # Unused /\ flow'[f].kind # "vote" =>
            \A s \in DOMAIN net :
                flow[s[1]].signer = flow'[f].signer => net[s] # "pending"

\* A vault that exists on chain has its attestation in this browser, also when
\* the confirmation never arrived or the tab was closed: without it the vault
\* cannot be swept (clearmsig-actions.ts, before the create is submitted).
AttestationKept == \A f \in chain.vaults : att[f] # "none"

\* The pasted key is gone before a wallet prompt opens, and nowhere but on the
\* import page's form and review (importAttempt.ts; the wipe after tx.sign).
KeyGoneBeforeWallet ==
    \A t \in Tabs : key[t] =>
        /\ page[t] = "import"
        /\ \/ stage[t] \in {"form", "review"}
           \/ \E f \in Mounted(t) : At(f, "dkg")

\* An import that may have moved funds is not offered again from the same
\* mount: its page shows the outcome as uncertain, never the form
\* (ImportKeyPage.tsx, submissionMayHaveStarted).
NoSecondImport ==
    \A t \in Tabs, f \in Flows :
        /\ flow[f].kind = "import" /\ flow[f].tab = t /\ flow[f].mounted
        /\ \E s \in DOMAIN net : s[1] = f
        => stage[t] \notin {"form", "review"}

\* An operation whose account, route or settings changed sends nothing more
\* (assertCurrent before every submission).
LeftFlowStops ==
       \A s \in DOMAIN net' \ DOMAIN net : flow[s[1]].current

=============================================================================
