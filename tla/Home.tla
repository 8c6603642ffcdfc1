-------------------------------- MODULE Home --------------------------------
(***************************************************************************)
(* What a person is shown of their wallets (apps/web), in three parts of   *)
(* which a behaviour shows one, named by ui.part:                          *)
(*                                                                         *)
(*   "desk"    the wallet home page: the memberships of the connected      *)
(*             account, which may change under the page, and the balances  *)
(*             of the wallets it shows (WalletHomePage.tsx).               *)
(*   "rows"    the requests of all wallets, read in three layers of cached *)
(*             queries (memberships, account, proposals up to the count    *)
(*             the account names), their refresh and their CSV export      *)
(*             (useRecentActivity.ts, the activity pages).                 *)
(*   "votes"   the bounded scan of a request's transactions for votes      *)
(*             (lib/clearsign/proposalVoteHistory.ts).                     *)
(*                                                                         *)
(* remote is the chain, calls the reads under way, ui the page with its    *)
(* query cache, disk what the browser keeps.                               *)
(***************************************************************************)
EXTENDS Integers, Sequences, FiniteSets, FiniteSetsExt, SequencesExt

CONSTANTS MaxDeskActs,    \* steps of people and of the chain, part "desk"
          MaxRowActs,     \* the same for the requests, failed reads included
          MaxReads,       \* reads under way at a time
          MaxTxs          \* transactions of the request scanned

VARIABLES disk, remote, calls, ui, ghost

vars == <<disk, remote, calls, ui, ghost>>

Accounts == {1, 2}
Wallets == {1, 2}
NoData == {0}              \* no memberships: 0 is no wallet
Unread == [has |-> FALSE, data |-> {}, err |-> FALSE]

Has(q) == q.has
\* A query is loading until it has answered or failed.
isLoading(q) == ~Has(q) /\ ~q.err

inFlight(key) == \E j \in calls : j.key = key
read(key) == [key |-> key, at |-> "sent", data |-> {}, rows |-> {}, upTo |-> 0]

\* A fetch of a query without data starts over: its error is forgotten.
refetching(q) == IF Has(q) THEN q ELSE Unread
answered(d) == [has |-> TRUE, data |-> d, err |-> FALSE]
failed(q) == [q EXCEPT !.err = TRUE]

-----------------------------------------------------------------------------
(* The home page.                                                          *)

Desk == ui.part = "desk"
DeskAct == Desk /\ ui.acts < MaxDeskActs
Acted == [ui EXCEPT !.acts = @ + 1]

Surface(w) == IF w = 1 THEN "personal" ELSE "pro"
orgs(u) == u.orgs[u.addr]

\* What the query gives: its data; while it is loading, what it last gave.
membershipsData(u) ==
  IF Has(orgs(u)) THEN orgs(u).data
  ELSE IF isLoading(orgs(u)) THEN u.prev ELSE NoData

\* The data, or what was kept for this account, or nothing.
walletsOf(u) ==
  IF membershipsData(u) # NoData THEN membershipsData(u)
  ELSE IF u.kept[u.addr] # NoData THEN u.kept[u.addr] ELSE {}

visibleWallets(u) ==
  {w \in walletsOf(u) : u.surface = "all" \/ Surface(w) = u.surface}

showingCached(u) ==
  membershipsData(u) = NoData /\ u.kept[u.addr] \notin {NoData, {}}
stillLoading(u) ==
  isLoading(orgs(u)) /\ membershipsData(u) = NoData /\ ~showingCached(u)

hasError(u) == ~stillLoading(u) /\ orgs(u).err /\ walletsOf(u) = {}

isFirstVisit(u) == ~stillLoading(u) /\ ~hasError(u) /\ walletsOf(u) = {}

\* The card under the hero.
card(u) ==
  IF hasError(u) THEN "error"
  ELSE IF isFirstVisit(u) /\ disk.watched = {} THEN "first"
  ELSE IF u.surface # "all" /\ visibleWallets(u) = {} /\ ~stillLoading(u) THEN "empty"
  ELSE "none"

\* After every render: the data is what the query last gave, and is kept for
\* the account that is connected now.
rendered(u) ==
  LET d == membershipsData(u)
  IN IF d = NoData THEN u ELSE [u EXCEPT !.prev = d, !.kept[u.addr] = d]

\* The entry the balances of a set of wallets are kept under.
balanceKey(ws) == ws

OrgsKey(a) == <<"orgs", a>>
BalKey(ws) == <<"bal", ws>>
balances(u) == u.bal[balanceKey(walletsOf(u))]
balanceLoading(u) == stillLoading(u) \/ (walletsOf(u) # {} /\ isLoading(balances(u)))

\* The lamports of the wallets shown; a wallet the answer has not counts 0.
totalLamports(u) ==
  IF ~Has(balances(u)) THEN 0
  ELSE FoldSet(LAMBDA w, s : s + remote.lamports[w], 0, visibleWallets(u) \cap balances(u).data)

SwitchAccount(a) ==
  /\ DeskAct /\ a # ui.addr /\ ui' = rendered([Acted EXCEPT !.addr = a])
  /\ UNCHANGED <<disk, remote, calls, ghost>>

ChooseSurface(s) ==
  /\ DeskAct /\ s # ui.surface /\ ui' = [Acted EXCEPT !.surface = s]
  /\ UNCHANGED <<disk, remote, calls, ghost>>

\* Another account's page or a teammate changes a roster.
ChangeMembers(a, w) ==
  /\ DeskAct /\ ui' = Acted
  /\ remote' = [remote EXCEPT !.member[a] = IF w \in @ THEN @ \ {w} ELSE @ \cup {w}]
  /\ UNCHANGED <<disk, calls, ghost>>

\* The watch list of the device.
addWatchedWallet(w) ==
  /\ DeskAct /\ ~hasError(ui) /\ ui.surface = "all" /\ w \notin disk.watched
  /\ disk' = [disk EXCEPT !.watched = @ \cup {w}]
  /\ ui' = Acted /\ UNCHANGED <<remote, calls, ghost>>

removeWatchedWallet(w) ==
  /\ DeskAct /\ ~hasError(ui) /\ ui.surface = "all" /\ w \in disk.watched
  /\ disk' = [disk EXCEPT !.watched = @ \ {w}]
  /\ ui' = Acted /\ UNCHANGED <<remote, calls, ghost>>

\* A query that is wanted is read when it is mounted, and now and then, and
\* on "Try again".
fetchMemberships ==
  /\ Desk /\ Cardinality(calls) < MaxReads /\ ~inFlight(OrgsKey(ui.addr))
  /\ calls' = calls \cup {read(OrgsKey(ui.addr))}
  /\ ui' = rendered([ui EXCEPT !.orgs[ui.addr] = refetching(@)])
  /\ isLoading(orgs(ui)) \/ ui.reads < MaxDeskActs
  /\ UNCHANGED <<disk, remote, ghost>>

\* The batch reads the vaults of the wallets of this render.
fetchBalances ==
  LET ws == walletsOf(ui)
      key == balanceKey(ws)
  IN /\ Desk /\ ws # {} /\ Cardinality(calls) < MaxReads /\ ~inFlight(BalKey(key))
     /\ ~Has(ui.bal[key])
     /\ calls' = calls \cup {[read(BalKey(key)) EXCEPT !.data = ws]}
     /\ ui' = [ui EXCEPT !.bal[key] = refetching(@)]
     /\ UNCHANGED <<disk, remote, ghost>>

\* An answer about balances names the wallets whose lamports it has.
answerOf(j) ==
  IF j.key[1] = "orgs" THEN remote.member[j.key[2]] ELSE j.data

Serve(j) ==
  /\ Desk /\ j.at = "sent"
  /\ calls' = (calls \ {j}) \cup {[j EXCEPT !.at = "read", !.data = answerOf(j)]}
  /\ UNCHANGED <<disk, remote, ui, ghost>>

Reply(j) ==
  /\ Desk /\ calls' = calls \ {j}
  /\ \/ /\ j.at = "read"
        /\ ui' = rendered(IF j.key[1] = "orgs"
                          THEN [ui EXCEPT !.orgs[j.key[2]] = answered(j.data), !.reads = @ + 1]
                          ELSE [ui EXCEPT !.bal[j.key[2]] = answered(j.data)])
        /\ ghost' = IF j.key[1] = "orgs"
                    THEN [ghost EXCEPT !.last[j.key[2]] = j.data] ELSE ghost
     \/ /\ ui' = rendered(IF j.key[1] = "orgs"
                          THEN [ui EXCEPT !.orgs[j.key[2]] = failed(@), !.reads = @ + 1]
                          ELSE [ui EXCEPT !.bal[j.key[2]] = failed(@)])
        /\ UNCHANGED ghost
  /\ UNCHANGED <<disk, remote>>

InitDesk ==
  /\ disk = [watched |-> {}]
  /\ \E m \in [Accounts -> SUBSET Wallets] :
       remote = [member |-> m, lamports |-> [w \in Wallets |-> w]]
  /\ calls = {}
  /\ ui = [part |-> "desk", acts |-> 0, reads |-> 0, addr |-> 1, surface |-> "all", prev |-> NoData,
           orgs |-> [a \in Accounts |-> Unread], kept |-> [a \in Accounts |-> NoData],
           bal |-> [ws \in SUBSET Wallets |-> Unread]]
  /\ ghost = [last |-> [a \in Accounts |-> NoData]]

NextDesk ==
  \/ fetchMemberships \/ fetchBalances
  \/ \E a \in Accounts : SwitchAccount(a) \/ \E w \in Wallets : ChangeMembers(a, w)
  \/ \E s \in {"all", "personal", "pro"} : ChooseSurface(s)
  \/ \E w \in Wallets : addWatchedWallet(w) \/ removeWatchedWallet(w)
  \/ \E j \in calls : Serve(j) \/ Reply(j)

-----------------------------------------------------------------------------
(* The requests of all wallets.  A list of proposals is kept under the     *)
(* wallet and the count its account named; an account's data is the set of *)
(* the numbers given so far.                                               *)

Rows == ui.part = "rows"
RowAct == Rows /\ ui.acts < MaxRowActs
Counts == 0..2

listKey(w) == Cardinality(ui.acct[w].data)

Members == IF Has(ui.mine) THEN ui.mine.data ELSE {}
ListsWanted == {w \in Members : Has(ui.acct[w])}
listOf(w) == ui.list[w][listKey(w)]

MineKey == <<"mine", 0, 0>>
AcctKey(w) == <<"acct", w, 0>>
ListKey(w, n) == <<"list", w, n>>
IntentsKey == <<"intents", 0, 0>>
ChainsKey == <<"chains", 0, 0>>      \* the wallet tab's chain histories

queryOf(key) ==
  CASE key[1] = "mine" -> ui.mine
    [] key[1] = "intents" -> ui.intents
    [] key[1] = "chains" -> ui.chains
    [] key[1] = "acct" -> ui.acct[key[2]]
    [] OTHER -> ui.list[key[2]][key[3]]

withQuery(u, key, q) ==
  CASE key[1] = "mine" -> [u EXCEPT !.mine = q]
    [] key[1] = "intents" -> [u EXCEPT !.intents = q]
    [] key[1] = "chains" -> [u EXCEPT !.chains = q]
    [] key[1] = "acct" -> [u EXCEPT !.acct[key[2]] = q]
    [] OTHER -> [u EXCEPT !.list[key[2]][key[3]] = q]

\* Which page is open: the requests of all wallets, those of one wallet, or the
\* activity tab of that wallet, which reads no intents but its chains.
Pages == {"all", "wallet", "tab"}
Shown == 1                           \* the wallet of the last two

\* The queries of the hooks, as they are observed now.
observed ==
  {MineKey, IF ui.page = "tab" THEN ChainsKey ELSE IntentsKey} \cup {AcctKey(w) : w \in Members}
    \cup {ListKey(w, listKey(w)) : w \in ListsWanted}

loading == \E k \in observed : isLoading(queryOf(k))
readError == \E k \in observed : queryOf(k).err
refreshing == \E j \in calls : j.key \in observed

allRows == UNION {listOf(w).data : w \in {v \in ListsWanted : Has(listOf(v))}}
pageRows == {r \in allRows : ui.page = "all" \/ r.wallet = Shown}
filtered == {r \in pageRows : /\ ui.filter.status \in {"all", r.status}
                              /\ ui.filter.wallet \in {0, r.wallet}}
NoFilter == [status |-> "all", wallet |-> 0]

\* "No activity yet", said of the page's wallets.
saysNoActivity == ~loading /\ ~readError /\ pageRows = {}

\* The program: a request is numbered by the wallet's count, then decided.
ProposeOn(w) ==
  /\ RowAct /\ Len(remote.status[w]) < Max(Counts)
  /\ remote' = [remote EXCEPT !.status[w] = Append(@, "active")]
  /\ ui' = Acted /\ UNCHANGED <<disk, calls, ghost>>

Decide(w, p) ==
  /\ RowAct /\ p \in DOMAIN remote.status[w] /\ remote.status[w][p] = "active"
  /\ remote' = [remote EXCEPT !.status[w][p] = "done"]
  /\ ui' = Acted /\ UNCHANGED <<disk, calls, ghost>>

JoinWallet(w) ==
  /\ RowAct /\ w \notin remote.mine
  /\ remote' = [remote EXCEPT !.mine = @ \cup {w}]
  /\ ui' = Acted /\ UNCHANGED <<disk, calls, ghost>>

\* The read of a list names the count of the account it was rendered with.
readRows(key) ==
  [read(key) EXCEPT !.upTo = IF key[1] # "list" THEN 0
                             ELSE IF key[2] \in ListsWanted /\ key[3] = listKey(key[2])
                             THEN Cardinality(ui.acct[key[2]].data) ELSE key[3]]

\* A query is read when it is mounted, and every so often.
poll(key) ==
  /\ Rows /\ key \notin {IntentsKey, ChainsKey} /\ key \in observed /\ ~inFlight(key) /\ Cardinality(calls) < MaxReads
  /\ \/ isLoading(queryOf(key)) /\ ui' = ui
     \/ /\ ~isLoading(queryOf(key)) /\ ui.acts < MaxRowActs
        /\ ui' = withQuery(Acted, key, refetching(queryOf(key)))
  /\ calls' = calls \cup {readRows(key)}
  /\ UNCHANGED <<disk, remote, ghost>>

\* The proposals of a wallet below the count the account named.
listProposalsForWallet(w, n) ==
  {[wallet |-> w, index |-> p, status |-> remote.status[w][p]] :
     p \in {q \in DOMAIN remote.status[w] : q <= n}}

ServeRows(j) ==
  /\ Rows /\ j.at = "sent"
  /\ LET w == j.key[2]
         d == CASE j.key[1] = "mine" -> remote.mine
                [] j.key[1] = "acct" -> DOMAIN remote.status[w]
                [] OTHER -> {}
         rows == IF j.key[1] = "list" THEN listProposalsForWallet(w, j.upTo) ELSE {}
     IN calls' = (calls \ {j}) \cup {[j EXCEPT !.at = "read", !.data = d, !.rows = rows]}
  /\ UNCHANGED <<disk, remote, ui, ghost>>

ReplyRows(j) ==
  /\ Rows /\ calls' = calls \ {j}
  /\ \/ /\ j.at = "read" /\ ui' = withQuery(ui, j.key, answered(IF j.key[1] = "list" THEN j.rows ELSE j.data))
        /\ ghost' = IF j.key[1] = "acct" THEN [ghost EXCEPT !.known[j.key[2]] = Cardinality(j.data)] ELSE ghost
     \/ RowAct /\ ui' = withQuery(Acted, j.key, failed(queryOf(j.key))) /\ UNCHANGED ghost
  /\ UNCHANGED <<disk, remote>>

\* refetch(): a read under way is dropped for a new one, unless the query has
\* no data yet: then it is shared.
refetchAll(u, keys) ==
  /\ calls' = {j \in calls : j.key \notin keys \/ ~Has(queryOf(j.key))}
                \cup {readRows(k) : k \in {l \in keys : Has(queryOf(l)) \/ ~inFlight(l)}}
  /\ ui' = [u EXCEPT
       !.acct = [w \in Wallets |-> IF AcctKey(w) \in keys THEN refetching(@[w]) ELSE @[w]],
       !.mine = IF MineKey \in keys THEN refetching(@) ELSE @,
       !.intents = IF IntentsKey \in keys THEN refetching(@) ELSE @,
       !.chains = IF ChainsKey \in keys THEN refetching(@) ELSE @,
       !.list = [w \in Wallets |-> [n \in Counts |->
                   IF ListKey(w, n) \in keys THEN refetching(@[w][n]) ELSE @[w][n]]]]

\* "Refresh history", offered while a read has failed: first the memberships,
\* then the accounts, then the lists, those this render knew.
clickRefresh ==
  /\ RowAct /\ readError /\ ~refreshing /\ ui.ref.at \in {"idle", "done"}
  /\ refetchAll([Acted EXCEPT
       !.ref = [at |-> "mine", wallets |-> Members,
                lists |-> {ListKey(w, listKey(w)) : w \in {v \in ListsWanted : ~isLoading(listOf(v))}}]],
       {MineKey, IF ui.page = "tab" THEN ChainsKey ELSE IntentsKey})
  /\ ghost' = [ghost EXCEPT !.want = [mine |-> remote.mine, status |-> remote.status]]
  /\ UNCHANGED <<disk, remote>>

refreshAccounts ==
  /\ Rows /\ ui.ref.at = "mine" /\ ~inFlight(MineKey)
  /\ refetchAll([ui EXCEPT !.ref.at = "accts"], {AcctKey(w) : w \in ui.ref.wallets})
  /\ UNCHANGED <<disk, remote, ghost>>

refreshProposals ==
  /\ Rows /\ ui.ref.at = "accts" /\ \A w \in ui.ref.wallets : ~inFlight(AcctKey(w))
  /\ refetchAll([ui EXCEPT !.ref.at = "lists"], ui.ref.lists)
  /\ UNCHANGED <<disk, remote, ghost>>

refreshEnds ==
  /\ Rows /\ ui.ref.at = "lists" /\ \A k \in ui.ref.lists : ~inFlight(k)
  /\ ui' = [ui EXCEPT !.ref = [at |-> "done", wallets |-> {}, lists |-> {}]]
  /\ UNCHANGED <<disk, remote, calls, ghost>>

NoFile == [made |-> FALSE, all |-> FALSE, of |-> "all", rows |-> {}]

\* Filters of the cross-wallet page are stored at every change, and read when
\* the page is opened.
withFilter(f) ==
  /\ ui' = [Acted EXCEPT !.filter = f]
  /\ disk' = IF ui.page = "all" THEN [disk EXCEPT !.filter = f] ELSE disk
  /\ UNCHANGED <<remote, calls, ghost>>

\* A tile of a status toggles it; one that counts nothing only switches off.
tile(st) ==
  /\ RowAct /\ ui.page = "all" /\ allRows # {} /\ ~readError
  /\ ui.filter.status = st \/ \E r \in allRows : r.status = st
  /\ withFilter([ui.filter EXCEPT !.status = IF @ = st THEN "all" ELSE st])

\* The menu of wallets lists those with a request.
setWalletFilter(w) ==
  /\ RowAct /\ ui.page = "all" /\ w # ui.filter.wallet
  /\ w = 0 \/ \E r \in allRows : r.wallet = w
  /\ withFilter([ui.filter EXCEPT !.wallet = w])

clearFilters ==
  /\ RowAct /\ ui.page = "all" /\ ~loading /\ ~readError /\ filtered = {} /\ allRows # {}
  /\ withFilter(NoFilter)

canExport == ~loading /\ ~readError

\* An export counts as whole only when nothing was filtered.
handleExport ==
  /\ RowAct /\ canExport /\ filtered # {}
  /\ ui' = [Acted EXCEPT !.file =
       [made |-> TRUE, all |-> ui.filter = NoFilter, of |-> ui.page, rows |-> filtered]]
  /\ ghost' = [ghost EXCEPT !.file = [w \in Wallets |-> IF w \in Members THEN ghost.known[w] ELSE 0]]
  /\ UNCHANGED <<disk, remote, calls>>

InitRows ==
  /\ disk \in [filter : {NoFilter, [status |-> "done", wallet |-> 0], [status |-> "all", wallet |-> 2]}]
  /\ remote = [mine |-> {1}, status |-> [w \in Wallets |-> IF w = 1 THEN <<"active">> ELSE <<>>]]
  /\ calls = {}
  /\ \E q \in {answered({}), failed(Unread)}, page \in Pages :
     /\ disk.filter # NoFilter => page = "all"
     /\ ui = [part |-> "rows", acts |-> 0, page |-> page, filter |-> disk.filter, file |-> NoFile,
           mine |-> Unread, intents |-> q, chains |-> q, acct |-> [w \in Wallets |-> Unread],
           list |-> [w \in Wallets |-> [n \in Counts |-> Unread]],
           ref |-> [at |-> "idle", wallets |-> {}, lists |-> {}]]
  /\ ghost = [known |-> [w \in Wallets |-> -1], file |-> [w \in Wallets |-> 0],
              want |-> [mine |-> {}, status |-> [w \in Wallets |-> <<>>]]]

NextRows ==
  \/ \E w \in Wallets : ProposeOn(w) \/ JoinWallet(w) \/ \E p \in Counts : Decide(w, p)
  \/ \E key \in observed : poll(key)
  \/ \E j \in calls : ServeRows(j) \/ ReplyRows(j)
  \/ clickRefresh \/ refreshAccounts \/ refreshProposals \/ refreshEnds
  \/ \E st \in {"active", "done"} : tile(st)
  \/ \E w \in {0} \cup Wallets : setWalletFilter(w)
  \/ clearFilters \/ handleExport

-----------------------------------------------------------------------------
(* The scan for votes.  Transactions of the request are numbered as they   *)
(* were finalized; a scan goes from the newest down.                       *)

Votes == ui.part = "votes"
PageSize == 2          \* signatures of a page
MaxPages == 2          \* pages of a scan
MaxVotes == 2          \* votes of a scan

\* A vote names a place in the roster and is signed by the key that held it;
\* current says that the rules it was cast under are those of today.
vote(member, key, current) == [kind |-> "vote", member |-> member, key |-> key, current |-> current]
plain(kind) == [kind |-> kind, member |-> 0, key |-> 0, current |-> TRUE]
Transactions ==
  {vote(1, 1, TRUE), vote(2, 3, TRUE), vote(1, 1, FALSE),
   [vote(1, 1, TRUE) EXCEPT !.kind = "two"], plain("inner"), plain("failed")}

\* The votes a transaction cast: "two" holds two vote instructions.
castBy(t) ==
  CASE remote.txs[t].kind = "vote" -> {<<t, 1>>}
    [] remote.txs[t].kind = "two" -> {<<t, 1>>, <<t, 2>>}
    [] OTHER -> {}

Land(tx) ==
  /\ Votes /\ Len(remote.txs) < MaxTxs /\ ui.scan.at \notin {"idle", "done"}
  /\ remote' = [remote EXCEPT !.txs = Append(@, tx)]
  /\ UNCHANGED <<disk, calls, ui, ghost>>

\* The provider forgets a transaction.
PruneTx(t) ==
  /\ Votes /\ remote.pruned = {} /\ ui.scan.at = "tx" /\ t \in DOMAIN remote.txs
  /\ remote' = [remote EXCEPT !.pruned = {t}]
  /\ UNCHANGED <<disk, calls, ui, ghost>>

\* The button.  The accounts are read, and the document if it can be.
loadProposalVoteHistory(document) ==
  /\ Votes /\ ui.scan.at = "idle"
  /\ ui' = [ui EXCEPT !.scan.at = "page", !.scan.document = document]
  /\ UNCHANGED <<disk, remote, calls, ghost>>

scanEnds(s) == [s EXCEPT !.at = "done"]

\* A page of the signatures older than the last one seen.  A page may fail,
\* or begin with a signature that was given before.
getSignatures ==
  LET s == ui.scan
      top == IF s.before = 0 THEN Len(remote.txs) ELSE s.before - 1
      from == {top} \cup (IF s.before = 0 THEN {} ELSE {s.before})
  IN /\ Votes /\ s.at = "page"
     /\ \/ ui' = [ui EXCEPT !.scan = scanEnds([s EXCEPT !.scanError = TRUE])]
        \/ \E f \in from :
             LET page == {t \in DOMAIN remote.txs : t <= f /\ t > f - PageSize}
             IN ui' = [ui EXCEPT !.scan =
                   IF page = {} THEN scanEnds(s)
                   ELSE [s EXCEPT !.at = "tx", !.todo = SetToSortSeq(page, >), !.size = Cardinality(page)]]
     /\ ghost' = IF s.page = 0 THEN [ghost EXCEPT !.from = Len(remote.txs)] ELSE ghost
     /\ UNCHANGED <<disk, remote, calls>>

\* The candidate is who holds the place today, named only if the signature
\* verifies under today's rules.
attributeVote(t) ==
  LET tx == remote.txs[t]
      candidate == remote.roster[tx.member]
  IN IF ui.scan.document /\ tx.current /\ candidate = tx.key THEN candidate ELSE 0

rowsOf(t) ==
  [i \in 1..Cardinality(castBy(t)) |-> [tx |-> t, at |-> i, signer |-> attributeVote(t)]]

seenBefore(s, t) == t \in s.seen

unavailable(s) == [s EXCEPT !.unavailable = @ + 1]

\* What the newest transaction of the page adds.
inspected(s, t) ==
  IF seenBefore(s, t) THEN {[s EXCEPT !.scanError = TRUE]}
  ELSE LET u == [s EXCEPT !.seen = @ \cup {t}]
           tx == remote.txs[t]
       IN CASE tx.kind = "failed" -> {u}
            [] tx.kind # "failed" /\ t \in remote.pruned -> {unavailable(u)}
            [] tx.kind # "failed" /\ t \notin remote.pruned
                 /\ Cardinality(castBy(t)) > MaxVotes - Len(s.rows) -> {unavailable(u)}
            [] OTHER -> {unavailable(u),
                         [u EXCEPT !.rows = @ \o rowsOf(t), !.inner = @ \/ tx.kind = "inner"]}

readBoundedVoteHistory ==
  LET s == ui.scan
      t == Head(s.todo)
  IN /\ Votes /\ s.at = "tx" /\ s.todo # <<>>
     /\ IF Len(s.rows) >= MaxVotes
        THEN ui' = [ui EXCEPT !.scan = scanEnds([s EXCEPT !.stopped = TRUE])]
        ELSE \E r \in inspected(s, t) :
               ui' = [ui EXCEPT !.scan = [r EXCEPT !.todo = Tail(@), !.before = t]]
     /\ UNCHANGED <<disk, remote, calls, ghost>>

lastPage(s) == [s EXCEPT !.stopped = TRUE]

\* A short page is the last one.
nextPage ==
  LET s == ui.scan
      n == [s EXCEPT !.page = @ + 1, !.at = "page"]
  IN /\ Votes /\ s.at = "tx" /\ s.todo = <<>>
     /\ ui' = [ui EXCEPT !.scan =
          IF s.size < PageSize THEN scanEnds(s)
          ELSE IF s.page = MaxPages - 1 THEN scanEnds(lastPage(s)) ELSE n]
     /\ UNCHANGED <<disk, remote, calls, ghost>>

InitVotes ==
  /\ disk = [none |-> 0]
  /\ \E n \in 0..(MaxTxs - 1), second \in {2, 3} :
       \E txs \in [1..n -> Transactions] :
         remote = [txs |-> txs, pruned |-> {}, roster |-> [m \in 1..2 |-> IF m = 1 THEN 1 ELSE second]]
  /\ calls = {}
  /\ ui = [part |-> "votes", acts |-> 0,
           scan |-> [at |-> "idle", document |-> FALSE, page |-> 0, before |-> 0, todo |-> <<>>,
                     size |-> 0, rows |-> <<>>, seen |-> {}, unavailable |-> 0, inner |-> FALSE,
                     stopped |-> FALSE, scanError |-> FALSE]]
  /\ ghost = [from |-> 0]

NextVotes ==
  \/ \E tx \in {vote(1, 1, TRUE), plain("failed")} : Land(tx)
  \/ \E t \in 1..MaxTxs : PruneTx(t)
  \/ \E document \in BOOLEAN : loadProposalVoteHistory(document)
  \/ getSignatures \/ readBoundedVoteHistory \/ nextPage

-----------------------------------------------------------------------------

Init == InitDesk \/ InitRows \/ InitVotes
Next == (Desk /\ NextDesk) \/ (Rows /\ NextRows) \/ (Votes /\ NextVotes)
Spec == Init /\ [][Next]_vars

-----------------------------------------------------------------------------
(* Properties.                                                             *)

IsQuery(q) == q.has \in BOOLEAN /\ q.err \in BOOLEAN

\* The page keeps one query per account, set of wallets, wallet or count; a
\* scan reads at most MaxPages pages and keeps at most MaxVotes votes
\* (WalletHomePage.tsx, useRecentActivity.ts, proposalVoteHistory.ts).
TypeOK ==
  CASE Desk -> /\ ui.addr \in Accounts /\ Cardinality(calls) <= MaxReads
               /\ \A a \in Accounts : IsQuery(ui.orgs[a]) /\ ui.kept[a] \in SUBSET (Wallets \cup {0})
               /\ DOMAIN ui.bal = SUBSET Wallets /\ disk.watched \subseteq Wallets
    [] Rows -> /\ ui.ref.at \in {"idle", "mine", "accts", "lists", "done"}
               /\ \A j, k \in calls : j.key = k.key => j = k
               /\ \A k \in observed : IsQuery(queryOf(k))
    [] Votes -> /\ ui.scan.page < MaxPages /\ Len(ui.scan.rows) <= MaxVotes
                /\ ui.scan.unavailable \in 0..(PageSize * MaxPages)

\* Once the read of the connected account has ended, well or badly, "Create
\* your first wallet" is shown only to an account whose last read found no
\* wallet: a failed read never sends its owner to create another one
\* (WalletHomePage.tsx, hasError and isFirstVisit).
FirstVisitIsTrue ==
  Desk /\ card(ui) = "first" /\ ~isLoading(orgs(ui)) => ghost.last[ui.addr] = {}

\* A balance that is shown and was read is the sum over the wallets shown, of
\* whichever account and product: none is counted 0 because the answer is
\* about another set of wallets (WalletHomePage.tsx, balancesQuery).
NoWalletCountedAsZero ==
  Desk /\ ~balanceLoading(ui) /\ walletsOf(ui) # {} /\ ~balances(ui).err =>
    totalLamports(ui) = FoldSet(LAMBDA w, s : s + remote.lamports[w], 0, visibleWallets(ui))

\* An export named "all" holds every request its wallets had when their
\* accounts were last read, however the reads of the three layers overlapped
\* or failed (activity/page.tsx handleExport, useRecentActivity.ts).
AllMeansAll ==
  Rows /\ ui.file.made /\ ui.file.all =>
    \A w \in {v \in Wallets : ui.file.of = "all" \/ v = Shown} : \A p \in 1..ghost.file[w] :
      \E r \in ui.file.rows : r.wallet = w /\ r.index = p

\* "No activity yet" is said only when every wallet of the page was read and
\* had no request (activity/page.tsx ActivityList, ActivityPanel.tsx).
NothingMeansNothing ==
  Rows /\ saysNoActivity =>
    \A w \in Members : (ui.page = "all" \/ w = Shown) => ghost.known[w] = 0

\* When a refresh has run and everything observed has been read without an
\* error, the rows show every request that existed when it was clicked, and a
\* decided one as decided, although the refresh walks the queries of an older
\* render (useRecentActivity.ts refresh).
RefreshCatchesUp ==
  Rows /\ ui.ref.at = "done" /\ ~loading /\ ~readError /\ ~refreshing =>
    \A w \in {v \in ghost.want.mine : ui.page = "all" \/ v = Shown} : \A p \in DOMAIN ghost.want.status[w] :
      \E r \in pageRows : /\ r.wallet = w /\ r.index = p
                          /\ ghost.want.status[w][p] = "done" => r.status = "done"

\* A scan that raised no flag shows every vote of the transactions that were
\* there when its first page was read, whatever landed, failed or was
\* forgotten meanwhile (proposalVoteHistory.ts readBoundedVoteHistory).
ScanIsHonest ==
  LET s == ui.scan
  IN Votes /\ s.at = "done" /\ s.unavailable = 0 /\ ~s.inner /\ ~s.stopped /\ ~s.scanError =>
       {<<s.rows[i].tx, s.rows[i].at>> : i \in DOMAIN s.rows} = UNION {castBy(t) : t \in 1..ghost.from}

\* No vote is shown twice, also when the provider's pages overlap
\* (proposalVoteHistory.ts seen).
VotesOnce ==
  Votes => \A i, j \in DOMAIN ui.scan.rows :
             ui.scan.rows[i].tx = ui.scan.rows[j].tx /\ ui.scan.rows[i].at = ui.scan.rows[j].at => i = j

\* Whoever is named signed that vote, even if the place in the roster has
\* changed hands since (proposalVoteHistory.ts attributeVote).
NamedSignerSigned ==
  Votes => \A i \in DOMAIN ui.scan.rows :
             LET r == ui.scan.rows[i] IN r.signer # 0 => r.signer = remote.txs[r.tx].key
=============================================================================
