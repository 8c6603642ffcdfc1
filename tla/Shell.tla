------------------------------- MODULE Shell -------------------------------
(***************************************************************************)
(* What stands between a browser and the wallets' pages (apps/web):        *)
(*                                                                         *)
(*   "lock"    the device PIN: the gate every page of the app mounts       *)
(*             behind, and the settings row that sets, changes and removes *)
(*             the PIN (lib/security/appLock.ts).  Two tabs share the PIN; *)
(*             each keeps its own note of being unlocked.                  *)
(*   "route"   where a visitor is sent (lib/hooks/useWalletGate.ts and the *)
(*             entry page), from the sign-in state, the product chosen and *)
(*             the memberships found.                                      *)
(*   "signer"  which key signs (DynamicWalletRuntimeProvider.tsx): a       *)
(*             Ledger and a sign-in wallet that come and go while a        *)
(*             message is being prepared.                                  *)
(*                                                                         *)
(* A behaviour is about one of the three, named by ui.part.  disk is what  *)
(* the browser keeps, remote what others decide, calls the work under way. *)
(***************************************************************************)
EXTENDS Integers, Sequences, FiniteSets, SequencesExt

CONSTANTS MaxLockActs,    \* steps of people in a behaviour about the lock
          MaxRouteActs,   \* the same for the routes
          MaxSignerActs,  \* the same for the signers
          MaxPinJobs      \* PIN checks and changes under way at a time

VARIABLES disk, remote, calls, ui, ghost

vars == <<disk, remote, calls, ui, ghost>>

Tabs == {1, 2}
Pins == {1, 2}                   \* 0: none configured; in a form, one it refuses
Forms == {"none", "set", "change", "disable"}
Views == {"closed", "checking", "gate", "app"}
Modes == {"gate", "set", "change", "disable"}
CooldownTries == 3               \* wrong tries before each check is delayed

Accounts == {1, 2}
Surfaces == {"personal", "pro", "secure", "payments"}
WalletSurfaces == {"personal", "pro", "secure"}
MaybeSurface == Surfaces \cup {"none"}
WalletIds == 0..4                \* 0 is a membership whose name is missing
Keys == {1, 2, 3}                \* 0: no key

Spent(n) == ui.acts < n
Acted == [ui EXCEPT !.acts = @ + 1]

-----------------------------------------------------------------------------
(* The device PIN.                                                         *)

Lock == ui.part = "lock"
LockAct == Lock /\ Spent(MaxLockActs)

\* Without a PIN the app is open; with one, as the tab's own note says.
getAppLockState(t) ==
  IF disk.pin = 0 THEN [hasPin |-> FALSE, unlocked |-> TRUE]
  ELSE [hasPin |-> TRUE, unlocked |-> disk.flag[t]]

\* A page load shows nothing until the lock has been read.
Load(t) ==
  [ui.tab[t] EXCEPT !.view = "checking", !.hasPin = FALSE, !.form = "none", !.tries = 0]

OpenTab(t) ==
  /\ LockAct /\ ui.tab[t].view = "closed"
  /\ ui' = [Acted EXCEPT !.tab[t] = Load(t)]
  /\ disk' = [disk EXCEPT !.flag[t] = FALSE]
  /\ ghost' = [ghost EXCEPT !.proved[t] = {}]
  /\ UNCHANGED <<remote, calls>>

\* Reloading or closing a tab ends the work it had under way.
Reload(t) ==
  /\ LockAct /\ ui.tab[t].view # "closed"
  /\ \E close \in BOOLEAN :
       ui' = [Acted EXCEPT !.tab[t] = IF close THEN [Load(t) EXCEPT !.view = "closed"] ELSE Load(t)]
  /\ calls' = {j \in calls : j.tab # t}
  /\ UNCHANGED <<disk, remote, ghost>>

AppLockOverlay(t) ==
  /\ Lock /\ ui.tab[t].view = "checking"
  /\ LET s == getAppLockState(t)
     IN ui' = [ui EXCEPT !.tab[t].view = IF ~s.hasPin \/ s.unlocked THEN "app" ELSE "gate",
                         !.tab[t].hasPin = s.hasPin]
  /\ ghost' = [ghost EXCEPT !.mounted[t] = ghost.gen]
  /\ UNCHANGED <<disk, remote, calls>>

Job(t, mode, at, typed, next) ==
  [tab |-> t, mode |-> mode, at |-> at, typed |-> typed, next |-> next, known |-> disk.pin,
   was |-> disk.pin]

AddJob(j) == Cardinality(calls) < MaxPinJobs /\ calls' = calls \cup {j}
StepJob(j, k) == calls' = (calls \ {j}) \cup {k}
EndJob(j) == calls' = calls \ {j}

gateBusy(t) == \E j \in calls : j.tab = t /\ j.mode = "gate"

\* The gate checks one PIN at a time, later ones after a delay.
handleSubmit(t, pin) ==
  /\ LockAct /\ ui.tab[t].view = "gate" /\ ~gateBusy(t)
  /\ AddJob(Job(t, "gate", "cool", pin, 0)) /\ ui' = Acted
  /\ UNCHANGED <<disk, remote, ghost>>

\* After the delay the stored PIN is read; if it is gone the check fails.
verifyPin(j) ==
  /\ Lock /\ j.at = "cool"
  /\ IF disk.pin = 0 THEN EndJob(j) ELSE StepJob(j, [j EXCEPT !.at = "verify", !.known = disk.pin])
  /\ UNCHANGED <<disk, remote, ui, ghost>>

\* What the settings row offers follows the PIN it saw when it last looked.
offers(t) == IF ui.tab[t].hasPin THEN {"change", "disable"} ELSE {"set"}

EditPin(t, f) ==
  /\ LockAct /\ ui.tab[t].view = "app" /\ f \in offers(t)
  /\ ui' = [Acted EXCEPT !.tab[t].form = IF ui.tab[t].form = f THEN "none" ELSE f]
  /\ UNCHANGED <<disk, remote, calls, ghost>>

\* Submitting reads the stored PIN at once, or goes straight to the new one.
submit(t, typed, next) ==
  LET f == ui.tab[t].form
  IN /\ LockAct /\ f # "none" /\ ~\E j \in calls : j.tab = t /\ j.mode = f
     /\ IF f = "set"
        THEN next # 0 /\ AddJob(Job(t, f, "hash", 0, next))
        ELSE disk.pin # 0 /\ AddJob(Job(t, f, "verify", typed, next))
     /\ ui' = Acted /\ UNCHANGED <<disk, remote, ghost>>

onSaved(t, pin) == [ui EXCEPT !.tab[t].hasPin = pin # 0, !.tab[t].form = "none"]

clearPin(j) ==
  /\ disk' = [disk EXCEPT !.pin = 0, !.flag[j.tab] = FALSE]
  /\ ui' = onSaved(j.tab, 0)
  /\ ghost' = [ghost EXCEPT !.gen = 0, !.by = j]

\* The check compares with the record it read when it began.
verified(j) == j.known = j.typed

\* The hash of the typed PIN is ready.
Verified(j) ==
  /\ Lock /\ j.at = "verify"
  /\ CASE j.mode = "gate" /\ verified(j) ->
            /\ EndJob(j)
            /\ disk' = [disk EXCEPT !.flag[j.tab] = TRUE]
            /\ ui' = [ui EXCEPT !.tab[j.tab].view = "app", !.tab[j.tab].tries = 0]
            /\ ghost' = [ghost EXCEPT !.proved[j.tab] = @ \cup {ghost.gen}]
       [] j.mode = "gate" /\ ~verified(j) ->
            /\ EndJob(j)
            /\ ui' = [ui EXCEPT !.tab[j.tab].tries = IF @ = CooldownTries THEN @ ELSE @ + 1]
            /\ UNCHANGED <<disk, ghost>>
       [] j.mode = "disable" /\ verified(j) -> EndJob(j) /\ clearPin(j)
       [] j.mode = "change" /\ verified(j) /\ j.next # 0 ->
            StepJob(j, [j EXCEPT !.at = "hash"]) /\ UNCHANGED <<disk, ui, ghost>>
       [] OTHER -> EndJob(j) /\ UNCHANGED <<disk, ui, ghost>>
  /\ UNCHANGED remote

\* The hash of the new PIN is ready: it is stored, and opens this tab.
setPin(j) ==
  /\ Lock /\ j.at = "hash" /\ EndJob(j)
  /\ disk' = [disk EXCEPT !.pin = j.next, !.flag[j.tab] = TRUE]
  /\ ui' = onSaved(j.tab, j.next)
  /\ ghost' = [ghost EXCEPT !.made = @ + 1, !.gen = ghost.made + 1, !.by = j,
                            !.proved[j.tab] = @ \cup {ghost.made + 1}]
  /\ UNCHANGED remote

lockNow(t) == disk' = [disk EXCEPT !.flag[t] = FALSE]

handleLockNow(t) ==
  /\ LockAct /\ ui.tab[t].view = "app" /\ ui.tab[t].hasPin
  /\ lockNow(t) /\ ui' = [Acted EXCEPT !.tab[t] = Load(t)]
  /\ calls' = {j \in calls : j.tab # t}
  /\ ghost' = [ghost EXCEPT !.proved[t] = {}] /\ UNCHANGED remote

-----------------------------------------------------------------------------
(* Routes.  A page is its place, the wallet it is about and the product    *)
(* named in its address; /connect also carries the page to go on to.       *)

Route == ui.part = "route"
RouteAct == Route /\ Spent(MaxRouteActs)

Page(at, w, s) == [at |-> at, w |-> w, s |-> s]
NoPage == Page("none", 0, "none")
SECURE_WORKSPACE == Page("secure", 0, "secure")
WalletPage(w) == Page("wallet", w, "none")
AppEntry == Page("entry", 0, "none")
Places == {"none", "home", "public", "connect", "entry", "hub", "new", "setup", "secure", "wallet", "send"}
isProtected(p) == p.at \in {"entry", "hub", "new", "setup", "secure", "wallet", "send"}

\* Pages a person may open by an address or a link.
Openable == {Page("home", 0, "none"), Page("connect", 0, "none"), Page("public", 0, "none"),
             AppEntry, Page("entry", 0, "pro"), Page("hub", 0, "none"), SECURE_WORKSPACE,
             Page("send", 3, "none")}

resolveWalletProductSurface(w) ==
  CASE w \in {1, 2} -> "personal" [] w = 3 -> "pro" [] OTHER -> "none"

\* The wallets in a list of memberships that carry a name.
named(ms) == SelectSeq(ms, LAMBDA w : w # 0)
ofSurface(ms, s) == {w \in ToSet(named(ms)) : resolveWalletProductSurface(w) = s}

productSetupHref(s) == Page("setup", 0, s)
firstProductDestination(s) == IF s = "secure" THEN SECURE_WORKSPACE ELSE productSetupHref(s)

isProductLandingNext(next) ==
  /\ next.s # "none"
  /\ next.at = IF next.s = "secure" THEN "secure" ELSE "entry"

\* The wallets to choose from when the product has more than one.
productWalletSelection(s, ms) ==
  IF s \in {"personal", "pro"} /\ Cardinality(ofSurface(ms, s)) > 1 THEN ofSurface(ms, s) ELSE {}

productDestinationForSurface(s, ms) ==
  IF s \notin WalletSurfaces THEN AppEntry
  ELSE IF s = "secure" THEN SECURE_WORKSPACE
  ELSE LET found == ofSurface(ms, s)
       IN CASE Cardinality(found) = 1 -> WalletPage(CHOOSE w \in found : TRUE)
            [] found = {} /\ 0 \notin ToSet(ms) -> productSetupHref(s)
            [] OTHER -> AppEntry

\* The wallet an account last opened under a product, in this tab.
readSelectedProductWalletHref(a, s) == IF s = "none" THEN 0 ELSE disk.href[a][s]

readSelectedProductSurface(a) == IF disk.sel[a] # "none" THEN disk.sel[a] ELSE disk.global

saveSelectedProductSurface(d, s, a) == [d EXCEPT !.global = s, !.sel[a] = s]

orElse(s, t) == IF s # "none" THEN s ELSE t

connectPreferredSurface(a) ==
  orElse(ui.page.s, orElse(ui.next.s, orElse(disk.pending, readSelectedProductSurface(a))))

In == ui.wallet = "in"
me == ui.acct

discoveryRequired ==
  /\ In /\ ui.page.at = "connect"
  /\ readSelectedProductWalletHref(me, connectPreferredSurface(me)) = 0
  /\ ui.next = NoPage \/ isProductLandingNext(ui.next)

\* Where a page load leaves the tab; /connect remembers the product named.
Arrive(p, next) == [ui EXCEPT !.page = p, !.next = next, !.q = "fetching"]
rememberProductSurfaceChoice(d, p, next) ==
  LET s == orElse(p.s, next.s)
  IN IF p.at = "connect" /\ s # "none" THEN [d EXCEPT !.global = s, !.pending = s] ELSE d

Redirected(p, next, d, why) ==
  /\ ui' = Arrive(p, next)
  /\ disk' = rememberProductSurfaceChoice(d, p, next)
  /\ ghost' = [ghost EXCEPT !.hops = IF @ = 5 THEN 5 ELSE @ + 1, !.why = why,
                            !.wanted = IF why = "bounce" THEN next
                                       ELSE IF ui.page.at = "connect" THEN @ ELSE NoPage]
  /\ UNCHANGED <<remote, calls>>

settled(d, s) == IF s = "none" THEN d ELSE [saveSelectedProductSurface(d, s, me) EXCEPT !.pending = "none"]

explicitGoesFirst(w) == ui.next # NoPage /\ ~isProductLandingNext(ui.next)

ms == remote[me]

\* A signed-in visitor leaves /connect.
GateConnect ==
  LET pref == connectPreferredSurface(me)
      remembered == readSelectedProductWalletHref(me, pref)
      chosen == orElse(ui.page.s, orElse(ui.next.s, disk.pending))
      after == settled(disk, chosen)
      fallback == orElse(chosen, readSelectedProductSurface(me))
  IN /\ Route /\ In /\ ui.page.at = "connect"
     /\ CASE explicitGoesFirst(remembered) ->
               Redirected(ui.next, NoPage, settled(disk, orElse(ui.next.s, ui.page.s)), "next")
          [] ~explicitGoesFirst(remembered) /\ remembered # 0 ->
               Redirected(WalletPage(remembered), NoPage, [disk EXCEPT !.pending = "none"], "remembered")
          [] OTHER ->
               /\ discoveryRequired /\ ui.q = "ok"
               /\ IF ms = <<>>
                  THEN Redirected(IF chosen # "none" THEN firstProductDestination(chosen) ELSE Page("home", 0, "none"),
                                  NoPage, after, "first")
                  ELSE IF fallback # "none" /\ productWalletSelection(fallback, ms) # {}
                  THEN /\ disk # after /\ disk' = after /\ UNCHANGED <<remote, calls, ui, ghost>>
                  ELSE Redirected(IF fallback = "none" THEN AppEntry ELSE productDestinationForSurface(fallback, ms),
                                  NoPage, after, "found")

\* A public page a signed-in visitor is taken away from.
publicConnectedDestination(s) ==
  IF readSelectedProductWalletHref(me, s) # 0 THEN WalletPage(readSelectedProductWalletHref(me, s))
  ELSE IF s = "secure" THEN SECURE_WORKSPACE ELSE AppEntry

GatePublic ==
  /\ Route /\ ui.page.at = "public"
  /\ \/ /\ In
        /\ Redirected(publicConnectedDestination(orElse(disk.pending, readSelectedProductSurface(me))), NoPage,
                      settled(disk, disk.pending), "public")
     \/ ui.wallet = "nosol" /\ Redirected(Page("connect", 0, "none"), NoPage, disk, "mint")

\* A signed-out visitor on a page of the app is asked to sign in first.
GateProtected ==
  /\ Route /\ ui.wallet = "out" /\ isProtected(ui.page)
  /\ Redirected(Page("connect", 0, "none"), ui.page, disk, "bounce")

\* The first wallet with a name, or else the page that makes one.  A list
\* that could not be read counts as empty.
entryDestination(list) ==
  LET home == named(list)
      s == orElse(disk.pending, readSelectedProductSurface(me))
  IN IF home # <<>> THEN WalletPage(Head(home))
     ELSE IF s # "none" THEN productSetupHref(s) ELSE Page("new", 0, "none")

AppEntryPage ==
  /\ Route /\ In /\ ui.page.at = "entry" /\ ui.q \in {"ok", "error"}
  /\ Redirected(entryDestination(IF ui.q = "ok" THEN ms ELSE <<>>), NoPage, disk,
                IF ui.q = "ok" THEN "entry" ELSE "unread")

\* The list of wallets takes up a product chosen before signing in.
WalletHomePage ==
  /\ Route /\ In /\ ui.page.at = "hub" /\ disk.pending \in WalletSurfaces
  /\ disk' = settled(disk, disk.pending) /\ UNCHANGED <<remote, calls, ui, ghost>>

fetchOnchainMemberships ==
  /\ Route /\ In /\ ui.q = "fetching" /\ (discoveryRequired \/ ui.page.at = "entry")
  /\ \E r \in {"ok", "error"} : ui' = [ui EXCEPT !.q = r]
  /\ UNCHANGED <<disk, remote, calls, ghost>>

Anew(g) == [g EXCEPT !.hops = 0]

RetryDiscovery ==
  /\ RouteAct /\ discoveryRequired /\ ui.q = "error"
  /\ ui' = [Acted EXCEPT !.q = "fetching"] /\ ghost' = Anew(ghost)
  /\ UNCHANGED <<disk, remote, calls>>

Visit(p) ==
  /\ RouteAct /\ ui' = [Arrive(p, NoPage) EXCEPT !.acts = @ + 1]
  /\ ghost' = [Anew(ghost) EXCEPT !.wanted = NoPage, !.why = "visit"]
  /\ UNCHANGED <<disk, remote, calls>>

\* A product's own link leads to /connect and notes the product.
FollowProduct(s) ==
  /\ RouteAct /\ ui.page.at \in {"home", "public"} /\ ~(ui.page.at = "public" /\ ui.wallet # "out")
  /\ ui' = [Arrive(Page("connect", 0, s), NoPage) EXCEPT !.acts = @ + 1]
  /\ disk' = rememberProductSurfaceChoice(disk, Page("connect", 0, s), NoPage)
  /\ ghost' = [Anew(ghost) EXCEPT !.wanted = NoPage, !.why = "visit"]
  /\ UNCHANGED <<remote, calls>>

\* Signing in may leave the wallet still to be made.
SignIn(a) ==
  /\ RouteAct
  /\ \/ ui.wallet \in {"out", "loading"} /\ ui.page.at = "connect"
     \/ ui.wallet = "loading"
  /\ \E st \in {"in", "nosol"} :
       ui' = [Acted EXCEPT !.wallet = st, !.acct = IF st = "in" THEN a ELSE 0, !.q = "fetching"]
  /\ ghost' = Anew(ghost) /\ UNCHANGED <<disk, remote, calls>>

LoadedOut ==
  /\ Route /\ ui.wallet = "loading" /\ ui' = [ui EXCEPT !.wallet = "out"]
  /\ UNCHANGED <<disk, remote, calls, ghost>>

Minted(a) ==
  /\ Route /\ ui.wallet = "nosol"
  /\ ui' = [ui EXCEPT !.wallet = "in", !.acct = a, !.q = "fetching"]
  /\ UNCHANGED <<disk, remote, calls, ghost>>

SignOut ==
  /\ RouteAct /\ In
  /\ ui' = [Acted EXCEPT !.wallet = "out", !.acct = 0]
  /\ ghost' = [Anew(ghost) EXCEPT !.wanted = NoPage] /\ UNCHANGED <<disk, remote, calls>>

\* Choosing one of several wallets remembers it for the account.
handleSelect(w) ==
  LET s == connectPreferredSurface(me)
  IN /\ RouteAct /\ discoveryRequired /\ ui.q = "ok" /\ s # "none" /\ w \in productWalletSelection(s, ms)
     /\ disk' = [settled(disk, s) EXCEPT !.href[me][s] = w]
     /\ ui' = [Arrive(WalletPage(w), NoPage) EXCEPT !.acts = @ + 1]
     /\ ghost' = [Anew(ghost) EXCEPT !.why = "select", !.wanted = NoPage]
     /\ UNCHANGED <<remote, calls>>

-----------------------------------------------------------------------------
(* Signers.  ui.ledger is the key of the Ledger session, ui.dyn that of    *)
(* the sign-in wallet, as rendered; a signing keeps the render it began in.*)

Signer == ui.part = "signer"
SignerAct == Signer /\ Spent(MaxSignerActs)

Render == [ledger |-> ui.ledger, dyn |-> ui.dyn]
publicKey(r) == IF r.ledger # 0 THEN r.ledger ELSE r.dyn

pickSigner(r, approvers) ==
  CASE r.ledger # 0 /\ r.ledger \in approvers -> r.ledger
    [] r.dyn # 0 /\ r.dyn \in approvers /\ ~(r.ledger # 0 /\ r.ledger \in approvers) -> r.dyn
    [] OTHER -> 0

\* Does a preferred key match one held?  Unknown without both.
matchOf(prefer, key) == IF prefer = 0 \/ key = 0 THEN "unknown" ELSE IF prefer = key THEN "yes" ELSE "no"

\* Which of the two signs, if any.
signerFor(r, prefer) ==
  LET l == matchOf(prefer, r.ledger)
      d == matchOf(prefer, r.dyn)
      useLedger == l = "yes" \/ (l = "unknown" /\ d # "yes" /\ r.ledger # 0)
      useDynamic == d = "yes" \/ (d = "unknown" /\ ~useLedger)
  IN IF useLedger /\ r.ledger # 0 THEN "ledger" ELSE IF useDynamic /\ r.dyn # 0 THEN "dynamic" ELSE "none"

\* A request picks its signer, or asks for none in particular, and prepares
\* the message to sign.
StartSigning(approvers) ==
  /\ SignerAct /\ calls = {} /\ publicKey(Render) # 0
  /\ \E prefer \in {0, pickSigner(Render, approvers)} :
       /\ (approvers # {} => prefer # 0) /\ (approvers = {} => prefer = 0)
       /\ \E at \in IF approvers = {} THEN {"prepare", "tx"} ELSE {"prepare"} :
            calls' = {[r |-> Render, prefer |-> prefer, ap |-> approvers, at |-> at]}
  /\ ui' = Acted /\ UNCHANGED <<disk, remote, ghost>>

Signed(k, j) ==
  /\ calls' = {} /\ ghost' = [ghost EXCEPT !.sig = [by |-> k, prefer |-> j.prefer, shown |-> publicKey(j.r), ap |-> j.ap]]

\* A browser wallet signs only while it has the expected account open.
signMessageWithInjectedProvider(j) == remote.inj # 0 /\ remote.inj = j.r.dyn /\ Signed(j.r.dyn, j)
signDynamicSolanaMessage(j) == remote.embedded = j.r.dyn /\ Signed(j.r.dyn, j)
signOffchainMessage(j) == remote.device = j.r.ledger /\ ui.ledger = j.r.ledger /\ Signed(j.r.ledger, j)

\* The prepared message is signed, or the signer is gone and nothing is.
signMessage(j) ==
  /\ Signer /\ j.at = "prepare"
  /\ LET by == signerFor(j.r, j.prefer)
     IN \/ by = "ledger" /\ signOffchainMessage(j)
        \/ by = "dynamic" /\ (signMessageWithInjectedProvider(j) \/ signDynamicSolanaMessage(j))
        \/ calls' = {} /\ UNCHANGED ghost
  /\ UNCHANGED <<disk, remote, ui>>

\* A whole transaction is signed by the sign-in wallet alone, and neither
\* with a Ledger in use nor by a wallet made at sign-in.
signTransaction(j) ==
  /\ Signer /\ j.at = "tx"
  /\ \/ /\ j.r.ledger = 0 /\ remote.embedded # j.r.dyn
        /\ signMessageWithInjectedProvider(j) \/ Signed(j.r.dyn, j)
     \/ calls' = {} /\ UNCHANGED ghost
  /\ UNCHANGED <<disk, remote, ui>>

\* Opening the device: a transport, its key, and then the session.
connectLedger ==
  /\ SignerAct /\ remote.device # 0 /\ ui.opening = 0
  /\ disk' = [disk EXCEPT !.made = @ + 1, !.open = @ \cup {disk.made + 1}]
  /\ ui' = [Acted EXCEPT !.opening = disk.made + 1, !.key = remote.device] /\ UNCHANGED <<remote, calls, ghost>>

closeOld(open) == open \ {ui.transport}

AdoptLedger ==
  /\ Signer /\ ui.opening # 0
  /\ IF remote.device = ui.key
     THEN /\ ui' = [ui EXCEPT !.ledger = ui.key, !.transport = ui.opening, !.opening = 0, !.key = 0]
          /\ disk' = [disk EXCEPT !.open = closeOld(@)]
     ELSE /\ ui' = [ui EXCEPT !.opening = 0, !.key = 0]
          /\ disk' = [disk EXCEPT !.open = @ \ {ui.opening}]
  /\ UNCHANGED <<remote, calls, ghost>>

\* The person disconnects, or any device is unplugged: the session ends.
disconnectLedger ==
  /\ SignerAct /\ ui.ledger # 0
  /\ \E d \in {0, remote.device} : remote' = [remote EXCEPT !.device = d]
  /\ ui' = [Acted EXCEPT !.ledger = 0, !.transport = 0]
  /\ disk' = [disk EXCEPT !.open = @ \ {ui.transport}] /\ UNCHANGED <<calls, ghost>>

PlugIn(k) ==
  /\ SignerAct /\ remote.device = 0 /\ remote' = [remote EXCEPT !.device = k]
  /\ ui' = Acted /\ UNCHANGED <<disk, calls, ghost>>

\* Signing in, out or with another account, and switching the account a
\* browser wallet has open.
selectSolanaWallet(k) ==
  /\ SignerAct /\ k # ui.dyn
  /\ ui' = [Acted EXCEPT !.dyn = k]
  /\ \E e \in {0, k} : remote' = [remote EXCEPT !.embedded = e]
  /\ UNCHANGED <<disk, calls, ghost>>
SwitchInjected(k) ==
  /\ SignerAct /\ k # remote.inj /\ remote' = [remote EXCEPT !.inj = k]
  /\ ui' = Acted /\ UNCHANGED <<disk, calls, ghost>>

-----------------------------------------------------------------------------
Lists == {<<>>, <<1>>, <<1, 2, 3>>, <<4>>, <<0>>, <<0, 3>>}

InitLock ==
  /\ disk \in [pin : {0, 1}, flag : {[t \in Tabs |-> FALSE]}]
  /\ ui = [part |-> "lock", acts |-> 0,
           tab |-> [t \in Tabs |-> [view |-> "closed", hasPin |-> FALSE, form |-> "none", tries |-> 0]]]
  /\ remote = "none"
  /\ ghost = [made |-> disk.pin, gen |-> disk.pin, by |-> {}, mounted |-> [t \in Tabs |-> 0],
              proved |-> [t \in Tabs |-> {}]]

InitRoute ==
  /\ remote \in [Accounts -> Lists] /\ remote[2] \in {<<>>, <<1, 2, 3>>}
  /\ disk = [global |-> "none", sel |-> [a \in Accounts |-> "none"], pending |-> "none",
             href |-> [a \in Accounts |-> [s \in Surfaces |-> 0]]]
  /\ \E p \in Openable :
       ui = [part |-> "route", acts |-> 0, page |-> p, next |-> NoPage, wallet |-> "loading", acct |-> 0,
             q |-> "fetching"]
  /\ ghost = [hops |-> 0, why |-> "visit", wanted |-> NoPage]

InitSigner ==
  /\ remote = [device |-> 1, embedded |-> 2, inj |-> 0]
  /\ disk = [made |-> 0, open |-> {}]
  /\ ui = [part |-> "signer", acts |-> 0, ledger |-> 0, dyn |-> 2, transport |-> 0, opening |-> 0, key |-> 0]
  /\ ghost = [sig |-> [by |-> 0, prefer |-> 0, shown |-> 0, ap |-> {}]]

Init == calls = {} /\ (InitLock \/ InitRoute \/ InitSigner)

LockNext ==
  \/ \E t \in Tabs :
       \/ OpenTab(t) \/ Reload(t) \/ AppLockOverlay(t) \/ handleLockNow(t)
       \/ \E p \in Pins : handleSubmit(t, p)
       \/ \E f \in Forms \ {"none"} : EditPin(t, f)
       \/ \E p \in Pins, n \in Pins \cup {0} : submit(t, p, n)
  \/ \E j \in calls : verifyPin(j) \/ Verified(j) \/ setPin(j)

RouteNext ==
  \/ GateConnect \/ GatePublic \/ GateProtected \/ AppEntryPage \/ WalletHomePage
  \/ fetchOnchainMemberships \/ RetryDiscovery \/ SignOut \/ LoadedOut
  \/ \E p \in Openable : Visit(p)
  \/ \E s \in Surfaces : FollowProduct(s)
  \/ \E a \in Accounts : SignIn(a) \/ Minted(a)
  \/ \E w \in 1..3 : handleSelect(w)

SignerNext ==
  \/ \E ap \in SUBSET Keys : StartSigning(ap)
  \/ \E j \in calls : signMessage(j) \/ signTransaction(j)
  \/ connectLedger \/ AdoptLedger \/ disconnectLedger
  \/ \E k \in {1, 3} : PlugIn(k)
  \/ \E k \in Keys \cup {0} : selectSolanaWallet(k) \/ SwitchInjected(k)

Next == (Lock /\ LockNext) \/ (Route /\ RouteNext) \/ (Signer /\ SignerNext)

Spec == Init /\ [][Next]_vars

-----------------------------------------------------------------------------
(* Type invariant.                                                         *)
TypeOK ==
  CASE Lock ->
         /\ disk.pin \in Pins \cup {0} /\ disk.flag \in [Tabs -> BOOLEAN]
         /\ ui.tab \in [Tabs -> [view : Views, hasPin : BOOLEAN, form : Forms, tries : 0..CooldownTries]]
         /\ Cardinality(calls) <= MaxPinJobs
         /\ \A j \in calls : j.mode \in Modes /\ j.at \in {"cool", "verify", "hash"} /\ j.tab \in Tabs
         /\ ghost.gen = 0 <=> disk.pin = 0
    [] Route ->
         /\ disk.global \in MaybeSurface /\ disk.pending \in MaybeSurface
         /\ disk.sel \in [Accounts -> MaybeSurface] /\ disk.href \in [Accounts -> [Surfaces -> WalletIds]]
         /\ ui.page.at \in Places \ {"none"} /\ ui.page.s \in MaybeSurface /\ ui.page.w \in WalletIds
         /\ ui.next # NoPage => ui.page.at = "connect" /\ isProtected(ui.next)
         /\ In <=> ui.acct \in Accounts
    [] OTHER ->
         /\ disk.open \subseteq 1..disk.made /\ {ui.ledger, ui.dyn, ui.key} \subseteq Keys \cup {0}
         /\ ui.ledger = 0 <=> ui.transport = 0
         /\ Cardinality(calls) <= 1

\* A tab that loaded the app while the device had a PIN, and shows wallets,
\* was given a PIN of the device since it was opened or last locked, in
\* whatever order other tabs set, change or remove the PIN.
WalletsBehindPin ==
  Lock => \A t \in Tabs : ui.tab[t].view = "app" /\ ghost.mounted[t] # 0 => ghost.proved[t] # {}

\* appLock.ts calls a tab unlocked when it "has been unlocked since the PIN
\* was set": the PIN that was given is the one the device had when the tab
\* loaded.
UnlockedSinceSet ==
  Lock => \A t \in Tabs : ui.tab[t].view = "app" /\ ghost.mounted[t] # 0 => ghost.mounted[t] \in ghost.proved[t]

\* A PIN is replaced or removed only by somebody who typed the PIN that was
\* in force when they sent the form, or through a form that was opened when
\* the page knew of no PIN.
PinChangedByKnower ==
     Lock /\ disk.pin # 0 /\ disk'.pin # disk.pin =>
       ghost'.by.mode = "set" \/ ghost'.by.typed = ghost'.by.was

\* The redirects that follow a person's step come to an end: no chain of
\* pages that send a visitor on is longer than four.
RedirectsEnd == Route => ghost.hops <= 4

\* Somebody sent to sign in while opening a page is taken to that page when
\* the redirect leaves /connect, not to a wallet opened earlier.
AskedPageReached ==
  Route /\ ghost.wanted # NoPage /\ ~isProductLandingNext(ghost.wanted) =>
             ghost.why \in {"bounce", "next", "visit", "mint"} /\ (ghost.why = "next" => ui.page = ghost.wanted)

\* An account is sent on to a wallet only if it is among its own
\* memberships, although several accounts use the browser in turn.
SentToOwnWallet ==
  Route /\ In /\ ui.page.at = "wallet" /\ ghost.why \in {"remembered", "found", "entry", "public"} =>
    ui.page.w \in ToSet(ms)

\* A signature comes from the key that was picked for the request, one of
\* its approvers, or, when none was picked, from the key the page showed;
\* whatever was plugged in, signed out or switched in the meantime.
SignedByChosen ==
  Signer /\ ghost.sig.by # 0 =>
    /\ ghost.sig.by = (IF ghost.sig.prefer # 0 THEN ghost.sig.prefer ELSE ghost.sig.shown)
    /\ ghost.sig.ap # {} => ghost.sig.by \in ghost.sig.ap

\* Every transport to a device is the one in use or the one being opened.
NoTransportLeft == Signer => disk.open \subseteq {ui.transport, ui.opening}
=============================================================================
