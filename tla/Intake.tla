------------------------------- MODULE Intake -------------------------------
(***************************************************************************)
(* How ideas of an outside trader come in, and who may manage them         *)
(* (api/agent-signals, lib/agents/serverInbox, the trader's connection     *)
(* page, lib/auth/walletAuthorization).  A behaviour is about one of       *)
(*   "door"     signals that are signed, sent, sent again and judged,      *)
(*   "rotation" the same while the password changes,                       *)
(*   "page"     the connection page that registers the passwords,          *)
(*   "members"  the check of who asks, before any private route answers.   *)
(* The store is Redis, where each command is a step of its own and may     *)
(* fail, or the memory of the server, which a restart empties.  Time is    *)
(* counted in steps of the freshness limit; the limits keep their order.   *)
(* The trade that a new signal may start at once is a step of AgentRuntime. *)
(***************************************************************************)
EXTENDS Integers, Sequences, FiniteSets

CONSTANTS MaxPosts, MaxTicks,  \* of the door
          MaxConnects,         \* acts on the connection pages
          MaxRequests          \* requests of members and changes around them

VARIABLES disk, remote, calls, ui, ghost

vars == <<disk, remote, calls, ui, ghost>>

Slots == {1, 2}
Devices == {"a", "b"}          \* each browser makes management keys of its own
Ids == {1, 2}                  \* clientSignalId
MaxItems == 1                  \* MAX_ITEMS_PER_AGENT
SignalAge == 1                 \* MAX_SIGNAL_AGE_MS of the route, 10 minutes
SignalSkew == 1                \* MAX_SIGNAL_FUTURE_SKEW_MS of the route, 2 minutes
InboxSkew == 2                 \* of the inbox, 5 minutes
InboxAge == 3                  \* of the inbox, 24 hours
NonceLife == 3                 \* of a remembered signal id, 24 hours

NoEntry == [key |-> 0, mgmt |-> "none", auto |-> FALSE]
Idle == [pc |-> "idle"]
Part(p) == ui.part = p
Receiving == Part("door") \/ Part("rotation")

-----------------------------------------------------------------------------
(* Signals.  The trader signs [id, at] with the send-only password it was  *)
(* given; a retry sends the same bytes, or stamps them anew without        *)
(* signing again.                                                          *)

Signed(id, key, at) == [id |-> id, key |-> key, at |-> at, signedAt |-> at]

signAgentSignalPayload ==
    /\ Receiving /\ remote.clock = 0
    /\ Cardinality(ghost.signed) < (IF Part("door") THEN 2 ELSE 1)
    /\ \E id \in Ids, at \in {remote.clock, remote.clock + 1} :
         ghost' = [ghost EXCEPT !.signed = @ \cup {Signed(id, disk["a"].key, at)}]
    /\ UNCHANGED <<disk, remote, calls, ui>>

verifyAgentSignalSignature(m) == m.at = m.signedAt

signalFresh(at, now) == at >= now - SignalAge /\ at <= now + SignalSkew

signalAbuseFlags(at, now) == at > now + InboxSkew \/ at < now - InboxAge

\* What reaches the route, small enough and readable: a signed signal, or one
\* stamped anew.
post(r) ==
    /\ Receiving /\ calls.req[r] = Idle
    /\ ui.posts < (IF Part("door") THEN MaxPosts ELSE MaxPosts - 1)
    /\ \E s \in ghost.signed : \E m \in {s, [s EXCEPT !.at = remote.clock]} :
         calls' = [calls EXCEPT !.req[r] =
                     [pc |-> "verify", m |-> m, seen |-> {remote.reg.key}, known |-> <<>>]]
    /\ ui' = [ui EXCEPT !.posts = @ + 1]
    /\ UNCHANGED <<disk, remote, ghost>>

Move(r, pc) == calls' = [calls EXCEPT !.req[r].pc = pc]
Ended(r) == calls' = [calls EXCEPT !.req[r] = Idle]

\* The route may refuse at any of its calls: too many requests, a store or a
\* chain that does not answer in its time.
refuse(r) ==
    /\ Receiving /\ calls.req[r].pc \in {"verify", "queue", "claim", "write"}
    /\ Ended(r) /\ UNCHANGED <<disk, remote, ui, ghost>>

verifyAgentSignalKey(m) == m.key = remote.reg.key

ingestVerify(r) ==
    /\ Receiving /\ calls.req[r].pc = "verify"
    /\ IF verifyAgentSignalKey(calls.req[r].m) THEN Move(r, "checked") ELSE Ended(r)
    /\ UNCHANGED <<disk, remote, ui, ghost>>

\* Freshness and signature, without a call in between.
ingestCheck(r) ==
    /\ Receiving /\ calls.req[r].pc = "checked"
    /\ LET m == calls.req[r].m IN
       IF /\ signalFresh(m.at, remote.clock)
          /\ verifyAgentSignalSignature(m)
          /\ ~signalAbuseFlags(m.at, remote.clock)
       THEN Move(r, "queue")
       ELSE Ended(r)
    /\ UNCHANGED <<disk, remote, ui, ghost>>

InList(id) == \E i \in DOMAIN remote.list : remote.list[i].id = id
Remembered(id) == remote.nonce[id] > remote.clock
Prepended(m, list) == SubSeq(<<m>> \o list, 1, IF Len(list) < MaxItems THEN Len(list) + 1 ELSE MaxItems)

\* The signal is new to the inbox.
Taken(r) ==
    LET m == calls.req[r].m IN
    ghost' = [ghost EXCEPT
        !.taken = @ \cup {m},
        !.twice = @ \/ m \in ghost.taken,
        !.stranger = @ \/ m.key \notin calls.req[r].seen]

\* The item with the id that stays remembered when the item is removed.
storeInMemory(id) ==
    [remote EXCEPT !.list = Prepended([id |-> id], @),
                   !.nonce[id] = remote.clock + NonceLife]

\* In memory the list, the remembered ids and the rate change at once.
enqueueInMemory(r) ==
    /\ Receiving /\ ui.store = "memory" /\ calls.req[r].pc = "queue"
    /\ LET id == calls.req[r].m.id IN
       IF Remembered(id) \/ InList(id)
       THEN Ended(r) /\ UNCHANGED <<remote, ghost>>
       ELSE remote' = storeInMemory(id) /\ Taken(r) /\ Ended(r)
    /\ UNCHANGED <<disk, ui>>

\* In Redis: the list is read,
enqueueRead(r) ==
    /\ Receiving /\ ui.store = "redis" /\ calls.req[r].pc = "queue"
    /\ IF InList(calls.req[r].m.id)
       THEN Ended(r)
       ELSE calls' = [calls EXCEPT !.req[r].pc = "claim", !.req[r].known = remote.list]
    /\ UNCHANGED <<disk, remote, ui, ghost>>

\* the id is claimed, which may be done without the answer coming back,
enqueueClaim(r) ==
    /\ Receiving /\ calls.req[r].pc = "claim"
    /\ LET id == calls.req[r].m.id IN
       IF Remembered(id)
       THEN Ended(r) /\ UNCHANGED remote
       ELSE /\ remote' = [remote EXCEPT !.nonce[id] = remote.clock + NonceLife]
            /\ Move(r, "write") \/ Ended(r)
    /\ UNCHANGED <<disk, ui, ghost>>

\* and the list is written from what was read.
enqueueWrite(r) ==
    /\ Receiving /\ calls.req[r].pc = "write"
    /\ remote' = [remote EXCEPT !.list =
                    Prepended([id |-> calls.req[r].m.id], calls.req[r].known)]
    /\ Taken(r) /\ Ended(r)
    /\ UNCHANGED <<disk, ui>>

\* A member with the management key imports or deletes the items.
removeAgentInboxSignals ==
    /\ Receiving /\ remote.list # <<>> /\ remote.reg.mgmt = "a"
    /\ remote' = [remote EXCEPT !.list = <<>>]
    /\ UNCHANGED <<disk, calls, ui, ghost>>

\* A call to the store takes at most a second and a half, so that no step of
\* time passes between the check of the freshness and the claim.
Tick ==
    /\ Part("door") /\ remote.clock < MaxTicks
    /\ \A r \in Slots : calls.req[r].pc \notin {"queue", "claim", "write"}
    /\ remote' = [remote EXCEPT !.clock = @ + 1]
    /\ UNCHANGED <<disk, calls, ui, ghost>>

-----------------------------------------------------------------------------
(* The connection page and the registration.                               *)

Kit(d) == [key |-> disk[d].key, mgmt |-> d, auto |-> disk[d].auto]
Busy(d) == \E c \in calls.reg : c.kit.mgmt = d /\ c.from = "button"
Sent(d, kit, from, n) == [n |-> n, kit |-> kit, from |-> from, pc |-> "sent", live |-> TRUE]

\* What the connection page says of itself.
ReadyForIdeas(d) == ui.open[d] /\ ui.registered[d]

\* A new effect cancels the one before it.
Cancelled(d) == {[c EXCEPT !.live = @ /\ ~(c.kit.mgmt = d /\ c.from = "effect")] : c \in calls.reg}

CanAct == ui.acts < MaxConnects

openConnectionPage(d) ==
    /\ Part("page") /\ CanAct /\ ~ui.open[d]
    /\ ui' = [ui EXCEPT !.acts = @ + 1, !.open[d] = TRUE, !.registered[d] = FALSE]
    /\ calls' = [calls EXCEPT !.reg = @ \cup {Sent(d, Kit(d), "effect", ghost.n)}]
    /\ ghost' = [ghost EXCEPT !.n = @ + 1]
    /\ UNCHANGED <<disk, remote>>

leaveConnectionPage(d) ==
    /\ Part("page") /\ CanAct /\ ui.open[d]
    /\ ui' = [ui EXCEPT !.acts = @ + 1, !.open[d] = FALSE, !.registered[d] = FALSE]
    /\ calls' = [calls EXCEPT !.reg = {[c EXCEPT !.live = @ /\ c.kit.mgmt # d] : c \in @}]
    /\ UNCHANGED <<disk, remote, ghost>>

\* The new kit is saved here, registered by the button, and registered again
\* by the effect that watches the kit.
KitChanged(d, kit) ==
    /\ CanAct /\ ui.open[d] /\ ~Busy(d)
    /\ disk' = [disk EXCEPT ![d] = [key |-> kit.key, auto |-> kit.auto]]
    /\ ui' = [ui EXCEPT !.acts = @ + 1]
    /\ calls' = [calls EXCEPT !.reg = Cancelled(d) \cup {Sent(d, kit, "button", ghost.n),
                                                         Sent(d, kit, "effect", ghost.n + 1)}]
    /\ ghost' = [ghost EXCEPT !.n = @ + 2]
    /\ UNCHANGED remote

rotateKey(d) ==
    /\ ~Part("members")
    /\ KitChanged(d, [Kit(d) EXCEPT !.key = 1 + disk["a"].key + disk["b"].key])

toggleAutoReview(d) ==
    /\ ~Part("members") /\ disk[d].auto
    /\ KitChanged(d, [Kit(d) EXCEPT !.auto = FALSE])

Now(c, pc) == calls' = [calls EXCEPT !.reg = (@ \ {c}) \cup {[c EXCEPT !.pc = pc]}]

\* The management key of the first registration is the one that counts.
mayRegister(kit) == remote.reg.mgmt \in {"none", kit.mgmt}

\* Automatic trading needs the owner's approval, signed with the wallet.
ownerApproved(kit) == kit.auto => remote.approved

\* The entry in force changes: every request on its way sees it, and the
\* writer may be late.
Written(c) ==
    /\ remote' = [remote EXCEPT !.reg = c.kit]
    /\ calls' = [calls EXCEPT
        !.reg = (@ \ {c}) \cup {[c EXCEPT !.pc = "written"]},
        !.req = [r \in Slots |-> IF @[r] = Idle THEN Idle
                                 ELSE [@[r] EXCEPT !.seen = @ \cup {c.kit.key}]]]
    /\ ghost' = [ghost EXCEPT
        !.late = @ \/ c.kit # Kit(c.kit.mgmt),
        !.unapproved = @ \/ (c.kit.auto /\ ~remote.approved),
        !.displaced = @ \/ (remote.reg.mgmt \notin {"none", c.kit.mgmt})]

registerInMemory(c) ==
    /\ ui.store = "memory" /\ c.pc = "sent" /\ ownerApproved(c.kit) /\ mayRegister(c.kit)
    /\ Written(c)
    /\ UNCHANGED <<disk, ui>>

registerRead(c) ==
    /\ ui.store = "redis" /\ c.pc = "sent" /\ ownerApproved(c.kit) /\ mayRegister(c.kit)
    /\ Now(c, "read")
    /\ UNCHANGED <<disk, remote, ui, ghost>>

registerWrite(c) ==
    /\ c.pc = "read" /\ Written(c) /\ UNCHANGED <<disk, ui>>

\* The registration is refused, or fails before or after it was written.
registerFails(c) ==
    /\ c.pc \in {"sent", "read", "written"}
    /\ Now(c, "failed")
    /\ UNCHANGED <<disk, remote, ui, ghost>>

\* registerConnection marks the page ready even when it shows another kit by
\* then; only a failure of the effect in force takes the mark away.
registerAnswered(c) ==
    /\ c.pc \in {"written", "failed"}
    /\ LET d == c.kit.mgmt IN
       /\ ui' = IF ~ui.open[d] THEN ui
                ELSE IF c.pc = "written" THEN [ui EXCEPT !.registered[d] = TRUE]
                ELSE IF c.from = "effect" /\ c.live THEN [ui EXCEPT !.registered[d] = FALSE]
                ELSE ui
       /\ ghost' = [ghost EXCEPT !.late = @ \/ (c.pc = "written" /\ c.kit # Kit(d))]
    /\ calls' = [calls EXCEPT !.reg = @ \ {c}]
    /\ UNCHANGED <<disk, remote>>

\* The memory of the server is gone, with what its requests were doing.
restart ==
    /\ Part("page") /\ ui.store = "memory" /\ ~ghost.restarted
    /\ remote' = [remote EXCEPT !.reg = NoEntry]
    /\ calls' = [calls EXCEPT !.reg = {[c EXCEPT !.pc = "failed"] : c \in @}]
    /\ ghost' = [ghost EXCEPT !.restarted = TRUE]
    /\ UNCHANGED <<disk, ui>>

-----------------------------------------------------------------------------
(* Who asks.  Somebody signed in asks for the wallet of a name; anybody    *)
(* may create another wallet of that name, and the members of each change. *)

Wallets == {"w", "v"}
Present == [named |-> remote.named, roster |-> remote.roster]
CanAsk == Part("members") /\ ui.acts < MaxRequests

\* The session token is good until it expires, and is checked against the key
\* of its issuer, which is kept for an hour.
authenticateNotificationRequest(r) ==
    /\ CanAsk /\ calls.req[r] = Idle /\ remote.session
    /\ disk.signer \/ remote.issuer
    /\ calls' = [calls EXCEPT !.req[r] = [pc |-> "chain", wallet |-> "none", seen |-> {Present}]]
    /\ disk' = [disk EXCEPT !.signer = TRUE]
    /\ ui' = [ui EXCEPT !.acts = @ + 1]
    /\ UNCHANGED <<remote, ghost>>

\* The kept key grows old; the issuer stops answering at any of its addresses.
signingKeyExpires ==
    /\ Part("members") /\ disk.signer
    /\ disk' = [disk EXCEPT !.signer = FALSE]
    /\ UNCHANGED <<remote, calls, ui, ghost>>

issuerFails ==
    /\ Part("members") /\ remote.issuer
    /\ remote' = [remote EXCEPT !.issuer = FALSE]
    /\ UNCHANGED <<disk, calls, ui, ghost>>

\* An answer is kept for the life of the connection; a failure is not, and
\* fails every request that waits for it.
rememberChain(answer) == [disk EXCEPT !.genesis = answer]

getAgentChainGenesisHash(r) ==
    /\ Part("members") /\ calls.req[r].pc = "chain"
    /\ \E answer \in IF disk.genesis = "none" THEN {"ours", "other", "failed"} ELSE {disk.genesis} :
         IF answer = "failed"
         THEN /\ calls' = [calls EXCEPT !.req =
                     [s \in Slots |-> IF @[s].pc = "chain" THEN Idle ELSE @[s]]]
              /\ UNCHANGED <<disk, ghost>>
         ELSE /\ disk' = rememberChain(answer)
              /\ IF disk.expected /\ answer # "ours"
                 THEN Ended(r) /\ UNCHANGED ghost
                 ELSE /\ Move(r, "wallet")
                      /\ ghost' = [ghost EXCEPT !.chains = @ \cup {answer}]
    /\ UNCHANGED <<remote, ui>>

fetchWalletByName(w) == remote.named = {w}

\* A name stands for a wallet only while it is the only one.
resolveCanonicalAgentWallet(r) ==
    /\ Part("members") /\ calls.req[r].pc = "wallet"
    /\ \/ \E w \in remote.named :
            /\ fetchWalletByName(w)
            /\ calls' = [calls EXCEPT !.req[r].pc = "roster", !.req[r].wallet = w]
       \/ (\A w \in remote.named : ~fetchWalletByName(w)) /\ Ended(r)
    /\ UNCHANGED <<disk, remote, ui, ghost>>

rosterOf(w) == remote.roster[w]

\* No cached roster: removing a member must revoke the next private request.
authenticateWalletMember(r) ==
    /\ Part("members") /\ calls.req[r].pc = "roster"
    /\ LET w == calls.req[r].wallet IN
       /\ IF rosterOf(w) = "member" THEN Move(r, "served") ELSE Ended(r)
       /\ disk' = [disk EXCEPT !.roster[w] = rosterOf(w)]
       /\ ghost' = [ghost EXCEPT !.outsider = @ \/
                      (rosterOf(w) = "member" /\
                       ~(/\ \E s \in calls.req[r].seen : s.named = {w}
                         /\ \E s \in calls.req[r].seen : s.roster[w] = "member"))]
    /\ UNCHANGED <<remote, ui>>

withWalletMember(r) ==
    /\ Part("members") /\ calls.req[r].pc = "served"
    /\ Ended(r) /\ UNCHANGED <<disk, remote, ui, ghost>>

\* On the chain a wallet of the name is created, or its members change.
chainChanges ==
    /\ CanAsk
    /\ \/ remote' = [remote EXCEPT !.named = Wallets] /\ remote.named # Wallets
       \/ \E w \in remote.named : \E to \in {"member", "none"} \ {remote.roster[w]} :
            remote' = [remote EXCEPT !.roster[w] = to]
    /\ calls' = [calls EXCEPT !.req =
          [r \in Slots |-> IF @[r] = Idle THEN Idle
                           ELSE [@[r] EXCEPT !.seen = @ \cup
                                   {[named |-> remote'.named, roster |-> remote'.roster]}]]]
    /\ ui' = [ui EXCEPT !.acts = @ + 1]
    /\ UNCHANGED <<disk, ghost>>

sessionEnds ==
    /\ Part("members") /\ remote.session
    /\ remote' = [remote EXCEPT !.session = FALSE]
    /\ UNCHANGED <<disk, calls, ui, ghost>>

-----------------------------------------------------------------------------
NoGhost == [n |-> 0, signed |-> {}, taken |-> {}, twice |-> FALSE,
            stranger |-> FALSE, late |-> FALSE, unapproved |-> FALSE, displaced |-> FALSE,
            restarted |-> FALSE, chains |-> {}, outsider |-> FALSE]

Registry(reg, approved) ==
    [reg |-> reg, approved |-> approved, list |-> <<>>, nonce |-> [id \in Ids |-> 0], clock |-> 0]

Init ==
    /\ calls = [reg |-> {}, req |-> [r \in Slots |-> Idle]]
    /\ ghost = NoGhost
    /\ \/ \E store \in {"redis", "memory"}, part \in {"door", "rotation"} :
            /\ ui = [part |-> part, store |-> store, posts |-> 0,
                     acts |-> IF part = "door" THEN MaxConnects ELSE MaxConnects - 1,
                     open |-> [d \in Devices |-> d = "a"],
                     registered |-> [d \in Devices |-> d = "a"]]
            /\ disk = [d \in Devices |-> [key |-> IF d = "a" THEN 1 ELSE 0, auto |-> FALSE]]
            /\ remote = Registry([key |-> 1, mgmt |-> "a", auto |-> FALSE], FALSE)
       \/ \E store \in {"redis", "memory"}, auto, approved \in BOOLEAN :
            /\ ui = [part |-> "page", store |-> store, posts |-> 0, acts |-> 0,
                     open |-> [d \in Devices |-> FALSE],
                     registered |-> [d \in Devices |-> FALSE]]
            /\ disk = [d \in Devices |-> [key |-> IF d = "a" THEN 1 ELSE 2, auto |-> auto /\ d = "a"]]
            /\ remote = Registry(NoEntry, approved)
       \/ \E expected \in BOOLEAN :
            /\ ui = [part |-> "members", acts |-> 0]
            /\ disk = [genesis |-> "none", expected |-> expected, signer |-> FALSE,
                       roster |-> [w \in Wallets |-> "unread"]]
            /\ remote = [named |-> {"w"}, session |-> TRUE, issuer |-> TRUE,
                         roster |-> [w \in Wallets |-> IF w = "w" THEN "member" ELSE "none"]]

Next ==
    \/ signAgentSignalPayload \/ removeAgentInboxSignals \/ Tick \/ restart
    \/ \E r \in Slots :
         \/ post(r) \/ refuse(r) \/ ingestVerify(r) \/ ingestCheck(r) \/ enqueueInMemory(r)
         \/ enqueueRead(r) \/ enqueueClaim(r) \/ enqueueWrite(r)
         \/ authenticateNotificationRequest(r) \/ getAgentChainGenesisHash(r)
         \/ resolveCanonicalAgentWallet(r) \/ authenticateWalletMember(r) \/ withWalletMember(r)
    \/ \E d \in Devices : openConnectionPage(d) \/ leaveConnectionPage(d) \/ rotateKey(d)
                          \/ toggleAutoReview(d)
    \/ \E c \in calls.reg : registerInMemory(c) \/ registerRead(c) \/ registerWrite(c)
                            \/ registerFails(c) \/ registerAnswered(c)
    \/ chainChanges \/ sessionEnds \/ signingKeyExpires \/ issuerFails

Spec == Init /\ [][Next]_vars

-----------------------------------------------------------------------------
(* Properties.                                                             *)

TypeOK ==
    /\ ui.part \in {"door", "rotation", "page", "members"}
    /\ \A r \in Slots : calls.req[r].pc \in {"idle", "verify", "checked", "queue", "claim",
                                          "write", "chain", "wallet", "roster", "served"}
    /\ \A c \in calls.reg : c.pc \in {"sent", "read", "written", "failed"}

\* "Import or deletion must not make a still-fresh signed signal executable
\* again" (serverInbox.ts:178): in the life of a store a signal is new to the
\* inbox once, however often it is sent, removed or pushed out, and however
\* long the retry waits: the route's limits end before the id is forgotten.
AcceptedOnce == ~ghost.twice

\* A signal that is taken carries the time it was signed for, and was sent
\* with a password that was in force while it was handled.
AcceptedAsSigned == \A m \in ghost.taken : m.at = m.signedAt
KeyInForce == ~ghost.stranger

\* The page says that it is ready for ideas only while the server holds its
\* password and its switch for automatic trading, unless the server lost its
\* memory or a registration of another kit came late.
ReadyMeansRegistered ==
    Part("page") /\ ~ghost.restarted /\ ~ghost.late /\ ~ghost.displaced =>
        \A d \in Devices :
            ReadyForIdeas(d) /\ (\A c \in calls.reg : c.kit.mgmt # d) => remote.reg = Kit(d)

\* Automatic trading is registered with the owner's approval only, and the
\* management key of an inbox stays the first one; only two first
\* registrations that overlap in Redis can both be told that theirs is.
AutomaticIsApproved == ~ghost.unapproved
ManagerStays == ghost.displaced => ui.store = "redis"

\* A private answer goes to somebody who was a member of the only wallet of
\* the name at some moment since they asked, and every request of a server
\* keeps its data under the same chain, the expected one if one is named.
ServedToMember == ~ghost.outsider
OneChain ==
    /\ Cardinality(ghost.chains) <= 1
    /\ Part("members") /\ disk.expected => ghost.chains \subseteq {"ours"}
=============================================================================
