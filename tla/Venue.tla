------------------------------- MODULE Venue -------------------------------
(***************************************************************************)
(* The protected hand-off of an agent's approved trade to a trading venue: *)
(* the execution bridge (lib/agents/serverVenueBridge.ts) over its ledger  *)
(* and binding registry in Redis (lib/agents/serverVenueRedis.ts).         *)
(*                                                                         *)
(* Every script the ledger runs is atomic in Redis.  Between two of them a *)
(* call waits: for a registry read, for the chain, for the venue.  A       *)
(* command may be refused, its reply may be lost, and a command whose      *)
(* caller gave up (a request is abandoned after ten seconds) may still be  *)
(* applied much later; the server may stop at any point.  An order may     *)
(* reach the venue long after the call that sent it is gone.               *)
(***************************************************************************)
EXTENDS Naturals, FiniteSets

CONSTANTS
    Calls,      \* calls of execute and reconcileExisting
    Orders,     \* canonical orders; the delivery key identifies the order
    Wallets, Accounts,
    WalletOf,   \* the wallet whose members approved the order
    AccountOf,  \* the venue account the order names
    MaxOpen,    \* limits.maxOpenPositions
    None

ASSUME VenueConstants ==
    /\ WalletOf \in [Orders -> Wallets]
    /\ AccountOf \in [Orders -> Accounts]
    /\ MaxOpen \in Nat \ {0}
    /\ IsFiniteSet(Orders)
    /\ None \notin Calls \cup Orders \cup Wallets \cup Accounts

VARIABLES
    binding,    \* 'wallet:' field of the registry: the wallet's account
    assigned,   \* 'venue:' field of the registry: the account's wallet
    delivery,   \* 'delivery:' field of the ledger
    lock,       \* 'account:' field of the ledger: the delivery that holds it
    late,       \* commands abandoned by their caller and not yet applied
    call,       \* local state of a call
    grant,      \* the session and risk ledger on chain authorise the order
    wire,       \* orders sent and not yet at the venue
    entries,    \* entries the venue made for the order
    open        \* orders whose position is open

vars == <<binding, assigned, delivery, lock, late, call, grant, wire, entries, open>>
store == <<binding, assigned, delivery, lock, late>>
world == <<grant, wire, entries, open>>

States == {"none", "reserved", "submitting", "uncertain", "blocked", "completed"}
Steps == {"idle", "claim", "recheck", "observe", "final", "begin", "submit", "reconcile",
          "complete", "block", "mark", "lookup", "recover", "settle", "done"}
Commands == [op : {"claim", "begin", "block", "uncertain", "complete"},
             order : Orders, lease : Calls \cup {None}]

NoDelivery == [state |-> "none", lease |-> None, expired |-> FALSE]
NoCall == [pc |-> "idle", order |-> None, revoked |-> FALSE]

Init ==
    /\ binding = [w \in Wallets |-> None]
    /\ assigned = [a \in Accounts |-> None]
    /\ delivery = [o \in Orders |-> NoDelivery]
    /\ lock = [a \in Accounts |-> None]
    /\ late = {}
    /\ call = [c \in Calls |-> NoCall]
    /\ grant = [o \in Orders |-> TRUE]
    /\ wire = {}
    /\ entries = [o \in Orders |-> 0]
    /\ open = {}

Goto(c, step) == call' = [call EXCEPT ![c].pc = step]

(***************************************************************************)
(* The binding registry.                                                   *)
(***************************************************************************)
\* Fault variant: the indexes of an account are not looked up.
RegisterOverAssigned(w, a) ==
    /\ binding[w] = None
    /\ binding' = [binding EXCEPT ![w] = a]
    /\ assigned' = [assigned EXCEPT ![a] = w]
    /\ UNCHANGED <<delivery, lock, late, call, world>>

\* A binding is immutable, and an account has at most one wallet.
Register(w, a) ==
    /\ binding[w] = None
    /\ assigned[a] = None
    /\ binding' = [binding EXCEPT ![w] = a]
    /\ assigned' = [assigned EXCEPT ![a] = w]
    /\ UNCHANGED <<delivery, lock, late, call, world>>

\* validateBinding of what readDedicatedBinding returns.
Bound(o) ==
    /\ binding[WalletOf[o]] = AccountOf[o]
    /\ assigned[AccountOf[o]] = WalletOf[o]

(***************************************************************************)
(* The ledger's scripts: when a command is accepted, and what it does.     *)
(***************************************************************************)
Unlock(o) == lock' = [lock EXCEPT ![AccountOf[o]] = IF @ = o THEN None ELSE @]
SetState(o, s) == delivery' = [delivery EXCEPT ![o].state = s]

\* Fault variant: the account's reservation is not looked up.
ClaimableAccount(o) == delivery[o].state \in {"none", "blocked"}

Claimable(o) ==
    /\ delivery[o].state \in {"none", "blocked"}
    /\ lock[AccountOf[o]] \in {None, o}

\* Whoever looks at an expired delivery makes it uncertain.
Expire(o) ==
    IF delivery[o].state \in {"reserved", "submitting"} /\ delivery[o].expired
        THEN SetState(o, "uncertain")
        ELSE UNCHANGED delivery

\* What a claim or a lookup answers when it acquires nothing.
Answer(o) ==
    CASE delivery[o].state = "completed" -> "completed"
      [] delivery[o].state \in {"none", "blocked"} -> "unavailable"
      [] delivery[o].state = "uncertain" \/ delivery[o].expired -> "uncertain"
      [] OTHER -> "in_flight"

Reserve(o, lease) ==
    /\ delivery' = [delivery EXCEPT ![o] =
                       [state |-> "reserved", lease |-> lease, expired |-> FALSE]]
    /\ lock' = [lock EXCEPT ![AccountOf[o]] = o]

CanBegin(o, lease) ==
    /\ delivery[o].lease = lease
    /\ delivery[o].state = "reserved"
    /\ ~delivery[o].expired
    /\ lock[AccountOf[o]] = o

Begin(o, lease) ==
    /\ CanBegin(o, lease)
    /\ SetState(o, "submitting")
    /\ UNCHANGED lock

Block(o, lease) ==
    /\ delivery[o].lease = lease
    /\ delivery[o].state = "reserved"
    /\ SetState(o, "blocked")
    /\ Unlock(o)

MarkUncertain(o, lease) ==
    /\ delivery[o].lease = lease
    /\ delivery[o].state \in {"submitting", "uncertain", "completed"}
    /\ IF delivery[o].state = "completed"
           THEN UNCHANGED delivery
           ELSE SetState(o, "uncertain")
    /\ UNCHANGED lock

\* Completing again is accepted when the receipt is the same one.
Complete(o, lease) ==
    \/ /\ IF lease = None
              THEN delivery[o].state = "uncertain"
              ELSE delivery[o].lease = lease /\ delivery[o].state \in {"submitting", "uncertain"}
       /\ SetState(o, "completed")
       /\ Unlock(o)
    \/ /\ delivery[o].state = "completed"
       /\ UNCHANGED <<delivery, lock>>

Apply(k) ==
    CASE k.op = "claim" -> IF Claimable(k.order)
                                THEN Reserve(k.order, k.lease)
                                ELSE Expire(k.order) /\ UNCHANGED lock
      [] k.op = "begin" -> Begin(k.order, k.lease)
      [] k.op = "block" -> Block(k.order, k.lease)
      [] k.op = "uncertain" -> MarkUncertain(k.order, k.lease)
      [] k.op = "complete" -> Complete(k.order, k.lease)

\* The caller gives up on a command, which may still be on its way.
Abandon(c, op, lease, step) ==
    /\ late' = late \cup {[op |-> op, order |-> call[c].order, lease |-> lease]}
    /\ Goto(c, step)
    /\ UNCHANGED <<binding, assigned, delivery, lock, world>>

\* A command its caller gave up on is applied, or is refused or lost.
LateCommand(k) ==
    /\ late' = late \ {k}
    /\ Apply(k) \/ UNCHANGED <<delivery, lock>>
    /\ UNCHANGED <<binding, assigned, call, world>>

(***************************************************************************)
(* execute                                                                 *)
(***************************************************************************)
\* The first reads: the binding, and the authority on chain.
Execute(c, o) ==
    /\ call[c].pc = "idle"
    /\ Bound(o) /\ grant[o]
    /\ call' = [call EXCEPT ![c] = [NoCall EXCEPT !.pc = "claim", !.order = o]]
    /\ UNCHANGED <<store, world>>

ClaimAcquired(c) ==
    LET o == call[c].order IN
    /\ call[c].pc = "claim"
    /\ Claimable(o)
    /\ Reserve(o, c)
    /\ Goto(c, "recheck")
    /\ UNCHANGED <<binding, assigned, late, world>>

\* Nothing acquired: the receipt is returned, the uncertain outcome is looked
\* up at the venue, or the call fails because the trade is in flight.
ClaimAnswered(c) ==
    LET o == call[c].order IN
    /\ call[c].pc = "claim"
    /\ ~Claimable(o)
    /\ Expire(o)
    /\ Goto(c, IF Answer(o) = "uncertain" THEN "recover" ELSE "done")
    /\ UNCHANGED <<binding, assigned, lock, late, world>>

\* The claim is outside the try block: nothing is released.
ClaimLost(c) ==
    /\ call[c].pc = "claim"
    /\ Abandon(c, "claim", c, "done")

Recheck(c) ==
    LET o == call[c].order IN
    /\ call[c].pc = "recheck"
    /\ Goto(c, IF Bound(o) /\ grant[o] THEN "observe" ELSE "block")
    /\ UNCHANGED <<store, world>>

\* Positions the venue shows on the account of the order.
OpenOn(a) == {o \in open : AccountOf[o] = a}

\* The read may fail, and prices or losses may be outside the limits.  What
\* was observed is validated after the next read of the authority; the call
\* remembers whether the grant was already revoked when the answer arrived.
Observe(c) ==
    LET o == call[c].order IN
    /\ call[c].pc = "observe"
    /\ \/ /\ Cardinality(OpenOn(AccountOf[o])) < MaxOpen
          /\ call' = [call EXCEPT ![c].pc = "final", ![c].revoked = ~grant[o]]
       \/ Goto(c, "block")
    /\ UNCHANGED <<store, world>>

\* Fault variant: the authority read before the venue's answer is used.
FinalCached(c) ==
    /\ call[c].pc = "final"
    /\ Goto(c, "begin")
    /\ UNCHANGED <<store, world>>

\* The authority is read again after the wait for the venue.
FinalAuthority(c) ==
    /\ call[c].pc = "final"
    /\ Goto(c, IF grant[call[c].order] THEN "begin" ELSE "block")
    /\ UNCHANGED <<store, world>>

BeginAccepted(c) ==
    /\ call[c].pc = "begin"
    /\ Begin(call[c].order, c)
    /\ Goto(c, "submit")
    /\ UNCHANGED <<binding, assigned, late, world>>

BeginRefused(c) ==
    /\ call[c].pc = "begin"
    /\ ~CanBegin(call[c].order, c)
    /\ Goto(c, "mark")
    /\ UNCHANGED <<store, world>>

BeginLost(c) ==
    /\ call[c].pc = "begin"
    /\ Abandon(c, "begin", c, "mark")

\* The order goes on the wire; the reply may be an error all the same.
Submit(c) ==
    /\ call[c].pc = "submit"
    /\ wire' = wire \cup {<<c, call[c].order>>}
    /\ \E step \in {"reconcile", "mark"} : Goto(c, step)
    /\ UNCHANGED <<store, grant, entries, open>>

\* By now the cached authority or risk is too old: nothing is sent.
SubmitStale(c) ==
    /\ call[c].pc = "submit"
    /\ Goto(c, "mark")
    /\ UNCHANGED <<store, world>>

\* The venue's own records show the order and its protection, or not yet.
Reconcile(c) ==
    /\ call[c].pc = "reconcile"
    /\ \/ entries[call[c].order] > 0 /\ Goto(c, "complete")
       \/ Goto(c, "mark")
    /\ UNCHANGED <<store, world>>

CompleteCall(c) ==
    /\ call[c].pc = "complete"
    /\ \/ /\ Complete(call[c].order, c)
          /\ Goto(c, "done")
          /\ UNCHANGED <<binding, assigned, late, world>>
       \/ Abandon(c, "complete", c, "mark")

\* Failures of the catch block's own command are swallowed.
BlockCall(c) ==
    /\ call[c].pc = "block"
    /\ \/ /\ Block(call[c].order, c) \/ UNCHANGED <<delivery, lock>>
          /\ Goto(c, "done")
          /\ UNCHANGED <<binding, assigned, late, world>>
       \/ Abandon(c, "block", c, "done")

\* Fault variant: the catch block forgets that the hand-off had started.
MarkReleases(c) ==
    /\ call[c].pc = "mark"
    /\ SetState(call[c].order, "blocked")
    /\ Unlock(call[c].order)
    /\ Goto(c, "done")
    /\ UNCHANGED <<binding, assigned, late, world>>

MarkCall(c) ==
    /\ call[c].pc = "mark"
    /\ \/ /\ MarkUncertain(call[c].order, c) \/ UNCHANGED <<delivery, lock>>
          /\ Goto(c, "done")
          /\ UNCHANGED <<binding, assigned, late, world>>
       \/ Abandon(c, "uncertain", c, "done")

(***************************************************************************)
(* reconcileExisting, and the end of an execute that found an uncertain    *)
(* delivery.                                                               *)
(***************************************************************************)
ReconcileExisting(c, o) ==
    /\ call[c].pc \in {"idle", "done"}
    /\ Bound(o)
    /\ call' = [call EXCEPT ![c] = [NoCall EXCEPT !.pc = "lookup", !.order = o]]
    /\ UNCHANGED <<store, world>>

Lookup(c) ==
    LET o == call[c].order IN
    /\ call[c].pc = "lookup"
    /\ Expire(o)
    /\ Goto(c, IF Answer(o) = "uncertain" THEN "recover" ELSE "done")
    /\ UNCHANGED <<binding, assigned, lock, late, world>>

\* Fault variant: no answer of the venue is taken for a receipt.
RecoverBlind(c) ==
    /\ call[c].pc = "recover"
    /\ Goto(c, "settle")
    /\ UNCHANGED <<store, world>>

Recover(c) ==
    /\ call[c].pc = "recover"
    /\ \/ entries[call[c].order] > 0 /\ Goto(c, "settle")
       \/ Goto(c, "done")
    /\ UNCHANGED <<store, world>>

\* Completion without a lease, for an uncertain delivery only.
Settle(c) ==
    /\ call[c].pc = "settle"
    /\ \/ /\ Complete(call[c].order, None) \/ UNCHANGED <<delivery, lock>>
          /\ Goto(c, "done")
          /\ UNCHANGED <<binding, assigned, late, world>>
       \/ Abandon(c, "complete", None, "done")

(***************************************************************************)
(* The world.                                                              *)
(***************************************************************************)
\* The server stops in the middle of a call.
Crash(c) ==
    /\ call[c].pc \notin {"idle", "done"}
    /\ Goto(c, "done")
    /\ UNCHANGED <<store, world>>

LeaseExpires(o) ==
    /\ delivery[o].state \in {"reserved", "submitting"}
    /\ ~delivery[o].expired
    /\ delivery' = [delivery EXCEPT ![o].expired = TRUE]
    /\ UNCHANGED <<binding, assigned, lock, late, call, world>>

\* The session is revoked or expires, or the risk ledger closes.
Revoke(o) ==
    /\ grant[o]
    /\ grant' = [grant EXCEPT ![o] = FALSE]
    /\ UNCHANGED <<store, call, wire, entries, open>>

\* The venue makes the entry, or refuses or never sees the order.
OrderLands(s) ==
    /\ wire' = wire \ {s}
    /\ \/ /\ entries' = [entries EXCEPT ![s[2]] = @ + 1]
          /\ open' = open \cup {s[2]}
       \/ UNCHANGED <<entries, open>>
    /\ UNCHANGED <<store, call, grant>>

PositionCloses(o) ==
    /\ o \in open
    /\ open' = open \ {o}
    /\ UNCHANGED <<store, call, grant, wire, entries>>

CallStep(c) ==
    \/ \E o \in Orders : Execute(c, o) \/ ReconcileExisting(c, o)
    \/ ClaimAcquired(c) \/ ClaimAnswered(c) \/ ClaimLost(c)
    \/ Recheck(c) \/ Observe(c) \/ FinalAuthority(c)
    \/ BeginAccepted(c) \/ BeginRefused(c) \/ BeginLost(c)
    \/ Submit(c) \/ SubmitStale(c) \/ Reconcile(c)
    \/ CompleteCall(c) \/ BlockCall(c) \/ MarkCall(c)
    \/ Lookup(c) \/ Recover(c) \/ Settle(c) \/ Crash(c)

Next ==
    \/ \E c \in Calls : CallStep(c)
    \/ \E w \in Wallets, a \in Accounts : Register(w, a)
    \/ \E k \in late : LateCommand(k)
    \/ \E s \in wire : OrderLands(s)
    \/ \E o \in Orders : LeaseExpires(o) \/ Revoke(o) \/ PositionCloses(o)

Spec == Init /\ [][Next]_vars

(***************************************************************************)
(* Properties.                                                             *)
(***************************************************************************)
TypeOK ==
    /\ binding \in [Wallets -> Accounts \cup {None}]
    /\ assigned \in [Accounts -> Wallets \cup {None}]
    /\ delivery \in [Orders -> [state : States, lease : Calls \cup {None}, expired : BOOLEAN]]
    /\ lock \in [Accounts -> Orders \cup {None}]
    /\ late \subseteq Commands
    /\ call \in [Calls -> [pc : Steps, order : Orders \cup {None}, revoked : BOOLEAN]]
    /\ grant \in [Orders -> BOOLEAN]
    /\ wire \subseteq Calls \X Orders
    /\ entries \in [Orders -> Nat]
    /\ open \subseteq Orders

Sent(o) == {s \in wire : s[2] = o}

\* A trade is sent to the venue at most once, whatever replies are lost,
\* however late a command is applied and however often execute is called.
SingleOrder == \A o \in Orders : entries[o] + Cardinality(Sent(o)) <= 1

\* An account is reserved by exactly the delivery whose outcome is open.
LockMatches ==
    \A a \in Accounts, o \in Orders :
        lock[a] = o <=> /\ AccountOf[o] = a
                        /\ delivery[o].state \in {"reserved", "submitting", "uncertain"}

\* An account never has more positions than the limit, orders still on their
\* way included: the reservation serialises the risk checks.
WithinLimit ==
    \A a \in Accounts :
        Cardinality(OpenOn(a) \cup {o \in Orders : AccountOf[o] = a /\ Sent(o) # {}}) <= MaxOpen

\* A delivery is completed only when the venue has made its entry.
CompletedTrue == \A o \in Orders : delivery[o].state = "completed" => entries[o] = 1

\* Two wallets never trade on one venue account.
DedicatedAccount ==
    \A o, p \in Orders :
        /\ entries[o] > 0 /\ entries[p] > 0
        /\ AccountOf[o] = AccountOf[p]
        => WalletOf[o] = WalletOf[p]

\* No order is sent whose grant was revoked before the risk answer arrived.
RevokedNeverSent ==
    [][\A c \in Calls, o \in Orders :
          <<c, o>> \in wire' \ wire => ~call[c].revoked]_vars

-----------------------------------------------------------------------------
(* The inductive invariant of VenueProofs *)

\* A call that is past its first read knows its order, whose wallet and
\* account are bound to each other.
OrderBound == \A c \in Calls : call[c].pc # "idle" => call[c].order \in Orders /\ Bound(call[c].order)

\* Before a delivery is submitting nothing of it was sent.
UnsentBefore ==
    \A o \in Orders :
        delivery[o].state \in {"none", "reserved", "blocked"} => entries[o] = 0 /\ Sent(o) = {}

\* The call that is about to send an order holds its lease, and is the first.
FirstToSend ==
    \A c \in Calls : call[c].pc = "submit" =>
        /\ delivery[call[c].order].lease = c
        /\ delivery[call[c].order].state \in {"submitting", "uncertain"}
        /\ entries[call[c].order] = 0 /\ Sent(call[c].order) = {}

\* At most one copy of an order is on its way, and none once it has an entry.
OneCopy ==
    /\ \A s, t \in wire : s[2] = t[2] => s = t
    /\ \A s \in wire : entries[s[2]] = 0
    /\ \A o \in Orders : entries[o] \in {0, 1}

\* Whoever reports a receipt has seen the entry at the venue.
ReceiptsAreTrue ==
    /\ \A c \in Calls : call[c].pc \in {"complete", "settle"} => entries[call[c].order] = 1
    /\ \A k \in late : k.op = "complete" => entries[k.order] = 1

\* Only bound orders reach the venue.
SentAreBound ==
    /\ \A s \in wire : Bound(s[2])
    /\ \A o \in Orders : entries[o] > 0 => Bound(o)

\* A claim that was given up does not come back to a call that went on.
LateClaims ==
    \A k \in late : k.op = "claim" =>
        k.lease \in Calls /\ call[k.lease].pc \in {"done", "lookup", "recover", "settle"}

\* What a call observed still holds while it has the reservation.
RoomLeft ==
    \A c \in Calls :
        LET o == call[c].order IN
        \/ call[c].pc \in {"final", "begin"} /\ delivery[o].lease = c /\ delivery[o].state = "reserved"
        \/ call[c].pc = "submit"
        => Cardinality(OpenOn(AccountOf[o])) < MaxOpen

\* A grant that was gone when the venue answered stays gone, and its call
\* does not get past the last read of the authority.
RevokedStays ==
    \A c \in Calls :
        /\ call[c].pc # "idle" /\ call[c].revoked => ~grant[call[c].order]
        /\ call[c].pc \in {"begin", "submit"} => ~call[c].revoked

LedgerInv == TypeOK /\ OrderBound /\ LockMatches /\ LateClaims
SendInv == UnsentBefore /\ FirstToSend /\ OneCopy /\ ReceiptsAreTrue /\ CompletedTrue /\ SentAreBound
VenueInv == LedgerInv /\ SendInv /\ RoomLeft /\ RevokedStays /\ WithinLimit
=============================================================================
