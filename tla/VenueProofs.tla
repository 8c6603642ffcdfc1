----------------------------- MODULE VenueProofs -----------------------------
(***************************************************************************)
(* Theorems about Venue, for every number of calls, orders, wallets and    *)
(* venue accounts.                                                         *)
(***************************************************************************)
EXTENDS Venue, FiniteSetTheorems, TLAPS

-------------------------------------------------------------------------------
(* What a step does to one delivery, one call and the commands given up on *)

\* Outcomes of a ledger command on the delivery of order o.
Untouched == UNCHANGED <<delivery, lock>>
Reserved(o, lease) == Claimable(o) /\ Reserve(o, lease)
Doubted(o) ==
    /\ delivery[o].state \in {"reserved", "submitting", "uncertain"}
    /\ SetState(o, "uncertain") /\ UNCHANGED lock
Finished(o) ==
    /\ delivery[o].state \in {"submitting", "uncertain"}
    /\ SetState(o, "completed") /\ Unlock(o)
Aged(o) == delivery' = [delivery EXCEPT ![o].expired = TRUE] /\ UNCHANGED lock

\* Whoever may reserve order o: a call that has its answer, or a claim that
\* was given up on.
Reserving(o, lease) ==
    /\ Reserved(o, lease)
    /\ \/ /\ lease \in Calls /\ call[lease].pc = "claim" /\ call[lease].order = o
          /\ call' = [call EXCEPT ![lease].pc = "recheck"]
       \/ \E k \in late : k.op = "claim" /\ k.lease = lease /\ call' = call

\* Whoever may finish order o has a receipt of it.
Finishing(o) ==
    /\ Finished(o)
    /\ \/ \E c \in Calls : call[c].pc \in {"complete", "settle"} /\ call[c].order = o
       \/ \E k \in late : k.op = "complete" /\ k.order = o

LedgerStep(o, lease) ==
    \/ Untouched \/ Aged(o) \/ Doubted(o) \/ Begin(o, lease) \/ Block(o, lease)
    \/ Reserving(o, lease) \/ Finishing(o)

\* Looking at an order makes at most its expired delivery uncertain, and the
\* other commands have the outcomes named above.
LEMMA CommandOutcomes ==
    ASSUME NEW o, NEW lease
    PROVE  /\ Expire(o) /\ UNCHANGED lock => Untouched \/ Doubted(o)
           /\ MarkUncertain(o, lease) => Untouched \/ Doubted(o)
           /\ Complete(o, lease) => Untouched \/ Finished(o)
BY DEF Expire, MarkUncertain, Complete, Untouched, Doubted, Finished

\* A command that was given up on is applied with one of these outcomes.
LEMMA LateOutcome ==
    ASSUME TypeOK, NEW k \in late, LateCommand(k)
    PROVE  LedgerStep(k.order, k.lease)
<1>1. k.op \in {"claim", "begin", "block", "uncertain", "complete"} /\ call' = call
  BY DEF TypeOK, Commands, LateCommand
<1>2. CASE UNCHANGED <<delivery, lock>>
  BY <1>2 DEF LedgerStep, Untouched
<1>3. CASE Apply(k) /\ k.op = "claim"
  <2>1. CASE Claimable(k.order)
    BY <1>1, <1>3, <2>1 DEF Apply, LedgerStep, Reserving, Reserved
  <2>2. CASE ~Claimable(k.order)
    BY <1>3, <2>2, CommandOutcomes DEF Apply, LedgerStep
  <2> QED
    BY <2>1, <2>2
<1>4. CASE Apply(k) /\ k.op = "complete"
  <2>1. Complete(k.order, k.lease)
    BY <1>4 DEF Apply
  <2> QED
    BY <1>4, <2>1, CommandOutcomes DEF LedgerStep, Finishing
<1>5. CASE Apply(k) /\ k.op = "uncertain"
  <2>1. MarkUncertain(k.order, k.lease)
    BY <1>5 DEF Apply
  <2> QED
    BY <2>1, CommandOutcomes DEF LedgerStep
<1>6. CASE Apply(k) /\ k.op \in {"begin", "block"}
  BY <1>6 DEF Apply, LedgerStep
<1> QED
  BY <1>1, <1>2, <1>3, <1>4, <1>5, <1>6 DEF LateCommand

\* Every step of a call has one of these outcomes on the order of the call.
LEMMA CallOutcome ==
    ASSUME TypeOK, NEW c \in Calls, CallStep(c)
    PROVE  Untouched \/ \E lease \in Calls \cup {None} : LedgerStep(call[c].order, lease)
<1> USE DEF store, world
<1>1. CASE ClaimAcquired(c)
  BY <1>1 DEF ClaimAcquired, LedgerStep, Reserving, Reserved, Goto
<1>2. CASE ClaimAnswered(c) \/ Lookup(c)
  BY <1>2, CommandOutcomes DEF ClaimAnswered, Lookup, LedgerStep
<1>3. CASE BeginAccepted(c)
  BY <1>3 DEF BeginAccepted, LedgerStep
<1>4. CASE CompleteCall(c)
  <2>1. CASE Complete(call[c].order, c)
    BY <1>4, <2>1, CommandOutcomes DEF CompleteCall, LedgerStep, Finishing
  <2>2. CASE Abandon(c, "complete", c, "mark")
    BY <2>2 DEF Abandon, Untouched
  <2> QED
    BY <1>4, <2>1, <2>2 DEF CompleteCall
<1>5. CASE BlockCall(c)
  BY <1>5 DEF BlockCall, Abandon, LedgerStep, Untouched
<1>6. CASE MarkCall(c)
  <2>1. CASE MarkUncertain(call[c].order, c)
    BY <2>1, CommandOutcomes DEF LedgerStep
  <2> QED
    BY <1>6, <2>1 DEF MarkCall, Abandon, Untouched
<1>7. CASE Settle(c)
  <2>1. CASE Complete(call[c].order, None)
    BY <1>7, <2>1, CommandOutcomes DEF Settle, LedgerStep, Finishing
  <2> QED
    BY <1>7, <2>1 DEF Settle, Abandon, Untouched
<1>8. CASE \/ \E o \in Orders : Execute(c, o) \/ ReconcileExisting(c, o)
           \/ ClaimLost(c) \/ Recheck(c) \/ Observe(c) \/ FinalAuthority(c)
           \/ BeginRefused(c) \/ BeginLost(c) \/ Submit(c) \/ SubmitStale(c)
           \/ Reconcile(c) \/ Recover(c) \/ Crash(c)
  BY <1>8 DEF Execute, ReconcileExisting, ClaimLost, Recheck, Observe, FinalAuthority,
              BeginRefused, BeginLost, Submit, SubmitStale, Reconcile, Recover, Crash,
              Abandon, Untouched
<1> QED
  BY <1>1, <1>2, <1>3, <1>4, <1>5, <1>6, <1>7, <1>8 DEF CallStep

\* How a step of a call changes that call.
Started(c) ==
    /\ call[c].pc \in {"idle", "done"}
    /\ call'[c].pc \in {"claim", "lookup"}
    /\ call'[c].pc = "claim" => call[c].pc = "idle"
    /\ call'[c].order \in Orders /\ Bound(call'[c].order) /\ ~call'[c].revoked
Observed(c) ==
    /\ call[c].pc = "observe" /\ call'[c].pc = "final"
    /\ call'[c].order = call[c].order /\ call'[c].revoked = ~grant[call[c].order]
    /\ Cardinality(OpenOn(AccountOf[call[c].order])) < MaxOpen
Moved(c) ==
    /\ call[c].pc # "idle"
    /\ call'[c].order = call[c].order /\ call'[c].revoked = call[c].revoked
    /\ call'[c].pc \in Steps \ {"idle", "claim", "lookup", "final"}
    /\ call'[c].pc = "submit" => BeginAccepted(c)
    /\ call'[c].pc = "begin" => call[c].pc = "final" /\ grant[call[c].order] /\ Untouched
    /\ call'[c].pc \in {"complete", "settle"} => entries[call[c].order] > 0
    /\ call[c].pc = "submit" => call'[c].pc # "submit"
    /\ call[c].pc \in {"done", "lookup", "recover", "settle"} =>
            call'[c].pc \in {"done", "lookup", "recover", "settle"}

\* A step of a call leaves the others alone, and starts, observes or moves on its own.
LEMMA CallShape ==
    ASSUME TypeOK, NEW c \in Calls, CallStep(c)
    PROVE  /\ \A d \in Calls \ {c} : call'[d] = call[d]
           /\ Started(c) \/ Observed(c) \/ Moved(c)
<1> USE DEF store, world
<1>0. call \in [Calls -> [pc : Steps, order : Orders \cup {None}, revoked : BOOLEAN]]
  BY DEF TypeOK
<1>1. CASE \E o \in Orders : Execute(c, o) \/ ReconcileExisting(c, o)
  <2>1. PICK o \in Orders, step \in {"claim", "lookup"} :
          /\ call' = [call EXCEPT ![c] = [pc |-> step, order |-> o, revoked |-> FALSE]]
          /\ Bound(o) /\ call[c].pc \in {"idle", "done"}
          /\ step = "claim" => call[c].pc = "idle"
    BY <1>1 DEF Execute, ReconcileExisting, NoCall
  <2>2. call'[c] = [pc |-> step, order |-> o, revoked |-> FALSE]
    BY <1>0, <2>1
  <2>3. call'[c].order = o
    BY <2>2
  <2>4. Bound(call'[c].order)
    BY <2>1, <2>3
  <2> QED
    BY <1>0, <2>1, <2>2, <2>3, <2>4 DEF Started
<1>2. CASE ClaimAcquired(c) \/ ClaimAnswered(c) \/ ClaimLost(c) \/ Recheck(c) \/ Lookup(c)
  <2>1. /\ call[c].pc \in {"claim", "recheck", "lookup"}
        /\ \E step \in {"recheck", "recover", "done", "observe", "block"} :
              Goto(c, step) /\ (call[c].pc = "lookup" => step \in {"recover", "done"})
    BY <1>2 DEF ClaimAcquired, ClaimAnswered, ClaimLost, Recheck, Lookup, Abandon
  <2> QED
    BY <1>0, <2>1 DEF Goto, Moved, Steps
<1>3. CASE Observe(c)
  BY <1>0, <1>3 DEF Observe, Observed, Moved, Goto, Steps
<1>4. CASE FinalAuthority(c)
  BY <1>0, <1>4 DEF FinalAuthority, Moved, Goto, Steps, Untouched
<1>5. CASE BeginAccepted(c)
  <2>1. call[c].pc = "begin" /\ Goto(c, "submit")
    BY <1>5 DEF BeginAccepted
  <2> QED
    BY <1>0, <1>5, <2>1 DEF Moved, Goto, Steps
<1>6. CASE BeginRefused(c) \/ BeginLost(c) \/ Submit(c) \/ SubmitStale(c)
  BY <1>0, <1>6 DEF BeginRefused, BeginLost, Submit, SubmitStale, Goto, Abandon, Moved, Steps
<1>7. CASE Reconcile(c) \/ Recover(c)
  BY <1>0, <1>7 DEF Reconcile, Recover, Goto, Moved, Steps
<1>8. CASE CompleteCall(c) \/ BlockCall(c) \/ MarkCall(c) \/ Settle(c) \/ Crash(c)
  BY <1>0, <1>8 DEF CompleteCall, BlockCall, MarkCall, Settle, Crash, Goto, Abandon, Moved, Steps
<1> QED
  BY <1>1, <1>2, <1>3, <1>4, <1>5, <1>6, <1>7, <1>8 DEF CallStep

\* A step of a call changes the registry and the world only by sending its order.
LEMMA CallWorld ==
    ASSUME NEW c \in Calls, CallStep(c)
    PROVE  /\ UNCHANGED <<binding, assigned, grant, entries, open>>
           /\ Submit(c) \/ wire' = wire
BY DEF CallStep, Execute, ReconcileExisting, ClaimAcquired, ClaimAnswered, ClaimLost, Recheck,
       Observe, FinalAuthority, BeginAccepted, BeginRefused, BeginLost, Submit, SubmitStale,
       Reconcile, CompleteCall, BlockCall, MarkCall, Lookup, Recover, Settle, Crash, Abandon,
       store, world

\* The commands a call may give up on, and where it goes on from there.
LEMMA LateShape ==
    ASSUME NEW c \in Calls, CallStep(c)
    PROVE  \/ late' = late
           \/ call[c].pc = "claim" /\ Abandon(c, "claim", c, "done")
           \/ call[c].pc = "begin" /\ Abandon(c, "begin", c, "mark")
           \/ call[c].pc = "complete" /\ Abandon(c, "complete", c, "mark")
           \/ call[c].pc = "block" /\ Abandon(c, "block", c, "done")
           \/ call[c].pc = "mark" /\ Abandon(c, "uncertain", c, "done")
           \/ call[c].pc = "settle" /\ Abandon(c, "complete", None, "done")
BY DEF CallStep, Execute, ReconcileExisting, ClaimAcquired, ClaimAnswered, ClaimLost, Recheck,
       Observe, FinalAuthority, BeginAccepted, BeginRefused, BeginLost, Submit, SubmitStale,
       Reconcile, CompleteCall, BlockCall, MarkCall, Lookup, Recover, Settle, Crash, store, world

\* What a step does to the orders on their way and to the positions.
LEMMA WorldShape ==
    ASSUME [Next]_vars
    PROVE  \/ UNCHANGED <<wire, entries, open>>
           \/ \E c \in Calls : Submit(c)
           \/ \E s \in wire : OrderLands(s)
           \/ \E o \in Orders : PositionCloses(o)
<1> USE DEF world, vars
<1>1. ASSUME NEW c \in Calls, CallStep(c)
      PROVE  Submit(c) \/ UNCHANGED <<wire, entries, open>>
  BY <1>1, CallWorld
<1>2. ASSUME NEW w \in Wallets, NEW a \in Accounts, Register(w, a)
      PROVE  UNCHANGED <<wire, entries, open>>
  BY <1>2 DEF Register
<1>3. ASSUME NEW k \in late, LateCommand(k)
      PROVE  UNCHANGED <<wire, entries, open>>
  BY <1>3 DEF LateCommand
<1>4. ASSUME NEW o \in Orders, LeaseExpires(o) \/ Revoke(o)
      PROVE  UNCHANGED <<wire, entries, open>>
  BY <1>4 DEF LeaseExpires, Revoke
<1> QED
  BY <1>1, <1>2, <1>3, <1>4 DEF Next

\* What a step does to the calls: at most one of them moves.
LEMMA CallsShape ==
    ASSUME TypeOK, [Next]_vars
    PROVE  \/ call' = call
           \/ \E c \in Calls : CallStep(c)
BY DEF Next, vars, Register, LateCommand, OrderLands, LeaseExpires, Revoke, PositionCloses

\* What a step does to the ledger.
LEMMA LedgerShape ==
    ASSUME TypeOK, OrderBound, [Next]_vars
    PROVE  \/ Untouched
           \/ \E o \in Orders, lease \in Calls \cup {None} : LedgerStep(o, lease)
<1> USE DEF vars, store, world
<1>1. ASSUME NEW c \in Calls, CallStep(c)
      PROVE  \/ Untouched
             \/ \E o \in Orders, lease \in Calls \cup {None} : LedgerStep(o, lease)
  <2>1. CASE call[c].pc = "idle"
    BY <1>1, <2>1 DEF CallStep, Execute, ReconcileExisting, ClaimAcquired, ClaimAnswered,
       ClaimLost, Recheck, Observe, FinalAuthority, BeginAccepted, BeginRefused, BeginLost,
       Submit, SubmitStale, Reconcile, CompleteCall, BlockCall, MarkCall, Lookup, Recover,
       Settle, Crash, Untouched
  <2>2. CASE call[c].pc # "idle"
    <3>1. call[c].order \in Orders
      BY <2>2 DEF OrderBound
    <3> QED
      BY <1>1, <3>1, CallOutcome
  <2> QED
    BY <2>1, <2>2
<1>2. ASSUME NEW k \in late, LateCommand(k)
      PROVE  \E o \in Orders, lease \in Calls \cup {None} : LedgerStep(o, lease)
  <2>1. k.order \in Orders /\ k.lease \in Calls \cup {None}
    BY <1>2 DEF TypeOK, Commands
  <2> QED
    BY <1>2, <2>1, LateOutcome
<1>3. ASSUME NEW o \in Orders, LeaseExpires(o)
      PROVE  LedgerStep(o, None)
  BY <1>3 DEF LeaseExpires, LedgerStep, Aged
<1>4. ASSUME NEW w \in Wallets, NEW a \in Accounts, Register(w, a)
      PROVE  Untouched
  BY <1>4 DEF Register, Untouched
<1>5. ASSUME NEW s \in wire, OrderLands(s)
      PROVE  Untouched
  BY <1>5 DEF OrderLands, Untouched
<1>6. ASSUME NEW o \in Orders, Revoke(o) \/ PositionCloses(o)
      PROVE  Untouched
  BY <1>6 DEF Revoke, PositionCloses, Untouched
<1>7. CASE UNCHANGED vars
  BY <1>7 DEF Untouched
<1> QED
  BY <1>1, <1>2, <1>3, <1>4, <1>5, <1>6, <1>7 DEF Next

\* A binding and its index, once both are set, are never changed.
LEMMA BoundStays ==
    ASSUME TypeOK, [Next]_vars, NEW o \in Orders, Bound(o)
    PROVE  Bound(o)'
<1>0. /\ WalletOf[o] \in Wallets /\ AccountOf[o] \in Accounts
      /\ WalletOf[o] # None /\ AccountOf[o] # None
  BY VenueConstants
<1>1. CASE UNCHANGED <<binding, assigned>>
  BY <1>1 DEF Bound
<1>2. ASSUME NEW w \in Wallets, NEW a \in Accounts, Register(w, a)
      PROVE  Bound(o)'
  BY <1>0, <1>2 DEF Register, Bound, TypeOK
<1>3. ASSUME NEW c \in Calls, CallStep(c)
      PROVE  UNCHANGED <<binding, assigned>>
  BY <1>3, CallWorld
<1> QED
  BY <1>1, <1>2, <1>3 DEF Next, vars, store, LateCommand, OrderLands, LeaseExpires, Revoke,
                          PositionCloses

-------------------------------------------------------------------------------
(* The parts of the inductive invariant *)

\* An outcome of a ledger command keeps the lock and the deliveries in step.
LEMMA LockKept ==
    ASSUME TypeOK, LockMatches, NEW o \in Orders, NEW lease \in Calls \cup {None},
           LedgerStep(o, lease)
    PROVE  LockMatches'
<1>0. AccountOf[o] \in Accounts /\ None \notin Orders /\ AccountOf' = AccountOf
  BY VenueConstants
<1> DEFINE Live == {"reserved", "submitting", "uncertain"}
<1> SUFFICES ASSUME NEW a \in Accounts, NEW p \in Orders
             PROVE  lock'[a] = p <=> AccountOf[p] = a /\ delivery'[p].state \in Live
  BY DEF LockMatches
<1>1. lock[a] = p <=> AccountOf[p] = a /\ delivery[p].state \in Live
  BY DEF LockMatches
<1>2. CASE Untouched \/ Aged(o) \/ Doubted(o) \/ Begin(o, lease)
  <2>1. lock' = lock /\ (delivery'[p].state \in Live <=> delivery[p].state \in Live)
    BY <1>2 DEF Untouched, Aged, Doubted, Begin, CanBegin, SetState, TypeOK
  <2> QED
    BY <1>1, <2>1
<1>3. CASE Reserved(o, lease)
  BY <1>0, <1>1, <1>3 DEF Reserved, Reserve, Claimable, TypeOK, LockMatches
<1>4. CASE Block(o, lease) \/ Finished(o)
  BY <1>0, <1>1, <1>4 DEF Block, Finished, SetState, Unlock, TypeOK, LockMatches
<1> QED
  BY <1>2, <1>3, <1>4 DEF LedgerStep, Reserving, Finishing

\* Every step keeps the types.
LEMMA TypeStep ==
    ASSUME TypeOK, OrderBound, [Next]_vars
    PROVE  TypeOK'
<1> USE DEF store, world, vars
<1>1. delivery' \in [Orders -> [state : States, lease : Calls \cup {None}, expired : BOOLEAN]]
  <2>1. CASE Untouched
    BY <2>1 DEF Untouched, TypeOK
  <2>2. ASSUME NEW o \in Orders, NEW lease \in Calls \cup {None}, LedgerStep(o, lease)
        PROVE  delivery' \in [Orders -> [state : States, lease : Calls \cup {None}, expired : BOOLEAN]]
    <3>1. \/ delivery' = delivery
          \/ delivery' = [delivery EXCEPT ![o].expired = TRUE]
          \/ \E s \in States : SetState(o, s)
          \/ delivery' = [delivery EXCEPT ![o] =
                             [state |-> "reserved", lease |-> lease, expired |-> FALSE]]
      BY <2>2 DEF LedgerStep, Untouched, Aged, Doubted, Begin, Block, Reserving, Reserved, Reserve,
                  Finishing, Finished, States
    <3> QED
      <4> DEFINE D == [state : States, lease : Calls \cup {None}, expired : BOOLEAN]
      <4>1. delivery \in [Orders -> D] /\ delivery[o] \in D
        BY DEF TypeOK
      <4>2. \E d \in D : delivery' = [delivery EXCEPT ![o] = d]
        <5>1. CASE delivery' = delivery
          <6>1. delivery' = [delivery EXCEPT ![o] = delivery[o]]
            BY <4>1, <5>1
          <6> QED
            BY <4>1, <6>1
        <5>2. CASE delivery' = [delivery EXCEPT ![o].expired = TRUE]
          <6>1. [delivery[o] EXCEPT !.expired = TRUE] \in D
            BY <4>1
          <6> QED
            BY <5>2, <6>1
        <5>3. ASSUME NEW s \in States, SetState(o, s)
              PROVE  \E d \in D : delivery' = [delivery EXCEPT ![o] = d]
          <6>1. [delivery[o] EXCEPT !.state = s] \in D
            BY <4>1
          <6> QED
            BY <5>3, <6>1 DEF SetState
        <5>4. [state |-> "reserved", lease |-> lease, expired |-> FALSE] \in D
          BY DEF States
        <5> QED
          BY <3>1, <5>1, <5>2, <5>3, <5>4
      <4> QED
        BY <4>1, <4>2
  <2> QED
    BY <2>1, <2>2, LedgerShape
<1>2. lock' \in [Accounts -> Orders \cup {None}]
  <2>1. CASE Untouched
    BY <2>1 DEF Untouched, TypeOK
  <2>2. ASSUME NEW o \in Orders, NEW lease \in Calls \cup {None}, LedgerStep(o, lease)
        PROVE  lock' \in [Accounts -> Orders \cup {None}]
    <3>1. lock' = lock \/ Unlock(o) \/ lock' = [lock EXCEPT ![AccountOf[o]] = o]
      BY <2>2 DEF LedgerStep, Untouched, Aged, Doubted, Begin, Block, Reserving, Reserved, Reserve,
                  Finishing, Finished
    <3> QED
      BY <2>2, <3>1, VenueConstants DEF Unlock, TypeOK
  <2> QED
    BY <2>1, <2>2, LedgerShape
<1>3. call' \in [Calls -> [pc : Steps, order : Orders \cup {None}, revoked : BOOLEAN]]
  <2>1. ASSUME NEW c \in Calls, CallStep(c)
        PROVE  call' \in [Calls -> [pc : Steps, order : Orders \cup {None}, revoked : BOOLEAN]]
    <3>1. CASE \E step \in Steps : Goto(c, step)
      BY <3>1 DEF Goto, TypeOK
    <3>2. CASE \E o \in Orders : Execute(c, o) \/ ReconcileExisting(c, o)
      <4>1. PICK o \in Orders : Execute(c, o) \/ ReconcileExisting(c, o)
        BY <3>2
      <4>2. \E step \in {"claim", "lookup"} :
              call' = [call EXCEPT ![c] = [pc |-> step, order |-> o, revoked |-> FALSE]]
        BY <4>1 DEF Execute, ReconcileExisting, NoCall
      <4> QED
        BY <4>2 DEF TypeOK, Steps
    <3>3. CASE Observe(c)
      BY <3>1, <3>3 DEF Observe, TypeOK, Steps
    <3>4. ClaimAcquired(c) \/ ClaimAnswered(c) \/ ClaimLost(c) => \E step \in Steps : Goto(c, step)
      BY DEF ClaimAcquired, ClaimAnswered, ClaimLost, Abandon, Steps
    <3>5. Recheck(c) \/ FinalAuthority(c) \/ BeginAccepted(c) \/ BeginRefused(c) \/ BeginLost(c)
            => \E step \in Steps : Goto(c, step)
      BY DEF Recheck, FinalAuthority, BeginAccepted, BeginRefused, BeginLost, Abandon, Steps
    <3>6. Submit(c) \/ SubmitStale(c) \/ Reconcile(c) => \E step \in Steps : Goto(c, step)
      BY DEF Submit, SubmitStale, Reconcile, Steps
    <3>7. CompleteCall(c) \/ BlockCall(c) \/ MarkCall(c) => \E step \in Steps : Goto(c, step)
      BY DEF CompleteCall, BlockCall, MarkCall, Abandon, Steps
    <3>8. Lookup(c) \/ Recover(c) \/ Settle(c) \/ Crash(c) => \E step \in Steps : Goto(c, step)
      BY DEF Lookup, Recover, Settle, Crash, Abandon, Steps
    <3> QED
      BY <2>1, <3>1, <3>2, <3>3, <3>4, <3>5, <3>6, <3>7, <3>8 DEF CallStep
  <2> QED
    BY <2>1, CallsShape DEF TypeOK
<1>4. wire' \subseteq Calls \X Orders /\ entries' \in [Orders -> Nat] /\ open' \subseteq Orders
  <2>1. ASSUME NEW c \in Calls, Submit(c)
        PROVE  wire' \subseteq Calls \X Orders /\ UNCHANGED <<entries, open>>
    <3>1. call[c].order \in Orders
      BY <2>1 DEF Submit, OrderBound
    <3> QED
      BY <2>1, <3>1 DEF Submit, TypeOK
  <2>2. ASSUME NEW s \in wire, OrderLands(s)
        PROVE  wire' \subseteq Calls \X Orders /\ entries' \in [Orders -> Nat] /\ open' \subseteq Orders
    BY <2>2 DEF OrderLands, TypeOK
  <2>3. ASSUME NEW o \in Orders, PositionCloses(o)
        PROVE  UNCHANGED <<wire, entries>> /\ open' \subseteq Orders
    BY <2>3 DEF PositionCloses, TypeOK
  <2> QED
    BY <2>1, <2>2, <2>3, WorldShape DEF TypeOK
<1>5. late' \subseteq Commands
  <2>1. ASSUME NEW c \in Calls, NEW op \in {"claim", "begin", "block", "uncertain", "complete"},
               NEW lease \in Calls \cup {None}, NEW step, Abandon(c, op, lease, step),
               call[c].pc # "idle"
        PROVE  late' \subseteq Commands
    <3>1. call[c].order \in Orders
      BY <2>1 DEF OrderBound
    <3> QED
      BY <2>1, <3>1 DEF Abandon, TypeOK, Commands
  <2>3. ASSUME NEW c \in Calls, CallStep(c)
        PROVE  late' \subseteq Commands
    BY <2>1, <2>3, LateShape DEF TypeOK
  <2> QED
    BY <2>3 DEF Next, Register, LateCommand, OrderLands, LeaseExpires, Revoke, PositionCloses, TypeOK
<1>6. /\ binding' \in [Wallets -> Accounts \cup {None}]
      /\ assigned' \in [Accounts -> Wallets \cup {None}]
      /\ grant' \in [Orders -> BOOLEAN]
  <2>1. ASSUME NEW c \in Calls, CallStep(c)
        PROVE  UNCHANGED <<binding, assigned, grant>>
    BY <2>1, CallWorld
  <2>2. ASSUME NEW w \in Wallets, NEW a \in Accounts, Register(w, a)
        PROVE  /\ binding' \in [Wallets -> Accounts \cup {None}]
               /\ assigned' \in [Accounts -> Wallets \cup {None}]
               /\ grant' = grant
    BY <2>2 DEF Register, TypeOK
  <2>3. ASSUME NEW o \in Orders, Revoke(o)
        PROVE  grant' \in [Orders -> BOOLEAN] /\ UNCHANGED <<binding, assigned>>
    BY <2>3 DEF Revoke, TypeOK
  <2>4. CASE UNCHANGED <<binding, assigned, grant>>
    BY <2>4 DEF TypeOK
  <2> QED
    <3>1. ASSUME NEW k \in late, LateCommand(k)
          PROVE  UNCHANGED <<binding, assigned, grant>>
      BY <3>1 DEF LateCommand
    <3>2. ASSUME NEW s \in wire, OrderLands(s)
          PROVE  UNCHANGED <<binding, assigned, grant>>
      BY <3>2 DEF OrderLands
    <3>3. ASSUME NEW o \in Orders, LeaseExpires(o) \/ PositionCloses(o)
          PROVE  UNCHANGED <<binding, assigned, grant>>
      BY <3>3 DEF LeaseExpires, PositionCloses
    <3>4. UNCHANGED vars => UNCHANGED <<binding, assigned, grant>>
      OBVIOUS
    <3>5. ASSUME NEW w \in Wallets, NEW a \in Accounts, Register(w, a)
          PROVE  grant' \in [Orders -> BOOLEAN]
      BY <2>2, <3>5 DEF TypeOK
    <3>6. ASSUME NEW o \in Orders, Revoke(o)
          PROVE  binding' \in [Wallets -> Accounts \cup {None}] /\ assigned' \in [Accounts -> Wallets \cup {None}]
      BY <2>3, <3>6 DEF TypeOK
    <3> QED
      BY <2>1, <2>2, <2>3, <2>4, <3>1, <3>2, <3>3, <3>4, <3>5, <3>6 DEF Next
<1> QED
  BY <1>1, <1>2, <1>3, <1>4, <1>5, <1>6 DEF TypeOK

\* Every call keeps a bound order.
LEMMA OrderBoundStep ==
    ASSUME TypeOK, OrderBound, [Next]_vars
    PROVE  OrderBound'
<1> SUFFICES ASSUME NEW d \in Calls, call'[d].pc # "idle"
             PROVE  /\ call'[d].order \in Orders
                    /\ binding'[WalletOf[call'[d].order]] = AccountOf[call'[d].order]
                    /\ assigned'[AccountOf[call'[d].order]] = WalletOf[call'[d].order]
  BY DEF OrderBound, Bound
<1>1. \/ call'[d].order = call[d].order /\ call[d].pc # "idle"
      \/ call'[d].order \in Orders /\ Bound(call'[d].order)
  <2>1. CASE call' = call
    BY <2>1
  <2>2. ASSUME NEW c \in Calls, CallStep(c)
        PROVE  \/ call'[d].order = call[d].order /\ call[d].pc # "idle"
               \/ call'[d].order \in Orders /\ Bound(call'[d].order)
    BY <2>2, CallShape DEF Started, Observed, Moved
  <2> QED
    BY <2>1, <2>2, CallsShape
<1>2. call'[d].order \in Orders /\ Bound(call'[d].order)
  <2>1. CASE call'[d].order = call[d].order /\ call[d].pc # "idle"
    <3>1. call[d].order \in Orders /\ Bound(call[d].order)
      BY <2>1 DEF OrderBound
    <3> QED
      BY <2>1, <3>1
  <2> QED
    BY <1>1, <2>1
<1>3. PICK o \in Orders : o = call'[d].order
  BY <1>2
<1>4. Bound(o)'
  <2>1. Bound(o)
    BY <1>2, <1>3
  <2> QED
    BY <2>1, BoundStays
<1>5. binding'[WalletOf[o]] = AccountOf[o] /\ assigned'[AccountOf[o]] = WalletOf[o]
  BY <1>4 DEF Bound
<1> QED
  BY <1>2, <1>3, <1>5

\* The sent copies of an order that no step sends or delivers stay the same.
LEMMA SentBy ==
    ASSUME TypeOK, OrderBound, [Next]_vars, NEW o \in Orders
    PROVE  \/ Sent(o)' \subseteq Sent(o)
           \/ \E c \in Calls : Submit(c) /\ call[c].order = o
<1>1. ASSUME NEW c \in Calls, Submit(c), call[c].order # o
      PROVE  Sent(o)' \subseteq Sent(o)
  BY <1>1 DEF Submit, Sent
<1>2. ASSUME NEW s \in wire, OrderLands(s)
      PROVE  Sent(o)' \subseteq Sent(o)
  BY <1>2 DEF OrderLands, Sent
<1>3. ASSUME NEW p \in Orders, PositionCloses(p)
      PROVE  Sent(o)' \subseteq Sent(o)
  BY <1>3 DEF PositionCloses, Sent
<1>4. CASE UNCHANGED <<wire, entries, open>>
  BY <1>4 DEF Sent
<1> QED
  BY <1>1, <1>2, <1>3, <1>4, WorldShape

\* An order has a new entry only when a copy of it was on its way.
LEMMA EntriesBy ==
    ASSUME TypeOK, [Next]_vars, NEW o \in Orders
    PROVE  \/ entries'[o] = entries[o]
           \/ entries'[o] = entries[o] + 1 /\ Sent(o) # {} /\ \E s \in wire : s[2] = o /\ OrderLands(s)
<1>1. ASSUME NEW c \in Calls, Submit(c)
      PROVE  entries' = entries
  BY <1>1 DEF Submit
<1>2. ASSUME NEW s \in wire, OrderLands(s)
      PROVE  entries'[o] = entries[o] \/ (s[2] = o /\ entries'[o] = entries[o] + 1)
  <2>1. PICK p \in Orders : p = s[2]
    BY <1>2 DEF TypeOK
  <2>2. entries' = entries \/ entries' = [entries EXCEPT ![p] = entries[p] + 1]
    BY <1>2, <2>1 DEF OrderLands
  <2>3. p = o \/ entries'[o] = entries[o]
    BY <2>2 DEF TypeOK
  <2>4. entries'[p] = entries[p] \/ entries'[p] = entries[p] + 1
    BY <2>2 DEF TypeOK
  <2> QED
    BY <2>1, <2>3, <2>4
<1>3. ASSUME NEW s \in wire, s[2] = o
      PROVE  Sent(o) # {}
  BY <1>3 DEF Sent
<1>4. ASSUME NEW p \in Orders, PositionCloses(p)
      PROVE  entries' = entries
  BY <1>4 DEF PositionCloses
<1> QED
  BY <1>1, <1>2, <1>3, <1>4, WorldShape

\* A delivery that is not yet submitting was not before either.
LEMMA NeverBackToUnsent ==
    ASSUME TypeOK, OrderBound, [Next]_vars, NEW o \in Orders,
           delivery'[o].state \in {"none", "reserved", "blocked"}
    PROVE  delivery[o].state \in {"none", "reserved", "blocked"}
<1>1. ASSUME NEW p \in Orders, NEW lease \in Calls \cup {None}, LedgerStep(p, lease)
      PROVE  delivery[o].state \in {"none", "reserved", "blocked"}
  <2>1. CASE Untouched \/ Aged(p)
    BY <2>1 DEF Untouched, Aged, TypeOK
  <2>2. CASE Doubted(p) \/ Begin(p, lease) \/ Finished(p)
    BY <2>2 DEF Doubted, Begin, Finished, SetState, TypeOK
  <2>3. CASE Block(p, lease)
    BY <2>3 DEF Block, SetState, TypeOK
  <2>4. CASE Reserved(p, lease)
    BY <2>4 DEF Reserved, Reserve, Claimable, TypeOK
  <2> QED
    BY <1>1, <2>1, <2>2, <2>3, <2>4 DEF LedgerStep, Reserving, Finishing
<1>2. CASE Untouched
  BY <1>2 DEF Untouched
<1> QED
  BY <1>1, <1>2, LedgerShape

\* Every step keeps an order that was never submitted out of the venue.
LEMMA UnsentStep ==
    ASSUME TypeOK, OrderBound, UnsentBefore, FirstToSend, [Next]_vars
    PROVE  UnsentBefore'
<1> SUFFICES ASSUME NEW o \in Orders, delivery'[o].state \in {"none", "reserved", "blocked"}
             PROVE  entries'[o] = 0 /\ Sent(o)' = {}
  BY DEF UnsentBefore
<1>1. /\ delivery[o].state \in {"none", "reserved", "blocked"}
      /\ entries[o] = 0 /\ Sent(o) = {}
  BY NeverBackToUnsent DEF UnsentBefore
<1>2. ASSUME NEW c \in Calls, Submit(c), call[c].order = o
      PROVE  FALSE
  BY <1>1, <1>2 DEF Submit, FirstToSend
<1> QED
  BY <1>1, <1>2, SentBy, EntriesBy

\* An entry is never taken back and never doubled.
LEMMA OneCopyStep ==
    ASSUME TypeOK, OrderBound, FirstToSend, OneCopy, [Next]_vars
    PROVE  OneCopy' /\ \A o \in Orders : entries[o] = 1 => entries'[o] = 1
<1>1. ASSUME NEW c \in Calls, Submit(c)
      PROVE  OneCopy' /\ entries' = entries
  <2>1. /\ call[c].order \in Orders /\ entries[call[c].order] = 0
        /\ \A s \in wire : s[2] # call[c].order
    BY <1>1 DEF Submit, FirstToSend, OrderBound, Sent
  <2>2. wire' = wire \cup {<<c, call[c].order>>} /\ entries' = entries
    BY <1>1 DEF Submit
  <2> QED
    BY <2>1, <2>2 DEF OneCopy
<1>2. ASSUME NEW s \in wire, OrderLands(s)
      PROVE  OneCopy' /\ \A o \in Orders : entries[o] = 1 => entries'[o] = 1
  <2>1. s[2] \in Orders /\ entries[s[2]] = 0 /\ wire' = wire \ {s}
    BY <1>2 DEF OrderLands, TypeOK, OneCopy
  <2>2. \A t \in wire' : t[2] # s[2] /\ t \in wire /\ t[2] \in Orders
    BY <2>1 DEF OneCopy, TypeOK
  <2>3. entries' = entries \/ entries' = [entries EXCEPT ![s[2]] = 1]
    BY <1>2, <2>1 DEF OrderLands, TypeOK
  <2> QED
    BY <2>1, <2>2, <2>3 DEF OneCopy, TypeOK
<1>3. CASE UNCHANGED <<wire, entries>>
  BY <1>3 DEF OneCopy
<1> QED
  BY <1>1, <1>2, <1>3, WorldShape DEF PositionCloses

\* The call that is about to send stays the first one to send.
LEMMA FirstStep ==
    ASSUME TypeOK, OrderBound, UnsentBefore, FirstToSend, OneCopy, ReceiptsAreTrue, [Next]_vars
    PROVE  FirstToSend'
<1> SUFFICES ASSUME NEW c \in Calls, call'[c].pc = "submit"
             PROVE  /\ delivery'[call'[c].order].lease = c
                    /\ delivery'[call'[c].order].state \in {"submitting", "uncertain"}
                    /\ entries'[call'[c].order] = 0
                    /\ \A s \in wire' : s[2] # call'[c].order
  BY DEF FirstToSend, Sent
<1>1. CASE call'[c] # call[c]
  <2>1. CallStep(c)
    <3>1. ASSUME NEW d \in Calls, CallStep(d)
          PROVE  d = c
      BY <1>1, <3>1, CallShape
    <3> QED
      BY <1>1, <3>1, CallsShape
  <2>2. call'[c].order = call[c].order /\ BeginAccepted(c)
    BY <2>1, CallShape DEF Started, Observed, Moved
  <2>3. PICK o \in Orders :
        /\ call[c].pc = "begin" /\ o = call[c].order
        /\ delivery[o].lease = c /\ delivery[o].state = "reserved"
        /\ SetState(o, "submitting") /\ UNCHANGED <<wire, entries>>
    BY <2>2 DEF BeginAccepted, Begin, CanBegin, OrderBound, world
  <2>4. entries[o] = 0 /\ \A s \in wire : s[2] # o
    BY <2>3 DEF UnsentBefore, Sent
  <2> QED
    BY <2>2, <2>3, <2>4 DEF SetState, TypeOK
<1>2. CASE call'[c] = call[c]
  <2>1. PICK o \in Orders :
        /\ call[c].pc = "submit" /\ o = call[c].order
        /\ delivery[o].lease = c /\ delivery[o].state \in {"submitting", "uncertain"}
        /\ entries[o] = 0 /\ Sent(o) = {}
    BY <1>2 DEF FirstToSend, OrderBound
  <2>2. entries'[o] = 0
    BY <2>1, EntriesBy
  <2>3. Sent(o)' = {}
    <3>1. ASSUME NEW d \in Calls, Submit(d), call[d].order = o
          PROVE  FALSE
      <4>1. d = c
        BY <2>1, <3>1 DEF Submit, FirstToSend
      <4>2. call'[c].pc \in {"reconcile", "mark"}
        BY <3>1, <4>1 DEF Submit, Goto, TypeOK
      <4> QED
        BY <4>2
    <3> QED
      BY <2>1, <3>1, SentBy
  <2>4. delivery'[o].lease = c /\ delivery'[o].state \in {"submitting", "uncertain"}
    <3>1. CASE Untouched
      BY <2>1, <3>1 DEF Untouched
    <3>2. ASSUME NEW p \in Orders, NEW lease \in Calls \cup {None}, LedgerStep(p, lease)
          PROVE  delivery'[o].lease = c /\ delivery'[o].state \in {"submitting", "uncertain"}
      <4>1. CASE Untouched \/ Aged(p) \/ Doubted(p)
        BY <2>1, <4>1 DEF Untouched, Aged, Doubted, SetState, TypeOK
      <4>2. CASE Begin(p, lease) \/ Block(p, lease)
        BY <2>1, <4>2 DEF Begin, CanBegin, Block, SetState, TypeOK
      <4>3. CASE Reserved(p, lease)
        BY <2>1, <4>3 DEF Reserved, Reserve, Claimable, TypeOK
      <4>4. CASE Finishing(p)
        <5>1. entries[p] = 1
          BY <4>4 DEF Finishing, ReceiptsAreTrue
        <5> QED
          BY <2>1, <4>4, <5>1 DEF Finishing, Finished, SetState, TypeOK
      <4> QED
        BY <3>2, <4>1, <4>2, <4>3, <4>4 DEF LedgerStep, Reserving
    <3> QED
      BY <3>1, <3>2, LedgerShape
  <2>5. \A s \in wire' : s[2] # o
    BY <2>3 DEF Sent
  <2> QED
    BY <1>2, <2>1, <2>2, <2>4, <2>5
<1> QED
  BY <1>1, <1>2

\* Whoever reports a receipt has seen an entry, which stays.
LEMMA ReceiptsStep ==
    ASSUME TypeOK, OrderBound, FirstToSend, OneCopy, ReceiptsAreTrue, [Next]_vars
    PROVE  ReceiptsAreTrue'
<1>1. ASSUME NEW c \in Calls, call'[c].pc \in {"complete", "settle"}
      PROVE  entries'[call'[c].order] = 1
  <2>1. /\ call'[c].order = call[c].order /\ call[c].pc # "idle"
        /\ call[c].pc \in {"complete", "settle"} \/ entries[call[c].order] > 0
    <3>1. CASE call'[c] = call[c]
      BY <1>1, <3>1
    <3>2. CASE call'[c] # call[c]
      <4>1. CallStep(c)
        <5>1. ASSUME NEW d \in Calls, CallStep(d)
              PROVE  d = c
          BY <3>2, <5>1, CallShape
        <5> QED
          BY <3>2, <5>1, CallsShape
      <4> QED
        BY <1>1, <4>1, CallShape DEF Started, Observed, Moved
    <3> QED
      BY <3>1, <3>2
  <2>2. PICK o \in Orders : o = call[c].order
    BY <2>1 DEF OrderBound
  <2>3. entries[o] = 1
    BY <2>1, <2>2 DEF ReceiptsAreTrue, OneCopy, TypeOK
  <2> QED
    BY <2>1, <2>2, <2>3, OneCopyStep
<1>2. ASSUME NEW k \in late', k.op = "complete"
      PROVE  entries'[k.order] = 1
  <2>1. ASSUME NEW c \in Calls, CallStep(c)
        PROVE  k \in late \/ (k.order = call[c].order /\ call[c].pc \in {"complete", "settle"})
    BY <1>2, <2>1, LateShape DEF Abandon
  <2>2. late' \subseteq late => k \in late
    BY <1>2
  <2>3. \/ k \in late
        \/ \E c \in Calls : k.order = call[c].order /\ call[c].pc \in {"complete", "settle"}
    BY <2>1, <2>2, <1>2 DEF Next, vars, Register, LateCommand, OrderLands, LeaseExpires, Revoke,
                       PositionCloses, store
  <2>4. entries[k.order] = 1 /\ k.order \in Orders
    BY <1>2, <2>3 DEF ReceiptsAreTrue, OrderBound, TypeOK, Commands
  <2> QED
    BY <2>4, OneCopyStep
<1> QED
  BY <1>1, <1>2 DEF ReceiptsAreTrue

\* A delivery is completed by someone who has the receipt.
LEMMA CompletedStep ==
    ASSUME TypeOK, OrderBound, FirstToSend, OneCopy, ReceiptsAreTrue, CompletedTrue, [Next]_vars
    PROVE  CompletedTrue'
<1> SUFFICES ASSUME NEW o \in Orders, delivery'[o].state = "completed"
             PROVE  entries'[o] = 1
  BY DEF CompletedTrue
<1>1. CASE delivery[o].state = "completed"
  BY <1>1, OneCopyStep DEF CompletedTrue
<1>2. CASE delivery[o].state # "completed"
  <2>1. ASSUME NEW p \in Orders, NEW lease \in Calls \cup {None}, LedgerStep(p, lease)
        PROVE  Finishing(o)
    <3>1. ~(Untouched \/ Aged(p))
      BY <1>2 DEF Untouched, Aged, TypeOK
    <3>2. ~(Doubted(p) \/ Begin(p, lease) \/ Block(p, lease))
      BY <1>2 DEF Doubted, Begin, Block, SetState, TypeOK
    <3>3. ~Reserved(p, lease)
      BY <1>2 DEF Reserved, Reserve, TypeOK
    <3>4. Finishing(p)
      BY <2>1, <3>1, <3>2, <3>3 DEF LedgerStep, Reserving
    <3>5. p = o
      BY <1>2, <3>4 DEF Finishing, Finished, SetState, TypeOK
    <3> QED
      BY <3>4, <3>5
  <2>2. ~Untouched
    BY <1>2 DEF Untouched
  <2>3. Finishing(o)
    BY <2>1, <2>2, LedgerShape
  <2>4. entries[o] = 1
    BY <2>3 DEF Finishing, ReceiptsAreTrue
  <2> QED
    BY <2>4, OneCopyStep
<1> QED
  BY <1>1, <1>2

\* Only bound orders are sent, and what is bound stays bound.
LEMMA SentBoundStep ==
    ASSUME TypeOK, OrderBound, SentAreBound, [Next]_vars
    PROVE  SentAreBound'
<1>1. ASSUME NEW s \in wire'
      PROVE  Bound(s[2])'
  <2>1. PICK o \in Orders : o = s[2] /\ Bound(o)
    <3>1. CASE s \in wire
      BY <3>1 DEF SentAreBound, TypeOK
    <3>2. CASE s \notin wire
      <4>1. PICK c \in Calls : Submit(c)
        BY <1>1, <3>2, WorldShape DEF OrderLands, PositionCloses
      <4>2. s[2] = call[c].order /\ call[c].pc = "submit"
        BY <1>1, <3>2, <4>1 DEF Submit
      <4> QED
        BY <4>2 DEF OrderBound
    <3> QED
      BY <3>1, <3>2
  <2>2. Bound(o)'
    BY <2>1, BoundStays
  <2> QED
    BY <2>1, <2>2
<1>2. ASSUME NEW o \in Orders, entries'[o] > 0
      PROVE  Bound(o)'
  <2>1. entries[o] > 0 \/ Sent(o) # {}
    BY <1>2, EntriesBy
  <2>2. Bound(o)
    BY <2>1 DEF Sent, SentAreBound
  <2> QED
    BY <2>2, BoundStays
<1> QED
  BY <1>1, <1>2 DEF SentAreBound

\* A claim that was given up belongs to a call that is past it for good.
LEMMA LateClaimsStep ==
    ASSUME TypeOK, LateClaims, [Next]_vars
    PROVE  LateClaims'
<1> DEFINE Past == {"done", "lookup", "recover", "settle"}
<1> SUFFICES ASSUME NEW k \in late', k.op = "claim"
             PROVE  k.lease \in Calls /\ call'[k.lease].pc \in Past
  BY DEF LateClaims
<1>1. ASSUME NEW c \in Calls, CallStep(c)
      PROVE  k.lease \in Calls /\ call'[k.lease].pc \in Past
  <2>1. CASE k \in late
    <3>1. k.lease \in Calls /\ call[k.lease].pc \in Past
      BY <2>1 DEF LateClaims
    <3>2. CASE k.lease = c
      BY <1>1, <3>1, <3>2, CallShape DEF Started, Observed, Moved
    <3>3. CASE k.lease # c
      BY <1>1, <3>1, <3>3, CallShape
    <3> QED
      BY <3>2, <3>3
  <2>2. CASE k \notin late
    <3>1. Abandon(c, "claim", c, "done") /\ k.lease = c
      BY <1>1, <2>2, LateShape DEF Abandon
    <3> QED
      BY <3>1 DEF Abandon, Goto, TypeOK
  <2> QED
    BY <2>1, <2>2
<1>2. CASE k \in late /\ call' = call
  BY <1>2 DEF LateClaims
<1> QED
  BY <1>1, <1>2 DEF Next, vars, Register, LateCommand, OrderLands, LeaseExpires, Revoke,
                    PositionCloses, store

\* The account of an order on its way is reserved for that order.
LEMMA SentHoldsLock ==
    ASSUME TypeOK, LockMatches, UnsentBefore, OneCopy, CompletedTrue, NEW s \in wire
    PROVE  s[2] \in Orders /\ lock[AccountOf[s[2]]] = s[2]
<1>1. PICK o \in Orders : o = s[2]
  BY DEF TypeOK
<1>2. Sent(o) # {} /\ entries[o] = 0
  BY <1>1 DEF Sent, OneCopy
<1>3. delivery[o].state \in {"reserved", "submitting", "uncertain"}
  BY <1>2 DEF UnsentBefore, CompletedTrue, TypeOK, States
<1>4. lock[AccountOf[o]] = o
  BY <1>3, VenueConstants DEF LockMatches
<1> QED
  BY <1>1, <1>4

\* What a call observed still holds when it sends.
LEMMA RoomStep ==
    ASSUME LedgerInv, SendInv, RoomLeft, [Next]_vars
    PROVE  RoomLeft'
<1> USE DEF LedgerInv, SendInv
<1> DEFINE Holds(c, o) ==
      \/ call[c].pc \in {"final", "begin"} /\ delivery[o].lease = c /\ delivery[o].state = "reserved"
      \/ call[c].pc = "submit"
<1> SUFFICES ASSUME NEW c \in Calls, NEW o, o = call'[c].order,
                    \/ /\ call'[c].pc \in {"final", "begin"}
                       /\ delivery'[o].lease = c /\ delivery'[o].state = "reserved"
                    \/ call'[c].pc = "submit"
             PROVE  Cardinality(OpenOn(AccountOf[o])') < MaxOpen
  BY DEF RoomLeft, OpenOn
<1>1. CASE call'[c] # call[c]
  <2>1. CallStep(c)
    <3>1. ASSUME NEW d \in Calls, CallStep(d)
          PROVE  d = c
      BY <1>1, <3>1, CallShape
    <3> QED
      BY <1>1, <3>1, CallsShape
  <2>2. OpenOn(AccountOf[o])' = OpenOn(AccountOf[o])
    BY <2>1, CallWorld DEF OpenOn
  <2>3. CASE Observed(c)
    BY <2>2, <2>3 DEF Observed
  <2>4. CASE Moved(c)
    <3>1. o = call[c].order
      BY <2>4 DEF Moved
    <3>2. Holds(c, o)
      <4>1. CASE call'[c].pc = "submit"
        BY <2>4, <3>1, <4>1 DEF Moved, BeginAccepted, Begin, CanBegin
      <4>2. CASE call'[c].pc = "begin"
        BY <2>4, <3>1, <4>2 DEF Moved, Untouched
      <4>3. call'[c].pc # "final"
        BY <2>4 DEF Moved
      <4> QED
        BY <4>1, <4>2, <4>3
    <3> QED
      BY <2>2, <3>1, <3>2 DEF RoomLeft
  <2>5. ~Started(c)
    BY DEF Started
  <2> QED
    BY <2>1, <2>3, <2>4, <2>5, CallShape
<1>2. CASE call'[c] = call[c]
  <2>1. o = call[c].order /\ o \in Orders /\ call[c].pc \in {"final", "begin", "submit"}
    BY <1>2 DEF OrderBound
  <2>2. Holds(c, o)
    <3>1. CASE call[c].pc = "submit"
      BY <3>1
    <3>2. CASE call[c].pc \in {"final", "begin"}
      <4>1. delivery'[o].lease = c /\ delivery'[o].state = "reserved"
        BY <1>2, <3>2
      <4>2. CASE Untouched
        BY <3>2, <4>1, <4>2 DEF Untouched
      <4>3. ASSUME NEW p \in Orders, NEW lease \in Calls \cup {None}, LedgerStep(p, lease)
            PROVE  delivery[o].lease = c /\ delivery[o].state = "reserved"
        <5>1. CASE Untouched \/ Aged(p)
          BY <2>1, <4>1, <5>1 DEF Untouched, Aged, TypeOK
        <5>2. CASE Doubted(p) \/ Begin(p, lease) \/ Block(p, lease) \/ Finished(p)
          BY <2>1, <4>1, <5>2 DEF Doubted, Begin, Block, Finished, SetState, TypeOK
        <5>3. CASE Reserving(p, lease)
          <6>1. lease # c
            <7>1. CASE call[lease].pc = "claim"
              BY <3>2, <7>1
            <7>2. ASSUME NEW k \in late, k.op = "claim", k.lease = lease
                  PROVE  lease # c
              BY <3>2, <7>2 DEF LateClaims
            <7> QED
              BY <5>3, <7>1, <7>2 DEF Reserving
          <6> QED
            BY <2>1, <4>1, <5>3, <6>1 DEF Reserving, Reserved, Reserve, TypeOK
        <5> QED
          BY <4>3, <5>1, <5>2, <5>3 DEF LedgerStep, Finishing
      <4> QED
        BY <3>2, <4>2, <4>3, LedgerShape
    <3> QED
      BY <2>1, <3>1, <3>2
  <2>3. Cardinality(OpenOn(AccountOf[o])) < MaxOpen
    BY <2>1, <2>2 DEF RoomLeft
  <2>4. lock[AccountOf[o]] = o /\ Sent(o) = {}
    BY <2>1, <2>2, VenueConstants DEF LockMatches, FirstToSend, UnsentBefore
  <2>5. OpenOn(AccountOf[o])' \subseteq OpenOn(AccountOf[o])
    <3>1. ASSUME NEW s \in wire, OrderLands(s)
          PROVE  OpenOn(AccountOf[o])' \subseteq OpenOn(AccountOf[o])
      <4>1. s[2] # o
        BY <2>4, <3>1 DEF Sent
      <4>2. AccountOf[s[2]] # AccountOf[o]
        BY <2>4, <3>1, <4>1, SentHoldsLock
      <4> QED
        BY <3>1, <4>2 DEF OrderLands, OpenOn
    <3>2. ASSUME NEW p \in Orders, PositionCloses(p)
          PROVE  OpenOn(AccountOf[o])' \subseteq OpenOn(AccountOf[o])
      BY <3>2 DEF PositionCloses, OpenOn
    <3>3. ASSUME NEW d \in Calls, Submit(d)
          PROVE  OpenOn(AccountOf[o])' \subseteq OpenOn(AccountOf[o])
      BY <3>3 DEF Submit, OpenOn
    <3>4. CASE UNCHANGED <<wire, entries, open>>
      BY <3>4 DEF OpenOn
    <3> QED
      BY <3>1, <3>2, <3>3, <3>4, WorldShape
  <2>6. IsFiniteSet(OpenOn(AccountOf[o])) /\ IsFiniteSet(OpenOn(AccountOf[o])')
    <3>1. OpenOn(AccountOf[o]) \subseteq Orders
      BY DEF OpenOn, TypeOK
    <3> QED
      BY <2>5, <3>1, VenueConstants, FS_Subset
  <2>7. /\ Cardinality(OpenOn(AccountOf[o])') <= Cardinality(OpenOn(AccountOf[o]))
        /\ Cardinality(OpenOn(AccountOf[o])) \in Nat /\ Cardinality(OpenOn(AccountOf[o])') \in Nat
    BY <2>5, <2>6, FS_Subset, FS_CardinalityType
  <2> QED
    BY <2>3, <2>7, VenueConstants
<1> QED
  BY <1>1, <1>2

\* The reservation serialises the risk checks of an account.
LEMMA LimitStep ==
    ASSUME LedgerInv, SendInv, RoomLeft, WithinLimit, [Next]_vars
    PROVE  WithinLimit'
<1> USE DEF LedgerInv, SendInv
<1> DEFINE Busy(a) == OpenOn(a) \cup {p \in Orders : AccountOf[p] = a /\ Sent(p) # {}}
<1> SUFFICES ASSUME NEW a \in Accounts
             PROVE  Cardinality(Busy(a)') <= MaxOpen
  BY DEF WithinLimit
<1>1. /\ Cardinality(Busy(a)) <= MaxOpen
      /\ IsFiniteSet(Busy(a)) /\ Cardinality(Busy(a)) \in Nat
  <2>1. Busy(a) \subseteq Orders
    BY DEF TypeOK, OpenOn
  <2>2. IsFiniteSet(Busy(a))
    BY <2>1, VenueConstants, FS_Subset
  <2> QED
    BY <2>2, FS_CardinalityType DEF WithinLimit
<1>2. ASSUME Busy(a)' \subseteq Busy(a)
      PROVE  Cardinality(Busy(a)') <= MaxOpen
  <2>1. Cardinality(Busy(a)') <= Cardinality(Busy(a)) /\ IsFiniteSet(Busy(a)')
    BY <1>1, <1>2, FS_Subset
  <2>2. Cardinality(Busy(a)') \in Nat
    BY <2>1, FS_CardinalityType
  <2> QED
    BY <1>1, <2>1, <2>2, VenueConstants
<1>3. CASE UNCHANGED <<wire, entries, open>>
  BY <1>2, <1>3 DEF OpenOn, Sent
<1>4. ASSUME NEW p \in Orders, PositionCloses(p)
      PROVE  Busy(a)' \subseteq Busy(a)
  BY <1>4 DEF PositionCloses, OpenOn, Sent
<1>5. ASSUME NEW s \in wire, OrderLands(s)
      PROVE  Busy(a)' \subseteq Busy(a)
  <2>1. s[2] \in Orders /\ Sent(s[2]) # {}
    BY <1>5 DEF TypeOK, Sent
  <2>2. \A p \in Orders : Sent(p)' \subseteq Sent(p)
    BY <1>5 DEF OrderLands, Sent
  <2>3. open' \subseteq open \cup {s[2]}
    BY <1>5 DEF OrderLands
  <2> QED
    BY <2>1, <2>2, <2>3 DEF OpenOn
<1>6. ASSUME NEW c \in Calls, Submit(c)
      PROVE  Cardinality(Busy(a)') <= MaxOpen
  <2>1. PICK o \in Orders : o = call[c].order /\ call[c].pc = "submit"
    BY <1>6 DEF Submit, OrderBound
  <2>2. open' = open /\ wire' = wire \cup {<<c, o>>}
    BY <1>6, <2>1 DEF Submit
  <2>3. \A p \in Orders : p # o => Sent(p)' = Sent(p)
    BY <2>2 DEF Sent
  <2>4. CASE AccountOf[o] # a
    BY <1>2, <2>2, <2>3, <2>4 DEF OpenOn
  <2>5. CASE AccountOf[o] = a
    <3>1. lock[a] = o
      BY <2>1, <2>5, VenueConstants DEF FirstToSend, LockMatches
    <3>2. ASSUME NEW p \in Orders, AccountOf[p] = a, Sent(p) # {}
          PROVE  p = o
      <4>1. PICK s \in wire : s[2] = p
        BY <3>2 DEF Sent
      <4> QED
        BY <3>1, <3>2, <4>1, SentHoldsLock
    <3>3. Busy(a)' \subseteq OpenOn(a) \cup {o}
      BY <2>2, <2>3, <3>2 DEF OpenOn
    <3>4. Cardinality(OpenOn(a)) < MaxOpen
      BY <2>1, <2>5 DEF RoomLeft
    <3>5. IsFiniteSet(OpenOn(a)) /\ Cardinality(OpenOn(a)) \in Nat
      <4>1. OpenOn(a) \subseteq Orders
        BY DEF TypeOK, OpenOn
      <4>2. IsFiniteSet(OpenOn(a))
        BY <4>1, VenueConstants, FS_Subset
      <4> QED
        BY <4>2, FS_CardinalityType
    <3>6. /\ IsFiniteSet(OpenOn(a) \cup {o})
          /\ Cardinality(OpenOn(a) \cup {o}) <= Cardinality(OpenOn(a)) + 1
          /\ Cardinality(OpenOn(a) \cup {o}) \in Nat
      <4>1. /\ IsFiniteSet(OpenOn(a) \cup {o})
            /\ Cardinality(OpenOn(a) \cup {o}) =
                 IF o \in OpenOn(a) THEN Cardinality(OpenOn(a)) ELSE Cardinality(OpenOn(a)) + 1
        BY <3>5, FS_AddElement
      <4> QED
        BY <3>5, <4>1
    <3>7. Cardinality(Busy(a)') <= Cardinality(OpenOn(a) \cup {o}) /\ IsFiniteSet(Busy(a)')
      BY <3>3, <3>6, FS_Subset
    <3>8. Cardinality(Busy(a)') \in Nat
      BY <3>7, FS_CardinalityType
    <3> QED
      BY <3>4, <3>5, <3>6, <3>7, <3>8, VenueConstants
  <2> QED
    BY <2>4, <2>5
<1> QED
  BY <1>2, <1>3, <1>4, <1>5, <1>6, WorldShape

\* A grant, once revoked, does not come back, and the last read sees it.
LEMMA RevokedStep ==
    ASSUME TypeOK, OrderBound, RevokedStays, [Next]_vars
    PROVE  RevokedStays'
<1>0. \A o \in Orders : ~grant[o] => ~grant'[o]
  <2>1. ASSUME NEW c \in Calls, CallStep(c)
        PROVE  grant' = grant
    BY <2>1, CallWorld
  <2>2. ASSUME NEW p \in Orders, Revoke(p)
        PROVE  \A o \in Orders : ~grant[o] => ~grant'[o]
    BY <2>2 DEF Revoke, TypeOK
  <2> QED
    BY <2>1, <2>2 DEF Next, vars, world, Register, LateCommand, OrderLands, LeaseExpires,
                      PositionCloses
<1> SUFFICES ASSUME NEW d \in Calls
             PROVE  /\ call'[d].pc # "idle" /\ call'[d].revoked => ~grant'[call'[d].order]
                    /\ call'[d].pc \in {"begin", "submit"} => ~call'[d].revoked
  BY DEF RevokedStays
<1>1. CASE call'[d] = call[d]
  BY <1>0, <1>1 DEF RevokedStays, OrderBound
<1>2. CASE call'[d] # call[d]
  <2>1. CallStep(d)
    <3>1. ASSUME NEW c \in Calls, CallStep(c)
          PROVE  c = d
      BY <1>2, <3>1, CallShape
    <3> QED
      BY <1>2, <3>1, CallsShape
  <2>2. grant' = grant
    BY <2>1, CallWorld
  <2>3. CASE Started(d)
    BY <2>3 DEF Started
  <2>4. CASE Observed(d)
    BY <2>2, <2>4 DEF Observed
  <2>5. CASE Moved(d)
    <3>1. /\ call[d].pc # "idle" /\ call'[d].order = call[d].order
          /\ call'[d].revoked = call[d].revoked
          /\ call'[d].pc = "submit" => call[d].pc = "begin"
          /\ call'[d].pc = "begin" => grant[call[d].order]
      BY <2>5 DEF Moved, BeginAccepted
    <3> QED
      BY <2>2, <3>1 DEF RevokedStays
  <2> QED
    BY <2>1, <2>3, <2>4, <2>5, CallShape
<1> QED
  BY <1>1, <1>2

-------------------------------------------------------------------------------
(* The theorems *)

\* The empty ledger satisfies the invariant.
LEMMA VenueInit == Init => VenueInv
<1> SUFFICES ASSUME Init PROVE VenueInv
  OBVIOUS
<1> USE DEF Init
<1>1. TypeOK
  BY DEF TypeOK, NoDelivery, NoCall, States, Steps
<1>2. OrderBound /\ LateClaims /\ RoomLeft /\ RevokedStays
  BY DEF OrderBound, LateClaims, RoomLeft, RevokedStays, NoCall
<1>3. LockMatches
  BY VenueConstants DEF LockMatches, NoDelivery
<1>4. UnsentBefore /\ FirstToSend /\ OneCopy /\ ReceiptsAreTrue /\ CompletedTrue /\ SentAreBound
  BY DEF UnsentBefore, FirstToSend, OneCopy, ReceiptsAreTrue, CompletedTrue, SentAreBound,
         Sent, NoCall, NoDelivery
<1>5. WithinLimit
  <2>1. ASSUME NEW a \in Accounts
        PROVE  OpenOn(a) \cup {o \in Orders : AccountOf[o] = a /\ Sent(o) # {}} = {}
    BY DEF OpenOn, Sent
  <2>2. Cardinality({}) <= MaxOpen
    BY FS_EmptySet, VenueConstants
  <2> QED
    BY <2>1, <2>2, Zenon DEF WithinLimit
<1> QED
  BY <1>1, <1>2, <1>3, <1>4, <1>5 DEF VenueInv, LedgerInv, SendInv

\* Every step of the bridge, the ledger and the venue keeps the invariant.
LEMMA VenueStep == VenueInv /\ [Next]_vars => VenueInv'
<1> SUFFICES ASSUME VenueInv, [Next]_vars PROVE VenueInv'
  OBVIOUS
<1> USE DEF VenueInv, LedgerInv, SendInv
<1>1. TypeOK' /\ OrderBound' /\ LateClaims'
  BY TypeStep, OrderBoundStep, LateClaimsStep
<1>2. LockMatches'
  <2>1. Untouched => LockMatches'
    BY DEF Untouched, LockMatches
  <2> QED
    BY <2>1, LedgerShape, LockKept
<1>3. UnsentBefore' /\ FirstToSend' /\ OneCopy'
  BY UnsentStep, FirstStep, OneCopyStep
<1>4. ReceiptsAreTrue' /\ CompletedTrue' /\ SentAreBound'
  BY ReceiptsStep, CompletedStep, SentBoundStep
<1>5. RoomLeft' /\ RevokedStays' /\ WithinLimit'
  BY RoomStep, RevokedStep, LimitStep
<1> QED
  BY <1>1, <1>2, <1>3, <1>4, <1>5

\* The inductive invariant of the bridge holds in every reachable state.
THEOREM VenueInvariant == Spec => []VenueInv
BY VenueInit, VenueStep, PTL DEF Spec

\* A trade is sent at most once: a reply that is lost, a command that is
\* applied late and a second execute never make the bridge send it again.
THEOREM SentOnce == Spec => []SingleOrder
<1>1. VenueInv => SingleOrder
  <2> SUFFICES ASSUME VenueInv, NEW o \in Orders
               PROVE  entries[o] + Cardinality(Sent(o)) <= 1
    BY DEF SingleOrder
  <2> USE DEF VenueInv, LedgerInv, SendInv
  <2>1. CASE Sent(o) = {}
    BY <2>1, FS_EmptySet DEF OneCopy
  <2>2. CASE Sent(o) # {}
    <3>1. PICK s \in wire : s[2] = o
      BY <2>2 DEF Sent
    <3>2. Sent(o) = {s}
      BY <3>1 DEF Sent, OneCopy
    <3>3. entries[o] = 0
      BY <3>1 DEF OneCopy
    <3> QED
      BY <3>2, <3>3, FS_Singleton
  <2> QED
    BY <2>1, <2>2
<1> QED
  BY <1>1, VenueInvariant, PTL

\* An account never holds more positions than its limit, orders still on
\* their way included, although the risk check and the order are apart.
THEOREM LimitKept == Spec => []WithinLimit
<1>1. VenueInv => WithinLimit
  BY DEF VenueInv
<1> QED
  BY <1>1, VenueInvariant, PTL

\* A delivery that is recorded as completed has its entry at the venue.
THEOREM CompletionTrue == Spec => []CompletedTrue
<1>1. VenueInv => CompletedTrue
  BY DEF VenueInv, SendInv
<1> QED
  BY <1>1, VenueInvariant, PTL

\* The lock of an account and the open deliveries agree.
THEOREM LockExact == Spec => []LockMatches
<1>1. VenueInv => LockMatches
  BY DEF VenueInv, LedgerInv
<1> QED
  BY <1>1, VenueInvariant, PTL

\* Two wallets never trade on one venue account.
THEOREM OneWalletPerAccount == Spec => []DedicatedAccount
<1>1. VenueInv => DedicatedAccount
  BY DEF VenueInv, SendInv, SentAreBound, Bound, DedicatedAccount
<1> QED
  BY <1>1, VenueInvariant, PTL

\* No order is sent whose grant was gone when the risk answer arrived.
THEOREM NothingAfterRevocation == Spec => RevokedNeverSent
<1>1. VenueInv /\ [Next]_vars =>
        [\A c \in Calls, o \in Orders : <<c, o>> \in wire' \ wire => ~call[c].revoked]_vars
  <2> SUFFICES ASSUME VenueInv, [Next]_vars, NEW c \in Calls, NEW o \in Orders,
                      <<c, o>> \in wire' \ wire
               PROVE  ~call[c].revoked
    OBVIOUS
  <2>1. PICK d \in Calls : Submit(d)
    BY WorldShape DEF OrderLands, PositionCloses
  <2>2. d = c /\ call[c].pc = "submit"
    BY <2>1 DEF Submit
  <2> QED
    BY <2>2 DEF VenueInv, RevokedStays
<1> QED
  BY <1>1, VenueInvariant, PTL DEF Spec, RevokedNeverSent
=============================================================================
