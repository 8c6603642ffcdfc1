---------------------------- MODULE SpendingProofs ----------------------------
(***************************************************************************)
(* Theorems about Spending, for every number of members, schedules,        *)
(* intents and policies, every batch, window and term.                     *)
(*                                                                         *)
(* First the recurring payments: a schedule pays exactly what was          *)
(* approved, and a closed one nothing.  Then the meters, which keep one    *)
(* number and one date of what is a set of payments; the three properties  *)
(* about them speak of the payments of the log.  The inductive invariant   *)
(* relates a meter to a view of the log: to it a payment is its own or     *)
(* not, and made under a limit.  If every payment after t was made under   *)
(* limits as tight as l, the meter holds at most a cap, and the payments   *)
(* after t are in the meter but for at most one cap, spent before its      *)
(* window opened; that has to hold for every t, because the window a       *)
(* property asks about slides with the clock.                              *)
(*                                                                         *)
(* A batch is charged payment by payment and a sum is taken over a log of  *)
(* any length; both inductions are by a least counterexample.              *)
(***************************************************************************)
EXTENDS Spending, FiniteSetTheorems, SequenceTheorems, WellFoundedInduction, TLAPS

PaymentRecords ==
    [at : Nat, intent : Intents, by : Members \cup Schedules, amount : Nat, policy : Carried]

TermRecords(n) ==
    [first : Nat, interval : Nat \ {0}, count : Nat \ {0}, since : 0 .. n]

-------------------------------------------------------------------------------
(* The log *)

\* A transfer appends its payments and leaves the earlier ones alone.
LEMMA TransferAppends ==
    ASSUME ScheduleInv, NEW i \in Intents, NEW by \in Members \cup Schedules,
           NEW carried \in Carried, NEW items \in Seq([to : Recipients, amount : Nat]),
           Transfer(i, by, carried, items)
    PROVE  /\ log' \in Seq(PaymentRecords)
           /\ Len(log') = Len(log) + Len(items)
           /\ \A k \in 1 .. Len(log) : log'[k] = log[k]
           /\ \A k \in (Len(log) + 1) .. Len(log') : log'[k].by = by /\ log'[k].at = now
<1> DEFINE new == [k \in DOMAIN items |->
                     [at |-> now, intent |-> i, by |-> by,
                      amount |-> items[k].amount, policy |-> carried]]
<1>1. log \in Seq(PaymentRecords) /\ now \in Nat
  BY DEF ScheduleInv, PaymentRecords
<1>2. DOMAIN items = 1 .. Len(items) /\ Len(items) \in Nat
  OBVIOUS
<1>3. \A k \in 1 .. Len(items) : new[k] \in PaymentRecords
  <2> TAKE k \in 1 .. Len(items)
  <2>1. items[k] \in [to : Recipients, amount : Nat]
    BY ElementOfSeq
  <2>2. items[k].amount \in Nat
    BY <2>1
  <2>3. new[k] = [at |-> now, intent |-> i, by |-> by,
                  amount |-> items[k].amount, policy |-> carried]
    BY <1>2
  <2> QED
    BY <1>1, <2>2, <2>3 DEF PaymentRecords
<1>4. new \in Seq(PaymentRecords) /\ Len(new) = Len(items)
  BY <1>2, <1>3
<1>5. \A k \in 1 .. Len(items) : new[k].by = by /\ new[k].at = now
  BY <1>2
<1>6. log' = log \o new
  BY DEF Transfer
<1> HIDE DEF new
<1>7. log' \in Seq(PaymentRecords) /\ Len(log') = Len(log) + Len(items)
  <2>1. log \o new \in Seq(PaymentRecords) /\ Len(log \o new) = Len(log) + Len(new)
    BY <1>1, <1>4, ConcatProperties
  <2> QED
    BY <1>4, <1>6, <2>1
<1>8. \A k \in 1 .. Len(log) : log'[k] = log[k]
  BY <1>1, <1>4, <1>6
<1>9. \A k \in (Len(log) + 1) .. Len(log') : log'[k].by = by /\ log'[k].at = now
  <2> TAKE k \in (Len(log) + 1) .. Len(log')
  <2>1. k - Len(log) \in 1 .. Len(items)
    BY <1>1, <1>2, <1>7
  <2>2. log'[k] = new[k - Len(log)]
    BY <1>1, <1>2, <1>4, <1>6, <1>7
  <2> QED
    BY <1>5, <2>1, <2>2
<1> QED
  BY <1>7, <1>8, <1>9

\* A longer log with the same beginning keeps the payments of a schedule that
\* made none of the new ones.
LEMMA SamePayments ==
    ASSUME ScheduleInv, NEW s \in Schedules, approved'[s] = approved[s],
           log' \in Seq(PaymentRecords), Len(log') >= Len(log),
           \A k \in 1 .. Len(log) : log'[k] = log[k],
           \A k \in (Len(log) + 1) .. Len(log') : log'[k].by # s
    PROVE  PaidSince(s)' = PaidSince(s)
<1>1. DOMAIN log = 1 .. Len(log) /\ DOMAIN log' = 1 .. Len(log')
      /\ Len(log) \in Nat /\ Len(log') \in Nat
  BY DEF ScheduleInv
<1> QED
  BY <1>1 DEF PaidSince

\* The payments of a schedule are finitely many.
LEMMA PaymentsFinite ==
    ASSUME ScheduleInv, NEW s \in Schedules
    PROVE  IsFiniteSet(PaidSince(s)) /\ Cardinality(PaidSince(s)) \in Nat
<1>1. DOMAIN log = 1 .. Len(log) /\ Len(log) \in Nat
  BY DEF ScheduleInv
<1>2. PaidSince(s) \in SUBSET (1 .. Len(log))
  BY <1>1 DEF PaidSince
<1>3. IsFiniteSet(1 .. Len(log))
  BY <1>1, FS_Interval
<1>4. IsFiniteSet(PaidSince(s))
  BY <1>2, <1>3, FS_Subset
<1> QED
  BY <1>4, FS_CardinalityType

-------------------------------------------------------------------------------
(* What a step does to one schedule *)

Kept(s) ==
    /\ schedule'[s] = schedule[s] /\ approved'[s] = approved[s]
    /\ PaidSince(s)' = PaidSince(s)

Approved(s) ==
    \E terms \in Terms, d \in Delays, i \in Intents, p \in Carried :
        /\ schedule'[s] = [status |-> "active", intent |-> i, policy |-> p, to |-> terms.to,
                           amount |-> terms.amount, interval |-> terms.interval,
                           next |-> now + d, remaining |-> terms.count]
        /\ approved'[s] = [first |-> now + d, interval |-> terms.interval,
                           count |-> terms.count, since |-> Len(log)]
        /\ log' = log

Revoked(s) ==
    /\ schedule[s] # NoSchedule /\ schedule[s].remaining > 0
    /\ schedule'[s] = [schedule[s] EXCEPT !.status = "revoked"]
    /\ approved'[s] = approved[s] /\ log' = log

Paid(s) ==
    /\ schedule[s] # NoSchedule /\ Due(schedule[s])
    /\ schedule'[s] = Advanced(schedule[s])
    /\ approved'[s] = approved[s]
    /\ Len(log') = Len(log) + 1
    /\ log'[Len(log) + 1].by = s /\ log'[Len(log) + 1].at = now

\* The log grows at its end, and the clock does not go back.
Grows ==
    /\ log' \in Seq(PaymentRecords)
    /\ Len(log') >= Len(log)
    /\ \A k \in 1 .. Len(log) : log'[k] = log[k]
    /\ \A k \in (Len(log) + 1) .. Len(log') : log'[k].at = now
    /\ now' \in Nat /\ now' >= now

\* What a step does: the log only grows, and each schedule is kept, approved,
\* revoked or paid.
LEMMA StepEffect ==
    ASSUME ScheduleInv, [Next]_vars
    PROVE  /\ Grows
           /\ schedule' = [u \in Schedules |-> schedule'[u]] /\ DOMAIN approved' = Schedules
           /\ \A s \in Schedules : Kept(s) \/ Approved(s) \/ Revoked(s) \/ Paid(s)
<1> DEFINE Effect == /\ Grows
                     /\ schedule' = [u \in Schedules |-> schedule'[u]] /\ DOMAIN approved' = Schedules
                     /\ \A s \in Schedules : Kept(s) \/ Approved(s) \/ Revoked(s) \/ Paid(s)
<1>0. /\ log \in Seq(PaymentRecords) /\ Len(log) \in Nat /\ now \in Nat
      /\ schedule = [u \in Schedules |-> schedule[u]] /\ DOMAIN approved = Schedules
      /\ schedule \in [Schedules -> ScheduleRecords \cup {NoSchedule}]
  BY DEF ScheduleInv, PaymentRecords
<1>1. ASSUME UNCHANGED <<schedule, log, approved>>, now' \in Nat, now' >= now
      PROVE  Effect
  BY <1>0, <1>1 DEF Grows, Kept, PaidSince
<1>2. ASSUME NEW i \in Intents, NEW m \in Members, NEW p \in Carried, NEW b \in Batches,
             Send(i, m, p, b)
      PROVE  Effect
  <2>1. Transfer(i, m, p, b) /\ UNCHANGED <<now, schedule, approved>>
    BY <1>2 DEF Send
  <2>2. b \in Seq([to : Recipients, amount : Nat]) /\ Len(b) \in Nat
    <3>1. b \in Seq([to : Recipients, amount : Nat])
      BY InputAssumption
    <3> QED
      BY <3>1
  <2>3. /\ log' \in Seq(PaymentRecords)
        /\ Len(log') = Len(log) + Len(b)
        /\ \A k \in 1 .. Len(log) : log'[k] = log[k]
        /\ \A k \in (Len(log) + 1) .. Len(log') : log'[k].by = m /\ log'[k].at = now
    BY <2>1, <2>2, TransferAppends
  <2>4. \A s \in Schedules : m # s
    BY InputAssumption
  <2>5. \A s \in Schedules : PaidSince(s)' = PaidSince(s)
    <3> TAKE s \in Schedules
    <3>1. approved'[s] = approved[s] /\ Len(log') >= Len(log)
      BY <1>0, <2>1, <2>2, <2>3
    <3>2. \A k \in (Len(log) + 1) .. Len(log') : log'[k].by # s
      BY <2>3, <2>4
    <3> QED
      BY <2>3, <3>1, <3>2, SamePayments
  <2>6. Grows
    <3>1. Len(log') >= Len(log)
      BY <1>0, <2>2, <2>3
    <3>2. now' = now /\ now' \in Nat /\ now' >= now
      BY <1>0, <2>1
    <3> QED
      BY <2>3, <3>1, <3>2 DEF Grows
  <2> QED
    BY <1>0, <2>1, <2>5, <2>6 DEF Kept
<1>3. ASSUME NEW seen \in Carried, NEW new \in Carried,
             execute_typed_wallet_policy_update(seen, new)
      PROVE  Effect
  BY <1>0, <1>1, <1>3 DEF execute_typed_wallet_policy_update
<1>4. ASSUME NEW s \in Schedules, NEW i \in Intents, NEW p \in Carried, NEW terms \in Terms,
             NEW d \in Delays, Activate(s, i, p, terms, now + d)
      PROVE  Effect
  <2>1. log' = log /\ now' = now
    BY <1>4 DEF Activate
  <2>2. Grows
    BY <1>0, <2>1 DEF Grows
  <2>3. Approved(s)
    BY <1>0, <1>4 DEF Activate, Approved
  <2>4. \A u \in Schedules \ {s} : schedule'[u] = schedule[u] /\ approved'[u] = approved[u]
    BY <1>0, <1>4 DEF Activate
  <2>5. schedule' = [u \in Schedules |-> schedule'[u]] /\ DOMAIN approved' = Schedules
    BY <1>0, <1>4 DEF Activate
  <2> QED
    BY <2>1, <2>2, <2>3, <2>4, <2>5 DEF Kept, PaidSince
<1>5. ASSUME NEW s \in Schedules, NEW i \in Intents, Revoke(s, i)
      PROVE  Effect
  <2>1. log' = log /\ now' = now /\ approved' = approved
    BY <1>5 DEF Revoke
  <2>2. schedule[s] # NoSchedule
    BY <1>5 DEF Revoke, NoSchedule
  <2>3. Revoked(s)
    BY <1>0, <1>5, <2>2 DEF Revoke, Revoked
  <2>4. \A u \in Schedules \ {s} : schedule'[u] = schedule[u]
    BY <1>0, <1>5 DEF Revoke
  <2>5. schedule' = [u \in Schedules |-> schedule'[u]]
    BY <1>0, <1>5 DEF Revoke
  <2> QED
    BY <1>0, <2>1, <2>3, <2>4, <2>5 DEF Kept, PaidSince, Grows
<1>6. ASSUME NEW s \in Schedules, execute_recurring_payment(s)
      PROVE  Effect
  <2>1. /\ Due(schedule[s])
        /\ schedule' = [schedule EXCEPT ![s] = Advanced(schedule[s])]
        /\ UNCHANGED <<now, approved>>
        /\ Transfer(schedule[s].intent, s, schedule[s].policy,
                    <<[to |-> schedule[s].to, amount |-> schedule[s].amount]>>)
    BY <1>6 DEF execute_recurring_payment
  <2>2. schedule[s] # NoSchedule
    BY <2>1 DEF Due, NoSchedule, None
  <2>3. schedule[s] \in ScheduleRecords
    BY <1>0, <2>2
  <2>4. /\ schedule[s].intent \in Intents /\ schedule[s].policy \in Carried
        /\ [to |-> schedule[s].to, amount |-> schedule[s].amount]
             \in [to : Recipients, amount : Nat]
    BY <2>3 DEF ScheduleRecords
  <2> DEFINE item == [to |-> schedule[s].to, amount |-> schedule[s].amount]
  <2>5. <<item>> \in Seq([to : Recipients, amount : Nat]) /\ Len(<<item>>) = 1
    BY <2>4
  <2>6. /\ log' \in Seq(PaymentRecords)
        /\ Len(log') = Len(log) + 1
        /\ \A k \in 1 .. Len(log) : log'[k] = log[k]
        /\ \A k \in (Len(log) + 1) .. Len(log') : log'[k].by = s /\ log'[k].at = now
    BY <2>1, <2>4, <2>5, TransferAppends
  <2>7. Grows
    <3>1. Len(log') >= Len(log)
      BY <1>0, <2>6
    <3>2. now' = now /\ now' \in Nat /\ now' >= now
      BY <1>0, <2>1
    <3> QED
      BY <2>6, <3>1, <3>2 DEF Grows
  <2>8. Paid(s)
    BY <1>0, <2>1, <2>2, <2>6 DEF Paid
  <2>9. \A u \in Schedules \ {s} : PaidSince(u)' = PaidSince(u)
    BY <1>0, <2>1, <2>6, SamePayments
  <2>10. \A u \in Schedules \ {s} : Kept(u)
    BY <1>0, <2>1, <2>9 DEF Kept
  <2>11. schedule' = [u \in Schedules |-> schedule'[u]]
    BY <1>0, <2>1
  <2> QED
    BY <1>0, <2>1, <2>7, <2>8, <2>10, <2>11
<1>7. CASE Tick
  BY <1>0, <1>1, <1>7 DEF Tick
<1>8. CASE UNCHANGED vars
  BY <1>0, <1>1, <1>8 DEF vars
<1>9. Effect
  BY <1>2, <1>3, <1>4, <1>5, <1>6, <1>7, <1>8 DEF Next
<1> QED
  BY <1>9

-------------------------------------------------------------------------------
(* A schedule pays what was approved *)

\* What ScheduleHonoured says of one schedule.
Honoured(s) ==
    /\ Cardinality(PaidSince(s)) + schedule[s].remaining = approved[s].count
    /\ \A k \in PaidSince(s) : log[k].at >= approved[s].first
    /\ \A j, k \in PaidSince(s) : j < k => log[k].at - log[j].at >= approved[s].interval

\* The invariant, and what it says of one schedule.
Sound(s) ==
    /\ approved[s] \in TermRecords(Len(log))
    /\ schedule[s].status = "complete" <=> schedule[s].remaining = 0
    /\ Clocked(s)
    /\ Honoured(s)

\* The property, schedule by schedule.
LEMMA HonouredEach ==
    ScheduleHonoured <=> \A s \in Schedules : schedule[s] # NoSchedule => Honoured(s)
BY DEF ScheduleHonoured, Honoured, PaidSince

\* A payment adds one element, the last of the log, to those of its schedule.
LEMMA OneMorePayment ==
    ASSUME ScheduleInv, Grows, NEW s \in Schedules, Paid(s), schedule[s] # NoSchedule
    PROVE  /\ PaidSince(s)' = PaidSince(s) \cup {Len(log) + 1}
           /\ Cardinality(PaidSince(s)') = Cardinality(PaidSince(s)) + 1
<1>1. /\ DOMAIN log = 1 .. Len(log) /\ DOMAIN log' = 1 .. Len(log')
      /\ Len(log) \in Nat /\ Len(log') = Len(log) + 1
  BY DEF ScheduleInv, Grows, Paid
<1>2. approved'[s] = approved[s] /\ approved[s].since \in 0 .. Len(log)
  BY DEF Paid, ScheduleInv
<1>3. PaidSince(s)' = PaidSince(s) \cup {Len(log) + 1}
  BY <1>1, <1>2 DEF PaidSince, Grows, Paid
<1>4. Len(log) + 1 \notin PaidSince(s)
  BY <1>1 DEF PaidSince
<1> QED
  BY <1>3, <1>4, PaymentsFinite, FS_AddElement

\* Each thing that can happen to a schedule keeps it sound.
LEMMA SoundStep ==
    ASSUME ScheduleInv, Grows, NEW s \in Schedules,
           schedule[s] # NoSchedule => Sound(s),
           Kept(s) \/ Approved(s) \/ Revoked(s) \/ Paid(s)
    PROVE  /\ schedule'[s] \in ScheduleRecords \cup {NoSchedule}
           /\ schedule'[s] # NoSchedule => Sound(s)'
<1>1. /\ now \in Nat /\ Len(log) \in Nat /\ Len(log') \in Nat /\ Len(log') >= Len(log)
      /\ DOMAIN log = 1 .. Len(log) /\ DOMAIN log' = 1 .. Len(log')
      /\ schedule[s] \in ScheduleRecords \cup {NoSchedule}
  BY DEF ScheduleInv, Grows
<1>2. \A k \in PaidSince(s) : /\ k \in 1 .. Len(log) /\ log[k].at \in Nat /\ log[k].at <= now
                              /\ log'[k] = log[k]
  <2> TAKE k \in PaidSince(s)
  <2>1. k \in 1 .. Len(log)
    BY <1>1 DEF PaidSince
  <2>2. log \in Seq(PaymentRecords)
    BY DEF ScheduleInv, PaymentRecords
  <2>3. log[k] \in PaymentRecords
    BY <2>1, <2>2, ElementOfSeq
  <2>4. log[k].at \in Nat
    BY <2>3 DEF PaymentRecords
  <2>5. log[k].at <= now
    BY <1>1, <2>1 DEF ScheduleInv
  <2> QED
    BY <2>1, <2>4, <2>5 DEF Grows
<1>3. ASSUME schedule[s] # NoSchedule
      PROVE  /\ schedule[s] \in ScheduleRecords
             /\ approved[s] \in TermRecords(Len(log)) /\ Clocked(s) /\ Honoured(s)
             /\ schedule[s].status = "complete" <=> schedule[s].remaining = 0
             /\ TermRecords(Len(log)) \subseteq TermRecords(Len(log'))
  BY <1>1, <1>3 DEF Sound, TermRecords
<1>4. CASE Kept(s)
  <2>1. PaidSince(s)' = PaidSince(s) /\ schedule'[s] = schedule[s] /\ approved'[s] = approved[s]
    BY <1>4 DEF Kept
  <2>2. ASSUME schedule[s] # NoSchedule PROVE Clocked(s)'
    BY <1>2, <1>3, <2>1, <2>2 DEF Clocked
  <2>3. ASSUME schedule[s] # NoSchedule PROVE Honoured(s)'
    BY <1>2, <1>3, <2>1, <2>3 DEF Honoured
  <2> QED
    BY <1>1, <1>3, <2>1, <2>2, <2>3 DEF Sound
<1>5. CASE Approved(s)
  <2>1. PICK terms \in Terms, d \in Delays, i \in Intents, p \in Carried :
          /\ schedule'[s] = [status |-> "active", intent |-> i, policy |-> p, to |-> terms.to,
                             amount |-> terms.amount, interval |-> terms.interval,
                             next |-> now + d, remaining |-> terms.count]
          /\ approved'[s] = [first |-> now + d, interval |-> terms.interval,
                             count |-> terms.count, since |-> Len(log)]
          /\ log' = log
    BY <1>5 DEF Approved
  <2>2. /\ terms.to \in Recipients /\ terms.amount \in Nat \ {0}
        /\ terms.interval \in Nat \ {0} /\ terms.count \in Nat \ {0} /\ d \in Nat
    BY InputAssumption
  <2>3. PaidSince(s)' = {}
    BY <1>1, <2>1 DEF PaidSince
  <2>4. schedule'[s] \in ScheduleRecords
    BY <1>1, <2>1, <2>2 DEF ScheduleRecords
  <2>5. approved'[s] \in TermRecords(Len(log'))
    BY <1>1, <2>1, <2>2 DEF TermRecords
  <2>6. Clocked(s)'
    BY <1>1, <2>1, <2>2, <2>3 DEF Clocked
  <2>7. Honoured(s)'
    BY <2>1, <2>2, <2>3, FS_EmptySet DEF Honoured
  <2>8. schedule'[s].status = "complete" <=> schedule'[s].remaining = 0
    BY <2>1, <2>2
  <2> QED
    BY <2>4, <2>5, <2>6, <2>7, <2>8 DEF Sound
<1>6. CASE Revoked(s)
  <2>1. /\ schedule[s] # NoSchedule /\ schedule[s].remaining > 0
        /\ schedule'[s] = [schedule[s] EXCEPT !.status = "revoked"]
        /\ approved'[s] = approved[s] /\ log' = log
    BY <1>6 DEF Revoked
  <2>2. /\ schedule'[s] \in ScheduleRecords /\ schedule'[s].status = "revoked"
        /\ schedule'[s].remaining = schedule[s].remaining /\ schedule'[s].next = schedule[s].next
        /\ schedule'[s].interval = schedule[s].interval
        /\ schedule[s].remaining \in Nat
    BY <1>3, <2>1 DEF ScheduleRecords
  <2>3. PaidSince(s)' = PaidSince(s)
    BY <2>1 DEF PaidSince
  <2>4. Clocked(s)'
    BY <1>3, <2>1, <2>2, <2>3 DEF Clocked
  <2>5. Honoured(s)'
    BY <1>3, <2>1, <2>2, <2>3 DEF Honoured
  <2> QED
    BY <1>3, <2>1, <2>2, <2>4, <2>5 DEF Sound
<1>7. CASE Paid(s)
  <2>1. /\ schedule[s] # NoSchedule /\ schedule[s].status = "active"
        /\ schedule[s].remaining > 0 /\ now >= schedule[s].next
        /\ schedule'[s] = Advanced(schedule[s]) /\ approved'[s] = approved[s]
        /\ Len(log') = Len(log) + 1 /\ log'[Len(log) + 1].at = now
    BY <1>7 DEF Paid, Due
  <2>2. /\ PaidSince(s)' = PaidSince(s) \cup {Len(log) + 1}
        /\ Cardinality(PaidSince(s)') = Cardinality(PaidSince(s)) + 1
        /\ Cardinality(PaidSince(s)) \in Nat
    BY <1>7, <2>1, OneMorePayment, PaymentsFinite
  <2>3. /\ schedule[s].remaining \in Nat \ {0} /\ schedule[s].next \in Nat
        /\ schedule[s].interval \in Nat \ {0}
        /\ approved[s].first \in Nat /\ approved[s].interval = schedule[s].interval
        /\ approved[s].count \in Nat
    BY <1>3, <2>1 DEF ScheduleRecords, TermRecords, Clocked
  <2>4. /\ schedule'[s] \in ScheduleRecords
        /\ schedule'[s].remaining = schedule[s].remaining - 1
        /\ schedule'[s].interval = schedule[s].interval
        /\ schedule'[s].status = "complete" <=> schedule'[s].remaining = 0
        /\ schedule[s].remaining = 1 => schedule'[s].next = schedule[s].next
        /\ schedule[s].remaining # 1 => schedule'[s].next = now + schedule[s].interval
    <3>1. schedule[s] \in ScheduleRecords
      BY <1>3, <2>1
    <3>2. CASE schedule[s].remaining = 1
      <4>1. schedule'[s] = [[schedule[s] EXCEPT !.remaining = 0] EXCEPT !.status = "complete"]
        BY <2>1, <3>2 DEF Advanced
      <4>2. 0 = schedule[s].remaining - 1
        BY <3>2
      <4>3. schedule'[s] \in ScheduleRecords
        <5>1. [schedule[s] EXCEPT !.remaining = 0] \in ScheduleRecords
          BY <3>1 DEF ScheduleRecords
        <5>2. \A x \in ScheduleRecords : [x EXCEPT !.status = "complete"] \in ScheduleRecords
          BY DEF ScheduleRecords
        <5> QED
          BY <4>1, <5>1, <5>2
      <4>4. /\ schedule'[s].remaining = 0 /\ schedule'[s].status = "complete"
            /\ schedule'[s].interval = schedule[s].interval
            /\ schedule'[s].next = schedule[s].next
        BY <3>1, <4>1 DEF ScheduleRecords
      <4> QED
        BY <3>2, <4>2, <4>3, <4>4
    <3>3. CASE schedule[s].remaining # 1
      <4>1. schedule'[s] = [[schedule[s] EXCEPT !.remaining = schedule[s].remaining - 1]
                              EXCEPT !.next = now + schedule[s].interval]
        BY <2>1, <3>3 DEF Advanced
      <4>2. /\ schedule[s].remaining - 1 \in Nat \ {0}
            /\ now + schedule[s].interval \in Nat
        BY <1>1, <2>3, <3>3
      <4> QED
        BY <2>1, <3>1, <3>3, <4>1, <4>2 DEF ScheduleRecords
    <3> QED
      BY <3>2, <3>3
  <2>5. /\ now >= approved[s].first
        /\ \A k \in PaidSince(s) : now - log[k].at >= approved[s].interval
    BY <1>1, <1>2, <1>3, <2>1, <2>3 DEF Clocked
  <2>6. Clocked(s)'
    <3>1. schedule'[s].next >= approved[s].first
      BY <1>1, <1>3, <2>1, <2>3, <2>4, <2>5 DEF Clocked
    <3>2. ASSUME schedule'[s].remaining > 0, NEW k \in PaidSince(s)'
          PROVE  schedule'[s].next - log'[k].at >= schedule'[s].interval
      <4>1. schedule'[s].next = now + schedule[s].interval
        BY <2>3, <2>4, <3>2
      <4>2. log'[k].at \in Nat /\ log'[k].at <= now
        BY <1>1, <1>2, <2>1, <2>2
      <4> QED
        BY <1>1, <2>3, <2>4, <4>1, <4>2
    <3> QED
      BY <2>1, <2>3, <2>4, <3>1, <3>2 DEF Clocked
  <2>7. Honoured(s)'
    <3>1. Cardinality(PaidSince(s)') + schedule'[s].remaining = approved'[s].count
      <4>1. Cardinality(PaidSince(s)) + schedule[s].remaining = approved[s].count
        BY <1>3, <2>1 DEF Honoured
      <4> QED
        BY <2>1, <2>2, <2>3, <2>4, <4>1
    <3>2. \A k \in PaidSince(s)' : log'[k].at >= approved'[s].first
      BY <1>2, <1>3, <2>1, <2>2, <2>5 DEF Honoured
    <3>3. ASSUME NEW j \in PaidSince(s)', NEW k \in PaidSince(s)', j < k
          PROVE  log'[k].at - log'[j].at >= approved'[s].interval
      <4>1. j \in PaidSince(s)
        BY <1>1, <1>2, <2>2, <3>3
      <4>2. CASE k \in PaidSince(s)
        BY <1>2, <1>3, <2>1, <3>3, <4>1, <4>2 DEF Honoured
      <4>3. CASE k = Len(log) + 1
        BY <1>2, <2>1, <2>5, <4>1, <4>3
      <4> QED
        BY <2>2, <4>2, <4>3
    <3> QED
      BY <3>1, <3>2, <3>3 DEF Honoured
  <2> QED
    BY <1>3, <2>1, <2>4, <2>6, <2>7 DEF Sound
<1> QED
  BY <1>4, <1>5, <1>6, <1>7

\* Every step keeps the invariant and the promise of every schedule.
LEMMA ScheduleStep ==
    ASSUME ScheduleInv, ScheduleHonoured, [Next]_vars
    PROVE  ScheduleInv' /\ ScheduleHonoured'
<1>1. /\ Grows
      /\ schedule' = [u \in Schedules |-> schedule'[u]] /\ DOMAIN approved' = Schedules
      /\ \A s \in Schedules : Kept(s) \/ Approved(s) \/ Revoked(s) \/ Paid(s)
  BY StepEffect
<1>2. \A s \in Schedules : schedule[s] # NoSchedule => Sound(s)
  BY HonouredEach DEF ScheduleInv, Sound, TermRecords
<1>3. \A s \in Schedules : /\ schedule'[s] \in ScheduleRecords \cup {NoSchedule}
                           /\ schedule'[s] # NoSchedule => Sound(s)'
  BY <1>1, <1>2, SoundStep
<1>4. ScheduleHonoured'
  BY <1>3 DEF ScheduleHonoured, Sound, Honoured, PaidSince
<1>5. \A k \in DOMAIN log' : log'[k].at <= now'
  <2> TAKE k \in DOMAIN log'
  <2>1. /\ log \in Seq(PaymentRecords) /\ Len(log) \in Nat /\ now \in Nat
        /\ DOMAIN log = 1 .. Len(log)
    BY DEF ScheduleInv, PaymentRecords
  <2>2. /\ Len(log') \in Nat /\ DOMAIN log' = 1 .. Len(log')
        /\ now' \in Nat /\ now' >= now
    BY <1>1 DEF Grows
  <2>3. CASE k \in 1 .. Len(log)
    <3>1. log'[k] = log[k] /\ log[k].at <= now
      BY <1>1, <2>1, <2>3 DEF Grows, ScheduleInv
    <3>2. log[k] \in PaymentRecords
      BY <2>1, <2>3, ElementOfSeq
    <3>3. log[k].at \in Nat
      BY <3>2 DEF PaymentRecords
    <3> QED
      BY <2>1, <2>2, <3>1, <3>3
  <2>4. CASE k \in (Len(log) + 1) .. Len(log')
    BY <1>1, <2>1, <2>2, <2>4 DEF Grows
  <2> QED
    BY <2>1, <2>2, <2>3, <2>4
<1>6. schedule' \in [Schedules -> ScheduleRecords \cup {NoSchedule}]
  <2>1. schedule' = [u \in Schedules |-> schedule'[u]]
    BY <1>1
  <2> QED
    BY <1>3, <2>1
<1> QED
  BY <1>1, <1>3, <1>4, <1>5, <1>6 DEF ScheduleInv, Sound, Grows, PaymentRecords, TermRecords

-------------------------------------------------------------------------------
(* The theorems *)

\* In every reachable state the schedules and the log agree.
THEOREM ScheduleInvariant == Spec => [](ScheduleInv /\ ScheduleHonoured)
<1>1. Init => ScheduleInv /\ ScheduleHonoured
  BY DEF Init, ScheduleInv, ScheduleHonoured
<1>2. ScheduleInv /\ ScheduleHonoured /\ [Next]_vars => (ScheduleInv /\ ScheduleHonoured)'
  BY ScheduleStep
<1> QED
  BY <1>1, <1>2, PTL DEF Spec

\* Since its last approval a schedule has made exactly the payments that are no
\* longer left, none too early (execute_recurring_payment).
THEOREM SchedulesPayAsApproved == Spec => []ScheduleHonoured
BY ScheduleInvariant, PTL

\* A revoked or completed schedule pays nothing more until it is approved anew.
THEOREM ClosedPaysNothing == Spec => ClosedIsQuiet
<1>1. ScheduleInv /\ [Next]_vars =>
        [\A s \in Schedules :
           schedule[s] # NoSchedule /\ schedule[s].status # "active" /\ approved'[s] = approved[s]
           => \A k \in DOMAIN log' : k > Len(log) => log'[k].by # s]_vars
  <2> SUFFICES ASSUME ScheduleInv, [Next]_vars, NEW s \in Schedules,
                      schedule[s] # NoSchedule, schedule[s].status # "active",
                      approved'[s] = approved[s],
                      NEW k \in DOMAIN log', k > Len(log), log'[k].by = s
               PROVE  FALSE
    OBVIOUS
  <2>1. /\ Grows
        /\ Kept(s) \/ Approved(s) \/ Revoked(s) \/ Paid(s)
    BY StepEffect
  <2>2. /\ Len(log) \in Nat /\ Len(log') \in Nat /\ DOMAIN log' = 1 .. Len(log')
        /\ approved[s].since \in 0 .. Len(log)
        /\ DOMAIN log = 1 .. Len(log)
    BY <2>1 DEF ScheduleInv, Grows
  <2>3. k \in PaidSince(s)'
    BY <2>2 DEF PaidSince
  <2>4. k \notin PaidSince(s)
    BY <2>2 DEF PaidSince
  <2>5. ~Kept(s)
    BY <2>3, <2>4 DEF Kept
  <2>6. log' # log
    BY <2>2
  <2> QED
    BY <2>1, <2>5, <2>6 DEF Approved, Revoked, Paid, Due
<1> QED
  BY <1>1, ScheduleInvariant, PTL DEF Spec, ClosedIsQuiet

-------------------------------------------------------------------------------
(* Induction, and sums over a log *)

\* A non-empty set of naturals has a least element.
LEMMA Least ==
    ASSUME NEW S \in SUBSET Nat, S # {}
    PROVE  \E m \in S : \A k \in S : m <= k
<1> DEFINE R == {ss \in Nat \X Nat : ss[1] < ss[2]}
<1>1. IsWellFoundedOn(R, Nat)
  BY NatLessThanWellFounded DEF OpToRel
<1>2. \A x, y \in Nat : y < x => <<y, x>> \in R
  OBVIOUS
<1> HIDE DEF R
<1>3. PICK m \in S : \A k \in S : ~(<<k, m>> \in R)
  BY <1>1, WFMin
<1>4. \A k \in S : ~(k < m) /\ k \in Nat /\ m \in Nat
  BY <1>2, <1>3
<1>5. \A k \in S : m <= k
  BY <1>4
<1> QED
  BY <1>5

\* Induction up to n, for what a set collects.
LEMMA Induction ==
    ASSUME NEW n \in Nat, NEW S, 0 \in S, \A k \in 0 .. (n - 1) : k \in S => k + 1 \in S
    PROVE  \A k \in 0 .. n : k \in S
<1> SUFFICES ASSUME (0 .. n) \ S # {} PROVE FALSE
  OBVIOUS
<1> DEFINE missing == (0 .. n) \ S
<1>0. missing \in SUBSET Nat /\ missing # {}
  OBVIOUS
<1> HIDE DEF missing
<1>1. PICK m \in missing : \A k \in missing : m <= k
  BY <1>0, Least
<1> USE DEF missing
<1>2. m \in Nat /\ m # 0
  BY <1>1
<1>3. m - 1 \in 0 .. (n - 1) /\ ~(m <= m - 1)
  BY <1>1, <1>2
<1>4. m - 1 \in S
  BY <1>1, <1>3
<1>5. (m - 1) + 1 \in S
  BY <1>3, <1>4
<1> QED
  BY <1>1, <1>2, <1>5

\* What Amounts computes on the way.
RunningSum(payments, ks, u) ==
    u = [n \in 0 .. Len(payments) |->
           IF n = 0 THEN 0
           ELSE u[n - 1] + (IF n \in ks THEN payments[n].amount ELSE 0)]

\* There are running sums.
LEMMA RunningSumExists ==
    ASSUME NEW payments, NEW ks, Len(payments) \in Nat
    PROVE  \E u : RunningSum(payments, ks, u)
<1> DEFINE step(u, n) == IF n = 0 THEN 0
                         ELSE u[n - 1] + (IF n \in ks THEN payments[n].amount ELSE 0)
           S == {m \in 0 .. Len(payments) : \E u : u = [n \in 0 .. m |-> step(u, n)]}
<1>1. 0 \in S
  <2>1. [n \in 0 .. 0 |-> 0] = [n \in 0 .. 0 |-> step([l \in 0 .. 0 |-> 0], n)]
    <3> DEFINE zero == [l \in 0 .. 0 |-> 0]
    <3>1. \A n \in 0 .. 0 : step(zero, n) = 0
      OBVIOUS
    <3> HIDE DEF step
    <3> QED
      BY <3>1
  <2>2. \E u : u = [n \in 0 .. 0 |-> step(u, n)]
    BY <2>1
  <2> QED
    BY <2>2
<1>2. ASSUME NEW m \in 0 .. (Len(payments) - 1), m \in S
      PROVE  m + 1 \in S
  <2>1. PICK u : u = [n \in 0 .. m |-> step(u, n)]
    BY <1>2
  <2> DEFINE more == [n \in 0 .. (m + 1) |-> IF n = m + 1 THEN step(u, m + 1) ELSE u[n]]
  <2>2. \A n \in 0 .. m : u[n] = step(u, n)
    BY <2>1
  <2>3. more = [n \in 0 .. (m + 1) |-> step(more, n)]
    BY <2>2
  <2>4. \E v : v = [n \in 0 .. (m + 1) |-> step(v, n)]
    BY <2>3
  <2>5. m + 1 \in 0 .. Len(payments)
    OBVIOUS
  <2> QED
    BY <2>4, <2>5
<1> HIDE DEF S
<1>3. \A k \in 0 .. Len(payments) : k \in S
  BY <1>1, <1>2, Induction
<1>4. Len(payments) \in S
  BY <1>3
<1> QED
  BY <1>4 DEF S, RunningSum

\* What a running sum is, one number after the other.
LEMMA RunningSumValue ==
    ASSUME NEW payments, NEW ks, NEW u, Len(payments) \in Nat, RunningSum(payments, ks, u)
    PROVE  /\ u[0] = 0
           /\ \A n \in 1 .. Len(payments) :
                u[n] = u[n - 1] + (IF n \in ks THEN payments[n].amount ELSE 0)
           /\ DOMAIN u = 0 .. Len(payments)
BY DEF RunningSum

\* Amounts is the last number of a running sum.
LEMMA AmountsIsSum ==
    ASSUME NEW payments, NEW ks, Len(payments) \in Nat
    PROVE  \E u : RunningSum(payments, ks, u) /\ Amounts(payments, ks) = u[Len(payments)]
<1> DEFINE v == CHOOSE u : RunningSum(payments, ks, u)
<1>1. RunningSum(payments, ks, v)
  BY RunningSumExists
<1>2. Amounts(payments, ks) = v[Len(payments)]
  BY DEF Amounts, RunningSum
<1> QED
  BY <1>1, <1>2

\* A running sum is determined by its payments.
LEMMA RunningSumUnique ==
    ASSUME NEW payments, NEW ks, Len(payments) \in Nat,
           NEW u, RunningSum(payments, ks, u), NEW v,
           v[0] = 0,
           \A n \in 1 .. Len(payments) :
               v[n] = v[n - 1] + (IF n \in ks THEN payments[n].amount ELSE 0)
    PROVE  \A n \in 0 .. Len(payments) : u[n] = v[n]
<1> DEFINE S == {n \in 0 .. Len(payments) : u[n] = v[n]}
<1>1. 0 \in S
  BY RunningSumValue
<1>2. ASSUME NEW n \in 0 .. (Len(payments) - 1), n \in S
      PROVE  n + 1 \in S
  <2>1. n + 1 \in 1 .. Len(payments) /\ (n + 1) - 1 = n
    OBVIOUS
  <2>2. u[n + 1] = u[n] + (IF n + 1 \in ks THEN payments[n + 1].amount ELSE 0)
    BY <2>1, RunningSumValue
  <2>3. v[n + 1] = v[n] + (IF n + 1 \in ks THEN payments[n + 1].amount ELSE 0)
    BY <2>1
  <2> QED
    BY <1>2, <2>1, <2>2, <2>3
<1> HIDE DEF S
<1>3. \A n \in 0 .. Len(payments) : n \in S
  BY <1>1, <1>2, Induction
<1> QED
  BY <1>3 DEF S

\* Whatever adds up like Amounts is Amounts.
LEMMA AmountsAre ==
    ASSUME NEW payments, NEW ks, Len(payments) \in Nat, NEW v,
           v[0] = 0,
           \A n \in 1 .. Len(payments) :
               v[n] = v[n - 1] + (IF n \in ks THEN payments[n].amount ELSE 0)
    PROVE  Amounts(payments, ks) = v[Len(payments)]
<1>1. PICK u : RunningSum(payments, ks, u) /\ Amounts(payments, ks) = u[Len(payments)]
  BY AmountsIsSum
<1> QED
  BY <1>1, RunningSumUnique

\* Nothing adds up to zero.
LEMMA AmountsOfNone ==
    ASSUME NEW payments, Len(payments) \in Nat
    PROVE  Amounts(payments, {}) = 0
<1> DEFINE v == [n \in 0 .. Len(payments) |-> 0]
<1>1. /\ v[0] = 0
      /\ \A n \in 1 .. Len(payments) :
           v[n] = v[n - 1] + (IF n \in {} THEN payments[n].amount ELSE 0)
  OBVIOUS
<1>2. v[Len(payments)] = 0
  OBVIOUS
<1> HIDE DEF v
<1> QED
  BY <1>1, <1>2, AmountsAre

\* One payment more, at the end; what is added up before it are the same payments.
LEMMA AmountsOneMore ==
    ASSUME NEW payments, NEW longer, NEW ks, NEW kt, Len(payments) \in Nat,
           Len(longer) = Len(payments) + 1,
           \A k \in 1 .. Len(payments) : /\ longer[k].amount = payments[k].amount
                                         /\ k \in kt <=> k \in ks
    PROVE  /\ Len(longer) \in kt =>
                Amounts(longer, kt) = Amounts(payments, ks) + longer[Len(longer)].amount
           /\ Len(longer) \notin kt => Amounts(longer, kt) = Amounts(payments, ks) + 0
<1>1. PICK u : RunningSum(payments, ks, u) /\ Amounts(payments, ks) = u[Len(payments)]
  BY AmountsIsSum
<1> DEFINE last == u[Len(payments)]
                     + (IF Len(longer) \in kt THEN longer[Len(longer)].amount ELSE 0)
           v == [n \in 0 .. Len(longer) |-> IF n = Len(longer) THEN last ELSE u[n]]
<1>2. v[0] = 0
  BY <1>1, RunningSumValue
<1>3. ASSUME NEW n \in 1 .. Len(longer)
      PROVE  v[n] = v[n - 1] + (IF n \in kt THEN longer[n].amount ELSE 0)
  <2>1. CASE n = Len(longer)
    BY <2>1
  <2>2. CASE n # Len(longer)
    <3>1. n \in 1 .. Len(payments) /\ n - 1 \in 0 .. Len(longer) /\ n - 1 # Len(longer)
      BY <2>2
    <3>2. u[n] = u[n - 1] + (IF n \in ks THEN payments[n].amount ELSE 0)
      BY <1>1, <3>1, RunningSumValue
    <3> QED
      BY <2>2, <3>1, <3>2
  <2> QED
    BY <2>1, <2>2
<1>4. v[Len(longer)] = last
  OBVIOUS
<1> HIDE DEF v
<1>5. Amounts(longer, kt) = v[Len(longer)]
  BY <1>2, <1>3, AmountsAre
<1> QED
  BY <1>1, <1>4, <1>5

\* Amounts are naturals, and so are their sums.
LEMMA AmountsNat ==
    ASSUME NEW payments, NEW ks, Len(payments) \in Nat,
           \A k \in 1 .. Len(payments) : payments[k].amount \in Nat
    PROVE  Amounts(payments, ks) \in Nat
<1>1. PICK u : RunningSum(payments, ks, u) /\ Amounts(payments, ks) = u[Len(payments)]
  BY AmountsIsSum
<1> DEFINE S == {n \in 0 .. Len(payments) : u[n] \in Nat}
<1>2. 0 \in S
  BY <1>1, RunningSumValue
<1>3. ASSUME NEW n \in 0 .. (Len(payments) - 1), n \in S
      PROVE  n + 1 \in S
  <2>1. n + 1 \in 1 .. Len(payments) /\ (n + 1) - 1 = n
    OBVIOUS
  <2>2. u[n + 1] = u[n] + (IF n + 1 \in ks THEN payments[n + 1].amount ELSE 0)
    BY <1>1, <2>1, RunningSumValue
  <2> QED
    BY <1>3, <2>1, <2>2
<1> HIDE DEF S
<1>4. \A n \in 0 .. Len(payments) : n \in S
  BY <1>2, <1>3, Induction
<1> QED
  BY <1>1, <1>4 DEF S

\* The amounts of the same payments of two logs are the same.
LEMMA AmountsSame ==
    ASSUME NEW payments, NEW others, NEW ks, NEW kt, Len(payments) \in Nat,
           Len(others) = Len(payments),
           \A k \in 1 .. Len(payments) : /\ others[k].amount = payments[k].amount
                                         /\ k \in kt <=> k \in ks
    PROVE  Amounts(others, kt) = Amounts(payments, ks)
<1>1. PICK u : RunningSum(payments, ks, u) /\ Amounts(payments, ks) = u[Len(payments)]
  BY AmountsIsSum
<1>2. u[0] = 0 /\ \A n \in 1 .. Len(others) :
         u[n] = u[n - 1] + (IF n \in kt THEN others[n].amount ELSE 0)
  BY <1>1, RunningSumValue
<1> QED
  BY <1>1, <1>2, AmountsAre

-------------------------------------------------------------------------------
(* A meter and the payments it is for *)

\* What a payment is to a meter: charged to it (own), or made under a limit that
\* its bound speaks of (bound).
Entries == [at : Nat, amount : Nat, own : BOOLEAN, bound : BOOLEAN, limit : Limits]
Meter == [start : Nat, used : Nat]

After(v, t) == {k \in DOMAIN v : v[k].own /\ v[k].at > t}

\* All that was paid after t was paid under limits as tight as l.
Constrained(v, t, l) ==
    On(l) /\ \A k \in DOMAIN v : v[k].bound /\ v[k].at > t => Tighter(v[k].limit, l)

\* The meter holds at most the cap, and what was paid within a window is in the
\* meter, but for at most a cap that was paid before the meter's window opened.
Bounded(v, meter) ==
    \A t \in Int, l \in Limits : Constrained(v, t, l) =>
        /\ After(v, t) # {} => meter.used <= l.cap
        /\ t >= now - l.window =>
             Amounts(v, After(v, t)) <= meter.used + (IF meter.start > t THEN l.cap ELSE 0)

\* A meter that covers the payments since its window opened.
Covers(v, meter) == Amounts(v, After(v, meter.start)) <= meter.used

Book(v, meter) ==
    /\ v \in Seq(Entries) /\ meter \in Meter /\ now \in Nat
    /\ \A k \in DOMAIN v : v[k].at <= now
    /\ Bounded(v, meter)

\* Two limits apart, or within one window, the bound is two caps.
LEMMA BoundedTwice ==
    ASSUME NEW v, NEW meter, Book(v, meter), NEW l \in Limits, Constrained(v, now - l.window, l)
    PROVE  Amounts(v, After(v, now - l.window)) <= 2 * l.cap
<1>1. /\ l.cap \in Nat /\ l.window \in Nat /\ now \in Nat /\ meter.used \in Nat
      /\ meter.start \in Nat /\ Len(v) \in Nat /\ DOMAIN v = 1 .. Len(v)
  BY DEF Book, Limits, Meter
<1> DEFINE t == now - l.window
<1>2. t \in Int /\ t >= now - l.window
  BY <1>1
<1>3. CASE After(v, t) = {}
  <2>1. Amounts(v, After(v, t)) = 0
    BY <1>1, <1>3, AmountsOfNone
  <2> QED
    BY <1>1, <2>1
<1>4. CASE After(v, t) # {}
  <2>1. meter.used <= l.cap
    BY <1>2, <1>4 DEF Book, Bounded
  <2>2. Amounts(v, After(v, t)) <= meter.used + (IF meter.start > t THEN l.cap ELSE 0)
    BY <1>2 DEF Book, Bounded
  <2>3. Amounts(v, After(v, t)) \in Nat
    <3>1. \A k \in 1 .. Len(v) : v[k] \in Entries
      BY ElementOfSeq DEF Book
    <3>2. \A k \in 1 .. Len(v) : v[k].amount \in Nat
      BY <3>1 DEF Entries
    <3> QED
      BY <1>1, <3>2, AmountsNat
  <2> QED
    BY <1>1, <2>1, <2>2, <2>3
<1> QED
  BY <1>3, <1>4

\* One entry more.
LEMMA AppendEntry ==
    ASSUME NEW v \in Seq(Entries), NEW x \in Entries, NEW w, w = Append(v, x)
    PROVE  /\ w \in Seq(Entries) /\ Len(v) \in Nat /\ Len(w) = Len(v) + 1
           /\ DOMAIN v = 1 .. Len(v) /\ DOMAIN w = 1 .. (Len(v) + 1)
           /\ \A k \in 1 .. Len(v) : w[k] = v[k] /\ v[k] \in Entries
           /\ w[Len(v) + 1] = x
           /\ \A k \in DOMAIN w : w[k] \in Entries
<1>1. /\ w \in Seq(Entries) /\ Len(w) = Len(v) + 1 /\ Len(v) \in Nat
      /\ \A k \in 1 .. Len(v) : w[k] = v[k]
      /\ w[Len(v) + 1] = x
  BY AppendProperties
<1>2. \A k \in 1 .. Len(v) : v[k] \in Entries
  BY ElementOfSeq
<1>3. \A k \in 1 .. Len(w) : w[k] \in Entries
  BY <1>1, ElementOfSeq
<1> QED
  BY <1>1, <1>2, <1>3

\* What was paid after t grows by what is appended, if it counts.
LEMMA AfterLonger ==
    ASSUME NEW v, NEW w, NEW t, Len(v) \in Nat, Len(w) = Len(v) + 1,
           DOMAIN v = 1 .. Len(v), DOMAIN w = 1 .. (Len(v) + 1),
           \A k \in 1 .. Len(v) : w[k] = v[k]
    PROVE  /\ Len(w) \in After(w, t) =>
                Amounts(w, After(w, t)) = Amounts(v, After(v, t)) + w[Len(w)].amount
           /\ Len(w) \notin After(w, t) =>
                Amounts(w, After(w, t)) = Amounts(v, After(v, t)) + 0
<1>1. \A k \in 1 .. Len(v) : /\ w[k].amount = v[k].amount
                            /\ k \in After(w, t) <=> k \in After(v, t)
  BY DEF After
<1> QED
  BY <1>1, AmountsOneMore

\* The same for a log of entries: one that is own and late enough counts.
LEMMA AfterOneMore ==
    ASSUME NEW v \in Seq(Entries), NEW x \in Entries, NEW t \in Int
    PROVE  /\ Amounts(Append(v, x), After(Append(v, x), t)) =
                Amounts(v, After(v, t)) + (IF x.own /\ x.at > t THEN x.amount ELSE 0)
           /\ Amounts(v, After(v, t)) \in Nat
<1> DEFINE w == Append(v, x)
<1>1. /\ w \in Seq(Entries) /\ Len(v) \in Nat /\ Len(w) = Len(v) + 1
      /\ DOMAIN v = 1 .. Len(v) /\ DOMAIN w = 1 .. (Len(v) + 1)
      /\ \A k \in 1 .. Len(v) : w[k] = v[k] /\ v[k] \in Entries
      /\ w[Len(v) + 1] = x
  BY AppendEntry
<1> HIDE DEF w
<1>3. Len(w) \in After(w, t) <=> x.own /\ x.at > t
  BY <1>1 DEF After
<1>4. /\ Len(w) \in After(w, t) =>
           Amounts(w, After(w, t)) = Amounts(v, After(v, t)) + w[Len(w)].amount
      /\ Len(w) \notin After(w, t) =>
           Amounts(w, After(w, t)) = Amounts(v, After(v, t)) + 0
  BY <1>1, AfterLonger
<1>5. Amounts(v, After(v, t)) \in Nat
  <2>1. \A k \in 1 .. Len(v) : v[k].amount \in Nat
    BY <1>1 DEF Entries
  <2> QED
    BY <1>1, <2>1, AmountsNat
<1> QED
  BY <1>1, <1>3, <1>4, <1>5 DEF w

\* How one payment leaves a meter: charged within its limit, untouched by the
\* payment of another, or whatever it is when no limit was on.
Charged(x, meter, next) ==
    \/ /\ x.own /\ x.bound /\ On(x.limit)
       /\ next = Advance(meter, x.limit, x.amount)
       /\ next.used <= x.limit.cap
    \/ ~x.own /\ next = meter
    \/ x.bound /\ ~On(x.limit)

\* A meter charged within its limit keeps bounding what it is for.
LEMMA BookOneMore ==
    ASSUME NEW v, NEW meter, Book(v, meter), NEW x \in Entries, x.at = now,
           NEW next \in Meter, Charged(x, meter, next)
    PROVE  Book(Append(v, x), next)
<1> DEFINE w == Append(v, x)
<1>0. v \in Seq(Entries) /\ meter \in Meter /\ now \in Nat
  BY DEF Book
<1>1. /\ w \in Seq(Entries) /\ Len(v) \in Nat /\ Len(w) = Len(v) + 1
      /\ DOMAIN v = 1 .. Len(v) /\ DOMAIN w = 1 .. (Len(v) + 1)
      /\ \A k \in 1 .. Len(v) : w[k] = v[k] /\ v[k] \in Entries
      /\ w[Len(v) + 1] = x
      /\ \A k \in DOMAIN w : w[k] \in Entries
  BY <1>0, AppendEntry
<1>2. \A t \in Int : /\ Amounts(w, After(w, t)) =
                          Amounts(v, After(v, t)) + (IF x.own /\ x.at > t THEN x.amount ELSE 0)
                     /\ Amounts(v, After(v, t)) \in Nat
  BY <1>0, AfterOneMore
<1> HIDE DEF w
<1>3. \A k \in DOMAIN w : w[k].at <= now
  BY <1>0, <1>1 DEF Book
<1>4. Bounded(w, next)
  <2> SUFFICES ASSUME NEW t \in Int, NEW l \in Limits, Constrained(w, t, l)
               PROVE  /\ After(w, t) # {} => next.used <= l.cap
                      /\ t >= now - l.window =>
                           Amounts(w, After(w, t))
                             <= next.used + (IF next.start > t THEN l.cap ELSE 0)
    BY DEF Bounded
  <2>1. /\ l.cap \in Nat \ {0} /\ l.window \in Nat \ {0} /\ next.used \in Nat
        /\ next.start \in Nat /\ meter.used \in Nat /\ meter.start \in Nat
        /\ x.amount \in Nat /\ x.limit \in Limits /\ x.limit.cap \in Nat
        /\ x.limit.window \in Nat
    BY <1>0 DEF Constrained, On, Limits, Meter, Entries
  <2>2. Constrained(v, t, l)
    BY <1>1 DEF Constrained
  <2>3. CASE now <= t
    <3>1. After(w, t) = {}
      <4>1. \A k \in DOMAIN w : w[k].at \in Nat
        BY <1>1 DEF Entries
      <4> QED
        BY <1>0, <1>3, <2>3, <4>1 DEF After
    <3>2. Amounts(w, After(w, t)) = 0
      BY <1>1, <3>1, AmountsOfNone
    <3> QED
      BY <2>1, <3>1, <3>2
  <2>4. CASE now > t
    <3>1. x.bound => Tighter(x.limit, l)
      BY <1>1, <2>4 DEF Constrained
    <3>2. After(w, t) # {} => After(v, t) # {} \/ x.own
      BY <1>1 DEF After
    <3>3. /\ After(v, t) # {} => meter.used <= l.cap
          /\ t >= now - l.window =>
               Amounts(v, After(v, t)) <= meter.used + (IF meter.start > t THEN l.cap ELSE 0)
      BY <2>2 DEF Book, Bounded
    <3>4. CASE ~x.own /\ next = meter
      <4>1. Amounts(w, After(w, t)) = Amounts(v, After(v, t))
        BY <1>2, <3>4
      <4> QED
        BY <3>2, <3>3, <3>4, <4>1
    <3>5. CASE x.own /\ x.bound /\ On(x.limit) /\ next = Advance(meter, x.limit, x.amount)
                 /\ next.used <= x.limit.cap
      <4>1. x.limit.cap <= l.cap /\ x.limit.window >= l.window
        BY <3>1, <3>5 DEF Tighter
      <4>2. next.used <= l.cap
        BY <2>1, <3>5, <4>1
      <4>3. Amounts(w, After(w, t)) = Amounts(v, After(v, t)) + x.amount
        BY <1>2, <2>4, <3>5
      <4>4. ASSUME t >= now - l.window
            PROVE  Amounts(w, After(w, t)) <= next.used + (IF next.start > t THEN l.cap ELSE 0)
        <5>1. CASE Elapsed(meter, x.limit.window)
          <6>1. next.start = now /\ next.used = x.amount
            BY <3>5, <5>1 DEF Advance
          <6>2. Amounts(v, After(v, t)) <= l.cap
            <7>1. CASE meter = Fresh
              BY <2>1, <1>2, <3>3, <4>4, <7>1 DEF Fresh
            <7>2. CASE now - meter.start >= x.limit.window
              <8>1. ~(meter.start > t)
                BY <1>0, <2>1, <4>1, <4>4, <7>2
              <8>2. Amounts(v, After(v, t)) <= meter.used
                BY <1>2, <2>1, <3>3, <4>4, <8>1
              <8>3. CASE After(v, t) = {}
                <9>1. Amounts(v, After(v, t)) = 0
                  BY <1>1, <8>3, AmountsOfNone
                <9> QED
                  BY <2>1, <9>1
              <8>4. CASE After(v, t) # {}
                BY <1>2, <2>1, <3>3, <8>2, <8>4
              <8> QED
                BY <8>3, <8>4
            <7> QED
              BY <5>1, <7>1, <7>2 DEF Elapsed
          <6> QED
            BY <1>2, <2>1, <2>4, <4>3, <6>1, <6>2
        <5>2. CASE ~Elapsed(meter, x.limit.window)
          <6>1. next.start = meter.start /\ next.used = meter.used + x.amount
            BY <1>0, <3>5, <5>2 DEF Advance, Meter
          <6> QED
            BY <1>2, <2>1, <3>3, <4>3, <4>4, <6>1
        <5> QED
          BY <5>1, <5>2
      <4> QED
        BY <4>2, <4>4
    <3>6. CASE x.bound /\ ~On(x.limit)
      BY <3>1, <3>6 DEF Tighter
    <3> QED
      BY <3>4, <3>5, <3>6 DEF Charged
  <2> QED
    BY <1>0, <2>3, <2>4
<1> QED
  BY <1>0, <1>1, <1>3, <1>4 DEF Book, w

\* A meter that is charged whenever a payment is its own keeps covering them.
LEMMA CoversOneMore ==
    ASSUME NEW v, NEW meter, Book(v, meter), Covers(v, meter), NEW x \in Entries, x.at = now,
           NEW next \in Meter,
           \/ x.own /\ next = Advance(meter, x.limit, x.amount)
           \/ ~x.own /\ next = meter
    PROVE  Covers(Append(v, x), next)
<1> DEFINE w == Append(v, x)
<1>0. v \in Seq(Entries) /\ meter \in Meter /\ now \in Nat /\ x.amount \in Nat
      /\ meter.start \in Nat /\ meter.used \in Nat
  BY DEF Book, Meter, Entries
<1>1. /\ w \in Seq(Entries) /\ Len(v) \in Nat /\ Len(w) = Len(v) + 1
      /\ DOMAIN v = 1 .. Len(v) /\ DOMAIN w = 1 .. (Len(v) + 1)
      /\ \A k \in 1 .. Len(v) : w[k] = v[k] /\ v[k] \in Entries
      /\ w[Len(v) + 1] = x
      /\ \A k \in DOMAIN w : w[k] \in Entries
  BY <1>0, AppendEntry
<1>2. /\ Amounts(w, After(w, meter.start)) =
           Amounts(v, After(v, meter.start))
             + (IF x.own /\ x.at > meter.start THEN x.amount ELSE 0)
      /\ Amounts(v, After(v, meter.start)) \in Nat
  <2>1. meter.start \in Int
    BY <1>0
  <2> QED
    BY <1>0, <2>1, AfterOneMore
<1> HIDE DEF w
<1> SUFFICES Covers(w, next)
  BY DEF w
<1>3. CASE ~x.own /\ next = meter
  BY <1>0, <1>2, <1>3 DEF Covers
<1>4. CASE x.own /\ next = Advance(meter, x.limit, x.amount)
  <2>1. CASE Elapsed(meter, x.limit.window)
    <3>1. next.start = now /\ next.used = x.amount
      BY <1>4, <2>1 DEF Advance
    <3>2. After(w, next.start) = {}
      <4>1. \A k \in DOMAIN w : w[k].at \in Nat /\ w[k].at <= now
        <5>1. \A k \in DOMAIN w : w[k].at \in Nat
          BY <1>1 DEF Entries
        <5>2. \A k \in DOMAIN v : v[k].at <= now
          BY DEF Book
        <5> QED
          BY <1>0, <1>1, <5>1, <5>2
      <4> QED
        BY <1>0, <3>1, <4>1 DEF After
    <3>3. Amounts(w, After(w, next.start)) = 0
      BY <1>1, <3>2, AmountsOfNone
    <3> QED
      BY <1>0, <3>1, <3>3 DEF Covers
  <2>2. CASE ~Elapsed(meter, x.limit.window)
    <3>1. next.start = meter.start /\ next.used = meter.used + x.amount
      BY <1>0, <1>4, <2>2 DEF Advance, Meter
    <3> QED
      BY <1>0, <1>2, <3>1 DEF Covers
  <2> QED
    BY <2>1, <2>2
<1> QED
  BY <1>3, <1>4

-------------------------------------------------------------------------------
(* The meters of an intent *)

VelocityEntry(x, i) ==
    LET metered == x.intent = i /\ On(Text[x.policy].velocity)
    IN  [at |-> x.at, amount |-> x.amount, own |-> metered, bound |-> metered,
         limit |-> Text[x.policy].velocity]

MemberEntry(x, i, m) ==
    LET caps == Text[x.policy].caps
    IN  [at |-> x.at, amount |-> x.amount, own |-> x.intent = i /\ x.by = m,
         bound |-> x.intent = i /\ x.by \in Members,
         limit |-> IF m \in DOMAIN caps THEN caps[m] ELSE NoLimit]

VelocityView(lg, i) == [k \in DOMAIN lg |-> VelocityEntry(lg[k], i)]
MemberView(lg, i, m) == [k \in DOMAIN lg |-> MemberEntry(lg[k], i, m)]

\* Every meter bounds, and the velocity meters cover, the payments of a log.
Metered(lg, sp, al) ==
    /\ lg \in Seq(PaymentRecords)
    /\ sp \in [Intents -> [velocity : Meter, send_count : Meter]]
    /\ al \in [Intents -> [Members -> Meter]]
    /\ \A i \in Intents : /\ Book(VelocityView(lg, i), sp[i].velocity)
                          /\ Covers(VelocityView(lg, i), sp[i].velocity)
                          /\ \A m \in Members : Book(MemberView(lg, i, m), al[i][m])

\* The limits of every policy that is carried are limits.
LEMMA PolicyTypes ==
    ASSUME NEW p \in Carried
    PROVE  /\ Text[p].velocity \in Limits /\ Text[p].send_count \in Limits
           /\ \A m \in DOMAIN Text[p].caps : m \in Members /\ Text[p].caps[m] \in Limits
           /\ NoLimit \in Limits /\ ~On(NoLimit)
<1>1. NoLimit \in Limits /\ ~On(NoLimit)
  BY DEF NoLimit, Limits, On
<1>2. CASE p = NoPolicy
  <2>1. /\ Unlimited.velocity = NoLimit /\ Unlimited.send_count = NoLimit
        /\ Unlimited.caps = << >>
    BY DEF Unlimited
  <2>2. Text[p] = Unlimited
    BY <1>2, PolicyAssumption
  <2>3. DOMAIN Text[p].caps = {}
    BY <2>1, <2>2
  <2> QED
    BY <1>1, <2>1, <2>2, <2>3
<1>3. CASE p \in Policies
  BY <1>1, <1>3, PolicyAssumption
<1> QED
  BY <1>2, <1>3 DEF Carried

\* What the meters see of a payment is well formed.
LEMMA EntryTypes ==
    ASSUME NEW x \in PaymentRecords, NEW i, NEW m
    PROVE  VelocityEntry(x, i) \in Entries /\ MemberEntry(x, i, m) \in Entries
<1>1. x.policy \in Carried /\ x.at \in Nat /\ x.amount \in Nat
  BY DEF PaymentRecords
<1>2. /\ Text[x.policy].velocity \in Limits /\ NoLimit \in Limits
      /\ \A u \in DOMAIN Text[x.policy].caps : Text[x.policy].caps[u] \in Limits
  BY <1>1, PolicyTypes
<1>3. (IF m \in DOMAIN Text[x.policy].caps THEN Text[x.policy].caps[m] ELSE NoLimit) \in Limits
  BY <1>2
<1>4. /\ (x.intent = i /\ On(Text[x.policy].velocity)) \in BOOLEAN
      /\ (x.intent = i /\ x.by = m) \in BOOLEAN
      /\ (x.intent = i /\ x.by \in Members) \in BOOLEAN
  BY DEF On
<1> QED
  BY <1>1, <1>2, <1>3, <1>4 DEF VelocityEntry, MemberEntry, Entries

\* A view of a longer log is a longer view.
LEMMA ViewsOneMore ==
    ASSUME NEW lg \in Seq(PaymentRecords), NEW x \in PaymentRecords, NEW i, NEW m
    PROVE  /\ VelocityView(Append(lg, x), i) = Append(VelocityView(lg, i), VelocityEntry(x, i))
           /\ MemberView(Append(lg, x), i, m) = Append(MemberView(lg, i, m), MemberEntry(x, i, m))
BY DEF VelocityView, MemberView

\* What a meter becomes, when the payment is within its limit.
LEMMA MeterStep ==
    ASSUME NEW limit \in Limits, NEW meter \in Meter, NEW n \in Nat, now \in Nat
    PROVE  /\ enforce_meter(limit, meter, n).meter \in Meter
           /\ On(limit) => enforce_meter(limit, meter, n).meter = Advance(meter, limit, n)
           /\ On(limit) /\ enforce_meter(limit, meter, n).ok
                => Advance(meter, limit, n).used <= limit.cap
           /\ ~On(limit) => enforce_meter(limit, meter, n).meter = meter
<1>1. Advance(meter, limit, n) \in Meter
  <2>1. CASE Elapsed(meter, limit.window)
    BY <2>1 DEF Advance, Meter
  <2>2. CASE ~Elapsed(meter, limit.window)
    BY <2>2 DEF Advance, Meter
  <2> QED
    BY <2>1, <2>2
<1>2. CASE On(limit)
  BY <1>1, <1>2 DEF enforce_meter
<1>3. CASE ~On(limit)
  BY <1>3 DEF enforce_meter
<1> QED
  BY <1>2, <1>3

\* One payment that the velocity limit of its policy let through.
LEMMA VelocityOneMore ==
    ASSUME NEW lg \in Seq(PaymentRecords), NEW x \in PaymentRecords, x.at = now,
           NEW i \in Intents, NEW meter,
           Book(VelocityView(lg, i), meter), Covers(VelocityView(lg, i), meter),
           NEW next,
           \/ x.intent # i /\ next = meter
           \/ /\ x.intent = i
              /\ enforce_meter(Text[x.policy].velocity, meter, x.amount).ok
              /\ next = enforce_meter(Text[x.policy].velocity, meter, x.amount).meter
    PROVE  Book(VelocityView(Append(lg, x), i), next) /\ Covers(VelocityView(Append(lg, x), i), next)
<1> DEFINE limit == Text[x.policy].velocity
           e == VelocityEntry(x, i)
           v == VelocityView(lg, i)
<1>1. x.amount \in Nat /\ limit \in Limits /\ meter \in Meter /\ now \in Nat
  BY PolicyTypes DEF PaymentRecords, Book
<1>2. e \in Entries
  BY EntryTypes
<1>3. /\ e.at = now /\ e.amount = x.amount /\ e.limit = limit
      /\ e.own <=> x.intent = i /\ On(limit)
      /\ e.bound <=> x.intent = i /\ On(limit)
  BY DEF VelocityEntry
<1>4. VelocityView(Append(lg, x), i) = Append(v, e)
  BY ViewsOneMore
<1> HIDE DEF e, v, limit
<1>5. /\ next \in Meter
      /\ Charged(e, meter, next)
      /\ \/ e.own /\ next = Advance(meter, e.limit, e.amount)
         \/ ~e.own /\ next = meter
  <2>1. CASE x.intent # i /\ next = meter
    BY <1>1, <1>3, <2>1 DEF Charged
  <2>2. CASE /\ x.intent = i
             /\ enforce_meter(limit, meter, x.amount).ok
             /\ next = enforce_meter(limit, meter, x.amount).meter
    BY <1>1, <1>3, <2>2, MeterStep DEF Charged
  <2> QED
    BY <2>1, <2>2 DEF limit
<1>6. Book(v, meter) /\ Covers(v, meter)
  BY DEF v
<1>7. Book(Append(v, e), next)
  BY <1>2, <1>3, <1>5, <1>6, BookOneMore
<1>8. Covers(Append(v, e), next)
  BY <1>2, <1>3, <1>5, <1>6, CoversOneMore
<1> QED
  BY <1>4, <1>7, <1>8

\* One send, as the allowance of some member sees it.
LEMMA AllowanceOneMore ==
    ASSUME NEW lg \in Seq(PaymentRecords), NEW x \in PaymentRecords, x.at = now,
           NEW i \in Intents, NEW m \in Members, NEW meter,
           Book(MemberView(lg, i, m), meter), NEW next,
           \/ x.intent # i /\ next = meter
           \/ x.by \notin Members /\ next = meter
           \/ /\ x.intent = i /\ x.by \in Members /\ m \notin DOMAIN Text[x.policy].caps
              /\ next \in Meter
           \/ /\ x.intent = i /\ x.by \in Members \ {m} /\ m \in DOMAIN Text[x.policy].caps
              /\ next = meter
           \/ /\ x.intent = i /\ x.by = m /\ m \in DOMAIN Text[x.policy].caps
              /\ enforce_meter(Text[x.policy].caps[m], meter, x.amount).ok
              /\ next = enforce_meter(Text[x.policy].caps[m], meter, x.amount).meter
    PROVE  Book(MemberView(Append(lg, x), i, m), next)
<1> DEFINE caps == Text[x.policy].caps
           e == MemberEntry(x, i, m)
           v == MemberView(lg, i, m)
<1>1. x.amount \in Nat /\ x.policy \in Carried /\ meter \in Meter /\ now \in Nat
  BY DEF PaymentRecords, Book
<1>2. /\ m \in DOMAIN caps => caps[m] \in Limits
      /\ NoLimit \in Limits /\ ~On(NoLimit)
  BY <1>1, PolicyTypes
<1>3. e \in Entries
  BY EntryTypes
<1>4. /\ e.at = now /\ e.amount = x.amount
      /\ m \in DOMAIN caps => e.limit = caps[m]
      /\ m \notin DOMAIN caps => e.limit = NoLimit
      /\ e.own <=> x.intent = i /\ x.by = m
      /\ e.bound <=> x.intent = i /\ x.by \in Members
  BY DEF MemberEntry
<1>5. MemberView(Append(lg, x), i, m) = Append(v, e)
  BY ViewsOneMore
<1>6. Book(v, meter)
  OBVIOUS
<1> HIDE DEF e, v, caps
<1>7. next \in Meter /\ Charged(e, meter, next)
  <2>1. CASE x.intent # i /\ next = meter
    BY <1>1, <1>4, <2>1 DEF Charged
  <2>2. CASE x.by \notin Members /\ next = meter
    BY <1>1, <1>4, <2>2 DEF Charged
  <2>3. CASE x.intent = i /\ x.by \in Members /\ m \notin DOMAIN caps /\ next \in Meter
    BY <1>2, <1>4, <2>3 DEF Charged
  <2>4. CASE x.intent = i /\ x.by \in Members \ {m} /\ next = meter
    BY <1>1, <1>4, <2>4 DEF Charged
  <2>5. CASE /\ x.intent = i /\ x.by = m /\ m \in DOMAIN caps
             /\ enforce_meter(caps[m], meter, x.amount).ok
             /\ next = enforce_meter(caps[m], meter, x.amount).meter
    <3>1. caps[m] \in Limits /\ e.limit = caps[m] /\ e.own /\ e.bound
      BY <1>2, <1>4, <2>5
    <3>2. CASE On(caps[m])
      BY <1>1, <1>4, <2>5, <3>1, <3>2, MeterStep DEF Charged
    <3>3. CASE ~On(caps[m])
      BY <1>1, <1>4, <2>5, <3>1, <3>3, MeterStep DEF Charged
    <3> QED
      BY <3>2, <3>3
  <2> QED
    BY <2>1, <2>2, <2>3, <2>4, <2>5 DEF caps
<1>8. Book(Append(v, e), next)
  BY <1>3, <1>4, <1>6, <1>7, BookOneMore
<1> QED
  BY <1>5, <1>8

-------------------------------------------------------------------------------
(* Sends *)

\* What a payment of a send proposal charges when it may be made.
LEMMA EnforceEffect ==
    ASSUME NEW p, NEW member \in Members, NEW approvals, NEW approved_at, NEW acc, NEW item,
           DOMAIN acc.rows = Members
    PROVE  LET r == enforce_typed_send_policy(p, member, approvals, approved_at, acc, item)
               v == enforce_meter(p.velocity, acc.spend.velocity, item.amount)
               c == enforce_meter(p.send_count, acc.spend.send_count, 1)
               a == enforce_meter(p.caps[member], acc.rows[member], item.amount)
           IN  /\ r.ok => acc.ok /\ v.ok /\ (member \in DOMAIN p.caps => a.ok)
               /\ r.spend = [velocity |-> v.meter, send_count |-> c.meter]
               /\ r.rows = [m \in Members |-> r.rows[m]]
               /\ \A m \in Members :
                    /\ m \notin DOMAIN p.caps => r.rows[m] = Fresh
                    /\ m \in DOMAIN p.caps /\ m # member => r.rows[m] = acc.rows[m]
               /\ member \in DOMAIN p.caps => r.rows[member] = a.meter
<1> DEFINE r == enforce_typed_send_policy(p, member, approvals, approved_at, acc, item)
           v == enforce_meter(p.velocity, acc.spend.velocity, item.amount)
           c == enforce_meter(p.send_count, acc.spend.send_count, 1)
           a == enforce_meter(p.caps[member], acc.rows[member], item.amount)
           rows == retain_members(acc.rows, p)
           ma == enforce_member_allowance(p, member, rows[member], item.amount)
<1>1. /\ r.ok => acc.ok /\ v.ok /\ ma.ok
      /\ r.spend = [velocity |-> v.meter, send_count |-> c.meter]
      /\ r.rows = [rows EXCEPT ![member] = ma.meter]
  BY DEF enforce_typed_send_policy
<1>2. /\ DOMAIN rows = Members
      /\ \A m \in Members : rows[m] = IF m \in DOMAIN p.caps THEN acc.rows[m] ELSE Fresh
  BY DEF retain_members
<1>3. member \in DOMAIN p.caps => ma.meter = a.meter /\ (ma.ok => a.ok)
  BY <1>2 DEF enforce_member_allowance, enforce_meter
<1>4. member \notin DOMAIN p.caps => ma.meter = Fresh
  BY <1>2 DEF enforce_member_allowance
<1> HIDE DEF r, v, c, a, rows, ma
<1>5. /\ r.ok => acc.ok /\ v.ok /\ (member \in DOMAIN p.caps => a.ok)
      /\ r.spend = [velocity |-> v.meter, send_count |-> c.meter]
      /\ r.rows = [m \in Members |-> r.rows[m]]
      /\ \A m \in Members :
           /\ m \notin DOMAIN p.caps => r.rows[m] = Fresh
           /\ m \in DOMAIN p.caps /\ m # member => r.rows[m] = acc.rows[m]
      /\ member \in DOMAIN p.caps => r.rows[member] = a.meter
  BY <1>1, <1>2, <1>3, <1>4
<1> QED
  BY <1>5 DEF r, v, c, a

\* One payment of a send proposal: every meter of its intent is charged as it must be.
LEMMA SendOneMore ==
    ASSUME NEW lg, NEW sp, NEW al, Metered(lg, sp, al), now \in Nat,
           NEW i \in Intents, NEW member \in Members, NEW p \in Carried,
           NEW item \in [to : Recipients, amount : Nat],
           NEW approvals, NEW approved_at, NEW acc, acc.spend = sp[i], acc.rows = al[i],
           NEW r, r = enforce_typed_send_policy(Text[p], member, approvals, approved_at, acc, item),
           r.ok,
           NEW x,
           x = [at |-> now, intent |-> i, by |-> member, amount |-> item.amount, policy |-> p]
    PROVE  Metered(Append(lg, x), [sp EXCEPT ![i] = r.spend], [al EXCEPT ![i] = r.rows])
<1> DEFINE e == [at |-> now, intent |-> i, by |-> member, amount |-> item.amount, policy |-> p]
           v == enforce_meter(Text[p].velocity, acc.spend.velocity, item.amount)
           c == enforce_meter(Text[p].send_count, acc.spend.send_count, 1)
           a == enforce_meter(Text[p].caps[member], acc.rows[member], item.amount)
<1>1. /\ lg \in Seq(PaymentRecords)
      /\ sp \in [Intents -> [velocity : Meter, send_count : Meter]]
      /\ al \in [Intents -> [Members -> Meter]]
  BY DEF Metered
<1>2. /\ e \in PaymentRecords /\ e.at = now /\ e.intent = i /\ e.by = member
      /\ e.amount = item.amount /\ e.policy = p /\ item.amount \in Nat
  BY DEF PaymentRecords
<1>3. /\ Text[p].velocity \in Limits /\ Text[p].send_count \in Limits
      /\ member \in DOMAIN Text[p].caps => Text[p].caps[member] \in Limits
  BY PolicyTypes
<1>4. /\ v.ok /\ (member \in DOMAIN Text[p].caps => a.ok)
      /\ r.spend = [velocity |-> v.meter, send_count |-> c.meter]
      /\ r.rows = [m \in Members |-> r.rows[m]]
      /\ \A m \in Members :
           /\ m \notin DOMAIN Text[p].caps => r.rows[m] = Fresh
           /\ m \in DOMAIN Text[p].caps /\ m # member => r.rows[m] = acc.rows[m]
      /\ member \in DOMAIN Text[p].caps => r.rows[member] = a.meter
  <2>1. DOMAIN acc.rows = Members
    BY <1>1
  <2> QED
    BY <2>1, EnforceEffect
<1>5. /\ acc.spend.velocity \in Meter /\ acc.spend.send_count \in Meter
      /\ \A m \in Members : acc.rows[m] \in Meter
  BY <1>1
<1>6. v.meter \in Meter /\ c.meter \in Meter
  BY <1>2, <1>3, <1>5, MeterStep
<1>7. member \in DOMAIN Text[p].caps => a.meter \in Meter
  BY <1>2, <1>3, <1>5, MeterStep
<1> DEFINE sq == [sp EXCEPT ![i] = r.spend]
           aq == [al EXCEPT ![i] = r.rows]
<1>8. /\ sq \in [Intents -> [velocity : Meter, send_count : Meter]]
      /\ sq[i].velocity = v.meter
      /\ \A j \in Intents \ {i} : sq[j] = sp[j]
  BY <1>1, <1>4, <1>6
<1>9. /\ \A m \in Members : r.rows[m] \in Meter
      /\ aq \in [Intents -> [Members -> Meter]]
      /\ aq[i] = r.rows
      /\ \A j \in Intents \ {i} : aq[j] = al[j]
  <2>1. ASSUME NEW m \in Members PROVE r.rows[m] \in Meter
    <3>1. Fresh \in Meter
      BY DEF Fresh, Meter
    <3> QED
      BY <1>4, <1>5, <1>7, <3>1
  <2>2. r.rows \in [Members -> Meter]
    BY <1>4, <2>1
  <2> QED
    BY <1>1, <2>1, <2>2
<1> HIDE DEF e, v, c, a, sq, aq
<1>10. Append(lg, e) \in Seq(PaymentRecords)
  BY <1>1, <1>2
<1>11. ASSUME NEW j \in Intents
       PROVE  /\ Book(VelocityView(Append(lg, e), j), sq[j].velocity)
              /\ Covers(VelocityView(Append(lg, e), j), sq[j].velocity)
  <2>1. Book(VelocityView(lg, j), sp[j].velocity) /\ Covers(VelocityView(lg, j), sp[j].velocity)
    BY DEF Metered
  <2>2. CASE j = i
    <3>1. /\ enforce_meter(Text[e.policy].velocity, sp[j].velocity, e.amount).ok
          /\ sq[j].velocity = enforce_meter(Text[e.policy].velocity, sp[j].velocity, e.amount).meter
      BY <1>2, <1>4, <1>8, <2>2 DEF v
    <3> QED
      BY <1>1, <1>2, <2>1, <2>2, <3>1, VelocityOneMore
  <2>3. CASE j # i
    BY <1>1, <1>2, <1>8, <2>1, <2>3, VelocityOneMore
  <2> QED
    BY <2>2, <2>3
<1>12. ASSUME NEW j \in Intents, NEW m \in Members
       PROVE  Book(MemberView(Append(lg, e), j, m), aq[j][m])
  <2>1. Book(MemberView(lg, j, m), al[j][m])
    BY DEF Metered
  <2>2. CASE j # i
    BY <1>1, <1>2, <1>9, <2>1, <2>2, AllowanceOneMore
  <2>3. CASE j = i /\ m \notin DOMAIN Text[p].caps
    BY <1>1, <1>2, <1>9, <2>1, <2>3, AllowanceOneMore
  <2>4. CASE j = i /\ m \in DOMAIN Text[p].caps /\ m # member
    <3>1. aq[j][m] = al[j][m]
      BY <1>4, <1>9, <2>4
    <3> QED
      BY <1>1, <1>2, <2>1, <2>4, <3>1, AllowanceOneMore
  <2>5. CASE j = i /\ m \in DOMAIN Text[p].caps /\ m = member
    <3>1. /\ enforce_meter(Text[e.policy].caps[m], al[j][m], e.amount).ok
          /\ aq[j][m] = enforce_meter(Text[e.policy].caps[m], al[j][m], e.amount).meter
      BY <1>2, <1>4, <1>9, <2>5 DEF a
    <3> QED
      BY <1>1, <1>2, <2>1, <2>5, <3>1, AllowanceOneMore
  <2> QED
    BY <2>2, <2>3, <2>4, <2>5
<1>13. Metered(Append(lg, e), sq, aq)
  BY <1>8, <1>9, <1>10, <1>11, <1>12 DEF Metered
<1> QED
  BY <1>13 DEF e, sq, aq

\* What Charge computes on the way.
ChargeRun(i, member, approvals, approved_at, carried, items, acc) ==
    acc = [k \in 0 .. Len(items) |->
             IF k = 0 THEN [ok |-> TRUE, spend |-> spend[i], rows |-> allowance[i]]
             ELSE enforce_typed_send_policy(Text[carried], member, approvals, approved_at,
                                            acc[k - 1], items[k])]

\* The payments of a proposal can be charged one after the other.
LEMMA ChargeRunExists ==
    ASSUME NEW i, NEW member, NEW approvals, NEW approved_at, NEW carried, NEW items,
           Len(items) \in Nat
    PROVE  \E acc : ChargeRun(i, member, approvals, approved_at, carried, items, acc)
<1> DEFINE first == [ok |-> TRUE, spend |-> spend[i], rows |-> allowance[i]]
           more(u, k) == enforce_typed_send_policy(Text[carried], member, approvals, approved_at,
                                                   u, items[k])
           step(u, k) == IF k = 0 THEN first ELSE more(u[k - 1], k)
           S == {m \in 0 .. Len(items) : \E u : u = [k \in 0 .. m |-> step(u, k)]}
<1> HIDE DEF first, more
<1>1. 0 \in S
  <2>1. [k \in 0 .. 0 |-> first] = [k \in 0 .. 0 |-> step([l \in 0 .. 0 |-> first], k)]
    <3> DEFINE single == [l \in 0 .. 0 |-> first]
    <3>1. \A k \in 0 .. 0 : step(single, k) = first
      OBVIOUS
    <3> HIDE DEF step
    <3> QED
      BY <3>1
  <2>2. \E u : u = [k \in 0 .. 0 |-> step(u, k)]
    BY <2>1
  <2> QED
    BY <2>2
<1>2. ASSUME NEW m \in 0 .. (Len(items) - 1), m \in S
      PROVE  m + 1 \in S
  <2>1. PICK u : u = [k \in 0 .. m |-> step(u, k)]
    BY <1>2
  <2> DEFINE w == [k \in 0 .. (m + 1) |-> IF k = m + 1 THEN step(u, m + 1) ELSE u[k]]
  <2>2. \A k \in 0 .. m : u[k] = step(u, k)
    BY <2>1
  <2>3. w = [k \in 0 .. (m + 1) |-> step(w, k)]
    BY <2>2
  <2>4. \E z : z = [k \in 0 .. (m + 1) |-> step(z, k)]
    BY <2>3
  <2>5. m + 1 \in 0 .. Len(items)
    OBVIOUS
  <2> QED
    BY <2>4, <2>5
<1> HIDE DEF S
<1>3. \A k \in 0 .. Len(items) : k \in S
  BY <1>1, <1>2, Induction
<1>4. Len(items) \in S
  BY <1>3
<1> QED
  BY <1>4 DEF S, ChargeRun, first, more

\* The same, one payment after the other.
Charges(i, member, approvals, approved_at, carried, items, acc) ==
    /\ acc[0] = [ok |-> TRUE, spend |-> spend[i], rows |-> allowance[i]]
    /\ \A k \in 1 .. Len(items) :
         acc[k] = enforce_typed_send_policy(Text[carried], member, approvals, approved_at,
                                            acc[k - 1], items[k])

\* Charge is the outcome of that.
LEMMA ChargeIsRun ==
    ASSUME NEW i, NEW member, NEW approvals, NEW approved_at, NEW carried, NEW items,
           Len(items) \in Nat
    PROVE  \E acc : /\ Charges(i, member, approvals, approved_at, carried, items, acc)
                    /\ Charge(i, member, approvals, approved_at, carried, items) = acc[Len(items)]
<1> DEFINE acc == CHOOSE u : ChargeRun(i, member, approvals, approved_at, carried, items, u)
           first == [ok |-> TRUE, spend |-> spend[i], rows |-> allowance[i]]
           more(u, k) == enforce_typed_send_policy(Text[carried], member, approvals, approved_at,
                                                   u, items[k])
<1>1. ChargeRun(i, member, approvals, approved_at, carried, items, acc)
  BY ChargeRunExists
<1>2. Charge(i, member, approvals, approved_at, carried, items) = acc[Len(items)]
  BY DEF Charge, ChargeRun
<1> HIDE DEF acc
<1>3. acc = [k \in 0 .. Len(items) |-> IF k = 0 THEN first ELSE more(acc[k - 1], k)]
  BY <1>1 DEF ChargeRun
<1> HIDE DEF first, more
<1>4. acc[0] = first /\ \A k \in 1 .. Len(items) : acc[k] = more(acc[k - 1], k)
  BY <1>3
<1>5. Charges(i, member, approvals, approved_at, carried, items, acc)
  BY <1>4 DEF Charges, first, more
<1> QED
  BY <1>2, <1>5

\* What a payment charges depends neither on the approvals nor on their time.
LEMMA ChargesAlike ==
    ASSUME NEW p, NEW member, NEW approvals, NEW approved_at, NEW others, NEW other_at,
           NEW acc, NEW bcc, acc.spend = bcc.spend, acc.rows = bcc.rows, NEW item
    PROVE  LET r == enforce_typed_send_policy(p, member, approvals, approved_at, acc, item)
               q == enforce_typed_send_policy(p, member, others, other_at, bcc, item)
           IN  r.spend = q.spend /\ r.rows = q.rows
BY DEF enforce_typed_send_policy

\* A send proposal: every payment of it, one after the other.
LEMMA SendMetered ==
    ASSUME Metered(log, spend, allowance), now \in Nat,
           NEW i \in Intents, NEW member \in Members, NEW p \in Carried, NEW b \in Batches,
           Send(i, member, p, b)
    PROVE  Metered(log', spend', allowance')
<1>0. /\ b \in Seq([to : Recipients, amount : Nat]) /\ Len(b) \in Nat /\ DOMAIN b = 1 .. Len(b)
      /\ log \in Seq(PaymentRecords) /\ Len(log) \in Nat /\ DOMAIN log = 1 .. Len(log)
      /\ \A k \in 1 .. Len(b) : b[k] \in [to : Recipients, amount : Nat]
  <2>1. b \in Seq([to : Recipients, amount : Nat]) /\ log \in Seq(PaymentRecords)
    BY InputAssumption DEF Metered
  <2>2. \A k \in 1 .. Len(b) : b[k] \in [to : Recipients, amount : Nat]
    BY <2>1, ElementOfSeq
  <2> QED
    BY <2>1, <2>2
<1>1. PICK approvals, approved_at : Charge(i, member, approvals, approved_at, p, b).ok
  BY DEF Send
<1>2. PICK acc : /\ Charges(i, member, approvals, approved_at, p, b, acc)
                 /\ Charge(i, member, approvals, approved_at, p, b) = acc[Len(b)]
  BY <1>0, ChargeIsRun
<1>3. PICK bcc : /\ Charges(i, member, {}, now, p, b, bcc)
                 /\ Charge(i, member, {}, now, p, b) = bcc[Len(b)]
  BY <1>0, ChargeIsRun
<1> DEFINE rec(k) == [at |-> now, intent |-> i, by |-> member,
                      amount |-> b[k].amount, policy |-> p]
           lg(n) == [k \in 1 .. (Len(log) + n) |->
                       IF k <= Len(log) THEN log[k] ELSE rec(k - Len(log))]
           sp(n) == [spend EXCEPT ![i] = acc[n].spend]
           al(n) == [allowance EXCEPT ![i] = acc[n].rows]
           S == {n \in 0 .. Len(b) : /\ acc[n].spend = bcc[n].spend /\ acc[n].rows = bcc[n].rows
                                     /\ acc[n].ok => Metered(lg(n), sp(n), al(n))}
<1>4. 0 \in S
  <2>1. lg(0) = log
    BY <1>0
  <2>2. acc[0].spend = spend[i] /\ acc[0].rows = allowance[i]
    BY <1>2 DEF Charges
  <2>3. sp(0) = spend /\ al(0) = allowance
    BY <2>2 DEF Metered
  <2>4. bcc[0].spend = spend[i] /\ bcc[0].rows = allowance[i]
    BY <1>3 DEF Charges
  <2> HIDE DEF lg, sp, al
  <2> QED
    BY <1>0, <2>1, <2>2, <2>3, <2>4
<1>5. ASSUME NEW n \in 0 .. (Len(b) - 1), n \in S
      PROVE  n + 1 \in S
  <2> DEFINE m == n + 1
  <2>1. m \in 1 .. Len(b) /\ m - 1 = n /\ b[m] \in [to : Recipients, amount : Nat]
    BY <1>0
  <2>2. /\ acc[m] = enforce_typed_send_policy(Text[p], member, approvals, approved_at, acc[n], b[m])
        /\ bcc[m] = enforce_typed_send_policy(Text[p], member, {}, now, bcc[n], b[m])
    BY <1>2, <1>3, <2>1 DEF Charges
  <2>3. acc[m].spend = bcc[m].spend /\ acc[m].rows = bcc[m].rows
    BY <1>5, <2>2, ChargesAlike
  <2>4. ASSUME acc[m].ok PROVE Metered(lg(m), sp(m), al(m))
    <3>1. i \in DOMAIN spend /\ i \in DOMAIN allowance /\ al(n)[i] = acc[n].rows
          /\ sp(n)[i] = acc[n].spend
      BY DEF Metered
    <3>2. acc[n].ok
      BY <2>2, <2>4 DEF enforce_typed_send_policy
    <3>3. Metered(lg(n), sp(n), al(n))
      BY <1>5, <3>2
    <3>4. lg(m) = Append(lg(n), rec(m))
      <4>1. /\ lg(n) \in Seq(PaymentRecords) /\ DOMAIN lg(n) = 1 .. (Len(log) + n)
            /\ Len(log) + n \in Nat
        BY <1>0, <3>3 DEF Metered
      <4>2. Len(lg(n)) = Len(log) + n
        BY <4>1
      <4>3. \A k \in 1 .. (Len(log) + n) : lg(m)[k] = lg(n)[k]
        BY <1>0, <2>1
      <4>4. lg(m)[Len(log) + m] = rec(m)
        BY <1>0, <2>1
      <4>5. lg(m) = [k \in 1 .. (Len(log) + m) |-> lg(m)[k]]
        BY <1>0, <2>1
      <4>6. Len(log) + m = Len(lg(n)) + 1
        BY <4>2, <1>0
      <4> HIDE DEF lg, rec
      <4> QED
        BY <4>1, <4>2, <4>3, <4>4, <4>5, <4>6
    <3>5. /\ sp(m) = [sp(n) EXCEPT ![i] = acc[m].spend]
          /\ al(m) = [al(n) EXCEPT ![i] = acc[m].rows]
      BY DEF Metered
    <3> HIDE DEF lg, sp, al
    <3>6. Metered(Append(lg(n), rec(m)), [sp(n) EXCEPT ![i] = acc[m].spend],
                  [al(n) EXCEPT ![i] = acc[m].rows])
      <4>1. rec(m) = [at |-> now, intent |-> i, by |-> member,
                      amount |-> b[m].amount, policy |-> p]
        OBVIOUS
      <4> HIDE DEF rec, m
      <4>2. acc[m] = enforce_typed_send_policy(Text[p], member, approvals, approved_at,
                                               acc[n], b[m])
            /\ acc[m].ok
        BY <2>2, <2>4
      <4>3. b[m] \in [to : Recipients, amount : Nat]
        BY <2>1
      <4>4. \A e : acc[n].spend = sp(n)[i] /\ acc[n].rows = al(n)[i] /\ e = acc[m] /\ e.ok
              => Metered(Append(lg(n), rec(m)), [sp(n) EXCEPT ![i] = e.spend],
                         [al(n) EXCEPT ![i] = e.rows])
        BY <3>3, <4>1, <4>2, <4>3, SendOneMore
      <4> QED
        BY <3>1, <4>2, <4>4
    <3> QED
      BY <3>4, <3>5, <3>6
  <2> HIDE DEF lg, sp, al
  <2> QED
    BY <2>1, <2>3, <2>4
<1> HIDE DEF S
<1>6. \A n \in 0 .. Len(b) : n \in S
  BY <1>0, <1>4, <1>5, Induction
<1>7. Len(b) \in S
  BY <1>0, <1>6
<1>8. /\ acc[Len(b)].spend = bcc[Len(b)].spend /\ acc[Len(b)].rows = bcc[Len(b)].rows
      /\ Metered(lg(Len(b)), sp(Len(b)), al(Len(b)))
  BY <1>1, <1>2, <1>7 DEF S
<1>9. lg(Len(b)) = log'
  BY <1>0 DEF Send, Transfer
<1>10. sp(Len(b)) = spend' /\ al(Len(b)) = allowance'
  BY <1>3, <1>8 DEF Send
<1> QED
  BY <1>8, <1>9, <1>10

-------------------------------------------------------------------------------
(* Every step *)

\* A due payment of a schedule.
LEMMA PaymentMetered ==
    ASSUME Metered(log, spend, allowance), ScheduleInv, now \in Nat,
           NEW s \in Schedules, execute_recurring_payment(s)
    PROVE  Metered(log', spend', allowance')
<1> DEFINE sch == schedule[s]
           i == sch.intent
           x == [at |-> now, intent |-> i, by |-> s, amount |-> sch.amount, policy |-> sch.policy]
           v == enforce_meter(Text[sch.policy].velocity, spend[i].velocity, sch.amount)
           c == enforce_meter(Text[sch.policy].send_count, spend[i].send_count, 1)
<1>1. sch \in ScheduleRecords
  <2>1. sch \in ScheduleRecords \cup {NoSchedule} /\ sch # NoSchedule
    BY DEF ScheduleInv, execute_recurring_payment, Due, NoSchedule, None
  <2> QED
    BY <2>1
<1>2. i \in Intents /\ sch.policy \in Carried /\ sch.amount \in Nat
  BY <1>1 DEF ScheduleRecords
<1>3. /\ x \in PaymentRecords /\ x.at = now /\ x.intent = i /\ x.by = s
      /\ x.amount = sch.amount /\ x.policy = sch.policy /\ x.by \notin Members
  BY <1>2, InputAssumption DEF PaymentRecords
<1>4. /\ log \in Seq(PaymentRecords)
      /\ spend \in [Intents -> [velocity : Meter, send_count : Meter]]
      /\ allowance \in [Intents -> [Members -> Meter]]
  BY DEF Metered
<1>5. /\ v.ok /\ allowance' = allowance
      /\ spend' = [spend EXCEPT ![i] = [velocity |-> v.meter, send_count |-> c.meter]]
  BY DEF execute_recurring_payment
<1>6. log' = Append(log, x)
  <2> DEFINE items == <<[to |-> sch.to, amount |-> sch.amount]>>
             new == [k \in DOMAIN items |->
                       [at |-> now, intent |-> i, by |-> s,
                        amount |-> items[k].amount, policy |-> sch.policy]]
  <2>1. log' = log \o new
    BY DEF execute_recurring_payment, Transfer
  <2>2. new = <<x>>
    OBVIOUS
  <2> HIDE DEF new, x
  <2> QED
    BY <1>3, <1>4, <2>1, <2>2
<1>7. /\ Text[sch.policy].velocity \in Limits /\ Text[sch.policy].send_count \in Limits
      /\ spend[i].velocity \in Meter /\ spend[i].send_count \in Meter
  BY <1>2, <1>4, PolicyTypes
<1>8. v.meter \in Meter /\ c.meter \in Meter
  BY <1>2, <1>7, MeterStep
<1> HIDE DEF sch, x, v, c
<1>9. /\ spend' \in [Intents -> [velocity : Meter, send_count : Meter]]
      /\ spend'[i].velocity = v.meter
      /\ \A j \in Intents \ {i} : spend'[j] = spend[j]
  BY <1>2, <1>4, <1>5, <1>8
<1>10. ASSUME NEW j \in Intents
       PROVE  /\ Book(VelocityView(log', j), spend'[j].velocity)
              /\ Covers(VelocityView(log', j), spend'[j].velocity)
  <2>1. Book(VelocityView(log, j), spend[j].velocity) /\ Covers(VelocityView(log, j), spend[j].velocity)
    BY DEF Metered
  <2>2. CASE j = i
    <3>1. /\ enforce_meter(Text[x.policy].velocity, spend[j].velocity, x.amount).ok
          /\ spend'[j].velocity =
               enforce_meter(Text[x.policy].velocity, spend[j].velocity, x.amount).meter
      BY <1>3, <1>5, <1>9, <2>2 DEF v
    <3> QED
      BY <1>3, <1>4, <1>6, <2>1, <2>2, <3>1, VelocityOneMore
  <2>3. CASE j # i
    BY <1>3, <1>4, <1>6, <1>9, <2>1, <2>3, VelocityOneMore
  <2> QED
    BY <2>2, <2>3
<1>11. ASSUME NEW j \in Intents, NEW m \in Members
       PROVE  Book(MemberView(log', j, m), allowance'[j][m])
  <2>1. Book(MemberView(log, j, m), allowance[j][m])
    BY DEF Metered
  <2> QED
    BY <1>3, <1>4, <1>5, <1>6, <2>1, AllowanceOneMore
<1>12. log' \in Seq(PaymentRecords)
  BY <1>3, <1>4, <1>6
<1> QED
  BY <1>4, <1>5, <1>9, <1>10, <1>11, <1>12 DEF Metered

\* The bounds of the meters hold later too.
LEMMA MeteredLater ==
    ASSUME Metered(log', spend', allowance'), now \in Nat, now' \in Nat, now' >= now
    PROVE  Metered(log, spend, allowance)'
<1>1. ASSUME NEW v, NEW meter, Book(v, meter)
      PROVE  Book(v, meter)'
  <2>1. /\ v \in Seq(Entries) /\ meter \in Meter /\ \A k \in DOMAIN v : v[k].at <= now
        /\ DOMAIN v = 1 .. Len(v) /\ Len(v) \in Nat
    BY <1>1 DEF Book
  <2>2. \A k \in DOMAIN v : v[k] \in Entries
    BY <2>1, ElementOfSeq
  <2>3. \A k \in DOMAIN v : v[k].at \in Nat
    BY <2>2 DEF Entries
  <2>4. \A k \in DOMAIN v : v[k].at <= now'
    BY <2>1, <2>3
  <2>5. \A t \in Int, l \in Limits : t >= now' - l.window => t >= now - l.window
    BY DEF Limits
  <2>6. Bounded(v, meter)'
    BY <1>1, <2>5 DEF Book, Bounded
  <2> QED
    BY <2>1, <2>4, <2>6 DEF Book
<1>2. ASSUME NEW i \in Intents
      PROVE  /\ Book(VelocityView(log, i), spend[i].velocity)'
             /\ Covers(VelocityView(log, i), spend[i].velocity)'
             /\ \A m \in Members : Book(MemberView(log, i, m), allowance[i][m])'
  BY <1>1 DEF Metered
<1> QED
  BY <1>2 DEF Metered

\* Every step keeps the meters bounding and covering the log.
LEMMA MeteredStep ==
    ASSUME Metered(log, spend, allowance), ScheduleInv, ScheduleInv', [Next]_vars
    PROVE  Metered(log, spend, allowance)'
<1>1. now \in Nat /\ now' \in Nat
  BY DEF ScheduleInv
<1>2. ASSUME UNCHANGED <<log, spend, allowance>>
      PROVE  Metered(log', spend', allowance')
  BY <1>2
<1>3. Metered(log', spend', allowance') /\ now' >= now
  <2>1. now' >= now
    BY StepEffect DEF Grows
  <2>2. ASSUME NEW i \in Intents, NEW m \in Members, NEW p \in Carried, NEW b \in Batches,
               Send(i, m, p, b)
        PROVE  Metered(log', spend', allowance')
    BY <1>1, <2>2, SendMetered
  <2>3. ASSUME NEW s \in Schedules, execute_recurring_payment(s)
        PROVE  Metered(log', spend', allowance')
    BY <1>1, <2>3, PaymentMetered
  <2>4. ASSUME NEW seen \in Carried, NEW new \in Carried,
               execute_typed_wallet_policy_update(seen, new)
        PROVE  Metered(log', spend', allowance')
    BY <1>2, <2>4 DEF execute_typed_wallet_policy_update
  <2>5. ASSUME NEW s \in Schedules, NEW i \in Intents, NEW p \in Carried, NEW terms \in Terms,
               NEW d \in Delays, Activate(s, i, p, terms, now + d)
        PROVE  Metered(log', spend', allowance')
    BY <1>2, <2>5 DEF Activate
  <2>6. ASSUME NEW s \in Schedules, NEW i \in Intents, Revoke(s, i)
        PROVE  Metered(log', spend', allowance')
    BY <1>2, <2>6 DEF Revoke
  <2>7. Tick \/ UNCHANGED vars => Metered(log', spend', allowance')
    BY <1>2 DEF Tick, vars
  <2> QED
    BY <2>1, <2>2, <2>3, <2>4, <2>5, <2>6, <2>7 DEF Next
<1> QED
  BY <1>1, <1>3, MeteredLater

\* The empty log needs nothing of the meters.
LEMMA MeteredInit == Init => Metered(log, spend, allowance)
<1> SUFFICES ASSUME Init PROVE Metered(log, spend, allowance)
  OBVIOUS
<1>1. Fresh \in Meter /\ now = 1 /\ log = << >> /\ << >> \in Seq(PaymentRecords)
  BY DEF Init, Fresh, Meter
<1>2. /\ spend \in [Intents -> [velocity : Meter, send_count : Meter]]
      /\ allowance \in [Intents -> [Members -> Meter]]
      /\ \A i \in Intents : spend[i].velocity = Fresh
      /\ \A i \in Intents, m \in Members : allowance[i][m] = Fresh
  BY <1>1 DEF Init
<1>3. \A i \in Intents, m \in Members : VelocityView(log, i) = << >> /\ MemberView(log, i, m) = << >>
  BY <1>1 DEF VelocityView, MemberView
<1>4. \A t \in Int : Amounts(<< >>, After(<< >>, t)) = 0 /\ After(<< >>, t) = {}
  <2> TAKE t \in Int
  <2>1. After(<< >>, t) = {}
    BY DEF After
  <2>2. Len(<< >>) \in Nat
    OBVIOUS
  <2>3. Amounts(<< >>, {}) = 0
    BY <2>2, AmountsOfNone
  <2> QED
    BY <2>1, <2>3
<1>5. Book(<< >>, Fresh) /\ Covers(<< >>, Fresh)
  <2>1. Bounded(<< >>, Fresh)
    BY <1>4 DEF Bounded, Fresh, Limits
  <2>2. Covers(<< >>, Fresh)
    BY <1>4 DEF Covers, Fresh
  <2> QED
    BY <1>1, <2>1, <2>2 DEF Book
<1>6. \A i \in Intents : VelocityView(log, i) = << >>
  BY <1>1 DEF VelocityView
<1> QED
  BY <1>1, <1>2, <1>3, <1>5, <1>6 DEF Metered

-------------------------------------------------------------------------------
(* What the meters say of the log *)

\* A log of payments, entry by entry.
LEMMA LogTypes ==
    ASSUME NEW lg \in Seq(PaymentRecords)
    PROVE  /\ Len(lg) \in Nat /\ DOMAIN lg = 1 .. Len(lg)
           /\ \A k \in 1 .. Len(lg) : /\ lg[k] \in PaymentRecords
                                     /\ lg[k].amount \in Nat /\ lg[k].at \in Nat
<1>1. Len(lg) \in Nat /\ DOMAIN lg = 1 .. Len(lg)
  OBVIOUS
<1>2. \A k \in 1 .. Len(lg) : lg[k] \in PaymentRecords
  BY ElementOfSeq
<1> QED
  BY <1>1, <1>2 DEF PaymentRecords

\* A view of a log, entry by entry.
LEMMA ViewEntries ==
    ASSUME NEW lg, NEW i, NEW m, Len(lg) \in Nat, DOMAIN lg = 1 .. Len(lg)
    PROVE  /\ DOMAIN VelocityView(lg, i) = 1 .. Len(lg)
           /\ DOMAIN MemberView(lg, i, m) = 1 .. Len(lg)
           /\ Len(VelocityView(lg, i)) = Len(lg) /\ Len(MemberView(lg, i, m)) = Len(lg)
           /\ \A k \in 1 .. Len(lg) : /\ VelocityView(lg, i)[k] = VelocityEntry(lg[k], i)
                                     /\ MemberView(lg, i, m)[k] = MemberEntry(lg[k], i, m)
BY DEF VelocityView, MemberView

\* What the velocity meter sees of a payment.
LEMMA EntrySays ==
    ASSUME NEW x, NEW i, NEW e, e = VelocityEntry(x, i)
    PROVE  /\ e.amount = x.amount /\ e.at = x.at /\ e.limit = Text[x.policy].velocity
           /\ e.own <=> x.intent = i /\ On(Text[x.policy].velocity)
           /\ e.bound <=> x.intent = i /\ On(Text[x.policy].velocity)
BY DEF VelocityEntry

\* What the allowance of a member sees of a payment.
LEMMA AllowanceSays ==
    ASSUME NEW x, NEW i, NEW m, NEW e, e = MemberEntry(x, i, m)
    PROVE  /\ e.amount = x.amount /\ e.at = x.at
           /\ m \in DOMAIN Text[x.policy].caps => e.limit = Text[x.policy].caps[m]
           /\ e.own <=> x.intent = i /\ x.by = m
           /\ e.bound <=> x.intent = i /\ x.by \in Members
BY DEF MemberEntry

\* What is paid after t in a view is at most two caps, and a sum of the log.
LEMMA ViewTwice ==
    ASSUME NEW v, NEW meter, Book(v, meter), NEW l \in Limits, On(l), NEW lg, NEW ks,
           Len(lg) \in Nat, DOMAIN v = 1 .. Len(lg), Len(v) = Len(lg),
           \A k \in 1 .. Len(lg) :
             /\ v[k].amount = lg[k].amount
             /\ k \in ks <=> v[k].own /\ v[k].at > now - l.window
             /\ v[k].bound /\ v[k].at > now - l.window => Tighter(v[k].limit, l)
    PROVE  Amounts(lg, ks) <= 2 * l.cap
<1> DEFINE t == now - l.window
<1>1. Constrained(v, t, l)
  BY DEF Constrained
<1>2. Amounts(v, After(v, t)) <= 2 * l.cap
  BY <1>1, BoundedTwice
<1>3. \A k \in 1 .. Len(lg) : lg[k].amount = v[k].amount /\ (k \in ks <=> k \in After(v, t))
  BY DEF After
<1> HIDE DEF t
<1>4. Amounts(lg, ks) = Amounts(v, After(v, t))
  BY <1>3, AmountsSame
<1> QED
  BY <1>2, <1>4

-------------------------------------------------------------------------------
(* The theorems *)

\* In every reachable state the meters bound and cover the payments of the log
\* (enforce_typed_send_policy and the recurring payments, policy edits between them).
THEOREM MeterInvariant == Spec => [](ScheduleInv /\ Metered(log, spend, allowance))
<1>1. Init => Metered(log, spend, allowance)
  BY MeteredInit
<1>2. ScheduleInv /\ ScheduleInv' /\ Metered(log, spend, allowance) /\ [Next]_vars
        => Metered(log, spend, allowance)'
  BY MeteredStep
<1>3. Spec => []ScheduleInv
  BY ScheduleInvariant, PTL
<1> QED
  BY <1>1, <1>2, <1>3, PTL DEF Spec

\* No policy edit erases accounted spend: the velocity meter of an intent holds
\* every metered payment since its window opened (execute_typed_wallet_policy_update).
THEOREM SpendIsKept == Spec => []MeterCovers
<1>1. ScheduleInv /\ Metered(log, spend, allowance) => MeterCovers
  <2> SUFFICES ASSUME ScheduleInv, Metered(log, spend, allowance), NEW i \in Intents
               PROVE  LET meter == spend[i].velocity
                          later == {k \in Payments(i) :
                                      /\ log[k].at > meter.start
                                      /\ On(Text[log[k].policy].velocity)}
                      IN  meter.used >= Total(later)
    BY DEF MeterCovers
  <2> DEFINE meter == spend[i].velocity
             later == {k \in Payments(i) : /\ log[k].at > meter.start
                                           /\ On(Text[log[k].policy].velocity)}
             v == VelocityView(log, i)
  <2>1. Covers(v, meter) /\ log \in Seq(PaymentRecords) /\ meter \in Meter
    BY DEF Metered
  <2>2. /\ Len(log) \in Nat /\ DOMAIN log = 1 .. Len(log)
        /\ \A k \in 1 .. Len(log) : log[k].amount \in Nat
    BY <2>1, LogTypes
  <2>3. DOMAIN v = 1 .. Len(log) /\ Len(v) = Len(log)
    BY <2>2, ViewEntries
  <2>4. \A k \in 1 .. Len(log) :
          /\ v[k].amount = log[k].amount /\ v[k].at = log[k].at
          /\ v[k].own <=> log[k].intent = i /\ On(Text[log[k].policy].velocity)
    <3>1. \A k \in 1 .. Len(log) : v[k] = VelocityEntry(log[k], i)
      BY <2>2, ViewEntries
    <3> QED
      BY <3>1, EntrySays
  <2> HIDE DEF v
  <2>5. \A k \in 1 .. Len(log) : k \in After(v, meter.start) <=> k \in later
    BY <2>2, <2>3, <2>4 DEF After, Payments
  <2>6. Amounts(v, After(v, meter.start)) = Amounts(log, later)
    BY <2>2, <2>3, <2>4, <2>5, AmountsSame
  <2>7. meter.used \in Nat /\ Amounts(log, later) \in Nat
    BY <2>1, <2>2, AmountsNat DEF Meter
  <2> QED
    BY <2>1, <2>6, <2>7 DEF Covers, Total
<1> QED
  BY <1>1, MeterInvariant, PTL

\* In any stretch of time as long as the window, in which no payment was metered by
\* a looser velocity limit, an intent pays at most twice the cap (enforce_meter).
THEOREM VelocityIsHeld == Spec => []VelocityHolds
<1>1. ScheduleInv /\ Metered(log, spend, allowance) => VelocityHolds
  <2> SUFFICES ASSUME ScheduleInv, Metered(log, spend, allowance),
                      NEW i \in Intents, NEW p \in Policies
               PROVE  LET limit == Text[p].velocity
                          metered == {k \in Recent(Payments(i), limit.window) :
                                        On(Text[log[k].policy].velocity)}
                      IN  On(limit)
                          /\ (\A k \in metered : Tighter(Text[log[k].policy].velocity, limit))
                            => Total(metered) <= 2 * limit.cap
    BY DEF VelocityHolds
  <2> DEFINE limit == Text[p].velocity
             metered == {k \in Recent(Payments(i), limit.window) :
                           On(Text[log[k].policy].velocity)}
             v == VelocityView(log, i)
  <2> SUFFICES ASSUME On(limit),
                      \A k \in metered : Tighter(Text[log[k].policy].velocity, limit)
               PROVE  Total(metered) <= 2 * limit.cap
    OBVIOUS
  <2>1. Book(v, spend[i].velocity) /\ log \in Seq(PaymentRecords) /\ limit \in Limits
    BY PolicyTypes DEF Metered, Carried
  <2>2. /\ Len(log) \in Nat /\ DOMAIN log = 1 .. Len(log)
        /\ \A k \in 1 .. Len(log) : log[k].amount \in Nat
    BY <2>1, LogTypes
  <2>3. DOMAIN v = 1 .. Len(log) /\ Len(v) = Len(log)
    BY <2>2, ViewEntries
  <2>4. \A k \in 1 .. Len(log) :
          /\ v[k].amount = log[k].amount /\ v[k].at = log[k].at
          /\ v[k].limit = Text[log[k].policy].velocity
          /\ v[k].own <=> log[k].intent = i /\ On(Text[log[k].policy].velocity)
          /\ v[k].bound <=> log[k].intent = i /\ On(Text[log[k].policy].velocity)
    <3>1. \A k \in 1 .. Len(log) : v[k] = VelocityEntry(log[k], i)
      BY <2>2, ViewEntries
    <3> QED
      BY <3>1, EntrySays
  <2> HIDE DEF v
  <2>5. \A k \in 1 .. Len(log) :
          k \in metered <=> log[k].intent = i /\ On(Text[log[k].policy].velocity)
                           /\ log[k].at > now - limit.window
    BY <2>2 DEF Payments, Recent
  <2> HIDE DEF metered, limit
  <2>6. Amounts(log, metered) <= 2 * limit.cap
    <3>1. \A k \in 1 .. Len(log) :
            /\ v[k].amount = log[k].amount
            /\ k \in metered <=> v[k].own /\ v[k].at > now - limit.window
            /\ v[k].bound /\ v[k].at > now - limit.window => Tighter(v[k].limit, limit)
      BY <2>4, <2>5
    <3> QED
      BY <2>1, <2>2, <2>3, <3>1, ViewTwice
  <2> QED
    BY <2>6 DEF Total
<1> QED
  BY <1>1, MeterInvariant, PTL

\* As long as every send of an intent is made under a policy that caps the member
\* at least as tightly, the member's own sends stay within twice the cap
\* (enforce_member_allowance, retain_members).
THEOREM AllowanceIsHeld == Spec => []AllowanceHolds
<1>1. ScheduleInv /\ Metered(log, spend, allowance) => AllowanceHolds
  <2> SUFFICES ASSUME ScheduleInv, Metered(log, spend, allowance),
                      NEW i \in Intents, NEW p \in Policies, NEW m \in DOMAIN Text[p].caps
               PROVE  LET limit == Text[p].caps[m]
                          sends == {k \in Recent(Payments(i), limit.window) :
                                      log[k].by \in Members}
                          Caps(k) == Text[log[k].policy].caps
                      IN  On(limit)
                          /\ (\A k \in sends : m \in DOMAIN Caps(k) /\ Tighter(Caps(k)[m], limit))
                            => Total({k \in sends : log[k].by = m}) <= 2 * limit.cap
    BY DEF AllowanceHolds
  <2> DEFINE limit == Text[p].caps[m]
             sends == {k \in Recent(Payments(i), limit.window) : log[k].by \in Members}
             own == {k \in sends : log[k].by = m}
             v == MemberView(log, i, m)
  <2> SUFFICES ASSUME On(limit),
                      \A k \in sends : /\ m \in DOMAIN Text[log[k].policy].caps
                                       /\ Tighter(Text[log[k].policy].caps[m], limit)
               PROVE  Total(own) <= 2 * limit.cap
    OBVIOUS
  <2>1. m \in Members /\ limit \in Limits
    BY PolicyTypes DEF Carried
  <2>2. Book(v, allowance[i][m]) /\ log \in Seq(PaymentRecords)
    BY <2>1 DEF Metered
  <2>3. /\ Len(log) \in Nat /\ DOMAIN log = 1 .. Len(log)
        /\ \A k \in 1 .. Len(log) : log[k].amount \in Nat
    BY <2>2, LogTypes
  <2>4. DOMAIN v = 1 .. Len(log) /\ Len(v) = Len(log)
    BY <2>3, ViewEntries
  <2>5. \A k \in 1 .. Len(log) :
          /\ v[k].amount = log[k].amount /\ v[k].at = log[k].at
          /\ m \in DOMAIN Text[log[k].policy].caps => v[k].limit = Text[log[k].policy].caps[m]
          /\ v[k].own <=> log[k].intent = i /\ log[k].by = m
          /\ v[k].bound <=> log[k].intent = i /\ log[k].by \in Members
    BY <2>3, ViewEntries, AllowanceSays
  <2> HIDE DEF v
  <2>6. \A k \in 1 .. Len(log) :
          /\ k \in own <=> log[k].intent = i /\ log[k].by = m /\ log[k].at > now - limit.window
          /\ k \in sends <=> /\ log[k].intent = i /\ log[k].by \in Members
                             /\ log[k].at > now - limit.window
    BY <2>1, <2>3 DEF Payments, Recent
  <2> HIDE DEF sends, own, limit
  <2>7. Amounts(log, own) <= 2 * limit.cap
    <3>1. \A k \in 1 .. Len(log) :
            /\ v[k].amount = log[k].amount
            /\ k \in own <=> v[k].own /\ v[k].at > now - limit.window
            /\ v[k].bound /\ v[k].at > now - limit.window => Tighter(v[k].limit, limit)
      BY <2>5, <2>6
    <3> QED
      BY <2>1, <2>2, <2>3, <2>4, <3>1, ViewTwice
  <2> QED
    BY <2>7 DEF Total
<1> QED
  BY <1>1, MeterInvariant, PTL
====
