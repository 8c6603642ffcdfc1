------------------------------ MODULE Spending ------------------------------
(***************************************************************************)
(* What a clear-wallet vault may pay out of its SOL: typed sends and batch *)
(* sends, recurring payments, and the wallet policy that limits them.  The *)
(* program meters spending in accounts that outlive proposals and policies:*)
(* one PolicySpendState and one MemberAllowanceLedger per intent.          *)
(*                                                                         *)
(* A transaction is atomic and a failed one leaves nothing, so each        *)
(* instruction is one action and each `require!` a conjunct.  Which        *)
(* proposals reach Approved is the business of module Governance; here an  *)
(* execution takes any approved proposal as its input.  A commitment is    *)
(* a name for the policy it hashes, and checked additions do not overflow. *)
(***************************************************************************)
EXTENDS Integers, Sequences, FiniteSets

CONSTANTS
    Intents,    \* approved intents of one wallet
    Members,    \* proposers and approvers
    Recipients, \* destination accounts
    Schedules,  \* recurring schedule ids
    Policies,   \* commitments of the policies a proposal may carry
    NoPolicy,   \* the zero commitment, and that of the empty policy
    Text,       \* the policy each commitment stands for
    Batches,    \* what a send proposal may pay: sequences of [to, amount]
    Terms,      \* what a schedule may fix: [to, amount, interval, count]
    Delays,     \* how far ahead a first payment may be set
    Timelock,   \* timelock_seconds of the intents
    Horizon,    \* bound on the clock
    MaxLog      \* bound on the number of payments

None == "none"

\* A limit of `cap` per `window`; a zero in either field switches it off.
Limits == [cap : Nat, window : Nat]
NoLimit == [cap |-> 0, window |-> 0]
On(limit) == limit.cap > 0 /\ limit.window > 0

Unlimited == [mode |-> "any", keys |-> {}, max_amount |-> 0, cooldown |-> 0,
              required |-> {}, hours |-> 1 .. Horizon, velocity |-> NoLimit,
              send_count |-> NoLimit, caps |-> << >>, rules |-> << >>]

ASSUME PolicyAssumption ==
    /\ NoPolicy \notin Policies
    /\ DOMAIN Text = Policies \cup {NoPolicy}
    /\ Text[NoPolicy] = Unlimited
    /\ \A c \in Policies :
         /\ DOMAIN Text[c] = DOMAIN Unlimited
         /\ Text[c].mode \in {"any", "allowlist", "blocklist"}
         /\ {Text[c].velocity, Text[c].send_count} \subseteq Limits
         /\ \A m \in DOMAIN Text[c].caps : m \in Members /\ Text[c].caps[m] \in Limits
ASSUME InputAssumption ==
    /\ \A b \in Batches : b \in Seq([to : Recipients, amount : Nat]) /\ Len(b) \in 1 .. 16
    /\ Terms \subseteq [to : Recipients, amount : Nat \ {0}, interval : Nat \ {0},
                        count : Nat \ {0}]
    /\ Delays \subseteq Nat
    /\ Timelock \in Nat
    /\ Members \cap Schedules = {}

VARIABLES
    now,       \* Clock::unix_timestamp
    policy,    \* the wallet policy in force, NoPolicy when none is
    spend,     \* PolicySpendState of each intent
    allowance, \* MemberAllowanceLedger of each intent, a row per member
    schedule,  \* RecurringSchedule accounts
    log,       \* history: the payments
    approved   \* history: the terms each schedule was last approved with

vars == <<now, policy, spend, allowance, schedule, log, approved>>

\* A meter: the start of its window and what was used since.
Fresh == [start |-> 0, used |-> 0]
Meters == [start : 0 .. Horizon, used : Nat]

NoSchedule == [status |-> None]

Init ==
    /\ now = 1
    /\ policy = NoPolicy
    /\ spend = [i \in Intents |-> [velocity |-> Fresh, send_count |-> Fresh]]
    /\ allowance = [i \in Intents |-> [m \in Members |-> Fresh]]
    /\ schedule = [s \in Schedules |-> NoSchedule]
    /\ log = << >>
    /\ approved = [s \in Schedules |-> None]

-----------------------------------------------------------------------------
(* Policy evaluation. *)

\* A window that elapsed, or was never opened, is over.
Elapsed(meter, window) == meter = Fresh \/ now - meter.start >= window
\* Fault variant: only the last payment of a window is remembered.
RemembersLast(meter, limit, n) ==
    IF Elapsed(meter, limit.window) THEN [start |-> now, used |-> n]
                                    ELSE [meter EXCEPT !.used = n]
\* The meter after `n` more; a window that is over starts again now.
Advance(meter, limit, n) ==
    IF Elapsed(meter, limit.window) THEN [start |-> now, used |-> n]
                                    ELSE [meter EXCEPT !.used = @ + n]

enforce_recipient(p, to) ==
    CASE p.mode = "any"       -> TRUE
      [] p.mode = "allowlist" -> to \in p.keys
      [] p.mode = "blocklist" -> to \notin p.keys

enforce_amount(p, amount) == p.max_amount = 0 \/ amount <= p.max_amount

enforce_allowed_time(p) == now \in p.hours

unlocked(approved_at, extra) == now >= approved_at + Timelock + extra

\* One limit applied to one meter: what it becomes, and whether it may.
enforce_meter(limit, meter, n) ==
    LET next == Advance(meter, limit, n)
    IN  IF On(limit) THEN [ok |-> next.used <= limit.cap, meter |-> next]
                     ELSE [ok |-> TRUE, meter |-> meter]

\* A member without a cap is free; a zero cap forbids; the cap also bounds each
\* single send, and a cap without a window is only that.
enforce_member_allowance(p, member, meter, amount) ==
    IF member \notin DOMAIN p.caps THEN [ok |-> TRUE, meter |-> meter]
    ELSE LET r == enforce_meter(p.caps[member], meter, amount)
         IN  [r EXCEPT !.ok = @ /\ p.caps[member].cap > 0 /\ amount <= p.caps[member].cap]

condition_matches(c, item, meter) ==
    CASE c.kind = "recipient" -> (item.to \in c.keys) = c.listed
      [] c.kind = "amount"    -> item.amount \in c.range
      [] c.kind = "time"      -> (now \in c.hours) = c.inside
      [] c.kind = "velocity"  ->
           IF meter.start = 0 \/ now - meter.start >= c.window
           THEN item.amount > c.cap
           ELSE meter.used + item.amount > c.cap

\* The first rule whose conditions all hold decides; it sees the velocity meter
\* as it was before this send.
enforce_advanced_rules(p, item, approvals, approved_at, meter) ==
    LET hits == {k \in DOMAIN p.rules :
                   \A c \in p.rules[k].conditions : condition_matches(c, item, meter)}
    IN  hits # {} =>
          LET rule == p.rules[CHOOSE k \in hits : \A j \in hits : k <= j]
          IN  CASE rule.action = "deny"    -> FALSE
                [] rule.action = "allow"   -> TRUE
                [] rule.action = "approve" -> rule.approvers \subseteq approvals
                [] rule.action = "wait"    -> unlocked(approved_at, rule.cooldown)

\* Fault variant: a send drops the rows of everyone.
RetainsNobody(rows, p) == [m \in Members |-> Fresh]
\* Rows of members the policy does not cap are dropped.
retain_members(rows, p) ==
    [m \in Members |-> IF m \in DOMAIN p.caps THEN rows[m] ELSE Fresh]

\* One payment of a send proposal, on top of the ones before it.
enforce_typed_send_policy(p, member, approvals, approved_at, acc, item) ==
    LET v == enforce_meter(p.velocity, acc.spend.velocity, item.amount)
        c == enforce_meter(p.send_count, acc.spend.send_count, 1)
        rows == retain_members(acc.rows, p)
        a == enforce_member_allowance(p, member, rows[member], item.amount)
    IN  [ok |-> /\ acc.ok
                /\ enforce_recipient(p, item.to)
                /\ enforce_amount(p, item.amount)
                /\ p.cooldown > 0 => unlocked(approved_at, p.cooldown)
                /\ p.required \subseteq approvals
                /\ enforce_allowed_time(p)
                /\ enforce_advanced_rules(p, item, approvals, approved_at, acc.spend.velocity)
                /\ v.ok /\ c.ok /\ a.ok,
         spend |-> [velocity |-> v.meter, send_count |-> c.meter],
         rows |-> [rows EXCEPT ![member] = a.meter]]

\* A wallet policy in force must be the one the payment carries.
enforce_wallet_policy_account(carried) == policy \in {NoPolicy, carried}

\* Policy a schedule may carry: nothing that depends on a proposal.
validate_recurring_sol_policy(p, to, amount) ==
    /\ p.cooldown = 0 /\ p.required = {} /\ p.caps = << >> /\ p.rules = << >>
    /\ enforce_recipient(p, to)
    /\ enforce_amount(p, amount)

-----------------------------------------------------------------------------
(* Instructions. *)

\* The transfers out of the vault, recorded: who asked, how much, under which policy.
Transfer(i, by, carried, items) ==
    /\ Len(log) + Len(items) <= MaxLog
    /\ log' = log \o [k \in DOMAIN items |->
                       [at |-> now, intent |-> i, by |-> by,
                        amount |-> items[k].amount, policy |-> carried]]

\* The payments of one proposal in order, each charged on top of the ones before.
Charge(i, member, approvals, approved_at, carried, items) ==
    LET acc[k \in 0 .. Len(items)] ==
          IF k = 0 THEN [ok |-> TRUE, spend |-> spend[i], rows |-> allowance[i]]
          ELSE enforce_typed_send_policy(Text[carried], member, approvals, approved_at,
                                         acc[k - 1], items[k])
    IN  acc[Len(items)]

\* execute_typed_sol_send for one payment, execute_typed_sol_batch_send for
\* several: every payment is checked before the first transfer.  Who approved the
\* proposal and when decides whether it may run, not what it charges.
Send(i, member, carried, items) ==
    /\ Transfer(i, member, carried, items)
    /\ enforce_wallet_policy_account(carried)
    /\ \E approvals \in SUBSET Members, approved_at \in 1 .. now :
         /\ unlocked(approved_at, 0)
         /\ Charge(i, member, approvals, approved_at, carried, items).ok
    /\ LET r == Charge(i, member, {}, now, carried, items)
       IN  /\ spend' = [spend EXCEPT ![i] = r.spend]
           /\ allowance' = [allowance EXCEPT ![i] = r.rows]
    /\ UNCHANGED <<now, policy, schedule, approved>>

\* Fault variant: the edit starts the velocity meters again.
EditResets(seen, new) ==
    /\ seen = policy
    /\ policy' = new
    /\ spend' = [i \in Intents |-> [spend[i] EXCEPT !.velocity = Fresh]]
    /\ UNCHANGED <<now, allowance, schedule, log, approved>>
\* The update names the policy it replaces; ledgers are not touched.
execute_typed_wallet_policy_update(seen, new) ==
    /\ seen = policy
    /\ policy' = new
    /\ UNCHANGED <<now, spend, allowance, schedule, log, approved>>

\* Creates the schedule, or writes over one of the same id in any status.
Activate(s, i, carried, terms, first) ==
    /\ first >= now
    /\ enforce_wallet_policy_account(carried)
    /\ validate_recurring_sol_policy(Text[carried], terms.to, terms.amount)
    /\ schedule' = [schedule EXCEPT ![s] =
                      [status |-> "active", intent |-> i, policy |-> carried, to |-> terms.to,
                       amount |-> terms.amount, interval |-> terms.interval,
                       next |-> first, remaining |-> terms.count]]
    /\ approved' = [approved EXCEPT ![s] =
                      [first |-> first, interval |-> terms.interval, count |-> terms.count,
                       since |-> Len(log)]]
    /\ UNCHANGED <<now, policy, spend, allowance, log>>

\* The revocation must name the terms the schedule has now, what is left included;
\* at least one payment must be left for it to be expressible.
Revoke(s, i) ==
    /\ schedule[s].status # None
    /\ schedule[s].intent = i
    /\ schedule[s].remaining > 0
    /\ schedule' = [schedule EXCEPT ![s].status = "revoked"]
    /\ UNCHANGED <<now, policy, spend, allowance, log, approved>>

CatchesUp(sch) ==
    IF sch.remaining = 1
    THEN [sch EXCEPT !.remaining = 0, !.status = "complete"]
    ELSE [sch EXCEPT !.remaining = @ - 1, !.next = @ + sch.interval]
\* The schedule after one payment: a late payment moves the later ones.
Advanced(sch) ==
    IF sch.remaining = 1
    THEN [sch EXCEPT !.remaining = 0, !.status = "complete"]
    ELSE [sch EXCEPT !.remaining = @ - 1, !.next = now + sch.interval]

Due(sch) == sch.status = "active" /\ sch.remaining > 0 /\ now >= sch.next

\* Anyone may submit a due payment; it charges the meters of its intent.
execute_recurring_payment(s) ==
    LET sch == schedule[s]
        p == Text[sch.policy]
        v == enforce_meter(p.velocity, spend[sch.intent].velocity, sch.amount)
        c == enforce_meter(p.send_count, spend[sch.intent].send_count, 1)
    IN  /\ Due(sch)
        /\ enforce_wallet_policy_account(sch.policy)
        /\ validate_recurring_sol_policy(p, sch.to, sch.amount)
        /\ enforce_allowed_time(p)
        /\ v.ok /\ c.ok
        /\ spend' = [spend EXCEPT ![sch.intent] =
                       [velocity |-> v.meter, send_count |-> c.meter]]
        /\ schedule' = [schedule EXCEPT ![s] = Advanced(sch)]
        /\ Transfer(sch.intent, s, sch.policy, <<[to |-> sch.to, amount |-> sch.amount]>>)
        /\ UNCHANGED <<now, policy, allowance, approved>>

Tick ==
    /\ now < Horizon
    /\ now' = now + 1
    /\ UNCHANGED <<policy, spend, allowance, schedule, log, approved>>

Carried == Policies \cup {NoPolicy}

Next ==
    \/ \E i \in Intents, m \in Members, p \in Carried, b \in Batches : Send(i, m, p, b)
    \/ \E seen, new \in Carried : execute_typed_wallet_policy_update(seen, new)
    \/ \E s \in Schedules, i \in Intents, p \in Carried, terms \in Terms,
          d \in Delays : Activate(s, i, p, terms, now + d)
    \/ \E s \in Schedules, i \in Intents : Revoke(s, i)
    \/ \E s \in Schedules : execute_recurring_payment(s)
    \/ Tick

Spec == Init /\ [][Next]_vars
-----------------------------------------------------------------------------
(* Properties. *)

Payments(i) == {k \in DOMAIN log : log[k].intent = i}
Recent(ks, window) == {k \in ks : log[k].at > now - window}
\* The sum of the payments ks of a log.
Amounts(payments, ks) ==
    LET upto[n \in 0 .. Len(payments)] ==
          IF n = 0 THEN 0
          ELSE upto[n - 1] + (IF n \in ks THEN payments[n].amount ELSE 0)
    IN  upto[Len(payments)]
Total(ks) == Amounts(log, ks)
\* Limit l is at least as tight as limit m.
Tighter(l, m) == On(l) /\ l.cap <= m.cap /\ l.window >= m.window

ScheduleRecords ==
    [status : {"active", "revoked", "complete"}, intent : Intents, policy : Carried,
     to : Recipients, amount : Nat \ {0}, interval : Nat \ {0},
     next : Nat, remaining : Nat]

\* Every account is well formed, and a schedule is complete exactly when no
\* payment of it is left (the status byte and the count are separate fields).
TypeOK ==
    /\ now \in 1 .. Horizon
    /\ policy \in Carried
    /\ spend \in [Intents -> [velocity : Meters, send_count : Meters]]
    /\ allowance \in [Intents -> [Members -> Meters]]
    /\ schedule \in [Schedules -> ScheduleRecords \cup {NoSchedule}]
    /\ \A s \in Schedules : schedule[s] # NoSchedule =>
         (schedule[s].status = "complete" <=> schedule[s].remaining = 0)

\* Policy edits do not erase accounted spend: whatever policies were carried and
\* put in force meanwhile, an intent's velocity meter holds at least every metered
\* payment made after its window opened, sends, batches and recurring payments alike.
MeterCovers ==
    \A i \in Intents :
      LET meter == spend[i].velocity
          later == {k \in Payments(i) : /\ log[k].at > meter.start
                                        /\ On(Text[log[k].policy].velocity)}
      IN  meter.used >= Total(later)

\* What the tumbling window guarantees of any stretch of time as long as the
\* window: if no payment in it was metered by a looser velocity limit, an intent
\* pays at most twice the cap.
VelocityHolds ==
    \A i \in Intents, p \in Policies :
      LET limit == Text[p].velocity
          metered == {k \in Recent(Payments(i), limit.window) :
                        On(Text[log[k].policy].velocity)}
      IN  On(limit) /\ (\A k \in metered : Tighter(Text[log[k].policy].velocity, limit))
            => Total(metered) <= 2 * limit.cap

\* A member's allowance survives the sends of others and edits of the policy: as
\* long as every send of the intent is made under a policy that caps the member at
\* least as tightly, the member's own sends stay within twice the cap.
AllowanceHolds ==
    \A i \in Intents, p \in Policies : \A m \in DOMAIN Text[p].caps :
      LET limit == Text[p].caps[m]
          sends == {k \in Recent(Payments(i), limit.window) : log[k].by \in Members}
          Caps(k) == Text[log[k].policy].caps
      IN  On(limit) /\ (\A k \in sends : m \in DOMAIN Caps(k) /\ Tighter(Caps(k)[m], limit))
            => Total({k \in sends : log[k].by = m}) <= 2 * limit.cap

\* A schedule pays what was approved: since its last approval it has made exactly
\* the payments that are no longer left, none before the first date, and each an
\* interval or more after the one before.
ScheduleHonoured ==
    \A s \in Schedules : schedule[s] # NoSchedule =>
      LET terms == approved[s]
          paid == {k \in DOMAIN log : k > terms.since /\ log[k].by = s}
      IN  /\ Cardinality(paid) + schedule[s].remaining = terms.count
          /\ \A k \in paid : log[k].at >= terms.first
          /\ \A j, k \in paid : j < k => log[k].at - log[j].at >= terms.interval

\* Why a schedule pays what was approved: the date of its next payment never
\* comes before the first date, nor within an interval of a payment made.
PaidSince(s) == {k \in DOMAIN log : k > approved[s].since /\ log[k].by = s}

Clocked(s) ==
    /\ schedule[s].next >= approved[s].first
    /\ schedule[s].interval = approved[s].interval
    /\ schedule[s].remaining > 0 =>
         \A k \in PaidSince(s) : schedule[s].next - log[k].at >= schedule[s].interval

ScheduleInv ==
    /\ now \in Nat
    /\ log \in Seq([at : Nat, intent : Intents, by : Members \cup Schedules,
                     amount : Nat, policy : Carried])
    /\ \A k \in DOMAIN log : log[k].at <= now
    /\ schedule \in [Schedules -> ScheduleRecords \cup {NoSchedule}]
    /\ DOMAIN approved = Schedules
    /\ \A s \in Schedules : schedule[s] # NoSchedule =>
         /\ approved[s] \in [first : Nat, interval : Nat \ {0}, count : Nat \ {0},
                             since : 0 .. Len(log)]
         /\ schedule[s].status = "complete" <=> schedule[s].remaining = 0
         /\ Clocked(s)

\* A revoked or completed schedule pays nothing more, whoever submits the payment,
\* unless the members approve it anew.
ClosedIsQuiet ==
    [][\A s \in Schedules :
         schedule[s] # NoSchedule /\ schedule[s].status # "active" /\ approved'[s] = approved[s]
         => \A k \in DOMAIN log' : k > Len(log) => log'[k].by # s]_vars
=============================================================================
