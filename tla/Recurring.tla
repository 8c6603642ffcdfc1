------------------------------ MODULE Recurring ------------------------------
(***************************************************************************)
(* The recurring payments page of the treasury (apps/web): it configures a *)
(* schedule on Solana, revokes it, and pays a due payment.  A journal in   *)
(* localStorage keeps, for each schedule, the request that waits to be     *)
(* executed and the payment that waits to be verified.                     *)
(*                                                                         *)
(* One schedule is followed from its configuration on.  Each await is a    *)
(* step; the page may be left with a handler still running, or reloaded;   *)
(* calls may land late or never; somebody else may pay or vote.            *)
(***************************************************************************)
EXTENDS Naturals, FiniteSets

CONSTANTS
    Tabs,         \* browser tabs showing the page
    Ops,          \* handler calls; one that creates a request numbers it
    Total,        \* paymentCount of the schedule
    MaxChanges    \* bound on switches, remounts and reloads

VARIABLES
    journal,   \* the saved row of the schedule, or NoRow
    view,      \* the row as each tab shows it
    cache,     \* statesQuery.data: the schedule as each tab last read it
    visit,     \* identity generation and mount of each tab
    ops,       \* the handler calls
    requests,  \* status of each request on Solana
    sched,     \* the schedule account
    final,     \* the same at the finalized commitment
    net,       \* calls handed to the backend
    changes,   \* switches, remounts and reloads so far
    asked,     \* history: executions asked for, per request
    verified,  \* history: payments reported as verified
    others,    \* history: somebody else made a payment
    late       \* history: a row was overwritten by one who had not read it

vars == <<journal, view, cache, visit, ops, requests, sched, final, net,
          changes, asked, verified, others, late>>

page == <<view, cache, visit>>
ledger == <<requests, sched, final>>
history == <<asked, verified, others>>

\* pendingExecution and pendingPayment; the payment remembers how many were
\* executed before it (how many remain follows from that).
NoExecution == [req |-> 0, status |-> "none", phase |-> "none", count |-> 0]
Executions == [req : Ops, status : {"active", "revoked"},
               phase : {"creating", "created", "attempted"}, count : 0..Total]
              \cup {NoExecution}
Rows == [known : BOOLEAN, execution : Executions, payment : SUBSET (0..Total)]
NoRow == [known |-> FALSE, execution |-> NoExecution, payment |-> {}]
Schedules == [status : {"none", "active", "revoked", "complete"},
              executed : 0..Total, due : BOOLEAN]
NoSchedule == [status |-> "none", executed |-> 0, due |-> FALSE]
Idle == [pc |-> "idle", tab |-> 0, gen |-> 0, mount |-> 0, row |-> NoRow, read |-> NoRow]
Pcs == {"idle", "sign", "create", "verify", "review", "execute", "confirm",
        "payRead", "paying", "payVerify", "refetch", "done"}

TypeOK ==
    /\ journal \in Rows /\ view \in [Tabs -> Rows]
    /\ cache \in [Tabs -> Schedules]
    /\ visit \in [Tabs -> [gen : 0..MaxChanges, mount : 0..MaxChanges]]
    /\ \A o \in Ops : ops[o].pc \in Pcs /\ ops[o].row \in Rows /\ ops[o].read \in Rows
    /\ requests \in [Ops -> {"none", "Active", "Approved", "Executed", "Cancelled"}]
    /\ sched \in Schedules /\ final \in Schedules
    /\ \A m \in net : m.what \in {"create", "execute", "pay"} /\ m.landed \in BOOLEAN
    /\ changes \in 0..MaxChanges /\ asked \in [Ops -> Nat] /\ verified \in Nat
    /\ others \in BOOLEAN /\ late \in BOOLEAN
    /\ Cardinality(journal.payment) <= 1

Init ==
    /\ journal = NoRow /\ view = [t \in Tabs |-> NoRow]
    /\ cache = [t \in Tabs |-> NoSchedule]
    /\ visit = [t \in Tabs |-> [gen |-> 0, mount |-> 0]]
    /\ ops = [o \in Ops |-> Idle]
    /\ requests = [o \in Ops |-> "none"]
    /\ sched = NoSchedule /\ final = NoSchedule /\ net = {}
    /\ changes = 0 /\ asked = [o \in Ops |-> 0] /\ verified = 0
    /\ others = FALSE /\ late = FALSE

-----------------------------------------------------------------------------
(* The journal *)

Current(o) == ops[o].gen = visit[ops[o].tab].gen
Mounted(o) == ops[o].mount = visit[ops[o].tab].mount

\* persist: the row replaces the saved one and, while mounted, the shown one.
persist(o, row) ==
    /\ journal' = row
    /\ late' = (late \/ journal # ops[o].read)
    /\ view' = IF Mounted(o) THEN [view EXCEPT ![ops[o].tab] = row] ELSE view

savedRow(input) == IF journal.known THEN journal ELSE input

Phase(row, p) == [row EXCEPT !.execution.phase = p]
Resolved(row) == [row EXCEPT !.execution = NoExecution]
Paid(row) == [row EXCEPT !.payment = {}]

recurringExecutionApplied(e, s) ==
    IF e.status = "revoked" THEN s.status = "revoked" ELSE s.status \in {"active", "complete"}

-----------------------------------------------------------------------------
(* Steps *)

Goto(o, pc, row) == ops' = [ops EXCEPT ![o].pc = pc, ![o].row = row, ![o].read = row]
End(o) == ops' = [ops EXCEPT ![o] = [Idle EXCEPT !.pc = "done"]]

\* runExclusive: one action at a time on a mounted page.
InFlight(t) == \E o \in Ops :
    ops[o].tab = t /\ Mounted(o) /\ ops[o].pc \notin {"idle", "done"}

Start(o, t, pc, row, read) ==
    /\ ops[o].pc = "idle" /\ \A p \in Ops : p < o => ops[p].pc # "idle"
    /\ ~InFlight(t)
    /\ ops' = [ops EXCEPT ![o] = [pc |-> pc, tab |-> t, gen |-> visit[t].gen,
                                  mount |-> visit[t].mount, row |-> row, read |-> read]]
    /\ UNCHANGED <<journal, page, ledger, net, changes, history, late>>

NewExecution(o, status, count) ==
    [req |-> o, status |-> status, phase |-> "creating", count |-> count]

\* configure: not while an earlier creation is uncertain.
Configure(o, t) ==
    /\ ~journal.known /\ ~view[t].known
    /\ Start(o, t, "sign", [known |-> TRUE, payment |-> {},
                            execution |-> NewExecution(o, "active", Total)], journal)

\* revoke: dates and payments left come from the state the page last read.
Revoke(o, t) ==
    /\ view[t].known /\ cache[t].status = "active"
    /\ view[t].execution = NoExecution /\ view[t].payment = {}
    /\ cache[t].executed < Total
    /\ Start(o, t, "sign", [view[t] EXCEPT !.execution =
                               NewExecution(o, "revoked", Total - cache[t].executed)], view[t])

\* retry: refreshes a payment, refreshes a request, or executes it.
RetryFrom(o, row) == Goto(o, IF row.payment # {} THEN "payVerify" ELSE "verify", row)

Retry(o, t) ==
    /\ view[t].execution # NoExecution \/ view[t].payment # {}
    /\ LET row == savedRow(view[t]) IN
       Start(o, t, IF row.payment # {} THEN "payVerify" ELSE "verify", row, row)

\* pay: the button needs a due schedule with nothing pending.
Pay(o, t) ==
    /\ view[t].execution = NoExecution /\ view[t].payment = {}
    /\ cache[t].status = "active" /\ cache[t].due
    /\ LET row == savedRow(view[t]) IN
       Start(o, t, IF row.payment # {} THEN "payVerify" ELSE "payRead", row, row)

\* remove: only without anything to recover.
Remove(t) ==
    /\ view[t].known /\ view[t].execution = NoExecution /\ view[t].payment = {}
    /\ cache[t].status \in {"revoked", "complete"} /\ ~InFlight(t)
    /\ journal.execution = NoExecution /\ journal.payment = {}
    /\ journal' = NoRow /\ view' = [view EXCEPT ![t] = NoRow]
    /\ UNCHANGED <<cache, visit, ops, ledger, net, changes, history, late>>

\* proposeAndExecute after the signature: saved as creating, then posted.
PostCreate(o) ==
    /\ ops[o].pc = "sign" /\ Current(o)
    /\ persist(o, ops[o].row)
    /\ net' = net \cup {[op |-> o, req |-> o, what |-> "create", landed |-> FALSE,
                         execution |-> ops[o].row.execution]}
    /\ Goto(o, "create", ops[o].row)
    /\ UNCHANGED <<cache, visit, ledger, changes, history>>

\* Saved as created even if the page was left; then executed if approved.
CreateReply(o) ==
    LET row == Phase(ops[o].row, "created") IN
    /\ ops[o].pc = "create"
    /\ \E m \in net : m.op = o /\ m.what = "create" /\ m.landed
    /\ persist(o, row)
    /\ IF Current(o) THEN RetryFrom(o, row) ELSE End(o)
    /\ UNCHANGED <<cache, visit, ledger, net, changes, history>>

Settled(q) == requests[q] \in {"Executed", "Cancelled"}

\* verifiedOperation: the request is over, its row is cleared; "verify" is the
\* first read of retry, "confirm" the one after the execution.
Verified(o) ==
    LET row == ops[o].row IN
    /\ ops[o].pc \in {"verify", "confirm"}
    /\ row.execution # NoExecution /\ Current(o)
    /\ requests[row.execution.req] # "none"
    /\ IF Settled(row.execution.req)
       THEN persist(o, Resolved(row)) /\ Goto(o, "refetch", Resolved(row))
       ELSE /\ IF ops[o].pc = "verify" THEN Goto(o, "review", row) ELSE End(o)
            /\ UNCHANGED <<journal, view, late>>
    /\ UNCHANGED <<cache, visit, ledger, net, changes, history>>

\* The rest of retry after its second read.
Review(o) ==
    LET row == ops[o].row
        e == row.execution
    IN
    /\ ops[o].pc = "review" /\ Current(o)
    /\ \/ /\ e.phase = "attempted" \/ (e.phase = "created" /\ requests[e.req] # "Approved")
          /\ End(o)
          /\ UNCHANGED <<journal, view, late, net, asked>>
       \/ /\ e.phase = "creating"
          /\ persist(o, Phase(row, "created")) /\ End(o)
          /\ UNCHANGED <<net, asked>>
       \/ /\ e.phase = "created" /\ requests[e.req] = "Approved"
          /\ persist(o, Phase(row, "attempted"))
          /\ net' = net \cup {[op |-> o, req |-> e.req, what |-> "execute",
                               landed |-> FALSE, execution |-> e]}
          /\ asked' = [asked EXCEPT ![e.req] = @ + 1]
          /\ Goto(o, "execute", Phase(row, "attempted"))
    /\ UNCHANGED <<cache, visit, ledger, changes, verified, others>>

ExecuteReply(o) ==
    /\ ops[o].pc = "execute"
    /\ \E m \in net : m.op = o /\ m.what = "execute" /\ m.landed
    /\ persist(o, ops[o].row)
    /\ IF Current(o) THEN Goto(o, "confirm", ops[o].row) ELSE End(o)
    /\ UNCHANGED <<cache, visit, ledger, net, changes, history>>

\* pay after its read: saved as pending, then posted.
PostPayment(o) ==
    LET row == ops[o].row
        attempted == [row EXCEPT !.payment = {final.executed}]
    IN
    /\ ops[o].pc = "payRead" /\ Current(o)
    /\ final.status = "active" /\ final.due
    /\ row.execution # NoExecution => recurringExecutionApplied(row.execution, final)
    /\ persist(o, attempted)
    /\ net' = net \cup {[op |-> o, req |-> o, what |-> "pay", landed |-> FALSE,
                         execution |-> NoExecution]}
    /\ Goto(o, "paying", attempted)
    /\ UNCHANGED <<cache, visit, ledger, changes, history>>

PaymentReply(o) ==
    /\ ops[o].pc = "paying"
    /\ \E m \in net : m.op = o /\ m.what = "pay" /\ m.landed
    /\ persist(o, ops[o].row)
    /\ IF Current(o) THEN Goto(o, "payVerify", ops[o].row) ELSE End(o)
    /\ UNCHANGED <<cache, visit, ledger, net, changes, history>>

paymentVerified(row) == \E e \in row.payment : final.executed = e + 1

\* verifyPayment: exactly one payment more than before, at finalized.
VerifyPayment(o) ==
    LET row == ops[o].row IN
    /\ ops[o].pc = "payVerify" /\ Current(o)
    /\ IF paymentVerified(row)
       THEN /\ persist(o, Paid(row)) /\ Goto(o, "refetch", Paid(row))
            /\ verified' = verified + 1
       ELSE End(o) /\ UNCHANGED <<journal, view, late, verified>>
    /\ UNCHANGED <<cache, visit, ledger, net, changes, asked, others>>

\* statesQuery.refetch, at the end of a handler and every fifteen seconds.
Refetched(t) == cache' = [cache EXCEPT ![t] = final]

EndRefetch(o) ==
    /\ ops[o].pc = "refetch"
    /\ End(o)
    /\ IF Mounted(o) THEN Refetched(ops[o].tab) ELSE UNCHANGED cache
    /\ UNCHANGED <<journal, view, visit, ledger, net, changes, history, late>>

Refetch(t) ==
    /\ view[t].known /\ cache[t] # final
    /\ Refetched(t)
    /\ UNCHANGED <<journal, view, visit, ops, ledger, net, changes, history, late>>

\* An await rejects or a guard throws; what was saved stays.
Fail(o) ==
    /\ ops[o].pc \notin {"idle", "done"}
    /\ End(o)
    /\ UNCHANGED <<journal, page, ledger, net, changes, history, late>>

-----------------------------------------------------------------------------
(* The tab *)

Moved(t, mount) ==
    /\ changes < MaxChanges /\ changes' = changes + 1
    /\ visit' = [visit EXCEPT ![t].gen = @ + 1, ![t].mount = @ + mount]

SwitchAccount(t) ==
    Moved(t, 0) /\ UNCHANGED <<journal, view, cache, ops, ledger, net, history, late>>

\* Leaving and coming back: the journal is read again, old handlers go on.
Remount(t) ==
    /\ Moved(t, 1)
    /\ view' = [view EXCEPT ![t] = journal] /\ Refetched(t)
    /\ UNCHANGED <<journal, ops, ledger, net, history, late>>

Reload(t) ==
    /\ Moved(t, 1)
    /\ view' = [view EXCEPT ![t] = journal] /\ Refetched(t)
    /\ ops' = [o \in Ops |-> IF ops[o].tab = t THEN [Idle EXCEPT !.pc = "done"] ELSE ops[o]]
    /\ UNCHANGED <<journal, ledger, net, history, late>>

-----------------------------------------------------------------------------
(* The chain *)

\* The next date is set an interval after this payment.
AfterPayment ==
    [status |-> IF sched.executed + 1 = Total THEN "complete" ELSE "active",
     executed |-> sched.executed + 1, due |-> FALSE]

\* A revocation names the payments left and is refused once they changed.
AfterExecution(e) ==
    IF e.status = "active" THEN [NoSchedule EXCEPT !.status = "active"]
                           ELSE [sched EXCEPT !.status = "revoked", !.due = FALSE]
Executable(e) ==
    /\ requests[e.req] = "Approved"
    /\ IF e.status = "active" THEN sched.status = "none"
       ELSE sched.status = "active" /\ e.count = Total - sched.executed

Land(m) ==
    /\ ~m.landed
    /\ \/ /\ m.what = "create" /\ requests[m.req] = "none"
          /\ requests' = [requests EXCEPT ![m.req] = "Active"] /\ UNCHANGED sched
       \/ /\ m.what = "execute" /\ Executable(m.execution)
          /\ requests' = [requests EXCEPT ![m.req] = "Executed"]
          /\ sched' = AfterExecution(m.execution)
       \/ /\ m.what = "pay" /\ sched.status = "active" /\ sched.due
          /\ sched' = AfterPayment
          /\ UNCHANGED requests
    /\ net' = (net \ {m}) \cup {[m EXCEPT !.landed = TRUE]}
    /\ UNCHANGED <<journal, page, ops, final, changes, history, late>>

Vote(q) ==
    /\ \/ requests[q] = "Active" /\ requests' = [requests EXCEPT ![q] = "Approved"]
       \/ requests[q] \in {"Active", "Approved"}
          /\ requests' = [requests EXCEPT ![q] = "Cancelled"]
    /\ UNCHANGED <<journal, page, ops, sched, final, net, changes, history, late>>

BecomesDue ==
    /\ sched.status = "active" /\ ~sched.due
    /\ sched' = [sched EXCEPT !.due = TRUE]
    /\ final' = [final EXCEPT !.due = final.status = "active"]
    /\ UNCHANGED <<journal, page, ops, requests, net, changes, history, late>>

OtherPays ==
    /\ sched.status = "active" /\ sched.due
    /\ sched' = AfterPayment
    /\ others' = TRUE
    /\ UNCHANGED <<journal, page, ops, requests, final, net, changes, asked, verified, late>>

Finalize ==
    /\ final # sched /\ final' = sched
    /\ UNCHANGED <<journal, page, ops, requests, sched, net, changes, history, late>>

Next ==
    \/ \E o \in Ops, t \in Tabs : Configure(o, t) \/ Revoke(o, t) \/ Retry(o, t) \/ Pay(o, t)
    \/ \E o \in Ops : \/ PostCreate(o) \/ CreateReply(o) \/ Verified(o) \/ Review(o)
                      \/ ExecuteReply(o) \/ PostPayment(o) \/ PaymentReply(o)
                      \/ VerifyPayment(o) \/ EndRefetch(o) \/ Fail(o) \/ Vote(o)
    \/ \E t \in Tabs : \/ Remove(t) \/ Refetch(t) \/ SwitchAccount(t) \/ Remount(t) \/ Reload(t)
    \/ \E m \in net : Land(m)
    \/ BecomesDue \/ OtherPays \/ Finalize

Spec == Init /\ [][Next]_vars

-----------------------------------------------------------------------------
(* Properties *)

\* The page asks for the execution of a schedule request once (retry).
OneExecution == late \/ \A q \in Ops : asked[q] <= 1

\* A request that was posted and is still open is the pending one of the row:
\* nothing is activated or revoked behind the back of the journal.
OneOpenRequest == late \/ \A m \in net :
    m.what = "create" /\ ~Settled(m.req) => journal.execution.req = m.req

\* A payment call that may still land is remembered, so no second one is made
\* on top of it, and the saved payment can still be verified (pay, verifyPayment).
PaymentRemembered == late \/ others \/
    /\ \A m, n \in net : m.what = "pay" /\ n.what = "pay" /\ ~m.landed /\ ~n.landed => m = n
    /\ \A m \in net : m.what = "pay" /\ ~m.landed => journal.payment # {}
    /\ \A e \in journal.payment : sched.executed \in {e, e + 1}

\* Every payment reported as verified is another one on Solana.
VerifiedTrue == late \/ verified <= sched.executed
=============================================================================
