----------------------------- MODULE TreasuryProofs ----------------------------
(***************************************************************************)
(* What holds of the treasury pages, for any number of tabs, handler calls *)
(* and interruptions: of the recurring payments page, for any number of    *)
(* payments, and of the escrow card.                                       *)
(*                                                                         *)
(* On either page the inductive invariant follows what is saved.  On the   *)
(* recurring page that is the row of the journal.  A call that goes on     *)
(* holds a row whose request was posted, and the row it read; who saves    *)
(* while the journal still is what he read changes the execution or the    *)
(* payment as the chain allows.  So as long as nobody overwrites what      *)
(* changed under him, an open request stays the pending one, and a payment *)
(* that may still land stays saved: the journal's count and the schedule's *)
(* differ by at most that payment.  Both counts are followed at the        *)
(* finalized commitment, which lags behind.                                *)
(*                                                                         *)
(* Of the card it is the record.  Wherever one is held - in localStorage,  *)
(* on a card, in a handler that awaits a reply - its request was posted,   *)
(* and it says confirmed or cancelled only of a request that Solana        *)
(* executed or cancelled.  A handler that will overwrite the saved record  *)
(* writes what follows from the one it read, so as long as nobody          *)
(* overwrites what changed under him, the saved record goes through its    *)
(* phases in order and asks for an execution on one of them.               *)
(***************************************************************************)
EXTENDS Recurring, FiniteSetTheorems, TLAPS

\* Calls are numbered from one; a schedule has payments.
RecurringAssumption == Ops \subseteq Nat \ {0} /\ Total \in Nat \ {0} /\ MaxChanges \in Nat

-------------------------------------------------------------------------------
(* The invariant *)

Waiting == {"create", "verify", "review", "execute", "confirm", "payRead", "paying",
            "payVerify", "refetch"}
Over == {"Executed", "Cancelled"}
Gone == {"revoked", "complete"}
Calls == [pc : Pcs, tab : Tabs \cup {0}, gen : 0 .. MaxChanges, mount : 0 .. MaxChanges,
          row : Rows, read : Rows]
Messages == [op : Ops, req : Ops, what : {"create", "execute", "pay"}, landed : BOOLEAN,
             execution : Executions]

Typed ==
    /\ journal \in Rows /\ view \in [Tabs -> Rows]
    /\ cache \in [Tabs -> Schedules]
    /\ visit \in [Tabs -> [gen : 0 .. changes, mount : 0 .. changes]]
    /\ DOMAIN ops = Ops
    /\ requests \in [Ops -> {"none", "Active", "Approved", "Executed", "Cancelled"}]
    /\ sched \in Schedules /\ final \in Schedules
    /\ net \subseteq Messages
    /\ changes \in 0 .. MaxChanges /\ asked \in [Ops -> Nat] /\ verified \in Nat
    /\ others \in BOOLEAN /\ late \in BOOLEAN

\* A row, wherever it is held, of the calls n: its request was posted, it has
\* at most one payment, and an unknown schedule has an empty row.
RowOK(row, n) ==
    /\ row \in Rows
    /\ row.known \/ row = NoRow
    /\ \A d, e \in row.payment : d = e
    /\ row.execution # NoExecution => \E m \in n : m.what = "create" /\ m.req = row.execution.req

RowsOK ==
    /\ RowOK(journal, net)
    /\ \A t \in Tabs : RowOK(view[t], net)

\* The state x of call o; n are the calls.
CallOK(o, x, n) ==
    /\ x \in Calls
    /\ RowOK(x.read, n)
    /\ x.pc \notin {"idle", "done"} => x.tab \in Tabs /\ x.row.known
    /\ x.pc = "sign" => /\ x.read.execution = NoExecution
                        /\ x.row.execution # NoExecution
                        /\ x.row.execution.req = o /\ x.row.execution.phase = "creating"
                        /\ x.row.payment = x.read.payment
    /\ x.pc \in Waiting => x.row = x.read
    /\ x.pc = "create" => x.row.execution # NoExecution /\ x.row.execution.phase = "creating"
    /\ x.pc = "payRead" => x.row.payment = {}

Called == \A o \in Ops : CallOK(o, ops[o], net)

\* A request is posted by the call that gave it its number, which goes on.
Created ==
    \A m \in net : m.what = "create" => m.op = m.req /\ ops[m.op].pc \notin {"idle", "sign"}

\* An execution is asked for of a posted request, once.
Asked ==
    /\ \A q \in Ops : asked[q] > 0 => \E m \in net : m.what = "create" /\ m.req = q
    /\ ~late => /\ \A q \in Ops : asked[q] <= 1
                /\ journal.execution.phase \in {"creating", "created"}
                     => asked[journal.execution.req] = 0

\* The schedule on Solana, and as it was at the finalized commitment.
Scheduled ==
    /\ sched.status = "none" => sched.executed = 0
    /\ sched.status = "active" => sched.executed < Total
    /\ final.executed <= sched.executed
    /\ final.status \in Gone => sched.status = final.status

\* What the tabs know of it.  A schedule is only forgotten when it is over.
Followed ==
    /\ \A t \in Tabs : cache[t].status \in Gone => final.status = cache[t].status
    /\ \A t \in Tabs : cache[t].status = "active" => view[t].known
    /\ \/ journal.known
       \/ final.status \in Gone
       \/ net = {} /\ sched.status = "none" /\ final.status = "none"
    /\ \A o \in Ops : /\ ops[o].pc \notin {"idle", "done"}
                        => ops[o].mount <= visit[ops[o].tab].mount
                      /\ ops[o].pc = "refetch" /\ Mounted(o) => view[ops[o].tab].known

MayLand(m) == m.what = "pay" /\ ~m.landed

\* A payment that may land is the saved one and the next one of the schedule;
\* without one the finalized count is the schedule's.
Paying ==
    late \/ others \/
        /\ \A m, n \in net : MayLand(m) /\ MayLand(n) => m = n
        /\ \A m \in net : MayLand(m) => \E e \in journal.payment : sched.executed = e
        /\ journal.payment = {} => final.executed = sched.executed
        /\ \A e \in journal.payment : sched.executed \in {e, e + 1}

Verifying ==
    late \/ (verified <= final.executed /\ \A e \in journal.payment : verified <= e)

PageInv ==
    /\ Typed /\ RowsOK /\ Called /\ Created /\ Asked /\ OneOpenRequest
    /\ Scheduled /\ Followed /\ Paying /\ Verifying

-------------------------------------------------------------------------------
(* What a step leaves true *)

\* Posted requests stay posted.
Grows(n, n1) == \A m \in n : m.what = "create" => \E m1 \in n1 : m1.what = "create" /\ m1.req = m.req

LEMMA RowStays ==
    ASSUME NEW n, NEW n1, NEW row, Grows(n, n1), RowOK(row, n)
    PROVE  RowOK(row, n1)
BY DEF RowOK, Grows

LEMMA CallStays ==
    ASSUME NEW n, NEW n1, NEW o, NEW x, Grows(n, n1), CallOK(o, x, n)
    PROVE  CallOK(o, x, n1)
BY RowStays DEF CallOK

\* One call goes on.
LEMMA OneCall ==
    ASSUME DOMAIN ops = Ops, Called, NEW o \in Ops, NEW x, CallOK(o, x, net'),
           Grows(net, net'), ops' = [ops EXCEPT ![o] = x]
    PROVE  /\ DOMAIN ops' = Ops /\ Called'
           /\ ops'[o] = x /\ \A p \in Ops \ {o} : ops'[p] = ops[p]
<1>1. /\ DOMAIN ops' = Ops /\ ops'[o] = x /\ \A p \in Ops \ {o} : ops'[p] = ops[p]
  OBVIOUS
<1>2. \A p \in Ops : CallOK(p, ops[p], net')
  BY CallStays DEF Called
<1>3. \A p \in Ops : CallOK(p, ops'[p], net')
  BY <1>1, <1>2
<1> QED
  BY <1>1, <1>3 DEF Called

\* What the invariant says of a call.
LEMMA CallParts ==
    ASSUME PageInv, NEW o \in Ops
    PROVE  /\ CallOK(o, ops[o], net) /\ ops[o] \in Calls /\ DOMAIN ops = Ops
           /\ ops[o].pc \notin {"idle", "done"} => ops[o].tab \in Tabs
BY DEF PageInv, Called, CallOK, Typed

\* What is left of a call that has ended.
LEMMA Ended ==
    ASSUME RecurringAssumption, NEW o, NEW n
    PROVE  LET x == [Idle EXCEPT !.pc = "done"] IN
           x.pc = "done" /\ CallOK(o, x, n)
<1> DEFINE x == [Idle EXCEPT !.pc = "done"]
<1>1. x = [pc |-> "done", tab |-> 0, gen |-> 0, mount |-> 0, row |-> NoRow, read |-> NoRow]
  BY DEF Idle
<1> HIDE DEF x
<1>2. NoRow \in Rows /\ RowOK(NoRow, n)
  BY DEF NoRow, Rows, Executions, RowOK
<1>3. x.pc = "done" /\ x.tab = 0 /\ x.row = NoRow /\ x.read = NoRow /\ x \in Calls
  <2>1. 0 \in 0 .. MaxChanges
    BY DEF RecurringAssumption
  <2> QED
    BY <1>1, <1>2, <2>1 DEF Calls, Pcs
<1>4. CallOK(o, x, n)
  BY <1>2, <1>3 DEF CallOK, Waiting
<1> QED
  BY <1>3, <1>4 DEF x

\* A step after which the journal names the same request, if nobody overwrote
\* what changed under him, that asks for no execution and posts no request.
LEMMA SameRequest ==
    ASSUME PageInv, Typed', UNCHANGED asked,
           ~late' => /\ ~late /\ journal'.execution.req = journal.execution.req
                     /\ journal'.execution.phase \in {"creating", "created"}
                          => journal.execution.phase \in {"creating", "created"},
           Grows(net, net'), Grows(net', net),
           \A q \in Ops : Settled(q) => Settled(q)'
    PROVE  Asked' /\ OneOpenRequest'
<1>1. \A q \in Ops : asked'[q] > 0 => \E m \in net' : m.what = "create" /\ m.req = q
  BY DEF PageInv, Asked, Grows
<1>2. Asked'
  BY <1>1 DEF PageInv, Asked
<1>3. OneOpenRequest'
  <2> SUFFICES ASSUME ~late', NEW m \in net', m.what = "create", ~Settled(m.req)'
               PROVE  journal'.execution.req = m.req
    BY DEF OneOpenRequest
  <2>1. PICK n \in net : n.what = "create" /\ n.req = m.req
    BY DEF Grows
  <2>2. m.req \in Ops
    BY DEF Typed, Messages
  <2>3. ~Settled(n.req)
    BY <2>1, <2>2
  <2> QED
    BY <2>1, <2>3 DEF PageInv, OneOpenRequest
<1> QED
  BY <1>2, <1>3

\* A step after which the journal has the same payment, if nobody overwrote
\* what changed under him, and that posts, lands and verifies none.
LEMMA SamePayment ==
    ASSUME PageInv, UNCHANGED <<others, verified>>,
           ~late' => ~late /\ journal'.payment = journal.payment,
           \A m \in net' : MayLand(m) => m \in net,
           sched'.executed = sched.executed, final'.executed = final.executed
    PROVE  Paying' /\ Verifying'
<1>1. Paying'
  <2> SUFFICES ASSUME ~late', ~others'
               PROVE  /\ \A m, n \in net' : MayLand(m) /\ MayLand(n) => m = n
                      /\ \A m \in net' : MayLand(m)
                           => \E e \in journal'.payment : sched'.executed = e
                      /\ journal'.payment = {} => final'.executed = sched'.executed
                      /\ \A e \in journal'.payment : sched'.executed \in {e, e + 1}
    BY DEF Paying, MayLand
  <2>1. Paying /\ ~late /\ ~others
    BY DEF PageInv
  <2> QED
    BY <2>1 DEF Paying
<1>2. Verifying'
  BY DEF PageInv, Verifying
<1> QED
  BY <1>1, <1>2

-------------------------------------------------------------------------------
(* Handlers that save nothing *)

\* A call goes to another step, or ends; its tab may read the schedule again.
LEMMA CallMoves ==
    ASSUME PageInv, NEW o \in Ops, NEW x, CallOK(o, x, net), ops' = [ops EXCEPT ![o] = x],
           ops[o].pc \in {"idle", "sign"} \/ x.pc \notin {"idle", "sign"},
           x.pc \notin {"idle", "done"} => x.mount <= visit[x.tab].mount,
           x.pc # "refetch",
           \A m \in net : m.what = "create" /\ m.op = o => x.pc \notin {"idle", "sign"},
           cache' \in [Tabs -> Schedules],
           \A t \in Tabs : cache'[t] = cache[t] \/ (cache'[t] = final /\ view[t].known),
           UNCHANGED <<journal, view, visit, requests, sched, final, net, changes, asked,
                       verified, others, late>>
    PROVE  PageInv'
<1>0. Typed /\ RowsOK /\ Called /\ Created /\ Scheduled /\ Followed /\ Grows(net, net')
  BY DEF PageInv, Grows
<1>1. /\ DOMAIN ops' = Ops /\ Called' /\ ops'[o] = x
      /\ \A p \in Ops \ {o} : ops'[p] = ops[p]
  BY <1>0, OneCall DEF Typed
<1>2. Typed'
  BY <1>0, <1>1 DEF Typed
<1>3. RowsOK' /\ Scheduled'
  BY <1>0 DEF RowsOK, Scheduled
<1>4. Created'
  <2>1. \A m \in net : m.op \in Ops
    BY <1>0 DEF Typed, Messages
  <2> QED
    BY <1>0, <1>1, <2>1 DEF Created
<1>5. Followed'
  <2>1. /\ \A t \in Tabs : cache'[t].status \in Gone => final'.status = cache'[t].status
        /\ \A t \in Tabs : cache'[t].status = "active" => view'[t].known
    BY <1>0 DEF Followed
  <2>2. \A p \in Ops : /\ ops'[p].pc \notin {"idle", "done"}
                            => ops'[p].mount <= visit'[ops'[p].tab].mount
                       /\ ops'[p].pc = "refetch" /\ Mounted(p)' => view'[ops'[p].tab].known
    BY <1>0, <1>1 DEF Followed, Mounted
  <2> QED
    BY <1>0, <2>1, <2>2 DEF Followed
<1>6. Asked' /\ OneOpenRequest'
  BY <1>0, <1>2, SameRequest DEF Settled
<1>7. Paying' /\ Verifying'
  BY SamePayment
<1> QED
  BY <1>1, <1>2, <1>3, <1>4, <1>5, <1>6, <1>7 DEF PageInv

\* A call starts in a tab.
LEMMA CallStarts ==
    ASSUME PageInv, RecurringAssumption, NEW o \in Ops, NEW t \in Tabs,
           NEW pc \in {"sign", "verify", "payRead", "payVerify"},
           NEW row \in Rows, NEW read, RowOK(read, net), row.known,
           pc = "sign" => /\ read.execution = NoExecution
                          /\ row.execution # NoExecution
                          /\ row.execution.req = o /\ row.execution.phase = "creating"
                          /\ row.payment = read.payment,
           pc # "sign" => row = read,
           pc = "payRead" => row.payment = {},
           Start(o, t, pc, row, read)
    PROVE  PageInv'
<1> DEFINE x == [pc |-> pc, tab |-> t, gen |-> visit[t].gen, mount |-> visit[t].mount,
                 row |-> row, read |-> read]
<1>0. /\ Typed /\ Created
      /\ visit[t].gen \in 0 .. MaxChanges /\ visit[t].mount \in 0 .. MaxChanges
      /\ visit[t].mount \in Nat
  <2>1. visit[t] \in [gen : 0 .. changes, mount : 0 .. changes] /\ changes \in 0 .. MaxChanges
    BY DEF PageInv, Typed
  <2>2. changes \in Nat /\ MaxChanges \in Nat /\ changes <= MaxChanges
    BY <2>1 DEF RecurringAssumption
  <2> QED
    BY <2>1, <2>2 DEF PageInv
<1>1. /\ ops[o].pc = "idle" /\ ops' = [ops EXCEPT ![o] = x]
      /\ UNCHANGED <<journal, view, cache, visit, requests, sched, final, net, changes, asked,
                     verified, others, late>>
  BY DEF Start, page, ledger, history
<1>2. /\ x.pc = pc /\ x.tab = t /\ x.row = row /\ x.read = read /\ x.mount = visit[t].mount
      /\ x \in Calls
  <2>1. read \in Rows /\ pc \in Pcs
    BY DEF RowOK, Pcs
  <2> QED
    BY <1>0, <2>1 DEF Calls
<1> HIDE DEF x
<1>3. CallOK(o, x, net)
  BY <1>2 DEF CallOK, Waiting
<1>4. x.mount <= visit[x.tab].mount
  BY <1>0, <1>2
<1>5. \A m \in net : m.what = "create" => m.op # o
  BY <1>0, <1>1 DEF Created
<1>6. cache' \in [Tabs -> Schedules] /\ \A u \in Tabs : cache'[u] = cache[u]
  BY <1>0, <1>1 DEF Typed
<1> QED
  BY <1>1, <1>2, <1>3, <1>4, <1>5, <1>6, CallMoves

\* savedRow: the saved row, or the shown one when there is none.
LEMMA SavedRow ==
    ASSUME PageInv, NEW t \in Tabs, view[t].known
    PROVE  /\ savedRow(view[t]) \in Rows /\ savedRow(view[t]).known
           /\ RowOK(savedRow(view[t]), net)
BY DEF savedRow, PageInv, RowsOK, Typed

\* The buttons of the page.
LEMMA ButtonSteps ==
    ASSUME PageInv, RecurringAssumption, NEW o \in Ops, NEW t \in Tabs,
           Configure(o, t) \/ Revoke(o, t) \/ Retry(o, t) \/ Pay(o, t)
    PROVE  PageInv'
<1>0. /\ Typed /\ RowsOK /\ Followed /\ o \in Nat /\ o # 0 /\ Total \in Nat
      /\ RowOK(journal, net) /\ RowOK(view[t], net) /\ view[t] \in Rows /\ cache[t] \in Schedules
  BY DEF PageInv, RowsOK, Typed, RecurringAssumption
<1>1. CASE Configure(o, t)
  <2> DEFINE e == NewExecution(o, "active", Total)
             row == [known |-> TRUE, payment |-> {}, execution |-> e]
  <2>1. e \in Executions /\ e # NoExecution /\ e.req = o /\ e.phase = "creating"
    BY <1>0 DEF NewExecution, Executions, NoExecution
  <2> HIDE DEF e
  <2>2. row \in Rows /\ row.known /\ row.execution = e /\ row.payment = {}
    BY <2>1 DEF Rows
  <2>3. Start(o, t, "sign", row, journal) /\ ~journal.known
    BY <1>1 DEF Configure, e
  <2>4. journal.execution = NoExecution /\ journal.payment = {}
    BY <1>0, <2>3 DEF RowOK, NoRow
  <2> HIDE DEF row
  <2> QED
    BY <1>0, <2>1, <2>2, <2>3, <2>4, CallStarts
<1>2. CASE Revoke(o, t)
  <2> DEFINE e == NewExecution(o, "revoked", Total - cache[t].executed)
             row == [view[t] EXCEPT !.execution = e]
  <2>1. Total - cache[t].executed \in 0 .. Total
    BY <1>0 DEF Schedules
  <2>2. e \in Executions /\ e # NoExecution /\ e.req = o /\ e.phase = "creating"
    BY <1>0, <2>1 DEF NewExecution, Executions, NoExecution
  <2>3. Start(o, t, "sign", row, view[t]) /\ view[t].known /\ view[t].execution = NoExecution
    BY <1>2 DEF Revoke
  <2> HIDE DEF e
  <2>4. /\ row \in Rows /\ row.known /\ row.execution = e /\ row.payment = view[t].payment
    BY <1>0, <2>2, <2>3 DEF Rows
  <2> HIDE DEF row
  <2> QED
    BY <1>0, <2>2, <2>3, <2>4, CallStarts
<1>3. CASE Retry(o, t)
  <2> DEFINE row == savedRow(view[t])
             pc == IF row.payment # {} THEN "payVerify" ELSE "verify"
  <2>1. Start(o, t, pc, row, row) /\ view[t].known
    BY <1>0, <1>3 DEF Retry, RowOK, NoRow
  <2>2. row \in Rows /\ row.known /\ RowOK(row, net)
    BY <2>1, SavedRow
  <2>3. pc \in {"verify", "payVerify"}
    OBVIOUS
  <2> HIDE DEF row, pc
  <2> QED
    BY <2>1, <2>2, <2>3, CallStarts
<1>4. CASE Pay(o, t)
  <2> DEFINE row == savedRow(view[t])
             pc == IF row.payment # {} THEN "payVerify" ELSE "payRead"
  <2>1. Start(o, t, pc, row, row) /\ view[t].known
    BY <1>0, <1>4 DEF Pay, Followed
  <2>2. row \in Rows /\ row.known /\ RowOK(row, net)
    BY <2>1, SavedRow
  <2>3. pc \in {"payRead", "payVerify"} /\ (pc = "payRead" => row.payment = {})
    OBVIOUS
  <2> HIDE DEF row, pc
  <2> QED
    BY <2>1, <2>2, <2>3, CallStarts
<1> QED
  BY <1>1, <1>2, <1>3, <1>4

\* A call that goes on, the row it holds being the saved one.
LEMMA GoesOn ==
    ASSUME PageInv, NEW o \in Ops, ops[o].pc \notin {"idle", "done"}, NEW n, NEW row,
           RowOK(row, n), row.known, NEW pc \in Waiting \ {"payRead"},
           pc = "create" => row.execution # NoExecution /\ row.execution.phase = "creating",
           Goto(o, pc, row)
    PROVE  \E x : /\ ops' = [ops EXCEPT ![o] = x] /\ CallOK(o, x, n)
                  /\ x.pc = pc /\ x.tab = ops[o].tab /\ x.mount = ops[o].mount
<1> DEFINE x == [ops[o] EXCEPT !.pc = pc, !.row = row, !.read = row]
<1>1. ops[o] \in Calls /\ DOMAIN ops = Ops /\ ops[o].tab \in Tabs
  BY CallParts
<1>2. ops' = [ops EXCEPT ![o] = x]
  BY <1>1 DEF Goto
<1>3. row \in Rows /\ pc \in Pcs
  BY DEF RowOK, Waiting, Pcs
<1>4. /\ x \in Calls /\ x.pc = pc /\ x.row = row /\ x.read = row /\ x.tab = ops[o].tab
      /\ x.mount = ops[o].mount
  BY <1>1, <1>3 DEF Calls
<1> HIDE DEF x
<1>5. CallOK(o, x, n)
  BY <1>1, <1>4 DEF CallOK, Waiting
<1> QED
  BY <1>2, <1>4, <1>5

\* A call that ends.
LEMMA EndsHere ==
    ASSUME RecurringAssumption, NEW o \in Ops, NEW n, End(o)
    PROVE  \E x : ops' = [ops EXCEPT ![o] = x] /\ CallOK(o, x, n) /\ x.pc = "done"
<1> DEFINE x == [Idle EXCEPT !.pc = "done"]
<1>1. ops' = [ops EXCEPT ![o] = x]
  BY DEF End
<1>2. x.pc = "done" /\ CallOK(o, x, n)
  BY Ended
<1> QED
  BY <1>1, <1>2

\* A call that ends and saves nothing; its tab may read the schedule again.
LEMMA Ends ==
    ASSUME PageInv, RecurringAssumption, NEW o \in Ops, End(o),
           cache' \in [Tabs -> Schedules],
           \A t \in Tabs : cache'[t] = cache[t] \/ (cache'[t] = final /\ view[t].known),
           UNCHANGED <<journal, view, visit, requests, sched, final, net, changes, asked,
                       verified, others, late>>
    PROVE  PageInv'
<1>1. PICK x : ops' = [ops EXCEPT ![o] = x] /\ CallOK(o, x, net) /\ x.pc = "done"
  BY EndsHere
<1> QED
  BY <1>1, CallMoves

\* An await rejects, or a handler ends with a refetch.
LEMMA EndSteps ==
    ASSUME PageInv, RecurringAssumption, NEW o \in Ops, Fail(o) \/ EndRefetch(o)
    PROVE  PageInv'
<1>0. Typed /\ cache \in [Tabs -> Schedules] /\ final \in Schedules
  BY DEF PageInv, Typed
<1>1. CASE Fail(o)
  BY <1>0, <1>1, Ends DEF Fail, page, ledger, history
<1>2. CASE EndRefetch(o)
  <2>1. /\ End(o) /\ ops[o].pc = "refetch" /\ ops[o].tab \in Tabs
        /\ UNCHANGED <<journal, view, visit, requests, sched, final, net, changes, asked,
                       verified, others, late>>
    BY <1>2, CallParts DEF EndRefetch, ledger, history
  <2>2. cache' = cache \/ (Mounted(o) /\ cache' = [cache EXCEPT ![ops[o].tab] = final])
    BY <1>2 DEF EndRefetch, Refetched
  <2>3. Mounted(o) => view[ops[o].tab].known
    BY <2>1 DEF PageInv, Followed
  <2>4. /\ cache' \in [Tabs -> Schedules]
        /\ \A t \in Tabs : cache'[t] = cache[t] \/ (cache'[t] = final /\ view[t].known)
    BY <1>0, <2>2, <2>3
  <2> QED
    BY <2>1, <2>4, Ends
<1> QED
  BY <1>1, <1>2

-------------------------------------------------------------------------------
(* Handlers that save *)

\* persist: who has read the saved row replaces it, or is too late.
LEMMA Replaced ==
    ASSUME Typed, NEW o \in Ops, NEW row \in Rows, persist(o, row)
    PROVE  /\ journal' = row /\ view' \in [Tabs -> Rows] /\ late' \in BOOLEAN
           /\ \A t \in Tabs : view'[t] \in {view[t], row}
           /\ ops[o].tab \in Tabs /\ Mounted(o) => view'[ops[o].tab] = row
           /\ ~late' => ~late /\ journal = ops[o].read
<1>1. journal' = row /\ late' = (late \/ journal # ops[o].read)
      /\ view' = IF Mounted(o) THEN [view EXCEPT ![ops[o].tab] = row] ELSE view
  BY DEF persist
<1>2. /\ view' \in [Tabs -> Rows] /\ \A t \in Tabs : view'[t] \in {view[t], row}
      /\ ops[o].tab \in Tabs /\ Mounted(o) => view'[ops[o].tab] = row
  BY <1>1 DEF Typed
<1>3. late' \in BOOLEAN /\ (~late' => ~late /\ journal = ops[o].read)
  BY <1>1 DEF Typed
<1> QED
  BY <1>1, <1>2, <1>3

\* What a handler saves leaves the page well formed.
LEMMA WellSaved ==
    ASSUME PageInv, NEW o \in Ops, ops[o].pc \notin {"idle", "done"},
           NEW row, RowOK(row, net'), row.known, persist(o, row),
           NEW x, CallOK(o, x, net'), ops' = [ops EXCEPT ![o] = x], x.pc \notin {"idle", "sign"},
           x.pc # "done" => x.tab = ops[o].tab /\ x.mount = ops[o].mount,
           net \subseteq net', net' \subseteq Messages,
           \A m \in net' \ net : m.what = "create" => m.op = o /\ m.req = o,
           asked' \in [Ops -> Nat], verified' \in Nat,
           UNCHANGED <<cache, visit, requests, sched, final, changes, others>>
    PROVE  Typed' /\ RowsOK' /\ Called' /\ Created' /\ Scheduled' /\ Followed'
<1>0. /\ Typed /\ RowsOK /\ Called /\ Created /\ Scheduled /\ Followed /\ Grows(net, net')
      /\ ops[o].tab \in Tabs
  BY CallParts DEF PageInv, Grows
<1>1. /\ journal' = row /\ view' \in [Tabs -> Rows] /\ late' \in BOOLEAN
      /\ \A t \in Tabs : view'[t] \in {view[t], row}
      /\ Mounted(o) => view'[ops[o].tab] = row
  BY <1>0, Replaced DEF RowOK
<1>2. /\ DOMAIN ops' = Ops /\ Called' /\ ops'[o] = x
      /\ \A p \in Ops \ {o} : ops'[p] = ops[p]
  BY <1>0, OneCall DEF Typed
<1>3. Typed'
  <2>1. journal' \in Rows
    BY <1>1 DEF RowOK
  <2> QED
    BY <1>0, <1>1, <1>2, <2>1 DEF Typed
<1>4. RowsOK'
  <2>1. \A t \in Tabs : RowOK(view[t], net')
    BY <1>0, RowStays DEF RowsOK
  <2> QED
    BY <1>1, <2>1 DEF RowsOK
<1>5. Created'
  <2>1. ASSUME NEW m \in net', m.what = "create"
        PROVE  m.op = m.req /\ ops'[m.op].pc \notin {"idle", "sign"}
    <3>1. CASE m \in net
      <4>1. m.op \in Ops
        BY <1>0, <3>1 DEF Typed, Messages
      <4> QED
        BY <1>0, <1>2, <2>1, <3>1, <4>1 DEF Created
    <3>2. CASE m \notin net
      BY <1>2, <2>1, <3>2
    <3> QED
      BY <3>1, <3>2
  <2> QED
    BY <2>1 DEF Created
<1>6. Scheduled'
  BY <1>0 DEF Scheduled
<1>7. Followed'
  <2>0. \A t \in Tabs : view[t].known => view'[t].known
    BY <1>1
  <2>1. /\ \A t \in Tabs : cache'[t].status \in Gone => final'.status = cache'[t].status
        /\ \A t \in Tabs : cache'[t].status = "active" => view'[t].known
    BY <1>0, <2>0 DEF Followed
  <2>2. ASSUME NEW p \in Ops
        PROVE  /\ ops'[p].pc \notin {"idle", "done"}
                    => ops'[p].mount <= visit'[ops'[p].tab].mount
               /\ ops'[p].pc = "refetch" /\ Mounted(p)' => view'[ops'[p].tab].known
    <3>1. CASE p = o
      <4>1. ops[o].mount <= visit[ops[o].tab].mount
        BY <1>0 DEF Followed
      <4> QED
        BY <1>1, <1>2, <3>1, <4>1 DEF Mounted
    <3>2. CASE p # o
      <4>1. ops'[p] = ops[p]
        BY <1>2, <3>2
      <4>2. ops[p].pc = "refetch" => ops[p].tab \in Tabs
        BY CallParts
      <4> QED
        BY <1>0, <2>0, <4>1, <4>2 DEF Followed, Mounted
    <3> QED
      BY <3>1, <3>2
  <2>3. journal'.known
    BY <1>1
  <2> QED
    BY <2>1, <2>2, <2>3 DEF Followed
<1> QED
  BY <1>2, <1>3, <1>4, <1>5, <1>6, <1>7

\* The rows a handler makes of the one it holds.
LEMMA Phased ==
    ASSUME NEW n, NEW row, RowOK(row, n), row.known, row.execution # NoExecution,
           NEW p \in {"creating", "created", "attempted"}
    PROVE  /\ RowOK(Phase(row, p), n) /\ Phase(row, p).known
           /\ Phase(row, p).payment = row.payment
           /\ Phase(row, p).execution.req = row.execution.req
           /\ Phase(row, p).execution.phase = p
           /\ Phase(row, p).execution # NoExecution
<1> DEFINE e == [row.execution EXCEPT !.phase = p]
           r == [row EXCEPT !.execution = e]
<1>1. /\ row \in Rows
      /\ row.execution \in [req : Ops, status : {"active", "revoked"},
                            phase : {"creating", "created", "attempted"}, count : 0 .. Total]
  BY DEF RowOK, Rows, Executions
<1>2. e \in Executions /\ e.req = row.execution.req /\ e.phase = p /\ e # NoExecution
  BY <1>1 DEF Executions, NoExecution
<1>3. Phase(row, p) = r
  BY <1>1 DEF Phase, Rows
<1> HIDE DEF e
<1>4. r \in Rows /\ r.known /\ r.payment = row.payment /\ r.execution = e
  BY <1>1, <1>2 DEF Rows
<1> HIDE DEF r
<1>5. RowOK(r, n)
  BY <1>2, <1>4 DEF RowOK
<1> QED
  BY <1>2, <1>3, <1>4, <1>5

LEMMA Cleared ==
    ASSUME NEW n, NEW row, RowOK(row, n), row.known
    PROVE  /\ RowOK(Resolved(row), n) /\ Resolved(row).known
           /\ Resolved(row).execution = NoExecution /\ Resolved(row).payment = row.payment
           /\ RowOK(Paid(row), n) /\ Paid(row).known
           /\ Paid(row).execution = row.execution /\ Paid(row).payment = {}
<1>1. row \in Rows /\ NoExecution \in Executions
  BY DEF RowOK, Executions
<1>2. /\ Resolved(row) \in Rows /\ Resolved(row).known
      /\ Resolved(row).execution = NoExecution /\ Resolved(row).payment = row.payment
  BY <1>1 DEF Resolved, Rows
<1>3. /\ Paid(row) \in Rows /\ Paid(row).known
      /\ Paid(row).execution = row.execution /\ Paid(row).payment = {}
  BY <1>1 DEF Paid, Rows
<1> QED
  BY <1>2, <1>3 DEF RowOK

\* A saved row that names the same request and payment as the one it replaces.
LEMMA SameSaved ==
    ASSUME PageInv, NEW o \in Ops, ops[o].pc \in Waiting,
           NEW row, RowOK(row, net), row.known, persist(o, row),
           row.execution.req = ops[o].row.execution.req,
           row.execution.phase \in {"creating", "created"}
              => ops[o].row.execution.phase \in {"creating", "created"},
           row.payment = ops[o].row.payment,
           NEW x, CallOK(o, x, net), ops' = [ops EXCEPT ![o] = x], x.pc \notin {"idle", "sign"},
           x.pc # "done" => x.tab = ops[o].tab /\ x.mount = ops[o].mount,
           UNCHANGED <<cache, visit, requests, sched, final, net, changes, asked, verified,
                       others>>
    PROVE  PageInv'
<1>0. Typed /\ ops[o].pc \notin {"idle", "done"} /\ Grows(net, net') /\ Grows(net', net)
  BY DEF PageInv, Waiting, Grows
<1>1. Typed' /\ RowsOK' /\ Called' /\ Created' /\ Scheduled' /\ Followed'
  <2>1. asked' \in [Ops -> Nat] /\ verified' \in Nat /\ net' \subseteq Messages
    BY <1>0 DEF Typed
  <2> QED
    BY <1>0, <2>1, WellSaved
<1>2. /\ journal' = row
      /\ ~late' => ~late /\ journal = ops[o].row
  <2>1. ops[o].row = ops[o].read
    BY CallParts DEF CallOK
  <2> QED
    BY <1>0, <2>1, Replaced DEF RowOK
<1>3. Asked' /\ OneOpenRequest'
  BY <1>0, <1>1, <1>2, SameRequest DEF Settled
<1>4. Paying' /\ Verifying'
  BY <1>2, SamePayment
<1> QED
  BY <1>1, <1>3, <1>4 DEF PageInv

\* The replies to calls.
LEMMA ReplySteps ==
    ASSUME PageInv, RecurringAssumption, NEW o \in Ops,
           CreateReply(o) \/ ExecuteReply(o) \/ PaymentReply(o)
    PROVE  PageInv'
<1> DEFINE old == ops[o].row
<1>0. /\ ops[o].pc \in Waiting /\ ops[o].pc \notin {"idle", "done"}
      /\ old.known /\ RowOK(old, net) /\ ops[o].tab \in Tabs
      /\ UNCHANGED <<cache, visit, requests, sched, final, net, changes, asked, verified, others>>
  <2>1. ops[o].pc \in Waiting /\ ops[o].pc \notin {"idle", "done"}
    BY DEF CreateReply, ExecuteReply, PaymentReply, Waiting
  <2> QED
    BY <2>1, CallParts DEF CallOK, CreateReply, ExecuteReply, PaymentReply, ledger, history
<1>1. CASE CreateReply(o)
  <2> DEFINE row == Phase(old, "created")
  <2>1. old.execution # NoExecution /\ old.execution.phase = "creating"
    BY <1>1, CallParts DEF CreateReply, CallOK
  <2>2. /\ RowOK(row, net) /\ row.known /\ row.payment = old.payment
        /\ row.execution.req = old.execution.req
    BY <1>0, <2>1, Phased
  <2>3. persist(o, row) /\ (RetryFrom(o, row) \/ End(o))
    BY <1>1 DEF CreateReply
  <2> HIDE DEF row
  <2>4. PICK x : /\ ops' = [ops EXCEPT ![o] = x] /\ CallOK(o, x, net)
                 /\ x.pc \in {"payVerify", "verify", "done"}
                 /\ x.pc # "done" => x.tab = ops[o].tab /\ x.mount = ops[o].mount
    <3>1. CASE End(o)
      BY <3>1, EndsHere
    <3>2. CASE RetryFrom(o, row)
      <4> DEFINE pc == IF row.payment # {} THEN "payVerify" ELSE "verify"
      <4>1. pc \in Waiting \ {"payRead"} /\ pc \in {"payVerify", "verify"} /\ Goto(o, pc, row)
        BY <3>2 DEF RetryFrom, Waiting
      <4> HIDE DEF pc
      <4> QED
        BY <1>0, <2>2, <4>1, GoesOn
    <3> QED
      BY <2>3, <3>1, <3>2
  <2> QED
    BY <1>0, <2>1, <2>2, <2>3, <2>4, SameSaved
<1>2. ASSUME NEW pc \in {"confirm", "payVerify"}, persist(o, old), Goto(o, pc, old) \/ End(o)
      PROVE  PageInv'
  <2>1. PICK x : /\ ops' = [ops EXCEPT ![o] = x] /\ CallOK(o, x, net)
                 /\ x.pc \in {pc, "done"}
                 /\ x.pc # "done" => x.tab = ops[o].tab /\ x.mount = ops[o].mount
    <3>1. CASE End(o)
      BY <3>1, EndsHere
    <3>2. CASE Goto(o, pc, old)
      <4>1. pc \in Waiting \ {"payRead"}
        BY DEF Waiting
      <4> HIDE DEF old
      <4> QED
        BY <1>0, <1>2, <3>2, <4>1, GoesOn
    <3> QED
      BY <1>2, <3>1, <3>2
  <2> QED
    BY <1>0, <1>2, <2>1, SameSaved
<1> QED
  BY <1>1, <1>2 DEF ExecuteReply, PaymentReply

\* A request that is over is cleared, and nothing else was open.
LEMMA VerifiedStep ==
    ASSUME PageInv, RecurringAssumption, NEW o \in Ops, Verified(o)
    PROVE  PageInv'
<1> DEFINE old == ops[o].row
           row == Resolved(old)
<1>0. /\ ops[o].pc \in {"verify", "confirm"} /\ ops[o].pc \notin {"idle", "done"}
      /\ Typed /\ old.known /\ RowOK(old, net) /\ old = ops[o].read /\ ops[o].tab \in Tabs
      /\ UNCHANGED <<cache, visit, requests, sched, final, net, changes, asked, verified, others>>
  <2>1. ops[o].pc \in {"verify", "confirm"} /\ ops[o].pc \notin {"idle", "done"}
    BY DEF Verified
  <2> QED
    BY <2>1, CallParts DEF CallOK, Verified, ledger, history, Waiting, PageInv
<1>1. CASE Settled(old.execution.req) /\ persist(o, row) /\ Goto(o, "refetch", row)
  <2>1. RowOK(row, net) /\ row.known /\ row.execution = NoExecution /\ row.payment = old.payment
    BY <1>0, Cleared
  <2> HIDE DEF row
  <2>2. PICK x : /\ ops' = [ops EXCEPT ![o] = x] /\ CallOK(o, x, net)
                 /\ x.pc = "refetch" /\ x.tab = ops[o].tab /\ x.mount = ops[o].mount
    <3>1. "refetch" \in Waiting \ {"payRead"}
      BY DEF Waiting
    <3> QED
      BY <1>0, <1>1, <2>1, <3>1, GoesOn
  <2>3. Typed' /\ RowsOK' /\ Called' /\ Created' /\ Scheduled' /\ Followed'
    <3>1. asked' \in [Ops -> Nat] /\ verified' \in Nat /\ net' \subseteq Messages
      BY <1>0 DEF Typed
    <3> QED
      BY <1>0, <1>1, <2>1, <2>2, <3>1, WellSaved
  <2>4. journal' = row /\ (~late' => ~late /\ journal = old)
    BY <1>0, <1>1, <2>1, Replaced DEF RowOK
  <2>5. Paying' /\ Verifying'
    BY <1>0, <2>1, <2>4, SamePayment
  <2>6. Asked'
    BY <1>0, <2>1, <2>4 DEF PageInv, Asked, NoExecution
  <2>7. OneOpenRequest'
    BY <1>0, <1>1, <2>4 DEF PageInv, OneOpenRequest, Settled
  <2> QED
    BY <2>3, <2>5, <2>6, <2>7 DEF PageInv
<1>2. CASE Goto(o, "review", old) /\ UNCHANGED <<journal, view, late>>
  <2>1. PICK x : /\ ops' = [ops EXCEPT ![o] = x] /\ CallOK(o, x, net)
                 /\ x.pc = "review" /\ x.tab = ops[o].tab /\ x.mount = ops[o].mount
    <3>1. "review" \in Waiting \ {"payRead"}
      BY DEF Waiting
    <3> HIDE DEF old
    <3> QED
      BY <1>0, <1>2, <3>1, GoesOn
  <2>2. x.mount <= visit[x.tab].mount
    BY <1>0, <2>1 DEF PageInv, Followed
  <2>3. cache' \in [Tabs -> Schedules] /\ \A t \in Tabs : cache'[t] = cache[t]
    BY <1>0 DEF Typed
  <2> QED
    BY <1>0, <1>2, <2>1, <2>2, <2>3, CallMoves
<1>3. CASE End(o) /\ UNCHANGED <<journal, view, late>>
  <2>1. cache' \in [Tabs -> Schedules] /\ \A t \in Tabs : cache'[t] = cache[t]
    BY <1>0 DEF Typed
  <2> QED
    BY <1>0, <1>3, <2>1, Ends
<1> QED
  BY <1>1, <1>2, <1>3 DEF Verified

\* An execution is asked for, the saved request being created and approved.
LEMMA ReviewStep ==
    ASSUME PageInv, RecurringAssumption, NEW o \in Ops, Review(o)
    PROVE  PageInv'
<1> DEFINE old == ops[o].row
           e == old.execution
<1>0. /\ ops[o].pc = "review" /\ ops[o].pc \notin {"idle", "done"} /\ ops[o].pc \in Waiting
      /\ Typed /\ old.known /\ RowOK(old, net) /\ old = ops[o].read /\ ops[o].tab \in Tabs
      /\ UNCHANGED <<cache, visit, requests, sched, final, changes, verified, others>>
  <2>1. ops[o].pc = "review" /\ ops[o].pc \notin {"idle", "done"} /\ ops[o].pc \in Waiting
    BY DEF Review, Waiting
  <2> QED
    BY <2>1, CallParts DEF CallOK, Review, ledger, PageInv
<1>1. CASE End(o) /\ UNCHANGED <<journal, view, late, net, asked>>
  <2>1. cache' \in [Tabs -> Schedules] /\ \A t \in Tabs : cache'[t] = cache[t]
    BY <1>0 DEF Typed
  <2> QED
    BY <1>0, <1>1, <2>1, Ends
<1>2. CASE /\ e.phase = "creating" /\ persist(o, Phase(old, "created")) /\ End(o)
           /\ UNCHANGED <<net, asked>>
  <2> DEFINE row == Phase(old, "created")
  <2>1. e # NoExecution
    BY <1>2 DEF NoExecution
  <2>2. /\ RowOK(row, net) /\ row.known /\ row.payment = old.payment
        /\ row.execution.req = old.execution.req
    BY <1>0, <2>1, Phased
  <2> HIDE DEF row
  <2>3. PICK x : ops' = [ops EXCEPT ![o] = x] /\ CallOK(o, x, net) /\ x.pc = "done"
    BY <1>2, EndsHere
  <2>4. persist(o, row)
    BY <1>2 DEF row
  <2> QED
    BY <1>0, <1>2, <2>2, <2>3, <2>4, SameSaved
<1> DEFINE row == Phase(old, "attempted")
           call == [op |-> o, req |-> e.req, what |-> "execute", landed |-> FALSE,
                    execution |-> e]
<1>3. CASE /\ e.phase = "created" /\ persist(o, row) /\ net' = net \cup {call}
           /\ asked' = [asked EXCEPT ![e.req] = @ + 1] /\ Goto(o, "execute", row)
  <2>1. e # NoExecution
    BY <1>3 DEF NoExecution
  <2>2. /\ RowOK(row, net) /\ row.known /\ row.payment = old.payment
        /\ row.execution.req = e.req /\ row.execution.phase = "attempted"
    BY <1>0, <2>1, Phased
  <2>3. e \in Executions /\ e.req \in Ops
    BY <1>0, <2>1 DEF RowOK, Rows, Executions
  <2>4. call \in Messages /\ call.what = "execute" /\ ~call.landed
    BY <2>3 DEF Messages
  <2>5. \E m \in net : m.what = "create" /\ m.req = e.req
    BY <1>0, <2>1 DEF RowOK
  <2> HIDE DEF row, call
  <2>6. Grows(net, net') /\ Grows(net', net) /\ RowOK(row, net')
    <3>1. Grows(net, net') /\ Grows(net', net)
      BY <1>3, <2>4 DEF Grows
    <3> QED
      BY <2>2, <3>1, RowStays
  <2>7. PICK x : /\ ops' = [ops EXCEPT ![o] = x] /\ CallOK(o, x, net')
                 /\ x.pc = "execute" /\ x.tab = ops[o].tab /\ x.mount = ops[o].mount
    <3>1. "execute" \in Waiting \ {"payRead"}
      BY DEF Waiting
    <3> QED
      BY <1>0, <1>3, <2>2, <2>6, <3>1, GoesOn
  <2>8. Typed' /\ RowsOK' /\ Called' /\ Created' /\ Scheduled' /\ Followed'
    <3>1. asked' \in [Ops -> Nat] /\ verified' \in Nat
      BY <1>0, <1>3, <2>3 DEF Typed
    <3>2. net \subseteq net' /\ net' \subseteq Messages /\ \A m \in net' \ net : m.what = "execute"
      BY <1>0, <1>3, <2>4 DEF Typed
    <3> QED
      BY <1>0, <1>3, <2>2, <2>6, <2>7, <3>1, <3>2, WellSaved
  <2>9. journal' = row /\ (~late' => ~late /\ journal = old)
    BY <1>0, <1>3, <2>2, Replaced DEF RowOK
  <2>10. Paying' /\ Verifying'
    <3>1. \A m \in net' : MayLand(m) => m \in net
      BY <1>3, <2>4 DEF MayLand
    <3> QED
      BY <1>0, <2>2, <2>9, <3>1, SamePayment
  <2>11. Asked'
    <3>1. \A q \in Ops : asked'[q] = IF q = e.req THEN asked[q] + 1 ELSE asked[q]
      BY <1>0, <1>3 DEF Typed
    <3>2. \A q \in Ops : asked'[q] > 0 => \E m \in net' : m.what = "create" /\ m.req = q
      BY <1>3, <2>5, <3>1 DEF PageInv, Asked
    <3>3. ~late' => \A q \in Ops : asked'[q] <= 1
      <4> SUFFICES ASSUME ~late', NEW q \in Ops PROVE asked'[q] <= 1
        OBVIOUS
      <4>1. asked[q] <= 1 /\ asked[q] \in Nat /\ asked[e.req] = 0
        BY <1>0, <1>3, <2>9 DEF PageInv, Asked, Typed
      <4> QED
        BY <3>1, <4>1
    <3> QED
      BY <2>2, <2>9, <3>2, <3>3 DEF Asked
  <2>12. OneOpenRequest'
    <3> SUFFICES ASSUME ~late', NEW m \in net', m.what = "create", ~Settled(m.req)'
                 PROVE  journal'.execution.req = m.req
      BY DEF OneOpenRequest
    <3>1. m \in net /\ ~Settled(m.req)
      BY <1>0, <1>3, <2>4 DEF Settled
    <3> QED
      BY <2>2, <2>9, <3>1 DEF PageInv, OneOpenRequest
  <2> QED
    BY <2>8, <2>10, <2>11, <2>12 DEF PageInv
<1> HIDE DEF row, call
<1>4. \/ End(o) /\ UNCHANGED <<journal, view, late, net, asked>>
      \/ /\ e.phase = "creating" /\ persist(o, Phase(old, "created")) /\ End(o)
         /\ UNCHANGED <<net, asked>>
      \/ /\ e.phase = "created" /\ persist(o, row) /\ net' = net \cup {call}
         /\ asked' = [asked EXCEPT ![e.req] = @ + 1] /\ Goto(o, "execute", row)
  BY DEF Review, row, call
<1> QED
  BY <1>1, <1>2, <1>3, <1>4

\* A payment is saved before it is posted; none may land before it.
LEMMA PaymentStep ==
    ASSUME PageInv, RecurringAssumption, NEW o \in Ops, PostPayment(o)
    PROVE  PageInv'
<1> DEFINE old == ops[o].row
           row == [old EXCEPT !.payment = {final.executed}]
           call == [op |-> o, req |-> o, what |-> "pay", landed |-> FALSE,
                    execution |-> NoExecution]
<1>0. /\ ops[o].pc = "payRead" /\ ops[o].pc \notin {"idle", "done"}
      /\ Typed /\ old.known /\ RowOK(old, net) /\ old = ops[o].read /\ ops[o].tab \in Tabs
      /\ old.payment = {}
      /\ UNCHANGED <<cache, visit, requests, sched, final, changes, asked, verified, others>>
  <2>1. ops[o].pc = "payRead" /\ ops[o].pc \notin {"idle", "done"} /\ ops[o].pc \in Waiting
    BY DEF PostPayment, Waiting
  <2> QED
    BY <2>1, CallParts DEF CallOK, PostPayment, ledger, history, PageInv
<1>1. persist(o, row) /\ net' = net \cup {call} /\ Goto(o, "paying", row)
  BY DEF PostPayment
<1>2. /\ final.executed \in 0 .. Total /\ sched.executed \in 0 .. Total
      /\ final.executed \in Nat /\ sched.executed \in Nat
  BY <1>0 DEF Typed, Schedules, RecurringAssumption
<1>3. /\ row \in Rows /\ row.known /\ row.execution = old.execution
      /\ row.payment = {final.executed}
  BY <1>0, <1>2 DEF RowOK, Rows
<1>4. call \in Messages /\ call.what = "pay" /\ ~call.landed
  BY DEF Messages, Executions
<1> HIDE DEF row, call
<1>5. RowOK(row, net)
  BY <1>0, <1>3 DEF RowOK
<1>6. Grows(net, net') /\ Grows(net', net) /\ RowOK(row, net')
  <2>1. Grows(net, net') /\ Grows(net', net)
    BY <1>1, <1>4 DEF Grows
  <2> QED
    BY <1>5, <2>1, RowStays
<1>7. PICK x : /\ ops' = [ops EXCEPT ![o] = x] /\ CallOK(o, x, net')
               /\ x.pc = "paying" /\ x.tab = ops[o].tab /\ x.mount = ops[o].mount
  <2>1. "paying" \in Waiting \ {"payRead"}
    BY DEF Waiting
  <2> QED
    BY <1>0, <1>1, <1>3, <1>6, <2>1, GoesOn
<1>8. Typed' /\ RowsOK' /\ Called' /\ Created' /\ Scheduled' /\ Followed'
  <2>1. asked' \in [Ops -> Nat] /\ verified' \in Nat
    BY <1>0 DEF Typed
  <2>2. net \subseteq net' /\ net' \subseteq Messages /\ \A m \in net' \ net : m.what = "pay"
    BY <1>0, <1>1, <1>4 DEF Typed
  <2> QED
    BY <1>0, <1>1, <1>3, <1>6, <1>7, <2>1, <2>2, WellSaved
<1>9. journal' = row /\ (~late' => ~late /\ journal = old)
  BY <1>0, <1>1, <1>3, Replaced
<1>10. Asked' /\ OneOpenRequest'
  BY <1>0, <1>3, <1>6, <1>8, <1>9, SameRequest DEF Settled
<1>11. Paying'
  <2> SUFFICES ASSUME ~late', ~others'
               PROVE  /\ \A m, n \in net' : MayLand(m) /\ MayLand(n) => m = n
                      /\ \A m \in net' : MayLand(m)
                           => \E d \in journal'.payment : sched'.executed = d
                      /\ journal'.payment = {} => final'.executed = sched'.executed
                      /\ \A d \in journal'.payment : sched'.executed \in {d, d + 1}
    BY DEF Paying, MayLand
  <2>1. final.executed = sched.executed /\ \A m \in net : ~MayLand(m)
    BY <1>0, <1>9 DEF PageInv, Paying
  <2>2. \A m \in net' : MayLand(m) => m = call
    BY <1>1, <2>1
  <2> QED
    BY <1>0, <1>2, <1>3, <1>9, <2>1, <2>2
<1>12. Verifying'
  BY <1>0, <1>3, <1>9 DEF PageInv, Verifying
<1> QED
  BY <1>8, <1>10, <1>11, <1>12 DEF PageInv

\* A payment is cleared once the schedule counts it, and counted as verified.
LEMMA PaymentVerifiedStep ==
    ASSUME PageInv, RecurringAssumption, NEW o \in Ops, VerifyPayment(o)
    PROVE  PageInv'
<1> DEFINE old == ops[o].row
           row == Paid(old)
<1>0. /\ ops[o].pc = "payVerify" /\ ops[o].pc \notin {"idle", "done"}
      /\ Typed /\ old.known /\ RowOK(old, net) /\ old = ops[o].read /\ ops[o].tab \in Tabs
      /\ UNCHANGED <<cache, visit, requests, sched, final, net, changes, asked, others>>
  <2>1. ops[o].pc = "payVerify" /\ ops[o].pc \notin {"idle", "done"} /\ ops[o].pc \in Waiting
    BY DEF VerifyPayment, Waiting
  <2> QED
    BY <2>1, CallParts DEF CallOK, VerifyPayment, ledger, PageInv
<1>1. CASE End(o) /\ UNCHANGED <<journal, view, late, verified>>
  <2>1. cache' \in [Tabs -> Schedules] /\ \A t \in Tabs : cache'[t] = cache[t]
    BY <1>0 DEF Typed
  <2> QED
    BY <1>0, <1>1, <2>1, Ends
<1>2. CASE /\ paymentVerified(old) /\ persist(o, row) /\ Goto(o, "refetch", row)
           /\ verified' = verified + 1
  <2>1. RowOK(row, net) /\ row.known /\ row.execution = old.execution /\ row.payment = {}
    BY <1>0, Cleared
  <2> HIDE DEF row
  <2>2. PICK x : /\ ops' = [ops EXCEPT ![o] = x] /\ CallOK(o, x, net)
                 /\ x.pc = "refetch" /\ x.tab = ops[o].tab /\ x.mount = ops[o].mount
    <3>1. "refetch" \in Waiting \ {"payRead"}
      BY DEF Waiting
    <3> QED
      BY <1>0, <1>2, <2>1, <3>1, GoesOn
  <2>3. Typed' /\ RowsOK' /\ Called' /\ Created' /\ Scheduled' /\ Followed'
    <3>1. asked' \in [Ops -> Nat] /\ verified' \in Nat /\ net' \subseteq Messages
      BY <1>0, <1>2 DEF Typed
    <3> QED
      BY <1>0, <1>2, <2>1, <2>2, <3>1, WellSaved
  <2>4. journal' = row /\ (~late' => ~late /\ journal = old)
    BY <1>0, <1>2, <2>1, Replaced DEF RowOK
  <2>5. Asked' /\ OneOpenRequest'
    <3>1. Grows(net, net') /\ Grows(net', net)
      BY <1>0 DEF Grows
    <3> QED
      BY <1>0, <2>1, <2>3, <2>4, <3>1, SameRequest DEF Settled
  <2>6. PICK e \in old.payment : final.executed = e + 1
    BY <1>2 DEF paymentVerified
  <2>7. /\ e \in Nat /\ final.executed \in Nat /\ sched.executed \in Nat
        /\ final.executed <= sched.executed /\ verified \in Nat
    BY <1>0 DEF RowOK, Rows, Typed, Schedules, RecurringAssumption, PageInv, Scheduled
  <2>8. Paying'
    <3> SUFFICES ASSUME ~late', ~others'
                 PROVE  /\ \A m, n \in net' : MayLand(m) /\ MayLand(n) => m = n
                        /\ \A m \in net' : MayLand(m)
                             => \E d \in journal'.payment : sched'.executed = d
                        /\ journal'.payment = {} => final'.executed = sched'.executed
                        /\ \A d \in journal'.payment : sched'.executed \in {d, d + 1}
      BY DEF Paying, MayLand
    <3>1. Paying /\ ~late /\ ~others /\ journal = old
      BY <1>0, <2>4 DEF PageInv
    <3>2. sched.executed = e + 1
      BY <2>6, <2>7, <3>1 DEF Paying
    <3>3. \A d \in journal.payment : d = e
      BY <1>0, <2>6, <3>1 DEF RowOK
    <3>4. \A m \in net : ~MayLand(m)
      BY <2>7, <3>1, <3>2, <3>3 DEF Paying
    <3> QED
      BY <1>0, <2>1, <2>4, <2>6, <3>2, <3>4
  <2>9. Verifying'
    <3>1. ~late' => verified <= e
      BY <2>4, <2>6 DEF PageInv, Verifying
    <3> QED
      BY <1>0, <1>2, <2>1, <2>4, <2>6, <2>7, <3>1 DEF Verifying
  <2> QED
    BY <2>3, <2>5, <2>8, <2>9 DEF PageInv
<1> QED
  BY <1>0, <1>1, <1>2 DEF VerifyPayment

\* A signed request is saved and posted, no other being open.
LEMMA CreationStep ==
    ASSUME PageInv, RecurringAssumption, NEW o \in Ops, PostCreate(o)
    PROVE  PageInv'
<1> DEFINE row == ops[o].row
           call == [op |-> o, req |-> o, what |-> "create", landed |-> FALSE,
                    execution |-> row.execution]
<1>0. /\ ops[o].pc = "sign" /\ ops[o].pc \notin {"idle", "done"}
      /\ Typed /\ Created /\ row \in Rows /\ row.known /\ ops[o].tab \in Tabs
      /\ ops[o].read.execution = NoExecution /\ RowOK(ops[o].read, net)
      /\ row.execution # NoExecution /\ row.execution.req = o
      /\ row.execution.phase = "creating" /\ row.payment = ops[o].read.payment
      /\ UNCHANGED <<cache, visit, requests, sched, final, changes, asked, verified, others>>
  <2>1. ops[o].pc = "sign" /\ ops[o].pc \notin {"idle", "done"}
    BY DEF PostCreate
  <2>2. row \in Rows
    BY CallParts DEF Calls
  <2> QED
    BY <2>1, <2>2, CallParts DEF CallOK, PostCreate, ledger, history, PageInv
<1>1. persist(o, row) /\ net' = net \cup {call} /\ Goto(o, "create", row)
  BY DEF PostCreate
<1>2. call \in Messages /\ call.what = "create" /\ call.op = o /\ call.req = o
  BY <1>0 DEF Messages, Rows
<1> HIDE DEF row, call
<1>3. Grows(net, net')
  BY <1>1 DEF Grows
<1>4. RowOK(row, net')
  BY <1>0, <1>1, <1>2 DEF RowOK
<1>5. PICK x : /\ ops' = [ops EXCEPT ![o] = x] /\ CallOK(o, x, net')
               /\ x.pc = "create" /\ x.tab = ops[o].tab /\ x.mount = ops[o].mount
  <2>1. "create" \in Waiting \ {"payRead"}
    BY DEF Waiting
  <2> QED
    BY <1>0, <1>1, <1>4, <2>1, GoesOn
<1>6. Typed' /\ RowsOK' /\ Called' /\ Created' /\ Scheduled' /\ Followed'
  <2>1. asked' \in [Ops -> Nat] /\ verified' \in Nat
    BY <1>0 DEF Typed
  <2>2. net \subseteq net' /\ net' \subseteq Messages /\ \A m \in net' \ net : m = call
    BY <1>0, <1>1, <1>2 DEF Typed
  <2> QED
    BY <1>0, <1>1, <1>2, <1>4, <1>5, <2>1, <2>2, WellSaved
<1>7. journal' = row /\ (~late' => ~late /\ journal = ops[o].read)
  BY <1>0, <1>1, Replaced
<1>8. Paying' /\ Verifying'
  <2>1. \A m \in net' : MayLand(m) => m \in net
    BY <1>1, <1>2 DEF MayLand
  <2> QED
    BY <1>0, <1>7, <2>1, SamePayment
<1>9. asked[o] = 0
  <2>1. asked[o] \in Nat
    BY <1>0 DEF Typed
  <2>2. ~(\E m \in net : m.what = "create" /\ m.req = o)
    BY <1>0 DEF Created
  <2> QED
    BY <2>1, <2>2 DEF PageInv, Asked
<1>10. Asked'
  <2>1. \A q \in Ops : asked'[q] > 0 => \E m \in net' : m.what = "create" /\ m.req = q
    BY <1>0, <1>1 DEF PageInv, Asked
  <2> QED
    BY <1>0, <1>7, <1>9, <2>1 DEF PageInv, Asked
<1>11. OneOpenRequest'
  <2> SUFFICES ASSUME ~late', NEW m \in net', m.what = "create", ~Settled(m.req)'
               PROVE  journal'.execution.req = m.req
    BY DEF OneOpenRequest
  <2>1. CASE m = call
    BY <1>0, <1>2, <1>7, <2>1
  <2>2. CASE m \in net
    <3>1. m.req \in Ops /\ m.req # 0
      BY <1>0, <2>2, RecurringAssumption DEF Typed, Messages, RecurringAssumption
    <3>2. journal.execution.req = m.req
      BY <1>0, <1>7, <2>2 DEF PageInv, OneOpenRequest, Settled
    <3> QED
      BY <1>0, <1>7, <3>1, <3>2 DEF NoExecution
  <2> QED
    BY <1>1, <2>1, <2>2
<1> QED
  BY <1>6, <1>8, <1>10, <1>11 DEF PageInv

-------------------------------------------------------------------------------
(* The tab *)

\* A step of a tab that saves nothing.
LEMMA TabMoves ==
    ASSUME PageInv, Typed', Called', Followed',
           \A t \in Tabs : view'[t] \in {view[t], journal},
           \A o \in Ops : ops[o].pc \notin {"idle", "sign"} => ops'[o].pc \notin {"idle", "sign"},
           UNCHANGED <<journal, requests, sched, final, net, asked, verified, others, late>>
    PROVE  PageInv'
<1>1. RowsOK' /\ Scheduled'
  BY DEF PageInv, RowsOK, Scheduled
<1>2. Created'
  <2>1. \A m \in net : m.op \in Ops
    BY DEF PageInv, Typed, Messages
  <2> QED
    BY <2>1 DEF PageInv, Created
<1>3. Asked' /\ OneOpenRequest'
  <2>1. Grows(net, net') /\ Grows(net', net)
    BY DEF Grows
  <2> QED
    BY <2>1, SameRequest DEF Settled
<1>4. Paying' /\ Verifying'
  BY SamePayment
<1> QED
  BY <1>1, <1>2, <1>3, <1>4 DEF PageInv

\* A schedule that is over is taken off the page.
LEMMA RemoveStep ==
    ASSUME PageInv, NEW t \in Tabs, Remove(t)
    PROVE  PageInv'
<1>0. /\ Typed /\ RowsOK /\ Called /\ Created /\ Scheduled /\ Followed
      /\ journal.execution = NoExecution /\ journal.payment = {}
      /\ journal' = NoRow /\ view' = [view EXCEPT ![t] = NoRow]
      /\ cache[t].status \in Gone /\ ~InFlight(t)
      /\ UNCHANGED <<cache, visit, ops, requests, sched, final, net, changes, asked, verified,
                     others, late>>
  BY DEF PageInv, Remove, ledger, history, Gone
<1>1. NoRow \in Rows /\ RowOK(NoRow, net)
  BY DEF NoRow, Rows, Executions, RowOK
<1>2. Typed'
  BY <1>0, <1>1 DEF Typed
<1>3. RowsOK' /\ Called' /\ Created' /\ Scheduled'
  <2>1. \A u \in Tabs : view'[u] \in {view[u], NoRow}
    BY <1>0 DEF Typed
  <2>2. RowsOK'
    BY <1>0, <1>1, <2>1 DEF RowsOK
  <2>3. Called'
    BY <1>0 DEF Called
  <2> QED
    BY <1>0, <2>2, <2>3 DEF Created, Scheduled
<1>4. Followed'
  <2>1. \A u \in Tabs : u # t => view'[u] = view[u]
    BY <1>0 DEF Typed
  <2>2. \A u \in Tabs : cache'[u].status = "active" => view'[u].known
    BY <1>0, <2>1 DEF Followed, Gone
  <2>3. final'.status \in Gone /\ \A u \in Tabs :
           cache'[u].status \in Gone => final'.status = cache'[u].status
    BY <1>0 DEF Followed
  <2>4. ASSUME NEW o \in Ops
        PROVE  /\ ops'[o].pc \notin {"idle", "done"} => ops'[o].mount <= visit'[ops'[o].tab].mount
               /\ ops'[o].pc = "refetch" /\ Mounted(o)' => view'[ops'[o].tab].known
    <3>1. ops[o].pc = "refetch" /\ Mounted(o) => ops[o].tab \in Tabs /\ ops[o].tab # t
      BY <1>0, CallParts DEF InFlight
    <3> QED
      BY <1>0, <2>1, <3>1 DEF Followed, Mounted
  <2> QED
    BY <2>2, <2>3, <2>4 DEF Followed
<1>5. journal'.execution = NoExecution /\ journal'.payment = {}
  BY <1>0 DEF NoRow
<1>6. Asked' /\ OneOpenRequest'
  <2>1. Grows(net, net') /\ Grows(net', net)
    BY <1>0 DEF Grows
  <2> QED
    BY <1>0, <1>2, <1>5, <2>1, SameRequest DEF Settled
<1>7. Paying' /\ Verifying'
  BY <1>0, <1>5, SamePayment
<1> QED
  BY <1>2, <1>3, <1>4, <1>6, <1>7 DEF PageInv

\* The interval refetch.
LEMMA RefetchStep ==
    ASSUME PageInv, NEW t \in Tabs, Refetch(t)
    PROVE  PageInv'
<1>0. /\ Typed /\ Called /\ Followed /\ view[t].known
      /\ cache' = [cache EXCEPT ![t] = final]
      /\ UNCHANGED <<journal, view, visit, ops, requests, sched, final, net, changes, asked,
                     verified, others, late>>
  BY DEF PageInv, Refetch, Refetched, ledger, history
<1>1. /\ cache' \in [Tabs -> Schedules]
      /\ \A u \in Tabs : cache'[u] = cache[u] \/ (cache'[u] = final /\ view[u].known)
  BY <1>0 DEF Typed
<1>2. Typed' /\ Called'
  BY <1>0, <1>1 DEF Typed, Called
<1>3. Followed'
  <2>1. /\ \A u \in Tabs : cache'[u].status \in Gone => final'.status = cache'[u].status
        /\ \A u \in Tabs : cache'[u].status = "active" => view'[u].known
    BY <1>0, <1>1 DEF Followed
  <2> QED
    BY <1>0, <2>1 DEF Followed, Mounted
<1> QED
  BY <1>0, <1>2, <1>3, TabMoves

\* The account is switched; a tab is left and opened again, or reloaded.
LEMMA VisitSteps ==
    ASSUME PageInv, RecurringAssumption, NEW t \in Tabs,
           SwitchAccount(t) \/ Remount(t) \/ Reload(t)
    PROVE  PageInv'
<1> DEFINE done == [Idle EXCEPT !.pc = "done"]
<1>0. Typed /\ RowsOK /\ Called /\ Followed
  BY DEF PageInv
<1>1. PICK m \in {0, 1} :
        /\ UNCHANGED <<journal, requests, sched, final, net, asked, verified, others, late>>
        /\ changes' = changes + 1 /\ changes' \in 0 .. MaxChanges
        /\ visit' = [visit EXCEPT ![t].gen = @ + 1, ![t].mount = @ + m]
        /\ m = 0 => ops' = ops /\ UNCHANGED <<view, cache>>
        /\ m = 1 => /\ view' = [view EXCEPT ![t] = journal] /\ cache' = [cache EXCEPT ![t] = final]
                    /\ \/ ops' = ops
                       \/ ops' = [o \in Ops |-> IF ops[o].tab = t THEN done ELSE ops[o]]
  BY <1>0 DEF SwitchAccount, Remount, Reload, Refetched, Moved, ledger, history, Typed,
              RecurringAssumption
<1>2. \A o \in Ops : done.pc = "done" /\ CallOK(o, done, net)
  BY Ended
<1> HIDE DEF done
<1>3. /\ DOMAIN ops' = Ops
      /\ \A o \in Ops : ops'[o] = ops[o] \/ ops'[o] = done
  BY <1>0, <1>1 DEF Typed
<1>4. Called'
  <2>1. \A o \in Ops : CallOK(o, ops'[o], net')
    BY <1>0, <1>1, <1>2, <1>3 DEF Called
  <2> QED
    BY <2>1 DEF Called
<1>5. \A u \in Tabs : visit[u] \in [gen : 0 .. changes, mount : 0 .. changes]
  BY <1>0 DEF Typed
<1>6. changes \in Nat /\ changes' = changes + 1
  BY <1>0, <1>1 DEF Typed, RecurringAssumption
<1>7. \A u \in Tabs : /\ visit'[u] \in [gen : 0 .. changes', mount : 0 .. changes']
                      /\ u # t => visit'[u] = visit[u]
                      /\ u = t => visit'[u].mount = visit[u].mount + m
                      /\ visit[u].mount \in Nat
  <2> TAKE u \in Tabs
  <2>1. visit[u].gen \in 0 .. changes /\ visit[u].mount \in 0 .. changes
    BY <1>5
  <2>2. /\ visit[u].gen \in 0 .. changes' /\ visit[u].mount \in 0 .. changes'
        /\ visit[u].gen + 1 \in 0 .. changes' /\ visit[u].mount + m \in 0 .. changes'
        /\ visit[u].mount \in Nat
    BY <1>6, <2>1
  <2>3. CASE u = t
    <3>1. visit'[u] = [visit[u] EXCEPT !.gen = @ + 1, !.mount = @ + m]
      BY <1>0, <1>1, <2>3 DEF Typed
    <3> QED
      BY <1>5, <2>2, <2>3, <3>1
  <2>4. CASE u # t
    <3>1. visit'[u] = visit[u]
      BY <1>0, <1>1, <2>4 DEF Typed
    <3> QED
      BY <1>5, <2>2, <2>4, <3>1
  <2> QED
    BY <2>3, <2>4
<1>8. Typed'
  <2>1. DOMAIN visit' = Tabs /\ visit' = [u \in Tabs |-> visit'[u]]
    BY <1>0, <1>1 DEF Typed
  <2>2. visit' \in [Tabs -> [gen : 0 .. changes', mount : 0 .. changes']]
    BY <1>7, <2>1
  <2>3. view' \in [Tabs -> Rows] /\ cache' \in [Tabs -> Schedules]
    BY <1>0, <1>1 DEF Typed
  <2> QED
    BY <1>0, <1>1, <1>3, <2>2, <2>3 DEF Typed
<1>9. /\ \A u \in Tabs : u # t => view'[u] = view[u] /\ cache'[u] = cache[u]
      /\ m = 0 => view'[t] = view[t] /\ cache'[t] = cache[t]
      /\ m = 1 => view'[t] = journal /\ cache'[t] = final
  BY <1>0, <1>1 DEF Typed
<1>10. Followed'
  <2>1. \A u \in Tabs : cache'[u].status \in Gone => final'.status = cache'[u].status
    BY <1>0, <1>1, <1>9 DEF Followed
  <2>2. final.status = "active" => journal.known
    BY <1>0 DEF Followed, Gone
  <2>3. \A u \in Tabs : cache'[u].status = "active" => view'[u].known
    BY <1>0, <1>9, <2>2 DEF Followed
  <2>4. ASSUME NEW o \in Ops
        PROVE  /\ ops'[o].pc \notin {"idle", "done"} => ops'[o].mount <= visit'[ops'[o].tab].mount
               /\ ops'[o].pc = "refetch" /\ Mounted(o)' => view'[ops'[o].tab].known
    <3>1. CASE ops'[o] = done
      BY <1>2, <3>1
    <3>2. CASE ops'[o] = ops[o] /\ ops[o].pc \notin {"idle", "done"}
      <4>1. /\ ops[o].tab \in Tabs /\ ops[o].mount \in 0 .. MaxChanges
            /\ ops[o].mount <= visit[ops[o].tab].mount
        BY <1>0, <3>2, CallParts DEF Followed, Calls
      <4>2. ops[o].mount \in Nat
        BY <4>1 DEF RecurringAssumption
      <4>3. ops[o].mount <= visit'[ops[o].tab].mount
        BY <1>7, <4>1, <4>2
      <4>4. ops[o].tab = t /\ m = 1 => ops[o].mount # visit'[t].mount
        BY <1>7, <4>1, <4>2
      <4>5. ASSUME ops[o].pc = "refetch", ops[o].mount = visit'[ops[o].tab].mount
            PROVE  view'[ops[o].tab].known
        <5>1. visit'[ops[o].tab].mount = visit[ops[o].tab].mount
              /\ view'[ops[o].tab] = view[ops[o].tab]
          BY <1>7, <1>9, <4>1, <4>4, <4>5
        <5> QED
          BY <1>0, <4>5, <5>1 DEF Followed, Mounted
      <4> QED
        BY <3>2, <4>3, <4>5 DEF Mounted
    <3>3. CASE ops'[o] = ops[o] /\ ops[o].pc \in {"idle", "done"}
      BY <3>3
    <3> QED
      BY <1>3, <3>1, <3>2, <3>3
  <2> QED
    BY <1>0, <1>1, <2>1, <2>3, <2>4 DEF Followed
<1>11. /\ \A u \in Tabs : view'[u] \in {view[u], journal}
       /\ \A o \in Ops : ops[o].pc \notin {"idle", "sign"} => ops'[o].pc \notin {"idle", "sign"}
  BY <1>2, <1>3, <1>9
<1> QED
  BY <1>1, <1>4, <1>8, <1>10, <1>11, TabMoves

-------------------------------------------------------------------------------
(* The chain *)

\* What a step of the chain changes: requests that are over stay over, calls
\* land, and the schedule counts payments up to Total.
LEMMA ChainMoves ==
    ASSUME PageInv, RecurringAssumption,
           requests' \in [Ops -> {"none", "Active", "Approved", "Executed", "Cancelled"}],
           \A q \in Ops : Settled(q) => Settled(q)',
           sched' \in Schedules, final' \in Schedules, others' \in BOOLEAN,
           net' \subseteq Messages,
           \A m \in net : \E n \in net' : n.what = m.what /\ n.req = m.req /\ n.op = m.op,
           \A n \in net' : \E m \in net : n.what = m.what /\ n.req = m.req /\ n.op = m.op,
           Scheduled', Paying', final'.executed >= final.executed,
           \/ final'.status = final.status
           \/ final'.status = sched.status,
           net' # {} \/ sched'.status # "none" => net # {} \/ sched.status # "none",
           UNCHANGED <<journal, view, cache, visit, ops, changes, asked, verified, late>>
    PROVE  PageInv'
<1>0. /\ Typed /\ RowsOK /\ Called /\ Created /\ Scheduled /\ Followed
      /\ Grows(net, net') /\ Grows(net', net)
  BY DEF PageInv, Grows
<1>1. Typed'
  BY <1>0 DEF Typed
<1>2. RowsOK'
  <2>1. RowOK(journal, net') /\ \A t \in Tabs : RowOK(view[t], net')
    BY <1>0, RowStays DEF RowsOK
  <2> QED
    BY <2>1 DEF RowsOK
<1>3. Called'
  <2>1. \A o \in Ops : CallOK(o, ops[o], net')
    BY <1>0, CallStays DEF Called
  <2> QED
    BY <2>1 DEF Called
<1>4. Created'
  BY <1>0 DEF Created
<1>5. Asked' /\ OneOpenRequest'
  BY <1>0, <1>1, SameRequest
<1>6. Followed'
  <2>1. final.status \in Gone => final'.status = final.status
    BY <1>0 DEF Scheduled
  <2>2. \A t \in Tabs : cache'[t].status \in Gone => final'.status = cache'[t].status
    BY <1>0, <2>1 DEF Followed
  <2>3. \/ journal'.known
        \/ final'.status \in Gone
        \/ net' = {} /\ sched'.status = "none" /\ final'.status = "none"
    BY <1>0, <2>1 DEF Followed
  <2> QED
    BY <1>0, <2>2, <2>3 DEF Followed, Mounted
<1>7. Verifying'
  <2>1. final.executed \in Nat /\ final'.executed \in Nat /\ verified \in Nat
    BY <1>0, <1>1 DEF Typed, Schedules, RecurringAssumption
  <2> QED
    BY <2>1 DEF PageInv, Verifying
<1> QED
  BY <1>1, <1>2, <1>3, <1>4, <1>5, <1>6, <1>7 DEF PageInv

\* The two accounts, and what one more payment makes of the schedule.
LEMMA Accounts ==
    ASSUME PageInv, RecurringAssumption
    PROVE  /\ sched \in Schedules /\ final \in Schedules
           /\ sched.executed \in Nat /\ final.executed \in Nat /\ Total \in Nat
           /\ final.executed <= sched.executed /\ sched.executed <= Total
           /\ sched.status = "active" =>
                /\ AfterPayment \in Schedules
                /\ AfterPayment.executed = sched.executed + 1
                /\ AfterPayment.status \in {"active", "complete"}
                /\ AfterPayment.status = "active" => sched.executed + 1 < Total
<1>1. /\ sched \in Schedules /\ final \in Schedules
      /\ sched.executed \in Nat /\ final.executed \in Nat /\ Total \in Nat
      /\ final.executed <= sched.executed /\ sched.executed <= Total
  BY DEF PageInv, Typed, Scheduled, Schedules, RecurringAssumption
<1>2. ASSUME sched.status = "active"
      PROVE  /\ AfterPayment \in Schedules
             /\ AfterPayment.executed = sched.executed + 1
             /\ AfterPayment.status \in {"active", "complete"}
             /\ AfterPayment.status = "active" => sched.executed + 1 < Total
  <2>1. sched.executed < Total
    BY <1>2 DEF PageInv, Scheduled
  <2>2. sched.executed + 1 \in 0 .. Total
    BY <1>1, <2>1
  <2> QED
    BY <1>1, <2>1, <2>2 DEF AfterPayment, Schedules
<1> QED
  BY <1>1, <1>2

\* A call lands.
LEMMA LandStep ==
    ASSUME PageInv, RecurringAssumption, NEW m \in net, Land(m)
    PROVE  PageInv'
<1> DEFINE new == [m EXCEPT !.landed = TRUE]
<1>0. /\ Typed /\ RowsOK /\ Scheduled /\ m \in Messages /\ m.req \in Ops /\ ~m.landed
      /\ net' = (net \ {m}) \cup {new}
      /\ UNCHANGED <<journal, view, cache, visit, ops, final, changes, asked, verified, others,
                     late>>
  BY DEF PageInv, Land, page, history, Typed, Messages
<1>1. /\ new \in Messages /\ new.what = m.what /\ new.req = m.req /\ new.op = m.op
      /\ new.landed
  BY <1>0 DEF Messages
<1> HIDE DEF new
<1>2. /\ net' \subseteq Messages /\ net # {} /\ others' \in BOOLEAN
      /\ \A l \in net : \E n \in net' : n.what = l.what /\ n.req = l.req /\ n.op = l.op
      /\ \A n \in net' : \E l \in net : n.what = l.what /\ n.req = l.req /\ n.op = l.op
      /\ \A n \in net' : MayLand(n) => n \in net /\ n # m
  <2>1. net' \subseteq Messages /\ others' \in BOOLEAN
    BY <1>0, <1>1 DEF Typed
  <2> QED
    BY <1>0, <1>1, <2>1 DEF MayLand
<1>3. /\ requests' \in [Ops -> {"none", "Active", "Approved", "Executed", "Cancelled"}]
      /\ \A q \in Ops : Settled(q) => Settled(q)'
  BY <1>0 DEF Land, Executable, Settled, Typed
<1>4. /\ sched \in Schedules /\ final \in Schedules
      /\ sched.executed \in Nat /\ final.executed \in Nat /\ Total \in Nat
      /\ final.executed <= sched.executed /\ sched.executed <= Total
  BY Accounts
<1>5. CASE UNCHANGED sched
  <2>1. Scheduled'
    BY <1>0, <1>5 DEF Scheduled
  <2>2. Paying'
    BY <1>0, <1>2, <1>5, SamePayment
  <2> QED
    BY <1>0, <1>2, <1>3, <1>4, <1>5, <2>1, <2>2, ChainMoves
<1>6. CASE m.what = "execute" /\ Executable(m.execution) /\ sched' = AfterExecution(m.execution)
  <2>1. /\ sched' \in Schedules /\ sched'.executed = sched.executed
        /\ sched.status \in {"none", "active"}
        /\ sched'.status \in {"active", "revoked"}
        /\ sched'.status = "active" => sched.status = "none"
    <3>1. CASE m.execution.status = "active"
      <4>1. sched.status = "none" /\ sched.executed = 0
        BY <1>0, <1>6, <3>1 DEF Executable, Scheduled
      <4>2. sched' = [status |-> "active", executed |-> 0, due |-> FALSE]
        BY <1>6, <3>1 DEF AfterExecution, NoSchedule
      <4> QED
        BY <1>4, <4>1, <4>2 DEF Schedules
    <3>2. CASE m.execution.status # "active"
      <4>1. sched.status = "active"
        BY <1>6, <3>2 DEF Executable
      <4>2. sched' = [sched EXCEPT !.status = "revoked", !.due = FALSE]
        BY <1>6, <3>2 DEF AfterExecution
      <4> QED
        BY <1>4, <4>1, <4>2 DEF Schedules
    <3> QED
      BY <3>1, <3>2
  <2>2. Scheduled'
    <3>1. sched'.status = "active" => sched'.executed < Total
      BY <1>0, <2>1, RecurringAssumption DEF Scheduled, RecurringAssumption
    <3> QED
      BY <1>0, <2>1, <3>1 DEF Scheduled, Gone
  <2>3. Paying'
    BY <1>0, <1>2, <2>1, SamePayment
  <2> QED
    BY <1>0, <1>2, <1>3, <1>4, <2>1, <2>2, <2>3, ChainMoves
<1>7. CASE m.what = "pay" /\ sched.status = "active" /\ sched' = AfterPayment
  <2>1. /\ sched' \in Schedules /\ sched'.executed = sched.executed + 1
        /\ sched'.status \in {"active", "complete"}
        /\ sched'.status = "active" => sched'.executed < Total
    BY <1>7, Accounts
  <2>2. Scheduled'
    BY <1>0, <1>4, <1>7, <2>1 DEF Scheduled, Gone
  <2>3. Paying'
    <3> SUFFICES ASSUME ~late', ~others'
                 PROVE  /\ \A l, n \in net' : MayLand(l) /\ MayLand(n) => l = n
                        /\ \A l \in net' : MayLand(l)
                             => \E d \in journal'.payment : sched'.executed = d
                        /\ journal'.payment = {} => final'.executed = sched'.executed
                        /\ \A d \in journal'.payment : sched'.executed \in {d, d + 1}
      BY DEF Paying, MayLand
    <3>1. Paying /\ ~late /\ ~others /\ MayLand(m)
      BY <1>0, <1>7 DEF PageInv, MayLand
    <3>2. PICK e \in journal.payment : sched.executed = e
      BY <3>1 DEF Paying
    <3>3. \A d \in journal.payment : d = e
      BY <1>0, <3>2 DEF RowsOK, RowOK
    <3>4. \A n \in net' : ~MayLand(n)
      BY <1>2, <3>1 DEF Paying
    <3> QED
      BY <1>0, <2>1, <3>2, <3>3, <3>4
  <2> QED
    BY <1>0, <1>2, <1>3, <1>4, <1>7, <2>1, <2>2, <2>3, ChainMoves
<1> QED
  BY <1>5, <1>6, <1>7 DEF Land

\* Members vote; dates come; others pay; blocks are finalized.
LEMMA WorldSteps ==
    ASSUME PageInv, RecurringAssumption,
           (\E q \in Ops : Vote(q)) \/ BecomesDue \/ OtherPays \/ Finalize
    PROVE  PageInv'
<1>0. /\ Typed /\ Scheduled
      /\ UNCHANGED <<journal, view, cache, visit, ops, net, changes, asked, verified, late>>
  BY DEF PageInv, Vote, BecomesDue, OtherPays, Finalize, page, history
<1>1. /\ sched \in Schedules /\ final \in Schedules
      /\ sched.executed \in Nat /\ final.executed \in Nat
      /\ final.executed <= sched.executed /\ net' \subseteq Messages
      /\ others \in BOOLEAN /\ \A n \in net' : MayLand(n) => n \in net
      /\ \A m \in net : \E n \in net' : n.what = m.what /\ n.req = m.req /\ n.op = m.op
      /\ \A n \in net' : \E m \in net : n.what = m.what /\ n.req = m.req /\ n.op = m.op
      /\ requests \in [Ops -> {"none", "Active", "Approved", "Executed", "Cancelled"}]
  BY <1>0, Accounts DEF Typed
<1>2. CASE \E q \in Ops : Vote(q)
  <2>1. /\ requests' \in [Ops -> {"none", "Active", "Approved", "Executed", "Cancelled"}]
        /\ \A q \in Ops : Settled(q) => Settled(q)'
        /\ UNCHANGED <<sched, final, others>>
    BY <1>1, <1>2 DEF Vote, Settled, history
  <2>2. Scheduled'
    BY <1>0, <2>1 DEF Scheduled
  <2>3. Paying'
    BY <1>0, <1>1, <2>1, SamePayment
  <2> QED
    BY <1>0, <1>1, <2>1, <2>2, <2>3, ChainMoves
<1>3. CASE BecomesDue
  <2>1. /\ UNCHANGED <<requests, others>> /\ sched.status = "active"
        /\ sched' = [sched EXCEPT !.due = TRUE]
        /\ final' = [final EXCEPT !.due = final.status = "active"]
    BY <1>3 DEF BecomesDue, history
  <2>2. /\ sched' \in Schedules /\ sched'.status = sched.status
        /\ sched'.executed = sched.executed
        /\ final' \in Schedules /\ final'.status = final.status
        /\ final'.executed = final.executed
    BY <1>1, <2>1 DEF Schedules
  <2>3. Scheduled'
    BY <1>0, <2>2 DEF Scheduled
  <2>4. Paying'
    BY <1>0, <1>1, <2>1, <2>2, SamePayment
  <2>5. \A q \in Ops : Settled(q) => Settled(q)'
    BY <2>1 DEF Settled
  <2> QED
    BY <1>0, <1>1, <2>1, <2>2, <2>3, <2>4, <2>5, ChainMoves
<1>4. CASE OtherPays
  <2>1. /\ UNCHANGED <<requests, final>> /\ others' = TRUE /\ sched.status = "active"
        /\ sched' = AfterPayment
    BY <1>4 DEF OtherPays
  <2>2. /\ sched' \in Schedules /\ sched'.executed = sched.executed + 1
        /\ sched'.status \in {"active", "complete"}
        /\ sched'.status = "active" => sched'.executed < Total
    BY <2>1, Accounts
  <2>3. Scheduled'
    BY <1>0, <1>1, <2>1, <2>2 DEF Scheduled, Gone
  <2>4. Paying' /\ \A q \in Ops : Settled(q) => Settled(q)'
    BY <2>1 DEF Settled, Paying
  <2> QED
    BY <1>0, <1>1, <2>1, <2>2, <2>3, <2>4, ChainMoves
<1>5. CASE Finalize
  <2>1. UNCHANGED <<requests, sched, others>> /\ final' = sched
    BY <1>5 DEF Finalize, history
  <2>2. Scheduled'
    BY <1>0, <1>1, <2>1 DEF Scheduled
  <2>3. Paying'
    BY <1>0, <2>1 DEF PageInv, Paying, MayLand
  <2>4. \A q \in Ops : Settled(q) => Settled(q)'
    BY <2>1 DEF Settled
  <2> QED
    BY <1>0, <1>1, <2>1, <2>2, <2>3, <2>4, ChainMoves
<1> QED
  BY <1>2, <1>3, <1>4, <1>5

-------------------------------------------------------------------------------
(* The theorems *)

\* A schedule nobody has configured.
LEMMA PageStart ==
    ASSUME RecurringAssumption, Init
    PROVE  PageInv
<1>0. /\ NoRow \in Rows /\ RowOK(NoRow, {}) /\ NoSchedule \in Schedules
      /\ NoSchedule.status = "none" /\ NoSchedule.executed = 0
      /\ 0 \in 0 .. MaxChanges
  BY DEF NoRow, Rows, Executions, RowOK, NoSchedule, Schedules, RecurringAssumption
<1>1. Typed
  <2>1. /\ changes = 0 /\ 0 \in 0 .. changes
        /\ visit = [t \in Tabs |-> [gen |-> 0, mount |-> 0]]
    BY DEF Init
  <2>2. visit \in [Tabs -> [gen : 0 .. changes, mount : 0 .. changes]]
    BY <2>1
  <2>3. /\ journal \in Rows /\ view \in [Tabs -> Rows] /\ cache \in [Tabs -> Schedules]
        /\ sched \in Schedules /\ final \in Schedules
    BY <1>0 DEF Init
  <2> QED
    BY <1>0, <2>1, <2>2, <2>3 DEF Init, Typed
<1>2. RowsOK
  BY <1>0 DEF Init, RowsOK
<1>3. Called
  <2>1. Idle = [pc |-> "idle", tab |-> 0, gen |-> 0, mount |-> 0, row |-> NoRow,
                read |-> NoRow]
    BY DEF Idle
  <2>2. \A o \in Ops : CallOK(o, Idle, {})
    BY <1>0, <2>1 DEF CallOK, Calls, Pcs, Waiting
  <2> QED
    BY <2>2 DEF Init, Called
<1>4. Created /\ OneOpenRequest
  BY DEF Init, Created, OneOpenRequest
<1>5. Asked
  BY DEF Init, Asked, NoRow, NoExecution
<1>6. Scheduled
  BY <1>0 DEF Init, Scheduled, Gone
<1>7. Followed
  <2>1. /\ \A t \in Tabs : cache[t].status = "none"
        /\ \A o \in Ops : ops[o].pc = "idle"
        /\ net = {} /\ sched.status = "none" /\ final.status = "none"
    BY <1>0 DEF Init, Idle
  <2> QED
    BY <2>1 DEF Followed, Gone
<1>8. Paying /\ Verifying
  BY <1>0 DEF Init, Paying, Verifying, NoRow
<1> QED
  BY <1>1, <1>2, <1>3, <1>4, <1>5, <1>6, <1>7, <1>8 DEF PageInv

\* Every handler, tab and call keeps the invariant.
LEMMA PageStep ==
    ASSUME RecurringAssumption, PageInv, Next
    PROVE  PageInv'
BY ButtonSteps, CreationStep, ReplySteps, VerifiedStep, ReviewStep, PaymentStep,
   PaymentVerifiedStep, EndSteps, RemoveStep, RefetchStep, VisitSteps, LandStep, WorldSteps
   DEF Next

\* What the invariant says of the page: a schedule request is sent for execution
\* once and stays the pending one while it is open, a payment that may still land
\* is saved and stays the only one, and each payment reported as verified is
\* another one on Solana, as long as no handler overwrites a row that changed
\* since it read it.
LEMMA PageHolds ==
    ASSUME RecurringAssumption, PageInv
    PROVE  TypeOK /\ OneExecution /\ OneOpenRequest /\ PaymentRemembered /\ VerifiedTrue
<1>1. OneExecution /\ OneOpenRequest
  BY DEF PageInv, Asked, OneExecution
<1>2. PaymentRemembered
  BY DEF PageInv, Paying, MayLand, PaymentRemembered
<1>3. VerifiedTrue
  <2>1. final.executed \in Nat /\ sched.executed \in Nat /\ final.executed <= sched.executed
    BY Accounts
  <2> QED
    BY <2>1 DEF PageInv, Typed, Verifying, VerifiedTrue
<1>4. TypeOK
  <2>1. visit \in [Tabs -> [gen : 0 .. MaxChanges, mount : 0 .. MaxChanges]]
    <3>1. 0 .. changes \subseteq 0 .. MaxChanges
      BY DEF PageInv, Typed, RecurringAssumption
    <3> QED
      BY <3>1 DEF PageInv, Typed
  <2>2. \A o \in Ops : ops[o].pc \in Pcs /\ ops[o].row \in Rows /\ ops[o].read \in Rows
    BY CallParts DEF Calls
  <2>3. Cardinality(journal.payment) <= 1
    <3>1. CASE journal.payment = {}
      BY <3>1, FS_EmptySet
    <3>2. CASE journal.payment # {}
      <4>1. PICK e : e \in journal.payment
        BY <3>2
      <4>2. journal.payment = {e}
        BY <4>1 DEF PageInv, RowsOK, RowOK
      <4>3. Cardinality({e}) = 1
        BY FS_Singleton
      <4> QED
        BY <4>2, <4>3
    <3> QED
      BY <3>1, <3>2
  <2> QED
    BY <2>1, <2>2, <2>3 DEF PageInv, Typed, TypeOK, Messages
<1> QED
  BY <1>1, <1>2, <1>3, <1>4

\* A step of the page keeps the invariant, and so does a pause.
LEMMA PageStays ==
    ASSUME RecurringAssumption, PageInv, [Next]_vars
    PROVE  PageInv'
<1>1. CASE Next
  BY <1>1, PageStep
<1>2. CASE UNCHANGED vars
  <2>0. UNCHANGED <<journal, view, cache, visit, ops, requests, sched, final, net, changes,
                    asked, verified, others, late>>
    BY <1>2 DEF vars
  <2>1. (Typed /\ RowsOK /\ Called /\ Created)'
    BY <2>0 DEF PageInv, Typed, RowsOK, Called, Created
  <2>2. (Asked /\ OneOpenRequest /\ Scheduled /\ Followed)'
    BY <2>0 DEF PageInv, Asked, OneOpenRequest, Settled, Scheduled, Followed, Mounted
  <2>3. (Paying /\ Verifying)'
    BY <2>0 DEF PageInv, Paying, Verifying, MayLand
  <2> QED
    BY <2>1, <2>2, <2>3 DEF PageInv
<1> QED
  BY <1>1, <1>2

\* Requests of the recurring page are executed and kept in sight once, and a
\* payment is remembered until it is verified, in every reachable state.
THEOREM RecurringAccountable ==
    ASSUME RecurringAssumption
    PROVE  Spec => [](/\ TypeOK /\ OneExecution /\ OneOpenRequest
                      /\ PaymentRemembered /\ VerifiedTrue)
<1>1. Init => PageInv
  BY PageStart
<1>2. PageInv /\ [Next]_vars => PageInv'
  BY PageStays
<1>3. PageInv => /\ TypeOK /\ OneExecution /\ OneOpenRequest
                 /\ PaymentRemembered /\ VerifiedTrue
  BY PageHolds
<1> QED
  BY <1>1, <1>2, <1>3, PTL DEF Spec

-------------------------------------------------------------------------------
(* The escrow card *)

\* What only the escrow card has.
VARIABLES external, record, marks, rows, ready, chain

Card == INSTANCE Escrow

\* Requests are numbered from one; the bound on interruptions is a number.
EscrowAssumption == Ops \subseteq Nat \ {0} /\ MaxChanges \in Nat

-------------------------------------------------------------------------------
(* The invariant *)

Posting == {"prepare", "ready", "sign"}
Holding == {"create", "read", "submit", "verify", "recheck"}
Named == [req : Ops, kind : Card!Kinds, phase : Card!Phases]
CardCalls == [pc : Card!Pcs, tab : Tabs \cup {0}, gen : 0 .. MaxChanges, mount : 0 .. MaxChanges,
          rec : Card!Records, read : Card!Records]
CardMessages == [op : Ops, req : Ops, kind : Card!Kinds, what : {"create", "execute"},
                 landed : BOOLEAN]

CardTyped ==
    /\ external \in BOOLEAN
    /\ record \in Card!Records /\ view \in [Tabs -> Card!Records]
    /\ marks \subseteq Card!Kinds /\ rows \in [Tabs -> SUBSET Card!Kinds]
    /\ ready \in [Tabs -> Ops \cup {0}]
    /\ visit \in [Tabs -> [gen : 0 .. changes, mount : 0 .. changes]]
    /\ DOMAIN ops = Ops
    /\ chain \in [Ops -> {"none", "Active", "Approved", "Executed", "Cancelled"}]
    /\ net \subseteq CardMessages
    /\ changes \in 0 .. MaxChanges /\ asked \in [Ops -> Nat] /\ late \in BOOLEAN

CardOver == {"Executed", "Cancelled"}
Confirmed(rec) == rec.phase = "confirmed"

\* What a record may say, wherever it is held, of the calls n and the chain c.
Truthful(rec, n, c) ==
    rec # Card!NoRecord =>
        /\ rec \in Named
        /\ \E m \in n : m.what = "create" /\ m.req = rec.req /\ m.kind = rec.kind
        /\ rec.phase = "confirmed" => c[rec.req] = "Executed"
        /\ rec.phase = "cancelled" => c[rec.req] = "Cancelled"

RecordsTrue ==
    /\ Truthful(record, net, chain)
    /\ \A t \in Tabs : Truthful(view[t], net, chain)
    /\ \A o \in Ops : Truthful(ops[o].read, net, chain)

\* The state x of call o.
CardCallOK(o, x, c) ==
    /\ x \in CardCalls
    /\ x.pc \notin {"idle", "done"} => x.tab \in Tabs
    /\ x.pc \in Posting => x.rec \in Named /\ x.rec.req = o /\ x.rec.phase = "creating"
    /\ x.pc \in Holding => x.rec = x.read /\ x.rec \in Named
    /\ x.pc = "create" => x.rec.phase = "creating"
    /\ x.pc = "sign" => x.read = Card!NoRecord \/ (x.read \in Named /\ c[x.read.req] \in CardOver)

CardCalled == \A o \in Ops : CardCallOK(o, ops[o], chain)

\* A request is posted by the call that gave it its number, which goes on.
CardCreated ==
    \A m \in net : m.what = "create" =>
        m.op = m.req /\ ops[m.op].pc \notin {"idle"} \cup Posting

\* An execution is asked for of a posted request, once.
CardAsked ==
    /\ \A q \in Ops : asked[q] > 0 => \E m \in net : m.what = "create" /\ m.req = q
    /\ ~late => /\ \A q \in Ops : asked[q] <= 1
                /\ record.phase \in {"creating", "created"} => asked[record.req] = 0

CardInv == CardTyped /\ RecordsTrue /\ CardCalled /\ CardCreated /\ CardAsked
    /\ Card!OneOpenRequest /\ Card!MarkedTrue

-------------------------------------------------------------------------------
(* What a step leaves true *)

\* Posted calls stay posted, and what is over stays over.
CardGrows(n, c, n1, c1) ==
    /\ \A m \in n : \E m1 \in n1 : m1.what = m.what /\ m1.req = m.req /\ m1.kind = m.kind
    /\ \A q \in Ops : c[q] \in CardOver => c1[q] = c[q]

\* What a record says stays true.
LEMMA TruthStays ==
    ASSUME NEW n, NEW c, NEW n1, NEW c1, NEW rec, CardGrows(n, c, n1, c1), Truthful(rec, n, c)
    PROVE  Truthful(rec, n1, c1)
<1>1. ASSUME rec # Card!NoRecord PROVE rec.req \in Ops
  BY <1>1 DEF Truthful, Named
<1> QED
  BY <1>1 DEF Truthful, CardGrows, CardOver

\* So does what a call relies on.
LEMMA CardCallStays ==
    ASSUME NEW n, NEW c, NEW n1, NEW c1, NEW o, NEW x, CardGrows(n, c, n1, c1),
           CardCallOK(o, x, c)
    PROVE  CardCallOK(o, x, c1)
BY DEF CardCallOK, CardGrows, Named

\* One call goes on.
LEMMA CardOneCall ==
    ASSUME DOMAIN ops = Ops, CardCalled, NEW o \in Ops, NEW x, CardCallOK(o, x, chain'),
           CardGrows(net, chain, net', chain'), ops' = [ops EXCEPT ![o] = x]
    PROVE  /\ DOMAIN ops' = Ops /\ CardCalled'
           /\ ops'[o] = x /\ \A p \in Ops \ {o} : ops'[p] = ops[p]
<1>1. /\ DOMAIN ops' = Ops /\ ops'[o] = x /\ \A p \in Ops \ {o} : ops'[p] = ops[p]
  OBVIOUS
<1>2. \A p \in Ops : CardCallOK(p, ops[p], chain')
  BY CardCallStays DEF CardCalled
<1>3. \A p \in Ops : CardCallOK(p, ops'[p], chain')
  BY <1>1, <1>2
<1> QED
  BY <1>1, <1>3 DEF CardCalled

\* The records of a step are those it found, and the one it saves.
LEMMA RecordsKept ==
    ASSUME net \subseteq CardMessages, RecordsTrue, Card!MarkedTrue,
           CardGrows(net, chain, net', chain'),
           Truthful(record', net', chain'),
           \A t \in Tabs : view'[t] \in {view[t], record, record'},
           \A o \in Ops : ops'[o].read \in {ops[o].read, record, record', Card!NoRecord},
           \A k \in marks' \cup UNION {rows'[t] : t \in Tabs} :
               \/ k \in marks \cup UNION {rows[t] : t \in Tabs}
               \/ k = record'.kind /\ Confirmed(record')
    PROVE  RecordsTrue' /\ Card!MarkedTrue'
<1>1. /\ Truthful(record, net', chain')
      /\ \A t \in Tabs : Truthful(view[t], net', chain')
      /\ \A o \in Ops : Truthful(ops[o].read, net', chain')
  BY TruthStays DEF RecordsTrue
<1>2. Truthful(Card!NoRecord, net', chain')
  BY DEF Truthful
<1>3. RecordsTrue'
  BY <1>1, <1>2 DEF RecordsTrue
<1>4. ASSUME NEW k \in marks' \cup UNION {rows'[t] : t \in Tabs}
      PROVE  \E m \in net' : m.kind = k /\ chain'[m.req] = "Executed"
  <2>1. CASE k \in marks \cup UNION {rows[t] : t \in Tabs}
    <3>1. PICK m \in net : m.kind = k /\ chain[m.req] = "Executed"
      BY <2>1 DEF Card!MarkedTrue
    <3> QED
      BY <3>1 DEF CardGrows, CardOver, CardMessages
  <2>2. CASE k = record'.kind /\ Confirmed(record')
    BY <2>2 DEF Truthful, Confirmed, Card!NoRecord
  <2> QED
    BY <1>4, <2>1, <2>2
<1> QED
  BY <1>3, <1>4 DEF Card!MarkedTrue

\* A step that saves, posts and asks for nothing.
LEMMA NothingSent ==
    ASSUME CardInv, CardTyped', CardCalled', UNCHANGED <<record, net, chain, asked, late>>,
           \A t \in Tabs : view'[t] \in {view[t], record},
           \A o \in Ops : ops'[o].read \in {ops[o].read, record, Card!NoRecord},
           \A o \in Ops : ops[o].pc \notin {"idle"} \cup Posting =>
                          ops'[o].pc \notin {"idle"} \cup Posting,
           marks' \cup UNION {rows'[t] : t \in Tabs} \subseteq
               marks \cup UNION {rows[t] : t \in Tabs}
    PROVE  CardInv'
<1>1. CardGrows(net, chain, net', chain') /\ Truthful(record', net', chain')
  BY DEF CardInv, RecordsTrue, CardGrows
<1>2. RecordsTrue' /\ Card!MarkedTrue'
  BY <1>1, RecordsKept DEF CardInv, CardTyped
<1>3. CardCreated'
  <2>1. \A m \in net : m.op \in Ops
    BY DEF CardInv, CardTyped, CardMessages
  <2> QED
    BY <2>1 DEF CardInv, CardCreated
<1>4. CardAsked' /\ Card!OneOpenRequest'
  BY DEF CardInv, CardAsked, Card!OneOpenRequest, Card!Unresolved
<1> QED
  BY <1>2, <1>3, <1>4 DEF CardInv

-------------------------------------------------------------------------------
(* The card and its tab *)

\* A call starts in a tab.
LEMMA CardCallStarts ==
    ASSUME CardInv, NEW o \in Ops, NEW t \in Tabs,
           NEW pc \in {"prepare", "read", "recheck"}, NEW rec \in Named,
           Card!Start(o, t, pc, rec), EscrowAssumption,
           pc = "prepare" => rec.req = o /\ rec.phase = "creating",
           pc # "prepare" => rec = record,
           UNCHANGED <<external, record, marks, view, rows, ready, visit, chain, net, changes,
                       asked, late>>
    PROVE  CardInv'
<1> DEFINE x == [pc |-> pc, tab |-> t, gen |-> visit[t].gen, mount |-> visit[t].mount,
                 rec |-> rec, read |-> record]
<1>0. CardTyped /\ CardCalled /\ visit[t].gen \in 0 .. MaxChanges
      /\ visit[t].mount \in 0 .. MaxChanges
  <2>1. visit[t] \in [gen : 0 .. changes, mount : 0 .. changes] /\ changes \in 0 .. MaxChanges
    BY DEF CardInv, CardTyped
  <2>2. changes \in Nat /\ MaxChanges \in Nat /\ changes <= MaxChanges
    BY <2>1 DEF EscrowAssumption
  <2> QED
    BY <2>1, <2>2 DEF CardInv
<1>1. ops[o].pc = "idle" /\ ops' = [ops EXCEPT ![o] = x]
  BY DEF Card!Start
<1>2. /\ x.pc = pc /\ x.tab = t /\ x.rec = rec /\ x.read = record
      /\ x \in CardCalls
  <2>1. record \in Card!Records /\ rec \in Card!Records /\ pc \in Card!Pcs
    BY <1>0 DEF CardTyped, Card!Records, Named, Card!Pcs
  <2> QED
    BY <1>0, <2>1 DEF CardCalls
<1> HIDE DEF x
<1>3. CardCallOK(o, x, chain)
  BY <1>2 DEF CardCallOK, Posting, Holding
<1>4. /\ DOMAIN ops' = Ops /\ CardCalled' /\ ops'[o] = x
      /\ \A p \in Ops \ {o} : ops'[p] = ops[p]
  <2>1. CardGrows(net, chain, net', chain')
    BY DEF CardGrows
  <2> QED
    BY <1>0, <1>1, <1>3, <2>1, CardOneCall DEF CardTyped
<1>5. CardTyped'
  BY <1>0, <1>4 DEF CardTyped
<1> QED
  BY <1>1, <1>2, <1>4, <1>5, NothingSent

\* A call goes to another step, or ends, and nothing is sent.
LEMMA CardCallMoves ==
    ASSUME CardInv, NEW o \in Ops, NEW x, CardCallOK(o, x, chain), ops' = [ops EXCEPT ![o] = x],
           x.read \in {ops[o].read, record, Card!NoRecord},
           ops[o].pc \notin {"idle"} \cup Posting => x.pc \notin {"idle"} \cup Posting,
           ready' \in [Tabs -> Ops \cup {0}],
           UNCHANGED <<external, record, marks, view, rows, visit, chain, net, changes,
                       asked, late>>
    PROVE  CardInv'
<1>1. CardTyped /\ CardCalled /\ CardGrows(net, chain, net', chain')
  BY DEF CardInv, CardGrows
<1>2. /\ DOMAIN ops' = Ops /\ CardCalled' /\ ops'[o] = x
      /\ \A p \in Ops \ {o} : ops'[p] = ops[p]
  BY <1>1, CardOneCall DEF CardTyped
<1>3. CardTyped'
  BY <1>1, <1>2 DEF CardTyped
<1> QED
  BY <1>2, <1>3, NothingSent

\* What is left of a call that has ended.
LEMMA CardEnded ==
    ASSUME EscrowAssumption, NEW o, NEW c
    PROVE  LET x == [Card!Idle EXCEPT !.pc = "done"] IN
           /\ x.pc = "done" /\ x.read = Card!NoRecord
           /\ CardCallOK(o, x, c)
<1> DEFINE x == [Card!Idle EXCEPT !.pc = "done"]
<1>1. x = [pc |-> "done", tab |-> 0, gen |-> 0, mount |-> 0, rec |-> Card!NoRecord,
           read |-> Card!NoRecord]
  BY DEF Card!Idle
<1> HIDE DEF x
<1>2. x.pc = "done" /\ x.read = Card!NoRecord
  BY <1>1
<1>3. CardCallOK(o, x, c)
  <2>1. 0 \in 0 .. MaxChanges
    BY DEF EscrowAssumption
  <2> QED
    BY <1>1, <2>1 DEF CardCallOK, CardCalls, Card!Pcs, Card!Records, Posting, Holding
<1> QED
  BY <1>2, <1>3 DEF x

\* What a call has: its state is one of Calls, and what its step needs.
LEMMA CardCallParts ==
    ASSUME CardInv, NEW o \in Ops
    PROVE  /\ CardCallOK(o, ops[o], chain) /\ ops[o] \in CardCalls /\ DOMAIN ops = Ops
           /\ ops[o].pc \notin {"idle", "done"} => ops[o].tab \in Tabs
BY DEF CardInv, CardCalled, CardCallOK, CardTyped

\* Handlers that start, are dismissed, fail or wait for a signature.
LEMMA CardSteps ==
    ASSUME CardInv, EscrowAssumption,
           \/ \E o \in Ops, t \in Tabs, k \in Card!Kinds : Card!Prepare(o, t, k)
           \/ \E o \in Ops, t \in Tabs : \E pc \in {"read", "recheck"} : Card!Resume(o, t, pc)
           \/ \E o \in Ops : Card!Prepared(o) \/ Card!Fail(o)
           \/ \E t \in Tabs : Card!Dismiss(t) \/ Card!Approve(t)
    PROVE  CardInv'
<1>0. CardTyped /\ ready \in [Tabs -> Ops \cup {0}]
  BY DEF CardInv, CardTyped
<1>1. ASSUME NEW o \in Ops, NEW t \in Tabs, NEW k \in Card!Kinds, Card!Prepare(o, t, k)
      PROVE CardInv'
  <2> DEFINE rec == [req |-> o, kind |-> k, phase |-> "creating"]
  <2>1. rec \in Named /\ rec.req = o /\ rec.phase = "creating"
    BY DEF Named, Card!Phases
  <2>2. Card!Start(o, t, "prepare", rec)
    BY <1>1 DEF Card!Prepare
  <2>3. UNCHANGED <<external, record, marks, view, rows, ready, visit, chain, net, changes,
                    asked, late>>
    BY <1>1 DEF Card!Prepare, Card!card, Card!world
  <2> HIDE DEF rec
  <2> QED
    BY <2>1, <2>2, <2>3, CardCallStarts
<1>2. ASSUME NEW o \in Ops, NEW t \in Tabs, NEW pc \in {"read", "recheck"}, Card!Resume(o, t, pc)
      PROVE  CardInv'
  <2>1. record \in Named
    BY <1>0, <1>2 DEF Card!Resume, CardTyped, Card!Records, Named
  <2>2. Card!Start(o, t, pc, record)
    BY <1>2 DEF Card!Resume
  <2>3. UNCHANGED <<external, record, marks, view, rows, ready, visit, chain, net, changes,
                    asked, late>>
    BY <1>2 DEF Card!Resume, Card!card, Card!world
  <2> QED
    BY <2>1, <2>2, <2>3, CardCallStarts
<1>3. ASSUME NEW o \in Ops, Card!Prepared(o) PROVE CardInv'
  <2> DEFINE x == [ops[o] EXCEPT !.pc = "ready"]
  <2>1. /\ ops[o].pc = "prepare" /\ ops' = [ops EXCEPT ![o] = x]
        /\ ready' = [ready EXCEPT ![ops[o].tab] = o]
        /\ UNCHANGED <<external, record, marks, view, rows, visit, chain, net, changes,
                       asked, late>>
    BY <1>3, CardCallParts DEF Card!Prepared, Card!world
  <2>2. /\ x \in CardCalls /\ x.pc = "ready" /\ x.rec = ops[o].rec /\ x.read = ops[o].read
        /\ x.tab = ops[o].tab
    BY CardCallParts DEF CardCalls, Card!Pcs
  <2> HIDE DEF x
  <2>3. CardCallOK(o, x, chain)
    BY <2>1, <2>2, CardCallParts DEF CardCallOK, Posting, Holding
  <2>4. ready' \in [Tabs -> Ops \cup {0}]
    BY <1>0, <2>1
  <2> QED
    BY <2>1, <2>2, <2>3, <2>4, CardCallMoves DEF Posting
<1>4. ASSUME NEW o \in Ops, Card!Fail(o) PROVE CardInv'
  <2>0. /\ ops[o].pc \in {"prepare", "sign", "create", "read", "recheck"}
        /\ UNCHANGED <<external, record, marks, view, rows, ready, visit, chain, net, changes,
                       asked, late>>
    BY <1>4 DEF Card!Fail, Card!card, Card!world
  <2>1. CASE ops[o].pc = "sign"
    <3> DEFINE x == [ops[o] EXCEPT !.pc = "ready"]
    <3>1. ops' = [ops EXCEPT ![o] = x]
      BY <1>4, <2>1 DEF Card!Fail
    <3>2. /\ x \in CardCalls /\ x.pc = "ready" /\ x.rec = ops[o].rec /\ x.read = ops[o].read
          /\ x.tab = ops[o].tab
      BY CardCallParts DEF CardCalls, Card!Pcs
    <3> HIDE DEF x
    <3>3. CardCallOK(o, x, chain)
      BY <2>1, <3>2, CardCallParts DEF CardCallOK, Posting, Holding
    <3> QED
      BY <1>0, <2>0, <2>1, <3>1, <3>2, <3>3, CardCallMoves DEF Posting
  <2>2. CASE ops[o].pc # "sign"
    <3> DEFINE x == [Card!Idle EXCEPT !.pc = "done"]
    <3>1. ops' = [ops EXCEPT ![o] = x]
      BY <1>4, <2>2 DEF Card!Fail, Card!End
    <3>2. x.pc = "done" /\ x.read = Card!NoRecord /\ CardCallOK(o, x, chain)
      BY CardEnded
    <3> HIDE DEF x
    <3> QED
      BY <1>0, <2>0, <3>1, <3>2, CardCallMoves DEF Posting
  <2> QED
    BY <2>1, <2>2
<1>5. ASSUME NEW t \in Tabs, Card!Dismiss(t) PROVE CardInv'
  <2>1. /\ ready' = [ready EXCEPT ![t] = 0]
        /\ UNCHANGED <<external, record, marks, view, rows, visit, ops, chain, net, changes,
                       asked, late>>
    BY <1>5 DEF Card!Dismiss, Card!world
  <2>2. CardTyped' /\ CardCalled'
    BY <1>0, <2>1 DEF CardInv, CardTyped, CardCalled
  <2> QED
    BY <2>1, <2>2, NothingSent
<1>6. ASSUME NEW t \in Tabs, Card!Approve(t) PROVE CardInv'
  <2> DEFINE o == ready[t]
             x == [ops[o] EXCEPT !.pc = "sign", !.read = record]
  <2>1. /\ o # 0 /\ ops[o].pc = "ready"
        /\ record # Card!NoRecord => Card!alreadyRecorded(t) /\ record.req = view[t].req
        /\ ops' = [ops EXCEPT ![o].pc = "sign", ![o].read = record]
        /\ UNCHANGED <<external, record, marks, view, rows, ready, visit, chain, net, changes,
                       asked, late>>
    BY <1>6 DEF Card!Approve, Card!card, Card!world
  <2>2. o \in Ops
    BY <1>0, <2>1
  <2>3. ops' = [ops EXCEPT ![o] = x]
    BY <2>1, <2>2, CardCallParts
  <2>4. record \in Card!Records /\ CardCallOK(o, ops[o], chain) /\ ops[o] \in CardCalls
    BY <1>0, <2>2, CardCallParts DEF CardTyped
  <2>5. /\ x \in CardCalls /\ x.pc = "sign" /\ x.rec = ops[o].rec /\ x.read = record
        /\ x.tab = ops[o].tab
    BY <2>4 DEF CardCalls, Card!Pcs
  <2>6. record = Card!NoRecord \/ (record \in Named /\ chain[record.req] \in CardOver)
    <3>1. CASE record # Card!NoRecord
      <4>1. Card!alreadyRecorded(t) /\ record.req = view[t].req
        BY <2>1, <3>1
      <4>2. view[t].phase \in {"confirmed", "cancelled"}
        BY <4>1 DEF Card!alreadyRecorded
      <4>3. view[t] # Card!NoRecord
        BY <4>2 DEF Card!NoRecord
      <4>4. chain[view[t].req] \in CardOver
        BY <4>2, <4>3 DEF CardInv, RecordsTrue, Truthful, CardOver
      <4>5. record \in Named
        BY <2>4, <3>1 DEF Card!Records, Named
      <4> QED
        BY <4>1, <4>4, <4>5
    <3> QED
      BY <3>1
  <2>7. ops[o].rec \in Named /\ ops[o].rec.req = o /\ ops[o].rec.phase = "creating"
        /\ ops[o].tab \in Tabs
    BY <2>1, <2>4 DEF CardCallOK, Posting
  <2> HIDE DEF x, o
  <2>8. CardCallOK(o, x, chain)
    BY <2>5, <2>6, <2>7 DEF CardCallOK, Posting, Holding
  <2> QED
    BY <1>0, <2>1, <2>2, <2>3, <2>5, <2>8, CardCallMoves DEF Posting
<1> QED
  BY <1>1, <1>2, <1>3, <1>4, <1>5, <1>6

\* A tab is reloaded, left and opened again, or hears of another's write; the
\* account is switched, or a funder reopens the project.
LEMMA TabSteps ==
    ASSUME CardInv, EscrowAssumption, NEW t \in Tabs,
           Card!AddFunder(t) \/ Card!StorageEvent(t) \/ Card!SwitchAccount(t)
               \/ Card!Remount(t) \/ Card!Reload(t)
    PROVE  CardInv'
<1>0. CardTyped
  BY DEF CardInv
<1>1. CASE Card!AddFunder(t)
  <2>1. /\ UNCHANGED <<external, record, view, ready, visit, ops, net, chain, asked, late>>
        /\ changes' = changes + 1 /\ changes < MaxChanges
        /\ rows' = [rows EXCEPT ![t] = @ \ {"return"}] /\ marks' = rows'[t]
    BY <1>1 DEF Card!AddFunder, Card!world
  <2>2. /\ rows' \in [Tabs -> SUBSET Card!Kinds] /\ marks' = rows[t] \ {"return"}
        /\ \A u \in Tabs : rows'[u] \subseteq rows[u]
    BY <1>0, <2>1 DEF CardTyped
  <2>3. marks' \cup UNION {rows'[u] : u \in Tabs} \subseteq marks
        \cup UNION {rows[u] : u \in Tabs}
    BY <2>2
  <2>4. changes' \in 0 .. MaxChanges /\ 0 .. changes \subseteq 0 .. changes'
    BY <1>0, <2>1 DEF CardTyped, EscrowAssumption
  <2>5. visit \in [Tabs -> [gen : 0 .. changes', mount : 0 .. changes']]
    BY <1>0, <2>4 DEF CardTyped
  <2>6. marks' \subseteq Card!Kinds
    BY <1>0, <2>2 DEF CardTyped
  <2>7. CardTyped' /\ CardCalled'
    BY <1>0, <2>1, <2>2, <2>4, <2>5, <2>6 DEF CardInv, CardTyped, CardCalled
  <2> QED
    BY <2>1, <2>3, <2>7, NothingSent
<1>3. CASE Card!StorageEvent(t)
  <2>1. /\ UNCHANGED <<external, record, marks, rows, ready, visit, ops, net, chain, changes,
                       asked, late>>
        /\ view' = [view EXCEPT ![t] = record]
    BY <1>3 DEF Card!StorageEvent, Card!world
  <2>2. view' \in [Tabs -> Card!Records] /\ \A u \in Tabs : view'[u] \in {view[u], record}
    BY <1>0, <2>1 DEF CardTyped
  <2>3. CardTyped' /\ CardCalled'
    BY <1>0, <2>1, <2>2 DEF CardInv, CardTyped, CardCalled
  <2> QED
    BY <2>1, <2>2, <2>3, NothingSent
<1>2. CASE Card!SwitchAccount(t) \/ Card!Remount(t) \/ Card!Reload(t)
  <2> DEFINE done == [Card!Idle EXCEPT !.pc = "done"]
  <2>1. /\ UNCHANGED <<external, record, marks, net, chain, asked, late>>
        /\ changes' = changes + 1 /\ changes' \in 0 .. MaxChanges
        /\ \E m \in {0, 1} : visit' = [visit EXCEPT ![t].gen = @ + 1, ![t].mount = @ + m]
        /\ view' = view \/ view' = [view EXCEPT ![t] = record]
        /\ rows' = rows \/ rows' = [rows EXCEPT ![t] = marks]
        /\ ready' = ready \/ ready' = [ready EXCEPT ![t] = 0]
        /\ \/ ops' = ops
           \/ ops' = [o \in Ops |-> IF ops[o].tab = t THEN done ELSE ops[o]]
    BY <1>0, <1>2 DEF Card!SwitchAccount, Card!Remount, Card!Reload, Card!Opened, Card!Moved,
                      Card!world, CardTyped,
                      EscrowAssumption
  <2>2. \A o \in Ops : done.pc = "done" /\ done.read = Card!NoRecord /\ CardCallOK(o, done, chain)
    BY CardEnded
  <2> HIDE DEF done
  <2>3. /\ DOMAIN ops' = Ops
        /\ \A o \in Ops : ops'[o] = ops[o] \/ ops'[o] = done
    BY <1>0, <2>1 DEF CardTyped
  <2>4. CardCalled'
    <3>1. \A o \in Ops : CardCallOK(o, ops'[o], chain')
      BY <2>1, <2>2, <2>3 DEF CardInv, CardCalled
    <3> QED
      BY <3>1 DEF CardCalled
  <2>5. visit' \in [Tabs -> [gen : 0 .. changes', mount : 0 .. changes']]
    <3>1. PICK m \in {0, 1} : visit' = [visit EXCEPT ![t].gen = @ + 1, ![t].mount = @ + m]
      BY <2>1
    <3>2. \A u \in Tabs : visit[u] \in [gen : 0 .. changes, mount : 0 .. changes]
      BY <1>0 DEF CardTyped
    <3>3. changes \in Nat /\ changes' = changes + 1
      BY <1>0, <2>1 DEF CardTyped, EscrowAssumption
    <3>4. \A u \in Tabs : visit'[u] \in [gen : 0 .. changes', mount : 0 .. changes']
      <4> TAKE u \in Tabs
      <4>1. visit[u].gen \in 0 .. changes /\ visit[u].mount \in 0 .. changes
        BY <3>2
      <4>2. /\ visit[u].gen \in 0 .. changes' /\ visit[u].mount \in 0 .. changes'
            /\ visit[u].gen + 1 \in 0 .. changes' /\ visit[u].mount + m \in 0 .. changes'
        BY <3>3, <4>1
      <4>3. CASE u = t
        <5>1. visit'[u] = [visit[u] EXCEPT !.gen = @ + 1, !.mount = @ + m]
          BY <1>0, <3>1, <4>3 DEF CardTyped
        <5> QED
          BY <3>2, <4>2, <5>1
      <4>4. CASE u # t
        <5>1. visit'[u] = visit[u]
          BY <1>0, <3>1, <4>4 DEF CardTyped
        <5> QED
          BY <3>2, <4>2, <5>1
      <4> QED
        BY <4>3, <4>4
    <3>5. DOMAIN visit' = Tabs /\ visit' = [u \in Tabs |-> visit'[u]]
      BY <1>0, <3>1 DEF CardTyped
    <3> QED
      BY <3>4, <3>5
  <2>6. /\ rows' \in [Tabs -> SUBSET Card!Kinds] /\ view' \in [Tabs -> Card!Records]
        /\ ready' \in [Tabs -> Ops \cup {0}]
        /\ marks' \cup UNION {rows'[u] : u \in Tabs} \subseteq
               marks \cup UNION {rows[u] : u \in Tabs}
        /\ \A u \in Tabs : view'[u] \in {view[u], record}
    <3>1. /\ rows' \in [Tabs -> SUBSET Card!Kinds]
          /\ \A u \in Tabs : rows'[u] \subseteq rows[u] \cup marks
      BY <1>0, <2>1 DEF CardTyped
    <3>2. view' \in [Tabs -> Card!Records] /\ \A u \in Tabs : view'[u] \in {view[u], record}
      BY <1>0, <2>1 DEF CardTyped
    <3>3. ready' \in [Tabs -> Ops \cup {0}]
      BY <1>0, <2>1 DEF CardTyped
    <3> QED
      BY <2>1, <3>1, <3>2, <3>3
  <2>7. CardTyped'
    BY <1>0, <2>1, <2>3, <2>5, <2>6 DEF CardTyped
  <2>8. /\ \A o \in Ops : ops'[o].read \in {ops[o].read, record, Card!NoRecord}
        /\ \A o \in Ops : ops[o].pc \notin {"idle"} \cup Posting =>
                          ops'[o].pc \notin {"idle"} \cup Posting
    BY <2>2, <2>3 DEF Posting
  <2> QED
    BY <2>1, <2>4, <2>6, <2>7, <2>8, NothingSent
<1> QED
  BY <1>1, <1>2, <1>3

-------------------------------------------------------------------------------
(* A handler saves what follows from the record it has *)

\* applyConfirmed marks what the record says was executed.
LEMMA Marked ==
    ASSUME CardTyped, NEW t \in Tabs, NEW rec \in Named,
           Card!applyConfirmed(t, rec) \/ UNCHANGED <<rows, marks>>
    PROVE  /\ marks' \subseteq Card!Kinds /\ rows' \in [Tabs -> SUBSET Card!Kinds]
           /\ \A k \in marks' \cup UNION {rows'[u] : u \in Tabs} :
                 \/ k \in marks \cup UNION {rows[u] : u \in Tabs}
                 \/ k = rec.kind /\ Confirmed(rec)
<1>1. CASE UNCHANGED <<rows, marks>>
  BY <1>1 DEF CardTyped
<1>2. CASE /\ rec.phase = "confirmed"
           /\ rows' = [rows EXCEPT ![t] = @ \cup {rec.kind}] /\ marks' = rows'[t]
  <2>1. rec.kind \in Card!Kinds
    BY DEF Named
  <2>2. /\ rows' \in [Tabs -> SUBSET Card!Kinds] /\ marks' = rows[t] \cup {rec.kind}
        /\ \A u \in Tabs : rows'[u] \subseteq rows[u] \cup {rec.kind}
    BY <1>2, <2>1 DEF CardTyped
  <2>3. marks' \subseteq Card!Kinds
    BY <2>1, <2>2 DEF CardTyped
  <2> QED
    BY <1>2, <2>2, <2>3 DEF Confirmed
<1> QED
  BY <1>1, <1>2 DEF Card!applyConfirmed

\* saveOperation: who has read the saved record replaces it, or is too late.
LEMMA CardReplaced ==
    ASSUME CardTyped, NEW o \in Ops, NEW rec \in Named, Card!saveOperation(o, rec)
    PROVE  /\ record' = rec /\ view' \in [Tabs -> Card!Records] /\ late' \in BOOLEAN
           /\ \A t \in Tabs : view'[t] \in {view[t], rec}
           /\ ~late' => ~late /\ record = ops[o].read
<1>1. record' = rec /\ late' = (late \/ record # ops[o].read)
      /\ (view' = view \/ view' = [view EXCEPT ![ops[o].tab] = rec])
  BY DEF Card!saveOperation
<1>2. rec \in Card!Records
  BY DEF Card!Records, Named
<1>3. view' \in [Tabs -> Card!Records] /\ \A t \in Tabs : view'[t] \in {view[t], rec}
  BY <1>1, <1>2 DEF CardTyped
<1>4. late' \in BOOLEAN /\ (~late' => ~late /\ record = ops[o].read)
  BY <1>1 DEF CardTyped
<1> QED
  BY <1>1, <1>3, <1>4

\* The record a handler saves next, what it says being so, keeps the invariant.
LEMMA NextSaved ==
    ASSUME CardInv, EscrowAssumption, NEW o \in Ops, ops[o].pc \in Holding, NEW rec \in Named,
           rec.req = ops[o].rec.req, rec.kind = ops[o].rec.kind,
           rec.phase = "confirmed" => chain[rec.req] = "Executed",
           rec.phase = "cancelled" => chain[rec.req] = "Cancelled",
           Card!saveOperation(o, rec),
           NEW x, CardCallOK(o, x, chain), ops' = [ops EXCEPT ![o] = x],
               x.read \in {rec, Card!NoRecord},
           x.pc \notin {"idle"} \cup Posting,
           UNCHANGED <<external, ready, visit, chain, changes>>,
           net \subseteq net', net' \subseteq CardMessages,
           \A m \in net' \ net : m.what = "execute" /\ m.req = rec.req,
           \/ /\ asked' = asked
              /\ rec.phase \in {"creating", "created"} =>
                     ops[o].rec.phase \in {"creating", "created"}
           \/ /\ asked' = [asked EXCEPT ![rec.req] = @ + 1]
              /\ ops[o].rec.phase = "created" /\ rec.phase \notin {"creating", "created"},
           Card!applyConfirmed(ops[o].tab, rec) \/ UNCHANGED <<rows, marks>>
    PROVE  CardInv'
<1>0. /\ CardTyped /\ RecordsTrue /\ CardCalled /\ CardCreated /\ CardAsked
         /\ Card!OneOpenRequest /\ Card!MarkedTrue
      /\ ops[o].tab \in Tabs /\ ops[o].rec = ops[o].read
  BY CardCallParts DEF CardInv, CardCallOK, Holding
<1>1. /\ record' = rec /\ view' \in [Tabs -> Card!Records] /\ late' \in BOOLEAN
      /\ \A t \in Tabs : view'[t] \in {view[t], rec}
      /\ ~late' => ~late /\ record = ops[o].rec
  BY <1>0, CardReplaced
<1>2. /\ marks' \subseteq Card!Kinds /\ rows' \in [Tabs -> SUBSET Card!Kinds]
      /\ \A k \in marks' \cup UNION {rows'[u] : u \in Tabs} :
            \/ k \in marks \cup UNION {rows[u] : u \in Tabs}
            \/ k = rec.kind /\ Confirmed(rec)
  BY <1>0, Marked
<1>3. CardGrows(net, chain, net', chain')
  BY DEF CardGrows
<1>4. /\ DOMAIN ops' = Ops /\ CardCalled' /\ ops'[o] = x
      /\ \A p \in Ops \ {o} : ops'[p] = ops[p]
  BY <1>0, <1>3, CardOneCall DEF CardTyped
<1>5. rec.req \in Ops /\ rec # Card!NoRecord /\ ops[o].rec \in Named
      /\ \E m \in net : m.what = "create" /\ m.req = rec.req /\ m.kind = rec.kind
  <2>1. ops[o].rec \in Named
    BY CardCallParts DEF CardCallOK
  <2>2. ops[o].rec # Card!NoRecord
    BY <2>1, EscrowAssumption DEF Named, Card!NoRecord, EscrowAssumption
  <2>3. Truthful(ops[o].rec, net, chain)
    BY <1>0 DEF RecordsTrue
  <2>4. rec # Card!NoRecord
    BY EscrowAssumption DEF Named, Card!NoRecord, EscrowAssumption
  <2> QED
    BY <2>1, <2>2, <2>3, <2>4 DEF Truthful, Named
<1>6. Truthful(record', net', chain')
  BY <1>1, <1>5 DEF Truthful
<1>7. RecordsTrue' /\ Card!MarkedTrue'
  <2>1. /\ \A t \in Tabs : view'[t] \in {view[t], record, record'}
        /\ \A p \in Ops : ops'[p].read \in {ops[p].read, record, record', Card!NoRecord}
    BY <1>1, <1>4
  <2> QED
    BY <1>0, <1>1, <1>2, <1>3, <1>6, <2>1, RecordsKept DEF CardTyped
<1>8. CardTyped'
  <2>1. record' \in Card!Records
    BY <1>1 DEF Card!Records, Named
  <2>2. asked' \in [Ops -> Nat]
    BY <1>0, <1>5 DEF CardTyped
  <2> QED
    BY <1>0, <1>1, <1>2, <1>4, <2>1, <2>2 DEF CardTyped
<1>9. CardCreated'
  <2>1. \A m \in net' : m.what = "create" => m \in net /\ m.op \in Ops
    BY <1>0 DEF CardTyped, CardMessages
  <2> QED
    BY <1>0, <1>4, <2>1 DEF CardCreated
<1>10. CardAsked'
  <2>1. ASSUME NEW q \in Ops, asked'[q] > 0 PROVE \E m \in net' : m.what = "create" /\ m.req = q
    <3>1. CASE q = rec.req
      BY <1>5, <3>1
    <3>2. CASE q # rec.req
      <4>1. asked'[q] = asked[q]
        BY <1>0, <3>2 DEF CardTyped
      <4> QED
        BY <1>0, <2>1, <4>1 DEF CardAsked
    <3> QED
      BY <3>1, <3>2
  <2>2. ASSUME ~late'
        PROVE  /\ \A q \in Ops : asked'[q] <= 1
               /\ record'.phase \in {"creating", "created"} => asked'[record'.req] = 0
    <3>0. /\ ~late /\ record = ops[o].rec /\ record.req = rec.req
          /\ \A q \in Ops : asked[q] <= 1 /\ asked[q] \in Nat
          /\ record.phase \in {"creating", "created"} => asked[rec.req] = 0
      BY <1>0, <1>1, <2>2 DEF CardAsked, CardTyped
    <3>1. CASE /\ asked' = asked
               /\ rec.phase \in {"creating", "created"} =>
                     ops[o].rec.phase \in {"creating", "created"}
      BY <1>1, <3>0, <3>1
    <3>2. CASE /\ asked' = [asked EXCEPT ![rec.req] = @ + 1]
               /\ ops[o].rec.phase = "created" /\ rec.phase \notin {"creating", "created"}
      <4>1. \A q \in Ops : asked'[q] = IF q = rec.req THEN asked[q] + 1 ELSE asked[q]
        BY <1>0, <3>2 DEF CardTyped
      <4>2. asked[rec.req] = 0
        BY <3>0, <3>2
      <4>3. \A q \in Ops : asked'[q] <= 1
        BY <3>0, <4>1, <4>2
      <4> QED
        BY <1>1, <3>2, <4>3
    <3> QED
      BY <3>1, <3>2
  <2> QED
    BY <2>1, <2>2 DEF CardAsked
<1>11. Card!OneOpenRequest'
  <2> SUFFICES ASSUME ~late', NEW q \in Ops, Card!Unresolved(q)' PROVE record'.req = q
    BY DEF Card!OneOpenRequest
  <2>1. PICK m \in net' : m.req = q /\ chain[q] \notin {"Executed", "Cancelled"}
    BY DEF Card!Unresolved
  <2>2. CASE m \in net
    BY <1>0, <1>1, <2>1, <2>2 DEF Card!OneOpenRequest, Card!Unresolved
  <2>3. CASE m \notin net
    BY <1>1, <2>1, <2>3
  <2> QED
    BY <2>2, <2>3
<1> QED
  BY <1>4, <1>7, <1>8, <1>9, <1>10, <1>11 DEF CardInv

\* The phase of a record changes and nothing else.
LEMMA Rephased ==
    ASSUME NEW rec \in Named, NEW phase \in Card!Phases
    PROVE  /\ Card!With(rec, phase) \in Named /\ Card!With(rec, phase).phase = phase
           /\ Card!With(rec, phase).req = rec.req /\ Card!With(rec, phase).kind = rec.kind
BY DEF Card!With, Named

\* What a finalized read may show.
LEMMA SeenTrue ==
    ASSUME NEW q, NEW s \in Card!Seen(q)
    PROVE  /\ s = "Executed" => chain[q] = "Executed"
           /\ s = "Cancelled" => chain[q] = "Cancelled"
BY DEF Card!Seen

\* A call that goes on with the record it saved.
LEMMA CardGoesOn ==
    ASSUME CardInv, NEW o \in Ops, ops[o].pc \in Holding, NEW rec \in Named,
           NEW pc \in {"read", "submit", "verify"}, Card!Goto(o, pc, rec)
    PROVE  \E x : /\ ops' = [ops EXCEPT ![o] = x] /\ CardCallOK(o, x, chain)
                  /\ x.read = rec /\ x.pc = pc
<1> DEFINE x == [ops[o] EXCEPT !.pc = pc, !.rec = rec, !.read = rec]
<1>1. CardCallOK(o, ops[o], chain) /\ ops[o] \in CardCalls /\ DOMAIN ops = Ops
      /\ ops[o].tab \in Tabs
  BY CardCallParts DEF Holding
<1>2. ops' = [ops EXCEPT ![o] = x]
  BY <1>1 DEF Card!Goto
<1>3. rec \in Card!Records
  BY DEF Card!Records, Named
<1>4. /\ x \in CardCalls /\ x.pc = pc /\ x.rec = rec /\ x.read = rec /\ x.tab = ops[o].tab
  BY <1>1, <1>3 DEF CardCalls, Card!Pcs
<1> HIDE DEF x
<1>5. CardCallOK(o, x, chain)
  BY <1>1, <1>4 DEF CardCallOK, Posting, Holding
<1> QED
  BY <1>2, <1>4, <1>5

\* A call that ends.
LEMMA CardEndsHere ==
    ASSUME EscrowAssumption, NEW o \in Ops, Card!End(o)
    PROVE  \E x : /\ ops' = [ops EXCEPT ![o] = x] /\ CardCallOK(o, x, chain)
                  /\ x.read = Card!NoRecord /\ x.pc = "done"
<1> DEFINE x == [Card!Idle EXCEPT !.pc = "done"]
<1>1. ops' = [ops EXCEPT ![o] = x]
  BY DEF Card!End
<1>2. x.pc = "done" /\ x.read = Card!NoRecord /\ CardCallOK(o, x, chain)
  BY CardEnded
<1> QED
  BY <1>1, <1>2

\* The reply to a creation, and the finalized reads (executeSavedEscrow).
LEMMA CardReplySteps ==
    ASSUME CardInv, EscrowAssumption, NEW o \in Ops,
           Card!CreateReply(o) \/ Card!SubmitReply(o) \/ Card!ReadAfter(o) \/ Card!Recheck(o)
    PROVE  CardInv'
<1> DEFINE old == ops[o].rec
<1>0. ops[o].pc \in Holding /\ old \in Named /\ ready \in [Tabs -> Ops \cup {0}]
      /\ net \subseteq CardMessages
  BY CardCallParts DEF Card!CreateReply, Card!SubmitReply, Card!ReadAfter, Card!Recheck,
                       Holding, CardCallOK, CardInv, CardTyped
<1>1. CASE Card!CreateReply(o)
  <2> DEFINE rec == Card!With(old, "created")
  <2>1. rec \in Named /\ rec.phase = "created" /\ rec.req = old.req /\ rec.kind = old.kind
    BY <1>0, Rephased DEF Card!Phases
  <2>2. old.phase = "creating"
    BY <1>1, CardCallParts DEF Card!CreateReply, CardCallOK
  <2>3. /\ Card!saveOperation(o, rec) /\ (Card!Goto(o, "read", rec) \/ Card!End(o))
        /\ UNCHANGED <<external, marks, rows, ready, visit, net, chain, changes, asked>>
    BY <1>1 DEF Card!CreateReply, Card!world
  <2> HIDE DEF rec
  <2>4. PICK x : /\ ops' = [ops EXCEPT ![o] = x] /\ CardCallOK(o, x, chain)
                 /\ x.read \in {rec, Card!NoRecord} /\ x.pc \in {"read", "done"}
    BY <1>0, <2>1, <2>3, CardGoesOn, CardEndsHere
  <2> QED
    BY <1>0, <2>1, <2>2, <2>3, <2>4, NextSaved DEF Posting
<1>2. CASE Card!SubmitReply(o)
  <2>1. PICK phase \in {"submitted", "unknown"} :
          /\ Card!saveOperation(o, Card!With(old, phase))
          /\ Card!Goto(o, "verify", Card!With(old, phase)) \/ Card!End(o)
    BY <1>2 DEF Card!SubmitReply
  <2>2. UNCHANGED <<external, marks, rows, ready, visit, net, chain, changes, asked>>
    BY <1>2 DEF Card!SubmitReply, Card!world
  <2> DEFINE rec == Card!With(old, phase)
  <2>3. rec \in Named /\ rec.phase = phase /\ rec.req = old.req /\ rec.kind = old.kind
    BY <1>0, Rephased DEF Card!Phases
  <2>4. Card!saveOperation(o, rec) /\ (Card!Goto(o, "verify", rec) \/ Card!End(o))
    BY <2>1
  <2> HIDE DEF rec
  <2>5. PICK x : /\ ops' = [ops EXCEPT ![o] = x] /\ CardCallOK(o, x, chain)
                 /\ x.read \in {rec, Card!NoRecord} /\ x.pc \in {"verify", "done"}
    BY <1>0, <2>3, <2>4, CardGoesOn, CardEndsHere
  <2> QED
    BY <1>0, <2>2, <2>3, <2>4, <2>5, NextSaved DEF Posting
<1>3. CASE Card!ReadAfter(o)
  <2> DEFINE rec == Card!With(old, "confirmed")
  <2>1. rec \in Named /\ rec.phase = "confirmed" /\ rec.req = old.req /\ rec.kind = old.kind
    BY <1>0, Rephased DEF Card!Phases
  <2>2. Card!End(o) /\ UNCHANGED <<external, ready, visit, net, chain, changes, asked>>
    BY <1>3 DEF Card!ReadAfter, Card!world
  <2>3. \/ /\ "Executed" \in Card!Seen(rec.req)
           /\ Card!saveOperation(o, rec) /\ Card!applyConfirmed(ops[o].tab, rec)
        \/ UNCHANGED <<record, view, late, rows, marks>>
    BY <1>3 DEF Card!ReadAfter
  <2> HIDE DEF rec
  <2>4. PICK x : /\ ops' = [ops EXCEPT ![o] = x] /\ CardCallOK(o, x, chain)
                 /\ x.read = Card!NoRecord /\ x.pc = "done"
    BY <2>2, CardEndsHere
  <2>5. CASE UNCHANGED <<record, view, late, rows, marks>>
    BY <1>0, <2>2, <2>4, <2>5, CardCallMoves DEF Posting
  <2>6. CASE /\ "Executed" \in Card!Seen(rec.req)
             /\ Card!saveOperation(o, rec) /\ Card!applyConfirmed(ops[o].tab, rec)
    <3>1. chain[rec.req] = "Executed"
      BY <2>6, SeenTrue
    <3> QED
      BY <1>0, <2>1, <2>2, <2>4, <2>6, <3>1, NextSaved DEF Posting
  <2> QED
    BY <2>3, <2>5, <2>6
<1>4. CASE Card!Recheck(o)
  <2>1. PICK s \in Card!Seen(old.req) : /\ Card!saveOperation(o, Card!rephased(old, s))
                                        /\ Card!applyConfirmed(ops[o].tab, Card!rephased(old, s))
    BY <1>4 DEF Card!Recheck
  <2>2. Card!End(o) /\ UNCHANGED <<external, ready, visit, net, chain, changes, asked>>
    BY <1>4 DEF Card!Recheck, Card!world
  <2> DEFINE rec == Card!rephased(old, s)
             phase == CASE s = "Executed" -> "confirmed" [] s = "Cancelled" -> "cancelled"
                        [] old.phase = "creating" -> "created" [] OTHER -> old.phase
  <2>3. /\ phase \in Card!Phases
        /\ phase = "confirmed" => s = "Executed" \/ old.phase = "confirmed"
        /\ phase = "cancelled" => s = "Cancelled" \/ old.phase = "cancelled"
        /\ phase \in {"creating", "created"} => old.phase \in {"creating", "created"}
    BY <1>0 DEF Card!Phases, Named
  <2>4. rec = Card!With(old, phase)
    BY DEF Card!rephased
  <2> HIDE DEF phase
  <2>5. rec \in Named /\ rec.phase = phase /\ rec.req = old.req /\ rec.kind = old.kind
    BY <1>0, <2>3, <2>4, Rephased
  <2>6. Card!saveOperation(o, rec) /\ Card!applyConfirmed(ops[o].tab, rec)
    BY <2>1
  <2> HIDE DEF rec
  <2>7. /\ old.phase = "confirmed" => chain[old.req] = "Executed"
        /\ old.phase = "cancelled" => chain[old.req] = "Cancelled"
    <3>1. old = ops[o].read
      BY <1>0, CardCallParts DEF CardCallOK
    <3>2. Truthful(ops[o].read, net, chain)
      BY DEF CardInv, RecordsTrue
    <3>3. old # Card!NoRecord
      BY <1>0 DEF Named, Card!NoRecord, Card!Kinds
    <3> QED
      BY <3>1, <3>2, <3>3 DEF Truthful
  <2>8. /\ rec.phase = "confirmed" => chain[rec.req] = "Executed"
        /\ rec.phase = "cancelled" => chain[rec.req] = "Cancelled"
    BY <2>3, <2>5, <2>7, SeenTrue
  <2>9. PICK x : /\ ops' = [ops EXCEPT ![o] = x] /\ CardCallOK(o, x, chain)
                 /\ x.read = Card!NoRecord /\ x.pc = "done"
    BY <2>2, CardEndsHere
  <2>10. rec.phase \in {"creating", "created"} => old.phase \in {"creating", "created"}
    BY <2>3, <2>5
  <2> QED
    BY <1>0, <2>2, <2>5, <2>6, <2>8, <2>9, <2>10, NextSaved DEF Posting
<1> QED
  BY <1>1, <1>2, <1>3, <1>4

\* The finalized read before the submission, and the submission itself.
LEMMA SubmissionStep ==
    ASSUME CardInv, EscrowAssumption, NEW o \in Ops, Card!ReadBefore(o)
    PROVE  CardInv'
<1> DEFINE old == ops[o].rec
<1>0. /\ ops[o].pc \in Holding /\ old \in Named /\ ready \in [Tabs -> Ops \cup {0}]
      /\ net \subseteq CardMessages /\ old.phase = "created"
      /\ UNCHANGED <<external, ready, visit, chain, changes>>
  BY CardCallParts DEF Card!ReadBefore, Holding, CardCallOK, CardInv, CardTyped
<1>1. ASSUME NEW s \in Card!Seen(old.req), s \in {"Executed", "Cancelled"},
             NEW phase, phase = IF s = "Executed" THEN "confirmed" ELSE "cancelled",
             Card!saveOperation(o, Card!With(old, phase)),
                 Card!applyConfirmed(ops[o].tab, Card!With(old, phase)),
             Card!End(o), UNCHANGED <<net, asked>>
      PROVE  CardInv'
  <2> DEFINE rec == Card!With(old, phase)
  <2>1. /\ rec \in Named /\ rec.phase = phase /\ rec.req = old.req /\ rec.kind = old.kind
        /\ phase \in {"confirmed", "cancelled"}
    BY <1>0, <1>1, Rephased DEF Card!Phases
  <2>2. Card!saveOperation(o, rec) /\ Card!applyConfirmed(ops[o].tab, rec)
    BY <1>1
  <2> HIDE DEF rec
  <2>3. /\ rec.phase = "confirmed" => chain[rec.req] = "Executed"
        /\ rec.phase = "cancelled" => chain[rec.req] = "Cancelled"
    BY <1>1, <2>1, SeenTrue
  <2>4. PICK x : /\ ops' = [ops EXCEPT ![o] = x] /\ CardCallOK(o, x, chain)
                 /\ x.read = Card!NoRecord /\ x.pc = "done"
    BY <1>1, CardEndsHere
  <2> QED
    BY <1>0, <1>1, <2>1, <2>2, <2>3, <2>4, NextSaved DEF Posting
<1>2. ASSUME Card!End(o), UNCHANGED <<external, record, view, marks, rows, net, asked, late>>
      PROVE  CardInv'
  <2>1. PICK x : /\ ops' = [ops EXCEPT ![o] = x] /\ CardCallOK(o, x, chain)
                 /\ x.read = Card!NoRecord /\ x.pc = "done"
    BY <1>2, CardEndsHere
  <2> QED
    BY <1>0, <1>2, <2>1, CardCallMoves DEF Posting
<1> DEFINE rec == Card!With(old, "executing")
           call == [op |-> o, req |-> old.req, kind |-> old.kind, what |-> "execute",
                    landed |-> FALSE]
<1>3. ASSUME Card!saveOperation(o, rec), net' = net \cup {call},
             asked' = [asked EXCEPT ![old.req] = @ + 1], Card!Goto(o, "submit", rec),
             UNCHANGED <<marks, rows>>
      PROVE  CardInv'
  <2>1. rec \in Named /\ rec.phase = "executing" /\ rec.req = old.req /\ rec.kind = old.kind
    BY <1>0, Rephased DEF Card!Phases
  <2>2. call \in CardMessages /\ call.what = "execute" /\ call.req = rec.req
    BY <1>0, <2>1 DEF CardMessages, Named
  <2> HIDE DEF rec, call
  <2>3. PICK x : /\ ops' = [ops EXCEPT ![o] = x] /\ CardCallOK(o, x, chain)
                 /\ x.read = rec /\ x.pc = "submit"
    BY <1>0, <1>3, <2>1, CardGoesOn
  <2>4. /\ net \subseteq net' /\ net' \subseteq CardMessages
        /\ \A m \in net' \ net : m.what = "execute" /\ m.req = rec.req
    BY <1>0, <1>3, <2>2
  <2>5. asked' = [asked EXCEPT ![rec.req] = @ + 1]
    BY <1>3, <2>1
  <2> QED
    BY <1>0, <1>3, <2>1, <2>3, <2>4, <2>5, NextSaved DEF Posting
<1>4. PICK s \in Card!Seen(old.req) :
         \/ /\ s \in {"Executed", "Cancelled"}
            /\ LET now == Card!With(old, IF s = "Executed" THEN "confirmed" ELSE "cancelled")
               IN  Card!saveOperation(o, now) /\ Card!applyConfirmed(ops[o].tab, now)
            /\ Card!End(o) /\ UNCHANGED <<net, asked>>
         \/ Card!End(o) /\ UNCHANGED <<external, record, view, marks, rows, net, asked, late>>
         \/ /\ Card!saveOperation(o, rec) /\ net' = net \cup {call}
            /\ asked' = [asked EXCEPT ![old.req] = @ + 1]
            /\ Card!Goto(o, "submit", rec) /\ UNCHANGED <<marks, rows>>
  BY DEF Card!ReadBefore
<1> HIDE DEF rec, call
<1> QED
  BY <1>1, <1>2, <1>3, <1>4

\* A signed action is saved and posted.  Nothing open is forgotten: the record
\* it replaces is over, or there was none.
LEMMA CardCreationStep ==
    ASSUME CardInv, EscrowAssumption, NEW o \in Ops, Card!PostCreate(o)
    PROVE  CardInv'
<1> DEFINE rec == ops[o].rec
           call == [op |-> o, req |-> o, kind |-> rec.kind, what |-> "create", landed |-> FALSE]
           x == [ops[o] EXCEPT !.pc = "create", !.rec = rec, !.read = rec]
<1>0. /\ CardTyped /\ RecordsTrue /\ CardCalled /\ CardCreated /\ CardAsked
         /\ Card!OneOpenRequest /\ Card!MarkedTrue
      /\ ops[o] \in CardCalls /\ ops[o].pc = "sign" /\ ops[o].tab \in Tabs
      /\ rec \in Named /\ rec.req = o /\ rec.phase = "creating"
      /\ ops[o].read = Card!NoRecord
          \/ (ops[o].read \in Named /\ chain[ops[o].read.req] \in CardOver)
  BY CardCallParts DEF CardInv, CardCallOK, Posting, Card!PostCreate
<1>1. /\ Card!saveOperation(o, rec) /\ net' = net \cup {call} /\ ops' = [ops EXCEPT ![o] = x]
      /\ ready' = [ready EXCEPT ![ops[o].tab] = IF Card!Mounted(o) THEN 0 ELSE @]
      /\ UNCHANGED <<external, marks, rows, visit, chain, changes, asked>>
  BY CardCallParts DEF Card!PostCreate, Card!Goto
<1>2. /\ call \in CardMessages /\ call.what = "create" /\ call.req = o /\ call.op = o
      /\ call.kind = rec.kind
  BY <1>0 DEF CardMessages, Named
<1>3. x \in CardCalls /\ x.pc = "create" /\ x.rec = rec /\ x.read = rec /\ x.tab = ops[o].tab
  <2>1. rec \in Card!Records
    BY <1>0 DEF Card!Records, Named
  <2> QED
    BY <1>0, <2>1 DEF CardCalls, Card!Pcs
<1> HIDE DEF call, x
<1>4. /\ record' = rec /\ view' \in [Tabs -> Card!Records] /\ late' \in BOOLEAN
      /\ \A t \in Tabs : view'[t] \in {view[t], rec}
      /\ ~late' => ~late /\ record = ops[o].read
  BY <1>0, <1>1, CardReplaced
<1>5. CardGrows(net, chain, net', chain')
  BY <1>1 DEF CardGrows
<1>6. CardCallOK(o, x, chain')
  BY <1>0, <1>1, <1>3 DEF CardCallOK, Posting, Holding
<1>7. /\ DOMAIN ops' = Ops /\ CardCalled' /\ ops'[o] = x
      /\ \A p \in Ops \ {o} : ops'[p] = ops[p]
  BY <1>0, <1>1, <1>5, <1>6, CardOneCall DEF CardTyped
<1>8. Truthful(record', net', chain')
  BY <1>0, <1>1, <1>2, <1>4 DEF Truthful
<1>9. RecordsTrue' /\ Card!MarkedTrue'
  <2>1. /\ \A t \in Tabs : view'[t] \in {view[t], record, record'}
        /\ \A p \in Ops : ops'[p].read \in {ops[p].read, record, record', Card!NoRecord}
    BY <1>3, <1>4, <1>7
  <2> QED
    BY <1>0, <1>1, <1>5, <1>8, <2>1, RecordsKept DEF CardTyped
<1>10. CardTyped'
  <2>1. record' \in Card!Records /\ net' \subseteq CardMessages
    BY <1>0, <1>1, <1>2, <1>4 DEF Card!Records, Named, CardTyped
  <2>2. ready' \in [Tabs -> Ops \cup {0}]
    BY <1>0, <1>1 DEF CardTyped
  <2> QED
    BY <1>0, <1>1, <1>4, <1>7, <2>1, <2>2 DEF CardTyped
<1>11. \A m \in net : m.what = "create" => m.op \in Ops \ {o}
  BY <1>0 DEF CardTyped, CardMessages, CardCreated, Posting
<1>12. CardCreated'
  <2>1. ASSUME NEW m \in net', m.what = "create"
        PROVE  m.op = m.req /\ ops'[m.op].pc \notin {"idle"} \cup Posting
    <3>1. CASE m = call
      BY <1>2, <1>3, <1>7, <3>1 DEF Posting
    <3>2. CASE m \in net
      BY <1>0, <1>7, <1>11, <2>1, <3>2 DEF CardCreated
    <3> QED
      BY <1>1, <3>1, <3>2
  <2> QED
    BY <2>1 DEF CardCreated
<1>13. asked[o] = 0
  <2>1. asked[o] \in Nat
    BY <1>0 DEF CardTyped
  <2>2. ~(\E m \in net : m.what = "create" /\ m.req = o)
    BY <1>0, <1>11 DEF CardCreated
  <2> QED
    BY <1>0, <2>1, <2>2 DEF CardAsked
<1>14. CardAsked'
  <2>1. \A q \in Ops : asked'[q] > 0 => \E m \in net' : m.what = "create" /\ m.req = q
    BY <1>0, <1>1 DEF CardAsked
  <2> QED
    BY <1>0, <1>1, <1>4, <1>13, <2>1 DEF CardAsked
<1>15. Card!OneOpenRequest'
  <2> SUFFICES ASSUME ~late', NEW q \in Ops, Card!Unresolved(q)' PROVE record'.req = q
    BY DEF Card!OneOpenRequest
  <2>1. PICK m \in net' : m.req = q /\ chain[q] \notin {"Executed", "Cancelled"}
    BY <1>1 DEF Card!Unresolved
  <2>2. CASE m = call
    BY <1>0, <1>2, <1>4, <2>1, <2>2
  <2>3. CASE m \in net
    <3>1. Card!Unresolved(q)
      BY <2>1, <2>3 DEF Card!Unresolved
    <3>2. record.req = q /\ record = ops[o].read
      BY <1>0, <1>4, <3>1 DEF Card!OneOpenRequest
    <3>3. record # Card!NoRecord
      BY <3>2, EscrowAssumption DEF Card!NoRecord, EscrowAssumption
    <3> QED
      BY <1>0, <2>1, <3>2, <3>3 DEF CardOver
  <2> QED
    BY <1>1, <2>2, <2>3
<1> QED
  BY <1>7, <1>9, <1>10, <1>12, <1>14, <1>15 DEF CardInv

\* Calls land late or never; members approve or cancel.
LEMMA ChainSteps ==
    ASSUME CardInv, EscrowAssumption, (\E m \in net : Card!Land(m))
           \/ (\E q \in Ops : Card!Vote(q))
    PROVE  CardInv'
<1>0. CardTyped /\ RecordsTrue /\ CardCalled /\ CardCreated /\ CardAsked
      /\ Card!OneOpenRequest /\ Card!MarkedTrue
  BY DEF CardInv
<1>1. UNCHANGED <<external, record, view, marks, rows, ready, visit, ops, changes, asked, late>>
  BY DEF Card!Land, Card!Vote, Card!card
<1>2. /\ chain' \in [Ops -> {"none", "Active", "Approved", "Executed", "Cancelled"}]
      /\ \A q \in Ops : chain[q] \in CardOver => chain'[q] = chain[q]
  <2>1. CASE \E m \in net : Card!Land(m)
    <3>1. PICK m \in net : Card!Land(m)
      BY <2>1
    <3>2. m.req \in Ops
      BY <1>0 DEF CardTyped, CardMessages
    <3> QED
      BY <1>0, <3>1, <3>2 DEF Card!Land, CardOver, CardTyped
  <2>2. CASE \E q \in Ops : Card!Vote(q)
    BY <1>0, <2>2 DEF Card!Vote, CardOver, CardTyped
  <2> QED
    BY <2>1, <2>2
<1>3. /\ net' \subseteq CardMessages
      /\ \A m \in net : \E n \in net' : /\ n.what = m.what /\ n.req = m.req /\ n.kind = m.kind
                                        /\ n.op = m.op
      /\ \A n \in net' : \E m \in net : n.what = m.what /\ n.req = m.req /\ n.op = m.op
  <2>1. CASE \E m \in net : Card!Land(m)
    <3>1. PICK m \in net : Card!Land(m)
      BY <2>1
    <3> DEFINE new == [m EXCEPT !.landed = TRUE]
    <3>2. net' = (net \ {m}) \cup {new} /\ m \in CardMessages
      BY <1>0, <3>1 DEF Card!Land, CardTyped
    <3>3. /\ new \in CardMessages /\ new.what = m.what /\ new.req = m.req /\ new.kind = m.kind
          /\ new.op = m.op
      BY <3>2 DEF CardMessages
    <3> HIDE DEF new
    <3>4. net' \subseteq CardMessages
      BY <1>0, <3>2, <3>3 DEF CardTyped
    <3> QED
      BY <3>2, <3>3, <3>4
  <2>2. CASE \E q \in Ops : Card!Vote(q)
    BY <1>0, <2>2 DEF Card!Vote, CardTyped
  <2> QED
    BY <2>1, <2>2
<1>4. CardGrows(net, chain, net', chain')
  BY <1>2, <1>3 DEF CardGrows
<1>5. CardCalled'
  <2>1. \A o \in Ops : CardCallOK(o, ops[o], chain')
    BY <1>0, <1>4, CardCallStays DEF CardCalled
  <2> QED
    BY <1>1, <2>1 DEF CardCalled
<1>6. RecordsTrue' /\ Card!MarkedTrue'
  <2>1. Truthful(record', net', chain')
    BY <1>0, <1>1, <1>4, TruthStays DEF RecordsTrue
  <2> QED
    BY <1>0, <1>1, <1>4, <2>1, RecordsKept DEF CardTyped
<1>7. CardTyped'
  BY <1>0, <1>1, <1>2, <1>3 DEF CardTyped
<1>8. CardCreated'
  BY <1>0, <1>1, <1>3 DEF CardCreated
<1>9. CardAsked'
  <2>1. \A q \in Ops : asked[q] > 0 => \E n \in net' : n.what = "create" /\ n.req = q
    BY <1>0, <1>3 DEF CardAsked
  <2> QED
    BY <1>0, <1>1, <2>1 DEF CardAsked
<1>10. Card!OneOpenRequest'
  <2> SUFFICES ASSUME ~late', NEW q \in Ops, Card!Unresolved(q)' PROVE record'.req = q
    BY DEF Card!OneOpenRequest
  <2>1. Card!Unresolved(q)
    BY <1>2, <1>3 DEF Card!Unresolved, CardOver
  <2> QED
    BY <1>0, <1>1, <2>1 DEF Card!OneOpenRequest
<1> QED
  BY <1>5, <1>6, <1>7, <1>8, <1>9, <1>10 DEF CardInv

-------------------------------------------------------------------------------
(* The theorems *)

\* A project nobody has acted on.
LEMMA CardStart ==
    ASSUME EscrowAssumption, Card!Init
    PROVE  CardInv
<1>1. CardTyped
  <2>1. /\ changes = 0 /\ 0 \in 0 .. MaxChanges /\ 0 \in 0 .. changes
        /\ visit = [t \in Tabs |-> [gen |-> 0, mount |-> 0]]
    BY DEF Card!Init, EscrowAssumption
  <2>2. visit \in [Tabs -> [gen : 0 .. changes, mount : 0 .. changes]]
    BY <2>1
  <2>3. Card!NoRecord \in Card!Records
    BY DEF Card!Records
  <2>4. record \in Card!Records /\ view \in [Tabs -> Card!Records]
        /\ rows \in [Tabs -> SUBSET Card!Kinds]
    BY <2>3 DEF Card!Init
  <2> QED
    BY <2>1, <2>2, <2>4 DEF Card!Init, CardTyped
<1>2. RecordsTrue
  BY DEF Card!Init, RecordsTrue, Truthful, Card!Idle
<1>3. CardCalled
  <2>1. Card!Idle = [pc |-> "idle", tab |-> 0, gen |-> 0, mount |-> 0, rec |-> Card!NoRecord,
                read |-> Card!NoRecord]
    BY DEF Card!Idle
  <2>2. 0 \in 0 .. MaxChanges
    BY DEF EscrowAssumption
  <2>3. \A o \in Ops : CardCallOK(o, Card!Idle, chain)
    BY <2>1, <2>2 DEF CardCallOK, CardCalls, Card!Pcs, Card!Records, Posting, Holding
  <2> QED
    BY <2>3 DEF Card!Init, CardCalled
<1>4. CardCreated
  BY DEF Card!Init, CardCreated
<1>5. CardAsked
  BY DEF Card!Init, CardAsked, Card!NoRecord
<1>6. Card!OneOpenRequest /\ Card!MarkedTrue
  BY DEF Card!Init, Card!OneOpenRequest, Card!Unresolved, Card!MarkedTrue
<1> QED
  BY <1>1, <1>2, <1>3, <1>4, <1>5, <1>6 DEF CardInv

\* Every handler, tab and call keeps the invariant.
LEMMA CardStep ==
    ASSUME EscrowAssumption, CardInv, Card!Next
    PROVE  CardInv'
BY CardSteps, TabSteps, CardReplySteps, SubmissionStep, CardCreationStep, ChainSteps DEF Card!Next

\* What the invariant says of the card: an escrow request is sent for execution
\* once and stays the one its saved record names while it is open, as long as no
\* handler overwrites a record that changed since it read it; and milestones are
\* marked released, projects returned, only when Solana executed a request.
LEMMA CardHolds ==
    ASSUME EscrowAssumption, CardInv
    PROVE  Card!TypeOK /\ Card!OneExecution /\ Card!OneOpenRequest /\ Card!MarkedTrue
<1>1. Card!OneExecution
  BY DEF CardInv, CardAsked, Card!OneExecution, Card!FirstExecutionOnly
<1>2. visit \in [Tabs -> [gen : 0 .. MaxChanges, mount : 0 .. MaxChanges]]
  <2>1. 0 .. changes \subseteq 0 .. MaxChanges
    BY DEF CardInv, CardTyped, EscrowAssumption
  <2> QED
    BY <2>1 DEF CardInv, CardTyped
<1>3. \A o \in Ops : ops[o].pc \in Card!Pcs /\ ops[o].rec \in Card!Records
      /\ ops[o].read \in Card!Records
  BY CardCallParts DEF CardCalls
<1>4. Card!TypeOK
  BY <1>2, <1>3 DEF CardInv, CardTyped, Card!TypeOK, CardMessages
<1> QED
  BY <1>1, <1>4 DEF CardInv

\* A step of the card keeps the invariant, and so does a pause.
LEMMA CardStays ==
    ASSUME EscrowAssumption, CardInv, [Card!Next]_Card!vars
    PROVE  CardInv'
<1>1. CASE Card!Next
  BY <1>1, CardStep
<1>2. CASE UNCHANGED Card!vars
  <2>1. (CardTyped /\ RecordsTrue /\ CardCalled /\ CardCreated)'
    BY <1>2 DEF Card!vars, CardInv, CardTyped, RecordsTrue, CardCalled, CardCreated
  <2>2. (CardAsked /\ Card!OneOpenRequest)'
    BY <1>2 DEF Card!vars, CardInv, CardAsked, Card!OneOpenRequest, Card!Unresolved
  <2>3. Card!MarkedTrue'
    BY <1>2 DEF Card!vars, CardInv, Card!MarkedTrue
  <2> QED
    BY <2>1, <2>2, <2>3 DEF CardInv
<1> QED
  BY <1>1, <1>2

\* Requests of the escrow card are executed and kept in sight once, and books are
\* kept of executed ones only, in every reachable state.
THEOREM EscrowAccountable ==
    ASSUME EscrowAssumption
    PROVE  Card!Spec => [](Card!TypeOK /\ Card!OneExecution /\ Card!OneOpenRequest
        /\ Card!MarkedTrue)
<1>1. Card!Init => CardInv
  BY CardStart
<1>2. CardInv /\ [Card!Next]_Card!vars => CardInv'
  BY CardStays
<1>3. CardInv => Card!TypeOK /\ Card!OneExecution /\ Card!OneOpenRequest /\ Card!MarkedTrue
  BY CardHolds
<1> QED
  BY <1>1, <1>2, <1>3, PTL DEF Card!Spec
===============================================================================
