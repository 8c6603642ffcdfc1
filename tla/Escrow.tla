------------------------------- MODULE Escrow -------------------------------
(***************************************************************************)
(* The escrow card of the treasury page (apps/web, features/treasury): it  *)
(* prepares a release or a return, has it signed, creates the request,     *)
(* executes it once it is approved and marks the milestone released or the *)
(* project returned.  One record in localStorage carries the request over  *)
(* reloads; every tab shows its own copy of it.                            *)
(*                                                                         *)
(* Each await is a step.  A tab may be reloaded or leave the page and come *)
(* back, in which case the old handler goes on; the account may be         *)
(* switched; calls may land late or never, and replies get lost.           *)
(***************************************************************************)
EXTENDS Naturals, FiniteSets

CONSTANTS
    Tabs,         \* browser tabs showing the card
    Ops,          \* handler calls of one behaviour; one that creates a
                  \* request gives it its number
    MaxChanges    \* bound on switches, remounts, reloads and new funders

VARIABLES
    external,  \* the project settles on another chain or privately
    record,    \* the EscrowOperation in localStorage, or NoRecord
    view,      \* operation: the record as each tab's card shows it
    marks,     \* milestone released, project returned: saved project row
    rows,      \* the same as each tab holds it
    ready,     \* prepared: the reviewed action of each tab's card, or 0
    visit,     \* lifetime and identity generation, and mount, of each tab
    ops,       \* the handler calls
    chain,     \* status of each request on Solana
    net,       \* calls handed to the backend
    changes,   \* switches, remounts, reloads and added funders so far
    asked,     \* history: executions asked for, per request
    late       \* history: a record was overwritten by one who had not read it

vars == <<external, record, view, marks, rows, ready, visit, ops, chain, net, changes,
          asked, late>>

card == <<view, rows, ready, visit>>
world == <<chain, net>>

Kinds == {"release", "return"}
Phases == {"creating", "created", "executing", "submitted", "unknown",
           "confirmed", "cancelled"}
NoRecord == [req |-> 0, kind |-> "none", phase |-> "none"]
Records == [req : Ops, kind : Kinds, phase : Phases] \cup {NoRecord}
Idle == [pc |-> "idle", tab |-> 0, gen |-> 0, mount |-> 0, rec |-> NoRecord, read |-> NoRecord]
Pcs == {"idle", "prepare", "ready", "sign", "create", "read", "submit", "verify", "recheck", "done"}

TypeOK ==
    /\ external \in BOOLEAN
    /\ record \in Records /\ view \in [Tabs -> Records]
    /\ marks \subseteq Kinds /\ rows \in [Tabs -> SUBSET Kinds]
    /\ ready \in [Tabs -> Ops \cup {0}]
    /\ visit \in [Tabs -> [gen : 0..MaxChanges, mount : 0..MaxChanges]]
    /\ \A o \in Ops : /\ ops[o].pc \in Pcs /\ ops[o].rec \in Records
                      /\ ops[o].read \in Records
    /\ chain \in [Ops -> {"none", "Active", "Approved", "Executed", "Cancelled"}]
    /\ net \subseteq [op : Ops, req : Ops, kind : Kinds, what : {"create", "execute"}, landed : BOOLEAN]
    /\ changes \in 0..MaxChanges /\ asked \in [Ops -> Nat] /\ late \in BOOLEAN

Init ==
    /\ external \in BOOLEAN
    /\ record = NoRecord /\ view = [t \in Tabs |-> NoRecord]
    /\ marks = {} /\ rows = [t \in Tabs |-> {}]
    /\ ready = [t \in Tabs |-> 0]
    /\ visit = [t \in Tabs |-> [gen |-> 0, mount |-> 0]]
    /\ ops = [o \in Ops |-> Idle]
    /\ chain = [o \in Ops |-> "none"] /\ net = {}
    /\ changes = 0 /\ asked = [o \in Ops |-> 0] /\ late = FALSE

-----------------------------------------------------------------------------
(* What the card allows *)

Current(o) == ops[o].gen = visit[ops[o].tab].gen
Mounted(o) == ops[o].mount = visit[ops[o].tab].mount

InFlight(t) == \E o \in Ops :
    /\ ops[o].tab = t /\ Mounted(o)
    /\ ops[o].pc \in {"sign", "create", "read", "submit", "verify", "recheck"}

alreadyRecorded(t) ==
    \/ view[t].phase = "cancelled"
    \/ view[t].phase = "confirmed" /\ ~external /\ view[t].kind \in rows[t]

blocked(t) == (view[t] # NoRecord /\ ~alreadyRecorded(t)) \/ InFlight(t)

\* The first milestone still planned is offered for release; what was funded
\* and not released can be returned.
Offered(t, k) == k = "release" => "release" \notin rows[t]

-----------------------------------------------------------------------------
(* saveOperation and the finalized reads *)

\* saveEscrowOperation writes and reads back; setOperation reaches the card
\* only while the caller's card is mounted.
saveOperation(o, rec) ==
    /\ record' = rec
    /\ late' = (late \/ record # ops[o].read)
    /\ view' = IF Mounted(o) THEN [view EXCEPT ![ops[o].tab] = rec] ELSE view

Goto(o, pc, rec) == ops' = [ops EXCEPT ![o].pc = pc, ![o].rec = rec, ![o].read = rec]
End(o) == ops' = [ops EXCEPT ![o] = [Idle EXCEPT !.pc = "done"]]

\* readEscrowEvidence: the finalized status may lag behind the chain.
Seen(q) == {chain[q]} \cup (IF chain[q] = "Executed" THEN {"Approved"} ELSE {})
                      \cup (IF chain[q] = "Approved" THEN {"Active"} ELSE {})

With(rec, phase) == [rec EXCEPT !.phase = phase]

\* applyConfirmed: onRelease or onUpdate rewrite the saved project from the
\* rows of this tab.
applyConfirmed(t, rec) ==
    IF rec.phase = "confirmed" /\ ~external
    THEN /\ rows' = [rows EXCEPT ![t] = @ \cup {rec.kind}]
         /\ marks' = rows'[t]
    ELSE UNCHANGED <<rows, marks>>

-----------------------------------------------------------------------------
(* Handlers *)

\* A handler call takes the next free number.
Start(o, t, pc, rec) ==
    /\ ops[o].pc = "idle" /\ \A p \in Ops : p < o => ops[p].pc # "idle"
    /\ ops' = [ops EXCEPT ![o] = [pc |-> pc, tab |-> t, gen |-> visit[t].gen,
                                  mount |-> visit[t].mount, rec |-> rec, read |-> record]]

\* prepareRelease and prepareReturn up to their preview and preparation.
Prepare(o, t, k) ==
    /\ ~blocked(t) /\ Offered(t, k)
    /\ Start(o, t, "prepare", [req |-> o, kind |-> k, phase |-> "creating"])
    /\ UNCHANGED <<external, record, marks, card, world, changes, asked, late>>

Prepared(o) ==
    /\ ops[o].pc = "prepare"
    /\ Current(o)
    /\ ready' = [ready EXCEPT ![ops[o].tab] = o]
    /\ ops' = [ops EXCEPT ![o].pc = "ready"]
    /\ UNCHANGED <<external, record, view, marks, rows, visit, world, changes, asked, late>>

Dismiss(t) ==
    /\ ready[t] # 0 /\ ~InFlight(t)
    /\ ready' = [ready EXCEPT ![t] = 0]
    /\ UNCHANGED <<external, record, view, marks, rows, visit, ops, world, changes, asked, late>>

\* approvePrepared up to the signature.
Approve(t) ==
    LET o == ready[t] IN
    /\ o # 0 /\ ops[o].pc = "ready" /\ ~blocked(t)
    /\ record # NoRecord => alreadyRecorded(t) /\ record.req = view[t].req
    /\ Current(o)
    /\ ops' = [ops EXCEPT ![o].pc = "sign", ![o].read = record]
    /\ UNCHANGED <<external, record, marks, card, world, changes, asked, late>>

\* Signed: the request is saved as being created, then posted.
PostCreate(o) ==
    /\ ops[o].pc = "sign"
    /\ Current(o)
    /\ saveOperation(o, ops[o].rec)
    /\ ready' = [ready EXCEPT ![ops[o].tab] = IF Mounted(o) THEN 0 ELSE @]
    /\ net' = net \cup {[op |-> o, req |-> o, kind |-> ops[o].rec.kind,
                          what |-> "create", landed |-> FALSE]}
    /\ Goto(o, "create", ops[o].rec)
    /\ UNCHANGED <<external, marks, rows, visit, chain, changes, asked>>

\* The reply names the proposal: saved as created even if the page was left.
CreateReply(o) ==
    LET rec == With(ops[o].rec, "created") IN
    /\ ops[o].pc = "create"
    /\ \E m \in net : m.op = o /\ m.what = "create" /\ m.landed
    /\ saveOperation(o, rec)
    /\ IF Current(o) THEN Goto(o, "read", rec) ELSE End(o)
    /\ UNCHANGED <<external, marks, rows, ready, visit, world, changes, asked>>

\* resumeOperation: "Execute existing approved request", "Refresh execution status".
Resume(o, t, pc) ==
    /\ ~InFlight(t) /\ view[t] # NoRecord
    /\ pc = "read" => view[t].phase = "created"
    /\ record # NoRecord
    /\ Start(o, t, pc, record)
    /\ UNCHANGED <<external, record, marks, card, world, changes, asked, late>>

\* executeSavedEscrow: the finalized state before the submission.
ReadBefore(o) ==
    LET t == ops[o].tab
        rec == ops[o].rec
    IN
    /\ ops[o].pc = "read"
    /\ rec.phase = "created" /\ Current(o)
    /\ \E s \in Seen(rec.req) :
         \/ /\ s \in {"Executed", "Cancelled"}
            /\ LET now == With(rec, IF s = "Executed" THEN "confirmed" ELSE "cancelled")
               IN  saveOperation(o, now) /\ applyConfirmed(t, now)
            /\ End(o) /\ UNCHANGED <<net, asked>>
         \/ /\ s = "Active" /\ End(o)
            /\ UNCHANGED <<external, record, view, marks, rows, net, asked, late>>
         \/ /\ s = "Approved"
            /\ saveOperation(o, With(rec, "executing"))
            /\ net' = net \cup {[op |-> o, req |-> rec.req, kind |-> rec.kind,
                                 what |-> "execute", landed |-> FALSE]}
            /\ asked' = [asked EXCEPT ![rec.req] = @ + 1]
            /\ Goto(o, "submit", With(rec, "executing"))
            /\ UNCHANGED <<marks, rows>>
    /\ UNCHANGED <<external, ready, visit, chain, changes>>

\* The answer of the submission; without one the outcome is unknown.
SubmitReply(o) ==
    LET rec == ops[o].rec IN
    /\ ops[o].pc = "submit"
    /\ \/ /\ \E m \in net : m.op = o /\ m.what = "execute" /\ m.landed
          /\ saveOperation(o, With(rec, "submitted"))
          /\ Goto(o, "verify", With(rec, "submitted"))
       \/ /\ saveOperation(o, With(rec, "unknown"))
          /\ End(o)
    /\ UNCHANGED <<external, marks, rows, ready, visit, world, changes, asked>>

\* The finalized state after it; a failing read leaves it submitted.
ReadAfter(o) ==
    LET rec == With(ops[o].rec, "confirmed") IN
    /\ ops[o].pc = "verify"
    /\ End(o)
    /\ \/ /\ Current(o) /\ "Executed" \in Seen(rec.req)
          /\ saveOperation(o, rec) /\ applyConfirmed(ops[o].tab, rec)
       \/ UNCHANGED <<record, view, late, rows, marks>>
    /\ UNCHANGED <<external, ready, visit, world, changes, asked>>

\* Fault variant: a refresh puts an unresolved request back to created.
rephasedAnew(rec, s) ==
    With(rec, CASE s = "Executed" -> "confirmed" [] s = "Cancelled" -> "cancelled"
                [] OTHER -> "created")

\* The phase that a refresh gives to the record it read at its start.
rephased(rec, s) ==
    With(rec, CASE s = "Executed" -> "confirmed" [] s = "Cancelled" -> "cancelled"
                [] rec.phase = "creating" -> "created" [] OTHER -> rec.phase)

Recheck(o) ==
    LET rec == ops[o].rec IN
    /\ ops[o].pc = "recheck"
    /\ chain[rec.req] # "none" /\ Current(o)
    /\ \E s \in Seen(rec.req) :
          saveOperation(o, rephased(rec, s)) /\ applyConfirmed(ops[o].tab, rephased(rec, s))
    /\ End(o)
    /\ UNCHANGED <<external, ready, visit, world, changes, asked>>

\* Any await rejects, or a guard throws: the record stays as it is. After a
\* refused signature the prepared action can be approved again.
Fail(o) ==
    /\ ops[o].pc \in {"prepare", "sign", "create", "read", "recheck"}
    /\ IF ops[o].pc = "sign" THEN ops' = [ops EXCEPT ![o].pc = "ready"] ELSE End(o)
    /\ UNCHANGED <<external, record, marks, card, world, changes, asked, late>>

-----------------------------------------------------------------------------
(* The tab *)

\* addFunder reopens the project, whatever its request is doing.
AddFunder(t) ==
    /\ changes < MaxChanges /\ changes' = changes + 1
    /\ "return" \in rows[t]
    /\ rows' = [rows EXCEPT ![t] = @ \ {"return"}] /\ marks' = rows'[t]
    /\ UNCHANGED <<external, record, view, ready, visit, ops, world, asked, late>>

\* The storage event of another tab's write.
StorageEvent(t) ==
    /\ view[t] # record
    /\ Cardinality(Tabs) > 1
    /\ view' = [view EXCEPT ![t] = record]
    /\ UNCHANGED <<external, record, marks, rows, ready, visit, ops, world, changes, asked, late>>

Moved(t, mount) == visit' = [visit EXCEPT ![t].gen = @ + 1, ![t].mount = @ + mount]

SwitchAccount(t) ==
    /\ changes < MaxChanges /\ changes' = changes + 1
    /\ Moved(t, 0)
    /\ UNCHANGED <<external, record, view, marks, rows, ready, ops, world, asked, late>>

Opened(t) ==
    /\ changes < MaxChanges /\ changes' = changes + 1
    /\ Moved(t, 1)
    /\ view' = [view EXCEPT ![t] = record]
    /\ rows' = [rows EXCEPT ![t] = marks]
    /\ ready' = [ready EXCEPT ![t] = 0]

\* Leaving the page and coming back: the handlers of the old card go on.
Remount(t) == Opened(t) /\ UNCHANGED <<external, record, marks, ops, world, asked, late>>

Reload(t) ==
    /\ Opened(t)
    /\ ops' = [o \in Ops |-> IF ops[o].tab = t THEN [Idle EXCEPT !.pc = "done"] ELSE ops[o]]
    /\ UNCHANGED <<external, record, marks, world, asked, late>>

-----------------------------------------------------------------------------
(* The backend and the chain *)

Land(m) ==
    /\ ~m.landed
    /\ \/ m.what = "create" /\ chain[m.req] = "none"
          /\ chain' = [chain EXCEPT ![m.req] = "Active"]
       \/ m.what = "execute" /\ chain[m.req] = "Approved"
          /\ chain' = [chain EXCEPT ![m.req] = "Executed"]
    /\ net' = (net \ {m}) \cup {[m EXCEPT !.landed = TRUE]}
    /\ UNCHANGED <<external, record, marks, card, ops, changes, asked, late>>

\* Members approve or cancel a request.
Vote(q) ==
    /\ \/ chain[q] = "Active" /\ chain' = [chain EXCEPT ![q] = "Approved"]
       \/ chain[q] \in {"Active", "Approved"} /\ chain' = [chain EXCEPT ![q] = "Cancelled"]
    /\ UNCHANGED <<external, record, marks, card, ops, net, changes, asked, late>>

Next ==
    \/ \E o \in Ops : \/ Prepared(o) \/ PostCreate(o) \/ CreateReply(o)
                      \/ ReadBefore(o) \/ SubmitReply(o) \/ ReadAfter(o)
                      \/ Recheck(o) \/ Fail(o) \/ Vote(o)
    \/ \E t \in Tabs : \/ Dismiss(t) \/ Approve(t) \/ AddFunder(t) \/ StorageEvent(t)
                       \/ SwitchAccount(t) \/ Remount(t) \/ Reload(t)
    \/ \E o \in Ops, t \in Tabs : \/ \E k \in Kinds : Prepare(o, t, k)
                                  \/ \E pc \in {"read", "recheck"} : Resume(o, t, pc)
    \/ \E m \in net : Land(m)

Spec == Init /\ [][Next]_vars

-----------------------------------------------------------------------------
(* Properties *)

\* "An explicit first execution only": the browser asks for the execution of
\* an escrow request once, whatever gets lost (executeSavedEscrow).
FirstExecutionOnly == \A q \in Ops : asked[q] <= 1

\* The same as long as nobody overwrites a record that changed since they
\* read it.
OneExecution == late \/ FirstExecutionOnly

\* A posted request whose outcome is open is the one the record names: no
\* second release or return is created while the first may still be paid.
Unresolved(q) == \E m \in net : m.req = q /\ chain[q] \notin {"Executed", "Cancelled"}
OneOpenRequest == late \/ \A q \in Ops : Unresolved(q) => record.req = q

\* A milestone is marked released, and a project returned, only after a
\* request of that kind was executed on Solana.
MarkedTrue == \A k \in marks \cup UNION {rows[t] : t \in Tabs} :
    \E m \in net : m.kind = k /\ chain[m.req] = "Executed"
=============================================================================
