---------------------------- MODULE DeliveryProofs ----------------------------
(***************************************************************************)
(* Theorems about Delivery, for every number of workers, processes and     *)
(* executions: over the shared store for every choice of time limits in    *)
(* which the lease outlasts a broadcast, or a whole run; and over either   *)
(* store for the threads of one process.                                   *)
(***************************************************************************)
EXTENDS Delivery, TLAPS

-------------------------------------------------------------------------------
(* Type correctness *)

\* The time limits and the records a worker copies have their types.
LEMMA LimitTypes ==
    /\ LeaseTTL \in Nat /\ StoreLimit \in Nat /\ ProbeLimit \in Nat /\ SubmitLimit \in Nat
    /\ \A step \in PCs : Limit(step) \in Nat /\ Rest(step) \in Nat
    /\ NoReceipt \in Receipts
    /\ \A r \in Receipts : Prepare(r) \in Receipts /\ Prepare(r).attempts > 0
<1>1. LeaseTTL \in Nat /\ StoreLimit \in Nat /\ ProbeLimit \in Nat /\ SubmitLimit \in Nat
  BY DeliveryAssumption
<1>2. \A step \in PCs : Limit(step) \in Nat
  BY <1>1 DEF Limit, PCs
<1>3. \A step \in PCs : Rest(step) \in Nat
  BY <1>1 DEF Rest, PCs
<1>4. NoReceipt \in Receipts
  BY DeliveryAssumption DEF NoReceipt, Receipts
<1>5. \A r \in Receipts : Prepare(r) \in Receipts /\ Prepare(r).attempts > 0
  BY DeliveryAssumption DEF Prepare, Receipts, DeliveryStates
<1> QED
  BY <1>1, <1>2, <1>3, <1>4, <1>5

\* Moving a worker to a step, or ending its run, keeps the control state typed.
LEMMA GotoType ==
    ASSUME TypeOK, NEW w \in Workers, NEW step \in PCs, Goto(w, step)
    PROVE  /\ pc' \in [Workers -> PCs]
           /\ left' \in [Workers -> Nat]
           /\ \A v \in Workers : left'[v] <= Limit(pc'[v])
BY LimitTypes DEF TypeOK, Goto

\* A worker that returns leaves its caller well formed.
LEMMA ReturnType ==
    ASSUME TypeOK, NEW w \in Workers, Return(w)
    PROVE  /\ pc' \in [Workers -> PCs]
           /\ left' \in [Workers -> Nat]
           /\ rcpt' \in [Workers -> Receipts]
           /\ queried' \in [Workers -> BOOLEAN]
           /\ \A v \in Workers : left'[v] <= Limit(pc'[v])
<1>1. "idle" \in PCs /\ Limit("idle") \in Nat
  BY LimitTypes DEF PCs
<1> QED
  BY <1>1, LimitTypes DEF TypeOK, Return

\* An execution whose receipt is saved is the last of the file.
LEMMA LatestTypes ==
    ASSUME order \in Seq(Executions), NEW e \in Executions
    PROVE  /\ Latest(e) \in Seq(Executions)
           /\ Len(Latest(e)) \in Nat \ {0}
           /\ (\E i \in 1 .. Len(order) : order[i] = e) => Len(Latest(e)) = Len(order)
           /\ Tail(Latest(e)) \in Seq(Executions)
<1> DEFINE moved == [i \in 1 .. Len(order) |->
                       IF i = Len(order) THEN e
                       ELSE IF \E j \in 1 .. i : order[j] = e THEN order[i + 1] ELSE order[i]]
<1>1. Len(order) \in Nat /\ \A i \in 1 .. Len(order) : order[i] \in Executions
  OBVIOUS
<1>2. CASE \E i \in 1 .. Len(order) : order[i] = e
  <2>1. \A i \in 1 .. Len(order) : moved[i] \in Executions
    <3> TAKE i \in 1 .. Len(order)
    <3>1. i # Len(order) => i + 1 \in 1 .. Len(order)
      BY <1>1
    <3> QED
      BY <1>1, <3>1
  <2>2. moved \in [1 .. Len(order) -> Executions]
    BY <2>1
  <2> HIDE DEF moved
  <2>3. moved \in Seq(Executions) /\ Len(moved) = Len(order)
    BY <1>1, <2>2
  <2>4. Latest(e) = moved
    BY <1>2 DEF Latest, moved
  <2>5. Len(order) # 0
    BY <1>1, <1>2
  <2> QED
    BY <1>1, <2>3, <2>4, <2>5
<1>3. CASE ~(\E i \in 1 .. Len(order) : order[i] = e)
  <2>1. Latest(e) = Append(order, e)
    BY <1>3 DEF Latest
  <2>2. /\ Append(order, e) \in Seq(Executions)
        /\ Len(Append(order, e)) \in Nat \ {0}
        /\ Tail(Append(order, e)) \in Seq(Executions)
    BY <1>1
  <2> QED
    BY <1>3, <2>1, <2>2
<1> QED
  BY <1>2, <1>3

\* A save leaves a store of the same shape.
LEMMA SaveTypes ==
    ASSUME TypeOK, NEW e \in Executions, NEW r \in Receipts, Save(e, r)
    PROVE  receipt' \in [Executions -> Receipts] /\ order' \in Seq(Executions)
<1>1. order \in Seq(Executions) /\ receipt \in [Executions -> Receipts] /\ NoReceipt \in Receipts
  BY LimitTypes DEF TypeOK
<1>2. Latest(e) \in Seq(Executions) /\ Tail(Latest(e)) \in Seq(Executions)
  BY <1>1, LatestTypes
<1>3. CASE Evicts(e)
  BY <1>1, <1>2, <1>3 DEF Save
<1>4. CASE ~Evicts(e)
  BY <1>1, <1>2, <1>4 DEF Save
<1> QED
  BY <1>3, <1>4

\* Over the shared store a save replaces one receipt and evicts none.
LEMMA SaveShared ==
    ASSUME Store = "upstash", NEW e, NEW r, Save(e, r)
    PROVE  receipt' = [receipt EXCEPT ![e] = r] /\ order' = order
BY DEF Save, Evicts

\* The states a worker may write are delivery states.
LEMMA AnswerTypes ==
    /\ \A e \in Executions : chain[e] \in ChainStates =>
         \A a \in Answers(e) : a \in {"NotFound", "error"} \cup DeliveryStates
    /\ \A reply : StateAfter(reply) \in DeliveryStates
<1>1. ASSUME NEW e \in Executions, chain[e] \in ChainStates, NEW a \in Answers(e)
      PROVE  a \in {"NotFound", "error"} \cup DeliveryStates
  BY <1>1 DEF ChainStates, Answers, DeliveryStates
<1>2. \A reply : StateAfter(reply) \in DeliveryStates
  BY DEF StateAfter, DeliveryStates
<1> QED
  BY <1>1, <1>2

\* Every step keeps the type invariant, over either store.
LEMMA TypeStep ==
    ASSUME TypeOK, [Next]_vars
    PROVE  TypeOK'
<1> USE DEF stored, network, worker
<1>0. shape' = shape /\ shape \in [Executions -> ResponseShapes]
  BY DEF Next, vars, TypeOK
<1> USE <1>0
<1>1. ASSUME NEW w \in Workers, NEW e \in Executions, Start(w, e) PROVE TypeOK'
  <2>1. Goto(w, "acquire") /\ "acquire" \in PCs
    BY <1>1 DEF Start, PCs
  <2> QED
    BY <1>1, <2>1, GotoType DEF Start, TypeOK
<1>2. ASSUME NEW w \in Workers, SendStep(w) PROVE TypeOK'
  <2>1. CASE Acquire(w)
    <3>1. [owner |-> w, ttl |-> LeaseTTL] \in Leases
      BY LimitTypes DEF Leases
    <3>2. lease' \in [Executions -> Leases]
      BY <2>1, <3>1 DEF Acquire, TypeOK, Leases
    <3>3. pc' \in [Workers -> PCs]
      BY <2>1 DEF Acquire, TypeOK, PCs
    <3>4. Limit("acquired") = Limit("acquire")
      BY DEF Limit
    <3>5. \A v \in Workers : left'[v] <= Limit(pc'[v])
      BY <2>1, <3>4 DEF Acquire, TypeOK
    <3> QED
      BY <2>1, <3>2, <3>3, <3>5 DEF Acquire, TypeOK, Leases
  <2>2. CASE Acquired(w) \/ LoadFails(w)
    <3>1. PICK step \in {"load", "release"} : Goto(w, step)
      BY <2>2 DEF Acquired, AcquireFile, LoadFails, Fail
    <3> QED
      BY <2>2, <3>1, GotoType DEF Acquired, AcquireFile, LoadFails, Fail, TypeOK, PCs
  <2>3. CASE AcquireLost(w) \/ AcquireRefused(w) \/ Release(w) \/ ReleaseLost(w)
    <3>1. Return(w)
      BY <2>3 DEF AcquireLost, AcquireRefused, Release, ReleaseLost
    <3>2. NoLease \in Leases
      BY LimitTypes DEF NoLease, Leases
    <3>3. [lease[exec[w]] EXCEPT !.owner = Leaked] \in Leases
      <4>1. lease[exec[w]] \in Leases
        BY DEF TypeOK
      <4> QED
        BY <4>1 DEF Leases
    <3>4. \/ lease' = lease
          \/ lease' = [lease EXCEPT ![exec[w]] = NoLease]
          \/ lease' = [lease EXCEPT ![exec[w]] = [lease[exec[w]] EXCEPT !.owner = Leaked]]
      <4>1. CASE AcquireLost(w)
        BY <4>1 DEF AcquireLost
      <4>2. CASE AcquireRefused(w)
        BY <4>2 DEF AcquireRefused
      <4>3. CASE Release(w)
        BY <4>3 DEF Release
      <4>4. CASE ReleaseLost(w)
        BY <4>4 DEF ReleaseLost
      <4> QED
        BY <2>3, <4>1, <4>2, <4>3, <4>4
    <3>5. lease' \in [Executions -> Leases]
      BY <3>2, <3>3, <3>4 DEF TypeOK
    <3> QED
      BY <2>3, <3>1, <3>5, ReturnType
         DEF AcquireLost, AcquireRefused, Release, ReleaseLost, TypeOK, Leases
  <2>4. CASE Load(w)
    <3>1. PICK step \in {"probe", "prepare"} : Goto(w, step)
      BY <2>4 DEF Load
    <3>2. rcpt' \in [Workers -> Receipts]
      <4>1. receipt[exec[w]] \in Receipts /\ Prepare(receipt[exec[w]]) \in Receipts
        BY LimitTypes DEF TypeOK
      <4> QED
        BY <2>4, <4>1 DEF Load, TypeOK
    <3> QED
      BY <2>4, <3>1, <3>2, GotoType DEF Load, TypeOK, PCs
  <2>5. CASE Probe(w)
    <3>1. PICK answer \in Answers(exec[w]) :
            \/ /\ answer = "NotFound"
               /\ queried' = [queried EXCEPT ![w] = TRUE]
               /\ rcpt' = [rcpt EXCEPT ![w] = Prepare(rcpt[w])]
               /\ Goto(w, "prepare")
            \/ /\ answer # "NotFound"
               /\ rcpt' = [rcpt EXCEPT ![w].state =
                             IF answer = "error" THEN "Unknown" ELSE answer]
               /\ Goto(w, "finish")
               /\ UNCHANGED queried
      BY <2>5 DEF Probe, MayBroadcast, Believes
    <3>2. PICK step \in {"prepare", "finish"} : Goto(w, step)
      BY <3>1
    <3>3. answer \in {"NotFound", "error"} \cup DeliveryStates
      BY AnswerTypes DEF TypeOK
    <3>4. rcpt' \in [Workers -> Receipts]
      <4>1. rcpt[w] \in Receipts /\ Prepare(rcpt[w]) \in Receipts
        BY LimitTypes DEF TypeOK
      <4>2. CASE answer = "NotFound"
        BY <3>1, <4>1, <4>2 DEF TypeOK
      <4>3. CASE answer # "NotFound"
        <5>1. (IF answer = "error" THEN "Unknown" ELSE answer) \in DeliveryStates
          BY <3>3, <4>3 DEF DeliveryStates
        <5> DEFINE st == IF answer = "error" THEN "Unknown" ELSE answer
        <5>2. [rcpt[w] EXCEPT !.state = st] \in Receipts
          BY <4>1, <5>1 DEF Receipts
        <5>3. rcpt' = [rcpt EXCEPT ![w] = [rcpt[w] EXCEPT !.state = st]]
          BY <3>1, <4>3
        <5> QED
          BY <5>2, <5>3 DEF TypeOK
      <4> QED
        BY <4>2, <4>3
    <3>5. queried' \in [Workers -> BOOLEAN]
      BY <3>1 DEF TypeOK
    <3>6. misled' \in [Executions -> BOOLEAN]
      BY <2>5 DEF Probe, Believes, TypeOK
    <3> QED
      BY <2>5, <3>2, <3>4, <3>5, <3>6, GotoType DEF Probe, TypeOK, PCs
  <2>6. CASE PersistPrepared(w) \/ PersistFinal(w) \/ PersistFails(w)
    <3>1. PICK step \in {"submit", "release"} : Goto(w, step)
      BY <2>6 DEF PersistPrepared, PersistFinal, PersistFails
    <3>2. exec[w] \in Executions /\ rcpt[w] \in Receipts
      BY DEF TypeOK
    <3>3. receipt' \in [Executions -> Receipts] /\ order' \in Seq(Executions)
      <4>1. CASE Save(exec[w], rcpt[w])
        BY <3>2, <4>1, SaveTypes
      <4>2. CASE UNCHANGED <<receipt, order>>
        BY <4>2 DEF TypeOK
      <4> QED
        BY <2>6, <4>1, <4>2 DEF PersistPrepared, PersistFinal, PersistFails
    <3> QED
      BY <2>6, <3>1, <3>3, GotoType
         DEF PersistPrepared, PersistFinal, PersistFails, TypeOK, PCs
  <2>7. CASE SubmitAccepted(w) \/ SubmitRefused(w) \/ SubmitLate(w)
    <3>1. PICK reply : Replied(w, reply)
      BY <2>7 DEF SubmitAccepted, SubmitRefused, SubmitLate
    <3>2. PICK step \in {"reprobe", "finish"} : Goto(w, step)
      BY <3>1 DEF Replied
    <3>3. rcpt' \in [Workers -> Receipts]
      BY <3>1, AnswerTypes DEF Replied, TypeOK, Receipts
    <3>4. /\ chain' \in [Executions -> ChainStates]
          /\ late' \in [Executions -> BOOLEAN]
          /\ sent' \in [Executions -> BOOLEAN]
          /\ misled' \in [Executions -> BOOLEAN]
      <4>1. CASE SubmitAccepted(w)
        BY <4>1 DEF SubmitAccepted, TypeOK, ChainStates
      <4>2. CASE SubmitRefused(w) \/ SubmitLate(w)
        BY <4>2 DEF SubmitRefused, SubmitLate, TypeOK
      <4> QED
        BY <2>7, <4>1, <4>2
    <3> QED
      BY <3>1, <3>2, <3>3, <3>4, <2>7, GotoType
         DEF Replied, SubmitAccepted, SubmitRefused, SubmitLate, TypeOK, PCs
  <2>8. CASE Reprobe(w)
    <3>1. PICK answer \in Answers(exec[w]) :
            rcpt' = [rcpt EXCEPT ![w].state =
                       IF answer \in {"NotFound", "error"} THEN "Unknown" ELSE answer]
      BY <2>8 DEF Reprobe
    <3>2. answer \in {"NotFound", "error"} \cup DeliveryStates
      BY AnswerTypes DEF TypeOK
    <3>3. rcpt' \in [Workers -> Receipts]
      BY <3>1, <3>2 DEF TypeOK, Receipts, DeliveryStates
    <3> QED
      BY <2>8, <3>3, GotoType DEF Reprobe, TypeOK, PCs
  <2> QED
    BY <1>2, <2>1, <2>2, <2>3, <2>4, <2>5, <2>6, <2>7, <2>8 DEF SendStep
<1>3. ASSUME NEW e \in Executions, Mine(e) \/ LateArrival(e) PROVE TypeOK'
  BY <1>3 DEF Mine, LateArrival, TypeOK, ChainStates
<1>4. ASSUME NEW p, Crash(p) PROVE TypeOK'
  <2>1. "idle" \in PCs /\ Limit("idle") \in Nat
    BY LimitTypes DEF PCs
  <2> QED
    <3>1. lease' \in [Executions -> Leases]
      <4>1. \A e \in Executions : [lease[e] EXCEPT !.owner = Leaked] \in Leases
        BY DEF Leases, TypeOK
      <4> QED
        BY <1>4, <4>1 DEF Crash, TypeOK, Leases
    <3>2. /\ pc' \in [Workers -> PCs]
          /\ left' \in [Workers -> Nat]
          /\ rcpt' \in [Workers -> Receipts]
          /\ queried' \in [Workers -> BOOLEAN]
      BY <1>4, <2>1, LimitTypes DEF Crash, TypeOK
    <3>3. \A v \in Workers : left'[v] <= Limit(pc'[v])
      BY <1>4, <2>1 DEF Crash, TypeOK
    <3> QED
      BY <1>4, <3>1, <3>2, <3>3 DEF Crash, TypeOK, Leases
<1>5. CASE Tick
  <2>1. \A l \in Leases : Elapse(l) \in Leases
    BY LimitTypes DEF Elapse, NoLease, Leases
  <2> QED
    BY <1>5, <2>1, LimitTypes DEF Tick, TypeOK, Leases
<1>6. CASE UNCHANGED vars
  BY <1>6 DEF vars, TypeOK
<1> QED
  BY <1>1, <1>2, <1>3, <1>4, <1>5, <1>6 DEF Next

-------------------------------------------------------------------------------
(* The lease covers a run until its broadcast has ended *)

Early == {"acquired", "load", "probe", "prepare", "submit"}

\* The lease that a worker relies on is not touched by the steps of others.
LEMMA OthersKeepLease ==
    ASSUME TypeOK, LeaseCovers,
           NEW w \in Workers, SendStep(w),
           NEW v \in Workers, v # w,
           lease[exec[v]].owner = v, lease[exec[v]].ttl > 0
    PROVE  lease'[exec[v]] = lease[exec[v]]
<1> USE DEF stored, network, worker
<1>1. lease[exec[v]].owner = v /\ lease[exec[v]].ttl > 0
  OBVIOUS
<1>2. exec[v] \in Executions /\ exec[w] \in Executions
  BY DEF TypeOK
<1>3. lease \in [Executions -> Leases]
  BY DEF TypeOK
<1>4. CASE Acquire(w)
  BY <1>1, <1>2, <1>3, <1>4 DEF Acquire, LeaseFree
<1>5. CASE AcquireLost(w)
  <2>1. lease[exec[w]].owner = w
    BY <1>5 DEF AcquireLost, LeaseCovers
  <2> QED
    BY <1>1, <1>2, <1>3, <1>5, <2>1 DEF AcquireLost
<1>6. CASE Release(w) \/ ReleaseLost(w)
  BY <1>1, <1>2, <1>3, <1>6 DEF Release, ReleaseLost, TokenMatches
<1>7. CASE lease' = lease
  BY <1>7
<1> QED
  BY <1>4, <1>5, <1>6, <1>7 DEF SendStep, Acquired, AcquireRefused, AcquireFile,
     Load, LoadFails, Fail, Probe, PersistPrepared, PersistFinal, PersistFails,
     SubmitAccepted, SubmitRefused, SubmitLate, Replied, Reprobe

\* A step of send moves only its own worker.
LEMMA SendStepLocal ==
    ASSUME TypeOK, NEW w \in Workers, SendStep(w)
    PROVE  /\ exec' = exec
           /\ \A v \in Workers \ {w} :
                /\ pc'[v] = pc[v] /\ left'[v] = left[v]
                /\ rcpt'[v] = rcpt[v] /\ queried'[v] = queried[v]
<1> USE DEF stored, network, worker
<1>1. CASE Acquire(w) \/ Acquired(w) \/ AcquireLost(w) \/ AcquireRefused(w)
  BY <1>1 DEF TypeOK, Acquire, Acquired, AcquireLost, AcquireRefused, AcquireFile, Goto, Return
<1>2. CASE Load(w) \/ LoadFails(w)
  BY <1>2 DEF TypeOK, Load, LoadFails, Fail, Goto
<1>3. CASE Probe(w)
  BY <1>3 DEF TypeOK, Probe, Goto
<1>4. CASE PersistPrepared(w) \/ PersistFinal(w) \/ PersistFails(w)
  BY <1>4 DEF TypeOK, PersistPrepared, PersistFinal, PersistFails, Goto
<1>5. CASE SubmitAccepted(w) \/ SubmitRefused(w) \/ SubmitLate(w)
  <2>1. PICK reply : Replied(w, reply)
    BY <1>5 DEF SubmitAccepted, SubmitRefused, SubmitLate
  <2> QED
    BY <2>1 DEF TypeOK, Replied, Goto
<1>6. CASE Reprobe(w)
  BY <1>6 DEF TypeOK, Reprobe, Goto
<1>7. CASE Release(w) \/ ReleaseLost(w)
  BY <1>7 DEF TypeOK, Release, ReleaseLost, Return
<1> QED
  BY <1>1, <1>2, <1>3, <1>4, <1>5, <1>6, <1>7 DEF SendStep

\* Every step keeps the lease of a run alive longer than the run can still take.
LEMMA CoversStep ==
    ASSUME LeaseOutlastsBroadcast, TypeOK, TypeOK', LeaseCovers, [Next]_vars
    PROVE  LeaseCovers'
<1> USE DEF stored, network, worker
<1> SUFFICES ASSUME NEW v \in Workers, pc'[v] \in Early
             PROVE  /\ lease'[exec'[v]].owner = v
                    /\ lease'[exec'[v]].ttl > left'[v] + Rest(pc'[v])
  BY DEF LeaseCovers, Early
<1>0. pc[v] \in Early =>
        /\ lease[exec[v]].owner = v
        /\ lease[exec[v]].ttl > left[v] + Rest(pc[v])
  BY DEF LeaseCovers, Early
<1>1. ASSUME NEW w \in Workers, NEW e \in Executions, Start(w, e)
      PROVE  /\ lease'[exec'[v]].owner = v
             /\ lease'[exec'[v]].ttl > left'[v] + Rest(pc'[v])
  <2>1. v # w
    BY <1>1 DEF Start, Goto, TypeOK, Early
  <2>2. pc'[v] = pc[v] /\ left'[v] = left[v] /\ exec'[v] = exec[v] /\ lease' = lease
    BY <1>1, <2>1 DEF Start, Goto, TypeOK
  <2> QED
    BY <1>0, <2>2
<1>2. ASSUME NEW w \in Workers, SendStep(w), v # w
      PROVE  /\ lease'[exec'[v]].owner = v
             /\ lease'[exec'[v]].ttl > left'[v] + Rest(pc'[v])
  <2>1. exec' = exec /\ pc'[v] = pc[v] /\ left'[v] = left[v]
    BY <1>2, SendStepLocal
  <2>2. lease'[exec[v]] = lease[exec[v]]
    <3>1. left[v] \in Nat /\ Rest(pc[v]) \in Nat /\ lease[exec[v]] \in Leases
      BY LimitTypes DEF TypeOK
    <3>2. lease[exec[v]].owner = v /\ lease[exec[v]].ttl > 0
      BY <1>0, <2>1, <3>1 DEF Leases
    <3> QED
      BY <1>2, <3>2, OthersKeepLease
  <2> QED
    BY <1>0, <2>1, <2>2
<1>3. ASSUME SendStep(v)
      PROVE  /\ lease'[exec'[v]].owner = v
             /\ lease'[exec'[v]].ttl > left'[v] + Rest(pc'[v])
  <2>1. exec' = exec /\ exec[v] \in Executions
    BY <1>3, SendStepLocal DEF TypeOK
  <2>2. left[v] \in Nat /\ lease[exec[v]].ttl \in Nat
    BY LimitTypes, <2>1 DEF TypeOK, Leases
  <2>3. CASE Acquire(v)
    <3>1. lease'[exec[v]] = [owner |-> v, ttl |-> LeaseTTL]
      BY <2>1, <2>3 DEF Acquire, TypeOK
    <3>2. pc'[v] = "acquired" /\ left'[v] = left[v] /\ left[v] <= StoreLimit
      BY <2>3 DEF Acquire, TypeOK, Limit
    <3>3. Rest("acquired") = 2 * StoreLimit + ProbeLimit + SubmitLimit
      BY DEF Rest
    <3> QED
      BY <2>1, <2>2, <3>1, <3>2, <3>3, LimitTypes DEF LeaseOutlastsBroadcast
  <2>4. ASSUME lease' = lease, pc[v] \in Early, NEW step \in Early, Goto(v, step),
               Limit(step) + Rest(step) <= Rest(pc[v])
        PROVE  /\ lease'[exec'[v]].owner = v
               /\ lease'[exec'[v]].ttl > left'[v] + Rest(pc'[v])
    <3>1. pc'[v] = step /\ left'[v] = Limit(step)
      BY <2>4 DEF Goto, TypeOK
    <3>2. Limit(step) \in Nat /\ Rest(step) \in Nat /\ Rest(pc[v]) \in Nat
      BY LimitTypes, <2>4 DEF Early, PCs, TypeOK
    <3> QED
      BY <1>0, <2>1, <2>2, <2>4, <3>1, <3>2
  <2>5. /\ Limit("load") + Rest("load") <= Rest("acquired")
        /\ Limit("probe") + Rest("probe") <= Rest("load")
        /\ Limit("prepare") + Rest("prepare") <= Rest("load")
        /\ Limit("prepare") + Rest("prepare") <= Rest("probe")
        /\ Limit("submit") + Rest("submit") <= Rest("prepare")
    BY LimitTypes DEF Limit, Rest
  <2>6. CASE Acquired(v)
    BY <2>4, <2>5, <2>6 DEF Acquired, AcquireFile, LeaseOutlastsBroadcast, Early
  <2>7. CASE Load(v)
    BY <2>4, <2>5, <2>7 DEF Load, Early
  <2>8. CASE Probe(v)
    <3>1. Goto(v, "prepare") \/ Goto(v, "finish")
      BY <2>8 DEF Probe
    <3>2. ~Goto(v, "finish")
      BY DEF Goto, TypeOK, Early
    <3> QED
      BY <2>4, <2>5, <2>8, <3>1, <3>2 DEF Probe, Early
  <2>9. CASE PersistPrepared(v)
    BY <2>4, <2>5, <2>9 DEF PersistPrepared, Early
  <2>10. pc'[v] \notin {"idle", "release", "finish", "reprobe"}
    BY DEF Early
  <2>11. ~(AcquireLost(v) \/ AcquireRefused(v) \/ Release(v) \/ ReleaseLost(v))
    BY <2>10 DEF AcquireLost, AcquireRefused, Release, ReleaseLost, Return, TypeOK
  <2>12. ~(LoadFails(v) \/ PersistFinal(v) \/ PersistFails(v) \/ Reprobe(v))
    BY <2>10 DEF LoadFails, Fail, PersistFinal, PersistFails, Reprobe,
       Goto, TypeOK, LeaseOutlastsBroadcast
  <2>13. ~(SubmitAccepted(v) \/ SubmitRefused(v) \/ SubmitLate(v))
    <3>1. ASSUME NEW reply, Replied(v, reply) PROVE FALSE
      BY <2>10, <3>1 DEF Replied, Goto, TypeOK
    <3> QED
      BY <3>1 DEF SubmitAccepted, SubmitRefused, SubmitLate
  <2> QED
    BY <1>3, <2>3, <2>6, <2>7, <2>8, <2>9, <2>11, <2>12, <2>13 DEF SendStep
<1>4. ASSUME NEW e \in Executions, Mine(e) \/ LateArrival(e)
      PROVE  /\ lease'[exec'[v]].owner = v
             /\ lease'[exec'[v]].ttl > left'[v] + Rest(pc'[v])
  BY <1>0, <1>4 DEF Mine, LateArrival
<1>5. ASSUME NEW p, Crash(p)
      PROVE  /\ lease'[exec'[v]].owner = v
             /\ lease'[exec'[v]].ttl > left'[v] + Rest(pc'[v])
  <2>1. Process[v] # p /\ pc'[v] = pc[v] /\ left'[v] = left[v] /\ exec' = exec
    BY <1>5 DEF Crash, Early
  <2>2. exec[v] \in Executions /\ lease[exec[v]].owner = v
    BY <1>0, <2>1 DEF TypeOK
  <2>3. lease'[exec[v]] = lease[exec[v]]
    BY <1>5, <2>1, <2>2 DEF Crash
  <2> QED
    BY <1>0, <2>1, <2>3
<1>6. ASSUME Tick
      PROVE  /\ lease'[exec'[v]].owner = v
             /\ lease'[exec'[v]].ttl > left'[v] + Rest(pc'[v])
  <2>1. pc' = pc /\ exec' = exec /\ exec[v] \in Executions
    BY <1>6 DEF Tick, TypeOK
  <2>2. left[v] > 0 /\ left'[v] = left[v] - 1
    BY <1>6, <2>1 DEF Tick, TypeOK, Early
  <2>3. left[v] \in Nat /\ Rest(pc[v]) \in Nat /\ lease[exec[v]] \in Leases
    BY LimitTypes DEF TypeOK
  <2>4. lease[exec[v]].ttl > 1 /\ lease[exec[v]].ttl \in Nat
    BY <1>0, <2>1, <2>2, <2>3 DEF Leases
  <2>5. lease'[exec[v]] = [lease[exec[v]] EXCEPT !.ttl = lease[exec[v]].ttl - 1]
    BY <1>6, <2>1, <2>4 DEF Tick, Elapse
  <2> QED
    BY <1>0, <2>1, <2>2, <2>3, <2>4, <2>5 DEF Leases
<1>7. ASSUME UNCHANGED vars
      PROVE  /\ lease'[exec'[v]].owner = v
             /\ lease'[exec'[v]].ttl > left'[v] + Rest(pc'[v])
  BY <1>0, <1>7 DEF vars
<1> QED
  BY <1>1, <1>2, <1>3, <1>4, <1>5, <1>6, <1>7 DEF Next

-------------------------------------------------------------------------------
(* The lease covers a run until its last write *)

Run == {"acquired", "load", "probe", "prepare", "submit", "reprobe", "finish"}

\* Timeouts and what is left of a run are naturals.
LEMMA RunTypes ==
    /\ LeaseTTL \in Nat /\ StoreLimit \in Nat /\ ProbeLimit \in Nat /\ SubmitLimit \in Nat
    /\ \A step \in PCs : Limit(step) \in Nat /\ RunRest(step) \in Nat
<1>1. LeaseTTL \in Nat /\ StoreLimit \in Nat /\ ProbeLimit \in Nat /\ SubmitLimit \in Nat
  BY DeliveryAssumption
<1>2. \A step \in PCs : RunRest(step) \in Nat
  BY <1>1 DEF RunRest, PCs
<1> QED
  BY <1>1, <1>2, LimitTypes

\* The same up to the last write of a run, when the lease outlasts that.
LEMMA RunStep ==
    ASSUME LeaseOutlastsRun, TypeOK, TypeOK', LeaseCovers, RunCovers, [Next]_vars
    PROVE  RunCovers'
<1> USE DEF stored, network, worker
<1> SUFFICES ASSUME NEW v \in Workers, pc'[v] \in Run
             PROVE  /\ lease'[exec'[v]].owner = v
                    /\ lease'[exec'[v]].ttl > left'[v] + RunRest(pc'[v])
  BY DEF RunCovers, Run
<1>0. pc[v] \in Run =>
        /\ lease[exec[v]].owner = v
        /\ lease[exec[v]].ttl > left[v] + RunRest(pc[v])
  BY DEF RunCovers, Run
<1>1. ASSUME NEW w \in Workers, NEW e \in Executions, Start(w, e)
      PROVE  /\ lease'[exec'[v]].owner = v
             /\ lease'[exec'[v]].ttl > left'[v] + RunRest(pc'[v])
  <2>1. v # w
    BY <1>1 DEF Start, Goto, TypeOK, Run
  <2>2. pc'[v] = pc[v] /\ left'[v] = left[v] /\ exec'[v] = exec[v] /\ lease' = lease
    BY <1>1, <2>1 DEF Start, Goto, TypeOK
  <2> QED
    BY <1>0, <2>2
<1>2. ASSUME NEW w \in Workers, SendStep(w), v # w
      PROVE  /\ lease'[exec'[v]].owner = v
             /\ lease'[exec'[v]].ttl > left'[v] + RunRest(pc'[v])
  <2>1. exec' = exec /\ pc'[v] = pc[v] /\ left'[v] = left[v]
    BY <1>2, SendStepLocal
  <2>2. lease'[exec[v]] = lease[exec[v]]
    <3>1. left[v] \in Nat /\ RunRest(pc[v]) \in Nat /\ lease[exec[v]] \in Leases
      BY RunTypes DEF TypeOK
    <3>2. lease[exec[v]].owner = v /\ lease[exec[v]].ttl > 0
      BY <1>0, <2>1, <3>1 DEF Leases
    <3> QED
      BY <1>2, <3>2, OthersKeepLease
  <2> QED
    BY <1>0, <2>1, <2>2
<1>3. ASSUME SendStep(v)
      PROVE  /\ lease'[exec'[v]].owner = v
             /\ lease'[exec'[v]].ttl > left'[v] + RunRest(pc'[v])
  <2>1. exec' = exec /\ exec[v] \in Executions
    BY <1>3, SendStepLocal DEF TypeOK
  <2>2. left[v] \in Nat /\ lease[exec[v]].ttl \in Nat
    BY RunTypes, <2>1 DEF TypeOK, Leases
  <2>3. CASE Acquire(v)
    <3>1. lease'[exec[v]] = [owner |-> v, ttl |-> LeaseTTL]
      BY <2>1, <2>3 DEF Acquire, TypeOK
    <3>2. pc'[v] = "acquired" /\ left'[v] = left[v] /\ left[v] <= StoreLimit
      BY <2>3 DEF Acquire, TypeOK, Limit
    <3>3. RunRest("acquired") = 3 * StoreLimit + 2 * ProbeLimit + SubmitLimit
      BY DEF RunRest
    <3> QED
      BY <2>1, <2>2, <3>1, <3>2, <3>3, RunTypes DEF LeaseOutlastsRun
  <2>4. ASSUME lease' = lease, pc[v] \in Run, NEW step \in Run, Goto(v, step),
               Limit(step) + RunRest(step) <= RunRest(pc[v])
        PROVE  /\ lease'[exec'[v]].owner = v
               /\ lease'[exec'[v]].ttl > left'[v] + RunRest(pc'[v])
    <3>1. pc'[v] = step /\ left'[v] = Limit(step)
      BY <2>4 DEF Goto, TypeOK
    <3>2. Limit(step) \in Nat /\ RunRest(step) \in Nat /\ RunRest(pc[v]) \in Nat
      BY RunTypes, <2>4 DEF Run, PCs, TypeOK
    <3> QED
      BY <1>0, <2>1, <2>2, <2>4, <3>1, <3>2
  <2>5. /\ Limit("load") + RunRest("load") <= RunRest("acquired")
        /\ Limit("probe") + RunRest("probe") <= RunRest("load")
        /\ Limit("prepare") + RunRest("prepare") <= RunRest("load")
        /\ Limit("prepare") + RunRest("prepare") <= RunRest("probe")
        /\ Limit("submit") + RunRest("submit") <= RunRest("prepare")
        /\ Limit("finish") + RunRest("finish") <= RunRest("probe")
        /\ Limit("finish") + RunRest("finish") <= RunRest("submit")
        /\ Limit("finish") + RunRest("finish") <= RunRest("reprobe")
        /\ Limit("reprobe") + RunRest("reprobe") <= RunRest("submit")
    BY RunTypes DEF Limit, RunRest
  <2>6. CASE Acquired(v)
    BY <2>4, <2>5, <2>6 DEF Acquired, AcquireFile, LeaseOutlastsRun, Run
  <2>7. CASE Load(v)
    BY <2>4, <2>5, <2>7 DEF Load, Run
  <2>8. CASE Probe(v)
    <3>1. pc[v] = "probe" /\ lease' = lease
      BY <2>8 DEF Probe
    <3>2. Goto(v, "prepare") \/ Goto(v, "finish")
      BY <2>8 DEF Probe
    <3> QED
      BY <2>4, <2>5, <3>1, <3>2 DEF Run
  <2>9. CASE PersistPrepared(v)
    BY <2>4, <2>5, <2>9 DEF PersistPrepared, Run
  <2>10. pc'[v] \notin {"idle", "release"}
    BY DEF Run
  <2>11. ~(AcquireLost(v) \/ AcquireRefused(v) \/ Release(v) \/ ReleaseLost(v))
    BY <2>10 DEF AcquireLost, AcquireRefused, Release, ReleaseLost, Return, TypeOK
  <2>12. ~(LoadFails(v) \/ PersistFinal(v) \/ PersistFails(v))
    BY <2>10 DEF LoadFails, Fail, PersistFinal, PersistFails, Goto, TypeOK
  <2>13. CASE SubmitAccepted(v) \/ SubmitRefused(v) \/ SubmitLate(v)
    <3>1. pc[v] = "submit"
      BY <2>13 DEF SubmitAccepted, SubmitRefused, SubmitLate
    <3>2. PICK reply : Replied(v, reply)
      BY <2>13 DEF SubmitAccepted, SubmitRefused, SubmitLate
    <3>3. lease' = lease /\ (Goto(v, "reprobe") \/ Goto(v, "finish"))
      BY <3>2 DEF Replied
    <3> QED
      BY <2>4, <2>5, <3>1, <3>3 DEF Run
  <2>14. CASE Reprobe(v)
    BY <2>4, <2>5, <2>14 DEF Reprobe, Run
  <2> QED
    BY <1>3, <2>3, <2>6, <2>7, <2>8, <2>9, <2>11, <2>12, <2>13, <2>14 DEF SendStep
<1>4. ASSUME NEW e \in Executions, Mine(e) \/ LateArrival(e)
      PROVE  /\ lease'[exec'[v]].owner = v
             /\ lease'[exec'[v]].ttl > left'[v] + RunRest(pc'[v])
  BY <1>0, <1>4 DEF Mine, LateArrival
<1>5. ASSUME NEW p, Crash(p)
      PROVE  /\ lease'[exec'[v]].owner = v
             /\ lease'[exec'[v]].ttl > left'[v] + RunRest(pc'[v])
  <2>1. Process[v] # p /\ pc'[v] = pc[v] /\ left'[v] = left[v] /\ exec' = exec
    BY <1>5 DEF Crash, Run
  <2>2. exec[v] \in Executions /\ lease[exec[v]].owner = v
    BY <1>0, <2>1 DEF TypeOK
  <2>3. lease'[exec[v]] = lease[exec[v]]
    BY <1>5, <2>1, <2>2 DEF Crash
  <2> QED
    BY <1>0, <2>1, <2>3
<1>6. ASSUME Tick
      PROVE  /\ lease'[exec'[v]].owner = v
             /\ lease'[exec'[v]].ttl > left'[v] + RunRest(pc'[v])
  <2>1. pc' = pc /\ exec' = exec /\ exec[v] \in Executions
    BY <1>6 DEF Tick, TypeOK
  <2>2. left[v] > 0 /\ left'[v] = left[v] - 1
    BY <1>6, <2>1 DEF Tick, TypeOK, Run
  <2>3. left[v] \in Nat /\ RunRest(pc[v]) \in Nat /\ lease[exec[v]] \in Leases
    BY RunTypes DEF TypeOK
  <2>4. lease[exec[v]].ttl > 1 /\ lease[exec[v]].ttl \in Nat
    BY <1>0, <2>1, <2>2, <2>3 DEF Leases
  <2>5. lease'[exec[v]] = [lease[exec[v]] EXCEPT !.ttl = lease[exec[v]].ttl - 1]
    BY <1>6, <2>1, <2>4 DEF Tick, Elapse
  <2> QED
    BY <1>0, <2>1, <2>2, <2>3, <2>4, <2>5 DEF Leases
<1>7. ASSUME UNCHANGED vars
      PROVE  /\ lease'[exec'[v]].owner = v
             /\ lease'[exec'[v]].ttl > left'[v] + RunRest(pc'[v])
  BY <1>0, <1>7 DEF vars
<1> QED
  BY <1>1, <1>2, <1>3, <1>4, <1>5, <1>6, <1>7 DEF Next


-------------------------------------------------------------------------------
(* Attempts are journaled, and a second broadcast follows a NotFound answer *)

\* How one step of send may change the receipts, the journal of broadcasts and
\* the worker's own copy.
LEMMA SendStepEffect ==
    ASSUME LeaseOutlastsBroadcast, TypeOK, TypeOK', AttemptsCounted, QueriedBeforePrepare,
           NEW w \in Workers, SendStep(w)
    PROVE  /\ receipt' = receipt \/
              (/\ pc[w] \in {"prepare", "finish"}
               /\ receipt' = [receipt EXCEPT ![exec[w]] = rcpt[w]])
           /\ sent' = sent \/ (pc[w] = "submit" /\ sent' = [sent EXCEPT ![exec[w]] = TRUE])
           /\ pc'[w] \in {"probe", "prepare", "submit", "reprobe", "finish"}
                => rcpt'[w].attempts > 0
           /\ pc'[w] = "submit" => receipt'[exec[w]].attempts > 0
           /\ pc'[w] \in {"prepare", "submit"} /\ sent'[exec[w]] => queried'[w]
<1> USE DEF stored, network, worker
<1>1. /\ rcpt[w] \in Receipts /\ receipt[exec[w]] \in Receipts
      /\ exec[w] \in Executions
  BY DEF TypeOK
<1>2. pc[w] \in {"probe", "prepare", "submit", "reprobe", "finish"} => rcpt[w].attempts > 0
  BY DEF AttemptsCounted
<1>3. CASE Acquire(w) \/ Acquired(w) \/ AcquireLost(w) \/ AcquireRefused(w)
            \/ LoadFails(w) \/ Release(w) \/ ReleaseLost(w)
  BY <1>3 DEF Acquire, Acquired, AcquireLost, AcquireRefused, AcquireFile, LoadFails, Fail,
     Release, ReleaseLost, Goto, Return, TypeOK
<1>4. CASE Load(w)
  <2>1. NeedsProbe(receipt[exec[w]]) => receipt[exec[w]].attempts > 0
    BY <1>1 DEF NeedsProbe, AttemptsCounted
  <2>2. ~NeedsProbe(receipt[exec[w]]) => ~sent[exec[w]]
    BY <1>1 DEF NeedsProbe, AttemptsCounted
  <2>3. \/ /\ NeedsProbe(receipt[exec[w]])
           /\ rcpt' = [rcpt EXCEPT ![w] = receipt[exec[w]]]
           /\ pc' = [pc EXCEPT ![w] = "probe"]
        \/ /\ ~NeedsProbe(receipt[exec[w]])
           /\ rcpt' = [rcpt EXCEPT ![w] = Prepare(receipt[exec[w]])]
           /\ pc' = [pc EXCEPT ![w] = "prepare"]
    BY <1>4 DEF Load, Goto
  <2>4. receipt' = receipt /\ sent' = sent
    BY <1>4 DEF Load
  <2> QED
    BY <1>1, <2>1, <2>2, <2>3, <2>4, LimitTypes DEF TypeOK
<1>5. CASE Probe(w)
  <2>1. rcpt[w].attempts > 0
    BY <1>2, <1>5 DEF Probe
  <2>2. PICK answer \in Answers(exec[w]) :
          \/ /\ answer = "NotFound"
             /\ queried' = [queried EXCEPT ![w] = TRUE]
             /\ rcpt' = [rcpt EXCEPT ![w] = Prepare(rcpt[w])]
             /\ pc' = [pc EXCEPT ![w] = "prepare"]
          \/ /\ rcpt' = [rcpt EXCEPT ![w].state =
                           IF answer = "error" THEN "Unknown" ELSE answer]
             /\ pc' = [pc EXCEPT ![w] = "finish"]
    BY <1>5 DEF Probe, Goto, MayBroadcast
  <2>3. receipt' = receipt /\ sent' = sent
    BY <1>5 DEF Probe
  <2>4. CASE answer = "NotFound" /\ pc' = [pc EXCEPT ![w] = "prepare"]
    <3>1. Prepare(rcpt[w]).attempts > 0
      BY <1>1, LimitTypes
    <3>2. pc'[w] = "prepare"
      BY <2>4 DEF TypeOK
    <3>3. rcpt' = [rcpt EXCEPT ![w] = Prepare(rcpt[w])] /\ queried' = [queried EXCEPT ![w] = TRUE]
      BY <2>2, <2>4, <3>2 DEF TypeOK
    <3>4. rcpt'[w] = Prepare(rcpt[w]) /\ queried'[w]
      BY <3>3 DEF TypeOK
    <3> QED
      BY <2>3, <3>1, <3>2, <3>4
  <2>5. CASE pc' = [pc EXCEPT ![w] = "finish"]
    <3>1. pc'[w] = "finish"
      BY <2>5 DEF TypeOK
    <3>2. PICK st : rcpt' = [rcpt EXCEPT ![w].state = st]
      BY <2>2, <3>1 DEF TypeOK
    <3>3. rcpt'[w].attempts = rcpt[w].attempts
      BY <1>1, <3>2 DEF TypeOK, Receipts
    <3> QED
      BY <2>1, <2>3, <3>1, <3>3
  <2> QED
    BY <2>2, <2>4, <2>5
<1>6. CASE PersistPrepared(w)
  <2>1. receipt' = [receipt EXCEPT ![exec[w]] = rcpt[w]]
    BY <1>6, SaveShared DEF PersistPrepared, LeaseOutlastsBroadcast
  <2>2. rcpt[w].attempts > 0 /\ rcpt' = rcpt /\ queried' = queried /\ sent' = sent
    BY <1>2, <1>6 DEF PersistPrepared
  <2>3. pc[w] = "prepare" /\ pc'[w] = "submit"
    BY <1>6 DEF PersistPrepared, Goto, TypeOK
  <2>4. sent[exec[w]] => queried[w]
    BY <2>3 DEF QueriedBeforePrepare
  <2> QED
    BY <1>1, <2>1, <2>2, <2>3, <2>4 DEF TypeOK
<1>7. CASE PersistFinal(w) \/ PersistFails(w)
  <2>1. receipt' = receipt \/ receipt' = [receipt EXCEPT ![exec[w]] = rcpt[w]]
    BY <1>7, SaveShared DEF PersistFinal, PersistFails, LeaseOutlastsBroadcast
  <2>2. pc[w] \in {"prepare", "finish"} /\ pc'[w] = "release" /\ sent' = sent
    BY <1>7 DEF PersistFinal, PersistFails, Goto, TypeOK
  <2> QED
    BY <2>1, <2>2
<1>8. CASE SubmitAccepted(w) \/ SubmitRefused(w) \/ SubmitLate(w)
  <2>1. PICK reply : Replied(w, reply)
    BY <1>8 DEF SubmitAccepted, SubmitRefused, SubmitLate
  <2>2. pc'[w] \in {"reprobe", "finish"} /\ receipt' = receipt
    BY <2>1 DEF Replied, Goto, TypeOK
  <2>3. pc[w] = "submit" /\ sent' = [sent EXCEPT ![exec[w]] = TRUE]
    BY <1>8 DEF SubmitAccepted, SubmitRefused, SubmitLate
  <2>4. rcpt'[w].attempts = rcpt[w].attempts
    BY <1>1, <2>1 DEF Replied, TypeOK, Receipts
  <2> QED
    BY <1>2, <2>2, <2>3, <2>4
<1>9. CASE Reprobe(w)
  <2>1. PICK st : rcpt' = [rcpt EXCEPT ![w].state = st]
    BY <1>9 DEF Reprobe
  <2>2. pc[w] = "reprobe" /\ pc'[w] = "finish" /\ receipt' = receipt /\ sent' = sent
    BY <1>9 DEF Reprobe, Goto, TypeOK
  <2>3. rcpt'[w].attempts = rcpt[w].attempts
    BY <1>1, <2>1 DEF TypeOK, Receipts
  <2> QED
    BY <1>2, <2>2, <2>3
<1> QED
  BY <1>3, <1>4, <1>5, <1>6, <1>7, <1>8, <1>9 DEF SendStep

\* Every step keeps the attempt counts and the queries they call for.
LEMMA JournalStep ==
    ASSUME LeaseOutlastsBroadcast, TypeOK, TypeOK', BroadcastInv, [Next]_vars
    PROVE  AttemptsCounted' /\ QueriedBeforePrepare'
<1> USE DEF stored, network, worker, BroadcastInv
<1>1. ASSUME NEW w \in Workers, NEW e \in Executions, Start(w, e)
      PROVE  AttemptsCounted' /\ QueriedBeforePrepare'
  <2>1. pc' = [pc EXCEPT ![w] = "acquire"] /\ exec' = [exec EXCEPT ![w] = e]
    BY <1>1 DEF Start, Goto
  <2>2. UNCHANGED <<receipt, sent, rcpt, queried>>
    BY <1>1 DEF Start
  <2> QED
    BY <2>1, <2>2 DEF AttemptsCounted, QueriedBeforePrepare, TypeOK
<1>2. ASSUME NEW w \in Workers, SendStep(w)
      PROVE  AttemptsCounted' /\ QueriedBeforePrepare'
  <2>1. /\ receipt' = receipt \/
           (/\ pc[w] \in {"prepare", "finish"}
            /\ receipt' = [receipt EXCEPT ![exec[w]] = rcpt[w]])
        /\ sent' = sent \/ (pc[w] = "submit" /\ sent' = [sent EXCEPT ![exec[w]] = TRUE])
        /\ pc'[w] \in {"probe", "prepare", "submit", "reprobe", "finish"}
             => rcpt'[w].attempts > 0
        /\ pc'[w] = "submit" => receipt'[exec[w]].attempts > 0
        /\ pc'[w] \in {"prepare", "submit"} /\ sent'[exec[w]] => queried'[w]
    BY <1>2, SendStepEffect
  <2>2. /\ exec' = exec
        /\ \A v \in Workers \ {w} :
             /\ pc'[v] = pc[v] /\ rcpt'[v] = rcpt[v] /\ queried'[v] = queried[v]
    BY <1>2, SendStepLocal
  <2>3. /\ receipt \in [Executions -> Receipts] /\ sent \in [Executions -> BOOLEAN]
        /\ exec \in [Workers -> Executions]
    BY DEF TypeOK
  <2>4. pc[w] \in {"prepare", "finish"} => rcpt[w].attempts > 0
    BY DEF AttemptsCounted
  <2>5. \A e \in Executions : receipt[e].attempts > 0 => receipt'[e].attempts > 0
    BY <2>1, <2>3, <2>4
  <2>6. \A e \in Executions :
          (receipt'[e].state # "None" \/ sent'[e]) => receipt'[e].attempts > 0
    <3> SUFFICES ASSUME NEW e \in Executions, receipt'[e].state # "None" \/ sent'[e]
                 PROVE  receipt'[e].attempts > 0
      OBVIOUS
    <3>1. CASE e # exec[w]
      <4>1. receipt'[e] = receipt[e] /\ sent'[e] = sent[e]
        BY <2>1, <2>3, <3>1
      <4> QED
        BY <4>1 DEF AttemptsCounted
    <3>2. CASE e = exec[w]
      <4>1. CASE receipt' = receipt /\ sent' = sent
        BY <4>1 DEF AttemptsCounted
      <4>2. CASE receipt' = [receipt EXCEPT ![exec[w]] = rcpt[w]] /\ pc[w] \in {"prepare", "finish"}
        BY <2>3, <2>4, <3>2, <4>2
      <4>3. CASE pc[w] = "submit"
        BY <2>5, <3>2, <4>3 DEF AttemptsCounted
      <4> QED
        BY <2>1, <4>1, <4>2, <4>3
    <3> QED
      BY <3>1, <3>2
  <2>7. AttemptsCounted'
    <3> SUFFICES ASSUME NEW v \in Workers
                 PROVE  /\ pc'[v] \in {"probe", "prepare", "submit", "reprobe", "finish"}
                             => rcpt'[v].attempts > 0
                        /\ pc'[v] = "submit" => receipt'[exec'[v]].attempts > 0
      BY <2>6 DEF AttemptsCounted
    <3>1. CASE v = w
      BY <2>1, <2>2, <3>1
    <3>2. CASE v # w
      <4>1. exec[v] \in Executions
        BY <2>3
      <4> QED
        BY <2>2, <2>5, <3>2, <4>1 DEF AttemptsCounted
    <3> QED
      BY <3>1, <3>2
  <2>8. QueriedBeforePrepare'
    <3> SUFFICES ASSUME NEW v \in Workers, pc'[v] \in {"prepare", "submit"}, sent'[exec'[v]]
                 PROVE  queried'[v]
      BY DEF QueriedBeforePrepare
    <3>1. CASE v = w
      BY <2>1, <2>2, <3>1
    <3>2. CASE v # w /\ sent[exec[v]]
      BY <2>2, <3>2 DEF QueriedBeforePrepare
    <3>3. CASE v # w /\ ~sent[exec[v]]
      <4>1. pc[w] = "submit" /\ exec[v] = exec[w]
        BY <2>1, <2>2, <2>3, <3>3
      <4>2. lease[exec[w]].owner = w /\ lease[exec[v]].owner = v
        BY <2>2, <3>3, <4>1 DEF LeaseCovers
      <4> QED
        BY <3>3, <4>1, <4>2
    <3> QED
      BY <3>1, <3>2, <3>3
  <2> QED
    BY <2>7, <2>8
<1>3. ASSUME NEW e \in Executions, Mine(e) \/ LateArrival(e)
      PROVE  AttemptsCounted' /\ QueriedBeforePrepare'
  BY <1>3 DEF Mine, LateArrival, AttemptsCounted, QueriedBeforePrepare
<1>4. ASSUME NEW p, Crash(p)
      PROVE  AttemptsCounted' /\ QueriedBeforePrepare'
  BY <1>4 DEF Crash, AttemptsCounted, QueriedBeforePrepare
<1>5. CASE Tick
  BY <1>5 DEF Tick, AttemptsCounted, QueriedBeforePrepare
<1>6. CASE UNCHANGED vars
  BY <1>6 DEF vars, AttemptsCounted, QueriedBeforePrepare
<1> QED
  BY <1>1, <1>2, <1>3, <1>4, <1>5, <1>6 DEF Next

-------------------------------------------------------------------------------
(* Under the lease of a whole run nobody else replaces the receipt *)

\* A step that changes a receipt is a save of the run that delivers it.
LEMMA ReceiptWriters ==
    ASSUME LeaseOutlastsRun, TypeOK, TypeOK', BroadcastInv, [Next]_vars,
           NEW e \in Executions, receipt'[e] # receipt[e]
    PROVE  \E w \in Workers : pc[w] \in {"prepare", "finish"} /\ exec[w] = e
<1> USE DEF stored, network, worker
<1>1. LeaseOutlastsBroadcast
  BY RunTypes DEF LeaseOutlastsRun, LeaseOutlastsBroadcast
<1>2. ~(\E w \in Workers, f \in Executions : Start(w, f))
  BY DEF Start
<1>3. ~(\E f \in Executions : Mine(f) \/ LateArrival(f))
  BY DEF Mine, LateArrival
<1>4. ~(\E p : Crash(p)) /\ ~Tick /\ ~UNCHANGED vars
  BY DEF Crash, Tick, vars
<1>5. PICK w \in Workers : SendStep(w)
  BY <1>2, <1>3, <1>4 DEF Next
<1>6. /\ pc[w] \in {"prepare", "finish"}
      /\ receipt' = [receipt EXCEPT ![exec[w]] = rcpt[w]]
  BY <1>1, <1>5, SendStepEffect DEF BroadcastInv
<1> QED
  BY <1>6 DEF TypeOK

\* What a run's own step makes of its receipt.
LEMMA OwnReceipt ==
    ASSUME LeaseOutlastsRun, TypeOK, TypeOK', ReceiptHeld,
           NEW w \in Workers, SendStep(w)
    PROVE  /\ pc'[w] \in {"probe", "prepare", "reprobe", "finish"}
                => receipt'[exec[w]].state # "Failed"
           /\ pc'[w] \in {"prepare", "submit"} => rcpt'[w].state = "Prepared"
           /\ pc'[w] = "submit" => receipt'[exec[w]] = rcpt'[w]
<1> USE DEF stored, network, worker
<1>1. exec[w] \in Executions
  BY DEF TypeOK
<1>2. \A r : Prepare(r).state = "Prepared"
  BY DEF Prepare
<1>3. CASE Acquire(w) \/ Acquired(w) \/ AcquireLost(w) \/ AcquireRefused(w)
            \/ LoadFails(w) \/ Release(w) \/ ReleaseLost(w)
  BY <1>3 DEF Acquire, Acquired, AcquireLost, AcquireRefused, AcquireFile, LoadFails, Fail,
     Release, ReleaseLost, Goto, Return, TypeOK
<1>4. CASE Load(w)
  <2>1. receipt' = receipt /\ receipt[exec[w]].state # "Failed"
    BY <1>4 DEF Load, Terminal
  <2>2. \/ pc' = [pc EXCEPT ![w] = "probe"]
        \/ (/\ pc' = [pc EXCEPT ![w] = "prepare"]
            /\ rcpt' = [rcpt EXCEPT ![w] = Prepare(receipt[exec[w]])])
    BY <1>4 DEF Load, Goto
  <2> QED
    BY <1>2, <2>1, <2>2 DEF TypeOK
<1>5. CASE Probe(w)
  <2>1. receipt' = receipt /\ receipt[exec[w]].state # "Failed"
    BY <1>5 DEF Probe, ReceiptHeld
  <2>2. \/ pc' = [pc EXCEPT ![w] = "finish"]
        \/ (/\ pc' = [pc EXCEPT ![w] = "prepare"]
            /\ rcpt' = [rcpt EXCEPT ![w] = Prepare(rcpt[w])])
    BY <1>5 DEF Probe, Goto
  <2> QED
    BY <1>2, <2>1, <2>2 DEF TypeOK
<1>6. CASE PersistPrepared(w)
  <2>1. receipt' = [receipt EXCEPT ![exec[w]] = rcpt[w]]
    BY <1>6, SaveShared DEF PersistPrepared, LeaseOutlastsRun
  <2>2. pc[w] = "prepare" /\ pc'[w] = "submit" /\ rcpt' = rcpt
    BY <1>6 DEF PersistPrepared, Goto, TypeOK
  <2> QED
    BY <1>1, <2>1, <2>2 DEF ReceiptHeld, TypeOK
<1>7. CASE PersistFinal(w) \/ PersistFails(w)
  <2>1. pc'[w] = "release"
    BY <1>7 DEF PersistFinal, PersistFails, Goto, TypeOK
  <2> QED
    BY <2>1
<1>8. CASE SubmitAccepted(w) \/ SubmitRefused(w) \/ SubmitLate(w)
  <2>1. PICK reply : Replied(w, reply)
    BY <1>8 DEF SubmitAccepted, SubmitRefused, SubmitLate
  <2>2. pc'[w] \in {"reprobe", "finish"} /\ receipt' = receipt
    BY <2>1 DEF Replied, Goto, TypeOK
  <2>3. pc[w] = "submit"
    BY <1>8 DEF SubmitAccepted, SubmitRefused, SubmitLate
  <2> QED
    BY <2>2, <2>3 DEF ReceiptHeld
<1>9. CASE Reprobe(w)
  <2>1. pc[w] = "reprobe" /\ pc'[w] = "finish" /\ receipt' = receipt
    BY <1>9 DEF Reprobe, Goto, TypeOK
  <2> QED
    BY <2>1 DEF ReceiptHeld
<1> QED
  BY <1>3, <1>4, <1>5, <1>6, <1>7, <1>8, <1>9 DEF SendStep

\* Every step leaves the receipts that others have read or journaled.
LEMMA HeldStep ==
    ASSUME LeaseOutlastsRun, TypeOK, TypeOK', BroadcastInv, RunCovers, ReceiptHeld, [Next]_vars
    PROVE  ReceiptHeld'
<1> USE DEF stored, network, worker
<1> DEFINE Holds(v) ==
             /\ pc'[v] \in {"probe", "prepare", "reprobe", "finish"}
                  => receipt'[exec'[v]].state # "Failed"
             /\ pc'[v] \in {"prepare", "submit"} => rcpt'[v].state = "Prepared"
             /\ pc'[v] = "submit" => receipt'[exec'[v]] = rcpt'[v]
<1> SUFFICES ASSUME NEW v \in Workers PROVE Holds(v)
  BY DEF ReceiptHeld
<1>1. ASSUME pc'[v] = pc[v], exec'[v] = exec[v], rcpt'[v] = rcpt[v],
             receipt'[exec[v]] = receipt[exec[v]]
      PROVE  Holds(v)
  BY <1>1 DEF ReceiptHeld
<1>2. ASSUME NEW w \in Workers, NEW e \in Executions, Start(w, e) PROVE Holds(v)
  <2>1. CASE v = w
    <3>1. pc'[v] = "acquire"
      BY <1>2, <2>1 DEF Start, Goto, TypeOK
    <3> QED
      BY <3>1
  <2>2. CASE v # w
    BY <1>1, <1>2, <2>2 DEF Start, Goto, TypeOK
  <2> QED
    BY <2>1, <2>2
<1>3. ASSUME NEW w \in Workers, SendStep(w) PROVE Holds(v)
  <2>1. exec' = exec
    BY <1>3, SendStepLocal
  <2>2. CASE v = w
    BY <1>3, <2>1, <2>2, OwnReceipt
  <2>3. CASE v # w
    <3>1. pc'[v] = pc[v] /\ rcpt'[v] = rcpt[v]
      BY <1>3, <2>3, SendStepLocal
    <3>2. CASE receipt'[exec[v]] = receipt[exec[v]]
      BY <1>1, <2>1, <3>1, <3>2
    <3>3. CASE receipt'[exec[v]] # receipt[exec[v]]
      <4>1. LeaseOutlastsBroadcast
        BY RunTypes DEF LeaseOutlastsRun, LeaseOutlastsBroadcast
      <4>2. pc[w] \in {"prepare", "finish"} /\ exec[w] = exec[v]
        BY <1>3, <3>3, <4>1, SendStepEffect DEF BroadcastInv, TypeOK
      <4>3. lease[exec[v]].owner = w
        BY <4>2 DEF RunCovers
      <4>4. pc[v] \notin {"probe", "prepare", "submit", "reprobe", "finish"}
        BY <2>3, <4>3 DEF RunCovers
      <4> QED
        BY <3>1, <4>4
    <3> QED
      BY <3>2, <3>3
  <2> QED
    BY <2>2, <2>3
<1>4. ASSUME NEW e \in Executions, Mine(e) \/ LateArrival(e) PROVE Holds(v)
  BY <1>1, <1>4 DEF Mine, LateArrival
<1>5. ASSUME NEW p, Crash(p) PROVE Holds(v)
  <2>1. CASE Process[v] = p
    <3>1. pc'[v] = "idle"
      BY <1>5, <2>1 DEF Crash
    <3> QED
      BY <3>1
  <2>2. CASE Process[v] # p
    BY <1>1, <1>5, <2>2 DEF Crash
  <2> QED
    BY <2>1, <2>2
<1>6. CASE Tick
  BY <1>1, <1>6 DEF Tick
<1>7. CASE UNCHANGED vars
  BY <1>1, <1>7 DEF vars
<1> QED
  BY <1>2, <1>3, <1>4, <1>5, <1>6, <1>7 DEF Next

-------------------------------------------------------------------------------
(* The theorems *)

\* Initially no worker runs and nothing has been sent.
LEMMA DeliveryInit == Init => TypeOK /\ BroadcastInv
<1> SUFFICES ASSUME Init PROVE TypeOK /\ BroadcastInv
  OBVIOUS
<1>1. TypeOK
  <2>1. NoLease \in Leases /\ "idle" \in PCs /\ Limit("idle") \in Nat /\ "absent" \in ChainStates
    BY LimitTypes DEF NoLease, Leases, PCs, ChainStates
  <2> QED
    BY <2>1, LimitTypes, DeliveryAssumption DEF Init, TypeOK
<1>2. BroadcastInv
  BY DEF Init, BroadcastInv, LeaseCovers, AttemptsCounted, QueriedBeforePrepare, NoReceipt
<1> QED
  BY <1>1, <1>2

\* Over the shared store, with a lease that outlasts a broadcast, the inductive
\* invariant holds in every behaviour of send on any number of backends.
THEOREM BroadcastInvariant ==
    ASSUME LeaseOutlastsBroadcast
    PROVE  Spec => [](TypeOK /\ BroadcastInv)
<1>1. TypeOK /\ BroadcastInv /\ [Next]_vars => (TypeOK /\ BroadcastInv)'
  BY TypeStep, CoversStep, JournalStep DEF BroadcastInv, LeaseOutlastsBroadcast
<1> QED
  BY DeliveryInit, <1>1, PTL DEF Spec

\* No two workers, whatever their processes, broadcast one execution at the same
\* time (send under acquire_execution_lease).
THEOREM OneBroadcastAtATime ==
    ASSUME LeaseOutlastsBroadcast
    PROVE  Spec => []SoleBroadcaster
<1>1. BroadcastInv => SoleBroadcaster
  BY DEF BroadcastInv, LeaseCovers, SoleBroadcaster
<1> QED
  BY <1>1, BroadcastInvariant, PTL

\* Whatever was broadcast is broadcast again only after a NotFound answer (the
\* reconciliation in send).
THEOREM RebroadcastAfterQuery ==
    ASSUME LeaseOutlastsBroadcast
    PROVE  Spec => []RebroadcastQueried
<1>1. BroadcastInv => RebroadcastQueried
  BY DEF BroadcastInv, QueriedBeforePrepare, RebroadcastQueried
<1> QED
  BY <1>1, BroadcastInvariant, PTL

\* With a lease that outlasts a whole run the stronger invariant holds: the run
\* keeps its lease to its last write and its receipt stays as it left it.
THEOREM RunInvariant ==
    ASSUME LeaseOutlastsRun
    PROVE  Spec => [](TypeOK /\ BroadcastInv /\ RunCovers /\ ReceiptHeld)
<1>1. LeaseOutlastsBroadcast
  BY RunTypes DEF LeaseOutlastsRun, LeaseOutlastsBroadcast
<1>2. Init => RunCovers /\ ReceiptHeld
  BY DEF Init, RunCovers, ReceiptHeld
<1>3. TypeOK /\ TypeOK' /\ BroadcastInv /\ RunCovers /\ ReceiptHeld /\ [Next]_vars
        => RunCovers' /\ ReceiptHeld'
  BY RunStep, HeldStep DEF BroadcastInv
<1>4. Spec => [](TypeOK /\ BroadcastInv)
  BY <1>1, BroadcastInvariant
<1> QED
  BY <1>2, <1>3, <1>4, PTL DEF Spec

\* Whoever replaces a receipt still owns the lease of its execution (the saves
\* in send under acquire_execution_lease).
THEOREM WritesLeased ==
    ASSUME LeaseOutlastsRun
    PROVE  Spec => []WritesUnderLease
<1>1. RunCovers => WritesUnderLease
  BY DEF RunCovers, WritesUnderLease
<1> QED
  BY <1>1, RunInvariant, PTL

\* While a broadcast lasts the store holds the receipt journaled for it, and
\* whatever was broadcast has an attempt on its receipt (the save in send).
THEOREM BroadcastJournaled ==
    ASSUME LeaseOutlastsRun
    PROVE  Spec => []Journaled
<1>1. BroadcastInv /\ ReceiptHeld => Journaled
  BY DEF BroadcastInv, AttemptsCounted, ReceiptHeld, Journaled
<1> QED
  BY <1>1, RunInvariant, PTL

\* No step, of whatever worker, changes a Failed receipt (the early return in
\* send, and the lease that keeps every later write away).
THEOREM FailedForever ==
    ASSUME LeaseOutlastsRun
    PROVE  Spec => FailedIsForever
<1>1. TypeOK /\ TypeOK' /\ BroadcastInv /\ ReceiptHeld /\ [Next]_vars
        => [\A e \in Executions :
              receipt[e].state = "Failed" => receipt'[e] = receipt[e]]_vars
  <2> SUFFICES ASSUME TypeOK, TypeOK', BroadcastInv, ReceiptHeld, [Next]_vars,
                      NEW e \in Executions, receipt[e].state = "Failed",
                      receipt'[e] # receipt[e]
               PROVE  FALSE
    OBVIOUS
  <2>1. PICK w \in Workers : pc[w] \in {"prepare", "finish"} /\ exec[w] = e
    BY ReceiptWriters
  <2> QED
    BY <2>1 DEF ReceiptHeld
<1> QED
  BY <1>1, RunInvariant, PTL DEF Spec, FailedIsForever

-------------------------------------------------------------------------------
(* A Failed receipt is of an unpaid transaction, or of one send was misled about *)

NotHeld(e) == chain[e] = "absent" \/ misled[e]
NotPaid(e) == Unpaid(e) \/ misled[e]

\* A node that answers Failed answers truly, whatever the faults.
LEMMA FailedAnswers ==
    ASSUME NEW e \in Executions, chain[e] \in ChainStates, "Failed" \in Answers(e)
    PROVE  chain[e] = "reverted"
BY DEF Answers, ChainStates

\* A run is misled by a broadcast whose reply makes it store Failed.
LEMMA GarbledReplies ==
    ASSUME NEW e \in Executions, NEW body \in Taken,
           StateAfter(ReadTxId(shape[e], body)) = "Failed"
    PROVE  Garbled(e, body)
BY DEF Taken, StateAfter, ReadTxId, Garbled

\* What one step of send does to the chain and to what is known of it, and what
\* its worker then may go by.
LEMMA ChainEffect ==
    ASSUME TypeOK, TypeOK', NEW w \in Workers, SendStep(w), NEW e \in Executions, exec[w] = e,
           pc[w] = "load" /\ ~NeedsProbe(receipt[e]) => chain[e] = "absent",
           pc[w] \in {"prepare", "submit"} => NotHeld(e),
           pc[w] = "finish" /\ rcpt[w].state = "Failed" => NotPaid(e)
    PROVE  /\ pc[w] # "submit" => chain' = chain /\ late' = late /\ sent' = sent
           /\ pc[w] = "submit" => sent'[e]
           /\ pc[w] # "probe" /\ misled[e] => misled'[e]
           /\ \A f \in Executions \ {e} : /\ chain'[f] = chain[f] /\ late'[f] = late[f]
                                          /\ sent'[f] = sent[f] /\ misled'[f] = misled[f]
           /\ pc'[w] \in {"prepare", "submit"} => NotHeld(e)'
           /\ pc'[w] = "finish" /\ rcpt'[w].state = "Failed" => NotPaid(e)'
<1> USE DEF stored, network, worker, NotHeld, NotPaid, Unpaid
<1>1. chain[e] \in ChainStates /\ rcpt[w] \in Receipts /\ misled[e] \in BOOLEAN
  BY DEF TypeOK
<1>2. CASE Acquire(w) \/ Acquired(w) \/ AcquireLost(w) \/ AcquireRefused(w)
            \/ LoadFails(w) \/ Release(w) \/ ReleaseLost(w)
  <2>1. UNCHANGED <<chain, late, sent, misled>> /\ pc[w] # "submit"
    BY <1>2 DEF Acquire, Acquired, AcquireLost, AcquireRefused, AcquireFile, LoadFails, Fail,
       Release, ReleaseLost
  <2>2. pc'[w] \notin {"prepare", "submit", "finish"}
    BY <1>2 DEF Acquire, Acquired, AcquireLost, AcquireRefused, AcquireFile, LoadFails, Fail,
       Release, ReleaseLost, Goto, Return, TypeOK
  <2> QED
    BY <2>1, <2>2
<1>3. CASE Load(w)
  <2>1. pc[w] = "load" /\ UNCHANGED <<chain, late, sent, misled>>
    BY <1>3 DEF Load
  <2>2. \/ pc' = [pc EXCEPT ![w] = "probe"]
        \/ ~NeedsProbe(receipt[e]) /\ pc' = [pc EXCEPT ![w] = "prepare"]
    BY <1>3 DEF Load, Goto
  <2> QED
    BY <2>1, <2>2 DEF TypeOK
<1>4. CASE Probe(w)
  <2>1. PICK answer \in Answers(e) :
          /\ Believes(e, answer)
          /\ \/ answer = "NotFound" /\ pc' = [pc EXCEPT ![w] = "prepare"]
             \/ /\ rcpt' = [rcpt EXCEPT ![w].state =
                              IF answer = "error" THEN "Unknown" ELSE answer]
                /\ pc' = [pc EXCEPT ![w] = "finish"]
    BY <1>4 DEF Probe, Goto, MayBroadcast
  <2>2. pc[w] = "probe" /\ UNCHANGED <<chain, late, sent>>
    BY <1>4 DEF Probe
  <2>3. misled' = [misled EXCEPT ![e] = IF answer = "error" THEN misled[e]
                                        ELSE answer = "NotFound" /\ chain[e] # "absent"]
    BY <2>1 DEF Believes
  <2>4. \A f \in Executions \ {e} : misled'[f] = misled[f]
    BY <2>3 DEF TypeOK
  <2>5. CASE answer = "NotFound" /\ pc' = [pc EXCEPT ![w] = "prepare"]
    <3>1. pc'[w] = "prepare"
      BY <2>5 DEF TypeOK
    <3>2. misled'[e] = (chain[e] # "absent")
      BY <2>3, <2>5 DEF TypeOK
    <3> QED
      BY <2>2, <2>4, <3>1, <3>2
  <2>6. CASE /\ rcpt' = [rcpt EXCEPT ![w].state =
                           IF answer = "error" THEN "Unknown" ELSE answer]
             /\ pc' = [pc EXCEPT ![w] = "finish"]
    <3>1. pc'[w] = "finish"
      BY <2>6 DEF TypeOK
    <3>2. rcpt'[w].state = IF answer = "error" THEN "Unknown" ELSE answer
      BY <1>1, <2>6 DEF TypeOK, Receipts
    <3>3. rcpt'[w].state = "Failed" => chain[e] = "reverted"
      BY <1>1, <3>2, FailedAnswers
    <3> QED
      BY <2>2, <2>4, <3>1, <3>3
  <2> QED
    BY <2>1, <2>5, <2>6
<1>5. CASE PersistPrepared(w) \/ PersistFinal(w) \/ PersistFails(w)
  <2>1. UNCHANGED <<chain, late, sent, misled>> /\ pc[w] # "submit"
    BY <1>5 DEF PersistPrepared, PersistFinal, PersistFails
  <2>2. pc'[w] = "release" \/ (pc[w] = "prepare" /\ pc'[w] = "submit")
    BY <1>5 DEF PersistPrepared, PersistFinal, PersistFails, Goto, TypeOK
  <2> QED
    BY <2>1, <2>2
<1>6. CASE SubmitAccepted(w)
  <2>1. /\ pc[w] = "submit" /\ late' = late
        /\ chain' = [chain EXCEPT ![e] = "pending"]
        /\ sent' = [sent EXCEPT ![e] = TRUE]
    BY <1>6 DEF SubmitAccepted
  <2>2. PICK body \in Taken :
          /\ Replied(w, ReadTxId(shape[e], body))
          /\ misled' = [misled EXCEPT ![e] = misled[e] \/ Garbled(e, body)]
    BY <1>6 DEF SubmitAccepted
  <2>3. /\ misled'[e] = (misled[e] \/ Garbled(e, body))
        /\ \A f \in Executions \ {e} : /\ chain'[f] = chain[f] /\ sent'[f] = sent[f]
                                       /\ misled'[f] = misled[f]
        /\ sent'[e]
    BY <2>1, <2>2 DEF TypeOK
  <2>4. pc'[w] \in {"finish", "reprobe"}
    BY <2>2 DEF Replied, Goto, TypeOK
  <2>5. rcpt'[w].state = StateAfter(ReadTxId(shape[e], body))
    BY <1>1, <2>2 DEF Replied, TypeOK, Receipts
  <2>6. rcpt'[w].state = "Failed" => Garbled(e, body)
    BY <2>5, GarbledReplies
  <2> QED
    BY <2>1, <2>3, <2>4, <2>6
<1>7. CASE SubmitRefused(w)
  <2>1. pc[w] = "submit" /\ late' = late /\ chain' = chain /\ misled' = misled
        /\ sent' = [sent EXCEPT ![e] = TRUE]
    BY <1>7 DEF SubmitRefused
  <2>2. PICK reply : Replied(w, reply)
    BY <1>7 DEF SubmitRefused
  <2>3. pc'[w] \in {"finish", "reprobe"}
    BY <2>2 DEF Replied, Goto, TypeOK
  <2>4. sent'[e] /\ \A f \in Executions \ {e} : sent'[f] = sent[f]
    BY <2>1 DEF TypeOK
  <2> QED
    BY <2>1, <2>3, <2>4
<1>8. CASE SubmitLate(w)
  <2>1. /\ pc[w] = "submit" /\ chain' = chain /\ misled' = misled
        /\ sent' = [sent EXCEPT ![e] = TRUE] /\ late' = [late EXCEPT ![e] = TRUE]
        /\ Replied(w, "Unknown")
    BY <1>8 DEF SubmitLate
  <2>2. rcpt'[w].state = "Unknown" /\ pc'[w] = "finish"
    BY <1>1, <2>1 DEF Replied, StateAfter, Goto, TypeOK, Receipts
  <2>3. sent'[e] /\ \A f \in Executions \ {e} : sent'[f] = sent[f] /\ late'[f] = late[f]
    BY <2>1 DEF TypeOK
  <2> QED
    BY <2>1, <2>2, <2>3
<1>9. CASE Reprobe(w)
  <2>1. PICK answer \in Answers(e) :
          rcpt' = [rcpt EXCEPT ![w].state =
                     IF answer \in {"NotFound", "error"} THEN "Unknown" ELSE answer]
    BY <1>9 DEF Reprobe
  <2>2. /\ UNCHANGED <<chain, late, sent, misled>> /\ pc' = [pc EXCEPT ![w] = "finish"]
        /\ pc[w] = "reprobe"
    BY <1>9 DEF Reprobe, Goto
  <2>3. rcpt'[w].state = IF answer \in {"NotFound", "error"} THEN "Unknown" ELSE answer
    BY <1>1, <2>1 DEF TypeOK, Receipts
  <2>4. rcpt'[w].state = "Failed" => chain[e] = "reverted"
    BY <1>1, <2>3, FailedAnswers
  <2>5. pc'[w] = "finish"
    BY <2>2 DEF TypeOK
  <2> QED
    BY <2>2, <2>4, <2>5
<1> QED
  BY <1>2, <1>3, <1>4, <1>5, <1>6, <1>7, <1>8, <1>9 DEF SendStep

\* A run about to ask, to broadcast or to store its result has the execution to itself.
LEMMA RunAlone ==
    ASSUME RunCovers, NEW v \in Workers, NEW w \in Workers, exec[v] = exec[w],
           pc[v] \in {"probe", "prepare", "submit", "finish"},
           pc[w] \in {"probe", "prepare", "submit", "finish"}
    PROVE  v = w
BY DEF RunCovers

\* What a run may take for granted of the chain.
LEMMA RunKnows ==
    ASSUME TypeOK, AttemptsCounted, ChainKnown, NEW w \in Workers
    PROVE  /\ ~NeedsProbe(receipt[exec[w]]) => chain[exec[w]] = "absent"
           /\ pc[w] \in {"prepare", "submit"} => NotHeld(exec[w])
           /\ pc[w] = "finish" /\ rcpt[w].state = "Failed" => NotPaid(exec[w])
<1>1. exec[w] \in Executions /\ receipt[exec[w]] \in Receipts
  BY DEF TypeOK
<1>2. ~NeedsProbe(receipt[exec[w]]) => chain[exec[w]] = "absent"
  BY <1>1 DEF NeedsProbe, AttemptsCounted, ChainKnown, Receipts
<1> QED
  BY <1>2 DEF ChainKnown, NotHeld, NotPaid

\* A broadcast that lands misleads those who have settled that there is none.
LEMMA LandedLate ==
    ASSUME TypeOK, NEW e \in Executions, LateArrival(e)
    PROVE  /\ \A f \in Executions \ {e} : chain'[f] = chain[f] /\ misled'[f] = misled[f]
           /\ misled[e] => misled'[e]
           /\ chain'[e] = chain[e] \/ (chain[e] = "absent" /\ (Settled(e) => misled'[e]))
           /\ \A f \in Executions : late'[f] => late[f]
           /\ late[e] /\ UNCHANGED <<receipt, sent, pc, exec, rcpt>>
<1> USE DEF stored, network, worker
<1>1. /\ misled' = [misled EXCEPT ![e] = misled[e] \/ (chain[e] = "absent" /\ Settled(e))]
      /\ late' = [late EXCEPT ![e] = FALSE] /\ late[e]
      /\ chain' = [chain EXCEPT ![e] = IF chain[e] = "absent" THEN "pending" ELSE chain[e]]
      /\ UNCHANGED <<receipt, sent, pc, exec, rcpt>>
  BY DEF LateArrival
<1>2. misled'[e] = (misled[e] \/ (chain[e] = "absent" /\ Settled(e)))
  BY <1>1 DEF TypeOK
<1>3. chain'[e] = IF chain[e] = "absent" THEN "pending" ELSE chain[e]
  BY <1>1 DEF TypeOK
<1>4. \A f \in Executions \ {e} : chain'[f] = chain[f] /\ misled'[f] = misled[f]
  BY <1>1 DEF TypeOK
<1>5. \A f \in Executions : late'[f] => late[f]
  BY <1>1 DEF TypeOK
<1> QED
  BY <1>1, <1>2, <1>3, <1>4, <1>5

\* Every step keeps what is known of the chain.
LEMMA ChainStep ==
    ASSUME TypeOK, TypeOK', AttemptsCounted, RunCovers, ChainKnown, [Next]_vars
    PROVE  ChainKnown'
<1> USE DEF stored, network, worker
<1> DEFINE Knows(v) ==
             /\ pc'[v] \in {"prepare", "submit"}
                  => chain'[exec'[v]] = "absent" \/ misled'[exec'[v]]
             /\ pc'[v] = "finish" /\ rcpt'[v].state = "Failed"
                  => chain'[exec'[v]] \in {"absent", "reverted"} \/ misled'[exec'[v]]
           Sent(e) == late'[e] \/ chain'[e] # "absent" => sent'[e]
<1> SUFFICES /\ \A v \in Workers : Knows(v)
             /\ \A e \in Executions : Sent(e)
  BY DEF ChainKnown, Unpaid
<1>0. ASSUME NEW v \in Workers, pc'[v] = pc[v], exec'[v] = exec[v], rcpt'[v] = rcpt[v],
             chain'[exec[v]] = chain[exec[v]], misled[exec[v]] => misled'[exec[v]]
      PROVE  Knows(v)
  BY <1>0 DEF ChainKnown, Unpaid
<1>1. ASSUME NEW w \in Workers, NEW e \in Executions, Start(w, e)
      PROVE  (\A v \in Workers : Knows(v)) /\ (\A f \in Executions : Sent(f))
  <2>1. UNCHANGED <<chain, late, sent, misled, rcpt>>
    BY <1>1 DEF Start
  <2>2. pc'[w] = "acquire"
    BY <1>1 DEF Start, Goto, TypeOK
  <2>3. \A v \in Workers \ {w} : pc'[v] = pc[v] /\ exec'[v] = exec[v]
    BY <1>1 DEF Start, Goto, TypeOK
  <2>4. Knows(w)
    BY <2>2
  <2>5. \A v \in Workers \ {w} : Knows(v)
    BY <1>0, <2>1, <2>3
  <2> QED
    BY <2>1, <2>4, <2>5 DEF ChainKnown
<1>2. ASSUME NEW w \in Workers, SendStep(w)
      PROVE  (\A v \in Workers : Knows(v)) /\ (\A f \in Executions : Sent(f))
  <2>1. exec' = exec
    BY <1>2, SendStepLocal
  <2>2. PICK e \in Executions : e = exec[w]
    BY DEF TypeOK
  <2>3. /\ pc[w] # "submit" => chain' = chain /\ late' = late /\ sent' = sent
        /\ pc[w] = "submit" => sent'[e]
        /\ pc[w] # "probe" /\ misled[e] => misled'[e]
        /\ \A f \in Executions \ {e} : /\ chain'[f] = chain[f] /\ late'[f] = late[f]
                                       /\ sent'[f] = sent[f] /\ misled'[f] = misled[f]
        /\ pc'[w] \in {"prepare", "submit"} => NotHeld(e)'
        /\ pc'[w] = "finish" /\ rcpt'[w].state = "Failed" => NotPaid(e)'
    BY <1>2, <2>2, RunKnows, ChainEffect
  <2>4. Knows(w)
    BY <2>1, <2>2, <2>3 DEF NotHeld, NotPaid, Unpaid
  <2>5. ASSUME NEW v \in Workers \ {w} PROVE Knows(v)
    <3>1. pc'[v] = pc[v] /\ rcpt'[v] = rcpt[v] /\ exec[v] \in Executions
      BY <1>2, SendStepLocal DEF TypeOK
    <3>2. CASE exec[v] # e
      BY <1>0, <2>1, <2>3, <3>1, <3>2
    <3>3. CASE exec[v] = e /\ pc[w] \in {"probe", "submit"}
      BY <2>2, <3>1, <3>3, RunAlone
    <3>4. CASE exec[v] = e /\ pc[w] \notin {"probe", "submit"}
      BY <1>0, <2>1, <2>3, <3>1, <3>4
    <3> QED
      BY <3>2, <3>3, <3>4
  <2>6. ASSUME NEW f \in Executions PROVE Sent(f)
    <3>1. late[f] \/ chain[f] # "absent" => sent[f]
      BY DEF ChainKnown
    <3>2. CASE f # e
      BY <2>3, <3>1, <3>2
    <3>3. CASE f = e
      BY <2>3, <3>1, <3>3
    <3> QED
      BY <3>2, <3>3
  <2> QED
    BY <2>4, <2>5, <2>6
<1>3. ASSUME NEW e \in Executions, Mine(e)
      PROVE  (\A v \in Workers : Knows(v)) /\ (\A f \in Executions : Sent(f))
  <2>1. /\ chain[e] = "pending" /\ UNCHANGED <<late, sent, misled, pc, exec, rcpt>>
        /\ \E c : chain' = [chain EXCEPT ![e] = c]
    BY <1>3 DEF Mine
  <2>2. \A v \in Workers : chain[exec[v]] \in {"absent", "reverted"} => chain'[exec[v]] = chain[exec[v]]
    BY <2>1 DEF TypeOK
  <2>3. \A f \in Executions : chain'[f] # "absent" => chain[f] # "absent"
    BY <2>1 DEF TypeOK
  <2>4. \A v \in Workers : Knows(v)
    BY <2>1, <2>2 DEF ChainKnown, Unpaid
  <2> QED
    BY <2>1, <2>3, <2>4 DEF ChainKnown
<1>4. ASSUME NEW e \in Executions, LateArrival(e)
      PROVE  (\A v \in Workers : Knows(v)) /\ (\A f \in Executions : Sent(f))
  <2>1. /\ \A f \in Executions \ {e} : chain'[f] = chain[f] /\ misled'[f] = misled[f]
        /\ misled[e] => misled'[e]
        /\ chain'[e] = chain[e] \/ (chain[e] = "absent" /\ (Settled(e) => misled'[e]))
        /\ \A f \in Executions : late'[f] => late[f]
        /\ late[e] /\ UNCHANGED <<receipt, sent, pc, exec, rcpt>>
    BY <1>4, LandedLate
  <2>2. ASSUME NEW v \in Workers PROVE Knows(v)
    <3>1. exec[v] \in Executions
      BY DEF TypeOK
    <3>2. CASE exec[v] # e \/ chain'[e] = chain[e]
      BY <1>0, <2>1, <3>1, <3>2
    <3>3. CASE exec[v] = e /\ (Settled(e) => misled'[e])
      BY <2>1, <3>3 DEF Settled
    <3> QED
      BY <2>1, <3>2, <3>3
  <2>3. ASSUME NEW f \in Executions PROVE Sent(f)
    BY <2>1 DEF ChainKnown
  <2> QED
    BY <2>2, <2>3
<1>5. ASSUME NEW p, Crash(p)
      PROVE  (\A v \in Workers : Knows(v)) /\ (\A f \in Executions : Sent(f))
  <2>1. UNCHANGED <<chain, late, sent, misled, exec>>
    BY <1>5 DEF Crash
  <2>2. \A v \in Workers : pc'[v] = "idle" \/ (pc'[v] = pc[v] /\ rcpt'[v] = rcpt[v])
    BY <1>5 DEF Crash
  <2>3. \A v \in Workers : Knows(v)
    BY <1>0, <2>1, <2>2
  <2> QED
    BY <2>1, <2>3 DEF ChainKnown
<1>6. CASE Tick
  BY <1>0, <1>6 DEF Tick, ChainKnown
<1>7. CASE UNCHANGED vars
  BY <1>0, <1>7 DEF vars, ChainKnown
<1> QED
  BY <1>1, <1>2, <1>3, <1>4, <1>5, <1>6, <1>7 DEF Next

\* Every step keeps the Failed receipts of unpaid transactions.
LEMMA UnpaidStep ==
    ASSUME LeaseOutlastsRun, TypeOK, TypeOK', BroadcastInv, ReceiptHeld,
           ChainKnown, FailedIsUnpaid, [Next]_vars
    PROVE  FailedIsUnpaid'
<1> USE DEF stored, network, worker
<1> SUFFICES ASSUME NEW e \in Executions, receipt'[e].state = "Failed"
             PROVE  chain'[e] \in {"absent", "reverted"} \/ misled'[e]
  BY DEF FailedIsUnpaid, Unpaid
<1>1. Store = "upstash" /\ LeaseOutlastsBroadcast
  BY RunTypes DEF LeaseOutlastsRun, LeaseOutlastsBroadcast
<1>2. ASSUME NEW w \in Workers, SendStep(w)
      PROVE  chain'[e] \in {"absent", "reverted"} \/ misled'[e]
  <2>1. \/ receipt'[e] = receipt[e]
        \/ pc[w] \in {"prepare", "finish"} /\ exec[w] = e /\ receipt'[e] = rcpt[w]
    BY <1>1, <1>2, SendStepEffect DEF BroadcastInv, TypeOK
  <2>2. PICK f \in Executions : f = exec[w]
    BY DEF TypeOK
  <2>3. /\ pc[w] # "submit" => chain' = chain
        /\ pc[w] # "probe" /\ misled[f] => misled'[f]
        /\ f # e => chain'[e] = chain[e] /\ misled'[e] = misled[e]
    BY <1>2, <2>2, RunKnows, ChainEffect DEF BroadcastInv
  <2>4. CASE receipt'[e] = receipt[e]
    <3>1. chain[e] \in {"absent", "reverted"} \/ misled[e]
      BY <2>4 DEF FailedIsUnpaid, Unpaid
    <3>2. f = e => pc[w] \notin {"probe", "submit"}
      BY <2>2, <2>4 DEF ReceiptHeld
    <3> QED
      BY <2>3, <3>1, <3>2
  <2>5. CASE pc[w] \in {"prepare", "finish"} /\ exec[w] = e /\ receipt'[e] = rcpt[w]
    <3>1. pc[w] = "finish"
      BY <2>5 DEF ReceiptHeld
    <3>2. chain[e] \in {"absent", "reverted"} \/ misled[e]
      BY <2>5, <3>1 DEF ChainKnown, Unpaid
    <3> QED
      BY <2>2, <2>3, <2>5, <3>1, <3>2
  <2> QED
    BY <2>1, <2>4, <2>5
<1>3. ASSUME NEW f \in Executions, Mine(f)
      PROVE  chain'[e] \in {"absent", "reverted"} \/ misled'[e]
  <2>1. receipt' = receipt /\ chain[f] = "pending" /\ misled' = misled
    BY <1>3 DEF Mine
  <2>2. chain[e] \in {"absent", "reverted"} \/ misled[e]
    BY <2>1 DEF FailedIsUnpaid, Unpaid
  <2>3. chain[e] \in {"absent", "reverted"} => chain'[e] = chain[e]
    BY <1>3, <2>1 DEF Mine, TypeOK
  <2> QED
    BY <2>1, <2>2, <2>3
<1>4. ASSUME NEW f \in Executions, LateArrival(f)
      PROVE  chain'[e] \in {"absent", "reverted"} \/ misled'[e]
  <2>1. /\ f # e => chain'[e] = chain[e] /\ misled'[e] = misled[e]
        /\ misled[f] => misled'[f]
        /\ chain'[f] = chain[f] \/ (chain[f] = "absent" /\ (Settled(f) => misled'[f]))
        /\ receipt' = receipt
    BY <1>4, LandedLate
  <2>2. Settled(e)
    BY <2>1 DEF Settled
  <2> QED
    BY <2>1, <2>2 DEF FailedIsUnpaid, Unpaid
<1>5. CASE receipt' = receipt /\ chain' = chain /\ misled' = misled
  BY <1>5 DEF FailedIsUnpaid, Unpaid
<1>6. ASSUME NEW w \in Workers, NEW f \in Executions, Start(w, f)
      PROVE  receipt' = receipt /\ chain' = chain /\ misled' = misled
  BY <1>6 DEF Start
<1>7. ASSUME NEW p, Crash(p)
      PROVE  receipt' = receipt /\ chain' = chain /\ misled' = misled
  BY <1>7 DEF Crash
<1>8. Tick \/ UNCHANGED vars => receipt' = receipt /\ chain' = chain /\ misled' = misled
  BY DEF Tick, vars
<1> QED
  BY <1>2, <1>3, <1>4, <1>5, <1>6, <1>7, <1>8 DEF Next

\* Whatever the response shapes, and however the nodes lie or a broadcast is late: a
\* receipt says Failed only of a transaction that is not paid and not on its way, or
\* of one whose node told send what is not so, on any number of backends (read_tx_id,
\* the probes of send and the lease that orders its writes).
THEOREM FailedNeverPaid ==
    ASSUME LeaseOutlastsRun
    PROVE  Spec => []FailedIsUnpaid
<1>1. Spec => [](TypeOK /\ BroadcastInv /\ RunCovers /\ ReceiptHeld)
  BY RunInvariant
<1>2. Init => ChainKnown /\ FailedIsUnpaid
  BY DEF Init, ChainKnown, FailedIsUnpaid, Unpaid
<1>3. TypeOK /\ TypeOK' /\ BroadcastInv /\ RunCovers /\ ReceiptHeld /\ ChainKnown
        /\ [Next]_vars => ChainKnown'
  BY ChainStep DEF BroadcastInv
<1>4. TypeOK /\ TypeOK' /\ BroadcastInv /\ ReceiptHeld /\ ChainKnown
        /\ FailedIsUnpaid /\ [Next]_vars => FailedIsUnpaid'
  BY UnpaidStep
<1> QED
  BY <1>1, <1>2, <1>3, <1>4, PTL DEF Spec

-------------------------------------------------------------------------------
(* The local lock, whatever the store *)

\* A step of send belongs to a worker that runs, and moves no other.
LEMMA SendStepOwn ==
    ASSUME DOMAIN pc = Workers, NEW w \in Workers, SendStep(w)
    PROVE  /\ pc[w] # "idle" /\ exec' = exec /\ DOMAIN pc' = Workers
           /\ \A v \in Workers \ {w} : pc'[v] = pc[v]
<1> USE DEF stored, network, worker
<1>1. CASE Acquire(w) \/ Acquired(w) \/ AcquireLost(w) \/ AcquireRefused(w)
  BY <1>1 DEF Acquire, Acquired, AcquireLost, AcquireRefused, AcquireFile, Goto, Return
<1>2. CASE Load(w) \/ LoadFails(w) \/ Probe(w)
  BY <1>2 DEF Load, LoadFails, Fail, Probe, Goto
<1>3. CASE PersistPrepared(w) \/ PersistFinal(w) \/ PersistFails(w)
  BY <1>3 DEF PersistPrepared, PersistFinal, PersistFails, Goto
<1>4. CASE SubmitAccepted(w) \/ SubmitRefused(w) \/ SubmitLate(w)
  <2>1. PICK reply : Replied(w, reply)
    BY <1>4 DEF SubmitAccepted, SubmitRefused, SubmitLate
  <2>2. pc[w] = "submit"
    BY <1>4 DEF SubmitAccepted, SubmitRefused, SubmitLate
  <2> QED
    BY <2>1, <2>2 DEF Replied, Goto
<1>5. CASE Reprobe(w) \/ Release(w) \/ ReleaseLost(w)
  BY <1>5 DEF Reprobe, Release, ReleaseLost, Goto, Return
<1> QED
  BY <1>1, <1>2, <1>3, <1>4, <1>5 DEF SendStep

\* No step gives two threads of a process the lock of one execution.
LEMMA LocalLockStep ==
    ASSUME LocalLock, [Next]_vars
    PROVE  LocalLock'
<1> USE DEF stored, network, worker
<1>0. DOMAIN pc = Workers /\ DOMAIN exec = Workers
  BY DEF LocalLock
<1>1. ASSUME NEW w \in Workers, NEW e \in Executions, Start(w, e) PROVE LocalLock'
  <2>1. /\ pc' = [pc EXCEPT ![w] = "acquire"] /\ exec' = [exec EXCEPT ![w] = e]
        /\ LocalLockFree(w, e)
    BY <1>1 DEF Start, Goto
  <2>2. /\ \A v \in Workers \ {w} : pc'[v] = pc[v] /\ exec'[v] = exec[v]
        /\ exec'[w] = e /\ DOMAIN pc' = Workers /\ DOMAIN exec' = Workers
    BY <1>0, <2>1
  <2>3. \A v \in Workers \ {w} : Process[v] = Process[w] /\ pc[v] # "idle" => exec[v] # e
    BY <2>1 DEF LocalLockFree
  <2> QED
    BY <2>2, <2>3 DEF LocalLock
<1>2. ASSUME NEW w \in Workers, SendStep(w) PROVE LocalLock'
  BY <1>0, <1>2, SendStepOwn DEF LocalLock
<1>3. ASSUME NEW e \in Executions, Mine(e) \/ LateArrival(e) PROVE LocalLock'
  BY <1>3 DEF Mine, LateArrival, LocalLock
<1>4. ASSUME NEW p, Crash(p) PROVE LocalLock'
  BY <1>0, <1>4 DEF Crash, LocalLock
<1>5. CASE Tick \/ UNCHANGED vars
  BY <1>5 DEF Tick, vars, LocalLock
<1> QED
  BY <1>1, <1>2, <1>3, <1>4, <1>5 DEF Next

\* Whatever the store, and with no lease at all, threads of one process never
\* deliver one execution at the same time (local_lock in send).
THEOREM LocalLockHolds == Spec => []LocalLock
<1>1. Init => LocalLock
  BY DEF Init, LocalLock
<1>2. LocalLock /\ [Next]_vars => LocalLock'
  BY LocalLockStep
<1> QED
  BY <1>1, <1>2, PTL DEF Spec

\* So one command-line process, whose file store grants its lease to everyone,
\* broadcasts an execution from one thread at a time.
THEOREM OneProcessBroadcasts ==
    ASSUME \A v, w \in Workers : Process[v] = Process[w]
    PROVE  Spec => []SoleBroadcaster
<1>1. LocalLock => SoleBroadcaster
  BY DEF LocalLock, SoleBroadcaster
<1> QED
  BY <1>1, LocalLockHolds, PTL

-------------------------------------------------------------------------------
(* Receipts of either store, and what is known of those the file keeps *)

\* The receipt that a save drops is another one, and the file has each once.
LEMMA OthersFirst ==
    ASSUME order \in Seq(Executions), OrderedOnce, NEW e \in Executions
    PROVE  /\ \A i, j \in 1 .. Len(Latest(e)) : Latest(e)[i] = Latest(e)[j] => i = j
           /\ Len(Latest(e)) > 1 => Latest(e)[1] # e
<1>1. Len(order) \in Nat /\ \A i, j \in 1 .. Len(order) : order[i] = order[j] => i = j
  BY DEF OrderedOnce
<1>2. CASE \E i \in 1 .. Len(order) : order[i] = e
  <2> DEFINE n == Len(order)
             moved == [i \in 1 .. n |->
                        IF i = n THEN e
                        ELSE IF \E j \in 1 .. i : order[j] = e THEN order[i + 1] ELSE order[i]]
  <2>1. Latest(e) = moved
    BY <1>2 DEF Latest
  <2>2. PICK k \in 1 .. n : order[k] = e
    BY <1>2
  <2>3. \A i \in 1 .. n : moved[i] = IF i = n THEN e
                                     ELSE IF k <= i THEN order[i + 1] ELSE order[i]
    <3> TAKE i \in 1 .. n
    <3>1. (\E j \in 1 .. i : order[j] = e) <=> k <= i
      BY <1>1, <2>2
    <3> QED
      BY <3>1
  <2>4. moved \in Seq(Executions) /\ Len(moved) = n
    BY <1>2, <2>1, LatestTypes
  <2> HIDE DEF moved
  <2>5. \A i, j \in 1 .. n : moved[i] = moved[j] => i = j
    <3> SUFFICES ASSUME NEW i \in 1 .. n, NEW j \in 1 .. n, i < j PROVE moved[i] # moved[j]
      BY <1>1
    <3>1. i # n /\ i + 1 \in 1 .. n
      BY <1>1
    <3>2. moved[i] = IF k <= i THEN order[i + 1] ELSE order[i]
      BY <2>3, <3>1
    <3>3. CASE j = n
      <4>1. moved[j] = order[k]
        BY <2>2, <2>3, <3>3
      <4>2. (IF k <= i THEN i + 1 ELSE i) # k
        BY <1>1, <2>2
      <4> QED
        BY <1>1, <2>2, <3>1, <3>2, <4>1, <4>2
    <3>4. CASE j # n
      <4>1. j + 1 \in 1 .. n
        BY <1>1, <3>4
      <4>2. moved[j] = IF k <= j THEN order[j + 1] ELSE order[j]
        BY <2>3, <3>4
      <4> QED
        BY <1>1, <2>2, <3>1, <3>2, <4>1, <4>2
    <3> QED
      BY <3>3, <3>4
  <2>6. n > 1 => moved[1] # moved[n]
    BY <1>1, <2>5
  <2>7. n \in 1 .. n /\ moved[n] = e
    BY <1>1, <2>2, <2>3
  <2> QED
    BY <2>1, <2>4, <2>5, <2>6, <2>7
<1>3. CASE ~(\E i \in 1 .. Len(order) : order[i] = e)
  <2>1. Latest(e) = Append(order, e)
    BY <1>3 DEF Latest
  <2>2. /\ Len(Append(order, e)) = Len(order) + 1
        /\ \A i \in 1 .. Len(order) : Append(order, e)[i] = order[i] /\ order[i] # e
        /\ Append(order, e)[Len(order) + 1] = e
    BY <1>1, <1>3
  <2>3. ASSUME NEW i \in 1 .. (Len(order) + 1), NEW j \in 1 .. (Len(order) + 1),
               Append(order, e)[i] = Append(order, e)[j]
        PROVE  i = j
    <3>1. \A l \in 1 .. (Len(order) + 1) : l \in 1 .. Len(order) \/ l = Len(order) + 1
      BY <1>1
    <3> QED
      BY <1>1, <2>2, <2>3, <3>1
  <2>4. Len(order) + 1 > 1 => Append(order, e)[1] # e
    BY <1>1, <2>2
  <2> QED
    BY <2>1, <2>2, <2>3, <2>4
<1> QED
  BY <1>2, <1>3

\* A save writes its receipt; the file drops at most receipts of others.
LEMMA SaveEffect ==
    ASSUME TypeOK, OrderedOnce, NEW e \in Executions, NEW r \in Receipts, Save(e, r)
    PROVE  /\ receipt'[e] = r
           /\ \A f \in Executions \ {e} :
                receipt'[f] = receipt[f] \/ (Store = "file" /\ receipt'[f] = NoReceipt)
           /\ OrderedOnce'
<1>1. order \in Seq(Executions) /\ receipt \in [Executions -> Receipts]
  BY DEF TypeOK
<1>2. /\ Latest(e) \in Seq(Executions) /\ Len(Latest(e)) \in Nat \ {0}
      /\ \A i, j \in 1 .. Len(Latest(e)) : Latest(e)[i] = Latest(e)[j] => i = j
  BY <1>1, LatestTypes, OthersFirst
<1>3. CASE Evicts(e)
  <2>1. /\ receipt' = [receipt EXCEPT ![e] = r, ![Head(Latest(e))] = NoReceipt]
        /\ order' = Tail(Latest(e)) /\ Store = "file"
    BY <1>3 DEF Save, Evicts
  <2>2. Len(Latest(e)) > 1
    BY <1>2, <1>3, DeliveryAssumption DEF Evicts
  <2>3. Head(Latest(e)) # e
    BY <1>1, <1>2, <2>2, OthersFirst
  <2> DEFINE all == Latest(e)
  <2>4. all \in Seq(Executions) /\ \A i, j \in 1 .. Len(all) : all[i] = all[j] => i = j
    BY <1>2
  <2> HIDE DEF all
  <2>5. /\ Len(Tail(all)) = Len(all) - 1
        /\ \A i \in 1 .. (Len(all) - 1) : Tail(all)[i] = all[i + 1] /\ i + 1 \in 1 .. Len(all)
    BY <1>2, <2>2, <2>4 DEF all
  <2>6. \A i, j \in 1 .. (Len(all) - 1) : Tail(all)[i] = Tail(all)[j] => i = j
    <3> TAKE i, j \in 1 .. (Len(all) - 1)
    <3>1. all[i + 1] = all[j + 1] => i + 1 = j + 1
      BY <2>4, <2>5
    <3> QED
      BY <2>5, <3>1
  <2>7. OrderedOnce'
    BY <2>1, <2>5, <2>6 DEF OrderedOnce, all
  <2> QED
    BY <1>1, <2>1, <2>3, <2>7
<1>4. CASE ~Evicts(e)
  <2>1. receipt' = [receipt EXCEPT ![e] = r] /\ order' \in {Latest(e), order}
    BY <1>4 DEF Save
  <2> QED
    BY <1>1, <1>2, <2>1 DEF OrderedOnce
<1> QED
  BY <1>3, <1>4

\* What a step of send does to the receipts.
LEMMA StepReceipts ==
    ASSUME TypeOK, OrderedOnce, NEW w \in Workers, SendStep(w)
    PROVE  /\ \A f \in Executions \ {exec[w]} :
                receipt'[f] = receipt[f] \/ (Store = "file" /\ receipt'[f] = NoReceipt)
           /\ \/ receipt'[exec[w]] = receipt[exec[w]]
              \/ pc[w] \in {"prepare", "finish"} /\ receipt'[exec[w]] = rcpt[w]
           /\ pc'[w] = "submit" => pc[w] = "prepare" /\ receipt'[exec[w]] = rcpt[w] /\ rcpt' = rcpt
           /\ OrderedOnce'
<1> USE DEF stored, network, worker
<1>1. exec[w] \in Executions /\ rcpt[w] \in Receipts
  BY DEF TypeOK
<1>2. CASE pc[w] \in {"prepare", "finish"}
  <2>1. Save(exec[w], rcpt[w]) \/ UNCHANGED <<receipt, order>>
    BY <1>2 DEF SendStep, Acquire, Acquired, AcquireFile, AcquireLost, AcquireRefused, Load,
       LoadFails, Probe, PersistPrepared, PersistFinal, PersistFails, SubmitAccepted,
       SubmitRefused, SubmitLate, Reprobe, Release, ReleaseLost
  <2>2. CASE Save(exec[w], rcpt[w])
    <3>1. pc'[w] = "submit" => pc[w] = "prepare" /\ rcpt' = rcpt
      <4>1. PersistPrepared(w) \/ PersistFinal(w) \/ PersistFails(w)
        BY <1>2 DEF SendStep, Acquire, Acquired, AcquireFile, AcquireLost, AcquireRefused,
           Load, LoadFails, Probe, SubmitAccepted, SubmitRefused, SubmitLate, Reprobe,
           Release, ReleaseLost
      <4> QED
        BY <4>1 DEF PersistPrepared, PersistFinal, PersistFails, Goto, TypeOK
    <3> QED
      BY <1>1, <1>2, <2>2, <3>1, SaveEffect
  <2>3. CASE UNCHANGED <<receipt, order>> /\ ~Save(exec[w], rcpt[w])
    <3>1. PersistFails(w)
      BY <1>2, <2>3 DEF SendStep, Acquire, Acquired, AcquireFile, AcquireLost,
         AcquireRefused, Load, LoadFails, Probe, SubmitAccepted, SubmitRefused, SubmitLate,
         Reprobe, Release, ReleaseLost, PersistPrepared, PersistFinal
    <3>2. pc'[w] = "release"
      BY <3>1 DEF PersistFails, Goto, TypeOK
    <3> QED
      BY <2>3, <3>2 DEF OrderedOnce
  <2> QED
    BY <2>1, <2>2, <2>3
<1>3. CASE pc[w] \notin {"prepare", "finish"}
  <2>1. UNCHANGED <<receipt, order>>
    BY <1>3 DEF SendStep, Acquire, Acquired, AcquireFile, AcquireLost, AcquireRefused, Load,
       LoadFails, Fail, Probe, PersistPrepared, PersistFinal, PersistFails, SubmitAccepted,
       SubmitRefused, SubmitLate, Replied, Reprobe, Release, ReleaseLost
  <2>2. pc'[w] # "submit"
    <3>1. CASE Acquire(w) \/ Acquired(w) \/ AcquireLost(w) \/ AcquireRefused(w)
                \/ LoadFails(w) \/ Release(w) \/ ReleaseLost(w) \/ Reprobe(w)
      BY <3>1 DEF Acquire, Acquired, AcquireLost, AcquireRefused, AcquireFile, LoadFails,
         Fail, Release, ReleaseLost, Reprobe, Goto, Return, TypeOK
    <3>2. CASE Load(w) \/ Probe(w)
      <4>1. PICK step \in {"probe", "prepare", "finish"} : Goto(w, step)
        BY <3>2 DEF Load, Probe
      <4> QED
        BY <4>1 DEF Goto, TypeOK
    <3>3. CASE SubmitAccepted(w) \/ SubmitRefused(w) \/ SubmitLate(w)
      <4>1. PICK reply : Replied(w, reply)
        BY <3>3 DEF SubmitAccepted, SubmitRefused, SubmitLate
      <4>2. PICK step \in {"reprobe", "finish"} : Goto(w, step)
        BY <4>1 DEF Replied
      <4> QED
        BY <4>2 DEF Goto, TypeOK
    <3> QED
      BY <1>3, <3>1, <3>2, <3>3
         DEF SendStep, PersistPrepared, PersistFinal, PersistFails
  <2> QED
    BY <2>1, <2>2 DEF OrderedOnce
<1> QED
  BY <1>2, <1>3

\* What a run carries once it has loaded its receipt.
LEMMA StepRun ==
    ASSUME TypeOK, TypeOK', Kept, NEW w \in Workers, SendStep(w)
    PROVE  /\ pc'[w] \in {"probe", "prepare", "submit", "reprobe", "finish"}
                => rcpt'[w].state # "None" /\ rcpt'[w].attempts > 0
           /\ pc'[w] = "prepare" => rcpt'[w].state = "Prepared"
           /\ pc[w] = "load" /\ pc'[w] = "prepare" => receipt[exec[w]].state = "None"
<1> USE DEF stored, network, worker
<1>1. exec[w] \in Executions /\ rcpt[w] \in Receipts /\ receipt[exec[w]] \in Receipts
  BY DEF TypeOK
<1>2. pc[w] \in {"probe", "prepare", "submit", "reprobe", "finish"}
        => rcpt[w].state # "None" /\ rcpt[w].attempts > 0
  BY DEF Kept
<1>3. \A r \in Receipts : Prepare(r).state = "Prepared" /\ Prepare(r).attempts > 0
  BY LimitTypes DEF Prepare
<1>4. CASE Acquire(w) \/ Acquired(w) \/ AcquireLost(w) \/ AcquireRefused(w)
            \/ LoadFails(w) \/ Release(w) \/ ReleaseLost(w)
  BY <1>4 DEF Acquire, Acquired, AcquireLost, AcquireRefused, AcquireFile, LoadFails, Fail,
     Release, ReleaseLost, Goto, Return, TypeOK
<1>5. CASE Load(w)
  <2>1. receipt[exec[w]].state = "None" <=> receipt[exec[w]].attempts = 0
    BY <1>1 DEF Kept
  <2>2. receipt[exec[w]].attempts \in Nat
    BY <1>1, DeliveryAssumption DEF Receipts
  <2>3. \/ /\ NeedsProbe(receipt[exec[w]])
           /\ rcpt' = [rcpt EXCEPT ![w] = receipt[exec[w]]]
           /\ pc' = [pc EXCEPT ![w] = "probe"]
        \/ /\ ~NeedsProbe(receipt[exec[w]])
           /\ rcpt' = [rcpt EXCEPT ![w] = Prepare(receipt[exec[w]])]
           /\ pc' = [pc EXCEPT ![w] = "prepare"]
    BY <1>5 DEF Load, Goto
  <2>4. NeedsProbe(receipt[exec[w]]) <=> receipt[exec[w]].state # "None"
    BY <2>1, <2>2 DEF NeedsProbe
  <2>5. receipt[exec[w]].state # "None" => receipt[exec[w]].attempts > 0
    BY <2>1, <2>2
  <2> QED
    BY <1>1, <1>3, <2>3, <2>4, <2>5 DEF TypeOK
<1>6. CASE Probe(w)
  <2>1. pc[w] = "probe"
    BY <1>6 DEF Probe
  <2>2. PICK answer \in Answers(exec[w]) :
          \/ /\ rcpt' = [rcpt EXCEPT ![w] = Prepare(rcpt[w])]
             /\ pc' = [pc EXCEPT ![w] = "prepare"]
          \/ /\ answer # "NotFound"
             /\ rcpt' = [rcpt EXCEPT ![w].state =
                           IF answer = "error" THEN "Unknown" ELSE answer]
             /\ pc' = [pc EXCEPT ![w] = "finish"]
    BY <1>6 DEF Probe, Goto, MayBroadcast
  <2>3. answer \in {"NotFound", "error"} \cup DeliveryStates
    BY <1>1, AnswerTypes DEF TypeOK
  <2>4. CASE /\ rcpt' = [rcpt EXCEPT ![w] = Prepare(rcpt[w])]
             /\ pc' = [pc EXCEPT ![w] = "prepare"]
    BY <1>1, <1>3, <2>1, <2>4 DEF TypeOK
  <2>5. CASE /\ answer # "NotFound"
             /\ rcpt' = [rcpt EXCEPT ![w].state =
                           IF answer = "error" THEN "Unknown" ELSE answer]
             /\ pc' = [pc EXCEPT ![w] = "finish"]
    <3> DEFINE st == IF answer = "error" THEN "Unknown" ELSE answer
    <3>1. st \in DeliveryStates
      BY <2>3, <2>5 DEF DeliveryStates
    <3>2. rcpt' = [rcpt EXCEPT ![w].state = st] /\ pc' = [pc EXCEPT ![w] = "finish"]
      BY <2>5
    <3> HIDE DEF st
    <3>3. rcpt'[w].state = st /\ rcpt'[w].attempts = rcpt[w].attempts /\ pc'[w] = "finish"
      BY <1>1, <3>2 DEF TypeOK, Receipts
    <3> QED
      BY <1>2, <2>1, <3>1, <3>3 DEF DeliveryStates
  <2> QED
    BY <2>2, <2>4, <2>5
<1>7. CASE PersistPrepared(w) \/ PersistFinal(w) \/ PersistFails(w)
  <2>1. rcpt' = rcpt /\ pc'[w] \in {"submit", "release"} /\ pc[w] # "load"
    BY <1>7 DEF PersistPrepared, PersistFinal, PersistFails, Goto, TypeOK
  <2>2. pc'[w] = "submit" => pc[w] = "prepare"
    BY <1>7 DEF PersistPrepared, PersistFinal, PersistFails, Goto, TypeOK
  <2> QED
    BY <1>2, <2>1, <2>2
<1>8. CASE SubmitAccepted(w) \/ SubmitRefused(w) \/ SubmitLate(w)
  <2>1. PICK reply : Replied(w, reply)
    BY <1>8 DEF SubmitAccepted, SubmitRefused, SubmitLate
  <2>2. pc[w] = "submit"
    BY <1>8 DEF SubmitAccepted, SubmitRefused, SubmitLate
  <2>3. rcpt' = [rcpt EXCEPT ![w].state = StateAfter(reply)] /\ StateAfter(reply) \in DeliveryStates
    BY <2>1, AnswerTypes DEF Replied
  <2>4. rcpt'[w].state = StateAfter(reply) /\ rcpt'[w].attempts = rcpt[w].attempts
    BY <1>1, <2>3 DEF TypeOK, Receipts
  <2>5. pc'[w] \in {"reprobe", "finish"}
    BY <2>1 DEF Replied, Goto, TypeOK
  <2> QED
    BY <1>2, <2>2, <2>3, <2>4, <2>5 DEF DeliveryStates
<1>9. CASE Reprobe(w)
  <2>1. pc[w] = "reprobe"
    BY <1>9 DEF Reprobe
  <2>2. PICK answer \in Answers(exec[w]) :
          rcpt' = [rcpt EXCEPT ![w].state =
                     IF answer \in {"NotFound", "error"} THEN "Unknown" ELSE answer]
    BY <1>9 DEF Reprobe
  <2>3. answer \in {"NotFound", "error"} \cup DeliveryStates
    BY <1>1, AnswerTypes DEF TypeOK
  <2> DEFINE st == IF answer \in {"NotFound", "error"} THEN "Unknown" ELSE answer
  <2>4. st \in DeliveryStates /\ rcpt' = [rcpt EXCEPT ![w].state = st]
    BY <2>2, <2>3 DEF DeliveryStates
  <2> HIDE DEF st
  <2>5. rcpt'[w].state = st /\ rcpt'[w].attempts = rcpt[w].attempts
    BY <1>1, <2>4 DEF TypeOK, Receipts
  <2>6. pc'[w] = "finish"
    BY <1>9 DEF Reprobe, Goto, TypeOK
  <2> QED
    BY <1>2, <2>1, <2>4, <2>5, <2>6 DEF DeliveryStates
<1> QED
  BY <1>4, <1>5, <1>6, <1>7, <1>8, <1>9 DEF SendStep

\* Every step keeps the receipts whole, over either store.
LEMMA KeptStep ==
    ASSUME TypeOK, TypeOK', OrderedOnce, Kept, [Next]_vars
    PROVE  OrderedOnce' /\ Kept'
<1> USE DEF stored, network, worker
<1> DEFINE Later == {"probe", "prepare", "submit", "reprobe", "finish"}
<1>1. ASSUME UNCHANGED <<receipt, order>>,
             \A v \in Workers : pc'[v] \notin Later \/ (pc'[v] = pc[v] /\ rcpt'[v] = rcpt[v])
      PROVE  OrderedOnce' /\ Kept'
  BY <1>1 DEF OrderedOnce, Kept
<1>2. ASSUME NEW w \in Workers, NEW e \in Executions, Start(w, e) PROVE OrderedOnce' /\ Kept'
  BY <1>1, <1>2 DEF Start, Goto, TypeOK
<1>3. ASSUME NEW w \in Workers, SendStep(w) PROVE OrderedOnce' /\ Kept'
  <2>1. exec[w] \in Executions /\ rcpt[w] \in Receipts
    BY DEF TypeOK
  <2>2. pc[w] \in {"prepare", "finish"} => rcpt[w].state # "None" /\ rcpt[w].attempts # 0
    BY <2>1, DeliveryAssumption DEF Kept, Receipts
  <2>3. \A f \in Executions : receipt'[f].state = "None" <=> receipt'[f].attempts = 0
    <3> TAKE f \in Executions
    <3>1. receipt'[f] \in {receipt[f], NoReceipt}
            \/ (pc[w] \in {"prepare", "finish"} /\ receipt'[f] = rcpt[w])
      BY <1>3, StepReceipts
    <3> QED
      BY <2>2, <3>1 DEF Kept, NoReceipt
  <2>4. \A v \in Workers : pc'[v] \in Later => rcpt'[v].state # "None" /\ rcpt'[v].attempts > 0
    <3> TAKE v \in Workers
    <3>1. CASE v = w
      BY <1>3, <3>1, StepRun
    <3>2. CASE v # w
      BY <1>3, <3>2, SendStepLocal DEF Kept
    <3> QED
      BY <3>1, <3>2
  <2> QED
    BY <1>3, <2>3, <2>4, StepReceipts DEF Kept
<1>4. ASSUME NEW e \in Executions, Mine(e) \/ LateArrival(e) PROVE OrderedOnce' /\ Kept'
  BY <1>1, <1>4 DEF Mine, LateArrival
<1>5. ASSUME NEW p, Crash(p) PROVE OrderedOnce' /\ Kept'
  BY <1>1, <1>5 DEF Crash
<1>6. CASE Tick \/ UNCHANGED vars
  BY <1>1, <1>6 DEF Tick, vars
<1> QED
  BY <1>2, <1>3, <1>4, <1>5, <1>6 DEF Next

\* Whatever the store and the faults, a receipt is there with an attempt on it or
\* not at all, and the file holds one of each execution (save in both stores).
THEOREM ReceiptsWhole == Spec => [](TypeOK /\ OrderedOnce /\ Kept)
<1>1. Init => TypeOK /\ OrderedOnce /\ Kept
  <2> SUFFICES ASSUME Init PROVE TypeOK /\ OrderedOnce /\ Kept
    OBVIOUS
  <2>1. NoLease \in Leases /\ NoReceipt \in Receipts /\ Limit("idle") = 0
    BY LimitTypes DEF NoLease, Leases, Limit
  <2>2. TypeOK
    BY <2>1, DeliveryAssumption DEF Init, TypeOK, ChainStates, PCs
  <2>3. OrderedOnce /\ Kept
    BY DEF Init, OrderedOnce, Kept, NoReceipt
  <2> QED
    BY <2>2, <2>3
<1>2. TypeOK /\ OrderedOnce /\ Kept /\ [Next]_vars => (TypeOK /\ OrderedOnce /\ Kept)'
  BY TypeStep, KeptStep
<1> QED
  BY <1>1, <1>2, PTL DEF Spec

\* The shared store drops no receipt.
LEMMA NothingDropped ==
    ASSUME Store = "upstash", TypeOK, OrderedOnce, Kept, [Next]_vars, NEW e \in Executions,
           receipt[e].state # "None"
    PROVE  receipt'[e].state # "None"
<1> USE DEF stored, network, worker
<1>1. ASSUME NEW w \in Workers, SendStep(w) PROVE receipt'[e].state # "None"
  <2>1. receipt'[e] = receipt[e] \/ (pc[w] \in {"prepare", "finish"} /\ receipt'[e] = rcpt[w])
    BY <1>1, StepReceipts
  <2> QED
    BY <2>1 DEF Kept
<1>2. CASE receipt' = receipt
  BY <1>2
<1> QED
  BY <1>1, <1>2 DEF Next, Start, Mine, LateArrival, Crash, Tick, vars

\* A run asks or journals only over a receipt that is not Failed.
LEMMA RunBegins ==
    ASSUME TypeOK, NEW w \in Workers, SendStep(w), pc'[w] \in {"probe", "prepare"}
    PROVE  pc[w] = "probe" \/ (pc[w] = "load" /\ receipt[exec[w]].state # "Failed")
<1> USE DEF stored, network, worker
<1>1. CASE Load(w) \/ Probe(w)
  BY <1>1 DEF Load, Terminal, Probe
<1>2. CASE SubmitAccepted(w) \/ SubmitRefused(w) \/ SubmitLate(w)
  <2>1. PICK reply : Replied(w, reply)
    BY <1>2 DEF SubmitAccepted, SubmitRefused, SubmitLate
  <2> QED
    BY <2>1 DEF Replied, Goto, TypeOK
<1> QED
  BY <1>1, <1>2 DEF SendStep, Acquire, Acquired, AcquireFile, AcquireLost, AcquireRefused,
     LoadFails, Fail, PersistPrepared, PersistFinal, PersistFails, Reprobe, Release,
     ReleaseLost, Goto, Return, TypeOK

\* In one process every step keeps what is known of an execution, unless it drops
\* the receipt of it.
LEMMA KnownStep ==
    ASSUME \A v, w \in Workers : Process[v] = Process[w],
           TypeOK, TypeOK', LocalLock, OrderedOnce, Kept, [Next]_vars,
           NEW e \in Executions, KnownOfKept(e),
           receipt'[e].state = "None" => receipt[e].state = "None"
    PROVE  KnownOfKept(e)'
<1> USE DEF stored, network, worker, NotHeld, NotPaid, Unpaid
<1> DEFINE Knows(v) == exec'[v] = e =>
             /\ pc'[v] \in {"probe", "prepare", "submit"} => receipt'[e].state # "Failed"
             /\ pc'[v] \in {"prepare", "submit"} =>
                  (chain'[e] = "absent" \/ misled'[e]) /\ rcpt'[v].state = "Prepared"
             /\ pc'[v] = "submit" => receipt'[e] = rcpt'[v]
             /\ pc'[v] = "finish" /\ rcpt'[v].state = "Failed"
                  => chain'[e] \in {"absent", "reverted"} \/ misled'[e]
           Stored == /\ late'[e] \/ chain'[e] # "absent" => sent'[e]
                     /\ sent'[e] => receipt'[e].state # "None"
                     /\ receipt'[e].state = "Failed"
                          => chain'[e] \in {"absent", "reverted"} \/ misled'[e]
<1> SUFFICES Stored /\ \A v \in Workers : Knows(v)
  BY DEF KnownOfKept
<1>1. ASSUME receipt'[e] = receipt[e], chain'[e] = chain[e], late'[e] => late[e], sent'[e] = sent[e],
             misled[e] => misled'[e],
             \A v \in Workers : \/ pc'[v] \notin {"probe", "prepare", "submit", "finish"}
                                \/ pc'[v] = pc[v] /\ rcpt'[v] = rcpt[v] /\ exec'[v] = exec[v]
      PROVE  Stored /\ \A v \in Workers : Knows(v)
  BY <1>1 DEF KnownOfKept
<1>2. ASSUME NEW w \in Workers, NEW f \in Executions, Start(w, f)
      PROVE  Stored /\ \A v \in Workers : Knows(v)
  <2>1. UNCHANGED <<receipt, chain, late, sent, misled, rcpt>>
    BY <1>2 DEF Start
  <2>2. pc'[w] = "acquire" /\ \A v \in Workers \ {w} : pc'[v] = pc[v] /\ exec'[v] = exec[v]
    BY <1>2 DEF Start, Goto, TypeOK
  <2> QED
    BY <1>1, <2>1, <2>2
<1>3. ASSUME NEW w \in Workers, SendStep(w), exec[w] # e
      PROVE  Stored /\ \A v \in Workers : Knows(v)
  <2>1. receipt'[e] = receipt[e]
    <3>1. receipt'[e] = receipt[e] \/ receipt'[e] = NoReceipt
      BY <1>3, StepReceipts
    <3>2. receipt'[e] = NoReceipt => receipt[e] = NoReceipt
      <4> SUFFICES ASSUME receipt'[e] = NoReceipt PROVE receipt[e] = NoReceipt
        OBVIOUS
      <4>1. receipt[e].state = "None" /\ receipt[e].attempts = 0 /\ receipt[e] \in Receipts
        BY DEF NoReceipt, Kept, TypeOK
      <4> QED
        BY <4>1 DEF NoReceipt, Receipts
    <3> QED
      BY <3>1, <3>2
  <2>2. chain'[e] = chain[e] /\ late'[e] = late[e] /\ sent'[e] = sent[e] /\ misled'[e] = misled[e]
    BY <1>3 DEF SendStep, Acquire, Acquired, AcquireFile, AcquireLost, AcquireRefused, Load,
       LoadFails, Fail, Probe, Believes, PersistPrepared, PersistFinal, PersistFails,
       SubmitAccepted, SubmitRefused, SubmitLate, Replied, Reprobe, Release, ReleaseLost, TypeOK
  <2>3. exec' = exec /\ \A v \in Workers \ {w} : pc'[v] = pc[v] /\ rcpt'[v] = rcpt[v]
    BY <1>3, SendStepLocal
  <2>4. \A v \in Workers : exec[v] = e => Knows(v)
    BY <1>3, <2>1, <2>2, <2>3 DEF KnownOfKept
  <2> QED
    BY <2>1, <2>2, <2>3, <2>4 DEF KnownOfKept
<1>4. ASSUME NEW w \in Workers, SendStep(w), exec[w] = e
      PROVE  Stored /\ \A v \in Workers : Knows(v)
  <2>1. /\ pc[w] # "idle" /\ exec' = exec
        /\ \A v \in Workers \ {w} : pc'[v] = pc[v]
    BY <1>4, SendStepLocal, SendStepOwn DEF TypeOK
  <2>2. \A v \in Workers \ {w} : exec[v] = e => pc[v] = "idle"
    BY <1>4, <2>1 DEF LocalLock
  <2>3. /\ rcpt[w] \in Receipts /\ receipt[e] \in Receipts
        /\ pc[w] \in {"probe", "prepare", "submit"} => receipt[e].state # "Failed"
        /\ pc[w] \in {"prepare", "submit"} => NotHeld(e) /\ rcpt[w].state = "Prepared"
        /\ pc[w] = "submit" => receipt[e] = rcpt[w]
        /\ pc[w] = "finish" /\ rcpt[w].state = "Failed" => NotPaid(e)
    BY <1>4 DEF KnownOfKept, TypeOK
  <2>4. ~NeedsProbe(receipt[e]) => chain[e] = "absent"
    BY <2>3, DeliveryAssumption DEF NeedsProbe, KnownOfKept, Kept, Receipts
  <2>5. /\ pc[w] # "submit" => chain' = chain /\ late' = late /\ sent' = sent
        /\ pc[w] = "submit" => sent'[e]
        /\ pc[w] # "probe" /\ misled[e] => misled'[e]
        /\ pc'[w] \in {"prepare", "submit"} => NotHeld(e)'
        /\ pc'[w] = "finish" /\ rcpt'[w].state = "Failed" => NotPaid(e)'
    BY <1>4, <2>3, <2>4, ChainEffect
  <2>6. /\ \/ receipt'[e] = receipt[e]
           \/ pc[w] \in {"prepare", "finish"} /\ receipt'[e] = rcpt[w]
        /\ pc'[w] = "submit" => pc[w] = "prepare" /\ receipt'[e] = rcpt[w] /\ rcpt' = rcpt
    BY <1>4, StepReceipts
  <2>7. /\ pc'[w] = "prepare" => rcpt'[w].state = "Prepared"
        /\ pc'[w] \in {"probe", "prepare"} => receipt'[e].state # "Failed"
    <3>1. pc'[w] = "prepare" => rcpt'[w].state = "Prepared"
      BY <1>4, StepRun
    <3>2. pc'[w] \in {"probe", "prepare"}
            => pc[w] = "probe" \/ (pc[w] = "load" /\ receipt[e].state # "Failed")
      BY <1>4, RunBegins
    <3> QED
      BY <2>3, <2>6, <3>1, <3>2
  <2>8. Knows(w)
    BY <2>3, <2>5, <2>6, <2>7
  <2>9. \A v \in Workers \ {w} : Knows(v)
    BY <2>1, <2>2
  <2>10. late'[e] \/ chain'[e] # "absent" => sent'[e]
    BY <2>5 DEF KnownOfKept
  <2>11. sent'[e] => receipt'[e].state # "None"
    <3>1. CASE pc[w] = "submit"
      BY <2>3, <2>6, <3>1
    <3>2. CASE pc[w] # "submit"
      BY <2>5, <2>6, <3>2 DEF KnownOfKept, Kept
    <3> QED
      BY <3>1, <3>2
  <2>12. receipt'[e].state = "Failed" => NotPaid(e)'
    <3>1. CASE pc[w] \in {"probe", "submit"}
      BY <2>3, <2>6, <3>1
    <3>2. CASE pc[w] \notin {"probe", "submit"}
      BY <2>3, <2>5, <2>6, <3>2 DEF KnownOfKept
    <3> QED
      BY <3>1, <3>2
  <2> QED
    BY <2>8, <2>9, <2>10, <2>11, <2>12
<1>5. ASSUME NEW f \in Executions, Mine(f)
      PROVE  Stored /\ \A v \in Workers : Knows(v)
  <2>1. /\ chain[f] = "pending" /\ UNCHANGED <<receipt, late, sent, misled, pc, exec, rcpt>>
        /\ \E c : chain' = [chain EXCEPT ![f] = c]
    BY <1>5 DEF Mine
  <2>2. f # e => chain'[e] = chain[e]
    BY <2>1 DEF TypeOK
  <2>3. CASE f # e
    BY <1>1, <2>1, <2>2, <2>3
  <2>4. CASE f = e
    BY <2>1, <2>4 DEF KnownOfKept
  <2> QED
    BY <2>3, <2>4
<1>6. ASSUME NEW f \in Executions, LateArrival(f)
      PROVE  Stored /\ \A v \in Workers : Knows(v)
  <2>1. /\ f # e => chain'[e] = chain[e] /\ misled'[e] = misled[e]
        /\ misled[f] => misled'[f]
        /\ chain'[f] = chain[f] \/ (chain[f] = "absent" /\ (Settled(f) => misled'[f]))
        /\ late'[e] => late[e]
        /\ late[f] /\ UNCHANGED <<receipt, sent, pc, exec, rcpt>>
    BY <1>6, LandedLate
  <2>2. CASE chain'[e] = chain[e]
    BY <1>1, <2>1, <2>2
  <2>3. CASE f = e /\ (Settled(e) => misled'[e])
    BY <2>1, <2>3 DEF KnownOfKept, Settled
  <2> QED
    BY <2>1, <2>2, <2>3
<1>7. ASSUME NEW p, Crash(p)
      PROVE  Stored /\ \A v \in Workers : Knows(v)
  BY <1>1, <1>7 DEF Crash
<1>8. CASE Tick \/ UNCHANGED vars
  BY <1>1, <1>8 DEF Tick, vars
<1> QED
  BY <1>2, <1>3, <1>4, <1>5, <1>6, <1>7, <1>8 DEF Next

-------------------------------------------------------------------------------
(* What a behaviour over each store keeps *)

\* Of the shared store, whose leases outlast a run; and of the file of a process.
SharedInv ==
    /\ TypeOK /\ OrderedOnce /\ Kept
    /\ BroadcastInv /\ RunCovers /\ ReceiptHeld /\ ChainKnown /\ FailedIsUnpaid
FileInv == TypeOK /\ OrderedOnce /\ Kept /\ LocalLock

LEMMA StoresStart ==
    ASSUME Init
    PROVE  SharedInv /\ FileInv /\ \A e \in Executions : KnownOfKept(e)
<1>1. TypeOK /\ BroadcastInv
  BY DeliveryInit
<1>2. OrderedOnce /\ Kept /\ LocalLock
  BY DEF Init, OrderedOnce, Kept, NoReceipt, LocalLock
<1>3. RunCovers /\ ReceiptHeld /\ ChainKnown /\ FailedIsUnpaid
  BY DEF Init, RunCovers, ReceiptHeld, ChainKnown, FailedIsUnpaid, Unpaid, NoReceipt
<1>4. \A e \in Executions : KnownOfKept(e)
  BY DEF Init, KnownOfKept, NoReceipt
<1> QED
  BY <1>1, <1>2, <1>3, <1>4 DEF SharedInv, FileInv

\* The shared store keeps its invariant and every receipt.
LEMMA SharedStays ==
    ASSUME LeaseOutlastsRun, SharedInv, [Next]_vars
    PROVE  /\ SharedInv'
           /\ \A e \in Executions : receipt[e].state # "None" => receipt'[e].state # "None"
<1>1. Store = "upstash" /\ LeaseOutlastsBroadcast
  BY RunTypes DEF LeaseOutlastsRun, LeaseOutlastsBroadcast
<1>2. TypeOK' /\ OrderedOnce' /\ Kept'
  BY TypeStep, KeptStep DEF SharedInv
<1>3. BroadcastInv'
  BY <1>1, <1>2, CoversStep, JournalStep DEF SharedInv, BroadcastInv
<1>4. RunCovers' /\ ReceiptHeld'
  BY <1>2, RunStep, HeldStep DEF SharedInv, BroadcastInv
<1>5. ChainKnown'
  BY <1>1, <1>2, ChainStep DEF SharedInv, BroadcastInv
<1>6. FailedIsUnpaid'
  BY <1>2, UnpaidStep DEF SharedInv
<1>7. \A e \in Executions : receipt[e].state # "None" => receipt'[e].state # "None"
  BY <1>1, NothingDropped DEF SharedInv
<1> QED
  BY <1>2, <1>3, <1>4, <1>5, <1>6, <1>7 DEF SharedInv

\* The file of one process keeps its own, and what is known of an execution whose
\* receipt the step does not drop.
LEMMA FileStays ==
    ASSUME \A v, w \in Workers : Process[v] = Process[w], FileInv, [Next]_vars
    PROVE  /\ FileInv'
           /\ \A e \in Executions :
                KnownOfKept(e) /\ (receipt'[e].state = "None" => receipt[e].state = "None")
                  => KnownOfKept(e)'
<1>1. TypeOK' /\ OrderedOnce' /\ Kept' /\ LocalLock'
  BY TypeStep, KeptStep, LocalLockStep DEF FileInv
<1>2. ASSUME NEW e \in Executions, KnownOfKept(e),
             receipt'[e].state = "None" => receipt[e].state = "None"
      PROVE  KnownOfKept(e)'
  BY <1>1, <1>2, KnownStep DEF FileInv
<1> QED
  BY <1>1, <1>2 DEF FileInv
===============================================================================
