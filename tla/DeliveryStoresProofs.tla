-------------------------- MODULE DeliveryStoresProofs -------------------------
(***************************************************************************)
(* What a receipt that says Failed is worth over each of the two stores,   *)
(* for any number of workers and executions.  What either store keeps is   *)
(* proved in DeliveryProofs, and cited here for the store a behaviour has. *)
(***************************************************************************)
EXTENDS DeliveryStores, TLAPS

SharedP == INSTANCE DeliveryProofs WITH Store <- "upstash", Process <- Backends
FileP == INSTANCE DeliveryProofs WITH Store <- "file", Process <- CommandLine,
                                      Faults <- FileFaults, Executions <- FileExecutions,
                                      MaxAttempts <- FileAttempts, Providers <- FileProviders

-------------------------------------------------------------------------------
\* The shared store keeps its invariant and every receipt.
LEMMA OverShared ==
    ASSUME Shared!LeaseOutlastsRun
    PROVE  /\ Shared!Init => SharedP!SharedInv
           /\ SharedP!SharedInv /\ [Shared!Next]_Shared!vars
                => /\ SharedP!SharedInv'
                   /\ \A e \in Executions : receipt[e].state # "None" => receipt'[e].state # "None"
           /\ SharedP!SharedInv => Shared!FailedIsUnpaid /\ DOMAIN receipt = Executions
<1>0. SharedP!DeliveryAssumption /\ SharedP!LeaseOutlastsRun
  BY StoresAssumption DEF SharedP!DeliveryAssumption, SharedP!ResponseShapes, SharedP!LeaseOutlastsRun, Shared!LeaseOutlastsRun
<1>1. Shared!Init => SharedP!Init
  BY DEF Shared!NoLease, SharedP!NoLease, Shared!NoReceipt, SharedP!NoReceipt,
         Shared!Init, SharedP!Init
<1>2. ASSUME Shared!Next PROVE SharedP!Next
  BY <1>2 DEF Shared!stored, SharedP!stored, Shared!network, SharedP!network,
         Shared!worker, SharedP!worker, Shared!Limit, SharedP!Limit, Shared!Goto,
         SharedP!Goto, Shared!Return, SharedP!Return, Shared!NoReceipt,
         SharedP!NoReceipt, Shared!NoLease, SharedP!NoLease, Shared!LocalLockFree,
         SharedP!LocalLockFree, Shared!Start, SharedP!Start, Shared!LeaseFree,
         SharedP!LeaseFree, Shared!Acquire, SharedP!Acquire, Shared!AcquireFile,
         SharedP!AcquireFile, Shared!Acquired, SharedP!Acquired, Shared!AcquireLost,
         SharedP!AcquireLost, Shared!AcquireRefused, SharedP!AcquireRefused,
         Shared!TokenMatches, SharedP!TokenMatches, Shared!Release, SharedP!Release,
         Shared!ReleaseLost, SharedP!ReleaseLost, Shared!Prepare, SharedP!Prepare,
         Shared!NeedsProbe, SharedP!NeedsProbe, Shared!Fail, SharedP!Fail,
         Shared!Terminal, SharedP!Terminal, Shared!Load, SharedP!Load, Shared!LoadFails,
         SharedP!LoadFails, Shared!Latest, SharedP!Latest, Shared!Evicts, SharedP!Evicts,
         Shared!Save, SharedP!Save, Shared!PersistPrepared, SharedP!PersistPrepared,
         Shared!PersistFinal, SharedP!PersistFinal, Shared!PersistFails,
         SharedP!PersistFails, Shared!Answers, SharedP!Answers, Shared!MayBroadcast,
         SharedP!MayBroadcast, Shared!Probe, SharedP!Probe, Shared!Believes,
         SharedP!Believes, Shared!Taken, SharedP!Taken, Shared!Refused, SharedP!Refused,
         Shared!ReadTxId, SharedP!ReadTxId, Shared!Garbled, SharedP!Garbled,
         Shared!Settled, SharedP!Settled, Shared!StateAfter, SharedP!StateAfter,
         Shared!Replied, SharedP!Replied, Shared!SubmitAccepted, SharedP!SubmitAccepted,
         Shared!SubmitRefused, SharedP!SubmitRefused, Shared!SubmitLate,
         SharedP!SubmitLate, Shared!Reprobe, SharedP!Reprobe, Shared!Mine, SharedP!Mine,
         Shared!LateArrival, SharedP!LateArrival, Shared!Crash, SharedP!Crash,
         Shared!Elapse, SharedP!Elapse, Shared!Tick, SharedP!Tick, Shared!SendStep,
         SharedP!SendStep, Shared!Next, SharedP!Next
<1>3. UNCHANGED Shared!vars => UNCHANGED SharedP!vars
  BY DEF Shared!stored, SharedP!stored, Shared!network, SharedP!network, Shared!worker,
         SharedP!worker, Shared!vars, SharedP!vars
<1>4. Shared!Init => SharedP!SharedInv
  BY <1>0, <1>1, SharedP!StoresStart
<1>5. ASSUME SharedP!SharedInv, [Shared!Next]_Shared!vars
      PROVE  /\ SharedP!SharedInv'
             /\ \A e \in Executions : receipt[e].state # "None" => receipt'[e].state # "None"
  BY <1>0, <1>2, <1>3, <1>5, SharedP!SharedStays
<1>6. SharedP!SharedInv => Shared!FailedIsUnpaid /\ DOMAIN receipt = Executions
  BY DEF SharedP!SharedInv, SharedP!FailedIsUnpaid, Shared!FailedIsUnpaid, SharedP!Unpaid,
         Shared!Unpaid, SharedP!TypeOK
<1> QED
  BY <1>4, <1>5, <1>6

\* The file of one process keeps its own, and what is known of an execution whose
\* receipt the step does not drop.
LEMMA OverFile ==
    /\ File!Init => FileP!FileInv /\ \A e \in FileExecutions : FileP!KnownOfKept(e)
    /\ FileP!FileInv /\ [File!Next]_File!vars
         => /\ FileP!FileInv'
            /\ \A e \in FileExecutions :
                 FileP!KnownOfKept(e) /\ (receipt'[e].state = "None" => receipt[e].state = "None")
                   => FileP!KnownOfKept(e)'
    /\ FileP!FileInv => File!SoleBroadcaster /\ DOMAIN receipt = FileExecutions
<1>0. FileP!DeliveryAssumption /\ \A v, w \in Workers : CommandLine[v] = CommandLine[w]
  BY StoresAssumption DEF FileP!DeliveryAssumption, FileP!ResponseShapes
<1>1. File!Init => FileP!Init
  BY DEF File!NoLease, FileP!NoLease, File!NoReceipt, FileP!NoReceipt, File!Init,
         FileP!Init
<1>2. ASSUME File!Next PROVE FileP!Next
  BY <1>2 DEF File!stored, FileP!stored, File!network, FileP!network, File!worker,
         FileP!worker, File!Limit, FileP!Limit, File!Goto, FileP!Goto, File!Return,
         FileP!Return, File!NoReceipt, FileP!NoReceipt, File!NoLease, FileP!NoLease,
         File!LocalLockFree, FileP!LocalLockFree, File!Start, FileP!Start,
         File!LeaseFree, FileP!LeaseFree, File!Acquire, FileP!Acquire, File!AcquireFile,
         FileP!AcquireFile, File!Acquired, FileP!Acquired, File!AcquireLost,
         FileP!AcquireLost, File!AcquireRefused, FileP!AcquireRefused, File!TokenMatches,
         FileP!TokenMatches, File!Release, FileP!Release, File!ReleaseLost,
         FileP!ReleaseLost, File!Prepare, FileP!Prepare, File!NeedsProbe,
         FileP!NeedsProbe, File!Fail, FileP!Fail, File!Terminal, FileP!Terminal,
         File!Load, FileP!Load, File!LoadFails, FileP!LoadFails, File!Latest,
         FileP!Latest, File!Evicts, FileP!Evicts, File!Save, FileP!Save,
         File!PersistPrepared, FileP!PersistPrepared, File!PersistFinal,
         FileP!PersistFinal, File!PersistFails, FileP!PersistFails, File!Answers,
         FileP!Answers, File!MayBroadcast, FileP!MayBroadcast, File!Probe, FileP!Probe,
         File!Believes, FileP!Believes, File!Taken, FileP!Taken, File!Refused,
         FileP!Refused, File!ReadTxId, FileP!ReadTxId, File!Garbled, FileP!Garbled,
         File!Settled, FileP!Settled, File!StateAfter, FileP!StateAfter, File!Replied,
         FileP!Replied, File!SubmitAccepted, FileP!SubmitAccepted, File!SubmitRefused,
         FileP!SubmitRefused, File!SubmitLate, FileP!SubmitLate, File!Reprobe,
         FileP!Reprobe, File!Mine, FileP!Mine, File!LateArrival, FileP!LateArrival,
         File!Crash, FileP!Crash, File!Elapse, FileP!Elapse, File!Tick, FileP!Tick,
         File!SendStep, FileP!SendStep, File!Next, FileP!Next
<1>3. UNCHANGED File!vars => UNCHANGED FileP!vars
  BY DEF File!stored, FileP!stored, File!network, FileP!network, File!worker,
         FileP!worker, File!vars, FileP!vars
<1>4. File!Init => FileP!FileInv /\ \A e \in FileExecutions : FileP!KnownOfKept(e)
  BY <1>0, <1>1, FileP!StoresStart
<1>5. ASSUME FileP!FileInv, [File!Next]_File!vars
      PROVE  /\ FileP!FileInv'
             /\ \A e \in FileExecutions :
                  FileP!KnownOfKept(e) /\ (receipt'[e].state = "None" => receipt[e].state = "None")
                    => FileP!KnownOfKept(e)'
  BY <1>0, <1>2, <1>3, <1>5, FileP!FileStays
<1>6. FileP!FileInv => File!SoleBroadcaster /\ DOMAIN receipt = FileExecutions
  BY <1>0 DEF FileP!FileInv, FileP!LocalLock, File!SoleBroadcaster, FileP!TypeOK
<1> QED
  BY <1>4, <1>5, <1>6

-------------------------------------------------------------------------------
(* The composition *)

\* Over which store a behaviour is, and what it keeps.
StoreInv ==
    /\ focus \in {"shared", "file"}
    /\ focus = "shared" => SharedP!SharedInv /\ dropped = {}
    /\ focus = "file" => /\ FileP!FileInv
                         /\ \A e \in FileExecutions \ dropped : FileP!KnownOfKept(e)

LEMMA StoreStays ==
    ASSUME Shared!LeaseOutlastsRun, StoreInv, [Next]_vars
    PROVE  StoreInv'
<1>1. focus' = focus
  BY DEF Next, vars
<1>2. CASE focus = "shared"
  <2>1. SharedP!SharedInv /\ dropped = {} /\ [Shared!Next]_Shared!vars
    BY <1>2 DEF StoreInv, Next, vars, Shared!vars, Shared!stored, Shared!network, Shared!worker
  <2>2. SharedP!SharedInv'
    BY <2>1, OverShared
  <2>3. DOMAIN receipt = Executions
        /\ \A e \in Executions : receipt[e].state # "None" => receipt'[e].state # "None"
    BY <2>1, OverShared
  <2>4. dropped' = {}
    BY <2>1, <2>3 DEF Next, vars, Vanished
  <2> QED
    BY <1>1, <1>2, <2>2, <2>4 DEF StoreInv
<1>3. CASE focus = "file"
  <2>1. FileP!FileInv /\ [File!Next]_File!vars
    BY <1>3 DEF StoreInv, Next, vars, File!vars, File!stored, File!network, File!worker
  <2>2. /\ FileP!FileInv'
        /\ \A e \in FileExecutions :
             FileP!KnownOfKept(e) /\ (receipt'[e].state = "None" => receipt[e].state = "None")
               => FileP!KnownOfKept(e)'
    BY <2>1, OverFile
  <2>3. DOMAIN receipt = FileExecutions
    BY <2>1, OverFile
  <2>4. ASSUME NEW e \in FileExecutions \ dropped' PROVE FileP!KnownOfKept(e)'
    <3>1. /\ e \notin dropped
          /\ receipt'[e].state = "None" => receipt[e].state = "None"
      BY <2>3, <2>4 DEF Next, vars, Vanished
    <3>2. FileP!KnownOfKept(e)
      BY <1>3, <3>1 DEF StoreInv
    <3> QED
      BY <2>2, <3>1, <3>2
  <2> QED
    BY <1>1, <1>3, <2>2, <2>4 DEF StoreInv
<1> QED
  BY <1>2, <1>3 DEF StoreInv

\* Whatever the response shapes of the providers and the faults of their nodes, while
\* the lease of the shared store outlasts a run: a receipt says Failed only of a
\* transaction that is not paid and will not be, unless what send was last told of it
\* was not so, or the file had dropped an earlier receipt of it; the shared store drops
\* none; and one process, whose file grants its lease to everyone, broadcasts an
\* execution from one thread at a time (send over either DestinationReceiptStore).
THEOREM StoresSound ==
    ASSUME Shared!LeaseOutlastsRun
    PROVE  Spec => []BroadcastsSound
<1>1. Init => StoreInv
  BY OverShared, OverFile DEF Init, StoreInv
<1>2. StoreInv /\ [Next]_vars => StoreInv'
  BY StoreStays
<1>3. StoreInv => BroadcastsSound
  <2> SUFFICES ASSUME StoreInv PROVE BroadcastsSound
    OBVIOUS
  <2>1. CASE focus = "shared"
    BY <2>1, OverShared DEF StoreInv, BroadcastsSound
  <2>2. CASE focus = "file"
    <3>1. \A e \in FileExecutions \ dropped :
            receipt[e].state = "Failed" => File!Unpaid(e) \/ misled[e]
      BY <2>2 DEF StoreInv, FileP!KnownOfKept, FileP!Unpaid, File!Unpaid
    <3>2. File!SoleBroadcaster
      BY <2>2, OverFile DEF StoreInv
    <3> QED
      BY <2>2, <3>1, <3>2 DEF BroadcastsSound
  <2> QED
    BY <2>1, <2>2 DEF StoreInv
<1> QED
  BY <1>1, <1>2, <1>3, PTL DEF Spec
===============================================================================
