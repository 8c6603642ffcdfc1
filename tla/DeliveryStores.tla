--------------------------- MODULE DeliveryStores ---------------------------
(***************************************************************************)
(* Delivery over each of its two receipt stores: the backends' shared      *)
(* store, and the file of one command-line process, which drops its oldest *)
(* receipts.                                                               *)
(***************************************************************************)
EXTENDS Integers, Sequences

CONSTANTS
    Workers, Executions, Leaked, LeaseTTL, StoreLimit, ProbeLimit, SubmitLimit,
    MaxAttempts, MaxReceipts, Providers, Faults,  \* see Delivery
    Backends,                     \* Process of the workers over the shared store
    CommandLine,                  \* the same over the file
    FileExecutions, FileAttempts, FileProviders, FileFaults  \* Executions, ... of the same

\* The file belongs to one process.
ASSUME StoresAssumption ==
    /\ {LeaseTTL, StoreLimit, ProbeLimit, SubmitLimit} \subseteq Nat
    /\ {MaxAttempts, FileAttempts, MaxReceipts} \subseteq Nat \ {0}
    /\ Providers \subseteq [Executions -> {"JsonRpc", "PlainText", "Blockchair"}]
    /\ FileProviders \subseteq [FileExecutions -> {"JsonRpc", "PlainText", "Blockchair"}]
    /\ Faults \cup FileFaults \subseteq {"late", "stale", "mismatch"}
    /\ Leaked \notin Workers
    /\ \A v, w \in Workers : CommandLine[v] = CommandLine[w]

VARIABLES
    focus,                        \* the store of this behaviour
    dropped,                      \* history: executions whose receipt was dropped
    lease, receipt, order, shape, chain, late, pc, exec, rcpt, left, queried, sent, misled

vars == <<focus, dropped, lease, receipt, order, shape, chain, late, pc, exec, rcpt, left,
          queried, sent, misled>>

Shared == INSTANCE Delivery WITH Store <- "upstash", Process <- Backends
File == INSTANCE Delivery WITH Store <- "file", Process <- CommandLine, Faults <- FileFaults,
                                Executions <- FileExecutions, MaxAttempts <- FileAttempts,
                                Providers <- FileProviders

Init == /\ dropped = {}
        /\ \/ focus = "shared" /\ Shared!Init
           \/ focus = "file" /\ File!Init

\* Receipts that a step takes out of the store.
Vanished == {e \in DOMAIN receipt : receipt[e].state # "None" /\ receipt'[e].state = "None"}

Next == /\ focus' = focus
        /\ \/ focus = "shared" /\ Shared!Next
           \/ focus = "file" /\ File!Next
        /\ dropped' = dropped \cup Vanished

Spec == Init /\ [][Next]_vars

\* Threads run and time passes; nothing obliges anyone to start a delivery.
FairSpec ==
    /\ Spec
    /\ WF_vars(focus = "shared" /\ Shared!Tick /\ UNCHANGED <<focus, dropped, shape>>)
    /\ \A w \in Workers : WF_vars(focus = "shared" /\ Shared!SendStep(w) /\ UNCHANGED <<focus, dropped, shape>>)

-----------------------------------------------------------------------------
(* Properties *)

\* A receipt says Failed only of a transaction that has not been paid, and will
\* not be, unless its node told send what is not so, or the file had dropped an
\* earlier receipt of it; the shared store drops none.  And in one process the
\* local lock alone keeps broadcasts of one execution apart, though the file
\* store grants its lease to everyone.
BroadcastsSound ==
    CASE focus = "shared" -> Shared!FailedIsUnpaid /\ dropped = {}
      [] focus = "file" ->
            /\ File!SoleBroadcaster
            /\ \A e \in FileExecutions \ dropped :
                 receipt[e].state = "Failed" => File!Unpaid(e) \/ misled[e]

\* A lease never stays: whoever took it finishes, or it expires (PX in
\* acquire_execution_lease), so a crashed process blocks no delivery forever.
LeaseFreed ==
    focus = "shared" => \A e \in Executions : (lease[e].ttl > 0) ~> (lease[e].ttl = 0)
=============================================================================
