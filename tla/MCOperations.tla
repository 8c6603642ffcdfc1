---------------------------- MODULE MCOperations ----------------------------
(* An escrow card alone, two of them side by side, and the recurring page.  *)
(* Agents: one signal that may be imported twice and one idea of a tick;    *)
(* the second policy forbids the tick's trade.                              *)
EXTENDS Operations, TLC

CONSTANTS w1, w2, s1, s2, p1, p2, p3, g1, v1, v2

MCSignalOf == (p1 :> g1) @@ (p2 :> g1) @@ (p3 :> None)
MCPermits == ({v1, v2} \X {p1, p2, p3}) \ {<<v2, p3>>}
MCMenus == {{"policy", "approval", "session", "status", "tick"},
            {"register", "signal", "import", "delete", "approve", "reject"},
            {"agent", "pause", "approve", "reject", "open", "tick"},
            {"policy", "save", "approve", "open"},
            {"approval", "save", "open", "close"}}
=============================================================================
