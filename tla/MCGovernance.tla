----------------------------- MODULE MCGovernance -----------------------------
(***************************************************************************)
(* Small instances of Governance for TLC.                                  *)
(***************************************************************************)
EXTENDS Governance

CONSTANTS a, b      \* two members

MCMembers == {a, b}

Rule(type, at, ct, lock, props, apprs) ==
    [type |-> type, approved |-> TRUE,
     approval_threshold |-> at, cancellation_threshold |-> ct,
     timelock |-> lock, active |-> 0,
     proposers |-> props, approvers |-> apprs]

\* A wallet of two: both must approve, and both must cancel.
TwoOfTwo == {Rule("Custom", 2, 2, 1, {a}, <<a, b>>)}

\* A solo wallet, in which a proposal is approved as it is made.
Solo == {Rule("Custom", 1, 1, 0, {a}, <<a>>)}

\* An update that swaps the approvers, and lowers the threshold.
SwappedBody == {Rule("Custom", 1, 1, 0, {a}, <<b, a>>)}
\* The update intent itself, and the first intent that AddIntent creates.
UpdateTarget == {2}
LaterTargets == {2, 3}
===============================================================================
