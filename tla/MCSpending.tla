----------------------------- MODULE MCSpending -----------------------------
(* Small instances of Spending. *)
EXTENDS Spending, TLC

CONSTANTS m1, m2, r1, r2, budget, team

\* A budget a schedule may carry, and a policy with limits bound to a proposal.
Budget == [Unlimited EXCEPT !.velocity = [cap |-> 2, window |-> 2],
                            !.mode = "blocklist", !.keys = {r2}, !.hours = {1, 2, 4}]
Team == [Unlimited EXCEPT !.velocity = [cap |-> 6, window |-> 3],
                          !.send_count = [cap |-> 1, window |-> 1],
                          !.caps = m1 :> [cap |-> 2, window |-> 3],
                          !.mode = "allowlist", !.keys = {r1}, !.max_amount = 2,
                          !.cooldown = 1, !.required = {m2},
                          !.rules = <<[action |-> "wait", approvers |-> {}, cooldown |-> 2,
                                       conditions |-> {[kind |-> "time", hours |-> {3}, inside |-> TRUE]}],
                                      [action |-> "approve", approvers |-> {m1}, cooldown |-> 0,
                                       conditions |-> {[kind |-> "velocity", cap |-> 2, window |-> 2],
                                                       [kind |-> "recipient", keys |-> {r2}, listed |-> FALSE]}],
                                      [action |-> "deny", approvers |-> {}, cooldown |-> 0,
                                       conditions |-> {[kind |-> "amount", range |-> {1}]}]>>]

To(r, n) == [to |-> r, amount |-> n]
MCText == budget :> Budget @@ team :> Team @@ NoPolicy :> Unlimited
MCBatches == {<<To(r1, 2)>>, <<To(r1, 1), To(r1, 1)>>, <<To(r2, 2)>>}
MCTerms == {[to |-> r1, amount |-> 1, interval |-> 1, count |-> 2]}
=============================================================================
