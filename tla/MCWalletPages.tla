---------------------------- MODULE MCWalletPages ----------------------------
(* Agents: three ideas, two of one signal; the second rules forbid two.     *)
EXTENDS WalletPages, TLC

CONSTANTS t1, t2, t3, s1, s2, s3, r1, r2, sig
D(S) == {<<"dashboard", h>> : h \in S}
T(S) == {<<"detail", h>> : h \in S}
P(S) == {<<"start", h>> : h \in S}
C(S) == {<<"connection", h>> : h \in S}
MCMenus == {
  D({"scout", "kill", "recheck", "venue"}),
  D({"scan", "approve", "reject", "execute", "recheck"}),
  D({"scan", "status", "revoke", "renew", "kill"}),
  D({"scout", "close", "closeAll", "exits"}),
  T({"kill"}) \cup D({"kill", "approve", "scan"}) \cup T({"reject", "approve", "execute"}),
  T({"status", "publish", "review", "edit"}) \cup {<<"strategy", "edit">>},
  T({"status", "revoke", "renew"}) \cup D({"renew"}),
  T({"recheck", "venue", "close", "closeAll"}) \cup D({"scan", "scout"}),
  {<<"trades", "close">>, <<"trades", "closeAll">>, <<"idea", "idea">>} \cup P({"close", "closeAll"}),
  P({"place", "pauseTrader", "pauseAll", "idea"}) \cup T({"kill"}),
  P({"auto"}) \cup C({"import", "review", "autoOff", "sample"}),
  {<<"policy", "rules">>, <<"budget", "renew">>, <<"idea", "idea">>} \cup D({"revoke", "kill"})}
MCSignalOf == t1 :> sig @@ t2 :> sig @@ t3 :> None
MCFits == {<<r1, t1>>, <<r1, t2>>, <<r1, t3>>, <<r2, t2>>}
=============================================================================
