--------------------------- MODULE MCSigningPages ---------------------------
(* The request page: one member, reached through two accounts of the        *)
(* browser as the embedded wallet and a hardware wallet do, who may also    *)
(* vote elsewhere.  Every handler of Workflows with two attempts under two  *)
(* accounts.  Secure: two operations on a vault with a wallet and a         *)
(* passkey, in one or two tabs.                                             *)
EXTENDS SigningPages, TLC

CONSTANTS m1, a1, a2, c1, c2

MCHolds == a1 :> {m1} @@ a2 :> {m1}
TwoAttempts == 1..2

Pairs == [ops : {{"import"}}, tabs : {{"t1", "t2"}}]
Singles == [ops : {{"sweep", "vote"}, {"bump", "vote"}, {"enroll"},
                   {"create", "import"}}, tabs : {{"t1"}}]
MenusValue == Pairs \union Singles
=============================================================================
