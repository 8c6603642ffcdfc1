------------------------------ MODULE MCVenue ------------------------------
(* Two trades of one wallet and one of another, all naming one account.    *)
EXTENDS Venue, TLC

CONSTANTS c1, c2, o1, o2, o3, w1, w2, a1

MCWalletOf == (o1 :> w1) @@ (o2 :> w1) @@ (o3 :> w2)
MCAccountOf == [o \in {o1, o2, o3} |-> a1]
CallSymmetry == Permutations({c1, c2})
=============================================================================
