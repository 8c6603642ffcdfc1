----------------------------- MODULE RampPromise -----------------------------
(***************************************************************************)
(* What the settlement service promises about money, whatever its workers, *)
(* providers and webhooks do: an intent pays out at most once, and only    *)
(* when the funds of that intent have been received in time.               *)
(***************************************************************************)
EXTENDS Naturals

CONSTANT Intents

VARIABLES funded,   \* the intents whose money came in within the quote
          out       \* out[i]: the payments the service ordered for intent i

Init ==
    /\ funded = {}
    /\ out = [i \in Intents |-> 0]

Receive(i) ==
    /\ funded' = funded \union {i}
    /\ UNCHANGED out

PayOut(i) ==
    /\ i \in funded
    /\ out[i] = 0
    /\ out' = [out EXCEPT ![i] = 1]
    /\ UNCHANGED funded

Next == \E i \in Intents : Receive(i) \/ PayOut(i)

Spec == Init /\ [][Next]_<<funded, out>>
==============================================================================
