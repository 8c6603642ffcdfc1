\* One intent of either kind, three jobs at a time and two deposits, with
\* Paystack as the payment provider.
SPECIFICATION FairSpec
CONSTANTS
    Intents = {i1}
    Jobs = {j1, j2, j3}
    Txs = {t1, t2}
    Replies <- PaystackReplies
    None = None
INVARIANTS
    TypeOK
    OneCheckout
    OutcomeIsTrue
PROPERTIES
    KeepsPromise
    PayoutEnds
CHECK_DEADLOCK FALSE
