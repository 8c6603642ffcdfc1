SPECIFICATION Spec
CONSTANTS
    Intents = {i1}
    Jobs = {j1}
    Txs = {t1}
    Replies <- PaystackReplies
    None = None
PROPERTIES
    PayoutIsMonotone
CHECK_DEADLOCK FALSE
