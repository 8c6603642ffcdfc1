SPECIFICATION Spec
CONSTANTS
    c1 = c1  c2 = c2
    o1 = o1  o2 = o2  o3 = o3
    w1 = w1  w2 = w2
    a1 = a1
    Calls = {c1, c2}
    Orders = {o1, o2, o3}
    Wallets = {w1, w2}
    Accounts = {a1}
    WalletOf <- MCWalletOf
    AccountOf <- MCAccountOf
    MaxOpen = 1
    None = None
INVARIANTS SingleOrder WithinLimit CompletedTrue DedicatedAccount
PROPERTIES RevokedNeverSent
SYMMETRY CallSymmetry
