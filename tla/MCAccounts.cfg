SPECIFICATION FairSpec
CONSTANTS
    Accounts = {a1, a2}
    Requests = {r1, r2}
    TransferIds = {t1, t2}
    NoTransfer = noTransfer
    Amounts = {1, 2}
    Openings = {0, 2}
    HookTypes = {"debit"}
    MaxRows = 3
INVARIANTS
    TypeOK
    SessionInv
    NoOverdraft
    LedgerChain
    TransferLegs
    Conservation
PROPERTIES
    BankSpec
    RequestsEnd
