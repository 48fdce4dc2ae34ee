SPECIFICATION Spec
CONSTANTS
    Accounts = {a1, a2}
    Requests = {r1, r2}
    TransferIds = {t1}
    NoTransfer = noTransfer
    Amounts = {1}
    Openings = {0, 1}
    HookTypes = {"debit"}
    MaxRows = 3
PROPERTIES
    CloseOnlyAtZero
