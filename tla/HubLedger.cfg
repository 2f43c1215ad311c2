CONSTANTS
    DecimalOne = 100
    Commission = 50
    Deposits = {1, 2}
    MaxAmount = 2
    BookedAmounts = {0, 1, 2, 3}
    MaxSlashes = 1
SPECIFICATION Spec
INVARIANTS LedgerInv
PROPERTY LedgerRateKept
