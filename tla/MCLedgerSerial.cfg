SPECIFICATION Spec
CONSTANTS
    broker = broker
    fund = fund
    cash = cash
    Clients = {c1}
    Nobody = Nobody
    Accounts <- MCAccounts
    Instruments <- MCInstruments
    Dates <- MCDates
    Quantities <- MCQuantities
    Edits <- MCEdits
    Opening <- MCOpening
    Payloads <- MCPayloads
    MaxTxns = 4
    MaxEdits = 1
    MaxEvents = 1
INVARIANTS
    TypeOK
    TradeLegsTogether
    TradesArePairs
    AllocationsCurrent
    DisposalsCovered
    DeletionsAuditedOnce
PROPERTIES
    TombstonesFrozen
    AcceptClosesGap
CHECK_DEADLOCK FALSE
