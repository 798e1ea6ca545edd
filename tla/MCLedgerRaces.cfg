SPECIFICATION Spec
CONSTANTS
    broker = broker
    fund = fund
    cash = cash
    Clients = {c1, c2}
    Nobody = Nobody
    Accounts <- MCAccounts
    Instruments <- MCInstruments
    Dates <- MCDates
    Quantities <- MCQuantities
    Edits <- MCRaceEdits
    Opening <- MCOpening
    Payloads <- MCRacePayloads
    MaxTxns = 3
    MaxEdits = 1
    MaxEvents = 1
SYMMETRY MCClientSymmetry
INVARIANTS
    TradeLegsTogether
    AllocationsOfLiveRows
    DeletionsAudited
PROPERTIES
    DeletionIsFinal
CHECK_DEADLOCK FALSE
