\* A client with a page size below the size of the ledger.
CONSTANTS
    MaxEvents = 4
    Limits = {2}
    MaxSeq = 6
SPECIFICATION Spec
INVARIANT IncrementalFetch
CHECK_DEADLOCK FALSE
