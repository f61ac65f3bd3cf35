SPECIFICATION FairSpec
CONSTANTS
    Envelopes = {"good", "invalid", "escalated"}
    OutOfScope <- MCOutOfScope
    MaxVerifiers = 2
    MaxEdits = 2
    MaxFaults = 1
INVARIANTS TypeOK ReceiptHonest NothingLeft VerifiedIsAccepted
PROPERTIES ForeignKept InterruptReturns
CHECK_DEADLOCK FALSE
