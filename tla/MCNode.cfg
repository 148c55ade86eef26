SPECIFICATION Spec
CONSTANTS
    Account = {"x", "y"}
    Session = {"x", "y"}
    account <- MCaccount
    Jobs <- MCJobs
    MaxLost = 1
    MaxEarly = 1
    MaxSoon = 1
    MaxCrash = 1
CHECK_DEADLOCK FALSE
INVARIANTS TypeOK DoneMeansRan AloneFits
PROPERTIES OncePerNonce AllDone
