SPECIFICATION Spec
CONSTANTS
    None = None
    TicketKeyRotation = 1
    TicketKeyLifetime = 2
    MaxSessionTicketLifetime = 2
    MaxUselessRecords = 16
    CAs = {"a", "b"}
    Versions = {1, 2}
    MaxData = 1
    Plans <- MCPlans
INVARIANTS
    PeerAuthentic
    Agreement
    OnlyKnownFailures
    QuietMeansPublished
CHECK_DEADLOCK FALSE
