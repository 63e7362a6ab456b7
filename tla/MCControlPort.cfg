SPECIFICATION Spec
CONSTANTS
    Clients <- MCClients
    Lines <- MCLines
    Lower <- MCLower
    MaxTries = 2
INVARIANTS
    ReplyMatches
PROPERTIES
    AckObeyed
    PortRecovers
CHECK_DEADLOCK FALSE
