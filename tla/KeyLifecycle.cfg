\* Three executions: key generation, by others again, and signing.
SPECIFICATION Spec
CONSTANTS
    Peers = {1, 2, 3}
    Choices <- Regenerate
    MaxSessions = 3
INVARIANTS
    TypeOK
    ShareMatchesPeerset
    SignerIndexes
    
