SPECIFICATION CorrectionSpec
CONSTANTS
    Region = {g1, g2}
    Detected = g1
    Requests = 2
    MaxClaims = 2
    MaxEmbeddings = 2
    MaxOtherwise = 1
PROPERTIES
    IdentityPreserved
CHECK_DEADLOCK FALSE
