SPECIFICATION Spec
CONSTANTS
    w1 = w1
    c1 = c1
    c2 = c2
    Workers <- OneWorker
    Calls <- TwoCalls
    Limit = 2
    MaxTokens = 2
    MaxKeys = 3

    
    
PROPERTIES
    SignedOutForAReason
    RevocationNoticed
CHECK_DEADLOCK FALSE
