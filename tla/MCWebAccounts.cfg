SPECIFICATION Spec
CONSTANTS
    MaxEvents = 3
    Countdown = 2
INVARIANTS
    
    
    
    SignedInMeansSession
CHECK_DEADLOCK FALSE
