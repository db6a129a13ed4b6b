CONSTANTS
    c1 = c1  c2 = c2
    Clients = {c1, c2}
    Slots = {1, 2}
    MaxAttempts = 1
    MaxInterrupts = 1
SPECIFICATION FairSpec
INVARIANTS TypeOK 
PROPERTIES LoopQuiesces
CHECK_DEADLOCK FALSE
