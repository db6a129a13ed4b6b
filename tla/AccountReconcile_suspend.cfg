CONSTANTS
    c1 = c1  c2 = c2
    Clients = {c1, c2}
    Slots = {1, 2, 3}
    MaxAttempts = 2
    MaxInterrupts = 0
SPECIFICATION Spec
SYMMETRY Symmetry
PROPERTIES ReconcileKeepsSuspend
CHECK_DEADLOCK FALSE
