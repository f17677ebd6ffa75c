CONSTANTS
    Principals = {p, q}
    Stamps = {1}
    Capacities = {1, 2}
    MaxSerial = 3
    MaxUpdates = 3
    Transfers = {c}
    MaxFaults = 0
    MaxStrays = 0
    MaxRestarts = 1
SPECIFICATION Spec
CHECK_DEADLOCK FALSE
INVARIANTS
    SeededBeforePolling
