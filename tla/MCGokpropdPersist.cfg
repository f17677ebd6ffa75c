CONSTANTS
    Principals = {p, q}
    Stamps = {1}
    Capacities = {1}
    MaxSerial = 3
    MaxUpdates = 2
    Transfers = {c}
    MaxFaults = 0
    MaxStrays = 0
    MaxRestarts = 0
SPECIFICATION Spec
CHECK_DEADLOCK FALSE
PROPERTY UpdatesPersisted
