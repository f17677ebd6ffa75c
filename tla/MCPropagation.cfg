CONSTANTS
    Updates = {a, b}
    Stamps = {1, 2}
    Capacities = {0, 1, 2, 3}
    MaxSerial = 4
    MaxUpdates = 5
    ReplicaStamps = {1}
    ReplicaCapacities = {1, 2}
    ReplicaUpdates = 4
    MaxFaults = 2
    DaemonUpdates = 2
    DaemonFaults = 1
    Transfers = {c}
    MaxStrays = 1
    MaxRestarts = 1
    RingSize = 3
    RingSerials = 4
    MaxLog = 2
    Sizes = {0, 1, 3, 4, 5, 7}
    BlockSize = 2
    MaxWord = 3
    SeqModulus = 8
    FirstSeqs = {0, 6, 7}
    Versions = {new, old}
    Version = new
    Buffer = 3
SPECIFICATION AllSpec
CHECK_DEADLOCK FALSE
INVARIANTS
    RetainedIsNewest
    NoUpdateSkipped
    ReplicaResumes
    LogFileSound
    Resumable
PROPERTIES
    NeverRegresses
    Implements
    TransferEnds
    Converges
