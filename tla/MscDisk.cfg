SPECIFICATION DiskLiveSpec
INVARIANTS
    DiskTypeOK
    SingleWriter
    ProtectionIsKnown
PROPERTIES
    HostSyncs
    RequestReturns
