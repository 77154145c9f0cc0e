\* One wallet contended by three tasks: the third may find it parked.
SPECIFICATION Spec
CONSTANTS
    N = 1
    Tasks = {t1, t2, t3}
    Main = main
    MaxRetries = 1
    StartNonces = {0, 1}
SYMMETRY TaskSymmetry
INVARIANTS TypeOK RecoveryExclusive CaseTwoNever NoNonceGap DistinctSinceResync
PROPERTIES DroppedIsSettled ParkedOnInFlight ParkedForGood ImplementsAllocator
