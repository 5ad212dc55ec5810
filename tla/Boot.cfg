SPECIFICATION Spec
CONSTANTS
    Pages = {"identity", "store"}
    Words = 3
    MaxFaults = 2
    Secrets = {"s1", "s2", "s3"}
    MaxRots = 1
    Threshold = 2
    CounterMax = 3
    MaxResets = 3
INVARIANTS IdentityIsStable TornBodyIsVacant PanicsAccumulate
PROPERTIES NotWedged
CHECK_DEADLOCK FALSE
