\* One elf more than a batch takes, two deliveries, both kinds of timing.
CONSTANTS
    Elves = {e1, e2, e3}
    Reindeer = {r1, r2}
    Claus = claus
    Nobody = nobody
    MaxElvesWaiting = 2
    Deliveries = 2
SPECIFICATION FairSpec
PROPERTIES
    Termination
INVARIANTS
    BatchIsWaiting
    DeliversWithAll
    NoLostWakeup
    NobodyLeftBehind
