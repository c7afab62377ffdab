\* Two processes on one workflow; a duration of 3 is renewed after 1, at the next tick
\* even if the store call waits for one.
SPECIFICATION FairSpec
CONSTANTS
    Proc = {p1, p2}
    Node = {n1, n2}
    Call = {c1, c2}
    Duration = 3
    Second = 1
    BusyTimeout = 1
    MayThrow = TRUE
    MaxVersion = 1
    MaxDeaths = 1
    Nobody = Nobody
    Gone = Gone
INVARIANT OneAdvance
PROPERTIES LeaseIsKept DeadOwnerReplaced
