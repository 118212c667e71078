CONSTANTS
    Threshold = 2
    Cooldown = 2
    Keys = {k1, k2}
    Bodies = {b1, big}
    Oversize = {big}
    Readers = {r1, r2, r3}
    Writers = {w1, w2}
    None = None
SPECIFICATION FairSpec
INVARIANTS TypeOK BreakerInv
PROPERTIES OneProbePerWindow ProbeLostOnlyOversize RecoveryUnlessLost ImplementsGate ImplementsLossyCache
