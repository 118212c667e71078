CONSTANTS
    Threshold = 2
    Cooldown = 2
    Keys = {k1}
    Bodies = {b1, big}
    Oversize = {big}
    Readers = {r1, r2}
    Writers = {w1}
    None = None
SPECIFICATION FairSpec
PROPERTIES RecoveryNoticed
