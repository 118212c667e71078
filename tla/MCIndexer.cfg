CONSTANTS
    Runs = {a, b}
    Keep = 2
    MaxNames = 4
    MaxVersion = 2
SPECIFICATION Spec
INVARIANTS AliasServesGood VictimsNotLive
PROPERTIES NeverDark NeverOlder NoPileUp
