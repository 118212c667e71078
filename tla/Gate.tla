-------------------------------- MODULE Gate --------------------------------
(***************************************************************************)
(* What a breaker promises the backend behind it, without counters or a    *)
(* mutex: the gate is closed (calls pass), open (none do) or half-open     *)
(* (one probe is out).  It may trip or close whenever a call reports, but  *)
(* it only becomes half-open after resting a whole Cooldown since the last *)
(* trip, and from half-open only a report moves it.                        *)
(***************************************************************************)
EXTENDS Naturals

CONSTANT Cooldown

VARIABLES
    mode,   \* "closed", "open" or "halfopen"
    rest    \* while open: ticks until a probe may pass; 0 otherwise

gateVars == <<mode, rest>>

Init == mode = "closed" /\ rest = 0

Trip  == mode' = "open" /\ rest' = Cooldown
Close == mode' = "closed" /\ rest' = 0
Probe == mode = "open" /\ rest = 0 /\ mode' = "halfopen" /\ rest' = 0
Rest  == mode = "open" /\ rest > 0 /\ rest' = rest - 1 /\ mode' = mode

Next == Trip \/ Close \/ Probe \/ Rest

Spec == Init /\ [][Next]_gateVars

=============================================================================
