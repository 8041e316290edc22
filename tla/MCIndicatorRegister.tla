------------------------ MODULE MCIndicatorRegister ------------------------
(* IndicatorRegister with the LED, the lamp of one of the two sonars,      *)
(* which core 1 updates by turns, and one bit that nobody uses, of which   *)
(* the board has some, in a register of three bits instead of sixteen.     *)
EXTENDS IndicatorRegister

CONSTANTS sonarR1

MCSonars == {sonarR1}

MCConnectedIdx == [s \in MCSonars |-> 2]

============================================================================
