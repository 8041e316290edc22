---------------------------- MODULE MCUserData ----------------------------
(* UserData with one sensor group and lengths scaled down: the key lies in *)
(* the last page, a string of 3 is too long for every field but the broker *)
(* address, and may run over the whole of the next field.                  *)
EXTENDS UserData

Lengths == [SSID |-> 1, PASS |-> 2, NAME |-> 1, GRPL |-> 1, GRPN |-> 1, BRKR |-> 4]

\* SSID, the group's name and the broker address
SomeFields == {1, 5, 6}

Typed == {<<1>>, <<2, 2, 2>>}

============================================================================
