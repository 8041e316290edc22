----------------------- MODULE MCNetworkConnection ------------------------
(* NetworkConnection with two control topics and a payload of four units,  *)
(* of which two are cleared, as 128 of 256 bytes are.                      *)
EXTENDS NetworkConnection

CONSTANTS topic1, topic2

MCTopics == {topic1, topic2}

============================================================================
