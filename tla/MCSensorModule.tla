-------------------------- MODULE MCSensorModule --------------------------
(* SensorModule with two groups, each with a control topic of its own; the *)
(* second has a sensor that handles commands, as one group of the pod has. *)
EXTENDS SensorModule

CONSTANTS topic1, topic2

MCTopics == <<topic1, topic2>>

MCHandles == {2}

============================================================================
