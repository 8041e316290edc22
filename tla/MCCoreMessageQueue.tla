------------------------ MODULE MCCoreMessageQueue ------------------------
(* CoreMessageQueue with the size of the sensor update queue.              *)
EXTENDS CoreMessageQueue

============================================================================
