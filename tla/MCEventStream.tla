--------------------------- MODULE MCEventStream ----------------------------
(* Timeouts for the model checker: pairs <<reset, close>>. *)
EXTENDS EventStream

MCDefault == <<1, 2>>

MCPairs == {<<0, 1>>, <<1, 2>>}
=============================================================================
