--------------------------- MODULE MCPolicyEngine ---------------------------
(* Attention batches for the engine runs. *)
EXTENDS PolicyEngine

Strong == {[mean |-> 1000, max |-> 1000]}
=============================================================================
