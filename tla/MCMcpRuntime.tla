----------------------------- MODULE MCMcpRuntime -----------------------------
(* Instances of McpRuntime for TLC. *)
EXTENDS McpRuntime

CONSTANTS s1, s2, q1, t1, p1, l1, l2

\* The servers hash onto one port.
MCSharedPort == [s \in Servers |-> q1]

===============================================================================
