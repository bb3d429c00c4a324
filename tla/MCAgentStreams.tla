---------------------------- MODULE MCAgentStreams ----------------------------
(* Instances of AgentStreams for TLC. *)
EXTENDS AgentStreams

CONSTANTS p1, t1, t2, s1, s2, s3

===============================================================================
