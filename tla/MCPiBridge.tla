----------------------------- MODULE MCPiBridge -----------------------------
(* The instance of PiBridge for TLC.                                         *)
EXTENDS PiBridge

\* A task of the fleet that is sent a prompt, and a session that a person
\* started, whose bridge is steered and whose agent speaks.
TwoKinds ==
    {[fleet |-> TRUE, prompts |-> {1}, says |-> {}, late |-> TRUE],
     [fleet |-> FALSE, prompts |-> {}, says |-> {1}, late |-> FALSE]}
=============================================================================
