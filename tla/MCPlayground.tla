---------------------------- MODULE MCPlayground ----------------------------
(* Instance of Playground for TLC. *)
EXTENDS Playground

CONSTANTS a, b

\* A part may repeat the one before, begin like it, or differ from it.
MCParts == {<<a>>, <<a, b>>}
=============================================================================
