----------------------------- MODULE MCTerminal -----------------------------
(* Lines of up to five characters, one command with two arguments or more  *)
(* and names that are none; two ring buffers of one place.                 *)
EXTENDS Terminal

MCCommand == {<<CHOOSE c \in Letter : TRUE>>}
MCUsage == {{}} \cup {{kind} : kind \in Calls}
=============================================================================
