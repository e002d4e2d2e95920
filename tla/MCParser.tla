------------------------------ MODULE MCParser ------------------------------
(* Packets of the preamble 1, 2 and two bytes of header: 2, 2 announces no *)
(* payload, 1, 1 one byte, which must be 1 for the checksum to be right; a *)
(* header 1, 2, in which a preamble begins, is none; 2, 1 announces more   *)
(* than the ring can hold.                                                 *)
EXTENDS Parser

MCMagic == <<1, 2>>
MCPackSize == [h \in Header |-> CASE h = <<2, 2>> -> 4 [] h = <<1, 1>> -> 5
                                  [] h = <<1, 2>> -> 0 [] h = <<2, 1>> -> 8]
MCIntact == {<<1, 2, 2, 2>>, <<1, 2, 1, 1, 1>>}
MCChunk == {<<1>>, <<2>>, <<1, 2, 1>>}
MCUsage == {{}, {"mainLoop"}, {"displace"}, {"clear"}}
=============================================================================
