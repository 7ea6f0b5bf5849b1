------------------------------ MODULE MCHttpExchange ------------------------------
(* A command of two bytes, an id of one, and an answer with an empty line. *)
EXTENDS HttpExchange
Byte == Word("byte", 0)
MCCommand == <<Byte, Byte>>
MCAnswer == [k \in Kinds |-> IF k = "POST" THEN <<Byte>> ELSE <<Byte, Newline, Newline>>]
=============================================================================
