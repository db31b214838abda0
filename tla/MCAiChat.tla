------------------------------- MODULE MCAiChat -------------------------------
(* Two requests of one user; two tools, one of which is called with        *)
(* arguments that its schema refuses, and a table of tools with one row.   *)
EXTENDS AiChat, TLC

CONSTANTS c1, c2, u1, k1, k2, sales, stock

MCUserOf == [c \in Chats |-> u1]
MCToolOf == k1 :> sales @@ k2 :> stock
MCVerdict == k1 :> "callable" @@ k2 :> "TOOL_VALIDATION_FAILED"
=============================================================================
