------------------------------- MODULE MCPro -------------------------------
(* The run of Pro: a request without a Range heading, one whose number is the *)
(* length of the response, and one whose page never ends.                    *)
EXTENDS Pro

MCRangeOf == [t \in Titles |-> CASE t = "a" -> EMPTY
                                 [] t = "b" -> Length
                                 [] OTHER   -> Length + 1]
=============================================================================
