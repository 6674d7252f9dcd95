--------------------------- MODULE MCContextStore ---------------------------
(* Two processes, two nodes, a handful of operations; a tuple comes back   *)
(* from the file as the list of its elements.                              *)
EXTENDS ContextStore

CONSTANTS list, tuple, text
MCContents == {list, tuple, text}
MCJson == [c \in MCContents |-> IF c = tuple THEN list ELSE c]
=============================================================================
