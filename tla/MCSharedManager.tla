--------------------------- MODULE MCSharedManager ---------------------------
(* Three runs, two of which may bring and call the same tool.  Other code  *)
(* registers its own class as the first of the system skills, or a skill   *)
(* under the name of a class.                                              *)
EXTENDS SharedManager

CONSTANTS r1, r2, r3, s1, s2, s3, sum, csv, own, Sum, Csv, Own

Brings(first, second) == [r \in Runs |-> CASE r = r1 -> first [] r = r2 -> second [] OTHER -> <<>>]
Calls(first, rest) == [r \in Runs |-> IF r = r1 THEN first ELSE rest]

(* The third run is one of the session of the first, or its node is of     *)
(* another's type; the graph of the second may be rejected.                *)
SomePlans ==
  {[session |-> [r \in Runs |-> CASE r = r1 -> s1 [] r = r2 -> s2
                                   [] OTHER -> IF others = {} THEN s1 ELSE s3],
    brings |-> Brings(first, second), calls |-> Calls(own, csv), foreign |-> others, rejected |-> bad]
   : others \in {{}, {r3}}, first \in {<<>>, <<csv, own>>},
     second \in {<<own, csv>>, <<csv, csv>>}, bad \in {{}, {r2}}}

SystemEntries == <<[name |-> sum, class |-> Sum], [name |-> csv, class |-> Csv]>>
OtherEntries == {[name |-> sum, class |-> Own], [name |-> Own, class |-> Sum]}
ToolClassOf == [t \in {csv, own} |-> IF t = csv THEN Csv ELSE Own]
SomeDrafts == {{sum}, {sum, csv}}
=============================================================================
