--------------------------- MODULE MCNodeExecutor ---------------------------
(* Two nodes that share a budget of one or two calls. *)
EXTENDS NodeExecutor

Pairs == {<<"tool", "tool">>, <<"ai", "ai">>, <<"llm", "tool">>}

Base(k, r) ==
  [kind |-> k, retries |-> r,
   backoff |-> [n \in Nodes |-> n = 1],
   halt |-> FALSE, failClosed |-> TRUE,
   maxLlm |-> 2, maxTool |-> 1, orgBudget |-> 1, persist |-> TRUE,
   storeFaults |-> FALSE]

(* Back-off on the first node only. *)
Plain == {Base(k, r) : k \in Pairs, r \in [Nodes -> {0, 1}]}

(* Each switch turned on its own. *)
EverySetup ==
  Plain
    \cup {[s EXCEPT !.halt = TRUE] : s \in Plain}
    \cup {[s EXCEPT !.maxLlm = 1, !.orgBudget = 0] : s \in Plain}
    \cup {[s EXCEPT !.failClosed = FALSE] : s \in Plain}
    \cup {[s EXCEPT !.persist = FALSE] : s \in Plain}
    \cup {[s EXCEPT !.storeFaults = TRUE] : s \in Plain}
    \cup {[s EXCEPT !.retries[1] = 2] : s \in Plain}
=============================================================================
