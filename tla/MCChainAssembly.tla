--------------------------- MODULE MCChainAssembly ---------------------------
(* Every list of at most four nodes over four names, and for up to three   *)
(* of them mappings, kinds and faults.                                     *)
EXTENDS ChainAssembly, TLC

CONSTANTS a, b, c, d
MCNames == {a, b, c, d}

Plain ==
  [entry |-> "code", found |-> TRUE, kind |-> [n \in Names |-> "tool"],
   malformed |-> {}, restricted |-> {}, schema |-> [n \in Names |-> {}],
   maps |-> [n \in Names |-> {}], answers |-> {"ok"},
   leftover |-> {}, limited |-> FALSE]

(* b reads an output of a, of each kind of executor. *)
Mapped ==
  {[Plain EXCEPT !.entry = e, !.kind[a] = k, !.schema[a] = s, !.maps[b] = {<<a, p>>},
                 !.answers = {"ok", "failed", "skipped"}] :
     e \in {"run", "code"}, k \in {"tool", "prebuilt"},
     s \in {{<<"x">>}, {<<"x", "x">>}}, p \in Paths}

(* One thing that some entry refuses. *)
Odd ==
  {[Plain EXCEPT !.entry = e, !.kind[a] = k, !.found = f, !.restricted = r, !.malformed = x] :
     e \in {"run", "payload", "network", "code"}, k \in Kinds, f \in BOOLEAN,
     r \in {{}, {a}}, x \in {{}, {a}}}

(* A prompt of b, with mappings that may be left in it. *)
Asking ==
  {[Plain EXCEPT !.entry = e, !.kind[b] = "ai", !.maps[b] = x, !.leftover = l,
                 !.answers = {"ok", "failed"}] :
     e \in {"run", "payload"}, l \in {{}, {b}}, x \in SUBSET {<<a, <<>>>>, <<c, <<>>>>}}

(* a and c may spend the tokens, and b reads a. *)
Limited ==
  {[Plain EXCEPT !.kind[a] = k, !.kind[c] = "prebuilt", !.schema[a] = {<<"x">>}, !.limited = TRUE,
                 !.maps[b] = {<<a, <<"x">>>>}, !.answers = {"ok", "failed", "skipped"}] :
     k \in {"tool", "prebuilt"}}

MCDesigns == {Plain} \cup Mapped \cup Odd \cup Asking \cup Limited

(* The odd ones need no more than two nodes, the others three. *)
Lists(names) ==
  /\ ids \in SUBSET names
  /\ deps \in [ids -> SUBSET Names]

MCInit ==
  /\ \/ design = Plain /\ Lists(Names)
     \/ design \in Mapped \cup Limited /\ Lists({a, b, c})
     \/ /\ design \in Odd /\ ids = {a, b}
        /\ \E x \in SUBSET Names : deps = a :> {} @@ b :> x
     \/ /\ design \in Asking /\ ids = {a, b, c}
        /\ \E x \in SUBSET {a, c}, y \in SUBSET {a} : deps = a :> {} @@ b :> x @@ c :> y
  /\ Fresh

MCSpec == MCInit /\ [][AssemblyNext]_every
=============================================================================
