-------------------------- MODULE MCFaultIsolation ---------------------------
(* FaultIsolation for TLC: trees of calls, up to three levels. *)
EXTENDS FaultIsolation

Leaf(op) == [op |-> op, kids |-> <<>>]
Isolate(node) == [op |-> "isolate", kids |-> <<node>>]
Pairs(ops, S, T) == {[op |-> op, kids |-> <<a, b>>] : op \in ops, a \in S, b \in T}

Leaves == {Leaf("ok"), Leaf("soft"), Leaf("hard")}

(* Calls with an inner flow, an inner boundary, and both *)
Flow(ops) == Pairs(ops, {Leaf("ok"), Leaf("soft")}, {Leaf("soft")})
Inner == Leaves \union {Isolate(l) : l \in {Leaf("soft"), Leaf("hard")}} \union Flow({"map", "join"})
           \union {Isolate(f) : f \in Flow({"map", "par"})}

Later == LET flow == Pairs({"map"}, {Leaf("soft")}, {Leaf("soft")})
         IN  Leaves \union {Isolate(l) : l \in {Leaf("soft")} \union flow} \union flow

(* Boundaries around flows, flows around boundaries, and flows whose tasks *)
(* wait for flows                                                          *)
Marked ==
  LET flow == Pairs({"map", "par", "join", "seq"}, Inner, Later)
  IN  flow \union {Isolate(p) : p \in flow}
=============================================================================
