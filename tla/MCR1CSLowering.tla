--------------------------- MODULE MCR1CSLowering ---------------------------
(***************************************************************************)
(* Families of constrain bodies over two inputs and a constant.            *)
(***************************************************************************)
EXTENDS R1CSLowering

X == 1
Y == 2
C == 3
E(kind, a, b) == Operation(kind, <<a, b>>, 0)
Mul(a, b) == E("mul", a, b)
Neg(a) == Operation("neg", <<a>>, 0)
Eq(a, b) == E("eq", a, b)
Call1(a, b) == E("call", a, b)
Row(a, b) == E("array", a, b)
Lookup(r) == Operation("contain", <<r>>, 0)
Program(operations) ==
  LET op == <<Operation("input", <<>>, 1), Operation("input", <<>>, 2),
              Operation("const", <<>>, 3)>> \o operations
  IN [block |-> [i \in DOMAIN op |-> i],
      op |-> [i \in DOMAIN op |-> IF op[i].kind \in Users THEN [op[i] EXCEPT !.leaf = i] ELSE op[i]]]

(* Products of shared products, in several equalities. *)
Chains ==
  {Program(<<Mul(X, Y), Mul(4, a), Mul(5, b), Mul(c[1], c[2]), Eq(e, X), Eq(f, e), Eq(f, g)>>) :
     a \in {X, 4}, b \in {C, 4, 5}, c \in {<<5, 4>>, <<4, 5>>, <<6, 6>>, <<6, 4>>},
     e \in {6, 7}, f \in {5, 6, 7}, g \in {4, 7}}

(* Sums and negations of products, and products of those, next to a linear *)
(* side and next to a quadratic one.                                       *)
Roots ==
  {Program(<<Mul(X, Y), Mul(Y, Y), s, t, Mul(c, 7), Eq(e, p), Eq(f, 5)>>) :
     s \in {E(k, 5, a) : k \in {"add", "sub", "mul"}, a \in {C, 4}} \cup {Neg(5)},
     t \in {E("add", 6, 4), E("sub", 6, 6), Neg(6), E("sub", C, 6)},
     c \in {C, X, 6}, e \in {6, 7, 8}, p \in {X, 4}, f \in {5, 7, 8}}

(* The arguments of a call do not contain one another where they must be   *)
(* lowered.                                                                *)
Calls ==
  {Program(<<Mul(X, Y), Mul(4, C), Call1(a, b), Mul(4, c), Mul(7, 7), Eq(8, e), Call1(7, b)>>) :
     a \in {4, 5}, b \in {X, 4}, c \in {X, 5}, e \in {4, 7, 8}}

Lookups ==
  {Program(<<Mul(X, Y), Mul(4, Y), Row(a, b), Mul(5, c), Row(7, 5), Lookup(8), Lookup(6), Eq(e, X)>>) :
     a \in {4, 5}, b \in {X, 5}, c \in {X, 4, 5}, e \in {4, 7}}

Divisions ==
  {Program(<<Mul(X, Y), Mul(4, Y), E("div", a, b), E(k, 6, a), Eq(e, f)>>) :
     a \in {X, 4, 5}, b \in {X, 5}, k \in {"add", "mul"}, e \in {6, 7}, f \in {5, 7}}

(* A factor of an earlier product is replaced in a value that was recorded *)
(* before: the later member must be written first.                        *)
Reordered ==
  {Program(<<Mul(X, Y), Mul(4, Y), Mul(4, C), s, Mul(7, X), Eq(8, e), Eq(5, f)>>) :
     s \in {Neg(6), E("add", 6, C), E("sub", 6, 4), Mul(6, C)}, e \in {X, 7}, f \in {X, 4, 8}}

MCPrograms == Chains \cup Roots \cup Calls \cup Reordered \cup Lookups \cup Divisions

(* The arguments of a call share a product that is lowered. *)
SharedArguments ==
  {Program(<<Mul(X, Y), Mul(4, Y), Call1(a, b)>>) : a \in {4, 5}, b \in {4, 5}}
=============================================================================
