------------------------- MODULE MCFlatteningDriver -------------------------
EXTENDS FlatteningDriver

N == Symbol("N")
M == Symbol("M")
K == Symbol("K")
P == Symbol("P")
X == Symbol("X")
One == Const(1)
TA == <<Word("TA")>>
TB == <<Word("TB")>>
TC == <<Word("TC")>>
Nm(d) == <<Word(d)>>
TemplateOf(params, exprs) == [params |-> params, exprs |-> exprs]
Three == (TA :> TemplateOf(<<"N">>, "X" :> [of |-> "N", plus |-> 1])) @@
         (TB :> TemplateOf(<<"M", "K">>, <<>>)) @@ (TC :> TemplateOf(<<"P">>, <<>>))
A == Path(TA, Nm("A"))
B == Path(TB, Nm("B"))
C == Path(TC, Nm("C"))
Main == Path(ModuleLevel, Nm("Main"))
TM == <<Word("TM")>>
MainOf == Path(TM, Nm("Main"))
Def(kind, body) == [kind |-> kind, body |-> body]

G == Path(TB, Nm("G"))
Kinds == {"struct", "func"}
Call(kind, callee, args) == Use(kind, callee, args, NoLoop)
Unit(ts, ds) == [templates |-> ts, defs |-> ds, main |-> Call("struct", Main, <<>>)]

Nested ==
  {Unit(Three,
     (A :> Def(k[1], {Call(k[2], B, <<x, y>>)})) @@
     (B :> Def(k[2], {Call(k[3], C, <<z>>)})) @@
     (C :> Def(k[3], {})) @@
     (Main :> Def("struct", {Call(k[1], A, <<Const(2)>>)}
                              \cup {Call(k[2], B, <<One, v>>) : v \in more}))) :
     k \in [1..3 -> Kinds], x \in {One, N}, y \in {N, X}, z \in {M, K}, more \in {{}, {Const(2)}}}

(* Uses in loops, and in a main that has a parameter itself. *)
Loops ==
  {[Unit(Three @@ (TM :> TemplateOf(<<"R">>, <<>>)),
     (A :> Def(k, {Use("struct", B, <<x, Induction>>, l)})) @@
     (B :> Def("struct", {Call("struct", C, <<K>>)})) @@
     (C :> Def("struct", {})) @@
     (MainOf :> Def("struct", {Call(k, A, <<Symbol("R")>>)}))) EXCEPT !.main = Call("struct", MainOf, <<r>>)] :
     k \in Kinds, x \in {Induction, N}, l \in {N, Const(2)}, r \in {Const(0), Const(2)}}

(* Uses of the template itself with another value, for ever but for the     *)
(* modulus: more levels than there may be rounds.                           *)
Recursive ==
  {Unit(Three,
     (A :> Def(k, {Call(k, A, <<X>>)})) @@ (B :> Def("func", {})) @@ (C :> Def("func", {})) @@
     (Main :> Def("struct", {Call(k, A, <<a>>)}))) : k \in Kinds, a \in {Const(0), Const(2)}}

(* Functions of one template, called with one of its parameters known. *)
Siblings ==
  {Unit(Three,
     (A :> Def("func", {Call("func", B, <<One, N>>), second})) @@
     (B :> Def("func", {Call("func", C, <<K>>)})) @@ (G :> Def("func", {})) @@
     (C :> Def("func", {})) @@
     (Main :> Def("struct", {Call("func", A, <<Const(2)>>)}))) :
     second \in {Call("func", B, <<N, One>>), Call("func", G, <<One, N>>), Call("func", G, <<N, One>>)}}

(* A struct with three parameters, one of them known at first. *)
Triples ==
  {Unit((TA :> TemplateOf(<<"N", "R">>, <<>>)) @@ (TB :> TemplateOf(<<"M", "K", "L">>, <<>>)),
     (A :> Def("struct", {Call("struct", B, <<One, N, Symbol("R")>>)})) @@ (B :> Def("struct", {})) @@
     (Main :> Def("struct", {Call("struct", A, <<Const(0), Const(2)>>)})))}

MCWords == {"A", "B", "C", "G", "K", "L", "M", "Main", "N", "P", "R", "TA", "TB", "TC", "TM", "X"}
MCPrograms == Nested \cup Loops \cup Recursive \cup Siblings
=============================================================================
