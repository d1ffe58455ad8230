------------------------ MODULE MCIntervalAnalysis ------------------------
(***************************************************************************)
(* Instances of IntervalAnalysis over the field of 7 elements: families of *)
(* circuits whose inputs have intervals of every type.                     *)
(***************************************************************************)
EXTENDS IntervalAnalysis

In(x) == [op |-> "input", args |-> <<>>, known |-> x, bit |-> FALSE]
Bit(x) == [In(x) EXCEPT !.bit = TRUE]
Const(c) == [op |-> "const", args |-> <<>>, known |-> Degenerate(c), bit |-> FALSE]
Op(op, args) ==
  [op |-> op, args |-> args, known |-> Entire, bit |-> op \in Predicates \cup BoolOps \cup {"not"}]
BitOp(op, args) == [Op(op, args) EXCEPT !.bit = TRUE]

Kinds == {Entire, Interval("A", 0, 2), Interval("B", 4, 6), Interval("C", 2, 5),
          Interval("F", 5, 1), Degenerate(0), Degenerate(2), Degenerate(5)}

(* The result of an operation is made equal to a constant. *)
Arithmetic ==
  {<<In(x), In(y), Op(op, <<1, 2>>), Const(c), Op("emiteq", <<3, 4>>)>> :
     x, y \in Kinds, op \in FeltOps, c \in {0, 3}}

Unary ==
  {<<In(x), Op(op, <<1>>), In(y), Op("emiteq", <<2, 3>>)>> : x, y \in Kinds, op \in FeltUnaryOps}

(* A comparison is asserted, or its negation is, by way of a felt. *)
Comparisons ==
  {<<In(x), In(y), Op(op, <<1, 2>>), Op("assert", <<3>>), Op("not", <<3>>)>> :
     x, y \in Kinds, op \in Predicates}

Negations ==
  {<<In(x), In(y), Op(op, <<1, 2>>), Op("cast", <<3>>), Const(0), Op("emiteq", <<4, 5>>)>> :
     x, y \in Kinds, op \in Predicates}

Booleans ==
  {<<Bit(Boolean), Bit(x), Op(op, <<1, 2>>), Op("not", <<3>>), BitOp("select", <<1, 3, 4>>),
     Op("assert", <<a>>)>> : x \in {Boolean, False, True}, op \in BoolOps, a \in {4, 5}}

Selections ==
  {<<Bit(Boolean), In(x), In(y), Op("select", <<1, 2, 3>>), In(z), Op("emiteq", <<4, 5>>)>> :
     x, y, z \in Kinds \ {Entire, Degenerate(0)}}

(* A product of factors s - c and s is zero. *)
Decompositions ==
  {<<In(x), Const(c), Op("sub", f), Op(op, <<1, 3>>), Const(0), Op("emiteq", e)>> :
     x \in Kinds, c \in {2, 5}, f \in {<<1, 2>>, <<2, 1>>}, op \in {"mul", "add"}, e \in {<<4, 5>>, <<5, 4>>}}

(* The product of an input and a constant is made equal to a constant. *)
Multiples ==
  {<<In(x), Const(k), Op("mul", args), Const(c), Op("emiteq", <<3, 4>>)>> :
     x \in Kinds, k \in {2, 5}, args \in {<<1, 2>>, <<2, 1>>}, c \in {0, 3}}

(* Two constraints over shared operands, so that operations are revisited. *)
Chains ==
  {<<In(x), Const(c), Op("mul", <<1, 2>>), In(y), Op("emiteq", <<3, 4>>),
     Op("add", <<1, 4>>), Op(op, <<6, 2>>), Op("assert", <<7>>)>> :
     x, y \in {Entire, Interval("A", 0, 2), Interval("F", 5, 1)}, c \in {2, 5}, op \in {"lt", "eq"}}

(* A comparison cast to a felt is scaled by a constant. *)
Scaled ==
  {<<In(Entire), In(x), Op("lt", <<1, 2>>), Op("cast", <<3>>), Const(2), Op(op, <<4, 5>>),
     In(Entire), Op("emiteq", <<6, 7>>)>> : x \in {Entire, Degenerate(2)}, op \in {"mul", "add"}}

(* A select spans the field, or a result is narrowed by ranges across both ends. *)
Wide ==
  {<<Bit(Boolean), In(Interval("C", 0, 5)), In(Interval("C", 1, 6)), Op("select", <<1, 2, 3>>),
     In(x), Op("emiteq", <<4, 5>>)>> : x \in {Interval("F", 5, 0), Interval("F", 6, 2)}} \cup
  {<<In(Interval("C", 1, 6)), Op("neg", <<1>>), In(Interval("F", 5, 2)), In(Interval("A", 0, 1)),
     Op("emiteq", <<2, 3>>), Op("emiteq", <<2, 4>>)>>}

MCCircuits ==
  UNION {Arithmetic, Unary, Comparisons, Negations, Booleans, Selections, Decompositions,
         Multiples, Chains, Scaled, Wide}

(* An input is asserted to be at most another. *)
Orderings == {<<In(Entire), In(Entire), Op("le", <<1, 2>>), Op("assert", <<3>>)>>}

=============================================================================
