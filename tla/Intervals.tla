----------------------------- MODULE Intervals -----------------------------
(***************************************************************************)
(* Intervals over a prime field (lib/Analysis/Intervals.cpp): the abstract *)
(* values of the interval analysis.  An unreduced interval <<a, b>> ranges *)
(* over the integers; an interval is empty, one value, the whole field, or *)
(* a range of one of four types: below half of the field ("A"), above it   *)
(* ("B"), across it ("C"), or across zero ("F", with a > b).               *)
(***************************************************************************)
EXTENDS Integers, FiniteSetsExt

CONSTANT Prime

ASSUME PrimeAssumption ==
  /\ Prime \in Nat
  /\ Prime > 2
  /\ \A d \in 2..(Prime - 1) : Prime % d # 0

Felt == 0..(Prime - 1)

(* Field::halfPrime, bitwidth and toSigned. *)
Half == (Prime + 1) \div 2
BitWidth == CHOOSE w \in 1..Prime : 2^(w - 1) <= Prime /\ Prime < 2^w
ToSigned(v) == IF v < Half THEN v ELSE v - Prime

Types == {"A", "B", "C", "F", "Empty", "Degenerate", "Entire"}

IntervalType == [ty : Types, a : Felt, b : Felt]

Interval(ty, a, b) == [ty |-> ty, a |-> a % Prime, b |-> b % Prime]
Empty == Interval("Empty", 0, 0)
Entire == Interval("Entire", 0, 0)
Degenerate(v) == Interval("Degenerate", v, v)
False == Degenerate(0)
True == Degenerate(1)

Boolean == Interval("A", 0, 1)

(* The field elements an interval stands for. *)
Gamma(x) ==
  CASE x.ty = "Empty" -> {}
    [] x.ty = "Entire" -> Felt
    [] x.ty = "F" -> {v \in Felt : v >= x.a \/ v <= x.b}
    [] OTHER -> {v \in Felt : x.a <= v /\ v <= x.b}

(*-------------------------- unreduced intervals --------------------------*)
Width(u) == IF u[1] > u[2] THEN 0 ELSE u[2] - u[1] + 1
IsNone(u) == Width(u) = 0

ReduceTo[u \in Int \X Int] ==
  LET lhs == u[1] % Prime
      rhs == u[2] % Prime
  IN  IF IsNone(u) THEN Empty
      ELSE IF Width(u) >= Prime THEN Entire
      ELSE CASE lhs = rhs -> Degenerate(lhs)
             [] lhs < rhs /\ rhs < Half -> Interval("A", lhs, rhs)
             [] lhs < rhs /\ lhs < Half /\ rhs >= Half -> Interval("C", lhs, rhs)
             [] lhs < rhs /\ lhs >= Half -> Interval("B", lhs, rhs)
             [] lhs > rhs /\ lhs >= Half /\ rhs < Half -> Interval("F", lhs, rhs)
             [] OTHER -> Entire

Overlap(u, w) == <<Max({u[1], w[1]}), Min({u[2], w[2]})>>
Hull(u, w) == <<Min({u[1], w[1]}), Max({u[2], w[2]})>>

(* The part of u below or above the farthest bound of w. *)
Part(u, w, bounded) == IF IsNone(u) \/ IsNone(w) THEN u ELSE bounded
LTPart(u, w) == Part(u, w, <<u[1], Min({u[2], w[2] - 1})>>)
LEPart(u, w) == Part(u, w, <<u[1], Min({u[2], w[2]})>>)
GTPart(u, w) == Part(u, w, <<Max({u[1], w[1] + 1}), u[2]>>)
GEPart(u, w) == Part(u, w, <<Max({u[1], w[1]}), u[2]>>)

Negated(u) == IF IsNone(u) THEN u ELSE <<-u[2], -u[1]>>
Added(u, w) == <<u[1] + w[1], u[2] + w[2]>>
Corners(S) == <<Min(S), Max(S)>>
Product(u, w) == Corners({u[i] * w[j] : i, j \in {1, 2}})

ToUnreduced(x) ==
  CASE x.ty = "Empty" -> <<1, 0>>
    [] x.ty = "Entire" -> <<0, Prime - 1>>
    [] OTHER -> <<x.a, x.b>>
First(x) == IF x.ty = "F" THEN <<x.a - Prime, x.b>> ELSE ToUnreduced(x)
Second(x) == <<x.a - Prime, x.b - Prime>>

(*---------------------------- lattice operations -------------------------*)
IsOneOf(x, y, pairs) == <<x.ty, y.ty>> \in pairs
SameSide == {<<"A", "A">>, <<"B", "B">>, <<"C", "C">>, <<"A", "C">>, <<"B", "C">>}

(* Mutant of JoinRanges: a join of two types takes the first operand's. *)
JoinRangesOfFirst(x, y) ==
  IF IsOneOf(x, y, SameSide) THEN Interval(x.ty, Min({x.a, y.a}), Max({x.b, y.b})) ELSE Entire

(* The cases of join and intersect for two ranges, in the order of types the *)
(* code handles.                                                             *)
JoinRanges(x, y) ==
  CASE IsOneOf(x, y, SameSide) -> Interval(y.ty, Min({x.a, y.a}), Max({x.b, y.b}))
    [] IsOneOf(x, y, {<<"A", "B">>}) ->
         LET opt1 == Hull(First(y), First(x))
             opt2 == Hull(Second(y), First(x))
         IN  ReduceTo[IF Width(opt1) <= Width(opt2) THEN opt1 ELSE opt2]
    [] IsOneOf(x, y, {<<"F", "F">>, <<"A", "F">>}) -> ReduceTo[Hull(First(x), First(y))]
    [] IsOneOf(x, y, {<<"B", "F">>}) -> ReduceTo[Hull(Second(x), First(y))]
    [] OTHER -> Entire

InOrder(x, y) == IsOneOf(x, y, SameSide \cup {<<"A", "B">>, <<"F", "F">>} \cup
                               ({"A", "B", "C"} \X {"F"}))

Join[p \in IntervalType \X IntervalType] ==
  LET x == p[1]
      y == p[2]
  IN  IF "Entire" \in {x.ty, y.ty} THEN Entire
      ELSE IF x.ty = "Empty" THEN y
      ELSE IF y.ty = "Empty" THEN x
      ELSE IF "Degenerate" \in {x.ty, y.ty} THEN ReduceTo[Hull(ToUnreduced(x), ToUnreduced(y))]
      ELSE IF InOrder(x, y) THEN JoinRanges(x, y) ELSE JoinRanges(y, x)

IntersectRanges(x, y) ==
  CASE IsOneOf(x, y, SameSide) ->
         LET maxA == Max({x.a, y.a})
             minB == Min({x.b, y.b})
         IN  IF maxA < minB THEN Interval(x.ty, maxA, minB)
             ELSE IF maxA = minB THEN Degenerate(maxA) ELSE Empty
    [] IsOneOf(x, y, {<<"A", "B">>}) -> Empty
    [] IsOneOf(x, y, {<<"F", "F">>, <<"A", "F">>}) -> ReduceTo[Overlap(First(x), First(y))]
    [] IsOneOf(x, y, {<<"B", "F">>}) -> ReduceTo[Overlap(Second(x), First(y))]
    [] OTHER ->
         LET opt1 == ReduceTo[Overlap(First(x), First(y))]
             opt2 == ReduceTo[Overlap(Second(x), First(y))]
         IN  IF opt1 = Empty THEN opt2 ELSE IF opt2 = Empty THEN opt1 ELSE Join[<<opt1, opt2>>]

(* A single value is intersected as a range of type A, whatever its side. *)
AsRange(x) == IF x.ty = "Degenerate" THEN Interval("A", x.a, x.a) ELSE x

Intersect[p \in IntervalType \X IntervalType] ==
  LET x == p[1]
      y == p[2]
      l == AsRange(x)
      r == AsRange(y)
  IN  IF x = y THEN x
      ELSE IF "Empty" \in {x.ty, y.ty} THEN Empty
      ELSE IF x.ty = "Entire" THEN y
      ELSE IF y.ty = "Entire" THEN x
      ELSE IF x.ty = "Degenerate" /\ y.ty = "Degenerate" THEN Empty
      ELSE IF InOrder(l, r) THEN IntersectRanges(l, r) ELSE IntersectRanges(r, l)

IsRange(x) == x.ty \in {"A", "B", "C"}

(* x without y when what is left is one interval the code can name. *)
Difference[p \in IntervalType \X IntervalType] ==
  LET x == p[1]
      y == p[2]
      i == Intersect[<<x, y>>]
      after(v) == ReduceTo[<<v + 1, x.b>>]
      before(v) == ReduceTo[<<x.a, v - 1>>]
  IN  CASE i = Empty -> x
        [] i # Empty /\ (x.ty = "Degenerate" \/ y.ty = "Entire") -> Empty
        [] i # Empty /\ x.ty = "Entire" /\ y.ty # "Entire" ->
             IF y.a = 0 THEN ReduceTo[<<y.b + 1, Prime - 1>>]
             ELSE IF y.b = Prime - 1 THEN ReduceTo[<<0, y.a - 1>>] ELSE x
        [] OTHER ->
             IF (IsRange(x) /\ IsRange(i)) \/ IsOneOf(x, i, {<<"F", "F">>})
             THEN IF x.a = i.a THEN after(i.b) ELSE IF x.b = i.b THEN before(i.a) ELSE x
             ELSE IF x.ty = "F"
             THEN IF x.a = i.b THEN after(i.a) ELSE IF x.b = i.a THEN before(i.b) ELSE x
             ELSE x

(*------------------------------- properties ------------------------------*)
(* The bounds lie on the side of the field that the type says. *)
WellFormed(x) ==
  /\ x \in IntervalType
  /\ CASE x.ty = "A" -> x.a < x.b /\ x.b < Half
       [] x.ty = "B" -> Half <= x.a /\ x.a < x.b
       [] x.ty = "C" -> x.a < Half /\ Half <= x.b
       [] x.ty = "F" -> Half <= x.a /\ x.b < Half
       [] x.ty = "Degenerate" -> x.a = x.b
       [] OTHER -> x.a = 0 /\ x.b = 0

(* The operands join and intersect are not right about. *)
FarPoint(x, y) == x.ty = "Degenerate" /\ x.a >= Half /\ y.ty \in {"B", "F"}
Misjoined(x, y) == x.ty = "Degenerate" /\ y.ty = "F"

(* A "C" that has come to span the field (a join may make one) may meet an "F" *)
(* in Entire, the join of their two common ranges, which then narrows neither. *)
Spanning(x, y) == x = Interval("C", 0, Prime - 1) /\ y.ty = "F"

=============================================================================
