------------------------- MODULE IntervalArithmetic -------------------------
(***************************************************************************)
(* The operations of felts and booleans, on values (the folds of           *)
(* lib/Dialect/Felt/IR/Ops.cpp) and on intervals (Intervals.cpp and the    *)
(* comparisons of IntervalAnalysis.cpp).                                   *)
(***************************************************************************)
EXTENDS Intervals, SequencesExt

(* DynamicAPInt divides towards zero. *)
Abs(v) == IF v < 0 THEN -v ELSE v
Quotient(v, w) == (IF (v < 0) # (w < 0) THEN -1 ELSE 1) * (Abs(v) \div Abs(w))
Remainder(v, w) == v - w * Quotient(v, w)

Inv(v) == CHOOSE w \in Felt : (v * w) % Prime = 1

Bits(v) == {i \in 0..BitWidth : (v \div 2^i) % 2 = 1}

(* The number whose bits are B is the largest without any other bit. *)
FromBits(B) == Max({0} \cup {v \in 1..(2 * Prime - 1) : Bits(v) \subseteq B})

Predicates == {"eq", "ne", "lt", "le", "gt", "ge"}
Divisions == {"div", "uintdiv", "sintdiv", "umod", "smod"}
FeltOps == {"add", "sub", "mul", "bit_and", "bit_or", "bit_xor", "shl", "shr"} \cup Divisions
FeltUnaryOps == {"neg", "bit_not", "inv"}
BoolOps == {"and", "or", "xor"}
Operations ==
  FeltOps \cup FeltUnaryOps \cup Predicates \cup BoolOps \cup {"not", "cast", "select"}

Arity(op) == IF op \in FeltUnaryOps \cup {"not", "cast"} THEN 1 ELSE IF op = "select" THEN 3 ELSE 2

FromBool(b) == IF b THEN 1 ELSE 0

(* What an operation computes; there is no division by zero and no inverse *)
(* of zero.                                                                *)
Result(op, V) ==
  LET v == V[1]
      w == V[2]
  IN  CASE op = "add" -> (v + w) % Prime
        [] op = "sub" -> (v - w) % Prime
        [] op = "mul" -> (v * w) % Prime
        [] op = "div" -> (v * Inv(w)) % Prime
        [] op = "uintdiv" -> v \div w
        [] op = "umod" -> v % w
        [] op = "sintdiv" -> Quotient(ToSigned(v), ToSigned(w)) % Prime
        [] op = "smod" -> Remainder(ToSigned(v), ToSigned(w)) % Prime
        [] op = "bit_and" -> FromBits(Bits(v) \cap Bits(w)) % Prime
        [] op = "bit_or" -> FromBits(Bits(v) \cup Bits(w)) % Prime
        [] op = "bit_xor" -> FromBits((Bits(v) \cup Bits(w)) \ (Bits(v) \cap Bits(w))) % Prime
        [] op = "shl" -> (v * 2^w) % Prime
        [] op = "shr" -> IF w >= BitWidth THEN 0 ELSE v \div 2^w
        [] op = "neg" -> (-v) % Prime
        [] op = "bit_not" -> (2^BitWidth - 1 - v) % Prime
        [] op = "inv" -> Inv(v)
        [] op = "eq" -> FromBool(v = w)
        [] op = "ne" -> FromBool(v # w)
        [] op = "lt" -> FromBool(v < w)
        [] op = "le" -> FromBool(v <= w)
        [] op = "gt" -> FromBool(v > w)
        [] op = "ge" -> FromBool(v >= w)
        [] op = "and" -> v * w
        [] op = "or" -> Max({v, w})
        [] op = "xor" -> FromBool(v # w)
        [] op = "not" -> 1 - v
        [] op = "cast" -> v
        [] op = "select" -> IF v = 1 THEN w ELSE V[3]

IsDefined(op, V) ==
  /\ op \in Divisions => V[2] # 0
  /\ op = "inv" => V[1] # 0

(*--------------------------- on intervals --------------------------------*)
Neg[x \in IntervalType] == ReduceTo[Negated(First(x))]

Plus[p \in IntervalType \X IntervalType] ==
  LET x == p[1]
      y == p[2]
  IN  IF x.ty = "Empty" \/ y.ty = "Entire" THEN y
      ELSE IF y.ty = "Empty" \/ x.ty = "Entire" THEN x
      ELSE ReduceTo[Added(First(x), First(y))]

Minus[p \in IntervalType \X IntervalType] == Plus[<<p[1], Neg[p[2]]>>]
Complement(x) == Minus[<<True, x>>]

Times[p \in IntervalType \X IntervalType] ==
  LET x == p[1]
      y == p[2]
  IN  IF False \in {x, y} THEN False
      ELSE IF "Empty" \in {x.ty, y.ty} THEN Empty
      ELSE IF "Entire" \in {x.ty, y.ty} THEN Entire
      ELSE IF IsOneOf(x, y, {<<"B", "B">>}) THEN ReduceTo[Product(Second(x), Second(y))]
      ELSE ReduceTo[Product(First(x), First(y))]

(* The canonical ranges of an interval, read as unsigned or signed values. *)
UnsignedParts(x) ==
  CASE x.ty = "Empty" -> <<>>
    [] x.ty = "F" -> <<<<x.a, Prime - 1>>, <<0, x.b>>>>
    [] OTHER -> <<ToUnreduced(x)>>

SignedParts(x) ==
  CASE x.ty = "Empty" -> <<>>
    [] x.ty = "Entire" -> <<<<Half - Prime, Half - 1>>>>
    [] x.ty = "Degenerate" -> <<<<ToSigned(x.a), ToSigned(x.a)>>>>
    [] x.ty = "A" -> <<<<x.a, x.b>>>>
    [] x.ty = "B" -> <<Second(x)>>
    [] x.ty = "C" -> <<<<Half - Prime, x.b - Prime>>, <<x.a, Half - 1>>>>
    [] x.ty = "F" -> <<First(x)>>

HasZero(u) == u[1] <= 0 /\ u[2] >= 0

(* The pieces of all pairs of parts, of which an interval has at most two, *)
(* joined in the order of the loops.                                       *)
JoinPieces(piece(_, _), us, ws) ==
  LET of(i, j) == IF i \in DOMAIN us /\ j \in DOMAIN ws THEN piece(us[i], ws[j]) ELSE Empty
      first == Join[<<of(1, 1), of(1, 2)>>]
  IN  Join[<<Join[<<first, of(2, 1)>>], of(2, 2)>>]

(* A division that may fail leaves the result unbounded. *)
FeltDiv(x, y) ==
  IF "Empty" \in {x.ty, y.ty} THEN Empty
  ELSE IF y.ty # "Degenerate" \/ y = False THEN Entire
  ELSE Times[<<x, Degenerate(Inv(y.a))>>]

IntDiv(us, ws) ==
  LET piece(u, w) == ReduceTo[Corners({Quotient(u[i], w[j]) : i, j \in {1, 2}})]
  IN  IF us # <<>> /\ \E w \in ToSet(ws) : HasZero(w) THEN Entire
      ELSE JoinPieces(piece, us, ws)

SignedMod(us, ws) ==
  LET piece(u, w) ==
        LET most == Max({Abs(w[1]), Abs(w[2])}) - 1
            rem == Remainder(u[1], w[1])
        IN  IF u[1] = u[2] /\ w[1] = w[2] THEN ReduceTo[<<rem, rem>>]
            ELSE ReduceTo[<<IF u[1] < 0 THEN Max({u[1], -most}) ELSE 0,
                            IF u[2] > 0 THEN Min({u[2], most}) ELSE 0>>]
  IN  IF us # <<>> /\ \E w \in ToSet(ws) : HasZero(w) THEN Entire
      ELSE JoinPieces(piece, us, ws)

Mod(x, y) ==
  CASE "Empty" \in {x.ty, y.ty} -> Empty
    [] x.ty = "Degenerate" /\ y.ty = "Degenerate" /\ y # False -> Degenerate(x.a % y.a)
    [] OTHER ->
         IF y.ty \in {"F", "Entire"} \/ Intersect[<<y, False>>] = False THEN Entire
         ELSE ReduceTo[<<0, y.b - 1>>]

BitAnd(x, y) ==
  CASE "Empty" \in {x.ty, y.ty} -> Empty
    [] x.ty = "Degenerate" /\ y.ty = "Degenerate" -> Degenerate(Result("bit_and", <<x.a, y.a>>))
    [] x.ty = "Degenerate" /\ y.ty \notin {"Degenerate", "Empty"} -> ReduceTo[<<0, x.a>>]
    [] y.ty = "Degenerate" /\ x.ty \notin {"Degenerate", "Empty"} -> ReduceTo[<<0, y.a>>]
    [] OTHER -> Entire

(* or and xor: zero is neutral, and single values are computed. *)
BitOr(op, x, y) ==
  CASE "Empty" \in {x.ty, y.ty} -> Empty
    [] x = False /\ y # Empty -> y
    [] y = False /\ x \notin {False, Empty} -> x
    [] OTHER -> IF x.ty = "Degenerate" /\ y.ty = "Degenerate"
                THEN Degenerate(Result(op, <<x.a, y.a>>)) ELSE Entire

Shift(op, x, y) ==
  IF "Empty" \in {x.ty, y.ty} THEN Empty
  ELSE IF x.ty # "Degenerate" \/ y.ty # "Degenerate" THEN Entire
  ELSE IF y.a > BitWidth THEN (IF op = "shl" THEN Entire ELSE False)
  ELSE Degenerate(IF op = "shl" THEN x.a * 2^y.a ELSE x.a \div 2^y.a)

(* cmp: the two questions asked of the unreduced bounds. *)
Compare(pred, x, y) ==
  LET u == ToUnreduced(x)
      w == ToUnreduced(y)
      answer(no, yes) == IF IsNone(no) THEN False ELSE IF IsNone(yes) THEN True ELSE Boolean
      equal(same, differ) ==
        IF x.ty = "Degenerate" /\ y.ty = "Degenerate" THEN (IF x = y THEN same ELSE differ)
        ELSE IF Intersect[<<x, y>>] = Empty THEN differ ELSE Boolean
  IN  CASE pred = "eq" -> equal(True, False)
        [] pred = "ne" -> equal(False, True)
        [] pred = "lt" -> answer(LTPart(u, w), GEPart(u, w))
        [] pred = "le" -> answer(LEPart(u, w), GTPart(u, w))
        [] pred = "gt" -> answer(GTPart(u, w), LEPart(u, w))
        [] pred = "ge" -> answer(GEPart(u, w), LTPart(u, w))

(* Mutant of IsBoolean: an unknown truth value does not count. *)
IsDecided(x) == x \in {False, True}

IsBoolean(x) == x \in {False, True, Boolean}

(* The boolean operations are exact: the results of the operands' values. *)
BoolResult(op, values) ==
  LET results == {Result(op, V) : V \in values}
  IN  IF Cardinality(results) = 1 THEN Degenerate(CHOOSE r \in results : TRUE) ELSE Boolean

SelectValue(c, x, y) ==
  CASE c = Empty -> Empty
    [] c = True -> x
    [] c = False -> y
    [] OTHER -> Join[<<x, y>>]

(* performBinaryArithmetic, performUnaryArithmetic, select and the casts. *)
Transfer(op, X) ==
  LET x == X[1]
      y == X[2]
  IN  CASE op = "add" -> Plus[<<x, y>>]
        [] op = "sub" -> Minus[<<x, y>>]
        [] op = "mul" -> Times[<<x, y>>]
        [] op = "div" -> FeltDiv(x, y)
        [] op = "uintdiv" -> IntDiv(UnsignedParts(x), UnsignedParts(y))
        [] op = "sintdiv" -> IntDiv(SignedParts(x), SignedParts(y))
        [] op = "umod" -> Mod(x, y)
        [] op = "smod" -> SignedMod(SignedParts(x), SignedParts(y))
        [] op = "bit_and" -> BitAnd(x, y)
        [] op \in {"bit_or", "bit_xor"} -> BitOr(op, x, y)
        [] op \in {"shl", "shr"} -> Shift(op, x, y)
        [] op = "neg" -> Neg[x]
        [] op = "bit_not" -> Complement(x)
        [] op = "inv" -> Entire
        [] op \in Predicates -> Compare(op, x, y)
        [] op \in BoolOps -> BoolResult(op, Gamma(x) \X Gamma(y))
        [] op = "not" -> BoolResult(op, {<<v>> : v \in Gamma(x)})
        [] op = "cast" -> x
        [] op = "select" -> SelectValue(x, y, X[3])

=============================================================================
