----------------------- MODULE IntervalAnalysis_proofs -----------------------
(***************************************************************************)
(* Proofs for Intervals, IntervalArithmetic and IntervalAnalysis, for      *)
(* every prime above 2 and every set of circuits.                          *)
(*                                                                         *)
(* First, that the operations on intervals lose no values and yield        *)
(* well-formed intervals, for all bounds.  An interval's values are        *)
(* residues of a range of integers; each operation is followed from such a *)
(* reading of its operands, by the type of each, to a range that is        *)
(* reduced again.  Before the operations of felts comes what they need of  *)
(* arithmetic: least numbers, powers of two, inverses, bits.               *)
(*                                                                         *)
(* Then the analysis: whatever the order of the visits, each interval that *)
(* a visit or a call of applyInterval stores lies where its type says,     *)
(* none gives a value back, the exceptions of Narrows apart, and none      *)
(* loses a value of an execution that meets the constraints, save where    *)
(* its operands are among those of DoubtfulVisit and DoubtfulApply; no     *)
(* ensure fails while the intervals are sound, casts that are scaled or    *)
(* selected apart; and an idle solver has met every constraint and left no *)
(* result behind, the exceptions of Settled apart.                         *)
(***************************************************************************)
EXTENDS IntervalAnalysis, FiniteSetTheorems, SequenceTheorems, TLAPS

(*----------------------- arithmetic modulo the prime ---------------------*)
LEMMA Division ==
  ASSUME NEW v \in Int
  PROVE  v % Prime \in Felt /\ \E k \in Int : v = k * Prime + (v % Prime)
<1>1. /\ v = (v \div Prime) * Prime + (v % Prime)
      /\ v % Prime \in 0..(Prime - 1) /\ v \div Prime \in Int
  BY PrimeAssumption
<1> QED
  BY <1>1, PrimeAssumption DEF Felt

LEMMA Multiple ==
  ASSUME NEW k \in Int, -Prime < k * Prime, k * Prime < Prime
  PROVE  k = 0
<1>1. CASE k >= 1
  <2>1. (k - 1) * Prime >= 0
    BY <1>1, PrimeAssumption
  <2>2. (k - 1) * Prime = k * Prime - Prime
    BY PrimeAssumption
  <2> QED
    BY <2>1, <2>2, PrimeAssumption
<1>2. CASE k <= -1
  <2>1. (-1 - k) * Prime >= 0
    BY <1>2, PrimeAssumption
  <2>2. (-1 - k) * Prime = - Prime - k * Prime
    BY PrimeAssumption
  <2> QED
    BY <2>1, <2>2, PrimeAssumption
<1> QED
  BY <1>1, <1>2

(* A residue is known by the multiple it differs by. *)
LEMMA Residue ==
  ASSUME NEW v \in Int, NEW k \in Int, NEW m \in Felt, v = k * Prime + m
  PROVE  v % Prime = m
<1>1. PICK j \in Int : v = j * Prime + (v % Prime)
  BY Division
<1>2. v % Prime \in Felt
  BY Division
<1> DEFINE d == k - j
<1>3. d * Prime = k * Prime - j * Prime
  BY PrimeAssumption
<1>4. d \in Int /\ d * Prime = (v % Prime) - m
  BY <1>1, <1>2, <1>3, PrimeAssumption DEF Felt
<1> HIDE DEF d
<1>5. d = 0
  BY <1>2, <1>4, Multiple, PrimeAssumption DEF Felt
<1> QED
  BY <1>2, <1>4, <1>5, PrimeAssumption DEF Felt

LEMMA FeltsAreReduced ==
  ASSUME NEW v \in Felt
  PROVE  v \in Int /\ v % Prime = v /\ (v - Prime) % Prime = v
<1>1. v \in Int /\ v - Prime \in Int /\ v = 0 * Prime + v /\ v - Prime = (-1) * Prime + v
  BY PrimeAssumption DEF Felt
<1> QED
  BY <1>1, Residue

(* Where the residues of a range shorter than the prime lie. *)
LEMMA Shifted ==
  ASSUME NEW v \in Int, NEW w \in Int, v <= w, w < v + Prime
  PROVE  w % Prime = IF (v % Prime) + (w - v) < Prime THEN (v % Prime) + (w - v)
                     ELSE (v % Prime) + (w - v) - Prime
<1>1. PICK k \in Int : v = k * Prime + (v % Prime)
  BY Division
<1>2. v % Prime \in Felt
  BY Division
<1> DEFINE m == (v % Prime) + (w - v)
<1>3. m \in Int /\ 0 <= m /\ m < Prime + Prime /\ w = k * Prime + m
  BY <1>1, <1>2, PrimeAssumption DEF Felt
<1> HIDE DEF m
<1>4. CASE m < Prime
  <2>1. w % Prime = m
    BY <1>3, <1>4, Residue, PrimeAssumption DEF Felt
  <2> QED
    BY <2>1, <1>4 DEF m
<1>5. CASE m >= Prime
  <2>1. w = (k + 1) * Prime + (m - Prime) /\ k + 1 \in Int /\ m - Prime \in Felt
    BY <1>3, <1>5, PrimeAssumption DEF Felt
  <2>2. w % Prime = m - Prime
    BY <2>1, Residue
  <2>3. ~ m < Prime
    BY <1>3, <1>5, PrimeAssumption
  <2> QED
    BY <1>2, <2>2, <2>3, PrimeAssumption DEF m, Felt
<1> QED
  BY <1>3, <1>4, <1>5, PrimeAssumption

LEMMA Halves == Half \in Nat /\ 1 < Half /\ Half < Prime
BY PrimeAssumption DEF Half

LEMMA Pairs ==
  ASSUME NEW v \in Int, NEW w \in Int
  PROVE  /\ Max({v, w}) = IF v >= w THEN v ELSE w
         /\ Min({v, w}) = IF v <= w THEN v ELSE w
BY DEF Max, Min

LEMMA Named ==
  ASSUME NEW ty \in Types, NEW v \in Felt, NEW w \in Felt
  PROVE  Interval(ty, v, w) = [ty |-> ty, a |-> v, b |-> w]
BY FeltsAreReduced DEF Interval

LEMMA Names ==
  /\ Empty = [ty |-> "Empty", a |-> 0, b |-> 0]
  /\ Entire = [ty |-> "Entire", a |-> 0, b |-> 0]
  /\ \A v \in Felt : Degenerate(v) = [ty |-> "Degenerate", a |-> v, b |-> v]
  /\ WellFormed(Empty) /\ WellFormed(Entire) /\ \A v \in Felt : WellFormed(Degenerate(v))
  /\ Gamma(Entire) = Felt /\ Gamma(Empty) = {} /\ \A v \in Felt : Gamma(Degenerate(v)) = {v}
<1>1. 0 \in Felt
  BY PrimeAssumption DEF Felt
<1>2. /\ Empty = [ty |-> "Empty", a |-> 0, b |-> 0]
      /\ Entire = [ty |-> "Entire", a |-> 0, b |-> 0]
      /\ \A v \in Felt : Degenerate(v) = [ty |-> "Degenerate", a |-> v, b |-> v]
  BY <1>1, Named DEF Empty, Entire, Degenerate, Types
<1>3. WellFormed(Empty) /\ WellFormed(Entire) /\ \A v \in Felt : WellFormed(Degenerate(v))
  BY <1>1, <1>2 DEF WellFormed, IntervalType, Types
<1>4. Gamma(Entire) = Felt /\ Gamma(Empty) = {}
  BY <1>2 DEF Gamma
<1>5. ASSUME NEW v \in Felt PROVE Gamma(Degenerate(v)) = {v}
  BY <1>2 DEF Gamma, Felt
<1> QED
  BY <1>2, <1>3, <1>4, <1>5

-----------------------------------------------------------------------------
(* UnreducedInterval::reduce keeps the residue of every integer of the range, *)
(* which is at times wider than the field or spans several multiples of it.   *)
THEOREM ReduceToIsSound ==
  ASSUME NEW l \in Int, NEW r \in Int
  PROVE  /\ WellFormed(ReduceTo[<<l, r>>])
         /\ \A v \in l..r : v % Prime \in Gamma(ReduceTo[<<l, r>>])
<1> DEFINE u == <<l, r>>
           x == ReduceTo[u]
           p == l % Prime
           q == r % Prime
<1>1. x = IF IsNone(u) THEN Empty ELSE IF Width(u) >= Prime THEN Entire
          ELSE CASE p = q -> Degenerate(p)
                 [] p < q /\ q < Half -> Interval("A", p, q)
                 [] p < q /\ p < Half /\ q >= Half -> Interval("C", p, q)
                 [] p < q /\ p >= Half -> Interval("B", p, q)
                 [] p > q /\ p >= Half /\ q < Half -> Interval("F", p, q)
                 [] OTHER -> Entire
  BY DEF ReduceTo
<1>2. p \in Felt /\ q \in Felt
  BY Division
<1>3. ASSUME NEW v \in l..r, r < l + Prime
      PROVE  v % Prime = IF p + (v - l) < Prime THEN p + (v - l) ELSE p + (v - l) - Prime
  <2>1. v \in Int /\ l <= v /\ v < l + Prime
    BY <1>3, PrimeAssumption
  <2> QED
    BY <2>1, Shifted
<1>4. r >= l /\ r < l + Prime => q = IF p + (r - l) < Prime THEN p + (r - l)
                                  ELSE p + (r - l) - Prime
  BY Shifted
<1>5. \A v \in l..r : v % Prime \in Felt
  BY Division
<1>6. Width(u) = (IF l > r THEN 0 ELSE (r - l) + 1) /\ (IsNone(u) <=> l > r)
  BY DEF Width, IsNone
<1> HIDE DEF x, p, q
<1>7. CASE x = Entire
  BY <1>5, <1>7, Names DEF x
<1>8. CASE x # Entire /\ x = Empty
  <2>1. l > r
    BY <1>1, <1>2, <1>6, <1>8, Names, Named DEF Types
  <2> QED
    BY <1>8, <2>1, Names DEF x
<1>9. CASE x # Entire /\ x # Empty
  <2>1. l <= r /\ r < l + Prime
    BY <1>1, <1>6, <1>9, PrimeAssumption
  <2>2. CASE x = Degenerate(p) /\ p = q
    <3>1. ASSUME NEW v \in l..r PROVE v % Prime = p
      <4>1. v % Prime = IF p + (v - l) < Prime THEN p + (v - l) ELSE p + (v - l) - Prime
        BY <1>3, <2>1
      <4> QED
        BY <4>1, <1>2, <1>4, <2>1, <2>2, PrimeAssumption DEF Felt
    <3> QED
      BY <1>2, <2>2, <3>1, Names DEF x
  <2>3. CASE /\ p < q
             /\ \/ x = Interval("A", p, q) /\ q < Half
                \/ x = Interval("B", p, q) /\ p >= Half
                \/ x = Interval("C", p, q) /\ p < Half /\ q >= Half
    <3>1. ASSUME NEW v \in l..r PROVE p <= v % Prime /\ v % Prime <= q
      <4>1. v % Prime = IF p + (v - l) < Prime THEN p + (v - l) ELSE p + (v - l) - Prime
        BY <1>3, <2>1
      <4> QED
        BY <4>1, <1>2, <1>4, <2>1, <2>3, PrimeAssumption DEF Felt
    <3>2. x.ty \in {"A", "B", "C"} /\ x.a = p /\ x.b = q /\ WellFormed(x)
      BY <1>2, <2>3, Named DEF Types, WellFormed, IntervalType
    <3>3. Gamma(x) = {v \in Felt : p <= v /\ v <= q}
      BY <3>2 DEF Gamma
    <3> QED
      BY <1>5, <3>1, <3>2, <3>3 DEF x
  <2>4. CASE p > q /\ p >= Half /\ q < Half /\ x = Interval("F", p, q)
    <3>1. ASSUME NEW v \in l..r PROVE v % Prime >= p \/ v % Prime <= q
      <4>1. v % Prime = IF p + (v - l) < Prime THEN p + (v - l) ELSE p + (v - l) - Prime
        BY <1>3, <2>1
      <4> QED
        BY <4>1, <1>2, <1>4, <2>1, <2>4, PrimeAssumption DEF Felt
    <3>2. x.ty = "F" /\ x.a = p /\ x.b = q /\ WellFormed(x)
      BY <1>2, <2>4, Named DEF Types, WellFormed, IntervalType
    <3>3. Gamma(x) = {v \in Felt : v >= p \/ v <= q}
      BY <3>2 DEF Gamma
    <3> QED
      BY <1>5, <3>1, <3>2, <3>3 DEF x
  <2> QED
    BY <1>1, <1>2, <1>9, <2>2, <2>3, <2>4, Halves DEF Felt
<1> QED
  BY <1>7, <1>8, <1>9

-----------------------------------------------------------------------------
LEMMA Typed == \A x : WellFormed(x) => x \in IntervalType /\ x.ty \in Types
BY DEF WellFormed, IntervalType

(* What an interval's bounds say, by its type. *)
LEMMA WithinBounds ==
  ASSUME NEW x \in IntervalType, x.ty \in {"A", "B", "C", "Degenerate"}
  PROVE  /\ x.a \in Felt /\ x.b \in Felt /\ x.a \in Int /\ x.b \in Int
         /\ First(x) = <<x.a, x.b>> /\ ToUnreduced(x) = <<x.a, x.b>>
         /\ Second(x) = <<x.a - Prime, x.b - Prime>>
         /\ \A v \in Gamma(x) : /\ v \in Felt /\ v \in x.a..x.b /\ v % Prime = v
                               /\ v - Prime \in (x.a - Prime)..(x.b - Prime)
                               /\ (v - Prime) % Prime = v
<1>1. x.a \in Felt /\ x.b \in Felt /\ x.a \in Int /\ x.b \in Int
  BY PrimeAssumption DEF IntervalType, Felt
<1>2. /\ First(x) = <<x.a, x.b>> /\ ToUnreduced(x) = <<x.a, x.b>>
      /\ Second(x) = <<x.a - Prime, x.b - Prime>>
  BY DEF First, Second, ToUnreduced
<1>3. Gamma(x) = {v \in Felt : x.a <= v /\ v <= x.b}
  BY DEF Gamma
<1>4. ASSUME NEW v \in Gamma(x)
      PROVE  /\ v \in Felt /\ v \in x.a..x.b /\ v % Prime = v
             /\ v - Prime \in (x.a - Prime)..(x.b - Prime) /\ (v - Prime) % Prime = v
  BY <1>1, <1>3, FeltsAreReduced, PrimeAssumption DEF Felt
<1> QED
  BY <1>1, <1>2, <1>4

LEMMA AcrossZero ==
  ASSUME NEW x, WellFormed(x), x.ty = "F"
  PROVE  /\ x.a \in Felt /\ x.b \in Felt /\ x.a \in Int /\ x.b \in Int /\ x.b < x.a
         /\ First(x) = <<x.a - Prime, x.b>>
         /\ \A v \in Gamma(x) : /\ v \in Felt /\ v % Prime = v /\ (v - Prime) % Prime = v
                               /\ \/ v \in (x.a - Prime)..x.b /\ v <= x.b
                                  \/ v - Prime \in (x.a - Prime)..x.b /\ v >= x.a
<1>1. x.a \in Felt /\ x.b \in Felt /\ x.a \in Int /\ x.b \in Int /\ x.b < x.a
  BY PrimeAssumption, Halves DEF WellFormed, IntervalType, Felt
<1>2. First(x) = <<x.a - Prime, x.b>>
  BY DEF First
<1>3. Gamma(x) = {v \in Felt : v >= x.a \/ v <= x.b}
  BY DEF Gamma
<1>4. ASSUME NEW v \in Gamma(x)
      PROVE  /\ v \in Felt /\ v % Prime = v /\ (v - Prime) % Prime = v
             /\ \/ v \in (x.a - Prime)..x.b /\ v <= x.b
                \/ v - Prime \in (x.a - Prime)..x.b /\ v >= x.a
  BY <1>1, <1>3, FeltsAreReduced, PrimeAssumption DEF Felt
<1> QED
  BY <1>1, <1>2, <1>4

LEMMA ValuesAreFelts == \A x : Gamma(x) \subseteq Felt
BY DEF Gamma

LEMMA HullIsSound ==
  ASSUME NEW a \in Int, NEW b \in Int, NEW c \in Int, NEW d \in Int
  PROVE  /\ WellFormed(ReduceTo[Hull(<<a, b>>, <<c, d>>)])
         /\ \A v \in (a..b) \cup (c..d) : v % Prime \in Gamma(ReduceTo[Hull(<<a, b>>, <<c, d>>)])
<1> DEFINE l == Min({a, c})
           r == Max({b, d})
<1>1. Hull(<<a, b>>, <<c, d>>) = <<l, r>>
  BY DEF Hull
<1>2. l \in Int /\ r \in Int /\ l <= a /\ l <= c /\ b <= r /\ d <= r
  BY Pairs
<1> HIDE DEF l, r
<1>3. \A v \in (a..b) \cup (c..d) : v \in l..r
  BY <1>2
<1> QED
  BY <1>1, <1>2, <1>3, ReduceToIsSound

LEMMA JoinRangesIsSound ==
  ASSUME NEW x, NEW y, WellFormed(x), WellFormed(y),
         x.ty \in {"A", "B", "C", "F"}, y.ty \in {"A", "B", "C", "F"}
  PROVE  /\ WellFormed(JoinRanges(x, y))
         /\ Gamma(x) \subseteq Gamma(JoinRanges(x, y)) /\ Gamma(y) \subseteq Gamma(JoinRanges(x, y))
<1> DEFINE z == JoinRanges(x, y)
<1>1. CASE IsOneOf(x, y, SameSide)
  <2>1. x.ty \in {"A", "B", "C"} /\ y.ty \in {"A", "B", "C"}
    BY <1>1 DEF IsOneOf, SameSide
  <2> DEFINE l == Min({x.a, y.a})
             r == Max({x.b, y.b})
  <2>2. /\ l \in Felt /\ r \in Felt /\ l <= x.a /\ l <= y.a /\ x.b <= r /\ y.b <= r
        /\ l \in {x.a, y.a} /\ r \in {x.b, y.b}
    <3>1. /\ x.a \in Felt /\ y.a \in Felt /\ x.b \in Felt /\ y.b \in Felt
          /\ x.a \in Int /\ y.a \in Int /\ x.b \in Int /\ y.b \in Int
      BY <2>1, WithinBounds, Typed
    <3>2. l = (IF x.a <= y.a THEN x.a ELSE y.a) /\ r = (IF x.b >= y.b THEN x.b ELSE y.b)
      BY <3>1, Pairs
    <3> HIDE DEF l, r
    <3> QED
      BY <3>1, <3>2
  <2>3. z = Interval(y.ty, l, r)
    BY <1>1 DEF JoinRanges, IsOneOf, SameSide
  <2> HIDE DEF z, l, r
  <2>4. z = [ty |-> y.ty, a |-> l, b |-> r]
    BY <2>1, <2>2, <2>3, Named DEF Types
  <2>5. WellFormed(z)
    <3>1. z \in IntervalType
      BY <2>1, <2>2, <2>4 DEF IntervalType, Types
    <3>2. /\ Half \in Int /\ x.a \in Int /\ x.b \in Int /\ y.a \in Int /\ y.b \in Int
          /\ l \in Int /\ r \in Int
      BY <2>1, <2>2, WithinBounds, Typed, Halves
    <3>3. CASE y.ty = "A"
      BY <1>1, <2>2, <2>4, <3>1, <3>2, <3>3 DEF IsOneOf, SameSide, WellFormed
    <3>4. CASE y.ty = "B"
      BY <1>1, <2>2, <2>4, <3>1, <3>2, <3>4 DEF IsOneOf, SameSide, WellFormed
    <3>5. CASE y.ty = "C"
      BY <1>1, <2>2, <2>4, <3>1, <3>2, <3>5 DEF IsOneOf, SameSide, WellFormed
    <3> QED
      BY <2>1, <3>3, <3>4, <3>5
  <2>6. Gamma(z) = {v \in Felt : l <= v /\ v <= r}
    BY <2>1, <2>4 DEF Gamma
  <2>7. \A v \in Gamma(x) \cup Gamma(y) : v \in Felt /\ (v \in x.a..x.b \/ v \in y.a..y.b)
    BY <2>1, WithinBounds, Typed
  <2>8. x.a \in Int /\ x.b \in Int /\ y.a \in Int /\ y.b \in Int /\ l \in Int /\ r \in Int
    BY <2>1, <2>2, WithinBounds, Typed
  <2>9. Gamma(x) \cup Gamma(y) \subseteq Gamma(z)
    BY <2>2, <2>6, <2>7, <2>8
  <2> QED
    BY <2>5, <2>9 DEF z
<1>2. CASE IsOneOf(x, y, {<<"A", "B">>})
  <2>1. x.ty = "A" /\ y.ty = "B"
    BY <1>2 DEF IsOneOf
  <2> DEFINE h1 == Hull(First(y), First(x))
             h2 == Hull(Second(y), First(x))
  <2>2. /\ h1 = Hull(<<y.a, y.b>>, <<x.a, x.b>>)
        /\ h2 = Hull(<<y.a - Prime, y.b - Prime>>, <<x.a, x.b>>)
    BY <2>1, WithinBounds, Typed
  <2>3. z = ReduceTo[h1] \/ z = ReduceTo[h2]
    BY <2>1 DEF JoinRanges, IsOneOf, SameSide
  <2> HIDE DEF z, h1, h2
  <2>4. /\ WellFormed(ReduceTo[h1])
        /\ \A v \in (y.a..y.b) \cup (x.a..x.b) : v % Prime \in Gamma(ReduceTo[h1])
    BY <2>1, <2>2, WithinBounds, Typed, HullIsSound
  <2>5. /\ WellFormed(ReduceTo[h2])
        /\ \A v \in ((y.a - Prime)..(y.b - Prime)) \cup (x.a..x.b) : v % Prime \in Gamma(ReduceTo[h2])
    <3>1. y.a - Prime \in Int /\ y.b - Prime \in Int
      BY <2>1, WithinBounds, Typed, PrimeAssumption
    <3> QED
      BY <2>1, <2>2, <3>1, WithinBounds, Typed, HullIsSound
  <2>6. CASE z = ReduceTo[h1]
    BY <2>1, <2>4, <2>6, WithinBounds, Typed DEF z
  <2>7. CASE z = ReduceTo[h2]
    BY <2>1, <2>5, <2>7, WithinBounds, Typed DEF z
  <2> QED
    BY <2>3, <2>6, <2>7
<1>3. CASE IsOneOf(x, y, {<<"F", "F">>, <<"A", "F">>})
  <2>1. x.ty \in {"A", "F"} /\ y.ty = "F"
    BY <1>3 DEF IsOneOf
  <2>2. z = ReduceTo[Hull(First(x), First(y))]
    BY <1>3 DEF JoinRanges, IsOneOf, SameSide
  <2> DEFINE l == First(x)[1]
  <2>3. l \in Int /\ x.b \in Int /\ First(x) = <<l, x.b>>
    BY <2>1, WithinBounds, Typed, AcrossZero, PrimeAssumption
  <2>4. \A v \in Gamma(x) : /\ v % Prime = v /\ (v - Prime) % Prime = v
                            /\ v \in l..x.b \/ v - Prime \in l..x.b
    BY <2>1, WithinBounds, Typed, AcrossZero
  <2> HIDE DEF z, l
  <2>5. y.a - Prime \in Int /\ y.b \in Int /\ First(y) = <<y.a - Prime, y.b>>
    BY <2>1, AcrossZero, PrimeAssumption
  <2>6. /\ WellFormed(z)
        /\ \A v \in (l..x.b) \cup ((y.a - Prime)..y.b) : v % Prime \in Gamma(z)
    BY <2>2, <2>3, <2>5, HullIsSound
  <2>7. \A v \in Gamma(y) : /\ v % Prime = v /\ (v - Prime) % Prime = v
                            /\ \/ v \in (y.a - Prime)..y.b
                               \/ v - Prime \in (y.a - Prime)..y.b
    BY <2>1, AcrossZero
  <2> QED
    BY <2>4, <2>6, <2>7 DEF z
<1>4. CASE IsOneOf(x, y, {<<"B", "F">>})
  <2>1. x.ty = "B" /\ y.ty = "F"
    BY <1>4 DEF IsOneOf
  <2>2. z = ReduceTo[Hull(Second(x), First(y))]
    BY <2>1 DEF JoinRanges, IsOneOf, SameSide
  <2>3. /\ x.a - Prime \in Int /\ x.b - Prime \in Int /\ y.a - Prime \in Int /\ y.b \in Int
        /\ Second(x) = <<x.a - Prime, x.b - Prime>> /\ First(y) = <<y.a - Prime, y.b>>
    BY <2>1, WithinBounds, Typed, AcrossZero, PrimeAssumption
  <2> HIDE DEF z
  <2>4. /\ WellFormed(z)
        /\ \A v \in ((x.a - Prime)..(x.b - Prime)) \cup ((y.a - Prime)..y.b) : v % Prime \in Gamma(z)
    BY <2>2, <2>3, HullIsSound
  <2>5. \A v \in Gamma(x) : /\ (v - Prime) % Prime = v
                            /\ v - Prime \in (x.a - Prime)..(x.b - Prime)
    BY <2>1, WithinBounds, Typed
  <2>6. \A v \in Gamma(y) : /\ v % Prime = v /\ (v - Prime) % Prime = v
                            /\ \/ v \in (y.a - Prime)..y.b
                               \/ v - Prime \in (y.a - Prime)..y.b
    BY <2>1, AcrossZero
  <2> QED
    BY <2>4, <2>5, <2>6 DEF z
<1>5. CASE ~ (\/ IsOneOf(x, y, SameSide) \/ IsOneOf(x, y, {<<"A", "B">>})
              \/ IsOneOf(x, y, {<<"F", "F">>, <<"A", "F">>}) \/ IsOneOf(x, y, {<<"B", "F">>}))
  <2>1. z = Entire
    BY <1>5 DEF JoinRanges
  <2>2. Gamma(x) \subseteq Felt /\ Gamma(y) \subseteq Felt
    BY ValuesAreFelts
  <2> QED
    BY <2>1, <2>2, Names
<1> QED
  BY <1>1, <1>2, <1>3, <1>4, <1>5

(* Interval::join loses no value of its operands, except where a single value *)
(* is joined with a range across zero: its bounds are read as they stand.     *)
THEOREM JoinIsSound ==
  ASSUME NEW x, NEW y, WellFormed(x), WellFormed(y), ~ Misjoined(x, y), ~ Misjoined(y, x)
  PROVE  WellFormed(Join[<<x, y>>]) /\ Gamma(x) \cup Gamma(y) \subseteq Gamma(Join[<<x, y>>])
<1> DEFINE z == Join[<<x, y>>]
<1>1. z = IF "Entire" \in {x.ty, y.ty} THEN Entire
          ELSE IF x.ty = "Empty" THEN y
          ELSE IF y.ty = "Empty" THEN x
          ELSE IF "Degenerate" \in {x.ty, y.ty} THEN ReduceTo[Hull(ToUnreduced(x), ToUnreduced(y))]
          ELSE IF InOrder(x, y) THEN JoinRanges(x, y) ELSE JoinRanges(y, x)
  BY DEF Join, WellFormed
<1>2. x.ty \in Types /\ y.ty \in Types /\ Gamma(x) \subseteq Felt /\ Gamma(y) \subseteq Felt
  BY ValuesAreFelts DEF WellFormed, IntervalType
<1> HIDE DEF z
<1>3. CASE "Entire" \in {x.ty, y.ty}
  BY <1>1, <1>2, <1>3, Names DEF z
<1>4. CASE "Entire" \notin {x.ty, y.ty} /\ "Empty" \in {x.ty, y.ty}
  <2>1. \A w : WellFormed(w) /\ w.ty = "Empty" => Gamma(w) = {}
    BY DEF Gamma
  <2> QED
    BY <1>1, <1>4, <2>1 DEF z
<1>5. CASE {"Entire", "Empty"} \cap {x.ty, y.ty} = {} /\ "Degenerate" \in {x.ty, y.ty}
  <2>1. x.ty \in {"A", "B", "C", "Degenerate"} /\ y.ty \in {"A", "B", "C", "Degenerate"}
    BY <1>2, <1>5 DEF Types, Misjoined
  <2>2. z = ReduceTo[Hull(<<x.a, x.b>>, <<y.a, y.b>>)]
    BY <1>1, <1>5, <2>1, WithinBounds, Typed
  <2>3. x.a \in Int /\ x.b \in Int /\ y.a \in Int /\ y.b \in Int
    BY <2>1, WithinBounds, Typed
  <2>4. WellFormed(z) /\ \A v \in (x.a..x.b) \cup (y.a..y.b) : v % Prime \in Gamma(z)
    BY <2>2, <2>3, HullIsSound
  <2>5. /\ \A v \in Gamma(x) : v \in x.a..x.b /\ v % Prime = v
        /\ \A v \in Gamma(y) : v \in y.a..y.b /\ v % Prime = v
    BY <2>1, WithinBounds, Typed
  <2> QED
    BY <2>4, <2>5 DEF z
<1>6. CASE {"Entire", "Empty", "Degenerate"} \cap {x.ty, y.ty} = {}
  <2>1. x.ty \in {"A", "B", "C", "F"} /\ y.ty \in {"A", "B", "C", "F"}
    BY <1>2, <1>6 DEF Types
  <2>2. z = JoinRanges(x, y) \/ z = JoinRanges(y, x)
    BY <1>1, <2>1
  <2> QED
    BY <2>1, <2>2, JoinRangesIsSound DEF z
<1> QED
  BY <1>3, <1>4, <1>5, <1>6
-----------------------------------------------------------------------------
(* A range within one half of the field is not reduced to one across zero. *)
LEMMA OneSide ==
  ASSUME NEW l \in Int, NEW r \in Int, (0 <= l /\ r < Half) \/ (Half - Prime <= l /\ r < 0)
  PROVE  ReduceTo[<<l, r>>].ty # "F"
<1> DEFINE u == <<l, r>>
           p == l % Prime
           q == r % Prime
<1>1. ReduceTo[u] =
        IF IsNone(u) THEN Empty ELSE IF Width(u) >= Prime THEN Entire
        ELSE CASE p = q -> Degenerate(p)
               [] p < q /\ q < Half -> Interval("A", p, q)
               [] p < q /\ p < Half /\ q >= Half -> Interval("C", p, q)
               [] p < q /\ p >= Half -> Interval("B", p, q)
               [] p > q /\ p >= Half /\ q < Half -> Interval("F", p, q)
               [] OTHER -> Entire
  BY DEF ReduceTo
<1>2. p \in Felt /\ q \in Felt
  BY Division
<1>3. IsNone(u) <=> l > r
  BY DEF IsNone, Width
<1>4. CASE l > r
  BY <1>1, <1>3, <1>4, Names
<1>5. CASE 0 <= l /\ l <= r /\ r < Half
  <2>1. l \in Felt /\ r \in Felt
    BY <1>5, Halves, PrimeAssumption DEF Felt
  <2>2. p = l /\ q = r
    BY <2>1, FeltsAreReduced
  <2>3. ~ p > q /\ p \in Int /\ q \in Int
    BY <1>5, <2>2
  <2> HIDE DEF p, q
  <2> QED
    BY <1>1, <1>2, <2>3, Names, Named DEF Types
<1>6. CASE Half - Prime <= l /\ l <= r /\ r < 0
  <2>1. l + Prime \in Felt /\ r + Prime \in Felt
    BY <1>6, Halves, PrimeAssumption DEF Felt
  <2>2. (l + Prime) - Prime = l /\ (r + Prime) - Prime = r
    BY PrimeAssumption
  <2>3. p = l + Prime /\ q = r + Prime
    BY <2>1, <2>2, FeltsAreReduced
  <2>4. ~ p > q /\ p \in Int /\ q \in Int
    BY <1>6, <2>3, PrimeAssumption
  <2> HIDE DEF p, q
  <2> QED
    BY <1>1, <1>2, <2>4, Names, Named DEF Types
<1> QED
  BY <1>4, <1>5, <1>6, Halves, PrimeAssumption

LEMMA OverlapIsSound ==
  ASSUME NEW a \in Int, NEW b \in Int, NEW c \in Int, NEW d \in Int
  PROVE  /\ WellFormed(ReduceTo[Overlap(<<a, b>>, <<c, d>>)])
         /\ \A v \in (a..b) \cap (c..d) : v % Prime \in Gamma(ReduceTo[Overlap(<<a, b>>, <<c, d>>)])
<1> DEFINE l == Max({a, c})
           r == Min({b, d})
<1>1. Overlap(<<a, b>>, <<c, d>>) = <<l, r>>
  BY DEF Overlap
<1>2. l = (IF a >= c THEN a ELSE c) /\ r = (IF b <= d THEN b ELSE d)
  BY Pairs
<1> HIDE DEF l, r
<1>3. l \in Int /\ r \in Int /\ \A v \in (a..b) \cap (c..d) : v \in l..r
  BY <1>2
<1> QED
  BY <1>1, <1>3, ReduceToIsSound

(* A range that is intersected: a single value stands as a range of type A. *)
Ranged(x) == x \in IntervalType /\ x.ty \in {"A", "B", "C", "F"} /\
             (WellFormed(x) \/ (x.ty = "A" /\ x.a = x.b))
Away(x, y) == x.ty = "A" /\ x.a >= Half /\ y.ty \in {"B", "F"}

LEMMA IntersectSameSide ==
  ASSUME NEW x, NEW y, Ranged(x), Ranged(y), IsOneOf(x, y, SameSide)
  PROVE  /\ WellFormed(IntersectRanges(x, y))
         /\ Gamma(IntersectRanges(x, y)) = Gamma(x) \cap Gamma(y)
<1> DEFINE z == IntersectRanges(x, y)
           l == Max({x.a, y.a})
           r == Min({x.b, y.b})
<1>1. x.ty \in {"A", "B", "C"} /\ y.ty \in {"A", "B", "C"}
  BY DEF IsOneOf, SameSide
<1>2. /\ x.a \in Felt /\ y.a \in Felt /\ x.b \in Felt /\ y.b \in Felt
      /\ x.a \in Int /\ y.a \in Int /\ x.b \in Int /\ y.b \in Int
  BY <1>1, WithinBounds DEF Ranged
<1>3. l = (IF x.a >= y.a THEN x.a ELSE y.a) /\ r = (IF x.b <= y.b THEN x.b ELSE y.b)
  BY <1>2, Pairs
<1>4. z = IF l < r THEN Interval(x.ty, l, r) ELSE IF l = r THEN Degenerate(l) ELSE Empty
  BY DEF IntersectRanges, IsOneOf, SameSide
<1> SUFFICES WellFormed(z) /\ Gamma(z) = Gamma(x) \cap Gamma(y)
  OBVIOUS
<1> HIDE DEF z, l, r
<1>5. l \in Felt /\ r \in Felt /\ l \in Int /\ r \in Int
  BY <1>2, <1>3
<1>6. Gamma(x) \cap Gamma(y) = {v \in Felt : l <= v /\ v <= r}
  <2>1. /\ Gamma(x) = {v \in Felt : x.a <= v /\ v <= x.b}
        /\ Gamma(y) = {v \in Felt : y.a <= v /\ v <= y.b}
    BY <1>1 DEF Gamma
  <2>2. \A v \in Felt : v \in Int
    BY FeltsAreReduced
  <2> QED
    BY <1>2, <1>3, <2>1, <2>2
<1>7. CASE l < r
  <2>1. z = [ty |-> x.ty, a |-> l, b |-> r]
    BY <1>1, <1>4, <1>5, <1>7, Named DEF Types
  <2>2. Gamma(z) = {v \in Felt : l <= v /\ v <= r}
    BY <1>1, <2>1 DEF Gamma
  <2>3. z \in IntervalType
    BY <1>1, <1>5, <2>1 DEF IntervalType, Types
  <2>4. WellFormed(z)
    <3>1. CASE x.ty = "A"
      <4>1. WellFormed(x)
        BY <1>2, <1>3, <1>7, <3>1 DEF Ranged
      <4> QED
        BY <1>2, <1>3, <1>7, <2>1, <2>3, <3>1, <4>1, Halves DEF WellFormed
    <3>2. CASE x.ty = "B"
      BY <1>2, <1>3, <1>7, <2>1, <2>3, <3>2, Halves DEF WellFormed, Ranged
    <3>3. CASE x.ty = "C"
      <4>1. y.ty = "C"
        BY <3>3 DEF IsOneOf, SameSide
      <4> QED
        BY <1>2, <1>3, <1>7, <2>1, <2>3, <3>3, <4>1, Halves DEF WellFormed, Ranged
    <3> QED
      BY <1>1, <3>1, <3>2, <3>3
  <2> QED
    BY <1>6, <2>2, <2>4
<1>8. CASE l = r
  <2>1. z = Degenerate(l)
    BY <1>4, <1>5, <1>8
  <2>2. {v \in Felt : l <= v /\ v <= r} = {l}
    BY <1>5, <1>8 DEF Felt
  <2> QED
    BY <1>5, <1>6, <2>1, <2>2, Names
<1>9. CASE l > r
  <2>1. z = Empty
    BY <1>4, <1>5, <1>9
  <2>2. {v \in Felt : l <= v /\ v <= r} = {}
    BY <1>5, <1>9 DEF Felt
  <2> QED
    BY <1>6, <2>1, <2>2, Names
<1> QED
  BY <1>5, <1>7, <1>8, <1>9
(* Reducing a range that takes no more than each half of the field adds      *)
(* nothing to it.                                                            *)
LEMMA ReduceToIsExact ==
  ASSUME NEW l \in Int, NEW r \in Int, Half - Prime <= l, r < Half
  PROVE  \A v \in Gamma(ReduceTo[<<l, r>>]) : v \in Felt /\ (v \in l..r \/ v - Prime \in l..r)
<1> DEFINE u == <<l, r>>
           x == ReduceTo[u]
           p == l % Prime
           q == r % Prime
<1>1. x = IF IsNone(u) THEN Empty ELSE IF Width(u) >= Prime THEN Entire
          ELSE CASE p = q -> Degenerate(p)
                 [] p < q /\ q < Half -> Interval("A", p, q)
                 [] p < q /\ p < Half /\ q >= Half -> Interval("C", p, q)
                 [] p < q /\ p >= Half -> Interval("B", p, q)
                 [] p > q /\ p >= Half /\ q < Half -> Interval("F", p, q)
                 [] OTHER -> Entire
  BY DEF ReduceTo
<1>2. p \in Felt /\ q \in Felt /\ p \in Int /\ q \in Int /\ Half \in Int
  BY Division, FeltsAreReduced, Halves
<1>3. Width(u) = (IF l > r THEN 0 ELSE (r - l) + 1) /\ (IsNone(u) <=> l > r)
  BY DEF Width, IsNone
<1>4. ASSUME NEW v \in Int, v \in l..r PROVE v % Prime = IF v < 0 THEN v + Prime ELSE v
  <2>1. CASE v < 0
    <3>1. v + Prime \in Felt /\ (v + Prime) - Prime = v
      BY <1>4, <2>1, Halves, PrimeAssumption DEF Felt
    <3> QED
      BY <2>1, <3>1, FeltsAreReduced
  <2>2. CASE v >= 0
    <3>1. v \in Felt
      BY <1>4, <2>2, Halves, PrimeAssumption DEF Felt
    <3>2. ~ v < 0
      BY <2>2
    <3> QED
      BY <3>1, <3>2, FeltsAreReduced
  <2> QED
    BY <2>1, <2>2
<1>5. l <= r => /\ p = IF l < 0 THEN l + Prime ELSE l
                /\ q = IF r < 0 THEN r + Prime ELSE r
  BY <1>4
<1> HIDE DEF x, p, q
<1>6. SUFFICES ASSUME NEW v \in Gamma(x) PROVE v \in l..r \/ v - Prime \in l..r
  BY ValuesAreFelts DEF x
<1>7. v \in Felt /\ v \in Int
  BY <1>6, ValuesAreFelts, FeltsAreReduced
<1>8. l <= r
  <2>1. CASE l > r
    BY <1>1, <1>3, <1>6, <2>1, Names
  <2> QED
    BY <2>1
<1>9. CASE (r - l) + 1 >= Prime
  BY <1>7, <1>8, <1>9, Halves, PrimeAssumption DEF Felt
<1>10. CASE (r - l) + 1 < Prime
  <2>1. x = CASE p = q -> Degenerate(p)
              [] p < q /\ q < Half -> Interval("A", p, q)
              [] p < q /\ p < Half /\ q >= Half -> Interval("C", p, q)
              [] p < q /\ p >= Half -> Interval("B", p, q)
              [] p > q /\ p >= Half /\ q < Half -> Interval("F", p, q)
              [] OTHER -> Entire
    <3>1. ~ IsNone(u) /\ ~ Width(u) >= Prime
      BY <1>3, <1>8, <1>10, PrimeAssumption
    <3> QED
      BY <1>1, <3>1
  <2>2. CASE p = q
    <3>1. v = p
      BY <1>2, <1>6, <2>1, <2>2, Names
    <3> QED
      BY <1>2, <1>5, <1>8, <1>10, <2>2, <3>1, PrimeAssumption
  <2>3. CASE p < q
    <3>1. (l >= 0 \/ r < 0) /\ (q < Half \/ p >= Half)
      BY <1>2, <1>5, <1>8, <1>10, <2>3, Halves, PrimeAssumption
    <3>2. x = Interval("A", p, q) \/ x = Interval("B", p, q)
      BY <1>2, <2>1, <2>3, <3>1
    <3>3. p <= v /\ v <= q
      BY <1>2, <1>6, <3>2, Named DEF Gamma, Types
    <3> QED
      BY <1>2, <1>5, <1>7, <1>8, <3>1, <3>3, PrimeAssumption
  <2>4. CASE p > q
    <3>1. p >= Half /\ q < Half /\ l < 0 /\ r >= 0
      BY <1>2, <1>5, <1>8, <1>10, <2>4, Halves, PrimeAssumption
    <3>2. x = Interval("F", p, q)
      BY <1>2, <2>1, <2>4, <3>1
    <3>3. v >= p \/ v <= q
      BY <1>2, <1>6, <3>2, Named DEF Gamma, Types
    <3> QED
      BY <1>2, <1>5, <1>7, <1>8, <3>1, <3>3, PrimeAssumption DEF Felt
  <2> QED
    BY <1>2, <2>2, <2>3, <2>4
<1> QED
  BY <1>8, <1>9, <1>10, PrimeAssumption
(* The ranges across zero are compared as signed ranges. *)
LEMMA OverlapIsExact ==
  ASSUME NEW a \in Int, NEW b \in Int, NEW c \in Int, NEW d \in Int,
         Half - Prime <= a \/ Half - Prime <= c, b < Half \/ d < Half
  PROVE  \A v \in Gamma(ReduceTo[Overlap(<<a, b>>, <<c, d>>)]) :
           v \in Felt /\ (v \in (a..b) \cap (c..d) \/ v - Prime \in (a..b) \cap (c..d))
<1> DEFINE l == Max({a, c})
           r == Min({b, d})
<1>1. Overlap(<<a, b>>, <<c, d>>) = <<l, r>>
  BY DEF Overlap
<1>2. l = (IF a >= c THEN a ELSE c) /\ r = (IF b <= d THEN b ELSE d)
  BY Pairs
<1> HIDE DEF l, r
<1>3. /\ l \in Int /\ r \in Int /\ Half - Prime <= l /\ r < Half
      /\ \A v \in l..r : v \in (a..b) \cap (c..d)
  BY <1>2, Halves, PrimeAssumption
<1> QED
  BY <1>1, <1>3, ReduceToIsExact

LEMMA IntersectAcross ==
  ASSUME NEW x, NEW y, Ranged(x), Ranged(y), y.ty = "F", x.ty \in {"A", "B", "F"}
  PROVE  /\ WellFormed(IntersectRanges(x, y))
         /\ Gamma(IntersectRanges(x, y)) \subseteq Gamma(x) \cap Gamma(y)
         /\ ~ Away(x, y) => Gamma(IntersectRanges(x, y)) = Gamma(x) \cap Gamma(y)
<1> DEFINE z == IntersectRanges(x, y)
           u == IF x.ty = "B" THEN Second(x) ELSE First(x)
           a == u[1]
           b == u[2]
<1>1. WellFormed(y) /\ x \in IntervalType
  BY DEF Ranged
<1>2. First(y) = <<y.a - Prime, y.b>> /\ y.a - Prime \in Int /\ y.b \in Int /\ y.a \in Int
  BY <1>1, AcrossZero, PrimeAssumption
<1>3. /\ Half - Prime <= y.a - Prime /\ y.b < Half /\ y.a >= Half /\ Half \in Int
      /\ 0 <= y.b /\ y.a < Prime
  <2>1. y.a \in Felt /\ y.b \in Felt
    BY <1>1, AcrossZero
  <2> QED
    BY <1>1, <1>2, <2>1, Halves, PrimeAssumption DEF WellFormed, Felt
<1>4. z = ReduceTo[Overlap(u, First(y))]
  BY DEF IntersectRanges, IsOneOf, SameSide
<1>5. u = <<a, b>> /\ a \in Int /\ b \in Int
  <2>1. CASE x.ty = "F"
    BY <1>1, <2>1, AcrossZero, PrimeAssumption DEF Ranged
  <2>2. CASE x.ty \in {"A", "B"}
    <3>1. x.a - Prime \in Int /\ x.b - Prime \in Int
      BY <1>1, <2>2, WithinBounds, PrimeAssumption
    <3> QED
      BY <1>1, <2>2, <3>1, WithinBounds
  <2> QED
    BY <2>1, <2>2
<1> SUFFICES /\ WellFormed(z) /\ Gamma(z) \subseteq Gamma(x) \cap Gamma(y)
             /\ ~ Away(x, y) => Gamma(x) \cap Gamma(y) \subseteq Gamma(z)
  OBVIOUS
<1> DEFINE W == (a..b) \cap ((y.a - Prime)..y.b)
<1>6. ASSUME NEW v \in Felt
      PROVE  /\ v \in W \/ v - Prime \in W => v \in Gamma(x) /\ v \in Gamma(y)
             /\ ~ Away(x, y) /\ v \in Gamma(x) /\ v \in Gamma(y) => v \in W \/ v - Prime \in W
  <2>1. v \in Int /\ 0 <= v /\ v < Prime /\ v - Prime \in Int
    BY FeltsAreReduced, PrimeAssumption DEF Felt
  <2>2. v \in Gamma(y) <=> v >= y.a \/ v <= y.b
    BY DEF Gamma
  <2>3. /\ v \in W <=> a <= v /\ v <= b /\ y.a - Prime <= v /\ v <= y.b
        /\ v - Prime \in W <=> a <= v - Prime /\ v - Prime <= b /\ y.a <= v /\ v - Prime <= y.b
    BY <1>2, <1>5, <2>1, PrimeAssumption
  <2>4. CASE x.ty = "F"
    <3>1. /\ a = x.a - Prime /\ b = x.b /\ x.a \in Int /\ x.b \in Int /\ x.a >= Half /\ x.b < Half
          /\ x.a \in Felt /\ x.b \in Felt
          /\ v \in Gamma(x) <=> v >= x.a \/ v <= x.b
      BY <1>1, <2>4, AcrossZero DEF Ranged, WellFormed, Gamma
    <3>2. 0 <= x.b /\ x.a < Prime
      BY <3>1, PrimeAssumption DEF Felt
    <3> HIDE DEF W, a, b
    <3>5. v \in W => v \in Gamma(x) /\ v \in Gamma(y)
      BY <1>2, <1>3, <2>1, <2>2, <2>3, <3>1, <3>2, PrimeAssumption
    <3>6. v - Prime \in W => v \in Gamma(x) /\ v \in Gamma(y)
      BY <1>2, <1>3, <2>1, <2>2, <2>3, <3>1, <3>2, PrimeAssumption
    <3>7. ~ Away(x, y) /\ v \in Gamma(x) /\ v \in Gamma(y) => v \in W \/ v - Prime \in W
      BY <1>2, <1>3, <2>1, <2>2, <2>3, <3>1, <3>2, PrimeAssumption
    <3> QED
      BY <3>5, <3>6, <3>7
  <2>5. CASE x.ty = "A"
    <3>1. x.a \in Felt /\ x.a \in Int /\ x.b \in Int /\ a = x.a /\ b = x.b
      BY <1>1, <2>5, WithinBounds
    <3>2. 0 <= x.a
      BY <3>1, PrimeAssumption DEF Felt
    <3>3. v \in Gamma(x) <=> x.a <= v /\ v <= x.b
      BY <2>5 DEF Gamma
    <3>4. ~ Away(x, y) => x.b < Half
      BY <1>3, <2>5, <3>1 DEF Away, Ranged, WellFormed
    <3> HIDE DEF W, a, b
    <3>5. v \in W => v \in Gamma(x) /\ v \in Gamma(y)
      BY <1>2, <1>3, <2>1, <2>2, <2>3, <3>1, <3>2, <3>3, <3>4, PrimeAssumption
    <3>6. v - Prime \in W => v \in Gamma(x) /\ v \in Gamma(y)
      BY <1>2, <1>3, <2>1, <2>2, <2>3, <3>1, <3>2, <3>3, <3>4, PrimeAssumption
    <3>7. ~ Away(x, y) /\ v \in Gamma(x) /\ v \in Gamma(y) => v \in W \/ v - Prime \in W
      BY <1>2, <1>3, <2>1, <2>2, <2>3, <3>1, <3>2, <3>3, <3>4, PrimeAssumption
    <3> QED
      BY <3>5, <3>6, <3>7
  <2>6. CASE x.ty = "B"
    <3>1. /\ x.a \in Felt /\ x.b \in Felt /\ x.a \in Int /\ x.b \in Int
          /\ a = x.a - Prime /\ b = x.b - Prime
      BY <1>1, <2>6, WithinBounds
    <3>2. Half <= x.a /\ x.b < Prime
      BY <2>6, <3>1, PrimeAssumption DEF Ranged, WellFormed, Felt
    <3>3. v \in Gamma(x) <=> x.a <= v /\ v <= x.b
      BY <2>6 DEF Gamma
    <3> HIDE DEF W, a, b
    <3>5. v \in W => v \in Gamma(x) /\ v \in Gamma(y)
      BY <1>2, <1>3, <2>1, <2>2, <2>3, <3>1, <3>2, <3>3, PrimeAssumption
    <3>6. v - Prime \in W => v \in Gamma(x) /\ v \in Gamma(y)
      BY <1>2, <1>3, <2>1, <2>2, <2>3, <3>1, <3>2, <3>3, PrimeAssumption
    <3>7. ~ Away(x, y) /\ v \in Gamma(x) /\ v \in Gamma(y) => v \in W \/ v - Prime \in W
      BY <1>2, <1>3, <2>1, <2>2, <2>3, <3>1, <3>2, <3>3, PrimeAssumption
    <3> QED
      BY <3>5, <3>6, <3>7
  <2> QED
    BY <2>4, <2>5, <2>6
<1>7. \A v \in Felt : v % Prime = v /\ (v - Prime) % Prime = v
  BY FeltsAreReduced
<1>8. Gamma(x) \subseteq Felt /\ Gamma(y) \subseteq Felt
  BY ValuesAreFelts
<1> HIDE DEF z, u, a, b
<1>9. WellFormed(z) /\ \A v \in W : v % Prime \in Gamma(z)
  BY <1>2, <1>4, <1>5, OverlapIsSound
<1>10. \A v \in Gamma(z) : v \in Felt /\ (v \in W \/ v - Prime \in W)
  BY <1>2, <1>3, <1>4, <1>5, OverlapIsExact
<1> HIDE DEF W
<1> QED
  BY <1>6, <1>7, <1>8, <1>9, <1>10
(* Between "C" and "F" there may be two ranges, which are joined. *)
LEMMA IntersectBothEnds ==
  ASSUME NEW x, NEW y, WellFormed(x), WellFormed(y), x.ty = "C", y.ty = "F"
  PROVE  /\ WellFormed(IntersectRanges(x, y))
         /\ Gamma(x) \cap Gamma(y) \subseteq Gamma(IntersectRanges(x, y))
<1> DEFINE z == IntersectRanges(x, y)
           opt1 == ReduceTo[Overlap(First(x), First(y))]
           opt2 == ReduceTo[Overlap(Second(x), First(y))]
<1>1. z = IF opt1 = Empty THEN opt2 ELSE IF opt2 = Empty THEN opt1 ELSE Join[<<opt1, opt2>>]
  BY DEF IntersectRanges, IsOneOf, SameSide
<1>2. /\ x.a \in Felt /\ x.b \in Felt /\ x.a \in Int /\ x.b \in Int
      /\ First(x) = <<x.a, x.b>> /\ Second(x) = <<x.a - Prime, x.b - Prime>>
      /\ x.a - Prime \in Int /\ x.b - Prime \in Int
  BY WithinBounds, Typed, PrimeAssumption
<1>3. /\ y.a \in Felt /\ y.b \in Felt /\ y.a \in Int /\ y.b \in Int
      /\ First(y) = <<y.a - Prime, y.b>> /\ y.a - Prime \in Int
  BY AcrossZero, PrimeAssumption
<1>4. /\ x.a < Half /\ Half <= x.b /\ Half <= y.a /\ y.b < Half /\ Half \in Int
      /\ 0 <= x.a /\ x.b < Prime /\ 0 <= y.b /\ y.a < Prime
  BY <1>2, <1>3, Halves, PrimeAssumption DEF WellFormed, Felt
<1>5. /\ WellFormed(opt1) /\ WellFormed(opt2)
      /\ \A v \in (x.a..x.b) \cap ((y.a - Prime)..y.b) : v % Prime \in Gamma(opt1)
      /\ \A v \in ((x.a - Prime)..(x.b - Prime)) \cap ((y.a - Prime)..y.b) : v % Prime \in Gamma(opt2)
  BY <1>2, <1>3, OverlapIsSound
<1>6. opt1.ty # "F"
  <2>1. Overlap(First(x), First(y)) = <<Max({x.a, y.a - Prime}), Min({x.b, y.b})>>
    BY <1>2, <1>3 DEF Overlap
  <2>2. Max({x.a, y.a - Prime}) = x.a
    BY <1>2, <1>3, <1>4, Pairs, PrimeAssumption
  <2>3. Min({x.b, y.b}) = y.b
    <3>1. Min({x.b, y.b}) = IF x.b <= y.b THEN x.b ELSE y.b
      BY <1>2, <1>3, Pairs
    <3>2. ~ x.b <= y.b
      BY <1>2, <1>3, <1>4
    <3> QED
      BY <3>1, <3>2
  <2> QED
    BY <1>2, <1>3, <1>4, <2>1, <2>2, <2>3, OneSide
<1>7. opt2.ty # "F"
  <2> DEFINE l == Max({x.a - Prime, y.a - Prime})
             r == Min({x.b - Prime, y.b})
  <2>1. Overlap(Second(x), First(y)) = <<l, r>>
    BY <1>2, <1>3 DEF Overlap
  <2>2. l \in Int /\ Half - Prime <= l
    BY <1>2, <1>3, <1>4, Pairs, PrimeAssumption
  <2>3. r \in Int /\ r < 0
    <3>1. r = IF x.b - Prime <= y.b THEN x.b - Prime ELSE y.b
      BY <1>2, <1>3, Pairs
    <3>2. x.b - Prime < 0 /\ x.b - Prime <= y.b
      BY <1>2, <1>3, <1>4, PrimeAssumption
    <3> QED
      BY <1>2, <3>1, <3>2
  <2> HIDE DEF l, r
  <2> QED
    BY <2>1, <2>2, <2>3, OneSide
<1>8. ASSUME NEW v \in Gamma(x) \cap Gamma(y) PROVE v \in Gamma(opt1) \/ v \in Gamma(opt2)
  <2>1. /\ v \in Felt /\ v % Prime = v /\ (v - Prime) % Prime = v
        /\ v \in x.a..x.b /\ v - Prime \in (x.a - Prime)..(x.b - Prime)
        /\ v \in (y.a - Prime)..y.b \/ v - Prime \in (y.a - Prime)..y.b
    BY <1>8, WithinBounds, Typed, AcrossZero
  <2> QED
    BY <1>5, <2>1
<1>9. /\ WellFormed(Join[<<opt1, opt2>>])
      /\ Gamma(opt1) \cup Gamma(opt2) \subseteq Gamma(Join[<<opt1, opt2>>])
  BY <1>5, <1>6, <1>7, JoinIsSound DEF Misjoined
<1> SUFFICES WellFormed(z) /\ Gamma(x) \cap Gamma(y) \subseteq Gamma(z)
  OBVIOUS
<1> HIDE DEF z, opt1, opt2
<1> QED
  BY <1>1, <1>5, <1>8, <1>9, Names

LEMMA IntersectRangesIsSound ==
  ASSUME NEW x, NEW y, Ranged(x), Ranged(y), InOrder(x, y)
  PROVE  /\ WellFormed(IntersectRanges(x, y))
         /\ ~ Away(x, y) => Gamma(x) \cap Gamma(y) \subseteq Gamma(IntersectRanges(x, y))
         /\ ~ (x.ty = "C" /\ y.ty = "F") => Gamma(IntersectRanges(x, y)) \subseteq Gamma(x) \cap Gamma(y)
<1>1. CASE IsOneOf(x, y, SameSide)
  BY <1>1, IntersectSameSide
<1>2. CASE x.ty = "A" /\ y.ty = "B"
  <2>1. IntersectRanges(x, y) = Empty
    BY <1>2 DEF IntersectRanges, IsOneOf, SameSide
  <2>2. ~ Away(x, y) => Gamma(x) \cap Gamma(y) = {}
    <3>1. x.a \in Int /\ x.b \in Int /\ y.a \in Int /\ y.b \in Int /\ Half \in Int
      BY <1>2, WithinBounds, Halves DEF Ranged
    <3>2. /\ \A v \in Gamma(x) : v \in x.a..x.b
          /\ \A v \in Gamma(y) : v \in y.a..y.b
      BY <1>2, WithinBounds DEF Ranged
    <3>3. Half <= y.a /\ (~ Away(x, y) => x.b < Half)
      BY <1>2, <3>1 DEF Ranged, WellFormed, Away
    <3> QED
      BY <3>1, <3>2, <3>3
  <2> QED
    BY <2>1, <2>2, Names
<1>3. CASE y.ty = "F" /\ x.ty \in {"A", "B", "F"}
  BY <1>3, IntersectAcross
<1>4. CASE x.ty = "C" /\ y.ty = "F"
  BY <1>4, IntersectBothEnds DEF Ranged
<1> QED
  BY <1>1, <1>2, <1>3, <1>4 DEF InOrder, IsOneOf, SameSide

LEMMA SomeOrder ==
  ASSUME NEW x, NEW y, x.ty \in {"A", "B", "C", "F"}, y.ty \in {"A", "B", "C", "F"}
  PROVE  InOrder(x, y) \/ InOrder(y, x)
BY DEF InOrder, IsOneOf, SameSide

LEMMA PointAsRange ==
  ASSUME NEW x, WellFormed(x), x.ty \in {"A", "B", "C", "F", "Degenerate"}
  PROVE  /\ Ranged(AsRange(x)) /\ Gamma(AsRange(x)) = Gamma(x)
         /\ AsRange(x).ty = IF x.ty = "Degenerate" THEN "A" ELSE x.ty
         /\ \A y : Away(AsRange(x), AsRange(y)) /\ WellFormed(y) => FarPoint(x, y)
<1>1. CASE x.ty = "Degenerate"
  <2>1. x.a \in Felt /\ x.b = x.a /\ x.a \in Int
    BY <1>1, WithinBounds, Typed DEF WellFormed
  <2>2. AsRange(x) = [ty |-> "A", a |-> x.a, b |-> x.a]
    BY <1>1, <2>1, Named DEF AsRange, Types
  <2>3. Ranged(AsRange(x))
    BY <2>1, <2>2 DEF Ranged, IntervalType, Types
  <2>4. /\ Gamma(AsRange(x)) = {v \in Felt : x.a <= v /\ v <= x.a}
        /\ Gamma(x) = {v \in Felt : x.a <= v /\ v <= x.b}
    BY <1>1, <2>2 DEF Gamma
  <2>5. \A y : AsRange(y).ty \in {"B", "F"} => y.ty = AsRange(y).ty
    BY DEF AsRange, Interval
  <2> QED
    BY <1>1, <2>1, <2>2, <2>3, <2>4, <2>5 DEF Away, FarPoint
<1>2. CASE x.ty # "Degenerate"
  <2>1. AsRange(x) = x
    BY <1>2 DEF AsRange
  <2>2. Ranged(x)
    BY <1>2, Typed DEF Ranged
  <2>3. x.ty = "A" => x.a < Half /\ x.a \in Int /\ Half \in Int
    <3>1. CASE x.ty = "A"
      BY <3>1, WithinBounds, Typed, Halves DEF WellFormed
    <3> QED
      BY <3>1
  <2> QED
    BY <1>2, <2>1, <2>2, <2>3 DEF Away
<1> QED
  BY <1>1, <1>2

-----------------------------------------------------------------------------
LEMMA IntersectCases ==
  ASSUME NEW x, NEW y, WellFormed(x), WellFormed(y)
  PROVE  LET z == Intersect[<<x, y>>]
         IN  /\ WellFormed(z)
             /\ ~ FarPoint(x, y) /\ ~ FarPoint(y, x) => Gamma(x) \cap Gamma(y) \subseteq Gamma(z)
             /\ {x.ty, y.ty} # {"C", "F"} => Gamma(z) \subseteq Gamma(x) \cap Gamma(y)
<1> DEFINE z == Intersect[<<x, y>>]
           l == AsRange(x)
           r == AsRange(y)
<1>1. z = IF x = y THEN x
          ELSE IF "Empty" \in {x.ty, y.ty} THEN Empty
          ELSE IF x.ty = "Entire" THEN y
          ELSE IF y.ty = "Entire" THEN x
          ELSE IF x.ty = "Degenerate" /\ y.ty = "Degenerate" THEN Empty
          ELSE IF InOrder(l, r) THEN IntersectRanges(l, r) ELSE IntersectRanges(r, l)
  BY DEF Intersect, WellFormed
<1>2. x.ty \in Types /\ y.ty \in Types
  BY Typed
<1>3. /\ x.ty = "Empty" => Gamma(x) = {}
      /\ y.ty = "Empty" => Gamma(y) = {}
      /\ x.ty = "Entire" => Gamma(x) = Felt
      /\ y.ty = "Entire" => Gamma(y) = Felt
      /\ Gamma(x) \subseteq Felt /\ Gamma(y) \subseteq Felt
  BY ValuesAreFelts DEF Gamma
<1> SUFFICES /\ WellFormed(z)
             /\ ~ FarPoint(x, y) /\ ~ FarPoint(y, x) => Gamma(x) \cap Gamma(y) \subseteq Gamma(z)
             /\ {x.ty, y.ty} # {"C", "F"} => Gamma(z) \subseteq Gamma(x) \cap Gamma(y)
  OBVIOUS
<1>4. CASE x = y \/ x.ty \in {"Empty", "Entire"} \/ y.ty \in {"Empty", "Entire"}
  <2> HIDE DEF z
  <2>1. CASE x = y
    BY <1>1, <2>1
  <2>2. CASE x # y /\ "Empty" \in {x.ty, y.ty}
    <3>1. z = Empty
      BY <1>1, <2>2
    <3>2. WellFormed(z) /\ Gamma(z) = {}
      BY <3>1, Names
    <3>3. Gamma(x) = {} \/ Gamma(y) = {}
      BY <1>3, <2>2
    <3> QED
      BY <3>2, <3>3
  <2>3. CASE x # y /\ "Empty" \notin {x.ty, y.ty} /\ "Entire" \in {x.ty, y.ty}
    <3>1. (z = y /\ x.ty = "Entire") \/ (z = x /\ y.ty = "Entire")
      BY <1>1, <2>3
    <3> QED
      BY <1>3, <3>1
  <2> QED
    BY <1>4, <2>1, <2>2, <2>3
<1>5. CASE x # y /\ x.ty = "Degenerate" /\ y.ty = "Degenerate"
  <2>1. z = Empty
    BY <1>1, <1>5
  <2>2. Gamma(x) \cap Gamma(y) = {}
    <3>1. x.a \in Felt /\ y.a \in Felt /\ x.a = x.b /\ y.a = y.b
      BY <1>5, WithinBounds, Typed DEF WellFormed
    <3>2. x = Degenerate(x.a) /\ y = Degenerate(y.a)
      BY <1>5, <3>1, Names, Typed DEF IntervalType
    <3>3. Gamma(x) = {x.a} /\ Gamma(y) = {y.a}
      BY <3>1, <3>2, Names
    <3> QED
      BY <1>5, <3>2, <3>3
  <2> QED
    BY <2>1, <2>2, Names
<1>6. CASE x # y /\ x.ty \notin {"Empty", "Entire"} /\ y.ty \notin {"Empty", "Entire"}
           /\ ~ (x.ty = "Degenerate" /\ y.ty = "Degenerate")
  <2>1. x.ty \in {"A", "B", "C", "F", "Degenerate"} /\ y.ty \in {"A", "B", "C", "F", "Degenerate"}
    BY <1>2, <1>6 DEF Types
  <2>2. /\ Ranged(l) /\ Gamma(l) = Gamma(x) /\ l.ty = IF x.ty = "Degenerate" THEN "A" ELSE x.ty
        /\ Ranged(r) /\ Gamma(r) = Gamma(y) /\ r.ty = IF y.ty = "Degenerate" THEN "A" ELSE y.ty
        /\ Away(l, r) => FarPoint(x, y)
        /\ Away(r, l) => FarPoint(y, x)
    BY <2>1, PointAsRange
  <2>3. z = IF InOrder(l, r) THEN IntersectRanges(l, r) ELSE IntersectRanges(r, l)
    BY <1>1, <1>6, <2>1
  <2>4. InOrder(l, r) \/ InOrder(r, l)
    BY <2>2, SomeOrder DEF Ranged
  <2>5. {x.ty, y.ty} # {"C", "F"} => ~ (l.ty = "C" /\ r.ty = "F") /\ ~ (r.ty = "C" /\ l.ty = "F")
    BY <2>1, <2>2
  <2> HIDE DEF z, l, r
  <2>6. CASE InOrder(l, r)
    <3>1. /\ WellFormed(z)
          /\ ~ Away(l, r) => Gamma(l) \cap Gamma(r) \subseteq Gamma(z)
          /\ ~ (l.ty = "C" /\ r.ty = "F") => Gamma(z) \subseteq Gamma(l) \cap Gamma(r)
      BY <2>2, <2>3, <2>6, IntersectRangesIsSound
    <3> QED
      BY <2>2, <2>5, <3>1
  <2>7. CASE ~ InOrder(l, r)
    <3>1. /\ WellFormed(z)
          /\ ~ Away(r, l) => Gamma(r) \cap Gamma(l) \subseteq Gamma(z)
          /\ ~ (r.ty = "C" /\ l.ty = "F") => Gamma(z) \subseteq Gamma(r) \cap Gamma(l)
      BY <2>2, <2>3, <2>4, <2>7, IntersectRangesIsSound
    <3> QED
      BY <2>2, <2>5, <3>1
  <2> QED
    BY <2>6, <2>7
<1> QED
  BY <1>4, <1>5, <1>6

(* Interval::intersect loses no value its operands share, except where a      *)
(* single value of the upper half, taken for an "A", meets a "B" or an "F".   *)
THEOREM IntersectIsSound ==
  ASSUME NEW x, NEW y, WellFormed(x), WellFormed(y), ~ FarPoint(x, y), ~ FarPoint(y, x)
  PROVE  /\ WellFormed(Intersect[<<x, y>>])
         /\ Gamma(x) \cap Gamma(y) \subseteq Gamma(Intersect[<<x, y>>])
BY IntersectCases

(* And it gives no value back that one of them has ruled out, except where a  *)
(* range across the halves meets one across zero, whose two common parts are  *)
(* joined.                                                                    *)
THEOREM IntersectNarrows ==
  ASSUME NEW x, NEW y, WellFormed(x), WellFormed(y), {x.ty, y.ty} # {"C", "F"}
  PROVE  Gamma(Intersect[<<x, y>>]) \subseteq Gamma(x) \cap Gamma(y)
BY IntersectCases

-----------------------------------------------------------------------------
LEMMA ResidueOfSum ==
  ASSUME NEW v \in Int, NEW w \in Int
  PROVE  ((v % Prime) + (w % Prime)) % Prime = (v + w) % Prime
<1> DEFINE p == v % Prime
           q == w % Prime
           n == (p + q) % Prime
<1>1. PICK j \in Int : v = j * Prime + p
  BY Division
<1>2. PICK k \in Int : w = k * Prime + q
  BY Division
<1>3. p \in Int /\ q \in Int
  BY Division, FeltsAreReduced
<1>4. n \in Felt /\ \E m \in Int : p + q = m * Prime + n
  BY <1>3, Division
<1>5. PICK m \in Int : p + q = m * Prime + n
  BY <1>4
<1>6. n \in Int
  BY <1>4, FeltsAreReduced
<1> HIDE DEF p, q, n
<1>7. ((j + k) + m) * Prime = (j * Prime + k * Prime) + m * Prime
  BY PrimeAssumption
<1>8. v + w = ((j + k) + m) * Prime + n
  BY <1>1, <1>2, <1>3, <1>5, <1>6, <1>7, PrimeAssumption
<1>9. (v + w) % Prime = n
  BY <1>4, <1>8, Residue
<1> QED
  BY <1>9 DEF n, p, q

LEMMA ResidueOfNegation ==
  ASSUME NEW v \in Int
  PROVE  (-(v % Prime)) % Prime = (-v) % Prime
<1> DEFINE p == v % Prime
           n == (-p) % Prime
<1>1. PICK j \in Int : v = j * Prime + p
  BY Division
<1>2. p \in Int
  BY Division, FeltsAreReduced
<1>3. n \in Felt /\ \E m \in Int : -p = m * Prime + n
  BY <1>2, Division
<1>4. PICK m \in Int : -p = m * Prime + n
  BY <1>3
<1>5. n \in Int
  BY <1>3, FeltsAreReduced
<1> HIDE DEF p, n
<1>6. (m - j) * Prime = m * Prime - j * Prime
  BY PrimeAssumption
<1>7. -v = (m - j) * Prime + n /\ -v \in Int
  BY <1>1, <1>2, <1>4, <1>5, <1>6, PrimeAssumption
<1>8. (-v) % Prime = n
  BY <1>3, <1>7, Residue
<1> QED
  BY <1>8 DEF n, p

LEMMA ResidueOfProduct ==
  ASSUME NEW v \in Int, NEW w \in Int
  PROVE  ((v % Prime) * (w % Prime)) % Prime = (v * w) % Prime
<1> DEFINE p == v % Prime
           q == w % Prime
           n == (p * q) % Prime
<1>1. PICK j \in Int : v = j * Prime + p
  BY Division
<1>2. PICK k \in Int : w = k * Prime + q
  BY Division
<1>3. p \in Int /\ q \in Int /\ p * q \in Int /\ v * w \in Int
  BY Division, FeltsAreReduced
<1>4. n \in Felt /\ \E m \in Int : p * q = m * Prime + n
  BY <1>3, Division
<1>5. PICK m \in Int : p * q = m * Prime + n
  BY <1>4
<1>6. n \in Int
  BY <1>4, FeltsAreReduced
<1> HIDE DEF p, q, n
<1> DEFINE i == ((j * w) + (p * k)) + m
<1>7. i \in Int
  BY <1>3
<1>8. v * w = i * Prime + n
  <2>1. v * w = (j * Prime) * w + p * w
    BY <1>1, <1>3, PrimeAssumption
  <2>2. p * w = p * (k * Prime) + p * q
    BY <1>2, <1>3, PrimeAssumption
  <2>3. i * Prime = ((j * Prime) * w + p * (k * Prime)) + m * Prime
    BY <1>3, PrimeAssumption
  <2>4. (j * Prime) * w \in Int /\ p * (k * Prime) \in Int /\ m * Prime \in Int /\ p * w \in Int
    BY <1>3, PrimeAssumption
  <2> HIDE DEF i
  <2> QED
    BY <1>3, <1>5, <1>6, <1>7, <2>1, <2>2, <2>3, <2>4
<1> HIDE DEF i
<1>9. (v * w) % Prime = n
  BY <1>3, <1>4, <1>7, <1>8, Residue
<1> QED
  BY <1>9 DEF n, p, q

(* A value of an interval is the residue of an integer of its first reading. *)
LEMMA FirstReading ==
  ASSUME NEW x, WellFormed(x), NEW v \in Gamma(x)
  PROVE  /\ First(x)[1] \in Int /\ First(x)[2] \in Int /\ First(x) = <<First(x)[1], First(x)[2]>>
         /\ \E r \in First(x)[1]..First(x)[2] : r % Prime = v
<1>1. CASE x.ty = "Empty"
  BY <1>1 DEF Gamma
<1>2. CASE x.ty = "Entire"
  <2>1. First(x) = <<0, Prime - 1>>
    BY <1>2 DEF First, ToUnreduced
  <2>2. v \in 0..(Prime - 1) /\ v % Prime = v /\ Prime - 1 \in Int
    BY ValuesAreFelts, FeltsAreReduced, PrimeAssumption DEF Felt
  <2> QED
    BY <2>1, <2>2
<1>3. CASE x.ty \in {"A", "B", "C", "Degenerate"}
  BY <1>3, WithinBounds, Typed
<1>4. CASE x.ty = "F"
  <2>1. First(x) = <<x.a - Prime, x.b>> /\ x.a - Prime \in Int /\ x.b \in Int
    BY <1>4, AcrossZero, PrimeAssumption
  <2>2. \E r \in (x.a - Prime)..x.b : r % Prime = v
    BY <1>4, AcrossZero
  <2> QED
    BY <2>1, <2>2
<1> QED
  BY <1>1, <1>2, <1>3, <1>4, Typed DEF Types

-----------------------------------------------------------------------------
LEMMA NegIsSound ==
  ASSUME NEW x, WellFormed(x), NEW v \in Gamma(x)
  PROVE  WellFormed(Neg[x]) /\ (-v) % Prime \in Gamma(Neg[x])
<1> DEFINE a == First(x)[1]
           b == First(x)[2]
<1>1. a \in Int /\ b \in Int /\ First(x) = <<a, b>>
  BY FirstReading
<1>2. PICK r \in a..b : r % Prime = v
  BY FirstReading
<1>3. Neg[x] = ReduceTo[Negated(First(x))]
  BY DEF Neg, WellFormed
<1> HIDE DEF a, b
<1>4. Negated(First(x)) = <<-b, -a>>
  <2>1. ~ IsNone(<<a, b>>)
    BY <1>1, <1>2 DEF IsNone, Width
  <2> QED
    BY <1>1, <2>1 DEF Negated
<1>5. r \in Int /\ -b \in Int /\ -a \in Int /\ -r \in (-b)..(-a)
  BY <1>1, <1>2
<1>6. (-r) % Prime = (-v) % Prime
  BY <1>2, <1>5, ResidueOfNegation
<1> QED
  BY <1>3, <1>4, <1>5, <1>6, ReduceToIsSound

LEMMA PlusIsSound ==
  ASSUME NEW x, NEW y, WellFormed(x), WellFormed(y), NEW v \in Gamma(x), NEW w \in Gamma(y)
  PROVE  WellFormed(Plus[<<x, y>>]) /\ (v + w) % Prime \in Gamma(Plus[<<x, y>>])
<1> DEFINE a == First(x)[1]
           b == First(x)[2]
           c == First(y)[1]
           d == First(y)[2]
           z == Plus[<<x, y>>]
<1>1. /\ a \in Int /\ b \in Int /\ First(x) = <<a, b>>
      /\ c \in Int /\ d \in Int /\ First(y) = <<c, d>>
  BY FirstReading
<1>2. PICK r \in a..b : r % Prime = v
  BY FirstReading
<1>3. PICK s \in c..d : s % Prime = w
  BY FirstReading
<1>4. z = IF x.ty = "Empty" \/ y.ty = "Entire" THEN y
          ELSE IF y.ty = "Empty" \/ x.ty = "Entire" THEN x
          ELSE ReduceTo[Added(First(x), First(y))]
  BY DEF Plus, WellFormed
<1> HIDE DEF a, b, c, d, z
<1>5. x.ty # "Empty" /\ y.ty # "Empty"
  BY DEF Gamma
<1>6. r \in Int /\ s \in Int /\ r + s \in Int /\ v \in Int /\ w \in Int /\ (v + w) % Prime \in Felt
  BY <1>1, <1>2, <1>3, ValuesAreFelts, FeltsAreReduced, Division
<1>7. CASE "Entire" \in {x.ty, y.ty}
  <2>1. z.ty = "Entire" /\ WellFormed(z)
    BY <1>4, <1>5, <1>7
  <2> QED
    BY <1>6, <2>1 DEF z, Gamma
<1>8. CASE "Entire" \notin {x.ty, y.ty}
  <2>1. z = ReduceTo[<<a + c, b + d>>] /\ a + c \in Int /\ b + d \in Int
    BY <1>1, <1>4, <1>5, <1>8 DEF Added
  <2>2. r + s \in (a + c)..(b + d)
    BY <1>1, <1>2, <1>3, <1>6
  <2>3. (r + s) % Prime = (v + w) % Prime
    BY <1>2, <1>3, <1>6, ResidueOfSum
  <2>4. WellFormed(z) /\ (r + s) % Prime \in Gamma(z)
    BY <2>1, <2>2, ReduceToIsSound
  <2> QED
    BY <2>3, <2>4 DEF z
<1> QED
  BY <1>7, <1>8

LEMMA MinusIsSound ==
  ASSUME NEW x, NEW y, WellFormed(x), WellFormed(y), NEW v \in Gamma(x), NEW w \in Gamma(y)
  PROVE  WellFormed(Minus[<<x, y>>]) /\ (v - w) % Prime \in Gamma(Minus[<<x, y>>])
<1>1. Minus[<<x, y>>] = Plus[<<x, Neg[y]>>]
  BY DEF Minus, WellFormed
<1>2. WellFormed(Neg[y]) /\ (-w) % Prime \in Gamma(Neg[y])
  BY NegIsSound
<1>3. WellFormed(Plus[<<x, Neg[y]>>]) /\ (v + ((-w) % Prime)) % Prime \in Gamma(Plus[<<x, Neg[y]>>])
  BY <1>2, PlusIsSound
<1>4. v \in Int /\ w \in Int /\ -w \in Int /\ v % Prime = v /\ v + (-w) = v - w
  BY ValuesAreFelts, FeltsAreReduced
<1>5. (v + ((-w) % Prime)) % Prime = (v - w) % Prime
  BY <1>4, ResidueOfSum
<1> QED
  BY <1>1, <1>3, <1>5

(* The product of two numbers lies between products of their bounds. *)
LEMMA Between ==
  ASSUME NEW a \in Int, NEW b \in Int, NEW r \in a..b, NEW s \in Int
  PROVE  (a * s <= r * s /\ r * s <= b * s) \/ (b * s <= r * s /\ r * s <= a * s)
<1>1. r \in Int /\ a * s \in Int /\ b * s \in Int /\ r * s \in Int
  OBVIOUS
<1>2. CASE s >= 0
  <2>1. (r - a) * s >= 0 /\ (b - r) * s >= 0
    BY <1>2
  <2>2. (r - a) * s = r * s - a * s /\ (b - r) * s = b * s - r * s
    BY <1>1
  <2> QED
    BY <1>1, <2>1, <2>2
<1>3. CASE s < 0
  <2>1. (r - a) * (-s) >= 0 /\ (b - r) * (-s) >= 0
    BY <1>3
  <2>2. (r - a) * (-s) = a * s - r * s /\ (b - r) * (-s) = r * s - b * s
    BY <1>1
  <2> QED
    BY <1>1, <2>1, <2>2
<1> QED
  BY <1>2, <1>3

LEMMA CornersOfFour ==
  ASSUME NEW e \in Int, NEW f \in Int, NEW g \in Int, NEW h \in Int, NEW S, S = {e, f, g, h}
  PROVE  /\ Min(S) \in Int /\ Max(S) \in Int
         /\ \A n \in S : Min(S) <= n /\ n <= Max(S)
<1>1. \E n \in S : \A k \in S : n <= k
  OBVIOUS
<1>2. \E n \in S : \A k \in S : n >= k
  OBVIOUS
<1>3. S \subseteq Int
  OBVIOUS
<1>4. Min(S) \in S /\ Max(S) \in S /\ \A n \in S : Min(S) <= n /\ Max(S) >= n
  BY <1>1, <1>2 DEF Min, Max
<1> QED
  BY <1>3, <1>4

LEMMA ProductIsSound ==
  ASSUME NEW a \in Int, NEW b \in Int, NEW c \in Int, NEW d \in Int, NEW r \in a..b, NEW s \in c..d
  PROVE  /\ WellFormed(ReduceTo[Product(<<a, b>>, <<c, d>>)])
         /\ (r * s) % Prime \in Gamma(ReduceTo[Product(<<a, b>>, <<c, d>>)])
<1> DEFINE S == {a * c, a * d, b * c, b * d}
           l == Min(S)
           m == Max(S)
<1>1. a * c \in Int /\ a * d \in Int /\ b * c \in Int /\ b * d \in Int /\ r \in Int /\ s \in Int
  OBVIOUS
<1>2. {<<a, b>>[i] * <<c, d>>[j] : i, j \in {1, 2}} = S
  OBVIOUS
<1>3. Product(<<a, b>>, <<c, d>>) = <<l, m>>
  BY <1>2 DEF Product, Corners
<1>4. l \in Int /\ m \in Int /\ \A n \in S : l <= n /\ n <= m
  BY <1>1, CornersOfFour
<1> HIDE DEF l, m
<1>5. /\ a * s \in Int /\ b * s \in Int /\ r * s \in Int
      /\ \/ a * s <= r * s /\ r * s <= b * s
         \/ b * s <= r * s /\ r * s <= a * s
  BY <1>1, Between
<1>6. \/ c * a <= s * a /\ s * a <= d * a
      \/ d * a <= s * a /\ s * a <= c * a
  BY Between
<1>7. \/ c * b <= s * b /\ s * b <= d * b
      \/ d * b <= s * b /\ s * b <= c * b
  BY Between
<1>8. /\ c * a = a * c /\ d * a = a * d /\ s * a = a * s
      /\ c * b = b * c /\ d * b = b * d /\ s * b = b * s
  BY <1>1
<1>9. l <= a * s /\ a * s <= m /\ l <= b * s /\ b * s <= m
  BY <1>1, <1>4, <1>5, <1>6, <1>7, <1>8
<1>10. r * s \in l..m
  BY <1>4, <1>5, <1>9
<1> QED
  BY <1>3, <1>4, <1>10, ReduceToIsSound

LEMMA TimesIsSound ==
  ASSUME NEW x, NEW y, WellFormed(x), WellFormed(y), NEW v \in Gamma(x), NEW w \in Gamma(y)
  PROVE  WellFormed(Times[<<x, y>>]) /\ (v * w) % Prime \in Gamma(Times[<<x, y>>])
<1> DEFINE a == First(x)[1]
           b == First(x)[2]
           c == First(y)[1]
           d == First(y)[2]
           z == Times[<<x, y>>]
<1>1. /\ a \in Int /\ b \in Int /\ First(x) = <<a, b>>
      /\ c \in Int /\ d \in Int /\ First(y) = <<c, d>>
  BY FirstReading
<1>2. PICK r \in a..b : r % Prime = v
  BY FirstReading
<1>3. PICK s \in c..d : s % Prime = w
  BY FirstReading
<1>4. z = IF False \in {x, y} THEN False
          ELSE IF "Empty" \in {x.ty, y.ty} THEN Empty
          ELSE IF "Entire" \in {x.ty, y.ty} THEN Entire
          ELSE IF IsOneOf(x, y, {<<"B", "B">>}) THEN ReduceTo[Product(Second(x), Second(y))]
          ELSE ReduceTo[Product(First(x), First(y))]
  BY DEF Times, WellFormed
<1> SUFFICES WellFormed(z) /\ (v * w) % Prime \in Gamma(z)
  OBVIOUS
<1> HIDE DEF a, b, c, d, z
<1>5. x.ty # "Empty" /\ y.ty # "Empty"
  BY DEF Gamma
<1>6. v \in Int /\ w \in Int /\ v * w \in Int /\ (v * w) % Prime \in Felt
  BY ValuesAreFelts, FeltsAreReduced, Division
<1>7. CASE False \in {x, y}
  <2>1. 0 \in Felt
    BY PrimeAssumption DEF Felt
  <2>2. z = False /\ WellFormed(False) /\ Gamma(False) = {0}
    BY <1>4, <1>7, <2>1, Names DEF False
  <2>3. v = 0 \/ w = 0
    BY <1>7, <2>2
  <2>4. v * w = 0
    BY <1>6, <2>3
  <2>5. 0 % Prime = 0
    BY <2>1, FeltsAreReduced
  <2> QED
    BY <2>2, <2>4, <2>5
<1>8. CASE False \notin {x, y} /\ "Entire" \in {x.ty, y.ty}
  <2>1. z = Entire
    BY <1>4, <1>5, <1>8
  <2> QED
    BY <1>6, <2>1, Names
<1>9. CASE False \notin {x, y} /\ "Entire" \notin {x.ty, y.ty} /\ x.ty = "B" /\ y.ty = "B"
  <2>1. z = ReduceTo[Product(Second(x), Second(y))]
    BY <1>4, <1>5, <1>9 DEF IsOneOf
  <2>2. /\ Second(x) = <<x.a - Prime, x.b - Prime>> /\ Second(y) = <<y.a - Prime, y.b - Prime>>
        /\ x.a - Prime \in Int /\ x.b - Prime \in Int /\ y.a - Prime \in Int /\ y.b - Prime \in Int
    BY <1>9, WithinBounds, Typed, PrimeAssumption
  <2>3. /\ v - Prime \in (x.a - Prime)..(x.b - Prime) /\ (v - Prime) % Prime = v
        /\ w - Prime \in (y.a - Prime)..(y.b - Prime) /\ (w - Prime) % Prime = w
        /\ v - Prime \in Int /\ w - Prime \in Int
    BY <1>6, <1>9, WithinBounds, Typed, PrimeAssumption
  <2>4. /\ WellFormed(z)
        /\ ((v - Prime) * (w - Prime)) % Prime \in Gamma(z)
    BY <2>1, <2>2, <2>3, ProductIsSound
  <2>5. ((v - Prime) * (w - Prime)) % Prime = (v * w) % Prime
    BY <2>3, ResidueOfProduct
  <2> QED
    BY <2>4, <2>5
<1>10. CASE False \notin {x, y} /\ "Entire" \notin {x.ty, y.ty} /\ ~ (x.ty = "B" /\ y.ty = "B")
  <2>1. z = ReduceTo[Product(<<a, b>>, <<c, d>>)]
    BY <1>1, <1>4, <1>5, <1>10 DEF IsOneOf
  <2>2. WellFormed(z) /\ (r * s) % Prime \in Gamma(z)
    BY <1>1, <2>1, ProductIsSound
  <2>3. (r * s) % Prime = (v * w) % Prime
    BY <1>1, <1>2, <1>3, ResidueOfProduct
  <2> QED
    BY <2>2, <2>3
<1> QED
  BY <1>7, <1>8, <1>9, <1>10

(* performBinaryArithmetic: whatever the types of the operands, the interval  *)
(* of a sum, a difference or a product holds what the operation computes of   *)
(* any of their values.                                                       *)
THEOREM ArithmeticIsSound ==
  ASSUME NEW op \in {"add", "sub", "mul"}, NEW x, NEW y, WellFormed(x), WellFormed(y),
         NEW v \in Gamma(x), NEW w \in Gamma(y)
  PROVE  /\ WellFormed(Transfer(op, <<x, y>>))
         /\ Result(op, <<v, w>>) \in Gamma(Transfer(op, <<x, y>>))
<1>1. CASE op = "add"
  <2>1. Transfer(op, <<x, y>>) = Plus[<<x, y>>] /\ Result(op, <<v, w>>) = (v + w) % Prime
    BY <1>1 DEF Transfer, Result, Predicates, BoolOps
  <2> QED
    BY <2>1, PlusIsSound
<1>2. CASE op = "sub"
  <2>1. Transfer(op, <<x, y>>) = Minus[<<x, y>>] /\ Result(op, <<v, w>>) = (v - w) % Prime
    BY <1>2 DEF Transfer, Result, Predicates, BoolOps
  <2> QED
    BY <2>1, MinusIsSound
<1>3. CASE op = "mul"
  <2>1. Transfer(op, <<x, y>>) = Times[<<x, y>>] /\ Result(op, <<v, w>>) = (v * w) % Prime
    BY <1>3 DEF Transfer, Result, Predicates, BoolOps
  <2> QED
    BY <2>1, TimesIsSound
<1> QED
  BY <1>1, <1>2, <1>3

-----------------------------------------------------------------------------
LEMMA TruthValues ==
  /\ WellFormed(False) /\ WellFormed(True) /\ WellFormed(Boolean)
  /\ 0 \in Gamma(False) /\ 1 \in Gamma(True) /\ 0 \in Gamma(Boolean) /\ 1 \in Gamma(Boolean)
<1>1. 0 \in Felt /\ 1 \in Felt
  BY PrimeAssumption DEF Felt
<1>2. Boolean = [ty |-> "A", a |-> 0, b |-> 1]
  BY <1>1, Named DEF Boolean, Types
<1>3. WellFormed(Boolean)
  BY <1>1, <1>2, Halves DEF WellFormed, IntervalType, Types
<1>4. 0 \in Gamma(Boolean) /\ 1 \in Gamma(Boolean)
  BY <1>1, <1>2 DEF Gamma
<1> QED
  BY <1>1, <1>3, <1>4, Names DEF False, True

(* A value that compares with one of the other operand is in the part that   *)
(* the comparison leaves.                                                    *)
LEMMA PartsHold ==
  ASSUME NEW a \in Int, NEW b \in Int, NEW c \in Int, NEW d \in Int, NEW v \in a..b, NEW w \in Int,
         c > d \/ w \in c..d
  PROVE  /\ v < w => ~ IsNone(LTPart(<<a, b>>, <<c, d>>))
         /\ v <= w => ~ IsNone(LEPart(<<a, b>>, <<c, d>>))
         /\ v > w => ~ IsNone(GTPart(<<a, b>>, <<c, d>>))
         /\ v >= w => ~ IsNone(GEPart(<<a, b>>, <<c, d>>))
<1>1. \A l, r \in Int : IsNone(<<l, r>>) <=> l > r
  BY DEF IsNone, Width
<1>2. v \in Int /\ ~ a > b
  OBVIOUS
<1>3. CASE c > d
  BY <1>1, <1>2, <1>3 DEF Part, LTPart, LEPart, GTPart, GEPart
<1>4. CASE w \in c..d
  <2>1. /\ LTPart(<<a, b>>, <<c, d>>) = <<a, Min({b, d - 1})>>
        /\ LEPart(<<a, b>>, <<c, d>>) = <<a, Min({b, d})>>
        /\ GTPart(<<a, b>>, <<c, d>>) = <<Max({a, c + 1}), b>>
        /\ GEPart(<<a, b>>, <<c, d>>) = <<Max({a, c}), b>>
    <3>1. ~ IsNone(<<a, b>>) /\ ~ IsNone(<<c, d>>)
      BY <1>1, <1>2, <1>4
    <3> QED
      BY <3>1 DEF Part, LTPart, LEPart, GTPart, GEPart
  <2>2. /\ Min({b, d - 1}) = (IF b <= d - 1 THEN b ELSE d - 1)
        /\ Min({b, d}) = (IF b <= d THEN b ELSE d)
        /\ Max({a, c + 1}) = (IF a >= c + 1 THEN a ELSE c + 1)
        /\ Max({a, c}) = (IF a >= c THEN a ELSE c)
    BY Pairs
  <2> QED
    BY <1>1, <1>2, <1>4, <2>1, <2>2
<1> QED
  BY <1>3, <1>4

LEMMA UnreducedReading ==
  ASSUME NEW x, WellFormed(x), NEW v \in Gamma(x)
  PROVE  \E a, b \in Int : ToUnreduced(x) = <<a, b>> /\ (IF x.ty = "F" THEN a > b ELSE v \in a..b)
<1>1. CASE x.ty = "Empty"
  BY <1>1 DEF Gamma
<1>2. CASE x.ty = "Entire"
  <2>1. ToUnreduced(x) = <<0, Prime - 1>> /\ Prime - 1 \in Int /\ v \in 0..(Prime - 1)
    BY <1>2, ValuesAreFelts, PrimeAssumption DEF ToUnreduced, Felt
  <2> QED
    BY <1>2, <2>1
<1>3. CASE x.ty \in {"A", "B", "C", "Degenerate"}
  BY <1>3, WithinBounds, Typed
<1>4. CASE x.ty = "F"
  <2>1. ToUnreduced(x) = <<x.a, x.b>> /\ x.a \in Int /\ x.b \in Int /\ x.a > x.b
    BY <1>4, AcrossZero DEF ToUnreduced
  <2> QED
    BY <1>4, <2>1
<1> QED
  BY <1>1, <1>2, <1>3, <1>4, Typed DEF Types

(* A single value stands for itself, and two of them differ in their value. *)
LEMMA OneValue ==
  ASSUME NEW x, NEW y, WellFormed(x), WellFormed(y), x.ty = "Degenerate", y.ty = "Degenerate",
         NEW v \in Gamma(x), NEW w \in Gamma(y)
  PROVE  v = w <=> x = y
<1>1. x.a = x.b /\ y.a = y.b /\ x \in IntervalType /\ y \in IntervalType
  BY DEF WellFormed
<1>2. v \in Felt /\ x.a <= v /\ v <= x.b /\ w \in Felt /\ y.a <= w /\ w <= y.b
  BY DEF Gamma
<1>3. v = x.a /\ w = y.a
  BY <1>1, <1>2, PrimeAssumption DEF IntervalType, Felt
<1> QED
  BY <1>1, <1>3 DEF IntervalType

(* cmp: the interval of a comparison holds its result; for the orderings,     *)
(* unless the left operand is a range across zero; for equality, unless one   *)
(* operand is a single value of the upper half and the other a "B" or an "F". *)
THEOREM ComparisonsAreSound ==
  ASSUME NEW op \in Predicates, NEW x, NEW y, WellFormed(x), WellFormed(y),
         NEW v \in Gamma(x), NEW w \in Gamma(y),
         op \in {"lt", "le", "gt", "ge"} => x.ty # "F",
         op \in {"eq", "ne"} => ~ FarPoint(x, y) /\ ~ FarPoint(y, x)
  PROVE  /\ WellFormed(Transfer(op, <<x, y>>))
         /\ Result(op, <<v, w>>) \in Gamma(Transfer(op, <<x, y>>))
<1> DEFINE z == Compare(op, x, y)
           n == Result(op, <<v, w>>)
<1>1. Transfer(op, <<x, y>>) = z
  BY DEF Transfer, Predicates, BoolOps
<1>2. v \in Int /\ w \in Int
  BY ValuesAreFelts, FeltsAreReduced
<1>3. CASE op \in {"lt", "le", "gt", "ge"}
  <2>1. PICK a, b \in Int : ToUnreduced(x) = <<a, b>> /\ v \in a..b
    BY <1>3, UnreducedReading
  <2>2. PICK c, d \in Int : ToUnreduced(y) = <<c, d>> /\ (c > d \/ w \in c..d)
    BY UnreducedReading
  <2> DEFINE lt == LTPart(<<a, b>>, <<c, d>>)
             le == LEPart(<<a, b>>, <<c, d>>)
             gt == GTPart(<<a, b>>, <<c, d>>)
             ge == GEPart(<<a, b>>, <<c, d>>)
  <2>3. /\ v < w => ~ IsNone(lt)
        /\ v <= w => ~ IsNone(le)
        /\ v > w => ~ IsNone(gt)
        /\ v >= w => ~ IsNone(ge)
    BY <1>2, <2>1, <2>2, PartsHold
  <2>4. /\ op = "lt" => z = IF IsNone(lt) THEN False ELSE IF IsNone(ge) THEN True ELSE Boolean
        /\ op = "le" => z = IF IsNone(le) THEN False ELSE IF IsNone(gt) THEN True ELSE Boolean
        /\ op = "gt" => z = IF IsNone(gt) THEN False ELSE IF IsNone(le) THEN True ELSE Boolean
        /\ op = "ge" => z = IF IsNone(ge) THEN False ELSE IF IsNone(lt) THEN True ELSE Boolean
    BY <2>1, <2>2 DEF Compare
  <2>5. /\ op = "lt" => n = IF v < w THEN 1 ELSE 0
        /\ op = "le" => n = IF v <= w THEN 1 ELSE 0
        /\ op = "gt" => n = IF v > w THEN 1 ELSE 0
        /\ op = "ge" => n = IF v >= w THEN 1 ELSE 0
    BY DEF Result, FromBool
  <2> HIDE DEF z, n, lt, le, gt, ge
  <2>6. z \in {False, True, Boolean} /\ (z = True => n = 1) /\ (z = False => n = 0) /\ n \in {0, 1}
    <3>1. False # True /\ Boolean # True /\ Boolean # False
      <4>1. 0 \in Felt /\ 1 \in Felt
        BY PrimeAssumption DEF Felt
      <4> QED
        BY <4>1, Names, Named DEF False, True, Boolean, Types
    <3> QED
      BY <1>2, <1>3, <2>3, <2>4, <2>5, <3>1
  <2> QED
    BY <1>1, <2>6, TruthValues DEF z, n
<1>4. CASE op \in {"eq", "ne"}
  <2>1. n = IF op = "eq" THEN (IF v = w THEN 1 ELSE 0) ELSE (IF v # w THEN 1 ELSE 0)
    BY <1>4 DEF Result, FromBool
  <2> DEFINE same == IF op = "eq" THEN True ELSE False
             differ == IF op = "eq" THEN False ELSE True
  <2>2. z = IF x.ty = "Degenerate" /\ y.ty = "Degenerate" THEN (IF x = y THEN same ELSE differ)
            ELSE IF Intersect[<<x, y>>] = Empty THEN differ ELSE Boolean
    BY <1>4 DEF Compare
  <2> HIDE DEF z, n
  <2>3. False # True /\ Boolean # True /\ Boolean # False
    <3>1. 0 \in Felt /\ 1 \in Felt
      BY PrimeAssumption DEF Felt
    <3> QED
      BY <3>1, Names, Named DEF False, True, Boolean, Types
  <2>4. CASE x.ty = "Degenerate" /\ y.ty = "Degenerate" /\ x = y
    <3>1. z = same /\ v = w
      BY <2>2, <2>4, OneValue
    <3> QED
      BY <1>1, <1>4, <2>1, <3>1, TruthValues DEF z, n
  <2>5. CASE x.ty = "Degenerate" /\ y.ty = "Degenerate" /\ x # y
    <3>1. z = differ /\ v # w
      BY <2>2, <2>5, OneValue
    <3> QED
      BY <1>1, <1>4, <2>1, <3>1, TruthValues DEF z, n
  <2>6. CASE ~ (x.ty = "Degenerate" /\ y.ty = "Degenerate") /\ Intersect[<<x, y>>] = Empty
    <3>1. z = differ
      BY <2>2, <2>6
    <3>2. v # w
      <4>1. Gamma(Empty) = {}
        BY Names DEF Gamma
      <4> QED
        BY <1>4, <2>6, <4>1, IntersectIsSound
    <3> QED
      BY <1>1, <1>4, <2>1, <3>1, <3>2, TruthValues DEF z, n
  <2>7. CASE ~ (x.ty = "Degenerate" /\ y.ty = "Degenerate") /\ Intersect[<<x, y>>] # Empty
    <3>1. z = Boolean
      BY <2>2, <2>7
    <3> QED
      BY <1>1, <1>4, <2>1, <3>1, TruthValues DEF z, n
  <2> QED
    BY <2>4, <2>5, <2>6, <2>7
<1> QED
  BY <1>3, <1>4 DEF Predicates

-----------------------------------------------------------------------------
(*---------------------- intervals that meet unchanged --------------------*)
(* The halves of what a "C" and an "F" share, and what a join makes of them. *)
LEMMA ReducedRange ==
  ASSUME NEW l \in Felt, NEW r \in Felt
  PROVE  /\ ReduceTo[<<l, r>>] =
              IF l > r THEN Empty ELSE IF l = 0 /\ r = Prime - 1 THEN Entire
              ELSE IF l = r THEN Degenerate(l) ELSE IF r < Half THEN Interval("A", l, r)
              ELSE IF l < Half THEN Interval("C", l, r) ELSE Interval("B", l, r)
         /\ l >= Half => ReduceTo[<<l - Prime, r - Prime>>] =
              IF l > r THEN Empty ELSE IF l = r THEN Degenerate(l) ELSE Interval("B", l, r)
         /\ l >= Half /\ r < Half /\ r + 1 < l => ReduceTo[<<l - Prime, r>>] = Interval("F", l, r)
<1>1. /\ l \in Int /\ r \in Int /\ Prime \in Int /\ Half \in Int /\ 2 < Prime /\ 1 < Half /\ Half < Prime
      /\ 0 <= l /\ l < Prime /\ 0 <= r /\ r < Prime /\ l - Prime \in Int /\ r - Prime \in Int
  BY Halves, PrimeAssumption DEF Felt
<1>2. l % Prime = l /\ r % Prime = r /\ (l - Prime) % Prime = l /\ (r - Prime) % Prime = r
  BY FeltsAreReduced
<1>3. ASSUME NEW v \in {l, l - Prime}, NEW w \in {r, r - Prime}
      PROVE  ReduceTo[<<v, w>>] =
               IF v > w THEN Empty ELSE IF (w - v) + 1 >= Prime THEN Entire
               ELSE CASE l = r -> Degenerate(l)
                      [] l < r /\ r < Half -> Interval("A", l, r)
                      [] l < r /\ l < Half /\ r >= Half -> Interval("C", l, r)
                      [] l < r /\ l >= Half -> Interval("B", l, r)
                      [] l > r /\ l >= Half /\ r < Half -> Interval("F", l, r)
                      [] OTHER -> Entire
  <2> DEFINE u == <<v, w>>
  <2>1. v \in Int /\ w \in Int /\ v % Prime = l /\ w % Prime = r
    BY <1>1, <1>2
  <2>2. Width(u) = (IF v > w THEN 0 ELSE (w - v) + 1) /\ (IsNone(u) <=> v > w)
    BY <2>1 DEF Width, IsNone
  <2>3. ReduceTo[u] =
          IF IsNone(u) THEN Empty ELSE IF Width(u) >= Prime THEN Entire
          ELSE CASE l = r -> Degenerate(l)
                 [] l < r /\ r < Half -> Interval("A", l, r)
                 [] l < r /\ l < Half /\ r >= Half -> Interval("C", l, r)
                 [] l < r /\ l >= Half -> Interval("B", l, r)
                 [] l > r /\ l >= Half /\ r < Half -> Interval("F", l, r)
                 [] OTHER -> Entire
    BY <2>1 DEF ReduceTo
  <2> HIDE DEF u
  <2>4. CASE v > w
    <3>1. ReduceTo[u] = Empty
      BY <2>2, <2>3, <2>4
    <3> QED
      BY <2>4, <3>1 DEF u
  <2>5. CASE ~ v > w
    <3>1. Width(u) = (w - v) + 1 /\ ~ IsNone(u)
      BY <2>2, <2>5
    <3> QED
      BY <2>3, <2>5, <3>1 DEF u
  <2> QED
    BY <2>4, <2>5
<1>4. ReduceTo[<<l, r>>] =
        IF l > r THEN Empty ELSE IF l = 0 /\ r = Prime - 1 THEN Entire
        ELSE IF l = r THEN Degenerate(l) ELSE IF r < Half THEN Interval("A", l, r)
        ELSE IF l < Half THEN Interval("C", l, r) ELSE Interval("B", l, r)
  <2> DEFINE z == ReduceTo[<<l, r>>]
  <2>1. z = IF l > r THEN Empty ELSE IF (r - l) + 1 >= Prime THEN Entire
            ELSE CASE l = r -> Degenerate(l)
                   [] l < r /\ r < Half -> Interval("A", l, r)
                   [] l < r /\ l < Half /\ r >= Half -> Interval("C", l, r)
                   [] l < r /\ l >= Half -> Interval("B", l, r)
                   [] l > r /\ l >= Half /\ r < Half -> Interval("F", l, r)
                   [] OTHER -> Entire
    BY <1>3
  <2>2. (r - l) + 1 >= Prime <=> l = 0 /\ r = Prime - 1
    BY <1>1
  <2> SUFFICES z = IF l > r THEN Empty ELSE IF l = 0 /\ r = Prime - 1 THEN Entire
                   ELSE IF l = r THEN Degenerate(l) ELSE IF r < Half THEN Interval("A", l, r)
                   ELSE IF l < Half THEN Interval("C", l, r) ELSE Interval("B", l, r)
    OBVIOUS
  <2> HIDE DEF z
  <2>3. CASE l > r
    BY <2>1, <2>3
  <2>4. CASE ~ l > r /\ l = 0 /\ r = Prime - 1
    BY <2>1, <2>2, <2>4
  <2>5. CASE ~ l > r /\ ~ (l = 0 /\ r = Prime - 1) /\ l = r
    BY <2>1, <2>2, <2>5
  <2>6. CASE ~ l > r /\ ~ (l = 0 /\ r = Prime - 1) /\ l # r
    <3>1. l < r /\ (r < Half \/ r >= Half) /\ (l < Half \/ l >= Half) /\ ~ (r < Half /\ r >= Half)
          /\ ~ (l < Half /\ l >= Half) /\ (l >= Half => r >= Half)
      BY <1>1, <2>6
    <3> QED
      BY <1>1, <2>1, <2>2, <2>6, <3>1
  <2> QED
    BY <2>3, <2>4, <2>5, <2>6
<1>5. ASSUME l >= Half
      PROVE  ReduceTo[<<l - Prime, r - Prime>>] =
               IF l > r THEN Empty ELSE IF l = r THEN Degenerate(l) ELSE Interval("B", l, r)
  <2> DEFINE z == ReduceTo[<<l - Prime, r - Prime>>]
  <2>1. z = IF l - Prime > r - Prime THEN Empty ELSE IF ((r - Prime) - (l - Prime)) + 1 >= Prime THEN Entire
            ELSE CASE l = r -> Degenerate(l)
                   [] l < r /\ r < Half -> Interval("A", l, r)
                   [] l < r /\ l < Half /\ r >= Half -> Interval("C", l, r)
                   [] l < r /\ l >= Half -> Interval("B", l, r)
                   [] l > r /\ l >= Half /\ r < Half -> Interval("F", l, r)
                   [] OTHER -> Entire
    BY <1>3
  <2>2. /\ ~ ((r - Prime) - (l - Prime)) + 1 >= Prime /\ (l - Prime > r - Prime <=> l > r)
        /\ ~ l < Half /\ (l < r => ~ r < Half) /\ (~ l > r /\ l # r => l < r)
    BY <1>1, <1>5
  <2> HIDE DEF z
  <2> QED
    BY <1>5, <2>1, <2>2 DEF z
<1>6. ASSUME l >= Half, r < Half, r + 1 < l PROVE ReduceTo[<<l - Prime, r>>] = Interval("F", l, r)
  <2> DEFINE z == ReduceTo[<<l - Prime, r>>]
  <2>1. z = IF l - Prime > r THEN Empty ELSE IF (r - (l - Prime)) + 1 >= Prime THEN Entire
            ELSE CASE l = r -> Degenerate(l)
                   [] l < r /\ r < Half -> Interval("A", l, r)
                   [] l < r /\ l < Half /\ r >= Half -> Interval("C", l, r)
                   [] l < r /\ l >= Half -> Interval("B", l, r)
                   [] l > r /\ l >= Half /\ r < Half -> Interval("F", l, r)
                   [] OTHER -> Entire
    BY <1>3
  <2>2. ~ l - Prime > r /\ ~ (r - (l - Prime)) + 1 >= Prime /\ l # r /\ ~ l < r /\ l > r
    BY <1>1, <1>6
  <2> HIDE DEF z
  <2> QED
    BY <1>6, <2>1, <2>2 DEF z
<1> QED
  BY <1>4, <1>5, <1>6

LEMMA IntersectSpans ==
  ASSUME NEW x, NEW y, WellFormed(x), WellFormed(y), x.ty = "C", y.ty = "F"
  PROVE  LET z == Intersect[<<x, y>>]
         IN  /\ Intersect[<<y, x>>] = z
             /\ \/ z \in {x, y} \/ z.ty \in {"A", "B", "Degenerate", "Empty"}
                \/ z = Entire /\ x = Interval("C", 0, Prime - 1)
<1> DEFINE z == IntersectRanges(x, y)
           opt1 == ReduceTo[Overlap(First(x), First(y))]
           opt2 == ReduceTo[Overlap(Second(x), First(y))]
           a == x.a
           b == x.b
           c == y.a
           d == y.b
<1>1. Intersect[<<x, y>>] = z /\ Intersect[<<y, x>>] = z
  <2>1. x \in IntervalType /\ y \in IntervalType /\ x # y
    BY Typed
  <2>2. InOrder(x, y) /\ ~ InOrder(y, x) /\ AsRange(x) = x /\ AsRange(y) = y
    BY DEF InOrder, IsOneOf, SameSide, AsRange
  <2> HIDE DEF z
  <2>3. Intersect[<<x, y>>] = IntersectRanges(x, y)
    BY <2>1, <2>2 DEF Intersect
  <2>4. Intersect[<<y, x>>] = IntersectRanges(x, y)
    BY <2>1, <2>2 DEF Intersect
  <2> QED
    BY <2>3, <2>4 DEF z
<1>2. z = IF opt1 = Empty THEN opt2 ELSE IF opt2 = Empty THEN opt1 ELSE Join[<<opt1, opt2>>]
  BY DEF IntersectRanges, IsOneOf, SameSide
<1>3. /\ a \in Felt /\ b \in Felt /\ a \in Int /\ b \in Int
      /\ First(x) = <<a, b>> /\ Second(x) = <<a - Prime, b - Prime>>
      /\ a - Prime \in Int /\ b - Prime \in Int
  BY WithinBounds, Typed, PrimeAssumption
<1>4. /\ c \in Felt /\ d \in Felt /\ c \in Int /\ d \in Int
      /\ First(y) = <<c - Prime, d>> /\ c - Prime \in Int
  BY AcrossZero, PrimeAssumption
<1>5. /\ a < Half /\ Half <= b /\ Half <= c /\ d < Half /\ Half \in Int
      /\ 0 <= a /\ b < Prime /\ 0 <= d /\ c < Prime /\ Prime \in Int
  BY <1>3, <1>4, Halves, PrimeAssumption DEF WellFormed, Felt
<1>6. x = Interval("C", a, b) /\ y = Interval("F", c, d)
  <2>1. x = [ty |-> "C", a |-> a, b |-> b] /\ y = [ty |-> "F", a |-> c, b |-> d]
    BY Typed DEF IntervalType
  <2> HIDE DEF a, b, c, d
  <2> QED
    BY <1>3, <1>4, <2>1, Named DEF Types
<1> HIDE DEF z, a, b, c, d
<1>7. opt1 = IF a > d THEN Empty ELSE IF a = d THEN Degenerate(a) ELSE Interval("A", a, d)
  <2>1. Overlap(First(x), First(y)) = <<Max({a, c - Prime}), Min({b, d})>>
    BY <1>3, <1>4 DEF Overlap
  <2>2. Max({a, c - Prime}) = (IF a >= c - Prime THEN a ELSE c - Prime) /\ a >= c - Prime
    BY <1>3, <1>4, <1>5, Pairs
  <2>3. Min({b, d}) = (IF b <= d THEN b ELSE d) /\ ~ b <= d
    <3>1. Min({b, d}) = (IF b <= d THEN b ELSE d)
      BY <1>3, <1>4, Pairs
    <3> QED
      BY <1>3, <1>4, <1>5, <3>1
  <2>4. opt1 = ReduceTo[<<a, d>>] /\ ~ d = Prime - 1
    BY <1>5, <2>1, <2>2, <2>3, Halves
  <2>5. ReduceTo[<<a, d>>] =
          IF a > d THEN Empty ELSE IF a = 0 /\ d = Prime - 1 THEN Entire
          ELSE IF a = d THEN Degenerate(a) ELSE IF d < Half THEN Interval("A", a, d)
          ELSE IF a < Half THEN Interval("C", a, d) ELSE Interval("B", a, d)
    BY <1>3, <1>4, ReducedRange
  <2> HIDE DEF opt1
  <2> QED
    BY <1>5, <2>4, <2>5
<1>8. opt2 = IF c > b THEN Empty ELSE IF c = b THEN Degenerate(c) ELSE Interval("B", c, b)
  <2>1. Overlap(Second(x), First(y)) = <<Max({a - Prime, c - Prime}), Min({b - Prime, d})>>
    BY <1>3, <1>4 DEF Overlap
  <2>2. /\ Max({a - Prime, c - Prime}) = (IF a - Prime >= c - Prime THEN a - Prime ELSE c - Prime)
        /\ ~ a - Prime >= c - Prime
    BY <1>3, <1>4, <1>5, Pairs
  <2>3. Min({b - Prime, d}) = (IF b - Prime <= d THEN b - Prime ELSE d) /\ b - Prime <= d
    <3>1. Min({b - Prime, d}) = (IF b - Prime <= d THEN b - Prime ELSE d)
      BY <1>3, <1>4, Pairs
    <3> QED
      BY <1>3, <1>4, <1>5, <3>1
  <2>4. opt2 = ReduceTo[<<c - Prime, b - Prime>>] /\ c >= Half
    BY <1>4, <1>5, <2>1, <2>2, <2>3
  <2> HIDE DEF opt2
  <2> QED
    BY <1>3, <1>4, <2>4, ReducedRange
<1> HIDE DEF opt1, opt2
<1>9. CASE a > d
  <2>1. z = opt2
    BY <1>2, <1>7, <1>9
  <2>2. opt2.ty \in {"Empty", "Degenerate", "B"}
    BY <1>8 DEF Empty, Degenerate, Interval
  <2> QED
    BY <1>1, <2>1, <2>2
<1>10. CASE c > b
  <2>1. z = IF opt1 = Empty THEN opt2 ELSE opt1
    BY <1>2, <1>8, <1>10
  <2>2. opt1.ty \in {"Empty", "Degenerate", "A"} /\ opt2.ty = "Empty"
    BY <1>7, <1>8, <1>10 DEF Empty, Degenerate, Interval
  <2> QED
    BY <1>1, <2>1, <2>2
<1>11. CASE ~ a > d /\ ~ c > b
  <2>1. /\ opt1 = IF a = d THEN [ty |-> "Degenerate", a |-> a, b |-> d] ELSE [ty |-> "A", a |-> a, b |-> d]
        /\ opt2 = IF c = b THEN [ty |-> "Degenerate", a |-> c, b |-> b] ELSE [ty |-> "B", a |-> c, b |-> b]
    BY <1>3, <1>4, <1>7, <1>8, <1>11, Named, Names DEF Types
  <2>2. opt1 # Empty /\ opt2 # Empty /\ z = Join[<<opt1, opt2>>]
    BY <1>2, <2>1, Names
  <2>3. opt1 \in IntervalType /\ opt2 \in IntervalType
    BY <1>3, <1>4, <2>1 DEF IntervalType, Types
  <2>4. /\ ToUnreduced(opt1) = <<a, d>> /\ ToUnreduced(opt2) = <<c, b>>
        /\ First(opt1) = <<a, d>> /\ First(opt2) = <<c, b>> /\ Second(opt2) = <<c - Prime, b - Prime>>
    BY <2>1 DEF ToUnreduced, First, Second
  <2>5. /\ Hull(<<a, d>>, <<c, b>>) = <<a, b>> /\ Hull(<<c, b>>, <<a, d>>) = <<a, b>>
        /\ Hull(<<c - Prime, b - Prime>>, <<a, d>>) = <<c - Prime, d>>
    <3>1. /\ Min({a, c}) = (IF a <= c THEN a ELSE c) /\ Min({c, a}) = (IF c <= a THEN c ELSE a)
          /\ Max({d, b}) = (IF d >= b THEN d ELSE b) /\ Max({b, d}) = (IF b >= d THEN b ELSE d)
      BY <1>3, <1>4, Pairs
    <3>2. /\ Min({c - Prime, a}) = (IF c - Prime <= a THEN c - Prime ELSE a)
          /\ Max({b - Prime, d}) = (IF b - Prime >= d THEN b - Prime ELSE d)
      BY <1>3, <1>4, Pairs
    <3>3. a <= c /\ ~ c <= a /\ ~ d >= b /\ b >= d /\ c - Prime <= a /\ ~ b - Prime >= d
      BY <1>3, <1>4, <1>5
    <3>4. Min({a, c}) = a /\ Min({c, a}) = a /\ Max({d, b}) = b /\ Max({b, d}) = b
      BY <3>1, <3>3
    <3>5. Min({c - Prime, a}) = c - Prime /\ Max({b - Prime, d}) = d
      BY <3>2, <3>3
    <3> QED
      BY <3>4, <3>5 DEF Hull
  <2>6. /\ Width(<<a, b>>) = (b - a) + 1 /\ Width(<<a, b>>) <= Prime
        /\ Width(<<c - Prime, d>>) = (d - (c - Prime)) + 1
    BY <1>3, <1>4, <1>5 DEF Width
  <2>7. z = ReduceTo[<<a, b>>] \/ (z = ReduceTo[<<c - Prime, d>>] /\ Width(<<a, b>>) > Width(<<c - Prime, d>>))
    <3>1. CASE "Degenerate" \in {opt1.ty, opt2.ty}
      <4>1. Join[<<opt1, opt2>>] = ReduceTo[Hull(ToUnreduced(opt1), ToUnreduced(opt2))]
        BY <2>1, <2>3, <3>1 DEF Join
      <4> QED
        BY <2>2, <2>4, <2>5, <4>1
    <3>2. CASE "Degenerate" \notin {opt1.ty, opt2.ty}
      <4>1. opt1.ty = "A" /\ opt2.ty = "B"
        BY <2>1, <3>2
      <4>2. InOrder(opt1, opt2)
        BY <4>1 DEF InOrder, IsOneOf, SameSide
      <4>3. Join[<<opt1, opt2>>] = JoinRanges(opt1, opt2)
        BY <2>3, <4>1, <4>2 DEF Join
      <4> DEFINE h == Hull(First(opt2), First(opt1))
                 k == Hull(Second(opt2), First(opt1))
      <4>4. JoinRanges(opt1, opt2) = ReduceTo[IF Width(h) <= Width(k) THEN h ELSE k]
        BY <4>1 DEF JoinRanges, IsOneOf, SameSide
      <4>5. h = <<a, b>> /\ k = <<c - Prime, d>>
        BY <2>4, <2>5
      <4> HIDE DEF h, k
      <4>6. Width(h) <= Width(k) \/ Width(h) > Width(k)
        BY <1>3, <1>4, <1>5, <2>6, <4>5
      <4> QED
        BY <2>2, <4>3, <4>4, <4>5, <4>6
    <3> QED
      BY <3>1, <3>2
  <2>8. CASE z = ReduceTo[<<a, b>>]
    <3>1. ~ a > b /\ ~ a = b /\ ~ b < Half
      BY <1>3, <1>5
    <3>2. ReduceTo[<<a, b>>] = IF a = 0 /\ b = Prime - 1 THEN Entire ELSE Interval("C", a, b)
      BY <1>3, <1>5, <3>1, ReducedRange
    <3> QED
      BY <1>1, <1>6, <2>8, <3>2
  <2>9. CASE z = ReduceTo[<<c - Prime, d>>] /\ Width(<<a, b>>) > Width(<<c - Prime, d>>)
    <3>1. d + 1 < c
      BY <1>3, <1>4, <1>5, <2>6, <2>9
    <3>2. ReduceTo[<<c - Prime, d>>] = Interval("F", c, d)
      BY <1>4, <1>5, <3>1, ReducedRange
    <3> QED
      BY <1>1, <1>6, <2>9, <3>2
  <2> QED
    BY <2>7, <2>8, <2>9
<1> QED
  BY <1>9, <1>10, <1>11

LEMMA SameValues ==
  ASSUME NEW x, NEW y, WellFormed(x), WellFormed(y), {x.ty, y.ty} # {"C", "F"},
         x.ty \in {"A", "B", "C", "F", "Degenerate"}, y.ty \in {"A", "B", "C", "F", "Degenerate"},
         Gamma(x) = Gamma(y)
  PROVE  x = y
<1>1. /\ x = [ty |-> x.ty, a |-> x.a, b |-> x.b] /\ y = [ty |-> y.ty, a |-> y.a, b |-> y.b]
      /\ x.a \in Felt /\ x.b \in Felt /\ y.a \in Felt /\ y.b \in Felt
  BY Typed DEF IntervalType
<1>2. \A v \in Felt : v \in Int /\ 0 <= v /\ v < Prime
  BY PrimeAssumption DEF Felt
<1>3. Half \in Int /\ 1 < Half /\ Half < Prime /\ 0 \in Felt /\ Prime - 1 \in Felt /\ Prime \in Int
  BY Halves, PrimeAssumption DEF Felt
<1>4. ASSUME NEW u, WellFormed(u), u.ty \in {"A", "B", "C", "Degenerate"}, u.a \in Felt, u.b \in Felt
      PROVE  Gamma(u) = {v \in Felt : u.a <= v /\ v <= u.b} /\ u.a \in Gamma(u) /\ u.b \in Gamma(u)
             /\ ~ (0 \in Gamma(u) /\ Prime - 1 \in Gamma(u) /\ u.ty # "C")
  <2>1. Gamma(u) = {v \in Felt : u.a <= v /\ v <= u.b}
    BY <1>4 DEF Gamma
  <2>2. u.a <= u.b /\ (u.ty = "A" => u.b < Half) /\ (u.ty = "B" => Half <= u.a) /\ (u.ty = "Degenerate" => u.a = u.b)
    BY <1>2, <1>3, <1>4 DEF WellFormed
  <2>3. u.a \in Gamma(u) /\ u.b \in Gamma(u)
    BY <1>2, <1>4, <2>1, <2>2
  <2>4. ASSUME 0 \in Gamma(u), Prime - 1 \in Gamma(u) PROVE u.ty = "C"
    <3>1. u.a <= 0 /\ Prime - 1 <= u.b
      BY <2>1, <2>4
    <3>2. u.a = 0 /\ u.b = Prime - 1
      BY <1>2, <1>3, <1>4, <3>1
    <3> QED
      BY <1>3, <1>4, <2>2, <3>2, PrimeAssumption
  <2> QED
    BY <2>1, <2>3, <2>4
<1>5. ASSUME NEW u, WellFormed(u), u.ty = "F", u.a \in Felt, u.b \in Felt
      PROVE  /\ Gamma(u) = {v \in Felt : v >= u.a \/ v <= u.b} /\ u.a \in Gamma(u) /\ u.b \in Gamma(u)
             /\ Half <= u.a /\ u.b < Half /\ 0 \in Gamma(u) /\ Prime - 1 \in Gamma(u)
  <2>1. Gamma(u) = {v \in Felt : v >= u.a \/ v <= u.b}
    BY <1>5 DEF Gamma
  <2>2. Half <= u.a /\ u.b < Half
    BY <1>5 DEF WellFormed
  <2>3. u.a \in Gamma(u) /\ u.b \in Gamma(u)
    BY <1>2, <1>5, <2>1
  <2>4. 0 \in Gamma(u) /\ Prime - 1 \in Gamma(u)
    BY <1>2, <1>3, <1>5, <2>1
  <2> QED
    BY <2>1, <2>2, <2>3, <2>4
<1>6. CASE x.ty # "F" /\ y.ty # "F"
  <2>1. x.a = y.a /\ x.b = y.b
    <3>1. x.a \in Gamma(y) /\ x.b \in Gamma(y) /\ y.a \in Gamma(x) /\ y.b \in Gamma(x)
      BY <1>1, <1>4, <1>6
    <3>2. y.a <= x.a /\ x.b <= y.b /\ x.a <= y.a /\ y.b <= x.b
      BY <1>1, <1>4, <1>6, <3>1
    <3> QED
      BY <1>1, <1>2, <3>2
  <2>2. x.ty = y.ty
    <3> DEFINE a == x.a
               b == x.b
    <3>1. a \in Int /\ b \in Int
      BY <1>1, <1>2
    <3>2. /\ CASE x.ty = "A" -> a < b /\ b < Half
               [] x.ty = "B" -> Half <= a /\ a < b
               [] x.ty = "C" -> a < Half /\ Half <= b
               [] x.ty = "F" -> Half <= a /\ b < Half
               [] x.ty = "Degenerate" -> a = b
               [] OTHER -> a = 0 /\ b = 0
          /\ CASE y.ty = "A" -> a < b /\ b < Half
               [] y.ty = "B" -> Half <= a /\ a < b
               [] y.ty = "C" -> a < Half /\ Half <= b
               [] y.ty = "F" -> Half <= a /\ b < Half
               [] y.ty = "Degenerate" -> a = b
               [] OTHER -> a = 0 /\ b = 0
      BY <2>1 DEF WellFormed
    <3> HIDE DEF a, b
    <3> QED
      BY <1>3, <1>6, <3>1, <3>2
  <2> QED
    BY <1>1, <2>1, <2>2
<1>7. CASE x.ty = "F" /\ y.ty = "F"
  <2>1. x.a \in Gamma(y) /\ x.b \in Gamma(y) /\ y.a \in Gamma(x) /\ y.b \in Gamma(x)
    BY <1>1, <1>5, <1>7
  <2>2. /\ x.a >= y.a \/ x.a <= y.b
        /\ x.b >= y.a \/ x.b <= y.b
        /\ y.a >= x.a \/ y.a <= x.b
        /\ y.b >= x.a \/ y.b <= x.b
        /\ Half <= x.a /\ x.b < Half /\ Half <= y.a /\ y.b < Half
    BY <1>1, <1>5, <1>7, <2>1
  <2>3. x.a = y.a /\ x.b = y.b
    BY <1>1, <1>2, <1>3, <2>2
  <2> QED
    BY <1>1, <1>7, <2>3
<1>8. CASE (x.ty = "F") # (y.ty = "F")
  <2>1. x.ty = "F" => y.ty = "C"
    BY <1>1, <1>4, <1>5, <1>8
  <2>2. y.ty = "F" => x.ty = "C"
    BY <1>1, <1>4, <1>5, <1>8
  <2> QED
    BY <1>8, <2>1, <2>2
<1> QED
  BY <1>6, <1>7, <1>8

(* Two intervals of which the common part takes nothing are one and the same, *)
(* save where one spans the field and the other reaches across zero.          *)
LEMMA NothingToMeet ==
  ASSUME NEW x, NEW y, WellFormed(x), WellFormed(y),
         Intersect[<<x, Intersect[<<x, y>>]>>] = x, Intersect[<<y, Intersect[<<x, y>>]>>] = y
  PROVE  x = y \/ Spanning(x, y) \/ Spanning(y, x)
<1> DEFINE z == Intersect[<<x, y>>]
<1>1. /\ x \in IntervalType /\ y \in IntervalType /\ x.ty \in Types /\ y.ty \in Types
      /\ WellFormed(z) /\ z \in IntervalType /\ z.ty \in Types
  BY Typed, IntersectCases
<1>2. Intersect[<<x, z>>] = x /\ Intersect[<<y, z>>] = y
  OBVIOUS
<1>3. \A u, v \in IntervalType : u # v =>
        /\ "Empty" \in {u.ty, v.ty} => Intersect[<<u, v>>] = Empty
        /\ "Empty" \notin {u.ty, v.ty} /\ u.ty = "Entire" => Intersect[<<u, v>>] = v
        /\ "Empty" \notin {u.ty, v.ty} /\ u.ty # "Entire" /\ v.ty = "Entire" => Intersect[<<u, v>>] = u
  BY DEF Intersect
<1>4. ASSUME NEW u, WellFormed(u), u.ty \in {"Empty", "Entire"} PROVE u = IF u.ty = "Empty" THEN Empty ELSE Entire
  BY <1>4, Names DEF WellFormed, IntervalType
<1>5. Empty.ty = "Empty" /\ Entire.ty = "Entire" /\ Empty \in IntervalType /\ Entire \in IntervalType
  BY Names DEF WellFormed
<1> SUFFICES ASSUME x # y PROVE Spanning(x, y) \/ Spanning(y, x)
  OBVIOUS
<1>6. x.ty # "Empty" /\ y.ty # "Empty"
  <2>1. CASE "Empty" \in {x.ty, y.ty}
    <3>1. z = Empty
      BY <1>1, <1>3, <2>1
    <3> HIDE DEF z
    <3>2. x = Empty
      BY <1>1, <1>2, <1>3, <1>5, <3>1
    <3>3. y = Empty
      BY <1>1, <1>2, <1>3, <1>5, <3>1
    <3> QED
      BY <3>2, <3>3
  <2> QED
    BY <2>1
<1>7. x.ty # "Entire"
  <2>1. CASE x.ty = "Entire"
    <3>1. z = y
      BY <1>1, <1>3, <1>6, <2>1
    <3> HIDE DEF z
    <3> QED
      BY <1>1, <1>2, <1>3, <1>6, <2>1, <3>1
  <2> QED
    BY <2>1
<1>8. y.ty # "Entire"
  <2>1. CASE y.ty = "Entire"
    <3>1. z = x
      BY <1>1, <1>3, <1>6, <1>7, <2>1
    <3> HIDE DEF z
    <3> QED
      BY <1>1, <1>2, <1>3, <1>6, <2>1, <3>1
  <2> QED
    BY <2>1
<1>9. x.ty \in {"A", "B", "C", "F", "Degenerate"} /\ y.ty \in {"A", "B", "C", "F", "Degenerate"}
  BY <1>1, <1>6, <1>7, <1>8 DEF Types
<1> DEFINE spans(u) == 0 \in Gamma(u) /\ Prime - 1 \in Gamma(u)
           split(u) == Half - 1 \in Gamma(u) /\ Half \in Gamma(u)
<1>10. ASSUME NEW u, WellFormed(u)
       PROVE  /\ u.ty = "F" => spans(u) /\ (split(u) => u = Interval("F", Half, Half - 1))
              /\ u.ty = "C" => split(u) /\ (spans(u) => u = Interval("C", 0, Prime - 1))
              /\ u.ty \in {"A", "B", "Degenerate", "Empty"} => ~ spans(u) /\ ~ split(u)
  <2>1. u \in IntervalType /\ u = [ty |-> u.ty, a |-> u.a, b |-> u.b] /\ u.a \in Felt /\ u.b \in Felt
    BY <1>10, Typed DEF IntervalType
  <2>2. /\ u.a \in Int /\ u.b \in Int /\ 0 <= u.a /\ u.a < Prime /\ 0 <= u.b /\ u.b < Prime
        /\ Half \in Int /\ 1 < Half /\ Half < Prime /\ Prime \in Int
    BY <2>1, Halves, PrimeAssumption DEF Felt
  <2>3. 0 \in Felt /\ Prime - 1 \in Felt /\ Half \in Felt /\ Half - 1 \in Felt
    BY <2>2 DEF Felt
  <2>4. CASE u.ty = "F"
    <3>1. Gamma(u) = {v \in Felt : v >= u.a \/ v <= u.b} /\ Half <= u.a /\ u.b < Half
      BY <1>10, <2>4 DEF Gamma, WellFormed
    <3>2. spans(u)
      BY <2>2, <2>3, <3>1
    <3>3. ASSUME split(u) PROVE u = Interval("F", Half, Half - 1)
      <4>1. (Half - 1 >= u.a \/ Half - 1 <= u.b) /\ (Half >= u.a \/ Half <= u.b)
        BY <3>1, <3>3
      <4>2. u.a = Half /\ u.b = Half - 1
        BY <2>2, <3>1, <4>1
      <4> QED
        BY <2>1, <2>3, <2>4, <4>2, Named DEF Types
    <3> QED
      BY <2>4, <3>2, <3>3
  <2>5. CASE u.ty = "C"
    <3>1. Gamma(u) = {v \in Felt : u.a <= v /\ v <= u.b} /\ u.a < Half /\ Half <= u.b
      BY <1>10, <2>5 DEF Gamma, WellFormed
    <3>2. split(u)
      BY <2>2, <2>3, <3>1
    <3>3. ASSUME spans(u) PROVE u = Interval("C", 0, Prime - 1)
      <4>1. u.a <= 0 /\ Prime - 1 <= u.b
        BY <3>1, <3>3
      <4>2. u.a = 0 /\ u.b = Prime - 1
        BY <2>2, <4>1
      <4> QED
        BY <2>1, <2>3, <2>5, <4>2, Named DEF Types
    <3> QED
      BY <2>5, <3>2, <3>3
  <2>6. CASE u.ty \in {"A", "B", "Degenerate"}
    <3>1. Gamma(u) = {v \in Felt : u.a <= v /\ v <= u.b}
      BY <2>6 DEF Gamma
    <3>2. u.b < Half \/ Half <= u.a \/ u.a = u.b
      BY <1>10, <2>6 DEF WellFormed
    <3>3. ~ (u.a <= 0 /\ Prime - 1 <= u.b)
      BY <2>2, <3>2
    <3>4. ~ (u.a <= Half - 1 /\ Half <= u.b)
      BY <2>2, <3>2
    <3>5. ~ spans(u)
      BY <3>1, <3>3
    <3>6. ~ split(u)
      BY <3>1, <3>4
    <3> QED
      BY <2>6, <3>5, <3>6
  <2>7. CASE u.ty = "Empty"
    BY <2>7 DEF Gamma
  <2> QED
    BY <2>4, <2>5, <2>6, <2>7
<1> HIDE DEF z
<1>11. CASE {x.ty, y.ty} # {"C", "F"}
  <2>1. Gamma(z) \subseteq Gamma(x) \cap Gamma(y)
    BY <1>11, IntersectCases DEF z
  <2>2. ASSUME NEW u, NEW w, WellFormed(u), WellFormed(w), Intersect[<<u, z>>] = u,
               Gamma(z) \subseteq Gamma(u) \cap Gamma(w), {u.ty, w.ty} # {"C", "F"},
               u.ty \in {"A", "B", "C", "F", "Degenerate"}, w.ty \in {"A", "B", "C", "F", "Degenerate"}, u # w
        PROVE  Gamma(u) \subseteq Gamma(w)
    <3>1. CASE {u.ty, z.ty} # {"C", "F"}
      <4>1. Gamma(u) \subseteq Gamma(z)
        BY <1>1, <2>2, <3>1, IntersectCases
      <4> QED
        BY <2>2, <4>1
    <3>2. CASE u.ty = "C" /\ z.ty = "F"
      <4>1. spans(u) /\ spans(w)
        BY <1>1, <1>10, <2>2, <3>2
      <4>2. w.ty = "C"
        BY <1>10, <2>2, <3>2, <4>1
      <4> QED
        BY <1>10, <2>2, <3>2, <4>1, <4>2
    <3>3. CASE u.ty = "F" /\ z.ty = "C"
      <4>1. split(u) /\ split(w)
        BY <1>1, <1>10, <2>2, <3>3
      <4>2. w.ty = "F"
        BY <1>10, <2>2, <3>3, <4>1
      <4> QED
        BY <1>10, <2>2, <3>3, <4>1, <4>2
    <3> QED
      BY <3>1, <3>2, <3>3
  <2>3. Gamma(x) \subseteq Gamma(y)
    BY <1>2, <1>9, <1>11, <2>1, <2>2
  <2>4. Gamma(y) \subseteq Gamma(x)
    BY <1>2, <1>9, <1>11, <2>1, <2>2
  <2>5. Gamma(x) = Gamma(y)
    BY <2>3, <2>4
  <2> QED
    BY <1>9, <1>11, <2>5, SameValues
<1>12. ASSUME NEW u, NEW w, WellFormed(u), WellFormed(w), u.ty = "C", w.ty = "F",
              z = Intersect[<<u, w>>], Intersect[<<u, z>>] = u, Intersect[<<w, z>>] = w
       PROVE  Spanning(u, w)
  <2>1. /\ Intersect[<<w, u>>] = z
        /\ \/ z \in {u, w} \/ z.ty \in {"A", "B", "Degenerate", "Empty"}
           \/ z = Entire /\ u = Interval("C", 0, Prime - 1)
    BY <1>12, IntersectSpans
  <2>2. z # u
    BY <1>12, <2>1
  <2>3. z # w
    BY <1>12, <2>1
  <2>4. z.ty \notin {"A", "B", "Degenerate", "Empty"}
    <3>1. CASE z.ty \in {"A", "B", "Degenerate", "Empty"}
      <4>1. Gamma(w) \subseteq Gamma(z)
        BY <1>1, <1>12, <3>1, IntersectCases
      <4>2. spans(w) /\ ~ spans(z)
        BY <1>1, <1>10, <1>12, <3>1
      <4> QED
        BY <4>1, <4>2
    <3> QED
      BY <3>1
  <2> QED
    BY <1>12, <2>1, <2>2, <2>3, <2>4 DEF Spanning
<1>13. CASE x.ty = "C" /\ y.ty = "F"
  BY <1>2, <1>12, <1>13 DEF z
<1>14. CASE x.ty = "F" /\ y.ty = "C"
  <2>1. Intersect[<<y, x>>] = z
    BY <1>14, IntersectSpans DEF z
  <2> QED
    BY <1>2, <1>12, <1>14, <2>1
<1> QED
  BY <1>11, <1>13, <1>14

(* What a meet with one value takes nothing from is that value, or nothing. *)
LEMMA OnlyTrue ==
  ASSUME NEW x, WellFormed(x), Intersect[<<x, True>>] = x
  PROVE  x \in {True, Empty}
<1>1. WellFormed(True) /\ True = [ty |-> "Degenerate", a |-> 1, b |-> 1] /\ Gamma(True) = {1} /\ 1 \in Felt
  <2>1. 1 \in Felt
    BY PrimeAssumption DEF Felt
  <2> QED
    BY <2>1, Names DEF True
<1>2. Gamma(x) \subseteq Gamma(True)
  BY <1>1, IntersectCases
<1>3. x.ty \in Types
  BY Typed
<1>4. CASE x.ty = "Empty"
  BY <1>4, Names DEF WellFormed, IntervalType
<1>5. CASE x.ty = "Entire"
  <2>1. 0 \in Felt /\ Gamma(x) = Felt
    BY <1>5, PrimeAssumption DEF Felt, Gamma
  <2> QED
    BY <1>1, <1>2, <2>1
<1>6. CASE x.ty \in {"A", "B", "C", "F", "Degenerate"}
  <2>1. CASE Gamma(x) = {}
    <3>1. x.a \in Felt /\ x.a \in Gamma(x)
      <4>1. x.a \in Felt /\ x.b \in Felt /\ x.a \in Int /\ x.b \in Int /\ Half \in Int
        BY <1>3, Typed, Halves, PrimeAssumption DEF IntervalType, Felt
      <4>2. x.ty # "F" => x.a <= x.b
        BY <1>6, <4>1 DEF WellFormed
      <4> QED
        BY <1>6, <4>1, <4>2 DEF Gamma
    <3> QED
      BY <2>1, <3>1
  <2>2. CASE Gamma(x) # {}
    <3>1. Gamma(x) = Gamma(True)
      BY <1>1, <1>2, <2>2
    <3>2. x = True
      BY <1>1, <1>6, <3>1, SameValues
    <3> QED
      BY <3>2
  <2> QED
    BY <2>1, <2>2
<1> QED
  BY <1>3, <1>4, <1>5, <1>6 DEF Types

-----------------------------------------------------------------------------
(*------------------------------ natural numbers --------------------------*)
Below == {ss \in Nat \X Nat : ss[1] < ss[2]}

LEMMA Least ==
  ASSUME NEW T, T \subseteq Nat, T # {}
  PROVE  \E x \in T : \A y \in T : x <= y
<1>1. IsWellFoundedOn(Below, Nat)
  BY NatLessThanWellFounded, Zenon DEF OpToRel, Below
<1>2. PICK x \in T : \A y \in T : ~ (<<y, x>> \in Below)
  BY <1>1, WFMin
<1>3. \A y \in T : x \in Nat /\ y \in Nat /\ ~ (y < x)
  BY <1>2 DEF Below
<1> QED
  BY <1>3

LEMMA Greatest ==
  ASSUME NEW T, T \subseteq Nat, T # {}, NEW n \in Nat, \A x \in T : x <= n
  PROVE  \E x \in T : \A y \in T : y <= x
<1> DEFINE U == {k \in Nat : n - k \in T}
<1>1. U # {}
  <2>1. PICK x \in T : TRUE
    OBVIOUS
  <2>2. n - x \in Nat /\ n - (n - x) = x
    BY <2>1
  <2> QED
    BY <2>1, <2>2
<1>2. PICK k \in U : \A j \in U : k <= j
  <2> HIDE DEF U
  <2>1. U \subseteq Nat
    BY DEF U
  <2> QED
    BY <1>1, <2>1, Least
<1>3. \A y \in T : y <= n - k
  <2> TAKE y \in T
  <2>1. n - y \in Nat /\ n - (n - y) = y
    OBVIOUS
  <2>2. k <= n - y
    BY <1>2, <2>1
  <2> QED
    BY <1>2, <2>1, <2>2
<1> QED
  BY <1>2, <1>3

(* Induction, by the least number that is not in S. *)
LEMMA Induction ==
  ASSUME NEW S, 0 \in S, \A n \in Nat : n \in S => n + 1 \in S
  PROVE  \A n \in Nat : n \in S
<1> SUFFICES ASSUME Nat \ S # {} PROVE FALSE
  OBVIOUS
<1>1. PICK m \in Nat \ S : \A k \in Nat \ S : m <= k
  BY Least
<1>2. m # 0 /\ m - 1 \in Nat
  BY <1>1
<1>3. m - 1 \in S
  BY <1>1, <1>2
<1>4. (m - 1) + 1 \in S
  BY <1>2, <1>3
<1> QED
  BY <1>1, <1>2, <1>4

LEMMA LeastAndGreatest ==
  ASSUME NEW S, S \subseteq Felt, S # {}
  PROVE  Min(S) \in S /\ Max(S) \in S /\ \A v \in S : Min(S) <= v /\ v <= Max(S)
<1>1. S \subseteq Nat /\ Prime \in Nat /\ \A v \in S : v <= Prime
  BY PrimeAssumption DEF Felt
<1>2. \E v \in S : \A w \in S : v <= w
  BY <1>1, Least
<1>3. \E v \in S : \A w \in S : w <= v
  BY <1>1, Greatest
<1> QED
  BY <1>1, <1>2, <1>3 DEF Min, Max

LEMMA PowersOfTwo ==
  ASSUME NEW n \in Nat
  PROVE  2^n \in Nat /\ 2^n > 0
<1>1. IsFiniteSet(1..n) /\ Cardinality(1..n) = n
  BY FS_Interval
<1>2. IsFiniteSet(SUBSET (1..n)) /\ Cardinality(SUBSET (1..n)) = 2^n
  BY <1>1, FS_SUBSET
<1>3. Cardinality(SUBSET (1..n)) \in Nat /\ (Cardinality(SUBSET (1..n)) = 0 <=> SUBSET (1..n) = {})
  BY <1>2, FS_CardinalityType, FS_EmptySet
<1>4. {} \in SUBSET (1..n)
  OBVIOUS
<1> QED
  BY <1>2, <1>3, <1>4

(* The least positive number that v and the prime combine to divides the     *)
(* prime, so it is one.                                                      *)
LEMMA InverseExists ==
  ASSUME NEW v \in Felt, v # 0
  PROVE  Inv(v) \in Felt /\ (v * Inv(v)) % Prime = 1
<1> DEFINE T == {d \in 1..Prime : \E k, m \in Int : d = k * v + m * Prime}
<1>1. Prime \in Nat /\ v \in Nat /\ v > 0 /\ v < Prime /\ v % Prime = v /\ 0 \in Felt /\ 1 \in Felt
  BY PrimeAssumption, FeltsAreReduced DEF Felt
<1>2. v \in T
  <2>1. v = 1 * v + 0 * Prime /\ 1 \in Int /\ 0 \in Int
    BY <1>1
  <2>2. \E k, m \in Int : v = k * v + m * Prime
    BY <2>1
  <2>3. v \in 1..Prime
    BY <1>1
  <2> QED
    BY <2>2, <2>3
<1>3. PICK d \in T : \A e \in T : d <= e
  <2>1. T \subseteq Nat /\ T # {}
    BY <1>2
  <2> QED
    BY <2>1, Least
<1>4. PICK k, m \in Int : d = k * v + m * Prime
  BY <1>3
<1>5. d \in Nat /\ d > 0 /\ d <= v
  BY <1>2, <1>3
<1> DEFINE q == Prime \div d
           r == Prime % d
<1>6. q \in Int /\ r \in 0..(d - 1) /\ Prime = d * q + r
  BY <1>1, <1>5
<1>7. r = (-(q * k)) * v + (1 - q * m) * Prime
  <2> HIDE DEF q, r
  <2>1. d * q = (k * v) * q + (m * Prime) * q
    BY <1>1, <1>4, <1>6
  <2>2. (k * v) * q = (q * k) * v /\ (m * Prime) * q = (q * m) * Prime
    BY <1>1, <1>6
  <2>3. q * k \in Int /\ q * m \in Int
    BY <1>6
  <2>4. (-(q * k)) * v = -((q * k) * v) /\ (1 - q * m) * Prime = Prime - (q * m) * Prime
    BY <1>1, <2>3
  <2> QED
    BY <1>1, <1>5, <1>6, <2>1, <2>2, <2>3, <2>4
<1>8. r = 0
  <2>1. -(q * k) \in Int /\ 1 - q * m \in Int
    BY <1>6
  <2>2. r > 0 => r \in T
    <3>1. \E i, j \in Int : r = i * v + j * Prime
      BY <1>7, <2>1
    <3>2. r > 0 => r \in 1..Prime
      BY <1>1, <1>5, <1>6
    <3> HIDE DEF q, r
    <3> QED
      BY <3>1, <3>2
  <2> QED
    BY <1>3, <1>5, <1>6, <2>2
<1>9. d = 1
  <2>1. Prime % d = 0 /\ d < Prime
    BY <1>1, <1>5, <1>8
  <2>2. d \notin 2..(Prime - 1)
    BY <2>1, PrimeAssumption
  <2> HIDE DEF q, r, T
  <2> QED
    BY <1>1, <1>5, <2>1, <2>2
<1>10. (v * k) % Prime = 1
  <2>1. v * k = (-m) * Prime + 1
    BY <1>1, <1>4, <1>9
  <2>2. v * k \in Int
    BY <1>1
  <2> QED
    BY <1>1, <2>1, <2>2, Residue
<1>11. k % Prime \in Felt /\ (v * (k % Prime)) % Prime = 1
  <2> HIDE DEF q, r, T
  <2>1. k % Prime \in Felt /\ v \in Int
    <3>1. k \in Int
      BY <1>4
    <3>2. k % Prime \in Felt
      BY <3>1, Division
    <3>3. v \in Int
      BY <1>1
    <3> QED
      BY <3>2, <3>3
  <2>2. ((v % Prime) * (k % Prime)) % Prime = (v * k) % Prime
    BY <2>1, ResidueOfProduct
  <2> QED
    BY <1>1, <1>10, <2>1, <2>2
<1> QED
  BY <1>11 DEF Inv

(* There is no product zero of values that are not. *)
LEMMA NoZeroDivisors ==
  ASSUME NEW v \in Felt, NEW w \in Felt, (v * w) % Prime = 0
  PROVE  v = 0 \/ w = 0
<1> SUFFICES ASSUME v # 0 PROVE w = 0
  OBVIOUS
<1> DEFINE i == Inv(v)
<1>1. i \in Felt /\ (v * i) % Prime = 1
  BY InverseExists
<1>2. v \in Int /\ w \in Int /\ i \in Int /\ w % Prime = w /\ i % Prime = i /\ 0 % Prime = 0
  BY <1>1, FeltsAreReduced, PrimeAssumption DEF Felt
<1> HIDE DEF i
<1>3. ((v * i) * w) % Prime = w
  <2>1. v * i \in Int /\ 1 * w = w
    BY <1>2
  <2> QED
    BY <1>1, <1>2, <2>1, ResidueOfProduct
<1>4. ((v * w) * i) % Prime = 0
  <2>1. v * w \in Int /\ 0 * i = 0
    BY <1>2
  <2>2. 0 * (i % Prime) = 0
    BY <1>2
  <2> QED
    BY <1>2, <2>1, <2>2, ResidueOfProduct
<1>5. (v * i) * w = (v * w) * i
  BY <1>2
<1> QED
  BY <1>3, <1>4, <1>5

(*------------------------ every result is well formed --------------------*)
Ranges == Int \X Int

LEMMA RangeIsPair == \A u \in Ranges : u[1] \in Int /\ u[2] \in Int /\ u = <<u[1], u[2]>>
BY DEF Ranges

LEMMA Reduced == \A u \in Ranges : WellFormed(ReduceTo[u])
BY RangeIsPair, ReduceToIsSound

LEMMA Bounds ==
  ASSUME NEW x, WellFormed(x)
  PROVE  /\ x \in IntervalType /\ x.ty \in Types
         /\ x.a \in Felt /\ x.b \in Felt /\ x.a \in Int /\ x.b \in Int
         /\ First(x) \in Ranges /\ Second(x) \in Ranges /\ ToUnreduced(x) \in Ranges
<1>1. x \in IntervalType /\ x.ty \in Types /\ x.a \in Felt /\ x.b \in Felt
  BY DEF WellFormed, IntervalType
<1>2. Prime \in Int /\ x.a \in Int /\ x.b \in Int
  BY <1>1, FeltsAreReduced, PrimeAssumption
<1>3. ToUnreduced(x) \in Ranges /\ Second(x) \in Ranges
  BY <1>2 DEF ToUnreduced, Second, Ranges
<1>4. First(x) \in Ranges
  BY <1>2, <1>3 DEF First, Ranges
<1> QED
  BY <1>1, <1>2, <1>3, <1>4

LEMMA RangeOperations ==
  ASSUME NEW u \in Ranges, NEW w \in Ranges
  PROVE  /\ Hull(u, w) \in Ranges /\ Overlap(u, w) \in Ranges
         /\ LTPart(u, w) \in Ranges /\ LEPart(u, w) \in Ranges
         /\ GTPart(u, w) \in Ranges /\ GEPart(u, w) \in Ranges
         /\ Negated(u) \in Ranges /\ Added(u, w) \in Ranges /\ Product(u, w) \in Ranges
<1>1. /\ u[1] \in Int /\ u[2] \in Int /\ u = <<u[1], u[2]>>
      /\ w[1] \in Int /\ w[2] \in Int /\ w = <<w[1], w[2]>>
  BY RangeIsPair
<1>2. \A v, k \in Int : Max({v, k}) \in Int /\ Min({v, k}) \in Int
  BY Pairs
<1>3. Hull(u, w) \in Ranges /\ Overlap(u, w) \in Ranges
  BY <1>1, <1>2 DEF Hull, Overlap, Ranges
<1>4. /\ LTPart(u, w) \in Ranges /\ LEPart(u, w) \in Ranges
      /\ GTPart(u, w) \in Ranges /\ GEPart(u, w) \in Ranges
  <2>1. w[1] + 1 \in Int /\ w[2] - 1 \in Int
    BY <1>1
  <2>2. /\ <<u[1], Min({u[2], w[2] - 1})>> \in Ranges /\ <<u[1], Min({u[2], w[2]})>> \in Ranges
        /\ <<Max({u[1], w[1] + 1}), u[2]>> \in Ranges /\ <<Max({u[1], w[1]}), u[2]>> \in Ranges
    BY <1>1, <1>2, <2>1 DEF Ranges
  <2> QED
    BY <2>2 DEF Part, LTPart, LEPart, GTPart, GEPart
<1>5. Negated(u) \in Ranges /\ Added(u, w) \in Ranges
  BY <1>1 DEF Negated, Added, Ranges
<1>6. Product(u, w) \in Ranges
  <2>1. {u[i] * w[j] : i, j \in {1, 2}} = {u[1] * w[1], u[1] * w[2], u[2] * w[1], u[2] * w[2]}
    OBVIOUS
  <2>2. /\ u[1] * w[1] \in Int /\ u[1] * w[2] \in Int
        /\ u[2] * w[1] \in Int /\ u[2] * w[2] \in Int
    BY <1>1
  <2> QED
    BY <2>1, <2>2, CornersOfFour DEF Product, Corners, Ranges
<1> QED
  BY <1>3, <1>4, <1>5, <1>6

LEMMA JoinTyped ==
  ASSUME NEW x, NEW y, WellFormed(x), WellFormed(y)
  PROVE  WellFormed(Join[<<x, y>>])
<1>1. x \in IntervalType /\ y \in IntervalType /\ x.ty \in Types /\ y.ty \in Types
  BY Bounds
<1>2. Join[<<x, y>>] =
        IF "Entire" \in {x.ty, y.ty} THEN Entire
        ELSE IF x.ty = "Empty" THEN y
        ELSE IF y.ty = "Empty" THEN x
        ELSE IF "Degenerate" \in {x.ty, y.ty} THEN ReduceTo[Hull(ToUnreduced(x), ToUnreduced(y))]
        ELSE IF InOrder(x, y) THEN JoinRanges(x, y) ELSE JoinRanges(y, x)
  BY <1>1 DEF Join
<1>3. WellFormed(ReduceTo[Hull(ToUnreduced(x), ToUnreduced(y))])
  BY Bounds, RangeOperations, Reduced
<1>4. x.ty \in {"A", "B", "C", "F"} /\ y.ty \in {"A", "B", "C", "F"} =>
        WellFormed(JoinRanges(x, y)) /\ WellFormed(JoinRanges(y, x))
  BY JoinRangesIsSound
<1> QED
  BY <1>1, <1>2, <1>3, <1>4, Names DEF Types

LEMMA NegTyped ==
  ASSUME NEW x, WellFormed(x)
  PROVE  WellFormed(Neg[x])
<1>1. Neg[x] = ReduceTo[Negated(First(x))]
  BY Bounds DEF Neg
<1> QED
  BY <1>1, Bounds, RangeOperations, Reduced

LEMMA PlusTyped ==
  ASSUME NEW x, NEW y, WellFormed(x), WellFormed(y)
  PROVE  WellFormed(Plus[<<x, y>>])
<1>1. x \in IntervalType /\ y \in IntervalType
  BY Bounds
<1>2. Plus[<<x, y>>] = IF x.ty = "Empty" \/ y.ty = "Entire" THEN y
                       ELSE IF y.ty = "Empty" \/ x.ty = "Entire" THEN x
                       ELSE ReduceTo[Added(First(x), First(y))]
  BY <1>1 DEF Plus
<1> QED
  BY <1>2, Bounds, RangeOperations, Reduced

LEMMA MinusTyped ==
  ASSUME NEW x, NEW y, WellFormed(x), WellFormed(y)
  PROVE  WellFormed(Minus[<<x, y>>])
<1>1. x \in IntervalType /\ y \in IntervalType
  BY Bounds
<1>2. Minus[<<x, y>>] = Plus[<<x, Neg[y]>>]
  BY <1>1 DEF Minus
<1> QED
  BY <1>2, NegTyped, PlusTyped

LEMMA TimesTyped ==
  ASSUME NEW x, NEW y, WellFormed(x), WellFormed(y)
  PROVE  WellFormed(Times[<<x, y>>])
<1>1. x \in IntervalType /\ y \in IntervalType
  BY Bounds
<1>2. Times[<<x, y>>] =
        IF False \in {x, y} THEN False
        ELSE IF "Empty" \in {x.ty, y.ty} THEN Empty
        ELSE IF "Entire" \in {x.ty, y.ty} THEN Entire
        ELSE IF IsOneOf(x, y, {<<"B", "B">>}) THEN ReduceTo[Product(Second(x), Second(y))]
        ELSE ReduceTo[Product(First(x), First(y))]
  BY <1>1 DEF Times
<1>3. /\ WellFormed(ReduceTo[Product(Second(x), Second(y))])
      /\ WellFormed(ReduceTo[Product(First(x), First(y))])
  BY Bounds, RangeOperations, Reduced
<1> QED
  BY <1>2, <1>3, Names, TruthValues

LEMMA DifferenceTyped ==
  ASSUME NEW x, NEW y, WellFormed(x), WellFormed(y)
  PROVE  WellFormed(Difference[<<x, y>>])
<1> DEFINE i == Intersect[<<x, y>>]
           d == Difference[<<x, y>>]
<1>1. x \in IntervalType /\ y \in IntervalType /\ WellFormed(i)
  BY Bounds, IntersectCases
<1>2. /\ x.a \in Int /\ x.b \in Int /\ y.a \in Int /\ y.b \in Int /\ i.a \in Int /\ i.b \in Int
      /\ Prime \in Int
  BY <1>1, Bounds, PrimeAssumption
<1>3. /\ WellFormed(ReduceTo[<<y.b + 1, Prime - 1>>]) /\ WellFormed(ReduceTo[<<0, y.a - 1>>])
      /\ \A v \in {i.a, i.b} : /\ WellFormed(ReduceTo[<<v + 1, x.b>>])
                               /\ WellFormed(ReduceTo[<<x.a, v - 1>>])
  BY <1>2, ReduceToIsSound
<1>4. d \in {x, Empty, ReduceTo[<<y.b + 1, Prime - 1>>], ReduceTo[<<0, y.a - 1>>],
             ReduceTo[<<i.a + 1, x.b>>], ReduceTo[<<i.b + 1, x.b>>],
             ReduceTo[<<x.a, i.a - 1>>], ReduceTo[<<x.a, i.b - 1>>]}
  BY <1>1 DEF Difference
<1> QED
  BY <1>3, <1>4, Names

LEMMA QuotientTyped ==
  ASSUME NEW v \in Int, NEW w \in Int, w # 0
  PROVE  Quotient(v, w) \in Int /\ Remainder(v, w) \in Int
<1>1. Abs(v) \in Nat /\ Abs(w) \in Nat /\ Abs(w) > 0
  BY DEF Abs
<1>2. Abs(v) \div Abs(w) \in Int
  BY <1>1
<1>3. Quotient(v, w) \in Int
  BY <1>2 DEF Quotient
<1> QED
  BY <1>3 DEF Remainder

Ordered == {u \in Ranges : u[1] <= u[2]}
Parted(us) == DOMAIN us \subseteq {1, 2} /\ \A i \in DOMAIN us : us[i] \in Ordered

LEMMA PartsTyped ==
  ASSUME NEW x, WellFormed(x)
  PROVE  Parted(UnsignedParts(x)) /\ Parted(SignedParts(x))
<1>1. x.ty \in Types /\ x.a \in Felt /\ x.b \in Felt /\ x.a \in Int /\ x.b \in Int
  BY Bounds
<1>2. /\ Prime \in Int /\ Half \in Int /\ 1 < Half /\ Half < Prime /\ ToSigned(x.a) \in Int
      /\ 0 <= x.a /\ x.a <= Prime - 1 /\ 0 <= x.b /\ x.b <= Prime - 1
  BY <1>1, Halves, PrimeAssumption DEF ToSigned, Felt
<1>3. \A v, w \in Int : v <= w => <<v, w>> \in Ordered
  BY DEF Ranges, Ordered
<1>4. \A u \in Ordered : Parted(<<u>>)
  BY DEF Parted
<1>5. \A u, w \in Ordered : Parted(<<u, w>>)
  BY DEF Parted
<1>6. Parted(<<>>)
  BY DEF Parted
<1>7. /\ x.ty \in {"A", "B", "C", "Degenerate"} => x.a <= x.b
      /\ x.ty = "F" => Half <= x.a /\ x.b < Half
      /\ x.ty = "C" => x.a < Half /\ Half <= x.b
  BY <1>1, <1>2 DEF WellFormed
<1>8. ToUnreduced(x) \in Ordered \/ x.ty \in {"F", "Empty"}
  <2>1. ToUnreduced(x) = IF x.ty = "Empty" THEN <<1, 0>>
                         ELSE IF x.ty = "Entire" THEN <<0, Prime - 1>> ELSE <<x.a, x.b>>
    BY DEF ToUnreduced
  <2> QED
    BY <1>1, <1>2, <1>3, <1>7, <2>1 DEF Types
<1>9. Parted(UnsignedParts(x))
  <2>1. x.ty = "F" => Parted(<<<<x.a, Prime - 1>>, <<0, x.b>>>>)
    BY <1>1, <1>2, <1>3, <1>5
  <2>2. x.ty \notin {"F", "Empty"} => Parted(<<ToUnreduced(x)>>)
    BY <1>4, <1>8
  <2> QED
    BY <1>6, <2>1, <2>2 DEF UnsignedParts
<1>10. Parted(SignedParts(x))
  <2>1. x.ty = "C" => Parted(<<<<Half - Prime, x.b - Prime>>, <<x.a, Half - 1>>>>)
    <3>1. x.ty = "C" => <<Half - Prime, x.b - Prime>> \in Ordered /\ <<x.a, Half - 1>> \in Ordered
      BY <1>1, <1>2, <1>3, <1>7
    <3> QED
      BY <1>5, <3>1
  <2>2. <<Half - Prime, Half - 1>> \in Ordered /\ <<ToSigned(x.a), ToSigned(x.a)>> \in Ordered
    BY <1>1, <1>2, <1>3
  <2>3. x.ty = "A" => <<x.a, x.b>> \in Ordered
    BY <1>1, <1>2, <1>3, <1>7
  <2>4. x.ty = "B" => Second(x) \in Ordered
    BY <1>1, <1>2, <1>3, <1>7 DEF Second
  <2>5. x.ty = "F" => First(x) \in Ordered
    BY <1>1, <1>2, <1>3, <1>7 DEF First
  <2> QED
    BY <1>1, <1>4, <1>6, <2>1, <2>2, <2>3, <2>4, <2>5 DEF SignedParts, Types
<1> QED
  BY <1>9, <1>10

LEMMA IntDivTyped ==
  ASSUME NEW us, NEW ws, Parted(us), Parted(ws)
  PROVE  WellFormed(IntDiv(us, ws))
<1> DEFINE piece(u, w) == ReduceTo[Corners({Quotient(u[i], w[j]) : i, j \in {1, 2}})]
           of(i, j) == IF i \in DOMAIN us /\ j \in DOMAIN ws THEN piece(us[i], ws[j]) ELSE Empty
           all == Join[<<Join[<<Join[<<of(1, 1), of(1, 2)>>], of(2, 1)>>], of(2, 2)>>]
<1>1. CASE us # <<>> /\ \E w \in ToSet(ws) : HasZero(w)
  <2>1. IntDiv(us, ws) = Entire
    BY <1>1 DEF IntDiv, JoinPieces
  <2> QED
    BY <2>1, Names
<1>2. CASE ~ (us # <<>> /\ \E w \in ToSet(ws) : HasZero(w))
  <2>1. IntDiv(us, ws) = all
    BY <1>2 DEF IntDiv, JoinPieces
  <2>2. ASSUME NEW i \in DOMAIN us, NEW j \in DOMAIN ws
        PROVE  WellFormed(piece(us[i], ws[j]))
    <3>1. us # <<>>
      OBVIOUS
    <3>2. ~ HasZero(ws[j])
      BY <1>2, <3>1 DEF ToSet
    <3>3. /\ us[i][1] \in Int /\ us[i][2] \in Int
          /\ ws[j][1] \in Int /\ ws[j][2] \in Int /\ ws[j][1] <= ws[j][2]
      BY RangeIsPair DEF Parted, Ordered
    <3>4. ws[j][1] # 0 /\ ws[j][2] # 0
      BY <3>2, <3>3 DEF HasZero
    <3>5. \A k, l \in {1, 2} : Quotient(us[i][k], ws[j][l]) \in Int
      BY <3>3, <3>4, QuotientTyped
    <3>6. {Quotient(us[i][k], ws[j][l]) : k, l \in {1, 2}} =
            {Quotient(us[i][1], ws[j][1]), Quotient(us[i][1], ws[j][2]),
             Quotient(us[i][2], ws[j][1]), Quotient(us[i][2], ws[j][2])}
      OBVIOUS
    <3>7. Corners({Quotient(us[i][k], ws[j][l]) : k, l \in {1, 2}}) \in Ranges
      BY <3>5, <3>6, CornersOfFour DEF Corners, Ranges
    <3> QED
      BY <3>7, Reduced
  <2>3. \A i, j \in {1, 2} : WellFormed(of(i, j))
    BY <2>2, Names
  <2> QED
    <3> HIDE DEF of
    <3> QED
      BY <2>1, <2>3, JoinTyped
<1> QED
  BY <1>1, <1>2

LEMMA SignedModTyped ==
  ASSUME NEW us, NEW ws, Parted(us), Parted(ws)
  PROVE  WellFormed(SignedMod(us, ws))
<1> DEFINE most(w) == Max({Abs(w[1]), Abs(w[2])}) - 1
           rem(u, w) == Remainder(u[1], w[1])
           piece(u, w) ==
             IF u[1] = u[2] /\ w[1] = w[2] THEN ReduceTo[<<rem(u, w), rem(u, w)>>]
             ELSE ReduceTo[<<IF u[1] < 0 THEN Max({u[1], -most(w)}) ELSE 0,
                             IF u[2] > 0 THEN Min({u[2], most(w)}) ELSE 0>>]
           of(i, j) == IF i \in DOMAIN us /\ j \in DOMAIN ws THEN piece(us[i], ws[j]) ELSE Empty
           all == Join[<<Join[<<Join[<<of(1, 1), of(1, 2)>>], of(2, 1)>>], of(2, 2)>>]
<1>1. CASE us # <<>> /\ \E w \in ToSet(ws) : HasZero(w)
  <2>1. SignedMod(us, ws) = Entire
    BY <1>1 DEF SignedMod, JoinPieces
  <2> QED
    BY <2>1, Names
<1>2. CASE ~ (us # <<>> /\ \E w \in ToSet(ws) : HasZero(w))
  <2>1. SignedMod(us, ws) = all
    BY <1>2 DEF SignedMod, JoinPieces
  <2>2. ASSUME NEW i \in DOMAIN us, NEW j \in DOMAIN ws
        PROVE  WellFormed(piece(us[i], ws[j]))
    <3> DEFINE u == us[i]
               w == ws[j]
    <3>1. us # <<>>
      OBVIOUS
    <3>2. ~ HasZero(w)
      BY <1>2, <3>1 DEF ToSet
    <3>3. u[1] \in Int /\ u[2] \in Int /\ w[1] \in Int /\ w[2] \in Int /\ w[1] <= w[2]
      BY RangeIsPair DEF Parted, Ordered
    <3>4. w[1] # 0
      BY <3>2, <3>3 DEF HasZero
    <3> HIDE DEF u, w
    <3>5. rem(u, w) \in Int
      BY <3>3, <3>4, QuotientTyped
    <3>6. most(w) \in Int /\ -most(w) \in Int
      <4>1. Abs(w[1]) \in Int /\ Abs(w[2]) \in Int
        BY <3>3 DEF Abs
      <4> QED
        BY <4>1, Pairs
    <3>7. /\ (IF u[1] < 0 THEN Max({u[1], -most(w)}) ELSE 0) \in Int
          /\ (IF u[2] > 0 THEN Min({u[2], most(w)}) ELSE 0) \in Int
      <4> HIDE DEF most
      <4>1. \A k, l \in Int : Max({k, l}) \in Int /\ Min({k, l}) \in Int
        BY Pairs
      <4>2. Max({u[1], -most(w)}) \in Int /\ Min({u[2], most(w)}) \in Int
        BY <3>3, <3>6, <4>1
      <4> QED
        BY <4>2
    <3>8. WellFormed(piece(u, w))
      <4> HIDE DEF most, rem
      <4> QED
        BY <3>5, <3>7, ReduceToIsSound
    <3> QED
      BY <3>8 DEF u, w
  <2>3. \A i, j \in {1, 2} : WellFormed(of(i, j))
    <3> HIDE DEF piece
    <3> QED
      BY <2>2, Names
  <2> QED
    <3> HIDE DEF of
    <3> QED
      BY <2>1, <2>3, JoinTyped
<1> QED
  BY <1>1, <1>2

LEMMA DegenerateTyped == \A v \in Int : WellFormed(Degenerate(v)) /\ Degenerate(v) = Degenerate(v % Prime)
<1> TAKE v \in Int
<1>1. v % Prime \in Felt /\ (v % Prime) % Prime = v % Prime
  BY Division, FeltsAreReduced
<1>2. Degenerate(v) = Degenerate(v % Prime)
  BY <1>1 DEF Degenerate, Interval
<1> QED
  BY <1>1, <1>2, Names

LEMMA FromBitsTyped == \A B : FromBits(B) \in Nat
<1> TAKE B
<1> DEFINE S == {0} \cup {v \in 1..(2 * Prime - 1) : Bits(v) \subseteq B}
<1>1. 2 * Prime \in Nat /\ S \subseteq Nat /\ S # {} /\ \A v \in S : v <= 2 * Prime
  BY PrimeAssumption
<1>2. \E v \in S : \A w \in S : w <= v
  <2> HIDE DEF S
  <2> QED
    BY <1>1, Greatest
<1>3. Max(S) \in S
  BY <1>2 DEF Max
<1> QED
  BY <1>1, <1>3 DEF FromBits

LEMMA BitwiseTyped ==
  ASSUME NEW op \in {"bit_and", "bit_or", "bit_xor"}, NEW V
  PROVE  Result(op, V) \in Felt
<1>1. Result(op, V) = IF op = "bit_and" THEN FromBits(Bits(V[1]) \cap Bits(V[2])) % Prime
                      ELSE IF op = "bit_or" THEN FromBits(Bits(V[1]) \cup Bits(V[2])) % Prime
                      ELSE FromBits((Bits(V[1]) \cup Bits(V[2])) \ (Bits(V[1]) \cap Bits(V[2]))) % Prime
  BY DEF Result
<1>2. \A B : FromBits(B) % Prime \in Felt
  BY FromBitsTyped, Division
<1> QED
  BY <1>1, <1>2

LEMMA FeltDivTyped ==
  ASSUME NEW x, NEW y, WellFormed(x), WellFormed(y)
  PROVE  WellFormed(FeltDiv(x, y))
<1>1. y.ty = "Degenerate" /\ y # False => y.a \in Felt /\ y.a # 0
  <2>1. y \in IntervalType /\ y.a \in Felt /\ (y.ty = "Degenerate" => y.a = y.b)
    BY Bounds DEF WellFormed
  <2>2. False = [ty |-> "Degenerate", a |-> 0, b |-> 0]
    BY Names, PrimeAssumption DEF False, Felt
  <2> QED
    BY <2>1, <2>2 DEF IntervalType
<1>2. y.ty = "Degenerate" /\ y # False => WellFormed(Times[<<x, Degenerate(Inv(y.a))>>])
  BY <1>1, InverseExists, Names, TimesTyped
<1> QED
  BY <1>2, Names DEF FeltDiv

LEMMA ModTyped ==
  ASSUME NEW x, NEW y, WellFormed(x), WellFormed(y)
  PROVE  WellFormed(Mod(x, y))
<1>1. /\ x.a \in Felt /\ y.a \in Felt /\ y.b \in Felt /\ x.a \in Int /\ y.a \in Int /\ y.b \in Int
      /\ x \in IntervalType /\ y \in IntervalType
  BY Bounds
<1>2. y.ty = "Degenerate" /\ y # False => WellFormed(Degenerate(x.a % y.a))
  <2>1. False = [ty |-> "Degenerate", a |-> 0, b |-> 0]
    BY Names, PrimeAssumption DEF False, Felt
  <2>2. y.ty = "Degenerate" /\ y # False => y.a > 0
    BY <1>1, <2>1, PrimeAssumption DEF WellFormed, IntervalType, Felt
  <2>3. y.ty = "Degenerate" /\ y # False => x.a % y.a \in Int
    BY <1>1, <2>2
  <2> QED
    BY <2>3, DegenerateTyped
<1>3. WellFormed(ReduceTo[<<0, y.b - 1>>])
  BY <1>1, ReduceToIsSound
<1>4. Mod(x, y) \in {Empty, Degenerate(x.a % y.a), Entire, ReduceTo[<<0, y.b - 1>>]}
  BY DEF Mod
<1>5. Mod(x, y) = Degenerate(x.a % y.a) => 
        WellFormed(Mod(x, y))
  <2>1. Mod(x, y) = IF "Empty" \in {x.ty, y.ty} THEN Empty
                    ELSE IF x.ty = "Degenerate" /\ y.ty = "Degenerate" /\ y # False
                    THEN Degenerate(x.a % y.a)
                    ELSE IF y.ty \in {"F", "Entire"} \/ Intersect[<<y, False>>] = False THEN Entire
                    ELSE ReduceTo[<<0, y.b - 1>>]
    BY DEF Mod
  <2> QED
    BY <1>2, <1>3, <2>1, Names
<1> QED
  BY <1>3, <1>4, <1>5, Names

LEMMA BitAndTyped ==
  ASSUME NEW x, NEW y, WellFormed(x), WellFormed(y)
  PROVE  WellFormed(BitAnd(x, y))
<1>1. x.a \in Int /\ y.a \in Int
  BY Bounds
<1>2. /\ WellFormed(ReduceTo[<<0, x.a>>]) /\ WellFormed(ReduceTo[<<0, y.a>>])
      /\ WellFormed(Degenerate(Result("bit_and", <<x.a, y.a>>)))
  BY <1>1, ReduceToIsSound, BitwiseTyped, Names
<1> QED
  BY <1>2, Names DEF BitAnd

LEMMA BitOrTyped ==
  ASSUME NEW x, NEW y, WellFormed(x), WellFormed(y), NEW op \in {"bit_or", "bit_xor"}
  PROVE  WellFormed(BitOr(op, x, y))
<1>1. WellFormed(Degenerate(Result(op, <<x.a, y.a>>)))
  BY BitwiseTyped, Names
<1>2. BitOr(op, x, y) \in {Empty, x, y, Degenerate(Result(op, <<x.a, y.a>>)), Entire}
  BY DEF BitOr
<1> QED
  BY <1>1, <1>2, Names

LEMMA ShiftTyped ==
  ASSUME NEW x, NEW y, WellFormed(x), WellFormed(y), NEW op
  PROVE  WellFormed(Shift(op, x, y))
<1>1. x.a \in Nat /\ y.a \in Nat
  BY Bounds, PrimeAssumption DEF Felt
<1>2. 2^y.a \in Nat /\ 2^y.a > 0
  BY <1>1, PowersOfTwo
<1>3. x.a * 2^y.a \in Int /\ x.a \div 2^y.a \in Int
  BY <1>1, <1>2
<1>4. WellFormed(Degenerate(IF op = "shl" THEN x.a * 2^y.a ELSE x.a \div 2^y.a))
  BY <1>3, DegenerateTyped
<1> QED
  BY <1>4, Names, TruthValues DEF Shift

LEMMA CompareTyped ==
  ASSUME NEW x, NEW y, NEW op \in Predicates
  PROVE  Compare(op, x, y) \in {False, True, Boolean}
BY DEF Compare, Predicates

LEMMA BooleanValues ==
  ASSUME NEW x, IsBoolean(x)
  PROVE  WellFormed(x) /\ Gamma(x) \subseteq {0, 1}
<1>1. 0 \in Felt /\ 1 \in Felt
  BY PrimeAssumption DEF Felt
<1>2. Gamma(False) = {0} /\ Gamma(True) = {1}
  BY <1>1, Names DEF False, True
<1>3. Gamma(Boolean) \subseteq {0, 1}
  <2>1. Boolean = [ty |-> "A", a |-> 0, b |-> 1]
    BY <1>1, Named DEF Boolean, Types
  <2> QED
    BY <2>1, PrimeAssumption DEF Gamma, Felt
<1> QED
  BY <1>2, <1>3, TruthValues DEF IsBoolean

LEMMA BoolResultTyped ==
  ASSUME NEW op, NEW values, \A V \in values : Result(op, V) \in {0, 1}
  PROVE  BoolResult(op, values) \in {False, True, Boolean}
<1> DEFINE results == {Result(op, V) : V \in values}
<1>1. Cardinality(results) = 1 => results # {}
  BY FS_EmptySet
<1>2. Cardinality(results) = 1 => (CHOOSE r \in results : TRUE) \in {0, 1}
  BY <1>1
<1> QED
  BY <1>2 DEF BoolResult, False, True

(* What the boolean operations reject is the only thing that must not come.  *)
LEMMA TransferTyped ==
  ASSUME NEW op \in Operations, NEW X, \A i \in 1..Arity(op) : WellFormed(X[i]),
         op \in BoolOps \cup {"not"} => \A i \in 1..Arity(op) : IsBoolean(X[i])
  PROVE  WellFormed(Transfer(op, X))
<1> DEFINE x == X[1]
           y == X[2]
<1>1. WellFormed(x) /\ (Arity(op) # 1 => WellFormed(y)) /\ (op = "select" => WellFormed(X[3]))
  BY DEF Arity, FeltUnaryOps
<1> HIDE DEF x, y
<1>2. CASE op \in {"add", "sub", "mul"}
  BY <1>1, <1>2, PlusTyped, MinusTyped, TimesTyped
     DEF Transfer, x, y, Arity, FeltUnaryOps, Predicates, BoolOps
<1>3. CASE op \in {"uintdiv", "sintdiv", "smod"}
  <2>1. WellFormed(y)
    BY <1>1, <1>3 DEF Arity, FeltUnaryOps
  <2>2. /\ op = "uintdiv" => Transfer(op, X) = IntDiv(UnsignedParts(x), UnsignedParts(y))
        /\ op = "sintdiv" => Transfer(op, X) = IntDiv(SignedParts(x), SignedParts(y))
        /\ op = "smod" => Transfer(op, X) = SignedMod(SignedParts(x), SignedParts(y))
    BY DEF Transfer, x, y, Predicates, BoolOps
  <2> QED
    BY <1>1, <1>3, <2>1, <2>2, PartsTyped, IntDivTyped, SignedModTyped
<1>4. CASE op \in {"div", "umod", "bit_and", "bit_or", "bit_xor", "shl", "shr"}
  <2>1. WellFormed(y)
    BY <1>1, <1>4 DEF Arity, FeltUnaryOps
  <2>2. Transfer(op, X) = IF op = "div" THEN FeltDiv(x, y) ELSE IF op = "umod" THEN Mod(x, y)
                          ELSE IF op = "bit_and" THEN BitAnd(x, y)
                          ELSE IF op \in {"bit_or", "bit_xor"} THEN BitOr(op, x, y)
                          ELSE Shift(op, x, y)
    BY <1>4 DEF Transfer, x, y, Predicates, BoolOps
  <2> QED
    BY <1>1, <1>4, <2>1, <2>2, FeltDivTyped, ModTyped, BitAndTyped, BitOrTyped, ShiftTyped
<1>5. CASE op \in FeltUnaryOps
  <2>1. Transfer(op, X) = IF op = "neg" THEN Neg[x] ELSE IF op = "bit_not" THEN Minus[<<True, x>>]
                          ELSE Entire
    BY <1>5 DEF Transfer, x, Complement, FeltUnaryOps, Predicates, BoolOps
  <2> QED
    BY <1>1, <2>1, NegTyped, MinusTyped, TruthValues, Names
<1>6. CASE op \in Predicates
  <2>1. Transfer(op, X) = Compare(op, x, y)
    BY <1>6 DEF Transfer, x, y, Predicates, BoolOps
  <2> QED
    BY <1>6, <2>1, CompareTyped, TruthValues
<1>7. CASE op \in BoolOps
  <2>1. Transfer(op, X) = BoolResult(op, Gamma(x) \X Gamma(y))
    BY <1>7 DEF Transfer, x, y, Predicates, BoolOps
  <2>2. Gamma(x) \subseteq {0, 1} /\ Gamma(y) \subseteq {0, 1}
    BY <1>7, BooleanValues DEF Arity, FeltUnaryOps, BoolOps, x, y
  <2>3. \A V \in Gamma(x) \X Gamma(y) : Result(op, V) \in {0, 1}
    <3> SUFFICES ASSUME NEW v \in {0, 1}, NEW w \in {0, 1}
                 PROVE  Result(op, <<v, w>>) \in {0, 1}
      BY <2>2
    <3>1. Max({v, w}) \in {0, 1}
      BY Pairs
    <3>2. Result(op, <<v, w>>) = IF op = "and" THEN v * w ELSE IF op = "or" THEN Max({v, w})
                                 ELSE FromBool(v # w)
      BY <1>7 DEF Result, BoolOps
    <3> QED
      BY <3>1, <3>2 DEF FromBool
  <2> QED
    BY <2>1, <2>3, BoolResultTyped, TruthValues
<1>8. CASE op = "not"
  <2>1. Transfer(op, X) = BoolResult(op, {<<v>> : v \in Gamma(x)})
    BY <1>8 DEF Transfer, x, Predicates, BoolOps
  <2>2. Gamma(x) \subseteq {0, 1}
    BY <1>8, BooleanValues DEF Arity, x
  <2>3. \A V \in {<<v>> : v \in Gamma(x)} : Result(op, V) \in {0, 1}
    <3> SUFFICES ASSUME NEW v \in {0, 1} PROVE Result(op, <<v>>) \in {0, 1}
      BY <2>2
    <3> QED
      BY <1>8 DEF Result
  <2> QED
    BY <2>1, <2>3, BoolResultTyped, TruthValues
<1>9. CASE op = "cast"
  BY <1>1, <1>9 DEF Transfer, x, Predicates, BoolOps
<1>10. CASE op = "select"
  <2>1. Transfer(op, X) = SelectValue(x, y, X[3])
    BY <1>10 DEF Transfer, x, y, Predicates, BoolOps
  <2>2. WellFormed(y) /\ WellFormed(X[3])
    BY <1>1, <1>10 DEF Arity, FeltUnaryOps
  <2> QED
    BY <2>1, <2>2, JoinTyped, Names DEF SelectValue
<1> QED
  BY <1>2, <1>3, <1>4, <1>5, <1>6, <1>7, <1>8, <1>9, <1>10 DEF Operations, FeltOps, Divisions

-----------------------------------------------------------------------------
(*----------------- no result of the operands' values is lost -------------*)
(* The subsets of S and one more element are those of S, without and with it. *)
LEMMA SubsetsDouble ==
  ASSUME NEW S, NEW e, e \notin S, IsFiniteSet(S)
  PROVE  Cardinality(SUBSET (S \cup {e})) = 2 * Cardinality(SUBSET S)
<1> DEFINE A == SUBSET S
           B == {T \cup {e} : T \in A}
           f == [T \in A |-> T \cup {e}]
<1>1. SUBSET (S \cup {e}) = A \cup B
  <2>1. ASSUME NEW T \in SUBSET (S \cup {e}), e \in T PROVE T \in B
    <3>1. T \ {e} \in A /\ T = (T \ {e}) \cup {e}
      BY <2>1
    <3> QED
      BY <3>1
  <2>2. ASSUME NEW T \in SUBSET (S \cup {e}), e \notin T PROVE T \in A
    BY <2>2
  <2>3. A \cup B \subseteq SUBSET (S \cup {e})
    OBVIOUS
  <2> QED
    BY <2>1, <2>2, <2>3, Zenon
<1>2. A \cap B = {}
  OBVIOUS
<1>3. f \in Bijection(A, B)
  <2>1. ASSUME NEW T \in A, NEW U \in A, f[T] = f[U] PROVE T = U
    <3>1. e \notin T /\ e \notin U /\ T \cup {e} = U \cup {e}
      BY <2>1
    <3>2. \A d : d \in T <=> d \in T \cup {e} /\ d # e
      BY <3>1
    <3>3. \A d : d \in U <=> d \in U \cup {e} /\ d # e
      BY <3>1
    <3>4. \A d : d \in T <=> d \in U
      BY <3>1, <3>2, <3>3
    <3> HIDE DEF f
    <3> QED
      BY <3>4
  <2>2. f \in [A -> B]
    OBVIOUS
  <2>3. \A U \in B : \E T \in A : f[T] = U
    OBVIOUS
  <2>4. \A T, U \in A : f[T] = f[U] => T = U
    BY <2>1
  <2> HIDE DEF f, A, B
  <2>5. f \in Injection(A, B)
    BY <2>2, <2>4 DEF Injection, IsInjective
  <2>6. f \in Surjection(A, B)
    BY <2>2, <2>3 DEF Surjection
  <2> QED
    BY <2>5, <2>6 DEF Bijection
<1>4. IsFiniteSet(A)
  BY FS_SUBSET
<1> HIDE DEF A, B, f
<1>5. IsFiniteSet(B) /\ Cardinality(B) = Cardinality(A)
  BY <1>3, <1>4, FS_Bijection DEF ExistsBijection
<1>6. Cardinality(A \cup B) = Cardinality(A) + Cardinality(B) - Cardinality(A \cap B)
  BY <1>4, <1>5, FS_Union
<1>7. Cardinality(A) \in Nat /\ Cardinality(A \cap B) = 0
  BY <1>2, <1>4, FS_CardinalityType, FS_EmptySet
<1>8. Cardinality(A \cup B) = 2 * Cardinality(A)
  BY <1>5, <1>6, <1>7
<1> QED
  BY <1>1, <1>8 DEF A

LEMMA PowersDouble ==
  /\ 2^0 = 1
  /\ \A n \in Nat : 2^(n + 1) = 2 * 2^n
<1>1. \A n \in Nat : IsFiniteSet(1..n) /\ Cardinality(SUBSET (1..n)) = 2^n
  <2> TAKE n \in Nat
  <2>1. IsFiniteSet(1..n) /\ Cardinality(1..n) = n
    BY FS_Interval
  <2> QED
    BY <2>1, FS_SUBSET
<1>2. 2^0 = 1
  <2>1. SUBSET (1..0) = {{}}
    OBVIOUS
  <2> QED
    BY <1>1, <2>1, FS_Singleton
<1>3. ASSUME NEW n \in Nat PROVE 2^(n + 1) = 2 * 2^n
  <2>1. 1..(n + 1) = (1..n) \cup {n + 1} /\ n + 1 \notin 1..n
    OBVIOUS
  <2>2. Cardinality(SUBSET ((1..n) \cup {n + 1})) = 2 * Cardinality(SUBSET (1..n))
    BY <1>1, <2>1, SubsetsDouble
  <2>3. Cardinality(SUBSET (1..(n + 1))) = 2^(n + 1)
    BY <1>1
  <2> QED
    BY <1>1, <2>1, <2>2, <2>3
<1> QED
  BY <1>2, <1>3

LEMMA QuotientOfNaturals ==
  ASSUME NEW p \in Nat, NEW q \in Nat, q > 0
  PROVE  /\ p \div q \in Nat /\ p % q \in 0..(q - 1)
         /\ p = q * (p \div q) + (p % q)
OBVIOUS

LEMMA QuotientIs ==
  ASSUME NEW p \in Nat, NEW q \in Nat, q > 0, NEW k \in Nat, q * k <= p, p < q * k + q
  PROVE  p \div q = k
<1> DEFINE m == p \div q
<1>1. m \in Nat /\ q * m <= p /\ p < q * m + q
  BY QuotientOfNaturals
<1> HIDE DEF m
<1>2. ~ (m < k)
  <2> SUFFICES ASSUME m + 1 <= k PROVE FALSE
    BY <1>1
  <2>1. q * (m + 1) <= q * k /\ q * (m + 1) = q * m + q
    BY <1>1
  <2> QED
    BY <1>1, <2>1
<1>3. ~ (k < m)
  <2> SUFFICES ASSUME k + 1 <= m PROVE FALSE
    BY <1>1
  <2>1. q * (k + 1) <= q * m /\ q * (k + 1) = q * k + q
    BY <1>1
  <2> QED
    BY <1>1, <2>1
<1> QED
  BY <1>1, <1>2, <1>3 DEF m

LEMMA QuotientMonotone ==
  ASSUME NEW p \in Nat, NEW r \in Nat, p <= r, NEW q \in Nat, NEW s \in Nat, 0 < s, s <= q
  PROVE  p \div q <= r \div s
<1> DEFINE k == p \div q
           m == r \div s
<1>1. k \in Nat /\ q * k <= p /\ m \in Nat /\ r < s * m + s
  BY QuotientOfNaturals
<1> HIDE DEF k, m
<1>2. ~ (m < k)
  <2> SUFFICES ASSUME m + 1 <= k PROVE FALSE
    BY <1>1
  <2>1. s * (m + 1) <= s * k /\ s * (m + 1) = s * m + s
    BY <1>1
  <2>2. s * k <= q * k
    BY <1>1
  <2>3. s * m \in Nat /\ s * k \in Nat /\ q * k \in Nat
    BY <1>1
  <2> QED
    BY <1>1, <2>1, <2>2, <2>3
<1> QED
  BY <1>1, <1>2 DEF k, m

(* Halving and doubling the divisor. *)
LEMMA QuotientHalved ==
  ASSUME NEW v \in Nat, NEW q \in Nat, q > 0
  PROVE  v \div q = 2 * (v \div (2 * q)) + ((v \div q) % 2)
<1> DEFINE m == v \div q
           h == m \div 2
<1>1. m \in Nat /\ q * m <= v /\ v < q * m + q
  BY QuotientOfNaturals
<1>2. h \in Nat /\ m % 2 \in {0, 1} /\ m = 2 * h + (m % 2)
  BY <1>1
<1> HIDE DEF m, h
<1>3. (2 * q) * h <= v /\ v < (2 * q) * h + 2 * q
  <2>1. (2 * q) * h = q * (2 * h) /\ (2 * q) * h + 2 * q = q * (2 * h + 2)
    BY <1>2
  <2>2. q * (2 * h) <= q * m
    BY <1>1, <1>2
  <2>3. q * m + q = q * (m + 1) /\ q * (m + 1) <= q * (2 * h + 2)
    BY <1>1, <1>2
  <2>4. q * (2 * h) \in Nat /\ q * m \in Nat /\ q * (m + 1) \in Nat /\ q * (2 * h + 2) \in Nat
    BY <1>1, <1>2
  <2> QED
    BY <1>1, <2>1, <2>2, <2>3, <2>4
<1>4. 2 * q \in Nat /\ 2 * q > 0
  OBVIOUS
<1>5. v \div (2 * q) = h
  BY <1>2, <1>3, <1>4, QuotientIs
<1> QED
  BY <1>2, <1>5 DEF m

(* The least number of bits the prime fits in. *)
LEMMA BitWidthHolds == BitWidth \in Nat /\ 2 <= BitWidth /\ Prime < 2^BitWidth
<1> DEFINE W == {w \in Nat : Prime < 2^w}
<1>1. \A n \in Nat : n < 2^n
  <2> DEFINE S == {n \in Nat : n < 2^n}
  <2>1. 0 \in S
    BY PowersDouble
  <2>2. \A n \in Nat : n \in S => n + 1 \in S
    <3> TAKE n \in Nat
    <3>1. 2^(n + 1) = 2 * 2^n /\ 2^n \in Nat
      BY PowersDouble, PowersOfTwo
    <3> QED
      BY <3>1
  <2>3. \A n \in Nat : n \in S
    <3> HIDE DEF S
    <3> QED
      BY <2>1, <2>2, Induction
  <2> QED
    BY <2>3
<1>2. PICK w \in W : \A k \in W : w <= k
  <2>1. Prime \in W
    BY <1>1, PrimeAssumption
  <2> QED
    BY <2>1, Least
<1>3. w \in Nat /\ Prime \in Nat /\ Prime > 2 /\ w <= Prime /\ Prime < 2^w
  BY <1>1, <1>2, PrimeAssumption
<1>4. w >= 2
  <2>1. 2^(0 + 1) = 2 * 2^0 /\ 2^0 = 1
    BY PowersDouble
  <2>2. 2^1 = 2
    BY <2>1
  <2>3. w # 0 /\ w # 1
    <3>1. w = 0 => 2^w = 1
      BY <2>1
    <3>2. w = 1 => 2^w = 2
      BY <2>2
    <3> QED
      BY <1>3, <3>1, <3>2
  <2> QED
    BY <1>3, <2>3
<1>5. 2^(w - 1) <= Prime
  <2>1. w - 1 \in Nat /\ w - 1 \notin W
    BY <1>2, <1>4
  <2>2. 2^(w - 1) \in Nat
    BY <2>1, PowersOfTwo
  <2> QED
    BY <1>3, <2>1, <2>2
<1>6. \E k \in 1..Prime : 2^(k - 1) <= Prime /\ Prime < 2^k
  BY <1>3, <1>4, <1>5
<1>7. BitWidth \in 1..Prime /\ Prime < 2^BitWidth
  BY <1>6 DEF BitWidth
<1> QED
  BY <1>2, <1>3, <1>4, <1>7

Wide == 0..(2 * Prime - 1)

(* A number that has only bits of another is not greater. *)
LEMMA FewerBits ==
  ASSUME NEW z \in Wide, NEW v \in Wide, Bits(z) \subseteq Bits(v)
  PROVE  z <= v
<1> DEFINE n == BitWidth + 1
           S == {k \in Nat : k <= n => z \div 2^(n - k) <= v \div 2^(n - k)}
<1>1. /\ BitWidth \in Nat /\ n \in Nat /\ z \in Nat /\ v \in Nat
      /\ z < 2^n /\ v < 2^n /\ 2^n \in Nat /\ 2^n > 0
  <2>1. BitWidth \in Nat /\ Prime < 2^BitWidth /\ 2^n = 2 * 2^BitWidth /\ 2^BitWidth \in Nat
    BY BitWidthHolds, PowersDouble, PowersOfTwo
  <2> QED
    BY <2>1, PrimeAssumption DEF Wide
<1>2. 0 \in S
  <2>1. z \div 2^n = 0 /\ v \div 2^n = 0
    BY <1>1, QuotientIs
  <2> QED
    BY <1>1, <2>1
<1>3. ASSUME NEW k \in Nat, k \in S PROVE k + 1 \in S
  <2> SUFFICES ASSUME k + 1 <= n PROVE z \div 2^(n - (k + 1)) <= v \div 2^(n - (k + 1))
    OBVIOUS
  <2> DEFINE i == n - (k + 1)
             q == 2^i
  <2>1. i \in Nat /\ n - k = i + 1 /\ i \in 0..BitWidth /\ k <= n
    BY <1>1
  <2>2. q \in Nat /\ q > 0 /\ 2^(n - k) = 2 * q
    BY <2>1, PowersDouble, PowersOfTwo
  <2>3. z \div (2 * q) <= v \div (2 * q)
    BY <1>3, <2>1, <2>2
  <2>4. (z \div q) % 2 = 1 => (v \div q) % 2 = 1
    BY <2>1 DEF Bits
  <2> HIDE DEF q, i
  <2>5. z \div q = 2 * (z \div (2 * q)) + ((z \div q) % 2) /\ v \div q = 2 * (v \div (2 * q)) + ((v \div q) % 2)
    BY <1>1, <2>2, QuotientHalved
  <2>6. (z \div q) \in Nat /\ (v \div q) \in Nat /\ z \div (2 * q) \in Nat /\ v \div (2 * q) \in Nat
    <3>1. 2 * q \in Nat /\ 2 * q > 0
      BY <2>2
    <3> QED
      BY <1>1, <2>2, <3>1, QuotientOfNaturals
  <2>7. (z \div q) % 2 \in {0, 1} /\ (v \div q) % 2 \in {0, 1}
    BY <2>6
  <2>8. z \div q <= v \div q
    BY <2>3, <2>4, <2>5, <2>6, <2>7
  <2> QED
    BY <2>8 DEF q, i
<1>4. n \in S
  <2> HIDE DEF S
  <2>1. \A k \in Nat : k \in S
    BY <1>2, <1>3, Induction
  <2> QED
    BY <1>1, <2>1
<1>5. n - n = 0 /\ z \div 1 = z /\ v \div 1 = v
  BY <1>1
<1> QED
  BY <1>1, <1>4, <1>5, PowersDouble

LEMMA FromBitsIs ==
  /\ \A v \in Felt : FromBits(Bits(v)) = v
  /\ \A v \in Felt : \A B : B \subseteq Bits(v) => FromBits(B) \in 0..v
<1>1. ASSUME NEW v \in Felt, NEW B, B \subseteq Bits(v)
      PROVE  FromBits(B) \in 0..v /\ (B = Bits(v) => FromBits(B) = v)
  <2> DEFINE S == {0} \cup {z \in 1..(2 * Prime - 1) : Bits(z) \subseteq B}
  <2>1. Prime \in Nat /\ v \in Wide /\ v \in Nat /\ v <= 2 * Prime - 1
    BY PrimeAssumption DEF Felt, Wide
  <2>2. \A z \in S : z \in Nat /\ z <= v
    <3> TAKE z \in S
    <3>1. CASE z = 0
      BY <2>1, <3>1
    <3>2. CASE z # 0
      <4>1. z \in Wide /\ Bits(z) \subseteq Bits(v)
        BY <1>1, <2>1, <3>2 DEF Wide
      <4> QED
        BY <2>1, <4>1, FewerBits DEF Wide
    <3> QED
      BY <3>1, <3>2
  <2>3. Max(S) \in S /\ \A z \in S : z <= Max(S)
    <3>1. S \subseteq Nat /\ S # {}
      BY <2>2
    <3> HIDE DEF S
    <3>2. \E m \in S : \A z \in S : z <= m
      BY <2>1, <2>2, <3>1, Greatest
    <3> QED
      BY <3>2 DEF Max
  <2>4. B = Bits(v) => v \in S
    BY <2>1
  <2>5. Max(S) \in 0..v /\ (B = Bits(v) => Max(S) = v)
    <3> HIDE DEF S
    <3> QED
      BY <2>1, <2>2, <2>3, <2>4
  <2> QED
    BY <2>5 DEF FromBits
<1> QED
  BY <1>1

LEMMA NoBits == Bits(0) = {}
<1>1. \A q \in Nat : q > 0 => 0 \div q = 0
  BY QuotientIs
<1>2. \A i \in 0..BitWidth : 2^i \in Nat /\ 2^i > 0
  BY BitWidthHolds, PowersOfTwo
<1>3. \A i \in 0..BitWidth : 0 \div 2^i = 0
  BY <1>1, <1>2
<1>4. \A i \in 0..BitWidth : (0 \div 2^i) % 2 = 0
  <2>1. 0 % 2 = 0
    OBVIOUS
  <2> QED
    BY <1>3, <2>1, Zenon
<1>5. \A i \in 0..BitWidth : (0 \div 2^i) % 2 # 1
  BY <1>4
<1> QED
  BY <1>5, Zenon DEF Bits

(* What the bitwise operations are to the interval operations. *)
LEMMA BitwiseResults ==
  ASSUME NEW v \in Felt, NEW w \in Felt
  PROVE  /\ Result("bit_and", <<v, w>>) \in 0..v /\ Result("bit_and", <<v, w>>) \in 0..w
         /\ \A op \in {"bit_or", "bit_xor"} : /\ v = 0 => Result(op, <<v, w>>) = w
                                              /\ w = 0 => Result(op, <<v, w>>) = v
<1>1. v % Prime = v /\ w % Prime = w /\ v \in Nat /\ w \in Nat
  BY FeltsAreReduced, PrimeAssumption DEF Felt
<1>2. FromBits(Bits(v)) = v /\ FromBits(Bits(w)) = w
  BY FromBitsIs
<1>3. Result("bit_and", <<v, w>>) \in 0..v /\ Result("bit_and", <<v, w>>) \in 0..w
  <2> DEFINE n == FromBits(Bits(v) \cap Bits(w))
  <2>1. n \in 0..v /\ n \in 0..w
    BY FromBitsIs
  <2>2. n \in Felt
    BY <2>1, PrimeAssumption DEF Felt
  <2>3. n % Prime = n
    BY <2>2, FeltsAreReduced
  <2> QED
    BY <2>1, <2>3 DEF Result
<1>4. v = 0 => (Bits(v) \cup Bits(w)) \ (Bits(v) \cap Bits(w)) = Bits(w) /\ Bits(v) \cup Bits(w) = Bits(w)
  BY NoBits
<1>5. w = 0 => (Bits(v) \cup Bits(w)) \ (Bits(v) \cap Bits(w)) = Bits(v) /\ Bits(v) \cup Bits(w) = Bits(v)
  BY NoBits
<1>6. \A op \in {"bit_or", "bit_xor"} :
        Result(op, <<v, w>>) = (IF op = "bit_or" THEN FromBits(Bits(v) \cup Bits(w))
                                ELSE FromBits((Bits(v) \cup Bits(w)) \ (Bits(v) \cap Bits(w)))) % Prime
  BY DEF Result
<1> QED
  BY <1>1, <1>2, <1>3, <1>4, <1>5, <1>6

-----------------------------------------------------------------------------
(*-------------------------- division towards zero ------------------------*)
LEMMA QuotientSigns ==
  ASSUME NEW v \in Int, NEW w \in Int, w # 0
  PROVE  Quotient(v, w) = IF v >= 0 THEN IF w > 0 THEN v \div w ELSE -(v \div (-w))
                          ELSE IF w > 0 THEN -((-v) \div w) ELSE (-v) \div (-w)
<1>1. Abs(v) = (IF v >= 0 THEN v ELSE -v) /\ Abs(w) = IF w > 0 THEN w ELSE -w
  BY DEF Abs
<1>2. Abs(v) \in Nat /\ Abs(w) \in Nat /\ Abs(w) > 0
  BY <1>1
<1>3. Abs(v) \div Abs(w) \in Nat
  BY <1>2, QuotientOfNaturals
<1> QED
  BY <1>1, <1>3 DEF Quotient

LEMMA QuotientInFirst ==
  ASSUME NEW u \in Int, NEW v \in Int, u <= v, NEW w \in Int, w # 0
  PROVE  IF w > 0 THEN Quotient(u, w) <= Quotient(v, w) ELSE Quotient(v, w) <= Quotient(u, w)
<1>1. ASSUME NEW s \in Nat, s > 0
      PROVE  /\ u >= 0 => u \div s <= v \div s /\ u \div s \in Nat /\ v \div s \in Nat
             /\ v < 0 => (-v) \div s <= (-u) \div s /\ (-v) \div s \in Nat /\ (-u) \div s \in Nat
             /\ u < 0 /\ v >= 0 => v \div s \in Nat /\ (-u) \div s \in Nat
  BY <1>1, QuotientMonotone, QuotientOfNaturals
<1>2. CASE w > 0
  <2>1. w \in Nat
    BY <1>2
  <2>2. Quotient(u, w) = (IF u >= 0 THEN u \div w ELSE -((-u) \div w))
        /\ Quotient(v, w) = (IF v >= 0 THEN v \div w ELSE -((-v) \div w))
    BY <1>2, QuotientSigns
  <2> QED
    BY <1>1, <1>2, <2>1, <2>2
<1>3. CASE w < 0
  <2>1. -w \in Nat /\ -w > 0
    BY <1>3
  <2>2. \A t \in Int : Quotient(t, w) = IF t >= 0 THEN -(t \div (-w)) ELSE (-t) \div (-w)
    <3>1. w # 0 /\ ~ (w > 0)
      BY <1>3
    <3> QED
      BY <3>1, QuotientSigns
  <2> DEFINE s == -w
  <2>3. /\ u >= 0 => u \div s <= v \div s /\ u \div s \in Nat /\ v \div s \in Nat
        /\ v < 0 => (-v) \div s <= (-u) \div s /\ (-v) \div s \in Nat /\ (-u) \div s \in Nat
        /\ u < 0 /\ v >= 0 => v \div s \in Nat /\ (-u) \div s \in Nat
    BY <1>1, <2>1
  <2>4. /\ Quotient(u, w) = IF u >= 0 THEN -(u \div s) ELSE (-u) \div s
        /\ Quotient(v, w) = IF v >= 0 THEN -(v \div s) ELSE (-v) \div s
    BY <2>2
  <2> HIDE DEF s
  <2>5. Quotient(v, w) <= Quotient(u, w)
    BY <2>3, <2>4
  <2> QED
    BY <1>3, <2>5
<1> QED
  BY <1>2, <1>3

LEMMA QuotientInSecond ==
  ASSUME NEW v \in Int, NEW u \in Int, NEW w \in Int, u <= w, u > 0 \/ w < 0
  PROVE  IF v >= 0 THEN Quotient(v, w) <= Quotient(v, u) ELSE Quotient(v, u) <= Quotient(v, w)
<1>1. ASSUME NEW p \in Nat, NEW r \in Nat, NEW s \in Nat, 0 < s, s <= r
      PROVE  p \div r <= p \div s /\ p \div r \in Nat /\ p \div s \in Nat
  BY <1>1, QuotientMonotone, QuotientOfNaturals
<1>2. CASE u > 0
  <2>1. u \in Nat /\ w \in Nat /\ w > 0
    BY <1>2
  <2>2. Quotient(v, u) = (IF v >= 0 THEN v \div u ELSE -((-v) \div u))
        /\ Quotient(v, w) = (IF v >= 0 THEN v \div w ELSE -((-v) \div w))
    BY <1>2, <2>1, QuotientSigns
  <2>3. v >= 0 => v \div w <= v \div u /\ v \div w \in Nat /\ v \div u \in Nat
    BY <1>1, <1>2, <2>1
  <2>4. v < 0 => (-v) \div w <= (-v) \div u /\ (-v) \div w \in Nat /\ (-v) \div u \in Nat
    BY <1>1, <1>2, <2>1
  <2> QED
    BY <2>2, <2>3, <2>4
<1>3. CASE w < 0
  <2>1. -u \in Nat /\ -w \in Nat /\ -w > 0 /\ -w <= -u /\ u < 0
    BY <1>3
  <2>2. \A t \in {u, w} : Quotient(v, t) = IF v >= 0 THEN -(v \div (-t)) ELSE (-v) \div (-t)
    <3>1. \A t \in {u, w} : t \in Int /\ t # 0 /\ ~ (t > 0)
      BY <1>3, <2>1
    <3> QED
      BY <3>1, QuotientSigns
  <2>3. v >= 0 => v \div (-u) <= v \div (-w) /\ v \div (-w) \in Nat /\ v \div (-u) \in Nat
    BY <1>1, <2>1
  <2>4. v < 0 => (-v) \div (-u) <= (-v) \div (-w) /\ (-v) \div (-w) \in Nat /\ (-v) \div (-u) \in Nat
    BY <1>1, <2>1
  <2> QED
    BY <2>2, <2>3, <2>4
<1> QED
  BY <1>2, <1>3

(* Division by a range without zero takes its extreme values at the corners. *)
LEMMA QuotientInCorners ==
  ASSUME NEW a \in Int, NEW b \in Int, NEW r \in a..b,
         NEW c \in Int, NEW d \in Int, NEW s \in c..d, c > 0 \/ d < 0
  PROVE  LET S == {Quotient(a, c), Quotient(a, d), Quotient(b, c), Quotient(b, d)}
         IN  /\ Min(S) \in Int /\ Max(S) \in Int /\ Quotient(r, s) \in Min(S)..Max(S)
<1> DEFINE S == {Quotient(a, c), Quotient(a, d), Quotient(b, c), Quotient(b, d)}
<1>1. r \in Int /\ s \in Int /\ s # 0 /\ c # 0 /\ d # 0
  OBVIOUS
<1>2. /\ Quotient(a, c) \in Int /\ Quotient(a, d) \in Int /\ Quotient(b, c) \in Int /\ Quotient(b, d) \in Int
      /\ Quotient(a, s) \in Int /\ Quotient(b, s) \in Int /\ Quotient(r, s) \in Int
  BY <1>1, QuotientTyped
<1>3. /\ Min(S) \in Int /\ Max(S) \in Int
      /\ \A n \in S : Min(S) <= n /\ n <= Max(S)
  BY <1>2, CornersOfFour
<1>4. \/ Quotient(a, s) <= Quotient(r, s) /\ Quotient(r, s) <= Quotient(b, s)
      \/ Quotient(b, s) <= Quotient(r, s) /\ Quotient(r, s) <= Quotient(a, s)
  BY <1>1, QuotientInFirst
<1>5. \A v \in {a, b} : \/ Quotient(v, c) <= Quotient(v, s) /\ Quotient(v, s) <= Quotient(v, d)
                        \/ Quotient(v, d) <= Quotient(v, s) /\ Quotient(v, s) <= Quotient(v, c)
  <2> TAKE v \in {a, b}
  <2>1. c <= s /\ s <= d /\ (c > 0 \/ s < 0) /\ (s > 0 \/ d < 0)
    BY <1>1
  <2>2. IF v >= 0 THEN Quotient(v, s) <= Quotient(v, c) ELSE Quotient(v, c) <= Quotient(v, s)
    BY <1>1, <2>1, QuotientInSecond
  <2>3. IF v >= 0 THEN Quotient(v, d) <= Quotient(v, s) ELSE Quotient(v, s) <= Quotient(v, d)
    BY <1>1, <2>1, QuotientInSecond
  <2> QED
    BY <2>2, <2>3
<1>6. \A v \in {a, b} : Min(S) <= Quotient(v, s) /\ Quotient(v, s) <= Max(S)
  <2> TAKE v \in {a, b}
  <2>1. Quotient(v, c) \in S /\ Quotient(v, d) \in S
    OBVIOUS
  <2>2. Quotient(v, c) \in Int /\ Quotient(v, d) \in Int /\ Quotient(v, s) \in Int
    BY <1>2
  <2> HIDE DEF S
  <2> QED
    BY <1>3, <1>5, <2>1, <2>2
<1> HIDE DEF S
<1>7. Quotient(r, s) \in Min(S)..Max(S)
  BY <1>2, <1>3, <1>4, <1>6
<1> QED
  BY <1>3, <1>7 DEF S

(* The remainder has the sign of the dividend, and is less than the divisor. *)
LEMMA RemainderBounds ==
  ASSUME NEW v \in Int, NEW w \in Int, w # 0
  PROVE  LET r == Remainder(v, w)
         IN  /\ r \in Int /\ r <= Abs(w) - 1 /\ -(Abs(w) - 1) <= r
             /\ v >= 0 => 0 <= r /\ r <= v
             /\ v <= 0 => v <= r /\ r <= 0
<1> DEFINE p == Abs(v)
           q == Abs(w)
           k == p \div q
           m == p % q
<1>1. p = (IF v >= 0 THEN v ELSE -v) /\ q = IF w > 0 THEN w ELSE -w
  BY DEF Abs
<1>2. p \in Nat /\ q \in Nat /\ q > 0
  BY <1>1
<1>3. k \in Nat /\ m \in 0..(q - 1) /\ p = q * k + m
  BY <1>2, QuotientOfNaturals
<1>4. Quotient(v, w) = IF (v < 0) # (w < 0) THEN -k ELSE k
  <2> HIDE DEF k
  <2>1. Quotient(v, w) = (IF (v < 0) # (w < 0) THEN -1 ELSE 1) * k
    BY DEF Quotient, k
  <2> QED
    BY <1>3, <2>1
<1> HIDE DEF p, q, k, m
<1>5. w * Quotient(v, w) = IF v >= 0 THEN q * k ELSE -(q * k)
  <2>1. w * (-k) = -(w * k) /\ (-w) * k = -(w * k)
    BY <1>3
  <2>2. CASE w > 0
    BY <1>1, <1>3, <1>4, <2>1, <2>2
  <2>3. CASE w < 0
    BY <1>1, <1>3, <1>4, <2>1, <2>3
  <2> QED
    BY <2>2, <2>3
<1>6. q * k \in Nat
  BY <1>2, <1>3
<1>7. Remainder(v, w) = IF v >= 0 THEN m ELSE -m
  BY <1>1, <1>3, <1>5, <1>6 DEF Remainder
<1> QED
  BY <1>1, <1>2, <1>3, <1>6, <1>7 DEF q

-----------------------------------------------------------------------------
(*------------------------------- divisions -------------------------------*)
Holds(u, v) == u[1] <= v /\ v <= u[2]

LEMMA UnsignedReading ==
  ASSUME NEW x, WellFormed(x), NEW v \in Gamma(x)
  PROVE  LET us == UnsignedParts(x)
         IN  /\ \E i \in DOMAIN us : Holds(us[i], v)
             /\ DOMAIN us = IF x.ty = "F" THEN {1, 2} ELSE {1}
             /\ \A i \in DOMAIN us : /\ us[i] \in Ranges /\ 0 <= us[i][1]
                                     /\ us[i][1] <= us[i][2] /\ us[i][2] < Prime
             /\ x.ty = "F" => us[2][1] = 0
<1>1. x \in IntervalType /\ x.ty \in Types /\ x.ty # "Empty"
  BY Bounds DEF Gamma
<1>2. v \in Felt /\ Prime \in Nat /\ Prime > 2
  BY ValuesAreFelts, PrimeAssumption
<1>3. CASE x.ty = "F"
  <2>1. /\ x.a \in Felt /\ x.b \in Felt /\ x.a \in Int /\ x.b \in Int /\ x.b < x.a
    BY <1>3, AcrossZero
  <2>2. v >= x.a \/ v <= x.b
    BY <1>3 DEF Gamma
  <2>3. UnsignedParts(x) = <<<<x.a, Prime - 1>>, <<0, x.b>>>>
    BY <1>3 DEF UnsignedParts
  <2>4. Holds(<<x.a, Prime - 1>>, v) \/ Holds(<<0, x.b>>, v)
    BY <1>2, <2>1, <2>2 DEF Felt, Holds
  <2>5. /\ <<x.a, Prime - 1>> \in Ranges /\ <<0, x.b>> \in Ranges
        /\ 0 <= x.a /\ x.a <= Prime - 1 /\ 0 <= x.b /\ x.b < Prime
    BY <1>2, <2>1 DEF Felt, Ranges
  <2> QED
    BY <1>2, <1>3, <2>3, <2>4, <2>5
<1>4. CASE x.ty = "Entire"
  <2>1. UnsignedParts(x) = <<<<0, Prime - 1>>>>
    BY <1>4 DEF UnsignedParts, ToUnreduced
  <2>2. Holds(<<0, Prime - 1>>, v) /\ <<0, Prime - 1>> \in Ranges
    BY <1>2 DEF Felt, Holds, Ranges
  <2> QED
    BY <1>2, <1>4, <2>1, <2>2
<1>5. CASE x.ty \in {"A", "B", "C", "Degenerate"}
  <2>1. /\ x.a \in Felt /\ x.b \in Felt /\ x.a \in Int /\ x.b \in Int /\ ToUnreduced(x) = <<x.a, x.b>>
        /\ v \in x.a..x.b
    BY <1>1, <1>5, WithinBounds
  <2>2. UnsignedParts(x) = <<<<x.a, x.b>>>>
    BY <1>5, <2>1 DEF UnsignedParts
  <2>3. Holds(<<x.a, x.b>>, v) /\ <<x.a, x.b>> \in Ranges /\ x.a <= x.b /\ 0 <= x.a /\ x.b < Prime
    BY <1>2, <2>1 DEF Felt, Holds, Ranges
  <2> QED
    BY <1>5, <2>2, <2>3
<1> QED
  BY <1>1, <1>3, <1>4, <1>5 DEF Types

LEMMA SignedReading ==
  ASSUME NEW x, WellFormed(x), x.ty # "C", NEW v \in Gamma(x)
  PROVE  LET us == SignedParts(x)
         IN  DOMAIN us = {1} /\ us[1] \in Ranges /\ Holds(us[1], ToSigned(v)) /\ ToSigned(v) \in Int
<1>1. x \in IntervalType /\ x.ty \in Types /\ x.ty # "Empty"
  BY Bounds DEF Gamma
<1>2. v \in Felt /\ Prime \in Nat /\ Prime > 2 /\ Half \in Nat /\ 1 < Half /\ Half < Prime
  BY ValuesAreFelts, PrimeAssumption, Halves
<1>3. ToSigned(v) = (IF v < Half THEN v ELSE v - Prime) /\ ToSigned(v) \in Int
  BY <1>2 DEF ToSigned, Felt
<1>4. ASSUME NEW l \in Int, NEW r \in Int, SignedParts(x) = <<<<l, r>>>>, l <= ToSigned(v), ToSigned(v) <= r
      PROVE  LET us == SignedParts(x)
             IN  DOMAIN us = {1} /\ us[1] \in Ranges /\ Holds(us[1], ToSigned(v)) /\ ToSigned(v) \in Int
  BY <1>3, <1>4 DEF Holds, Ranges
<1>5. CASE x.ty = "F"
  <2>1. /\ x.a \in Felt /\ x.b \in Felt /\ x.a \in Int /\ x.b \in Int /\ First(x) = <<x.a - Prime, x.b>>
    BY <1>5, AcrossZero
  <2>2. (v >= x.a \/ v <= x.b) /\ x.a >= Half /\ x.b < Half
    BY <1>5 DEF Gamma, WellFormed
  <2>3. SignedParts(x) = <<<<x.a - Prime, x.b>>>>
    BY <1>5, <2>1 DEF SignedParts
  <2>4. x.a - Prime <= ToSigned(v) /\ ToSigned(v) <= x.b
    BY <1>2, <1>3, <2>1, <2>2 DEF Felt
  <2> QED
    BY <1>2, <1>4, <2>1, <2>3, <2>4
<1>6. CASE x.ty = "Entire"
  <2>1. SignedParts(x) = <<<<Half - Prime, Half - 1>>>>
    BY <1>6 DEF SignedParts
  <2>2. Half - Prime <= ToSigned(v) /\ ToSigned(v) <= Half - 1
    BY <1>2, <1>3 DEF Felt
  <2> QED
    BY <1>2, <1>4, <2>1, <2>2
<1>7. CASE x.ty \in {"A", "B", "Degenerate"}
  <2>1. x.a \in Felt /\ x.b \in Felt /\ x.a \in Int /\ x.b \in Int /\ v \in x.a..x.b
    BY <1>1, <1>7, WithinBounds
  <2>2. CASE x.ty = "A"
    <3>1. x.b < Half /\ SignedParts(x) = <<<<x.a, x.b>>>>
      BY <2>2 DEF WellFormed, SignedParts
    <3> QED
      BY <1>2, <1>3, <1>4, <2>1, <3>1
  <2>3. CASE x.ty = "B"
    <3>1. Half <= x.a /\ SignedParts(x) = <<<<x.a - Prime, x.b - Prime>>>>
      BY <2>3 DEF WellFormed, SignedParts, Second
    <3> QED
      BY <1>2, <1>3, <1>4, <2>1, <3>1
  <2>4. CASE x.ty = "Degenerate"
    <3>1. v = x.a /\ SignedParts(x) = <<<<ToSigned(x.a), ToSigned(x.a)>>>>
      BY <2>1, <2>4 DEF WellFormed, SignedParts
    <3> QED
      BY <1>3, <1>4, <3>1
  <2> QED
    BY <1>7, <2>2, <2>3, <2>4
<1> QED
  BY <1>1, <1>5, <1>6, <1>7 DEF Types

LEMMA NotAcross ==
  ASSUME NEW l \in 0..(Prime - 1), NEW r \in 0..(Prime - 1)
  PROVE  ReduceTo[<<l, r>>].ty # "F"
<1>1. l \in Felt /\ r \in Felt /\ Prime \in Nat /\ l \in Int /\ r \in Int /\ l % Prime = l /\ r % Prime = r
  BY FeltsAreReduced, PrimeAssumption DEF Felt
<1> DEFINE u == <<l, r>>
<1>2. ReduceTo[u] = IF IsNone(u) THEN Empty ELSE IF Width(u) >= Prime THEN Entire
                    ELSE CASE l = r -> Degenerate(l)
                           [] l < r /\ r < Half -> Interval("A", l, r)
                           [] l < r /\ l < Half /\ r >= Half -> Interval("C", l, r)
                           [] l < r /\ l >= Half -> Interval("B", l, r)
                           [] l > r /\ l >= Half /\ r < Half -> Interval("F", l, r)
                           [] OTHER -> Entire
  BY <1>1 DEF ReduceTo
<1>3. ~ IsNone(u) => l <= r
  BY <1>1 DEF IsNone, Width
<1>4. Empty.ty # "F" /\ Entire.ty # "F" /\ Degenerate(l).ty # "F"
      /\ Interval("A", l, r).ty # "F" /\ Interval("B", l, r).ty # "F" /\ Interval("C", l, r).ty # "F"
  BY DEF Empty, Entire, Degenerate, Interval
<1> QED
  BY <1>1, <1>2, <1>3, <1>4

(* Joining the pieces loses none of them, unless a single value meets a range *)
(* across zero.                                                               *)
LEMMA PiecesJoined ==
  ASSUME NEW p, NEW q, WellFormed(p), WellFormed(q), q = Empty \/ (p.ty # "F" /\ q.ty # "F")
  PROVE  LET all == Join[<<Join[<<Join[<<p, Empty>>], q>>], Empty>>]
         IN  Gamma(p) \cup Gamma(q) \subseteq Gamma(all)
<1>1. \A x : WellFormed(x) => Join[<<x, Empty>>] = x
  <2> SUFFICES ASSUME NEW x, WellFormed(x) PROVE Join[<<x, Empty>>] = x
    OBVIOUS
  <2>1. x \in IntervalType /\ Empty \in IntervalType /\ Empty.ty = "Empty"
    BY Names, Bounds
  <2>2. Join[<<x, Empty>>] = IF x.ty = "Entire" THEN Entire ELSE IF x.ty = "Empty" THEN Empty ELSE x
    BY <2>1 DEF Join
  <2>3. x.ty \in {"Empty", "Entire"} => x = [ty |-> x.ty, a |-> 0, b |-> 0]
    BY DEF WellFormed, IntervalType
  <2> QED
    BY <2>2, <2>3, Names
<1>2. ~ Misjoined(p, q) /\ ~ Misjoined(q, p)
  BY Names DEF Misjoined
<1>3. WellFormed(Join[<<p, q>>]) /\ Gamma(p) \cup Gamma(q) \subseteq Gamma(Join[<<p, q>>])
  BY <1>2, JoinIsSound
<1> QED
  BY <1>1, <1>3

Unsigned(us) == \A i \in DOMAIN us : 0 <= us[i][1] /\ us[i][1] <= us[i][2] /\ us[i][2] < Prime

LEMMA IntDivIsSound ==
  ASSUME NEW us, NEW ws, Parted(us), Parted(ws), NEW i \in DOMAIN us, NEW v \in Int, Holds(us[i], v),
         NEW j \in DOMAIN ws, NEW w \in Int, w # 0, Holds(ws[j], w),
         DOMAIN us = {1} \/ (DOMAIN us = {1, 2} /\ Unsigned(us) /\ Unsigned(ws)),
         DOMAIN ws = {1} \/ HasZero(ws[2]), 2 \in DOMAIN ws \/ DOMAIN ws = {1}
  PROVE  Quotient(v, w) % Prime \in Gamma(IntDiv(us, ws))
<1> DEFINE piece(u, z) == ReduceTo[Corners({Quotient(u[k], z[l]) : k, l \in {1, 2}})]
           of(k, l) == IF k \in DOMAIN us /\ l \in DOMAIN ws THEN piece(us[k], ws[l]) ELSE Empty
           all == Join[<<Join[<<Join[<<of(1, 1), of(1, 2)>>], of(2, 1)>>], of(2, 2)>>]
<1>1. us # <<>>
  OBVIOUS
<1>2. CASE \E z \in ToSet(ws) : HasZero(z)
  <2>1. IntDiv(us, ws) = Entire
    BY <1>1, <1>2 DEF IntDiv, JoinPieces
  <2>2. Quotient(v, w) % Prime \in Felt
    BY QuotientTyped, Division
  <2> QED
    BY <2>1, <2>2, Names
<1>3. CASE ~ (\E z \in ToSet(ws) : HasZero(z))
  <2>1. IntDiv(us, ws) = all
    BY <1>3 DEF IntDiv, JoinPieces
  <2>2. DOMAIN ws = {1} /\ j = 1 /\ ~ HasZero(ws[1])
    BY <1>3 DEF ToSet
  <2> DEFINE c == ws[1][1]
             d == ws[1][2]
  <2>3. c \in Int /\ d \in Int /\ c <= d /\ (c > 0 \/ d < 0) /\ w \in c..d
    BY <2>2, RangeIsPair DEF Parted, Ordered, HasZero, Holds
  <2> HIDE DEF c, d
  <2>4. ASSUME NEW k \in DOMAIN us
        PROVE  LET a == us[k][1]
                   b == us[k][2]
                   S == {Quotient(a, c), Quotient(a, d), Quotient(b, c), Quotient(b, d)}
               IN  a \in Int /\ b \in Int /\ of(k, 1) = ReduceTo[<<Min(S), Max(S)>>]
    <3>1. us[k][1] \in Int /\ us[k][2] \in Int
      BY RangeIsPair DEF Parted, Ordered
    <3>2. {Quotient(us[k][m], ws[1][l]) : m, l \in {1, 2}} =
            {Quotient(us[k][1], c), Quotient(us[k][1], d), Quotient(us[k][2], c), Quotient(us[k][2], d)}
      BY DEF c, d
    <3> QED
      BY <2>2, <3>1, <3>2 DEF Corners
  <2>5. ASSUME NEW k \in DOMAIN us
        PROVE  /\ WellFormed(of(k, 1))
               /\ Holds(us[k], v) => Quotient(v, w) % Prime \in Gamma(of(k, 1))
    <3> DEFINE a == us[k][1]
               b == us[k][2]
               S == {Quotient(a, c), Quotient(a, d), Quotient(b, c), Quotient(b, d)}
    <3>1. a \in Int /\ b \in Int /\ of(k, 1) = ReduceTo[<<Min(S), Max(S)>>]
      BY <2>4
    <3>2. c # 0 /\ d # 0
      BY <2>3
    <3> HIDE DEF a, b, of
    <3>3. Min(S) \in Int /\ Max(S) \in Int
      BY <2>3, <3>1, <3>2, QuotientTyped, CornersOfFour
    <3>4. v \in a..b => Quotient(v, w) \in Min(S)..Max(S)
      BY <2>3, <3>1, QuotientInCorners
    <3> HIDE DEF S
    <3>5. Holds(us[k], v) => v \in a..b
      BY <3>1 DEF Holds, a, b
    <3> QED
      BY <3>1, <3>3, <3>4, <3>5, ReduceToIsSound
  <2>6. of(1, 2) = Empty /\ of(2, 2) = Empty
    BY <2>2
  <2>7. 2 \notin DOMAIN us => of(2, 1) = Empty
    OBVIOUS
  <2>8. 2 \in DOMAIN us => of(1, 1).ty # "F" /\ of(2, 1).ty # "F"
    <3> SUFFICES ASSUME 2 \in DOMAIN us, NEW k \in {1, 2} PROVE of(k, 1).ty # "F"
      OBVIOUS
    <3> DEFINE a == us[k][1]
               b == us[k][2]
               S == {Quotient(a, c), Quotient(a, d), Quotient(b, c), Quotient(b, d)}
    <3>1. k \in DOMAIN us /\ Unsigned(us) /\ Unsigned(ws)
      OBVIOUS
    <3>2. a \in Int /\ b \in Int /\ of(k, 1) = ReduceTo[<<Min(S), Max(S)>>]
      BY <2>4, <3>1
    <3>3. 0 <= a /\ a < Prime /\ 0 <= b /\ b < Prime /\ c > 0 /\ d > 0
      BY <2>2, <2>3, <3>1, <3>2, PrimeAssumption DEF Unsigned, c, d
    <3> HIDE DEF a, b, of
    <3>4. \A p \in {a, b}, q \in {c, d} : Quotient(p, q) \in Felt
      <4> TAKE p \in {a, b}, q \in {c, d}
      <4>1. p \in Nat /\ q \in Nat /\ q > 0 /\ p < Prime /\ q >= 1
        BY <2>3, <3>2, <3>3
      <4>2. Quotient(p, q) = p \div q
        BY <4>1, QuotientSigns
      <4>3. p \div q <= p \div 1 /\ p \div 1 = p /\ p \div q \in Nat
        BY <4>1, QuotientMonotone, QuotientOfNaturals
      <4> QED
        BY <4>1, <4>2, <4>3, PrimeAssumption DEF Felt
    <3>5. S \subseteq Felt /\ S # {}
      BY <3>4
    <3> HIDE DEF S
    <3>6. Min(S) \in Felt /\ Max(S) \in Felt
      BY <3>5, LeastAndGreatest
    <3> QED
      BY <3>2, <3>6, NotAcross DEF Felt
  <2>9. /\ WellFormed(of(1, 1)) /\ WellFormed(of(2, 1)) /\ WellFormed(Empty)
        /\ Quotient(v, w) % Prime \in Gamma(of(1, 1)) \cup Gamma(of(2, 1))
    <3>1. i \in {1, 2} /\ (2 \in DOMAIN us \/ i = 1)
      OBVIOUS
    <3>2. 1 \in DOMAIN us
      OBVIOUS
    <3> HIDE DEF of
    <3>3. Quotient(v, w) % Prime \in Gamma(of(i, 1))
      BY <2>5
    <3>4. WellFormed(of(2, 1))
      BY <2>5, <2>7, Names
    <3> QED
      BY <2>5, <3>1, <3>2, <3>3, <3>4, Names
  <2>10. all = Join[<<Join[<<Join[<<of(1, 1), Empty>>], of(2, 1)>>], Empty>>]
    <3> HIDE DEF of
    <3> QED
      BY <2>6
  <2> HIDE DEF of, all
  <2>11. Gamma(of(1, 1)) \cup Gamma(of(2, 1)) \subseteq Gamma(all)
    BY <2>7, <2>8, <2>9, <2>10, PiecesJoined
  <2> QED
    BY <2>1, <2>9, <2>11
<1> QED
  BY <1>2, <1>3

LEMMA SignedModIsSound ==
  ASSUME NEW us, NEW ws, Parted(us), Parted(ws), DOMAIN us = {1}, DOMAIN ws = {1},
         NEW v \in Int, Holds(us[1], v), NEW w \in Int, w # 0, Holds(ws[1], w)
  PROVE  Remainder(v, w) % Prime \in Gamma(SignedMod(us, ws))
<1> DEFINE a == us[1][1]
           b == us[1][2]
           c == ws[1][1]
           d == ws[1][2]
           most == Max({Abs(c), Abs(d)}) - 1
           rem == Remainder(a, c)
           low == IF a < 0 THEN Max({a, -most}) ELSE 0
           high == IF b > 0 THEN Min({b, most}) ELSE 0
           one == IF a = b /\ c = d THEN ReduceTo[<<rem, rem>>] ELSE ReduceTo[<<low, high>>]
<1>1. us # <<>>
  OBVIOUS
<1>2. a \in Int /\ b \in Int /\ c \in Int /\ d \in Int /\ v \in a..b /\ w \in c..d
  BY RangeIsPair DEF Parted, Ordered, Holds
<1>3. Remainder(v, w) \in Int /\ Remainder(v, w) % Prime \in Felt
  BY QuotientTyped, Division
<1>4. CASE \E z \in ToSet(ws) : HasZero(z)
  <2>1. SignedMod(us, ws) = Entire
    BY <1>1, <1>4 DEF SignedMod, JoinPieces
  <2> QED
    BY <1>3, <2>1, Names
<1>5. CASE ~ (\E z \in ToSet(ws) : HasZero(z))
  <2>1. SignedMod(us, ws) = Join[<<Join[<<Join[<<one, Empty>>], Empty>>], Empty>>]
    BY <1>5 DEF SignedMod, JoinPieces
  <2>2. c > 0 \/ d < 0
    <3>1. ~ HasZero(ws[1])
      BY <1>5 DEF ToSet
    <3> QED
      BY <1>2, <3>1 DEF HasZero
  <2> HIDE DEF a, b, c, d
  <2>3. Abs(c) \in Nat /\ Abs(d) \in Nat /\ Abs(w) \in Nat /\ (Abs(w) <= Abs(c) \/ Abs(w) <= Abs(d))
    BY <1>2, <2>2 DEF Abs
  <2>4. most \in Int /\ Abs(w) - 1 <= most
    BY <2>3, Pairs
  <2>5. low \in Int /\ high \in Int
        /\ low = (IF a < 0 THEN IF a >= -most THEN a ELSE -most ELSE 0)
        /\ high = IF b > 0 THEN IF b <= most THEN b ELSE most ELSE 0
    <3> HIDE DEF most
    <3>1. Max({a, -most}) = (IF a >= -most THEN a ELSE -most) /\ -most \in Int
      BY <1>2, <2>4, Pairs
    <3>2. Min({b, most}) = IF b <= most THEN b ELSE most
      BY <1>2, <2>4, Pairs
    <3> QED
      BY <1>2, <2>4, <3>1, <3>2
  <2>6. low <= Remainder(v, w) /\ Remainder(v, w) <= high
    <3> DEFINE r == Remainder(v, w)
               m == Abs(w) - 1
    <3>1. /\ r \in Int /\ m \in Int /\ r <= m /\ -m <= r /\ m <= most
          /\ v >= 0 => 0 <= r /\ r <= v
          /\ v <= 0 => v <= r /\ r <= 0
      BY <2>3, <2>4, RemainderBounds
    <3> HIDE DEF r, m, most, low, high
    <3>3. low <= r /\ r <= high
      BY <1>2, <2>4, <2>5, <3>1
    <3> QED
      BY <3>3 DEF r
  <2>7. a = b /\ c = d => rem = Remainder(v, w)
    BY <1>2
  <2>8. WellFormed(one) /\ Remainder(v, w) % Prime \in Gamma(one)
    <3>1. CASE a = b /\ c = d
      BY <1>3, <2>7, <3>1, ReduceToIsSound
    <3>2. CASE ~ (a = b /\ c = d)
      <4>1. one = ReduceTo[<<low, high>>]
        BY <3>2
      <4> HIDE DEF low, high, one
      <4> QED
        BY <1>3, <2>5, <2>6, <4>1, ReduceToIsSound
    <3> QED
      BY <3>1, <3>2
  <2> HIDE DEF one
  <2>9. \A x : WellFormed(x) => WellFormed(Join[<<x, Empty>>]) /\ Gamma(x) \subseteq Gamma(Join[<<x, Empty>>])
    <3> SUFFICES ASSUME NEW x, WellFormed(x)
                 PROVE  WellFormed(Join[<<x, Empty>>]) /\ Gamma(x) \subseteq Gamma(Join[<<x, Empty>>])
      OBVIOUS
    <3>1. ~ Misjoined(x, Empty) /\ ~ Misjoined(Empty, x)
      BY Names DEF Misjoined
    <3> QED
      BY <3>1, Names, JoinIsSound
  <2> QED
    BY <2>1, <2>8, <2>9
<1> QED
  BY <1>4, <1>5

LEMMA PointRead ==
  ASSUME NEW x, WellFormed(x), x.ty = "Degenerate", NEW v \in Gamma(x)
  PROVE  x.a = v /\ x.b = v /\ x = Degenerate(v) /\ v \in Felt
<1>1. x \in IntervalType /\ x.a = x.b
  BY DEF WellFormed
<1>2. v \in Felt /\ v \in x.a..x.b /\ x.a \in Int /\ x.b \in Int
  BY <1>1, WithinBounds
<1>3. x.a = v /\ x.b = v
  BY <1>1, <1>2
<1>4. x = [ty |-> "Degenerate", a |-> v, b |-> v]
  BY <1>1, <1>3 DEF IntervalType
<1> QED
  BY <1>2, <1>3, <1>4, Names

(* A value that is there is not outside. *)
LEMMA NotOutside ==
  ASSUME NEW x, WellFormed(x), NEW v \in Gamma(x)
  PROVE  x # Empty /\ x.ty # "Empty" /\ v \in Felt
BY Names, ValuesAreFelts DEF Gamma

LEMMA FeltDivIsSound ==
  ASSUME NEW x, NEW y, WellFormed(x), WellFormed(y), NEW v \in Gamma(x), NEW w \in Gamma(y), w # 0
  PROVE  (v * Inv(w)) % Prime \in Gamma(FeltDiv(x, y))
<1>1. x.ty # "Empty" /\ y.ty # "Empty" /\ v \in Felt /\ w \in Felt /\ v \in Int
  BY NotOutside, FeltsAreReduced
<1>2. Inv(w) \in Felt /\ Inv(w) \in Int
  BY <1>1, InverseExists, FeltsAreReduced
<1>3. (v * Inv(w)) % Prime \in Felt
  BY <1>1, <1>2, Division
<1>4. CASE y.ty # "Degenerate" \/ y = False
  BY <1>1, <1>3, <1>4, Names DEF FeltDiv
<1>5. CASE y.ty = "Degenerate" /\ y # False
  <2>1. y.a = w
    BY <1>5, PointRead
  <2>2. FeltDiv(x, y) = Times[<<x, Degenerate(Inv(w))>>]
    BY <1>1, <1>5, <2>1 DEF FeltDiv
  <2>3. WellFormed(Degenerate(Inv(w))) /\ Inv(w) \in Gamma(Degenerate(Inv(w)))
    BY <1>2, Names
  <2> QED
    BY <2>2, <2>3, TimesIsSound
<1> QED
  BY <1>4, <1>5

LEMMA ModIsSound ==
  ASSUME NEW x, NEW y, WellFormed(x), WellFormed(y), NEW v \in Gamma(x), NEW w \in Gamma(y), w # 0
  PROVE  v % w \in Gamma(Mod(x, y))
<1>1. /\ x.ty # "Empty" /\ y.ty # "Empty" /\ v \in Felt /\ w \in Felt /\ y.ty \in Types
      /\ v \in Nat /\ w \in Nat /\ w > 0 /\ w < Prime /\ Prime \in Nat
  BY NotOutside, Bounds, PrimeAssumption DEF Felt
<1>2. v % w \in 0..(w - 1) /\ v % w \in Felt /\ v % w \in Int
  BY <1>1, QuotientOfNaturals DEF Felt
<1>3. (v % w) % Prime = v % w
  BY <1>2, FeltsAreReduced
<1>4. CASE x.ty = "Degenerate" /\ y.ty = "Degenerate" /\ y # False
  <2>1. Mod(x, y) = Degenerate(x.a % y.a) /\ x.a = v /\ y.a = w
    BY <1>1, <1>4, PointRead DEF Mod
  <2> QED
    BY <1>2, <2>1, Names
<1>5. CASE ~ (x.ty = "Degenerate" /\ y.ty = "Degenerate" /\ y # False)
  <2>1. Mod(x, y) = IF y.ty \in {"F", "Entire"} \/ Intersect[<<y, False>>] = False THEN Entire
                    ELSE ReduceTo[<<0, y.b - 1>>]
    BY <1>1, <1>5 DEF Mod
  <2>2. CASE y.ty \in {"F", "Entire"} \/ Intersect[<<y, False>>] = False
    BY <1>2, <2>1, <2>2, Names
  <2>3. CASE ~ (y.ty \in {"F", "Entire"} \/ Intersect[<<y, False>>] = False)
    <3>1. y.b \in Int /\ w <= y.b
      BY <1>1, <2>3, WithinBounds, Bounds DEF Types
    <3>2. v % w \in 0..(y.b - 1) /\ 0 \in Int /\ y.b - 1 \in Int
      BY <1>1, <1>2, <3>1
    <3>3. (v % w) % Prime \in Gamma(ReduceTo[<<0, y.b - 1>>])
      BY <3>2, ReduceToIsSound
    <3> QED
      BY <1>3, <2>1, <2>3, <3>3
  <2> QED
    BY <2>2, <2>3
<1> QED
  BY <1>4, <1>5

LEMMA BitAndIsSound ==
  ASSUME NEW x, NEW y, WellFormed(x), WellFormed(y), NEW v \in Gamma(x), NEW w \in Gamma(y)
  PROVE  Result("bit_and", <<v, w>>) \in Gamma(BitAnd(x, y))
<1> DEFINE n == Result("bit_and", <<v, w>>)
<1>1. x.ty # "Empty" /\ y.ty # "Empty" /\ v \in Felt /\ w \in Felt /\ v \in Int /\ w \in Int
  BY NotOutside, FeltsAreReduced
<1>2. n \in 0..v /\ n \in 0..w
  BY <1>1, BitwiseResults
<1> HIDE DEF n
<1>3. n \in Felt
  BY <1>1, <1>2, PrimeAssumption DEF Felt
<1>4. n % Prime = n
  BY <1>3, FeltsAreReduced
<1>5. n \in Gamma(ReduceTo[<<0, v>>]) /\ n \in Gamma(ReduceTo[<<0, w>>])
  BY <1>1, <1>2, <1>4, ReduceToIsSound
<1>6. n \in Gamma(Degenerate(n)) /\ n \in Gamma(Entire)
  BY <1>3, Names
<1>7. x.ty = "Degenerate" => x.a = v
  BY PointRead
<1>8. y.ty = "Degenerate" => y.a = w
  BY PointRead
<1>9. BitAnd(x, y) \in {Degenerate(n), ReduceTo[<<0, v>>], ReduceTo[<<0, w>>], Entire}
  BY <1>1, <1>7, <1>8 DEF BitAnd, n
<1> QED
  BY <1>5, <1>6, <1>9 DEF n

LEMMA BitOrIsSound ==
  ASSUME NEW op \in {"bit_or", "bit_xor"}, NEW x, NEW y, WellFormed(x), WellFormed(y),
         NEW v \in Gamma(x), NEW w \in Gamma(y)
  PROVE  Result(op, <<v, w>>) \in Gamma(BitOr(op, x, y))
<1> DEFINE n == Result(op, <<v, w>>)
<1>1. /\ x.ty # "Empty" /\ y.ty # "Empty" /\ x # Empty /\ y # Empty
      /\ v \in Felt /\ w \in Felt
  BY NotOutside
<1>2. n \in Felt
  <2>1. FromBits(Bits(v) \cup Bits(w)) \in Int
        /\ FromBits((Bits(v) \cup Bits(w)) \ (Bits(v) \cap Bits(w))) \in Int
    BY FromBitsTyped
  <2>2. n = (IF op = "bit_or" THEN FromBits(Bits(v) \cup Bits(w))
             ELSE FromBits((Bits(v) \cup Bits(w)) \ (Bits(v) \cap Bits(w)))) % Prime
    BY DEF Result
  <2> QED
    BY <2>1, <2>2, Division
<1>3. (v = 0 => n = w) /\ (w = 0 => n = v)
  BY <1>1, BitwiseResults
<1>4. (x.ty = "Degenerate" => x.a = v) /\ (y.ty = "Degenerate" => y.a = w)
  BY PointRead
<1>5. (x = False => v = 0) /\ (y = False => w = 0)
  <2>1. 0 \in Felt
    BY PrimeAssumption DEF Felt
  <2> QED
    BY <2>1, Names DEF False
<1>6. \/ BitOr(op, x, y) = y /\ x = False
      \/ BitOr(op, x, y) = x /\ y = False
      \/ BitOr(op, x, y) = Entire
      \/ BitOr(op, x, y) = Degenerate(n)
  BY <1>1, <1>4 DEF BitOr
<1>7. n \in Gamma(Entire) /\ n \in Gamma(Degenerate(n))
  BY <1>2, Names
<1> HIDE DEF n
<1>8. n \in Gamma(BitOr(op, x, y))
  BY <1>3, <1>5, <1>6, <1>7
<1> QED
  BY <1>8 DEF n

LEMMA ShiftIsSound ==
  ASSUME NEW op \in {"shl", "shr"}, NEW x, NEW y, WellFormed(x), WellFormed(y),
         NEW v \in Gamma(x), NEW w \in Gamma(y)
  PROVE  Result(op, <<v, w>>) \in Gamma(Shift(op, x, y))
<1> DEFINE n == Result(op, <<v, w>>)
<1>1. /\ x.ty # "Empty" /\ y.ty # "Empty" /\ v \in Felt /\ w \in Felt /\ 0 \in Felt
      /\ v \in Nat /\ w \in Nat /\ v < Prime /\ Prime \in Nat
  BY NotOutside, PrimeAssumption DEF Felt
<1>2. 2^w \in Nat /\ 2^w > 0 /\ BitWidth \in Nat /\ Prime < 2^BitWidth /\ 2^BitWidth \in Nat
  BY <1>1, PowersOfTwo, BitWidthHolds
<1>3. v * 2^w \in Int /\ v \div 2^w \in Nat /\ v \div 2^w <= v
  <2>1. v \div 2^w <= v \div 1 /\ v \div 1 = v
    BY <1>1, <1>2, QuotientMonotone
  <2> QED
    BY <1>1, <1>2, <2>1, QuotientOfNaturals
<1>4. v \div 2^w \in Felt /\ (v \div 2^w) % Prime = v \div 2^w
  <2>1. v \div 2^w \in Felt
    BY <1>1, <1>3 DEF Felt
  <2> QED
    BY <2>1, FeltsAreReduced
<1>5. n = IF op = "shl" THEN (v * 2^w) % Prime ELSE IF w >= BitWidth THEN 0 ELSE v \div 2^w
  BY DEF Result
<1>6. n \in Felt
  BY <1>1, <1>3, <1>4, <1>5, Division
<1>7. CASE x.ty # "Degenerate" \/ y.ty # "Degenerate"
  BY <1>1, <1>6, <1>7, Names DEF Shift
<1>8. CASE x.ty = "Degenerate" /\ y.ty = "Degenerate"
  <2>1. x.a = v /\ y.a = w
    BY <1>8, PointRead
  <2>2. Shift(op, x, y) = IF w > BitWidth THEN (IF op = "shl" THEN Entire ELSE False)
                          ELSE Degenerate(IF op = "shl" THEN v * 2^w ELSE v \div 2^w)
    BY <1>1, <1>8, <2>1 DEF Shift
  <2>3. op = "shr" /\ w = BitWidth => n = v \div 2^w
    <3>1. w = BitWidth => v \div 2^w = 0
      BY <1>1, <1>2, QuotientIs
    <3> QED
      BY <1>1, <1>2, <1>5, <3>1
  <2>4. Degenerate(v * 2^w) = Degenerate((v * 2^w) % Prime)
    BY <1>3, DegenerateTyped
  <2>5. n \in Gamma(Degenerate(n)) /\ n \in Gamma(Entire) /\ 0 \in Gamma(False)
    BY <1>6, Names, TruthValues
  <2>6. CASE op = "shl"
    <3>1. n = (v * 2^w) % Prime
      BY <1>5, <2>6
    <3> QED
      BY <2>2, <2>4, <2>5, <2>6, <3>1
  <2>7. CASE op = "shr"
    <3>1. CASE w > BitWidth
      BY <1>1, <1>2, <1>5, <2>2, <2>5, <2>7, <3>1
    <3>2. CASE w <= BitWidth
      <4>1. n = v \div 2^w
        BY <1>1, <1>2, <1>5, <2>3, <2>7, <3>2
      <4> QED
        BY <1>1, <1>2, <2>2, <2>5, <2>7, <3>2, <4>1
    <3> QED
      BY <1>1, <1>2, <3>1, <3>2
  <2> QED
    BY <2>6, <2>7
<1> QED
  BY <1>7, <1>8

LEMMA UnsignedDivisionIsSound ==
  ASSUME NEW x, NEW y, WellFormed(x), WellFormed(y), NEW v \in Gamma(x), NEW w \in Gamma(y), w # 0
  PROVE  v \div w \in Gamma(IntDiv(UnsignedParts(x), UnsignedParts(y)))
<1> DEFINE us == UnsignedParts(x)
           ws == UnsignedParts(y)
<1>1. v \in Felt /\ w \in Felt /\ v \in Nat /\ w \in Nat /\ w > 0 /\ v \in Int /\ w \in Int
  BY NotOutside, PrimeAssumption DEF Felt
<1>2. Parted(us) /\ Parted(ws)
  BY PartsTyped
<1>3. /\ \E i \in DOMAIN us : Holds(us[i], v)
      /\ DOMAIN us = IF x.ty = "F" THEN {1, 2} ELSE {1}
      /\ Unsigned(us)
  BY UnsignedReading DEF Unsigned
<1>4. /\ \E j \in DOMAIN ws : Holds(ws[j], w)
      /\ DOMAIN ws = IF y.ty = "F" THEN {1, 2} ELSE {1}
      /\ Unsigned(ws)
      /\ y.ty = "F" => ws[2][1] = 0
  BY UnsignedReading DEF Unsigned
<1>5. y.ty = "F" => HasZero(ws[2])
  <2>1. y.ty = "F" => ws[2] \in Ordered
    BY <1>2, <1>4 DEF Parted
  <2>2. y.ty = "F" => ws[2][1] = 0 /\ ws[2][2] \in Int /\ ws[2][1] <= ws[2][2]
    BY <1>4, <2>1, RangeIsPair DEF Ordered
  <2> QED
    BY <2>2 DEF HasZero
<1>6. Quotient(v, w) = v \div w
  <2>1. v >= 0 /\ w # 0
    BY <1>1
  <2> QED
    BY <1>1, <2>1, QuotientSigns
<1>7. (v \div w) % Prime = v \div w
  <2>1. v \div w <= v \div 1 /\ v \div 1 = v /\ v \div w \in Nat
    BY <1>1, QuotientMonotone, QuotientOfNaturals
  <2>2. v \div w \in Felt
    BY <1>1, <2>1, PrimeAssumption DEF Felt
  <2> QED
    BY <2>2, FeltsAreReduced
<1> HIDE DEF us, ws
<1>8. Quotient(v, w) % Prime \in Gamma(IntDiv(us, ws))
  <2>1. PICK i \in DOMAIN us : Holds(us[i], v)
    BY <1>3
  <2>2. PICK j \in DOMAIN ws : Holds(ws[j], w)
    BY <1>4
  <2>3. DOMAIN us = {1} \/ (DOMAIN us = {1, 2} /\ Unsigned(us) /\ Unsigned(ws))
    BY <1>3, <1>4
  <2>4. (DOMAIN ws = {1} \/ HasZero(ws[2])) /\ (2 \in DOMAIN ws \/ DOMAIN ws = {1})
    BY <1>4, <1>5
  <2> QED
    BY <1>1, <1>2, <2>1, <2>2, <2>3, <2>4, IntDivIsSound
<1> QED
  BY <1>6, <1>7, <1>8 DEF us, ws

LEMMA SignedDivisionIsSound ==
  ASSUME NEW x, NEW y, WellFormed(x), WellFormed(y), x.ty # "C", y.ty # "C",
         NEW v \in Gamma(x), NEW w \in Gamma(y), w # 0
  PROVE  LET a == ToSigned(v)
             b == ToSigned(w)
         IN  /\ Quotient(a, b) % Prime \in Gamma(IntDiv(SignedParts(x), SignedParts(y)))
             /\ Remainder(a, b) % Prime \in Gamma(SignedMod(SignedParts(x), SignedParts(y)))
<1> DEFINE us == SignedParts(x)
           ws == SignedParts(y)
           a == ToSigned(v)
           b == ToSigned(w)
<1>1. Parted(us) /\ Parted(ws)
  BY PartsTyped
<1>2. DOMAIN us = {1} /\ Holds(us[1], a) /\ a \in Int
  BY SignedReading
<1>3. DOMAIN ws = {1} /\ Holds(ws[1], b) /\ b \in Int
  BY SignedReading
<1>4. b # 0
  <2>1. w \in Felt
    BY NotOutside
  <2> QED
    BY <2>1, PrimeAssumption, Halves DEF Felt, ToSigned
<1> HIDE DEF us, ws, a, b
<1>5. Quotient(a, b) % Prime \in Gamma(IntDiv(us, ws))
  <2>1. 1 \in DOMAIN us /\ 1 \in DOMAIN ws
    BY <1>2, <1>3
  <2> QED
    BY <1>1, <1>2, <1>3, <1>4, <2>1, IntDivIsSound
<1>6. Remainder(a, b) % Prime \in Gamma(SignedMod(us, ws))
  BY <1>1, <1>2, <1>3, <1>4, SignedModIsSound
<1> QED
  BY <1>5, <1>6 DEF us, ws, a, b

LEMMA BoolResultIsSound ==
  ASSUME NEW op, NEW values, \A V \in values : Result(op, V) \in {0, 1}, NEW W \in values
  PROVE  Result(op, W) \in Gamma(BoolResult(op, values))
<1> DEFINE results == {Result(op, V) : V \in values}
           r == Result(op, W)
<1>1. r \in results /\ results \subseteq {0, 1} /\ r \in {0, 1}
  OBVIOUS
<1>2. 0 \in Felt /\ 1 \in Felt
  BY PrimeAssumption DEF Felt
<1>3. BoolResult(op, values) =
        IF Cardinality(results) = 1 THEN Degenerate(CHOOSE q \in results : TRUE) ELSE Boolean
  BY DEF BoolResult
<1>4. Cardinality(results) = 1 => results = {r}
  <2> HIDE DEF results, r
  <2>1. IsFiniteSet(results)
    <3>1. IsFiniteSet({0, 1})
      <4>1. IsFiniteSet({0} \cup {1}) /\ {0} \cup {1} = {0, 1}
        BY FS_AddElement, FS_Singleton
      <4> QED
        BY <4>1, Zenon
    <3> QED
      BY <1>1, <3>1, FS_Subset
  <2>2. Cardinality(results) = 1 => \E e : results = {e}
    BY <2>1, FS_Singleton
  <2> QED
    BY <1>1, <2>2
<1> HIDE DEF results, r
<1>5. r \in Gamma(Degenerate(r)) /\ r \in Gamma(Boolean)
  BY <1>1, <1>2, Names, TruthValues
<1>6. Cardinality(results) = 1 => (CHOOSE q \in results : TRUE) = r
  BY <1>1, <1>4
<1>7. r \in Gamma(BoolResult(op, values))
  BY <1>3, <1>5, <1>6
<1> QED
  BY <1>7 DEF r

(* The operand intervals the interval operations are not right about. *)
DoubtfulOperands(op, X) ==
  \/ op = "bit_not"
  \/ op \in {"sintdiv", "smod"} /\ (X[1].ty = "C" \/ X[2].ty = "C")
  \/ op \in {"lt", "le", "gt", "ge"} /\ X[1].ty = "F"
  \/ op \in {"eq", "ne"} /\ (FarPoint(X[1], X[2]) \/ FarPoint(X[2], X[1]))
  \/ op = "select" /\ (Misjoined(X[2], X[3]) \/ Misjoined(X[3], X[2]))

(* Save for those, what an operation computes lies in the interval that the  *)
(* interval operation computes (performBinaryArithmetic,                     *)
(* performUnaryArithmetic, select and the casts).                            *)
THEOREM TransferIsSound ==
  ASSUME NEW op \in Operations, NEW X, NEW V,
         \A i \in 1..Arity(op) : WellFormed(X[i]) /\ V[i] \in Gamma(X[i]),
         op \in BoolOps \cup {"not"} => \A i \in 1..Arity(op) : IsBoolean(X[i]),
         IsDefined(op, V), ~ DoubtfulOperands(op, X)
  PROVE  Result(op, V) \in Gamma(Transfer(op, X))
<1> DEFINE x == X[1]
           y == X[2]
           v == V[1]
           w == V[2]
<1>1. 1 \in 1..Arity(op) /\ (Arity(op) # 1 => 2 \in 1..Arity(op)) /\ (op = "select" => 3 \in 1..Arity(op))
  BY DEF Arity, FeltUnaryOps
<1>2. WellFormed(x) /\ v \in Gamma(x)
  BY <1>1
<1>3. op \notin FeltUnaryOps \cup {"not", "cast"} => WellFormed(y) /\ w \in Gamma(y)
  BY <1>1 DEF Arity
<1>4. CASE op \in {"add", "sub", "mul"}
  <2>1. WellFormed(y) /\ w \in Gamma(y)
    BY <1>3, <1>4 DEF FeltUnaryOps
  <2>2. Transfer(op, <<x, y>>) = Transfer(op, X) /\ Result(op, <<v, w>>) = Result(op, V)
    BY <1>4 DEF Transfer, Result, Predicates, BoolOps
  <2> HIDE DEF x, y, v, w
  <2> QED
    BY <1>2, <1>4, <2>1, <2>2, ArithmeticIsSound
<1>5. CASE op \in Predicates
  <2>1. WellFormed(y) /\ w \in Gamma(y)
    BY <1>3, <1>5 DEF FeltUnaryOps, Predicates
  <2>2. Transfer(op, <<x, y>>) = Transfer(op, X) /\ Result(op, <<v, w>>) = Result(op, V)
    BY <1>5 DEF Transfer, Result, Predicates
  <2>3. /\ op \in {"lt", "le", "gt", "ge"} => x.ty # "F"
        /\ op \in {"eq", "ne"} => ~ FarPoint(x, y) /\ ~ FarPoint(y, x)
    BY DEF DoubtfulOperands
  <2> HIDE DEF x, y, v, w
  <2> QED
    BY <1>2, <1>5, <2>1, <2>2, <2>3, ComparisonsAreSound
<1>6. CASE op \in Divisions
  <2>1. WellFormed(y) /\ w \in Gamma(y) /\ w # 0
    BY <1>3, <1>6 DEF FeltUnaryOps, Divisions, IsDefined
  <2>2. op \in {"sintdiv", "smod"} => x.ty # "C" /\ y.ty # "C"
    BY DEF DoubtfulOperands
  <2>3. CASE op = "div"
    <3>1. Transfer(op, X) = FeltDiv(x, y) /\ Result(op, V) = (v * Inv(w)) % Prime
      BY <2>3 DEF Transfer, Result, Predicates, BoolOps
    <3> HIDE DEF x, y, v, w
    <3> QED
      BY <1>2, <2>1, <3>1, FeltDivIsSound
  <2>4. CASE op = "uintdiv"
    <3>1. Transfer(op, X) = IntDiv(UnsignedParts(x), UnsignedParts(y)) /\ Result(op, V) = v \div w
      BY <2>4 DEF Transfer, Result, Predicates, BoolOps
    <3> HIDE DEF x, y, v, w
    <3> QED
      BY <1>2, <2>1, <3>1, UnsignedDivisionIsSound
  <2>5. CASE op = "umod"
    <3>1. Transfer(op, X) = Mod(x, y) /\ Result(op, V) = v % w
      BY <2>5 DEF Transfer, Result, Predicates, BoolOps
    <3> HIDE DEF x, y, v, w
    <3> QED
      BY <1>2, <2>1, <3>1, ModIsSound
  <2>6. CASE op = "sintdiv"
    <3>1. /\ Transfer(op, X) = IntDiv(SignedParts(x), SignedParts(y))
          /\ Result(op, V) = Quotient(ToSigned(v), ToSigned(w)) % Prime
      BY <2>6 DEF Transfer, Result, Predicates, BoolOps
    <3> HIDE DEF x, y, v, w
    <3> QED
      BY <1>2, <2>1, <2>2, <2>6, <3>1, SignedDivisionIsSound
  <2>7. CASE op = "smod"
    <3>1. /\ Transfer(op, X) = SignedMod(SignedParts(x), SignedParts(y))
          /\ Result(op, V) = Remainder(ToSigned(v), ToSigned(w)) % Prime
      BY <2>7 DEF Transfer, Result, Predicates, BoolOps
    <3> HIDE DEF x, y, v, w
    <3> QED
      BY <1>2, <2>1, <2>2, <2>7, <3>1, SignedDivisionIsSound
  <2> QED
    BY <1>6, <2>3, <2>4, <2>5, <2>6, <2>7 DEF Divisions
<1>7. CASE op \in {"bit_and", "bit_or", "bit_xor", "shl", "shr"}
  <2>1. WellFormed(y) /\ w \in Gamma(y)
    BY <1>3, <1>7 DEF FeltUnaryOps
  <2>2. Result(op, <<v, w>>) = Result(op, V)
    BY <1>7 DEF Result
  <2>3. Transfer(op, X) = IF op = "bit_and" THEN BitAnd(x, y)
                          ELSE IF op \in {"bit_or", "bit_xor"} THEN BitOr(op, x, y) ELSE Shift(op, x, y)
    BY <1>7 DEF Transfer, Predicates, BoolOps
  <2> HIDE DEF x, y, v, w
  <2> QED
    BY <1>2, <1>7, <2>1, <2>2, <2>3, BitAndIsSound, BitOrIsSound, ShiftIsSound
<1>8. CASE op = "neg"
  <2>1. Transfer(op, X) = Neg[x] /\ Result(op, V) = (-v) % Prime
    BY <1>8 DEF Transfer, Result, Predicates, BoolOps
  <2> HIDE DEF x, v
  <2> QED
    BY <1>2, <2>1, NegIsSound
<1>9. CASE op = "inv"
  <2>1. Transfer(op, X) = Entire /\ Result(op, V) = Inv(v) /\ v # 0
    BY <1>9 DEF Transfer, Result, IsDefined, Predicates, BoolOps
  <2>2. Inv(v) \in Felt
    BY <1>2, <2>1, NotOutside, InverseExists
  <2> QED
    BY <2>1, <2>2, Names
<1>10. CASE op \in BoolOps
  <2>1. IsBoolean(x) /\ IsBoolean(y) /\ w \in Gamma(y)
    BY <1>1, <1>3, <1>10 DEF Arity, FeltUnaryOps, BoolOps
  <2>2. Gamma(x) \subseteq {0, 1} /\ Gamma(y) \subseteq {0, 1}
    BY <2>1, BooleanValues
  <2>3. Transfer(op, X) = BoolResult(op, Gamma(x) \X Gamma(y)) /\ Result(op, V) = Result(op, <<v, w>>)
    BY <1>10 DEF Transfer, Result, BoolOps, Predicates
  <2>4. \A W \in Gamma(x) \X Gamma(y) : Result(op, W) \in {0, 1}
    <3> SUFFICES ASSUME NEW p \in {0, 1}, NEW q \in {0, 1}
                 PROVE  Result(op, <<p, q>>) \in {0, 1}
      BY <2>2
    <3>1. Max({p, q}) \in {0, 1}
      BY Pairs
    <3>2. Result(op, <<p, q>>) = IF op = "and" THEN p * q ELSE IF op = "or" THEN Max({p, q})
                                 ELSE FromBool(p # q)
      BY <1>10 DEF Result, BoolOps
    <3> QED
      BY <3>1, <3>2 DEF FromBool
  <2>5. <<v, w>> \in Gamma(x) \X Gamma(y)
    BY <1>2, <2>1
  <2> HIDE DEF x, y, v, w
  <2> QED
    BY <2>3, <2>4, <2>5, BoolResultIsSound
<1>11. CASE op = "not"
  <2>1. IsBoolean(x)
    BY <1>1, <1>11
  <2>2. Gamma(x) \subseteq {0, 1}
    BY <2>1, BooleanValues
  <2>3. Transfer(op, X) = BoolResult(op, {<<q>> : q \in Gamma(x)}) /\ Result(op, V) = Result(op, <<v>>)
    BY <1>11 DEF Transfer, Result, BoolOps, Predicates
  <2>4. \A W \in {<<q>> : q \in Gamma(x)} : Result(op, W) \in {0, 1}
    <3> SUFFICES ASSUME NEW q \in {0, 1} PROVE Result(op, <<q>>) \in {0, 1}
      BY <2>2
    <3> QED
      BY <1>11 DEF Result
  <2>5. <<v>> \in {<<q>> : q \in Gamma(x)}
    BY <1>2
  <2> HIDE DEF x, v
  <2> QED
    BY <2>3, <2>4, <2>5, BoolResultIsSound
<1>12. CASE op = "cast"
  <2>1. Transfer(op, X) = x /\ Result(op, V) = v
    BY <1>12 DEF Transfer, Result, BoolOps, Predicates
  <2> QED
    BY <1>2, <2>1
<1>13. CASE op = "select"
  <2> DEFINE z == X[3]
             u == V[3]
  <2>1. WellFormed(y) /\ w \in Gamma(y) /\ WellFormed(z) /\ u \in Gamma(z)
    BY <1>1, <1>3, <1>13 DEF FeltUnaryOps
  <2>2. /\ Transfer(op, X) = SelectValue(x, y, z)
        /\ Result(op, V) = IF v = 1 THEN w ELSE u
    BY <1>13 DEF Transfer, Result, BoolOps, Predicates
  <2>3. ~ Misjoined(y, z) /\ ~ Misjoined(z, y)
    BY <1>13 DEF DoubtfulOperands
  <2>4. (x = True => v = 1) /\ (x = False => v = 0) /\ x # Empty
    <3>1. 0 \in Felt /\ 1 \in Felt
      BY PrimeAssumption DEF Felt
    <3> HIDE DEF x, v
    <3> QED
      BY <1>2, <3>1, Names, NotOutside DEF False, True
  <2>5. True # False
    <3>1. 0 \in Felt /\ 1 \in Felt
      BY PrimeAssumption DEF Felt
    <3>2. False = [ty |-> "Degenerate", a |-> 0, b |-> 0] /\ True = [ty |-> "Degenerate", a |-> 1, b |-> 1]
      BY <3>1, Names DEF False, True
    <3>3. False.a = 0 /\ True.a = 1
      BY <3>2
    <3> QED
      BY <3>3
  <2> HIDE DEF x, y, z, v, w, u
  <2>6. w \in Gamma(Join[<<y, z>>]) /\ u \in Gamma(Join[<<y, z>>])
    BY <2>1, <2>3, JoinIsSound
  <2>7. SelectValue(x, y, z) = IF x = True THEN y ELSE IF x = False THEN z ELSE Join[<<y, z>>]
    BY <2>4, <2>5 DEF SelectValue
  <2> QED
    BY <2>1, <2>2, <2>4, <2>6, <2>7
<1>14. op # "bit_not"
  BY DEF DoubtfulOperands
<1> QED
  BY <1>4, <1>5, <1>6, <1>7, <1>8, <1>9, <1>10, <1>11, <1>12, <1>13, <1>14
     DEF Operations, FeltOps, FeltUnaryOps

-----------------------------------------------------------------------------
(*------------------------------ the analysis -----------------------------*)

(* What applyInterval may be called with: a value that has been visited. *)
Calls(end) ==
  [value : {m \in Nodes : m < end /\ circuit[m].op \notin Constraints},
   interval : {x \in IntervalType : WellFormed(x)}]

(* Results are set in program order, and an operation without operands is *)
(* never queued.                                                          *)
IInv ==
  /\ TypeOK
  /\ circuit \in Circuits
  /\ todo \in Seq(Calls(upcoming))
  /\ \A m \in Nodes : IsSet(m) => m < upcoming
  /\ \A m \in Nodes : m < upcoming /\ circuit[m].op \notin Constraints => IsSet(m)
  /\ \A m \in Nodes : Known(m) => pending[m] = 0

-----------------------------------------------------------------------------
(*------------------------------- the circuit -----------------------------*)
LEMMA CircuitFacts ==
  ASSUME circuit \in Circuits, NEW n \in Nodes
  PROVE  /\ Len(circuit) \in Nat /\ Nodes = 1..Len(circuit) /\ n \in Nat
         /\ circuit[n].op \in Operations \cup Sources \cup Constraints
         /\ DOMAIN circuit[n].args = 1..OperandCount(circuit[n].op)
         /\ \A i \in 1..OperandCount(circuit[n].op) :
              /\ circuit[n].args[i] \in Nodes /\ circuit[n].args[i] < n
              /\ circuit[circuit[n].args[i]].op \notin Constraints
         /\ Known(n) => WellFormed(circuit[n].known)
         /\ circuit[n].op = "const" => circuit[n].known.ty = "Degenerate"
<1>1. IsCircuit(circuit)
  BY CircuitsAssumption
<1>2. Len(circuit) \in Nat /\ Nodes = 1..Len(circuit) /\ n \in Nat
  BY <1>1 DEF IsCircuit, Nodes
<1>3. /\ circuit[n].op \in Operations \cup Sources \cup Constraints
      /\ DOMAIN circuit[n].args = 1..OperandCount(circuit[n].op)
      /\ \A i \in DOMAIN circuit[n].args :
           circuit[n].args[i] \in 1..(n - 1) /\ circuit[circuit[n].args[i]].op \notin Constraints
      /\ circuit[n].op \in Sources => WellFormed(circuit[n].known)
      /\ circuit[n].op = "const" => circuit[n].known.ty = "Degenerate"
  BY <1>1, <1>2 DEF IsCircuit, Nodes
<1>4. \A i \in 1..OperandCount(circuit[n].op) :
        circuit[n].args[i] \in Nodes /\ circuit[n].args[i] < n
  BY <1>2, <1>3
<1> QED
  BY <1>2, <1>3, <1>4 DEF Known

LEMMA OperandCounts ==
  /\ \A op : OperandCount(op) \in 0..3
  /\ \A op \in Operations : OperandCount(op) = Arity(op)
BY DEF OperandCount, Arity, Operations, Sources, FeltOps, Divisions, FeltUnaryOps, Predicates, BoolOps

LEMMA UseCounts ==
  ASSUME circuit \in Circuits, NEW n \in Nodes, NEW m \in Nodes
  PROVE  Uses(n, m) \in Nat /\ (Known(m) => Uses(n, m) = 0)
<1> DEFINE U == {i \in DOMAIN circuit[m].args : circuit[m].args[i] = n}
           k == OperandCount(circuit[m].op)
<1>1. DOMAIN circuit[m].args = 1..k /\ k \in 0..3
  BY CircuitFacts, OperandCounts
<1>2. IsFiniteSet(1..k)
  BY <1>1, FS_Interval
<1>3. Cardinality(U) \in Nat
  BY <1>1, <1>2, FS_Subset, FS_CardinalityType
<1>4. Known(m) => U = {}
  BY <1>1 DEF Known, OperandCount
<1> QED
  BY <1>3, <1>4, FS_EmptySet DEF Uses

-----------------------------------------------------------------------------
(*------------------------------ one assignment ---------------------------*)
LEMMA Visited ==
  ASSUME IInv, NEW n \in Nodes, IsSet(n)
  PROVE  WellFormed(lattice[n])
BY DEF IInv, TypeOK, IsSet

(* What SetValue leaves as it was. *)
LEMMA SetValueKeeps ==
  ASSUME IInv, NEW n \in Nodes, NEW x, WellFormed(x), NEW queue \in [Nodes -> Nat],
         \A m \in Nodes : Known(m) => queue[m] = 0, SetValue(n, x, queue)
  PROVE  /\ lattice' = [lattice EXCEPT ![n] = x]
         /\ lattice' \in [Nodes -> IntervalType \cup {Unset}]
         /\ \A m \in Nodes : lattice'[m] # Unset => WellFormed(lattice'[m])
         /\ pending' \in [Nodes -> Nat]
         /\ \A m \in Nodes : Known(m) => pending'[m] = 0
<1>1. lattice' = [lattice EXCEPT ![n] = x] /\ lattice \in [Nodes -> IntervalType \cup {Unset}]
  BY DEF SetValue, IInv, TypeOK
<1>2. x \in IntervalType
  BY DEF WellFormed
<1>3. \A m \in Nodes : lattice[m] # Unset => WellFormed(lattice[m])
  BY DEF IInv, TypeOK
<1>4. \A m \in Nodes : Uses(n, m) \in Nat /\ (Known(m) => Uses(n, m) = 0)
  BY UseCounts DEF IInv
<1>5. pending' = queue \/ pending' = [m \in Nodes |-> queue[m] + Uses(n, m)]
  BY DEF SetValue
<1>6. CASE pending' = queue
  BY <1>1, <1>2, <1>3, <1>6
<1>7. CASE pending' = [m \in Nodes |-> queue[m] + Uses(n, m)]
  BY <1>1, <1>2, <1>3, <1>4, <1>7
<1> QED
  BY <1>5, <1>6, <1>7

LEMMA UnsetIsNone == \A x : WellFormed(x) => x # Unset
BY DEF WellFormed, IntervalType, Types, Unset

LEMMA OperandFacts ==
  ASSUME IInv, NEW n \in Nodes, n <= upcoming
  PROVE  \A i \in 1..OperandCount(circuit[n].op) :
           LET m == circuit[n].args[i]
           IN  /\ m \in Nodes /\ m < n /\ m < upcoming /\ circuit[m].op \notin Constraints
               /\ IsSet(m) /\ WellFormed(lattice[m]) /\ Operands(n)[i] = lattice[m]
<1> SUFFICES ASSUME NEW i \in 1..OperandCount(circuit[n].op)
             PROVE  LET m == circuit[n].args[i]
                    IN  /\ m \in Nodes /\ m < n /\ m < upcoming /\ circuit[m].op \notin Constraints
                        /\ IsSet(m) /\ WellFormed(lattice[m]) /\ Operands(n)[i] = lattice[m]
  OBVIOUS
<1> DEFINE m == circuit[n].args[i]
<1>1. circuit \in Circuits /\ upcoming \in 1..(Len(circuit) + 1)
  BY DEF IInv, TypeOK
<1>2. /\ Len(circuit) \in Nat /\ Nodes = 1..Len(circuit) /\ n \in Nat
      /\ m \in Nodes /\ m < n /\ circuit[m].op \notin Constraints
      /\ DOMAIN circuit[n].args = 1..OperandCount(circuit[n].op)
  BY <1>1, CircuitFacts
<1>3. m < upcoming
  BY <1>1, <1>2
<1>4. IsSet(m) /\ WellFormed(lattice[m])
  BY <1>2, <1>3, Visited DEF IInv
<1>5. Operands(n)[i] = lattice[m]
  BY <1>2 DEF Operands
<1> QED
  BY <1>2, <1>3, <1>4, <1>5

LEMMA CallTyped ==
  ASSUME NEW n \in Nodes, NEW x, NEW end, n < end, circuit[n].op \notin Constraints, WellFormed(x)
  PROVE  Call(n, x) \in Calls(end)
BY DEF Call, Calls, WellFormed

(*---------------------------- roots of products --------------------------*)
LEMMA RootTyped ==
  ASSUME circuit \in Circuits, NEW m \in Nodes
  PROVE  \A root \in Root(m) :
           /\ root[1] \in Nodes /\ root[1] <= m /\ circuit[root[1]].op = "input" /\ root[2] \in Felt
<1>1. CASE circuit[m].op = "input"
  <2>1. Root(m) = {<<m, 0>>}
    BY <1>1 DEF Root
  <2>2. 0 \in Felt /\ m \in Nat
    BY PrimeAssumption, CircuitFacts DEF Felt
  <2> QED
    BY <1>1, <2>1, <2>2
<1>2. CASE circuit[m].op = "sub"
  <2> DEFINE args == circuit[m].args
             J == {j \in {1, 2} : circuit[args[j]].op = "input" /\ circuit[args[3 - j]].op = "const"}
  <2>1. Root(m) = {<<args[i], circuit[args[3 - i]].known.a>> : i \in J}
    BY <1>2 DEF Root
  <2>2. OperandCount(circuit[m].op) = 2
    BY <1>2 DEF OperandCount, Arity, Sources, FeltUnaryOps
  <2>3. \A i \in {1, 2} : args[i] \in Nodes /\ args[i] < m /\ m \in Nat /\ args[i] \in Nat
    BY <2>2, CircuitFacts
  <2>4. \A i \in J : circuit[args[3 - i]].known.a \in Felt
    <3> SUFFICES ASSUME NEW i \in J PROVE circuit[args[3 - i]].known.a \in Felt
      OBVIOUS
    <3>1. 3 - i \in {1, 2}
      OBVIOUS
    <3>2. args[3 - i] \in Nodes /\ Known(args[3 - i])
      BY <2>3, <3>1 DEF Known, Sources
    <3> QED
      BY <3>2, CircuitFacts, Bounds
  <2>5. \A i \in J : args[i] \in Nodes /\ args[i] <= m /\ circuit[args[i]].op = "input"
    BY <2>3
  <2> QED
    BY <2>1, <2>4, <2>5
<1>3. CASE circuit[m].op \notin {"input", "sub"}
  BY <1>3 DEF Root
<1> QED
  BY <1>1, <1>2, <1>3

LEMMA RootsTyped ==
  ASSUME circuit \in Circuits, NEW n \in Nodes
  PROVE  \A root \in Roots(n) :
           /\ root[1] \in Nodes /\ root[1] <= n /\ circuit[root[1]].op = "input" /\ root[2] \in Felt
<1> DEFINE factors == {m \in Walked(n) : circuit[m].op # "mul"}
<1>1. \A root \in Roots(n) : \E m \in factors : root \in Root(m)
  BY DEF Roots
<1>2. \A m \in factors : m \in 1..n
  BY DEF Walked
<1>3. Nodes = 1..Len(circuit) /\ Len(circuit) \in Nat /\ n \in Nat
  BY CircuitFacts
<1>4. \A m \in factors : m \in Nodes /\ m <= n
  BY <1>2, <1>3
<1> SUFFICES ASSUME NEW root \in Roots(n)
             PROVE  /\ root[1] \in Nodes /\ root[1] <= n
                    /\ circuit[root[1]].op = "input" /\ root[2] \in Felt
  OBVIOUS
<1>5. PICK m \in factors : root \in Root(m)
  BY <1>1
<1>6. m \in Nodes /\ m <= n
  BY <1>4
<1> HIDE DEF factors
<1>7. root[1] \in Nodes /\ root[1] <= m /\ circuit[root[1]].op = "input" /\ root[2] \in Felt
  BY <1>5, <1>6, RootTyped
<1> QED
  BY <1>3, <1>6, <1>7

LEMMA DecompositionTyped ==
  ASSUME IInv, NEW l \in Nodes, NEW r \in Nodes, l < upcoming, r < upcoming
  PROVE  Decomposition(l, r) \in Seq(Calls(upcoming))
<1> DEFINE n == IF IsZero(l) THEN r ELSE l
           R == Roots(n)
           signals == {root[1] : root \in R}
           consts == {root[2] : root \in R}
           s == CHOOSE s \in signals : TRUE
<1>1. circuit \in Circuits /\ upcoming \in Nat
  BY CircuitFacts DEF IInv, TypeOK
<1>2. Len(circuit) \in Nat /\ Nodes = 1..Len(circuit) /\ n \in Nodes /\ n < upcoming /\ n \in Nat
  BY <1>1, CircuitFacts
<1>3. \A root \in R : /\ root[1] \in Nodes /\ root[1] <= n
                      /\ circuit[root[1]].op = "input" /\ root[2] \in Felt
  BY <1>1, <1>2, RootsTyped
<1>4. Decomposition(l, r) \in {<<>>, <<Call(s, ReduceTo[Corners(consts)])>>}
  BY DEF Decomposition
<1>5. Decomposition(l, r) # <<>> => Cardinality(signals) = 1
  BY DEF Decomposition
<1> HIDE DEF n, R
<1>6. ASSUME Cardinality(signals) = 1
      PROVE  Call(s, ReduceTo[Corners(consts)]) \in Calls(upcoming)
  <2>1. signals # {}
    <3> HIDE DEF signals
    <3> QED
      BY <1>6, FS_EmptySet
  <2>2. consts # {} /\ consts \subseteq Felt
    BY <1>3, <2>1
  <2>3. s \in signals
    BY <2>1
  <2>4. s \in Nodes /\ s < upcoming /\ circuit[s].op = "input"
    BY <1>1, <1>2, <1>3, <2>3
  <2>5. Min(consts) \in Int /\ Max(consts) \in Int
    BY <2>2, LeastAndGreatest DEF Felt
  <2>6. WellFormed(ReduceTo[Corners(consts)])
    BY <2>5, Reduced DEF Corners, Ranges
  <2> QED
    BY <2>4, <2>6, CallTyped DEF Constraints
<1> DEFINE c == Call(s, ReduceTo[Corners(consts)])
           S == Calls(upcoming)
<1>7. c \in S => <<c>> \in Seq(S)
  <2> HIDE DEF c, S
  <2> QED
    OBVIOUS
<1>8. <<>> \in Seq(S)
  <2> HIDE DEF S
  <2> QED
    OBVIOUS
<1> HIDE DEF signals, consts, s, S
<1>9. Decomposition(l, r) # <<>> => c \in S
  BY <1>5, <1>6 DEF S
<1> HIDE DEF c
<1> QED
  BY <1>4, <1>7, <1>8, <1>9 DEF c, S

-----------------------------------------------------------------------------
(*---------------------------------- visits --------------------------------*)
LEMMA SequenceOfCalls ==
  ASSUME NEW end, NEW later, NEW s \in Seq(Calls(end)), NEW c, NEW d
  PROVE  /\ <<>> \in Seq(Calls(end))
         /\ c \in Calls(end) => <<c>> \in Seq(Calls(end)) /\ s \o <<c>> \in Seq(Calls(end))
         /\ c \in Calls(end) /\ d \in Calls(end) =>
              <<c, d>> \in Seq(Calls(end)) /\ s \o <<c, d>> \in Seq(Calls(end))
         /\ Calls(end) \subseteq Calls(later) => s \in Seq(Calls(later))
<1> DEFINE S == Calls(end)
           T == Calls(later)
<1> HIDE DEF S, T
<1>1. <<>> \in Seq(S) /\ s \in Seq(S) 
  BY DEF S
<1>2. c \in S => <<c>> \in Seq(S) /\ s \o <<c>> \in Seq(S)
  BY <1>1
<1>3. c \in S /\ d \in S => <<c, d>> \in Seq(S)
  OBVIOUS
<1>4. c \in S /\ d \in S => s \o <<c, d>> \in Seq(S)
  BY <1>1, <1>3
<1>5. S \subseteq T => s \in Seq(T)
  BY <1>1
<1> QED
  BY <1>1, <1>2, <1>3, <1>4, <1>5 DEF S, T

(* A visit leaves the constraints' results unset and sets every other one; *)
(* what an operation without operands has was unset.                       *)
LEMMA VisitResult ==
  ASSUME IInv, NEW n \in Nodes, n <= upcoming, NEW queue \in [Nodes -> Nat],
         \A m \in Nodes : Known(m) => queue[m] = 0, Visit(n, queue)
  PROVE  /\ \/ circuit[n].op \in Constraints /\ lattice' = lattice
            \/ /\ circuit[n].op \notin Constraints
               /\ lattice' \in [Nodes -> IntervalType \cup {Unset}]
               /\ IsSet(n)'
               /\ \A m \in Nodes : m # n => lattice'[m] = lattice[m]
               /\ \A m \in Nodes : lattice'[m] # Unset => WellFormed(lattice'[m])
         /\ pending' \in [Nodes -> Nat] /\ \A m \in Nodes : Known(m) => pending'[m] = 0
         /\ todo' \in Seq(Calls(upcoming))
         /\ circuit[n].op \notin Constraints \cup {"cast"} /\ ~Known(n) /\ IsSet(n) =>
              /\ WellFormed(Transfer(circuit[n].op, Operands(n)))
              /\ lattice'[n] = Intersect[<<Transfer(circuit[n].op, Operands(n)), lattice[n]>>]
<1> DEFINE op == circuit[n].op
           args == circuit[n].args
           x == Transfer(op, Operands(n))
           Goal == /\ lattice' \in [Nodes -> IntervalType \cup {Unset}]
                   /\ lattice'[n] # Unset
                   /\ \A m \in Nodes : m # n => lattice'[m] = lattice[m]
                   /\ \A m \in Nodes : lattice'[m] # Unset => WellFormed(lattice'[m])
                   /\ pending' \in [Nodes -> Nat] /\ \A m \in Nodes : Known(m) => pending'[m] = 0
<1>1. /\ circuit \in Circuits /\ todo \in Seq(Calls(upcoming)) /\ todo = <<>>
      /\ lattice \in [Nodes -> IntervalType \cup {Unset}]
  BY DEF IInv, TypeOK, Visit
<1>2. /\ op \in Operations \cup Sources \cup Constraints /\ Operations \cap Constraints = {}
      /\ Sources \cap Constraints = {} /\ "cast" \notin Sources \cup Constraints
  BY <1>1, CircuitFacts DEF Operations, FeltOps, Divisions, FeltUnaryOps, Predicates, BoolOps, Sources, Constraints
<1>3. \A i \in 1..OperandCount(op) :
        /\ args[i] \in Nodes /\ args[i] < upcoming /\ circuit[args[i]].op \notin Constraints
        /\ WellFormed(lattice[args[i]]) /\ Operands(n)[i] = lattice[args[i]]
  BY OperandFacts
<1>4. ASSUME NEW z, WellFormed(z), SetValue(n, z, queue)
      PROVE  Goal /\ lattice'[n] = z
  BY <1>1, <1>4, SetValueKeeps, UnsetIsNone
<1>5. CASE VisitSource(n, queue)
  <2>1. WellFormed(circuit[n].known) /\ op \in Sources
    BY <1>1, <1>5, CircuitFacts DEF VisitSource, Known
  <2>2. Goal /\ todo' = todo
    BY <1>4, <1>5, <2>1 DEF VisitSource
  <2> QED
    BY <1>1, <1>2, <1>5, <2>1, <2>2 DEF VisitSource, IsSet
<1>6. CASE VisitOperation(n, queue)
  <2>1. op \in Operations /\ op # "cast" /\ ~Rejected(n) /\ todo' = todo
    BY <1>2, <1>6 DEF VisitOperation, Known
  <2>2. DOMAIN args = 1..Arity(op) /\ OperandCount(op) = Arity(op)
    BY <1>1, <2>1, CircuitFacts, OperandCounts
  <2>3. WellFormed(x)
    <3>1. \A i \in 1..Arity(op) : WellFormed(Operands(n)[i])
      BY <1>3, <2>2
    <3>2. op \in BoolOps \cup {"not"} => \A i \in 1..Arity(op) : IsBoolean(Operands(n)[i])
      BY <2>1, <2>2 DEF Rejected
    <3> QED
      BY <2>1, <3>1, <3>2, TransferTyped
  <2> DEFINE z == IF lattice[n] = Unset THEN x ELSE Intersect[<<x, lattice[n]>>]
  <2>4. SetValue(n, z, queue)
    BY <1>6 DEF VisitOperation
  <2>5. WellFormed(z)
    <3>1. lattice[n] # Unset => WellFormed(lattice[n])
      BY Visited DEF IsSet
    <3> QED
      BY <2>3, <3>1, IntersectCases
  <2> HIDE DEF x
  <2>6. Goal /\ lattice'[n] = z
    BY <1>4, <2>4, <2>5
  <2> QED
    BY <1>1, <1>2, <2>1, <2>3, <2>6 DEF IsSet, x
<1>7. CASE VisitCast(n, queue)
  <2>1. op = "cast" /\ todo' = todo /\ SetValue(n, Operands(n)[1], queue)
    BY <1>7 DEF VisitCast
  <2>2. 1 \in 1..OperandCount(op)
    BY <2>1 DEF OperandCount, Arity, Sources
  <2>3. WellFormed(Operands(n)[1])
    BY <1>3, <2>2
  <2>4. Goal
    BY <1>4, <2>1, <2>3
  <2> QED
    BY <1>1, <1>2, <2>1, <2>4 DEF IsSet
<1>8. CASE VisitEmitEq(n, queue)
  <2> DEFINE l == args[1]
             r == args[2]
             both == Intersect[<<lattice[l], lattice[r]>>]
  <2>1. op = "emiteq" /\ lattice' = lattice /\ pending' = queue
        /\ todo' = Decomposition(l, r) \o <<Call(l, both), Call(r, both)>>
    BY <1>8 DEF VisitEmitEq
  <2>2. 1 \in 1..OperandCount(op) /\ 2 \in 1..OperandCount(op)
    BY <2>1 DEF OperandCount, Sources
  <2>3. /\ l \in Nodes /\ l < upcoming /\ circuit[l].op \notin Constraints /\ WellFormed(lattice[l])
        /\ r \in Nodes /\ r < upcoming /\ circuit[r].op \notin Constraints /\ WellFormed(lattice[r])
    BY <1>3, <2>2
  <2>4. WellFormed(both)
    BY <2>3, IntersectCases
  <2> HIDE DEF both
  <2>5. Call(l, both) \in Calls(upcoming) /\ Call(r, both) \in Calls(upcoming)
    BY <2>3, <2>4, CallTyped
  <2>6. Decomposition(l, r) \in Seq(Calls(upcoming))
    BY <2>3, DecompositionTyped
  <2>7. todo' \in Seq(Calls(upcoming))
    BY <2>1, <2>5, <2>6, SequenceOfCalls
  <2> QED
    BY <2>1, <2>7 DEF Constraints
<1>9. CASE VisitAssert(n, queue)
  <2>1. op = "assert" /\ lattice' = lattice /\ pending' = queue /\ todo' = <<Call(args[1], True)>>
    BY <1>9 DEF VisitAssert
  <2>2. 1 \in 1..OperandCount(op)
    BY <2>1 DEF OperandCount, Sources
  <2>3. Call(args[1], True) \in Calls(upcoming)
    BY <1>3, <2>2, CallTyped, TruthValues
  <2>4. todo' \in Seq(Calls(upcoming))
    BY <1>1, <2>1, <2>3, SequenceOfCalls
  <2> QED
    BY <2>1, <2>4 DEF Constraints
<1> QED
  BY <1>5, <1>6, <1>7, <1>8, <1>9 DEF Visit

LEMMA VisitKeeps ==
  ASSUME IInv, NEW n \in Nodes, n <= upcoming, NEW queue \in [Nodes -> Nat],
         \A m \in Nodes : Known(m) => queue[m] = 0, Visit(n, queue),
         upcoming' \in 1..(Len(circuit) + 1), upcoming <= upcoming', n < upcoming',
         \A m \in Nodes : m < upcoming' => m < upcoming \/ m = n
  PROVE  IInv'
<1>1. /\ circuit \in Circuits /\ upcoming \in 1..(Len(circuit) + 1)
      /\ lattice \in [Nodes -> IntervalType \cup {Unset}]
      /\ witness \in Executions(circuit) /\ aborted \in BOOLEAN
      /\ \A m \in Nodes : lattice[m] # Unset => WellFormed(lattice[m])
      /\ \A m \in Nodes : lattice[m] # Unset => m < upcoming
      /\ \A m \in Nodes : m < upcoming /\ circuit[m].op \notin Constraints => lattice[m] # Unset
  BY DEF IInv, TypeOK, IsSet
<1>2. circuit' = circuit /\ witness' = witness /\ aborted' = aborted
  BY DEF Visit
<1>3. Len(circuit) \in Nat /\ Nodes = 1..Len(circuit)
  BY <1>1, CircuitFacts
<1>4. /\ pending' \in [Nodes -> Nat] /\ \A m \in Nodes : Known(m) => pending'[m] = 0
      /\ todo' \in Seq(Calls(upcoming))
  BY VisitResult
<1>5. \/ circuit[n].op \in Constraints /\ lattice' = lattice
      \/ /\ circuit[n].op \notin Constraints
         /\ lattice' \in [Nodes -> IntervalType \cup {Unset}]
         /\ lattice'[n] # Unset
         /\ \A m \in Nodes : m # n => lattice'[m] = lattice[m]
         /\ \A m \in Nodes : lattice'[m] # Unset => WellFormed(lattice'[m])
  BY VisitResult DEF IsSet
<1>6. todo' \in Seq(Calls(upcoming'))
  <2>1. Calls(upcoming) \subseteq Calls(upcoming')
    <3>1. \A m \in Nodes : m < upcoming => m < upcoming'
      BY <1>1, <1>3
    <3> QED
      BY <3>1 DEF Calls
  <2> QED
    BY <1>4, <2>1, SequenceOfCalls
<1>7. Calls(upcoming)' = Calls(upcoming')
  BY <1>2 DEF Calls, Nodes
<1>8. \A i \in DOMAIN todo' : todo'[i].value \in Nodes /\ WellFormed(todo'[i].interval)
  <2>1. \A c \in Calls(upcoming') : c.value \in Nodes /\ WellFormed(c.interval)
    BY DEF Calls
  <2> QED
    BY <1>6, <2>1
<1>9. /\ lattice' \in [Nodes -> IntervalType \cup {Unset}]
      /\ \A m \in Nodes : lattice'[m] # Unset => WellFormed(lattice'[m])
  BY <1>1, <1>5
<1>10. /\ \A m \in Nodes : lattice'[m] # Unset => m < upcoming'
       /\ \A m \in Nodes : m < upcoming' /\ circuit[m].op \notin Constraints => lattice'[m] # Unset
  BY <1>1, <1>3, <1>5
<1>11. TypeOK'
  BY <1>1, <1>2, <1>4, <1>8, <1>9 DEF TypeOK, Nodes
<1> QED
  BY <1>1, <1>2, <1>4, <1>6, <1>7, <1>10, <1>11 DEF IInv, Nodes, IsSet, Known

LEMMA FirstVisitKeeps == IInv /\ FirstVisit => IInv'
<1> SUFFICES ASSUME IInv, FirstVisit PROVE IInv'
  OBVIOUS
<1>1. upcoming \in Nodes /\ Visit(upcoming, pending) /\ upcoming' = upcoming + 1
  BY DEF FirstVisit
<1>2. Len(circuit) \in Nat /\ Nodes = 1..Len(circuit)
  BY <1>1, CircuitFacts DEF IInv
<1>3. pending \in [Nodes -> Nat] /\ \A m \in Nodes : Known(m) => pending[m] = 0
  BY DEF IInv, TypeOK
<1> QED
  BY <1>1, <1>2, <1>3, VisitKeeps

LEMMA RevisitFacts ==
  ASSUME IInv, NEW n \in Nodes, Revisit(n)
  PROVE  /\ [pending EXCEPT ![n] = @ - 1] \in [Nodes -> Nat]
         /\ \A m \in Nodes : Known(m) => [pending EXCEPT ![n] = @ - 1][m] = 0
         /\ n < upcoming /\ ~Known(n) /\ upcoming' = upcoming /\ upcoming = Len(circuit) + 1
         /\ Visit(n, [pending EXCEPT ![n] = @ - 1])
<1>1. pending \in [Nodes -> Nat] /\ \A m \in Nodes : Known(m) => pending[m] = 0
  BY DEF IInv, TypeOK
<1>2. Len(circuit) \in Nat /\ Nodes = 1..Len(circuit) /\ upcoming \in 1..(Len(circuit) + 1)
  BY CircuitFacts DEF IInv, TypeOK
<1>3. upcoming \notin Nodes /\ pending[n] > 0 /\ upcoming' = upcoming
  BY DEF Revisit
<1>4. Visit(n, [pending EXCEPT ![n] = @ - 1])
  BY DEF Revisit
<1>5. ~Known(n)
  BY <1>1, <1>3
<1>6. upcoming = Len(circuit) + 1 /\ n < upcoming
  BY <1>2, <1>3
<1>7. [pending EXCEPT ![n] = @ - 1] \in [Nodes -> Nat]
  BY <1>1, <1>3
<1>8. \A m \in Nodes : Known(m) => [pending EXCEPT ![n] = @ - 1][m] = 0
  BY <1>1, <1>5
<1> QED
  BY <1>3, <1>4, <1>5, <1>6, <1>7, <1>8

LEMMA RevisitKeeps == ASSUME IInv, NEW n \in Nodes, Revisit(n) PROVE IInv'
<1> DEFINE queue == [pending EXCEPT ![n] = @ - 1]
<1>1. /\ queue \in [Nodes -> Nat] /\ \A m \in Nodes : Known(m) => queue[m] = 0
      /\ n < upcoming /\ upcoming' = upcoming /\ Visit(n, queue)
  BY RevisitFacts
<1>2. upcoming \in 1..(Len(circuit) + 1) /\ n \in Nat /\ Len(circuit) \in Nat
  BY CircuitFacts DEF IInv, TypeOK
<1> HIDE DEF queue
<1> QED
  BY <1>1, <1>2, VisitKeeps

-----------------------------------------------------------------------------
(*--------------------------- calls of applyInterval -----------------------*)
LEMMA TargetFacts ==
  ASSUME IInv, todo # <<>>
  PROVE  /\ Target \in Nodes /\ Target < upcoming /\ circuit[Target].op \notin Constraints
         /\ WellFormed(Given) /\ WellFormed(lattice[Target])
         /\ Tail(todo) \in Seq(Calls(upcoming))
<1>1. todo \in Seq(Calls(upcoming))
  BY DEF IInv
<1>2. Head(todo) \in Calls(upcoming) /\ Tail(todo) \in Seq(Calls(upcoming))
  <2> DEFINE S == Calls(upcoming)
  <2> HIDE DEF S
  <2>1. todo \in Seq(S)
    BY <1>1 DEF S
  <2>2. Head(todo) \in S /\ Tail(todo) \in Seq(S)
    BY <2>1
  <2> QED
    BY <2>2 DEF S
<1>3. Target \in Nodes /\ Target < upcoming /\ circuit[Target].op \notin Constraints /\ WellFormed(Given)
  BY <1>2 DEF Target, Given, Calls
<1>4. WellFormed(lattice[Target])
  BY <1>3, Visited DEF IInv
<1> QED
  BY <1>2, <1>3, <1>4

LEMMA ArgumentFacts ==
  ASSUME IInv, todo # <<>>, NEW i \in 1..OperandCount(circuit[Target].op)
  PROVE  /\ Argument(i) \in Nodes /\ Argument(i) < upcoming
         /\ circuit[Argument(i)].op \notin Constraints /\ WellFormed(Now(i))
<1>1. Target \in Nodes /\ Target < upcoming
  BY TargetFacts
<1>2. Target \in Nat /\ upcoming \in Nat
  BY <1>1, CircuitFacts DEF IInv, TypeOK
<1> QED
  BY <1>1, <1>2, OperandFacts DEF Argument, Now

LEMMA ApplyKeeps ==
  ASSUME IInv, NEW ops, NEW calls \in Seq(Calls(upcoming)), Apply(ops, calls)
  PROVE  IInv'
<1> DEFINE x == Intersect[<<lattice[Target], Given>>]
<1>1. /\ circuit' = circuit /\ witness' = witness /\ upcoming' = upcoming /\ aborted' = aborted
      /\ todo # <<>> /\ SetValue(Target, x, pending) /\ todo' = calls \o Tail(todo)
  BY DEF Apply, Applying
<1>2. /\ circuit \in Circuits /\ upcoming \in 1..(Len(circuit) + 1)
      /\ pending \in [Nodes -> Nat] /\ witness \in Executions(circuit) /\ aborted \in BOOLEAN
      /\ \A m \in Nodes : Known(m) => pending[m] = 0
      /\ \A m \in Nodes : lattice[m] # Unset => m < upcoming
      /\ \A m \in Nodes : m < upcoming /\ circuit[m].op \notin Constraints => lattice[m] # Unset
  BY DEF IInv, TypeOK, IsSet
<1>3. /\ Target \in Nodes /\ Target < upcoming /\ WellFormed(x)
      /\ Tail(todo) \in Seq(Calls(upcoming))
  BY <1>1, TargetFacts, IntersectCases
<1> HIDE DEF x
<1>4. /\ lattice' = [lattice EXCEPT ![Target] = x]
      /\ lattice' \in [Nodes -> IntervalType \cup {Unset}]
      /\ \A m \in Nodes : lattice'[m] # Unset => WellFormed(lattice'[m])
      /\ pending' \in [Nodes -> Nat]
      /\ \A m \in Nodes : Known(m) => pending'[m] = 0
  BY <1>1, <1>2, <1>3, SetValueKeeps
<1>5. todo' \in Seq(Calls(upcoming))
  <2> DEFINE S == Calls(upcoming)
  <2>1. calls \in Seq(S) /\ Tail(todo) \in Seq(S)
    BY <1>3
  <2> HIDE DEF S
  <2>2. calls \o Tail(todo) \in Seq(S)
    BY <2>1
  <2> QED
    BY <1>1, <2>2 DEF S
<1>6. Calls(upcoming)' = Calls(upcoming)
  BY <1>1 DEF Calls, Nodes
<1>7. \A i \in DOMAIN todo' : todo'[i].value \in Nodes /\ WellFormed(todo'[i].interval)
  <2>1. \A c \in Calls(upcoming) : c.value \in Nodes /\ WellFormed(c.interval)
    BY DEF Calls
  <2> QED
    BY <1>5, <2>1
<1>8. /\ \A m \in Nodes : lattice'[m] # Unset => m < upcoming
      /\ \A m \in Nodes : m < upcoming /\ circuit[m].op \notin Constraints => lattice'[m] # Unset
  <2>1. lattice \in [Nodes -> IntervalType \cup {Unset}]
    BY DEF IInv, TypeOK
  <2>2. x # Unset
    BY <1>3, UnsetIsNone
  <2> QED
    BY <1>2, <1>3, <1>4, <2>1, <2>2
<1>9. TypeOK'
  BY <1>1, <1>2, <1>4, <1>7 DEF TypeOK, Nodes
<1> QED
  BY <1>1, <1>2, <1>4, <1>5, <1>6, <1>8, <1>9 DEF IInv, Nodes, IsSet, Known

LEMMA BothTyped ==
  ASSUME IInv, todo # <<>>, OperandCount(circuit[Target].op) = 2,
         NEW x, NEW y, WellFormed(x), WellFormed(y)
  PROVE  Both(x, y) \in Seq(Calls(upcoming))
<1>1. Call(Argument(1), x) \in Calls(upcoming) /\ Call(Argument(2), y) \in Calls(upcoming)
  BY ArgumentFacts, CallTyped
<1> QED
  BY <1>1, SequenceOfCalls DEF IInv, Both

LEMMA OneCallTyped ==
  ASSUME IInv, todo # <<>>, NEW i \in 1..OperandCount(circuit[Target].op), NEW x, WellFormed(x)
  PROVE  <<Call(Argument(i), x)>> \in Seq(Calls(upcoming))
<1>1. Call(Argument(i), x) \in Calls(upcoming)
  BY ArgumentFacts, CallTyped
<1> QED
  BY <1>1, SequenceOfCalls DEF IInv

LEMMA NothingCalled == ASSUME IInv PROVE <<>> \in Seq(Calls(upcoming))
BY SequenceOfCalls DEF IInv

(* The calls that a call of applyInterval adds are calls that may be made. *)
Applied == \E ops : \E calls \in Seq(Calls(upcoming)) : Apply(ops, calls)

LEMMA LeafApplied == IInv /\ ApplyToLeaf => Applied
BY NothingCalled DEF ApplyToLeaf, Applied

LEMMA CastApplied == IInv /\ ApplyToCast => Applied
<1> SUFFICES ASSUME IInv, ApplyToCast PROVE Applied
  OBVIOUS
<1>1. todo # <<>> /\ circuit[Target].op = "cast"
  BY DEF ApplyToCast, Apply, Applying
<1>2. 1 \in 1..OperandCount(circuit[Target].op)
  BY <1>1 DEF OperandCount, Arity, Sources
<1> QED
  BY <1>1, <1>2, TargetFacts, OneCallTyped DEF ApplyToCast, Applied

LEMMA AddApplied == IInv /\ ApplyToAdd => Applied
<1> SUFFICES ASSUME IInv, ApplyToAdd PROVE Applied
  OBVIOUS
<1> DEFINE x == Intersect[<<Now(1), Minus[<<Given, Now(2)>>]>>]
           y == Intersect[<<Now(2), Minus[<<Given, Now(1)>>]>>]
<1>1. todo # <<>> /\ circuit[Target].op = "add" /\ Apply({"add"}, Both(x, y))
  BY DEF ApplyToAdd, Apply, Applying
<1>2. OperandCount(circuit[Target].op) = 2
  BY <1>1 DEF OperandCount, Arity, Sources, FeltUnaryOps
<1>3. WellFormed(Now(1)) /\ WellFormed(Now(2)) /\ WellFormed(Given)
  BY <1>1, <1>2, ArgumentFacts, TargetFacts
<1>4. WellFormed(x) /\ WellFormed(y)
  BY <1>3, MinusTyped, IntersectCases
<1> HIDE DEF x, y
<1> QED
  BY <1>1, <1>2, <1>4, BothTyped DEF Applied

LEMMA SubApplied == IInv /\ ApplyToSub => Applied
<1> SUFFICES ASSUME IInv, ApplyToSub PROVE Applied
  OBVIOUS
<1> DEFINE x == Intersect[<<Now(1), Plus[<<Given, Now(2)>>]>>]
           y == Intersect[<<Now(2), Minus[<<Now(1), Given>>]>>]
<1>1. todo # <<>> /\ circuit[Target].op = "sub" /\ Apply({"sub"}, Both(x, y))
  BY DEF ApplyToSub, Apply, Applying
<1>2. OperandCount(circuit[Target].op) = 2
  BY <1>1 DEF OperandCount, Arity, Sources, FeltUnaryOps
<1>3. WellFormed(Now(1)) /\ WellFormed(Now(2)) /\ WellFormed(Given)
  BY <1>1, <1>2, ArgumentFacts, TargetFacts
<1>4. WellFormed(x) /\ WellFormed(y)
  BY <1>3, PlusTyped, MinusTyped, IntersectCases
<1> HIDE DEF x, y
<1> QED
  BY <1>1, <1>2, <1>4, BothTyped DEF Applied

(* A scaled call divides by a constant that is not zero. *)
LEMMA ScaledTyped ==
  ASSUME IInv, todo # <<>>, OperandCount(circuit[Target].op) = 2, NEW i \in ConstantOperands
  PROVE  ScaledCall(i) \in Seq(Calls(upcoming))
<1> DEFINE known == circuit[Argument(i)].known
           x == Times[<<Given, Degenerate(Inv(known.a))>>]
<1>1. i \in {1, 2} /\ 3 - i \in {1, 2} /\ circuit[Argument(i)].op = "const"
  BY DEF ConstantOperands
<1>2. Argument(i) \in Nodes /\ Known(Argument(i))
  BY <1>1, ArgumentFacts DEF Known, Sources
<1>3. known.a \in Felt
  BY <1>2, CircuitFacts, Bounds DEF IInv
<1>4. CASE known.a = 0
  BY <1>4, NothingCalled DEF ScaledCall
<1>5. CASE known.a # 0
  <2>1. Inv(known.a) \in Int
    BY <1>3, <1>5, InverseExists DEF Felt
  <2>2. WellFormed(x)
    BY <2>1, TargetFacts, DegenerateTyped, TimesTyped
  <2>3. ScaledCall(i) = <<Call(Argument(3 - i), x)>>
    BY <1>5 DEF ScaledCall
  <2> HIDE DEF x
  <2> QED
    BY <1>1, <2>2, <2>3, OneCallTyped
<1> QED
  BY <1>4, <1>5

LEMMA MulApplied == IInv /\ ApplyToMul => Applied
<1> SUFFICES ASSUME IInv, ApplyToMul PROVE Applied
  OBVIOUS
<1> DEFINE i == CHOOSE i \in ConstantOperands : TRUE
           x == Difference[<<Now(1), False>>]
           y == Difference[<<Now(2), False>>]
           calls == IF Cardinality(ConstantOperands) = 1 THEN ScaledCall(i)
                    ELSE IF ConstantOperands = {} /\ Intersect[<<Given, False>>] = Empty
                    THEN Both(x, y) ELSE <<>>
<1>1. todo # <<>> /\ circuit[Target].op = "mul" /\ Apply({"mul"}, calls)
  BY DEF ApplyToMul, Apply, Applying
<1>2. OperandCount(circuit[Target].op) = 2
  BY <1>1 DEF OperandCount, Arity, Sources, FeltUnaryOps
<1>3. WellFormed(x) /\ WellFormed(y)
  BY <1>1, <1>2, ArgumentFacts, TruthValues, DifferenceTyped
<1> HIDE DEF x, y
<1>4. Both(x, y) \in Seq(Calls(upcoming))
  BY <1>1, <1>2, <1>3, BothTyped
<1>5. Cardinality(ConstantOperands) = 1 => ScaledCall(i) \in Seq(Calls(upcoming))
  <2>1. Cardinality(ConstantOperands) = 1 => i \in ConstantOperands
    BY FS_EmptySet
  <2> QED
    BY <1>1, <1>2, <2>1, ScaledTyped
<1>6. calls \in Seq(Calls(upcoming))
  BY <1>4, <1>5, NothingCalled
<1> QED
  BY <1>1, <1>6 DEF Applied

LEMMA SelectApplied == IInv /\ ApplyToSelect => Applied
<1> SUFFICES ASSUME IInv, ApplyToSelect PROVE Applied
  OBVIOUS
<1> DEFINE overlaps(i) == Intersect[<<Now(i), Given>>] # Empty
           branch(i) == <<Call(Argument(i), Given)>>
           cond(x) == <<Call(Argument(1), x)>>
           calls == CASE Now(1) = True -> branch(2)
                      [] Now(1) = False -> branch(3)
                      [] OTHER -> IF overlaps(2) /\ overlaps(3) THEN <<>>
                                  ELSE IF overlaps(2) THEN cond(True) \o branch(2)
                                  ELSE IF overlaps(3) THEN cond(False) \o branch(3)
                                  ELSE cond(Empty)
           S == Seq(Calls(upcoming))
<1>1. todo # <<>> /\ circuit[Target].op = "select" /\ Apply({"select"}, calls)
  BY DEF ApplyToSelect, Apply, Applying
<1>2. OperandCount(circuit[Target].op) = 3
  BY <1>1 DEF OperandCount, Arity, Sources, FeltUnaryOps
<1>3. /\ Call(Argument(2), Given) \in Calls(upcoming) /\ Call(Argument(3), Given) \in Calls(upcoming)
      /\ \A x \in {True, False, Empty} : Call(Argument(1), x) \in Calls(upcoming)
  <2>1. \A i \in 1..3 : Argument(i) \in Nodes /\ Argument(i) < upcoming
                         /\ circuit[Argument(i)].op \notin Constraints
    BY <1>1, <1>2, ArgumentFacts
  <2>2. WellFormed(Given) /\ WellFormed(True) /\ WellFormed(False) /\ WellFormed(Empty)
    BY <1>1, TargetFacts, TruthValues, Names
  <2>3. \A i \in 1..3, x \in {Given, True, False, Empty} : Call(Argument(i), x) \in Calls(upcoming)
    BY <2>1, <2>2, CallTyped
  <2> QED
    BY <2>3
<1>4. /\ branch(2) \in S /\ branch(3) \in S /\ <<>> \in S
      /\ \A x \in {True, False, Empty} : cond(x) \in S
  BY <1>3, NothingCalled, SequenceOfCalls
<1>5. cond(True) \o branch(2) \in S /\ cond(False) \o branch(3) \in S
  BY <1>3, <1>4, SequenceOfCalls
<1> HIDE DEF branch, cond, overlaps
<1>6. calls \in S
  BY <1>4, <1>5
<1> QED
  BY <1>1, <1>6 DEF Applied

LEMMA RestrictedTyped ==
  ASSUME NEW rel \in Predicates, NEW x, NEW y, WellFormed(x), WellFormed(y)
  PROVE  WellFormed(Restricted(rel, x, y)[1]) /\ WellFormed(Restricted(rel, x, y)[2])
<1> DEFINE u == ToUnreduced(x)
           w == ToUnreduced(y)
<1>1. u \in Ranges /\ w \in Ranges
  BY Bounds
<1>2. CASE rel = "eq"
  <2>1. Restricted(rel, x, y) = <<Intersect[<<x, y>>], Intersect[<<x, y>>]>>
    BY <1>2 DEF Restricted
  <2> QED
    BY <2>1, IntersectCases
<1>3. CASE rel = "ne"
  <2>1. Restricted(rel, x, y) \in {<<Empty, Empty>>, <<x, Difference[<<y, x>>]>>,
                                   <<Difference[<<x, y>>], y>>, <<x, y>>}
    BY <1>3 DEF Restricted
  <2> QED
    BY <2>1, DifferenceTyped, Names
<1>4. CASE rel \in {"lt", "le", "gt", "ge"}
  <2>1. /\ LTPart(u, w) \in Ranges /\ LEPart(u, w) \in Ranges
        /\ GTPart(u, w) \in Ranges /\ GEPart(u, w) \in Ranges
        /\ LTPart(w, u) \in Ranges /\ LEPart(w, u) \in Ranges
        /\ GTPart(w, u) \in Ranges /\ GEPart(w, u) \in Ranges
    <3> HIDE DEF u, w
    <3> QED
      BY <1>1, RangeOperations
  <2>2. Restricted(rel, x, y) \in {<<ReduceTo[LTPart(u, w)], ReduceTo[GEPart(w, u)]>>,
                                   <<ReduceTo[LEPart(u, w)], ReduceTo[GTPart(w, u)]>>,
                                   <<ReduceTo[GTPart(u, w)], ReduceTo[LEPart(w, u)]>>,
                                   <<ReduceTo[GEPart(u, w)], ReduceTo[LTPart(w, u)]>>}
    BY <1>4 DEF Restricted
  <2> HIDE DEF u, w
  <2> QED
    BY <2>1, <2>2, Reduced
<1> QED
  BY <1>2, <1>3, <1>4 DEF Predicates

LEMMA CmpApplied == IInv /\ ApplyToCmp => Applied
<1> SUFFICES ASSUME IInv, ApplyToCmp PROVE Applied
  OBVIOUS
<1> DEFINE rel == Relation(circuit[Target].op, Given)
           new == Restricted(rel, Now(1), Now(2))
           calls == IF Given.ty = "Degenerate" THEN Both(new[1], new[2]) ELSE <<>>
<1>1. todo # <<>> /\ circuit[Target].op \in Predicates /\ Apply(Predicates, calls)
  BY DEF ApplyToCmp, Apply, Applying
<1>2. OperandCount(circuit[Target].op) = 2
  BY <1>1 DEF OperandCount, Arity, Sources, FeltUnaryOps, Predicates
<1>3. WellFormed(Now(1)) /\ WellFormed(Now(2))
  BY <1>1, <1>2, ArgumentFacts
<1>4. rel \in Predicates
  BY <1>1 DEF Relation, Opposite, Predicates
<1> HIDE DEF rel
<1>5. WellFormed(new[1]) /\ WellFormed(new[2])
  BY <1>3, <1>4, RestrictedTyped
<1> HIDE DEF new
<1>6. calls \in Seq(Calls(upcoming))
  BY <1>1, <1>2, <1>5, BothTyped, NothingCalled
<1> QED
  BY <1>1, <1>6 DEF Applied

LEMMA ApplyCases ==
  IInv /\ (\/ ApplyToLeaf \/ ApplyToCast \/ ApplyToAdd \/ ApplyToSub \/ ApplyToMul \/ ApplyToSelect
          \/ ApplyToCmp) => Applied
BY LeafApplied, CastApplied, AddApplied, SubApplied, MulApplied, SelectApplied, CmpApplied

LEMMA AppliedKeeps == IInv /\ Applied => IInv'
BY ApplyKeeps DEF Applied

LEMMA AbortKeeps == IInv /\ Abort => IInv'
BY DEF IInv, TypeOK, Abort, Calls, Nodes, IsSet, Known

LEMMA StutterKeeps == IInv /\ UNCHANGED vars => IInv'
BY DEF IInv, TypeOK, vars, Calls, Nodes, IsSet, Known

LEMMA InitKeeps == Init => IInv
<1> SUFFICES ASSUME Init PROVE IInv
  OBVIOUS
<1>1. circuit \in Circuits /\ IsCircuit(circuit)
  BY CircuitsAssumption DEF Init
<1>2. Len(circuit) \in Nat /\ Nodes = 1..Len(circuit)
  BY <1>1 DEF IsCircuit, Nodes
<1>3. \A m \in Nodes : lattice[m] = Unset /\ m \in Nat /\ m >= 1
  BY <1>2 DEF Init
<1>4. <<>> \in Seq(Calls(upcoming))
  OBVIOUS
<1>5. TypeOK
  <2>1. upcoming = 1 /\ aborted = FALSE
    BY DEF Init
  <2>4. upcoming \in 1..(Len(circuit) + 1)
    BY <1>2, <2>1
  <2>2. lattice \in [Nodes -> IntervalType \cup {Unset}] /\ pending \in [Nodes -> Nat]
    BY DEF Init
  <2>3. DOMAIN todo = {} /\ witness \in Executions(circuit)
    BY DEF Init
  <2> QED
    BY <1>3, <2>1, <2>2, <2>3, <2>4 DEF TypeOK
<1> QED
  BY <1>1, <1>2, <1>3, <1>4, <1>5 DEF IInv, Init, IsSet

-----------------------------------------------------------------------------
LEMMA Inductive == IInv /\ [Next]_vars => IInv'
BY FirstVisitKeeps, RevisitKeeps, ApplyCases, AppliedKeeps, AbortKeeps, StutterKeeps DEF Next

LEMMA Invariant == Spec => []IInv
BY InitKeeps, Inductive, PTL DEF Spec

(* Whatever circuit is analysed, whatever the field and the order of the     *)
(* queue: every interval that is stored or passed to applyInterval lies on   *)
(* the side of the field that its type says, and only results that have been *)
(* computed are narrowed.                                                    *)
THEOREM TypeCorrect == Spec => []TypeOK
<1>1. IInv => TypeOK
  BY DEF IInv
<1> QED
  BY <1>1, Invariant, PTL

-----------------------------------------------------------------------------
(*-------------------------------- narrowing -------------------------------*)
NarrowsAt(n) ==
  IsSet(n) =>
    \/ Gamma(lattice'[n]) \subseteq Gamma(lattice[n])
    \/ LooseMeet(n)
    \/ todo = <<>> /\ circuit[n].op = "cast"

LEMMA VisitNarrows ==
  ASSUME IInv, NEW n \in Nodes, n <= upcoming, NEW queue \in [Nodes -> Nat],
         \A m \in Nodes : Known(m) => queue[m] = 0, Visit(n, queue),
         Known(n) => ~IsSet(n), NEW m \in Nodes
  PROVE  NarrowsAt(m)
<1> SUFFICES ASSUME IsSet(m), circuit[m].op # "cast"
             PROVE  Gamma(lattice'[m]) \subseteq Gamma(lattice[m]) \/ LooseMeet(m)
  BY DEF NarrowsAt, Visit
<1>1. CASE lattice'[m] = lattice[m]
  BY <1>1
<1>2. CASE lattice'[m] # lattice[m]
  <2> DEFINE x == Transfer(circuit[m].op, Operands(m))
  <2>1. m = n /\ circuit[n].op \notin Constraints
    BY <1>2, VisitResult
  <2>2. WellFormed(x) /\ lattice'[m] = Intersect[<<x, lattice[m]>>]
    BY <2>1, VisitResult
  <2>3. WellFormed(lattice[m]) /\ todo = <<>>
    BY Visited DEF Visit
  <2>4. LooseMeet(m) \/ {x.ty, lattice[m].ty} # {"C", "F"}
    BY <2>3 DEF LooseMeet
  <2> HIDE DEF x
  <2> QED
    BY <2>2, <2>3, <2>4, IntersectNarrows
<1> QED
  BY <1>1, <1>2

LEMMA ApplyNarrows ==
  ASSUME IInv, NEW ops, NEW calls, Apply(ops, calls), NEW m \in Nodes
  PROVE  NarrowsAt(m)
<1> SUFFICES ASSUME IsSet(m)
             PROVE  Gamma(lattice'[m]) \subseteq Gamma(lattice[m]) \/ LooseMeet(m)
  BY DEF NarrowsAt
<1> DEFINE x == Intersect[<<lattice[Target], Given>>]
<1>1. todo # <<>> /\ lattice' = [lattice EXCEPT ![Target] = x]
  BY DEF Apply, Applying, SetValue
<1>2. lattice \in [Nodes -> IntervalType \cup {Unset}]
  BY DEF IInv, TypeOK
<1>3. CASE m # Target
  BY <1>1, <1>2, <1>3
<1>4. CASE m = Target
  <2>1. WellFormed(lattice[m]) /\ WellFormed(Given)
    BY <1>1, <1>4, TargetFacts
  <2>2. lattice'[m] = Intersect[<<lattice[m], Given>>]
    BY <1>1, <1>2, <1>4
  <2>3. LooseMeet(m) \/ {lattice[m].ty, Given.ty} # {"C", "F"}
    BY <1>1, <1>4 DEF LooseMeet
  <2> QED
    BY <2>1, <2>2, <2>3, IntersectNarrows
<1> QED
  BY <1>3, <1>4

LEMMA StepNarrows == IInv /\ [Next]_vars => \A m \in Nodes : NarrowsAt(m)
<1> SUFFICES ASSUME IInv, [Next]_vars, NEW m \in Nodes PROVE NarrowsAt(m)
  OBVIOUS
<1>1. CASE FirstVisit
  <2>1. upcoming \in Nodes /\ Visit(upcoming, pending)
    BY <1>1 DEF FirstVisit
  <2>2. upcoming \in Nat
    BY <2>1, CircuitFacts DEF IInv
  <2>3. ~IsSet(upcoming)
    BY <2>1, <2>2 DEF IInv
  <2>4. pending \in [Nodes -> Nat] /\ \A k \in Nodes : Known(k) => pending[k] = 0
    BY DEF IInv, TypeOK
  <2> QED
    BY <2>1, <2>2, <2>3, <2>4, VisitNarrows
<1>2. CASE \E n \in Nodes : Revisit(n)
  <2> PICK n \in Nodes : Revisit(n)
    BY <1>2
  <2> DEFINE queue == [pending EXCEPT ![n] = @ - 1]
  <2>1. /\ queue \in [Nodes -> Nat] /\ \A k \in Nodes : Known(k) => queue[k] = 0
        /\ n < upcoming /\ ~Known(n) /\ Visit(n, queue)
    BY RevisitFacts
  <2>2. n <= upcoming
    BY <2>1, CircuitFacts DEF IInv, TypeOK
  <2> HIDE DEF queue
  <2> QED
    BY <2>1, <2>2, VisitNarrows
<1>3. CASE \/ ApplyToLeaf \/ ApplyToCast \/ ApplyToAdd \/ ApplyToSub \/ ApplyToMul \/ ApplyToSelect
           \/ ApplyToCmp
  <2>1. \E ops, calls : Apply(ops, calls)
    BY <1>3 DEF ApplyToLeaf, ApplyToCast, ApplyToAdd, ApplyToSub, ApplyToMul, ApplyToSelect, ApplyToCmp
  <2> QED
    BY <2>1, ApplyNarrows
<1>4. CASE Abort \/ UNCHANGED vars
  BY <1>4 DEF Abort, vars, NarrowsAt
<1> QED
  BY <1>1, <1>2, <1>3, <1>4 DEF Next

(* Whatever circuit is analysed and whatever the order of the queue: a visit  *)
(* or a call of applyInterval never gives a value back that an earlier one    *)
(* ruled out, save where a "C" meets an "F" and when a cast is visited.       *)
THEOREM NothingGivenBack == Spec => Narrows
<1>1. IInv /\ [Next]_vars => [\A n \in Nodes : NarrowsAt(n)]_vars
  BY StepNarrows
<1>2. [\A n \in Nodes : NarrowsAt(n)]_vars =>
      [\A n \in Nodes : IsSet(n) =>
         \/ Gamma(lattice'[n]) \subseteq Gamma(lattice[n])
         \/ LooseMeet(n)
         \/ todo = <<>> /\ circuit[n].op = "cast"]_vars
  BY DEF NarrowsAt
<1> QED
  BY <1>1, <1>2, Invariant, PTL DEF Spec, Narrows

-----------------------------------------------------------------------------
(*------------------------------- the execution ----------------------------*)
Partial(c, m) == 
  CHOOSE f : f = [n \in 0..m |-> IF n = 0 THEN {<<>>} ELSE UNION {Extended(w, c[n]) : w \in f[n - 1]}]

LEMMA PartialExist ==
  ASSUME NEW c, NEW m \in Nat
  PROVE  Partial(c, m) = [n \in 0..m |-> IF n = 0 THEN {<<>>}
                                          ELSE UNION {Extended(w, c[n]) : w \in Partial(c, m)[n - 1]}]
<1> DEFINE step(f, n) == IF n = 0 THEN {<<>>} ELSE UNION {Extended(w, c[n]) : w \in f[n - 1]}
           is(f, k) == f = [n \in 0..k |-> step(f, n)]
           S == {k \in Nat : \E f : is(f, k)}
<1>1. 0 \in S
  <2> DEFINE f == [n \in 0..0 |-> {<<>>}]
  <2>1. \A n \in 0..0 : step(f, n) = {<<>>}
    OBVIOUS
  <2>2. is(f, 0)
    <3> HIDE DEF step
    <3> QED
      BY <2>1
  <2> QED
    BY <2>2
<1>2. ASSUME NEW k \in Nat, k \in S PROVE k + 1 \in S
  <2> PICK f : is(f, k)
    BY <1>2
  <2> DEFINE g == [n \in 0..(k + 1) |-> IF n <= k THEN f[n] ELSE step(f, k + 1)]
  <2>1. \A n \in 0..(k + 1) : g[n] = IF n <= k THEN f[n] ELSE step(f, k + 1)
    OBVIOUS
  <2> HIDE DEF g
  <2>2. \A n \in 0..(k + 1) : step(g, n) = step(f, n)
    <3> TAKE n \in 0..(k + 1)
    <3>1. n # 0 => n - 1 \in 0..(k + 1) /\ n - 1 <= k
      OBVIOUS
    <3>2. n # 0 => g[n - 1] = f[n - 1]
      BY <2>1, <3>1
    <3> QED
      BY <3>2
  <2>3. \A n \in 0..k : f[n] = step(f, n)
    <3> HIDE DEF step
    <3> QED
      OBVIOUS
  <2> HIDE DEF step
  <2>4. \A n \in 0..(k + 1) : g[n] = step(g, n)
    <3> TAKE n \in 0..(k + 1)
    <3>1. CASE n \in 0..k
      <4>1. n <= k
        BY <3>1
      <4> QED
        BY <2>1, <2>2, <2>3, <3>1, <4>1
    <3>2. CASE n \notin 0..k
      <4>1. n = k + 1 /\ ~ (n <= k)
        BY <3>2
      <4>2. g[n] = step(f, n)
        BY <2>1, <4>1
      <4> QED
        BY <2>2, <4>2
    <3> QED
      BY <3>1, <3>2
  <2>5. is(g, k + 1)
    <3>1. g = [n \in 0..(k + 1) |-> g[n]]
      BY DEF g
    <3> QED
      BY <2>4, <3>1
  <2> QED
    BY <2>5
<1>3. m \in S
  <2> HIDE DEF S
  <2> QED
    BY <1>1, <1>2, Induction
<1>4. \E f : is(f, m)
  BY <1>3
<1> QED
  BY <1>4, Zenon DEF Partial

LEMMA ExecutionsAre ==
  ASSUME NEW c, Len(c) \in Nat
  PROVE  Executions(c) = Partial(c, Len(c))[Len(c)]
BY Zenon DEF Executions, Partial

(* What an execution does at an operation. *)
Values(c, w, n) == [i \in DOMAIN c[n].args |-> w[c[n].args[i]]]
Executes(c, w, n) ==
  LET op == c[n].op
      V == Values(c, w, n)
  IN  /\ op \in Sources => w[n] \in Gamma(c[n].known)
      /\ op = "emiteq" => V[1] = V[2]
      /\ op = "assert" => V[1] = 1
      /\ op \in Operations => IsDefined(op, V) /\ w[n] = Result(op, V)

LEMMA OperationKinds ==
  /\ Operations \cap Sources = {} /\ Operations \cap Constraints = {} /\ Sources \cap Constraints = {}
  /\ "emiteq" \in Constraints /\ "assert" \in Constraints
BY DEF Operations, FeltOps, Divisions, FeltUnaryOps, Predicates, BoolOps, Sources, Constraints

LEMMA ExtendedExecutes ==
  ASSUME NEW c, NEW k \in Nat, NEW S, NEW w \in Seq(S), Len(w) = k,
         \A i \in DOMAIN c[k + 1].args : c[k + 1].args[i] \in 1..k,
         NEW x \in Extended(w, c[k + 1])
  PROVE  \E v : x = Append(w, v) /\ Executes(c, Append(w, v), k + 1)
<1> DEFINE node == c[k + 1]
           V == [i \in DOMAIN node.args |-> w[node.args[i]]]
<1>1. \E v : /\ x = Append(w, v)
             /\ node.op \in Sources => v \in Gamma(node.known)
             /\ node.op = "emiteq" => V[1] = V[2]
             /\ node.op = "assert" => V[1] = 1
             /\ node.op \in Operations => IsDefined(node.op, V) /\ v = Result(node.op, V)
  <2>1. CASE node.op \in Sources
    <3>1. node.op \notin Operations /\ node.op \notin {"emiteq", "assert"}
      BY <2>1, OperationKinds
    <3>2. Extended(w, node) = {Append(w, v) : v \in Gamma(node.known)}
      BY <2>1, <3>1 DEF Extended
    <3> QED
      BY <3>1, <3>2
  <2>2. CASE node.op = "emiteq"
    <3>1. Extended(w, node) = IF V[1] = V[2] THEN {Append(w, 0)} ELSE {}
      BY <2>2 DEF Extended, Sources
    <3>2. node.op \notin Operations \cup Sources
      BY <2>2, OperationKinds
    <3> HIDE DEF V
    <3> QED
      BY <2>2, <3>1, <3>2
  <2>3. CASE node.op = "assert"
    <3>1. Extended(w, node) = IF V[1] = 1 THEN {Append(w, 0)} ELSE {}
      BY <2>3 DEF Extended, Sources
    <3>2. node.op \notin Operations \cup Sources
      BY <2>3, OperationKinds
    <3> HIDE DEF V
    <3> QED
      BY <2>3, <3>1, <3>2
  <2>4. CASE node.op \notin Sources \cup {"emiteq", "assert"}
    <3>1. Extended(w, node) = IF IsDefined(node.op, V) THEN {Append(w, Result(node.op, V))} ELSE {}
      BY <2>4 DEF Extended
    <3> HIDE DEF V
    <3> QED
      BY <2>4, <3>1
  <2> QED
    BY <2>1, <2>2, <2>3, <2>4
<1>2. ASSUME NEW v PROVE Values(c, Append(w, v), k + 1) = V /\ Append(w, v)[k + 1] = v
  <2> DEFINE T == S \cup {v}
  <2>1. w \in Seq(T) /\ v \in T
    OBVIOUS
  <2>2. (\A i \in 1..k : Append(w, v)[i] = w[i]) /\ Append(w, v)[k + 1] = v
    BY <2>1, AppendProperties
  <2> QED
    BY <2>2 DEF Values
<1> QED
  BY <1>1, <1>2 DEF Executes

LEMMA ExecutionFacts ==
  ASSUME NEW c \in Circuits, NEW w \in Executions(c)
  PROVE  DOMAIN w = DOMAIN c /\ \A n \in DOMAIN c : Executes(c, w, n)
<1> DEFINE N == Len(c)
           before == Partial(c, N)
           Done(u, k) == (\E S : u \in Seq(S)) /\ Len(u) = k /\ \A n \in 1..k : Executes(c, u, n)
           K == {k \in Nat : k <= N => \A u \in before[k] : Done(u, k)}
<1>1. /\ N \in Nat /\ DOMAIN c = 1..N
      /\ \A n \in 1..N : \A i \in DOMAIN c[n].args : c[n].args[i] \in 1..(n - 1)
  BY CircuitsAssumption DEF IsCircuit
<1>2. before = [n \in 0..N |-> IF n = 0 THEN {<<>>} ELSE UNION {Extended(u, c[n]) : u \in before[n - 1]}]
  BY <1>1, PartialExist
<1> HIDE DEF N, before
<1>3. 0 \in K
  <2>1. before[0] = {<<>>}
    BY <1>1, <1>2
  <2>2. <<>> \in Seq({}) /\ Len(<<>>) = 0 /\ 1..0 = {}
    OBVIOUS
  <2>3. Done(<<>>, 0)
    BY <2>2
  <2> HIDE DEF Done
  <2> QED
    BY <2>1, <2>3
<1>4. ASSUME NEW k \in Nat, k \in K PROVE k + 1 \in K
  <2> SUFFICES ASSUME k + 1 <= N, NEW x \in before[k + 1] PROVE Done(x, k + 1)
    OBVIOUS
  <2>1. k + 1 \in 0..N /\ k + 1 # 0 /\ (k + 1) - 1 = k /\ k + 1 \in 1..N /\ k <= N
    BY <1>1
  <2>2. before[k + 1] = UNION {Extended(u, c[k + 1]) : u \in before[k]}
    BY <1>2, <2>1
  <2>3. PICK u \in before[k] : x \in Extended(u, c[k + 1])
    BY <2>2
  <2>4. Done(u, k)
    BY <1>4, <2>1
  <2>5. PICK S : u \in Seq(S)
    BY <2>4
  <2>6. Len(u) = k /\ \A n \in 1..k : Executes(c, u, n)
    BY <2>4
  <2>7. \A i \in DOMAIN c[k + 1].args : c[k + 1].args[i] \in 1..k
    BY <1>1, <2>1
  <2>8. PICK v : x = Append(u, v) /\ Executes(c, Append(u, v), k + 1)
    BY <2>3, <2>5, <2>6, <2>7, ExtendedExecutes
  <2> DEFINE T == S \cup {v}
  <2>9. u \in Seq(T) /\ v \in T
    BY <2>5
  <2>10. x \in Seq(T) /\ Len(x) = k + 1 /\ \A i \in 1..k : x[i] = u[i]
    BY <2>6, <2>8, <2>9, AppendProperties
  <2>11. ASSUME NEW n \in 1..k PROVE Executes(c, x, n)
    <3>1. n \in 1..N
      BY <1>1, <2>1
    <3>2. \A i \in DOMAIN c[n].args : c[n].args[i] \in 1..k
      BY <1>1, <3>1
    <3>3. Values(c, x, n) = Values(c, u, n) /\ x[n] = u[n]
      BY <2>10, <3>2 DEF Values
    <3> QED
      BY <2>6, <3>3 DEF Executes
  <2>12. \A n \in 1..(k + 1) : Executes(c, x, n)
    BY <2>8, <2>11
  <2> QED
    BY <2>10, <2>12
<1>5. N \in K
  <2> HIDE DEF K
  <2> QED
    BY <1>1, <1>3, <1>4, Induction
<1>6. w \in before[N]
  BY <1>1, ExecutionsAre DEF before, N
<1>7. Done(w, N)
  BY <1>1, <1>5, <1>6
<1>8. DOMAIN w = 1..N
  BY <1>7
<1> QED
  BY <1>1, <1>7, <1>8

LEMMA Witnessed ==
  ASSUME IInv
  PROVE  DOMAIN witness = Nodes /\ \A n \in Nodes : Executes(circuit, witness, n)
BY ExecutionFacts DEF IInv, TypeOK, Nodes

LEMMA TypingFacts ==
  ASSUME circuit \in Circuits, NEW n \in Nodes
  PROVE  IsTyped(circuit, n)
BY CircuitsAssumption DEF IsCircuit, Nodes

LEMMA ValuesAre ==
  ASSUME circuit \in Circuits, NEW n \in Nodes
  PROVE  \A i \in 1..OperandCount(circuit[n].op) : Values(circuit, witness, n)[i] = witness[circuit[n].args[i]]
BY CircuitFacts DEF Values

(* An i1 value is 0 or 1: by the least operation whose is not. *)
LEMMA BitsAreBits ==
  ASSUME IInv, NEW n \in Nodes, circuit[n].bit, circuit[n].op \notin Constraints
  PROVE  witness[n] \in {0, 1}
<1> DEFINE Bad == {m \in Nodes : circuit[m].bit /\ circuit[m].op \notin Constraints /\ witness[m] \notin {0, 1}}
<1> SUFFICES ASSUME Bad # {} PROVE FALSE
  OBVIOUS
<1>1. circuit \in Circuits
  BY DEF IInv
<1>2. Nodes \subseteq Nat
  BY <1>1, CircuitFacts
<1>3. PICK m \in Bad : \A k \in Bad : m <= k
  <2>1. Bad \subseteq Nat
    BY <1>2
  <2> HIDE DEF Bad
  <2> QED
    BY <2>1, Least
<1> DEFINE op == circuit[m].op
           args == circuit[m].args
           V == Values(circuit, witness, m)
<1>4. m \in Nodes /\ circuit[m].bit /\ op \notin Constraints /\ witness[m] \notin {0, 1}
  BY <1>3
<1>5. /\ op \in Operations \cup Sources /\ DOMAIN args = 1..OperandCount(op)
      /\ \A i \in 1..OperandCount(op) :
           args[i] \in Nodes /\ args[i] < m /\ m \in Nat /\ circuit[args[i]].op \notin Constraints
  BY <1>1, <1>4, CircuitFacts
<1>6. Executes(circuit, witness, m) /\ IsTyped(circuit, m)
  BY <1>1, <1>4, Witnessed, TypingFacts
<1>7. \A i \in 1..OperandCount(op) : circuit[args[i]].bit => witness[args[i]] \in {0, 1}
  <2> TAKE i \in 1..OperandCount(op)
  <2>1. args[i] \in Nodes /\ args[i] < m /\ m \in Nat /\ args[i] \in Nat /\ circuit[args[i]].op \notin Constraints
    BY <1>2, <1>5
  <2>2. args[i] \notin Bad
    <3> HIDE DEF Bad, args
    <3> QED
      BY <1>3, <2>1
  <2> QED
    BY <2>1, <2>2
<1>8. \A i \in 1..OperandCount(op) : V[i] = witness[args[i]]
  BY <1>1, <1>4, ValuesAre
<1>9. CASE op \in Sources
  <2>1. circuit[m].known \in {False, True, Boolean} /\ witness[m] \in Gamma(circuit[m].known)
    BY <1>4, <1>6, <1>9 DEF IsTyped, Executes
  <2> QED
    BY <1>4, <2>1, BooleanValues DEF IsBoolean
<1>10. CASE op \in Operations
  <2>1. witness[m] = Result(op, V) /\ OperandCount(op) = Arity(op)
    BY <1>6, <1>10, OperandCounts DEF Executes
  <2>2. op \notin FeltOps \cup FeltUnaryOps /\ op # "cast"
    BY <1>4, <1>6 DEF IsTyped
  <2>3. op \in Predicates \cup BoolOps \cup {"not", "select"}
    BY <1>10, <2>2 DEF Operations
  <2>4. CASE op \in Predicates
    <3> HIDE DEF V
    <3>1. Result(op, V) \in {0, 1}
      BY <2>4 DEF Result, Predicates, FromBool
    <3> QED
      BY <1>4, <2>1, <3>1
  <2>5. CASE op \in BoolOps \cup {"not"}
    <3>1. \A i \in 1..Arity(op) : circuit[args[i]].bit
      BY <1>5, <1>6, <2>1, <2>5 DEF IsTyped
    <3>2. \A i \in 1..Arity(op) : V[i] \in {0, 1}
      BY <1>7, <1>8, <2>1, <3>1
    <3>3. V[1] \in {0, 1} /\ (op # "not" => V[2] \in {0, 1})
      BY <2>5, <3>2 DEF Arity, FeltUnaryOps, BoolOps
    <3>4. Result(op, V) = IF op = "and" THEN V[1] * V[2] ELSE IF op = "or" THEN Max({V[1], V[2]})
                          ELSE IF op = "xor" THEN FromBool(V[1] # V[2]) ELSE 1 - V[1]
      BY <2>5 DEF Result, BoolOps
    <3> HIDE DEF V
    <3>5. op = "or" => Max({V[1], V[2]}) \in {0, 1}
      BY <3>3, Pairs
    <3>6. Result(op, V) \in {0, 1}
      BY <2>5, <3>3, <3>4, <3>5 DEF FromBool, BoolOps
    <3> QED
      BY <1>4, <2>1, <3>6
  <2>6. CASE op = "select"
    <3>1. circuit[args[2]].bit /\ circuit[args[3]].bit
      BY <1>4, <1>6, <2>6 DEF IsTyped
    <3>2. OperandCount(op) = 3
      BY <2>1, <2>6 DEF Arity, FeltUnaryOps
    <3>3. V[2] \in {0, 1} /\ V[3] \in {0, 1}
      BY <1>7, <1>8, <3>1, <3>2
    <3>4. Result(op, V) \in {V[2], V[3]}
      BY <2>6 DEF Result
    <3> QED
      BY <1>4, <2>1, <3>3, <3>4
  <2> QED
    BY <2>3, <2>4, <2>5, <2>6
<1> QED
  BY <1>5, <1>9, <1>10

(*------------------------------ sound visits ------------------------------*)
(* The value of a result that is visited lies in what the operation's *)
(* operands allow.                                                    *)
LEMMA OperandValues ==
  ASSUME IInv, Sound, NEW n \in Nodes, n <= upcoming
  PROVE  \A i \in 1..OperandCount(circuit[n].op) :
           LET m == circuit[n].args[i]
           IN  /\ m \in Nodes /\ m < upcoming /\ circuit[m].op \notin Constraints
               /\ WellFormed(lattice[m]) /\ Operands(n)[i] = lattice[m]
               /\ Values(circuit, witness, n)[i] = witness[m]
               /\ witness[m] \in Gamma(lattice[m]) /\ witness[m] \in Felt
<1>1. circuit \in Circuits
  BY DEF IInv
<1> QED
  BY <1>1, OperandFacts, ValuesAre, ValuesAreFelts DEF Sound

LEMMA ResultInTransfer ==
  ASSUME IInv, Sound, NEW n \in Nodes, n <= upcoming, circuit[n].op \in Operations,
         ~ Rejected(n), ~ DoubtfulVisit(n)
  PROVE  witness[n] \in Gamma(Transfer(circuit[n].op, Operands(n)))
<1> DEFINE op == circuit[n].op
           X == Operands(n)
           V == Values(circuit, witness, n)
<1>1. /\ OperandCount(op) = Arity(op) /\ DOMAIN circuit[n].args = 1..Arity(op)
      /\ DOMAIN X = 1..Arity(op)
  BY OperandCounts, CircuitFacts DEF IInv, Operands
<1>2. \A i \in 1..Arity(op) : WellFormed(X[i]) /\ V[i] \in Gamma(X[i])
  BY <1>1, OperandValues
<1>3. op \in BoolOps \cup {"not"} => \A i \in 1..Arity(op) : IsBoolean(X[i])
  BY <1>1 DEF Rejected
<1>4. IsDefined(op, V) /\ witness[n] = Result(op, V)
  BY Witnessed DEF Executes
<1>5. ~ DoubtfulOperands(op, X)
  <2>1. op \in Divisions => 1 \in 1..Arity(op) /\ 2 \in 1..Arity(op)
    BY DEF Arity, Divisions, FeltUnaryOps
  <2>2. op \in {"sintdiv", "smod"} => X[1].ty # "C" /\ X[2].ty # "C"
    <3> HIDE DEF X
    <3> QED
      BY <1>1, <2>1 DEF DoubtfulVisit, Divisions, X
  <2> QED
    BY <2>2 DEF DoubtfulVisit, DoubtfulOperands, Either
<1> HIDE DEF X, V
<1> QED
  BY <1>2, <1>3, <1>4, <1>5, TransferIsSound DEF X

(* A factor s - c or s that is zero has its root as the value of s. *)
LEMMA RootIsValue ==
  ASSUME IInv, Sound, NEW m \in Nodes, m < upcoming, witness[m] = 0, NEW root \in Root(m)
  PROVE  witness[root[1]] = root[2]
<1>1. circuit \in Circuits
  BY DEF IInv
<1>2. CASE circuit[m].op = "input"
  <2>1. root = <<m, 0>>
    BY <1>2 DEF Root
  <2> QED
    BY <2>1
<1>3. CASE circuit[m].op = "sub"
  <2> DEFINE args == circuit[m].args
             J == {j \in {1, 2} : circuit[args[j]].op = "input" /\ circuit[args[3 - j]].op = "const"}
  <2>1. Root(m) = {<<args[i], circuit[args[3 - i]].known.a>> : i \in J}
    BY <1>3 DEF Root
  <2>2. PICK i \in J : root = <<args[i], circuit[args[3 - i]].known.a>>
    BY <2>1
  <2>3. OperandCount(circuit[m].op) = 2 /\ "sub" \in Operations
    BY <1>3 DEF OperandCount, Arity, Sources, FeltUnaryOps, Operations, FeltOps
  <2>4. m <= upcoming
    BY <1>1, CircuitFacts DEF IInv, TypeOK
  <2>5. \A k \in {1, 2} : /\ args[k] \in Nodes /\ witness[args[k]] \in Felt
                          /\ Values(circuit, witness, m)[k] = witness[args[k]]
    BY <2>3, <2>4, OperandValues
  <2>6. witness[m] = (witness[args[1]] - witness[args[2]]) % Prime
    <3>1. witness[m] = Result("sub", Values(circuit, witness, m))
      BY <1>3, <2>3, Witnessed DEF Executes
    <3> QED
      BY <2>5, <3>1 DEF Result
  <2>7. witness[args[1]] = witness[args[2]]
    <3> DEFINE a == witness[args[1]]
               b == witness[args[2]]
    <3>1. a \in Felt /\ b \in Felt /\ (a - b) % Prime = 0
      BY <2>5, <2>6
    <3> HIDE DEF a, b
    <3>2. a \in Int /\ b \in Int /\ Prime \in Nat /\ Prime > 0 /\ a - b \in Int
          /\ -Prime < a - b /\ a - b < Prime
      BY <3>1, PrimeAssumption DEF Felt
    <3>3. PICK k \in Int : a - b = k * Prime + 0
      BY <3>1, <3>2, Division
    <3>4. k = 0
      BY <3>2, <3>3, Multiple
    <3>5. a = b
      BY <3>2, <3>3, <3>4
    <3> QED
      BY <3>5 DEF a, b
  <2>8. witness[args[3 - i]] = circuit[args[3 - i]].known.a
    <3> DEFINE k == args[3 - i]
    <3>1. 3 - i \in {1, 2}
      OBVIOUS
    <3>2. k \in Nodes /\ circuit[k].op = "const"
      BY <2>5, <3>1
    <3>3. WellFormed(circuit[k].known) /\ circuit[k].known.ty = "Degenerate"
      BY <1>1, <3>2, CircuitFacts DEF Known, Sources
    <3>4. witness[k] \in Gamma(circuit[k].known)
      BY <3>2, Witnessed DEF Executes, Sources
    <3> HIDE DEF k
    <3>5. witness[k] = circuit[k].known.a
      BY <3>3, <3>4, PointRead
    <3> QED
      BY <3>5 DEF k
  <2> HIDE DEF args
  <2>9. witness[args[i]] = witness[args[3 - i]]
    <3>1. i = 1 \/ i = 2
      OBVIOUS
    <3> QED
      BY <2>7, <3>1
  <2> QED
    BY <2>2, <2>8, <2>9
<1>4. circuit[m].op \in {"input", "sub"}
  BY DEF Root
<1> QED
  BY <1>2, <1>3, <1>4

(* The walk comes to the operands of every product it comes to. *)
LEMMA WalkedFacts ==
  ASSUME circuit \in Circuits, NEW n \in Nodes
  PROVE  /\ n \in Walked(n) /\ Walked(n) \subseteq 1..n
         /\ \A k \in Walked(n) : circuit[k].op = "mul" =>
              circuit[k].args[1] \in Walked(n) /\ circuit[k].args[2] \in Walked(n)
<1>1. Nodes = 1..Len(circuit) /\ Len(circuit) \in Nat /\ n \in Nat
  BY CircuitFacts
<1>2. n \in Walked(n) /\ Walked(n) \subseteq 1..n
  BY <1>1 DEF Walked
<1>3. ASSUME NEW k \in Walked(n), circuit[k].op = "mul", NEW i \in {1, 2}
      PROVE  circuit[k].args[i] \in Walked(n)
  <2>1. k \in Nodes /\ k <= n
    BY <1>1, <1>2
  <2>2. OperandCount(circuit[k].op) = 2
    BY <1>3 DEF OperandCount, Arity, Sources, FeltUnaryOps
  <2>3. circuit[k].args[i] \in Nodes /\ circuit[k].args[i] < k /\ DOMAIN circuit[k].args = 1..2
    BY <2>1, <2>2, CircuitFacts
  <2>4. circuit[k].args[i] \in 1..n
    BY <1>1, <2>1, <2>3
  <2>5. circuit[k].args[i] \in ToSet(circuit[k].args)
    BY <2>3 DEF ToSet
  <2> QED
    BY <1>3, <2>4, <2>5 DEF Walked
<1> QED
  BY <1>2, <1>3

(* A product is zero because one of its factors is. *)
LEMMA SomeFactorIsZero ==
  ASSUME IInv, Sound, NEW n \in Nodes, n < upcoming, witness[n] = 0
  PROVE  \E m \in Walked(n) : circuit[m].op # "mul" /\ witness[m] = 0
<1> DEFINE Zero == {m \in Walked(n) : witness[m] = 0}
<1>1. circuit \in Circuits
  BY DEF IInv
<1>2. n \in Zero /\ Zero \subseteq 1..n /\ n \in Nat /\ Nodes = 1..Len(circuit) /\ Len(circuit) \in Nat
      /\ upcoming \in Nat
  BY <1>1, WalkedFacts, CircuitFacts DEF IInv, TypeOK
<1>3. PICK m \in Zero : \A k \in Zero : m <= k
  <2>1. Zero \subseteq Nat /\ Zero # {}
    BY <1>2
  <2> HIDE DEF Zero
  <2> QED
    BY <2>1, Least
<1> SUFFICES ASSUME circuit[m].op = "mul" PROVE FALSE
  BY <1>3
<1> DEFINE args == circuit[m].args
<1>4. m \in Nodes /\ m <= n /\ m \in Walked(n) /\ witness[m] = 0 /\ m <= upcoming /\ m \in Nat
  BY <1>2, <1>3
<1>5. OperandCount(circuit[m].op) = 2 /\ "mul" \in Operations
  BY DEF OperandCount, Arity, Sources, FeltUnaryOps, Operations, FeltOps
<1>6. \A k \in {1, 2} : /\ args[k] \in Walked(n) /\ args[k] \in Nodes /\ args[k] < m
                        /\ witness[args[k]] \in Felt
                        /\ Values(circuit, witness, m)[k] = witness[args[k]]
  BY <1>1, <1>4, <1>5, OperandValues, WalkedFacts, CircuitFacts
<1>7. (witness[args[1]] * witness[args[2]]) % Prime = 0
  <2>1. witness[m] = Result("mul", Values(circuit, witness, m))
    BY <1>4, <1>5, Witnessed DEF Executes
  <2> QED
    BY <1>4, <1>6, <2>1 DEF Result
<1>8. PICK k \in {1, 2} : witness[args[k]] = 0
  BY <1>6, <1>7, NoZeroDivisors
<1>9. args[k] \in Zero /\ args[k] < m /\ args[k] \in Nat
  BY <1>2, <1>6, <1>8
<1> HIDE DEF args, Zero
<1> QED
  BY <1>3, <1>4, <1>9

CallIsSound(c) == witness[c.value] \in Gamma(c.interval)

LEMMA DecompositionIsSound ==
  ASSUME IInv, Sound, NEW l \in Nodes, NEW r \in Nodes, l < upcoming, r < upcoming,
         witness[l] = witness[r],
         NEW i \in DOMAIN Decomposition(l, r)
  PROVE  CallIsSound(Decomposition(l, r)[i])
<1> DEFINE n == IF IsZero(l) THEN r ELSE l
           R == Roots(n)
           signals == {root[1] : root \in R}
           consts == {root[2] : root \in R}
           s == CHOOSE s \in signals : TRUE
           c == Call(s, ReduceTo[Corners(consts)])
<1>1. circuit \in Circuits
  BY DEF IInv
<1>2. /\ IsZero(l) \/ IsZero(r)
      /\ Cardinality(signals) = 1 /\ Decomposition(l, r) = <<c>>
  <2>1. Decomposition(l, r) = IF IsZero(l) # IsZero(r) /\ Cardinality(signals) = 1 THEN <<c>> ELSE <<>>
    BY Zenon DEF Decomposition
  <2> HIDE DEF signals, c
  <2>2. IsZero(l) # IsZero(r) /\ Cardinality(signals) = 1
    BY <2>1
  <2>3. IsZero(l) \/ IsZero(r)
    BY <2>2 DEF IsZero
  <2> QED
    BY <2>1, <2>2, <2>3
<1>3. n \in Nodes /\ n < upcoming
  OBVIOUS
<1>4. witness[n] = 0
  <2>1. \A k \in Nodes : IsZero(k) => witness[k] = 0
    <3> TAKE k \in Nodes
    <3> HAVE IsZero(k)
    <3>1. witness[k] \in Gamma(False)
      BY Witnessed DEF Executes, IsZero, Sources
    <3>2. 0 \in Felt
      BY PrimeAssumption DEF Felt
    <3> QED
      BY <3>1, <3>2, Names DEF False
  <2>2. CASE IsZero(l)
    BY <2>1, <2>2
  <2>3. CASE ~ IsZero(l)
    BY <1>2, <2>1, <2>3
  <2> QED
    BY <2>2, <2>3
<1>5. PICK m \in Walked(n) : circuit[m].op # "mul" /\ witness[m] = 0
  <2> HIDE DEF n
  <2> QED
    BY <1>3, <1>4, SomeFactorIsZero
<1>6. m \in Nodes /\ m <= n /\ n \in Nat /\ m \in Nat
  <2> HIDE DEF n
  <2> QED
    BY <1>1, <1>3, <1>5, WalkedFacts, CircuitFacts
<1> HIDE DEF n
<1>7. m < upcoming
  <2>1. upcoming \in Nat
    BY <1>1, <1>3, CircuitFacts DEF IInv, TypeOK
  <2> QED
    BY <1>3, <1>6, <2>1
<1>8. R # {}
  <2>1. signals # {}
    <3> HIDE DEF signals
    <3> QED
      BY <1>2, FS_EmptySet
  <2> QED
    BY <2>1
<1>9. PICK root \in Root(m) : root \in R
  <2>1. Root(m) # {} /\ Root(m) \subseteq R
    BY <1>5, <1>8 DEF Roots
  <2> QED
    BY <2>1
<1>10. witness[root[1]] = root[2]
  BY <1>5, <1>6, <1>7, RootIsValue
<1>11. root[1] \in signals /\ root[2] \in consts
  BY <1>9
<1>12. consts \subseteq Felt /\ signals \subseteq Nodes
  BY <1>1, <1>3, RootsTyped
<1> HIDE DEF R
<1>13. s = root[1]
  <2>1. \E e : signals = {e}
    <3> HIDE DEF signals
    <3>1. IsFiniteSet(signals)
      <4>1. Nodes = 1..Len(circuit) /\ Len(circuit) \in Nat
        BY <1>1, <1>3, CircuitFacts
      <4>2. IsFiniteSet(Nodes)
        BY <4>1, FS_Interval
      <4> QED
        BY <1>12, <4>2, FS_Subset
    <3> QED
      BY <1>2, <3>1, FS_Singleton
  <2> HIDE DEF signals
  <2> QED
    BY <1>11, <2>1
<1> HIDE DEF signals, s, consts
<1>14. witness[s] \in consts
  BY <1>10, <1>11, <1>13
<1>15. /\ Min(consts) \in Int /\ Max(consts) \in Int /\ witness[s] \in Min(consts)..Max(consts)
       /\ witness[s] % Prime = witness[s]
  <2>1. Min(consts) \in Felt /\ Max(consts) \in Felt /\ Min(consts) <= witness[s] /\ witness[s] <= Max(consts)
    BY <1>12, <1>14, LeastAndGreatest
  <2>2. witness[s] \in Felt
    BY <1>12, <1>14
  <2> QED
    BY <2>1, <2>2, FeltsAreReduced
<1>16. witness[s] \in Gamma(ReduceTo[Corners(consts)])
  <2>1. witness[s] % Prime \in Gamma(ReduceTo[<<Min(consts), Max(consts)>>])
    BY <1>15, ReduceToIsSound
  <2> QED
    BY <1>15, <2>1 DEF Corners
<1>17. CallIsSound(c)
  BY <1>16 DEF CallIsSound, Call
<1>18. i = 1
  BY <1>2
<1> QED
  BY <1>2, <1>17, <1>18

(* What is left of soundness after a step: what it sets, and what it calls. *)
LEMMA SoundAfter ==
  ASSUME IInv, Sound, circuit' = circuit, witness' = witness, NEW n \in Nodes, NEW x, 
         lattice' = [lattice EXCEPT ![n] = x] \/ lattice' = lattice,
         lattice' # lattice => witness[n] \in Gamma(x),
         \A i \in DOMAIN todo' : CallIsSound(todo'[i])
  PROVE  Sound'
<1>1. \A m \in Nodes : lattice'[m] # Unset => witness[m] \in Gamma(lattice'[m])
  <2> TAKE m \in Nodes
  <2>1. lattice \in [Nodes -> IntervalType \cup {Unset}]
    BY DEF IInv, TypeOK
  <2>2. lattice[m] # Unset => witness[m] \in Gamma(lattice[m])
    BY DEF Sound, IsSet
  <2>3. CASE lattice' = lattice
    BY <2>2, <2>3
  <2>4. CASE lattice' # lattice
    <3>1. lattice'[m] = IF m = n THEN x ELSE lattice[m]
      BY <2>1, <2>4
    <3> QED
      BY <2>2, <2>4, <3>1
  <2> QED
    BY <2>3, <2>4
<1> QED
  BY <1>1 DEF Sound, Nodes, IsSet, CallIsSound

LEMMA CallsFollow ==
  ASSUME NEW S, NEW s \in Seq(S), NEW t \in Seq(S),
         \A i \in DOMAIN s : CallIsSound(s[i]), \A i \in DOMAIN t : CallIsSound(t[i])
  PROVE  \A i \in DOMAIN (s \o t) : CallIsSound((s \o t)[i])
<1>1. /\ s \o t \in Seq(S) /\ Len(s \o t) = Len(s) + Len(t)
      /\ \A i \in 1..(Len(s) + Len(t)) : (s \o t)[i] = IF i <= Len(s) THEN s[i] ELSE t[i - Len(s)]
  BY ConcatProperties
<1>2. /\ Len(s) \in Nat /\ DOMAIN s = 1..Len(s) /\ Len(t) \in Nat /\ DOMAIN t = 1..Len(t)
      /\ DOMAIN (s \o t) = 1..(Len(s) + Len(t))
  BY <1>1
<1> TAKE i \in DOMAIN (s \o t)
<1>3. i \in 1..(Len(s) + Len(t))
  BY <1>2
<1>4. CASE i <= Len(s)
  BY <1>1, <1>2, <1>3, <1>4
<1>5. CASE ~ (i <= Len(s))
  <2>1. i - Len(s) \in 1..Len(t)
    BY <1>2, <1>3, <1>5
  <2> QED
    BY <1>1, <1>2, <1>3, <1>5, <2>1
<1> QED
  BY <1>4, <1>5

LEMMA VisitIsSound ==
  ASSUME IInv, Sound, NEW n \in Nodes, n <= upcoming, NEW queue, Visit(n, queue), ~ DoubtfulVisit(n)
  PROVE  Sound'
<1> DEFINE op == circuit[n].op
           args == circuit[n].args
           x == Transfer(op, Operands(n))
<1>1. circuit' = circuit /\ witness' = witness /\ todo = <<>> /\ circuit \in Circuits
  BY DEF Visit, IInv
<1>2. op \in Operations \cup Sources \cup Constraints
  BY <1>1, CircuitFacts
<1>3. Executes(circuit, witness, n)
  BY Witnessed
<1>4. CASE VisitSource(n, queue)
  <2>1. lattice' = [lattice EXCEPT ![n] = circuit[n].known] /\ todo' = <<>>
    BY <1>1, <1>4 DEF VisitSource, SetValue
  <2>2. witness[n] \in Gamma(circuit[n].known)
    BY <1>3, <1>4 DEF VisitSource, Known, Executes
  <2>3. \A i \in DOMAIN todo' : CallIsSound(todo'[i])
    BY <2>1
  <2> QED
    BY <1>1, <2>1, <2>2, <2>3, SoundAfter
<1>5. CASE VisitOperation(n, queue)
  <2> DEFINE z == IF lattice[n] = Unset THEN x ELSE Intersect[<<x, lattice[n]>>]
  <2>1. op \in Operations /\ op # "cast" /\ ~Rejected(n) /\ todo' = <<>>
        /\ lattice' = [lattice EXCEPT ![n] = z]
    BY <1>1, <1>2, <1>5 DEF VisitOperation, Known, SetValue
  <2>2. witness[n] \in Gamma(x)
    BY <2>1, ResultInTransfer
  <2>3. WellFormed(x)
    <3>1. DOMAIN args = 1..Arity(op) /\ OperandCount(op) = Arity(op)
      BY <1>1, <2>1, CircuitFacts, OperandCounts
    <3>2. \A i \in 1..Arity(op) : WellFormed(Operands(n)[i])
      BY <3>1, OperandFacts
    <3>3. op \in BoolOps \cup {"not"} => \A i \in 1..Arity(op) : IsBoolean(Operands(n)[i])
      BY <2>1, <3>1 DEF Rejected
    <3> QED
      BY <2>1, <3>2, <3>3, TransferTyped
  <2>4. lattice[n] # Unset => ~ FarPoint(x, lattice[n]) /\ ~ FarPoint(lattice[n], x)
    BY <2>1, OperationKinds DEF DoubtfulVisit, Either, IsSet
  <2>5. lattice[n] # Unset => WellFormed(lattice[n]) /\ witness[n] \in Gamma(lattice[n])
    BY Visited DEF IsSet, Sound
  <2> HIDE DEF x
  <2>6. witness[n] \in Gamma(z)
    BY <2>2, <2>3, <2>4, <2>5, IntersectIsSound
  <2>7. \A i \in DOMAIN todo' : CallIsSound(todo'[i])
    BY <2>1
  <2> HIDE DEF z
  <2> QED
    BY <1>1, <2>1, <2>6, <2>7, SoundAfter
<1>6. CASE VisitCast(n, queue)
  <2>1. op = "cast" /\ todo' = <<>> /\ lattice' = [lattice EXCEPT ![n] = Operands(n)[1]]
    BY <1>1, <1>6 DEF VisitCast, SetValue
  <2>2. op \in Operations /\ 1 \in 1..OperandCount(op)
    BY <2>1 DEF Operations, OperandCount, Arity, Sources
  <2>3. witness[n] = Values(circuit, witness, n)[1]
    BY <1>3, <2>1, <2>2 DEF Executes, Result, Predicates, BoolOps
  <2>4. witness[n] \in Gamma(Operands(n)[1])
    BY <2>2, <2>3, OperandValues
  <2>5. \A i \in DOMAIN todo' : CallIsSound(todo'[i])
    BY <2>1
  <2> QED
    BY <1>1, <2>1, <2>4, <2>5, SoundAfter
<1>7. CASE VisitEmitEq(n, queue)
  <2> DEFINE l == args[1]
             r == args[2]
             both == Intersect[<<lattice[l], lattice[r]>>]
             calls == Decomposition(l, r)
  <2>1. op = "emiteq" /\ lattice' = lattice /\ todo' = calls \o <<Call(l, both), Call(r, both)>>
    BY <1>7 DEF VisitEmitEq
  <2>2. 1 \in 1..OperandCount(op) /\ 2 \in 1..OperandCount(op)
    BY <2>1 DEF OperandCount, Sources
  <2>3. /\ l \in Nodes /\ l < upcoming /\ WellFormed(lattice[l]) /\ witness[l] \in Gamma(lattice[l])
        /\ r \in Nodes /\ r < upcoming /\ WellFormed(lattice[r]) /\ witness[r] \in Gamma(lattice[r])
        /\ Operands(n)[1] = lattice[l] /\ Operands(n)[2] = lattice[r]
        /\ Values(circuit, witness, n)[1] = witness[l] /\ Values(circuit, witness, n)[2] = witness[r]
    BY <2>2, OperandValues
  <2>4. witness[l] = witness[r]
    BY <1>3, <2>1, <2>3 DEF Executes
  <2>5. ~ FarPoint(lattice[l], lattice[r]) /\ ~ FarPoint(lattice[r], lattice[l])
    BY <2>1, <2>3 DEF DoubtfulVisit, Either
  <2>6. WellFormed(both) /\ witness[l] \in Gamma(both) /\ witness[r] \in Gamma(both)
    BY <2>3, <2>4, <2>5, IntersectIsSound
  <2> HIDE DEF both
  <2>7. CallIsSound(Call(l, both)) /\ CallIsSound(Call(r, both))
    BY <2>6 DEF CallIsSound, Call
  <2>8. calls \in Seq(Calls(upcoming)) /\ \A i \in DOMAIN calls : CallIsSound(calls[i])
    BY <2>3, <2>4, DecompositionTyped, DecompositionIsSound
  <2> HIDE DEF calls
  <2>9. \A i \in DOMAIN todo' : CallIsSound(todo'[i])
    <3> DEFINE two == <<Call(l, both), Call(r, both)>>
    <3>1. Call(l, both) \in Calls(upcoming) /\ Call(r, both) \in Calls(upcoming)
      BY <2>2, <2>3, <2>6, CallTyped, OperandValues
    <3>2. two \in Seq(Calls(upcoming))
      BY <2>8, <3>1, SequenceOfCalls
    <3>3. \A i \in DOMAIN two : CallIsSound(two[i])
      BY <2>7
    <3> HIDE DEF two
    <3>4. \A i \in DOMAIN (calls \o two) : CallIsSound((calls \o two)[i])
      BY <2>8, <3>2, <3>3, CallsFollow
    <3> QED
      BY <2>1, <3>4 DEF two
  <2> QED
    BY <1>1, <2>1, <2>9, SoundAfter
<1>8. CASE VisitAssert(n, queue)
  <2>1. op = "assert" /\ lattice' = lattice /\ todo' = <<Call(args[1], True)>>
    BY <1>8 DEF VisitAssert
  <2>2. 1 \in 1..OperandCount(op)
    BY <2>1 DEF OperandCount, Sources
  <2>3. witness[args[1]] = 1
    BY <1>3, <2>1, <2>2, OperandValues DEF Executes
  <2>4. CallIsSound(Call(args[1], True))
    BY <2>3, TruthValues DEF CallIsSound, Call
  <2>5. \A i \in DOMAIN todo' : CallIsSound(todo'[i])
    BY <2>1, <2>4
  <2> QED
    BY <1>1, <2>1, <2>5, SoundAfter
<1> QED
  BY <1>4, <1>5, <1>6, <1>7, <1>8 DEF Visit

-----------------------------------------------------------------------------
(*----------------------- sound calls of applyInterval ----------------------*)
LEMMA MeetsAreSure ==
  ASSUME ~ DoubtfulApply, NEW x, NEW y, <<x, y>> \in Meets
  PROVE  ~ FarPoint(x, y) /\ ~ FarPoint(y, x)
<1>1. \A m \in Meets : ~ (FarPoint(m[1], m[2]) \/ FarPoint(m[2], m[1]))
  BY Zenon DEF DoubtfulApply, Either
<1> QED
  BY <1>1

LEMMA ApplyIsSound ==
  ASSUME IInv, Sound, NEW ops, NEW calls \in Seq(Calls(upcoming)), Apply(ops, calls),
         ~ DoubtfulApply, \A i \in DOMAIN calls : CallIsSound(calls[i])
  PROVE  Sound'
<1> DEFINE x == Intersect[<<lattice[Target], Given>>]
<1>1. /\ circuit' = circuit /\ witness' = witness /\ todo # <<>>
      /\ lattice' = [lattice EXCEPT ![Target] = x] /\ todo' = calls \o Tail(todo)
  BY DEF Apply, Applying, SetValue
<1>2. Target \in Nodes /\ WellFormed(Given) /\ WellFormed(lattice[Target]) /\ Tail(todo) \in Seq(Calls(upcoming))
  BY <1>1, TargetFacts
<1>3. ~ FarPoint(lattice[Target], Given) /\ ~ FarPoint(Given, lattice[Target])
  <2>1. <<lattice[Target], Given>> \in Meets
    BY DEF Meets
  <2> QED
    BY <2>1, MeetsAreSure
<1>4. \A i \in DOMAIN todo : CallIsSound(todo[i])
  BY DEF Sound, CallIsSound
<1>5. Len(todo) \in Nat /\ DOMAIN todo = 1..Len(todo) /\ Head(todo) = todo[1] /\ 1 \in DOMAIN todo
  <2> DEFINE S == Calls(upcoming)
  <2>1. todo \in Seq(S)
    BY DEF IInv
  <2> HIDE DEF S
  <2> QED
    BY <1>1, <2>1
<1>6. witness[Target] \in Gamma(Given)
  BY <1>4, <1>5 DEF CallIsSound, Target, Given
<1>7. witness[Target] \in Gamma(lattice[Target])
  <2>1. IsSet(Target)
    BY <1>1, <1>2, TargetFacts DEF IInv
  <2> QED
    BY <1>2, <2>1 DEF Sound
<1>8. witness[Target] \in Gamma(x)
  BY <1>2, <1>3, <1>6, <1>7, IntersectIsSound
<1>9. \A i \in DOMAIN Tail(todo) : CallIsSound(Tail(todo)[i])
  <2> DEFINE S == Calls(upcoming)
  <2>1. todo \in Seq(S)
    BY DEF IInv
  <2> HIDE DEF S
  <2>2. Len(Tail(todo)) = Len(todo) - 1 /\ \A i \in 1..(Len(todo) - 1) : Tail(todo)[i] = todo[i + 1]
    BY <1>1, <2>1
  <2>3. DOMAIN Tail(todo) = 1..(Len(todo) - 1)
    BY <1>1, <1>2, <2>2
  <2> TAKE i \in DOMAIN Tail(todo)
  <2>4. i + 1 \in DOMAIN todo /\ Tail(todo)[i] = todo[i + 1]
    BY <1>5, <2>2, <2>3
  <2> QED
    BY <1>4, <2>4
<1>10. \A i \in DOMAIN todo' : CallIsSound(todo'[i])
  BY <1>1, <1>2, <1>9, CallsFollow
<1> HIDE DEF x
<1> QED
  BY <1>1, <1>2, <1>8, <1>10, SoundAfter

(* What the rules know of the values of their target and its operands. *)
LEMMA TargetValue ==
  ASSUME IInv, Sound, todo # <<>>
  PROVE  /\ WellFormed(Given) /\ witness[Target] \in Gamma(Given) /\ witness[Target] \in Felt
         /\ Target \in Nodes /\ Executes(circuit, witness, Target)
         /\ \A i \in 1..OperandCount(circuit[Target].op) :
              /\ WellFormed(Now(i)) /\ Argument(i) \in Nodes
              /\ circuit[Argument(i)].op \notin Constraints
              /\ Values(circuit, witness, Target)[i] = witness[Argument(i)]
              /\ witness[Argument(i)] \in Gamma(Now(i)) /\ witness[Argument(i)] \in Felt
<1>1. Target \in Nodes /\ Target < upcoming /\ WellFormed(Given)
  BY TargetFacts
<1>2. 1 \in DOMAIN todo /\ Head(todo) = todo[1]
  <2> DEFINE S == Calls(upcoming)
  <2>1. todo \in Seq(S)
    BY DEF IInv
  <2> HIDE DEF S
  <2> QED
    BY <2>1
<1>3. witness[Target] \in Gamma(Given)
  BY <1>2 DEF Sound, Target, Given
<1>4. Target <= upcoming
  BY <1>1, CircuitFacts DEF IInv, TypeOK
<1>5. \A i \in 1..OperandCount(circuit[Target].op) :
        /\ WellFormed(Now(i)) /\ Argument(i) \in Nodes
        /\ circuit[Argument(i)].op \notin Constraints
        /\ Values(circuit, witness, Target)[i] = witness[Argument(i)]
        /\ witness[Argument(i)] \in Gamma(Now(i)) /\ witness[Argument(i)] \in Felt
  BY <1>1, <1>4, OperandValues DEF Argument, Now
<1> QED
  BY <1>1, <1>3, <1>5, Witnessed, ValuesAreFelts

LEMMA LeafIsSound == IInv /\ Sound /\ ApplyToLeaf /\ ~ DoubtfulApply => Sound'
<1> SUFFICES ASSUME IInv, Sound, ApplyToLeaf, ~ DoubtfulApply PROVE Sound'
  OBVIOUS
<1>1. PICK ops : Apply(ops, <<>>)
  BY DEF ApplyToLeaf
<1>2. \A i \in DOMAIN <<>> : CallIsSound(<<>>[i])
  OBVIOUS
<1> QED
  BY <1>1, <1>2, NothingCalled, ApplyIsSound

LEMMA CastIsSound == IInv /\ Sound /\ ApplyToCast /\ ~ DoubtfulApply => Sound'
<1> SUFFICES ASSUME IInv, Sound, ApplyToCast, ~ DoubtfulApply PROVE Sound'
  OBVIOUS
<1>1. todo # <<>> /\ circuit[Target].op = "cast"
  BY DEF ApplyToCast, Apply, Applying
<1>2. 1 \in 1..OperandCount(circuit[Target].op) /\ "cast" \in Operations
  BY <1>1 DEF OperandCount, Arity, Sources, Operations
<1>3. witness[Target] = witness[Argument(1)]
  BY <1>1, <1>2, TargetValue DEF Executes, Result, Predicates, BoolOps
<1>4. CallIsSound(Call(Argument(1), Given))
  BY <1>1, <1>3, TargetValue DEF CallIsSound, Call
<1>5. <<Call(Argument(1), Given)>> \in Seq(Calls(upcoming))
  BY <1>1, <1>2, TargetFacts, OneCallTyped
<1> DEFINE calls == <<Call(Argument(1), Given)>>
<1>6. \A i \in DOMAIN calls : CallIsSound(calls[i])
  BY <1>4
<1>7. Apply({"cast"}, calls)
  BY DEF ApplyToCast
<1> HIDE DEF calls
<1> QED
  BY <1>5, <1>6, <1>7, ApplyIsSound DEF calls

LEMMA BothAreSound ==
  ASSUME NEW x, NEW y, witness[Argument(1)] \in Gamma(x), witness[Argument(2)] \in Gamma(y)
  PROVE  \A i \in DOMAIN Both(x, y) : CallIsSound(Both(x, y)[i])
BY DEF Both, CallIsSound, Call

(* The rules of add and sub undo the operation. *)
LEMMA SumUndone ==
  ASSUME NEW a \in Felt, NEW b \in Felt
  PROVE  /\ (((a + b) % Prime) - b) % Prime = a /\ (((a + b) % Prime) - a) % Prime = b
         /\ (((a - b) % Prime) + b) % Prime = a /\ (a - ((a - b) % Prime)) % Prime = b
<1>1. a \in Int /\ b \in Int /\ a % Prime = a /\ b % Prime = b /\ Prime \in Nat
  BY FeltsAreReduced, PrimeAssumption
<1>2. \A v, w \in Int : w % Prime = w => (((v % Prime) + w) % Prime = (v + w) % Prime)
  BY ResidueOfSum, Zenon
<1>3. \A v, w \in Int : ((v % Prime) - w) % Prime = (v - w) % Prime
  <2> SUFFICES ASSUME NEW v \in Int, NEW w \in Int
               PROVE  ((v % Prime) - w) % Prime = (v - w) % Prime
    OBVIOUS
  <2>1. PICK k \in Int : v = k * Prime + (v % Prime)
    BY Division
  <2> DEFINE p == v % Prime
             q == (p - w) % Prime
  <2>2. p \in Felt /\ p \in Int
    BY Division, FeltsAreReduced
  <2>3. q \in Felt /\ \E m \in Int : p - w = m * Prime + q
    BY <2>2, Division
  <2> HIDE DEF p, q
  <2>4. PICK m \in Int : p - w = m * Prime + q
    BY <2>3
  <2>5. q \in Int
    BY <2>3, FeltsAreReduced
  <2>6. v - w = (k + m) * Prime + q
    <3>1. (k + m) * Prime = k * Prime + m * Prime
      BY <1>1
    <3>2. v = k * Prime + p
      BY <2>1 DEF p
    <3>3. k * Prime \in Int /\ m * Prime \in Int
      BY <1>1
    <3> QED
      BY <2>2, <2>4, <2>5, <3>1, <3>2, <3>3
  <2>7. (v - w) % Prime = q
    BY <2>3, <2>6, Residue
  <2> QED
    BY <2>7 DEF p, q
<1>4. (a + b) - b = a /\ (a + b) - a = b /\ (a - b) + b = a /\ a + b \in Int /\ a - b \in Int /\ -b \in Int
  BY <1>1
<1>5. (a - ((a - b) % Prime)) % Prime = b
  <2> DEFINE d == (a - b) % Prime
  <2>1. PICK k \in Int : a - b = k * Prime + d
    BY <1>4, Division
  <2>2. d \in Int
    BY <1>4, Division, FeltsAreReduced
  <2> HIDE DEF d
  <2>3. a - d = k * Prime + b
    <3>1. k * Prime \in Int
      BY <1>1
    <3> QED
      BY <1>1, <2>1, <2>2, <3>1
  <2>4. (a - d) % Prime = b
    BY <1>1, <2>2, <2>3, Residue
  <2> QED
    BY <2>4 DEF d
<1>6. /\ (((a + b) % Prime) - b) % Prime = ((a + b) - b) % Prime
      /\ (((a + b) % Prime) - a) % Prime = ((a + b) - a) % Prime
  BY <1>1, <1>3, <1>4, Zenon
<1>7. (((a - b) % Prime) + b) % Prime = ((a - b) + b) % Prime
  BY <1>1, <1>2, <1>4, Zenon
<1>8. /\ (((a + b) % Prime) - b) % Prime = a /\ (((a + b) % Prime) - a) % Prime = b
      /\ (((a - b) % Prime) + b) % Prime = a
  BY <1>1, <1>4, <1>6, <1>7, Zenon
<1> QED
  BY <1>5, <1>8, Zenon

LEMMA TwoOperands ==
  ASSUME IInv, Sound, todo # <<>>, circuit[Target].op \in FeltOps \cup Predicates
  PROVE  /\ OperandCount(circuit[Target].op) = 2 /\ circuit[Target].op \in Operations
         /\ WellFormed(Given) /\ witness[Target] \in Gamma(Given) /\ witness[Target] \in Felt
         /\ WellFormed(Now(1)) /\ witness[Argument(1)] \in Gamma(Now(1)) /\ witness[Argument(1)] \in Felt
         /\ WellFormed(Now(2)) /\ witness[Argument(2)] \in Gamma(Now(2)) /\ witness[Argument(2)] \in Felt
         /\ circuit[Argument(1)].op \notin Constraints /\ circuit[Argument(2)].op \notin Constraints
         /\ Argument(1) \in Nodes /\ Argument(2) \in Nodes
         /\ witness[Target] = Result(circuit[Target].op, Values(circuit, witness, Target))
         /\ Values(circuit, witness, Target)[1] = witness[Argument(1)]
         /\ Values(circuit, witness, Target)[2] = witness[Argument(2)]
<1>1. OperandCount(circuit[Target].op) = 2 /\ circuit[Target].op \in Operations
  BY DEF OperandCount, Arity, Sources, Operations, FeltOps, Divisions, FeltUnaryOps, Predicates
<1>2. 1 \in 1..2 /\ 2 \in 1..2
  OBVIOUS
<1> QED
  BY <1>1, <1>2, TargetValue DEF Executes

LEMMA AddIsSound == IInv /\ Sound /\ ApplyToAdd /\ ~ DoubtfulApply => Sound'
<1> SUFFICES ASSUME IInv, Sound, ApplyToAdd, ~ DoubtfulApply PROVE Sound'
  OBVIOUS
<1> DEFINE p == Minus[<<Given, Now(2)>>]
           q == Minus[<<Given, Now(1)>>]
           x == Intersect[<<Now(1), p>>]
           y == Intersect[<<Now(2), q>>]
           a == witness[Argument(1)]
           b == witness[Argument(2)]
<1>1. todo # <<>> /\ circuit[Target].op = "add" /\ Apply({"add"}, Both(x, y))
  BY DEF ApplyToAdd, Apply, Applying
<1>2. circuit[Target].op \in FeltOps
  BY <1>1 DEF FeltOps
<1>3. witness[Target] = (a + b) % Prime
  BY <1>1, <1>2, TwoOperands DEF Result
<1>4. WellFormed(p) /\ a \in Gamma(p) /\ WellFormed(q) /\ b \in Gamma(q)
  BY <1>1, <1>2, <1>3, TwoOperands, SumUndone, MinusIsSound
<1>5. <<Now(1), p>> \in Meets /\ <<Now(2), q>> \in Meets
  BY <1>1 DEF Meets, Predicates
<1> HIDE DEF p, q
<1>6. WellFormed(x) /\ a \in Gamma(x) /\ WellFormed(y) /\ b \in Gamma(y)
  BY <1>1, <1>2, <1>4, <1>5, TwoOperands, MeetsAreSure, IntersectIsSound
<1> HIDE DEF x, y
<1>7. Both(x, y) \in Seq(Calls(upcoming)) /\ \A i \in DOMAIN Both(x, y) : CallIsSound(Both(x, y)[i])
  BY <1>1, <1>2, <1>6, TwoOperands, BothTyped, BothAreSound
<1> QED
  BY <1>1, <1>7, ApplyIsSound

LEMMA SubIsSound == IInv /\ Sound /\ ApplyToSub /\ ~ DoubtfulApply => Sound'
<1> SUFFICES ASSUME IInv, Sound, ApplyToSub, ~ DoubtfulApply PROVE Sound'
  OBVIOUS
<1> DEFINE p == Plus[<<Given, Now(2)>>]
           q == Minus[<<Now(1), Given>>]
           x == Intersect[<<Now(1), p>>]
           y == Intersect[<<Now(2), q>>]
           a == witness[Argument(1)]
           b == witness[Argument(2)]
<1>1. todo # <<>> /\ circuit[Target].op = "sub" /\ Apply({"sub"}, Both(x, y))
  BY DEF ApplyToSub, Apply, Applying
<1>2. circuit[Target].op \in FeltOps
  BY <1>1 DEF FeltOps
<1>3. witness[Target] = (a - b) % Prime
  BY <1>1, <1>2, TwoOperands DEF Result
<1>4. WellFormed(p) /\ a \in Gamma(p) /\ WellFormed(q) /\ b \in Gamma(q)
  BY <1>1, <1>2, <1>3, TwoOperands, SumUndone, MinusIsSound, PlusIsSound
<1>5. <<Now(1), p>> \in Meets /\ <<Now(2), q>> \in Meets
  BY <1>1 DEF Meets, Predicates
<1> HIDE DEF p, q
<1>6. WellFormed(x) /\ a \in Gamma(x) /\ WellFormed(y) /\ b \in Gamma(y)
  BY <1>1, <1>2, <1>4, <1>5, TwoOperands, MeetsAreSure, IntersectIsSound
<1> HIDE DEF x, y
<1>7. Both(x, y) \in Seq(Calls(upcoming)) /\ \A i \in DOMAIN Both(x, y) : CallIsSound(Both(x, y)[i])
  BY <1>1, <1>2, <1>6, TwoOperands, BothTyped, BothAreSound
<1> QED
  BY <1>1, <1>7, ApplyIsSound

(* Only from the whole field is a single value ever taken away. *)
LEMMA DifferenceIsSound ==
  ASSUME NEW x, NEW w \in Felt, WellFormed(x), x.ty # "F", NEW v \in Gamma(x), v # w
  PROVE  v \in Gamma(Difference[<<x, Degenerate(w)>>])
<1> DEFINE y == Degenerate(w)
           i == Intersect[<<x, y>>]
           z == Difference[<<x, y>>]
           after(n) == ReduceTo[<<n + 1, x.b>>]
           before(n) == ReduceTo[<<x.a, n - 1>>]
<1>1. WellFormed(y) /\ y \in IntervalType /\ x \in IntervalType /\ y.ty = "Degenerate" /\ y.a = w /\ y.b = w
  BY Names, Typed
<1>2. v \in Felt /\ v \in Nat /\ w \in Nat /\ v < Prime /\ Prime \in Nat /\ v % Prime = v /\ x.ty # "Empty"
  BY NotOutside, FeltsAreReduced, PrimeAssumption DEF Felt
<1>3. z = CASE i = Empty -> x
            [] i # Empty /\ (x.ty = "Degenerate" \/ y.ty = "Entire") -> Empty
            [] i # Empty /\ x.ty = "Entire" /\ y.ty # "Entire" ->
                 IF y.a = 0 THEN ReduceTo[<<y.b + 1, Prime - 1>>]
                 ELSE IF y.b = Prime - 1 THEN ReduceTo[<<0, y.a - 1>>] ELSE x
            [] OTHER ->
                 IF (IsRange(x) /\ IsRange(i)) \/ IsOneOf(x, i, {<<"F", "F">>})
                 THEN IF x.a = i.a THEN after(i.b) ELSE IF x.b = i.b THEN before(i.a) ELSE x
                 ELSE IF x.ty = "F"
                 THEN IF x.a = i.b THEN after(i.a) ELSE IF x.b = i.a THEN before(i.b) ELSE x
                 ELSE x
  <2>1. <<x, y>> \in IntervalType \X IntervalType
    BY <1>1
  <2> QED
    BY <2>1 DEF Difference
<1>4. WellFormed(i) /\ Gamma(i) \subseteq {w}
  <2>1. {x.ty, y.ty} # {"C", "F"}
    BY <1>1
  <2> QED
    BY <1>1, <2>1, IntersectCases, IntersectNarrows, Names
<1>5. ~ IsRange(i)
  <2> SUFFICES ASSUME IsRange(i) PROVE FALSE
    OBVIOUS
  <2>1. i \in IntervalType /\ i.ty \in {"A", "B", "C"}
    BY <1>4, Typed DEF IsRange
  <2>2. i.a \in Felt /\ i.b \in Felt /\ i.a < i.b /\ i.a \in Int /\ i.b \in Int
    BY <1>4, <2>1, WithinBounds, Halves DEF WellFormed
  <2>3. i.a \in Gamma(i) /\ i.b \in Gamma(i)
    BY <2>1, <2>2 DEF Gamma
  <2> HIDE DEF i
  <2> QED
    BY <1>4, <2>2, <2>3
<1>6. x.ty = "Degenerate" => i = Empty
  <2> SUFFICES ASSUME x.ty = "Degenerate" PROVE i = Empty
    OBVIOUS
  <2>1. x.a = v
    BY PointRead
  <2>2. x # y /\ <<x, y>> \in IntervalType \X IntervalType
    BY <1>1, <2>1
  <2> QED
    BY <1>1, <2>2 DEF Intersect
<1> HIDE DEF i
<1>7. CASE i = Empty \/ x.ty = "Degenerate"
  BY <1>3, <1>6, <1>7
<1>8. CASE i # Empty /\ x.ty = "Entire"
  <2>1. y.a = 0 => v \in (y.b + 1)..(Prime - 1) /\ y.b + 1 \in Int /\ Prime - 1 \in Int
    BY <1>1, <1>2
  <2>2. y.b = Prime - 1 => v \in 0..(y.a - 1) /\ y.a - 1 \in Int /\ 0 \in Int
    BY <1>1, <1>2
  <2>3. z = IF y.a = 0 THEN ReduceTo[<<y.b + 1, Prime - 1>>]
            ELSE IF y.b = Prime - 1 THEN ReduceTo[<<0, y.a - 1>>] ELSE x
    BY <1>1, <1>3, <1>8
  <2>4. y.a = 0 => v % Prime \in Gamma(ReduceTo[<<y.b + 1, Prime - 1>>])
    BY <2>1, ReduceToIsSound
  <2>5. y.b = Prime - 1 => v % Prime \in Gamma(ReduceTo[<<0, y.a - 1>>])
    BY <2>2, ReduceToIsSound
  <2> HIDE DEF y, z
  <2>6. v \in Gamma(z)
    BY <1>2, <2>3, <2>4, <2>5
  <2> QED
    BY <2>6 DEF y, z
<1>9. CASE i # Empty /\ x.ty \notin {"Degenerate", "Entire"}
  <2>1. ~ ((IsRange(x) /\ IsRange(i)) \/ IsOneOf(x, i, {<<"F", "F">>}))
    BY <1>5 DEF IsOneOf
  <2>2. z = x
    BY <1>1, <1>3, <1>9, <2>1
  <2> QED
    BY <2>2
<1> QED
  BY <1>7, <1>8, <1>9

(* The product by the inverse of a constant is the other operand. *)
LEMMA ProductUndone ==
  ASSUME NEW c \in Felt, c # 0, NEW v \in Felt
  PROVE  (((c * v) % Prime) * Inv(c)) % Prime = v
<1> DEFINE j == Inv(c)
           p == (c * v) % Prime
<1>1. j \in Felt /\ (c * j) % Prime = 1
  BY InverseExists
<1>2. c \in Int /\ v \in Int /\ j \in Int /\ v % Prime = v /\ j % Prime = j
  BY <1>1, FeltsAreReduced
<1> HIDE DEF j
<1>3. c * v \in Int /\ c * j \in Int /\ (c * v) * j = (c * j) * v
  BY <1>2
<1>4. (p * (j % Prime)) % Prime = ((c * v) * j) % Prime
  BY <1>2, <1>3, ResidueOfProduct
<1>5. (((c * j) % Prime) * (v % Prime)) % Prime = ((c * j) * v) % Prime
  BY <1>2, <1>3, ResidueOfProduct
<1>6. 1 * v = v
  BY <1>2
<1> QED
  BY <1>1, <1>2, <1>3, <1>4, <1>5, <1>6 DEF j

LEMMA ScaledIsSound ==
  ASSUME IInv, Sound, todo # <<>>, circuit[Target].op = "mul", NEW i \in ConstantOperands
  PROVE  \A j \in DOMAIN ScaledCall(i) : CallIsSound(ScaledCall(i)[j])
<1> DEFINE known == circuit[Argument(i)].known
           c == known.a
           o == witness[Argument(3 - i)]
           x == Times[<<Given, Degenerate(Inv(c))>>]
<1>1. circuit[Target].op \in FeltOps
  BY DEF FeltOps
<1>2. i \in {1, 2} /\ circuit[Argument(i)].op = "const"
  BY DEF ConstantOperands
<1>3. Argument(i) \in Nodes /\ witness[Argument(i)] \in Felt /\ o \in Felt
  BY <1>1, <1>2, TwoOperands
<1>4. WellFormed(known) /\ known.ty = "Degenerate" /\ witness[Argument(i)] \in Gamma(known)
  <2>1. Known(Argument(i)) /\ circuit[Argument(i)].op \in Sources
    BY <1>2 DEF Known, Sources
  <2>2. circuit \in Circuits
    BY DEF IInv, TypeOK
  <2>3. Executes(circuit, witness, Argument(i))
    BY <1>3, <2>2, Witnessed
  <2> QED
    BY <1>2, <1>3, <2>1, <2>2, <2>3, CircuitFacts DEF Executes
<1>5. c = witness[Argument(i)] /\ c \in Felt
  BY <1>3, <1>4, PointRead
<1>6. witness[Target] = (witness[Argument(1)] * witness[Argument(2)]) % Prime
  BY <1>1, TwoOperands DEF Result
<1>7. witness[Target] = (c * o) % Prime
  <2>1. witness[Argument(1)] \in Int /\ witness[Argument(2)] \in Int
    BY <1>1, TwoOperands, FeltsAreReduced
  <2>2. witness[Argument(1)] * witness[Argument(2)] = witness[Argument(2)] * witness[Argument(1)]
    BY <2>1
  <2> QED
    BY <1>2, <1>5, <1>6, <2>2
<1>8. CASE c = 0
  BY <1>8 DEF ScaledCall
<1>9. CASE c # 0
  <2>1. (witness[Target] * Inv(c)) % Prime = o
    BY <1>3, <1>5, <1>7, <1>9, ProductUndone
  <2>2. WellFormed(Degenerate(Inv(c))) /\ Inv(c) \in Gamma(Degenerate(Inv(c)))
    BY <1>5, <1>9, InverseExists, Names
  <2>3. o \in Gamma(x)
    BY <1>1, <2>1, <2>2, TwoOperands, TimesIsSound
  <2>4. ScaledCall(i) = <<Call(Argument(3 - i), x)>>
    BY <1>9 DEF ScaledCall
  <2> HIDE DEF x
  <2> QED
    BY <2>3, <2>4 DEF CallIsSound, Call
<1> QED
  BY <1>8, <1>9

LEMMA MulIsSound == IInv /\ Sound /\ ApplyToMul /\ ~ DoubtfulApply => Sound'
<1> SUFFICES ASSUME IInv, Sound, ApplyToMul, ~ DoubtfulApply PROVE Sound'
  OBVIOUS
<1> DEFINE i == CHOOSE i \in ConstantOperands : TRUE
           x == Difference[<<Now(1), False>>]
           y == Difference[<<Now(2), False>>]
           a == witness[Argument(1)]
           b == witness[Argument(2)]
           calls == IF Cardinality(ConstantOperands) = 1 THEN ScaledCall(i)
                    ELSE IF ConstantOperands = {} /\ Intersect[<<Given, False>>] = Empty
                    THEN Both(x, y) ELSE <<>>
<1>1. todo # <<>> /\ circuit[Target].op = "mul" /\ Apply({"mul"}, calls)
  BY DEF ApplyToMul, Apply, Applying
<1>2. circuit[Target].op \in FeltOps
  BY <1>1 DEF FeltOps
<1>3. Cardinality(ConstantOperands) = 1 =>
        /\ ScaledCall(i) \in Seq(Calls(upcoming))
        /\ \A j \in DOMAIN ScaledCall(i) : CallIsSound(ScaledCall(i)[j])
  <2>1. Cardinality(ConstantOperands) = 1 => i \in ConstantOperands
    BY FS_EmptySet
  <2> HIDE DEF i
  <2> QED
    BY <1>1, <1>2, <2>1, TwoOperands, ScaledTyped, ScaledIsSound
<1>4. Intersect[<<Given, False>>] = Empty =>
        /\ Both(x, y) \in Seq(Calls(upcoming))
        /\ \A j \in DOMAIN Both(x, y) : CallIsSound(Both(x, y)[j])
  <2> SUFFICES ASSUME Intersect[<<Given, False>>] = Empty
               PROVE  /\ Both(x, y) \in Seq(Calls(upcoming))
                      /\ \A j \in DOMAIN Both(x, y) : CallIsSound(Both(x, y)[j])
    OBVIOUS
  <2>1. False = Degenerate(0) /\ 0 \in Felt /\ False.ty = "Degenerate" /\ False.a = 0
    BY PrimeAssumption, Names DEF False, Felt
  <2>2. ~ FarPoint(False, Given) /\ ~ FarPoint(Given, False)
    BY <2>1, Halves DEF FarPoint
  <2>3. witness[Target] # 0
    BY <1>1, <1>2, <2>2, TwoOperands, TruthValues, IntersectIsSound, Names
  <2>4. a \in Felt /\ b \in Felt /\ witness[Target] = (a * b) % Prime
    BY <1>1, <1>2, TwoOperands DEF Result
  <2>5. a # 0 /\ b # 0
    <3>1. a \in Int /\ b \in Int /\ 0 * b = 0 /\ a * 0 = 0 /\ 0 % Prime = 0
      BY <2>1, <2>4, FeltsAreReduced
    <3> QED
      BY <2>3, <2>4, <3>1
  <2>6. Now(1).ty # "F" /\ Now(2).ty # "F"
    BY <1>1 DEF DoubtfulApply, Types2
  <2>7. WellFormed(x) /\ WellFormed(y)
    BY <1>1, <1>2, TwoOperands, TruthValues, DifferenceTyped
  <2>8. a \in Gamma(x) /\ b \in Gamma(y)
    BY <1>1, <1>2, <2>1, <2>5, <2>6, TwoOperands, DifferenceIsSound
  <2> HIDE DEF x, y
  <2> QED
    BY <1>1, <1>2, <2>7, <2>8, TwoOperands, BothTyped, BothAreSound
<1> HIDE DEF i, x, y
<1>5. calls \in Seq(Calls(upcoming)) /\ \A j \in DOMAIN calls : CallIsSound(calls[j])
  BY <1>3, <1>4, NothingCalled
<1> HIDE DEF calls
<1> QED
  BY <1>1, <1>5, ApplyIsSound

LEMMA SelectIsSound == IInv /\ Sound /\ ApplyToSelect /\ ~ DoubtfulApply => Sound'
<1> SUFFICES ASSUME IInv, Sound, ApplyToSelect, ~ DoubtfulApply PROVE Sound'
  OBVIOUS
<1> DEFINE overlaps(i) == Intersect[<<Now(i), Given>>] # Empty
           branch(i) == <<Call(Argument(i), Given)>>
           cond(x) == <<Call(Argument(1), x)>>
           calls == CASE Now(1) = True -> branch(2)
                      [] Now(1) = False -> branch(3)
                      [] OTHER -> IF overlaps(2) /\ overlaps(3) THEN <<>>
                                  ELSE IF overlaps(2) THEN cond(True) \o branch(2)
                                  ELSE IF overlaps(3) THEN cond(False) \o branch(3)
                                  ELSE cond(Empty)
           S == Seq(Calls(upcoming))
           d == witness[Argument(1)]
           AreSound(s) == s \in S /\ \A j \in DOMAIN s : CallIsSound(s[j])
<1>1. todo # <<>> /\ circuit[Target].op = "select" /\ Apply({"select"}, calls)
  BY DEF ApplyToSelect, Apply, Applying
<1>2. OperandCount(circuit[Target].op) = 3 /\ "select" \in Operations
  BY <1>1 DEF OperandCount, Arity, Sources, FeltUnaryOps, Operations
<1>3. \A i \in {1, 2, 3} :
        /\ WellFormed(Now(i)) /\ Argument(i) \in Nodes /\ circuit[Argument(i)].op \notin Constraints
        /\ Values(circuit, witness, Target)[i] = witness[Argument(i)]
        /\ witness[Argument(i)] \in Gamma(Now(i))
        /\ \A x : WellFormed(x) => <<Call(Argument(i), x)>> \in S
  <2>1. \A i \in {1, 2, 3} : i \in 1..OperandCount(circuit[Target].op)
    BY <1>2
  <2> QED
    BY <1>1, <2>1, TargetValue, OneCallTyped
<1>4. WellFormed(Given) /\ witness[Target] \in Gamma(Given) /\ Target \in Nodes
      /\ Executes(circuit, witness, Target)
  BY <1>1, TargetValue
<1>5. witness[Target] = IF d = 1 THEN witness[Argument(2)] ELSE witness[Argument(3)]
  BY <1>1, <1>2, <1>3, <1>4 DEF Executes, Result, Predicates, BoolOps
<1>6. d \in {0, 1}
  <2>1. circuit \in Circuits
    BY DEF IInv, TypeOK
  <2>2. circuit[Argument(1)].bit
    BY <1>1, <1>4, <2>1, TypingFacts DEF IsTyped, Argument
  <2> QED
    BY <1>3, <2>2, BitsAreBits
<1>7. d = 1 => overlaps(2) /\ AreSound(branch(2))
  <2> SUFFICES ASSUME d = 1 PROVE overlaps(2) /\ AreSound(branch(2))
    OBVIOUS
  <2>1. witness[Target] = witness[Argument(2)] /\ witness[Target] \in Gamma(Now(2))
    BY <1>3, <1>5
  <2>2. <<Now(2), Given>> \in Meets
    BY <1>1 DEF Meets, Predicates
  <2>3. witness[Target] \in Gamma(Intersect[<<Now(2), Given>>])
    BY <1>3, <1>4, <2>1, <2>2, MeetsAreSure, IntersectIsSound
  <2>4. overlaps(2)
    BY <2>3, Names
  <2>5. CallIsSound(Call(Argument(2), Given))
    BY <1>4, <2>1 DEF CallIsSound, Call
  <2>6. branch(2) \in S
    BY <1>3, <1>4
  <2> QED
    BY <2>4, <2>5, <2>6
<1>8. d = 0 => overlaps(3) /\ AreSound(branch(3))
  <2> SUFFICES ASSUME d = 0 PROVE overlaps(3) /\ AreSound(branch(3))
    OBVIOUS
  <2>1. witness[Target] = witness[Argument(3)] /\ witness[Target] \in Gamma(Now(3))
    BY <1>3, <1>5
  <2>2. <<Now(3), Given>> \in Meets
    BY <1>1 DEF Meets, Predicates
  <2>3. witness[Target] \in Gamma(Intersect[<<Now(3), Given>>])
    BY <1>3, <1>4, <2>1, <2>2, MeetsAreSure, IntersectIsSound
  <2>4. overlaps(3)
    BY <2>3, Names
  <2>5. CallIsSound(Call(Argument(3), Given))
    BY <1>4, <2>1 DEF CallIsSound, Call
  <2>6. branch(3) \in S
    BY <1>3, <1>4
  <2> QED
    BY <2>4, <2>5, <2>6
<1>9. /\ d = 1 => AreSound(cond(True)) /\ Now(1) # False
      /\ d = 0 => AreSound(cond(False)) /\ Now(1) # True
  <2>1. WellFormed(True) /\ WellFormed(False) /\ cond(True) \in S /\ cond(False) \in S
    BY <1>3, TruthValues
  <2>2. 1 \in Gamma(True) /\ 0 \in Gamma(False)
    BY TruthValues
  <2>3. d = 1 => CallIsSound(Call(Argument(1), True))
    BY <2>2 DEF CallIsSound, Call
  <2>4. d = 0 => CallIsSound(Call(Argument(1), False))
    BY <2>2 DEF CallIsSound, Call
  <2>5. 1 \notin Gamma(False) /\ 0 \notin Gamma(True)
    <3>1. 0 \in Felt /\ 1 \in Felt
      BY PrimeAssumption DEF Felt
    <3>2. Gamma(False) = {0} /\ Gamma(True) = {1}
      BY <3>1, Names DEF False, True
    <3> QED
      BY <3>2
  <2>6. d \in Gamma(Now(1))
    BY <1>3
  <2> QED
    BY <2>1, <2>3, <2>4, <2>5, <2>6
<1>10. AreSound(<<>>) /\ \A s, t : AreSound(s) /\ AreSound(t) => AreSound(s \o t)
  <2>1. AreSound(<<>>)
    BY NothingCalled
  <2>2. ASSUME NEW s, NEW t, AreSound(s), AreSound(t) PROVE AreSound(s \o t)
    <3>1. s \o t \in S
      <4> DEFINE C == Calls(upcoming)
      <4>1. s \in Seq(C) /\ t \in Seq(C)
        BY <2>2
      <4> HIDE DEF C
      <4>2. s \o t \in Seq(C)
        BY <4>1
      <4> QED
        BY <4>2 DEF C
    <3>2. \A j \in DOMAIN (s \o t) : CallIsSound((s \o t)[j])
      BY <2>2, CallsFollow
    <3> QED
      BY <3>1, <3>2
  <2> QED
    BY <2>1, <2>2
<1> HIDE DEF branch, cond, overlaps, AreSound, d
<1>11. AreSound(calls)
  BY <1>6, <1>7, <1>8, <1>9, <1>10
<1> HIDE DEF calls
<1>12. calls \in S /\ \A j \in DOMAIN calls : CallIsSound(calls[j])
  BY <1>11 DEF AreSound
<1> QED
  BY <1>1, <1>12, ApplyIsSound

(* The relation that a comparison's result tells. *)
Related(rel, v, w) ==
  /\ rel = "eq" => v = w
  /\ rel = "ne" => v # w
  /\ rel = "lt" => v < w
  /\ rel = "le" => v <= w
  /\ rel = "gt" => v > w
  /\ rel = "ge" => v >= w

LEMMA PartIsSound ==
  ASSUME NEW a \in Int, NEW b \in Int, NEW c \in Int, NEW d \in Int, NEW v \in a..b, NEW w \in c..d,
         v \in Felt
  PROVE  /\ v < w => v \in Gamma(ReduceTo[LTPart(<<a, b>>, <<c, d>>)])
         /\ v <= w => v \in Gamma(ReduceTo[LEPart(<<a, b>>, <<c, d>>)])
         /\ v > w => v \in Gamma(ReduceTo[GTPart(<<a, b>>, <<c, d>>)])
         /\ v >= w => v \in Gamma(ReduceTo[GEPart(<<a, b>>, <<c, d>>)])
<1>1. ~ IsNone(<<a, b>>) /\ ~ IsNone(<<c, d>>)
  BY DEF IsNone, Width
<1>2. /\ LTPart(<<a, b>>, <<c, d>>) = <<a, IF b <= d - 1 THEN b ELSE d - 1>>
      /\ LEPart(<<a, b>>, <<c, d>>) = <<a, IF b <= d THEN b ELSE d>>
      /\ GTPart(<<a, b>>, <<c, d>>) = <<IF a >= c + 1 THEN a ELSE c + 1, b>>
      /\ GEPart(<<a, b>>, <<c, d>>) = <<IF a >= c THEN a ELSE c, b>>
  <2>1. /\ LTPart(<<a, b>>, <<c, d>>) = <<a, Min({b, d - 1})>>
        /\ LEPart(<<a, b>>, <<c, d>>) = <<a, Min({b, d})>>
        /\ GTPart(<<a, b>>, <<c, d>>) = <<Max({a, c + 1}), b>>
        /\ GEPart(<<a, b>>, <<c, d>>) = <<Max({a, c}), b>>
    BY <1>1 DEF Part, LTPart, LEPart, GTPart, GEPart
  <2>2. /\ Min({b, d - 1}) = (IF b <= d - 1 THEN b ELSE d - 1)
        /\ Min({b, d}) = (IF b <= d THEN b ELSE d)
        /\ Max({a, c + 1}) = (IF a >= c + 1 THEN a ELSE c + 1)
        /\ Max({a, c}) = (IF a >= c THEN a ELSE c)
    <3>1. d - 1 \in Int /\ c + 1 \in Int
      OBVIOUS
    <3>2. Min({b, d - 1}) = IF b <= d - 1 THEN b ELSE d - 1
      BY <3>1, Pairs
    <3>3. Min({b, d}) = IF b <= d THEN b ELSE d
      BY Pairs
    <3>4. Max({a, c + 1}) = IF a >= c + 1 THEN a ELSE c + 1
      BY <3>1, Pairs
    <3>5. Max({a, c}) = IF a >= c THEN a ELSE c
      BY Pairs
    <3> QED
      BY <3>2, <3>3, <3>4, <3>5, Zenon
  <2> QED
    BY <2>1, <2>2
<1>3. \A l, r \in Int : v \in l..r => v \in Gamma(ReduceTo[<<l, r>>])
  <2>1. v % Prime = v
    BY FeltsAreReduced
  <2> QED
    BY <2>1, ReduceToIsSound
<1>4. v < w => v \in a..(IF b <= d - 1 THEN b ELSE d - 1)
  OBVIOUS
<1>5. v <= w => v \in a..(IF b <= d THEN b ELSE d)
  OBVIOUS
<1>6. v > w => v \in (IF a >= c + 1 THEN a ELSE c + 1)..b
  OBVIOUS
<1>7. v >= w => v \in (IF a >= c THEN a ELSE c)..b
  OBVIOUS
<1> QED
  BY <1>2, <1>3, <1>4, <1>5, <1>6, <1>7

LEMMA RestrictedIsSound ==
  ASSUME NEW rel \in {"eq", "ne", "lt", "gt"}, NEW x, NEW y, WellFormed(x), WellFormed(y),
         NEW v \in Gamma(x), NEW w \in Gamma(y), ~ FarPoint(x, y), ~ FarPoint(y, x),
         rel # "eq" => x.ty # "F" /\ y.ty # "F", Related(rel, v, w)
  PROVE  v \in Gamma(Restricted(rel, x, y)[1]) /\ w \in Gamma(Restricted(rel, x, y)[2])
<1>1. v \in Felt /\ w \in Felt
  BY ValuesAreFelts
<1>2. CASE rel = "eq"
  <2>1. v = w
    BY <1>2 DEF Related
  <2>2. v \in Gamma(Intersect[<<x, y>>]) /\ w \in Gamma(Intersect[<<x, y>>])
    BY <2>1, IntersectIsSound
  <2>3. Restricted(rel, x, y) = <<Intersect[<<x, y>>], Intersect[<<x, y>>]>>
    BY <1>2 DEF Restricted
  <2> QED
    BY <2>2, <2>3
<1>3. CASE rel = "ne"
  <2>1. v # w /\ x.ty # "F" /\ y.ty # "F"
    BY <1>3 DEF Related
  <2>2. x.ty = "Degenerate" => x = Degenerate(v) /\ w \in Gamma(Difference[<<y, x>>])
    BY <1>1, <2>1, PointRead, DifferenceIsSound
  <2>3. y.ty = "Degenerate" => y = Degenerate(w) /\ v \in Gamma(Difference[<<x, y>>])
    BY <1>1, <2>1, PointRead, DifferenceIsSound
  <2>4. ~ (x.ty = "Degenerate" /\ x = y)
    BY <2>1, OneValue
  <2>5. Restricted(rel, x, y) =
          IF x.ty = "Degenerate" THEN <<x, Difference[<<y, x>>]>>
          ELSE IF y.ty = "Degenerate" THEN <<Difference[<<x, y>>], y>> ELSE <<x, y>>
    BY <1>3, <2>4 DEF Restricted
  <2> QED
    BY <2>2, <2>3, <2>5
<1>4. CASE rel \in {"lt", "gt"}
  <2>1. PICK a \in Int, b \in Int : ToUnreduced(x) = <<a, b>> /\ v \in a..b
    BY <1>4, UnreducedReading
  <2>2. PICK c \in Int, d \in Int : ToUnreduced(y) = <<c, d>> /\ w \in c..d
    BY <1>4, UnreducedReading
  <2>3. /\ rel = "lt" => v < w /\ w >= v
        /\ rel = "gt" => v > w /\ w <= v
    <3>1. v \in Int /\ w \in Int
      BY <1>1, FeltsAreReduced
    <3> QED
      BY <3>1 DEF Related
  <2>4. /\ rel = "lt" => Restricted(rel, x, y) = <<ReduceTo[LTPart(<<a, b>>, <<c, d>>)],
                                                   ReduceTo[GEPart(<<c, d>>, <<a, b>>)]>>
        /\ rel = "gt" => Restricted(rel, x, y) = <<ReduceTo[GTPart(<<a, b>>, <<c, d>>)],
                                                   ReduceTo[LEPart(<<c, d>>, <<a, b>>)]>>
    BY <2>1, <2>2, Zenon DEF Restricted
  <2>5. /\ v < w => v \in Gamma(ReduceTo[LTPart(<<a, b>>, <<c, d>>)])
        /\ v > w => v \in Gamma(ReduceTo[GTPart(<<a, b>>, <<c, d>>)])
        /\ w >= v => w \in Gamma(ReduceTo[GEPart(<<c, d>>, <<a, b>>)])
        /\ w <= v => w \in Gamma(ReduceTo[LEPart(<<c, d>>, <<a, b>>)])
    BY <1>1, <2>1, <2>2, PartIsSound
  <2> QED
    BY <1>4, <2>3, <2>4, <2>5
<1> QED
  BY <1>2, <1>3, <1>4

LEMMA CmpIsSound == IInv /\ Sound /\ ApplyToCmp /\ ~ DoubtfulApply => Sound'
<1> SUFFICES ASSUME IInv, Sound, ApplyToCmp, ~ DoubtfulApply PROVE Sound'
  OBVIOUS
<1> DEFINE op == circuit[Target].op
           rel == Relation(op, Given)
           new == Restricted(rel, Now(1), Now(2))
           calls == IF Given.ty = "Degenerate" THEN Both(new[1], new[2]) ELSE <<>>
           v == witness[Argument(1)]
           w == witness[Argument(2)]
<1>1. /\ todo # <<>> /\ op \in Predicates /\ Apply(Predicates, calls)
      /\ Given = Empty \/ IsBoolean(Given)
  BY DEF ApplyToCmp, Apply, Applying
<1>2. /\ OperandCount(op) = 2 /\ WellFormed(Now(1)) /\ WellFormed(Now(2)) /\ WellFormed(Given)
      /\ v \in Gamma(Now(1)) /\ w \in Gamma(Now(2)) /\ v \in Felt /\ w \in Felt
      /\ witness[Target] \in Gamma(Given)
      /\ witness[Target] = FromBool(Related(op, v, w))
  <2>1. Result(op, Values(circuit, witness, Target)) = FromBool(Related(op, v, w))
    <3>1. /\ Values(circuit, witness, Target)[1] = v /\ Values(circuit, witness, Target)[2] = w
          /\ v \in Int /\ w \in Int
      BY <1>1, TwoOperands, FeltsAreReduced
    <3>2. /\ op = "eq" => Result(op, Values(circuit, witness, Target)) = FromBool(v = w)
          /\ op = "ne" => Result(op, Values(circuit, witness, Target)) = FromBool(v # w)
          /\ op = "lt" => Result(op, Values(circuit, witness, Target)) = FromBool(v < w)
          /\ op = "le" => Result(op, Values(circuit, witness, Target)) = FromBool(v <= w)
          /\ op = "gt" => Result(op, Values(circuit, witness, Target)) = FromBool(v > w)
          /\ op = "ge" => Result(op, Values(circuit, witness, Target)) = FromBool(v >= w)
      BY <3>1 DEF Result
    <3>3. /\ op = "eq" => (Related(op, v, w) <=> v = w)
          /\ op = "ne" => (Related(op, v, w) <=> v # w)
          /\ op = "lt" => (Related(op, v, w) <=> v < w)
          /\ op = "le" => (Related(op, v, w) <=> v <= w)
          /\ op = "gt" => (Related(op, v, w) <=> v > w)
          /\ op = "ge" => (Related(op, v, w) <=> v >= w)
      BY DEF Related
    <3>4. op \in {"eq", "ne", "lt", "le", "gt", "ge"}
      BY <1>1 DEF Predicates
    <3> HIDE DEF op, v, w
    <3> QED
      BY <3>2, <3>3, <3>4 DEF FromBool
  <2> QED
    BY <1>1, <2>1, TwoOperands
<1>3. rel \in Predicates
  BY <1>1 DEF Relation, Opposite, Predicates
<1>4. Given.ty = "Degenerate" =>
        v \in Gamma(new[1]) /\ w \in Gamma(new[2]) /\ WellFormed(new[1]) /\ WellFormed(new[2])
  <2> SUFFICES ASSUME Given.ty = "Degenerate"
               PROVE  v \in Gamma(new[1]) /\ w \in Gamma(new[2])
    BY <1>2, <1>3, RestrictedTyped
  <2>1. Given \in {False, True}
    BY <1>1 DEF IsBoolean, Boolean, Empty, Interval
  <2>2. Given = IF witness[Target] = 1 THEN True ELSE False
    <3>1. 0 \in Felt /\ 1 \in Felt
      BY PrimeAssumption DEF Felt
    <3>2. Gamma(False) = {0} /\ Gamma(True) = {1}
      BY <3>1, Names DEF False, True
    <3> QED
      BY <1>2, <2>1, <3>2
  <2>3. True # False
    BY PrimeAssumption, Names DEF True, False, Felt
  <2>4. Related(rel, v, w)
    <3>1. Related(op, v, w) <=> Given = True
      BY <1>2, <2>2, <2>3 DEF FromBool
    <3>2. v \in Int /\ w \in Int
      BY <1>2, FeltsAreReduced
    <3>3. CASE Given = True
      BY <3>1, <3>3 DEF Relation
    <3>4. CASE Given # True
      <4>1. rel = Opposite[op] /\ ~ Related(op, v, w)
        BY <3>1, <3>4 DEF Relation
      <4>2. /\ Opposite["eq"] = "ne" /\ Opposite["ne"] = "eq" /\ Opposite["lt"] = "ge"
            /\ Opposite["ge"] = "lt" /\ Opposite["le"] = "gt" /\ Opposite["gt"] = "le"
        BY DEF Opposite
      <4>3. op \in {"eq", "ne", "lt", "le", "gt", "ge"}
        BY <1>1 DEF Predicates
      <4> HIDE DEF op, rel, v, w
      <4> QED
        BY <3>2, <4>1, <4>2, <4>3 DEF Related
    <3> QED
      BY <3>3, <3>4
  <2>5. rel \notin {"le", "ge"} /\ (rel # "eq" => Now(1).ty # "F" /\ Now(2).ty # "F")
    BY <1>1 DEF DoubtfulApply, Types2
  <2>6. ~ FarPoint(Now(1), Now(2)) /\ ~ FarPoint(Now(2), Now(1))
    <3>1. <<Now(1), Now(2)>> \in Meets
      BY <1>1 DEF Meets, Predicates
    <3> QED
      BY <3>1, MeetsAreSure
  <2>7. rel \in {"eq", "ne", "lt", "gt"}
    BY <1>3, <2>5 DEF Predicates
  <2> HIDE DEF rel
  <2> QED
    BY <1>2, <2>4, <2>5, <2>6, <2>7, RestrictedIsSound
<1> HIDE DEF new
<1>5. calls \in Seq(Calls(upcoming)) /\ \A j \in DOMAIN calls : CallIsSound(calls[j])
  BY <1>1, <1>2, <1>4, BothTyped, BothAreSound, NothingCalled
<1> HIDE DEF calls
<1> QED
  BY <1>1, <1>5, ApplyIsSound

LEMMA AbortIsSound == Sound /\ Abort => Sound'
BY DEF Sound, Abort, IsSet, Nodes

LEMMA StutterIsSound == Sound /\ UNCHANGED vars => Sound'
BY DEF Sound, vars, IsSet, Nodes

LEMMA FirstVisitIsSound ==
  IInv /\ Sound /\ FirstVisit => Sound' \/ (todo = <<>> /\ DoubtfulVisit(upcoming) /\ upcoming \in Nodes)
<1> SUFFICES ASSUME IInv, Sound, FirstVisit
             PROVE  Sound' \/ (todo = <<>> /\ DoubtfulVisit(upcoming) /\ upcoming \in Nodes)
  OBVIOUS
<1>1. upcoming \in Nodes /\ Visit(upcoming, pending) /\ todo = <<>>
  BY DEF FirstVisit, Visit
<1>2. upcoming <= upcoming
  BY <1>1, CircuitFacts DEF IInv, TypeOK
<1> QED
  BY <1>1, <1>2, VisitIsSound DEF IInv, TypeOK

(* What is taken from the queue has no use of its own result. *)
LEMMA TakenFromQueue ==
  ASSUME IInv, NEW n \in Nodes, Revisit(n)
  PROVE  pending'[n] < pending[n]
<1> DEFINE queue == [pending EXCEPT ![n] = @ - 1]
<1>1. queue \in [Nodes -> Nat] /\ Visit(n, queue) /\ pending \in [Nodes -> Nat]
  BY RevisitFacts DEF IInv, TypeOK
<1>2. queue[n] = pending[n] - 1 /\ queue[n] < pending[n]
  BY <1>1
<1>3. Uses(n, n) = 0
  <2>1. \A i \in DOMAIN circuit[n].args : circuit[n].args[i] # n
    <3>1. circuit \in Circuits
      BY DEF IInv, TypeOK
    <3>2. Nodes = 1..Len(circuit) /\ Len(circuit) \in Nat /\ DOMAIN circuit[n].args = 1..OperandCount(circuit[n].op)
      BY <3>1, CircuitFacts
    <3>3. \A i \in DOMAIN circuit[n].args : circuit[n].args[i] \in Nodes /\ circuit[n].args[i] < n
      BY <3>1, <3>2, CircuitFacts
    <3> QED
      BY <3>2, <3>3
  <2>2. {i \in DOMAIN circuit[n].args : circuit[n].args[i] = n} = {}
    BY <2>1
  <2> QED
    BY <2>2, FS_EmptySet DEF Uses
<1> HIDE DEF queue
<1>4. pending' = queue \/ pending' = [m \in Nodes |-> queue[m] + Uses(n, m)]
  BY <1>1 DEF Visit, VisitSource, VisitOperation, VisitCast, VisitEmitEq, VisitAssert, SetValue
<1> QED
  BY <1>1, <1>2, <1>3, <1>4

LEMMA RevisitIsSound ==
  ASSUME IInv, Sound, NEW n \in Nodes, Revisit(n)
  PROVE  Sound' \/ (todo = <<>> /\ pending'[n] < pending[n] /\ DoubtfulVisit(n))
<1> DEFINE queue == [pending EXCEPT ![n] = @ - 1]
<1>1. queue \in [Nodes -> Nat] /\ Visit(n, queue) /\ n < upcoming /\ todo = <<>>
      /\ \A m \in Nodes : Known(m) => queue[m] = 0
  BY RevisitFacts DEF Visit
<1>2. n <= upcoming
  BY <1>1, CircuitFacts DEF IInv, TypeOK
<1> HIDE DEF queue
<1> QED
  BY <1>1, <1>2, TakenFromQueue, VisitIsSound

LEMMA StepIsSound ==
  IInv /\ Sound /\ [Next]_vars =>
    \/ Sound'
    \/ todo # <<>> /\ DoubtfulApply
    \/ /\ todo = <<>>
       /\ \E n \in Nodes : (n = upcoming \/ pending'[n] < pending[n]) /\ DoubtfulVisit(n)
<1> SUFFICES ASSUME IInv, Sound, [Next]_vars, ~ Sound'
             PROVE  \/ todo # <<>> /\ DoubtfulApply
                    \/ /\ todo = <<>>
                       /\ \E n \in Nodes : (n = upcoming \/ pending'[n] < pending[n]) /\ DoubtfulVisit(n)
  OBVIOUS
<1>1. ApplyToLeaf \/ ApplyToCast \/ ApplyToAdd \/ ApplyToSub \/ ApplyToMul \/ ApplyToSelect \/ ApplyToCmp
      => todo # <<>>
  BY DEF ApplyToLeaf, ApplyToCast, ApplyToAdd, ApplyToSub, ApplyToMul, ApplyToSelect, ApplyToCmp,
         Apply, Applying
<1>2. CASE ApplyToLeaf \/ ApplyToCast \/ ApplyToAdd \/ ApplyToSub \/ ApplyToMul \/ ApplyToSelect \/ ApplyToCmp
  BY <1>1, <1>2, LeafIsSound, CastIsSound, AddIsSound, SubIsSound, MulIsSound, SelectIsSound, CmpIsSound
<1>3. CASE FirstVisit
  BY <1>3, FirstVisitIsSound
<1>4. CASE \E n \in Nodes : Revisit(n)
  BY <1>4, RevisitIsSound
<1>5. CASE Abort \/ UNCHANGED vars
  BY <1>5, AbortIsSound, StutterIsSound
<1> QED
  BY <1>2, <1>3, <1>4, <1>5 DEF Next

(* Whatever circuit is analysed, over whatever field and in whatever order the *)
(* queue is served: the intervals of an execution that meets the constraints   *)
(* keep its values through every visit and every call of applyInterval, except *)
(* a step one of whose operands is among those the code is not right about.    *)
THEOREM SoundnessIsKept == Spec => StaysSound
<1>1. IInv /\ [Next]_vars =>
        [Sound => \/ Sound'
                  \/ todo # <<>> /\ DoubtfulApply
                  \/ /\ todo = <<>>
                     /\ \E n \in Nodes : (n = upcoming \/ pending'[n] < pending[n]) /\ DoubtfulVisit(n)]_vars
  BY StepIsSound
<1> QED
  BY <1>1, Invariant, PTL DEF Spec, StaysSound

-----------------------------------------------------------------------------
(*----------------------------- truth values ------------------------------*)
IsTruth(x) == IsBoolean(x) \/ x = Empty

LEMMA TruthsAreSmall ==
  ASSUME NEW x, IsTruth(x)
  PROVE  WellFormed(x) /\ Gamma(x) \subseteq {0, 1} /\ x.ty \in {"Empty", "Degenerate", "A"}
<1>1. 0 \in Felt /\ 1 \in Felt /\ 0 % Prime = 0 /\ 1 % Prime = 1
  BY PrimeAssumption, FeltsAreReduced DEF Felt
<1>2. CASE x \in {False, True, Empty}
  BY <1>1, <1>2, Names DEF False, True
<1>3. CASE x = Boolean
  <2>1. Boolean = [ty |-> "A", a |-> 0, b |-> 1] /\ WellFormed(Boolean)
    BY <1>1, TruthValues DEF Boolean, Interval
  <2>2. \A v \in Felt : 0 <= v /\ v <= 1 => v \in {0, 1}
    BY DEF Felt
  <2> QED
    BY <1>3, <2>1, <2>2 DEF Gamma
<1> QED
  BY <1>2, <1>3 DEF IsTruth, IsBoolean

(* An interval without other values than 0 and 1 is boolean or empty. *)
LEMMA SmallIsTruth ==
  ASSUME NEW x, WellFormed(x), Gamma(x) \subseteq {0, 1}
  PROVE  IsTruth(x)
<1>1. x \in IntervalType /\ x.ty \in Types /\ x = [ty |-> x.ty, a |-> x.a, b |-> x.b]
  BY Typed DEF IntervalType
<1>2. 0 \in Felt /\ 1 \in Felt /\ 2 \in Felt /\ 0 % Prime = 0 /\ 1 % Prime = 1 /\ 2 <= Half
  BY PrimeAssumption, Halves, FeltsAreReduced DEF Felt
<1>3. CASE x.ty \in {"Empty", "Entire"}
  <2>1. x.a = 0 /\ x.b = 0
    BY <1>3 DEF WellFormed
  <2>2. x = Empty \/ x = Entire
    BY <1>1, <1>3, <2>1, Names
  <2> QED
    BY <1>2, <2>2, Names DEF IsTruth
<1>4. CASE x.ty \in {"A", "B", "C", "Degenerate"}
  <2>1. x.a \in Felt /\ x.b \in Felt /\ x.a \in Int /\ x.b \in Int
    BY <1>1, <1>4, WithinBounds
  <2>2. x.a <= x.b
    BY <1>4, <2>1, Halves DEF WellFormed
  <2>3. x.a \in Gamma(x) /\ x.b \in Gamma(x)
    BY <1>4, <2>1, <2>2 DEF Gamma
  <2>4. x.a \in {0, 1} /\ x.b \in {0, 1} /\ x.b < Half
    BY <1>2, <2>3, Halves
  <2>5. x.ty \in {"A", "Degenerate"}
    BY <1>4, <2>4, Halves DEF WellFormed
  <2>6. CASE x.ty = "A"
    <3>1. x.a = 0 /\ x.b = 1
      BY <2>4, <2>6 DEF WellFormed
    <3> QED
      BY <1>1, <1>2, <2>6, <3>1 DEF IsTruth, IsBoolean, Boolean, Interval
  <2>7. CASE x.ty = "Degenerate"
    <3>1. x.a = x.b
      BY <2>7 DEF WellFormed
    <3> QED
      BY <1>1, <1>2, <2>4, <2>7, <3>1, Names DEF IsTruth, IsBoolean, False, True
  <2> QED
    BY <2>5, <2>6, <2>7
<1>5. CASE x.ty = "F"
  <2>1. x.a \in Gamma(x) /\ x.a >= Half /\ x.a \in Int
    BY <1>5, AcrossZero, Halves DEF Gamma, WellFormed
  <2> QED
    BY <1>2, <2>1, Halves
<1> QED
  BY <1>1, <1>3, <1>4, <1>5 DEF Types

LEMMA MeetOfTruth ==
  ASSUME NEW x, NEW y, WellFormed(x), WellFormed(y), IsTruth(x) \/ IsTruth(y)
  PROVE  IsTruth(Intersect[<<x, y>>])
<1>1. {x.ty, y.ty} # {"C", "F"}
  BY TruthsAreSmall
<1>2. WellFormed(Intersect[<<x, y>>]) /\ Gamma(Intersect[<<x, y>>]) \subseteq Gamma(x) \cap Gamma(y)
  BY <1>1, IntersectCases, IntersectNarrows
<1> QED
  BY <1>2, TruthsAreSmall, SmallIsTruth

LEMMA TruthsJoined ==
  ASSUME NEW x, NEW y, IsTruth(x), IsTruth(y)
  PROVE  IsTruth(Join[<<x, y>>])
<1>1. 0 \in Felt /\ 1 \in Felt /\ 0 % Prime = 0 /\ 1 % Prime = 1 /\ 1 < Half /\ Prime > 2 /\ Prime \in Nat
  BY PrimeAssumption, FeltsAreReduced, Halves DEF Felt
<1>2. /\ Boolean = [ty |-> "A", a |-> 0, b |-> 1] /\ False = [ty |-> "Degenerate", a |-> 0, b |-> 0]
      /\ True = [ty |-> "Degenerate", a |-> 1, b |-> 1] /\ Empty = [ty |-> "Empty", a |-> 0, b |-> 0]
  BY <1>1, Names DEF Boolean, Interval, False, True
<1>3. x \in IntervalType /\ y \in IntervalType /\ x \in {False, True, Boolean, Empty} /\ y \in {False, True, Boolean, Empty}
  BY TruthsAreSmall, Typed DEF IsTruth, IsBoolean
<1>4. CASE x = Empty \/ y = Empty
  <2>1. Join[<<x, y>>] \in {x, y}
    BY <1>2, <1>3, <1>4 DEF Join
  <2> QED
    BY <2>1
<1>5. CASE x = Boolean /\ y = Boolean
  <2>1. Join[<<x, y>>] = JoinRanges(x, y)
    BY <1>2, <1>3, <1>5 DEF Join, InOrder, IsOneOf, SameSide
  <2>2. JoinRanges(x, y) = Interval("A", Min({0, 0}), Max({1, 1}))
    BY <1>2, <1>5 DEF JoinRanges, IsOneOf, SameSide
  <2>3. Min({0, 0}) = 0 /\ Max({1, 1}) = 1
    BY Pairs
  <2> QED
    BY <2>1, <2>2, <2>3 DEF IsTruth, IsBoolean, Boolean
<1>6. CASE x # Empty /\ y # Empty /\ ~ (x = Boolean /\ y = Boolean)
  <2>1. Join[<<x, y>>] = ReduceTo[Hull(ToUnreduced(x), ToUnreduced(y))]
    BY <1>2, <1>3, <1>6 DEF Join
  <2>2. ToUnreduced(x) = <<x.a, x.b>> /\ ToUnreduced(y) = <<y.a, y.b>>
    BY <1>2, <1>3, <1>6 DEF ToUnreduced
  <2>3. x.a \in {0, 1} /\ x.b \in {0, 1} /\ x.a <= x.b /\ y.a \in {0, 1} /\ y.b \in {0, 1} /\ y.a <= y.b
    BY <1>2, <1>3, <1>6
  <2>4. \E l, r \in {0, 1} : l <= r /\ Hull(ToUnreduced(x), ToUnreduced(y)) = <<l, r>>
    <3>1. Hull(<<x.a, x.b>>, <<y.a, y.b>>) = <<Min({x.a, y.a}), Max({x.b, y.b})>>
      BY DEF Hull
    <3>2. /\ Min({x.a, y.a}) = (IF x.a <= y.a THEN x.a ELSE y.a)
          /\ Max({x.b, y.b}) = (IF x.b >= y.b THEN x.b ELSE y.b)
      <4>1. x.a \in Int /\ x.b \in Int /\ y.a \in Int /\ y.b \in Int
        BY <2>3
      <4> QED
        BY <4>1, Pairs
    <3> QED
      BY <2>2, <2>3, <3>1, <3>2
  <2>5. ASSUME NEW l \in {0, 1}, NEW r \in {0, 1}, l <= r PROVE IsTruth(ReduceTo[<<l, r>>])
    <3>1. ReduceTo[<<l, r>>] = IF l = r THEN Degenerate(l) ELSE Interval("A", l, r)
      <4>1. <<l, r>> \in Int \X Int /\ l % Prime = l /\ r % Prime = r /\ ~ IsNone(<<l, r>>) /\ Width(<<l, r>>) < Prime
            /\ Width(<<l, r>>) \in Int
        BY <1>1, <2>5 DEF IsNone, Width
      <4> DEFINE p == l % Prime
                 q == r % Prime
      <4>2. ReduceTo[<<l, r>>] =
              CASE p = q -> Degenerate(p)
                [] p < q /\ q < Half -> Interval("A", p, q)
                [] p < q /\ p < Half /\ q >= Half -> Interval("C", p, q)
                [] p < q /\ p >= Half -> Interval("B", p, q)
                [] p > q /\ p >= Half /\ q < Half -> Interval("F", p, q)
                [] OTHER -> Entire
        BY <1>1, <4>1 DEF ReduceTo
      <4>5. p = l /\ q = r
        BY <4>1
      <4> HIDE DEF p, q
      <4>3. CASE l = r
        BY <4>2, <4>3, <4>5
      <4>4. CASE l # r
        <5>1. l < r /\ r < Half
          BY <1>1, <2>5, <4>4
        <5>2. p # q /\ p < q /\ q < Half /\ ~ (q >= Half) /\ ~ (p >= Half) /\ ~ (p > q)
          BY <1>1, <2>5, <4>4, <4>5, <5>1, Halves
        <5>3. ReduceTo[<<l, r>>] = Interval("A", p, q)
          BY <4>2, <5>2
        <5> QED
          BY <4>4, <4>5, <5>3
      <4> QED
        BY <4>3, <4>4
    <3> QED
      BY <2>5, <3>1 DEF IsTruth, IsBoolean, Boolean, False, True
  <2> QED
    BY <2>1, <2>4, <2>5
<1> QED
  BY <1>4, <1>5, <1>6

(* What holds the values of a boolean, directly or through casts. *)
BitLike ==
  {n \in Nodes : \A S \in SUBSET Nodes :
     (\A m \in Nodes : circuit[m].bit \/ (circuit[m].op = "cast" /\ circuit[m].args[1] \in S) => m \in S)
     => n \in S}

LEMMA BitLikeIs ==
  \A n \in Nodes : n \in BitLike <=> circuit[n].bit \/ (circuit[n].op = "cast" /\ circuit[n].args[1] \in BitLike)
<1> DEFINE Closed(S) == \A m \in Nodes : circuit[m].bit \/ (circuit[m].op = "cast" /\ circuit[m].args[1] \in S) => m \in S
<1>1. ASSUME NEW S \in SUBSET Nodes, Closed(S) PROVE BitLike \subseteq S
  BY <1>1 DEF BitLike
<1>2. ASSUME NEW n \in Nodes, circuit[n].bit \/ (circuit[n].op = "cast" /\ circuit[n].args[1] \in BitLike)
      PROVE  n \in BitLike
  <2>1. ASSUME NEW S \in SUBSET Nodes, Closed(S) PROVE n \in S
    BY <1>1, <1>2, <2>1
  <2> QED
    BY <2>1 DEF BitLike
<1>3. ASSUME NEW n \in BitLike PROVE circuit[n].bit \/ (circuit[n].op = "cast" /\ circuit[n].args[1] \in BitLike)
  <2> DEFINE S == {m \in BitLike : circuit[m].bit \/ (circuit[m].op = "cast" /\ circuit[m].args[1] \in BitLike)}
  <2>1. S \subseteq BitLike /\ S \in SUBSET Nodes
    BY DEF BitLike
  <2>2. Closed(S)
    BY <1>2, <2>1
  <2> HIDE DEF Closed
  <2> QED
    BY <1>1, <2>1, <2>2
<1> QED
  BY <1>2, <1>3 DEF BitLike

(* What a boolean operation computes of boolean operands. *)
LEMMA TransferOfBits ==
  ASSUME IInv, NEW n \in Nodes, n <= upcoming, circuit[n].bit, circuit[n].op \in Operations, ~Rejected(n),
         \A m \in BitLike : IsSet(m) => IsTruth(lattice[m])
  PROVE  IsTruth(Transfer(circuit[n].op, Operands(n)))
<1> DEFINE op == circuit[n].op
           X == Operands(n)
<1>1. circuit \in Circuits
  BY DEF IInv
<1>2. IsTyped(circuit, n) /\ OperandCount(op) = Arity(op) /\ DOMAIN circuit[n].args = 1..Arity(op)
  BY <1>1, TypingFacts, OperandCounts, CircuitFacts
<1>3. op \in Predicates \cup BoolOps \cup {"not", "select"}
  BY <1>2 DEF IsTyped, Operations
<1>4. \A i \in 1..Arity(op) : /\ WellFormed(X[i]) /\ circuit[n].args[i] \in Nodes
                              /\ circuit[circuit[n].args[i]].bit => IsTruth(X[i])
  <2> TAKE i \in 1..Arity(op)
  <2> DEFINE m == circuit[n].args[i]
  <2>1. m \in Nodes /\ IsSet(m) /\ WellFormed(lattice[m]) /\ X[i] = lattice[m]
    BY <1>2, OperandFacts
  <2>2. circuit[m].bit => m \in BitLike
    BY <2>1, BitLikeIs
  <2> QED
    BY <2>1, <2>2
<1>5. CASE op \in Predicates
  <2>1. Transfer(op, X) = Compare(op, X[1], X[2])
    <3> HIDE DEF op, X
    <3> QED
      BY <1>5 DEF Transfer, Predicates, BoolOps
  <2>2. Compare(op, X[1], X[2]) \in {True, False, Boolean}
    BY <1>5 DEF Compare, Predicates
  <2> QED
    BY <2>1, <2>2 DEF IsTruth, IsBoolean
<1>6. CASE op \in BoolOps \cup {"not"}
  <2>1. \A i \in 1..Arity(op) : IsBoolean(X[i])
    BY <1>2, <1>6 DEF Rejected
  <2>2. \A i \in 1..Arity(op) : Gamma(X[i]) \subseteq {0, 1}
    BY <2>1, TruthsAreSmall DEF IsTruth
  <2>3. CASE op \in BoolOps
    <3>1. 1 \in 1..Arity(op) /\ 2 \in 1..Arity(op)
      BY <2>3 DEF Arity, BoolOps, FeltUnaryOps
    <3>2. \A V \in Gamma(X[1]) \X Gamma(X[2]) : Result(op, V) \in {0, 1}
      <4> SUFFICES ASSUME NEW v \in {0, 1}, NEW w \in {0, 1}
                   PROVE  Result(op, <<v, w>>) \in {0, 1}
        BY <2>2, <3>1
      <4>1. Max({v, w}) \in {0, 1}
        BY Pairs
      <4>2. Result(op, <<v, w>>) = IF op = "and" THEN v * w ELSE IF op = "or" THEN Max({v, w})
                                   ELSE FromBool(v # w)
        BY <2>3 DEF Result, BoolOps
      <4> QED
        BY <4>1, <4>2 DEF FromBool
    <3>4. Transfer(op, X) = BoolResult(op, Gamma(X[1]) \X Gamma(X[2]))
      BY <2>3 DEF Transfer, Predicates, BoolOps
    <3> HIDE DEF op, X
    <3>5. IsTruth(Transfer(op, X))
      BY <3>2, <3>4, BoolResultTyped DEF IsTruth, IsBoolean
    <3> QED
      BY <3>5 DEF op, X
  <2>4. CASE op = "not"
    <3>1. 1 \in 1..Arity(op)
      BY <2>4 DEF Arity
    <3>2. \A v \in Gamma(X[1]) : v \in {0, 1}
      BY <2>2, <3>1
    <3>3. \A v \in {0, 1} : Result(op, <<v>>) \in {0, 1}
      BY <2>4 DEF Result, Predicates
    <3>4. Transfer(op, X) = BoolResult(op, {<<v>> : v \in Gamma(X[1])})
      BY <2>4 DEF Transfer, Predicates, BoolOps
    <3> HIDE DEF op, X
    <3>5. \A V \in {<<v>> : v \in Gamma(X[1])} : Result(op, V) \in {0, 1}
      BY <3>2, <3>3
    <3>6. IsTruth(Transfer(op, X))
      BY <3>4, <3>5, BoolResultTyped DEF IsTruth, IsBoolean
    <3> QED
      BY <3>6 DEF op, X
  <2> QED
    BY <1>6, <2>3, <2>4
<1>7. CASE op = "select"
  <2>1. 1 \in 1..Arity(op) /\ 2 \in 1..Arity(op) /\ 3 \in 1..Arity(op)
    BY <1>7 DEF Arity, FeltUnaryOps
  <2>2. circuit[circuit[n].args[2]].bit /\ circuit[circuit[n].args[3]].bit
    BY <1>2, <1>7 DEF IsTyped
  <2>3. IsTruth(X[2]) /\ IsTruth(X[3])
    BY <1>4, <2>1, <2>2
  <2>4. Transfer(op, X) = SelectValue(X[1], X[2], X[3])
    BY <1>7 DEF Transfer, Predicates, BoolOps
  <2> HIDE DEF op, X
  <2>5. SelectValue(X[1], X[2], X[3]) \in {Empty, X[2], X[3], Join[<<X[2], X[3]>>]}
    BY DEF SelectValue
  <2>6. IsTruth(Transfer(op, X))
    BY <2>3, <2>4, <2>5, TruthsJoined DEF IsTruth
  <2> QED
    BY <2>6 DEF op, X
<1> QED
  BY <1>3, <1>5, <1>6, <1>7

Truthful(c) == c.value \in BitLike /\ circuit[c.value].op \in Operations => IsTruth(c.interval)

(* Intervals of booleans, directly or through casts, are boolean or empty, and  *)
(* so is what is passed down to them, unless a cast is scaled or selected; with *)
(* boolean operands, an ensure only fails where nothing is left of a value.     *)
EInv ==
  /\ \A n \in BitLike : IsSet(n) => IsTruth(lattice[n])
  /\ Rescaled \/ \A i \in DOMAIN todo : Truthful(todo[i])
  /\ aborted => Rescaled \/ \E n \in Nodes : lattice[n] = Empty

LEMMA EInvAfter ==
  ASSUME IInv, EInv, circuit' = circuit, aborted' = aborted, ~aborted, NEW n \in Nodes, NEW x,
         lattice' = [lattice EXCEPT ![n] = x] \/ lattice' = lattice,
         lattice' # lattice /\ n \in BitLike => IsTruth(x),
         Rescaled \/ \A i \in DOMAIN todo' : Truthful(todo'[i])
  PROVE  EInv'
<1>1. BitLike' = BitLike /\ Rescaled' = Rescaled
  BY DEF BitLike, Rescaled, Nodes
<1>2. \A m \in BitLike : lattice'[m] # Unset => IsTruth(lattice'[m])
  <2> TAKE m \in BitLike
  <2>1. lattice \in [Nodes -> IntervalType \cup {Unset}] /\ m \in Nodes
    BY DEF IInv, TypeOK, BitLike
  <2>2. lattice[m] # Unset => IsTruth(lattice[m])
    BY DEF EInv, IsSet
  <2>3. CASE lattice' = lattice
    BY <2>2, <2>3
  <2>4. CASE lattice' # lattice
    <3>1. lattice'[m] = IF m = n THEN x ELSE lattice[m]
      BY <2>1, <2>4
    <3> QED
      BY <2>2, <2>4, <3>1
  <2> QED
    BY <2>3, <2>4
<1>3. Rescaled \/ \A i \in DOMAIN todo' :
        todo'[i].value \in BitLike' /\ circuit'[todo'[i].value].op \in Operations => IsTruth(todo'[i].interval)
  BY <1>1 DEF Truthful
<1> QED
  BY <1>1, <1>2, <1>3 DEF EInv, IsSet, Truthful

(* The bounds found from the roots of a product go to inputs. *)
LEMMA DecompositionTruthful ==
  ASSUME IInv, NEW l \in Nodes, NEW r \in Nodes, NEW i \in DOMAIN Decomposition(l, r)
  PROVE  Truthful(Decomposition(l, r)[i])
<1> DEFINE n == IF IsZero(l) THEN r ELSE l
           R == Roots(n)
           signals == {root[1] : root \in R}
           consts == {root[2] : root \in R}
           s == CHOOSE s \in signals : TRUE
           c == Call(s, ReduceTo[Corners(consts)])
<1>1. circuit \in Circuits
  BY DEF IInv
<1>2. Cardinality(signals) = 1 /\ Decomposition(l, r) = <<c>>
  <2>1. Decomposition(l, r) = IF IsZero(l) # IsZero(r) /\ Cardinality(signals) = 1 THEN <<c>> ELSE <<>>
    BY Zenon DEF Decomposition
  <2> HIDE DEF signals, c
  <2> QED
    BY <2>1
<1>3. s \in signals
  <2>1. signals # {}
    BY <1>2, FS_EmptySet
  <2> HIDE DEF signals
  <2> QED
    BY <2>1
<1>4. circuit[s].op = "input"
  <2>1. n \in Nodes
    OBVIOUS
  <2>2. \A root \in R : circuit[root[1]].op = "input"
    BY <1>1, <2>1, RootsTyped
  <2> QED
    BY <1>3, <2>2
<1>5. "input" \notin Operations
  BY DEF Operations, FeltOps, Divisions, FeltUnaryOps, Predicates, BoolOps
<1> HIDE DEF s
<1>6. Decomposition(l, r)[i] = c /\ c.value = s
  BY <1>2 DEF Call
<1> HIDE DEF c
<1> QED
  BY <1>4, <1>5, <1>6 DEF Truthful

LEMMA TruthfulFollow ==
  ASSUME NEW S, NEW s \in Seq(S), NEW t \in Seq(S),
         \A i \in DOMAIN s : Truthful(s[i]), \A i \in DOMAIN t : Truthful(t[i])
  PROVE  \A i \in DOMAIN (s \o t) : Truthful((s \o t)[i])
<1>1. /\ s \o t \in Seq(S) /\ Len(s \o t) = Len(s) + Len(t)
      /\ \A i \in 1..(Len(s) + Len(t)) : (s \o t)[i] = IF i <= Len(s) THEN s[i] ELSE t[i - Len(s)]
  BY ConcatProperties
<1>2. /\ Len(s) \in Nat /\ DOMAIN s = 1..Len(s) /\ Len(t) \in Nat /\ DOMAIN t = 1..Len(t)
      /\ DOMAIN (s \o t) = 1..(Len(s) + Len(t))
  BY <1>1
<1> TAKE i \in DOMAIN (s \o t)
<1>3. i \in 1..(Len(s) + Len(t))
  BY <1>2
<1>4. CASE i <= Len(s)
  <2>1. i \in DOMAIN s
    BY <1>2, <1>3, <1>4
  <2> QED
    BY <1>1, <1>3, <1>4, <2>1
<1>5. CASE ~ (i <= Len(s))
  <2>1. i - Len(s) \in DOMAIN t
    BY <1>2, <1>3, <1>5
  <2> QED
    BY <1>1, <1>3, <1>5, <2>1
<1> QED
  BY <1>4, <1>5

LEMMA VisitEInv ==
  ASSUME IInv, EInv, NEW n \in Nodes, n <= upcoming, NEW queue, Visit(n, queue)
  PROVE  EInv'
<1> DEFINE op == circuit[n].op
           args == circuit[n].args
           x == Transfer(op, Operands(n))
<1>1. circuit' = circuit /\ aborted' = aborted /\ ~aborted /\ todo = <<>> /\ circuit \in Circuits
  BY DEF Visit, IInv
<1>2. \A m \in BitLike : IsSet(m) => IsTruth(lattice[m])
  BY DEF EInv
<1>3. IsTyped(circuit, n)
  BY <1>1, TypingFacts
<1>4. CASE VisitSource(n, queue)
  <2>1. op \in Sources /\ todo' = <<>> /\ lattice' = [lattice EXCEPT ![n] = circuit[n].known]
    BY <1>1, <1>4 DEF VisitSource, Known, SetValue
  <2>2. n \in BitLike => circuit[n].bit
    BY <2>1, BitLikeIs DEF Sources
  <2>3. n \in BitLike => IsTruth(circuit[n].known)
    BY <1>3, <2>1, <2>2 DEF IsTyped, IsTruth, IsBoolean
  <2>4. \A i \in DOMAIN todo' : Truthful(todo'[i])
    BY <2>1
  <2> QED
    BY <1>1, <2>1, <2>3, <2>4, EInvAfter
<1>5. CASE VisitOperation(n, queue)
  <2> DEFINE z == IF lattice[n] = Unset THEN x ELSE Intersect[<<x, lattice[n]>>]
  <2>1. op \in Operations /\ op # "cast" /\ ~Rejected(n) /\ todo' = <<>>
        /\ lattice' = [lattice EXCEPT ![n] = z]
    BY <1>1, <1>5, CircuitFacts DEF VisitOperation, Known, SetValue
  <2>2. n \in BitLike => IsTruth(x)
    BY <1>2, <2>1, BitLikeIs, TransferOfBits
  <2> HIDE DEF x
  <2>3. n \in BitLike => IsTruth(z)
    <3>1. lattice[n] # Unset => WellFormed(lattice[n])
      BY Visited DEF IsSet
    <3> QED
      BY <2>2, <3>1, TruthsAreSmall, MeetOfTruth
  <2>4. \A i \in DOMAIN todo' : Truthful(todo'[i])
    BY <2>1
  <2> HIDE DEF z
  <2> QED
    BY <1>1, <2>1, <2>3, <2>4, EInvAfter
<1>6. CASE VisitCast(n, queue)
  <2>1. op = "cast" /\ todo' = <<>> /\ lattice' = [lattice EXCEPT ![n] = Operands(n)[1]]
    BY <1>1, <1>6 DEF VisitCast, SetValue
  <2>2. 1 \in 1..OperandCount(op) /\ ~ circuit[n].bit
    BY <1>3, <2>1 DEF OperandCount, Arity, Sources, IsTyped
  <2>3. args[1] \in Nodes /\ IsSet(args[1]) /\ Operands(n)[1] = lattice[args[1]]
    BY <2>2, OperandFacts
  <2>4. n \in BitLike => IsTruth(Operands(n)[1])
    BY <1>2, <2>2, <2>3, BitLikeIs
  <2>5. \A i \in DOMAIN todo' : Truthful(todo'[i])
    BY <2>1
  <2> QED
    BY <1>1, <2>1, <2>4, <2>5, EInvAfter
<1>7. CASE VisitEmitEq(n, queue)
  <2> DEFINE l == args[1]
             r == args[2]
             both == Intersect[<<lattice[l], lattice[r]>>]
             calls == Decomposition(l, r)
             two == <<Call(l, both), Call(r, both)>>
  <2>1. op = "emiteq" /\ lattice' = lattice /\ todo' = calls \o two
    BY <1>7 DEF VisitEmitEq
  <2>2. 1 \in 1..OperandCount(op) /\ 2 \in 1..OperandCount(op)
    BY <2>1 DEF OperandCount, Sources
  <2>3. /\ l \in Nodes /\ l < upcoming /\ WellFormed(lattice[l]) /\ IsSet(l) /\ circuit[l].op \notin Constraints
        /\ r \in Nodes /\ r < upcoming /\ WellFormed(lattice[r]) /\ IsSet(r) /\ circuit[r].op \notin Constraints
    BY <2>2, OperandFacts
  <2>4. l \in BitLike \/ r \in BitLike => IsTruth(both)
    BY <1>2, <2>3, MeetOfTruth
  <2>5. WellFormed(both)
    BY <2>3, IntersectCases
  <2> HIDE DEF both
  <2>6. Truthful(Call(l, both)) /\ Truthful(Call(r, both))
    BY <2>4 DEF Truthful, Call
  <2>7. calls \in Seq(Calls(upcoming)) /\ \A i \in DOMAIN calls : Truthful(calls[i])
    BY <2>3, DecompositionTyped, DecompositionTruthful
  <2> HIDE DEF calls
  <2>8. two \in Seq(Calls(upcoming))
    <3>1. Call(l, both) \in Calls(upcoming) /\ Call(r, both) \in Calls(upcoming)
      BY <2>3, <2>5, CallTyped
    <3> QED
      BY <2>7, <3>1, SequenceOfCalls
  <2>9. \A i \in DOMAIN two : Truthful(two[i])
    BY <2>6
  <2> HIDE DEF two
  <2>10. \A i \in DOMAIN todo' : Truthful(todo'[i])
    BY <2>1, <2>7, <2>8, <2>9, TruthfulFollow
  <2> QED
    BY <1>1, <2>1, <2>10, EInvAfter
<1>8. CASE VisitAssert(n, queue)
  <2>1. op = "assert" /\ lattice' = lattice /\ todo' = <<Call(args[1], True)>>
    BY <1>8 DEF VisitAssert
  <2>2. Truthful(Call(args[1], True))
    BY DEF Truthful, Call, IsTruth, IsBoolean
  <2>3. \A i \in DOMAIN todo' : Truthful(todo'[i])
    BY <2>1, <2>2
  <2> QED
    BY <1>1, <2>1, <2>3, EInvAfter
<1> QED
  BY <1>4, <1>5, <1>6, <1>7, <1>8 DEF Visit

LEMMA TargetTruth ==
  ASSUME IInv, EInv, todo # <<>>
  PROVE  /\ ~ Rescaled /\ Target \in BitLike /\ circuit[Target].op \in Operations => IsTruth(Given)
         /\ ~ Rescaled => \A i \in DOMAIN Tail(todo) : Truthful(Tail(todo)[i])
         /\ \A i \in 1..OperandCount(circuit[Target].op) : Argument(i) \in BitLike => IsTruth(Now(i))
<1>1. /\ Len(todo) \in Nat /\ DOMAIN todo = 1..Len(todo) /\ Head(todo) = todo[1] /\ 1 \in DOMAIN todo
      /\ Len(Tail(todo)) = Len(todo) - 1 /\ DOMAIN Tail(todo) = 1..(Len(todo) - 1)
      /\ \A i \in 1..(Len(todo) - 1) : Tail(todo)[i] = todo[i + 1]
  <2> DEFINE S == Calls(upcoming)
  <2>1. todo \in Seq(S)
    BY DEF IInv
  <2> HIDE DEF S
  <2>2. Len(Tail(todo)) = Len(todo) - 1 /\ \A i \in 1..(Len(todo) - 1) : Tail(todo)[i] = todo[i + 1]
    BY <2>1
  <2>3. Tail(todo) \in Seq(S) /\ Len(todo) \in Nat /\ DOMAIN todo = 1..Len(todo) /\ Head(todo) = todo[1] /\ 1 \in DOMAIN todo
    BY <2>1
  <2>4. DOMAIN Tail(todo) = 1..Len(Tail(todo))
    BY <2>3
  <2> QED
    BY <2>2, <2>3, <2>4
<1>2. ~ Rescaled => \A i \in DOMAIN todo : Truthful(todo[i])
  BY DEF EInv
<1>3. ~ Rescaled => Truthful(Head(todo))
  BY <1>1, <1>2
<1>4. ~ Rescaled => \A i \in DOMAIN Tail(todo) : Truthful(Tail(todo)[i])
  <2> SUFFICES ASSUME ~ Rescaled, NEW i \in DOMAIN Tail(todo) PROVE Truthful(Tail(todo)[i])
    OBVIOUS
  <2>1. i + 1 \in DOMAIN todo /\ Tail(todo)[i] = todo[i + 1]
    BY <1>1
  <2> QED
    BY <1>2, <2>1
<1>5. ASSUME NEW i \in 1..OperandCount(circuit[Target].op), Argument(i) \in BitLike PROVE IsTruth(Now(i))
  <2>1. Argument(i) \in Nodes /\ Argument(i) < upcoming /\ circuit[Argument(i)].op \notin Constraints
    BY ArgumentFacts
  <2>2. IsSet(Argument(i))
    BY <2>1 DEF IInv
  <2> QED
    BY <1>5, <2>2 DEF EInv, Now
<1> QED
  BY <1>3, <1>4, <1>5 DEF Truthful, Target, Given

LEMMA ApplyEInv ==
  ASSUME IInv, EInv, NEW ops, NEW calls \in Seq(Calls(upcoming)), Apply(ops, calls),
         ~ Rescaled => \A i \in DOMAIN calls : Truthful(calls[i])
  PROVE  EInv'
<1> DEFINE x == Intersect[<<lattice[Target], Given>>]
<1>1. /\ circuit' = circuit /\ aborted' = aborted /\ ~aborted /\ todo # <<>>
      /\ lattice' = [lattice EXCEPT ![Target] = x] /\ todo' = calls \o Tail(todo)
  BY DEF Apply, Applying, SetValue
<1>2. Target \in Nodes /\ WellFormed(Given) /\ WellFormed(lattice[Target]) /\ Tail(todo) \in Seq(Calls(upcoming))
  BY <1>1, TargetFacts
<1>3. Target \in BitLike => IsTruth(x)
  <2>1. IsSet(Target)
    BY <1>1, <1>2, TargetFacts DEF IInv
  <2>2. Target \in BitLike => IsTruth(lattice[Target])
    BY <2>1 DEF EInv
  <2> QED
    BY <1>2, <2>2, MeetOfTruth
<1>4. ~ Rescaled => \A i \in DOMAIN Tail(todo) : Truthful(Tail(todo)[i])
  BY <1>1, TargetTruth
<1>5. Rescaled \/ \A i \in DOMAIN todo' : Truthful(todo'[i])
  BY <1>1, <1>2, <1>4, TruthfulFollow
<1> HIDE DEF x
<1> QED
  BY <1>1, <1>2, <1>3, <1>5, EInvAfter

LEMMA LeafEInv == IInv /\ EInv /\ ApplyToLeaf => EInv'
<1> SUFFICES ASSUME IInv, EInv, ApplyToLeaf PROVE EInv'
  OBVIOUS
<1>1. PICK ops : Apply(ops, <<>>)
  BY DEF ApplyToLeaf
<1>2. \A i \in DOMAIN <<>> : Truthful(<<>>[i])
  OBVIOUS
<1> QED
  BY <1>1, <1>2, NothingCalled, ApplyEInv

LEMMA CastEInv == IInv /\ EInv /\ ApplyToCast => EInv'
<1> SUFFICES ASSUME IInv, EInv, ApplyToCast PROVE EInv'
  OBVIOUS
<1> DEFINE calls == <<Call(Argument(1), Given)>>
<1>1. todo # <<>> /\ circuit[Target].op = "cast" /\ Apply({"cast"}, calls)
  BY DEF ApplyToCast, Apply, Applying
<1>2. 1 \in 1..OperandCount(circuit[Target].op) /\ "cast" \in Operations
  BY <1>1 DEF OperandCount, Arity, Sources, Operations
<1>3. calls \in Seq(Calls(upcoming)) /\ Target \in Nodes
  BY <1>1, <1>2, TargetFacts, OneCallTyped
<1>4. Argument(1) \in BitLike => Target \in BitLike
  BY <1>1, <1>3, BitLikeIs DEF Argument
<1>5. ~ Rescaled => Truthful(Call(Argument(1), Given))
  BY <1>1, <1>2, <1>4, TargetTruth DEF Truthful, Call
<1>6. ~ Rescaled => \A i \in DOMAIN calls : Truthful(calls[i])
  BY <1>5
<1> HIDE DEF calls
<1> QED
  BY <1>1, <1>3, <1>6, ApplyEInv

LEMMA BothTruthful ==
  ASSUME NEW x, NEW y, Argument(1) \in BitLike => IsTruth(x), Argument(2) \in BitLike => IsTruth(y)
  PROVE  \A i \in DOMAIN Both(x, y) : Truthful(Both(x, y)[i])
BY DEF Both, Truthful, Call

(* The rules of add and sub meet what they pass down with the operand. *)
LEMMA SumEInv == IInv /\ EInv /\ (ApplyToAdd \/ ApplyToSub) => EInv'
<1> SUFFICES ASSUME IInv, EInv, ApplyToAdd \/ ApplyToSub PROVE EInv'
  OBVIOUS
<1>1. PICK p, q :
        /\ Apply({"add"}, Both(Intersect[<<Now(1), p>>], Intersect[<<Now(2), q>>]))
           \/ Apply({"sub"}, Both(Intersect[<<Now(1), p>>], Intersect[<<Now(2), q>>]))
        /\ WellFormed(p) /\ WellFormed(q)
  <2>1. todo # <<>> /\ circuit[Target].op \in {"add", "sub"}
    BY DEF ApplyToAdd, ApplyToSub, Apply, Applying
  <2>2. OperandCount(circuit[Target].op) = 2
    BY <2>1 DEF OperandCount, Arity, Sources, FeltUnaryOps
  <2>3. WellFormed(Given) /\ WellFormed(Now(1)) /\ WellFormed(Now(2))
    BY <2>1, <2>2, TargetFacts, ArgumentFacts
  <2>4. /\ WellFormed(Minus[<<Given, Now(2)>>]) /\ WellFormed(Minus[<<Given, Now(1)>>])
        /\ WellFormed(Plus[<<Given, Now(2)>>]) /\ WellFormed(Minus[<<Now(1), Given>>])
    BY <2>3, MinusTyped, PlusTyped
  <2> QED
    BY <2>4, Zenon DEF ApplyToAdd, ApplyToSub
<1> DEFINE x == Intersect[<<Now(1), p>>]
           y == Intersect[<<Now(2), q>>]
<1>2. todo # <<>> /\ circuit[Target].op \in {"add", "sub"}
  BY <1>1 DEF Apply, Applying
<1>3. OperandCount(circuit[Target].op) = 2
  BY <1>2 DEF OperandCount, Arity, Sources, FeltUnaryOps
<1>4. \A i \in {1, 2} : WellFormed(Now(i)) /\ (Argument(i) \in BitLike => IsTruth(Now(i)))
  BY <1>2, <1>3, ArgumentFacts, TargetTruth
<1>5. /\ WellFormed(x) /\ WellFormed(y)
      /\ Argument(1) \in BitLike => IsTruth(x)
      /\ Argument(2) \in BitLike => IsTruth(y)
  BY <1>1, <1>4, IntersectCases, MeetOfTruth
<1> HIDE DEF x, y
<1>6. Both(x, y) \in Seq(Calls(upcoming)) /\ \A i \in DOMAIN Both(x, y) : Truthful(Both(x, y)[i])
  BY <1>2, <1>3, <1>5, BothTyped, BothTruthful
<1>7. Apply({"add"}, Both(x, y)) \/ Apply({"sub"}, Both(x, y))
  BY <1>1 DEF x, y
<1> QED
  BY <1>6, <1>7, ApplyEInv

LEMMA PlainOperands ==
  ASSUME IInv, todo # <<>>, circuit[Target].op \in {"mul", "select"}, ~ Rescaled
  PROVE  \A i \in 1..OperandCount(circuit[Target].op) :
           Argument(i) \in BitLike => circuit[Argument(i)].bit
<1>1. circuit \in Circuits /\ Target \in Nodes
  BY TargetFacts DEF IInv
<1> TAKE i \in 1..OperandCount(circuit[Target].op)
<1>2. i \in DOMAIN circuit[Target].args /\ Argument(i) \in Nodes
  BY <1>1, CircuitFacts, ArgumentFacts
<1>3. circuit[Argument(i)].op # "cast"
  BY <1>1, <1>2 DEF Rescaled, Argument
<1> QED
  BY <1>2, <1>3, BitLikeIs

LEMMA MulEInv == IInv /\ EInv /\ ApplyToMul => EInv'
<1> SUFFICES ASSUME IInv, EInv, ApplyToMul PROVE EInv'
  OBVIOUS
<1> DEFINE i == CHOOSE i \in ConstantOperands : TRUE
           x == Difference[<<Now(1), False>>]
           y == Difference[<<Now(2), False>>]
           calls == IF Cardinality(ConstantOperands) = 1 THEN ScaledCall(i)
                    ELSE IF ConstantOperands = {} /\ Intersect[<<Given, False>>] = Empty
                    THEN Both(x, y) ELSE <<>>
<1>1. todo # <<>> /\ circuit[Target].op = "mul" /\ Apply({"mul"}, calls)
  BY DEF ApplyToMul, Apply, Applying
<1>2. OperandCount(circuit[Target].op) = 2
  BY <1>1 DEF OperandCount, Arity, Sources, FeltUnaryOps
<1>3. WellFormed(x) /\ WellFormed(y)
  BY <1>1, <1>2, ArgumentFacts, TruthValues, DifferenceTyped
<1>4. Cardinality(ConstantOperands) = 1 => i \in ConstantOperands
  BY FS_EmptySet
<1> HIDE DEF x, y, i
<1>5. ~ Rescaled => \A j \in {1, 2} : Argument(j) \notin BitLike
  <2>1. circuit \in Circuits /\ Target \in Nodes
    BY <1>1, TargetFacts DEF IInv
  <2>2. IsTyped(circuit, Target) /\ DOMAIN circuit[Target].args = 1..2
    BY <1>2, <2>1, TypingFacts, CircuitFacts
  <2>3. {circuit[circuit[Target].args[j]].bit : j \in 1..2} = {FALSE}
    BY <1>1, <2>2 DEF IsTyped, FeltOps
  <2>4. \A j \in 1..2 : circuit[circuit[Target].args[j]].bit = FALSE
    <3> SUFFICES ASSUME NEW j \in 1..2 PROVE circuit[circuit[Target].args[j]].bit = FALSE
      OBVIOUS
    <3>1. circuit[circuit[Target].args[j]].bit \in {circuit[circuit[Target].args[k]].bit : k \in 1..2}
      OBVIOUS
    <3> QED
      BY <2>3, <3>1
  <2>5. \A j \in {1, 2} : j \in 1..2
    OBVIOUS
  <2>6. \A j \in {1, 2} : j \in 1..2 /\ ~ circuit[Argument(j)].bit
    BY <2>4, <2>5, Zenon DEF Argument
  <2> QED
    BY <1>1, <1>2, <2>6, PlainOperands
<1>6. calls \in Seq(Calls(upcoming))
  BY <1>1, <1>2, <1>3, <1>4, BothTyped, ScaledTyped, NothingCalled
<1>7. ~ Rescaled => \A j \in DOMAIN calls : Truthful(calls[j])
  <2>1. ~ Rescaled => \A j \in DOMAIN Both(x, y) : Truthful(Both(x, y)[j])
    BY <1>5, BothTruthful
  <2>2. ASSUME ~ Rescaled, NEW k \in ConstantOperands PROVE \A j \in DOMAIN ScaledCall(k) : Truthful(ScaledCall(k)[j])
    <3>1. Argument(3 - k) \notin BitLike
      BY <1>5, <2>2 DEF ConstantOperands
    <3> QED
      BY <3>1 DEF ScaledCall, Call, Truthful
  <2> QED
    BY <1>4, <2>1, <2>2
<1> HIDE DEF calls
<1> QED
  BY <1>1, <1>6, <1>7, ApplyEInv

LEMMA SelectEInv == IInv /\ EInv /\ ApplyToSelect => EInv'
<1> SUFFICES ASSUME IInv, EInv, ApplyToSelect PROVE EInv'
  OBVIOUS
<1> DEFINE overlaps(i) == Intersect[<<Now(i), Given>>] # Empty
           branch(i) == <<Call(Argument(i), Given)>>
           cond(x) == <<Call(Argument(1), x)>>
           calls == CASE Now(1) = True -> branch(2)
                      [] Now(1) = False -> branch(3)
                      [] OTHER -> IF overlaps(2) /\ overlaps(3) THEN <<>>
                                  ELSE IF overlaps(2) THEN cond(True) \o branch(2)
                                  ELSE IF overlaps(3) THEN cond(False) \o branch(3)
                                  ELSE cond(Empty)
           S == Seq(Calls(upcoming))
           Fine(s) == s \in S /\ (~ Rescaled => \A j \in DOMAIN s : Truthful(s[j]))
<1>1. todo # <<>> /\ circuit[Target].op = "select" /\ Apply({"select"}, calls)
  BY DEF ApplyToSelect, Apply, Applying
<1>2. OperandCount(circuit[Target].op) = 3 /\ "select" \in Operations
  BY <1>1 DEF OperandCount, Arity, Sources, FeltUnaryOps, Operations
<1>3. \A i \in {1, 2, 3}, x \in {y \in IntervalType : WellFormed(y)} : <<Call(Argument(i), x)>> \in S
  BY <1>1, <1>2, OneCallTyped
<1>4. ~ Rescaled => \A i \in {2, 3} : Argument(i) \in BitLike => IsTruth(Given)
  <2>1. circuit \in Circuits /\ Target \in Nodes
    BY <1>1, TargetFacts DEF IInv
  <2>2. IsTyped(circuit, Target)
    BY <2>1, TypingFacts
  <2>3. \A i \in {2, 3} : circuit[Argument(i)].bit => circuit[Target].bit
    BY <1>1, <2>2 DEF IsTyped, Argument
  <2>4. circuit[Target].bit => Target \in BitLike
    BY <2>1, BitLikeIs
  <2>5. \A i \in {2, 3} : i \in 1..OperandCount(circuit[Target].op)
    BY <1>2
  <2> QED
    BY <1>1, <1>2, <2>3, <2>4, <2>5, PlainOperands, TargetTruth
<1>5. /\ WellFormed(Given) /\ WellFormed(True) /\ WellFormed(False) /\ WellFormed(Empty)
      /\ IsTruth(True) /\ IsTruth(False) /\ IsTruth(Empty)
      /\ Given \in IntervalType /\ True \in IntervalType /\ False \in IntervalType /\ Empty \in IntervalType
  BY <1>1, TargetFacts, TruthValues, Names, Typed DEF IsTruth, IsBoolean
<1>6. Fine(branch(2)) /\ Fine(branch(3)) /\ Fine(<<>>)
  <2>1. ~ Rescaled => Truthful(Call(Argument(2), Given)) /\ Truthful(Call(Argument(3), Given))
    BY <1>4 DEF Truthful, Call
  <2>2. branch(2) \in S /\ branch(3) \in S /\ <<>> \in S
    BY <1>3, <1>5, NothingCalled
  <2> QED
    BY <2>1, <2>2
<1>7. Fine(cond(True)) /\ Fine(cond(False)) /\ Fine(cond(Empty))
  <2>1. \A x \in {True, False, Empty} : cond(x) \in S /\ Truthful(Call(Argument(1), x))
    BY <1>3, <1>5 DEF Truthful, Call
  <2> QED
    BY <2>1
<1>8. \A s, t : Fine(s) /\ Fine(t) => Fine(s \o t)
  <2> SUFFICES ASSUME NEW s, NEW t, Fine(s), Fine(t) PROVE Fine(s \o t)
    OBVIOUS
  <2>1. s \o t \in S
    <3> DEFINE C == Calls(upcoming)
    <3>1. s \in Seq(C) /\ t \in Seq(C)
      OBVIOUS
    <3> HIDE DEF C
    <3>2. s \o t \in Seq(C)
      BY <3>1
    <3> QED
      BY <3>2 DEF C
  <2> QED
    BY <2>1, TruthfulFollow
<1> HIDE DEF branch, cond, overlaps, Fine
<1>9. Fine(calls)
  BY <1>6, <1>7, <1>8
<1> HIDE DEF calls
<1>10. calls \in S /\ (~ Rescaled => \A j \in DOMAIN calls : Truthful(calls[j]))
  BY <1>9 DEF Fine
<1> QED
  BY <1>1, <1>10, ApplyEInv

(* A part of a truth value is one. *)
LEMMA ReducedTruth ==
  ASSUME NEW l \in Int, NEW r \in Int, l >= 0, r <= 1
  PROVE  IsTruth(ReduceTo[<<l, r>>])
<1>1. Half - Prime <= l /\ r < Half
  BY Halves, PrimeAssumption
<1>2. \A v \in Gamma(ReduceTo[<<l, r>>]) : v \in Felt /\ (v \in l..r \/ v - Prime \in l..r)
  BY <1>1, ReduceToIsExact
<1>3. \A v \in Felt : v \in l..r \/ v - Prime \in l..r => v \in {0, 1}
  BY PrimeAssumption DEF Felt
<1> QED
  BY <1>2, <1>3, ReduceToIsSound, SmallIsTruth

LEMMA TruthBounds ==
  ASSUME NEW x, IsTruth(x)
  PROVE  /\ ToUnreduced(x) = <<ToUnreduced(x)[1], ToUnreduced(x)[2]>>
         /\ ToUnreduced(x)[1] \in {0, 1} /\ ToUnreduced(x)[2] \in {0, 1}
<1>1. 0 \in Felt /\ 1 \in Felt /\ 0 % Prime = 0 /\ 1 % Prime = 1
  BY PrimeAssumption, FeltsAreReduced DEF Felt
<1>2. /\ Boolean = [ty |-> "A", a |-> 0, b |-> 1] /\ False = [ty |-> "Degenerate", a |-> 0, b |-> 0]
      /\ True = [ty |-> "Degenerate", a |-> 1, b |-> 1] /\ Empty = [ty |-> "Empty", a |-> 0, b |-> 0]
  BY <1>1, Names DEF Boolean, Interval, False, True
<1> QED
  BY <1>2 DEF IsTruth, IsBoolean, ToUnreduced

LEMMA DifferenceOfTruth ==
  ASSUME NEW x, NEW y, WellFormed(y), IsTruth(x)
  PROVE  IsTruth(Difference[<<x, y>>])
<1> DEFINE i == Intersect[<<x, y>>]
           z == Difference[<<x, y>>]
           after(n) == ReduceTo[<<n + 1, x.b>>]
           before(n) == ReduceTo[<<x.a, n - 1>>]
<1>1. /\ Boolean = [ty |-> "A", a |-> 0, b |-> 1] /\ False = [ty |-> "Degenerate", a |-> 0, b |-> 0]
      /\ True = [ty |-> "Degenerate", a |-> 1, b |-> 1] /\ Empty = [ty |-> "Empty", a |-> 0, b |-> 0]
  <2>1. 0 \in Felt /\ 1 \in Felt /\ 0 % Prime = 0 /\ 1 % Prime = 1
    BY PrimeAssumption, FeltsAreReduced DEF Felt
  <2> QED
    BY <2>1, Names DEF Boolean, Interval, False, True
<1>2. WellFormed(x) /\ x \in IntervalType /\ y \in IntervalType /\ x \in {False, True, Boolean, Empty}
  BY TruthsAreSmall, Typed DEF IsTruth, IsBoolean
<1>3. IsTruth(i) /\ i \in {False, True, Boolean, Empty}
  BY <1>2, MeetOfTruth DEF IsTruth, IsBoolean
<1>4. x = Empty => i = Empty
  BY <1>1, <1>2 DEF Intersect
<1>5. z = CASE i = Empty -> x
            [] i # Empty /\ (x.ty = "Degenerate" \/ y.ty = "Entire") -> Empty
            [] i # Empty /\ x.ty = "Entire" /\ y.ty # "Entire" ->
                 IF y.a = 0 THEN ReduceTo[<<y.b + 1, Prime - 1>>]
                 ELSE IF y.b = Prime - 1 THEN ReduceTo[<<0, y.a - 1>>] ELSE x
            [] OTHER ->
                 IF (IsRange(x) /\ IsRange(i)) \/ IsOneOf(x, i, {<<"F", "F">>})
                 THEN IF x.a = i.a THEN after(i.b) ELSE IF x.b = i.b THEN before(i.a) ELSE x
                 ELSE IF x.ty = "F"
                 THEN IF x.a = i.b THEN after(i.a) ELSE IF x.b = i.a THEN before(i.b) ELSE x
                 ELSE x
  <2>1. <<x, y>> \in IntervalType \X IntervalType
    BY <1>2
  <2> QED
    BY <2>1 DEF Difference
<1>6. IsTruth(ReduceTo[<<2, 1>>]) /\ IsTruth(Empty)
  BY ReducedTruth DEF IsTruth
<1> HIDE DEF i
<1>7. CASE i = Empty
  BY <1>5, <1>7
<1>8. CASE i # Empty /\ (x.ty = "Degenerate" \/ y.ty = "Entire")
  BY <1>5, <1>6, <1>8
<1>9. CASE i # Empty /\ x.ty # "Degenerate" /\ y.ty # "Entire"
  <2>1. x = Boolean /\ x.ty = "A" /\ x.a = 0 /\ x.b = 1
    BY <1>1, <1>2, <1>4, <1>9
  <2>2. z = IF IsRange(i) THEN IF x.a = i.a THEN after(i.b) ELSE IF x.b = i.b THEN before(i.a) ELSE x ELSE x
    BY <1>5, <1>9, <2>1 DEF IsRange, IsOneOf
  <2>3. IsRange(i) => i.a = 0 /\ i.b = 1
    BY <1>1, <1>3 DEF IsRange
  <2>4. IsRange(i) => z = ReduceTo[<<2, 1>>]
    BY <2>1, <2>2, <2>3
  <2>5. z = x \/ z = ReduceTo[<<2, 1>>]
    BY <2>2, <2>4
  <2> HIDE DEF z
  <2>6. IsTruth(z)
    BY <1>6, <2>5
  <2> QED
    BY <2>6 DEF z
<1> QED
  BY <1>7, <1>8, <1>9

LEMMA PartsAreWithin ==
  ASSUME NEW u \in Ranges, NEW w \in Ranges
  PROVE  \A p \in {LTPart(u, w), LEPart(u, w), GTPart(u, w), GEPart(u, w)} :
           p \in Ranges /\ u[1] <= p[1] /\ p[2] <= u[2]
<1>1. u[1] \in Int /\ u[2] \in Int /\ w[1] \in Int /\ w[2] \in Int /\ w[1] + 1 \in Int /\ w[2] - 1 \in Int
  BY RangeIsPair
<1>2. /\ Min({u[2], w[2] - 1}) <= u[2] /\ Min({u[2], w[2]}) <= u[2]
      /\ u[1] <= Max({u[1], w[1] + 1}) /\ u[1] <= Max({u[1], w[1]})
  <2>1. Min({u[2], w[2] - 1}) = IF u[2] <= w[2] - 1 THEN u[2] ELSE w[2] - 1
    BY <1>1, Pairs
  <2>2. Min({u[2], w[2]}) = IF u[2] <= w[2] THEN u[2] ELSE w[2]
    BY <1>1, Pairs
  <2>3. Max({u[1], w[1] + 1}) = IF u[1] >= w[1] + 1 THEN u[1] ELSE w[1] + 1
    BY <1>1, Pairs
  <2>4. Max({u[1], w[1]}) = IF u[1] >= w[1] THEN u[1] ELSE w[1]
    BY <1>1, Pairs
  <2> QED
    BY <1>1, <2>1, <2>2, <2>3, <2>4
<1>3. LTPart(u, w) \in {u, <<u[1], Min({u[2], w[2] - 1})>>}
  BY DEF LTPart, Part
<1>4. LEPart(u, w) \in {u, <<u[1], Min({u[2], w[2]})>>}
  BY DEF LEPart, Part
<1>5. GTPart(u, w) \in {u, <<Max({u[1], w[1] + 1}), u[2]>>}
  BY DEF GTPart, Part
<1>6. GEPart(u, w) \in {u, <<Max({u[1], w[1]}), u[2]>>}
  BY DEF GEPart, Part
<1>7. \A v \in Int : v <= v
  OBVIOUS
<1>8. LTPart(u, w)[1] = u[1] /\ LTPart(u, w)[2] <= u[2]
  BY <1>1, <1>2, <1>3, <1>7
<1>9. LEPart(u, w)[1] = u[1] /\ LEPart(u, w)[2] <= u[2]
  BY <1>1, <1>2, <1>4, <1>7
<1>10. u[1] <= GTPart(u, w)[1] /\ GTPart(u, w)[2] = u[2]
  BY <1>1, <1>2, <1>5, <1>7
<1>11. u[1] <= GEPart(u, w)[1] /\ GEPart(u, w)[2] = u[2]
  BY <1>1, <1>2, <1>6, <1>7
<1>12. /\ LTPart(u, w) \in Ranges /\ LEPart(u, w) \in Ranges
       /\ GTPart(u, w) \in Ranges /\ GEPart(u, w) \in Ranges
       /\ u[1] <= u[1] /\ u[2] <= u[2]
  BY <1>1, <1>7, RangeOperations
<1> QED
  BY <1>8, <1>9, <1>10, <1>11, <1>12, Zenon

LEMMA PartOfTruth ==
  ASSUME NEW x, NEW y, WellFormed(x), WellFormed(y), IsTruth(x)
  PROVE  \A p \in {LTPart(ToUnreduced(x), ToUnreduced(y)), LEPart(ToUnreduced(x), ToUnreduced(y)),
                   GTPart(ToUnreduced(x), ToUnreduced(y)), GEPart(ToUnreduced(x), ToUnreduced(y))} :
           IsTruth(ReduceTo[p])
<1> DEFINE u == ToUnreduced(x)
           w == ToUnreduced(y)
<1>1. u \in Ranges /\ w \in Ranges /\ u[1] \in {0, 1} /\ u[2] \in {0, 1}
  BY Bounds, TruthBounds
<1> HIDE DEF u, w
<1> SUFFICES ASSUME NEW p \in {LTPart(u, w), LEPart(u, w), GTPart(u, w), GEPart(u, w)}
             PROVE  IsTruth(ReduceTo[p])
  BY DEF u, w
<1>2. p \in Ranges /\ u[1] <= p[1] /\ p[2] <= u[2]
  BY <1>1, PartsAreWithin
<1>3. p = <<p[1], p[2]>> /\ p[1] \in Int /\ p[2] \in Int /\ p[1] >= 0 /\ p[2] <= 1
  BY <1>1, <1>2, RangeIsPair
<1>4. IsTruth(ReduceTo[<<p[1], p[2]>>])
  BY <1>3, ReducedTruth
<1> QED
  BY <1>3, <1>4, Zenon

LEMMA RestrictedTruth ==
  ASSUME NEW rel \in Predicates, NEW x, NEW y, WellFormed(x), WellFormed(y)
  PROVE  /\ IsTruth(x) => IsTruth(Restricted(rel, x, y)[1])
         /\ IsTruth(y) => IsTruth(Restricted(rel, x, y)[2])
<1> DEFINE u == ToUnreduced(x)
           w == ToUnreduced(y)
<1>1. CASE rel = "eq"
  <2>1. Restricted(rel, x, y) = <<Intersect[<<x, y>>], Intersect[<<x, y>>]>>
    BY <1>1 DEF Restricted
  <2> QED
    BY <2>1, MeetOfTruth
<1>2. CASE rel = "ne"
  <2>1. Restricted(rel, x, y) \in {<<Empty, Empty>>, <<x, Difference[<<y, x>>]>>,
                                   <<Difference[<<x, y>>], y>>, <<x, y>>}
    BY <1>2 DEF Restricted
  <2>2. IsTruth(Empty)
    BY DEF IsTruth
  <2>3. (IsTruth(x) => IsTruth(Difference[<<x, y>>])) /\ (IsTruth(y) => IsTruth(Difference[<<y, x>>]))
    BY DifferenceOfTruth
  <2> QED
    BY <2>1, <2>2, <2>3
<1>3. CASE rel \in {"lt", "le", "gt", "ge"}
  <2>1. Restricted(rel, x, y) \in {<<ReduceTo[LTPart(u, w)], ReduceTo[GEPart(w, u)]>>,
                                   <<ReduceTo[LEPart(u, w)], ReduceTo[GTPart(w, u)]>>,
                                   <<ReduceTo[GTPart(u, w)], ReduceTo[LEPart(w, u)]>>,
                                   <<ReduceTo[GEPart(u, w)], ReduceTo[LTPart(w, u)]>>}
    BY <1>3 DEF Restricted
  <2>2. IsTruth(x) => \A p \in {LTPart(u, w), LEPart(u, w), GTPart(u, w), GEPart(u, w)} : IsTruth(ReduceTo[p])
    BY PartOfTruth
  <2>3. IsTruth(y) => \A p \in {LTPart(w, u), LEPart(w, u), GTPart(w, u), GEPart(w, u)} : IsTruth(ReduceTo[p])
    BY PartOfTruth
  <2> HIDE DEF u, w
  <2> QED
    BY <2>1, <2>2, <2>3
<1> QED
  BY <1>1, <1>2, <1>3 DEF Predicates

LEMMA CmpEInv == IInv /\ EInv /\ ApplyToCmp => EInv'
<1> SUFFICES ASSUME IInv, EInv, ApplyToCmp PROVE EInv'
  OBVIOUS
<1> DEFINE rel == Relation(circuit[Target].op, Given)
           new == Restricted(rel, Now(1), Now(2))
           calls == IF Given.ty = "Degenerate" THEN Both(new[1], new[2]) ELSE <<>>
<1>1. todo # <<>> /\ circuit[Target].op \in Predicates /\ Apply(Predicates, calls)
  BY DEF ApplyToCmp, Apply, Applying
<1>2. OperandCount(circuit[Target].op) = 2
  BY <1>1 DEF OperandCount, Arity, Sources, FeltUnaryOps, Predicates
<1>3. \A i \in {1, 2} : WellFormed(Now(i)) /\ (Argument(i) \in BitLike => IsTruth(Now(i)))
  BY <1>1, <1>2, ArgumentFacts, TargetTruth
<1>4. rel \in Predicates
  BY <1>1 DEF Relation, Opposite, Predicates
<1> HIDE DEF rel
<1>5. /\ WellFormed(new[1]) /\ WellFormed(new[2])
      /\ Argument(1) \in BitLike => IsTruth(new[1])
      /\ Argument(2) \in BitLike => IsTruth(new[2])
  BY <1>3, <1>4, RestrictedTyped, RestrictedTruth
<1> HIDE DEF new
<1>6. /\ Both(new[1], new[2]) \in Seq(Calls(upcoming)) /\ <<>> \in Seq(Calls(upcoming))
      /\ \A i \in DOMAIN Both(new[1], new[2]) : Truthful(Both(new[1], new[2])[i])
      /\ \A i \in DOMAIN <<>> : Truthful(<<>>[i])
  BY <1>1, <1>2, <1>5, BothTyped, BothTruthful, NothingCalled
<1>7. calls \in Seq(Calls(upcoming)) /\ \A i \in DOMAIN calls : Truthful(calls[i])
  BY <1>6
<1> HIDE DEF calls
<1> QED
  BY <1>1, <1>7, ApplyEInv

(* A boolean operation only rejects an operand of which nothing is left. *)
LEMMA RejectedIsEmpty ==
  ASSUME IInv, EInv, NEW n \in Nodes, n <= upcoming, Rejected(n)
  PROVE  \E m \in Nodes : lattice[m] = Empty
<1>1. circuit \in Circuits
  BY DEF IInv
<1>2. PICK i \in DOMAIN circuit[n].args : ~ IsBoolean(Operands(n)[i])
  BY DEF Rejected
<1> DEFINE m == circuit[n].args[i]
<1>3. i \in 1..OperandCount(circuit[n].op)
  BY <1>1, CircuitFacts
<1>4. m \in Nodes /\ IsSet(m) /\ Operands(n)[i] = lattice[m]
  BY <1>3, OperandFacts
<1>5. circuit[m].bit
  <2>1. IsTyped(circuit, n)
    BY <1>1, TypingFacts
  <2>2. {circuit[circuit[n].args[j]].bit : j \in DOMAIN circuit[n].args} = {TRUE}
    BY <2>1 DEF IsTyped, Rejected
  <2> QED
    BY <2>2
<1>6. IsTruth(lattice[m])
  BY <1>4, <1>5, BitLikeIs DEF EInv
<1> QED
  BY <1>2, <1>4, <1>6 DEF IsTruth

LEMMA AbortEInv == IInv /\ EInv /\ Abort => EInv'
<1> SUFFICES ASSUME IInv, EInv, Abort PROVE EInv'
  OBVIOUS
<1>1. circuit' = circuit /\ lattice' = lattice /\ todo' = todo
  BY DEF Abort
<1>2. Rescaled \/ \E n \in Nodes : lattice[n] = Empty
  <2>5. circuit \in Circuits /\ upcoming \in 1..(Len(circuit) + 1)
    BY DEF IInv, TypeOK
  <2>1. /\ circuit \in Circuits /\ Nodes = 1..Len(circuit) /\ Len(circuit) \in Nat
        /\ upcoming \in 1..(Len(circuit) + 1)
    BY <2>5, CircuitsAssumption DEF IsCircuit, Nodes
  <2>2. CASE Applying(Predicates) /\ Given # Empty /\ ~IsBoolean(Given)
    <3>1. todo # <<>> /\ circuit[Target].op \in Predicates
      BY <2>2 DEF Applying
    <3>2. Target \in Nodes
      BY <3>1, TargetFacts
    <3>3. IsTyped(circuit, Target) /\ circuit[Target].op \in Operations
      BY <2>1, <3>1, <3>2, TypingFacts DEF Operations
    <3>4. Target \in BitLike
      BY <3>1, <3>2, <3>3, BitLikeIs DEF IsTyped
    <3> QED
      BY <2>2, <3>1, <3>3, <3>4, TargetTruth DEF IsTruth
  <2>3. CASE upcoming \in Nodes /\ Rejected(upcoming)
    BY <2>1, <2>3, RejectedIsEmpty
  <2>4. CASE upcoming \notin Nodes /\ \E n \in Nodes : pending[n] > 0 /\ Rejected(n)
    <3>1. PICK n \in Nodes : Rejected(n)
      BY <2>4
    <3>2. n <= upcoming
      BY <2>1, <2>4
    <3> QED
      BY <3>1, <3>2, RejectedIsEmpty
  <2> QED
    BY <2>2, <2>3, <2>4 DEF Abort
<1>3. BitLike' = BitLike /\ Rescaled' = Rescaled /\ Nodes' = Nodes
  BY <1>1 DEF BitLike, Rescaled, Nodes
<1>4. Rescaled \/ \A i \in DOMAIN todo' :
        todo'[i].value \in BitLike' /\ circuit'[todo'[i].value].op \in Operations => IsTruth(todo'[i].interval)
  BY <1>1, <1>3 DEF EInv, Truthful
<1> QED
  BY <1>1, <1>2, <1>3, <1>4 DEF EInv, IsSet, Truthful

LEMMA StutterEInv == EInv /\ UNCHANGED vars => EInv'
<1> SUFFICES ASSUME EInv, UNCHANGED vars PROVE EInv'
  OBVIOUS
<1>1. circuit' = circuit /\ lattice' = lattice /\ todo' = todo /\ aborted' = aborted
  BY DEF vars
<1>2. BitLike' = BitLike /\ Rescaled' = Rescaled /\ Nodes' = Nodes
  BY <1>1 DEF BitLike, Rescaled, Nodes
<1>3. Rescaled \/ \A i \in DOMAIN todo' :
        todo'[i].value \in BitLike' /\ circuit'[todo'[i].value].op \in Operations => IsTruth(todo'[i].interval)
  BY <1>1, <1>2 DEF EInv, Truthful
<1> QED
  BY <1>1, <1>2, <1>3 DEF EInv, IsSet, Truthful

LEMMA InitEInv == Init => EInv
<1> SUFFICES ASSUME Init PROVE EInv
  OBVIOUS
<1>1. \A n \in Nodes : lattice[n] = Unset
  BY DEF Init
<1>2. DOMAIN todo = {} /\ aborted = FALSE
  BY DEF Init
<1> QED
  BY <1>1, <1>2 DEF EInv, IsSet, BitLike

LEMMA VisitsEInv == IInv /\ EInv /\ (FirstVisit \/ \E n \in Nodes : Revisit(n)) => EInv'
<1> SUFFICES ASSUME IInv, EInv, FirstVisit \/ \E n \in Nodes : Revisit(n) PROVE EInv'
  OBVIOUS
<1>1. Len(circuit) \in Nat /\ Nodes = 1..Len(circuit) /\ upcoming \in 1..(Len(circuit) + 1)
  <2>1. circuit \in Circuits /\ upcoming \in 1..(Len(circuit) + 1)
    BY DEF IInv, TypeOK
  <2> QED
    BY <2>1, CircuitsAssumption DEF IsCircuit, Nodes
<1>2. CASE FirstVisit
  <2>1. upcoming \in Nodes /\ Visit(upcoming, pending) /\ upcoming <= upcoming
    BY <1>1, <1>2 DEF FirstVisit
  <2> QED
    BY <2>1, VisitEInv
<1>3. CASE \E n \in Nodes : Revisit(n)
  <2>1. PICK n \in Nodes : Revisit(n)
    BY <1>3
  <2> DEFINE queue == [pending EXCEPT ![n] = @ - 1]
  <2>2. Visit(n, queue) /\ n < upcoming
    BY <2>1, RevisitFacts
  <2>3. n <= upcoming
    BY <1>1, <2>2
  <2> HIDE DEF queue
  <2> QED
    BY <2>2, <2>3, VisitEInv
<1> QED
  BY <1>2, <1>3

LEMMA EInvInductive == IInv /\ EInv /\ [Next]_vars => EInv'
BY VisitsEInv, LeafEInv, CastEInv, SumEInv, MulEInv, SelectEInv, CmpEInv, AbortEInv, StutterEInv DEF Next

LEMMA EInvSuffices == EInv => EnsuresHold
<1> SUFFICES ASSUME EInv, aborted, Sound, ~ Rescaled PROVE FALSE
  BY DEF EnsuresHold
<1>1. PICK n \in Nodes : lattice[n] = Empty
  BY DEF EInv
<1>2. Empty # Unset /\ Gamma(Empty) = {}
  BY Names DEF Empty, Unset, Gamma, Interval
<1> QED
  BY <1>1, <1>2 DEF Sound, IsSet

(* Whatever circuit is analysed, over whatever field and in whatever order the *)
(* queue is served: the ensures of the comparisons and of the boolean          *)
(* operations do not fail while the intervals are sound, unless a comparison   *)
(* that was cast to a felt is scaled or selected.                              *)
THEOREM EnsuresAreMet == Spec => []EnsuresHold
BY InitKeeps, Inductive, InitEInv, EInvInductive, EInvSuffices, PTL DEF Spec

-----------------------------------------------------------------------------
(*-------------------------------- settling -------------------------------*)
(* What a constraint demands of its operands: their common interval, or true. *)
Demand(n) ==
  IF circuit[n].op = "emiteq" THEN Intersect[<<lattice[circuit[n].args[1]], lattice[circuit[n].args[2]]>>]
  ELSE True

(* An operand has what is demanded, or applyInterval is still to be called. *)
Heeded(n, i) ==
  LET m == circuit[n].args[i]
  IN  \/ Intersect[<<lattice[m], Demand(n)>>] = lattice[m]
      \/ \E j \in DOMAIN todo : todo[j] = Call(m, Demand(n))

(* A constraint that has been visited is queued or heeded. *)
SettledInv ==
  \A n \in Nodes : circuit[n].op \in Constraints /\ n < upcoming =>
    pending[n] > 0 \/ \A i \in 1..OperandCount(circuit[n].op) : Heeded(n, i)

(* A value that changes queues those of its users that have been visited. *)
LEMMA ChangeQueues ==
  ASSUME IInv, NEW t \in Nodes, NEW x, NEW queue \in [Nodes -> Nat], SetValue(t, x, queue),
         NEW n \in Nodes, n < upcoming, ~ pending'[n] > 0
  PROVE  /\ queue[n] = 0
         /\ \A i \in 1..OperandCount(circuit[n].op) :
              lattice'[circuit[n].args[i]] = lattice[circuit[n].args[i]]
<1>1. circuit \in Circuits /\ lattice \in [Nodes -> IntervalType \cup {Unset}]
  BY DEF IInv, TypeOK
<1>2. /\ lattice' = [lattice EXCEPT ![t] = x]
      /\ pending' = IF x = lattice[t] \/ ~Subscribed(t) THEN queue
                    ELSE [m \in Nodes |-> queue[m] + Uses(t, m)]
  BY DEF SetValue
<1>3. Uses(t, n) \in Nat /\ queue[n] \in Nat
  BY <1>1, UseCounts
<1>4. queue[n] = 0
  BY <1>2, <1>3
<1>5. CASE \E i \in 1..OperandCount(circuit[n].op) : circuit[n].args[i] = t
  <2>1. Uses(t, n) > 0
    <3> DEFINE U == {i \in DOMAIN circuit[n].args : circuit[n].args[i] = t}
               k == OperandCount(circuit[n].op)
    <3>1. DOMAIN circuit[n].args = 1..k /\ k \in 0..3
      BY <1>1, CircuitFacts, OperandCounts
    <3>2. U # {}
      BY <1>5, <3>1
    <3>3. IsFiniteSet(1..k)
      <4>1. k \in Int
        BY <3>1
      <4> HIDE DEF k
      <4> QED
        BY <4>1, FS_Interval
    <3>4. IsFiniteSet(U)
      BY <3>1, <3>3, FS_Subset
    <3>5. Cardinality(U) # 0
      BY <3>2, <3>4, FS_EmptySet
    <3> QED
      BY <1>3, <3>5 DEF Uses
  <2>2. Subscribed(t)
    BY <2>1 DEF Subscribed
  <2>3. x = lattice[t]
    BY <1>2, <1>3, <2>1, <2>2
  <2>4. lattice' = lattice
    BY <1>1, <1>2, <2>3
  <2> QED
    BY <1>4, <2>4
<1>6. CASE ~ \E i \in 1..OperandCount(circuit[n].op) : circuit[n].args[i] = t
  <2> SUFFICES ASSUME NEW i \in 1..OperandCount(circuit[n].op)
               PROVE  lattice'[circuit[n].args[i]] = lattice[circuit[n].args[i]]
    BY <1>4
  <2>1. circuit[n].args[i] \in Nodes /\ circuit[n].args[i] # t
    BY <1>1, <1>6, CircuitFacts
  <2> QED
    BY <1>1, <1>2, <2>1
<1> QED
  BY <1>5, <1>6

LEMMA SameOperands ==
  ASSUME circuit \in Circuits, circuit' = circuit, NEW n \in Nodes,
         \A i \in 1..OperandCount(circuit[n].op) :
           lattice'[circuit[n].args[i]] = lattice[circuit[n].args[i]]
  PROVE  /\ Operands(n)' = Operands(n) /\ Rejected(n)' = Rejected(n)
         /\ circuit[n].op \in Constraints => Demand(n)' = Demand(n)
<1>1. DOMAIN circuit[n].args = 1..OperandCount(circuit[n].op)
  BY CircuitFacts
<1>2. Operands(n)' = Operands(n)
  <2>1. [i \in DOMAIN circuit'[n].args |-> lattice'[circuit'[n].args[i]]] =
        [i \in DOMAIN circuit[n].args |-> lattice[circuit[n].args[i]]]
    BY <1>1
  <2> QED
    BY <2>1 DEF Operands
<1>3. Rejected(n)' = Rejected(n)
  BY <1>2 DEF Rejected
<1>4. Demand(n)' = Demand(n)
  <2>1. CASE circuit[n].op = "emiteq"
    <3>1. 1 \in 1..OperandCount(circuit[n].op) /\ 2 \in 1..OperandCount(circuit[n].op)
      BY <2>1 DEF OperandCount, Sources
    <3>2. /\ lattice'[circuit[n].args[1]] = lattice[circuit[n].args[1]]
          /\ lattice'[circuit[n].args[2]] = lattice[circuit[n].args[2]]
      BY <3>1
    <3> QED
      BY <3>2 DEF Demand
  <2>2. CASE circuit[n].op # "emiteq"
    BY <2>2 DEF Demand
  <2> QED
    BY <2>1, <2>2
<1> QED
  BY <1>2, <1>3, <1>4

(* A constraint stays heeded while its operands and the calls to come stay. *)
LEMMA StaysHeeded ==
  ASSUME circuit \in Circuits, circuit' = circuit, NEW n \in Nodes, circuit[n].op \in Constraints,
         \A i \in 1..OperandCount(circuit[n].op) :
           lattice'[circuit[n].args[i]] = lattice[circuit[n].args[i]],
         NEW i \in 1..OperandCount(circuit[n].op), Heeded(n, i),
         \A j \in DOMAIN todo :
           \/ \E k \in DOMAIN todo' : todo'[k] = todo[j]
           \/ Intersect[<<lattice[todo[j].value], todo[j].interval>>] = lattice'[todo[j].value]
  PROVE  Heeded(n, i)'
<1> DEFINE m == circuit[n].args[i]
<1>1. Demand(n)' = Demand(n) /\ lattice'[m] = lattice[m]
  BY SameOperands
<1>2. CASE Intersect[<<lattice[m], Demand(n)>>] = lattice[m]
  BY <1>1, <1>2 DEF Heeded
<1>3. CASE \E j \in DOMAIN todo : todo[j] = Call(m, Demand(n))
  <2>1. PICK j \in DOMAIN todo : todo[j] = Call(m, Demand(n))
    BY <1>3
  <2>2. todo[j].value = m /\ todo[j].interval = Demand(n)
    BY <2>1 DEF Call
  <2>3. CASE \E k \in DOMAIN todo' : todo'[k] = todo[j]
    <3>1. \E k \in DOMAIN todo' : todo'[k] = Call(m, Demand(n))
      BY <2>1, <2>3
    <3> QED
      BY <1>1, <3>1 DEF Heeded, Call
  <2>4. CASE Intersect[<<lattice[m], Demand(n)>>] = lattice'[m]
    BY <1>1, <2>4 DEF Heeded
  <2> QED
    BY <2>2, <2>3, <2>4
<1> QED
  BY <1>2, <1>3 DEF Heeded

(* A visit sets a value, or adds the calls that a constraint demands. *)
LEMMA VisitSets ==
  ASSUME IInv, NEW n \in Nodes, n <= upcoming, NEW queue, Visit(n, queue)
  PROVE  /\ circuit' = circuit /\ todo = <<>>
         /\ circuit[n].op \notin Constraints => (\E x : SetValue(n, x, queue)) /\ todo' = todo
         /\ circuit[n].op \in Constraints =>
              /\ lattice' = lattice /\ pending' = queue
              /\ \A i \in 1..OperandCount(circuit[n].op) :
                   \E j \in DOMAIN todo' : todo'[j] = Call(circuit[n].args[i], Demand(n))
<1> DEFINE args == circuit[n].args
           l == args[1]
           r == args[2]
           calls == Decomposition(l, r)
           both == Intersect[<<lattice[l], lattice[r]>>]
           two == <<Call(l, both), Call(r, both)>>
<1>1. circuit' = circuit /\ todo = <<>>
  BY DEF Visit
<1>2. circuit \in Circuits /\ circuit[n].op \in Operations \cup Sources \cup Constraints
  BY CircuitFacts DEF IInv
<1>3. (Operations \cup Sources) \cap Constraints = {} /\ "cast" \notin Constraints
  BY DEF Operations, FeltOps, Divisions, FeltUnaryOps, Predicates, BoolOps, Sources, Constraints
<1>4. CASE VisitSource(n, queue)
  <2>1. (\E x : SetValue(n, x, queue)) /\ todo' = todo /\ circuit[n].op \in Sources
    BY <1>4 DEF VisitSource, Known
  <2> QED
    BY <1>1, <1>3, <2>1
<1>5. CASE VisitOperation(n, queue)
  BY <1>1, <1>5 DEF VisitOperation
<1>6. CASE VisitCast(n, queue)
  BY <1>1, <1>3, <1>6 DEF VisitCast
<1>7. CASE VisitEmitEq(n, queue)
  <2>1. circuit[n].op = "emiteq" /\ lattice' = lattice /\ pending' = queue /\ todo' = calls \o two
    BY <1>7 DEF VisitEmitEq
  <2>2. 1 \in 1..OperandCount(circuit[n].op) /\ 2 \in 1..OperandCount(circuit[n].op)
        /\ 1..OperandCount(circuit[n].op) = {1, 2}
    BY <2>1 DEF OperandCount, Sources
  <2>3. /\ l \in Nodes /\ l < upcoming /\ WellFormed(lattice[l]) /\ IsSet(l) /\ circuit[l].op \notin Constraints
        /\ r \in Nodes /\ r < upcoming /\ WellFormed(lattice[r]) /\ IsSet(r) /\ circuit[r].op \notin Constraints
    BY <2>2, OperandFacts
  <2>4. calls \in Seq(Calls(upcoming))
    BY <2>3, DecompositionTyped
  <2>5. two[1] = Call(l, Demand(n)) /\ two[2] = Call(r, Demand(n)) /\ Len(two) = 2 /\ 1..Len(two) = {1, 2}
    BY <2>1 DEF Demand
  <2>6. two \in Seq({two[1], two[2]})
    OBVIOUS
  <2> HIDE DEF calls, two, both, l, r
  <2>7. \A k \in {1, 2} : \E j \in DOMAIN (calls \o two) : (calls \o two)[j] = two[k]
    <3> DEFINE S == Calls(upcoming) \cup {two[1], two[2]}
    <3>1. calls \in Seq(S) /\ two \in Seq(S)
      <4> DEFINE A == Calls(upcoming)
                 B == {two[1], two[2]}
      <4>1. calls \in Seq(A) /\ two \in Seq(B)
        BY <2>4, <2>6
      <4> HIDE DEF A, B
      <4>2. calls \in Seq(A \cup B) /\ two \in Seq(A \cup B)
        BY <4>1
      <4> QED
        BY <4>2 DEF A, B
    <3> HIDE DEF S
    <3>2. /\ calls \o two \in Seq(S) /\ Len(calls \o two) = Len(calls) + Len(two) /\ Len(calls) \in Nat
          /\ DOMAIN (calls \o two) = 1..(Len(calls) + Len(two))
          /\ \A i \in 1..(Len(calls) + Len(two)) :
               (calls \o two)[i] = IF i <= Len(calls) THEN calls[i] ELSE two[i - Len(calls)]
      BY <3>1, ConcatProperties
    <3> TAKE k \in {1, 2}
    <3>3. Len(calls) + k \in DOMAIN (calls \o two) /\ (calls \o two)[Len(calls) + k] = two[k]
      BY <2>5, <3>2
    <3> QED
      BY <3>3
  <2>8. \A i \in 1..OperandCount(circuit[n].op) : two[i] = Call(circuit[n].args[i], Demand(n))
    BY <2>2, <2>5 DEF l, r
  <2>9. \A i \in 1..OperandCount(circuit[n].op) :
          \E j \in DOMAIN todo' : todo'[j] = Call(circuit[n].args[i], Demand(n))
    BY <2>1, <2>2, <2>7, <2>8
  <2> QED
    BY <1>1, <2>1, <2>9 DEF Constraints
<1>8. CASE VisitAssert(n, queue)
  <2>1. /\ circuit[n].op = "assert" /\ lattice' = lattice /\ pending' = queue
        /\ todo' = <<Call(circuit[n].args[1], Demand(n))>>
    BY <1>8 DEF VisitAssert, Demand
  <2>2. 1..OperandCount(circuit[n].op) = {1}
    BY <2>1 DEF OperandCount, Sources
  <2>3. 1 \in DOMAIN todo' /\ todo'[1] = Call(circuit[n].args[1], Demand(n))
    BY <2>1
  <2>4. \A i \in 1..OperandCount(circuit[n].op) :
          \E j \in DOMAIN todo' : todo'[j] = Call(circuit[n].args[i], Demand(n))
    BY <2>2, <2>3
  <2> QED
    BY <1>1, <2>1, <2>4 DEF Constraints
<1> QED
  BY <1>4, <1>5, <1>6, <1>7, <1>8 DEF Visit

LEMMA VisitSettles ==
  ASSUME IInv, SettledInv, NEW n \in Nodes, n <= upcoming, NEW queue \in [Nodes -> Nat], Visit(n, queue),
         \A m \in Nodes : m # n => queue[m] = pending[m],
         \A m \in Nodes : m < upcoming' => m < upcoming \/ m = n
  PROVE  SettledInv'
<1>1. /\ circuit' = circuit /\ todo = <<>> /\ circuit \in Circuits
      /\ circuit[n].op \notin Constraints => (\E x : SetValue(n, x, queue)) /\ todo' = todo
      /\ circuit[n].op \in Constraints =>
           /\ lattice' = lattice /\ pending' = queue
           /\ \A i \in 1..OperandCount(circuit[n].op) :
                \E j \in DOMAIN todo' : todo'[j] = Call(circuit[n].args[i], Demand(n))
  BY VisitSets DEF IInv
<1> SUFFICES ASSUME NEW m \in Nodes, circuit[m].op \in Constraints, m < upcoming', ~ pending'[m] > 0,
                    NEW i \in 1..OperandCount(circuit[m].op)
             PROVE  Heeded(m, i)'
  BY <1>1 DEF SettledInv, Nodes
<1>2. CASE m = n
  <2>1. lattice' = lattice /\ \E j \in DOMAIN todo' : todo'[j] = Call(circuit[n].args[i], Demand(n))
    BY <1>1, <1>2
  <2>2. Demand(n)' = Demand(n)
    BY <1>1, <1>2, <2>1, SameOperands
  <2> QED
    BY <1>1, <1>2, <2>1, <2>2 DEF Heeded, Call
<1>3. CASE m # n
  <2>1. m < upcoming
    BY <1>3
  <2>2. /\ queue[m] = 0
        /\ \A k \in 1..OperandCount(circuit[m].op) :
             lattice'[circuit[m].args[k]] = lattice[circuit[m].args[k]]
    <3>1. CASE circuit[n].op \in Constraints
      BY <1>1, <3>1
    <3>2. CASE circuit[n].op \notin Constraints
      BY <1>1, <2>1, <3>2, ChangeQueues
    <3> QED
      BY <3>1, <3>2
  <2>3. pending[m] = 0
    BY <1>3, <2>2
  <2>4. Heeded(m, i)
    BY <2>1, <2>3 DEF SettledInv
  <2>5. DOMAIN todo = {}
    BY <1>1
  <2> QED
    BY <1>1, <2>2, <2>4, <2>5, StaysHeeded
<1> QED
  BY <1>2, <1>3

LEMMA ApplySettles ==
  ASSUME IInv, SettledInv, NEW ops, NEW calls \in Seq(Calls(upcoming)), Apply(ops, calls)
  PROVE  SettledInv'
<1> DEFINE x == Intersect[<<lattice[Target], Given>>]
<1>1. /\ circuit' = circuit /\ upcoming' = upcoming /\ todo # <<>> /\ SetValue(Target, x, pending)
      /\ todo' = calls \o Tail(todo) /\ lattice' = [lattice EXCEPT ![Target] = x]
  BY DEF Apply, Applying, SetValue
<1>2. /\ circuit \in Circuits /\ pending \in [Nodes -> Nat] /\ lattice \in [Nodes -> IntervalType \cup {Unset}]
      /\ todo \in Seq(Calls(upcoming))
  BY DEF IInv, TypeOK
<1>3. Target \in Nodes /\ Tail(todo) \in Seq(Calls(upcoming))
  BY <1>1, TargetFacts
<1>4. \A j \in DOMAIN todo :
        \/ \E k \in DOMAIN todo' : todo'[k] = todo[j]
        \/ Intersect[<<lattice[todo[j].value], todo[j].interval>>] = lattice'[todo[j].value]
  <2> DEFINE S == Calls(upcoming)
  <2>1. todo \in Seq(S) /\ calls \in Seq(S) /\ Tail(todo) \in Seq(S)
    BY <1>2, <1>3
  <2> HIDE DEF S
  <2>2. /\ Len(todo) \in Nat /\ DOMAIN todo = 1..Len(todo) /\ Head(todo) = todo[1]
        /\ Len(Tail(todo)) = Len(todo) - 1
        /\ \A j \in 1..(Len(todo) - 1) : Tail(todo)[j] = todo[j + 1]
    BY <1>1, <2>1
  <2>3. /\ Len(calls) \in Nat /\ DOMAIN (calls \o Tail(todo)) = 1..(Len(calls) + Len(Tail(todo)))
        /\ \A j \in 1..(Len(calls) + Len(Tail(todo))) :
             (calls \o Tail(todo))[j] = IF j <= Len(calls) THEN calls[j] ELSE Tail(todo)[j - Len(calls)]
    <3>1. calls \o Tail(todo) \in Seq(S) /\ Len(calls \o Tail(todo)) = Len(calls) + Len(Tail(todo))
      BY <2>1, ConcatProperties
    <3> QED
      BY <2>1, <3>1, ConcatProperties
  <2> TAKE j \in DOMAIN todo
  <2>4. CASE j = 1
    <3>1. todo[j].value = Target /\ todo[j].interval = Given
      BY <2>2, <2>4 DEF Target, Given
    <3>2. lattice'[Target] = x
      BY <1>1, <1>2, <1>3
    <3> QED
      BY <3>1, <3>2
  <2>5. CASE j # 1
    <3> DEFINE k == Len(calls) + (j - 1)
    <3>1. k \in DOMAIN (calls \o Tail(todo)) /\ j - 1 \in 1..(Len(todo) - 1) /\ ~ k <= Len(calls) /\ k - Len(calls) = j - 1
      BY <2>2, <2>3, <2>5
    <3>2. (calls \o Tail(todo))[k] = Tail(todo)[j - 1] /\ Tail(todo)[j - 1] = todo[(j - 1) + 1] /\ (j - 1) + 1 = j
      <4>1. k \in 1..(Len(calls) + Len(Tail(todo)))
        BY <2>3, <3>1
      <4>2. (calls \o Tail(todo))[k] = Tail(todo)[k - Len(calls)]
        BY <2>3, <3>1, <4>1
      <4>3. j - 1 \in Int /\ (j - 1) + 1 = j
        BY <2>2, <2>5
      <4>4. Tail(todo)[j - 1] = todo[(j - 1) + 1]
        BY <2>2, <3>1
      <4> HIDE DEF k
      <4> QED
        BY <3>1, <4>2, <4>3, <4>4
    <3> HIDE DEF k
    <3> QED
      BY <1>1, <3>1, <3>2
  <2> QED
    BY <2>4, <2>5
<1> HIDE DEF x
<1> SUFFICES ASSUME NEW m \in Nodes, circuit[m].op \in Constraints, m < upcoming, ~ pending'[m] > 0,
                    NEW i \in 1..OperandCount(circuit[m].op)
             PROVE  Heeded(m, i)'
  BY <1>1 DEF SettledInv, Nodes
<1>5. /\ pending[m] = 0
      /\ \A k \in 1..OperandCount(circuit[m].op) :
           lattice'[circuit[m].args[k]] = lattice[circuit[m].args[k]]
  BY <1>1, <1>2, <1>3, ChangeQueues
<1>6. Heeded(m, i)
  BY <1>5 DEF SettledInv
<1> QED
  BY <1>1, <1>2, <1>4, <1>5, <1>6, StaysHeeded

LEMMA VisitsSettle == IInv /\ SettledInv /\ (FirstVisit \/ \E n \in Nodes : Revisit(n)) => SettledInv'
<1> SUFFICES ASSUME IInv, SettledInv, FirstVisit \/ \E n \in Nodes : Revisit(n) PROVE SettledInv'
  OBVIOUS
<1>1. Len(circuit) \in Nat /\ Nodes = 1..Len(circuit) /\ upcoming \in 1..(Len(circuit) + 1)
  <2>1. circuit \in Circuits /\ upcoming \in 1..(Len(circuit) + 1)
    BY DEF IInv, TypeOK
  <2> QED
    BY <2>1, CircuitsAssumption DEF IsCircuit, Nodes
<1>2. pending \in [Nodes -> Nat]
  BY DEF IInv, TypeOK
<1>3. CASE FirstVisit
  <2>1. upcoming \in Nodes /\ Visit(upcoming, pending) /\ upcoming' = upcoming + 1
    BY <1>3 DEF FirstVisit
  <2>2. upcoming <= upcoming /\ \A m \in Nodes : m < upcoming' => m < upcoming \/ m = upcoming
    BY <1>1, <2>1
  <2> QED
    BY <1>2, <2>1, <2>2, VisitSettles
<1>4. CASE \E n \in Nodes : Revisit(n)
  <2>1. PICK n \in Nodes : Revisit(n)
    BY <1>4
  <2> DEFINE queue == [pending EXCEPT ![n] = @ - 1]
  <2>2. Visit(n, queue) /\ n < upcoming /\ queue \in [Nodes -> Nat] /\ upcoming' = upcoming
    BY <2>1, RevisitFacts
  <2>3. n <= upcoming /\ \A m \in Nodes : m # n => queue[m] = pending[m]
    BY <1>1, <1>2, <2>2
  <2>4. \A m \in Nodes : m < upcoming' => m < upcoming \/ m = n
    BY <2>2
  <2> HIDE DEF queue
  <2> QED
    BY <2>2, <2>3, <2>4, VisitSettles
<1> QED
  BY <1>3, <1>4

LEMMA StutterSettled ==
  SettledInv /\ circuit' = circuit /\ lattice' = lattice /\ todo' = todo /\ pending' = pending
             /\ upcoming' = upcoming => SettledInv'
BY DEF SettledInv, Heeded, Demand, Call, Nodes

LEMMA InitSettled == Init => SettledInv
<1> SUFFICES ASSUME Init PROVE SettledInv
  OBVIOUS
<1>1. circuit \in Circuits /\ upcoming = 1
  BY DEF Init
<1>2. Nodes = 1..Len(circuit) /\ Len(circuit) \in Nat
  BY <1>1, CircuitsAssumption DEF IsCircuit, Nodes
<1>3. \A n \in Nodes : ~ n < upcoming
  BY <1>1, <1>2
<1> QED
  BY <1>3 DEF SettledInv

LEMMA SettledInductive == IInv /\ SettledInv /\ [Next]_vars => SettledInv'
<1>1. IInv /\ SettledInv /\ Applied => SettledInv'
  BY ApplySettles DEF Applied
<1>2. SettledInv /\ (Abort \/ UNCHANGED vars) => SettledInv'
  BY StutterSettled DEF Abort, vars
<1> QED
  BY <1>1, <1>2, VisitsSettle, ApplyCases DEF Next

LEMMA SettledSuffices == IInv /\ SettledInv => (Idle => ConstraintsMet)
<1> SUFFICES ASSUME IInv, SettledInv, Idle, NEW n \in Nodes
             PROVE  /\ circuit[n].op = "emiteq" => \/ Operands(n)[1] = Operands(n)[2]
                                                   \/ Either(Spanning, Operands(n)[1], Operands(n)[2])
                    /\ circuit[n].op = "assert" => Operands(n)[1] \in {True, Empty}
  BY DEF ConstraintsMet
<1>1. Len(circuit) \in Nat /\ Nodes = 1..Len(circuit) /\ upcoming \in 1..(Len(circuit) + 1)
  BY CircuitFacts DEF IInv, TypeOK
<1>2. todo = <<>> /\ upcoming \notin Nodes /\ pending[n] = 0
  BY DEF Idle
<1>3. n < upcoming /\ n <= upcoming /\ DOMAIN todo = {}
  BY <1>1, <1>2
<1>4. circuit[n].op \in Constraints =>
        \A i \in 1..OperandCount(circuit[n].op) :
          Intersect[<<lattice[circuit[n].args[i]], Demand(n)>>] = lattice[circuit[n].args[i]]
  BY <1>2, <1>3 DEF SettledInv, Heeded
<1>5. ASSUME circuit[n].op = "emiteq"
      PROVE  Operands(n)[1] = Operands(n)[2] \/ Either(Spanning, Operands(n)[1], Operands(n)[2])
  <2> DEFINE x == lattice[circuit[n].args[1]]
             y == lattice[circuit[n].args[2]]
  <2>1. 1 \in 1..OperandCount(circuit[n].op) /\ 2 \in 1..OperandCount(circuit[n].op)
    BY <1>5 DEF OperandCount, Sources
  <2>2. WellFormed(x) /\ WellFormed(y) /\ Operands(n)[1] = x /\ Operands(n)[2] = y
    BY <1>3, <2>1, OperandFacts
  <2>3. circuit[n].op \in Constraints /\ Demand(n) = Intersect[<<x, y>>]
    BY <1>5 DEF Demand, Constraints
  <2>4. Intersect[<<x, Demand(n)>>] = x /\ Intersect[<<y, Demand(n)>>] = y
    BY <1>4, <2>1, <2>3
  <2> HIDE DEF x, y
  <2>5. x = y \/ Spanning(x, y) \/ Spanning(y, x)
    BY <2>2, <2>3, <2>4, NothingToMeet
  <2> QED
    BY <2>2, <2>5 DEF Either
<1>6. ASSUME circuit[n].op = "assert"
      PROVE  Operands(n)[1] \in {True, Empty}
  <2>1. 1 \in 1..OperandCount(circuit[n].op) /\ circuit[n].op \in Constraints /\ Demand(n) = True
    BY <1>6 DEF OperandCount, Sources, Constraints, Demand
  <2> DEFINE x == lattice[circuit[n].args[1]]
  <2>2. WellFormed(x) /\ Operands(n)[1] = x
    BY <1>3, <2>1, OperandFacts
  <2>3. Intersect[<<x, True>>] = x
    BY <1>4, <2>1
  <2> HIDE DEF x
  <2> QED
    BY <2>2, <2>3, OnlyTrue
<1> QED
  BY <1>5, <1>6

-----------------------------------------------------------------------------
(*------------------------------ results in time ---------------------------*)
(* A visit computes a result from its operands, for the first time or anew. *)
LEMMA VisitComputes ==
  ASSUME IInv, NEW n \in Nodes, NEW queue, Visit(n, queue), ~Known(n), circuit[n].op \notin Constraints
  PROVE  \/ lattice'[n] = Transfer(circuit[n].op, Operands(n))
         \/ IsSet(n) /\ circuit[n].op # "cast"
<1>1. lattice \in [Nodes -> IntervalType \cup {Unset}]
  BY DEF IInv, TypeOK
<1>2. CASE VisitOperation(n, queue)
  BY <1>1, <1>2 DEF VisitOperation, SetValue, IsSet
<1>3. CASE VisitCast(n, queue)
  <2>1. circuit[n].op = "cast" /\ lattice'[n] = Operands(n)[1]
    BY <1>1, <1>3 DEF VisitCast, SetValue
  <2>2. Transfer("cast", Operands(n)) = Operands(n)[1]
    BY DEF Transfer, Predicates, BoolOps
  <2> QED
    BY <2>1, <2>2
<1>4. ~ VisitSource(n, queue) /\ ~ VisitEmitEq(n, queue) /\ ~ VisitAssert(n, queue)
  BY DEF VisitSource, VisitEmitEq, VisitAssert, Constraints
<1> QED
  BY <1>2, <1>3, <1>4 DEF Visit

LEMMA VisitKeepsPace ==
  ASSUME IInv, NEW v \in Nodes, v <= upcoming, NEW queue \in [Nodes -> Nat], Visit(v, queue),
         \A m \in Nodes : Known(m) => queue[m] = 0,
         \A m \in Nodes : m # v => queue[m] = pending[m],
         \A m \in Nodes : m < upcoming' => m < upcoming \/ m = v,
         NEW n \in Nodes, UpToDate(n), ~ LooseMeet(n)
  PROVE  UpToDate(n)'
<1>1. /\ circuit' = circuit /\ todo = <<>> /\ circuit \in Circuits /\ Nodes' = Nodes
      /\ lattice \in [Nodes -> IntervalType \cup {Unset}] /\ pending \in [Nodes -> Nat]
      /\ circuit[v].op \notin Constraints => \E x : SetValue(v, x, queue)
      /\ circuit[v].op \in Constraints => lattice' = lattice /\ pending' = queue
  BY VisitSets DEF IInv, TypeOK, Nodes
<1> DEFINE x == Transfer(circuit[n].op, Operands(n))
<1> SUFFICES ASSUME ~ Known(n), circuit[n].op \notin Constraints, n < upcoming', ~ pending'[n] > 0,
                    ~ Rejected(n)'
             PROVE  Gamma(lattice'[n]) \subseteq Gamma(Transfer(circuit[n].op, Operands(n)'))
  BY <1>1, Zenon DEF UpToDate, Known
<1>2. /\ \A i \in 1..OperandCount(circuit[n].op) :
           lattice'[circuit[n].args[i]] = lattice[circuit[n].args[i]]
      /\ n # v => queue[n] = 0 /\ lattice'[n] = lattice[n]
  <2>1. CASE circuit[v].op \in Constraints
    BY <1>1, <2>1
  <2>2. CASE circuit[v].op \notin Constraints
    <3>1. PICK z : SetValue(v, z, queue)
      BY <1>1, <2>2
    <3>2. lattice' = [lattice EXCEPT ![v] = z]
      BY <3>1 DEF SetValue
    <3>3. CASE n < upcoming
      <4>1. /\ queue[n] = 0
            /\ \A i \in 1..OperandCount(circuit[n].op) :
                 lattice'[circuit[n].args[i]] = lattice[circuit[n].args[i]]
        BY <3>1, <3>3, ChangeQueues
      <4> QED
        BY <1>1, <3>2, <4>1
    <3>4. CASE n = v
      <4>1. \A i \in 1..OperandCount(circuit[n].op) :
              circuit[n].args[i] \in Nodes /\ circuit[n].args[i] < n /\ n \in Nat
        BY <1>1, CircuitFacts
      <4>2. \A i \in 1..OperandCount(circuit[n].op) : circuit[n].args[i] # v
        BY <3>4, <4>1
      <4> QED
        BY <1>1, <3>2, <3>4, <4>1, <4>2
    <3> QED
      BY <3>3, <3>4
  <2> QED
    BY <2>1, <2>2
<1>3. Operands(n)' = Operands(n) /\ Rejected(n)' = Rejected(n)
  BY <1>1, <1>2, SameOperands
<1>4. CASE n # v
  <2>1. n < upcoming /\ pending[n] = 0 /\ ~ Rejected(n)
    BY <1>2, <1>3, <1>4
  <2>2. Gamma(lattice[n]) \subseteq Gamma(x)
    BY <2>1 DEF UpToDate
  <2> QED
    BY <1>2, <1>3, <1>4, <2>2
<1>5. CASE n = v
  <2>1. lattice'[n] = x \/ (IsSet(n) /\ circuit[n].op # "cast")
    BY <1>5, VisitComputes
  <2>2. CASE lattice'[n] = x
    BY <1>3, <2>2
  <2>3. CASE IsSet(n) /\ circuit[n].op # "cast"
    <3>1. WellFormed(x) /\ lattice'[n] = Intersect[<<x, lattice[n]>>]
      BY <1>5, <2>3, VisitResult
    <3>2. WellFormed(lattice[n]) /\ {x.ty, lattice[n].ty} # {"C", "F"}
      BY <1>1, <2>3, Visited DEF LooseMeet
    <3> HIDE DEF x
    <3>3. Gamma(lattice'[n]) \subseteq Gamma(x)
      BY <3>1, <3>2, IntersectCases
    <3> QED
      BY <1>3, <3>3 DEF x
  <2> QED
    BY <2>1, <2>2, <2>3
<1> QED
  BY <1>4, <1>5

LEMMA ApplyKeepsPace ==
  ASSUME IInv, NEW ops, NEW calls, Apply(ops, calls), NEW n \in Nodes, UpToDate(n), ~ LooseMeet(n)
  PROVE  UpToDate(n)'
<1> DEFINE x == Intersect[<<lattice[Target], Given>>]
<1>1. /\ circuit' = circuit /\ upcoming' = upcoming /\ todo # <<>> /\ SetValue(Target, x, pending)
      /\ circuit \in Circuits /\ pending \in [Nodes -> Nat] /\ Target \in Nodes
  BY TargetFacts DEF Apply, Applying, IInv, TypeOK
<1> HIDE DEF x
<1> SUFFICES ASSUME ~ Known(n), circuit[n].op \notin Constraints, n < upcoming, ~ pending'[n] > 0,
                    ~ Rejected(n)'
             PROVE  Gamma(lattice'[n]) \subseteq Gamma(Transfer(circuit[n].op, Operands(n)'))
  BY <1>1, Zenon DEF UpToDate, Known
<1>2. /\ pending[n] = 0
      /\ \A i \in 1..OperandCount(circuit[n].op) :
           lattice'[circuit[n].args[i]] = lattice[circuit[n].args[i]]
  BY <1>1, ChangeQueues
<1>3. Operands(n)' = Operands(n) /\ Rejected(n)' = Rejected(n)
  BY <1>1, <1>2, SameOperands
<1>4. Gamma(lattice[n]) \subseteq Gamma(Transfer(circuit[n].op, Operands(n)))
  BY <1>2, <1>3 DEF UpToDate
<1>5. Gamma(lattice'[n]) \subseteq Gamma(lattice[n])
  <2>1. NarrowsAt(n) /\ IsSet(n)
    BY ApplyNarrows DEF IInv
  <2> QED
    BY <1>1, <2>1 DEF NarrowsAt
<1> QED
  BY <1>3, <1>4, <1>5

LEMMA StepKeepsPace ==
  IInv /\ [Next]_vars => \A n \in Nodes : UpToDate(n) => UpToDate(n)' \/ LooseMeet(n)
<1> SUFFICES ASSUME IInv, [Next]_vars, NEW n \in Nodes, UpToDate(n), ~ LooseMeet(n)
             PROVE  UpToDate(n)'
  OBVIOUS
<1>1. Len(circuit) \in Nat /\ Nodes = 1..Len(circuit) /\ upcoming \in 1..(Len(circuit) + 1)
  BY CircuitFacts DEF IInv, TypeOK
<1>2. pending \in [Nodes -> Nat] /\ \A m \in Nodes : Known(m) => pending[m] = 0
  BY DEF IInv, TypeOK
<1>3. CASE FirstVisit
  <2>1. upcoming \in Nodes /\ Visit(upcoming, pending) /\ upcoming' = upcoming + 1
    BY <1>3 DEF FirstVisit
  <2>2. upcoming <= upcoming /\ \A m \in Nodes : m < upcoming' => m < upcoming \/ m = upcoming
    BY <1>1, <2>1
  <2> QED
    BY <1>2, <2>1, <2>2, VisitKeepsPace
<1>4. CASE \E v \in Nodes : Revisit(v)
  <2>1. PICK v \in Nodes : Revisit(v)
    BY <1>4
  <2> DEFINE queue == [pending EXCEPT ![v] = @ - 1]
  <2>2. /\ Visit(v, queue) /\ v < upcoming /\ queue \in [Nodes -> Nat] /\ upcoming' = upcoming
        /\ \A m \in Nodes : Known(m) => queue[m] = 0
    BY <2>1, RevisitFacts
  <2>3. v <= upcoming /\ \A m \in Nodes : m # v => queue[m] = pending[m]
    BY <1>1, <1>2, <2>2
  <2>4. \A m \in Nodes : m < upcoming' => m < upcoming \/ m = v
    BY <2>2
  <2> HIDE DEF queue
  <2> QED
    BY <2>2, <2>3, <2>4, VisitKeepsPace
<1>5. CASE Applied
  BY <1>5, ApplyKeepsPace DEF Applied
<1>6. CASE Abort \/ UNCHANGED vars
  <2>1. circuit' = circuit /\ lattice' = lattice /\ pending' = pending /\ upcoming' = upcoming
    BY <1>6 DEF Abort, vars
  <2> QED
    BY <2>1 DEF UpToDate, Known, Rejected, Operands
<1> QED
  BY <1>3, <1>4, <1>5, <1>6, ApplyCases DEF Next

(* Whatever circuit is analysed, over whatever field and in whatever order    *)
(* the queue is served: once the solver is idle, what is asserted is true (or *)
(* ruled out) and the sides of an equality have one interval, unless what two *)
(* different ones share is Entire; and no result is left behind when one of   *)
(* its operands narrows, save by a meet of a "C" with an "F".                 *)
THEOREM SettledWhenIdle == Spec => Settled
<1>1. IInv /\ [Next]_vars => [\A n \in Nodes : UpToDate(n) => UpToDate(n)' \/ LooseMeet(n)]_vars
  BY StepKeepsPace
<1>2. Init => IInv /\ SettledInv
  BY InitKeeps, InitSettled
<1>3. (IInv /\ SettledInv) /\ [Next]_vars => (IInv /\ SettledInv)'
  BY Inductive, SettledInductive
<1>4. IInv /\ SettledInv => (Idle => ConstraintsMet)
  BY SettledSuffices
<1> QED
  BY <1>1, <1>2, <1>3, <1>4, PTL DEF Spec, Settled

=============================================================================
