------------------------ MODULE FlatteningDriver_proofs ------------------------
(***************************************************************************)
(* What is proved of the instantiation loop of FlatteningDriver, for every *)
(* well-formed unit, every limit and every modulus: the unit stays well    *)
(* formed, no struct is the clone of two types, and every use finds its    *)
(* definition.  All of it rests on the names of instances being new.       *)
(***************************************************************************)
EXTENDS FlatteningDriver, FiniteSetTheorems, SequenceTheorems, TLAPS

-----------------------------------------------------------------------------
(* Counting *)

Below == {ss \in Nat \X Nat : ss[1] < ss[2]}

LEMMA Least ==
  ASSUME NEW T, T \subseteq Nat, T # {}
  PROVE  \E x \in T : \A y \in T : x <= y
<1>1. IsWellFoundedOn(Below, Nat)
  BY NatLessThanWellFounded, Zenon DEF OpToRel, Below
<1>2. PICK x \in T : \A y \in T : ~ (<<y, x>> \in Below)
  BY <1>1, WFMin
<1>3. \A y \in T : x \in Nat /\ y \in Nat /\ ~ (y < x)
  BY <1>2 DEF Below
<1> QED
  BY <1>3

LEMMA SameSize ==
  ASSUME NEW S, NEW T, NEW f \in [S -> T], IsFiniteSet(T),
         \A x, y \in S : f[x] = f[y] => x = y,
         \A y \in T : \E x \in S : f[x] = y
  PROVE  IsFiniteSet(S) /\ Cardinality(S) = Cardinality(T)
<1>1. f \in Injection(S, T) /\ f \in Surjection(S, T)
  BY DEF Injection, Surjection, IsInjective
<1> QED
  BY <1>1, FS_Injection

LEMMA SmallerSize ==
  ASSUME NEW T, IsFiniteSet(T), NEW S, S \subseteq T, S # T
  PROVE  IsFiniteSet(S) /\ Cardinality(S) \in Nat /\ Cardinality(T) \in Nat /\ Cardinality(S) < Cardinality(T)
<1>1. IsFiniteSet(S) /\ Cardinality(S) <= Cardinality(T) /\ Cardinality(S) # Cardinality(T)
  BY FS_Subset
<1> QED
  BY <1>1, FS_CardinalityType

(* The ranks of the places are the numbers from one to how many there are. *)
LEMMA RankFacts ==
  ASSUME NEW S, IsFiniteSet(S), S \subseteq Nat
  PROVE  /\ Cardinality(S) \in Nat
         /\ \A i \in S : Rank(S, i) \in 1..Cardinality(S)
         /\ \A i, j \in S : Rank(S, i) = Rank(S, j) => i = j
         /\ \A k \in 1..Cardinality(S) : \E i \in S : Rank(S, i) = k
<1> DEFINE upTo(i) == {j \in S : j <= i}
<1>1. Cardinality(S) \in Nat
  BY FS_CardinalityType
<1>2. \A i \in S : Rank(S, i) \in 1..Cardinality(S)
  <2> SUFFICES ASSUME NEW i \in S PROVE Rank(S, i) \in 1..Cardinality(S)
    OBVIOUS
  <2>1. IsFiniteSet(upTo(i)) /\ Cardinality(upTo(i)) <= Cardinality(S)
    BY FS_Subset
  <2>2. i \in upTo(i)
    OBVIOUS
  <2>3. Cardinality(upTo(i)) \in Nat /\ Cardinality(upTo(i)) # 0
    BY <2>1, <2>2, FS_CardinalityType, FS_EmptySet
  <2> QED
    BY <1>1, <2>1, <2>3 DEF Rank
<1>3. \A i, j \in S : i < j => Rank(S, i) < Rank(S, j)
  <2> SUFFICES ASSUME NEW i \in S, NEW j \in S, i < j PROVE Rank(S, i) < Rank(S, j)
    OBVIOUS
  <2>1. upTo(i) \subseteq upTo(j) /\ j \in upTo(j) /\ j \notin upTo(i)
    <3>1. i \in Nat /\ j \in Nat /\ \A k \in S : k \in Nat
      OBVIOUS
    <3>2. ASSUME NEW k \in S, k <= i PROVE k <= j
      BY <3>1, <3>2
    <3>3. j <= j /\ ~ (j <= i)
      BY <3>1
    <3> QED
      BY <3>2, <3>3
  <2>2. IsFiniteSet(upTo(j))
    BY FS_Subset
  <2> QED
    BY <2>1, <2>2, SmallerSize DEF Rank
<1>4. \A i, j \in S : Rank(S, i) = Rank(S, j) => i = j
  <2> SUFFICES ASSUME NEW i \in S, NEW j \in S, Rank(S, i) = Rank(S, j) PROVE i = j
    OBVIOUS
  <2>1. Rank(S, i) \in Nat /\ Rank(S, j) \in Nat /\ i \in Nat /\ j \in Nat
    BY <1>1, <1>2
  <2> QED
    BY <1>3, <2>1
<1>5. \A k \in 1..Cardinality(S) : \E i \in S : Rank(S, i) = k
  <2> DEFINE C == 1..Cardinality(S)
             rank == [i \in S |-> Rank(S, i)]
  <2>1. rank \in [S -> C] /\ rank \in Injection(S, C)
    BY <1>2, <1>4 DEF Injection, IsInjective
  <2>2. IsFiniteSet(C) /\ Cardinality(C) = Cardinality(S)
    BY <1>1, FS_Interval
  <2>3. rank \in Surjection(S, C)
    BY <2>1, <2>2, FS_Injection
  <2> QED
    BY <2>3 DEF Surjection
<1> QED
  BY <1>1, <1>2, <1>4, <1>5

(* A subsequence has what the sequence has at the places, as often. *)
LEMMA SubsequenceFacts ==
  ASSUME NEW T, NEW seq \in Seq(T), NEW S, S \subseteq DOMAIN seq
  PROVE  /\ IsFiniteSet(S) /\ Cardinality(S) \in Nat
         /\ Subsequence(seq, S) \in Seq(T) /\ Len(Subsequence(seq, S)) = Cardinality(S)
         /\ ToSet(Subsequence(seq, S)) = {seq[i] : i \in S}
         /\ (\A i, j \in DOMAIN seq : seq[i] = seq[j] => i = j) =>
              \A i, j \in DOMAIN Subsequence(seq, S) :
                Subsequence(seq, S)[i] = Subsequence(seq, S)[j] => i = j
<1>1. DOMAIN seq = 1..Len(seq) /\ Len(seq) \in Nat
  OBVIOUS
<1>2. IsFiniteSet(S) /\ S \subseteq Nat
  <2>1. S \in SUBSET (1..Len(seq)) /\ IsFiniteSet(1..Len(seq))
    BY <1>1, FS_Interval
  <2> QED
    BY <2>1, FS_Subset
<1>3. Cardinality(S) \in Nat
  BY <1>2, FS_CardinalityType
<1> DEFINE n == Cardinality(S)
           at(k) == CHOOSE i \in S : Rank(S, i) = k
           sub == Subsequence(seq, S)
<1>4. \A k \in 1..n : at(k) \in S /\ Rank(S, at(k)) = k
  BY <1>2, RankFacts
<1>5. sub = [k \in 1..n |-> seq[at(k)]]
  BY DEF Subsequence
<1>6. sub \in Seq(T) /\ Len(sub) = n /\ DOMAIN sub = 1..n
  <2>1. \A k \in 1..n : seq[at(k)] \in T
    BY <1>4
  <2>2. sub \in [1..n -> T]
    BY <1>5, <2>1
  <2> QED
    BY <1>3, <2>2
<1>7. ToSet(sub) = {seq[i] : i \in S}
  <2>1. ToSet(sub) = {sub[k] : k \in 1..n}
    BY <1>6 DEF ToSet
  <2>2. ASSUME NEW k \in 1..n PROVE sub[k] \in {seq[i] : i \in S}
    BY <1>4, <1>5
  <2>3. ASSUME NEW i \in S PROVE \E k \in 1..n : sub[k] = seq[i]
    <3>1. Rank(S, i) \in 1..n
      BY <1>2, RankFacts
    <3>2. at(Rank(S, i)) = i
      BY <1>4, <3>1, <1>2, RankFacts
    <3> QED
      BY <3>1, <3>2, <1>5
  <2> QED
    BY <2>1, <2>2, <2>3
<1>8. ASSUME \A i, j \in DOMAIN seq : seq[i] = seq[j] => i = j
      PROVE  \A i, j \in DOMAIN sub : sub[i] = sub[j] => i = j
  <2> SUFFICES ASSUME NEW i \in 1..n, NEW j \in 1..n, sub[i] = sub[j] PROVE i = j
    BY <1>6
  <2>1. at(i) = at(j)
    BY <1>4, <1>5, <1>8
  <2> QED
    BY <2>1, <1>4
<1> QED
  BY <1>2, <1>3, <1>6, <1>7, <1>8

-----------------------------------------------------------------------------
(* Names *)

Open(args) == {i \in DOMAIN args : ~Concrete(args[i])}

LEMMA TextFacts ==
  ASSUME NEW a \in Attributes
  PROVE  /\ Text(a) \in Parts
         /\ Text(a) = Placeholder <=> ~Concrete(a)
         /\ Concrete(a) => Text(a).text = ""
<1>1. Text(a) \in Parts
  <2>1. a.value \in Int
    BY DEF Attributes
  <2>2. \A w \in Words \cup {"", "?"}, n \in Int : [text |-> w, number |-> n] \in Parts
    BY DEF Parts
  <2>3. "" \in Words \cup {"", "?"} /\ "?" \in Words \cup {"", "?"} /\ 0 \in Int
    OBVIOUS
  <2>4. Number(a.value) \in Parts
    BY <2>1, <2>2, <2>3, Zenon DEF Number
  <2>5. Placeholder \in Parts
    BY <2>2, <2>3, Zenon DEF Placeholder, Word
  <2> QED
    BY <2>4, <2>5 DEF Text
<1>2. \A n : Number(n) # Placeholder
  <2> SUFFICES ASSUME NEW n PROVE Number(n).text # Placeholder.text
    OBVIOUS
  <2> QED
    BY DEF Number, Placeholder, Word
<1>3. Concrete(a) => Text(a).text = ""
  BY DEF Text, Number
<1> QED
  BY <1>1, <1>2, <1>3 DEF Text

LEMMA PlacesFacts ==
  ASSUME NEW name \in Names
  PROVE  /\ name \in Seq(Parts)
         /\ Places(name) \subseteq DOMAIN name /\ Places(name) \subseteq Nat
         /\ IsFiniteSet(Places(name)) /\ Cardinality(Places(name)) \in Nat
         /\ Cardinality(Places(name)) = 0 <=> Places(name) = {}
<1>1. name \in Seq(Parts) /\ DOMAIN name = 1..Len(name) /\ Len(name) \in Nat
  BY DEF Names
<1>2. Places(name) \in SUBSET (1..Len(name)) /\ IsFiniteSet(1..Len(name))
  BY <1>1, FS_Interval DEF Places
<1>3. IsFiniteSet(Places(name))
  BY <1>2, FS_Subset
<1> QED
  BY <1>1, <1>2, <1>3, FS_CardinalityType, FS_EmptySet

(* The assertion of BuildShortTypeString::from: there is an attribute for   *)
(* every placeholder.  A name then has a placeholder for each attribute     *)
(* that is left open, and has the values of the others in it.               *)
LEMMA ShortTypeStringFacts ==
  ASSUME NEW base \in Names, NEW args \in Seq(Attributes),
         Places(base) = {} \/ Cardinality(Places(base)) = Len(args)
  PROVE  LET label == ShortTypeString(base, args)
         IN /\ label \in Names
            /\ base # ModuleLevel => label # ModuleLevel
            /\ Cardinality(Places(label)) = Cardinality(Open(args))
            /\ (\E i \in DOMAIN args : Concrete(args[i])) => \E i \in DOMAIN label : label[i].text = ""
<1> DEFINE text == [i \in DOMAIN args |-> Text(args[i])]
           places == Places(base)
           left == [i \in DOMAIN base |-> IF i \in places THEN text[Rank(places, i)] ELSE base[i]]
           right == SubSeq(text, Cardinality(places) + 1, Len(text))
           label == ShortTypeString(base, args)
<1>1. label = left \o right
  BY DEF ShortTypeString
<1>2. /\ DOMAIN args = 1..Len(args) /\ Len(args) \in Nat
      /\ DOMAIN base = 1..Len(base) /\ Len(base) \in Nat
      /\ base \in Seq(Parts)
  BY DEF Names
<1>3. /\ text \in Seq(Parts) /\ Len(text) = Len(args)
      /\ \A i \in 1..Len(args) : text[i] \in Parts /\ (text[i] = Placeholder <=> i \in Open(args))
                                 /\ (i \notin Open(args) => text[i].text = "")
  <2>1. \A i \in 1..Len(args) : args[i] \in Attributes
    BY <1>2
  <2>2. \A i \in 1..Len(args) : text[i] \in Parts /\ (text[i] = Placeholder <=> i \in Open(args))
                                 /\ (i \notin Open(args) => text[i].text = "")
    BY <1>2, <2>1, TextFacts DEF Open
  <2>3. text \in [1..Len(args) -> Parts]
    BY <1>2, <2>2
  <2>4. text \in Seq(Parts) /\ Len(text) = Len(args)
    BY <1>2, <2>3
  <2> QED
    BY <2>2, <2>4
<1>4. /\ IsFiniteSet(places) /\ places \subseteq Nat /\ places \subseteq 1..Len(base)
      /\ Cardinality(places) \in Nat /\ (Cardinality(places) = 0 <=> places = {})
  BY <1>2, PlacesFacts
<1>5. IsFiniteSet(Open(args)) /\ Open(args) \subseteq 1..Len(args)
  <2>1. Open(args) \in SUBSET (1..Len(args)) /\ IsFiniteSet(1..Len(args))
    BY <1>2, FS_Interval DEF Open
  <2> QED
    BY <2>1, FS_Subset
<1>6. CASE places = {}
  <2>1. left = base
    BY <1>2, <1>6
  <2>2. Cardinality(places) = 0
    BY <1>4, <1>6
  <2>3. right = text
    <3> HIDE DEF text
    <3>1. right = SubSeq(text, 1, Len(text))
      BY <2>2
    <3> QED
      BY <3>1, <1>3, SubSeqFull
  <2> DEFINE m == Len(base)
             whole == base \o text
  <2>4. label = whole
    BY <1>1, <2>1, <2>3
  <2> HIDE DEF text, label
  <2>5. /\ whole \in Seq(Parts) /\ Len(whole) = m + Len(args) /\ DOMAIN whole = 1..(m + Len(args))
        /\ \A i \in 1..m : whole[i] = base[i]
        /\ \A i \in 1..Len(args) : whole[m + i] = text[i]
    <3>1. /\ whole \in Seq(Parts) /\ Len(whole) = m + Len(args)
          /\ \A i \in 1..(m + Len(args)) : whole[i] = IF i <= m THEN base[i] ELSE text[i - m]
      <4>1. base \in Seq(Parts) /\ text \in Seq(Parts) /\ Len(text) = Len(args)
        BY <1>2, <1>3
      <4>2. /\ base \o text \in Seq(Parts) /\ Len(base \o text) = Len(base) + Len(text)
            /\ \A i \in 1..(Len(base) + Len(text)) :
                 (base \o text)[i] = IF i <= Len(base) THEN base[i] ELSE text[i - Len(base)]
        BY <4>1, ConcatProperties
      <4> QED
        BY <4>1, <4>2
    <3>2. ASSUME NEW i \in 1..Len(args) PROVE m + i \in 1..(m + Len(args)) /\ ~ (m + i <= m) /\ (m + i) - m = i
      BY <1>2
    <3>3. ASSUME NEW i \in 1..m PROVE i \in 1..(m + Len(args)) /\ i <= m
      BY <1>2
    <3> HIDE DEF whole, m
    <3>4. DOMAIN whole = 1..(m + Len(args))
      BY <3>1
    <3>5. \A i \in 1..m : whole[i] = base[i]
      BY <3>1, <3>3
    <3>6. ASSUME NEW i \in 1..Len(args) PROVE whole[m + i] = text[i]
      <4>1. whole[m + i] = text[(m + i) - m]
        BY <3>1, <3>2
      <4> QED
        BY <4>1, <3>2
    <3> QED
      BY <3>1, <3>4, <3>5, <3>6
  <2>6. \A i \in 1..(m + Len(args)) : i \notin 1..m => i - m \in 1..Len(args) /\ i = m + (i - m)
    BY <1>2
  <2>7. \A i \in 1..m : base[i] # Placeholder
    BY <1>2, <1>6 DEF Places
  <2>8. Places(whole) = {m + i : i \in Open(args)}
    <3>1. ASSUME NEW i \in Places(whole) PROVE i \in {m + j : j \in Open(args)}
      <4>1. i \in 1..(m + Len(args)) /\ whole[i] = Placeholder
        BY <2>5 DEF Places
      <4>2. i \notin 1..m
        BY <4>1, <2>5, <2>7
      <4>3. i - m \in 1..Len(args) /\ i = m + (i - m)
        BY <4>1, <4>2, <2>6
      <4>4. text[i - m] = Placeholder
        BY <4>1, <4>3, <2>5
      <4>5. i - m \in Open(args)
        BY <1>3, <4>3, <4>4
      <4> QED
        BY <4>3, <4>5
    <3>2. ASSUME NEW j \in Open(args) PROVE m + j \in Places(whole)
      <4>1. j \in 1..Len(args)
        BY <1>5
      <4>2. whole[m + j] = Placeholder
        BY <4>1, <1>3, <2>5
      <4>3. m + j \in 1..(m + Len(args))
        BY <4>1, <1>2
      <4> QED
        BY <4>2, <4>3, <2>5 DEF Places
    <3> QED
      BY <3>1, <3>2
  <2>9. Cardinality(Places(whole)) = Cardinality(Open(args))
    <3> DEFINE f == [i \in Places(whole) |-> i - m]
    <3>1. \A i \in Places(whole) : i - m \in Open(args) /\ i \in Int
      <4> SUFFICES ASSUME NEW j \in Open(args) PROVE (m + j) - m = j /\ m + j \in Int
        BY <2>8
      <4> QED
        BY <1>2, <1>5
    <3>2. f \in [Places(whole) -> Open(args)]
      BY <3>1
    <3>3. \A x, y \in Places(whole) : f[x] = f[y] => x = y
      BY <3>1, <1>2
    <3>4. \A j \in Open(args) : \E x \in Places(whole) : f[x] = j
      <4> SUFFICES ASSUME NEW j \in Open(args) PROVE m + j \in Places(whole) /\ (m + j) - m = j
        OBVIOUS
      <4>1. m + j \in Places(whole)
        BY <2>8
      <4> QED
        BY <4>1, <1>2, <1>5
    <3> HIDE DEF f
    <3> QED
      BY <3>2, <3>3, <3>4, <1>5, SameSize
  <2>10. base # ModuleLevel => whole # ModuleLevel
    BY <1>2, <2>5 DEF ModuleLevel
  <2>11. ASSUME NEW i \in DOMAIN args, Concrete(args[i]) PROVE \E k \in DOMAIN whole : whole[k].text = ""
    <3>1. i \in 1..Len(args) /\ i \notin Open(args)
      BY <1>2, <2>11 DEF Open
    <3>2. whole[m + i].text = ""
      BY <3>1, <1>3, <2>5
    <3>3. m + i \in DOMAIN whole
      BY <3>1, <2>5, <1>2
    <3> QED
      BY <3>2, <3>3
  <2>12. whole \in Names
    BY <2>5 DEF Names
  <2> QED
    BY <2>4, <2>9, <2>10, <2>11, <2>12 DEF label
<1>7. CASE places # {}
  <2>1. Cardinality(places) = Len(args)
    BY <1>7
  <2> DEFINE r(i) == Rank(places, i)
  <2>2. /\ \A i \in places : r(i) \in 1..Len(args)
        /\ \A i, j \in places : r(i) = r(j) => i = j
        /\ \A k \in 1..Len(args) : \E i \in places : r(i) = k
    BY <1>4, <2>1, RankFacts
  <2>3. right = <<>>
    <3> HIDE DEF text
    <3>1. right = SubSeq(text, Len(args) + 1, Len(args))
      BY <1>3, <2>1
    <3>2. Len(args) + 1 \in Int /\ Len(args) \in Int /\ Len(args) < Len(args) + 1
      BY <1>2
    <3> QED
      BY <3>1, <3>2, SubSeqEmpty
  <2> HIDE DEF text
  <2>4. left \in Seq(Parts) /\ Len(left) = Len(base) /\ DOMAIN left = 1..Len(base)
    <3>1. \A i \in 1..Len(base) : left[i] \in Parts
      <4> SUFFICES ASSUME NEW i \in 1..Len(base) PROVE left[i] \in Parts
        OBVIOUS
      <4>1. left[i] = IF i \in places THEN text[r(i)] ELSE base[i]
        BY <1>2
      <4>2. base[i] \in Parts
        BY <1>2
      <4>3. i \in places => text[r(i)] \in Parts
        BY <2>2, <1>3
      <4> QED
        BY <4>1, <4>2, <4>3
    <3>2. left \in [1..Len(base) -> Parts]
      BY <3>1, <1>2
    <3> QED
      BY <3>2, <1>2
  <2>5. \A i \in 1..Len(base) : left[i] = IF i \in places THEN text[r(i)] ELSE base[i]
    BY <1>2
  <2>6. label = left
    <3> HIDE DEF left, right, label
    <3> QED
      BY <1>1, <2>3, <2>4
  <2> HIDE DEF left, r, label
  <2>7. \A i \in 1..Len(base) : left[i] = Placeholder <=> i \in places /\ r(i) \in Open(args)
    <3> SUFFICES ASSUME NEW i \in 1..Len(base) PROVE left[i] = Placeholder <=> i \in places /\ r(i) \in Open(args)
      OBVIOUS
    <3>1. CASE i \in places
      BY <3>1, <1>3, <2>2, <2>5
    <3>2. CASE i \notin places
      <4>1. base[i] # Placeholder
        BY <3>2, <1>2 DEF Places
      <4> QED
        BY <3>2, <4>1, <2>5
    <3> QED
      BY <3>1, <3>2
  <2>8. Places(left) = {i \in places : r(i) \in Open(args)}
    BY <2>4, <2>7, <1>4 DEF Places
  <2>9. Cardinality(Places(left)) = Cardinality(Open(args))
    <3> DEFINE f == [i \in Places(left) |-> r(i)]
    <3>1. f \in [Places(left) -> Open(args)]
      BY <2>8
    <3>2. \A x, y \in Places(left) : f[x] = f[y] => x = y
      BY <2>2, <2>8
    <3>3. \A k \in Open(args) : \E x \in Places(left) : f[x] = k
      <4> SUFFICES ASSUME NEW k \in Open(args) PROVE \E x \in Places(left) : r(x) = k
        OBVIOUS
      <4>1. PICK x \in places : r(x) = k
        BY <2>2, <1>5
      <4> QED
        BY <4>1, <2>8
    <3> HIDE DEF f
    <3> QED
      BY <3>1, <3>2, <3>3, <1>5, SameSize
  <2>10. base # ModuleLevel => left # ModuleLevel
    BY <1>2, <2>4 DEF ModuleLevel
  <2>11. ASSUME NEW i \in DOMAIN args, Concrete(args[i]) PROVE \E k \in DOMAIN left : left[k].text = ""
    <3>1. i \in 1..Len(args) /\ i \notin Open(args)
      BY <1>2, <2>11 DEF Open
    <3>2. PICK k \in places : r(k) = i
      BY <3>1, <2>2
    <3>3. left[k] = text[i]
      BY <3>2, <1>4, <2>5
    <3> QED
      BY <3>1, <3>2, <3>3, <1>3, <1>4, <2>4
  <2>12. left \in Names
    BY <2>4 DEF Names
  <2> QED
    BY <2>6, <2>9, <2>10, <2>11, <2>12 DEF label
<1> QED
  BY <1>6, <1>7

LEMMA ModuleSymbolsFinite ==
  ASSUME IsFiniteSet(DOMAIN templates), IsFiniteSet(DOMAIN defs)
  PROVE  IsFiniteSet(ModuleSymbols)
<1> DEFINE D == {e \in DOMAIN defs : e.template = ModuleLevel}
           N == {d.name : d \in D}
           f == [d \in D |-> d.name]
<1>1. IsFiniteSet(D)
  BY FS_Subset
<1>2. f \in Surjection(D, N)
  BY DEF Surjection
<1>3. IsFiniteSet(N)
  BY <1>1, <1>2, FS_Surjection
<1> QED
  BY <1>3, FS_Union DEF ModuleSymbols

(* The name a symbol table gives is new, and as open as the one asked for. *)
LEMMA UniqueNameFacts ==
  ASSUME IsFiniteSet(DOMAIN templates), IsFiniteSet(DOMAIN defs), NEW name \in Names
  PROVE  /\ UniqueName(name) \in Names
         /\ UniqueName(name) \notin ModuleSymbols
         /\ Places(UniqueName(name)) = Places(name)
         /\ name # ModuleLevel => UniqueName(name) # ModuleLevel
         /\ \A i \in DOMAIN name : i \in DOMAIN UniqueName(name) /\ UniqueName(name)[i] = name[i]
<1> DEFINE c == Cardinality(ModuleSymbols)
           free == {k \in 0..c : Append(name, Number(k)) \notin ModuleSymbols}
           least == CHOOSE k \in free : \A j \in free : k <= j
<1>1. IsFiniteSet(ModuleSymbols) /\ c \in Nat
  BY ModuleSymbolsFinite, FS_CardinalityType
<1>2. name \in Seq(Parts) /\ \A k \in Nat : Number(k) \in Parts /\ Number(k) # Placeholder
  <2>1. name \in Seq(Parts)
    BY DEF Names
  <2>2. ASSUME NEW k \in Nat PROVE Number(k) \in Parts /\ Number(k) # Placeholder
    <3>1. Const(k) \in Attributes /\ Concrete(Const(k)) /\ Text(Const(k)) = Number(k)
      BY DEF Const, Concrete, Attributes, Text
    <3> QED
      BY <3>1, TextFacts
  <2> QED
    BY <2>1, <2>2
<1>3. CASE name \notin ModuleSymbols
  BY <1>3 DEF UniqueName
<1>4. CASE name \in ModuleSymbols
  <2>1. free # {}
    <3> SUFFICES ASSUME free = {} PROVE FALSE
      OBVIOUS
    <3> DEFINE f == [k \in 0..c |-> Append(name, Number(k))]
    <3>1. \A k \in 0..c : Append(name, Number(k)) \in ModuleSymbols
      OBVIOUS
    <3>2. \A j, k \in 0..c : Append(name, Number(j)) = Append(name, Number(k)) => j = k
      <4> SUFFICES ASSUME NEW j \in 0..c, NEW k \in 0..c, Append(name, Number(j)) = Append(name, Number(k))
                   PROVE  j = k
        OBVIOUS
      <4>1. Number(j) = Number(k)
        BY <1>2, AppendInjective
      <4>2. Number(j).number = Number(k).number
        BY <4>1
      <4> QED
        BY <4>2 DEF Number
    <3>3. f \in Injection(0..c, ModuleSymbols)
      BY <3>1, <3>2 DEF Injection, IsInjective
    <3> HIDE DEF f
    <3>4. Cardinality(0..c) <= c
      BY <1>1, <3>3, FS_Injection
    <3>5. Cardinality(0..c) = c + 1
      BY <1>1, FS_Interval
    <3> QED
      BY <1>1, <3>4, <3>5
  <2>2. least \in free
    <3>1. \E k \in free : \A j \in free : k <= j
      <4>1. free \subseteq Nat
        OBVIOUS
      <4> QED
        BY <2>1, <4>1, Least
    <3> HIDE DEF free
    <3> QED
      BY <3>1
  <2>3. least \in Nat /\ Append(name, Number(least)) \notin ModuleSymbols
    BY <2>2
  <2>4. UniqueName(name) = Append(name, Number(least))
    BY <1>4 DEF UniqueName
  <2> HIDE DEF least
  <2>5. /\ Append(name, Number(least)) \in Seq(Parts)
        /\ Append(name, Number(least)) # <<>>
        /\ Len(Append(name, Number(least))) = Len(name) + 1
        /\ \A i \in 1..Len(name) : Append(name, Number(least))[i] = name[i]
        /\ Append(name, Number(least))[Len(name) + 1] = Number(least)
    BY <1>2, <2>3, AppendProperties
  <2> DEFINE longer == Append(name, Number(least))
  <2> HIDE DEF longer
  <2>6. DOMAIN longer = 1..(Len(name) + 1) /\ DOMAIN name = 1..Len(name) /\ Len(name) \in Nat
    BY <2>5, <1>2 DEF longer
  <2>7. \A i \in DOMAIN longer : i \in DOMAIN name \/ i = Len(name) + 1
    BY <2>6
  <2>8. longer[Len(name) + 1] # Placeholder /\ Len(name) + 1 \notin DOMAIN name
    BY <1>2, <2>3, <2>5, <2>6 DEF longer
  <2>9. \A i \in DOMAIN name : i \in DOMAIN longer /\ longer[i] = name[i]
    BY <2>5, <2>6 DEF longer
  <2>10. Places(longer) = Places(name)
    BY <2>7, <2>8, <2>9 DEF Places
  <2> QED
    BY <2>3, <2>4, <2>5, <2>9, <2>10 DEF longer, Names, ModuleLevel
<1> QED
  BY <1>3, <1>4

-----------------------------------------------------------------------------
(* The unit: its templates, its definitions, and the uses in them *)

(* The templates of the program stay; a clone has as many parameters as its *)
(* name has placeholders, and no expressions.                               *)
TemplatesOK(ts) ==
  /\ IsFiniteSet(DOMAIN ts) /\ ModuleLevel \notin DOMAIN ts
  /\ \A t \in DOMAIN program.templates : t \in DOMAIN ts /\ ts[t] = program.templates[t]
  /\ \A t \in DOMAIN ts \ DOMAIN program.templates :
       /\ t \in Names
       /\ ts[t].params \in Seq(Words) /\ ts[t].params # <<>>
       /\ \A i, j \in DOMAIN ts[t].params : ts[t].params[i] = ts[t].params[j] => i = j
       /\ Cardinality(Places(t)) = Len(ts[t].params)
       /\ ts[t].exprs = <<>>

IsDef(def) ==
  /\ def = [kind |-> def.kind, body |-> def.body, origin |-> def.origin, values |-> def.values]
  /\ def.origin \in DOMAIN program.defs
  /\ def.body \subseteq Uses

DefsOK(ts, ds) ==
  /\ IsFiniteSet(DOMAIN ds) /\ ds = [d \in DOMAIN ds |-> ds[d]]
  /\ \A d \in DOMAIN ds :
       /\ d \in Paths /\ d.template \in DOMAIN ts \cup {ModuleLevel}
       /\ d.template # ModuleLevel => Places(d.name) = {}
       /\ IsDef(ds[d])
  /\ \A t \in DOMAIN ts \ DOMAIN program.templates : \E d \in DOMAIN ds : d.template = t

Found(ts, ds, u) ==
  \/ u.callee \in DOMAIN ds /\ Len(ParamsIn(ts, u.callee)) = Len(u.args)
  \/ u.callee \notin DOMAIN ds /\ u.callee.template \in DOMAIN ts \ DOMAIN program.templates

Fits(ts, ds, d, u) ==
  /\ Found(ts, ds, u)
  /\ NoExpressionLeft(program) => NamesIn(u) \subseteq DeclaredIn(ts, d)

Well(ts, ds) ==
  /\ TemplatesOK(ts) /\ DefsOK(ts, ds)
  /\ \A d \in DOMAIN ds : \A u \in ds[d].body : Fits(ts, ds, d, u)

LEMMA TemplateFacts ==
  ASSUME program \in Programs, NEW ts, TemplatesOK(ts), NEW t \in DOMAIN ts
  PROVE  /\ t \in Names /\ t # ModuleLevel
         /\ ts[t].params \in Seq(Words)
         /\ \A i, j \in DOMAIN ts[t].params : ts[t].params[i] = ts[t].params[j] => i = j
         /\ Places(t) = {} \/ Cardinality(Places(t)) = Len(ts[t].params)
         /\ DOMAIN ts[t].exprs \cap ToSet(ts[t].params) = {}
         /\ \A e \in DOMAIN ts[t].exprs : /\ ts[t].exprs[e].of \in ToSet(ts[t].params)
                                         /\ ts[t].exprs[e].plus \in Int
<1>1. t # ModuleLevel
  BY DEF TemplatesOK
<1>2. CASE t \in DOMAIN program.templates
  <2>1. IsTemplate(t, program.templates[t]) /\ ts[t] = program.templates[t]
    BY <1>2, FlatteningAssumption DEF IsUnit, TemplatesOK
  <2>2. \A i \in DOMAIN t : t[i].text \in Words
    BY <2>1 DEF IsTemplate
  <2>3. Places(t) = {}
    <3> SUFFICES ASSUME NEW i \in DOMAIN t PROVE t[i] # Placeholder
      BY DEF Places
    <3>1. Placeholder.text \notin Words
      BY FlatteningAssumption DEF Placeholder, Word
    <3> QED
      BY <2>2, <3>1
  <2> QED
    BY <1>1, <2>1, <2>3 DEF IsTemplate
<1>3. CASE t \notin DOMAIN program.templates
  <2>1. DOMAIN ts[t].exprs = {}
    BY <1>3 DEF TemplatesOK
  <2> QED
    BY <1>1, <1>3, <2>1 DEF TemplatesOK
<1> QED
  BY <1>2, <1>3

(* Uses may be replaced by others that fit. *)
LEMMA BodiesChange ==
  ASSUME NEW ts, NEW ds, Well(ts, ds), NEW new, new = [d \in DOMAIN ds |-> new[d]],
         \A d \in DOMAIN ds : IsDef(new[d]) /\ \A u \in new[d].body : Fits(ts, ds, d, u)
  PROVE  Well(ts, new)
<1>1. DOMAIN new = DOMAIN ds
  OBVIOUS
<1>2. TemplatesOK(ts)
  BY DEF Well
<1>3. DefsOK(ts, new)
  <2>1. \A d \in DOMAIN new : /\ d \in Paths /\ d.template \in DOMAIN ts \cup {ModuleLevel}
                              /\ d.template # ModuleLevel => Places(d.name) = {}
    BY <1>1 DEF Well, DefsOK
  <2>2. /\ IsFiniteSet(DOMAIN new)
        /\ \A t \in DOMAIN ts \ DOMAIN program.templates : \E d \in DOMAIN new : d.template = t
    BY <1>1 DEF Well, DefsOK
  <2> QED
    BY <1>1, <2>1, <2>2 DEF DefsOK
<1>4. ASSUME NEW d \in DOMAIN new, NEW u \in new[d].body PROVE Fits(ts, new, d, u)
  <2>1. Fits(ts, ds, d, u)
    BY <1>1
  <2> QED
    BY <1>1, <2>1 DEF Fits, Found
<1> QED
  BY <1>2, <1>3, <1>4 DEF Well

(* A clone names what its original names, without what has a value. *)
LEMMA CloneFacts ==
  ASSUME NEW def, IsDef(def), NEW value,
         \A p \in DOMAIN value : value[p] \in Attributes /\ value[p].kind = "const"
  PROVE  /\ IsDef(Clone(def, value))
         /\ \A w \in Clone(def, value).body : \E u \in def.body :
              /\ w.kind = u.kind /\ w.callee = u.callee
              /\ Len(w.args) = Len(u.args)
              /\ NamesIn(w) \subseteq NamesIn(u) \ DOMAIN value
<1> DEFINE turned(u) == [u EXCEPT !.args = [i \in DOMAIN u.args |-> Converted(u.args[i], value)],
                                  !.loop = Converted(u.loop, value)]
<1>1. \A a \in Attributes : Converted(a, value) \in Attributes
  BY DEF Converted
<1>2. \A a \in Attributes : Converted(a, value).kind = "symbol" =>
        Converted(a, value) = a /\ a.name \notin DOMAIN value
  BY DEF Converted
<1>3. ASSUME NEW u \in def.body
      PROVE  /\ turned(u) \in Uses /\ turned(u).kind = u.kind /\ turned(u).callee = u.callee
             /\ Len(turned(u).args) = Len(u.args)
             /\ NamesIn(turned(u)) \subseteq NamesIn(u) \ DOMAIN value
  <2>1. u \in Uses /\ u.args \in Seq(Attributes) /\ u.loop \in Attributes
    BY DEF IsDef, Uses
  <2>2. DOMAIN u.args = 1..Len(u.args) /\ Len(u.args) \in Nat /\ \A i \in 1..Len(u.args) : u.args[i] \in Attributes
    BY <2>1
  <2> DEFINE args == [i \in DOMAIN u.args |-> Converted(u.args[i], value)]
  <2>3. args \in Seq(Attributes) /\ Len(args) = Len(u.args) /\ DOMAIN args = 1..Len(u.args)
    <3>1. \A i \in 1..Len(u.args) : Converted(u.args[i], value) \in Attributes
      BY <1>1, <2>2
    <3>2. args \in [1..Len(u.args) -> Attributes]
      BY <2>2, <3>1
    <3> QED
      BY <2>2, <3>2
  <2>4. /\ turned(u) \in Uses /\ turned(u).kind = u.kind /\ turned(u).callee = u.callee
        /\ turned(u).args = args /\ turned(u).loop = Converted(u.loop, value)
    <3>1. Converted(u.loop, value) \in Attributes
      BY <1>1, <2>1
    <3>2. turned(u) = [u EXCEPT !.args = args, !.loop = Converted(u.loop, value)]
      OBVIOUS
    <3> HIDE DEF args, turned
    <3> DEFINE l == Converted(u.loop, value)
    <3> HIDE DEF l
    <3>3. turned(u) = [u EXCEPT !.args = args, !.loop = l] /\ l \in Attributes
      BY <3>1, <3>2 DEF l
    <3>4. turned(u) \in Uses /\ turned(u).kind = u.kind /\ turned(u).callee = u.callee
          /\ turned(u).args = args /\ turned(u).loop = l
      BY <2>1, <2>3, <3>3 DEF Uses
    <3> QED
      BY <3>4 DEF l
  <2>5. ASSUME NEW n \in NamesIn(turned(u)) PROVE n \in NamesIn(u) \ DOMAIN value
    <3>1. PICK b \in ToSet(turned(u).args) \cup {turned(u).loop} : b.kind = "symbol" /\ n = b.name
      BY <2>5 DEF NamesIn
    <3>2. CASE b = turned(u).loop
      <4>1. b = u.loop /\ u.loop.name \notin DOMAIN value
        BY <1>2, <2>1, <2>4, <3>1, <3>2
      <4> QED
        BY <3>1, <4>1 DEF NamesIn
    <3>3. CASE b \in ToSet(turned(u).args)
      <4>1. PICK i \in 1..Len(u.args) : b = args[i]
        BY <2>3, <2>4, <3>3 DEF ToSet
      <4>2. b = Converted(u.args[i], value)
        BY <2>2, <4>1
      <4>3. b = u.args[i] /\ b.name \notin DOMAIN value
        BY <1>2, <2>2, <3>1, <4>2
      <4>4. b \in ToSet(u.args)
        BY <2>2, <4>3 DEF ToSet
      <4> QED
        BY <3>1, <4>3, <4>4 DEF NamesIn
    <3> QED
      BY <3>1, <3>2, <3>3
  <2> QED
    BY <2>3, <2>4, <2>5
<1> HIDE DEF turned
<1>4. Clone(def, value).body = {turned(u) : u \in def.body}
  BY DEF Clone, ConvertedBody, turned
<1>5. IsDef(Clone(def, value))
  <2>1. Clone(def, value).body \subseteq Uses
    BY <1>3, <1>4
  <2>2. Clone(def, value).origin = def.origin /\ def.origin \in DOMAIN program.defs
    BY DEF Clone, IsDef
  <2> DEFINE c == Clone(def, value)
  <2>3. c = [kind |-> c.kind, body |-> c.body, origin |-> c.origin, values |-> c.values]
    BY DEF Clone
  <2> QED
    BY <2>1, <2>2, <2>3 DEF IsDef
<1> QED
  BY <1>3, <1>4, <1>5

(* What is in the unit stays as it is. *)
Grown(ts, ds, newTs, newDs) ==
  /\ DOMAIN ds \subseteq DOMAIN newDs /\ \A d \in DOMAIN ds : newDs[d] = ds[d]
  /\ \A d \in DOMAIN ds : ParamsIn(newTs, d) = ParamsIn(ts, d) /\ DeclaredIn(newTs, d) = DeclaredIn(ts, d)
  /\ \A u : Found(ts, ds, u) => Found(newTs, newDs, u)

(* A clone of a definition is added, in a template of its own or outside.  *)
LEMMA AddClone ==
  ASSUME NEW ts, NEW ds, Well(ts, ds), NEW d \in DOMAIN ds, NEW value,
         \A p \in DOMAIN value : value[p] \in Attributes /\ value[p].kind = "const",
         NEW path \in Paths, path \notin DOMAIN ds, NEW new,
         \/ path.template = ModuleLevel /\ new = ts
         \/ \E params \in Seq(Words) :
              /\ path.template \notin DOMAIN ts /\ path.template # ModuleLevel
              /\ params # <<>> /\ Cardinality(Places(path.template)) = Len(params)
              /\ \A i, j \in DOMAIN params : params[i] = params[j] => i = j
              /\ Places(path.name) = {}
              /\ new = Put(ts, path.template, [params |-> params, exprs |-> <<>>]),
         NoExpressionLeft(program) => DeclaredIn(ts, d) \subseteq DOMAIN value \cup DeclaredIn(new, path)
  PROVE  /\ Well(new, Put(ds, path, Clone(ds[d], value)))
         /\ Grown(ts, ds, new, Put(ds, path, Clone(ds[d], value)))
<1> DEFINE clone == Clone(ds[d], value)
           grown == Put(ds, path, clone)
<1>0. /\ IsFiniteSet(DOMAIN ts) /\ ModuleLevel \notin DOMAIN ts
      /\ IsFiniteSet(DOMAIN ds) /\ IsDef(ds[d])
  BY DEF Well, TemplatesOK, DefsOK
<1>1. /\ IsDef(clone)
      /\ \A w \in clone.body : \E u \in ds[d].body :
           w.callee = u.callee /\ Len(w.args) = Len(u.args) /\ NamesIn(w) \subseteq NamesIn(u) \ DOMAIN value
  BY <1>0, CloneFacts
<1> HIDE DEF clone
<1>2. /\ DOMAIN grown = DOMAIN ds \cup {path} /\ grown[path] = clone
      /\ \A e \in DOMAIN ds : grown[e] = ds[e]
      /\ grown = [e \in DOMAIN grown |-> grown[e]]
  BY DEF Put
<1> HIDE DEF grown
<1>3. /\ DOMAIN ts \subseteq DOMAIN new /\ DOMAIN new \subseteq DOMAIN ts \cup {path.template}
      /\ \A t \in DOMAIN ts : new[t] = ts[t]
      /\ path.template \in DOMAIN new \cup {ModuleLevel}
      /\ path.template # ModuleLevel => Places(path.name) = {}
      /\ path.template \in DOMAIN new => path.template \notin DOMAIN ts
      /\ IsFiniteSet(DOMAIN new) /\ ModuleLevel \notin DOMAIN new
  <2>1. CASE path.template = ModuleLevel /\ new = ts
    BY <2>1, <1>0
  <2>2. ASSUME NEW params, path.template \notin DOMAIN ts, path.template # ModuleLevel, Places(path.name) = {},
               new = Put(ts, path.template, [params |-> params, exprs |-> <<>>])
        PROVE  <1>3!1 /\ <1>3!2 /\ <1>3!3 /\ <1>3!4 /\ <1>3!5 /\ <1>3!6
    <3>1. DOMAIN new = DOMAIN ts \cup {path.template} /\ \A t \in DOMAIN ts : new[t] = ts[t]
      BY <2>2 DEF Put
    <3>2. IsFiniteSet(DOMAIN new)
      BY <1>0, <3>1, FS_AddElement
    <3> QED
      BY <1>0, <2>2, <3>1, <3>2
  <2> QED
    BY <2>1, <2>2
<1>4. TemplatesOK(new)
  <2>1. \A t \in DOMAIN program.templates : t \in DOMAIN new /\ new[t] = program.templates[t]
    BY <1>3 DEF Well, TemplatesOK
  <2>2. ASSUME NEW t \in DOMAIN new \ DOMAIN program.templates
        PROVE  /\ t \in Names
               /\ new[t].params \in Seq(Words) /\ new[t].params # <<>>
               /\ \A i, j \in DOMAIN new[t].params : new[t].params[i] = new[t].params[j] => i = j
               /\ Cardinality(Places(t)) = Len(new[t].params)
               /\ new[t].exprs = <<>>
    <3>1. CASE t \in DOMAIN ts
      <4>1. new[t] = ts[t]
        BY <1>3, <3>1
      <4> QED
        BY <3>1, <4>1 DEF Well, TemplatesOK
    <3>2. CASE t \notin DOMAIN ts
      <4>1. t = path.template
        BY <1>3, <3>2
      <4>2. PICK params \in Seq(Words) :
              /\ params # <<>> /\ Cardinality(Places(path.template)) = Len(params)
              /\ \A i, j \in DOMAIN params : params[i] = params[j] => i = j
              /\ new = Put(ts, path.template, [params |-> params, exprs |-> <<>>])
        BY <3>2
      <4>3. new[t] = [params |-> params, exprs |-> <<>>]
        BY <3>2, <4>1, <4>2 DEF Put
      <4>4. t \in Names
        BY <4>1 DEF Paths
      <4> QED
        BY <4>1, <4>2, <4>3, <4>4
    <3> QED
      BY <3>1, <3>2
  <2> QED
    BY <1>3, <2>1, <2>2 DEF TemplatesOK
<1>5. DefsOK(new, grown)
  <2>1. IsFiniteSet(DOMAIN grown)
    BY <1>0, <1>2, FS_AddElement
  <2>2. ASSUME NEW e \in DOMAIN grown
        PROVE  /\ e \in Paths /\ e.template \in DOMAIN new \cup {ModuleLevel}
               /\ e.template # ModuleLevel => Places(e.name) = {}
               /\ IsDef(grown[e])
    <3>1. CASE e \in DOMAIN ds
      <4>1. /\ e \in Paths /\ e.template \in DOMAIN ts \cup {ModuleLevel}
            /\ e.template # ModuleLevel => Places(e.name) = {}
            /\ IsDef(ds[e])
        BY <3>1 DEF Well, DefsOK
      <4> QED
        BY <1>2, <1>3, <3>1, <4>1
    <3>2. CASE e = path
      BY <1>1, <1>2, <1>3, <3>2
    <3> QED
      BY <1>2, <3>1, <3>2
  <2>3. ASSUME NEW t \in DOMAIN new \ DOMAIN program.templates PROVE \E e \in DOMAIN grown : e.template = t
    <3>1. CASE t \in DOMAIN ts
      <4>1. \E e \in DOMAIN ds : e.template = t
        BY <3>1 DEF Well, DefsOK
      <4> QED
        BY <4>1, <1>2
    <3>2. CASE t \notin DOMAIN ts
      BY <3>2, <1>2, <1>3
    <3> QED
      BY <3>1, <3>2
  <2> QED
    BY <1>2, <2>1, <2>2, <2>3 DEF DefsOK
<1>6. \A e \in DOMAIN ds : ParamsIn(new, e) = ParamsIn(ts, e) /\ DeclaredIn(new, e) = DeclaredIn(ts, e)
  <2> SUFFICES ASSUME NEW e \in DOMAIN ds PROVE ParamsIn(new, e) = ParamsIn(ts, e) /\ DeclaredIn(new, e) = DeclaredIn(ts, e)
    OBVIOUS
  <2>1. e.template = ModuleLevel \/ (e.template \in DOMAIN ts /\ new[e.template] = ts[e.template])
    BY <1>3 DEF Well, DefsOK
  <2> QED
    BY <2>1 DEF ParamsIn, DeclaredIn
<1>7. \A u : Found(ts, ds, u) => Found(new, grown, u)
  <2> SUFFICES ASSUME NEW u, Found(ts, ds, u) PROVE Found(new, grown, u)
    OBVIOUS
  <2>1. CASE u.callee \in DOMAIN ds
    BY <2>1, <1>2, <1>6 DEF Found
  <2>2. CASE u.callee \notin DOMAIN ds
    <3>1. u.callee.template \in DOMAIN ts \ DOMAIN program.templates
      BY <2>2 DEF Found
    <3>2. u.callee # path
      BY <1>3, <3>1
    <3> QED
      BY <1>2, <1>3, <2>2, <3>1, <3>2 DEF Found
  <2> QED
    BY <2>1, <2>2
<1>8. ASSUME NEW e \in DOMAIN grown, NEW w \in grown[e].body PROVE Fits(new, grown, e, w)
  <2>1. CASE e \in DOMAIN ds
    <3>1. Fits(ts, ds, e, w)
      BY <1>2, <1>8, <2>1 DEF Well
    <3> QED
      BY <1>6, <1>7, <2>1, <3>1 DEF Fits
  <2>2. CASE e = path
    <3>1. PICK u \in ds[d].body :
            w.callee = u.callee /\ Len(w.args) = Len(u.args) /\ NamesIn(w) \subseteq NamesIn(u) \ DOMAIN value
      BY <1>1, <1>2, <1>8, <2>2
    <3>2. Fits(ts, ds, d, u)
      BY DEF Well
    <3>3. Found(ts, ds, w)
      BY <3>1, <3>2 DEF Fits, Found
    <3>4. NoExpressionLeft(program) => NamesIn(w) \subseteq DeclaredIn(new, path)
      BY <3>1, <3>2 DEF Fits
    <3> QED
      BY <1>7, <2>2, <3>3, <3>4 DEF Fits
  <2> QED
    BY <1>2, <2>1, <2>2
<1> QED
  BY <1>2, <1>4, <1>5, <1>6, <1>7, <1>8 DEF Well, Grown, grown, clone
-----------------------------------------------------------------------------
(* Instantiation *)

(* The parameters that get a value are those that are concrete at the use;  *)
(* so do the expressions, when there is no other parameter.                 *)
LEMMA ValueFacts ==
  ASSUME program \in Programs, TemplatesOK(templates), NEW t \in DOMAIN templates,
         NEW args \in Seq(Attributes), Len(templates[t].params) = Len(args)
  PROVE  LET value == ParamNameToConcrete(templates[t], args)
             params == templates[t].params
         IN /\ \A p \in DOMAIN value : value[p] \in Attributes /\ value[p].kind = "const"
            /\ {i \in DOMAIN params : params[i] \notin DOMAIN value} = Open(args)
            /\ NoExpressionLeft(program) /\ (\E i \in DOMAIN args : Concrete(args[i])) =>
                 DOMAIN templates[t].exprs \subseteq DOMAIN value
<1> DEFINE value == ParamNameToConcrete(templates[t], args)
           params == templates[t].params
           exprs == templates[t].exprs
           given == {i \in DOMAIN params : Concrete(args[i])}
           known == {params[i] : i \in given}
           at(p) == CHOOSE i \in given : params[i] = p
           of(p) == args[at(p)]
           derived == {e \in DOMAIN exprs : exprs[e].of \in known}
           computed(p) == Const((of(exprs[p].of).value + exprs[p].plus) % Modulus)
<1>1. value = [p \in known \cup derived |-> IF p \in known THEN of(p) ELSE computed(p)]
  BY DEF ParamNameToConcrete
<1>2. /\ params \in Seq(Words) /\ DOMAIN params = 1..Len(args) /\ DOMAIN args = 1..Len(args) /\ Len(args) \in Nat
      /\ \A i, j \in DOMAIN params : params[i] = params[j] => i = j
      /\ DOMAIN exprs \cap ToSet(params) = {}
      /\ \A e \in DOMAIN exprs : exprs[e].of \in ToSet(params) /\ exprs[e].plus \in Int
  BY TemplateFacts
<1>3. \A p \in known : of(p) \in Attributes /\ of(p).kind = "const"
  <2> SUFFICES ASSUME NEW p \in known PROVE of(p) \in Attributes /\ of(p).kind = "const"
    OBVIOUS
  <2>1. at(p) \in given
    OBVIOUS
  <2>2. at(p) \in DOMAIN args /\ Concrete(args[at(p)])
    BY <2>1, <1>2
  <2> HIDE DEF at
  <2> QED
    BY <2>2, <1>2 DEF Concrete
<1>4. \A p \in derived : computed(p) \in Attributes /\ computed(p).kind = "const"
  <2> SUFFICES ASSUME NEW p \in derived PROVE computed(p) \in Attributes /\ computed(p).kind = "const"
    OBVIOUS
  <2>1. of(exprs[p].of) \in Attributes
    BY <1>3
  <2>2. of(exprs[p].of).value \in Int /\ exprs[p].plus \in Int
    BY <2>1, <1>2 DEF Attributes
  <2> HIDE DEF of
  <2> DEFINE n == (of(exprs[p].of).value + exprs[p].plus) % Modulus
  <2>3. n \in Int
    <3>1. \A x \in Int, m \in Nat \ {0} : x % m \in Int
      OBVIOUS
    <3>2. \A x, y \in Int : x + y \in Int
      OBVIOUS
    <3>3. Modulus \in Nat \ {0}
      BY FlatteningAssumption, Zenon
    <3> QED
      BY <2>2, <3>1, <3>2, <3>3, Zenon
  <2> HIDE DEF n
  <2>4. Const(n) \in Attributes /\ Const(n).kind = "const"
    BY <2>3 DEF Const, Attributes
  <2> QED
    BY <2>4 DEF n
<1> HIDE DEF value, of, computed
<1>5. DOMAIN value = known \cup derived
  BY <1>1
<1>6. ASSUME NEW p \in DOMAIN value PROVE value[p] \in Attributes /\ value[p].kind = "const"
  <2>1. CASE p \in known
    BY <2>1, <1>1, <1>3
  <2>2. CASE p \notin known
    BY <2>2, <1>1, <1>4
  <2> QED
    BY <2>1, <2>2
<1>7. {i \in DOMAIN params : params[i] \notin DOMAIN value} = Open(args)
  <2>1. ASSUME NEW i \in DOMAIN params PROVE params[i] \notin DOMAIN value <=> ~Concrete(args[i])
    <3>1. params[i] \notin derived
      BY <1>2 DEF ToSet
    <3>2. params[i] \in known <=> i \in given
      BY <1>2
    <3> QED
      BY <1>5, <3>1, <3>2
  <2> QED
    BY <2>1, <1>2 DEF Open
<1>8. ASSUME NoExpressionLeft(program), NEW i \in DOMAIN args, Concrete(args[i]), NEW e \in DOMAIN exprs
      PROVE  e \in DOMAIN value
  <2>1. t \in DOMAIN program.templates /\ templates[t] = program.templates[t]
    BY DEF TemplatesOK
  <2>2. Len(args) = 1
    BY <1>8, <2>1 DEF NoExpressionLeft
  <2>3. i = 1 /\ i \in given
    BY <1>2, <1>8, <2>2
  <2>4. exprs[e].of = params[1]
    BY <1>2, <2>2 DEF ToSet
  <2> QED
    BY <1>5, <2>3, <2>4
<1> QED
  BY <1>6, <1>7, <1>8 DEF value

(* A use of an instance has an argument for each parameter that is left. *)
LEMMA InstanceFacts ==
  ASSUME program \in Programs, Well(templates, defs), NEW u \in Uses, CanInstantiate(u),
         Len(Params(u.callee)) = Len(u.args)
  PROVE  LET t == u.callee.template
             value == ParamNameToConcrete(templates[t], u.args)
             label == ShortTypeString(t, u.args)
             rest == Remaining(templates[t].params, value)
         IN /\ u.callee \in DOMAIN defs /\ u.callee \in Paths /\ Places(u.callee.name) = {}
            /\ t \in DOMAIN templates /\ IsDef(defs[u.callee])
            /\ \A p \in DOMAIN value : value[p] \in Attributes /\ value[p].kind = "const"
            /\ label \in Names /\ label # ModuleLevel
            /\ Cardinality(Places(label)) = Len(rest)
            /\ \E i \in DOMAIN label : label[i].text = ""
            /\ rest \in Seq(Words)
            /\ \A i, j \in DOMAIN rest : rest[i] = rest[j] => i = j
            /\ NoExpressionLeft(program) => DeclaredIn(templates, u.callee) \subseteq DOMAIN value \cup ToSet(rest)
            /\ NonConcrete(u.args) \in Seq(Attributes) /\ Len(NonConcrete(u.args)) = Len(rest)
            /\ ToSet(NonConcrete(u.args)) \subseteq ToSet(u.args)
<1> DEFINE t == u.callee.template
           params == templates[t].params
           value == ParamNameToConcrete(templates[t], u.args)
           label == ShortTypeString(t, u.args)
           rest == Remaining(params, value)
           left == {i \in DOMAIN params : params[i] \notin DOMAIN value}
<1>1. /\ u.callee \in DOMAIN defs /\ u.callee \in Paths /\ Places(u.callee.name) = {}
      /\ t \in DOMAIN templates /\ t # ModuleLevel /\ IsDef(defs[u.callee])
      /\ \E i \in DOMAIN u.args : Concrete(u.args[i])
      /\ u.args \in Seq(Attributes)
  BY DEF CanInstantiate, Well, DefsOK, Uses
<1>2. Len(params) = Len(u.args) /\ TemplatesOK(templates)
  BY <1>1 DEF Params, ParamsIn, Well
<1>3. /\ t \in Names /\ params \in Seq(Words)
      /\ \A i, j \in DOMAIN params : params[i] = params[j] => i = j
      /\ Places(t) = {} \/ Cardinality(Places(t)) = Len(u.args)
  BY <1>1, <1>2, TemplateFacts
<1>4. /\ \A p \in DOMAIN value : value[p] \in Attributes /\ value[p].kind = "const"
      /\ left = Open(u.args)
      /\ NoExpressionLeft(program) => DOMAIN templates[t].exprs \subseteq DOMAIN value
  BY <1>1, <1>2, ValueFacts
<1>5. /\ label \in Names /\ label # ModuleLevel
      /\ Cardinality(Places(label)) = Cardinality(Open(u.args))
      /\ \E i \in DOMAIN label : label[i].text = ""
  BY <1>1, <1>3, ShortTypeStringFacts
<1> HIDE DEF value, label
<1>6. /\ rest \in Seq(Words) /\ Len(rest) = Cardinality(left) /\ ToSet(rest) = {params[i] : i \in left}
      /\ \A i, j \in DOMAIN rest : rest[i] = rest[j] => i = j
  <2>1. left \subseteq DOMAIN params /\ rest = Subsequence(params, left)
    BY DEF Remaining
  <2> HIDE DEF left, rest, params
  <2> QED
    BY <2>1, <1>3, SubsequenceFacts
<1>7. /\ NonConcrete(u.args) \in Seq(Attributes) /\ Len(NonConcrete(u.args)) = Cardinality(Open(u.args))
      /\ ToSet(NonConcrete(u.args)) \subseteq ToSet(u.args)
  <2>1. Open(u.args) \subseteq DOMAIN u.args /\ NonConcrete(u.args) = Subsequence(u.args, Open(u.args))
    BY DEF NonConcrete, Open
  <2>2. /\ Subsequence(u.args, Open(u.args)) \in Seq(Attributes)
        /\ Len(Subsequence(u.args, Open(u.args))) = Cardinality(Open(u.args))
        /\ ToSet(Subsequence(u.args, Open(u.args))) = {u.args[i] : i \in Open(u.args)}
    BY <1>1, <2>1, SubsequenceFacts
  <2>3. {u.args[i] : i \in Open(u.args)} \subseteq ToSet(u.args)
    BY <2>1 DEF ToSet
  <2> QED
    BY <2>1, <2>2, <2>3
<1>8. ASSUME NoExpressionLeft(program), NEW p \in DeclaredIn(templates, u.callee)
      PROVE  p \in DOMAIN value \cup ToSet(rest)
  <2>1. p \in ToSet(params) \/ p \in DOMAIN templates[t].exprs
    BY <1>1, <1>8 DEF DeclaredIn
  <2>2. CASE p \in ToSet(params)
    <3>1. PICK i \in DOMAIN params : p = params[i]
      BY <2>2 DEF ToSet
    <3> QED
      BY <3>1, <1>6
  <2> QED
    BY <1>4, <1>8, <2>1, <2>2
<1> HIDE DEF rest, left, params
<1>9. rest = Remaining(templates[t].params, value)
  BY DEF rest, params
<1> QED
  BY <1>1, <1>4, <1>5, <1>6, <1>7, <1>8, <1>9 DEF value, label

LEMMA ReverseFacts ==
  ASSUME NEW T, NEW seq \in Seq(T), \A i, j \in DOMAIN seq : seq[i] = seq[j] => i = j
  PROVE  /\ Reverse(seq) \in Seq(T) /\ Len(Reverse(seq)) = Len(seq)
         /\ ToSet(Reverse(seq)) = ToSet(seq)
         /\ \A i, j \in DOMAIN Reverse(seq) : Reverse(seq)[i] = Reverse(seq)[j] => i = j
<1> DEFINE n == Len(seq)
           back == Reverse(seq)
<1>1. DOMAIN seq = 1..n /\ n \in Nat
  OBVIOUS
<1>2. back = [i \in 1..n |-> seq[(n - i) + 1]]
  BY DEF Reverse
<1>3. \A i \in 1..n : (n - i) + 1 \in 1..n /\ (n - ((n - i) + 1)) + 1 = i
  BY <1>1
<1>4. back \in Seq(T) /\ Len(back) = n /\ DOMAIN back = 1..n
  <2>1. back \in [1..n -> T]
    BY <1>1, <1>2, <1>3
  <2> QED
    BY <1>1, <1>2, <2>1
<1>5. \A i \in 1..n : back[i] = seq[(n - i) + 1]
  BY <1>2
<1> HIDE DEF back
<1>6. ToSet(back) = ToSet(seq)
  <2>1. ASSUME NEW i \in 1..n PROVE \E j \in 1..n : back[j] = seq[i]
    <3>1. back[(n - i) + 1] = seq[(n - ((n - i) + 1)) + 1]
      BY <1>3, <1>5
    <3> QED
      BY <1>3, <3>1
  <2>2. \A i \in 1..n : \E j \in 1..n : back[i] = seq[j]
    BY <1>3, <1>5
  <2>3. ToSet(back) = {back[i] : i \in 1..n} /\ ToSet(seq) = {seq[i] : i \in 1..n}
    BY <1>1, <1>4, Zenon DEF ToSet
  <2>4. {back[i] : i \in 1..n} = {seq[i] : i \in 1..n}
    <3>1. ASSUME NEW x \in {back[i] : i \in 1..n} PROVE x \in {seq[i] : i \in 1..n}
      BY <2>2
    <3>2. ASSUME NEW i \in 1..n PROVE seq[i] \in {back[k] : k \in 1..n}
      BY <2>1
    <3> QED
      BY <3>1, <3>2
  <2> QED
    BY <2>3, <2>4
<1>7. ASSUME NEW i \in 1..n, NEW j \in 1..n, back[i] = back[j] PROVE i = j
  <2>1. (n - i) + 1 = (n - j) + 1
    BY <1>1, <1>3, <1>5, <1>7
  <2> QED
    BY <1>1, <2>1
<1> QED
  BY <1>1, <1>4, <1>6, <1>7 DEF back


(* A use with other arguments, of another definition. *)
Redirected(u, callee, args) == [u EXCEPT !.callee = callee, !.args = args]

LEMMA UseChange ==
  ASSUME NEW u \in Uses, NEW callee \in Paths, NEW args \in Seq(Attributes), ToSet(args) \subseteq ToSet(u.args),
         NEW new, new = Redirected(u, callee, args)
  PROVE  /\ new \in Uses /\ new.kind = u.kind /\ new.callee = callee /\ new.args = args
         /\ NamesIn(new) \subseteq NamesIn(u)
<1>1. new \in Uses /\ new.kind = u.kind /\ new.callee = callee /\ new.args = args /\ new.loop = u.loop
  BY DEF Uses, Redirected
<1>2. NamesIn(new) \subseteq NamesIn(u)
  BY <1>1 DEF NamesIn
<1> QED
  BY <1>1, <1>2

(* The clone of a struct is in no one's way: its name is new. *)
LEMMA StructInstanceFacts ==
  ASSUME program \in Programs, Well(templates, defs), NEW u \in Uses, CanInstantiate(u),
         Len(Params(u.callee)) = Len(u.args)
  PROVE  LET new == StructInstance(u)
         IN /\ Well(new.templates, new.defs) /\ Grown(templates, defs, new.templates, new.defs)
            /\ new.use \in Uses /\ new.use.kind = u.kind /\ NamesIn(new.use) \subseteq NamesIn(u)
            /\ new.use.callee \in DOMAIN new.defs \ DOMAIN defs
            /\ Len(ParamsIn(new.templates, new.use.callee)) = Len(new.use.args)
            /\ ToSet(new.use.args) \subseteq ToSet(u.args)
<1> DEFINE t == u.callee.template
           value == ParamNameToConcrete(templates[t], u.args)
           label == ShortTypeString(t, u.args)
           rest == Remaining(templates[t].params, value)
           newTemplate == UniqueName(label)
           name == UniqueName(label \o u.callee.name)
           path == IF rest = <<>> THEN Path(ModuleLevel, name) ELSE Path(newTemplate, u.callee.name)
           newTs == IF rest = <<>> THEN templates ELSE Put(templates, newTemplate, StructTemplate(rest))
           newDs == Put(defs, path, Clone(defs[u.callee], value))
           new == StructInstance(u)
<1>1. /\ u.callee \in DOMAIN defs /\ u.callee \in Paths /\ Places(u.callee.name) = {}
      /\ t \in DOMAIN templates /\ IsDef(defs[u.callee])
      /\ \A p \in DOMAIN value : value[p] \in Attributes /\ value[p].kind = "const"
      /\ label \in Names /\ label # ModuleLevel
      /\ Cardinality(Places(label)) = Len(rest)
      /\ rest \in Seq(Words)
      /\ \A i, j \in DOMAIN rest : rest[i] = rest[j] => i = j
      /\ NoExpressionLeft(program) => DeclaredIn(templates, u.callee) \subseteq DOMAIN value \cup ToSet(rest)
      /\ NonConcrete(u.args) \in Seq(Attributes) /\ Len(NonConcrete(u.args)) = Len(rest)
      /\ ToSet(NonConcrete(u.args)) \subseteq ToSet(u.args)
  BY InstanceFacts
<1>2. /\ new.use = [u EXCEPT !.callee = path, !.args = NonConcrete(u.args)]
      /\ new.defs = newDs /\ new.templates = newTs
  BY DEF StructInstance
<1> HIDE DEF value, label, rest, new
<1>3. /\ IsFiniteSet(DOMAIN templates) /\ IsFiniteSet(DOMAIN defs)
      /\ \A d \in DOMAIN defs : d.template \in DOMAIN templates \cup {ModuleLevel}
      /\ ModuleLevel \notin DOMAIN templates
  BY DEF Well, TemplatesOK, DefsOK
<1>4. CASE rest = <<>>
  <2>1. label \o u.callee.name \in Names
    <3>1. label \in Seq(Parts) /\ u.callee.name \in Seq(Parts)
      BY <1>1 DEF Names, Paths
    <3> QED
      BY <3>1 DEF Names
  <2>2. name \in Names /\ name \notin ModuleSymbols
    BY <2>1, <1>3, UniqueNameFacts
  <2> HIDE DEF name
  <2>3. path = Path(ModuleLevel, name) /\ path.template = ModuleLevel /\ path.name = name
    BY <1>4 DEF Path
  <2>4. ModuleLevel \in Names
    BY DEF ModuleLevel, Names
  <2>5. path \in Paths
    BY <2>2, <2>3, <2>4 DEF Path, Paths
  <2>6. path \notin DOMAIN defs
    BY <2>2, <2>3 DEF ModuleSymbols
  <2>7. newTs = templates
    BY <1>4
  <2>8. ToSet(rest) = {}
    BY <1>4 DEF ToSet
  <2> HIDE DEF path, newTs
  <2>9. Well(newTs, newDs) /\ Grown(templates, defs, newTs, newDs)
    BY <1>1, <2>3, <2>5, <2>6, <2>7, <2>8, AddClone
  <2>10. path \in DOMAIN newDs
    BY DEF Put
  <2>11. Len(ParamsIn(newTs, path)) = Len(NonConcrete(u.args))
    BY <1>1, <1>4, <2>3 DEF ParamsIn
  <2>12. /\ new.use \in Uses /\ new.use.kind = u.kind /\ NamesIn(new.use) \subseteq NamesIn(u)
         /\ new.use.callee = path /\ new.use.args = NonConcrete(u.args)
    <3> DEFINE args == NonConcrete(u.args)
    <3>1. new.use = Redirected(u, path, args)
      BY <1>2, Zenon DEF Redirected
    <3>2. args \in Seq(Attributes) /\ ToSet(args) \subseteq ToSet(u.args)
      BY <1>1
    <3> HIDE DEF args
    <3>3. /\ new.use \in Uses /\ new.use.kind = u.kind /\ NamesIn(new.use) \subseteq NamesIn(u)
          /\ new.use.callee = path /\ new.use.args = args
      BY <3>1, <3>2, <2>5, UseChange
    <3> QED
      BY <3>3 DEF args
  <2> HIDE DEF newDs
  <2> QED
    BY <1>1, <1>2, <2>6, <2>9, <2>10, <2>11, <2>12 DEF new
<1>5. CASE rest # <<>>
  <2>1. newTemplate \in Names /\ newTemplate \notin ModuleSymbols /\ Places(newTemplate) = Places(label)
        /\ newTemplate # ModuleLevel
    BY <1>1, <1>3, UniqueNameFacts
  <2> HIDE DEF newTemplate
  <2>2. newTemplate \notin DOMAIN templates
    BY <2>1 DEF ModuleSymbols
  <2>3. path = Path(newTemplate, u.callee.name) /\ path.template = newTemplate /\ path.name = u.callee.name
    BY <1>5 DEF Path
  <2>4. path \in Paths
    BY <1>1, <2>1, <2>3 DEF Path, Paths
  <2>5. path \notin DOMAIN defs
    BY <1>3, <2>1, <2>2, <2>3
  <2> DEFINE back == Reverse(rest)
  <2>6. /\ back \in Seq(Words) /\ Len(back) = Len(rest) /\ ToSet(back) = ToSet(rest)
        /\ \A i, j \in DOMAIN back : back[i] = back[j] => i = j
    BY <1>1, ReverseFacts
  <2>7. newTs = Put(templates, path.template, [params |-> back, exprs |-> <<>>])
    BY <1>5, <2>3 DEF StructTemplate
  <2> HIDE DEF path, newTs, back
  <2>8. newTs[path.template] = [params |-> back, exprs |-> <<>>]
    BY <2>7 DEF Put
  <2>9. back # <<>>
    <3>1. Len(rest) # 0
      BY <1>1, <1>5, EmptySeq
    <3> QED
      BY <2>6, <3>1
  <2>10. NoExpressionLeft(program) => DeclaredIn(templates, u.callee) \subseteq DOMAIN value \cup DeclaredIn(newTs, path)
    BY <1>1, <2>1, <2>3, <2>6, <2>8 DEF DeclaredIn
  <2>11. Cardinality(Places(path.template)) = Len(back) /\ Places(path.name) = {}
    BY <1>1, <2>1, <2>3, <2>6
  <2>12. path.template \notin DOMAIN templates /\ path.template # ModuleLevel
    BY <2>1, <2>2, <2>3
  <2>13. Well(newTs, newDs) /\ Grown(templates, defs, newTs, newDs)
    BY <1>1, <2>4, <2>5, <2>6, <2>7, <2>9, <2>10, <2>11, <2>12, AddClone
  <2>14. path \in DOMAIN newDs
    BY DEF Put
  <2>15. Len(ParamsIn(newTs, path)) = Len(NonConcrete(u.args))
    BY <1>1, <2>6, <2>8, <2>12 DEF ParamsIn
  <2>16. /\ new.use \in Uses /\ new.use.kind = u.kind /\ NamesIn(new.use) \subseteq NamesIn(u)
         /\ new.use.callee = path /\ new.use.args = NonConcrete(u.args)
    <3> DEFINE args == NonConcrete(u.args)
    <3>1. new.use = Redirected(u, path, args)
      BY <1>2, Zenon DEF Redirected
    <3>2. args \in Seq(Attributes) /\ ToSet(args) \subseteq ToSet(u.args)
      BY <1>1
    <3> HIDE DEF args
    <3>3. /\ new.use \in Uses /\ new.use.kind = u.kind /\ NamesIn(new.use) \subseteq NamesIn(u)
          /\ new.use.callee = path /\ new.use.args = args
      BY <3>1, <3>2, <2>4, UseChange
    <3> QED
      BY <3>3 DEF args
  <2> HIDE DEF newDs
  <2> QED
    BY <1>1, <1>2, <2>5, <2>13, <2>14, <2>15, <2>16 DEF new
<1> QED
  BY <1>4, <1>5

LEMMA TwoParts ==
  \A m, n \in Nat : /\ \A k \in 1..(m + n) : (k <= m /\ k \in 1..m) \/ (~ (k <= m) /\ k - m \in 1..n)
                    /\ \A k \in 1..m : k \in 1..(m + n) /\ k <= m
OBVIOUS

(* What has the name of a full clone is the clone of a function, and what   *)
(* has the name of a partial clone's template is such a template: neither   *)
(* is something the unit had, or an instance of another kind.               *)
LEMMA ReusedNames ==
  ASSUME program \in Programs, Well(templates, defs), NEW label \in Names, NEW i \in DOMAIN label, label[i].text = ""
  PROVE  /\ \A name \in Names : Places(label) = {} /\ Places(name) = {} /\ label \o name \in ModuleSymbols =>
              label \o name \in Names /\ Path(ModuleLevel, label \o name) \in DOMAIN defs
         /\ label \in DOMAIN templates =>
              /\ label \in DOMAIN templates \ DOMAIN program.templates
              /\ Len(templates[label].params) = Cardinality(Places(label))
<1>1. TemplatesOK(templates) /\ DefsOK(templates, defs)
  BY DEF Well
<1>2. ASSUME NEW t \in DOMAIN program.templates, NEW k \in DOMAIN t PROVE t[k].text # ""
  <2>1. IsTemplate(t, program.templates[t])
    BY FlatteningAssumption DEF IsUnit
  <2> QED
    BY <2>1, FlatteningAssumption DEF IsTemplate
<1>3. ASSUME NEW name \in Names, Places(label) = {}, Places(name) = {}, label \o name \in ModuleSymbols
      PROVE  label \o name \in Names /\ Path(ModuleLevel, label \o name) \in DOMAIN defs
  <2> DEFINE full == label \o name
             m == Len(label)
             n == Len(name)
  <2>1. /\ label \in Seq(Parts) /\ m \in Nat /\ DOMAIN label = 1..m
        /\ name \in Seq(Parts) /\ n \in Nat /\ DOMAIN name = 1..n
    <3>1. label \in Seq(Parts) /\ name \in Seq(Parts)
      BY DEF Names
    <3> QED
      BY <3>1, LenProperties
  <2>2. /\ full \in Seq(Parts) /\ Len(full) = m + n
        /\ \A k \in 1..(m + n) : full[k] = IF k <= m THEN label[k] ELSE name[k - m]
    BY <2>1, ConcatProperties
  <2> HIDE DEF full, m, n
  <2>3. DOMAIN full = 1..(m + n)
    <3>1. DOMAIN full = 1..Len(full) /\ Len(full) = m + n
      BY <2>2, LenProperties
    <3> QED
      BY <3>1
  <2>4. \A k \in 1..(m + n) : (k <= m /\ k \in 1..m) \/ (~ (k <= m) /\ k - m \in 1..n)
    BY <2>1, TwoParts, Zenon
  <2>5. full[i].text = "" /\ i \in DOMAIN full
    <3>1. i \in 1..(m + n) /\ i <= m
      BY <2>1, TwoParts, Zenon
    <3> QED
      BY <3>1, <2>2, <2>3
  <2>6. Places(full) = {}
    <3> SUFFICES ASSUME NEW k \in 1..(m + n) PROVE full[k] # Placeholder
      BY <2>3 DEF Places
    <3>1. CASE k \in 1..m /\ k <= m
      <4>1. label[k] # Placeholder
        BY <1>3, <2>1, <3>1 DEF Places
      <4> QED
        BY <2>2, <3>1, <4>1
    <3>2. CASE ~ (k <= m) /\ k - m \in 1..n
      <4>1. name[k - m] # Placeholder
        BY <1>3, <2>1, <3>2 DEF Places
      <4> QED
        BY <2>2, <3>2, <4>1
    <3> QED
      BY <2>4, <3>1, <3>2
  <2>7. full \notin DOMAIN templates
    <3>1. full \notin DOMAIN program.templates
      BY <1>2, <2>5
    <3>2. ASSUME full \in DOMAIN templates \ DOMAIN program.templates PROVE FALSE
      <4>1. Cardinality(Places(full)) = Len(templates[full].params) /\ templates[full].params \in Seq(Words)
            /\ templates[full].params # <<>>
        BY <1>1, <3>2 DEF TemplatesOK
      <4>2. Cardinality(Places(full)) = 0
        BY <2>6, FS_EmptySet
      <4> QED
        BY <4>1, <4>2, EmptySeq
    <3> QED
      BY <3>1, <3>2
  <2>8. PICK d \in DOMAIN defs : d.template = ModuleLevel /\ d.name = full
    BY <1>3, <2>7 DEF ModuleSymbols, full
  <2>9. d = Path(ModuleLevel, full) /\ full \in Names
    <3>1. d \in Paths
      BY <1>1 DEF DefsOK
    <3> QED
      BY <2>8, <3>1 DEF Paths, Path
  <2> QED
    BY <2>8, <2>9 DEF full
<1>4. ASSUME label \in DOMAIN templates
      PROVE  /\ label \in DOMAIN templates \ DOMAIN program.templates
             /\ Len(templates[label].params) = Cardinality(Places(label))
  <2>1. label \notin DOMAIN program.templates
    BY <1>2
  <2> QED
    BY <1>1, <1>4, <2>1 DEF TemplatesOK
<1> QED
  BY <1>3, <1>4

(* A call of a clone, made or found, gives it what it takes; only a function *)
(* that is missing from a template that was found is not there.             *)
LEMMA FunctionInstanceFacts ==
  ASSUME program \in Programs, Well(templates, defs), NEW u \in Uses, CanInstantiate(u),
         Len(Params(u.callee)) = Len(u.args)
  PROVE  LET new == FunctionInstance(u)
         IN /\ Well(new.templates, new.defs) /\ Grown(templates, defs, new.templates, new.defs)
            /\ new.use \in Uses /\ new.use.kind = u.kind /\ NamesIn(new.use) \subseteq NamesIn(u)
            /\ Found(new.templates, new.defs, new.use)
<1> DEFINE t == u.callee.template
           value == ParamNameToConcrete(templates[t], u.args)
           label == ShortTypeString(t, u.args)
           rest == Remaining(templates[t].params, value)
           full == label \o u.callee.name
           reused == IF rest = <<>> THEN full \in ModuleSymbols ELSE label \in DOMAIN templates
           newTemplate == IF reused THEN label ELSE UniqueName(label)
           path == IF rest = <<>> THEN Path(ModuleLevel, full) ELSE Path(newTemplate, u.callee.name)
           newTs == IF reused \/ rest = <<>> THEN templates ELSE Put(templates, newTemplate, FunctionTemplate(rest))
           added == Put(defs, path, Clone(defs[u.callee], value))
           newDs == IF reused THEN defs ELSE added
           new == FunctionInstance(u)
           args == NonConcrete(u.args)
<1>1. /\ u.callee \in DOMAIN defs /\ u.callee \in Paths /\ Places(u.callee.name) = {}
      /\ t \in DOMAIN templates /\ IsDef(defs[u.callee])
      /\ \A p \in DOMAIN value : value[p] \in Attributes /\ value[p].kind = "const"
      /\ label \in Names /\ label # ModuleLevel
      /\ Cardinality(Places(label)) = Len(rest)
      /\ \E i \in DOMAIN label : label[i].text = ""
      /\ rest \in Seq(Words)
      /\ \A i, j \in DOMAIN rest : rest[i] = rest[j] => i = j
      /\ NoExpressionLeft(program) => DeclaredIn(templates, u.callee) \subseteq DOMAIN value \cup ToSet(rest)
      /\ args \in Seq(Attributes) /\ Len(args) = Len(rest)
      /\ ToSet(args) \subseteq ToSet(u.args)
  BY InstanceFacts
<1>2. /\ new.use = Redirected(u, path, args)
      /\ new.defs = newDs /\ new.templates = newTs
  BY DEF FunctionInstance, Redirected
<1> HIDE DEF value, label, rest, new, args
<1>3. /\ IsFiniteSet(DOMAIN templates) /\ IsFiniteSet(DOMAIN defs)
      /\ \A d \in DOMAIN defs : d.template \in DOMAIN templates \cup {ModuleLevel}
      /\ ModuleLevel \notin DOMAIN templates
  BY DEF Well, TemplatesOK, DefsOK
<1>4. /\ \A name \in Names : Places(label) = {} /\ Places(name) = {} /\ label \o name \in ModuleSymbols =>
           label \o name \in Names /\ Path(ModuleLevel, label \o name) \in DOMAIN defs
      /\ label \in DOMAIN templates =>
           /\ label \in DOMAIN templates \ DOMAIN program.templates
           /\ Len(templates[label].params) = Cardinality(Places(label))
  <2>1. PICK i \in DOMAIN label : label[i].text = ""
    BY <1>1
  <2> QED
    BY <1>1, <2>1, ReusedNames
<1>5. u.callee.name \in Names /\ ModuleLevel \in Names
  <2>1. u.callee.name \in Names
    BY <1>1 DEF Paths
  <2>2. ModuleLevel \in Names
    BY DEF ModuleLevel, Names
  <2> QED
    BY <2>1, <2>2
<1>6. full \in Names
  <2>1. label \in Seq(Parts) /\ u.callee.name \in Seq(Parts)
    BY <1>1, <1>5 DEF Names
  <2> QED
    BY <2>1 DEF Names
<1> HIDE DEF full
<1>7. (rest = <<>>) = (Len(rest) = 0)
  BY <1>1, EmptySeq
<1>8. Grown(templates, defs, templates, defs)
  BY DEF Grown
<1>9. SUFFICES /\ Well(newTs, newDs) /\ Grown(templates, defs, newTs, newDs) /\ path \in Paths
               /\ \/ path \in DOMAIN newDs /\ Len(ParamsIn(newTs, path)) = Len(args)
                  \/ path \notin DOMAIN newDs /\ path.template \in DOMAIN newTs \ DOMAIN program.templates
  <2> HIDE DEF path, newTs, newDs
  <2>1. /\ new.use \in Uses /\ new.use.kind = u.kind /\ NamesIn(new.use) \subseteq NamesIn(u)
        /\ new.use.callee = path /\ new.use.args = args
    <3>1. new.use = Redirected(u, path, args)
      BY <1>2, Zenon
    <3>2. args \in Seq(Attributes) /\ ToSet(args) \subseteq ToSet(u.args) /\ path \in Paths
      BY <1>1, <1>9
    <3> QED
      BY <3>1, <3>2, UseChange
  <2>2. Found(newTs, newDs, new.use)
    BY <1>9, <2>1 DEF Found
  <2> QED
    BY <1>2, <1>9, <2>1, <2>2 DEF new
<1>10. CASE rest = <<>>
  <2>1. path = Path(ModuleLevel, full) /\ path.template = ModuleLevel /\ path.name = full /\ newTs = templates
    BY <1>10 DEF Path
  <2>2. path \in Paths
    BY <1>5, <1>6, <2>1 DEF Path, Paths
  <2>3. Len(ParamsIn(newTs, path)) = Len(args)
    BY <1>1, <1>10, <2>1 DEF ParamsIn
  <2>4. CASE full \in ModuleSymbols
    <3>1. newDs = defs
      BY <1>10, <2>4
    <3>2. Places(label) = {}
      BY <1>1, <1>7, <1>10, PlacesFacts
    <3>3. path \in DOMAIN defs
      BY <1>1, <1>4, <1>5, <2>1, <2>4, <3>2 DEF full
    <3> HIDE DEF path, newTs, newDs
    <3> QED
      BY <1>8, <2>1, <2>2, <2>3, <3>1, <3>3
  <2>5. CASE full \notin ModuleSymbols
    <3>1. path \notin DOMAIN defs
      BY <2>1, <2>5 DEF ModuleSymbols
    <3>2. newDs = added
      BY <1>10, <2>5
    <3>3. ToSet(rest) = {}
      BY <1>10 DEF ToSet
    <3> HIDE DEF path, newTs, newDs
    <3>4. Well(newTs, added) /\ Grown(templates, defs, newTs, added)
      BY <1>1, <2>1, <2>2, <3>1, <3>3, AddClone
    <3>5. path \in DOMAIN added
      BY DEF Put
    <3> HIDE DEF added
    <3> QED
      BY <2>2, <2>3, <3>2, <3>4, <3>5
  <2> QED
    BY <2>4, <2>5
<1>11. CASE rest # <<>>
  <2>1. reused = (label \in DOMAIN templates) /\ path = Path(newTemplate, u.callee.name)
        /\ path.template = newTemplate /\ path.name = u.callee.name
    BY <1>11 DEF Path
  <2>2. CASE label \in DOMAIN templates
    <3>1. path = Path(label, u.callee.name) /\ path.template = label /\ newTs = templates /\ newDs = defs
      BY <1>11, <2>1, <2>2
    <3>2. path \in Paths
      BY <1>1, <1>5, <3>1 DEF Path, Paths
    <3>3. Len(ParamsIn(newTs, path)) = Len(args)
      BY <1>1, <1>4, <2>2, <3>1 DEF ParamsIn
    <3> HIDE DEF path, newTs, newDs
    <3> QED
      BY <1>4, <1>8, <2>2, <3>1, <3>2, <3>3
  <2>3. CASE label \notin DOMAIN templates
    <3>1. newTemplate = UniqueName(label) /\ newTs = Put(templates, newTemplate, FunctionTemplate(rest)) /\ newDs = added
      BY <1>11, <2>3
    <3>2. UniqueName(label) \in Names /\ UniqueName(label) \notin ModuleSymbols
          /\ Places(UniqueName(label)) = Places(label) /\ UniqueName(label) # ModuleLevel
      BY <1>1, <1>3, UniqueNameFacts
    <3> HIDE DEF newTemplate, reused
    <3>3. newTemplate \notin DOMAIN templates /\ newTemplate # ModuleLevel /\ newTemplate \in Names
          /\ Cardinality(Places(newTemplate)) = Len(rest)
      BY <1>1, <3>1, <3>2 DEF ModuleSymbols
    <3>4. path \in Paths
      BY <1>5, <2>1, <3>3 DEF Path, Paths
    <3>5. path \notin DOMAIN defs
      BY <1>3, <2>1, <3>3
    <3>6. newTs = Put(templates, path.template, [params |-> rest, exprs |-> <<>>])
      BY <2>1, <3>1 DEF FunctionTemplate
    <3> HIDE DEF path, newTs, newDs
    <3>7. newTs[path.template] = [params |-> rest, exprs |-> <<>>]
      BY <3>6 DEF Put
    <3>8. newTs[path.template].params = rest /\ path.template # ModuleLevel
      BY <2>1, <3>3, <3>7
    <3>9. Cardinality(Places(path.template)) = Len(rest) /\ Places(path.name) = {}
          /\ path.template \notin DOMAIN templates /\ path.template # ModuleLevel
      BY <1>1, <2>1, <3>3
    <3>10. ToSet(rest) \subseteq DeclaredIn(newTs, path)
      BY <3>8 DEF DeclaredIn
    <3>11. NoExpressionLeft(program) => DeclaredIn(templates, u.callee) \subseteq DOMAIN value \cup DeclaredIn(newTs, path)
      BY <1>1, <3>10
    <3>12. Well(newTs, added) /\ Grown(templates, defs, newTs, added)
      BY <1>1, <1>11, <3>4, <3>5, <3>6, <3>9, <3>11, AddClone
    <3>13. path \in DOMAIN added
      BY DEF Put
    <3>14. ParamsIn(newTs, path) = rest
      BY <3>8 DEF ParamsIn
    <3>15. Len(ParamsIn(newTs, path)) = Len(args)
      BY <1>1, <3>14
    <3> HIDE DEF added
    <3> QED
      BY <3>1, <3>4, <3>12, <3>13, <3>15
  <2> QED
    BY <2>2, <2>3
<1> QED
  BY <1>10, <1>11

-----------------------------------------------------------------------------
(* The inductive invariant *)

Steps == {"main", "round", "structs", "functions", "unroll", "affine maps", "end of round", "done", "failed"}

(* An instance is in the unit, takes what its type gives it, and is the     *)
(* instance of one type.                                                    *)
InstancesOK(instances, ts, ds) ==
  /\ \A type \in DOMAIN instances :
       LET instance == instances[type]
       IN /\ instance = StructType(instance) /\ instance.callee \in DOMAIN ds
          /\ instance.args \in Seq(Attributes) /\ ToSet(instance.args) \subseteq ToSet(type.args)
          /\ Len(ParamsIn(ts, instance.callee)) = Len(instance.args)
  /\ \A a, b \in DOMAIN instances : instances[a] = instances[b] => a = b

(* What is visited or was replaced is in the unit. *)
InBodies(pairs, ds) ==
  \A v \in pairs : v = <<v[1], v[2]>> /\ v[1] \in DOMAIN ds /\ v[2] \in ds[v[1]].body

MainOK ==
  /\ main \in Uses /\ main.callee \in DOMAIN defs /\ Len(Params(main.callee)) = Len(main.args)
  /\ DOMAIN instantiations = {}

LoopOK ==
  /\ modified \in BOOLEAN /\ step \in Steps
  /\ loopCount \in Nat /\ loopCount <= IterationLimit + 1
  /\ step # "failed" => loopCount <= IterationLimit

VisitsOK ==
  /\ InBodies(visits, defs) /\ InBodies(replaced, defs)
  /\ step \notin {"structs", "functions"} => visits = {}
  /\ step # "structs" => replaced = {}
  /\ \A v \in replaced : v[2].kind = "struct"
  /\ step = "structs" => \A v \in visits : v[2].kind = "struct"

Consistent ==
  /\ program \in Programs /\ Well(templates, defs)
  /\ step = "main" => MainOK
  /\ InstancesOK(instantiations, templates, defs)
  /\ instantiated \subseteq DOMAIN defs
  /\ LoopOK /\ VisitsOK

(* One body is changed. *)
LEMMA OneBody ==
  ASSUME NEW ts, NEW ds, Well(ts, ds), NEW d \in DOMAIN ds, NEW body \in SUBSET Uses,
         \A u \in body : Fits(ts, ds, d, u),
         NEW new, new = [ds EXCEPT ![d] = [ds[d] EXCEPT !.body = body]]
  PROVE  /\ Well(ts, new) /\ DOMAIN new = DOMAIN ds
         /\ new[d].body = body /\ \A e \in DOMAIN ds : e # d => new[e] = ds[e]
<1>1. \A e \in DOMAIN ds : IsDef(ds[e])
  BY DEF Well, DefsOK
<1> DEFINE def == [ds[d] EXCEPT !.body = body]
<1>2. IsDef(def) /\ def.body = body
  BY <1>1 DEF IsDef
<1> HIDE DEF def
<1>3. new = [ds EXCEPT ![d] = def]
  BY DEF def
<1>4. new[d] = def /\ DOMAIN new = DOMAIN ds /\ \A e \in DOMAIN ds : e # d => new[e] = ds[e]
  BY <1>3
<1>5. new = [e \in DOMAIN ds |-> new[e]]
  BY <1>3
<1>6. ASSUME NEW e \in DOMAIN ds PROVE IsDef(new[e]) /\ \A u \in new[e].body : Fits(ts, ds, e, u)
  <2>1. CASE e = d
    BY <1>2, <1>4, <2>1
  <2>2. CASE e # d
    BY <1>1, <1>4, <2>2 DEF Well
  <2> QED
    BY <2>1, <2>2
<1>7. Well(ts, new)
  BY <1>5, <1>6, BodiesChange
<1> QED
  BY <1>2, <1>4, <1>7

LEMMA InstancesGrow ==
  ASSUME NEW instances, NEW ts, NEW ds, InstancesOK(instances, ts, ds), NEW newTs, NEW newDs,
         \A d \in DOMAIN ds : d \in DOMAIN newDs /\ ParamsIn(newTs, d) = ParamsIn(ts, d)
  PROVE  InstancesOK(instances, newTs, newDs)
BY DEF InstancesOK

(* No struct is recorded as the instance of two types. *)
LEMMA OneMoreInstance ==
  ASSUME NEW instances, NEW ts, NEW ds, InstancesOK(instances, ts, ds), NEW type, NEW instance,
         instance = StructType(instance), instance.callee \in DOMAIN ds,
         instance.args \in Seq(Attributes), ToSet(instance.args) \subseteq ToSet(type.args),
         Len(ParamsIn(ts, instance.callee)) = Len(instance.args),
         \/ type \in DOMAIN instances /\ instance = instances[type]
         \/ type \notin DOMAIN instances /\ \A a \in DOMAIN instances : instances[a].callee # instance.callee
  PROVE  InstancesOK(Put(instances, type, instance), ts, ds)
<1> DEFINE more == Put(instances, type, instance)
<1>1. /\ DOMAIN more = DOMAIN instances \cup {type} /\ more[type] = instance
      /\ \A a \in DOMAIN instances : a # type => more[a] = instances[a]
  BY DEF Put
<1> HIDE DEF more
<1>2. ASSUME NEW a \in DOMAIN more
      PROVE  /\ more[a] = StructType(more[a]) /\ more[a].callee \in DOMAIN ds
             /\ more[a].args \in Seq(Attributes) /\ ToSet(more[a].args) \subseteq ToSet(a.args)
             /\ Len(ParamsIn(ts, more[a].callee)) = Len(more[a].args)
  <2>1. CASE a = type
    BY <1>1, <2>1
  <2>2. CASE a # type
    <3>1. a \in DOMAIN instances /\ more[a] = instances[a]
      BY <1>1, <2>2
    <3> QED
      BY <3>1 DEF InstancesOK
  <2> QED
    BY <2>1, <2>2
<1>3. ASSUME NEW a \in DOMAIN more, NEW b \in DOMAIN more, more[a] = more[b] PROVE a = b
  <2>1. \A x, y \in DOMAIN instances : instances[x] = instances[y] => x = y
    BY DEF InstancesOK
  <2>2. CASE type \in DOMAIN instances /\ instance = instances[type]
    BY <1>1, <1>3, <2>1, <2>2
  <2>3. CASE type \notin DOMAIN instances /\ \A x \in DOMAIN instances : instances[x].callee # instance.callee
    BY <1>1, <1>3, <2>1, <2>3
  <2> QED
    BY <2>2, <2>3
<1> QED
  BY <1>2, <1>3 DEF InstancesOK, more

(* What fits where it is still does after the unit has grown. *)
LEMMA FitsGrow ==
  ASSUME NEW ts, NEW ds, NEW newTs, NEW newDs, Grown(ts, ds, newTs, newDs), NEW d \in DOMAIN ds, NEW u, Fits(ts, ds, d, u)
  PROVE  Fits(newTs, newDs, d, u)
BY DEF Grown, Fits

LEMMA Init_Consistent == Init => Consistent
<1> SUFFICES ASSUME Init PROVE Consistent
  OBVIOUS
<1>1. /\ program \in Programs /\ IsUnit(program)
      /\ templates = program.templates /\ defs = [d \in DOMAIN program.defs |-> Original(d, program)]
      /\ main = program.main /\ instantiations = <<>> /\ instantiated = {} /\ modified = FALSE /\ loopCount = 0
      /\ step = "main" /\ visits = {} /\ replaced = {}
  BY FlatteningAssumption DEF Init
<1>2. TemplatesOK(templates)
  BY <1>1 DEF TemplatesOK, IsUnit, IsTemplate
<1>3. \A d \in DOMAIN program.defs :
        /\ d \in Paths /\ Places(d.name) = {} /\ d.template \in DOMAIN templates \cup {ModuleLevel}
        /\ \A u \in program.defs[d].body : /\ u \in Uses /\ u.callee \in DOMAIN program.defs
                                           /\ Len(u.args) = Len(ParamsIn(templates, u.callee))
                                           /\ NamesIn(u) \subseteq DeclaredIn(templates, d)
  BY <1>1 DEF IsUnit, TargetOf
<1>4. DOMAIN defs = DOMAIN program.defs
  BY <1>1
<1>5. ASSUME NEW d \in DOMAIN program.defs PROVE IsDef(defs[d]) /\ defs[d].body = program.defs[d].body
  <2>1. defs[d] = Original(d, program)
    BY <1>1
  <2> DEFINE values == Original(d, program).values
  <2>2. defs[d] = [kind |-> program.defs[d].kind, body |-> program.defs[d].body, origin |-> d, values |-> values]
    BY <2>1 DEF Original
  <2> HIDE DEF values
  <2>3. program.defs[d].body \subseteq Uses
    BY <1>3
  <2> QED
    BY <2>2, <2>3 DEF IsDef
<1>6. DefsOK(templates, defs)
  <2>1. IsFiniteSet(DOMAIN defs)
    BY <1>1, <1>4 DEF IsUnit
  <2>2. defs = [d \in DOMAIN defs |-> defs[d]]
    BY <1>1
  <2>3. DOMAIN templates \ DOMAIN program.templates = {}
    BY <1>1
  <2> QED
    BY <1>3, <1>4, <1>5, <2>1, <2>2, <2>3 DEF DefsOK
<1>7. Well(templates, defs)
  <2>1. ASSUME NEW d \in DOMAIN defs, NEW u \in defs[d].body PROVE Fits(templates, defs, d, u)
    BY <1>3, <1>4, <1>5 DEF Fits, Found
  <2> QED
    BY <1>2, <1>6, <2>1 DEF Well
<1>8. MainOK
  <2>1. TargetOf(main, program)
    BY <1>1 DEF IsUnit
  <2>2. DOMAIN instantiations = {}
    BY <1>1
  <2> QED
    BY <1>1, <1>4, <2>1, <2>2 DEF MainOK, TargetOf, Params
<1>9. InstancesOK(instantiations, templates, defs)
  <2>1. DOMAIN instantiations = {}
    BY <1>1
  <2> QED
    BY <2>1 DEF InstancesOK
<1>10. LoopOK
  <2>1. IterationLimit \in Nat
    BY FlatteningAssumption, Zenon
  <2>2. 0 \in Nat /\ 0 <= IterationLimit + 1 /\ 0 <= IterationLimit
    BY <2>1
  <2>3. modified \in BOOLEAN /\ step \in Steps
    BY <1>1 DEF Steps
  <2> QED
    BY <1>1, <2>2, <2>3, Zenon DEF LoopOK
<1>11. VisitsOK
  BY <1>1 DEF VisitsOK, InBodies
<1> QED
  BY <1>1, <1>7, <1>8, <1>9, <1>10, <1>11 DEF Consistent

(* The unit is well formed in the next state when it is by its own terms. *)
LEMMA StaysWell ==
  ASSUME program' = program, Well(templates', defs')
  PROVE  Well(templates, defs)'
BY DEF Well, TemplatesOK, DefsOK, IsDef, Fits, Found, NoExpressionLeft

(* A struct's type is converted: to the instance that is recorded for it,   *)
(* or to a new one, which then is recorded.                                 *)
LEMMA ConvertedTypeFacts ==
  ASSUME program \in Programs, Well(templates, defs), InstancesOK(instantiations, templates, defs),
         NEW u \in Uses, Found(templates, defs, u),
         StructType(u) \in DOMAIN instantiations \/ CanInstantiate(u)
  PROVE  LET new == ConvertedType(u)
         IN /\ Well(new.templates, new.defs) /\ Grown(templates, defs, new.templates, new.defs)
            /\ new.use \in Uses /\ new.use.kind = u.kind /\ NamesIn(new.use) \subseteq NamesIn(u)
            /\ Found(new.templates, new.defs, new.use)
            /\ InstancesOK(Put(instantiations, StructType(u), StructType(new.use)), new.templates, new.defs)
<1> DEFINE new == ConvertedType(u)
           type == StructType(u)
           instance == StructType(new.use)
<1>1. /\ instance = StructType(instance) /\ instance.callee = new.use.callee /\ instance.args = new.use.args
      /\ type.args = u.args /\ type.callee = u.callee
  BY DEF StructType
<1>2. CASE type \in DOMAIN instantiations
  <2> DEFINE known == instantiations[type]
  <2>1. /\ known = StructType(known) /\ known.callee \in DOMAIN defs
        /\ known.args \in Seq(Attributes) /\ ToSet(known.args) \subseteq ToSet(u.args)
        /\ Len(ParamsIn(templates, known.callee)) = Len(known.args)
    BY <1>1, <1>2 DEF InstancesOK
  <2> HIDE DEF known
  <2>2. new.use = Redirected(u, known.callee, known.args) /\ new.defs = defs /\ new.templates = templates
    BY <1>2 DEF ConvertedType, Redirected, known
  <2> HIDE DEF new
  <2>3. known.callee \in Paths
    BY <2>1 DEF Well, DefsOK
  <2>4. /\ new.use \in Uses /\ new.use.kind = u.kind /\ NamesIn(new.use) \subseteq NamesIn(u)
        /\ new.use.callee = known.callee /\ new.use.args = known.args
    BY <2>1, <2>2, <2>3, UseChange
  <2>5. Found(templates, defs, new.use)
    BY <2>1, <2>4 DEF Found
  <2>6. instance = known
    BY <2>1, <2>4 DEF StructType
  <2> HIDE DEF type, instance
  <2>7. InstancesOK(Put(instantiations, type, instance), templates, defs)
    BY <1>1, <1>2, <2>1, <2>6, OneMoreInstance DEF known
  <2>8. Grown(templates, defs, templates, defs)
    BY DEF Grown
  <2> QED
    BY <2>2, <2>4, <2>5, <2>7, <2>8 DEF new, type, instance
<1>3. CASE type \notin DOMAIN instantiations
  <2>1. CanInstantiate(u) /\ new = StructInstance(u)
    BY <1>3 DEF ConvertedType
  <2>2. Len(Params(u.callee)) = Len(u.args)
    BY <2>1 DEF Found, CanInstantiate, Params
  <2> HIDE DEF new
  <2>3. /\ Well(new.templates, new.defs) /\ Grown(templates, defs, new.templates, new.defs)
        /\ new.use \in Uses /\ new.use.kind = u.kind /\ NamesIn(new.use) \subseteq NamesIn(u)
        /\ new.use.callee \in DOMAIN new.defs \ DOMAIN defs
        /\ Len(ParamsIn(new.templates, new.use.callee)) = Len(new.use.args)
        /\ ToSet(new.use.args) \subseteq ToSet(u.args)
    BY <2>1, <2>2, StructInstanceFacts
  <2>4. Found(new.templates, new.defs, new.use)
    BY <2>3 DEF Found
  <2>5. InstancesOK(instantiations, new.templates, new.defs)
    BY <2>3, InstancesGrow DEF Grown
  <2>6. \A a \in DOMAIN instantiations : instantiations[a].callee # instance.callee
    BY <1>1, <2>3 DEF InstancesOK
  <2>7. new.use.args \in Seq(Attributes)
    BY <2>3 DEF Uses
  <2> HIDE DEF type, instance
  <2>8. InstancesOK(Put(instantiations, type, instance), new.templates, new.defs)
    BY <1>1, <1>3, <2>3, <2>5, <2>6, <2>7, OneMoreInstance
  <2> QED
    BY <2>3, <2>4, <2>8 DEF new, type, instance
<1> QED
  BY <1>2, <1>3

LEMMA InstantiateMain_Consistent ==
  ASSUME Consistent, InstantiateMain
  PROVE  Consistent'
<1> DEFINE new == StructInstance(main)
<1>1. /\ program \in Programs /\ Well(templates, defs) /\ MainOK /\ LoopOK /\ VisitsOK
      /\ InstancesOK(instantiations, templates, defs) /\ instantiated \subseteq DOMAIN defs
      /\ step = "main" /\ step' = "round"
      /\ CanInstantiate(main)
  BY DEF Consistent, InstantiateMain
<1>2. /\ main' = new.use /\ defs' = new.defs /\ templates' = new.templates
      /\ instantiations' = Put(instantiations, StructType(main), StructType(new.use))
      /\ modified' = (modified \/ StructType(main) \notin DOMAIN instantiations)
      /\ UNCHANGED <<program, instantiated, loopCount, visits, replaced>>
  BY DEF InstantiateMain, RecordStruct
<1>3. main \in Uses /\ Found(templates, defs, main) /\ new = ConvertedType(main)
  BY <1>1 DEF MainOK, Found, Params, ConvertedType
<1> HIDE DEF new
<1>4. /\ Well(new.templates, new.defs) /\ Grown(templates, defs, new.templates, new.defs)
      /\ InstancesOK(Put(instantiations, StructType(main), StructType(new.use)), new.templates, new.defs)
  BY <1>1, <1>3, ConvertedTypeFacts
<1>5. Well(templates, defs)'
  BY <1>2, <1>4, StaysWell
<1>6. InstancesOK(instantiations, templates, defs)'
  BY <1>2, <1>4
<1>7. (instantiated \subseteq DOMAIN defs)'
  BY <1>1, <1>2, <1>4 DEF Grown
<1>8. LoopOK'
  BY <1>1, <1>2 DEF LoopOK, Steps
<1>9. VisitsOK'
  BY <1>1, <1>2 DEF VisitsOK, InBodies
<1> QED
  BY <1>1, <1>2, <1>5, <1>6, <1>7, <1>8, <1>9 DEF Consistent

LEMMA KeepMain_Consistent ==
  ASSUME Consistent, KeepMain
  PROVE  Consistent'
<1>1. /\ program \in Programs /\ Well(templates, defs) /\ LoopOK /\ VisitsOK
      /\ InstancesOK(instantiations, templates, defs) /\ instantiated \subseteq DOMAIN defs
      /\ step = "main" /\ step' \in {"round", "failed"}
      /\ UNCHANGED <<program, templates, defs, main, instantiations, instantiated, modified, loopCount, visits, replaced>>
  BY DEF Consistent, KeepMain
<1>2. Well(templates, defs)'
  BY <1>1, StaysWell
<1>3. InstancesOK(instantiations, templates, defs)'
  BY <1>1
<1>4. LoopOK'
  BY <1>1 DEF LoopOK, Steps
<1>5. VisitsOK'
  BY <1>1 DEF VisitsOK, InBodies
<1> QED
  BY <1>1, <1>2, <1>3, <1>4, <1>5 DEF Consistent

(* The uses to visit are those that there are. *)
LEMMA UsesOfFacts ==
  ASSUME NEW kind
  PROVE  InBodies(UsesOf(kind), defs) /\ \A v \in UsesOf(kind) : v[2].kind = kind
<1> SUFFICES ASSUME NEW v \in UsesOf(kind)
             PROVE  v = <<v[1], v[2]>> /\ v[1] \in DOMAIN defs /\ v[2] \in defs[v[1]].body /\ v[2].kind = kind
  BY DEF InBodies
<1>1. PICK d \in DOMAIN defs : v \in {<<d, u>> : u \in {w \in defs[d].body : w.kind = kind}}
  BY DEF UsesOf
<1>2. PICK u \in defs[d].body : u.kind = kind /\ v = <<d, u>>
  BY <1>1
<1> QED
  BY <1>2

LEMMA BeginRound_Consistent ==
  ASSUME Consistent, BeginRound
  PROVE  Consistent'
<1>1. /\ program \in Programs /\ Well(templates, defs) /\ LoopOK /\ VisitsOK
      /\ InstancesOK(instantiations, templates, defs) /\ instantiated \subseteq DOMAIN defs
      /\ step = "round" /\ loopCount' = loopCount + 1
      /\ modified' = IF loopCount' > IterationLimit THEN modified ELSE FALSE
      /\ step' = IF loopCount' > IterationLimit THEN "failed" ELSE "structs"
      /\ visits' = IF loopCount' > IterationLimit THEN {} ELSE UsesOf("struct")
      /\ UNCHANGED <<program, templates, defs, main, instantiations, instantiated, replaced>>
  BY DEF Consistent, BeginRound
<1>2. Well(templates, defs)'
  BY <1>1, StaysWell
<1>3. InstancesOK(instantiations, templates, defs)'
  BY <1>1
<1>4. LoopOK'
  <2>1. IterationLimit \in Nat
    BY FlatteningAssumption, Zenon
  <2>2. loopCount \in Nat /\ loopCount <= IterationLimit
    BY <1>1 DEF LoopOK
  <2>3. loopCount' \in Nat /\ loopCount' <= IterationLimit + 1 /\ (~ (loopCount' > IterationLimit) => loopCount' <= IterationLimit)
    BY <1>1, <2>1, <2>2
  <2>4. modified' \in BOOLEAN /\ step' \in Steps /\ (step' # "failed" => ~ (loopCount' > IterationLimit))
    BY <1>1 DEF LoopOK, Steps
  <2> QED
    BY <2>3, <2>4 DEF LoopOK
<1>5. VisitsOK'
  <2> DEFINE over == loopCount' > IterationLimit
  <2>1. replaced' = {} /\ defs' = defs
    BY <1>1 DEF VisitsOK
  <2>2. visits' = IF over THEN {} ELSE UsesOf("struct")
    BY <1>1
  <2>3. step' = IF over THEN "failed" ELSE "structs"
    BY <1>1
  <2> HIDE DEF over
  <2>4. InBodies(UsesOf("struct"), defs) /\ \A v \in UsesOf("struct") : v[2].kind = "struct"
    BY UsesOfFacts
  <2>5. \A v \in visits' : v \in UsesOf("struct")
    BY <2>2
  <2> QED
    BY <2>1, <2>2, <2>3, <2>4, <2>5 DEF VisitsOK, InBodies
<1> QED
  BY <1>1, <1>2, <1>3, <1>4, <1>5 DEF Consistent

LEMMA ConvertStructUse_Consistent ==
  ASSUME Consistent, NEW d, NEW u, ConvertStructUse(d, u)
  PROVE  Consistent'
<1> DEFINE new == ConvertedType(u)
           body == new.defs[d].body \cup {new.use}
           turned == StructType(u) \in DOMAIN instantiations \/ CanInstantiate(u)
<1>1. /\ program \in Programs /\ Well(templates, defs) /\ LoopOK /\ VisitsOK
      /\ InstancesOK(instantiations, templates, defs) /\ instantiated \subseteq DOMAIN defs
      /\ step = "structs" /\ <<d, u>> \in visits /\ visits' = visits \ {<<d, u>>}
      /\ UNCHANGED <<program, main, instantiated, loopCount, step>>
  BY DEF Consistent, ConvertStructUse
<1>2. d \in DOMAIN defs /\ u \in defs[d].body /\ u.kind = "struct"
  BY <1>1 DEF VisitsOK, InBodies
<1>3. u \in Uses /\ Fits(templates, defs, d, u)
  BY <1>1, <1>2 DEF Well, DefsOK, IsDef
<1>4. CASE turned
  <2>1. /\ defs' = [new.defs EXCEPT ![d] = [new.defs[d] EXCEPT !.body = body]]
        /\ templates' = new.templates /\ replaced' = replaced \cup {<<d, u>>}
        /\ instantiations' = Put(instantiations, StructType(u), StructType(new.use))
        /\ modified' = (modified \/ StructType(u) \notin DOMAIN instantiations)
    BY <1>4 DEF ConvertStructUse, RecordStruct
  <2> HIDE DEF new
  <2>2. /\ Well(new.templates, new.defs) /\ Grown(templates, defs, new.templates, new.defs)
        /\ new.use \in Uses /\ new.use.kind = u.kind /\ NamesIn(new.use) \subseteq NamesIn(u)
        /\ Found(new.templates, new.defs, new.use)
        /\ InstancesOK(Put(instantiations, StructType(u), StructType(new.use)), new.templates, new.defs)
    BY <1>1, <1>3, <1>4, ConvertedTypeFacts DEF Fits, new
  <2>3. d \in DOMAIN new.defs /\ new.defs[d] = defs[d] /\ DOMAIN defs \subseteq DOMAIN new.defs
        /\ \A e \in DOMAIN defs : new.defs[e] = defs[e]
    BY <1>2, <2>2 DEF Grown
  <2>4. Fits(new.templates, new.defs, d, new.use)
    <3>1. Fits(new.templates, new.defs, d, u)
      BY <1>2, <1>3, <2>2, FitsGrow
    <3> QED
      BY <2>2, <3>1 DEF Fits
  <2>5. body \in SUBSET Uses /\ \A w \in body : Fits(new.templates, new.defs, d, w)
    <3>1. new.defs[d].body \subseteq Uses /\ \A w \in new.defs[d].body : Fits(new.templates, new.defs, d, w)
      BY <2>2, <2>3 DEF Well, DefsOK, IsDef
    <3> QED
      BY <2>2, <2>4, <3>1
  <2> HIDE DEF body
  <2>6. /\ Well(new.templates, defs') /\ DOMAIN defs' = DOMAIN new.defs
        /\ defs'[d].body = body /\ \A e \in DOMAIN new.defs : e # d => defs'[e] = new.defs[e]
    BY <2>1, <2>2, <2>3, <2>5, OneBody
  <2>7. Well(templates, defs)'
    BY <1>1, <2>1, <2>6, StaysWell
  <2>8. InstancesOK(instantiations, templates, defs)'
    <3>1. InstancesOK(Put(instantiations, StructType(u), StructType(new.use)), new.templates, defs')
      BY <2>2, <2>6, InstancesGrow
    <3> QED
      BY <2>1, <3>1
  <2>9. (instantiated \subseteq DOMAIN defs)'
    BY <1>1, <2>3, <2>6
  <2>10. LoopOK'
    BY <1>1, <2>1 DEF LoopOK, Steps
  <2>11. \A e \in DOMAIN defs : e \in DOMAIN defs' /\ defs[e].body \subseteq defs'[e].body
    BY <2>3, <2>6 DEF body
  <2>12. VisitsOK'
    <3>1. InBodies(visits, defs) /\ InBodies(replaced \cup {<<d, u>>}, defs)
      BY <1>1, <1>2 DEF VisitsOK, InBodies
    <3>2. InBodies(visits', defs') /\ InBodies(replaced', defs')
      BY <1>1, <2>1, <2>11, <3>1 DEF InBodies
    <3>3. \A v \in replaced' : v[2].kind = "struct"
      BY <1>1, <1>2, <2>1 DEF VisitsOK
    <3> QED
      BY <1>1, <3>2, <3>3 DEF VisitsOK
  <2> QED
    BY <1>1, <2>7, <2>8, <2>9, <2>10, <2>12 DEF Consistent
<1>5. CASE ~turned
  <2>1. UNCHANGED <<defs, templates, replaced, instantiations, modified>>
    BY <1>5 DEF ConvertStructUse
  <2>2. Well(templates, defs)'
    BY <1>1, <2>1, StaysWell
  <2>3. LoopOK' /\ VisitsOK'
    BY <1>1, <2>1 DEF LoopOK, Steps, VisitsOK, InBodies
  <2>4. InstancesOK(instantiations, templates, defs)' /\ (instantiated \subseteq DOMAIN defs)'
    BY <1>1, <2>1
  <2> QED
    BY <1>1, <2>2, <2>3, <2>4 DEF Consistent
<1> QED
  BY <1>4, <1>5

LEMMA EndStructs_Consistent ==
  ASSUME Consistent, EndStructs
  PROVE  Consistent'
<1> DEFINE kept(d) == {u \in defs[d].body : <<d, u>> \notin replaced}
<1>1. /\ program \in Programs /\ Well(templates, defs) /\ LoopOK /\ VisitsOK
      /\ InstancesOK(instantiations, templates, defs) /\ instantiated \subseteq DOMAIN defs
      /\ step = "structs" /\ step' = "functions" /\ replaced' = {} /\ visits' = UsesOf("func")
      /\ defs' = [d \in DOMAIN defs |-> [defs[d] EXCEPT !.body = kept(d)]]
      /\ UNCHANGED <<program, templates, main, instantiations, instantiated, modified, loopCount>>
  BY DEF Consistent, EndStructs
<1>2. DOMAIN defs' = DOMAIN defs /\ defs' = [d \in DOMAIN defs |-> defs'[d]]
  BY <1>1
<1>3. ASSUME NEW d \in DOMAIN defs PROVE IsDef(defs'[d]) /\ defs'[d].body = kept(d)
  <2>1. defs'[d] = [defs[d] EXCEPT !.body = kept(d)]
    BY <1>1
  <2>2. IsDef(defs[d])
    BY <1>1 DEF Well, DefsOK
  <2>3. kept(d) \subseteq Uses
    BY <2>2 DEF IsDef
  <2> HIDE DEF kept
  <2> QED
    BY <2>1, <2>2, <2>3 DEF IsDef
<1>4. Well(templates, defs')
  <2>1. \A d \in DOMAIN defs : IsDef(defs'[d]) /\ \A u \in defs'[d].body : Fits(templates, defs, d, u)
    BY <1>1, <1>3 DEF Well
  <2> QED
    BY <1>1, <1>2, <2>1, BodiesChange
<1>5. Well(templates, defs)'
  BY <1>1, <1>4, StaysWell
<1>6. InstancesOK(instantiations, templates, defs)'
  <2>1. InstancesOK(instantiations, templates, defs')
    BY <1>1, <1>2, InstancesGrow
  <2> QED
    BY <1>1, <2>1
<1>7. LoopOK'
  BY <1>1 DEF LoopOK, Steps
<1>8. VisitsOK'
  <2>1. InBodies(UsesOf("func"), defs) /\ \A v \in UsesOf("func") : v[2].kind = "func"
    BY UsesOfFacts
  <2>2. \A v \in replaced : v[2].kind = "struct"
    BY <1>1 DEF VisitsOK
  <2>3. InBodies(visits', defs')
    <3> SUFFICES ASSUME NEW v \in visits' PROVE v = <<v[1], v[2]>> /\ v[1] \in DOMAIN defs' /\ v[2] \in defs'[v[1]].body
      BY DEF InBodies
    <3>1. v = <<v[1], v[2]>> /\ v[1] \in DOMAIN defs /\ v[2] \in defs[v[1]].body /\ v[2].kind = "func"
      BY <1>1, <2>1 DEF InBodies
    <3>2. v \notin replaced
      BY <2>2, <3>1
    <3> QED
      BY <1>2, <1>3, <3>1, <3>2
  <2>4. InBodies(replaced', defs') /\ replaced' = {} /\ step' = "functions"
    BY <1>1 DEF InBodies
  <2> QED
    BY <2>3, <2>4 DEF VisitsOK
<1> QED
  BY <1>1, <1>2, <1>5, <1>6, <1>7, <1>8 DEF Consistent

LEMMA InstantiateCall_Consistent ==
  ASSUME Consistent, NEW d, NEW u, InstantiateCall(d, u)
  PROVE  Consistent'
<1> DEFINE new == FunctionInstance(u)
           body == (new.defs[d].body \ {u}) \cup {new.use}
           clones == DOMAIN new.defs \ DOMAIN defs
           inserted == UNION {{<<c, v>> : v \in {w \in new.defs[c].body : w.kind = "func"}} : c \in clones}
           unresolved == \E c \in clones : \E v \in new.defs[c].body :
                           v.kind = "func" /\ v.callee \notin DOMAIN new.defs
<1>1. /\ program \in Programs /\ Well(templates, defs) /\ LoopOK /\ VisitsOK
      /\ InstancesOK(instantiations, templates, defs) /\ instantiated \subseteq DOMAIN defs
      /\ step = "functions" /\ <<d, u>> \in visits /\ CanInstantiate(u)
      /\ UNCHANGED <<program, main, instantiations, loopCount, replaced>>
  BY DEF Consistent, InstantiateCall
<1>2. d \in DOMAIN defs /\ u \in defs[d].body
  BY <1>1 DEF VisitsOK, InBodies
<1>3. u \in Uses /\ Fits(templates, defs, d, u)
  BY <1>1, <1>2 DEF Well, DefsOK, IsDef
<1>4. CASE unresolved
  <2>1. step' = "failed" /\ visits' = {} /\ UNCHANGED <<defs, templates, instantiated, modified>>
    BY <1>4 DEF InstantiateCall
  <2>2. Well(templates, defs)'
    BY <1>1, <2>1, StaysWell
  <2>3. LoopOK' /\ VisitsOK'
    BY <1>1, <2>1 DEF LoopOK, Steps, VisitsOK, InBodies
  <2>4. InstancesOK(instantiations, templates, defs)' /\ (instantiated \subseteq DOMAIN defs)'
    BY <1>1, <2>1
  <2> QED
    BY <1>1, <2>1, <2>2, <2>3, <2>4 DEF Consistent
<1>5. CASE ~unresolved
  <2>1. /\ defs' = [new.defs EXCEPT ![d] = [new.defs[d] EXCEPT !.body = body]]
        /\ templates' = new.templates /\ instantiated' = instantiated \cup {u.callee}
        /\ modified' = TRUE /\ step' = step
        /\ \E more \in {{}, inserted} : visits' = (visits \ {<<d, u>>}) \cup more
    BY <1>5 DEF InstantiateCall
  <2>2. Len(Params(u.callee)) = Len(u.args) /\ u.callee \in DOMAIN defs
    BY <1>1, <1>3 DEF Fits, Found, CanInstantiate, Params
  <2> HIDE DEF new, unresolved
  <2>3. /\ Well(new.templates, new.defs) /\ Grown(templates, defs, new.templates, new.defs)
        /\ new.use \in Uses /\ NamesIn(new.use) \subseteq NamesIn(u)
        /\ Found(new.templates, new.defs, new.use)
    BY <1>1, <1>3, <2>2, FunctionInstanceFacts DEF new
  <2>4. d \in DOMAIN new.defs /\ new.defs[d] = defs[d] /\ DOMAIN defs \subseteq DOMAIN new.defs
        /\ \A e \in DOMAIN defs : new.defs[e] = defs[e]
    BY <1>2, <2>3 DEF Grown
  <2>5. Fits(new.templates, new.defs, d, new.use)
    <3>1. Fits(new.templates, new.defs, d, u)
      BY <1>2, <1>3, <2>3, FitsGrow
    <3> QED
      BY <2>3, <3>1 DEF Fits
  <2>6. body \in SUBSET Uses /\ \A w \in body : Fits(new.templates, new.defs, d, w)
    <3>1. new.defs[d].body \subseteq Uses /\ \A w \in new.defs[d].body : Fits(new.templates, new.defs, d, w)
      BY <2>3, <2>4 DEF Well, DefsOK, IsDef
    <3> QED
      BY <2>3, <2>5, <3>1
  <2> HIDE DEF body
  <2>7. /\ Well(new.templates, defs') /\ DOMAIN defs' = DOMAIN new.defs
        /\ defs'[d].body = body /\ \A e \in DOMAIN new.defs : e # d => defs'[e] = new.defs[e]
    <3>1. defs' = [new.defs EXCEPT ![d] = [new.defs[d] EXCEPT !.body = body]]
      BY <2>1, Zenon
    <3>2. Well(new.templates, new.defs) /\ d \in DOMAIN new.defs
      BY <2>3, <2>4
    <3> QED
      BY <2>6, <3>1, <3>2, OneBody
  <2>8. Well(templates, defs)'
    BY <1>1, <2>1, <2>7, StaysWell
  <2>9. InstancesOK(instantiations, templates, defs)'
    <3>1. InstancesOK(instantiations, new.templates, defs')
      BY <1>1, <2>3, <2>7, InstancesGrow DEF Grown
    <3> QED
      BY <1>1, <2>1, <3>1
  <2>10. (instantiated \subseteq DOMAIN defs)'
    BY <1>1, <2>1, <2>2, <2>4, <2>7
  <2>11. LoopOK'
    BY <1>1, <2>1 DEF LoopOK, Steps
  <2>12. InBodies(visits \ {<<d, u>>}, defs')
    <3> SUFFICES ASSUME NEW v \in visits, v # <<d, u>>
                 PROVE  v = <<v[1], v[2]>> /\ v[1] \in DOMAIN defs' /\ v[2] \in defs'[v[1]].body
      BY DEF InBodies
    <3>1. v = <<v[1], v[2]>> /\ v[1] \in DOMAIN defs /\ v[2] \in defs[v[1]].body
      BY <1>1 DEF VisitsOK, InBodies
    <3>2. CASE v[1] = d
      <4>1. v[2] # u
        BY <3>1, <3>2
      <4> QED
        BY <2>4, <2>7, <3>1, <3>2, <4>1 DEF body
    <3>3. CASE v[1] # d
      BY <2>4, <2>7, <3>1, <3>3
    <3> QED
      BY <3>2, <3>3
  <2>13. InBodies(inserted, defs')
    <3> SUFFICES ASSUME NEW v \in inserted
                 PROVE  v = <<v[1], v[2]>> /\ v[1] \in DOMAIN defs' /\ v[2] \in defs'[v[1]].body
      BY DEF InBodies
    <3>1. PICK c \in clones : v \in {<<c, x>> : x \in {w \in new.defs[c].body : w.kind = "func"}}
      OBVIOUS
    <3>2. PICK x \in new.defs[c].body : v = <<c, x>>
      BY <3>1
    <3>3. c # d /\ c \in DOMAIN new.defs
      BY <1>2, <3>1
    <3> QED
      BY <2>7, <3>2, <3>3
  <2>14. VisitsOK'
    <3> HIDE DEF inserted
    <3>1. InBodies(visits', defs')
      <4>1. PICK more \in {{}, inserted} : visits' = (visits \ {<<d, u>>}) \cup more
        BY <2>1
      <4>2. \A v \in visits' : v \in visits \ {<<d, u>>} \/ v \in inserted
        BY <4>1
      <4> QED
        BY <2>12, <2>13, <4>2 DEF InBodies
    <3>2. replaced' = {} /\ step' = "functions"
      BY <1>1, <2>1 DEF VisitsOK
    <3> QED
      BY <3>1, <3>2 DEF VisitsOK, InBodies
  <2> QED
    BY <1>1, <2>1, <2>8, <2>9, <2>10, <2>11, <2>14 DEF Consistent
<1> QED
  BY <1>4, <1>5

(* The other steps only move on. *)
LEMMA Moves_Consistent ==
  ASSUME Consistent, UNCHANGED <<program, templates, defs, main, instantiations, instantiated, modified,
                                 loopCount, replaced>>,
         step' \in Steps, step # "failed" \/ step' = "failed", step' # "main", visits' \subseteq visits,
         step' \notin {"structs", "functions"} => visits' = {},
         step = "structs" <=> step' = "structs"
  PROVE  Consistent'
<1>1. /\ program \in Programs /\ Well(templates, defs) /\ LoopOK /\ VisitsOK
      /\ InstancesOK(instantiations, templates, defs) /\ instantiated \subseteq DOMAIN defs
  BY DEF Consistent
<1>2. Well(templates, defs)'
  BY <1>1, StaysWell
<1>3. LoopOK'
  BY <1>1 DEF LoopOK
<1>4. VisitsOK'
  BY <1>1 DEF VisitsOK, InBodies
<1>5. InstancesOK(instantiations, templates, defs)' /\ (instantiated \subseteq DOMAIN defs)'
  BY <1>1
<1> QED
  BY <1>1, <1>2, <1>3, <1>4, <1>5 DEF Consistent

LEMMA OtherSteps_Consistent ==
  ASSUME Consistent,
         \/ EndFunctions \/ EndRound
         \/ \E v \in visits : KeepCall(v[1], v[2]) \/ CalleeMissing(v[1], v[2])
  PROVE  Consistent'
<1>1. VisitsOK
  BY DEF Consistent
<1>2. CASE EndFunctions
  BY <1>2, Moves_Consistent DEF EndFunctions, Steps
<1>3. CASE EndRound
  BY <1>1, <1>3, Moves_Consistent DEF EndRound, Steps, VisitsOK
<1>4. ASSUME NEW d, NEW u, KeepCall(d, u) PROVE Consistent'
  BY <1>4, Moves_Consistent DEF KeepCall, Steps
<1>5. ASSUME NEW d, NEW u, CalleeMissing(d, u) PROVE Consistent'
  BY <1>5, Moves_Consistent DEF CalleeMissing, Steps
<1> QED
  BY <1>2, <1>3, <1>4, <1>5

(* Uses are rewritten: with other arguments, but as many, and none of them  *)
(* a symbol that was not there.                                             *)
Reworded(u, w) ==
  /\ w \in Uses /\ w.callee = u.callee /\ Len(w.args) = Len(u.args)
  /\ NamesIn(w) \subseteq NamesIn(u)

LEMMA Reworded_Consistent ==
  ASSUME Consistent, step \in {"unroll", "affine maps"}, step' \in Steps, step' \notin {"main", "structs", "functions", "failed"},
         UNCHANGED <<program, templates, main, instantiations, instantiated, loopCount, visits, replaced>>,
         modified' \in BOOLEAN, NEW bodies,
         \A d \in DOMAIN defs : \A w \in bodies[d] : \E u \in defs[d].body : Reworded(u, w),
         defs' = [d \in DOMAIN defs |-> [defs[d] EXCEPT !.body = bodies[d]]]
  PROVE  Consistent'
<1>1. /\ program \in Programs /\ Well(templates, defs) /\ LoopOK /\ VisitsOK
      /\ InstancesOK(instantiations, templates, defs) /\ instantiated \subseteq DOMAIN defs
  BY DEF Consistent
<1>2. DOMAIN defs' = DOMAIN defs /\ defs' = [d \in DOMAIN defs |-> defs'[d]]
  OBVIOUS
<1>3. ASSUME NEW d \in DOMAIN defs PROVE IsDef(defs'[d]) /\ defs'[d].body = bodies[d]
  <2>1. defs'[d] = [defs[d] EXCEPT !.body = bodies[d]]
    OBVIOUS
  <2>2. IsDef(defs[d])
    BY <1>1 DEF Well, DefsOK
  <2>3. bodies[d] \subseteq Uses
    BY DEF Reworded
  <2> QED
    BY <2>1, <2>2, <2>3 DEF IsDef
<1>4. ASSUME NEW d \in DOMAIN defs, NEW w \in bodies[d] PROVE Fits(templates, defs, d, w)
  <2>1. PICK u \in defs[d].body : Reworded(u, w)
    OBVIOUS
  <2>2. Fits(templates, defs, d, u)
    BY <1>1 DEF Well
  <2> QED
    BY <2>1, <2>2 DEF Fits, Found, Reworded
<1>5. Well(templates, defs')
  <2>1. \A d \in DOMAIN defs : IsDef(defs'[d]) /\ \A u \in defs'[d].body : Fits(templates, defs, d, u)
    BY <1>3, <1>4
  <2> QED
    BY <1>1, <1>2, <2>1, BodiesChange
<1>6. Well(templates, defs)'
  BY <1>5, StaysWell
<1>7. InstancesOK(instantiations, templates, defs)'
  <2>1. InstancesOK(instantiations, templates, defs')
    BY <1>1, <1>2, InstancesGrow
  <2> QED
    BY <2>1
<1>8. LoopOK'
  BY <1>1 DEF LoopOK
<1>9. VisitsOK'
  BY <1>1 DEF VisitsOK, InBodies
<1> QED
  BY <1>1, <1>2, <1>6, <1>7, <1>8, <1>9 DEF Consistent

(* One iteration of an unrolled loop. *)
LEMMA IterationFacts ==
  ASSUME NEW u \in Uses, NEW w \in Iterations(u)
  PROVE  Reworded(u, w)
<1>1. u.args \in Seq(Attributes) /\ DOMAIN u.args = 1..Len(u.args) /\ Len(u.args) \in Nat
      /\ \A i \in 1..Len(u.args) : u.args[i] \in Attributes
  BY DEF Uses
<1>2. CASE u.loop.kind # "const"
  BY <1>2 DEF Iterations, Reworded
<1>3. CASE u.loop.kind = "const"
  <2> DEFINE given(n) == [i \in DOMAIN u.args |-> IF u.args[i] = Induction THEN Applied(n) ELSE u.args[i]]
  <2>1. PICK n \in 0..(u.loop.value - 1) : w = [u EXCEPT !.loop = NoLoop, !.args = given(n)]
    BY <1>3 DEF Iterations
  <2> DEFINE args == given(n)
  <2>2. n \in Int
    <3>1. u.loop.value \in Int
      BY DEF Uses, Attributes
    <3> QED
      BY <3>1
  <2>3. Applied(n) \in Attributes /\ Applied(n).kind = "map"
    BY <2>2 DEF Applied, Attributes
  <2>4. NoLoop \in Attributes /\ NoLoop.kind = "none"
    BY DEF NoLoop, Attributes
  <2>5. \A i \in 1..Len(u.args) : args[i] \in Attributes /\ (args[i].kind = "symbol" => args[i] = u.args[i])
    BY <1>1, <2>3
  <2>6. args \in Seq(Attributes) /\ Len(args) = Len(u.args) /\ DOMAIN args = 1..Len(u.args)
    <3>1. args \in [1..Len(u.args) -> Attributes]
      BY <1>1, <2>5
    <3> QED
      BY <1>1, <3>1
  <2>7. w = [u EXCEPT !.loop = NoLoop, !.args = args]
    BY <2>1
  <2> HIDE DEF given, args
  <2>8. w \in Uses /\ w.callee = u.callee /\ w.args = args /\ w.loop = NoLoop
    BY <2>4, <2>6, <2>7 DEF Uses
  <2>9. NamesIn(w) \subseteq NamesIn(u)
    <3> SUFFICES ASSUME NEW b \in ToSet(args) \cup {NoLoop}, b.kind = "symbol" PROVE b \in ToSet(u.args)
      BY <2>8 DEF NamesIn
    <3>1. PICK i \in 1..Len(u.args) : b = args[i]
      BY <2>4, <2>6 DEF ToSet
    <3> QED
      BY <1>1, <2>5, <3>1 DEF ToSet
  <2> QED
    BY <2>6, <2>8, <2>9 DEF Reworded
<1> QED
  BY <1>2, <1>3

LEMMA FoldedFacts ==
  ASSUME NEW u \in Uses, NEW w \in Folded(u)
  PROVE  Reworded(u, w)
<1> DEFINE args == [i \in DOMAIN u.args |->
                      IF u.args[i].kind = "map" /\ u.args[i] # Induction THEN Const(u.args[i].value) ELSE u.args[i]]
<1>1. u.args \in Seq(Attributes) /\ DOMAIN u.args = 1..Len(u.args) /\ Len(u.args) \in Nat
      /\ \A i \in 1..Len(u.args) : u.args[i] \in Attributes
  BY DEF Uses
<1>2. w = [u EXCEPT !.args = args]
  BY DEF Folded
<1>3. \A n \in Int : Const(n) \in Attributes /\ Const(n).kind = "const"
  BY DEF Const, Attributes
<1>4. \A i \in 1..Len(u.args) : args[i] \in Attributes /\ (args[i].kind = "symbol" => args[i] = u.args[i])
  <2> SUFFICES ASSUME NEW i \in 1..Len(u.args)
               PROVE  args[i] \in Attributes /\ (args[i].kind = "symbol" => args[i] = u.args[i])
    OBVIOUS
  <2>1. u.args[i].value \in Int
    BY <1>1 DEF Attributes
  <2>2. args[i] = IF u.args[i].kind = "map" /\ u.args[i] # Induction THEN Const(u.args[i].value) ELSE u.args[i]
    BY <1>1
  <2> HIDE DEF args
  <2>3. CASE args[i] = u.args[i]
    BY <1>1, <2>3
  <2>4. CASE args[i] = Const(u.args[i].value)
    BY <1>3, <2>1, <2>4
  <2> QED
    BY <2>2, <2>3, <2>4
<1>5. args \in Seq(Attributes) /\ Len(args) = Len(u.args) /\ DOMAIN args = 1..Len(u.args)
  <2>1. args \in [1..Len(u.args) -> Attributes]
    BY <1>1, <1>4
  <2> QED
    BY <1>1, <2>1
<1> HIDE DEF args
<1>6. w \in Uses /\ w.callee = u.callee /\ w.args = args /\ w.loop = u.loop
  BY <1>2, <1>5 DEF Uses
<1>7. NamesIn(w) \subseteq NamesIn(u)
  <2> SUFFICES ASSUME NEW b \in ToSet(args), b.kind = "symbol" PROVE b \in ToSet(u.args)
    BY <1>6 DEF NamesIn
  <2>1. PICK i \in 1..Len(u.args) : b = args[i]
    BY <1>5 DEF ToSet
  <2> QED
    BY <1>1, <1>4, <2>1 DEF ToSet
<1> QED
  BY <1>5, <1>6, <1>7 DEF Reworded

LEMMA Unroll_Consistent ==
  ASSUME Consistent, Unroll
  PROVE  Consistent'
<1> DEFINE bodies == [d \in DOMAIN defs |-> UNION {Iterations(u) : u \in defs[d].body}]
<1>1. defs' = [d \in DOMAIN defs |-> [defs[d] EXCEPT !.body = bodies[d]]]
  BY DEF Unroll, Rewritten
<1>2. \A d \in DOMAIN defs : \A w \in bodies[d] : \E u \in defs[d].body : Reworded(u, w)
  <2> SUFFICES ASSUME NEW d \in DOMAIN defs, NEW u \in defs[d].body, NEW w \in Iterations(u) PROVE Reworded(u, w)
    OBVIOUS
  <2>1. u \in Uses
    BY DEF Consistent, Well, DefsOK, IsDef
  <2> QED
    BY <2>1, IterationFacts
<1>3. /\ step = "unroll" /\ step' = "affine maps" /\ modified' = (modified \/ defs' # defs)
      /\ UNCHANGED <<program, templates, main, instantiations, instantiated, loopCount, visits, replaced>>
  BY DEF Unroll
<1>4. modified' \in BOOLEAN
  BY <1>3 DEF Consistent, LoopOK
<1> HIDE DEF bodies
<1> QED
  BY <1>1, <1>2, <1>3, <1>4, Reworded_Consistent DEF Steps

LEMMA FoldAffineMaps_Consistent ==
  ASSUME Consistent, FoldAffineMaps
  PROVE  Consistent'
<1> DEFINE bodies == [d \in DOMAIN defs |-> UNION {Folded(u) : u \in defs[d].body}]
<1>1. defs' = [d \in DOMAIN defs |-> [defs[d] EXCEPT !.body = bodies[d]]]
  BY DEF FoldAffineMaps, Rewritten
<1>2. \A d \in DOMAIN defs : \A w \in bodies[d] : \E u \in defs[d].body : Reworded(u, w)
  <2> SUFFICES ASSUME NEW d \in DOMAIN defs, NEW u \in defs[d].body, NEW w \in Folded(u) PROVE Reworded(u, w)
    OBVIOUS
  <2>1. u \in Uses
    BY DEF Consistent, Well, DefsOK, IsDef
  <2> QED
    BY <2>1, FoldedFacts
<1>3. /\ step = "affine maps" /\ step' = "end of round" /\ modified' = (modified \/ defs' # defs)
      /\ UNCHANGED <<program, templates, main, instantiations, instantiated, loopCount, visits, replaced>>
  BY DEF FoldAffineMaps
<1>4. modified' \in BOOLEAN
  BY <1>3 DEF Consistent, LoopOK
<1> HIDE DEF bodies
<1> QED
  BY <1>1, <1>2, <1>3, <1>4, Reworded_Consistent DEF Steps

LEMMA Next_Consistent == Consistent /\ [Next]_vars => Consistent'
<1> SUFFICES ASSUME Consistent, [Next]_vars PROVE Consistent'
  OBVIOUS
<1>1. CASE InstantiateMain
  BY <1>1, InstantiateMain_Consistent
<1>2. CASE KeepMain
  BY <1>2, KeepMain_Consistent
<1>3. CASE BeginRound
  BY <1>3, BeginRound_Consistent
<1>4. CASE EndStructs
  BY <1>4, EndStructs_Consistent
<1>5. CASE EndFunctions \/ EndRound
  BY <1>5, OtherSteps_Consistent
<1>6. CASE Unroll
  BY <1>6, Unroll_Consistent
<1>7. CASE FoldAffineMaps
  BY <1>7, FoldAffineMaps_Consistent
<1>8. ASSUME NEW v \in visits, ConvertStructUse(v[1], v[2]) PROVE Consistent'
  BY <1>8, ConvertStructUse_Consistent
<1>9. ASSUME NEW v \in visits, InstantiateCall(v[1], v[2]) PROVE Consistent'
  BY <1>9, InstantiateCall_Consistent
<1>10. ASSUME NEW v \in visits, KeepCall(v[1], v[2]) \/ CalleeMissing(v[1], v[2]) PROVE Consistent'
  BY <1>10, OtherSteps_Consistent
<1>11. CASE UNCHANGED vars
  <2>1. /\ program \in Programs /\ Well(templates, defs) /\ LoopOK /\ VisitsOK
        /\ InstancesOK(instantiations, templates, defs) /\ instantiated \subseteq DOMAIN defs
    BY DEF Consistent
  <2>2. UNCHANGED <<program, templates, defs, main, instantiations, instantiated, modified, loopCount, step, visits, replaced>>
    BY <1>11 DEF vars
  <2>3. Well(templates, defs)'
    BY <2>1, <2>2, StaysWell
  <2>4. LoopOK' /\ VisitsOK' /\ InstancesOK(instantiations, templates, defs)'
    BY <2>1, <2>2 DEF LoopOK, VisitsOK, InBodies
  <2>5. (step = "main" => MainOK)'
    BY <2>2 DEF Consistent, MainOK, Params
  <2> QED
    BY <2>1, <2>2, <2>3, <2>4, <2>5 DEF Consistent
<1> QED
  BY <1>1, <1>2, <1>3, <1>4, <1>5, <1>6, <1>7, <1>8, <1>9, <1>10, <1>11 DEF Next

(* Reachable units are well formed, and what is recorded of the instances   *)
(* is consistent with them.                                                 *)
THEOREM AlwaysConsistent == Spec => []Consistent
BY Init_Consistent, Next_Consistent, PTL DEF Spec

-----------------------------------------------------------------------------
(* The theorems *)

LEMMA Consistent_TypeOK == Consistent => TypeOK
<1> SUFFICES ASSUME Consistent PROVE TypeOK
  OBVIOUS
<1>1. /\ program \in Programs /\ Well(templates, defs) /\ LoopOK /\ VisitsOK
      /\ InstancesOK(instantiations, templates, defs) /\ instantiated \subseteq DOMAIN defs
  BY DEF Consistent
<1>2. ASSUME NEW d \in DOMAIN defs
      PROVE  /\ d.template \in DOMAIN templates \cup {ModuleLevel}
             /\ defs[d].origin \in DOMAIN program.defs
             /\ \A u \in defs[d].body : u.kind \in {"struct", "func"}
  BY <1>1 DEF Well, DefsOK, IsDef, Uses
<1>3. /\ \A d, e \in DOMAIN instantiations : instantiations[d] = instantiations[e] => d = e
      /\ \A t \in DOMAIN instantiations : instantiations[t].callee \in DOMAIN defs
  BY <1>1 DEF InstancesOK
<1>4. modified \in BOOLEAN /\ step \in Steps
  BY <1>1 DEF LoopOK
<1>5. loopCount \in 0..(IterationLimit + 1)
  <2>1. IterationLimit \in Nat
    BY FlatteningAssumption, Zenon
  <2>2. loopCount \in Nat /\ loopCount <= IterationLimit + 1
    BY <1>1 DEF LoopOK
  <2> QED
    BY <2>1, <2>2
<1>6. \A v \in visits \cup replaced : v[1] \in DOMAIN defs /\ v[2] \in defs[v[1]].body
  BY <1>1 DEF VisitsOK, InBodies
<1> QED
  BY <1>1, <1>2, <1>3, <1>4, <1>5, <1>6 DEF TypeOK, Steps

LEMMA Consistent_UsesResolve == Consistent => (NoExpressionLeft(program) => UsesResolve)
<1> SUFFICES ASSUME Consistent, NoExpressionLeft(program), NEW d \in DOMAIN defs, NEW u \in defs[d].body
             PROVE  /\ Resolved(u) \/ InReusedTemplate(u.callee)
                    /\ NamesIn(u) \subseteq Declared(d)
  BY DEF UsesResolve
<1>1. Well(templates, defs) /\ Fits(templates, defs, d, u)
  BY DEF Consistent, Well
<1>2. CASE u.callee \in DOMAIN defs
  BY <1>1, <1>2 DEF Fits, Found, Resolved, Params, Declared
<1>3. CASE u.callee \notin DOMAIN defs
  <2>1. u.callee.template \in DOMAIN templates \ DOMAIN program.templates
    BY <1>1, <1>3 DEF Fits, Found
  <2>2. \E e \in DOMAIN defs : e.template = u.callee.template
    BY <1>1, <2>1 DEF Well, DefsOK
  <2> QED
    BY <1>1, <1>3, <2>1, <2>2 DEF Fits, InReusedTemplate, Declared
<1> QED
  BY <1>2, <1>3

(* The unit stays well formed whatever is cloned, reused, unrolled or       *)
(* folded, and no struct is the instance of two types: the assertion of     *)
(* recordInstantiation, FlatteningPass.cpp.                                 *)
THEOREM DriverTypeCorrect == Spec => []TypeOK
BY AlwaysConsistent, Consistent_TypeOK, PTL

(* Every use finds its definition with as many parameters as it gives, but  *)
(* for functions that a reused template does not have, and names only what  *)
(* is declared where it is, in every unit in which no template that may get *)
(* a partial clone has expressions.                                         *)
THEOREM UsesAlwaysResolve == Spec => [](NoExpressionLeft(program) => UsesResolve)
BY AlwaysConsistent, Consistent_UsesResolve, PTL

(* The assertion of BuildShortTypeString::from in TypeHelper.cpp, "must have *)
(* an Attribute for every 'PLACEHOLDER' char", for the names of templates.   *)
PlaceholdersFilled ==
  \A d \in DOMAIN defs : \A u \in defs[d].body :
    CanInstantiate(u) => Cardinality(Places(u.callee.template)) <= Len(u.args)

LEMMA Consistent_PlaceholdersFilled == Consistent => PlaceholdersFilled
<1> SUFFICES ASSUME Consistent, NEW d \in DOMAIN defs, NEW u \in defs[d].body, CanInstantiate(u)
             PROVE  Cardinality(Places(u.callee.template)) <= Len(u.args)
  BY DEF PlaceholdersFilled
<1>1. program \in Programs /\ Well(templates, defs) /\ Fits(templates, defs, d, u)
  BY DEF Consistent, Well
<1>2. u \in Uses
  BY <1>1 DEF Well, DefsOK, IsDef
<1>3. u.callee.template \in DOMAIN templates /\ u.callee.template # ModuleLevel
  BY <1>1 DEF CanInstantiate, Well, DefsOK
<1>4. Len(templates[u.callee.template].params) = Len(u.args)
  BY <1>1, <1>3 DEF Fits, Found, CanInstantiate, ParamsIn
<1>5. Places(u.callee.template) = {} \/ Cardinality(Places(u.callee.template)) = Len(u.args)
  BY <1>1, <1>3, <1>4, TemplateFacts DEF Well
<1>6. Len(u.args) \in Nat
  BY <1>2 DEF Uses
<1>7. CASE Places(u.callee.template) = {}
  <2>1. Cardinality(Places(u.callee.template)) = 0
    BY <1>7, FS_EmptySet
  <2> QED
    BY <1>6, <2>1
<1> QED
  BY <1>5, <1>6, <1>7

(* No name of an instance is ever built from fewer attributes than the name *)
(* it is built on has placeholders, in however many partial steps.          *)
THEOREM EveryPlaceholderFilled == Spec => []PlaceholdersFilled
BY AlwaysConsistent, Consistent_PlaceholdersFilled, PTL
=============================================================================
