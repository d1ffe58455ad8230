------------------------- MODULE PolyLowering_proofs -------------------------
(***************************************************************************)
(* Proofs for PolyLowering, for all programs, bounds and ways of reusing   *)
(* addresses.  The only operations that the pass erases are products whose *)
(* degree in the memo is above the bound.  A value is held when it is none *)
(* of these and cannot become one; what lowerExpression returns, caches,   *)
(* combines and records is held, so that no step can erase it, and what is *)
(* not held yet lies strictly further down the block than all that an      *)
(* activation in progress may erase.  Inv says this of every variable, one *)
(* lemma per action shows that the action keeps it, and the properties of  *)
(* the pass follow from Inv.                                               *)
(* Degrees come after that, for bodies without divisions: the memo is      *)
(* never below what the operands of a value make it, so that what is low   *)
(* in the memo is low when degrees are computed anew; what the pass holds, *)
(* caches, returns and has visited is low.                                 *)
(***************************************************************************)
EXTENDS PolyLowering, SequenceTheorems, WellFoundedInduction, TLAPS

-----------------------------------------------------------------------------
(* Numbers *)

Below == {ss \in Nat \X Nat : ss[1] < ss[2]}

(* Some numbers have a least one. *)
LEMMA Least ==
  ASSUME NEW T, T \subseteq Nat, T # {}
  PROVE  \E x \in T : \A y \in T : x <= y
<1>1. IsWellFoundedOn(Below, Nat)
  BY NatLessThanWellFounded, Zenon DEF OpToRel, Below
<1>2. PICK x \in T : \A y \in T : ~ (<<y, x>> \in Below)
  BY <1>1, WFMin
<1>3. \A y \in T : x \in Nat /\ y \in Nat /\ ~ (y < x)
  BY <1>2 DEF Below
<1> QED
  BY <1>3

(* The least of some numbers is one of them. *)
LEMMA MinOf ==
  ASSUME NEW T, T \subseteq Nat, T # {}
  PROVE  Min(T) \in T
BY Least DEF Min

-----------------------------------------------------------------------------
(* Blocks *)

(* Both are in the block, the first one earlier. *)
Before(b, x, y) == x \in Live(b) /\ y \in Live(b) /\ Index(b, x) < Index(b, y)

(* Addresses of the block are numbers, and hold operations. *)
LEMMA BlockFacts ==
  ASSUME NEW b, IsBlock(b)
  PROVE  /\ b.block \in Seq(DOMAIN b.op) /\ b.op \in Seq(Operations)
         /\ b = [block |-> b.block, op |-> b.op]
         /\ Len(b.block) \in Nat /\ DOMAIN b.block = 1..Len(b.block)
         /\ Len(b.op) \in Nat /\ DOMAIN b.op = 1..Len(b.op)
         /\ \A id \in DOMAIN b.op : b.op[id] \in Operations
         /\ Live(b) \subseteq DOMAIN b.op
         /\ \A i \in 1..Len(b.block) : b.block[i] \in Live(b)
         /\ \A i, j \in 1..Len(b.block) : b.block[i] = b.block[j] => i = j
<1>1. b.block \in Seq(DOMAIN b.op) /\ b.op \in Seq(Operations) /\ b = [block |-> b.block, op |-> b.op]
  BY DEF IsBlock
<1>2. /\ Len(b.block) \in Nat /\ DOMAIN b.block = 1..Len(b.block) /\ b.block \in [1..Len(b.block) -> DOMAIN b.op]
      /\ Len(b.op) \in Nat /\ DOMAIN b.op = 1..Len(b.op) /\ b.op \in [1..Len(b.op) -> Operations]
  BY <1>1, LenProperties, Zenon
<1>3. \A id \in DOMAIN b.op : b.op[id] \in Operations
  BY <1>2
<1>4. /\ Live(b) \subseteq DOMAIN b.op
      /\ \A i \in 1..Len(b.block) : b.block[i] \in Live(b)
  BY <1>2 DEF Live, ToSet
<1>5. \A i, j \in 1..Len(b.block) : b.block[i] = b.block[j] => i = j
  BY <1>2 DEF IsBlock
<1> QED
  BY <1>1, <1>2, <1>3, <1>4, <1>5

(* Every operation of the block has one place in it. *)
LEMMA IndexFacts ==
  ASSUME NEW b, IsBlock(b)
  PROVE  /\ \A id \in Live(b) : Index(b, id) \in 1..Len(b.block) /\ b.block[Index(b, id)] = id
         /\ \A i \in 1..Len(b.block) : Index(b, b.block[i]) = i
<1>1. DOMAIN b.block = 1..Len(b.block) /\ \A i, j \in 1..Len(b.block) : b.block[i] = b.block[j] => i = j
  BY BlockFacts
<1>2. \A id \in Live(b) : \E i \in DOMAIN b.block : b.block[i] = id
  BY DEF Live, ToSet
<1>3. \A id \in Live(b) : Index(b, id) \in 1..Len(b.block) /\ b.block[Index(b, id)] = id
  <2> SUFFICES ASSUME NEW id \in Live(b) PROVE Index(b, id) \in 1..Len(b.block) /\ b.block[Index(b, id)] = id
    OBVIOUS
  <2>1. PICK i \in DOMAIN b.block : b.block[i] = id
    BY <1>2
  <2>2. Index(b, id) \in DOMAIN b.block /\ b.block[Index(b, id)] = id
    BY <2>1, Zenon DEF Index
  <2> QED
    BY <2>2, <1>1
<1>4. \A i \in 1..Len(b.block) : Index(b, b.block[i]) = i
  <2> SUFFICES ASSUME NEW i \in 1..Len(b.block) PROVE Index(b, b.block[i]) = i
    OBVIOUS
  <2>1. b.block[i] \in Live(b)
    BY BlockFacts
  <2>2. Index(b, b.block[i]) \in 1..Len(b.block) /\ b.block[Index(b, b.block[i])] = b.block[i]
    BY <1>3, <2>1
  <2> QED
    BY <2>2, <1>1, Zenon
<1> QED
  BY <1>3, <1>4

(* Program order is a strict total order. *)
LEMMA BeforeIsAnOrder ==
  ASSUME NEW b, IsBlock(b)
  PROVE  /\ \A x, y, z : Before(b, x, y) /\ Before(b, y, z) => Before(b, x, z)
         /\ \A x : ~ Before(b, x, x)
         /\ \A x, y \in Live(b) : x = y \/ Before(b, x, y) \/ Before(b, y, x)
         /\ \A x, y : Before(b, x, y) => x \in Live(b) /\ y \in Live(b)
         /\ \A x, y : y \in Live(b) => (ProperlyDominates(b, x, y) <=> Before(b, x, y))
<1>1. \A x \in Live(b) : Index(b, x) \in Nat
  BY IndexFacts, BlockFacts
<1>2. \A x, y \in Live(b) : Index(b, x) = Index(b, y) => x = y
  <2> SUFFICES ASSUME NEW x \in Live(b), NEW y \in Live(b), Index(b, x) = Index(b, y) PROVE x = y
    OBVIOUS
  <2>1. b.block[Index(b, x)] = x /\ b.block[Index(b, y)] = y
    BY IndexFacts
  <2> QED
    BY <2>1
<1> QED
  BY <1>1, <1>2 DEF Before, ProperlyDominates

(* The operation that follows one that is not the last. *)
LEMMA FollowingFacts ==
  ASSUME NEW b, IsBlock(b), NEW x, NEW y, Before(b, x, y)
  PROVE  /\ Before(b, x, Following(b, x))
         /\ \A z \in Live(b) : Before(b, x, z) => z = Following(b, x) \/ Before(b, Following(b, x), z)
<1>1. /\ x \in Live(b) /\ y \in Live(b) /\ Index(b, x) < Index(b, y)
  BY DEF Before
<1>2. Index(b, x) \in 1..Len(b.block) /\ Index(b, y) \in 1..Len(b.block) /\ Len(b.block) \in Nat
  BY <1>1, IndexFacts, BlockFacts
<1>3. Index(b, x) + 1 \in 1..Len(b.block)
  BY <1>1, <1>2
<1>4. Following(b, x) \in Live(b) /\ Index(b, Following(b, x)) = Index(b, x) + 1
  BY <1>3, BlockFacts, IndexFacts, Zenon DEF Following
<1>5. \A z \in Live(b) : Index(b, z) \in Nat /\ (Index(b, z) = Index(b, Following(b, x)) => z = Following(b, x))
  BY IndexFacts, BlockFacts, <1>4
<1>6. Index(b, x) \in Nat
  BY <1>2
<1> QED
  BY <1>1, <1>4, <1>5, <1>6 DEF Before

(* A walk meets some operation of its set first. *)
LEMMA FirstOf ==
  ASSUME NEW b, IsBlock(b), NEW ids, ids \subseteq Live(b), ids # {}
  PROVE  First(b, ids) \in ids
<1> DEFINE places == {Index(b, id) : id \in ids}
<1>1. places \subseteq Nat /\ places # {}
  BY IndexFacts, BlockFacts
<1>2. PICK i \in places : \A j \in places : i <= j
  BY <1>1, Least
<1>3. PICK id \in ids : Index(b, id) = i
  BY <1>2
<1>4. \A other \in ids : Index(b, id) <= Index(b, other)
  BY <1>2, <1>3
<1> QED
  BY <1>3, <1>4, Zenon DEF First

(* Where the elements are when a sequence is put in the middle of another. *)
Splice(s, ids, i) == SubSeq(s, 1, i - 1) \o ids \o SubSeq(s, i, Len(s))

LEMMA Spliced ==
  ASSUME NEW S, NEW s \in Seq(S), NEW ids \in Seq(S), NEW i \in 1..Len(s)
  PROVE  /\ Splice(s, ids, i) \in Seq(S) /\ Len(Splice(s, ids, i)) = Len(s) + Len(ids)
         /\ \A p \in 1..(i - 1) : Splice(s, ids, i)[p] = s[p]
         /\ \A p \in 1..Len(ids) : Splice(s, ids, i)[i - 1 + p] = ids[p]
         /\ \A p \in i..Len(s) : Splice(s, ids, i)[p + Len(ids)] = s[p]
<1> DEFINE l == SubSeq(s, 1, i - 1)
           r == SubSeq(s, i, Len(s))
           lm == l \o ids
           n == Len(s)
           k == Len(ids)
<1>1. n \in Nat /\ k \in Nat /\ i \in 1..n
  BY LenProperties
<1>2. \A p \in 1..n : s[p] \in S
  BY ElementOfSeq, Zenon
<1>3. /\ l \in Seq(S) /\ Len(l) = i - 1 /\ \A p \in 1..(i - 1) : l[p] = s[p]
  <2>1. 1 \in Int /\ i - 1 \in Int /\ \A p \in 1..(i - 1) : s[p] \in S
    BY <1>1, <1>2
  <2>2. /\ l \in Seq(S) /\ Len(l) = IF 1 <= i - 1 THEN (i - 1) - 1 + 1 ELSE 0
        /\ \A p \in 1..((i - 1) - 1 + 1) : l[p] = s[1 + p - 1]
    BY <2>1, SubSeqProperties
  <2>3. (i - 1) - 1 + 1 = i - 1 /\ (IF 1 <= i - 1 THEN (i - 1) - 1 + 1 ELSE 0) = i - 1
    BY <1>1
  <2>4. \A p \in 1..(i - 1) : 1 + p - 1 = p
    BY <1>1
  <2> QED
    BY <2>2, <2>3, <2>4
<1>4. /\ r \in Seq(S) /\ Len(r) = n - i + 1 /\ \A p \in 1..(n - i + 1) : r[p] = s[i + p - 1]
  <2>1. i \in Int /\ n \in Int /\ \A p \in i..n : s[p] \in S
    BY <1>1, <1>2
  <2>2. /\ r \in Seq(S) /\ Len(r) = IF i <= n THEN n - i + 1 ELSE 0
        /\ \A p \in 1..(n - i + 1) : r[p] = s[i + p - 1]
    BY <2>1, SubSeqProperties
  <2> QED
    BY <2>2, <1>1
<1> HIDE DEF l, r
<1>5. /\ lm \in Seq(S) /\ Len(lm) = i - 1 + k
      /\ \A p \in 1..(i - 1 + k) : lm[p] = IF p <= i - 1 THEN l[p] ELSE ids[p - (i - 1)]
  <2>1. /\ lm \in Seq(S) /\ Len(lm) = Len(l) + Len(ids)
        /\ \A p \in 1..(Len(l) + Len(ids)) : lm[p] = IF p <= Len(l) THEN l[p] ELSE ids[p - Len(l)]
    BY <1>3, ConcatProperties, Zenon
  <2> QED
    BY <2>1, <1>3
<1> HIDE DEF lm
<1> DEFINE c == lm \o r
<1>6. /\ c \in Seq(S) /\ Len(c) = (i - 1 + k) + (n - i + 1)
      /\ \A p \in 1..((i - 1 + k) + (n - i + 1)) : c[p] = IF p <= i - 1 + k THEN lm[p] ELSE r[p - (i - 1 + k)]
  <2>1. /\ c \in Seq(S) /\ Len(c) = Len(lm) + Len(r)
        /\ \A p \in 1..(Len(lm) + Len(r)) : c[p] = IF p <= Len(lm) THEN lm[p] ELSE r[p - Len(lm)]
    BY <1>4, <1>5, ConcatProperties, Zenon
  <2> QED
    BY <2>1, <1>4, <1>5
<1>c. Splice(s, ids, i) = c
  BY Zenon DEF c, lm, l, r, Splice
<1> HIDE DEF c
<1>7. Len(c) = n + k
  BY <1>6, <1>1
<1>8. \A p \in 1..(i - 1) : c[p] = s[p]
  <2> SUFFICES ASSUME NEW p \in 1..(i - 1) PROVE c[p] = s[p]
    OBVIOUS
  <2>1. p \in 1..((i - 1 + k) + (n - i + 1)) /\ p <= i - 1 + k /\ p \in 1..(i - 1 + k) /\ p <= i - 1
    BY <1>1
  <2>2. c[p] = lm[p] /\ lm[p] = l[p]
    BY <2>1, <1>5, <1>6
  <2> QED
    BY <2>2, <1>3
<1>9. \A p \in 1..k : c[i - 1 + p] = ids[p]
  <2> SUFFICES ASSUME NEW p \in 1..k PROVE c[i - 1 + p] = ids[p]
    OBVIOUS
  <2> DEFINE q == i - 1 + p
  <2>1. q \in 1..((i - 1 + k) + (n - i + 1)) /\ q <= i - 1 + k /\ q \in 1..(i - 1 + k) /\ ~(q <= i - 1) /\ q - (i - 1) = p
    BY <1>1
  <2> HIDE DEF q
  <2>2. c[q] = lm[q] /\ lm[q] = ids[q - (i - 1)]
    BY <2>1, <1>5, <1>6
  <2> QED
    BY <2>1, <2>2 DEF q
<1>10. \A p \in i..n : c[p + k] = s[p]
  <2> SUFFICES ASSUME NEW p \in i..n PROVE c[p + k] = s[p]
    OBVIOUS
  <2> DEFINE q == p + k
             d == p - i + 1
  <2>1. /\ q \in 1..((i - 1 + k) + (n - i + 1)) /\ ~(q <= i - 1 + k) /\ q - (i - 1 + k) = d
        /\ d \in 1..(n - i + 1) /\ i + d - 1 = p
    BY <1>1
  <2> HIDE DEF q, d
  <2>2. c[q] = r[q - (i - 1 + k)]
    BY <2>1, <1>6
  <2>3. r[d] = s[i + d - 1]
    BY <2>1, <1>4
  <2> QED
    BY <2>1, <2>2, <2>3 DEF q
<1> QED
  BY <1>6, <1>7, <1>8, <1>9, <1>10, <1>c

(* The addresses are not in the block, and keep the numbering without gaps. *)
Insertable(b, m, ids, operations) ==
  /\ DOMAIN operations = ToSet(ids) /\ \A id \in ToSet(ids) : operations[id] \in Operations
  /\ ToSet(ids) \cup DOMAIN b.op = 1..m /\ ToSet(ids) \cap Live(b) = {}
  /\ \A j, k \in 1..Len(ids) : ids[j] = ids[k] => j = k

(* Inserted operations come right before the one they were inserted before; *)
(* the others keep their order.                                             *)
LEMMA InsertFacts ==
  ASSUME NEW b, IsBlock(b), NEW m \in Nat, NEW ids \in Seq(1..m), NEW operations,
         Insertable(b, m, ids, operations), NEW before \in Live(b)
  PROVE  LET c == Insert(b, ids, operations, before)
         IN  /\ IsBlock(c) /\ Live(c) = Live(b) \cup ToSet(ids) /\ DOMAIN c.op = 1..m
             /\ \A id \in ToSet(ids) : c.op[id] = operations[id]
             /\ \A id \in Live(b) : c.op[id] = b.op[id]
             /\ \A x, y \in Live(b) : Before(c, x, y) <=> Before(b, x, y)
             /\ \A x \in Live(b), k \in 1..Len(ids) :
                  /\ Before(c, x, ids[k]) <=> Before(b, x, before)
                  /\ Before(c, ids[k], x) <=> ~ Before(b, x, before)
             /\ \A j, k \in 1..Len(ids) : Before(c, ids[j], ids[k]) <=> j < k
<1> DEFINE c == Insert(b, ids, operations, before)
           i == Index(b, before)
           s == b.block
           n == Len(s)
           l == Len(ids)
<1>0. /\ DOMAIN operations = ToSet(ids) /\ \A id \in ToSet(ids) : operations[id] \in Operations
      /\ ToSet(ids) \cup DOMAIN b.op = 1..m /\ ToSet(ids) \cap Live(b) = {}
      /\ \A j, k \in 1..l : ids[j] = ids[k] => j = k
  BY DEF Insertable
<1>1. i \in 1..n /\ s[i] = before
  BY IndexFacts
<1>2. /\ n \in Nat /\ DOMAIN s = 1..n /\ \A p \in 1..n : s[p] \in Live(b)
      /\ \A p, q \in 1..n : s[p] = s[q] => p = q
  BY BlockFacts
<1>3. l \in Nat /\ DOMAIN ids = 1..l /\ \A p \in 1..l : ids[p] \in ToSet(ids)
  BY LenProperties DEF ToSet
<1>4. s \in Seq(1..m)
  <2>1. DOMAIN b.op \subseteq 1..m /\ s \in Seq(DOMAIN b.op)
    BY BlockFacts, <1>0
  <2> QED
    BY <2>1, SeqMonotonic, Zenon
<1>5. c.block = SubSeq(s, 1, i - 1) \o ids \o SubSeq(s, i, n) /\ c.op = Overlay(operations, b.op)
      /\ c = [block |-> c.block, op |-> c.op]
  BY DEF Insert
<1> HIDE DEF c, i, s, n
<1> HIDE DEF l
<1>6. /\ c.block \in Seq(1..m) /\ Len(c.block) = n + l
      /\ \A p \in 1..(i - 1) : c.block[p] = s[p]
      /\ \A p \in 1..l : c.block[i - 1 + p] = ids[p]
      /\ \A p \in i..n : c.block[p + l] = s[p]
  <2>1. i \in 1..Len(s) /\ c.block = Splice(s, ids, i)
    BY <1>1, <1>5 DEF n, Splice
  <2> HIDE DEF n, l
  <2>2. /\ c.block \in Seq(1..m) /\ Len(c.block) = Len(s) + Len(ids)
        /\ \A p \in 1..(i - 1) : c.block[p] = s[p]
        /\ \A p \in 1..Len(ids) : c.block[i - 1 + p] = ids[p]
        /\ \A p \in i..Len(s) : c.block[p + Len(ids)] = s[p]
    <3>1. /\ Splice(s, ids, i) \in Seq(1..m) /\ Len(Splice(s, ids, i)) = Len(s) + Len(ids)
          /\ \A p \in 1..(i - 1) : Splice(s, ids, i)[p] = s[p]
          /\ \A p \in 1..Len(ids) : Splice(s, ids, i)[i - 1 + p] = ids[p]
          /\ \A p \in i..Len(s) : Splice(s, ids, i)[p + Len(ids)] = s[p]
      BY <2>1, <1>4, Spliced, Zenon
    <3> QED
      BY <2>1, <3>1, Zenon
  <2> QED
    BY <2>2, Zenon DEF n, l
<1>7. /\ DOMAIN c.op = 1..m
      /\ \A id \in ToSet(ids) : c.op[id] = operations[id]
      /\ \A id \in DOMAIN b.op : id \notin ToSet(ids) => c.op[id] = b.op[id]
  BY <1>0, <1>5 DEF Overlay
<1>8. Live(b) \subseteq DOMAIN b.op /\ \A id \in DOMAIN b.op : b.op[id] \in Operations
  BY BlockFacts
<1>9. \A id \in Live(b) : c.op[id] = b.op[id]
  BY <1>0, <1>7, <1>8
<1>10. c.op \in Seq(Operations)
  <2>1. \A id \in 1..m : c.op[id] \in Operations
    BY <1>0, <1>7, <1>8
  <2>2. c.op = [id \in 1..m |-> c.op[id]]
    BY <1>0, <1>5, <1>7 DEF Overlay
  <2>3. c.op \in [1..m -> Operations]
    BY <2>1, <2>2
  <2> QED
    BY <2>3, SeqDef
<1>11. DOMAIN c.block = 1..(n + l) /\ n + l \in Nat
  BY <1>6, <1>2, <1>3, LenProperties
<1>12. \A q \in 1..(n + l) :
         \/ q < i /\ q \in 1..n /\ c.block[q] = s[q]
         \/ \E y \in 1..l : q = i - 1 + y /\ c.block[q] = ids[y]
         \/ \E y \in 1..n : y >= i /\ q = y + l /\ c.block[q] = s[y]
  <2> SUFFICES ASSUME NEW q \in 1..(n + l)
               PROVE  \/ q < i /\ q \in 1..n /\ c.block[q] = s[q]
                      \/ \E y \in 1..l : q = i - 1 + y /\ c.block[q] = ids[y]
                      \/ \E y \in 1..n : y >= i /\ q = y + l /\ c.block[q] = s[y]
    OBVIOUS
  <2>1. CASE q < i
    <3>1. q \in 1..(i - 1) /\ q \in 1..n
      BY <2>1, <1>1, <1>2, <1>3
    <3> QED
      BY <2>1, <3>1, <1>6
  <2>2. CASE q >= i /\ q <= i - 1 + l
    <3> DEFINE y == q - i + 1
    <3>1. y \in 1..l /\ q = i - 1 + y
      BY <2>2, <1>1, <1>2, <1>3
    <3> HIDE DEF y
    <3> QED
      BY <3>1, <1>6
  <2>3. CASE q > i - 1 + l
    <3> DEFINE y == q - l
    <3>1. y \in 1..n /\ y >= i /\ y \in i..n /\ q = y + l
      BY <2>3, <1>1, <1>2, <1>3
    <3> HIDE DEF y
    <3> QED
      BY <3>1, <1>6
  <2>4. q < i \/ (q >= i /\ q <= i - 1 + l) \/ q > i - 1 + l
    BY <1>1, <1>2, <1>3
  <2> QED
    BY <2>1, <2>2, <2>3, <2>4
<1>13. \A q \in 1..(n + l) : c.block[q] \in Live(b) \cup ToSet(ids)
  BY <1>2, <1>3, <1>12
<1>14. \A p, q \in 1..(n + l) : c.block[p] = c.block[q] => p = q
  <2> SUFFICES ASSUME NEW p \in 1..(n + l), NEW q \in 1..(n + l), c.block[p] = c.block[q]
               PROVE  p = q
    OBVIOUS
  <2>1. \A x \in 1..l, y \in 1..n : ids[x] # s[y]
    BY <1>0, <1>2, <1>3
  <2>2. \A x, y \in 1..l : ids[x] = ids[y] => x = y
    BY <1>0
  <2>3. CASE p < i /\ p \in 1..n /\ c.block[p] = s[p]
    <3>1. q < i /\ q \in 1..n /\ c.block[q] = s[q] => p = q
      BY <2>3, <1>2, Zenon
    <3>2. ~ \E y \in 1..l : q = i - 1 + y /\ c.block[q] = ids[y]
      BY <2>1, <2>3
    <3>3. ASSUME NEW y \in 1..n, y >= i, q = y + l, c.block[q] = s[y] PROVE FALSE
      <4>1. p = y
        BY <2>3, <3>3, <1>2, Zenon
      <4> QED
        BY <4>1, <2>3, <3>3, <1>1, <1>2
    <3> QED
      BY <3>1, <3>2, <3>3, <1>12
  <2>4. ASSUME NEW x \in 1..l, p = i - 1 + x, c.block[p] = ids[x] PROVE p = q
    <3>1. ~ (q \in 1..n /\ c.block[q] = s[q])
      BY <2>1, <2>4
    <3>2. ASSUME NEW y \in 1..l, q = i - 1 + y, c.block[q] = ids[y] PROVE p = q
      BY <2>2, <2>4, <3>2, Zenon
    <3>3. ~ \E y \in 1..n : c.block[q] = s[y]
      BY <2>1, <2>4
    <3> QED
      BY <3>1, <3>2, <3>3, <1>12
  <2>5. ASSUME NEW x \in 1..n, x >= i, p = x + l, c.block[p] = s[x] PROVE p = q
    <3>1. ASSUME q < i, q \in 1..n, c.block[q] = s[q] PROVE FALSE
      <4>1. q = x
        BY <2>5, <3>1, <1>2, Zenon
      <4> QED
        BY <4>1, <2>5, <3>1, <1>1, <1>2
    <3>2. ~ \E y \in 1..l : c.block[q] = ids[y]
      BY <2>1, <2>5
    <3>3. ASSUME NEW y \in 1..n, q = y + l, c.block[q] = s[y] PROVE p = q
      BY <2>5, <3>3, <1>2, Zenon
    <3> QED
      BY <3>1, <3>2, <3>3, <1>12
  <2> QED
    BY <2>3, <2>4, <2>5, <1>12
<1>15. IsBlock(c)
  BY <1>5, <1>6, <1>7, <1>10, <1>11, <1>14 DEF IsBlock
<1>16. Live(c) = Live(b) \cup ToSet(ids)
  <2>1. Live(c) \subseteq Live(b) \cup ToSet(ids)
    BY <1>11, <1>13 DEF Live, ToSet
  <2>2. \A x \in Live(b) : x \in Live(c)
    <3> SUFFICES ASSUME NEW x \in Live(b) PROVE x \in Live(c)
      OBVIOUS
    <3>1. PICK p \in 1..n : s[p] = x
      BY IndexFacts DEF n, s
    <3>2. CASE p < i
      <4>1. p \in 1..(i - 1) /\ p \in 1..(n + l)
        BY <3>2, <1>1, <1>2, <1>3
      <4> QED
        BY <4>1, <3>1, <1>6, <1>11 DEF Live, ToSet
    <3>3. CASE p >= i
      <4> DEFINE q == p + l
      <4>1. p \in i..n /\ q \in 1..(n + l)
        BY <3>3, <1>1, <1>2, <1>3
      <4>2. c.block[q] = s[p]
        BY <4>1, <1>6
      <4> HIDE DEF q
      <4> QED
        BY <4>1, <4>2, <3>1, <1>11 DEF Live, ToSet
    <3> QED
      BY <3>2, <3>3, <1>1, <1>2
  <2>3. \A x \in ToSet(ids) : x \in Live(c)
    <3> SUFFICES ASSUME NEW p \in 1..l PROVE ids[p] \in Live(c)
      BY <1>3 DEF ToSet
    <3> DEFINE q == i - 1 + p
    <3>1. q \in 1..(n + l)
      BY <1>1, <1>2, <1>3
    <3>2. c.block[q] = ids[p]
      BY <1>6
    <3> HIDE DEF q
    <3> QED
      BY <3>1, <3>2, <1>11 DEF Live, ToSet
  <2> QED
    BY <2>1, <2>2, <2>3
<1>17. \A q \in 1..(n + l) : Index(c, c.block[q]) = q
  BY <1>15, <1>6, IndexFacts
<1>18. \A x \in Live(b) : /\ Index(b, x) \in 1..n
                          /\ Index(c, x) = IF Index(b, x) < i THEN Index(b, x) ELSE Index(b, x) + l
  <2> SUFFICES ASSUME NEW x \in Live(b)
               PROVE  /\ Index(b, x) \in 1..n
                      /\ Index(c, x) = IF Index(b, x) < i THEN Index(b, x) ELSE Index(b, x) + l
    OBVIOUS
  <2> DEFINE p == Index(b, x)
  <2>1. p \in 1..n /\ s[p] = x
    BY IndexFacts DEF n, s
  <2> HIDE DEF p
  <2>2. CASE p < i
    <3>1. p \in 1..(i - 1) /\ p \in 1..(n + l)
      BY <2>1, <2>2, <1>1, <1>2, <1>3
    <3>2. c.block[p] = x
      BY <3>1, <2>1, <1>6
    <3> QED
      BY <3>1, <3>2, <2>1, <2>2, <1>17 DEF p
  <2>3. CASE ~(p < i)
    <3> DEFINE q == p + l
    <3>1. p \in i..n /\ q \in 1..(n + l)
      BY <2>1, <2>3, <1>1, <1>2, <1>3
    <3>2. c.block[q] = x
      BY <3>1, <2>1, <1>6
    <3> HIDE DEF q
    <3>3. Index(c, x) = q
      BY <3>1, <3>2, <1>17
    <3> QED
      BY <3>3, <2>1, <2>3 DEF p, q
  <2> QED
    BY <2>2, <2>3
<1>19. \A k \in 1..l : Index(c, ids[k]) = i - 1 + k
  <2> SUFFICES ASSUME NEW k \in 1..l PROVE Index(c, ids[k]) = i - 1 + k
    OBVIOUS
  <2> DEFINE q == i - 1 + k
  <2>1. q \in 1..(n + l)
    BY <1>1, <1>2, <1>3
  <2>2. c.block[q] = ids[k]
    BY <1>6
  <2> HIDE DEF q
  <2>3. Index(c, ids[k]) = q
    BY <2>1, <2>2, <1>17
  <2> QED
    BY <2>3 DEF q
<1>20. Index(b, before) = i
  BY DEF i
<1>21. \A x, y \in Live(b) : Before(c, x, y) <=> Before(b, x, y)
  <2> SUFFICES ASSUME NEW x \in Live(b), NEW y \in Live(b)
               PROVE  Index(c, x) < Index(c, y) <=> Index(b, x) < Index(b, y)
    BY <1>16 DEF Before
  <2>1. /\ Index(b, x) \in 1..n /\ Index(b, y) \in 1..n
        /\ Index(c, x) = IF Index(b, x) < i THEN Index(b, x) ELSE Index(b, x) + l
        /\ Index(c, y) = IF Index(b, y) < i THEN Index(b, y) ELSE Index(b, y) + l
    BY <1>18, Zenon
  <2> QED
    BY <2>1, <1>1, <1>2, <1>3
<1>22. \A x \in Live(b), k \in 1..l :
         /\ Before(c, x, ids[k]) <=> Before(b, x, before)
         /\ Before(c, ids[k], x) <=> ~ Before(b, x, before)
  BY <1>0, <1>1, <1>2, <1>3, <1>16, <1>18, <1>19, <1>20, SMTT(30) DEF Before
<1>23. \A j, k \in 1..l : Before(c, ids[j], ids[k]) <=> j < k
  <2>1. \A j \in 1..l : ids[j] \in Live(c) /\ Index(c, ids[j]) = i - 1 + j
    BY <1>3, <1>16, <1>19
  <2> SUFFICES ASSUME NEW j \in 1..l, NEW k \in 1..l PROVE Index(c, ids[j]) < Index(c, ids[k]) <=> j < k
    BY <2>1 DEF Before
  <2>2. Index(c, ids[j]) = i - 1 + j /\ Index(c, ids[k]) = i - 1 + k
    BY <2>1, Zenon
  <2> QED
    BY <2>2, <1>1, <1>2, <1>3
<1> QED
  BY <1>7, <1>9, <1>15, <1>16, <1>21, <1>22, <1>23 DEF c, l

(* A function of 1..n is a sequence. *)
LEMMA FunctionIsSeq ==
  ASSUME NEW S, NEW n \in Nat, NEW f \in [1..n -> S]
  PROVE  f \in Seq(S)
BY SeqDef

(* The elements of the end of a sequence. *)
LEMMA Suffix ==
  ASSUME NEW S, NEW s \in Seq(S), NEW i \in 1..Len(s)
  PROVE  LET r == SubSeq(s, i, Len(s))
         IN  r \in Seq(S) /\ Len(r) = Len(s) - i + 1 /\ \A p \in 1..(Len(s) - i + 1) : r[p] = s[i + p - 1]
<1>1. Len(s) \in Nat
  BY LenProperties
<1>2. i \in Int /\ Len(s) \in Int /\ \A p \in i..Len(s) : s[p] \in S
  BY <1>1, ElementOfSeq
<1> DEFINE r == SubSeq(s, i, Len(s))
<1>3. /\ r \in Seq(S) /\ Len(r) = IF i <= Len(s) THEN Len(s) - i + 1 ELSE 0
      /\ \A p \in 1..(Len(s) - i + 1) : r[p] = s[i + p - 1]
  BY <1>2, SubSeqProperties
<1> QED
  BY <1>1, <1>3

(* What is left, and where, when an element is removed. *)
LEMMA Removed ==
  ASSUME NEW S, NEW s \in Seq(S), NEW i \in 1..Len(s)
  PROVE  /\ RemoveAt(s, i) \in Seq(S) /\ Len(RemoveAt(s, i)) = Len(s) - 1
         /\ \A p \in 1..(i - 1) : RemoveAt(s, i)[p] = s[p]
         /\ \A p \in i..(Len(s) - 1) : RemoveAt(s, i)[p] = s[p + 1]
<1> DEFINE l == SubSeq(s, 1, i - 1)
           r == SubSeq(s, i + 1, Len(s))
           n == Len(s)
<1>1. n \in Nat /\ i \in 1..n
  BY LenProperties
<1>2. \A p \in 1..n : s[p] \in S
  BY ElementOfSeq, Zenon
<1>3. /\ l \in Seq(S) /\ Len(l) = i - 1 /\ \A p \in 1..(i - 1) : l[p] = s[p]
  <2>1. 1 \in Int /\ i - 1 \in Int /\ \A p \in 1..(i - 1) : s[p] \in S
    BY <1>1, <1>2
  <2>2. /\ l \in Seq(S) /\ Len(l) = IF 1 <= i - 1 THEN (i - 1) - 1 + 1 ELSE 0
        /\ \A p \in 1..((i - 1) - 1 + 1) : l[p] = s[1 + p - 1]
    BY <2>1, SubSeqProperties
  <2>3. (i - 1) - 1 + 1 = i - 1 /\ (IF 1 <= i - 1 THEN (i - 1) - 1 + 1 ELSE 0) = i - 1
    BY <1>1
  <2>4. \A p \in 1..(i - 1) : 1 + p - 1 = p
    BY <1>1
  <2> QED
    BY <2>2, <2>3, <2>4
<1>4. /\ r \in Seq(S) /\ Len(r) = n - i /\ \A p \in 1..(n - i) : r[p] = s[i + p]
  <2>1. i + 1 \in Int /\ n \in Int /\ \A p \in (i + 1)..n : s[p] \in S
    BY <1>1, <1>2
  <2>2. /\ r \in Seq(S) /\ Len(r) = IF i + 1 <= n THEN n - (i + 1) + 1 ELSE 0
        /\ \A p \in 1..(n - (i + 1) + 1) : r[p] = s[(i + 1) + p - 1]
    BY <2>1, SubSeqProperties
  <2>3. n - (i + 1) + 1 = n - i /\ (IF i + 1 <= n THEN n - (i + 1) + 1 ELSE 0) = n - i
    BY <1>1
  <2>4. \A p \in 1..(n - i) : (i + 1) + p - 1 = i + p
    BY <1>1
  <2> QED
    BY <2>2, <2>3, <2>4
<1> HIDE DEF l, r
<1> DEFINE c == l \o r
<1>5. /\ c \in Seq(S) /\ Len(c) = (i - 1) + (n - i)
      /\ \A p \in 1..((i - 1) + (n - i)) : c[p] = IF p <= i - 1 THEN l[p] ELSE r[p - (i - 1)]
  <2>1. /\ c \in Seq(S) /\ Len(c) = Len(l) + Len(r)
        /\ \A p \in 1..(Len(l) + Len(r)) : c[p] = IF p <= Len(l) THEN l[p] ELSE r[p - Len(l)]
    BY <1>3, <1>4, ConcatProperties, Zenon
  <2> QED
    BY <2>1, <1>3, <1>4
<1>c. RemoveAt(s, i) = c
  BY Zenon DEF c, l, r, RemoveAt
<1> HIDE DEF c
<1>6. Len(c) = n - 1
  BY <1>5, <1>1
<1>7. \A p \in 1..(i - 1) : c[p] = s[p]
  <2> SUFFICES ASSUME NEW p \in 1..(i - 1) PROVE c[p] = s[p]
    OBVIOUS
  <2>1. p \in 1..((i - 1) + (n - i)) /\ p <= i - 1
    BY <1>1
  <2>2. c[p] = l[p]
    BY <2>1, <1>5
  <2> QED
    BY <2>2, <1>3
<1>8. \A p \in i..(n - 1) : c[p] = s[p + 1]
  <2> SUFFICES ASSUME NEW p \in i..(n - 1) PROVE c[p] = s[p + 1]
    OBVIOUS
  <2> DEFINE d == p - (i - 1)
  <2>1. p \in 1..((i - 1) + (n - i)) /\ ~(p <= i - 1) /\ d \in 1..(n - i) /\ i + d = p + 1
    BY <1>1
  <2>2. c[p] = r[d]
    BY <2>1, <1>5
  <2> HIDE DEF d
  <2>3. r[d] = s[i + d]
    BY <2>1, <1>4
  <2> QED
    BY <2>1, <2>2, <2>3
<1> QED
  BY <1>5, <1>6, <1>7, <1>8, <1>c

(* An erased operation is gone; the others keep their order. *)
LEMMA EraseFacts ==
  ASSUME NEW b, IsBlock(b), NEW id \in Live(b)
  PROVE  LET c == Erase(b, id)
         IN  /\ IsBlock(c) /\ Live(c) = Live(b) \ {id} /\ c.op = b.op
             /\ \A x, y \in Live(c) : Before(c, x, y) <=> Before(b, x, y)
<1> DEFINE c == Erase(b, id)
           i == Index(b, id)
           s == b.block
           n == Len(s)
<1>1. i \in 1..n /\ s[i] = id
  BY IndexFacts
<1>2. /\ n \in Nat /\ DOMAIN s = 1..n /\ \A p \in 1..n : s[p] \in Live(b)
      /\ \A p, q \in 1..n : s[p] = s[q] => p = q
      /\ s \in Seq(DOMAIN b.op) /\ b.op \in Seq(Operations) /\ b = [block |-> s, op |-> b.op]
  BY BlockFacts
<1>3. c = [block |-> RemoveAt(s, i), op |-> b.op]
  BY <1>2 DEF Erase
<1>4. c.block = RemoveAt(s, i) /\ c.op = b.op
  BY <1>3
<1> HIDE DEF c, i, s, n
<1>5. /\ c.block \in Seq(DOMAIN b.op) /\ Len(c.block) = n - 1
      /\ \A p \in 1..(i - 1) : c.block[p] = s[p]
      /\ \A p \in i..(n - 1) : c.block[p] = s[p + 1]
  <2>1. s \in Seq(DOMAIN b.op) /\ i \in 1..Len(s)
    BY <1>1, <1>2 DEF n
  <2>2. /\ RemoveAt(s, i) \in Seq(DOMAIN b.op) /\ Len(RemoveAt(s, i)) = Len(s) - 1
        /\ \A p \in 1..(i - 1) : RemoveAt(s, i)[p] = s[p]
        /\ \A p \in i..(Len(s) - 1) : RemoveAt(s, i)[p] = s[p + 1]
    BY <2>1, Removed, Zenon
  <2> QED
    BY <2>2, <1>4 DEF n
<1>6. DOMAIN c.block = 1..(n - 1) /\ n - 1 \in Nat
  BY <1>5, <1>1, <1>2, LenProperties
<1>7. \A q \in 1..(n - 1) : /\ q < i => q \in 1..n /\ c.block[q] = s[q]
                            /\ ~ (q < i) => q + 1 \in 1..n /\ c.block[q] = s[q + 1]
  <2> SUFFICES ASSUME NEW q \in 1..(n - 1)
               PROVE  /\ q < i => q \in 1..n /\ c.block[q] = s[q]
                      /\ ~ (q < i) => q + 1 \in 1..n /\ c.block[q] = s[q + 1]
    OBVIOUS
  <2>1. /\ q < i => q \in 1..n /\ q \in 1..(i - 1)
        /\ ~ (q < i) => q + 1 \in 1..n /\ q \in i..(n - 1)
    BY <1>1, <1>2
  <2> QED
    BY <2>1, <1>5
<1>8. \A p, q \in 1..(n - 1) : c.block[p] = c.block[q] => p = q
  <2> SUFFICES ASSUME NEW p \in 1..(n - 1), NEW q \in 1..(n - 1), c.block[p] = c.block[q] PROVE p = q
    OBVIOUS
  <2> DEFINE at(x) == IF x < i THEN x ELSE x + 1
  <2>1. /\ at(p) \in 1..n /\ c.block[p] = s[at(p)]
        /\ at(q) \in 1..n /\ c.block[q] = s[at(q)]
    BY <1>7
  <2>2. at(p) = at(q)
    <3> HIDE DEF at
    <3> QED
      BY <2>1, <1>2, Zenon
  <2> QED
    BY <2>2, <1>1, <1>2
<1>9. IsBlock(c)
  BY <1>2, <1>3, <1>4, <1>5, <1>6, <1>8 DEF IsBlock
<1>10. \A q \in 1..(n - 1) : c.block[q] \in Live(c) /\ Index(c, c.block[q]) = q
  BY <1>5, <1>9, IndexFacts, BlockFacts
<1>11. \A x \in Live(c) : x \in Live(b) /\ x # id
  <2> SUFFICES ASSUME NEW q \in 1..(n - 1) PROVE c.block[q] \in Live(b) /\ c.block[q] # id
    BY <1>6 DEF Live, ToSet
  <2>1. CASE q < i
    <3>1. q \in 1..n /\ c.block[q] = s[q] /\ q # i
      BY <2>1, <1>7, <1>1, <1>2
    <3> QED
      BY <3>1, <1>1, <1>2
  <2>2. CASE ~ (q < i)
    <3>1. q + 1 \in 1..n /\ c.block[q] = s[q + 1] /\ q + 1 # i
      BY <2>2, <1>7, <1>1, <1>2
    <3> QED
      BY <3>1, <1>1, <1>2
  <2> QED
    BY <2>1, <2>2
<1>12. \A x \in Live(b) : x # id => /\ x \in Live(c) /\ Index(b, x) \in 1..n /\ Index(b, x) # i
                                  /\ Index(c, x) = IF Index(b, x) < i THEN Index(b, x) ELSE Index(b, x) - 1
  <2> SUFFICES ASSUME NEW x \in Live(b), x # id
               PROVE  /\ x \in Live(c) /\ Index(b, x) \in 1..n /\ Index(b, x) # i
                      /\ Index(c, x) = IF Index(b, x) < i THEN Index(b, x) ELSE Index(b, x) - 1
    OBVIOUS
  <2> DEFINE p == Index(b, x)
  <2>1. p \in 1..n /\ s[p] = x
    BY IndexFacts DEF n, s
  <2> HIDE DEF p
  <2>2. p # i
    BY <2>1, <1>1
  <2>3. CASE p < i
    <3>1. p \in 1..(n - 1)
      BY <2>1, <2>3, <1>1, <1>2
    <3>2. c.block[p] = x
      BY <3>1, <2>1, <2>3, <1>7
    <3> QED
      BY <3>1, <3>2, <2>1, <2>2, <2>3, <1>10 DEF p
  <2>4. CASE ~ (p < i)
    <3> DEFINE q == p - 1
    <3>1. q \in 1..(n - 1) /\ ~ (q < i) /\ q + 1 = p
      BY <2>1, <2>2, <2>4, <1>1, <1>2
    <3> HIDE DEF q
    <3>2. c.block[q] = x
      BY <3>1, <2>1, <1>7
    <3>3. x \in Live(c) /\ Index(c, x) = q
      BY <3>1, <3>2, <1>10
    <3>4. q = p - 1
      BY DEF q
    <3> QED
      BY <3>3, <3>4, <2>1, <2>2, <2>4 DEF p
  <2> QED
    BY <2>3, <2>4
<1>13. Live(c) = Live(b) \ {id}
  BY <1>11, <1>12
<1>14. \A x, y \in Live(c) : Before(c, x, y) <=> Before(b, x, y)
  <2> SUFFICES ASSUME NEW x \in Live(c), NEW y \in Live(c)
               PROVE  Index(c, x) < Index(c, y) <=> Index(b, x) < Index(b, y)
    BY <1>11 DEF Before
  <2>1. /\ Index(b, x) \in 1..n /\ Index(b, x) # i /\ Index(b, y) \in 1..n /\ Index(b, y) # i
        /\ Index(c, x) = IF Index(b, x) < i THEN Index(b, x) ELSE Index(b, x) - 1
        /\ Index(c, y) = IF Index(b, y) < i THEN Index(b, y) ELSE Index(b, y) - 1
    BY <1>11, <1>12
  <2> QED
    BY <2>1, <1>1, <1>2
<1> QED
  BY <1>4, <1>9, <1>13, <1>14 DEF c

(* Two bodies with the same operations in the same places. *)
LEMMA SameBlock ==
  ASSUME NEW b, NEW c, c.block = b.block
  PROVE  Live(c) = Live(b) /\ \A x, y : (Before(c, x, y) <=> Before(b, x, y))
<1>1. Live(c) = Live(b) /\ \A x : Index(c, x) = Index(b, x)
  BY Zenon DEF Live, Index
<1> QED
  BY <1>1 DEF Before

(* Replacing uses changes operands alone, those of the users that are       *)
(* given.                                                                   *)
LEMMA ReplaceFacts ==
  ASSUME NEW b, IsBlock(b), NEW old, NEW new \in Nat, NEW users
  PROVE  LET c == ReplaceIn(b, old, new, users)
         IN  /\ IsBlock(c) /\ c.block = b.block /\ DOMAIN c.op = DOMAIN b.op
             /\ \A id \in DOMAIN b.op :
                  /\ c.op[id].kind = b.op[id].kind /\ c.op[id].leaf = b.op[id].leaf
                  /\ DOMAIN c.op[id].args = DOMAIN b.op[id].args /\ Len(c.op[id].args) = Len(b.op[id].args)
                  /\ \A k \in DOMAIN b.op[id].args :
                       c.op[id].args[k] = IF id \in users /\ b.op[id].args[k] = old THEN new
                                          ELSE b.op[id].args[k]
<1> DEFINE c == ReplaceIn(b, old, new, users)
           o == b.op
<1>1. /\ b = [block |-> b.block, op |-> o] /\ o \in Seq(Operations) /\ Len(o) \in Nat /\ DOMAIN o = 1..Len(o)
      /\ \A id \in DOMAIN o : o[id] \in Operations
      /\ b.block \in Seq(DOMAIN o)
  BY BlockFacts
<1>2. /\ c = [block |-> b.block, op |-> c.op]
      /\ c.op = [id \in DOMAIN o |-> IF id \in users THEN [o[id] EXCEPT !.args = ReplaceAll(@, old, new)] ELSE o[id]]
  <2>1. b = [block |-> b.block, op |-> o]
    BY <1>1
  <2> DEFINE e == [id \in DOMAIN o |-> IF id \in users THEN [o[id] EXCEPT !.args = ReplaceAll(@, old, new)] ELSE o[id]]
  <2>2. c = [b EXCEPT !.op = e]
    BY DEF ReplaceIn
  <2> HIDE DEF e, c, o
  <2>3. c = [block |-> b.block, op |-> e]
    BY <2>1, <2>2
  <2> QED
    BY <2>3 DEF e
<1>3. c.block = b.block
  BY <1>2
<1> HIDE DEF c, o
<1>4. \A id \in DOMAIN o :
        /\ c.op[id] \in Operations
        /\ c.op[id].kind = o[id].kind /\ c.op[id].leaf = o[id].leaf
        /\ DOMAIN c.op[id].args = DOMAIN o[id].args /\ Len(c.op[id].args) = Len(o[id].args)
        /\ \A k \in DOMAIN o[id].args :
             c.op[id].args[k] = IF id \in users /\ o[id].args[k] = old THEN new ELSE o[id].args[k]
  <2> SUFFICES ASSUME NEW id \in DOMAIN o
               PROVE  /\ c.op[id] \in Operations
                      /\ c.op[id].kind = o[id].kind /\ c.op[id].leaf = o[id].leaf
                      /\ DOMAIN c.op[id].args = DOMAIN o[id].args /\ Len(c.op[id].args) = Len(o[id].args)
                      /\ \A k \in DOMAIN o[id].args :
                           c.op[id].args[k] = IF id \in users /\ o[id].args[k] = old THEN new ELSE o[id].args[k]
    OBVIOUS
  <2> DEFINE args == o[id].args
             changed == ReplaceAll(args, old, new)
  <2>1. o[id] \in Operations /\ o[id] = [kind |-> o[id].kind, args |-> args, leaf |-> o[id].leaf] /\ args \in Seq(Nat)
    BY <1>1 DEF Operations
  <2>2. Len(args) \in Nat /\ DOMAIN args = 1..Len(args) /\ \A k \in 1..Len(args) : args[k] \in Nat
    BY <2>1, LenProperties, ElementOfSeq
  <2>3. changed = [k \in 1..Len(args) |-> IF args[k] = old THEN new ELSE args[k]]
    BY DEF ReplaceAll
  <2>4. changed \in [1..Len(args) -> Nat]
    BY <2>2, <2>3
  <2>5. changed \in Seq(Nat) /\ Len(changed) = Len(args) /\ DOMAIN changed = DOMAIN args
    <3>1. changed \in Seq(Nat)
      BY <2>2, <2>4, SeqDef
    <3>2. DOMAIN changed = 1..Len(args) /\ DOMAIN changed = 1..Len(changed) /\ Len(changed) \in Nat
      BY <3>1, <2>3, LenProperties
    <3> QED
      BY <3>1, <3>2, <2>2
  <2>6. CASE id \in users
    <3>1. c.op[id] = [o[id] EXCEPT !.args = changed]
      BY <1>2, <2>6
    <3> HIDE DEF changed
    <3>2. c.op[id] = [kind |-> o[id].kind, args |-> changed, leaf |-> o[id].leaf]
      BY <3>1, <2>1
    <3>3. c.op[id] \in Operations /\ c.op[id].kind = o[id].kind /\ c.op[id].leaf = o[id].leaf /\ c.op[id].args = changed
      BY <3>2, <2>1, <2>5 DEF Operations
    <3> QED
      BY <3>3, <2>2, <2>3, <2>5, <2>6
  <2>7. CASE id \notin users
    <3>1. c.op[id] = o[id]
      BY <1>2, <2>7
    <3> QED
      BY <3>1, <2>1, <2>7
  <2> QED
    BY <2>6, <2>7
<1>5. DOMAIN c.op = DOMAIN o
  BY <1>2
<1>6. c.op \in Seq(Operations)
  <2>1. c.op \in [1..Len(o) -> Operations]
    BY <1>1, <1>2, <1>4
  <2> QED
    BY <2>1, <1>1, FunctionIsSeq, Zenon
<1>7. \A i, j \in DOMAIN b.block : b.block[i] = b.block[j] => i = j
  BY DEF IsBlock
<1>8. IsBlock(c)
  BY <1>1, <1>2, <1>3, <1>5, <1>6, <1>7 DEF IsBlock
<1> QED
  BY <1>3, <1>4, <1>5, <1>8 DEF c, o

(* Setting the operands of an operation changes those alone. *)
LEMMA SetArgsFacts ==
  ASSUME NEW b, IsBlock(b), NEW id \in DOMAIN b.op, NEW args \in Seq(Nat)
  PROVE  LET c == SetArgs(b, id, args)
         IN  /\ IsBlock(c) /\ c.block = b.block /\ DOMAIN c.op = DOMAIN b.op
             /\ c.op[id].kind = b.op[id].kind /\ c.op[id].leaf = b.op[id].leaf /\ c.op[id].args = args
             /\ \A x \in DOMAIN b.op : x # id => c.op[x] = b.op[x]
<1> DEFINE c == SetArgs(b, id, args)
           o == b.op
<1>1. /\ b = [block |-> b.block, op |-> o] /\ o \in Seq(Operations) /\ Len(o) \in Nat /\ DOMAIN o = 1..Len(o)
      /\ \A x \in DOMAIN o : o[x] \in Operations
      /\ b.block \in Seq(DOMAIN o)
  BY BlockFacts
<1>2. /\ c = [block |-> b.block, op |-> c.op]
      /\ c.op = [o EXCEPT ![id] = [o[id] EXCEPT !.args = args]]
  <2>1. b = [block |-> b.block, op |-> o]
    BY <1>1
  <2> DEFINE e == [o EXCEPT ![id] = [o[id] EXCEPT !.args = args]]
  <2>2. c = [b EXCEPT !.op = e]
    BY DEF SetArgs
  <2> HIDE DEF e, c, o
  <2>3. c = [block |-> b.block, op |-> e]
    BY <2>1, <2>2
  <2> QED
    BY <2>3 DEF e
<1>3. o = [x \in DOMAIN o |-> o[x]]
  <2>1. o \in [1..Len(o) -> Operations]
    BY <1>1, LenProperties
  <2> QED
    BY <2>1
<1>4. c.block = b.block
  BY <1>2
<1> HIDE DEF c, o
<1>5. c.op = [x \in DOMAIN o |-> IF x = id THEN [o[id] EXCEPT !.args = args] ELSE o[x]]
  BY <1>2, <1>3
<1>6. o[id] = [kind |-> o[id].kind, args |-> o[id].args, leaf |-> o[id].leaf] /\ o[id] \in Operations
  BY <1>1 DEF Operations, o
<1>7. c.op[id] = [kind |-> o[id].kind, args |-> args, leaf |-> o[id].leaf]
  BY <1>5, <1>6 DEF o
<1>8. /\ c.op[id].kind = o[id].kind /\ c.op[id].leaf = o[id].leaf /\ c.op[id].args = args /\ c.op[id] \in Operations
  BY <1>6, <1>7 DEF Operations
<1>9. DOMAIN c.op = DOMAIN o /\ \A x \in DOMAIN o : x # id => c.op[x] = o[x]
  BY <1>5
<1>10. c.op \in Seq(Operations)
  <2>1. c.op \in [1..Len(o) -> Operations]
    BY <1>1, <1>5, <1>8, <1>9
  <2> QED
    BY <2>1, <1>1, FunctionIsSeq, Zenon
<1>11. \A i, j \in DOMAIN b.block : b.block[i] = b.block[j] => i = j
  BY DEF IsBlock
<1>12. IsBlock(c)
  BY <1>1, <1>2, <1>4, <1>9, <1>10, <1>11 DEF IsBlock
<1> QED
  BY <1>4, <1>8, <1>9, <1>12 DEF c, o

(* The users from an operation on. *)
LEMMA SubsequentUsers ==
  ASSUME NEW b, IsBlock(b), NEW from \in Live(b), NEW x \in Live(b)
  PROVE  x \in ToSet(SubSeq(b.block, Index(b, from), Len(b.block))) <=> x = from \/ Before(b, from, x)
<1> DEFINE i == Index(b, from)
           n == Len(b.block)
           r == SubSeq(b.block, i, n)
<1>1. /\ i \in 1..n /\ n \in Nat /\ b.block[i] = from
      /\ b.block \in Seq(DOMAIN b.op)
      /\ \A p \in 1..n : Index(b, b.block[p]) = p
  BY IndexFacts, BlockFacts
<1>2. Index(b, x) \in 1..n /\ b.block[Index(b, x)] = x
  BY IndexFacts
<1> HIDE DEF i, n
<1>3. /\ r \in Seq(DOMAIN b.op) /\ Len(r) = n - i + 1 /\ \A p \in 1..(n - i + 1) : r[p] = b.block[i + p - 1]
  <2> DEFINE s == b.block
  <2>1. s \in Seq(DOMAIN b.op) /\ i \in 1..Len(s)
    BY <1>1 DEF n
  <2> HIDE DEF s
  <2>2. LET q == SubSeq(s, i, Len(s))
        IN  /\ q \in Seq(DOMAIN b.op) /\ Len(q) = Len(s) - i + 1
            /\ \A p \in 1..(Len(s) - i + 1) : q[p] = s[i + p - 1]
    BY <2>1, Suffix
  <2> QED
    BY <2>2 DEF s, n
<1>4. DOMAIN r = 1..(n - i + 1)
  BY <1>3, LenProperties
<1>5. Index(b, x) >= i <=> x \in ToSet(r)
  <2>1. ASSUME Index(b, x) >= i PROVE x \in ToSet(r)
    <3> DEFINE p == Index(b, x) - i + 1
    <3>1. p \in 1..(n - i + 1) /\ i + p - 1 = Index(b, x)
      BY <2>1, <1>1, <1>2
    <3> HIDE DEF p
    <3> QED
      BY <3>1, <1>2, <1>3, <1>4 DEF ToSet
  <2>2. ASSUME NEW p \in 1..(n - i + 1), x = r[p] PROVE Index(b, x) >= i
    <3>1. i + p - 1 \in 1..n /\ i + p - 1 >= i
      BY <1>1
    <3>2. x = b.block[i + p - 1]
      BY <2>2, <1>3
    <3> QED
      BY <3>1, <3>2, <1>1
  <2> QED
    BY <2>1, <2>2, <1>4 DEF ToSet
<1>6. Index(b, x) = i <=> x = from
  BY <1>1, <1>2
<1> QED
  BY <1>1, <1>2, <1>5, <1>6 DEF Before, i, n, r

(* A value of the block. *)
IsValue(b, v) == v \in Live(b) /\ b.op[v].kind \in Expressions

(* The operands of an expression are expressions that come before it. *)
LEMMA OperandFacts ==
  ASSUME NEW b, IsBody(b), NEW v \in Live(b)
  PROVE  /\ b.op[v].args \in Seq(Nat) /\ b.op[v].kind \in Expressions \cup Users /\ b.op[v].leaf \in Int
         /\ Len(b.op[v].args) \in Nat /\ DOMAIN b.op[v].args = 1..Len(b.op[v].args)
         /\ Len(b.op[v].args) \in Arity(b.op[v].kind)
         /\ \A k \in DOMAIN b.op[v].args :
              /\ Before(b, b.op[v].args[k], v)
              /\ b.op[b.op[v].args[k]].kind \in OperandKinds(b.op[v].kind)
              /\ b.op[v].kind # "contain" => IsValue(b, b.op[v].args[k])
              /\ b.op[v].args[k] \in Nat
<1>1. IsBlock(b) /\ IsOperation(b, v)
  BY DEF IsBody
<1>2. b.op[v] \in Operations
  BY <1>1, BlockFacts
<1>3. b.op[v].args \in Seq(Nat) /\ b.op[v].kind \in Expressions \cup Users /\ b.op[v].leaf \in Int
  BY <1>2 DEF Operations
<1>4. Len(b.op[v].args) \in Nat /\ DOMAIN b.op[v].args = 1..Len(b.op[v].args)
  BY <1>3, LenProperties
<1>5. \A k \in DOMAIN b.op[v].args :
        /\ Before(b, b.op[v].args[k], v)
        /\ b.op[b.op[v].args[k]].kind \in OperandKinds(b.op[v].kind)
  BY <1>1, BeforeIsAnOrder DEF IsOperation
<1>6. \A k \in DOMAIN b.op[v].args : b.op[v].kind # "contain" => IsValue(b, b.op[v].args[k])
  BY <1>5 DEF IsValue, OperandKinds, Before
<1>7. \A k \in DOMAIN b.op[v].args : b.op[v].args[k] \in Nat
  BY <1>3, <1>4, ElementOfSeq
<1> QED
  BY <1>1, <1>3, <1>4, <1>5, <1>6, <1>7 DEF IsOperation

(* How many operands the kinds have. *)
LEMMA Arities ==
  ASSUME NEW b, IsBody(b), NEW v \in Live(b)
  PROVE  /\ b.op[v].kind \in Sums \cup Products \cup {"eq"} => DOMAIN b.op[v].args = 1..2
         /\ b.op[v].kind \in {"neg", "contain"} => DOMAIN b.op[v].args = 1..1
         /\ b.op[v].kind \in Leaves => DOMAIN b.op[v].args = {}
<1> DEFINE n == Len(b.op[v].args)
           k == b.op[v].kind
<1>1. n \in Nat /\ DOMAIN b.op[v].args = 1..n /\ n \in Arity(k)
  BY OperandFacts
<1> HIDE DEF n, k
<1>2. k \in Sums \cup Products \cup {"eq"} => n = 2
  BY <1>1 DEF Arity
<1>3. k \in {"neg", "contain"} => n = 1
  BY <1>1 DEF Arity, Sums, Products
<1>4. k \in Leaves => n = 0
  BY <1>1 DEF Arity, Sums, Products, Leaves
<1>5. 1..0 = {}
  OBVIOUS
<1> QED
  BY <1>1, <1>2, <1>3, <1>4, <1>5 DEF n, k

(* It does not depend on values further down. *)
LEMMA DegreeIsLocal ==
  ASSUME NEW b, IsBody(b), NEW memo, NEW v \in Live(b), NEW f, NEW g,
         \A u \in Live(b) : Before(b, u, v) => f[u] = g[u]
  PROVE  DegreeOf(b, memo, f, v) = DegreeOf(b, memo, g, v)
<1> DEFINE kind == b.op[v].kind
           args == b.op[v].args
<1>1. /\ kind \in Sums \cup Products => 1 \in DOMAIN args /\ 2 \in DOMAIN args
      /\ kind = "neg" => 1 \in DOMAIN args
  BY Arities
<1>2. \A k \in DOMAIN args : f[args[k]] = g[args[k]]
  BY OperandFacts DEF Before
<1>3. CASE v \in DOMAIN memo
  BY <1>3 DEF DegreeOf
<1>4. CASE v \notin DOMAIN memo /\ kind \in Sums
  <2>1. f[args[1]] = g[args[1]] /\ f[args[2]] = g[args[2]]
    BY <1>1, <1>2, <1>4
  <2>2. \A h : DegreeOf(b, memo, h, v) = Larger(h[args[1]], h[args[2]])
    BY <1>4 DEF DegreeOf, Sums, Products
  <2> QED
    BY <2>1, <2>2
<1>5. CASE v \notin DOMAIN memo /\ kind \in Products
  <2>1. f[args[1]] = g[args[1]] /\ f[args[2]] = g[args[2]]
    BY <1>1, <1>2, <1>5
  <2>2. \A h : DegreeOf(b, memo, h, v) = h[args[1]] + h[args[2]]
    BY <1>5 DEF DegreeOf, Sums, Products
  <2> QED
    BY <2>1, <2>2
<1>6. CASE v \notin DOMAIN memo /\ kind = "neg"
  <2>1. f[args[1]] = g[args[1]]
    BY <1>1, <1>2, <1>6
  <2>2. \A h : DegreeOf(b, memo, h, v) = h[args[1]]
    BY <1>6 DEF DegreeOf, Sums, Products
  <2> QED
    BY <2>1, <2>2
<1>7. CASE v \notin DOMAIN memo /\ kind \notin Sums \cup Products \cup {"neg"}
  BY <1>7 DEF DegreeOf
<1> QED
  BY <1>3, <1>4, <1>5, <1>6, <1>7

(* The degree of a value is that of its kind and of its operands' degrees. *)
LEMMA DegreeEquation ==
  ASSUME NEW b, IsBody(b), NEW memo
  PROVE  \A v \in Live(b) : DegreeIn(b, memo)[v] = DegreeOf(b, memo, DegreeIn(b, memo), v)
<1> DEFINE Upto(f, n) == \A v \in Live(b) : Index(b, v) <= n => f[v] = DegreeOf(b, memo, f, v)
           T == {n \in Nat : ~ \E f : Upto(f, n)}
           m == Len(b.block)
<1>1. IsBlock(b)
  BY DEF IsBody
<1>2. m \in Nat /\ \A v \in Live(b) : Index(b, v) \in 1..m
  BY <1>1, IndexFacts, BlockFacts
<1> HIDE DEF m
<1>3. T = {}
  <2> SUFFICES ASSUME T # {} PROVE FALSE
    OBVIOUS
  <2>1. PICK n \in T : \A k \in T : n <= k
    <3>1. T \subseteq Nat
      OBVIOUS
    <3> HIDE DEF T
    <3> QED
      BY <3>1, Least
  <2>2. n \in Nat /\ ~ \E f : Upto(f, n)
    BY <2>1
  <2>3. CASE n = 0
    <3>1. Upto([v \in {} |-> 0], 0)
      BY <1>2
    <3> HIDE DEF Upto
    <3> QED
      BY <3>1, <2>2, <2>3
  <2>4. CASE n # 0
    <3>1. n - 1 \in Nat /\ ~ (n <= n - 1)
      BY <2>2, <2>4
    <3>2. n - 1 \notin T
      BY <2>1, <3>1
    <3>3. PICK f : Upto(f, n - 1)
      BY <3>1, <3>2
    <3> DEFINE g == [v \in Live(b) |-> DegreeOf(b, memo, f, v)]
    <3>4. \A v \in Live(b) : g[v] = DegreeOf(b, memo, f, v)
      OBVIOUS
    <3> HIDE DEF g
    <3>5. \A v \in Live(b) : Index(b, v) <= n => g[v] = DegreeOf(b, memo, g, v)
      <4> SUFFICES ASSUME NEW v \in Live(b), Index(b, v) <= n PROVE g[v] = DegreeOf(b, memo, g, v)
        OBVIOUS
      <4>1. \A u \in Live(b) : Before(b, u, v) => f[u] = g[u]
        <5> SUFFICES ASSUME NEW u \in Live(b), Before(b, u, v) PROVE f[u] = g[u]
          OBVIOUS
        <5>1. Index(b, u) <= n - 1
          BY <1>2, <2>2 DEF Before
        <5> QED
          BY <5>1, <3>3, <3>4
      <4>2. DegreeOf(b, memo, f, v) = DegreeOf(b, memo, g, v)
        BY <4>1, DegreeIsLocal
      <4> QED
        BY <4>2, <3>4
    <3> QED
      BY <3>5, <2>2
  <2> QED
    BY <2>3, <2>4
<1>4. PICK f : Upto(f, m)
  BY <1>2, <1>3
<1> DEFINE g == [v \in Live(b) |-> DegreeOf(b, memo, f, v)]
<1>5. \A v \in Live(b) : Index(b, v) <= m
  BY <1>2
<1>6. \A v \in Live(b) : f[v] = DegreeOf(b, memo, f, v)
  BY <1>4, <1>5
<1>7. \A v \in Live(b) : g[v] = f[v]
  BY <1>6
<1>8. \A v \in Live(b) : DegreeOf(b, memo, f, v) = DegreeOf(b, memo, g, v)
  <2> HIDE DEF g
  <2> QED
    BY <1>7, DegreeIsLocal
<1>9. g = [v \in Live(b) |-> DegreeOf(b, memo, g, v)]
  BY <1>8, Zenon
<1>10. DegreeIn(b, memo) = CHOOSE d : d = [v \in Live(b) |-> DegreeOf(b, memo, d, v)]
  BY Zenon DEF DegreeIn
<1>11. DegreeIn(b, memo) = [v \in Live(b) |-> DegreeOf(b, memo, DegreeIn(b, memo), v)]
  BY <1>9, <1>10, Zenon
<1> QED
  BY <1>11, Zenon

(* The memo has degrees of values that were built; an auxiliary read has    *)
(* degree one.                                                              *)
MemoOK(b, memo) ==
  \A v \in DOMAIN memo :
    /\ v \in DOMAIN b.op
    /\ IsValue(b, v) => memo[v] \in Nat
    /\ IsValue(b, v) /\ b.op[v].kind = "aux" => memo[v] = 1

(* Degrees are numbers; a leaf has degree one at most. *)
LEMMA Degrees ==
  ASSUME NEW b, IsBody(b), NEW memo, MemoOK(b, memo)
  PROVE  /\ \A v : IsValue(b, v) => DegreeIn(b, memo)[v] \in Nat
         /\ \A v : IsValue(b, v) /\ v \in DOMAIN memo => DegreeIn(b, memo)[v] = memo[v]
         /\ \A v : IsValue(b, v) /\ b.op[v].kind = "aux" => DegreeIn(b, memo)[v] = 1
         /\ \A v : IsValue(b, v) /\ v \notin DOMAIN memo /\ b.op[v].kind \in Leaves => DegreeIn(b, memo)[v] <= 1
<1> DEFINE D == DegreeIn(b, memo)
           Bad == {v \in Live(b) : IsValue(b, v) /\ D[v] \notin Nat}
           T == {Index(b, v) : v \in Bad}
<1>1. \A v \in Live(b) : D[v] = DegreeOf(b, memo, D, v)
  BY DegreeEquation
<1>0. IsBlock(b)
  BY DEF IsBody
<1> HIDE DEF D
<1>2. Bad = {}
  <2> SUFFICES ASSUME Bad # {} PROVE FALSE
    OBVIOUS
  <2>1. T \subseteq Nat /\ T # {}
    BY <1>0, IndexFacts, BlockFacts
  <2>2. PICK i \in T : \A j \in T : i <= j
    <3> HIDE DEF T
    <3> QED
      BY <2>1, Least
  <2>3. PICK v \in Bad : Index(b, v) = i
    BY <2>2
  <2>4. \A u \in Live(b) : Before(b, u, v) /\ IsValue(b, u) => D[u] \in Nat
    <3> SUFFICES ASSUME NEW u \in Live(b), Before(b, u, v), IsValue(b, u), D[u] \notin Nat PROVE FALSE
      OBVIOUS
    <3>1. Index(b, u) \in T
      OBVIOUS
    <3>2. i <= Index(b, u)
      BY <3>1, <2>2
    <3>3. Index(b, u) < i
      BY <2>3 DEF Before
    <3>4. Index(b, u) \in Nat /\ i \in Nat
      BY <3>1, <2>1, <2>2
    <3> QED
      BY <3>2, <3>3, <3>4
  <2> DEFINE kind == b.op[v].kind
             args == b.op[v].args
  <2>5. v \in Live(b) /\ IsValue(b, v) /\ D[v] \notin Nat /\ kind \in Expressions
    BY DEF IsValue
  <2>6. kind # "contain"
    BY <2>5 DEF Expressions, Leaves, Sums, Products
  <2>7. \A k \in DOMAIN args : D[args[k]] \in Nat
    BY <2>4, <2>5, <2>6, OperandFacts DEF Before
  <2>8. /\ kind \in Sums \cup Products => 1 \in DOMAIN args /\ 2 \in DOMAIN args
        /\ kind = "neg" => 1 \in DOMAIN args
    BY <2>5, Arities
  <2>9. D[v] = DegreeOf(b, memo, D, v)
    BY <1>1, <2>5
  <2>10. CASE v \in DOMAIN memo
    BY <2>5, <2>9, <2>10 DEF DegreeOf, MemoOK
  <2>11. CASE v \notin DOMAIN memo /\ kind \in Sums
    <3>1. D[v] = Larger(D[args[1]], D[args[2]])
      BY <2>9, <2>11 DEF DegreeOf, Sums, Products
    <3> QED
      BY <3>1, <2>5, <2>7, <2>8, <2>11 DEF Larger
  <2>12. CASE v \notin DOMAIN memo /\ kind \in Products
    <3>1. D[v] = D[args[1]] + D[args[2]]
      BY <2>9, <2>12 DEF DegreeOf, Sums, Products
    <3> QED
      BY <3>1, <2>5, <2>7, <2>8, <2>12
  <2>13. CASE v \notin DOMAIN memo /\ kind = "neg"
    <3>1. D[v] = D[args[1]]
      BY <2>9, <2>13 DEF DegreeOf, Sums, Products
    <3> QED
      BY <3>1, <2>5, <2>7, <2>8, <2>13
  <2>14. CASE v \notin DOMAIN memo /\ kind \in Leaves
    <3>1. D[v] \in {0, 1}
      BY <2>9, <2>14 DEF DegreeOf, Sums, Products, Leaves
    <3> QED
      BY <3>1, <2>5
  <2> QED
    BY <2>5, <2>10, <2>11, <2>12, <2>13, <2>14 DEF Expressions
<1>3. \A v : IsValue(b, v) => D[v] \in Nat
  BY <1>2 DEF IsValue
<1>4. \A v : IsValue(b, v) /\ v \in DOMAIN memo => D[v] = memo[v]
  BY <1>1 DEF IsValue, DegreeOf
<1>5. \A v : IsValue(b, v) /\ v \notin DOMAIN memo /\ b.op[v].kind \in Leaves =>
             D[v] \in {0, 1} /\ (b.op[v].kind = "aux" => D[v] = 1)
  BY <1>1 DEF IsValue, DegreeOf, Leaves, Sums, Products
<1>6. \A v : IsValue(b, v) /\ b.op[v].kind = "aux" => D[v] = 1
  <2> SUFFICES ASSUME NEW v, IsValue(b, v), b.op[v].kind = "aux" PROVE D[v] = 1
    OBVIOUS
  <2>1. CASE v \in DOMAIN memo
    BY <2>1, <1>4 DEF MemoOK
  <2>2. CASE v \notin DOMAIN memo
    BY <2>2, <1>5 DEF Leaves
  <2> QED
    BY <2>1, <2>2
<1>7. \A v : IsValue(b, v) /\ v \notin DOMAIN memo /\ b.op[v].kind \in Leaves => D[v] <= 1
  BY <1>5
<1> QED
  BY <1>3, <1>4, <1>6, <1>7 DEF D

-----------------------------------------------------------------------------
(* What a value is computed from *)

(* One step of Reached. *)
ReachedOf(b, stop, reached, v) ==
  IF v \in stop THEN {v} ELSE {v} \cup UNION {reached[a] : a \in ToSet(b.op[v].args)}

(* Neither does what is reached. *)
LEMMA ReachedIsLocal ==
  ASSUME NEW b, IsBody(b), NEW stop, NEW v \in Live(b), NEW f, NEW g,
         \A u \in Live(b) : Before(b, u, v) => f[u] = g[u]
  PROVE  ReachedOf(b, stop, f, v) = ReachedOf(b, stop, g, v)
<1>1. \A a \in ToSet(b.op[v].args) : f[a] = g[a]
  BY OperandFacts DEF Before, ToSet
<1>2. {f[a] : a \in ToSet(b.op[v].args)} = {g[a] : a \in ToSet(b.op[v].args)}
  BY <1>1
<1> QED
  BY <1>2, Zenon DEF ReachedOf

(* What is reached from a value: itself, and what its operands reach. *)
LEMMA ReachedEquation ==
  ASSUME NEW b, IsBody(b), NEW stop
  PROVE  \A v \in Live(b) : Reached(b, stop)[v] = ReachedOf(b, stop, Reached(b, stop), v)
<1> DEFINE Upto(f, n) == \A v \in Live(b) : Index(b, v) <= n => f[v] = ReachedOf(b, stop, f, v)
           T == {n \in Nat : ~ \E f : Upto(f, n)}
           m == Len(b.block)
<1>1. IsBlock(b)
  BY DEF IsBody
<1>2. m \in Nat /\ \A v \in Live(b) : Index(b, v) \in 1..m
  BY <1>1, IndexFacts, BlockFacts
<1> HIDE DEF m
<1>3. T = {}
  <2> SUFFICES ASSUME T # {} PROVE FALSE
    OBVIOUS
  <2>1. PICK n \in T : \A k \in T : n <= k
    <3>1. T \subseteq Nat
      OBVIOUS
    <3> HIDE DEF T
    <3> QED
      BY <3>1, Least
  <2>2. n \in Nat /\ ~ \E f : Upto(f, n)
    BY <2>1
  <2>3. CASE n = 0
    <3>1. Upto([v \in {} |-> 0], 0)
      BY <1>2
    <3> HIDE DEF Upto
    <3> QED
      BY <3>1, <2>2, <2>3
  <2>4. CASE n # 0
    <3>1. n - 1 \in Nat /\ ~ (n <= n - 1)
      BY <2>2, <2>4
    <3>2. n - 1 \notin T
      BY <2>1, <3>1
    <3>3. PICK f : Upto(f, n - 1)
      BY <3>1, <3>2
    <3> DEFINE g == [v \in Live(b) |-> ReachedOf(b, stop, f, v)]
    <3>4. \A v \in Live(b) : g[v] = ReachedOf(b, stop, f, v)
      OBVIOUS
    <3> HIDE DEF g
    <3>5. \A v \in Live(b) : Index(b, v) <= n => g[v] = ReachedOf(b, stop, g, v)
      <4> SUFFICES ASSUME NEW v \in Live(b), Index(b, v) <= n PROVE g[v] = ReachedOf(b, stop, g, v)
        OBVIOUS
      <4>1. \A u \in Live(b) : Before(b, u, v) => f[u] = g[u]
        <5> SUFFICES ASSUME NEW u \in Live(b), Before(b, u, v) PROVE f[u] = g[u]
          OBVIOUS
        <5>1. Index(b, u) <= n - 1
          BY <1>2, <2>2 DEF Before
        <5> QED
          BY <5>1, <3>3, <3>4
      <4>2. ReachedOf(b, stop, f, v) = ReachedOf(b, stop, g, v)
        BY <4>1, ReachedIsLocal
      <4> QED
        BY <4>2, <3>4
    <3> QED
      BY <3>5, <2>2
  <2> QED
    BY <2>3, <2>4
<1>4. PICK f : Upto(f, m)
  BY <1>2, <1>3
<1> DEFINE g == [v \in Live(b) |-> ReachedOf(b, stop, f, v)]
<1>5. \A v \in Live(b) : Index(b, v) <= m
  BY <1>2
<1>6. \A v \in Live(b) : f[v] = ReachedOf(b, stop, f, v)
  BY <1>4, <1>5
<1>7. \A v \in Live(b) : g[v] = f[v]
  BY <1>6
<1>8. \A v \in Live(b) : ReachedOf(b, stop, f, v) = ReachedOf(b, stop, g, v)
  <2> HIDE DEF g
  <2> QED
    BY <1>7, ReachedIsLocal
<1>9. g = [v \in Live(b) |-> ReachedOf(b, stop, g, v)]
  BY <1>8, Zenon
<1>10. Reached(b, stop) = CHOOSE d : d = [v \in Live(b) |-> ReachedOf(b, stop, d, v)]
  BY DEF Reached, ReachedOf
<1>11. Reached(b, stop) = [v \in Live(b) |-> ReachedOf(b, stop, Reached(b, stop), v)]
  BY <1>9, <1>10, Zenon
<1> QED
  BY <1>11, Zenon

(* Reached are the value itself and values before it. *)
LEMMA ReachedFacts ==
  ASSUME NEW b, IsBody(b), NEW stop, NEW v, v \in Live(b)
  PROVE  /\ v \in Reached(b, stop)[v]
         /\ \A u \in Reached(b, stop)[v] : u = v \/ Before(b, u, v)
         /\ IsValue(b, v) => \A u \in Reached(b, stop)[v] : IsValue(b, u)
<1> DEFINE R == Reached(b, stop)
           Good(x) == /\ \A u \in R[x] : u = x \/ Before(b, u, x)
                      /\ IsValue(b, x) => \A u \in R[x] : IsValue(b, u)
           Bad == {x \in Live(b) : ~ Good(x)}
           T == {Index(b, x) : x \in Bad}
<1>1. \A x \in Live(b) : R[x] = ReachedOf(b, stop, R, x)
  BY ReachedEquation
<1>0. IsBlock(b)
  BY DEF IsBody
<1> HIDE DEF R
<1>2. Bad = {}
  <2> SUFFICES ASSUME Bad # {} PROVE FALSE
    OBVIOUS
  <2>1. T \subseteq Nat /\ T # {}
    <3> HIDE DEF Good
    <3> QED
      BY <1>0, IndexFacts, BlockFacts
  <2>2. PICK i \in T : \A j \in T : i <= j
    <3> HIDE DEF T
    <3> QED
      BY <2>1, Least
  <2>3. PICK x \in Bad : Index(b, x) = i
    BY <2>2
  <2>4. \A u \in Live(b) : Before(b, u, x) => Good(u)
    <3> SUFFICES ASSUME NEW u \in Live(b), Before(b, u, x), ~ Good(u) PROVE FALSE
      OBVIOUS
    <3> HIDE DEF Good
    <3>1. Index(b, u) \in T
      OBVIOUS
    <3>2. i <= Index(b, u)
      BY <3>1, <2>2
    <3>3. Index(b, u) < i
      BY <2>3 DEF Before
    <3>4. Index(b, u) \in Nat /\ i \in Nat
      BY <3>1, <2>1, <2>2
    <3> QED
      BY <3>2, <3>3, <3>4
  <2>5. x \in Live(b) /\ ~ Good(x)
    OBVIOUS
  <2>6. \A u \in R[x] : u = x \/ \E a \in ToSet(b.op[x].args) : u \in R[a]
    <3>1. R[x] = IF x \in stop THEN {x} ELSE {x} \cup UNION {R[a] : a \in ToSet(b.op[x].args)}
      BY <1>1, <2>5, Zenon DEF ReachedOf
    <3> HIDE DEF Bad, T
    <3> QED
      BY <3>1
  <2>7. \A a \in ToSet(b.op[x].args) : Before(b, a, x) /\ a \in Live(b) /\ (IsValue(b, x) => IsValue(b, a))
    <3>1. "contain" \notin Expressions
      BY DEF Expressions, Leaves, Sums, Products
    <3>2. \A k \in DOMAIN b.op[x].args : /\ Before(b, b.op[x].args[k], x)
                                         /\ b.op[x].kind # "contain" => IsValue(b, b.op[x].args[k])
      BY <2>5, OperandFacts
    <3> QED
      BY <3>1, <3>2 DEF ToSet, IsValue, Before
  <2>8. \A a \in ToSet(b.op[x].args) : Good(a)
    <3> HIDE DEF Good
    <3> QED
      BY <2>4, <2>7
  <2>9. \A u, y, z : Before(b, u, y) /\ Before(b, y, z) => Before(b, u, z)
    BY <1>0, BeforeIsAnOrder
  <2>10. \A u \in R[x] : u = x \/ Before(b, u, x)
    BY <2>6, <2>7, <2>8, <2>9, ZenonT(40)
  <2>11. IsValue(b, x) => \A u \in R[x] : IsValue(b, u)
    BY <2>6, <2>7, <2>8, ZenonT(40)
  <2> QED
    BY <2>5, <2>10, <2>11
<1>3. Good(v)
  <2> HIDE DEF Good
  <2> QED
    BY <1>2
<1>4. v \in R[v]
  BY <1>1, Zenon DEF ReachedOf
<1> QED
  BY <1>3, <1>4 DEF R

-----------------------------------------------------------------------------
(* The invariant *)

(* The value is no product that may still be lowered. *)
Held(b, memo, bound, v) ==
  IsValue(b, v) /\ (b.op[v].kind = "mul" => v \in DOMAIN memo /\ memo[v] <= bound)

(* The memo has the value above the bound. *)
Tall(memo, bound, v) == v \in DOMAIN memo /\ ~ (memo[v] <= bound)

(* A cached replacement that is still in the block is held. *)
RewritesOK(b, memo, bound, rw) ==
  \A v \in DOMAIN rw :
    /\ rw[v] \in DOMAIN b.op
    /\ rw[v] \in Live(b) => Held(b, memo, bound, rw[v])

Frames == [val : Nat, useOp : Nat, at : {"entry", "lhs", "rhs", "factor"}, lhs : Nat, rhs : Nat,
           before : Nat, eraseMul : BOOLEAN]

(* An equality that the pass has added. *)
AuxEquation(b, e) == e \in Live(b) /\ b.op[e].kind = "eq" /\ b.op[e].leaf = 0

(* An activation: its value, its user and the lowered operands it has so    *)
(* far.                                                                     *)
FrameOK(b, memo, bound, f) ==
  /\ IsValue(b, f.val) /\ Before(b, f.val, f.useOp)
  /\ f.at \in {"entry", "lhs"} => f.lhs = None
  /\ f.at # "factor" => f.rhs = None
  /\ f.at # "entry" => /\ b.op[f.val].kind \in LoweredRoots
                       /\ b.op[f.val].kind = "mul" => Tall(memo, bound, f.val)
  /\ f.at \in {"rhs", "factor"} => b.op[f.val].kind # "neg" /\ Held(b, memo, bound, f.lhs)
  /\ f.at = "rhs" => Before(b, f.lhs, f.val)

(* An activation at a product whose operands are both lowered. *)
FactorOK(b, memo, bound, f) ==
  /\ b.op[f.val].kind = "mul"
  /\ Held(b, memo, bound, f.rhs)
  /\ f.lhs \in DOMAIN memo /\ f.rhs \in DOMAIN memo
  /\ Before(b, f.val, f.before) /\ Before(b, f.lhs, f.before) /\ Before(b, f.rhs, f.before)
  /\ ~ Before(b, f.useOp, f.before) /\ ~ AuxEquation(b, f.before)
  /\ \A id \in Live(b) : f.val \in ToSet(b.op[id].args) => ~ Before(b, id, f.before)

(* What uses the value of an activation on top of these. *)
User(st, cur) == IF st = <<>> THEN cur ELSE Head(st).val

(* Activations, each for an operand of the one below it. *)
StackOK(b, memo, bound, st, cur) ==
  /\ st \in Seq(Frames)
  /\ \A i \in 1..Len(st) :
       /\ FrameOK(b, memo, bound, st[i])
       /\ st[i].useOp = IF i = Len(st) THEN cur ELSE st[i + 1].val
       /\ i > 1 => st[i].at \in {"lhs", "rhs"}
       /\ st[i].at = "factor" => FactorOK(b, memo, bound, st[i])
       /\ \A j \in 1..Len(st) : i < j => Before(b, st[i].val, st[j].val)

(* What was returned is held and defined before its use. *)
ReturnedOK(b, memo, bound, st, ret, cur) ==
  /\ st # <<>> /\ Head(st).at \in {"entry", "factor"} => ret = None
  /\ ret # None => Held(b, memo, bound, ret) /\ Before(b, ret, User(st, cur))

Walking == {"equalities", "containments", "calls"}

(* What a walk visits, and the operations whose operands it lowers. *)
Walked(b, ph) ==
  CASE ph = "equalities" -> {e \in OfKind(b, "eq") : b.op[e].leaf # 0}
    [] ph = "containments" -> OfKind(b, "contain")
    [] ph = "calls" -> OfKind(b, "call")
    [] OTHER -> {}
Lowered(b, ph) == IF ph = "containments" THEN OfKind(b, "array") ELSE Walked(b, ph)

(* The operations that a walk has yet to visit, and the operands it has yet *)
(* to lower.                                                                *)
WalkOK(b, ph, wk, cur, sl) ==
  /\ ph \in LoweringPhases
  /\ wk \subseteq Walked(b, ph) /\ cur \notin wk
  /\ cur # None => cur \in Lowered(b, ph)
  /\ sl # {} => cur # None /\ sl \subseteq DOMAIN b.op[cur].args

(* The copy of a call's operands, but for one that may be gone. *)
CallOK(b, memo, bound, cur, sl, operands, kept) ==
  /\ operands \in Seq(Nat) /\ DOMAIN operands = DOMAIN b.op[cur].args
  /\ \A i \in kept : IsValue(b, operands[i]) /\ Before(b, operands[i], cur)
  /\ \A i \in kept, j \in kept \cap sl :
       i = j \/ Held(b, memo, bound, operands[i]) \/ b.op[operands[j]].kind \in Leaves

(* No operand is a product unless the others are leaves. *)
Apart(b, args) ==
  \A i, j \in DOMAIN args : i # j /\ b.op[args[i]].kind = "mul" => b.op[args[j]].kind \in Leaves

ArgumentsApart(b) == \A id \in OfKind(b, "call") : Apart(b, b.op[id].args)

(* The calls that were not visited yet. *)
Unvisited(b, ph, wk) == IF ph \in {"equalities", "containments"} THEN OfKind(b, "call") ELSE wk
CallsOK(b, ph, wk) == \A id \in Unvisited(b, ph, wk) : Apart(b, b.op[id].args)

(* An auxiliary member has a read, after the value that it holds, and an    *)
(* equation.                                                                *)
AuxRead(b, memo, bound, a) ==
  /\ Held(b, memo, bound, a.computed) /\ a.aux \in OfKind(b, "aux")
  /\ Before(b, a.computed, a.aux)
  /\ \E e \in Live(b) : AuxEquation(b, e) /\ b.op[e].args[1] = a.aux

(* Every auxiliary read in the block is the one of its member. *)
AuxKnown(b, aux) ==
  \A v \in OfKind(b, "aux") : b.op[v].leaf \in DOMAIN aux /\ aux[b.op[v].leaf].aux = v

(* An added equation comes right after the read that it constrains, and     *)
(* equates it to another value.                                             *)
EquationOK(b, e) ==
  /\ b.op[b.op[e].args[1]].kind = "aux" /\ b.op[e].args[2] # b.op[e].args[1]
  /\ \A z \in Live(b) : ~ (Before(b, b.op[e].args[1], z) /\ Before(b, z, e))

EquationsOK(b) == \A e \in Live(b) : AuxEquation(b, e) => EquationOK(b, e)

Assignments == [computed : Nat, aux : Nat]
AuxOK(b, memo, bound, aux) ==
  /\ aux \in Seq(Assignments)
  /\ \A k \in DOMAIN aux : AuxRead(b, memo, bound, aux[k])
  /\ AuxKnown(b, aux) /\ EquationsOK(b)

-----------------------------------------------------------------------------
(* What a step does to the operations and the degrees that are there: only  *)
(* a product above the bound may go.  An address that is used again is that *)
(* of an operation whose value may be held.                                 *)
Keeps(b, memo, b2, memo2, bound) ==
  /\ IsBlock(b) /\ IsBlock(b2) /\ DOMAIN b.op \subseteq DOMAIN b2.op
  /\ \A v \in Live(b) : v \in Live(b2) \/ (b.op[v].kind = "mul" /\ Tall(memo, bound, v))
  /\ \A v \in Live(b) : v \in Live(b2) =>
       /\ b2.op[v].kind = b.op[v].kind /\ b2.op[v].leaf = b.op[v].leaf
       /\ DOMAIN b2.op[v].args = DOMAIN b.op[v].args
       /\ b.op[v].kind = "mul" /\ v \in DOMAIN memo => v \in DOMAIN memo2 /\ memo2[v] = memo[v]
  /\ \A x, y \in Live(b) : x \in Live(b2) /\ y \in Live(b2) => (Before(b2, x, y) <=> Before(b, x, y))
  /\ \A v \in Live(b2) \ Live(b) : v \in DOMAIN b.op => Held(b2, memo2, bound, v)

(* What is held, stays. *)
LEMMA HeldKept ==
  ASSUME NEW b, NEW memo, NEW b2, NEW memo2, NEW bound, Keeps(b, memo, b2, memo2, bound)
  PROVE  /\ \A v : Held(b, memo, bound, v) => v \in Live(b) /\ v \in Live(b2) /\ Held(b2, memo2, bound, v)
         /\ \A v : IsValue(b, v) /\ v \in Live(b2) => IsValue(b2, v)
         /\ \A v : v \in Live(b) /\ b.op[v].kind # "mul" => v \in Live(b2)
<1>1. \A v : Held(b, memo, bound, v) => v \in Live(b) /\ v \in Live(b2)
  BY DEF Keeps, Held, IsValue, Tall
<1>2. \A v : IsValue(b, v) /\ v \in Live(b2) => IsValue(b2, v)
  BY DEF Keeps, IsValue
<1>3. \A v : Held(b, memo, bound, v) => Held(b2, memo2, bound, v)
  BY <1>1, <1>2 DEF Keeps, Held, IsValue
<1> QED
  BY <1>1, <1>2, <1>3 DEF Keeps

(* Live replacements stay held. *)
LEMMA RewritesKept ==
  ASSUME NEW b, NEW memo, NEW b2, NEW memo2, NEW bound, Keeps(b, memo, b2, memo2, bound),
         NEW rw, RewritesOK(b, memo, bound, rw)
  PROVE  RewritesOK(b2, memo2, bound, rw)
BY HeldKept DEF RewritesOK, Keeps

(* An activation's values stay. *)
LEMMA FrameKept ==
  ASSUME NEW b, NEW memo, NEW b2, NEW memo2, NEW bound, Keeps(b, memo, b2, memo2, bound),
         NEW f, FrameOK(b, memo, bound, f), f.val \in Live(b2), f.useOp \in Live(b2)
  PROVE  FrameOK(b2, memo2, bound, f)
<1>1. IsValue(b, f.val) /\ Before(b, f.val, f.useOp) /\ f.val \in Live(b) /\ f.useOp \in Live(b)
  BY DEF FrameOK, Before
<1>2. IsValue(b2, f.val) /\ Before(b2, f.val, f.useOp)
  <2>1. IsValue(b2, f.val)
    BY <1>1, HeldKept
  <2> QED
    BY <2>1, <1>1 DEF Keeps
<1>3. b2.op[f.val].kind = b.op[f.val].kind
  BY <1>1 DEF Keeps
<1>4. b.op[f.val].kind = "mul" /\ Tall(memo, bound, f.val) => Tall(memo2, bound, f.val)
  BY <1>1 DEF Keeps, Tall
<1>5. f.at \in {"rhs", "factor"} => Held(b2, memo2, bound, f.lhs) /\ f.lhs \in Live(b) /\ f.lhs \in Live(b2)
  BY HeldKept DEF FrameOK
<1>6. f.at = "rhs" => Before(b2, f.lhs, f.val)
  BY <1>1, <1>5 DEF FrameOK, Keeps
<1> QED
  BY <1>2, <1>3, <1>4, <1>5, <1>6 DEF FrameOK

(* So do those of all activations. *)
LEMMA StackKept ==
  ASSUME NEW b, NEW memo, NEW b2, NEW memo2, NEW bound, Keeps(b, memo, b2, memo2, bound),
         NEW st, NEW cur, StackOK(b, memo, bound, st, cur), cur \in Live(b2),
         \A i \in 1..Len(st) : st[i].val \in Live(b2) /\ st[i].at # "factor"
  PROVE  StackOK(b2, memo2, bound, st, cur)
<1>1. st \in Seq(Frames) /\ Len(st) \in Nat
  BY LenProperties DEF StackOK
<1>2. \A i \in 1..Len(st) : st[i].useOp \in Live(b2)
  BY <1>1 DEF StackOK
<1>3. \A i \in 1..Len(st) : FrameOK(b2, memo2, bound, st[i])
  BY <1>2, FrameKept DEF StackOK
<1>4. \A i, j \in 1..Len(st) : i < j => Before(b2, st[i].val, st[j].val)
  BY DEF StackOK, Keeps, Before
<1> QED
  BY <1>3, <1>4 DEF StackOK

(* The operations of a walk stay. *)
LEMMA WalkKept ==
  ASSUME NEW b, NEW memo, NEW b2, NEW memo2, NEW bound, Keeps(b, memo, b2, memo2, bound),
         NEW ph, NEW wk, NEW cur, NEW sl, WalkOK(b, ph, wk, cur, sl)
  PROVE  WalkOK(b2, ph, wk, cur, sl)
<1>1. \A k : k # "mul" => OfKind(b, k) \subseteq OfKind(b2, k)
  BY DEF OfKind, Keeps
<1>2. Walked(b, ph) \subseteq Walked(b2, ph) /\ Lowered(b, ph) \subseteq Lowered(b2, ph)
  BY <1>1 DEF Walked, Lowered, OfKind, Keeps
<1>3. cur # None => cur \in Live(b) /\ b.op[cur].kind # "mul"
  BY DEF WalkOK, Lowered, Walked, OfKind
<1>4. cur # None => DOMAIN b2.op[cur].args = DOMAIN b.op[cur].args
  BY <1>3 DEF Keeps
<1> QED
  BY <1>2, <1>4 DEF WalkOK

(* The copies of a call's operands stay, those of products that go apart. *)
LEMMA CallKept ==
  ASSUME NEW b, NEW memo, NEW b2, NEW memo2, NEW bound, Keeps(b, memo, b2, memo2, bound),
         NEW cur \in Live(b2), NEW sl, NEW operands, NEW kept, CallOK(b, memo, bound, cur, sl, operands, kept),
         cur \in Live(b), \A i \in kept : operands[i] \in Live(b2)
  PROVE  CallOK(b2, memo2, bound, cur, sl, operands, kept)
<1>1. operands \in Seq(Nat) /\ DOMAIN operands = DOMAIN b2.op[cur].args
  BY DEF CallOK, Keeps
<1>2. \A i \in kept : IsValue(b2, operands[i]) /\ Before(b2, operands[i], cur)
  <2> SUFFICES ASSUME NEW i \in kept PROVE IsValue(b2, operands[i]) /\ Before(b2, operands[i], cur)
    OBVIOUS
  <2>1. IsValue(b, operands[i]) /\ Before(b, operands[i], cur) /\ operands[i] \in Live(b)
    BY DEF CallOK, Before
  <2>2. IsValue(b2, operands[i])
    BY <2>1, HeldKept
  <2> QED
    BY <2>1, <2>2 DEF Keeps
<1>3. \A i \in kept : b2.op[operands[i]].kind = b.op[operands[i]].kind
  BY DEF CallOK, Keeps, Before
<1>4. \A i \in kept : Held(b, memo, bound, operands[i]) => Held(b2, memo2, bound, operands[i])
  BY HeldKept
<1> QED
  BY <1>1, <1>2, <1>3, <1>4 DEF CallOK

(* Operands of calls stay apart where no product is put for another value. *)
Tamer(b, args, b2, args2) ==
  /\ DOMAIN args2 = DOMAIN args
  /\ \A i \in DOMAIN args : /\ b2.op[args2[i]].kind = "mul" => b.op[args[i]].kind = "mul"
                            /\ b.op[args[i]].kind \in Leaves => b2.op[args2[i]].kind \in Leaves

(* Calls that have yet to be visited keep their operands apart. *)
LEMMA CallsKept ==
  ASSUME NEW b, NEW b2, NEW ph, NEW wk, CallsOK(b, ph, wk), wk \subseteq OfKind(b, "call") \/ ph \in {"equalities", "containments"},
         OfKind(b2, "call") \subseteq OfKind(b, "call"),
         \A id \in OfKind(b, "call") : Tamer(b, b.op[id].args, b2, b2.op[id].args)
  PROVE  CallsOK(b2, ph, wk)
<1>1. \A id \in OfKind(b, "call") : Apart(b, b.op[id].args) => Apart(b2, b2.op[id].args)
  BY DEF Apart, Tamer
<1> QED
  BY <1>1 DEF CallsOK, Unvisited

(* The reads of auxiliary members and their equations. *)
LEMMA ReadsKept ==
  ASSUME NEW b, NEW memo, NEW b2, NEW memo2, NEW bound, Keeps(b, memo, b2, memo2, bound),
         \A e \in Live(b) : AuxEquation(b, e) => b2.op[e].args[1] = b.op[e].args[1],
         NEW a, AuxRead(b, memo, bound, a)
  PROVE  AuxRead(b2, memo2, bound, a)
<1>1. \A e \in Live(b) : AuxEquation(b, e) => AuxEquation(b2, e)
  BY DEF AuxEquation, Keeps
<1>2. a.aux \in Live(b) /\ a.aux \in OfKind(b2, "aux")
  BY DEF AuxRead, OfKind, Keeps
<1>3. Held(b2, memo2, bound, a.computed) /\ a.computed \in Live(b) /\ a.computed \in Live(b2)
  BY HeldKept DEF AuxRead
<1>4. Before(b2, a.computed, a.aux)
  BY <1>2, <1>3 DEF AuxRead, Keeps, OfKind
<1> QED
  BY <1>1, <1>2, <1>3, <1>4 DEF AuxRead, AuxEquation

(* Nothing comes between an auxiliary read and its equation, and its value  *)
(* is not replaced by the read.                                             *)
LEMMA EquationKept ==
  ASSUME NEW b, IsBody(b), NEW memo, NEW b2, NEW memo2, NEW bound, Keeps(b, memo, b2, memo2, bound),
         NEW e \in Live(b), AuxEquation(b, e), EquationOK(b, e),
         b2.op[e].args[1] = b.op[e].args[1], b2.op[e].args[2] # b.op[e].args[1],
         \A z \in Live(b2) \ Live(b) : ~ (Before(b2, b.op[e].args[1], z) /\ Before(b2, z, e))
  PROVE  EquationOK(b2, e)
<1>1. b.op[e].args[1] \in Live(b) /\ b.op[b.op[e].args[1]].kind = "aux"
  <2>1. 1 \in DOMAIN b.op[e].args
    BY Arities DEF AuxEquation
  <2> QED
    BY <2>1, OperandFacts DEF EquationOK, Before
<1>2. b.op[e].args[1] \in Live(b2) /\ b2.op[b.op[e].args[1]].kind = "aux" /\ e \in Live(b2)
  BY <1>1 DEF Keeps, AuxEquation
<1>3. \A z \in Live(b) : z \in Live(b2) => ~ (Before(b2, b.op[e].args[1], z) /\ Before(b2, z, e))
  BY <1>1, <1>2 DEF EquationOK, Keeps
<1>4. \A z \in Live(b2) : ~ (Before(b2, b.op[e].args[1], z) /\ Before(b2, z, e))
  BY <1>3
<1> QED
  BY <1>2, <1>4 DEF EquationOK

-----------------------------------------------------------------------------
(* Replacing operands and inserting operations *)

(* Some uses of a value, at an operation or after it, are those of a new one. *)
Replaced(b, b1, old, new, before) ==
  /\ IsBlock(b1) /\ b1.block = b.block /\ DOMAIN b1.op = DOMAIN b.op
  /\ \A id \in Live(b) :
       /\ b1.op[id].kind = b.op[id].kind /\ b1.op[id].leaf = b.op[id].leaf
       /\ DOMAIN b1.op[id].args = DOMAIN b.op[id].args /\ Len(b1.op[id].args) = Len(b.op[id].args)
       /\ \A k \in DOMAIN b.op[id].args :
            \/ b1.op[id].args[k] = b.op[id].args[k]
            \/ b1.op[id].args[k] = new /\ b.op[id].args[k] = old /\ ~ Before(b, id, before)

(* Nothing is replaced. *)
LEMMA ReplacedNone ==
  ASSUME NEW b, IsBlock(b), NEW old, NEW new, NEW before
  PROVE  Replaced(b, b, old, new, before)
BY DEF Replaced

(* The uses from an operation on are replaced. *)
LEMMA ReplacedSubsequent ==
  ASSUME NEW b, IsBlock(b), NEW old, NEW new \in Nat, NEW before \in Live(b)
  PROVE  Replaced(b, ReplaceSubsequentUsesWith(b, old, new, before), old, new, before)
<1> DEFINE users == ToSet(SubSeq(b.block, Index(b, before), Len(b.block)))
           c == ReplaceIn(b, old, new, users)
<1>1. \A id \in Live(b) : id \in users => ~ Before(b, id, before)
  BY SubsequentUsers, BeforeIsAnOrder
<1>0. c = ReplaceSubsequentUsesWith(b, old, new, before)
  BY Zenon DEF ReplaceSubsequentUsesWith
<1> HIDE DEF users
<1>2. /\ IsBlock(c) /\ c.block = b.block /\ DOMAIN c.op = DOMAIN b.op
      /\ \A id \in DOMAIN b.op :
           /\ c.op[id].kind = b.op[id].kind /\ c.op[id].leaf = b.op[id].leaf
           /\ DOMAIN c.op[id].args = DOMAIN b.op[id].args /\ Len(c.op[id].args) = Len(b.op[id].args)
           /\ \A k \in DOMAIN b.op[id].args :
                c.op[id].args[k] = IF id \in users /\ b.op[id].args[k] = old THEN new
                                   ELSE b.op[id].args[k]
  BY ReplaceFacts
<1>3. Live(b) \subseteq DOMAIN b.op
  BY BlockFacts
<1> HIDE DEF c
<1>4. Replaced(b, c, old, new, before)
  BY <1>1, <1>2, <1>3 DEF Replaced
<1> QED
  BY <1>0, <1>4

(* All uses are replaced. *)
LEMMA ReplacedAll ==
  ASSUME NEW b, IsBlock(b), NEW old, NEW new \in Nat, NEW before,
         \A id \in Live(b) : old \in ToSet(b.op[id].args) => ~ Before(b, id, before)
  PROVE  /\ Replaced(b, ReplaceAllUses(b, old, new), old, new, before)
         /\ \A id \in Live(b) : \A k \in DOMAIN b.op[id].args :
              ReplaceAllUses(b, old, new).op[id].args[k] = IF b.op[id].args[k] = old THEN new ELSE b.op[id].args[k]
<1> DEFINE c == ReplaceAllUses(b, old, new)
<1>2. /\ IsBlock(c) /\ c.block = b.block /\ DOMAIN c.op = DOMAIN b.op
      /\ \A id \in DOMAIN b.op :
           /\ c.op[id].kind = b.op[id].kind /\ c.op[id].leaf = b.op[id].leaf
           /\ DOMAIN c.op[id].args = DOMAIN b.op[id].args /\ Len(c.op[id].args) = Len(b.op[id].args)
           /\ \A k \in DOMAIN b.op[id].args :
                c.op[id].args[k] = IF id \in Live(b) /\ b.op[id].args[k] = old THEN new
                                   ELSE b.op[id].args[k]
  BY ReplaceFacts DEF ReplaceAllUses
<1>3. Live(b) \subseteq DOMAIN b.op
  BY BlockFacts
<1> HIDE DEF c
<1>4. \A id \in Live(b) : \A k \in DOMAIN b.op[id].args :
        c.op[id].args[k] = IF b.op[id].args[k] = old THEN new ELSE b.op[id].args[k]
  BY <1>2, <1>3
<1>5. \A id \in Live(b) : \A k \in DOMAIN b.op[id].args : b.op[id].args[k] = old => ~ Before(b, id, before)
  BY DEF ToSet
<1>6. Replaced(b, c, old, new, before)
  BY <1>2, <1>3, <1>4, <1>5 DEF Replaced
<1> QED
  BY <1>4, <1>6 DEF c

(* What a block is after new operations were inserted, one of them a value *)
(* put for another one.                                                    *)
Inserted(b, c, ids, operations, old, new, before) ==
  /\ IsBody(c) /\ Live(c) = Live(b) \cup ids /\ DOMAIN b.op \subseteq DOMAIN c.op
  /\ ids \cap Live(b) = {} /\ ids \subseteq DOMAIN c.op
  /\ \A id \in ids : c.op[id] = operations[id]
  /\ \A id \in Live(b) :
       /\ c.op[id].kind = b.op[id].kind /\ c.op[id].leaf = b.op[id].leaf
       /\ DOMAIN c.op[id].args = DOMAIN b.op[id].args
       /\ \A k \in DOMAIN b.op[id].args :
            \/ c.op[id].args[k] = b.op[id].args[k]
            \/ c.op[id].args[k] = new /\ b.op[id].args[k] = old /\ ~ Before(b, id, before)
  /\ \A x, y \in Live(b) : Before(c, x, y) <=> Before(b, x, y)
  /\ \A x \in Live(b), z \in ids : /\ Before(c, x, z) <=> Before(b, x, before)
                                   /\ Before(c, z, x) <=> ~ Before(b, x, before)

(* The operands of the new operations come before the place where they are  *)
(* inserted, or from one another.                                          *)
Operable(b, ids, operations, before) ==
  \A id \in ToSet(ids) :
    /\ Len(operations[id].args) \in Arity(operations[id].kind)
    /\ \A k \in DOMAIN operations[id].args :
         LET v == operations[id].args[k]
         IN  \/ /\ Before(b, v, before)
                /\ b.op[v].kind \in OperandKinds(operations[id].kind)
             \/ \E i, j \in 1..Len(ids) :
                  /\ ids[i] = v /\ ids[j] = id /\ i < j
                  /\ operations[v].kind \in OperandKinds(operations[id].kind)

(* A block with some uses replaced and new operations inserted is a body    *)
(* again.                                                                   *)
LEMMA InsertStep ==
  ASSUME NEW b, IsBody(b), NEW old \in Live(b), b.op[old].kind \in Expressions, NEW before \in Live(b),
         NEW m \in Nat, NEW ids \in Seq(1..m), NEW operations, Insertable(b, m, ids, operations),
         NEW new \in ToSet(ids), operations[new].kind \in Expressions,
         NEW b1, Replaced(b, b1, old, new, before),
         Operable(b, ids, operations, before)
  PROVE  LET c == Insert(b1, ids, operations, before)
         IN  /\ Inserted(b, c, ToSet(ids), operations, old, new, before)
             /\ DOMAIN c.op = 1..m
             /\ \A id \in Live(b) : c.op[id] = b1.op[id]
             /\ \A j, k \in 1..Len(ids) : Before(c, ids[j], ids[k]) <=> j < k
<1> DEFINE c == Insert(b1, ids, operations, before)
           N == ToSet(ids)
<1>1. /\ IsBlock(b) /\ IsBlock(b1) /\ Live(b1) = Live(b) /\ DOMAIN b1.op = DOMAIN b.op
      /\ \A x, y : (Before(b1, x, y) <=> Before(b, x, y))
  BY SameBlock DEF Replaced, IsBody
<1>2. Insertable(b1, m, ids, operations)
  BY <1>1 DEF Insertable
<1>3. /\ IsBlock(c) /\ Live(c) = Live(b) \cup N /\ DOMAIN c.op = 1..m
      /\ \A id \in N : c.op[id] = operations[id]
      /\ \A id \in Live(b) : c.op[id] = b1.op[id]
      /\ \A x, y \in Live(b) : Before(c, x, y) <=> Before(b, x, y)
      /\ \A x \in Live(b), k \in 1..Len(ids) :
           /\ Before(c, x, ids[k]) <=> Before(b, x, before)
           /\ Before(c, ids[k], x) <=> ~ Before(b, x, before)
      /\ \A j, k \in 1..Len(ids) : Before(c, ids[j], ids[k]) <=> j < k
  <2>1. before \in Live(b1)
    BY <1>1
  <2>2. /\ IsBlock(c) /\ Live(c) = Live(b1) \cup N /\ DOMAIN c.op = 1..m
        /\ \A id \in N : c.op[id] = operations[id]
        /\ \A id \in Live(b1) : c.op[id] = b1.op[id]
        /\ \A x, y \in Live(b1) : Before(c, x, y) <=> Before(b1, x, y)
        /\ \A x \in Live(b1), k \in 1..Len(ids) :
             /\ Before(c, x, ids[k]) <=> Before(b1, x, before)
             /\ Before(c, ids[k], x) <=> ~ Before(b1, x, before)
        /\ \A j, k \in 1..Len(ids) : Before(c, ids[j], ids[k]) <=> j < k
    BY <1>1, <1>2, <2>1, InsertFacts, Zenon
  <2> HIDE DEF c, N
  <2> QED
    BY <2>2, <1>1
<1>4. /\ N \cup DOMAIN b.op = 1..m /\ N \cap Live(b) = {} /\ \A id \in N : operations[id] \in Operations
  BY DEF Insertable
<1>5. DOMAIN ids = 1..Len(ids) /\ \A id \in N : \E k \in 1..Len(ids) : ids[k] = id
  BY LenProperties DEF ToSet
<1> HIDE DEF c
<1>6. \A x \in Live(b), z \in N : /\ Before(c, x, z) <=> Before(b, x, before)
                                  /\ Before(c, z, x) <=> ~ Before(b, x, before)
  BY <1>3, <1>5
<1>7. \A id \in Live(b) :
       /\ c.op[id].kind = b.op[id].kind /\ c.op[id].leaf = b.op[id].leaf
       /\ DOMAIN c.op[id].args = DOMAIN b.op[id].args /\ Len(c.op[id].args) = Len(b.op[id].args)
       /\ \A k \in DOMAIN b.op[id].args :
            \/ c.op[id].args[k] = b.op[id].args[k]
            \/ c.op[id].args[k] = new /\ b.op[id].args[k] = old /\ ~ Before(b, id, before)
  BY <1>3 DEF Replaced
<1>8. ASSUME NEW id \in Live(b) PROVE IsOperation(c, id)
  <2> DEFINE args == b.op[id].args
  <2>1. /\ Len(args) \in Arity(b.op[id].kind)
        /\ \A k \in DOMAIN args : Before(b, args[k], id) /\ b.op[args[k]].kind \in OperandKinds(b.op[id].kind)
    BY OperandFacts
  <2>2. ASSUME NEW k \in DOMAIN args
        PROVE  Before(c, c.op[id].args[k], id) /\ c.op[c.op[id].args[k]].kind \in OperandKinds(b.op[id].kind)
    <3>1. CASE c.op[id].args[k] = args[k]
      <4> DEFINE a == args[k]
      <4>1. a \in Live(b) /\ Before(b, a, id) /\ b.op[a].kind \in OperandKinds(b.op[id].kind)
        BY <2>1 DEF Before
      <4>2. c.op[id].args[k] = a
        BY <3>1
      <4> HIDE DEF a
      <4>3. Before(c, a, id) /\ c.op[a].kind = b.op[a].kind
        BY <4>1, <1>3, <1>7
      <4> QED
        BY <4>1, <4>2, <4>3
    <3>2. CASE c.op[id].args[k] = new /\ args[k] = old /\ ~ Before(b, id, before)
      <4>1. Before(c, new, id)
        BY <3>2, <1>6
      <4>2. c.op[new].kind \in Expressions
        BY <1>3
      <4>3. "array" \notin Expressions
        BY DEF Expressions, Leaves, Sums, Products
      <4>4. b.op[old].kind \in OperandKinds(b.op[id].kind)
        BY <3>2, <2>1
      <4>5. OperandKinds(b.op[id].kind) = Expressions
        BY <4>3, <4>4 DEF OperandKinds
      <4> QED
        BY <3>2, <4>1, <4>2, <4>5
    <3> QED
      BY <3>1, <3>2, <1>7
  <2>3. DOMAIN c.op[id].args = DOMAIN args /\ Len(c.op[id].args) = Len(args) /\ c.op[id].kind = b.op[id].kind
    BY <1>7
  <2>4. \A k \in DOMAIN args : ProperlyDominates(c, c.op[id].args[k], id)
    BY <2>2, <1>3, BeforeIsAnOrder DEF Before, ProperlyDominates
  <2> QED
    BY <2>1, <2>2, <2>3, <2>4 DEF IsOperation
<1>9. ASSUME NEW id \in N PROVE IsOperation(c, id)
  <2> DEFINE args == operations[id].args
             kind == operations[id].kind
  <2>1. c.op[id].args = args /\ c.op[id].kind = kind /\ Len(args) \in Arity(kind)
    BY <1>3 DEF Operable
  <2>2. ASSUME NEW k \in DOMAIN args
        PROVE  Before(c, args[k], id) /\ c.op[args[k]].kind \in OperandKinds(kind)
    <3>1. CASE Before(b, args[k], before) /\ b.op[args[k]].kind \in OperandKinds(kind)
      <4>1. args[k] \in Live(b)
        BY <3>1 DEF Before
      <4> QED
        BY <3>1, <4>1, <1>6, <1>7
    <3>2. CASE \E i, j \in 1..Len(ids) : /\ ids[i] = args[k] /\ ids[j] = id /\ i < j
                                         /\ operations[args[k]].kind \in OperandKinds(kind)
      <4>1. PICK i, j \in 1..Len(ids) : /\ ids[i] = args[k] /\ ids[j] = id /\ i < j
                                        /\ operations[args[k]].kind \in OperandKinds(kind)
        BY <3>2
      <4>2. Before(c, args[k], id)
        BY <4>1, <1>3
      <4>3. args[k] \in N
        BY <4>1, <1>5 DEF ToSet
      <4> QED
        BY <4>1, <4>2, <4>3, <1>3
    <3> QED
      BY <3>1, <3>2 DEF Operable
  <2>4. \A k \in DOMAIN args : ProperlyDominates(c, args[k], id)
    BY <2>2, <1>3, BeforeIsAnOrder DEF Before, ProperlyDominates
  <2> QED
    BY <2>1, <2>2, <2>4 DEF IsOperation
<1>10. IsBody(c)
  BY <1>3, <1>8, <1>9 DEF IsBody
<1>11. Inserted(b, c, N, operations, old, new, before)
  BY <1>3, <1>4, <1>6, <1>7, <1>10 DEF Inserted
<1> QED
  BY <1>3, <1>11 DEF c

(* A function with one more value. *)
LEMMA PutFacts ==
  ASSUME NEW f, NEW x, NEW y
  PROVE  /\ DOMAIN Put(f, x, y) = DOMAIN f \cup {x} /\ Put(f, x, y)[x] = y
         /\ \A z \in DOMAIN f : z # x => Put(f, x, y)[z] = f[z]
BY DEF Put

(* An insertion keeps what was there. *)
LEMMA InsertedKeeps ==
  ASSUME NEW b, IsBody(b), NEW c, NEW ids, NEW operations, NEW old, NEW new, NEW before,
         Inserted(b, c, ids, operations, old, new, before), NEW memo, NEW memo2, NEW bound,
         \A v \in Live(b) : v \in DOMAIN memo => v \in DOMAIN memo2 /\ memo2[v] = memo[v],
         \A v \in ids : v \in DOMAIN b.op => Held(c, memo2, bound, v)
  PROVE  Keeps(b, memo, c, memo2, bound)
<1>1. IsBlock(b) /\ IsBlock(c) /\ DOMAIN b.op \subseteq DOMAIN c.op /\ Live(c) = Live(b) \cup ids
  BY DEF Inserted, IsBody
<1>2. \A v \in Live(b) : /\ v \in Live(c) /\ c.op[v].kind = b.op[v].kind /\ c.op[v].leaf = b.op[v].leaf
                         /\ DOMAIN c.op[v].args = DOMAIN b.op[v].args
  BY DEF Inserted
<1>3. \A x, y \in Live(b) : Before(c, x, y) <=> Before(b, x, y)
  BY DEF Inserted
<1> QED
  BY <1>1, <1>2, <1>3 DEF Keeps

(* The memo stays one when the new value's degree is added. *)
LEMMA InsertedMemo ==
  ASSUME NEW b, IsBody(b), NEW c, NEW ids, NEW operations, NEW old, NEW new \in ids, NEW before,
         Inserted(b, c, ids, operations, old, new, before), NEW memo, MemoOK(b, memo), NEW d \in Nat,
         operations[new].kind = "aux" => d = 1,
         \A v \in ids : v # new => v \notin DOMAIN b.op
  PROVE  MemoOK(c, Put(memo, new, d))
<1> DEFINE memo2 == Put(memo, new, d)
<1>1. /\ DOMAIN memo2 = DOMAIN memo \cup {new} /\ memo2[new] = d
      /\ \A z \in DOMAIN memo : z # new => memo2[z] = memo[z]
  BY DEF Put
<1> HIDE DEF memo2
<1>2. \A v \in DOMAIN memo : v \in DOMAIN b.op
  BY DEF MemoOK
<1>3. new \in DOMAIN c.op /\ c.op[new] = operations[new]
  BY DEF Inserted
<1>4. ASSUME NEW v \in DOMAIN memo, v # new
      PROVE  v \in DOMAIN c.op /\ (IsValue(c, v) => IsValue(b, v) /\ c.op[v].kind = b.op[v].kind)
  BY <1>2, <1>4 DEF Inserted, IsValue
<1>5. \A v \in DOMAIN memo2 : v # new => v \in DOMAIN memo /\ memo2[v] = memo[v]
  BY <1>1
<1>6. MemoOK(c, memo2)
  BY <1>1, <1>3, <1>4, <1>5 DEF MemoOK
<1> QED
  BY <1>6 DEF memo2

(* Operands of calls stay apart when a value that is held is put for        *)
(* another.                                                                 *)
LEMMA InsertedCalls ==
  ASSUME NEW b, IsBody(b), NEW c, NEW ids, NEW operations, NEW old, NEW new \in ids, NEW before,
         Inserted(b, c, ids, operations, old, new, before),
         operations[new].kind = "mul" => b.op[old].kind = "mul",
         b.op[old].kind \in Leaves => operations[new].kind \in Leaves,
         \A v \in ids : operations[v].kind # "call"
  PROVE  /\ OfKind(c, "call") \subseteq OfKind(b, "call")
         /\ \A id \in OfKind(b, "call") : Tamer(b, b.op[id].args, c, c.op[id].args)
<1>1. OfKind(c, "call") \subseteq OfKind(b, "call")
  BY DEF Inserted, OfKind
<1>2. c.op[new].kind = operations[new].kind
  BY DEF Inserted
<1> SUFFICES ASSUME NEW id \in OfKind(b, "call") PROVE Tamer(b, b.op[id].args, c, c.op[id].args)
  BY <1>1
<1> DEFINE args == b.op[id].args
           args2 == c.op[id].args
<1>3. id \in Live(b)
  BY DEF OfKind
<1>4. DOMAIN args2 = DOMAIN args
  BY <1>3 DEF Inserted
<1>5. ASSUME NEW k \in DOMAIN args
      PROVE  /\ c.op[args2[k]].kind = "mul" => b.op[args[k]].kind = "mul"
             /\ b.op[args[k]].kind \in Leaves => c.op[args2[k]].kind \in Leaves
  <2> DEFINE x == args[k]
             y == args2[k]
  <2>1. x \in Live(b)
    BY <1>3, OperandFacts DEF Before
  <2>2. c.op[x].kind = b.op[x].kind
    BY <2>1 DEF Inserted
  <2>3. y = x \/ (y = new /\ x = old)
    BY <1>3 DEF Inserted
  <2> HIDE DEF x, y
  <2>4. /\ c.op[y].kind = "mul" => b.op[x].kind = "mul"
        /\ b.op[x].kind \in Leaves => c.op[y].kind \in Leaves
    BY <1>2, <2>2, <2>3
  <2> QED
    BY <2>4 DEF x, y
<1> HIDE DEF args, args2
<1>6. Tamer(b, args, c, args2)
  BY <1>4, <1>5 DEF Tamer
<1> QED
  BY <1>6 DEF args, args2

(* The equations of auxiliary members stay right when an operation is       *)
(* inserted elsewhere.                                                      *)
LEMMA InsertedEquations ==
  ASSUME NEW b, IsBody(b), NEW c, NEW ids, NEW operations, NEW old, NEW new \in ids, NEW before \in Live(b),
         Inserted(b, c, ids, operations, old, new, before), NEW memo, NEW memo2, NEW bound,
         Keeps(b, memo, c, memo2, bound), EquationsOK(b), b.op[old].kind # "aux", ~ AuxEquation(b, before)
  PROVE  \A e \in Live(b) : AuxEquation(b, e) => EquationOK(c, e) /\ c.op[e].args[1] = b.op[e].args[1]
<1> SUFFICES ASSUME NEW e \in Live(b), AuxEquation(b, e)
             PROVE  EquationOK(c, e) /\ c.op[e].args[1] = b.op[e].args[1]
  OBVIOUS
<1> DEFINE a == b.op[e].args[1]
           v == b.op[e].args[2]
<1>0. 1 \in DOMAIN b.op[e].args /\ 2 \in DOMAIN b.op[e].args
  BY Arities DEF AuxEquation
<1>1. EquationOK(b, e) /\ b.op[a].kind = "aux" /\ v # a
  BY DEF EquationsOK, EquationOK
<1>2. c.op[e].args[1] = a
  BY <1>0, <1>1 DEF Inserted
<1>3. a \in Live(b) /\ new \notin Live(b) /\ IsBlock(b) /\ Before(b, a, e)
  BY <1>0, OperandFacts DEF Inserted, Before, IsBody
<1>4. c.op[e].args[2] # a
  BY <1>0, <1>1, <1>3 DEF Inserted
<1>5. ASSUME NEW z \in Live(c) \ Live(b), Before(c, a, z), Before(c, z, e) PROVE FALSE
  <2>1. z \in ids
    BY DEF Inserted
  <2>2. Before(b, a, before) /\ ~ Before(b, e, before)
    BY <2>1, <1>3, <1>5 DEF Inserted
  <2>3. ~ Before(b, before, e)
    BY <1>1, <2>2 DEF EquationOK
  <2>4. before = e
    BY <1>3, <2>2, <2>3, BeforeIsAnOrder
  <2> QED
    BY <2>4
<1> HIDE DEF v
<1>6. EquationOK(c, e)
  BY <1>1, <1>2, <1>4, <1>5, EquationKept
<1> QED
  BY <1>2, <1>6

(* The read of an auxiliary member and its equation. *)
AuxOperations(value, aux, eq, n) ==
  [id \in {aux, eq} |-> IF id = aux THEN Operation("aux", <<>>, n) ELSE Operation("eq", <<aux, value>>, 0)]

(* Two addresses that are not those of operations in the block. *)
LEMMA AuxAddresses ==
  ASSUME NEW b, IsBody(b), NEW aux \in Allocatable(b), NEW n \in Nat, NEW value \in Nat
  PROVE  LET eq == Larger(Fresh(b), aux + 1)
         IN  /\ aux \in Nat /\ eq \in Nat /\ aux < eq /\ aux \notin Live(b) /\ eq \notin DOMAIN b.op
             /\ <<aux, eq>> \in Seq(1..eq)
             /\ Insertable(b, eq, <<aux, eq>>, AuxOperations(value, aux, eq, n))
<1> DEFINE l == Len(b.op)
           eq == Larger(Fresh(b), aux + 1)
           operations == AuxOperations(value, aux, eq, n)
<1>1. l \in Nat /\ DOMAIN b.op = 1..l /\ Live(b) \subseteq DOMAIN b.op
  BY BlockFacts DEF IsBody
<1>2. aux \notin Live(b) /\ aux \in 1..(l + 1)
  BY <1>1 DEF Allocatable
<1>3. eq \in Nat /\ aux < eq /\ eq \notin 1..l /\ eq >= 1 /\ 1..eq = {aux, eq} \cup 1..l
  BY <1>1, <1>2 DEF Larger, Fresh
<1> HIDE DEF l, eq
<1>4. aux \in Nat /\ aux \in 1..eq /\ eq \in 1..eq
  BY <1>1, <1>2, <1>3
<1>5. /\ <<aux, eq>> \in Seq(1..eq) /\ Len(<<aux, eq>>) = 2 /\ <<aux, eq>>[1] = aux /\ <<aux, eq>>[2] = eq
      /\ ToSet(<<aux, eq>>) = {aux, eq}
  BY <1>4 DEF ToSet
<1>6. DOMAIN operations = {aux, eq} /\ \A id \in {aux, eq} : operations[id] \in Operations
  BY <1>4 DEF AuxOperations, Operation, Operations, Expressions, Leaves, Users
<1>7. \A j, k \in 1..2 : <<aux, eq>>[j] = <<aux, eq>>[k] => j = k
  <2>1. \A j \in 1..2 : j = 1 \/ j = 2
    OBVIOUS
  <2> QED
    BY <2>1, <1>3, <1>4
<1>8. eq \notin Live(b)
  BY <1>1, <1>3
<1> HIDE DEF operations
<1>9. Insertable(b, eq, <<aux, eq>>, operations)
  <2>1. DOMAIN operations = ToSet(<<aux, eq>>) /\ \A id \in ToSet(<<aux, eq>>) : operations[id] \in Operations
    BY <1>5, <1>6
  <2>2. ToSet(<<aux, eq>>) \cup DOMAIN b.op = 1..eq /\ ToSet(<<aux, eq>>) \cap Live(b) = {}
    BY <1>1, <1>2, <1>3, <1>5, <1>8
  <2>3. \A j, k \in 1..Len(<<aux, eq>>) : <<aux, eq>>[j] = <<aux, eq>>[k] => j = k
    BY <1>5, <1>7
  <2> QED
    BY <2>1, <2>2, <2>3 DEF Insertable
<1> QED
  BY <1>1, <1>2, <1>3, <1>4, <1>5, <1>9 DEF eq, operations

(* An auxiliary read and its equation are inserted: the body stays one. *)
LEMMA AuxInserted ==
  ASSUME IsBody(body), NEW n \in Nat, n = Len(auxAssignments) + 1,
         NEW value, IsValue(body, value), NEW before \in Live(body), Before(body, value, before),
         NEW aux \in Allocatable(body), NEW b1, Replaced(body, b1, value, aux, before)
  PROVE  LET c == InsertAux(b1, value, aux, before)
             eq == Larger(Fresh(body), aux + 1)
         IN  /\ Inserted(body, c, {aux, eq}, AuxOperations(value, aux, eq, n), value, aux, before)
             /\ Before(c, aux, eq)
<1> DEFINE eq == Larger(Fresh(body), aux + 1)
           operations == AuxOperations(value, aux, eq, n)
           ids == <<aux, eq>>
           c == InsertAux(b1, value, aux, before)
<1>0. value \in Nat
  BY BlockFacts DEF IsValue, IsBody
<1>1. /\ aux \in Nat /\ eq \in Nat /\ aux < eq /\ aux \notin Live(body) /\ eq \notin DOMAIN body.op
      /\ ids \in Seq(1..eq) /\ Insertable(body, eq, ids, operations)
  BY <1>0, AuxAddresses, Zenon
<1>2. c = Insert(b1, ids, operations, before)
  BY Zenon DEF InsertAux, AuxOperations
<1> HIDE DEF c, eq
<1>3. ToSet(ids) = {aux, eq} /\ Len(ids) = 2 /\ ids[1] = aux /\ ids[2] = eq
  BY DEF ToSet
<1>4. /\ operations[aux] = Operation("aux", <<>>, n)
      /\ operations[eq] = Operation("eq", <<aux, value>>, 0)
  BY <1>1 DEF AuxOperations
<1> HIDE DEF operations
<1>5. /\ operations[aux].kind = "aux" /\ operations[aux].args = <<>>
      /\ operations[eq].kind = "eq" /\ operations[eq].args = <<aux, value>>
  BY <1>4 DEF Operation
<1>6. ASSUME NEW id \in {aux, eq}
      PROVE  /\ Len(operations[id].args) \in Arity(operations[id].kind)
             /\ \A k \in DOMAIN operations[id].args :
                  LET v == operations[id].args[k]
                  IN  \/ /\ Before(body, v, before)
                         /\ body.op[v].kind \in OperandKinds(operations[id].kind)
                      \/ \E i, j \in 1..2 :
                           /\ ids[i] = v /\ ids[j] = id /\ i < j
                           /\ operations[v].kind \in OperandKinds(operations[id].kind)
  <2>1. CASE id = aux
    <3>1. Len(<<>>) \in Arity("aux") /\ DOMAIN <<>> = {}
      BY DEF Arity, Sums, Products, Leaves
    <3> QED
      BY <2>1, <3>1, <1>5
  <2>2. CASE id = eq
    <3>1. Len(<<aux, value>>) = 2 /\ DOMAIN <<aux, value>> = {1, 2} /\ <<aux, value>>[1] = aux /\ <<aux, value>>[2] = value
      OBVIOUS
    <3>2. 2 \in Arity("eq") /\ OperandKinds("eq") = Expressions /\ "aux" \in Expressions
      BY DEF Arity, OperandKinds, Expressions, Leaves
    <3>3. body.op[value].kind \in Expressions
      BY DEF IsValue
    <3>4. 1 \in 1..2 /\ 2 \in 1..2 /\ 1 < 2
      OBVIOUS
    <3>5. ids[1] = aux /\ ids[2] = eq
      BY <1>3
    <3> HIDE DEF ids
    <3>6. \E i, j \in 1..2 : ids[i] = aux /\ ids[j] = eq /\ i < j /\ operations[aux].kind \in Expressions
      BY <3>2, <3>4, <3>5, <1>5
    <3>7. operations[eq].args[1] = aux /\ operations[eq].args[2] = value /\ DOMAIN operations[eq].args = {1, 2}
          /\ Len(operations[eq].args) \in Arity(operations[eq].kind) /\ OperandKinds(operations[eq].kind) = Expressions
      BY <3>1, <3>2, <1>5
    <3> QED
      BY <2>2, <3>3, <3>6, <3>7
  <2> QED
    BY <2>1, <2>2
<1>7. /\ Inserted(body, Insert(b1, ids, operations, before), ToSet(ids), operations, value, aux, before)
      /\ \A j, k \in 1..Len(ids) : Before(Insert(b1, ids, operations, before), ids[j], ids[k]) <=> j < k
  <2>1. /\ value \in Live(body) /\ body.op[value].kind \in Expressions
        /\ aux \in ToSet(ids) /\ operations[aux].kind \in Expressions
    BY <1>3, <1>5 DEF IsValue, Expressions, Leaves
  <2>2. Operable(body, ids, operations, before)
    BY <1>3, <1>6 DEF Operable
  <2> HIDE DEF ids
  <2> QED
    BY <1>1, <2>1, <2>2, InsertStep
<1>8. Before(Insert(b1, ids, operations, before), aux, eq)
  <2>1. 1 \in 1..2 /\ 2 \in 1..2 /\ 1 < 2
    OBVIOUS
  <2> QED
    BY <2>1, <1>3, <1>7
<1> QED
  BY <1>2, <1>3, <1>7, <1>8 DEF c, eq, operations

(* What else is known of an auxiliary read that was inserted. *)
AuxStepped(c, memo2, value, aux, before) ==
  /\ IsBody(c) /\ Keeps(body, degreeMemo, c, memo2, maxDegree) /\ MemoOK(c, memo2)
  /\ aux \notin Live(body) /\ Held(c, memo2, maxDegree, aux) /\ c.op[aux].kind = "aux" /\ aux \in DOMAIN memo2
  /\ AuxOK(c, memo2, maxDegree, Append(auxAssignments, [computed |-> value, aux |-> aux]))
  /\ OfKind(c, "call") \subseteq OfKind(body, "call")
  /\ \A id \in OfKind(body, "call") : Tamer(body, body.op[id].args, c, c.op[id].args)
  /\ Live(body) \subseteq Live(c)
  /\ \A x \in Live(body) : /\ Before(c, x, aux) <=> Before(body, x, before)
                           /\ Before(c, aux, x) <=> ~ Before(body, x, before)

(* So do the memo, the operands of calls and the auxiliary members. *)
LEMMA AuxStep ==
  ASSUME IsBody(body), MemoOK(body, degreeMemo), AuxOK(body, degreeMemo, maxDegree, auxAssignments),
         NEW value, Held(body, degreeMemo, maxDegree, value), body.op[value].kind # "aux",
         NEW before \in Live(body), Before(body, value, before), ~ AuxEquation(body, before),
         NEW aux \in Allocatable(body), NEW b1, Replaced(body, b1, value, aux, before)
  PROVE  AuxStepped(InsertAux(b1, value, aux, before), Put(degreeMemo, aux, 1), value, aux, before)
<1> DEFINE n == Len(auxAssignments) + 1
           eq == Larger(Fresh(body), aux + 1)
           operations == AuxOperations(value, aux, eq, n)
           c == InsertAux(b1, value, aux, before)
           memo2 == Put(degreeMemo, aux, 1)
           ids == {aux, eq}
           A2 == Append(auxAssignments, [computed |-> value, aux |-> aux])
<1>1. IsValue(body, value) /\ value \in Nat /\ IsBlock(body) /\ n \in Nat
  BY BlockFacts, LenProperties DEF Held, IsValue, IsBody, AuxOK
<1>2. /\ aux \in Nat /\ eq \in Nat /\ aux < eq /\ aux \notin Live(body) /\ eq \notin DOMAIN body.op
  BY <1>1, AuxAddresses, Zenon
<1>3. /\ Inserted(body, c, ids, operations, value, aux, before)
      /\ Before(c, aux, eq)
  BY <1>1, AuxInserted
<1>4. aux # eq /\ aux \in ids /\ eq \in ids
  BY <1>2
<1>5. /\ operations[aux] = Operation("aux", <<>>, n)
      /\ operations[eq] = Operation("eq", <<aux, value>>, 0)
  BY <1>4 DEF AuxOperations
<1> HIDE DEF operations, eq, c, n, ids, memo2
<1>6. /\ operations[aux].kind = "aux" /\ operations[aux].leaf = n
      /\ operations[eq].kind = "eq" /\ operations[eq].args = <<aux, value>> /\ operations[eq].leaf = 0
  BY <1>5 DEF Operation
<1>7. c.op[aux] = operations[aux] /\ c.op[eq] = operations[eq] /\ aux \in Live(c) /\ eq \in Live(c)
  BY <1>3, <1>4 DEF Inserted
<1>8. /\ DOMAIN memo2 = DOMAIN degreeMemo \cup {aux} /\ memo2[aux] = 1
      /\ \A z \in DOMAIN degreeMemo : z # aux => memo2[z] = degreeMemo[z]
  BY DEF memo2, Put
<1>9. Held(c, memo2, maxDegree, aux)
  BY <1>6, <1>7 DEF Held, IsValue, Expressions, Leaves
<1>10. MemoOK(c, memo2)
  <2>1. \A v \in ids : v # aux => v \notin DOMAIN body.op
    BY <1>2 DEF ids
  <2> QED
    BY <2>1, <1>3, <1>4, InsertedMemo DEF memo2
<1>11. Keeps(body, degreeMemo, c, memo2, maxDegree)
  <2>1. \A v \in Live(body) : v \in DOMAIN degreeMemo => v \in DOMAIN memo2 /\ memo2[v] = degreeMemo[v]
    BY <1>2, <1>8
  <2>2. \A v \in ids : v \in DOMAIN body.op => Held(c, memo2, maxDegree, v)
    BY <1>2, <1>9 DEF ids
  <2> QED
    BY <2>1, <2>2, <1>3, InsertedKeeps
<1>12. \A v \in ids : operations[v].kind # "call"
  BY <1>6 DEF ids
<1>13. /\ OfKind(c, "call") \subseteq OfKind(body, "call")
       /\ \A id \in OfKind(body, "call") : Tamer(body, body.op[id].args, c, c.op[id].args)
  <2>1. operations[aux].kind # "mul" /\ operations[aux].kind \in Leaves
    BY <1>6 DEF Leaves
  <2> QED
    BY <2>1, <1>3, <1>4, <1>12, InsertedCalls
<1>14. \A e \in Live(body) : AuxEquation(body, e) => EquationOK(c, e) /\ c.op[e].args[1] = body.op[e].args[1]
  BY <1>3, <1>4, <1>11, InsertedEquations DEF AuxOK
<1>15. Live(c) = Live(body) \cup {aux, eq}
  BY <1>3 DEF Inserted, ids
<1>16. \A x \in Live(body) : /\ Before(c, x, aux) <=> Before(body, x, before)
                             /\ Before(c, aux, x) <=> ~ Before(body, x, before)
                             /\ Before(c, x, eq) <=> Before(body, x, before)
                             /\ Before(c, eq, x) <=> ~ Before(body, x, before)
  <2>1. \A x \in Live(body), z \in ids : /\ Before(c, x, z) <=> Before(body, x, before)
                                         /\ Before(c, z, x) <=> ~ Before(body, x, before)
    BY <1>3 DEF Inserted
  <2> QED
    BY <2>1, <1>4
<1>17. EquationOK(c, eq)
  <2>1. c.op[eq].args[1] = aux /\ c.op[eq].args[2] = value /\ value # aux
    BY <1>1, <1>2, <1>6, <1>7 DEF IsValue
  <2>2. \A z \in Live(c) : ~ (Before(c, aux, z) /\ Before(c, z, eq))
    <3>1. IsBlock(c)
      BY <1>3 DEF Inserted, IsBody
    <3>2. ~ Before(c, aux, aux) /\ ~ Before(c, eq, eq)
      BY <3>1, BeforeIsAnOrder
    <3> QED
      BY <3>2, <1>15, <1>16
  <2> QED
    BY <2>1, <2>2, <1>6, <1>7 DEF EquationOK
<1>18. EquationsOK(c)
  <2> SUFFICES ASSUME NEW e \in Live(c), AuxEquation(c, e) PROVE EquationOK(c, e)
    BY DEF EquationsOK
  <2>1. e # aux
    BY <1>6, <1>7 DEF AuxEquation
  <2>2. CASE e \in Live(body)
    <3>1. AuxEquation(body, e)
      BY <2>2, <1>3 DEF Inserted, AuxEquation
    <3> QED
      BY <3>1, <2>2, <1>14
  <2> QED
    BY <2>1, <2>2, <1>15, <1>17
<1>19. /\ A2 \in Seq(Assignments) /\ DOMAIN A2 = DOMAIN auxAssignments \cup {n} /\ A2[n] = [computed |-> value, aux |-> aux]
       /\ \A k \in DOMAIN auxAssignments : A2[k] = auxAssignments[k]
  <2>1. auxAssignments \in Seq(Assignments) /\ [computed |-> value, aux |-> aux] \in Assignments
    BY <1>1, <1>2 DEF AuxOK, Assignments
  <2> QED
    BY <2>1, AppendProperties, LenProperties DEF n
<1>20. AuxRead(c, memo2, maxDegree, [computed |-> value, aux |-> aux])
  <2>1. Held(c, memo2, maxDegree, value)
    BY <1>11, HeldKept
  <2>2. aux \in OfKind(c, "aux")
    BY <1>6, <1>7 DEF OfKind
  <2>3. Before(c, value, aux)
    BY <1>1, <1>16 DEF IsValue
  <2>4. AuxEquation(c, eq) /\ c.op[eq].args[1] = aux
    BY <1>6, <1>7 DEF AuxEquation
  <2> QED
    BY <2>1, <2>2, <2>3, <2>4, <1>7 DEF AuxRead
<1> HIDE DEF A2
<1>21. \A k \in DOMAIN A2 : AuxRead(c, memo2, maxDegree, A2[k])
  <2>1. \A k \in DOMAIN auxAssignments : AuxRead(c, memo2, maxDegree, auxAssignments[k])
    <3>1. \A e \in Live(body) : AuxEquation(body, e) => c.op[e].args[1] = body.op[e].args[1]
      BY <1>14
    <3> QED
      BY <3>1, <1>11, ReadsKept DEF AuxOK
  <2> QED
    BY <2>1, <1>19, <1>20
<1>22. AuxKnown(c, A2)
  <2> SUFFICES ASSUME NEW v \in OfKind(c, "aux") PROVE c.op[v].leaf \in DOMAIN A2 /\ A2[c.op[v].leaf].aux = v
    BY DEF AuxKnown
  <2>1. CASE v = aux
    BY <2>1, <1>6, <1>7, <1>19
  <2>2. CASE v \in Live(body)
    <3>1. v \in OfKind(body, "aux") /\ c.op[v].leaf = body.op[v].leaf
      BY <2>2, <1>3 DEF Inserted, OfKind
    <3>2. body.op[v].leaf \in DOMAIN auxAssignments /\ auxAssignments[body.op[v].leaf].aux = v
      BY <3>1 DEF AuxOK, AuxKnown
    <3> QED
      BY <3>1, <3>2, <1>19
  <2>3. v # eq
    BY <1>6, <1>7 DEF OfKind
  <2> QED
    BY <2>1, <2>2, <2>3, <1>15 DEF OfKind
<1>23. AuxOK(c, memo2, maxDegree, A2)
  BY <1>18, <1>19, <1>21, <1>22 DEF AuxOK
<1>24. IsBody(c)
  BY <1>3 DEF Inserted
<1>25. AuxStepped(c, memo2, value, aux, before)
  <2>1. Live(body) \subseteq Live(c) /\ c.op[aux].kind = "aux" /\ aux \in DOMAIN memo2
    BY <1>6, <1>7, <1>8, <1>15
  <2>2. \A x \in Live(body) : /\ Before(c, x, aux) <=> Before(body, x, before)
                              /\ Before(c, aux, x) <=> ~ Before(body, x, before)
    BY <1>16
  <2> QED
    BY <2>1, <2>2, <1>2, <1>9, <1>10, <1>11, <1>13, <1>23, <1>24 DEF AuxStepped, A2
<1> QED
  BY <1>25 DEF c, memo2

ProductOperations(lhs, rhs, mulVal) == [id \in {mulVal} |-> Operation("mul", <<lhs, rhs>>, 0)]

(* What the block is with a new product. *)
ProductAdded(b1, val, mulVal, lhs, rhs, before) ==
  LET c == Insert(b1, <<mulVal>>, ProductOperations(lhs, rhs, mulVal), before)
  IN  /\ mulVal \in Nat /\ mulVal \notin Live(body)
      /\ Inserted(body, c, {mulVal}, ProductOperations(lhs, rhs, mulVal), val, mulVal, before)
      /\ \A id \in Live(body) : c.op[id] = b1.op[id]

(* A new product is inserted, in place of another one or not: the body      *)
(* stays one.                                                               *)
LEMMA ProductInserted ==
  ASSUME IsBody(body), NEW val, IsValue(body, val), NEW before \in Live(body),
         NEW lhs, IsValue(body, lhs), Before(body, lhs, before),
         NEW rhs, IsValue(body, rhs), Before(body, rhs, before),
         NEW mulVal \in Allocatable(body), NEW b1, Replaced(body, b1, val, mulVal, before)
  PROVE  ProductAdded(b1, val, mulVal, lhs, rhs, before)
<1> DEFINE ids == <<mulVal>>
           operations == ProductOperations(lhs, rhs, mulVal)
           l == Len(body.op)
           m == Larger(l, mulVal)
<1>0. lhs \in Nat /\ rhs \in Nat /\ l \in Nat /\ DOMAIN body.op = 1..l /\ Live(body) \subseteq DOMAIN body.op
  BY BlockFacts DEF IsValue, IsBody
<1>1. mulVal \notin Live(body) /\ mulVal \in 1..(l + 1)
  BY <1>0 DEF Allocatable
<1>2. m \in Nat /\ mulVal \in 1..m /\ 1..m = {mulVal} \cup 1..l
  BY <1>0, <1>1 DEF Larger
<1> HIDE DEF l, m
<1>3. ids \in Seq(1..m) /\ ToSet(ids) = {mulVal} /\ Len(ids) = 1 /\ ids[1] = mulVal
  BY <1>2 DEF ToSet
<1>4. DOMAIN operations = {mulVal} /\ operations[mulVal] = Operation("mul", <<lhs, rhs>>, 0)
  BY DEF ProductOperations
<1> HIDE DEF operations, ids
<1>5. operations[mulVal].kind = "mul" /\ operations[mulVal].args = <<lhs, rhs>> /\ operations[mulVal] \in Operations
  BY <1>0, <1>4 DEF Operation, Operations, Expressions, Products
<1>6. Insertable(body, m, ids, operations)
  <2>1. \A j, k \in 1..1 : j = k
    OBVIOUS
  <2>2. ToSet(ids) \cup DOMAIN body.op = 1..m /\ ToSet(ids) \cap Live(body) = {}
    BY <1>0, <1>1, <1>2, <1>3
  <2>3. DOMAIN operations = ToSet(ids) /\ \A id \in ToSet(ids) : operations[id] \in Operations
    BY <1>3, <1>4, <1>5
  <2> QED
    BY <2>1, <2>2, <2>3, <1>3 DEF Insertable
<1>7. Operable(body, ids, operations, before)
  <2>1. Len(<<lhs, rhs>>) = 2 /\ DOMAIN <<lhs, rhs>> = {1, 2} /\ <<lhs, rhs>>[1] = lhs /\ <<lhs, rhs>>[2] = rhs
    OBVIOUS
  <2>2. 2 \in Arity("mul") /\ OperandKinds("mul") = Expressions
    BY DEF Arity, OperandKinds, Products
  <2>3. body.op[lhs].kind \in Expressions /\ body.op[rhs].kind \in Expressions
    BY DEF IsValue
  <2>4. /\ operations[mulVal].args[1] = lhs /\ operations[mulVal].args[2] = rhs /\ DOMAIN operations[mulVal].args = {1, 2}
        /\ Len(operations[mulVal].args) \in Arity(operations[mulVal].kind) /\ OperandKinds(operations[mulVal].kind) = Expressions
    BY <2>1, <2>2, <1>5
  <2> QED
    BY <2>3, <2>4, <1>3 DEF Operable
<1> DEFINE c == Insert(b1, ids, operations, before)
<1>8. /\ Inserted(body, c, ToSet(ids), operations, val, mulVal, before)
      /\ \A id \in Live(body) : c.op[id] = b1.op[id]
  <2> DEFINE Goal(b, b0, n, is, os, old, new, at) ==
               /\ IsBody(b) /\ old \in Live(b) /\ b.op[old].kind \in Expressions /\ at \in Live(b)
               /\ n \in Nat /\ is \in Seq(1..n) /\ Insertable(b, n, is, os)
               /\ new \in ToSet(is) /\ os[new].kind \in Expressions
               /\ Replaced(b, b0, old, new, at) /\ Operable(b, is, os, at)
               => /\ Inserted(b, Insert(b0, is, os, at), ToSet(is), os, old, new, at)
                  /\ \A id \in Live(b) : Insert(b0, is, os, at).op[id] = b0.op[id]
  <2>1. /\ val \in Live(body) /\ body.op[val].kind \in Expressions
        /\ mulVal \in ToSet(ids) /\ operations[mulVal].kind \in Expressions
    BY <1>3, <1>5 DEF IsValue, Expressions, Products
  <2>2. \A b, b0, n, is, os, old, new, at : Goal(b, b0, n, is, os, old, new, at)
    BY InsertStep
  <2> HIDE DEF Goal
  <2>3. Goal(body, b1, m, ids, operations, val, mulVal, before)
    BY <2>2
  <2> USE DEF Goal
  <2> QED
    BY <1>2, <1>3, <1>6, <1>7, <2>1, <2>3, Zenon
<1>9. mulVal \in Nat
  BY <1>2
<1>10. /\ Inserted(body, Insert(b1, ids, operations, before), {mulVal}, operations, val, mulVal, before)
       /\ \A id \in Live(body) : Insert(b1, ids, operations, before).op[id] = b1.op[id]
  BY <1>3, <1>8
<1> QED
  BY <1>1, <1>9, <1>10 DEF operations, ids, ProductAdded

(* The same operations, but for some that are gone. *)
Without(c1, c, gone) ==
  /\ IsBody(c) /\ c.op = c1.op /\ Live(c) = Live(c1) \ gone
  /\ \A x, y \in Live(c) : Before(c, x, y) <=> Before(c1, x, y)

(* No operation is gone. *)
LEMMA WithoutNone ==
  ASSUME NEW c, IsBody(c)
  PROVE  Without(c, c, {})
BY DEF Without

(* A product that nothing uses is gone. *)
LEMMA WithoutUnused ==
  ASSUME NEW c1, IsBody(c1), NEW val \in Live(c1),
         \A id \in Live(c1) : \A k \in DOMAIN c1.op[id].args : c1.op[id].args[k] # val
  PROVE  Without(c1, Erase(c1, val), {val})
<1> DEFINE c == Erase(c1, val)
<1>1. /\ IsBlock(c) /\ Live(c) = Live(c1) \ {val} /\ c.op = c1.op
      /\ \A x, y \in Live(c) : Before(c, x, y) <=> Before(c1, x, y)
  BY EraseFacts DEF IsBody
<1> HIDE DEF c
<1>2. ASSUME NEW id \in Live(c) PROVE IsOperation(c, id)
  <2> DEFINE args == c1.op[id].args
  <2>1. id \in Live(c1) /\ c.op[id].args = args /\ c.op[id].kind = c1.op[id].kind
    BY <1>1
  <2>2. Len(args) \in Arity(c1.op[id].kind)
    BY <2>1, OperandFacts
  <2>3. ASSUME NEW k \in DOMAIN args
        PROVE  ProperlyDominates(c, args[k], id) /\ c.op[args[k]].kind \in OperandKinds(c.op[id].kind)
    <3> DEFINE a == args[k]
    <3>1. Before(c1, a, id) /\ c1.op[a].kind \in OperandKinds(c1.op[id].kind) /\ a # val
      BY <2>1, OperandFacts
    <3> HIDE DEF a
    <3>2. a \in Live(c)
      BY <3>1, <1>1 DEF Before
    <3>3. Before(c, a, id) /\ c.op[a].kind \in OperandKinds(c.op[id].kind)
      BY <3>1, <3>2, <1>1
    <3>4. ProperlyDominates(c, a, id)
      BY <3>3, <1>1, BeforeIsAnOrder
    <3> QED
      BY <3>3, <3>4 DEF a
  <2> HIDE DEF args
  <2>4. \A k \in DOMAIN c.op[id].args :
          ProperlyDominates(c, c.op[id].args[k], id) /\ c.op[c.op[id].args[k]].kind \in OperandKinds(c.op[id].kind)
    BY <2>1, <2>3
  <2> QED
    BY <2>1, <2>2, <2>4 DEF IsOperation
<1>3. IsBody(c)
  BY <1>1, <1>2 DEF IsBody
<1> QED
  BY <1>1, <1>3 DEF Without, c

(* What is known once a product has taken the place of another, or is added. *)
ProductStepped(c, memo2, f, mulVal) ==
  /\ IsBody(c) /\ Keeps(body, degreeMemo, c, memo2, maxDegree) /\ MemoOK(c, memo2)
  /\ mulVal \notin Live(body) /\ Held(c, memo2, maxDegree, mulVal)
  /\ AuxOK(c, memo2, maxDegree, auxAssignments)
  /\ OfKind(c, "call") \subseteq OfKind(body, "call")
  /\ \A id \in OfKind(body, "call") : Tamer(body, body.op[id].args, c, c.op[id].args)
  /\ \A x \in Live(body) : x # f.val => x \in Live(c)
  /\ \A x \in Live(body) : x # f.val /\ ~ Before(body, x, f.before) => Before(c, mulVal, x)

(* What holds after the insertion, before anything is erased. *)
LEMMA ProductInsertedSteps ==
  ASSUME IsBody(body), MemoOK(body, degreeMemo), AuxOK(body, degreeMemo, maxDegree, auxAssignments),
         NEW f, FrameOK(body, degreeMemo, maxDegree, f), FactorOK(body, degreeMemo, maxDegree, f),
         f.at = "factor", NEW d \in Nat, d <= maxDegree, NEW mulVal, mulVal \in Nat, mulVal \notin Live(body),
         NEW operations, operations[mulVal].kind = "mul",
         NEW c1, Inserted(body, c1, {mulVal}, operations, f.val, mulVal, f.before),
         NEW gone, gone \subseteq {f.val}, NEW c, Without(c1, c, gone)
  PROVE  ProductStepped(c, Put(degreeMemo, mulVal, d), f, mulVal)
<1> DEFINE memo2 == Put(degreeMemo, mulVal, d)
<1>1. /\ IsValue(body, f.val) /\ f.val \in Live(body) /\ body.op[f.val].kind = "mul" /\ Tall(degreeMemo, maxDegree, f.val)
      /\ Before(body, f.val, f.before) /\ f.before \in Live(body) /\ ~ AuxEquation(body, f.before)
      /\ IsBlock(body)
  BY DEF FrameOK, FactorOK, Before, IsValue, IsBody
<1>2. /\ DOMAIN memo2 = DOMAIN degreeMemo \cup {mulVal} /\ memo2[mulVal] = d
      /\ \A z \in DOMAIN degreeMemo : z # mulVal => memo2[z] = degreeMemo[z]
  BY DEF Put
<1>m. memo2 = Put(degreeMemo, mulVal, d)
  OBVIOUS
<1> HIDE DEF memo2
<1>3. mulVal \in Live(c1) /\ c1.op[mulVal].kind = "mul" /\ Live(c1) = Live(body) \cup {mulVal}
  BY DEF Inserted
<1>4. Held(c1, memo2, maxDegree, mulVal)
  BY <1>2, <1>3 DEF Held, IsValue, Expressions, Products
<1>5. MemoOK(c1, memo2)
  <2>1. \A v \in {mulVal} : v # mulVal => v \notin DOMAIN body.op
    OBVIOUS
  <2>2. operations[mulVal].kind = "aux" => d = 1
    OBVIOUS
  <2>3. MemoOK(c1, Put(degreeMemo, mulVal, d))
    BY <2>1, <2>2, InsertedMemo
  <2> QED
    BY <2>3, <1>m
<1>6. Keeps(body, degreeMemo, c1, memo2, maxDegree)
  <2>1. \A v \in Live(body) : v \in DOMAIN degreeMemo => v \in DOMAIN memo2 /\ memo2[v] = degreeMemo[v]
    BY <1>2
  <2>2. \A v \in {mulVal} : v \in DOMAIN body.op => Held(c1, memo2, maxDegree, v)
    BY <1>4
  <2> QED
    BY <2>1, <2>2, InsertedKeeps
<1>7. /\ OfKind(c1, "call") \subseteq OfKind(body, "call")
      /\ \A id \in OfKind(body, "call") : Tamer(body, body.op[id].args, c1, c1.op[id].args)
  <2>1. \A v \in {mulVal} : operations[v].kind # "call"
    OBVIOUS
  <2>2. body.op[f.val].kind = "mul" /\ body.op[f.val].kind \notin Leaves /\ mulVal \in {mulVal}
    BY <1>1 DEF Leaves
  <2> QED
    BY <2>1, <2>2, InsertedCalls
<1>8. \A e \in Live(body) : AuxEquation(body, e) => EquationOK(c1, e) /\ c1.op[e].args[1] = body.op[e].args[1]
  <2>1. mulVal \in {mulVal} /\ body.op[f.val].kind # "aux" /\ EquationsOK(body)
    BY <1>1 DEF AuxOK
  <2> QED
    BY <2>1, <1>1, <1>6, InsertedEquations
<1>9. /\ IsBody(c) /\ c.op = c1.op /\ Live(c) = Live(c1) \ gone /\ IsBlock(c)
      /\ \A x, y \in Live(c) : Before(c, x, y) <=> Before(c1, x, y)
  BY DEF Without, IsBody
<1>10. Live(c) \subseteq Live(c1) /\ mulVal \in Live(c)
  BY <1>1, <1>3, <1>9
<1>11. Keeps(body, degreeMemo, c, memo2, maxDegree)
  <2>1. /\ IsBlock(body) /\ DOMAIN body.op \subseteq DOMAIN c1.op
        /\ \A v \in Live(body) : v \in Live(c1)
        /\ \A v \in Live(body) : v \in Live(c1) =>
             /\ c1.op[v].kind = body.op[v].kind /\ c1.op[v].leaf = body.op[v].leaf
             /\ DOMAIN c1.op[v].args = DOMAIN body.op[v].args
             /\ body.op[v].kind = "mul" /\ v \in DOMAIN degreeMemo => v \in DOMAIN memo2 /\ memo2[v] = degreeMemo[v]
        /\ \A x, y \in Live(body) : x \in Live(c1) /\ y \in Live(c1) => (Before(c1, x, y) <=> Before(body, x, y))
    BY <1>3, <1>6 DEF Keeps
  <2>2. \A v \in Live(body) : v \in Live(c) \/ (body.op[v].kind = "mul" /\ Tall(degreeMemo, maxDegree, v))
    BY <1>1, <1>3, <1>9
  <2>3. \A x, y \in Live(body) : x \in Live(c) /\ y \in Live(c) => (Before(c, x, y) <=> Before(body, x, y))
    BY <2>1, <1>9
  <2>4. Held(c, memo2, maxDegree, mulVal)
    BY <1>4, <1>9, <1>10 DEF Held, IsValue
  <2>5. \A v \in Live(c) \ Live(body) : v \in DOMAIN body.op => Held(c, memo2, maxDegree, v)
    BY <2>4, <1>3, <1>10
  <2>6. \A v \in Live(body) : v \in Live(c) =>
             /\ c.op[v].kind = body.op[v].kind /\ c.op[v].leaf = body.op[v].leaf
             /\ DOMAIN c.op[v].args = DOMAIN body.op[v].args
             /\ body.op[v].kind = "mul" /\ v \in DOMAIN degreeMemo => v \in DOMAIN memo2 /\ memo2[v] = degreeMemo[v]
    BY <2>1, <1>9
  <2> QED
    BY <2>1, <2>2, <2>3, <2>5, <2>6, <1>9, Zenon DEF Keeps
<1>12. MemoOK(c, memo2)
  BY <1>5, <1>9, <1>10 DEF MemoOK, IsValue
<1>13. Held(c, memo2, maxDegree, mulVal)
  BY <1>4, <1>9, <1>10 DEF Held, IsValue
<1>14. AuxOK(c, memo2, maxDegree, auxAssignments)
  <2>1. \A k \in DOMAIN auxAssignments : AuxRead(c, memo2, maxDegree, auxAssignments[k])
    <3>1. \A e \in Live(body) : AuxEquation(body, e) => c.op[e].args[1] = body.op[e].args[1]
      BY <1>8, <1>9
    <3> QED
      BY <3>1, <1>11, ReadsKept DEF AuxOK
  <2>2. \A v \in OfKind(c, "aux") : v \in OfKind(body, "aux") /\ c.op[v].leaf = body.op[v].leaf
    BY <1>3, <1>6, <1>9, <1>10 DEF OfKind, Keeps
  <2>3. AuxKnown(c, auxAssignments)
    BY <2>2 DEF AuxOK, AuxKnown
  <2>4. ASSUME NEW e \in Live(c), AuxEquation(c, e) PROVE EquationOK(c, e)
    <3>1. e # mulVal /\ e \in Live(c1)
      BY <2>4, <1>3, <1>9, <1>10 DEF AuxEquation
    <3>2. e \in Live(body)
      BY <3>1, <1>3
    <3>3. AuxEquation(body, e)
      BY <3>1, <3>2, <2>4, <1>6, <1>9 DEF Keeps, AuxEquation
    <3>4. EquationOK(c1, e)
      BY <3>2, <3>3, <1>8
    <3>5. c1.op[e].args[1] \in Live(c)
      <4>1. 1 \in DOMAIN c.op[e].args
        BY <2>4, <1>9, Arities DEF AuxEquation
      <4>2. Before(c, c.op[e].args[1], e)
        BY <4>1, <1>9, OperandFacts
      <4> QED
        BY <4>2, <1>9 DEF Before
    <3>6. \A z \in Live(c) : ~ (Before(c, c.op[e].args[1], z) /\ Before(c, z, e))
      BY <3>4, <3>5, <1>9, <1>10 DEF EquationOK
    <3> QED
      BY <3>4, <3>6, <1>9 DEF EquationOK
  <2> QED
    BY <2>1, <2>3, <2>4 DEF AuxOK, EquationsOK
<1>15. /\ OfKind(c, "call") \subseteq OfKind(body, "call")
       /\ \A id \in OfKind(body, "call") : Tamer(body, body.op[id].args, c, c.op[id].args)
  BY <1>7, <1>9, <1>10 DEF OfKind, Tamer
<1>16. \A x \in Live(body) : x # f.val => x \in Live(c)
  BY <1>3, <1>9
<1>17. \A x \in Live(body) : x # f.val /\ ~ Before(body, x, f.before) => Before(c, mulVal, x)
  <2>1. \A x \in Live(body) : ~ Before(body, x, f.before) => Before(c1, mulVal, x)
    BY DEF Inserted
  <2> QED
    BY <2>1, <1>9, <1>10, <1>16
<1>18. ProductStepped(c, memo2, f, mulVal)
  BY <1>9, <1>11, <1>12, <1>13, <1>14, <1>15, <1>16, <1>17 DEF ProductStepped
<1> QED
  BY <1>18 DEF memo2

(* The product that was replaced may be erased. *)
LEMMA ProductStep ==
  ASSUME IsBody(body), MemoOK(body, degreeMemo), AuxOK(body, degreeMemo, maxDegree, auxAssignments),
         NEW f, FrameOK(body, degreeMemo, maxDegree, f), FactorOK(body, degreeMemo, maxDegree, f),
         f.at = "factor", NEW d \in Nat, d <= maxDegree, NEW mulVal \in Allocatable(body)
  PROVE  LET mul == [id \in {mulVal} |-> Operation("mul", <<f.lhs, f.rhs>>, 0)]
             c == IF f.eraseMul
                  THEN Erase(Insert(ReplaceAllUses(body, f.val, mulVal), <<mulVal>>, mul, f.before), f.val)
                  ELSE Insert(body, <<mulVal>>, mul, f.before)
         IN  ProductStepped(c, Put(degreeMemo, mulVal, d), f, mulVal)
<1> DEFINE mul == ProductOperations(f.lhs, f.rhs, mulVal)
           b1 == ReplaceAllUses(body, f.val, mulVal)
           c1 == Insert(b1, <<mulVal>>, mul, f.before)
           c2 == Insert(body, <<mulVal>>, mul, f.before)
<1>1. /\ IsValue(body, f.val) /\ f.val \in Live(body) /\ body.op[f.val].kind = "mul" /\ Tall(degreeMemo, maxDegree, f.val)
      /\ Before(body, f.val, f.before) /\ f.before \in Live(body)
      /\ Held(body, degreeMemo, maxDegree, f.lhs) /\ IsValue(body, f.lhs) /\ Before(body, f.lhs, f.before)
      /\ Held(body, degreeMemo, maxDegree, f.rhs) /\ IsValue(body, f.rhs) /\ Before(body, f.rhs, f.before)
      /\ IsBlock(body)
  BY DEF FrameOK, FactorOK, Before, IsValue, IsBody, Held
<1>2. f.lhs # f.val /\ f.rhs # f.val
  BY <1>1 DEF Held, Tall
<1>3. \A id \in Live(body) : f.val \in ToSet(body.op[id].args) => ~ Before(body, id, f.before)
  BY DEF FactorOK
<1>4. mul[mulVal].kind = "mul" /\ mul[mulVal].args = <<f.lhs, f.rhs>>
  BY DEF ProductOperations, Operation
<1>5. Replaced(body, body, f.val, mulVal, f.before)
  BY <1>1, ReplacedNone
<1> HIDE DEF mul, b1, c1, c2
<1>6. /\ mulVal \in Nat /\ mulVal \notin Live(body)
      /\ Inserted(body, c2, {mulVal}, mul, f.val, mulVal, f.before)
  <2>1. ProductAdded(body, f.val, mulVal, f.lhs, f.rhs, f.before)
    BY <1>1, <1>5, ProductInserted
  <2> QED
    BY <2>1 DEF ProductAdded, c2, mul
<1>7. /\ Replaced(body, b1, f.val, mulVal, f.before)
      /\ \A id \in Live(body) : \A k \in DOMAIN body.op[id].args :
           b1.op[id].args[k] = IF body.op[id].args[k] = f.val THEN mulVal ELSE body.op[id].args[k]
  BY <1>1, <1>3, <1>6, ReplacedAll DEF b1
<1>8. /\ Inserted(body, c1, {mulVal}, mul, f.val, mulVal, f.before)
      /\ \A id \in Live(body) : c1.op[id] = b1.op[id]
  <2>1. Replaced(body, b1, f.val, mulVal, f.before)
    BY <1>7
  <2>2. ProductAdded(b1, f.val, mulVal, f.lhs, f.rhs, f.before)
    BY <1>1, <2>1, ProductInserted
  <2> QED
    BY <2>2 DEF ProductAdded, c1, mul
<1>9. ProductStepped(c2, Put(degreeMemo, mulVal, d), f, mulVal)
  <2>1. Without(c2, c2, {})
    BY <1>6, WithoutNone DEF Inserted
  <2>2. {} \subseteq {f.val}
    OBVIOUS
  <2> QED
    BY <1>4, <1>6, <2>1, <2>2, ProductInsertedSteps
<1>10. ProductStepped(Erase(c1, f.val), Put(degreeMemo, mulVal, d), f, mulVal)
  <2>1. ASSUME NEW id \in Live(c1), NEW k \in DOMAIN c1.op[id].args, c1.op[id].args[k] = f.val PROVE FALSE
    <3>1. f.val # mulVal
      BY <1>1, <1>6
    <3>2. CASE id \in Live(body)
      <4>1. DOMAIN c1.op[id].args = DOMAIN body.op[id].args
        BY <3>2, <1>8 DEF Inserted
      <4> QED
        BY <4>1, <3>1, <3>2, <2>1, <1>7, <1>8
    <3>3. CASE id = mulVal
      <4>1. c1.op[id].args = <<f.lhs, f.rhs>>
        BY <3>3, <1>4, <1>8 DEF Inserted
      <4> QED
        BY <4>1, <2>1, <1>2
    <3> QED
      BY <3>2, <3>3, <1>8 DEF Inserted
  <2>2. IsBody(c1) /\ f.val \in Live(c1)
    BY <1>1, <1>8 DEF Inserted
  <2>3. Without(c1, Erase(c1, f.val), {f.val})
    BY <2>1, <2>2, WithoutUnused
  <2>4. {f.val} \subseteq {f.val}
    OBVIOUS
  <2> QED
    BY <1>4, <1>6, <1>8, <2>3, <2>4, ProductInsertedSteps
<1> QED
  BY <1>9, <1>10 DEF c1, c2, b1, mul, ProductOperations

-----------------------------------------------------------------------------
(* Steps that change the operands of one operation, or degrees alone *)

(* The operands of id may differ, and nothing else. *)
Reargued(b, c, id) ==
  /\ IsBody(b) /\ IsBody(c) /\ Live(c) = Live(b) /\ DOMAIN c.op = DOMAIN b.op
  /\ \A x, y : Before(c, x, y) <=> Before(b, x, y)
  /\ \A x \in Live(b) : /\ c.op[x].kind = b.op[x].kind /\ c.op[x].leaf = b.op[x].leaf
                        /\ DOMAIN c.op[x].args = DOMAIN b.op[x].args
                        /\ x # id => c.op[x] = b.op[x]

(* No operand differs. *)
LEMMA RearguedNone ==
  ASSUME NEW b, IsBody(b)
  PROVE  Reargued(b, b, None) /\ ~ AuxEquation(b, None)
<1>1. IsBlock(b)
  BY DEF IsBody
<1>2. None \notin Live(b)
  BY <1>1, BlockFacts DEF None
<1> QED
  BY <1>2 DEF Reargued, AuxEquation

(* An operation gets operands that are held and come before it. *)
LEMMA RearguedSet ==
  ASSUME NEW b, IsBody(b), NEW id \in Live(b), NEW args \in Seq(Nat), DOMAIN args = DOMAIN b.op[id].args,
         \A k \in DOMAIN args : Before(b, args[k], id) /\ b.op[args[k]].kind \in OperandKinds(b.op[id].kind)
  PROVE  Reargued(b, SetArgs(b, id, args), id) /\ SetArgs(b, id, args).op[id].args = args
<1> DEFINE c == SetArgs(b, id, args)
<1>1. IsBlock(b) /\ id \in DOMAIN b.op /\ Live(b) \subseteq DOMAIN b.op
  BY BlockFacts DEF IsBody
<1>2. /\ IsBlock(c) /\ c.block = b.block /\ DOMAIN c.op = DOMAIN b.op
      /\ c.op[id].kind = b.op[id].kind /\ c.op[id].leaf = b.op[id].leaf /\ c.op[id].args = args
      /\ \A x \in DOMAIN b.op : x # id => c.op[x] = b.op[x]
  BY <1>1, SetArgsFacts
<1> HIDE DEF c
<1>3. Live(c) = Live(b) /\ \A x, y : (Before(c, x, y) <=> Before(b, x, y))
  BY <1>2, SameBlock
<1>4. \A x \in Live(b) : /\ c.op[x].kind = b.op[x].kind /\ c.op[x].leaf = b.op[x].leaf
                         /\ DOMAIN c.op[x].args = DOMAIN b.op[x].args
                         /\ x # id => c.op[x] = b.op[x]
  BY <1>1, <1>2
<1>5. \A x, y : y \in Live(b) => (ProperlyDominates(c, x, y) <=> Before(b, x, y)) /\ (ProperlyDominates(b, x, y) <=> Before(b, x, y))
  BY <1>1, <1>2, <1>3, BeforeIsAnOrder
<1>6. ASSUME NEW x \in Live(c) PROVE IsOperation(c, x)
  <2>1. CASE x = id
    <3>1. Len(args) = Len(b.op[id].args)
      BY BlockFacts, <1>1, LenProperties DEF Operations
    <3>2. Len(b.op[id].args) \in Arity(b.op[id].kind)
      BY DEF IsBody, IsOperation
    <3>3. \A k \in DOMAIN args : args[k] \in Live(b)
      BY DEF Before
    <3> QED
      BY <2>1, <3>1, <3>2, <3>3, <1>2, <1>4, <1>5 DEF IsOperation
  <2>2. CASE x # id
    <3>1. IsOperation(b, x) /\ c.op[x] = b.op[x] /\ x \in Live(b)
      BY <2>2, <1>3, <1>4 DEF IsBody
    <3>2. \A k \in DOMAIN b.op[x].args : b.op[x].args[k] \in Live(b)
      BY <3>1 DEF IsOperation, ProperlyDominates
    <3> QED
      BY <3>1, <3>2, <1>4, <1>5 DEF IsOperation
  <2> QED
    BY <2>1, <2>2
<1>7. IsBody(c)
  BY <1>2, <1>6 DEF IsBody
<1>8. Reargued(b, c, id)
  BY <1>2, <1>3, <1>4, <1>7 DEF Reargued
<1> QED
  BY <1>2, <1>8 DEF c

(* The degrees that are known stay known. *)
Extended(memo, memo2, but) ==
  \A v \in DOMAIN memo : v # but => v \in DOMAIN memo2 /\ memo2[v] = memo[v]

(* Changing operands of one operation keeps the rest of what is known. *)
LEMMA RearguedStep ==
  ASSUME NEW b, NEW c, NEW id, Reargued(b, c, id), ~ AuxEquation(b, id),
         NEW memo, NEW memo2, MemoOK(b, memo2), NEW but, Extended(memo, memo2, but),
         but \in Live(b) => b.op[but].kind # "mul", NEW bound, NEW aux, AuxOK(b, memo, bound, aux)
  PROVE  Keeps(b, memo, c, memo2, bound) /\ MemoOK(c, memo2) /\ AuxOK(c, memo2, bound, aux)
<1>1. Keeps(b, memo, c, memo2, bound)
  BY DEF Reargued, Keeps, IsBody, Extended
<1>2. MemoOK(c, memo2)
  BY DEF Reargued, MemoOK, IsValue
<1>3. \A e : AuxEquation(c, e) <=> AuxEquation(b, e)
  BY DEF Reargued, AuxEquation
<1>4. \A e \in Live(b) : AuxEquation(b, e) => c.op[e] = b.op[e]
  BY DEF Reargued
<1>5. \A k \in DOMAIN aux : AuxRead(c, memo2, bound, aux[k])
  BY <1>1, <1>4, ReadsKept DEF AuxOK
<1>6. AuxKnown(c, aux)
  BY DEF AuxOK, AuxKnown, Reargued, OfKind
<1>7. ASSUME NEW e \in Live(c), AuxEquation(c, e) PROVE EquationOK(c, e)
  <2>1. e \in Live(b) /\ AuxEquation(b, e) /\ c.op[e] = b.op[e] /\ IsBody(b)
    BY <1>3, <1>4, <1>7 DEF Reargued
  <2>2. EquationOK(b, e)
    BY <2>1 DEF AuxOK, EquationsOK
  <2>3. c.op[e].args[1] = b.op[e].args[1] /\ c.op[e].args[2] # b.op[e].args[1]
    BY <2>1, <2>2 DEF EquationOK
  <2>4. \A z \in Live(c) \ Live(b) : ~ (Before(c, b.op[e].args[1], z) /\ Before(c, z, e))
    BY DEF Reargued
  <2> QED
    BY <2>1, <2>2, <2>3, <2>4, <1>1, EquationKept
<1> QED
  BY <1>1, <1>2, <1>5, <1>6, <1>7 DEF AuxOK, EquationsOK

(* It keeps operands of calls apart. *)
LEMMA RearguedCalls ==
  ASSUME NEW b, NEW c, NEW id, Reargued(b, c, id), NEW ph, NEW wk, CallsOK(b, ph, wk),
         Unvisited(b, ph, wk) \subseteq OfKind(b, "call"), id \notin Unvisited(b, ph, wk)
  PROVE  CallsOK(c, ph, wk)
<1>1. Unvisited(c, ph, wk) = Unvisited(b, ph, wk)
  BY DEF Unvisited, OfKind, Reargued
<1>2. ASSUME NEW x \in Unvisited(b, ph, wk) PROVE Apart(c, c.op[x].args)
  <2>1. x \in Live(b) /\ b.op[x].kind = "call" /\ c.op[x] = b.op[x] /\ Apart(b, b.op[x].args) /\ IsBody(b)
    BY <1>2 DEF OfKind, Reargued, CallsOK
  <2>2. \A k \in DOMAIN b.op[x].args : c.op[b.op[x].args[k]].kind = b.op[b.op[x].args[k]].kind
    BY <2>1, OperandFacts DEF Reargued, Before
  <2> QED
    BY <2>1, <2>2 DEF Apart
<1> QED
  BY <1>1, <1>2 DEF CallsOK

(* Degrees that were looked up are in the memo and as they were. *)
LEMMA MemoisedFacts ==
  ASSUME IsBody(body), MemoOK(body, degreeMemo), NEW vs, \A v \in vs : IsValue(body, v)
  PROVE  /\ MemoOK(body, MemoisedAll(vs)) /\ Extended(degreeMemo, MemoisedAll(vs), None)
         /\ \A v \in vs : v \in DOMAIN MemoisedAll(vs) /\ MemoisedAll(vs)[v] = Degree[v] /\ Degree[v] \in Nat
         /\ \A v \in DOMAIN degreeMemo : v \in DOMAIN MemoisedAll(vs) /\ MemoisedAll(vs)[v] = degreeMemo[v]
<1> DEFINE new == UNION {Visited(v) : v \in vs}
           m == MemoisedAll(vs)
<1>1. \A v \in vs : v \in Visited(v) /\ \A u \in Visited(v) : IsValue(body, u)
  BY ReachedFacts DEF Visited, IsValue
<1>2. \A u \in new : IsValue(body, u)
  BY <1>1
<1>3. vs \subseteq new
  BY <1>1
<1>4. DOMAIN m = DOMAIN degreeMemo \cup new
  BY DEF MemoisedAll, Overlay
<1>5. \A v \in DOMAIN degreeMemo : m[v] = degreeMemo[v]
  BY DEF MemoisedAll, Overlay
<1>6. \A v \in new : v \notin DOMAIN degreeMemo => m[v] = Degree[v]
  BY DEF MemoisedAll, Overlay
<1>7. \A v : IsValue(body, v) => /\ Degree[v] \in Nat
                                 /\ v \in DOMAIN degreeMemo => Degree[v] = degreeMemo[v]
                                 /\ body.op[v].kind = "aux" => Degree[v] = 1
  BY Degrees DEF Degree
<1>8. \A v \in new : v \in DOMAIN body.op
  <2>1. Live(body) \subseteq DOMAIN body.op
    BY BlockFacts DEF IsBody
  <2> QED
    BY <2>1, <1>2 DEF IsValue
<1> HIDE DEF m, new
<1>9. MemoOK(body, m)
  <2> SUFFICES ASSUME NEW v \in DOMAIN m
               PROVE  /\ v \in DOMAIN body.op /\ (IsValue(body, v) => m[v] \in Nat)
                      /\ (IsValue(body, v) /\ body.op[v].kind = "aux" => m[v] = 1)
    BY DEF MemoOK
  <2>1. CASE v \in DOMAIN degreeMemo
    BY <2>1, <1>5 DEF MemoOK
  <2>2. CASE v \notin DOMAIN degreeMemo
    BY <2>2, <1>2, <1>4, <1>6, <1>7, <1>8
  <2> QED
    BY <2>1, <2>2
<1>10. \A v \in vs : v \in DOMAIN m /\ m[v] = Degree[v] /\ Degree[v] \in Nat
  BY <1>3, <1>4, <1>5, <1>6, <1>7
<1>11. \A v \in DOMAIN degreeMemo : v \in DOMAIN m /\ m[v] = degreeMemo[v]
  BY <1>4, <1>5
<1>12. Extended(degreeMemo, m, None)
  BY <1>11 DEF Extended
<1> QED
  BY <1>9, <1>10, <1>11, <1>12 DEF m

(* A cached replacement is a value that is not lowered any more. *)
LEMMA PutRewrite ==
  ASSUME NEW b, NEW memo, NEW bound, NEW rw, RewritesOK(b, memo, bound, rw),
         NEW x, NEW v, v \in DOMAIN b.op, v \in Live(b) => Held(b, memo, bound, v)
  PROVE  RewritesOK(b, memo, bound, Put(rw, x, v)) /\ RewritesOK(b, memo, bound, Overlay(rw, [z \in {x} |-> v]))
<1>1. RewritesOK(b, memo, bound, Put(rw, x, v))
  BY DEF RewritesOK, Put
<1>2. RewritesOK(b, memo, bound, Overlay(rw, [z \in {x} |-> v]))
  BY DEF RewritesOK, Overlay
<1> QED
  BY <1>1, <1>2

-----------------------------------------------------------------------------
(* Activations of lowerExpression *)

(* Callers wait for an operand. *)
Suspended(st) == \A i \in 1..Len(st) : st[i].at \in {"lhs", "rhs"}

(* What the outermost activation lowers. *)
Bottom(st) == st[Len(st)].val

(* A sequence with one more element in front. *)
LEMMA Pushed ==
  ASSUME NEW S, NEW f \in S, NEW T \in Seq(S)
  PROVE  /\ <<f>> \o T \in Seq(S) /\ <<f>> \o T # <<>> /\ Len(<<f>> \o T) = Len(T) + 1
         /\ (<<f>> \o T)[1] = f /\ \A i \in 1..Len(T) : (<<f>> \o T)[i + 1] = T[i]
         /\ Head(<<f>> \o T) = f /\ Tail(<<f>> \o T) = T
<1> DEFINE h == <<f>>
           s == h \o T
<1>1. h \in Seq(S) /\ Len(h) = 1 /\ h[1] = f /\ Len(T) \in Nat
  BY LenProperties
<1> HIDE DEF h
<1>2. /\ s \in Seq(S) /\ Len(s) = Len(h) + Len(T)
      /\ \A i \in 1..(Len(h) + Len(T)) : s[i] = IF i <= Len(h) THEN h[i] ELSE T[i - Len(h)]
  BY <1>1, ConcatProperties, Zenon
<1> HIDE DEF s
<1>3. Len(s) = Len(T) + 1 /\ s[1] = f /\ \A i \in 1..Len(T) : s[i + 1] = T[i]
  <2>1. \A i \in 1..(Len(T) + 1) : s[i] = IF i <= 1 THEN h[i] ELSE T[i - 1]
    BY <1>1, <1>2
  <2> QED
    BY <2>1, <1>1, <1>2
<1>4. s # <<>>
  BY <1>1, <1>3
<1>5. Head(s) = f
  BY <1>2, <1>3, <1>4, HeadTailProperties
<1>6. Tail(s) \in Seq(S) /\ Len(Tail(s)) = Len(s) - 1 /\ \A i \in 1..Len(Tail(s)) : Tail(s)[i] = s[i + 1]
  BY <1>2, <1>4, HeadTailProperties
<1>7. Tail(s) = T
  <2>1. Len(Tail(s)) = Len(T) /\ \A i \in 1..Len(T) : Tail(s)[i] = T[i]
    BY <1>1, <1>3, <1>6
  <2> QED
    BY <2>1, <1>6, SeqEqual
<1> QED
  BY <1>2, <1>3, <1>4, <1>5, <1>7 DEF s, h

(* A sequence without its first element. *)
LEMMA Popped ==
  ASSUME NEW S, NEW st \in Seq(S), st # <<>>
  PROVE  /\ Head(st) \in S /\ Tail(st) \in Seq(S) /\ Len(st) \in Nat /\ Len(Tail(st)) = Len(st) - 1 /\ Len(st) > 0
         /\ Head(st) = st[1] /\ \A i \in 1..(Len(st) - 1) : Tail(st)[i] = st[i + 1]
         /\ Tail(st) = <<>> => Len(st) = 1
         /\ Tail(st) # <<>> => Len(st) > 1 /\ Head(Tail(st)) = st[2]
<1>1. /\ Head(st) \in S /\ Tail(st) \in Seq(S) /\ Len(Tail(st)) = Len(st) - 1 /\ Head(st) = st[1]
      /\ \A i \in 1..Len(Tail(st)) : Tail(st)[i] = st[i + 1]
  BY HeadTailProperties
<1>2. Len(st) \in Nat /\ Len(st) > 0
  BY EmptySeq, LenProperties
<1>3. Tail(st) = <<>> => Len(st) = 1
  BY <1>1, <1>2
<1>4. Tail(st) # <<>> => Len(Tail(st)) > 0 /\ Head(Tail(st)) = Tail(st)[1]
  BY <1>1, HeadTailProperties, EmptySeq, LenProperties
<1> QED
  BY <1>1, <1>2, <1>3, <1>4

(* What the activations on a stack are once its top is another one. *)
LEMMA StackTop ==
  ASSUME NEW b, NEW memo, NEW bound, NEW st, NEW cur, StackOK(b, memo, bound, st, cur), st # <<>>
  PROVE  /\ Head(st) \in Frames /\ FrameOK(b, memo, bound, Head(st))
         /\ Head(st).at = "factor" => FactorOK(b, memo, bound, Head(st))
         /\ Head(st).useOp = User(Tail(st), cur)
         /\ Tail(st) \in Seq(Frames) /\ StackOK(b, memo, bound, Tail(st), cur) /\ Suspended(Tail(st))
         /\ \A i \in 1..Len(Tail(st)) : Before(b, Head(st).val, Tail(st)[i].val)
         /\ Tail(st) # <<>> => Bottom(Tail(st)) = Bottom(st)
         /\ Tail(st) = <<>> => Bottom(st) = Head(st).val
<1> DEFINE T == Tail(st)
           n == Len(st)
           f == Head(st)
<1>1. /\ st \in Seq(Frames) 
      /\ \A i \in 1..n : /\ FrameOK(b, memo, bound, st[i])
                         /\ st[i].useOp = IF i = n THEN cur ELSE st[i + 1].val
                         /\ i > 1 => st[i].at \in {"lhs", "rhs"}
                         /\ st[i].at = "factor" => FactorOK(b, memo, bound, st[i])
                         /\ \A j \in 1..n : i < j => Before(b, st[i].val, st[j].val)
  BY DEF StackOK
<1>2. /\ f \in Frames /\ T \in Seq(Frames) /\ n \in Nat /\ Len(T) = n - 1 /\ n > 0
      /\ f = st[1] /\ \A i \in 1..(n - 1) : T[i] = st[i + 1]
      /\ T = <<>> => n = 1
      /\ T # <<>> => n > 1 /\ Head(T) = st[2]
  BY <1>1, Popped
<1>3. Bottom(st) = st[n].val /\ (T # <<>> => Bottom(T) = T[n - 1].val)
  BY <1>2 DEF Bottom
<1>4. User(T, cur) = IF T = <<>> THEN cur ELSE Head(T).val
  BY DEF User
<1> HIDE DEF T, f, n
<1>5. FrameOK(b, memo, bound, f) /\ (f.at = "factor" => FactorOK(b, memo, bound, f)) /\ f.useOp = User(T, cur)
  BY <1>1, <1>2, <1>4
<1>6. \A i \in 1..Len(T) : /\ i + 1 \in 1..n /\ T[i] = st[i + 1] /\ i + 1 > 1
                           /\ i = Len(T) <=> i + 1 = n
                           /\ i # Len(T) => T[i + 1] = st[i + 2] /\ i + 1 # n
  BY <1>2
<1>7. Suspended(T) /\ \A i \in 1..Len(T) : Before(b, f.val, T[i].val)
  <2>1. Suspended(T)
    BY <1>1, <1>6 DEF Suspended
  <2>2. 1 \in 1..n /\ \A i \in 1..Len(T) : 1 < i + 1
    BY <1>2
  <2>3. \A i \in 1..Len(T) : Before(b, st[1].val, st[i + 1].val)
    BY <2>2, <1>1, <1>6
  <2> QED
    BY <2>1, <2>3, <1>2, <1>6
<1>8. StackOK(b, memo, bound, T, cur)
  <2>1. ASSUME NEW i \in 1..Len(T), NEW j \in 1..Len(T), i < j PROVE Before(b, T[i].val, T[j].val)
    <3>1. i + 1 \in 1..n /\ j + 1 \in 1..n /\ i + 1 < j + 1 /\ T[i] = st[i + 1] /\ T[j] = st[j + 1]
      BY <2>1, <1>6
    <3> QED
      BY <3>1, <1>1
  <2>2. ASSUME NEW i \in 1..Len(T) PROVE T[i].useOp = IF i = Len(T) THEN cur ELSE T[i + 1].val
    <3>1. i + 1 \in 1..n /\ T[i] = st[i + 1] /\ (i = Len(T) <=> i + 1 = n)
          /\ (i # Len(T) => T[i + 1] = st[(i + 1) + 1])
      BY <1>6, <1>2
    <3> QED
      BY <3>1, <1>1
  <2>3. \A i \in 1..Len(T) : FrameOK(b, memo, bound, T[i]) /\ T[i].at \in {"lhs", "rhs"}
    BY <1>1, <1>6
  <2> QED
    BY <2>1, <2>2, <2>3, <1>2 DEF StackOK
<1>9. (T # <<>> => Bottom(T) = Bottom(st)) /\ (T = <<>> => Bottom(st) = f.val)
  <2>1. n > 1 => T[n - 1] = st[n]
    BY <1>2
  <2> QED
    BY <2>1, <1>2, <1>3
<1> QED
  BY <1>2, <1>5, <1>7, <1>8, <1>9 DEF T, f

(* What they are once another one is put on top. *)
LEMMA StackPush ==
  ASSUME NEW b, IsBody(b), NEW memo, NEW bound, NEW T, NEW cur, StackOK(b, memo, bound, T, cur), Suspended(T),
         NEW f \in Frames, FrameOK(b, memo, bound, f), f.useOp = User(T, cur),
         f.at = "factor" => FactorOK(b, memo, bound, f)
  PROVE  /\ StackOK(b, memo, bound, <<f>> \o T, cur) /\ Head(<<f>> \o T) = f /\ Tail(<<f>> \o T) = T /\ <<f>> \o T # <<>>
         /\ f.at \in {"lhs", "rhs"} => Suspended(<<f>> \o T)
         /\ Bottom(<<f>> \o T) = IF T = <<>> THEN f.val ELSE Bottom(T)
<1> DEFINE st == <<f>> \o T
           n == Len(T)
<1>1. /\ T \in Seq(Frames) /\ n \in Nat
      /\ \A i \in 1..n : /\ FrameOK(b, memo, bound, T[i])
                         /\ T[i].useOp = IF i = n THEN cur ELSE T[i + 1].val
                         /\ \A j \in 1..n : i < j => Before(b, T[i].val, T[j].val)
  BY LenProperties DEF StackOK
<1>2. /\ st \in Seq(Frames) /\ st # <<>> /\ Len(st) = n + 1
      /\ st[1] = f /\ \A i \in 1..n : st[i + 1] = T[i]
      /\ Head(st) = f /\ Tail(st) = T
  BY <1>1, Pushed
<1>3. Bottom(st) = st[n + 1].val /\ Bottom(T) = T[n].val
  BY <1>2 DEF Bottom
<1>4. T = <<>> => n = 0
  BY EmptySeq
<1>5. T # <<>> => n > 0 /\ Head(T) = T[1]
  BY <1>1, HeadTailProperties, EmptySeq
<1>6. f.useOp = IF T = <<>> THEN cur ELSE Head(T).val
  BY DEF User
<1>7. Before(b, f.val, f.useOp) /\ IsBlock(b)
  BY DEF FrameOK, IsBody
<1> HIDE DEF st, n
<1>8. \A i \in 2..(n + 1) : i - 1 \in 1..n /\ st[i] = T[i - 1] /\ (i # n + 1 => i \in 1..n /\ st[i + 1] = T[i])
  <2>1. \A i \in 2..(n + 1) : i - 1 \in 1..n /\ (i - 1) + 1 = i /\ (i # n + 1 => i \in 1..n)
    BY <1>1
  <2> QED
    BY <2>1, <1>2
<1>9. \A i \in 1..n : Before(b, f.val, T[i].val)
  <2> SUFFICES ASSUME NEW i \in 1..n PROVE Before(b, f.val, T[i].val)
    OBVIOUS
  <2>1. T # <<>> /\ n > 0 /\ Before(b, f.val, T[1].val)
    BY <1>1, <1>4, <1>5, <1>6, <1>7
  <2>2. CASE i = 1
    BY <2>1, <2>2
  <2>3. CASE i # 1
    <3>1. 1 \in 1..n /\ 1 < i
      BY <2>1, <2>3, <1>1
    <3>2. Before(b, T[1].val, T[i].val)
      BY <3>1, <1>1
    <3> QED
      BY <3>2, <2>1, <1>7, BeforeIsAnOrder
  <2> QED
    BY <2>2, <2>3
<1>10. \A i \in 1..Len(st) : i = 1 \/ i \in 2..(n + 1)
  BY <1>1, <1>2
<1>11. \A i \in 2..(n + 1) :
         /\ FrameOK(b, memo, bound, st[i])
         /\ st[i].useOp = IF i = Len(st) THEN cur ELSE st[i + 1].val
         /\ st[i].at \in {"lhs", "rhs"}
  <2> SUFFICES ASSUME NEW i \in 2..(n + 1)
               PROVE  /\ FrameOK(b, memo, bound, st[i])
                      /\ st[i].useOp = IF i = Len(st) THEN cur ELSE st[i + 1].val
                      /\ st[i].at \in {"lhs", "rhs"}
    OBVIOUS
  <2> DEFINE k == i - 1
  <2>1. k \in 1..n /\ st[i] = T[k] /\ (k = n <=> i = Len(st)) /\ (i # Len(st) => st[i + 1] = T[k + 1])
    BY <1>1, <1>2, <1>8
  <2>2. FrameOK(b, memo, bound, T[k]) /\ T[k].at \in {"lhs", "rhs"} /\ (T[k].useOp = IF k = n THEN cur ELSE T[k + 1].val)
    BY <2>1, <1>1 DEF Suspended, n
  <2> QED
    BY <2>1, <2>2
<1>12. st[1].useOp = IF 1 = Len(st) THEN cur ELSE st[1 + 1].val
  <2>1. CASE T = <<>>
    BY <2>1, <1>2, <1>4, <1>6
  <2>2. CASE T # <<>>
    <3>1. n > 0 /\ 1 \in 1..n /\ st[1 + 1] = T[1] /\ Len(st) # 1
      BY <2>2, <1>1, <1>2, <1>5
    <3> QED
      BY <3>1, <2>2, <1>2, <1>5, <1>6
  <2> QED
    BY <2>1, <2>2
<1>13. \A i, j \in 1..Len(st) : i < j => Before(b, st[i].val, st[j].val)
  <2> SUFFICES ASSUME NEW i \in 1..Len(st), NEW j \in 1..Len(st), i < j PROVE Before(b, st[i].val, st[j].val)
    OBVIOUS
  <2>1. j \in 2..(n + 1) /\ j - 1 \in 1..n /\ st[j] = T[j - 1]
    BY <1>1, <1>2, <1>8
  <2>2. CASE i = 1
    BY <2>1, <2>2, <1>2, <1>9
  <2>3. CASE i # 1
    <3>1. i \in 2..(n + 1) /\ i - 1 \in 1..n /\ st[i] = T[i - 1] /\ i - 1 < j - 1
      BY <2>3, <2>1, <1>1, <1>2, <1>8
    <3> QED
      BY <3>1, <2>1, <1>1
  <2> QED
    BY <2>2, <2>3
<1>14. StackOK(b, memo, bound, st, cur)
  <2>1. FrameOK(b, memo, bound, st[1]) /\ (st[1].at = "factor" => FactorOK(b, memo, bound, st[1]))
    BY <1>2
  <2> QED
    BY <2>1, <1>2, <1>10, <1>11, <1>12, <1>13 DEF StackOK
<1>15. f.at \in {"lhs", "rhs"} => Suspended(st)
  BY <1>2, <1>10, <1>11 DEF Suspended
<1>16. Bottom(st) = IF T = <<>> THEN f.val ELSE Bottom(T)
  BY <1>1, <1>2, <1>3, <1>4, <1>5
<1> QED
  BY <1>2, <1>14, <1>15, <1>16 DEF st

(* The frame that an activation starts with. *)
LEMMA NewFrame ==
  ASSUME NEW b, IsBody(b), NEW memo, NEW bound, NEW val, NEW useOp, IsValue(b, val), Before(b, val, useOp)
  PROVE  /\ Frame(val, useOp) \in Frames /\ FrameOK(b, memo, bound, Frame(val, useOp))
         /\ Frame(val, useOp).val = val /\ Frame(val, useOp).useOp = useOp /\ Frame(val, useOp).at = "entry"
<1>1. val \in Nat /\ useOp \in Nat
  BY BlockFacts DEF IsBody, Before
<1> QED
  BY <1>1 DEF Frame, Frames, FrameOK, None

(* Callers whose values stay in the block stay as they are. *)
LEMMA CallersKept ==
  ASSUME NEW b, NEW memo, NEW b2, NEW memo2, NEW bound, Keeps(b, memo, b2, memo2, bound),
         NEW st, NEW cur, StackOK(b, memo, bound, st, cur), Suspended(st), cur \in Live(b2),
         \A i \in 1..Len(st) : st[i].val \in Live(b2)
  PROVE  StackOK(b2, memo2, bound, st, cur)
BY StackKept DEF Suspended

-----------------------------------------------------------------------------
(* The inductive invariant *)

(* The copies of operands that are there: one may be gone when its lowering *)
(* has returned.                                                            *)
Kept(operands, sl, st, ret) ==
  DOMAIN operands \ (IF st = <<>> /\ ret # None THEN {Min(sl)} ELSE {})

(* While a call is visited. *)
CallStep(b, memo, bound, ph, cur, sl, operands, st, ret) ==
  ph = "calls" /\ cur # None =>
    /\ CallOK(b, memo, bound, cur, sl, operands, Kept(operands, sl, st, ret))
    /\ st # <<>> => /\ Bottom(st) = operands[Min(sl)]
                    /\ b.op[Bottom(st)].kind \notin Leaves

(* AuxDependencies, as a function of the body. *)
DependenciesIn(b, aux, k) ==
  {b.op[u].leaf : u \in {v \in DefinitionTree(b, aux[k].computed) : b.op[v].kind = "aux"}} \ {k}

(* The order so far has every member after its dependencies. *)
OrderOK ==
  /\ phase \in Walking \cup {"checks"} => order = <<>> /\ visiting = <<>>
  /\ order \in Seq(DOMAIN auxAssignments) /\ visiting \in Seq(DOMAIN auxAssignments)
  /\ \A i \in 1..Len(order) : \A dep \in DependenciesIn(body, auxAssignments, order[i]) :
       \E j \in 1..Len(order) : j < i /\ order[j] = dep

(* All that a step of the pass relies on: what the pass has in hand is in   *)
(* the block, and either held or further down than all that the activations *)
(* in progress can erase.                                                   *)
Inv ==
  /\ program \in Programs /\ maxDegree \in MaxDegrees
  /\ IsBody(body)
  /\ MemoOK(body, degreeMemo)
  /\ RewritesOK(body, degreeMemo, maxDegree, rewrites)
  /\ WalkOK(body, phase, walk, current, slots)
  /\ ~ Idle => slots # {}
  /\ StackOK(body, degreeMemo, maxDegree, stack, current)
  /\ ReturnedOK(body, degreeMemo, maxDegree, stack, returned, current)
  /\ CallStep(body, degreeMemo, maxDegree, phase, current, slots, call.operands, stack, returned)
  /\ ArgumentsApart(program) => CallsOK(body, phase, walk)
  /\ AuxOK(body, degreeMemo, maxDegree, auxAssignments)
  /\ OrderOK

(* What the results suppose once calls are lowered, of the program alone: no *)
(* operand of a call is a product that is lowered while another operand may  *)
(* be one too.  Where that fails the pass does hold an operation it erases   *)
(* (the programs SharedArguments).  Before the calls nothing is supposed.    *)
Settled == phase \in {"equalities", "containments"} \/ ArgumentsApart(program)

(* The bounds on degrees are numbers above 1. *)
LEMMA Bounds ==
  ASSUME maxDegree \in MaxDegrees
  PROVE  maxDegree \in Nat /\ maxDegree >= 2
BY PolyLoweringAssumption

(* None is no address. *)
LEMMA LiveIsSome ==
  ASSUME NEW b, IsBody(b), NEW v \in Live(b)
  PROVE  v # None /\ v \in Nat /\ v \in DOMAIN b.op
BY BlockFacts DEF IsBody, None

(* The operation that is visited, and which of its operands is lowered. *)
LEMMA CurrentFacts ==
  ASSUME Inv, slots # {}
  PROVE  /\ current \in Live(body) /\ body.op[current].kind \in {"eq", "array", "call"}
         /\ ~ AuxEquation(body, current) /\ phase \in Walking /\ current # None
         /\ phase # "calls" => body.op[current].kind # "call"
         /\ Slot \in slots /\ Slot \in DOMAIN body.op[current].args
         /\ IsValue(body, body.op[current].args[Slot])
         /\ Before(body, body.op[current].args[Slot], current)
<1>1. IsBody(body) /\ current # None /\ current \in Lowered(body, phase) /\ slots \subseteq DOMAIN body.op[current].args
  BY DEF Inv, WalkOK
<1>2. /\ current \in Live(body) /\ body.op[current].kind \in {"eq", "array", "call"}
      /\ ~ AuxEquation(body, current) /\ phase \in Walking
      /\ phase # "calls" => body.op[current].kind # "call"
  BY <1>1 DEF Lowered, Walked, OfKind, AuxEquation, Walking
<1>3. DOMAIN body.op[current].args \subseteq Nat
  BY <1>1, <1>2, OperandFacts
<1>4. Slot \in slots
  BY <1>1, <1>3, MinOf DEF Slot
<1>5. Slot \in DOMAIN body.op[current].args
  BY <1>1, <1>4
<1> QED
  BY <1>1, <1>2, <1>4, <1>5, OperandFacts

(* What is known of the copies of operands is known of fewer. *)
LEMMA CallShrinks ==
  ASSUME NEW b, NEW memo, NEW bound, NEW cur, NEW sl, NEW operands, NEW kept,
         CallOK(b, memo, bound, cur, sl, operands, kept), NEW sl2, sl2 \subseteq sl, NEW kept2, kept2 \subseteq kept
  PROVE  CallOK(b, memo, bound, cur, sl2, operands, kept2)
BY DEF CallOK

(* A step of lowerExpression keeps what belongs to its callers. *)
ExpressionDone ==
  /\ IsBody(body') /\ Keeps(body, degreeMemo, body', degreeMemo', maxDegree)
  /\ MemoOK(body', degreeMemo')
  /\ RewritesOK(body', degreeMemo', maxDegree, rewrites')
  /\ StackOK(body', degreeMemo', maxDegree, stack', current)
  /\ ReturnedOK(body', degreeMemo', maxDegree, stack', returned', current)
  /\ (ArgumentsApart(program) => CallsOK(body', phase, walk))
  /\ AuxOK(body', degreeMemo', maxDegree, auxAssignments')
  /\ (stack' # <<>> => Bottom(stack') = Bottom(stack))
  /\ (stack' = <<>> => returned' # None)

(* The value that the outermost activation lowers is in the block. *)
LEMMA BottomLive ==
  ASSUME NEW b, NEW memo, NEW bound, NEW st, NEW cur, StackOK(b, memo, bound, st, cur), st # <<>>
  PROVE  IsValue(b, Bottom(st)) /\ Bottom(st) \in Live(b)
<1>1. Len(st) \in 1..Len(st)
  BY Popped DEF StackOK
<1> QED
  BY <1>1 DEF StackOK, FrameOK, Bottom, IsValue

(* A step of lowerExpression that is done keeps the invariant: the walk     *)
(* goes on as it was.                                                       *)
LEMMA ExpressionStep ==
  ASSUME Inv, stack # <<>>, CallersUnchanged, ExpressionDone
  PROVE  Inv'
<1>1. slots # {} /\ current \in Live(body) /\ body.op[current].kind # "mul" /\ phase \in Walking /\ Slot \in slots
  BY CurrentFacts DEF Inv, Idle
<1>2. /\ program' = program /\ maxDegree' = maxDegree /\ phase' = phase /\ walk' = walk /\ current' = current
      /\ slots' = slots /\ call' = call /\ order' = order /\ visiting' = visiting
  BY DEF CallersUnchanged
<1>3. current \in Live(body')
  BY <1>1, HeldKept DEF ExpressionDone
<1>4. WalkOK(body', phase, walk, current, slots)
  BY WalkKept DEF Inv, ExpressionDone
<1>5. ASSUME phase = "calls", current # None
      PROVE  /\ CallOK(body', degreeMemo', maxDegree, current, slots, call.operands,
                       Kept(call.operands, slots, stack', returned'))
             /\ stack' # <<>> => /\ Bottom(stack') = call.operands[Min(slots)]
                                 /\ body'.op[Bottom(stack')].kind \notin Leaves
  <2> DEFINE ops == call.operands
             kept == Kept(ops, slots, stack', returned')
  <2>1. /\ CallOK(body, degreeMemo, maxDegree, current, slots, ops, DOMAIN ops)
        /\ Bottom(stack) = ops[Min(slots)] /\ body.op[Bottom(stack)].kind \notin Leaves
    BY <1>5 DEF Inv, CallStep, Kept
  <2>2. kept \subseteq DOMAIN ops /\ (stack' = <<>> => kept \subseteq DOMAIN ops \ {Min(slots)})
    BY DEF Kept, ExpressionDone
  <2>3. Min(slots) \in slots /\ Min(slots) \in DOMAIN ops
    BY <1>1, <2>1 DEF Inv, WalkOK, CallOK, Slot
  <2>4. ASSUME NEW i \in kept PROVE ops[i] \in Live(body')
    <3>1. i \in DOMAIN ops
      BY <2>2
    <3>2. CASE i = Min(slots)
      <4>1. stack' # <<>> /\ Bottom(stack') = Bottom(stack)
        BY <3>2, <2>2 DEF ExpressionDone
      <4>2. Bottom(stack') \in Live(body')
        BY <4>1, BottomLive DEF ExpressionDone
      <4> QED
        BY <3>2, <4>1, <4>2, <2>1
    <3>3. CASE i # Min(slots)
      <4>1. Held(body, degreeMemo, maxDegree, ops[i])
        BY <3>1, <3>3, <2>1, <2>3 DEF CallOK
      <4> QED
        BY <4>1, HeldKept DEF ExpressionDone
    <3> QED
      BY <3>2, <3>3
  <2>5. CallOK(body, degreeMemo, maxDegree, current, slots, ops, kept)
    BY <2>1, <2>2, CallShrinks
  <2> HIDE DEF kept, ops
  <2>6. CallOK(body', degreeMemo', maxDegree, current, slots, ops, kept)
    <3>1. Keeps(body, degreeMemo, body', degreeMemo', maxDegree)
      BY DEF ExpressionDone
    <3> QED
      BY <3>1, <1>1, <1>3, <2>4, <2>5, CallKept
  <2>7. ASSUME stack' # <<>> PROVE body'.op[Bottom(stack')].kind = body.op[Bottom(stack)].kind
    <3>1. Bottom(stack') = Bottom(stack)
      BY <2>7 DEF ExpressionDone
    <3>2. Bottom(stack') \in Live(body')
      BY <2>7, BottomLive DEF ExpressionDone
    <3>3. Bottom(stack) \in Live(body)
      BY BottomLive DEF Inv
    <3> QED
      BY <3>1, <3>2, <3>3 DEF ExpressionDone, Keeps
  <2> QED
    BY <2>1, <2>6, <2>7 DEF ExpressionDone, kept, ops
<1>6. CallStep(body', degreeMemo', maxDegree, phase, current, slots, call.operands, stack', returned')
  BY <1>5 DEF CallStep
<1>7. OrderOK'
  <2>1. order = <<>> /\ visiting = <<>>
    BY <1>1 DEF Inv, OrderOK
  <2>2. order' = <<>> /\ visiting' = <<>> /\ Len(order') = 0
    BY <2>1, <1>2
  <2> QED
    BY <2>2 DEF OrderOK
<1> QED
  BY <1>1, <1>2, <1>4, <1>6, <1>7 DEF Inv, ExpressionDone, Idle

(* A step that returns a held value is done. *)
LEMMA ReturnStep ==
  ASSUME Inv, stack # <<>>, CallersUnchanged, NEW value, Return(value),
         IsBody(body'), Keeps(body, degreeMemo, body', degreeMemo', maxDegree), MemoOK(body', degreeMemo'),
         RewritesOK(body', degreeMemo', maxDegree, rewrites'),
         ArgumentsApart(program) => CallsOK(body', phase, walk),
         AuxOK(body', degreeMemo', maxDegree, auxAssignments'),
         Held(body', degreeMemo', maxDegree, value), Before(body', value, Top.useOp),
         \A x \in Live(body) : x # Top.val => x \in Live(body')
  PROVE  Inv'
<1>1. /\ Top.useOp = User(Tail(stack), current) /\ StackOK(body, degreeMemo, maxDegree, Tail(stack), current)
      /\ Suspended(Tail(stack)) /\ \A i \in 1..Len(Tail(stack)) : Before(body, Top.val, Tail(stack)[i].val)
      /\ Tail(stack) # <<>> => Bottom(Tail(stack)) = Bottom(stack)
      /\ Tail(stack) \in Seq(Frames)
  <2>1. StackOK(body, degreeMemo, maxDegree, stack, current)
    BY DEF Inv
  <2>2. Head(stack).useOp = User(Tail(stack), current) /\ StackOK(body, degreeMemo, maxDegree, Tail(stack), current)
    BY <2>1, StackTop
  <2>3. Suspended(Tail(stack)) /\ Tail(stack) \in Seq(Frames) /\ (Tail(stack) # <<>> => Bottom(Tail(stack)) = Bottom(stack))
    BY <2>1, StackTop
  <2>4. \A i \in 1..Len(Tail(stack)) : Before(body, Head(stack).val, Tail(stack)[i].val)
    BY <2>1, StackTop
  <2> QED
    BY <2>2, <2>3, <2>4 DEF Top
<1>2. \A i \in 1..Len(Tail(stack)) : Tail(stack)[i].val \in Live(body')
  <2>1. IsBlock(body)
    BY DEF Inv, IsBody
  <2> QED
    BY <2>1, <1>1, BeforeIsAnOrder
<1>3. current \in Live(body')
  <2>1. current \in Live(body) /\ body.op[current].kind # "mul"
    BY CurrentFacts DEF Inv, Idle
  <2> QED
    BY <2>1, HeldKept
<1>4. StackOK(body', degreeMemo', maxDegree, Tail(stack), current)
  BY <1>1, <1>2, <1>3, CallersKept
<1>5. stack' = Tail(stack) /\ returned' = value
  BY DEF Return
<1>6. ReturnedOK(body', degreeMemo', maxDegree, stack', returned', current)
  <2>1. Tail(stack) # <<>> => Head(Tail(stack)).at \in {"lhs", "rhs"}
    <3>1. Tail(stack) # <<>> => Head(Tail(stack)) = Tail(stack)[1] /\ 1 \in 1..Len(Tail(stack))
      BY <1>1, Popped
    <3> QED
      BY <3>1, <1>1 DEF Suspended
  <2> QED
    BY <2>1, <1>1, <1>5 DEF ReturnedOK
<1>7. value # None
  BY LiveIsSome DEF Held, IsValue
<1>8. ExpressionDone
  BY <1>1, <1>4, <1>5, <1>6, <1>7 DEF ExpressionDone
<1> QED
  BY <1>8, ExpressionStep

-----------------------------------------------------------------------------
(* Steps of lowerExpression *)

(* A sequence with another first element and one more in front. *)
LEMMA TwoPushed ==
  ASSUME NEW S, NEW f \in S, NEW g \in S, NEW T \in Seq(S)
  PROVE  <<f, g>> \o T = <<f>> \o (<<g>> \o T)
<1> DEFINE h == <<f, g>>
           l == h \o T
           t == <<g>> \o T
           r == <<f>> \o t
           n == Len(T)
<1>1. h \in Seq(S) /\ Len(h) = 2 /\ h[1] = f /\ h[2] = g /\ n \in Nat
  BY LenProperties
<1> HIDE DEF h
<1>2. l \in Seq(S) /\ Len(l) = n + 2 /\ \A i \in 1..(n + 2) : l[i] = IF i <= 2 THEN h[i] ELSE T[i - 2]
  <2>1. /\ l \in Seq(S) /\ Len(l) = Len(h) + Len(T)
        /\ \A i \in 1..(Len(h) + Len(T)) : l[i] = IF i <= Len(h) THEN h[i] ELSE T[i - Len(h)]
    BY <1>1, ConcatProperties, Zenon
  <2> HIDE DEF l
  <2> QED
    BY <2>1, <1>1
<1>3. t \in Seq(S) /\ Len(t) = n + 1 /\ t[1] = g /\ \A i \in 1..n : t[i + 1] = T[i]
  BY Pushed
<1> HIDE DEF t
<1>4. r \in Seq(S) /\ Len(r) = Len(t) + 1 /\ r[1] = f /\ \A i \in 1..Len(t) : r[i + 1] = t[i]
  BY <1>3, Pushed
<1> HIDE DEF l, r, n
<1>5. ASSUME NEW i \in 1..(n + 2) PROVE l[i] = r[i]
  <2>1. CASE i = 1
    BY <2>1, <1>1, <1>2, <1>4
  <2>2. CASE i = 2
    <3>1. r[1 + 1] = t[1]
      BY <1>1, <1>3, <1>4
    <3> QED
      BY <3>1, <2>2, <1>1, <1>2, <1>3
  <2>3. CASE i > 2
    <3>1. i - 2 \in 1..n /\ i - 1 \in 1..(n + 1) /\ (i - 2) + 1 = i - 1 /\ (i - 1) + 1 = i /\ ~ (i <= 2)
      BY <2>3, <1>1
    <3>2. r[i] = t[i - 1] /\ t[i - 1] = T[i - 2]
      BY <3>1, <1>3, <1>4
    <3>3. l[i] = T[i - 2]
      BY <3>1, <1>2
    <3> QED
      BY <3>2, <3>3
  <2> QED
    BY <2>1, <2>2, <2>3, <1>1
<1>6. Len(l) = n + 2 /\ Len(r) = n + 2
  BY <1>1, <1>2, <1>3, <1>4
<1>7. l = r
  BY <1>2, <1>4, <1>5, <1>6, SeqEqual
<1> QED
  BY <1>7 DEF l, r, t, h

(* What is known of the innermost activation. *)
LEMMA TopFacts ==
  ASSUME Inv, stack # <<>>
  PROVE  /\ Top \in Frames /\ FrameOK(body, degreeMemo, maxDegree, Top)
         /\ Top.at = "factor" => FactorOK(body, degreeMemo, maxDegree, Top)
         /\ Top.useOp = User(Tail(stack), current) /\ Top.val \in Live(body) /\ IsValue(body, Top.val)
         /\ Before(body, Top.val, Top.useOp)
         /\ Tail(stack) \in Seq(Frames) /\ StackOK(body, degreeMemo, maxDegree, Tail(stack), current)
         /\ Suspended(Tail(stack))
         /\ \A i \in 1..Len(Tail(stack)) : Before(body, Top.val, Tail(stack)[i].val)
         /\ (IF Tail(stack) = <<>> THEN Top.val ELSE Bottom(Tail(stack))) = Bottom(stack)
         /\ Top.at \in {"entry", "factor"} => returned = None
         /\ returned # None => Held(body, degreeMemo, maxDegree, returned) /\ Before(body, returned, Top.val)
<1>1. StackOK(body, degreeMemo, maxDegree, stack, current) /\ ReturnedOK(body, degreeMemo, maxDegree, stack, returned, current)
  BY DEF Inv
<1>2. /\ Top \in Frames /\ FrameOK(body, degreeMemo, maxDegree, Top)
      /\ Top.at = "factor" => FactorOK(body, degreeMemo, maxDegree, Top)
  BY <1>1, StackTop DEF Top
<1>3. /\ Top.useOp = User(Tail(stack), current) /\ Tail(stack) \in Seq(Frames)
      /\ StackOK(body, degreeMemo, maxDegree, Tail(stack), current) /\ Suspended(Tail(stack))
  BY <1>1, StackTop DEF Top
<1>4. \A i \in 1..Len(Tail(stack)) : Before(body, Top.val, Tail(stack)[i].val)
  BY <1>1, StackTop DEF Top
<1>5. (IF Tail(stack) = <<>> THEN Top.val ELSE Bottom(Tail(stack))) = Bottom(stack)
  BY <1>1, StackTop DEF Top
<1>6. /\ Top.at \in {"entry", "factor"} => returned = None
      /\ returned # None => Held(body, degreeMemo, maxDegree, returned) /\ Before(body, returned, Top.val)
  BY <1>1 DEF ReturnedOK, User, Top
<1>7. Top.val \in Live(body) /\ IsValue(body, Top.val) /\ Before(body, Top.val, Top.useOp)
  BY <1>2 DEF FrameOK, IsValue
<1> QED
  BY <1>2, <1>3, <1>4, <1>5, <1>6, <1>7

(* A step that looks degrees up keeps what is known. *)
LEMMA MemoStep ==
  ASSUME Inv, NEW memo2, MemoOK(body, memo2), Extended(degreeMemo, memo2, None)
  PROVE  /\ Keeps(body, degreeMemo, body, memo2, maxDegree)
         /\ RewritesOK(body, memo2, maxDegree, rewrites)
         /\ AuxOK(body, memo2, maxDegree, auxAssignments)
         /\ \A v : Held(body, degreeMemo, maxDegree, v) => Held(body, memo2, maxDegree, v)
<1>1. IsBody(body) /\ AuxOK(body, degreeMemo, maxDegree, auxAssignments) /\ RewritesOK(body, degreeMemo, maxDegree, rewrites)
  BY DEF Inv
<1>2. Reargued(body, body, None) /\ ~ AuxEquation(body, None) /\ None \notin Live(body)
  BY <1>1, RearguedNone, LiveIsSome
<1>3. Keeps(body, degreeMemo, body, memo2, maxDegree) /\ AuxOK(body, memo2, maxDegree, auxAssignments)
  BY <1>1, <1>2, RearguedStep
<1> QED
  BY <1>1, <1>3, RewritesKept, HeldKept

(* The degrees that a step has looked up. *)
LEMMA LookedUp ==
  ASSUME Inv, NEW vs, \A v \in vs : IsValue(body, v)
  PROVE  /\ Keeps(body, degreeMemo, body, MemoisedAll(vs), maxDegree)
         /\ MemoOK(body, MemoisedAll(vs)) /\ Extended(degreeMemo, MemoisedAll(vs), None)
         /\ RewritesOK(body, MemoisedAll(vs), maxDegree, rewrites)
         /\ AuxOK(body, MemoisedAll(vs), maxDegree, auxAssignments)
         /\ \A v : Held(body, degreeMemo, maxDegree, v) => Held(body, MemoisedAll(vs), maxDegree, v)
         /\ \A v \in vs : v \in DOMAIN MemoisedAll(vs) /\ MemoisedAll(vs)[v] = Degree[v] /\ Degree[v] \in Nat
<1> DEFINE m == MemoisedAll(vs)
<1>1. IsBody(body) /\ MemoOK(body, degreeMemo)
  BY DEF Inv
<1>2. /\ MemoOK(body, m) /\ Extended(degreeMemo, m, None)
      /\ \A v \in vs : v \in DOMAIN m /\ m[v] = Degree[v] /\ Degree[v] \in Nat
  BY <1>1, MemoisedFacts
<1> HIDE DEF m
<1>3. /\ Keeps(body, degreeMemo, body, m, maxDegree) /\ RewritesOK(body, m, maxDegree, rewrites)
      /\ AuxOK(body, m, maxDegree, auxAssignments)
      /\ \A v : Held(body, degreeMemo, maxDegree, v) => Held(body, m, maxDegree, v)
  BY <1>2, MemoStep
<1> QED
  BY <1>2, <1>3 DEF m

(* The callers of the innermost activation stay. *)
LEMMA CallersStay ==
  ASSUME Inv, stack # <<>>, NEW memo2, Keeps(body, degreeMemo, body, memo2, maxDegree)
  PROVE  StackOK(body, memo2, maxDegree, Tail(stack), current)
<1>1. StackOK(body, degreeMemo, maxDegree, Tail(stack), current) /\ Suspended(Tail(stack))
  BY TopFacts
<1>2. \A i \in 1..Len(Tail(stack)) : Tail(stack)[i].val \in Live(body)
  BY TopFacts DEF Before
<1>3. current \in Live(body)
  BY CurrentFacts DEF Inv, Idle
<1> QED
  BY <1>1, <1>2, <1>3, CallersKept

(* Each step of lowerExpression keeps the invariant. *)
LEMMA ReturnCachedKeeps ==
  ASSUME Inv, ReturnCached
  PROVE  Inv'
<1>1. /\ stack # <<>> /\ Return(rewrites[Top.val]) /\ CallersUnchanged
      /\ body' = body /\ degreeMemo' = degreeMemo /\ rewrites' = rewrites /\ auxAssignments' = auxAssignments
      /\ HasCachedRewrite(Top)
  BY DEF ReturnCached
<1> DEFINE v == rewrites[Top.val]
<1>2. IsBody(body) /\ IsBlock(body) /\ MemoOK(body, degreeMemo) /\ AuxOK(body, degreeMemo, maxDegree, auxAssignments)
      /\ RewritesOK(body, degreeMemo, maxDegree, rewrites) /\ (ArgumentsApart(program) => CallsOK(body, phase, walk))
  BY DEF Inv, IsBody
<1>3. Top.useOp \in Live(body)
  BY TopFacts, <1>1 DEF Before
<1>4. Before(body, v, Top.useOp)
  BY <1>1, <1>2, <1>3, BeforeIsAnOrder DEF HasCachedRewrite
<1>5. Held(body, degreeMemo, maxDegree, v)
  BY <1>1, <1>2, <1>4 DEF HasCachedRewrite, RewritesOK, Before
<1>6. Keeps(body, degreeMemo, body, degreeMemo, maxDegree)
  BY <1>2, MemoStep DEF Extended
<1> QED
  BY <1>1, <1>2, <1>4, <1>5, <1>6, ReturnStep

LEMMA ReturnUnchangedKeeps ==
  ASSUME Inv, ReturnUnchanged
  PROVE  Inv'
<1> DEFINE m == MemoisedAll({Top.val})
<1>1. /\ stack # <<>> /\ Return(Top.val) /\ CallersUnchanged
      /\ body' = body /\ degreeMemo' = m /\ auxAssignments' = auxAssignments
      /\ rewrites' = Overlay(rewrites, [z \in {Top.val} |-> Top.val])
      /\ (Degree[Top.val] <= maxDegree \/ body.op[Top.val].kind \notin LoweredRoots)
  BY DEF ReturnUnchanged, Memoised, IdentityIfAbsent
<1>2. IsBody(body) /\ (ArgumentsApart(program) => CallsOK(body, phase, walk))
  BY DEF Inv
<1>3. IsValue(body, Top.val) /\ Before(body, Top.val, Top.useOp)
  BY TopFacts, <1>1
<1>4. /\ Keeps(body, degreeMemo, body, m, maxDegree) /\ MemoOK(body, m)
      /\ RewritesOK(body, m, maxDegree, rewrites) /\ AuxOK(body, m, maxDegree, auxAssignments)
      /\ Top.val \in DOMAIN m /\ m[Top.val] = Degree[Top.val]
  BY <1>3, LookedUp
<1> HIDE DEF m
<1>5. Held(body, m, maxDegree, Top.val)
  BY <1>1, <1>3, <1>4 DEF Held, LoweredRoots
<1>6. RewritesOK(body, m, maxDegree, rewrites')
  <2>1. Top.val \in DOMAIN body.op
    BY <1>2, <1>3, LiveIsSome DEF IsValue
  <2> QED
    BY <2>1, <1>1, <1>4, <1>5, PutRewrite
<1> QED
  BY <1>1, <1>2, <1>3, <1>4, <1>5, <1>6, ReturnStep

(* What is on top of the callers. *)
Descends(x, g) == stack' = <<Frame(x, Top.val), g>> \o Tail(stack)
Stays(g) == stack' = <<g>> \o Tail(stack)

(* An operand is lowered next. *)
LEMMA DescendStep ==
  ASSUME Inv, stack # <<>>, CallersUnchanged, body' = body, rewrites' = rewrites, auxAssignments' = auxAssignments,
         Keeps(body, degreeMemo, body, degreeMemo', maxDegree), MemoOK(body, degreeMemo'),
         RewritesOK(body, degreeMemo', maxDegree, rewrites), AuxOK(body, degreeMemo', maxDegree, auxAssignments),
         NEW g \in Frames, FrameOK(body, degreeMemo', maxDegree, g), g.val = Top.val, g.useOp = Top.useOp,
         g.at \in {"lhs", "rhs"}, NEW x, IsValue(body, x), Before(body, x, Top.val),
         Descends(x, g), returned' = None
  PROVE  Inv'
<1> DEFINE T == Tail(stack)
           f == Frame(x, Top.val)
           t == <<g>> \o T
<1>1. IsBody(body) /\ (ArgumentsApart(program) => CallsOK(body, phase, walk))
  BY DEF Inv
<1>2. T \in Seq(Frames) /\ Suspended(T) /\ Top.useOp = User(T, current)
      /\ (IF T = <<>> THEN Top.val ELSE Bottom(T)) = Bottom(stack)
  BY TopFacts
<1>3. StackOK(body, degreeMemo', maxDegree, T, current)
  BY CallersStay
<1>4. f \in Frames /\ FrameOK(body, degreeMemo', maxDegree, f) /\ f.val = x /\ f.useOp = Top.val /\ f.at = "entry"
  BY <1>1, NewFrame
<1>5. stack' = <<f>> \o t
  <2>1. <<f, g>> \o T = <<f>> \o (<<g>> \o T)
    <3> HIDE DEF f, T
    <3> QED
      BY <1>2, <1>4, TwoPushed, SMTT(30)
  <2> QED
    BY <2>1 DEF Descends
<1>6. /\ StackOK(body, degreeMemo', maxDegree, t, current) /\ Head(t) = g /\ t # <<>> /\ Suspended(t)
      /\ Bottom(t) = IF T = <<>> THEN g.val ELSE Bottom(T)
  <2>1. g.at # "factor" /\ g.useOp = User(T, current)
    BY <1>2
  <2> HIDE DEF T
  <2> QED
    BY <2>1, <1>1, <1>2, <1>3, StackPush
<1> HIDE DEF t, f, T
<1>7. f.useOp = User(t, current) /\ f.at # "factor"
  BY <1>4, <1>6 DEF User
<1>8. /\ StackOK(body, degreeMemo', maxDegree, <<f>> \o t, current) /\ Head(<<f>> \o t) = f /\ <<f>> \o t # <<>>
      /\ Bottom(<<f>> \o t) = IF t = <<>> THEN f.val ELSE Bottom(t)
  BY <1>1, <1>4, <1>6, <1>7, StackPush
<1>9. Bottom(stack') = Bottom(stack) /\ stack' # <<>> /\ Head(stack') = f /\ StackOK(body, degreeMemo', maxDegree, stack', current)
  <2>1. Bottom(t) = Bottom(stack)
    BY <1>2, <1>6
  <2>2. Bottom(<<f>> \o t) = Bottom(t)
    BY <1>6, <1>8
  <2> QED
    BY <2>1, <2>2, <1>5, <1>8
<1>10. ReturnedOK(body, degreeMemo', maxDegree, stack', returned', current)
  BY <1>4, <1>9 DEF ReturnedOK
<1>11. ExpressionDone
  BY <1>1, <1>9, <1>10 DEF ExpressionDone
<1> QED
  BY <1>11, ExpressionStep

LEMMA LowerLhsKeeps ==
  ASSUME Inv, LowerLhs
  PROVE  Inv'
<1> DEFINE m == MemoisedAll({Top.val})
           x == body.op[Top.val].args[1]
           g == [Top EXCEPT !.at = "lhs"]
<1>1. /\ stack # <<>> /\ CallersUnchanged /\ Top.at = "entry" /\ Degree[Top.val] > maxDegree
      /\ body.op[Top.val].kind \in LoweredRoots
      /\ body' = body /\ degreeMemo' = m /\ auxAssignments' = auxAssignments /\ rewrites' = rewrites
      /\ Descends(x, g) /\ returned' = returned
  BY DEF LowerLhs, Memoised, Call, Descends
<1>2. /\ Top \in Frames /\ FrameOK(body, degreeMemo, maxDegree, Top)
      /\ IsValue(body, Top.val) /\ Top.val \in Live(body) /\ returned = None
  BY TopFacts, <1>1
<1>3. /\ Keeps(body, degreeMemo, body, m, maxDegree) /\ MemoOK(body, m)
      /\ RewritesOK(body, m, maxDegree, rewrites) /\ AuxOK(body, m, maxDegree, auxAssignments)
      /\ Top.val \in DOMAIN m /\ m[Top.val] = Degree[Top.val] /\ Degree[Top.val] \in Nat
  BY <1>2, LookedUp
<1>4. IsBody(body) /\ maxDegree \in Nat
  BY Bounds DEF Inv
<1> HIDE DEF m
<1>5. Tall(m, maxDegree, Top.val)
  BY <1>1, <1>3, <1>4 DEF Tall
<1>6. /\ g \in Frames /\ g.val = Top.val /\ g.useOp = Top.useOp /\ g.at = "lhs" /\ g.lhs = Top.lhs /\ g.rhs = Top.rhs
  BY <1>2 DEF Frames
<1> HIDE DEF g
<1>7. FrameOK(body, m, maxDegree, g)
  BY <1>1, <1>2, <1>5, <1>6 DEF FrameOK
<1>8. IsValue(body, x) /\ Before(body, x, Top.val)
  <2>1. 1 \in DOMAIN body.op[Top.val].args /\ body.op[Top.val].kind # "contain"
    BY <1>1, <1>2, <1>4, Arities DEF LoweredRoots, Sums, Products
  <2> QED
    BY <2>1, <1>2, <1>4, OperandFacts
<1> QED
  BY <1>1, <1>2, <1>3, <1>6, <1>7, <1>8, DescendStep

LEMMA LowerRhsKeeps ==
  ASSUME Inv, LowerRhs
  PROVE  Inv'
<1> DEFINE x == body.op[Top.val].args[2]
           g == [Top EXCEPT !.at = "rhs", !.lhs = returned]
<1>1. /\ stack # <<>> /\ CallersUnchanged /\ Top.at = "lhs" /\ returned # None
      /\ body.op[Top.val].kind # "neg"
      /\ body' = body /\ degreeMemo' = degreeMemo /\ auxAssignments' = auxAssignments /\ rewrites' = rewrites
      /\ Descends(x, g) /\ returned' = None
  BY DEF LowerRhs, Descends
<1>2. /\ Top \in Frames /\ FrameOK(body, degreeMemo, maxDegree, Top)
      /\ IsValue(body, Top.val) /\ Top.val \in Live(body)
      /\ Held(body, degreeMemo, maxDegree, returned) /\ Before(body, returned, Top.val)
  BY TopFacts, <1>1
<1>3. IsBody(body) /\ MemoOK(body, degreeMemo)
  BY DEF Inv
<1>4. /\ Keeps(body, degreeMemo, body, degreeMemo, maxDegree)
      /\ RewritesOK(body, degreeMemo, maxDegree, rewrites) /\ AuxOK(body, degreeMemo, maxDegree, auxAssignments)
  BY <1>3, MemoStep DEF Extended
<1>5. returned \in Nat
  BY <1>2, <1>3, LiveIsSome DEF Before
<1>6. /\ g \in Frames /\ g.val = Top.val /\ g.useOp = Top.useOp /\ g.at = "rhs" /\ g.lhs = returned /\ g.rhs = Top.rhs
  BY <1>2, <1>5 DEF Frames
<1> HIDE DEF g
<1>7. FrameOK(body, degreeMemo, maxDegree, g)
  BY <1>1, <1>2, <1>6 DEF FrameOK
<1>8. IsValue(body, x) /\ Before(body, x, Top.val)
  <2>1. body.op[Top.val].kind \in LoweredRoots
    BY <1>1, <1>2 DEF FrameOK
  <2>2. 2 \in DOMAIN body.op[Top.val].args /\ body.op[Top.val].kind # "contain"
    BY <2>1, <1>1, <1>2, <1>3, Arities DEF LoweredRoots, Sums, Products
  <2> QED
    BY <2>2, <1>2, <1>3, OperandFacts
<1> QED
  BY <1>1, <1>3, <1>4, <1>6, <1>7, <1>8, DescendStep

(* A product is at its last stage. *)
LEMMA FactorStep ==
  ASSUME Inv, stack # <<>>, CallersUnchanged, IsBody(body'),
         Keeps(body, degreeMemo, body', degreeMemo', maxDegree), MemoOK(body', degreeMemo'),
         RewritesOK(body', degreeMemo', maxDegree, rewrites'),
         ArgumentsApart(program) => CallsOK(body', phase, walk),
         AuxOK(body', degreeMemo', maxDegree, auxAssignments'),
         Live(body) \subseteq Live(body'),
         NEW g \in Frames, FrameOK(body', degreeMemo', maxDegree, g), FactorOK(body', degreeMemo', maxDegree, g),
         g.val = Top.val, g.useOp = Top.useOp, Stays(g), returned' = None
  PROVE  Inv'
<1> DEFINE T == Tail(stack)
<1>2. T \in Seq(Frames) /\ Suspended(T) /\ Top.useOp = User(T, current)
      /\ (IF T = <<>> THEN Top.val ELSE Bottom(T)) = Bottom(stack)
      /\ StackOK(body, degreeMemo, maxDegree, T, current)
  BY TopFacts
<1>3. StackOK(body', degreeMemo', maxDegree, T, current)
  <2>1. \A i \in 1..Len(T) : T[i].val \in Live(body')
    BY TopFacts DEF Before
  <2>2. current \in Live(body')
    BY CurrentFacts DEF Inv, Idle
  <2> QED
    BY <2>1, <2>2, <1>2, CallersKept
<1> HIDE DEF T
<1>4. /\ StackOK(body', degreeMemo', maxDegree, <<g>> \o T, current)
      /\ Bottom(<<g>> \o T) = IF T = <<>> THEN g.val ELSE Bottom(T)
      /\ <<g>> \o T # <<>>
  BY <1>2, <1>3, StackPush
<1>5. stack' = <<g>> \o T
  BY DEF T, Stays
<1>6. ReturnedOK(body', degreeMemo', maxDegree, stack', returned', current)
  BY DEF ReturnedOK
<1>7. ExpressionDone
  <2>1. Bottom(stack') = Bottom(stack) /\ stack' # <<>>
    BY <1>2, <1>4, <1>5
  <2>2. StackOK(body', degreeMemo', maxDegree, stack', current)
    BY <1>4, <1>5
  <2> QED
    BY <2>1, <2>2, <1>6 DEF ExpressionDone
<1> QED
  BY <1>7, ExpressionStep

(* Right after a value comes no equation that the pass has added for another. *)
LEMMA FollowingIsNoEquation ==
  ASSUME NEW b, IsBody(b), EquationsOK(b), NEW v, IsValue(b, v), b.op[v].kind # "aux", NEW u, Before(b, v, u)
  PROVE  ~ AuxEquation(b, Following(b, v))
<1> DEFINE e == Following(b, v)
           a == b.op[e].args[1]
<1> SUFFICES ASSUME AuxEquation(b, e) PROVE FALSE
  OBVIOUS
<1>1. IsBlock(b) /\ v \in Live(b) /\ e \in Live(b)
  BY DEF IsBody, AuxEquation, Before
<1>2. Before(b, v, e) /\ \A z \in Live(b) : Before(b, v, z) => z = e \/ Before(b, e, z)
  BY <1>1, FollowingFacts
<1>3. EquationOK(b, e)
  BY <1>1 DEF EquationsOK
<1>4. Before(b, a, e) /\ a \in Live(b)
  <2>1. 1 \in DOMAIN b.op[e].args
    BY <1>1, Arities DEF AuxEquation
  <2> QED
    BY <2>1, <1>1, OperandFacts DEF Before
<1> HIDE DEF e
<1>5. a # v
  BY <1>3 DEF EquationOK
<1>6. Before(b, a, v)
  BY <1>1, <1>2, <1>4, <1>5, BeforeIsAnOrder
<1> QED
  BY <1>1, <1>2, <1>3, <1>6 DEF EquationOK

LEMMA BeginProductKeeps ==
  ASSUME Inv, BeginProduct
  PROVE  Inv'
<1> DEFINE m == MemoisedAll({Top.lhs, returned})
           before == Following(body, Top.val)
           g == [Top EXCEPT !.at = "factor", !.rhs = returned, !.before = before,
                            !.eraseMul = Degree[Top.lhs] + Degree[returned] > maxDegree]
<1>1. /\ stack # <<>> /\ CallersUnchanged /\ Top.at = "rhs" /\ returned # None
      /\ body.op[Top.val].kind = "mul"
      /\ body' = body /\ degreeMemo' = m /\ auxAssignments' = auxAssignments /\ rewrites' = rewrites
      /\ Stays(g) /\ returned' = None
  BY DEF BeginProduct, Stays
<1>2. /\ Top \in Frames /\ FrameOK(body, degreeMemo, maxDegree, Top)
      /\ IsValue(body, Top.val) /\ Top.val \in Live(body) /\ Before(body, Top.val, Top.useOp)
      /\ Held(body, degreeMemo, maxDegree, returned) /\ Before(body, returned, Top.val)
  BY TopFacts, <1>1
<1>3. IsBody(body) /\ IsBlock(body) /\ (ArgumentsApart(program) => CallsOK(body, phase, walk)) /\ EquationsOK(body)
  BY DEF Inv, IsBody, AuxOK
<1>4. Held(body, degreeMemo, maxDegree, Top.lhs) /\ Before(body, Top.lhs, Top.val) /\ Tall(degreeMemo, maxDegree, Top.val)
  BY <1>1, <1>2 DEF FrameOK
<1>5. /\ Keeps(body, degreeMemo, body, m, maxDegree) /\ MemoOK(body, m)
      /\ RewritesOK(body, m, maxDegree, rewrites) /\ AuxOK(body, m, maxDegree, auxAssignments)
      /\ \A v : Held(body, degreeMemo, maxDegree, v) => Held(body, m, maxDegree, v)
      /\ Top.lhs \in DOMAIN m /\ returned \in DOMAIN m
  <2>1. \A v \in {Top.lhs, returned} : IsValue(body, v)
    BY <1>2, <1>4 DEF Held
  <2> QED
    BY <2>1, LookedUp
<1>6. Tall(m, maxDegree, Top.val)
  BY <1>1, <1>2, <1>4, <1>5 DEF Keeps, Tall
<1> HIDE DEF m
<1>7. /\ Before(body, Top.val, before) /\ \A z \in Live(body) : Before(body, Top.val, z) => z = before \/ Before(body, before, z)
  BY <1>2, <1>3, FollowingFacts
<1>8. ~ AuxEquation(body, before)
  BY <1>1, <1>2, <1>3, FollowingIsNoEquation
<1> HIDE DEF before
<1>9. returned \in Nat /\ before \in Nat
  BY <1>2, <1>3, <1>7, LiveIsSome DEF Before
<1>10. /\ g \in Frames /\ g.val = Top.val /\ g.useOp = Top.useOp /\ g.at = "factor" /\ g.lhs = Top.lhs /\ g.rhs = returned
       /\ g.before = before
  <2> DEFINE e == Degree[Top.lhs] + Degree[returned] > maxDegree
  <2>1. e \in BOOLEAN
    OBVIOUS
  <2>2. g = [Top EXCEPT !.at = "factor", !.rhs = returned, !.before = before, !.eraseMul = e]
    OBVIOUS
  <2> HIDE DEF e, g
  <2> QED
    BY <2>1, <2>2, <1>2, <1>9 DEF Frames
<1> HIDE DEF g
<1>11. FrameOK(body, m, maxDegree, g)
  BY <1>1, <1>2, <1>4, <1>5, <1>6, <1>10 DEF FrameOK, LoweredRoots
<1>12. FactorOK(body, m, maxDegree, g)
  <2>1. Before(body, Top.lhs, before) /\ Before(body, returned, before)
    BY <1>2, <1>3, <1>4, <1>7, BeforeIsAnOrder
  <2>2. \A z : Before(body, Top.val, z) => ~ Before(body, z, before)
    BY <1>3, <1>7, BeforeIsAnOrder
  <2>3. \A id \in Live(body) : Top.val \in ToSet(body.op[id].args) => Before(body, Top.val, id)
    BY <1>3, OperandFacts DEF ToSet
  <2>4. Held(body, m, maxDegree, returned)
    BY <1>2, <1>5
  <2> QED
    BY <2>1, <2>2, <2>3, <2>4, <1>1, <1>2, <1>5, <1>7, <1>8, <1>10 DEF FactorOK
<1> QED
  BY <1>1, <1>3, <1>5, <1>10, <1>11, <1>12, FactorStep

(* A sum or a negation gets lowered operands, which are held. *)
LEMMA RootStep ==
  ASSUME Inv, NEW v \in Live(body), body.op[v].kind \in Sums \cup {"neg"},
         NEW args \in Seq(Nat), DOMAIN args = DOMAIN body.op[v].args, NEW vs, NEW d \in Nat,
         \A k \in DOMAIN args : IsValue(body, args[k]) /\ Before(body, args[k], v) /\ args[k] \in vs,
         \A u \in vs : IsValue(body, u)
  PROVE  LET c == SetArgs(body, v, args)
             m == Put(MemoisedAll(vs), v, d)
         IN  /\ IsBody(c) /\ Keeps(body, degreeMemo, c, m, maxDegree) /\ MemoOK(c, m)
             /\ RewritesOK(c, m, maxDegree, Overlay(rewrites, [z \in {v} |-> v]))
             /\ AuxOK(c, m, maxDegree, auxAssignments)
             /\ (ArgumentsApart(program) => CallsOK(c, phase, walk))
             /\ Live(c) = Live(body) /\ Held(c, m, maxDegree, v)
             /\ \A x, y : Before(c, x, y) <=> Before(body, x, y)
<1> DEFINE c == SetArgs(body, v, args)
           m1 == MemoisedAll(vs)
           m == Put(m1, v, d)
<1>1. /\ IsBody(body) /\ AuxOK(body, degreeMemo, maxDegree, auxAssignments)
      /\ RewritesOK(body, degreeMemo, maxDegree, rewrites) /\ WalkOK(body, phase, walk, current, slots)
      /\ (ArgumentsApart(program) => CallsOK(body, phase, walk))
  BY DEF Inv
<1>2. MemoOK(body, m1) /\ Extended(degreeMemo, m1, None)
  BY LookedUp
<1>3. /\ v # None /\ v \in DOMAIN body.op /\ None \notin Live(body)
  BY <1>1, LiveIsSome
<1>4. /\ body.op[v].kind \notin {"mul", "aux", "call", "contain", "eq"} /\ IsValue(body, v)
      /\ OperandKinds(body.op[v].kind) = Expressions
  BY DEF Sums, IsValue, Expressions, OperandKinds
<1>5. Reargued(body, c, v)
  BY <1>1, <1>4, RearguedSet DEF IsValue
<1> HIDE DEF m1, c
<1>6. DOMAIN m = DOMAIN m1 \cup {v} /\ m[v] = d /\ \A z \in DOMAIN m1 : z # v => m[z] = m1[z]
  BY DEF Put
<1> HIDE DEF m
<1>7. MemoOK(body, m) /\ Extended(degreeMemo, m, v)
  <2>1. \A z \in DOMAIN degreeMemo : z # None
    BY <1>1, BlockFacts DEF Inv, MemoOK, IsBody, None
  <2>2. Extended(degreeMemo, m, v)
    BY <2>1, <1>2, <1>6 DEF Extended
  <2>3. MemoOK(body, m)
    BY <1>2, <1>3, <1>4, <1>6 DEF MemoOK
  <2> QED
    BY <2>2, <2>3
<1>8. ~ AuxEquation(body, v)
  BY <1>4 DEF AuxEquation
<1>9. Keeps(body, degreeMemo, c, m, maxDegree) /\ MemoOK(c, m) /\ AuxOK(c, m, maxDegree, auxAssignments)
  BY <1>1, <1>4, <1>5, <1>7, <1>8, RearguedStep
<1>10. IsBody(c) /\ Live(c) = Live(body) /\ c.op[v].kind = body.op[v].kind /\ DOMAIN c.op = DOMAIN body.op
       /\ \A x, y : Before(c, x, y) <=> Before(body, x, y)
  BY <1>5 DEF Reargued
<1>11. Held(c, m, maxDegree, v)
  BY <1>4, <1>10 DEF Held, IsValue
<1>12. ArgumentsApart(program) => CallsOK(c, phase, walk)
  <2>1. Unvisited(body, phase, walk) \subseteq OfKind(body, "call") \/ ~ (phase \in Walking)
    BY <1>1 DEF Unvisited, WalkOK, Walked, Walking
  <2>2. phase \notin Walking => Unvisited(body, phase, walk) = {}
    BY <1>1 DEF Unvisited, WalkOK, Walked, Walking
  <2>3. Unvisited(body, phase, walk) \subseteq OfKind(body, "call")
    BY <2>1, <2>2
  <2>4. v \notin OfKind(body, "call")
    BY <1>4 DEF OfKind
  <2> QED
    BY <2>3, <2>4, <1>1, <1>5, RearguedCalls
<1>13. RewritesOK(c, m, maxDegree, Overlay(rewrites, [z \in {v} |-> v]))
  <2>1. RewritesOK(c, m, maxDegree, rewrites)
    BY <1>1, <1>9, RewritesKept
  <2>2. v \in DOMAIN c.op /\ (v \in Live(c) => Held(c, m, maxDegree, v))
    BY <1>3, <1>10, <1>11
  <2> QED
    BY <2>1, <2>2 DEF RewritesOK, Overlay
<1> QED
  BY <1>9, <1>10, <1>11, <1>12, <1>13 DEF m, c, m1

LEMMA ReturnRootKeeps ==
  ASSUME Inv, ReturnRoot
  PROVE  Inv'
<1> DEFINE args == IF Top.at = "lhs" THEN <<returned>> ELSE <<Top.lhs, returned>>
           d == IF Top.at = "lhs" THEN Degree[returned] ELSE Larger(Degree[Top.lhs], Degree[returned])
           c == SetArgs(body, Top.val, args)
           m == Put(MemoisedAll(ToSet(args)), Top.val, d)
<1>1. /\ stack # <<>> /\ returned # None /\ CallersUnchanged
      /\ \/ Top.at = "rhs" /\ body.op[Top.val].kind \in Sums
         \/ Top.at = "lhs" /\ body.op[Top.val].kind = "neg"
      /\ body' = c /\ degreeMemo' = m
      /\ rewrites' = Overlay(rewrites, [z \in {Top.val} |-> Top.val])
      /\ Return(Top.val) /\ auxAssignments' = auxAssignments
  BY DEF ReturnRoot, IdentityIfAbsent
<1>2. /\ FrameOK(body, degreeMemo, maxDegree, Top)
      /\ Top.val \in Live(body) /\ Before(body, Top.val, Top.useOp)
      /\ Held(body, degreeMemo, maxDegree, returned) /\ Before(body, returned, Top.val)
  BY TopFacts, <1>1
<1>3. Top.at = "rhs" => Held(body, degreeMemo, maxDegree, Top.lhs) /\ Before(body, Top.lhs, Top.val)
  BY <1>2 DEF FrameOK
<1>4. IsBody(body) /\ MemoOK(body, degreeMemo)
  BY DEF Inv
<1>5. returned \in Nat /\ IsValue(body, returned) /\ Degree[returned] \in Nat
      /\ (Top.at = "rhs" => Top.lhs \in Nat /\ IsValue(body, Top.lhs) /\ Degree[Top.lhs] \in Nat)
  <2>1. IsValue(body, returned) /\ (Top.at = "rhs" => IsValue(body, Top.lhs))
    BY <1>2, <1>3 DEF Held
  <2>2. \A x : IsValue(body, x) => Degree[x] \in Nat /\ x \in Nat
    BY <1>4, Degrees, LiveIsSome DEF Degree, IsValue
  <2> QED
    BY <2>1, <2>2
<1>6. d \in Nat
  BY <1>1, <1>5 DEF Larger
<1>7. /\ args \in Seq(Nat) /\ DOMAIN args = DOMAIN body.op[Top.val].args
      /\ \A k \in DOMAIN args : IsValue(body, args[k]) /\ Before(body, args[k], Top.val)
  <2>1. CASE Top.at = "lhs"
    <3>1. args = <<returned>> /\ body.op[Top.val].kind = "neg"
      BY <2>1, <1>1
    <3>2. DOMAIN body.op[Top.val].args = 1..1
      BY <3>1, <1>2, <1>4, Arities
    <3>3. <<returned>> \in Seq(Nat) /\ DOMAIN <<returned>> = 1..1 /\ \A k \in 1..1 : <<returned>>[k] = returned
      BY <1>5
    <3> QED
      BY <3>1, <3>2, <3>3, <1>2, <1>5
  <2>2. CASE Top.at # "lhs"
    <3>1. args = <<Top.lhs, returned>> /\ body.op[Top.val].kind \in Sums /\ Top.at = "rhs"
      BY <2>2, <1>1
    <3>2. DOMAIN body.op[Top.val].args = 1..2
      BY <3>1, <1>2, <1>4, Arities
    <3> DEFINE l == Top.lhs
    <3>3. l \in Nat
      BY <3>1, <1>5
    <3> HIDE DEF l
    <3>4. /\ <<l, returned>> \in Seq(Nat) /\ DOMAIN <<l, returned>> = 1..2
          /\ \A k \in 1..2 : <<l, returned>>[k] = l \/ <<l, returned>>[k] = returned
      BY <3>3, <1>5
    <3>5. args = <<l, returned>> /\ IsValue(body, l) /\ Before(body, l, Top.val)
      BY <3>1, <1>3, <1>5 DEF l
    <3> QED
      BY <3>2, <3>4, <3>5, <1>2, <1>5
  <2> QED
    BY <2>1, <2>2
<1> HIDE DEF args
<1>8. \A k \in DOMAIN args : args[k] \in ToSet(args)
  BY DEF ToSet
<1>9. \A u \in ToSet(args) : IsValue(body, u)
  BY <1>7 DEF ToSet
<1>10. body.op[Top.val].kind \in Sums \cup {"neg"}
  BY <1>1
<1> HIDE DEF d
<1>11. /\ IsBody(c) /\ Keeps(body, degreeMemo, c, m, maxDegree) /\ MemoOK(c, m)
       /\ RewritesOK(c, m, maxDegree, Overlay(rewrites, [z \in {Top.val} |-> Top.val]))
       /\ AuxOK(c, m, maxDegree, auxAssignments)
       /\ (ArgumentsApart(program) => CallsOK(c, phase, walk))
       /\ Live(c) = Live(body) /\ Held(c, m, maxDegree, Top.val)
       /\ \A x, y : Before(c, x, y) <=> Before(body, x, y)
  <2> DEFINE v == Top.val
             vs == ToSet(args)
  <2>1. /\ v \in Live(body) /\ body.op[v].kind \in Sums \cup {"neg"} /\ args \in Seq(Nat) /\ DOMAIN args = DOMAIN body.op[v].args
        /\ \A k \in DOMAIN args : IsValue(body, args[k]) /\ Before(body, args[k], v) /\ args[k] \in vs
        /\ \A u \in vs : IsValue(body, u)
    BY <1>2, <1>7, <1>8, <1>9, <1>10
  <2>2. c = SetArgs(body, v, args) /\ m = Put(MemoisedAll(vs), v, d)
    OBVIOUS
  <2> HIDE DEF vs, v, c, m
  <2>3. /\ IsBody(c) /\ Keeps(body, degreeMemo, c, m, maxDegree) /\ MemoOK(c, m)
        /\ RewritesOK(c, m, maxDegree, Overlay(rewrites, [z \in {v} |-> v]))
        /\ AuxOK(c, m, maxDegree, auxAssignments)
        /\ (ArgumentsApart(program) => CallsOK(c, phase, walk))
        /\ Live(c) = Live(body) /\ Held(c, m, maxDegree, v)
        /\ \A x, y : Before(c, x, y) <=> Before(body, x, y)
    <3>1. \A u, a, s : /\ u \in Live(body) /\ body.op[u].kind \in Sums \cup {"neg"} /\ a \in Seq(Nat)
                       /\ DOMAIN a = DOMAIN body.op[u].args
                       /\ \A k \in DOMAIN a : IsValue(body, a[k]) /\ Before(body, a[k], u) /\ a[k] \in s
                       /\ \A x \in s : IsValue(body, x)
            => LET cc == SetArgs(body, u, a)
                   mm == Put(MemoisedAll(s), u, d)
               IN  /\ IsBody(cc) /\ Keeps(body, degreeMemo, cc, mm, maxDegree) /\ MemoOK(cc, mm)
                   /\ RewritesOK(cc, mm, maxDegree, Overlay(rewrites, [z \in {u} |-> u]))
                   /\ AuxOK(cc, mm, maxDegree, auxAssignments)
                   /\ (ArgumentsApart(program) => CallsOK(cc, phase, walk))
                   /\ Live(cc) = Live(body) /\ Held(cc, mm, maxDegree, u)
                   /\ \A x, y : Before(cc, x, y) <=> Before(body, x, y)
      BY <1>6, RootStep
    <3> QED
      BY <3>1, <2>1, <2>2, ZenonT(90)
  <2> QED
    BY <2>3 DEF v
<1> HIDE DEF c, m
<1>12. Before(body', Top.val, Top.useOp)
  BY <1>1, <1>2, <1>11
<1> QED
  BY <1>1, <1>11, <1>12, ReturnStep

(* The users of a value that stays are those it had. *)
LEMMA UsersOfOthers ==
  ASSUME IsBody(body), AuxOK(body, degreeMemo, maxDegree, auxAssignments),
         NEW value, IsValue(body, value), NEW before \in Live(body), Before(body, value, before),
         NEW aux \in Allocatable(body), NEW b1, Replaced(body, b1, value, aux, before),
         NEW x \in Live(body), x # value, NEW id
  PROVE  LET c == InsertAux(b1, value, aux, before)
         IN  id \in Live(c) /\ x \in ToSet(c.op[id].args) => id \in Live(body) /\ x \in ToSet(body.op[id].args)
<1> DEFINE n == Len(auxAssignments) + 1
           eq == Larger(Fresh(body), aux + 1)
           operations == AuxOperations(value, aux, eq, n)
           c == InsertAux(b1, value, aux, before)
           ids == {aux, eq}
<1> SUFFICES ASSUME id \in Live(c), x \in ToSet(c.op[id].args)
             PROVE  id \in Live(body) /\ x \in ToSet(body.op[id].args)
  OBVIOUS
<1>1. value \in Nat /\ IsBlock(body) /\ n \in Nat
  BY BlockFacts, LenProperties DEF IsValue, IsBody, AuxOK
<1>2. aux \in Nat /\ eq \in Nat /\ aux < eq /\ aux \notin Live(body)
  BY <1>1, AuxAddresses, Zenon
<1>3. Inserted(body, c, ids, operations, value, aux, before)
  BY <1>1, AuxInserted
<1>4. /\ operations[aux] = Operation("aux", <<>>, n)
      /\ operations[eq] = Operation("eq", <<aux, value>>, 0)
  BY <1>2 DEF AuxOperations
<1> HIDE DEF operations, eq, c, n
<1>5. c.op[aux].args = <<>> /\ c.op[eq].args = <<aux, value>>
  BY <1>3, <1>4 DEF Operation, Inserted
<1>6. PICK k \in DOMAIN c.op[id].args : c.op[id].args[k] = x
  BY DEF ToSet
<1>7. id # aux
  BY <1>5, <1>6
<1>8. id # eq
  <2> SUFFICES ASSUME id = eq PROVE FALSE
    OBVIOUS
  <2>1. k \in 1..2 /\ (x = aux \/ x = value)
    BY <1>5, <1>6
  <2> QED
    BY <2>1, <1>2
<1>9. id \in Live(body)
  BY <1>3, <1>7, <1>8 DEF Inserted
<1>10. k \in DOMAIN body.op[id].args /\ body.op[id].args[k] = x
  BY <1>2, <1>3, <1>6, <1>9 DEF Inserted
<1> QED
  BY <1>9, <1>10 DEF ToSet

LEMMA FactorKeeps ==
  ASSUME Inv, Factor
  PROVE  Inv'
<1> DEFINE value == IF degreeMemo[Top.lhs] >= degreeMemo[Top.rhs] THEN Top.lhs ELSE Top.rhs
           before == Top.before
<1>1. PICK aux \in Allocatable(body) :
        /\ stack # <<>> /\ Top.at = "factor" /\ ProductDegree > maxDegree
        /\ body' = InsertAux(ReplaceSubsequentUsesWith(body, value, aux, before), value, aux, before)
        /\ RecordAux(value, aux) /\ rewrites' = Put(rewrites, value, aux)
        /\ stack' = <<[Top EXCEPT !.lhs = Remapped(Top.lhs, value, aux),
                                  !.rhs = Remapped(Top.rhs, value, aux)]>> \o Tail(stack)
        /\ returned' = returned /\ CallersUnchanged
  BY DEF Factor
<1> DEFINE b1 == ReplaceSubsequentUsesWith(body, value, aux, before)
           c == InsertAux(b1, value, aux, before)
           m == Put(degreeMemo, aux, 1)
           A2 == Append(auxAssignments, [computed |-> value, aux |-> aux])
           g == [Top EXCEPT !.lhs = Remapped(Top.lhs, value, aux), !.rhs = Remapped(Top.rhs, value, aux)]
<1>2. auxAssignments' = A2 /\ degreeMemo' = m /\ body' = c
  BY <1>1 DEF RecordAux
<1>3. /\ IsBody(body) /\ IsBlock(body) /\ MemoOK(body, degreeMemo) /\ AuxOK(body, degreeMemo, maxDegree, auxAssignments)
      /\ RewritesOK(body, degreeMemo, maxDegree, rewrites) /\ WalkOK(body, phase, walk, current, slots)
      /\ (ArgumentsApart(program) => CallsOK(body, phase, walk)) /\ maxDegree \in Nat /\ maxDegree >= 2
  BY Bounds DEF Inv, IsBody
<1>4. /\ Top \in Frames /\ FrameOK(body, degreeMemo, maxDegree, Top) /\ FactorOK(body, degreeMemo, maxDegree, Top)
      /\ IsValue(body, Top.val) /\ Top.val \in Live(body) /\ Before(body, Top.val, Top.useOp) /\ returned = None
  BY <1>1, TopFacts
<1>5. /\ Held(body, degreeMemo, maxDegree, Top.lhs) /\ Held(body, degreeMemo, maxDegree, Top.rhs)
      /\ Top.lhs \in DOMAIN degreeMemo /\ Top.rhs \in DOMAIN degreeMemo /\ body.op[Top.val].kind = "mul"
      /\ Before(body, Top.val, before) /\ Before(body, Top.lhs, before) /\ Before(body, Top.rhs, before)
      /\ ~ Before(body, Top.useOp, before) /\ ~ AuxEquation(body, before)
      /\ \A id \in Live(body) : Top.val \in ToSet(body.op[id].args) => ~ Before(body, id, before)
      /\ Tall(degreeMemo, maxDegree, Top.val)
  BY <1>1, <1>4 DEF FrameOK, FactorOK
<1>6. /\ Held(body, degreeMemo, maxDegree, value) /\ Before(body, value, before)
      /\ IsValue(body, value) /\ value \in Live(body)
  BY <1>5 DEF Held, IsValue
<1>7. body.op[value].kind # "aux"
  <2>1. degreeMemo[Top.lhs] \in Nat /\ degreeMemo[Top.rhs] \in Nat
    BY <1>3, <1>5 DEF MemoOK, Held
  <2>2. degreeMemo[Top.lhs] + degreeMemo[Top.rhs] > maxDegree
    BY <1>1 DEF ProductDegree
  <2>3. degreeMemo[value] \in Nat /\ degreeMemo[value] >= degreeMemo[Top.lhs] /\ degreeMemo[value] >= degreeMemo[Top.rhs] /\ value \in DOMAIN degreeMemo
    BY <2>1, <1>5
  <2> HIDE DEF value
  <2>4. degreeMemo[value] # 1
    BY <2>1, <2>2, <2>3, <1>3
  <2> QED
    BY <2>3, <2>4, <1>3, <1>6 DEF MemoOK
<1>8. before \in Live(body) /\ value # Top.val
  BY <1>5, <1>6 DEF Before, Held, Tall
<1> HIDE DEF value, before
<1>9. aux \in Nat
  BY <1>3, BlockFacts DEF Allocatable
<1>10. Replaced(body, b1, value, aux, before)
  BY <1>3, <1>8, <1>9, ReplacedSubsequent
<1>11. AuxStepped(c, m, value, aux, before)
  <2> HIDE DEF b1
  <2> QED
    BY <1>3, <1>5, <1>6, <1>7, <1>8, <1>10, AuxStep
<1>12. \A id \in Live(c) : Top.val \in ToSet(c.op[id].args) => id \in Live(body) /\ Top.val \in ToSet(body.op[id].args)
  <2> HIDE DEF b1
  <2> QED
    BY <1>3, <1>4, <1>6, <1>8, <1>10, UsersOfOthers
<1>13. m = Put(degreeMemo, aux, 1)
  OBVIOUS
<1> HIDE DEF c, m, b1
<1>14. /\ IsBody(c) /\ Keeps(body, degreeMemo, c, m, maxDegree) /\ MemoOK(c, m)
       /\ aux \notin Live(body) /\ Held(c, m, maxDegree, aux) /\ c.op[aux].kind = "aux" /\ aux \in DOMAIN m
       /\ AuxOK(c, m, maxDegree, A2)
       /\ OfKind(c, "call") \subseteq OfKind(body, "call")
       /\ \A id \in OfKind(body, "call") : Tamer(body, body.op[id].args, c, c.op[id].args)
       /\ Live(body) \subseteq Live(c)
       /\ \A x \in Live(body) : /\ Before(c, x, aux) <=> Before(body, x, before)
                                /\ Before(c, aux, x) <=> ~ Before(body, x, before)
  BY <1>11 DEF AuxStepped
<1> HIDE DEF A2
<1>15. RewritesOK(c, m, maxDegree, Put(rewrites, value, aux))
  <2>1. RewritesOK(c, m, maxDegree, rewrites)
    BY <1>3, <1>14, RewritesKept
  <2>2. aux \in DOMAIN c.op
    BY <1>14, LiveIsSome DEF Held, IsValue
  <2> QED
    BY <2>1, <2>2, <1>14, PutRewrite
<1>16. ArgumentsApart(program) => CallsOK(c, phase, walk)
  <2>1. walk \subseteq OfKind(body, "call") \/ phase \in {"equalities", "containments"}
    BY <1>3 DEF WalkOK, Walked
  <2> QED
    BY <2>1, <1>3, <1>14, CallsKept
<1> DEFINE l == Remapped(Top.lhs, value, aux)
           r == Remapped(Top.rhs, value, aux)
<1>17. /\ l \in Nat /\ r \in Nat /\ (l = aux \/ l = Top.lhs) /\ (r = aux \/ r = Top.rhs)
  BY <1>4, <1>9 DEF Remapped, Frames
<1>18. g = [Top EXCEPT !.lhs = l, !.rhs = r]
  OBVIOUS
<1> HIDE DEF l, r, g
<1>19. /\ g \in Frames /\ g.val = Top.val /\ g.useOp = Top.useOp /\ g.at = "factor" /\ g.lhs = l /\ g.rhs = r
       /\ g.before = before
  BY <1>1, <1>4, <1>17, <1>18 DEF Frames, before
<1>20. Top.val \in Live(c) /\ Top.useOp \in Live(c) /\ Top.useOp \in Live(body)
  BY <1>4, <1>14 DEF Before
<1>21. /\ Held(c, m, maxDegree, Top.lhs) /\ Held(c, m, maxDegree, Top.rhs)
       /\ Before(c, Top.lhs, before) /\ Before(c, Top.rhs, before) /\ Before(c, Top.val, before)
       /\ ~ Before(c, Top.useOp, before) /\ Before(c, aux, before)
  <2>1. Top.lhs \in Live(body) /\ Top.rhs \in Live(body)
    BY <1>5 DEF Held, IsValue
  <2>2. ~ Before(body, before, before)
    BY <1>3, BeforeIsAnOrder
  <2>3. \A x, y \in Live(body) : Before(c, x, y) <=> Before(body, x, y)
    BY <1>14 DEF Keeps
  <2> QED
    BY <2>1, <2>2, <2>3, <1>5, <1>8, <1>14, <1>20, <1>4, HeldKept
<1>22. /\ Held(c, m, maxDegree, l) /\ Held(c, m, maxDegree, r) /\ l \in DOMAIN m /\ r \in DOMAIN m
       /\ Before(c, l, before) /\ Before(c, r, before)
  <2>1. Top.lhs \in DOMAIN m /\ Top.rhs \in DOMAIN m
    BY <1>5, <1>13 DEF Put
  <2> QED
    BY <2>1, <1>14, <1>17, <1>21
<1>23. FrameOK(c, m, maxDegree, g)
  <2>1. FrameOK(c, m, maxDegree, Top)
    BY <1>4, <1>14, <1>20, FrameKept
  <2> QED
    BY <2>1, <1>1, <1>19, <1>22 DEF FrameOK
<1>24. FactorOK(c, m, maxDegree, g)
  <2>1. c.op[Top.val].kind = "mul" /\ ~ AuxEquation(c, before)
    BY <1>4, <1>5, <1>8, <1>14 DEF Keeps, AuxEquation
  <2>2. \A id \in Live(c) : Top.val \in ToSet(c.op[id].args) => ~ Before(c, id, before)
    BY <1>5, <1>8, <1>12, <1>14 DEF Keeps
  <2> QED
    BY <2>1, <2>2, <1>19, <1>21, <1>22 DEF FactorOK
<1>25. Stays(g) /\ returned' = None
  BY <1>1, <1>4 DEF Stays, g, l, r
<1> QED
  BY <1>1, <1>2, <1>14, <1>15, <1>16, <1>19, <1>23, <1>24, <1>25, FactorStep

LEMMA ReturnProductKeeps ==
  ASSUME Inv, ReturnProduct
  PROVE  Inv'
<1>1. PICK mulVal \in Allocatable(body) :
        LET mul == [id \in {mulVal} |-> Operation("mul", <<Top.lhs, Top.rhs>>, 0)]
        IN  /\ body' = IF Top.eraseMul
                       THEN Erase(Insert(ReplaceAllUses(body, Top.val, mulVal), <<mulVal>>, mul,
                                         Top.before), Top.val)
                       ELSE Insert(body, <<mulVal>>, mul, Top.before)
            /\ degreeMemo' = Put(degreeMemo, mulVal, ProductDegree)
            /\ rewrites' = Put(rewrites, Top.val, mulVal)
            /\ Return(mulVal)
  BY DEF ReturnProduct
<1>2. /\ stack # <<>> /\ Top.at = "factor" /\ ProductDegree <= maxDegree /\ CallersUnchanged
      /\ auxAssignments' = auxAssignments
  BY DEF ReturnProduct
<1>3. /\ IsBody(body) /\ IsBlock(body) /\ MemoOK(body, degreeMemo) /\ AuxOK(body, degreeMemo, maxDegree, auxAssignments)
      /\ RewritesOK(body, degreeMemo, maxDegree, rewrites) /\ WalkOK(body, phase, walk, current, slots)
      /\ (ArgumentsApart(program) => CallsOK(body, phase, walk))
  BY DEF Inv, IsBody
<1>4. /\ FrameOK(body, degreeMemo, maxDegree, Top) /\ FactorOK(body, degreeMemo, maxDegree, Top)
      /\ Before(body, Top.val, Top.useOp)
  BY <1>2, TopFacts
<1>5. ProductDegree \in Nat
  <2>1. Held(body, degreeMemo, maxDegree, Top.lhs) /\ Held(body, degreeMemo, maxDegree, Top.rhs)
        /\ Top.lhs \in DOMAIN degreeMemo /\ Top.rhs \in DOMAIN degreeMemo
    BY <1>2, <1>4 DEF FrameOK, FactorOK
  <2>2. degreeMemo[Top.lhs] \in Nat /\ degreeMemo[Top.rhs] \in Nat
    BY <2>1, <1>3 DEF MemoOK, Held
  <2> QED
    BY <2>2 DEF ProductDegree
<1> DEFINE c == body'
           m == degreeMemo'
<1>6. ProductStepped(c, m, Top, mulVal)
  <2> DEFINE f == Top
             d == ProductDegree
  <2>1. f.at = "factor" /\ d \in Nat /\ d <= maxDegree
    BY <1>2, <1>5
  <2>2. FrameOK(body, degreeMemo, maxDegree, f) /\ FactorOK(body, degreeMemo, maxDegree, f)
    BY <1>4
  <2>3. LET mul == [id \in {mulVal} |-> Operation("mul", <<f.lhs, f.rhs>>, 0)]
            cc == IF f.eraseMul
                  THEN Erase(Insert(ReplaceAllUses(body, f.val, mulVal), <<mulVal>>, mul, f.before), f.val)
                  ELSE Insert(body, <<mulVal>>, mul, f.before)
        IN  ProductStepped(cc, Put(degreeMemo, mulVal, d), f, mulVal)
    <3> HIDE DEF f, d
    <3> QED
      BY <2>1, <2>2, <1>3, ProductStep
  <2> QED
    BY <2>3, <1>1
<1>7. /\ IsBody(c) /\ Keeps(body, degreeMemo, c, m, maxDegree) /\ MemoOK(c, m)
      /\ Held(c, m, maxDegree, mulVal)
      /\ AuxOK(c, m, maxDegree, auxAssignments)
      /\ OfKind(c, "call") \subseteq OfKind(body, "call")
      /\ \A id \in OfKind(body, "call") : Tamer(body, body.op[id].args, c, c.op[id].args)
      /\ \A x \in Live(body) : x # Top.val => x \in Live(c)
      /\ \A x \in Live(body) : x # Top.val /\ ~ Before(body, x, Top.before) => Before(c, mulVal, x)
  BY <1>6 DEF ProductStepped
<1>8. Return(mulVal) /\ rewrites' = Put(rewrites, Top.val, mulVal)
  BY <1>1
<1> HIDE DEF c, m
<1>9. RewritesOK(c, m, maxDegree, Put(rewrites, Top.val, mulVal))
  <2>1. RewritesOK(c, m, maxDegree, rewrites)
    BY <1>3, <1>7, RewritesKept
  <2>2. mulVal \in DOMAIN c.op
    BY <1>7, LiveIsSome DEF Held, IsValue
  <2> QED
    BY <2>1, <2>2, <1>7, PutRewrite
<1>10. ArgumentsApart(program) => CallsOK(c, phase, walk)
  <2>1. walk \subseteq OfKind(body, "call") \/ phase \in {"equalities", "containments"}
    BY <1>3 DEF WalkOK, Walked
  <2> QED
    BY <2>1, <1>3, <1>7, CallsKept
<1>11. Before(c, mulVal, Top.useOp)
  <2>1. Top.useOp \in Live(body) /\ Top.useOp # Top.val /\ ~ Before(body, Top.useOp, Top.before)
    BY <1>3, <1>4, BeforeIsAnOrder DEF FactorOK
  <2> QED
    BY <2>1, <1>7
<1>12. /\ IsBody(body') /\ Keeps(body, degreeMemo, body', degreeMemo', maxDegree) /\ MemoOK(body', degreeMemo')
       /\ RewritesOK(body', degreeMemo', maxDegree, rewrites')
       /\ (ArgumentsApart(program) => CallsOK(body', phase, walk))
       /\ AuxOK(body', degreeMemo', maxDegree, auxAssignments')
       /\ Held(body', degreeMemo', maxDegree, mulVal) /\ Before(body', mulVal, Top.useOp)
       /\ \A x \in Live(body) : x # Top.val => x \in Live(body')
  BY <1>2, <1>7, <1>8, <1>9, <1>10, <1>11 DEF c, m
<1> QED
  BY <1>2, <1>8, <1>12, ReturnStep

-----------------------------------------------------------------------------
(* Steps of runOnOperation *)

(* What a step of a walk has to leave true. *)
WalkDone ==
  /\ IsBody(body') /\ MemoOK(body', degreeMemo')
  /\ RewritesOK(body', degreeMemo', maxDegree, rewrites')
  /\ WalkOK(body', phase', walk', current', slots')
  /\ (~ (stack' = <<>> /\ returned' = None) => slots' # {})
  /\ StackOK(body', degreeMemo', maxDegree, stack', current')
  /\ ReturnedOK(body', degreeMemo', maxDegree, stack', returned', current')
  /\ CallStep(body', degreeMemo', maxDegree, phase', current', slots', call.operands', stack', returned')
  /\ (ArgumentsApart(program) => CallsOK(body', phase', walk'))
  /\ AuxOK(body', degreeMemo', maxDegree, auxAssignments')

(* A step of a walk that leaves the block alone keeps the invariant. *)
LEMMA WalkStep ==
  ASSUME Inv, WalkUnchanged, phase \in Walking \cup {"checks"}, WalkDone
  PROVE  Inv'
<1>1. program' = program /\ maxDegree' = maxDegree /\ order' = order /\ visiting' = visiting
  BY DEF WalkUnchanged
<1>2. OrderOK'
  <2>1. order' = <<>> /\ visiting' = <<>> /\ Len(order') = 0
    BY <1>1 DEF Inv, OrderOK
  <2> QED
    BY <2>1 DEF OrderOK
<1> QED
  BY <1>1, <1>2 DEF Inv, WalkDone, Idle

(* No activation is a stack. *)
LEMMA EmptyStack ==
  ASSUME NEW b, NEW memo, NEW bound, NEW cur
  PROVE  StackOK(b, memo, bound, <<>>, cur) /\ ReturnedOK(b, memo, bound, <<>>, None, cur)
BY DEF StackOK, ReturnedOK

(* So is the first activation. *)
LEMMA OneFrame ==
  ASSUME NEW b, NEW memo, NEW bound, NEW cur, NEW f \in Frames, FrameOK(b, memo, bound, f), f.useOp = cur, f.at = "entry"
  PROVE  /\ StackOK(b, memo, bound, <<f>>, cur) /\ ReturnedOK(b, memo, bound, <<f>>, None, cur)
         /\ Bottom(<<f>>) = f.val /\ <<f>> # <<>>
<1> DEFINE st == <<f>>
<1>1. st \in Seq(Frames) /\ Len(st) = 1 /\ st[1] = f /\ st # <<>> /\ Head(st) = f
  OBVIOUS
<1> HIDE DEF st
<1>2. \A i \in 1..Len(st) : i = 1
  BY <1>1
<1>3. StackOK(b, memo, bound, st, cur)
  BY <1>1, <1>2 DEF StackOK
<1>4. ReturnedOK(b, memo, bound, st, None, cur) /\ Bottom(st) = f.val
  BY <1>1 DEF ReturnedOK, Bottom
<1> QED
  BY <1>1, <1>3, <1>4 DEF st

(* Each step of the walks keeps the invariant. *)
LEMMA NextWalkKeeps ==
  ASSUME Inv, NextWalk
  PROVE  Inv'
<1>1. /\ stack = <<>> /\ returned = None /\ walk = {} /\ slots = {} /\ current = None
      /\ \/ phase = "equalities" /\ phase' = "containments" /\ walk' = OfKind(body, "contain")
         \/ phase = "containments" /\ phase' = "calls" /\ walk' = OfKind(body, "call")
         \/ phase = "calls" /\ phase' = "checks" /\ walk' = walk
      /\ current' = current /\ slots' = slots /\ call' = call /\ stack' = stack /\ returned' = returned
      /\ body' = body /\ degreeMemo' = degreeMemo /\ rewrites' = rewrites /\ auxAssignments' = auxAssignments
      /\ WalkUnchanged
  BY DEF NextWalk, Idle, ExpressionUnchanged
<1>2. None \notin Live(body)
  BY LiveIsSome DEF Inv
<1>3. WalkOK(body, phase', walk', None, {})
  <2>1. phase' \in LoweringPhases /\ walk' \subseteq Walked(body, phase')
    BY <1>1 DEF LoweringPhases, Walked
  <2>2. None \notin walk'
    BY <1>1, <1>2 DEF OfKind
  <2> QED
    BY <2>1, <2>2 DEF WalkOK
<1>4. ArgumentsApart(program) => CallsOK(body, phase', walk')
  BY <1>1 DEF Inv, CallsOK, Unvisited
<1>5. WalkDone
  BY <1>1, <1>3, <1>4 DEF Inv, WalkDone, CallStep
<1> QED
  BY <1>1, <1>5, WalkStep DEF Walking

(* The next operation of a walk. *)
LEMMA VisitFacts ==
  ASSUME Inv, walk # {}
  PROVE  Visit \in walk /\ Visit \in Walked(body, phase) /\ Visit \in Live(body) /\ Visit # None
<1>1. walk \subseteq Walked(body, phase) /\ IsBlock(body)
  BY DEF Inv, WalkOK, IsBody
<1>2. Walked(body, phase) \subseteq Live(body)
  BY DEF Walked, OfKind
<1>3. Visit \in walk
  BY <1>1, <1>2, FirstOf DEF Visit
<1> QED
  BY <1>1, <1>2, <1>3, LiveIsSome DEF Inv

LEMMA VisitEqualityKeeps ==
  ASSUME Inv, VisitEquality
  PROVE  Inv'
<1> DEFINE args == body.op[Visit].args
           m == MemoisedAll(ToSet(args))
<1>1. /\ phase = "equalities" /\ stack = <<>> /\ returned = None /\ walk # {}
      /\ degreeMemo' = m /\ slots' \subseteq {1, 2}
      /\ current' = Visit /\ walk' = walk \ {Visit}
      /\ phase' = phase /\ call' = call /\ stack' = stack /\ returned' = returned /\ body' = body
      /\ rewrites' = rewrites /\ auxAssignments' = auxAssignments
      /\ WalkUnchanged
  BY DEF VisitEquality, Idle
<1>2. Visit \in walk /\ Visit \in Walked(body, phase) /\ Visit \in Live(body) /\ Visit # None
  BY <1>1, VisitFacts
<1>3. IsBody(body) /\ walk \subseteq Walked(body, phase) /\ (ArgumentsApart(program) => CallsOK(body, phase, walk))
  BY DEF Inv, WalkOK
<1>4. body.op[Visit].kind = "eq" /\ Visit \in Lowered(body, phase)
  BY <1>1, <1>2 DEF Walked, Lowered, OfKind
<1>5. DOMAIN args = 1..2
  BY <1>2, <1>3, <1>4, Arities
<1>6. \A v \in ToSet(args) : IsValue(body, v)
  BY <1>2, <1>3, <1>4, OperandFacts DEF ToSet
<1> HIDE DEF args
<1>7. MemoOK(body, m) /\ RewritesOK(body, m, maxDegree, rewrites) /\ AuxOK(body, m, maxDegree, auxAssignments)
  BY <1>6, LookedUp
<1> HIDE DEF m
<1>8. WalkOK(body, phase, walk', Visit, slots')
  <2>1. {1, 2} = 1..2
    OBVIOUS
  <2> QED
    BY <2>1, <1>1, <1>2, <1>3, <1>4, <1>5 DEF WalkOK, LoweringPhases, args
<1>9. StackOK(body, m, maxDegree, <<>>, Visit) /\ ReturnedOK(body, m, maxDegree, <<>>, None, Visit)
  BY EmptyStack
<1>10. CallStep(body, m, maxDegree, phase, Visit, slots', call.operands, <<>>, None)
  BY <1>1 DEF CallStep
<1>11. ArgumentsApart(program) => CallsOK(body, phase, walk')
  BY <1>1, <1>3 DEF CallsOK, Unvisited
<1>12. WalkDone
  BY <1>1, <1>3, <1>7, <1>8, <1>9, <1>10, <1>11 DEF WalkDone
<1> QED
  BY <1>1, <1>12, WalkStep DEF Walking

LEMMA VisitContainmentKeeps ==
  ASSUME Inv, VisitContainment
  PROVE  Inv'
<1> DEFINE row == body.op[Visit].args[1]
<1>1. /\ phase = "containments" /\ stack = <<>> /\ returned = None /\ walk # {}
      /\ current' = row /\ slots' = DOMAIN body.op[row].args /\ walk' = walk \ {Visit}
      /\ phase' = phase /\ call' = call /\ stack' = stack /\ returned' = returned /\ body' = body
      /\ degreeMemo' = degreeMemo /\ rewrites' = rewrites /\ auxAssignments' = auxAssignments
      /\ WalkUnchanged
  BY DEF VisitContainment, Idle, ExpressionUnchanged
<1>2. Visit \in walk /\ Visit \in Walked(body, phase) /\ Visit \in Live(body) /\ Visit # None
  BY <1>1, VisitFacts
<1>3. IsBody(body) /\ walk \subseteq Walked(body, phase) /\ (ArgumentsApart(program) => CallsOK(body, phase, walk))
  BY DEF Inv, WalkOK
<1>4. body.op[Visit].kind = "contain" /\ Walked(body, phase) = OfKind(body, "contain")
      /\ Lowered(body, phase) = OfKind(body, "array")
  BY <1>1, <1>2 DEF Walked, Lowered, OfKind
<1>5. row \in Live(body) /\ body.op[row].kind = "array"
  <2>1. 1 \in DOMAIN body.op[Visit].args
    BY <1>2, <1>3, <1>4, Arities
  <2> QED
    BY <2>1, <1>2, <1>3, <1>4, OperandFacts DEF OperandKinds, Before
<1> HIDE DEF row
<1>6. WalkOK(body, phase, walk', row, slots')
  <2>1. row \notin walk /\ row \in Lowered(body, phase) /\ row # None
    BY <1>3, <1>4, <1>5, LiveIsSome DEF OfKind
  <2> QED
    BY <2>1, <1>1, <1>3 DEF WalkOK, LoweringPhases
<1>7. StackOK(body, degreeMemo, maxDegree, <<>>, row) /\ ReturnedOK(body, degreeMemo, maxDegree, <<>>, None, row)
  BY EmptyStack
<1>8. ArgumentsApart(program) => CallsOK(body, phase, walk')
  BY <1>1, <1>3 DEF CallsOK, Unvisited
<1>9. WalkDone
  BY <1>1, <1>6, <1>7, <1>8 DEF Inv, WalkDone, CallStep
<1> QED
  BY <1>1, <1>9, WalkStep DEF Walking

LEMMA SkipElementKeeps ==
  ASSUME Inv, SkipElement
  PROVE  Inv'
<1> DEFINE value == body.op[current].args[Slot]
           m == MemoisedAll({value})
<1>1. /\ phase = "containments" /\ stack = <<>> /\ returned = None /\ slots # {}
      /\ degreeMemo' = m /\ slots' = slots \ {Slot}
      /\ phase' = phase /\ walk' = walk /\ current' = current /\ call' = call /\ stack' = stack
      /\ returned' = returned /\ body' = body /\ rewrites' = rewrites /\ auxAssignments' = auxAssignments
      /\ WalkUnchanged
  BY DEF SkipElement, Idle, Memoised
<1>2. IsValue(body, value)
  BY <1>1, CurrentFacts
<1> HIDE DEF value
<1>3. MemoOK(body, m) /\ RewritesOK(body, m, maxDegree, rewrites) /\ AuxOK(body, m, maxDegree, auxAssignments)
  BY <1>2, LookedUp
<1> HIDE DEF m
<1>4. WalkOK(body, phase, walk, current, slots')
  BY <1>1 DEF Inv, WalkOK
<1>5. StackOK(body, m, maxDegree, <<>>, current) /\ ReturnedOK(body, m, maxDegree, <<>>, None, current)
  BY EmptyStack
<1>6. WalkDone
  BY <1>1, <1>3, <1>4, <1>5 DEF Inv, WalkDone, CallStep
<1> QED
  BY <1>1, <1>6, WalkStep DEF Walking

LEMMA LowerOperandKeeps ==
  ASSUME Inv, LowerOperand
  PROVE  Inv'
<1> DEFINE value == body.op[current].args[Slot]
           m == MemoisedAll({value})
           f == Frame(value, current)
<1>1. /\ phase \in {"equalities", "containments"} /\ stack = <<>> /\ returned = None /\ slots # {}
      /\ degreeMemo' = m /\ stack' = <<f>> /\ returned' = returned
      /\ phase' = phase /\ walk' = walk /\ current' = current /\ slots' = slots /\ call' = call
      /\ body' = body /\ rewrites' = rewrites /\ auxAssignments' = auxAssignments
      /\ WalkUnchanged
  BY DEF LowerOperand, Idle, Memoised, Lower
<1>2. IsValue(body, value) /\ Before(body, value, current) /\ IsBody(body)
  BY <1>1, CurrentFacts DEF Inv
<1> HIDE DEF value
<1>3. MemoOK(body, m) /\ RewritesOK(body, m, maxDegree, rewrites) /\ AuxOK(body, m, maxDegree, auxAssignments)
  BY <1>2, LookedUp
<1> HIDE DEF m
<1>4. f \in Frames /\ FrameOK(body, m, maxDegree, f) /\ f.useOp = current /\ f.at = "entry"
  BY <1>2, NewFrame
<1> HIDE DEF f
<1>5. StackOK(body, m, maxDegree, <<f>>, current) /\ ReturnedOK(body, m, maxDegree, <<f>>, None, current)
  BY <1>4, OneFrame
<1>6. WalkDone
  <2>1. WalkOK(body, phase, walk, current, slots)
    BY DEF Inv
  <2> QED
    BY <2>1, <1>1, <1>2, <1>3, <1>5 DEF Inv, WalkDone, CallStep
<1> QED
  BY <1>1, <1>6, WalkStep DEF Walking

OperandSet(b, id, i, v) == [b EXCEPT !.op[id].args[i] = v]
OneChanged(args, i, v) == [args EXCEPT ![i] = v]

(* Setting one operand is setting all, the others as they are. *)
LEMMA OneOperandSet ==
  ASSUME NEW b, IsBlock(b), NEW id \in DOMAIN b.op, NEW i, NEW v
  PROVE  OperandSet(b, id, i, v) = SetArgs(b, id, OneChanged(b.op[id].args, i, v))
<1>1. b = [block |-> b.block, op |-> b.op] /\ b.op[id] \in Operations
  BY BlockFacts
<1> QED
  BY <1>1 DEF SetArgs, OperandSet, OneChanged

LEMMA SetOperandKeeps ==
  ASSUME Inv, SetOperand
  PROVE  Inv'
<1> DEFINE old == body.op[current].args
           args == [old EXCEPT ![Slot] = returned]
           c == SetArgs(body, current, args)
<1>1. /\ phase \in {"equalities", "containments"} /\ stack = <<>> /\ returned # None
      /\ slots' = slots \ {Slot} /\ returned' = None
      /\ phase' = phase /\ walk' = walk /\ current' = current /\ call' = call /\ stack' = stack
      /\ degreeMemo' = degreeMemo /\ rewrites' = rewrites /\ auxAssignments' = auxAssignments
      /\ WalkUnchanged
  BY DEF SetOperand
<1>2. /\ IsBody(body) /\ IsBlock(body) /\ MemoOK(body, degreeMemo) /\ slots # {}
      /\ AuxOK(body, degreeMemo, maxDegree, auxAssignments)
      /\ RewritesOK(body, degreeMemo, maxDegree, rewrites) /\ WalkOK(body, phase, walk, current, slots)
      /\ (ArgumentsApart(program) => CallsOK(body, phase, walk))
      /\ Held(body, degreeMemo, maxDegree, returned) /\ Before(body, returned, current)
  BY <1>1 DEF Inv, IsBody, Idle, ReturnedOK, User
<1>3. /\ current \in Live(body) /\ body.op[current].kind \in {"eq", "array"}
      /\ ~ AuxEquation(body, current) /\ Slot \in slots /\ Slot \in DOMAIN old
  BY <1>1, <1>2, CurrentFacts
<1>4. current \in DOMAIN body.op /\ body' = c
  <2>1. current \in DOMAIN body.op
    BY <1>2, <1>3, LiveIsSome
  <2>2. body' = OperandSet(body, current, Slot, returned)
    BY Zenon DEF SetOperand, OperandSet
  <2>3. OperandSet(body, current, Slot, returned) = SetArgs(body, current, OneChanged(old, Slot, returned))
    BY <2>1, <1>2, OneOperandSet
  <2>4. args = OneChanged(old, Slot, returned)
    BY DEF OneChanged
  <2> QED
    BY <2>1, <2>2, <2>3, <2>4, Zenon
<1>5. /\ args \in Seq(Nat) /\ DOMAIN args = DOMAIN old
      /\ \A k \in DOMAIN args : Before(body, args[k], current) /\ body.op[args[k]].kind \in OperandKinds(body.op[current].kind)
  <2>1. /\ old \in Seq(Nat) /\ Len(old) \in Nat /\ DOMAIN old = 1..Len(old)
        /\ \A k \in DOMAIN old : Before(body, old[k], current) /\ body.op[old[k]].kind \in OperandKinds(body.op[current].kind)
    BY <1>2, <1>3, OperandFacts
  <2>2. OperandKinds(body.op[current].kind) = Expressions /\ body.op[returned].kind \in Expressions /\ returned \in Nat
    BY <1>2, <1>3, LiveIsSome DEF OperandKinds, Held, IsValue
  <2> HIDE DEF old
  <2>3. DOMAIN args = DOMAIN old /\ \A k \in DOMAIN old : args[k] = IF k = Slot THEN returned ELSE old[k]
    OBVIOUS
  <2>4. \A k \in DOMAIN old : old[k] \in Nat
    BY <2>1, ElementOfSeq, Zenon
  <2>5. args \in [1..Len(old) -> Nat]
    BY <2>1, <2>2, <2>3, <2>4
  <2>6. args \in Seq(Nat)
    BY <2>1, <2>5, FunctionIsSeq
  <2> QED
    BY <2>1, <2>2, <2>3, <2>6, <1>2
<1> HIDE DEF args
<1>6. Reargued(body, c, current)
  BY <1>2, <1>3, <1>5, RearguedSet
<1> HIDE DEF c
<1>7. Keeps(body, degreeMemo, c, degreeMemo, maxDegree) /\ MemoOK(c, degreeMemo) /\ AuxOK(c, degreeMemo, maxDegree, auxAssignments)
  <2>1. Extended(degreeMemo, degreeMemo, None) /\ None \notin Live(body)
    BY <1>2, LiveIsSome DEF Extended
  <2> QED
    BY <2>1, <1>2, <1>3, <1>6, RearguedStep
<1>8. IsBody(c) /\ RewritesOK(c, degreeMemo, maxDegree, rewrites) /\ WalkOK(c, phase, walk, current, slots)
  BY <1>2, <1>6, <1>7, RewritesKept, WalkKept DEF Reargued
<1>9. WalkOK(c, phase, walk, current, slots')
  BY <1>1, <1>8 DEF WalkOK
<1>10. ArgumentsApart(program) => CallsOK(c, phase, walk)
  <2>1. Unvisited(body, phase, walk) = OfKind(body, "call") /\ current \notin OfKind(body, "call")
    BY <1>1, <1>3 DEF Unvisited, OfKind
  <2> QED
    BY <2>1, <1>2, <1>6, RearguedCalls
<1>11. StackOK(c, degreeMemo, maxDegree, <<>>, current) /\ ReturnedOK(c, degreeMemo, maxDegree, <<>>, None, current)
  BY EmptyStack
<1>12. WalkDone
  BY <1>1, <1>4, <1>7, <1>8, <1>9, <1>10, <1>11 DEF WalkDone, CallStep
<1> QED
  BY <1>1, <1>12, WalkStep DEF Walking

LEMMA LeaveKeeps ==
  ASSUME Inv, Leave
  PROVE  Inv'
<1>1. /\ phase \in {"equalities", "containments"} /\ stack = <<>> /\ returned = None /\ slots = {}
      /\ current' = None
      /\ phase' = phase /\ walk' = walk /\ slots' = slots /\ call' = call /\ stack' = stack /\ returned' = returned
      /\ body' = body /\ degreeMemo' = degreeMemo /\ rewrites' = rewrites /\ auxAssignments' = auxAssignments
      /\ WalkUnchanged
  BY DEF Leave, Idle, ExpressionUnchanged
<1>2. WalkOK(body, phase, walk, None, slots)
  <2>1. None \notin walk
    BY LiveIsSome DEF Inv, WalkOK, Walked, OfKind
  <2> QED
    BY <2>1, <1>1 DEF Inv, WalkOK
<1>3. StackOK(body, degreeMemo, maxDegree, <<>>, None) /\ ReturnedOK(body, degreeMemo, maxDegree, <<>>, None, None)
  BY EmptyStack
<1>4. WalkDone
  BY <1>1, <1>2, <1>3 DEF Inv, WalkDone, CallStep
<1> QED
  BY <1>1, <1>4, WalkStep DEF Walking

LEMMA VisitCallKeeps ==
  ASSUME Inv, Settled, VisitCall
  PROVE  Inv'
<1> DEFINE args == body.op[Visit].args
<1>1. /\ phase = "calls" /\ stack = <<>> /\ returned = None /\ walk # {}
      /\ current' = Visit /\ walk' = walk \ {Visit}
      /\ call'.operands = args /\ slots' = DOMAIN args
      /\ phase' = phase /\ stack' = stack /\ returned' = returned /\ body' = body
      /\ degreeMemo' = degreeMemo /\ rewrites' = rewrites /\ auxAssignments' = auxAssignments
      /\ WalkUnchanged
  BY DEF VisitCall, Idle, ExpressionUnchanged
<1>2. Visit \in walk /\ Visit \in Walked(body, phase) /\ Visit \in Live(body) /\ Visit # None
  BY <1>1, VisitFacts
<1>3. IsBody(body) /\ walk \subseteq Walked(body, phase) /\ CallsOK(body, phase, walk)
  BY <1>1 DEF Inv, WalkOK, Settled
<1>4. body.op[Visit].kind = "call" /\ Visit \in Lowered(body, phase)
  BY <1>1, <1>2 DEF Walked, Lowered, OfKind
<1>5. Apart(body, args)
  BY <1>1, <1>2, <1>3 DEF CallsOK, Unvisited
<1>6. args \in Seq(Nat) /\ \A k \in DOMAIN args : IsValue(body, args[k]) /\ Before(body, args[k], Visit)
  BY <1>2, <1>3, <1>4, OperandFacts
<1>7. CallOK(body, degreeMemo, maxDegree, Visit, DOMAIN args, args, DOMAIN args)
  <2>1. \A i, j \in DOMAIN args : i = j \/ Held(body, degreeMemo, maxDegree, args[i]) \/ body.op[args[j]].kind \in Leaves
    BY <1>5, <1>6 DEF Apart, Held
  <2> QED
    BY <2>1, <1>6 DEF CallOK
<1> HIDE DEF args
<1>8. CallStep(body, degreeMemo, maxDegree, phase, Visit, slots', call'.operands, <<>>, None)
  BY <1>1, <1>7 DEF CallStep, Kept
<1>9. WalkOK(body, phase, walk', Visit, slots')
  BY <1>1, <1>2, <1>3, <1>4 DEF WalkOK, LoweringPhases, args
<1>10. StackOK(body, degreeMemo, maxDegree, <<>>, Visit) /\ ReturnedOK(body, degreeMemo, maxDegree, <<>>, None, Visit)
  BY EmptyStack
<1>11. CallsOK(body, phase, walk')
  BY <1>1, <1>3 DEF CallsOK, Unvisited
<1>12. WalkDone
  BY <1>1, <1>8, <1>9, <1>10, <1>11 DEF Inv, WalkDone
<1> QED
  BY <1>1, <1>12, WalkStep DEF Walking

(* The copies of the operands, while no operand is lowered. *)
LEMMA CopyFacts ==
  ASSUME Inv, phase = "calls", slots # {}
  PROVE  /\ CallOK(body, degreeMemo, maxDegree, current, slots, call.operands,
                   Kept(call.operands, slots, stack, returned))
         /\ Slot \in slots /\ Slot \in DOMAIN call.operands /\ slots \subseteq DOMAIN call.operands
         /\ current # None /\ current \in Live(body) /\ body.op[current].kind = "call"
<1>1. current # None /\ Slot \in slots /\ current \in Live(body) /\ slots \subseteq DOMAIN body.op[current].args
      /\ body.op[current].kind = "call"
  BY CurrentFacts DEF Inv, WalkOK, Lowered, Walked, OfKind
<1>2. CallOK(body, degreeMemo, maxDegree, current, slots, call.operands,
             Kept(call.operands, slots, stack, returned))
  BY <1>1 DEF Inv, CallStep
<1> QED
  BY <1>1, <1>2 DEF CallOK

LEMMA SkipArgumentKeeps ==
  ASSUME Inv, SkipArgument
  PROVE  Inv'
<1>1. /\ phase = "calls" /\ stack = <<>> /\ returned = None /\ slots # {}
      /\ slots' = slots \ {Slot}
      /\ phase' = phase /\ walk' = walk /\ current' = current /\ call' = call /\ stack' = stack
      /\ returned' = returned /\ body' = body
      /\ degreeMemo' = degreeMemo /\ rewrites' = rewrites /\ auxAssignments' = auxAssignments
      /\ WalkUnchanged
  BY DEF SkipArgument, Idle, ExpressionUnchanged
<1>2. CallOK(body, degreeMemo, maxDegree, current, slots, call.operands, DOMAIN call.operands)
  BY <1>1, CopyFacts DEF Kept
<1>3. CallOK(body, degreeMemo, maxDegree, current, slots', call.operands, DOMAIN call.operands)
  BY <1>1, <1>2, CallShrinks
<1>4. CallStep(body, degreeMemo, maxDegree, phase, current, slots', call.operands, <<>>, None)
  BY <1>3 DEF CallStep, Kept
<1>5. WalkOK(body, phase, walk, current, slots')
  BY <1>1 DEF Inv, WalkOK
<1>6. WalkDone
  BY <1>1, <1>4, <1>5 DEF Inv, WalkDone
<1> QED
  BY <1>1, <1>6, WalkStep DEF Walking

LEMMA LowerArgumentKeeps ==
  ASSUME Inv, LowerArgument
  PROVE  Inv'
<1> DEFINE value == call.operands[Slot]
           f == Frame(value, current)
<1>1. /\ phase = "calls" /\ stack = <<>> /\ returned = None /\ slots # {} /\ FreshDegree[value] > 1
      /\ stack' = <<f>> /\ returned' = returned
      /\ phase' = phase /\ walk' = walk /\ current' = current /\ slots' = slots /\ call' = call /\ body' = body
      /\ degreeMemo' = degreeMemo /\ rewrites' = rewrites /\ auxAssignments' = auxAssignments
      /\ WalkUnchanged
  BY DEF LowerArgument, Idle, ExpressionUnchanged, Lower
<1>2. /\ CallOK(body, degreeMemo, maxDegree, current, slots, call.operands, DOMAIN call.operands)
      /\ Slot \in DOMAIN call.operands /\ IsBody(body)
  BY <1>1, CopyFacts DEF Kept, Inv
<1>3. IsValue(body, value) /\ Before(body, value, current)
  BY <1>2 DEF CallOK
<1>4. body.op[value].kind \notin Leaves
  <2>1. MemoOK(body, <<>>) /\ DOMAIN <<>> = {}
    BY DEF MemoOK
  <2>2. FreshDegree[value] \in Nat /\ (body.op[value].kind \in Leaves => FreshDegree[value] <= 1)
    <3> DEFINE memo == <<>>
    <3>1. MemoOK(body, memo) /\ value \notin DOMAIN memo
      BY <2>1
    <3>2. FreshDegree = DegreeIn(body, memo)
      BY DEF FreshDegree
    <3> HIDE DEF memo, value
    <3> QED
      BY <3>1, <3>2, <1>2, <1>3, Degrees
  <2> QED
    BY <2>2, <1>1
<1>5. f \in Frames /\ FrameOK(body, degreeMemo, maxDegree, f) /\ f.useOp = current /\ f.at = "entry" /\ f.val = value
  BY <1>2, <1>3, NewFrame
<1>6. value = call.operands[Min(slots)]
  BY DEF Slot
<1> HIDE DEF f, value
<1>7. StackOK(body, degreeMemo, maxDegree, <<f>>, current) /\ ReturnedOK(body, degreeMemo, maxDegree, <<f>>, None, current)
      /\ Bottom(<<f>>) = f.val /\ <<f>> # <<>>
  BY <1>5, OneFrame
<1>8. CallStep(body, degreeMemo, maxDegree, phase, current, slots, call.operands, <<f>>, None)
  BY <1>2, <1>4, <1>5, <1>6, <1>7 DEF CallStep, Kept
<1>9. WalkDone
  <2>1. WalkOK(body, phase, walk, current, slots)
    BY DEF Inv
  <2> QED
    BY <2>1, <1>1, <1>7, <1>8 DEF Inv, WalkDone
<1> QED
  BY <1>1, <1>9, WalkStep DEF Walking

(* The copy gets the value that an operand was lowered to. *)
LEMMA CopySet ==
  ASSUME NEW b, NEW memo, NEW bound, NEW cur, NEW sl, NEW operands, NEW i \in DOMAIN operands,
         CallOK(b, memo, bound, cur, sl, operands, DOMAIN operands \ {i}),
         NEW v \in Nat, Held(b, memo, bound, v), Before(b, v, cur)
  PROVE  CallOK(b, memo, bound, cur, sl \ {i}, OneChanged(operands, i, v), DOMAIN OneChanged(operands, i, v))
<1> DEFINE new == OneChanged(operands, i, v)
<1>1. operands \in Seq(Nat) /\ DOMAIN operands = DOMAIN b.op[cur].args
  BY DEF CallOK
<1>2. DOMAIN new = DOMAIN operands /\ \A k \in DOMAIN operands : new[k] = IF k = i THEN v ELSE operands[k]
  BY DEF OneChanged
<1> HIDE DEF new
<1>3. new \in Seq(Nat)
  <2>1. Len(operands) \in Nat /\ DOMAIN operands = 1..Len(operands) /\ \A k \in DOMAIN operands : operands[k] \in Nat
    <3>1. Len(operands) \in Nat /\ DOMAIN operands = 1..Len(operands)
      BY <1>1, LenProperties
    <3> QED
      BY <3>1, <1>1, ElementOfSeq, Zenon
  <2>2. new \in [1..Len(operands) -> Nat]
    BY <2>1, <1>2, new = [k \in DOMAIN operands |-> new[k]] DEF new, OneChanged
  <2> QED
    BY <2>1, <2>2, FunctionIsSeq
<1>4. \A k \in DOMAIN new : IsValue(b, new[k]) /\ Before(b, new[k], cur)
  BY <1>2 DEF CallOK, Held
<1>5. \A k \in DOMAIN new, j \in DOMAIN new \cap (sl \ {i}) :
        k = j \/ Held(b, memo, bound, new[k]) \/ b.op[new[j]].kind \in Leaves
  BY <1>2 DEF CallOK
<1> QED
  BY <1>1, <1>2, <1>3, <1>4, <1>5 DEF CallOK, new

LEMMA MaterializeArgumentKeeps ==
  ASSUME Inv, MaterializeArgument
  PROVE  Inv'
<1> DEFINE ops == call.operands
<1>1. /\ phase = "calls" /\ stack = <<>> /\ returned # None
      /\ slots' = slots \ {Slot} /\ returned' = None
      /\ phase' = phase /\ walk' = walk /\ current' = current /\ stack' = stack
      /\ WalkUnchanged
  BY DEF MaterializeArgument
<1>2. /\ IsBody(body) /\ IsBlock(body) /\ MemoOK(body, degreeMemo) /\ slots # {}
      /\ AuxOK(body, degreeMemo, maxDegree, auxAssignments)
      /\ RewritesOK(body, degreeMemo, maxDegree, rewrites) /\ WalkOK(body, phase, walk, current, slots)
      /\ (ArgumentsApart(program) => CallsOK(body, phase, walk))
      /\ Held(body, degreeMemo, maxDegree, returned) /\ Before(body, returned, current)
  BY <1>1 DEF Inv, IsBody, Idle, ReturnedOK, User
<1>3. /\ CallOK(body, degreeMemo, maxDegree, current, slots, ops, DOMAIN ops \ {Slot})
      /\ Slot \in slots /\ Slot \in DOMAIN ops
      /\ current # None /\ current \in Live(body) /\ body.op[current].kind = "call"
  BY <1>1, <1>2, CopyFacts DEF Kept, Slot
<1>4. returned \in Nat /\ IsValue(body, returned)
  BY <1>2, LiveIsSome DEF Held, IsValue
<1>5. \/ /\ FreshDegree[returned] <= 1 /\ call'.operands = OneChanged(ops, Slot, returned)
         /\ ExpressionUnchanged
      \/ /\ FreshDegree[returned] > 1
         /\ \E aux \in Allocatable(body) :
              /\ body' = InsertAux(body, returned, aux, current)
              /\ RecordAux(returned, aux)
              /\ call'.operands = OneChanged(ops, Slot, aux)
              /\ rewrites' = Put(Put(rewrites, ops[Slot], aux), returned, aux)
  BY DEF MaterializeArgument, OneChanged
<1>6. StackOK(body', degreeMemo', maxDegree, <<>>, current) /\ ReturnedOK(body', degreeMemo', maxDegree, <<>>, None, current)
  BY EmptyStack
<1> HIDE DEF ops
<1>7. CASE FreshDegree[returned] <= 1 /\ call'.operands = OneChanged(ops, Slot, returned) /\ ExpressionUnchanged
  <2>1. body' = body /\ degreeMemo' = degreeMemo /\ rewrites' = rewrites /\ auxAssignments' = auxAssignments
    BY <1>7 DEF ExpressionUnchanged
  <2>2. CallOK(body, degreeMemo, maxDegree, current, slots', call'.operands, DOMAIN call'.operands)
    BY <1>1, <1>2, <1>3, <1>4, <1>7, CopySet
  <2>3. CallStep(body, degreeMemo, maxDegree, phase, current, slots', call'.operands, <<>>, None)
    BY <2>2 DEF CallStep, Kept
  <2>4. WalkOK(body, phase, walk, current, slots')
    BY <1>1, <1>2 DEF WalkOK
  <2>5. WalkDone
    BY <2>1, <2>3, <2>4, <1>1, <1>2, <1>6 DEF WalkDone
  <2> QED
    BY <2>5, <1>1, WalkStep DEF Walking
<1>8. ASSUME FreshDegree[returned] > 1, NEW aux \in Allocatable(body),
             body' = InsertAux(body, returned, aux, current), RecordAux(returned, aux),
             call'.operands = OneChanged(ops, Slot, aux),
             rewrites' = Put(Put(rewrites, ops[Slot], aux), returned, aux)
      PROVE  Inv'
  <2> DEFINE c == InsertAux(body, returned, aux, current)
             m == Put(degreeMemo, aux, 1)
             A2 == Append(auxAssignments, [computed |-> returned, aux |-> aux])
  <2>1. body' = c /\ degreeMemo' = m /\ auxAssignments' = A2
    BY <1>8 DEF RecordAux
  <2>2. body.op[returned].kind # "aux"
    <3> DEFINE memo == <<>>
    <3>1. MemoOK(body, memo)
      BY DEF MemoOK
    <3>2. FreshDegree = DegreeIn(body, memo)
      BY DEF FreshDegree
    <3> HIDE DEF memo
    <3>3. body.op[returned].kind = "aux" => FreshDegree[returned] = 1
      BY <3>1, <3>2, <1>2, <1>4, Degrees
    <3> QED
      BY <3>3, <1>8
  <2>3. ~ AuxEquation(body, current) /\ Replaced(body, body, returned, aux, current)
    BY <1>2, <1>3, ReplacedNone DEF AuxEquation
  <2>4. AuxStepped(c, m, returned, aux, current)
    BY <2>2, <2>3, <1>2, <1>3, AuxStep
  <2> HIDE DEF c, m
  <2>5. /\ IsBody(c) /\ Keeps(body, degreeMemo, c, m, maxDegree) /\ MemoOK(c, m)
        /\ Held(c, m, maxDegree, aux)
        /\ AuxOK(c, m, maxDegree, A2)
        /\ OfKind(c, "call") \subseteq OfKind(body, "call")
        /\ \A id \in OfKind(body, "call") : Tamer(body, body.op[id].args, c, c.op[id].args)
        /\ Live(body) \subseteq Live(c)
        /\ \A x \in Live(body) : Before(c, aux, x) <=> ~ Before(body, x, current)
    BY <2>4 DEF AuxStepped
  <2> HIDE DEF A2
  <2>6. aux \in Nat /\ aux \in DOMAIN c.op /\ Before(c, aux, current)
    BY <2>5, <1>2, <1>3, LiveIsSome, BeforeIsAnOrder DEF Held, IsValue
  <2>7. RewritesOK(c, m, maxDegree, Put(Put(rewrites, ops[Slot], aux), returned, aux))
    <3>1. RewritesOK(c, m, maxDegree, rewrites)
      BY <2>5, <1>2, RewritesKept
    <3>2. RewritesOK(c, m, maxDegree, Put(rewrites, ops[Slot], aux))
      BY <3>1, <2>5, <2>6, PutRewrite
    <3> QED
      BY <3>2, <2>5, <2>6, PutRewrite
  <2>8. ArgumentsApart(program) => CallsOK(c, phase, walk)
    <3>1. walk \subseteq OfKind(body, "call")
      BY <1>1, <1>2 DEF WalkOK, Walked
    <3> QED
      BY <3>1, <2>5, <1>2, CallsKept
  <2>9. CallOK(c, m, maxDegree, current, slots', call'.operands, DOMAIN call'.operands)
    <3>1. \A i \in DOMAIN ops \ {Slot} : ops[i] \in Live(c)
      BY <2>5, <1>3 DEF CallOK, IsValue
    <3>2. current \in Live(c)
      BY <2>5, <1>3
    <3>3. CallOK(c, m, maxDegree, current, slots, ops, DOMAIN ops \ {Slot})
      BY <3>1, <3>2, <2>5, <1>3, CallKept
    <3> QED
      BY <3>3, <2>5, <2>6, <1>1, <1>3, <1>8, CopySet
  <2>10. CallStep(c, m, maxDegree, phase, current, slots', call'.operands, <<>>, None)
    BY <2>9 DEF CallStep, Kept
  <2>11. WalkOK(c, phase, walk, current, slots')
    <3>1. WalkOK(c, phase, walk, current, slots)
      BY <2>5, <1>2, WalkKept
    <3> QED
      BY <3>1, <1>1 DEF WalkOK
  <2>12. WalkDone
    BY <2>1, <2>5, <2>7, <2>8, <2>10, <2>11, <1>1, <1>6, <1>8 DEF WalkDone
  <2> QED
    BY <2>12, <1>1, WalkStep DEF Walking
<1> QED
  BY <1>5, <1>7, <1>8

LEMMA ReplaceCallKeeps ==
  ASSUME Inv, ReplaceCall
  PROVE  Inv'
<1> DEFINE ops == call.operands
<1>1. /\ phase = "calls" /\ stack = <<>> /\ returned = None /\ slots = {} /\ current # None
      /\ body' = IF call.modified THEN SetArgs(body, current, ops) ELSE body
      /\ current' = None
      /\ phase' = phase /\ walk' = walk /\ slots' = slots /\ stack' = stack /\ returned' = returned
      /\ degreeMemo' = degreeMemo /\ rewrites' = rewrites /\ auxAssignments' = auxAssignments
      /\ WalkUnchanged
  BY DEF ReplaceCall, Idle
<1>2. /\ IsBody(body) /\ IsBlock(body) /\ MemoOK(body, degreeMemo)
      /\ AuxOK(body, degreeMemo, maxDegree, auxAssignments)
      /\ RewritesOK(body, degreeMemo, maxDegree, rewrites) /\ WalkOK(body, phase, walk, current, slots)
      /\ (ArgumentsApart(program) => CallsOK(body, phase, walk))
  BY DEF Inv, IsBody
<1>3. CallOK(body, degreeMemo, maxDegree, current, slots, ops, DOMAIN ops)
  BY <1>1 DEF Inv, CallStep, Kept
<1>4. /\ current \in Live(body) /\ body.op[current].kind = "call" /\ current \notin walk
      /\ walk \subseteq OfKind(body, "call")
  BY <1>1, <1>2 DEF WalkOK, Lowered, Walked, OfKind
<1>5. \E id : Reargued(body, body', id) /\ ~ AuxEquation(body, id) /\ id \notin walk
  <2>1. CASE call.modified
    <3>1. /\ ops \in Seq(Nat) /\ DOMAIN ops = DOMAIN body.op[current].args
          /\ \A k \in DOMAIN ops : Before(body, ops[k], current)
                                   /\ body.op[ops[k]].kind \in OperandKinds(body.op[current].kind)
      BY <1>3, <1>4 DEF CallOK, IsValue, OperandKinds
    <3> HIDE DEF ops
    <3>2. Reargued(body, SetArgs(body, current, ops), current)
      BY <3>1, <1>2, <1>4, RearguedSet
    <3>3. ~ AuxEquation(body, current)
      BY <1>4 DEF AuxEquation
    <3> QED
      BY <3>2, <3>3, <2>1, <1>1, <1>4
  <2>2. CASE ~ call.modified
    <3>1. None \notin walk
      BY <1>2, <1>4, LiveIsSome DEF OfKind
    <3> QED
      BY <3>1, <2>2, <1>1, <1>2, RearguedNone
  <2> QED
    BY <2>1, <2>2
<1>6. PICK id : Reargued(body, body', id) /\ ~ AuxEquation(body, id) /\ id \notin walk
  BY <1>5
<1>7. /\ Keeps(body, degreeMemo, body', degreeMemo, maxDegree) /\ MemoOK(body', degreeMemo)
      /\ AuxOK(body', degreeMemo, maxDegree, auxAssignments)
  <2>1. Extended(degreeMemo, degreeMemo, None) /\ None \notin Live(body)
    BY <1>2, LiveIsSome DEF Extended
  <2> QED
    BY <2>1, <1>2, <1>6, RearguedStep
<1>8. IsBody(body') /\ RewritesOK(body', degreeMemo, maxDegree, rewrites) /\ WalkOK(body', phase, walk, current, slots)
  BY <1>2, <1>6, <1>7, RewritesKept, WalkKept DEF Reargued
<1>9. WalkOK(body', phase, walk, None, slots)
  <2>1. None \notin walk
    BY <1>2, <1>4, LiveIsSome DEF OfKind
  <2> QED
    BY <2>1, <1>1, <1>8 DEF WalkOK
<1>10. ArgumentsApart(program) => CallsOK(body', phase, walk)
  <2>1. Unvisited(body, phase, walk) = walk
    BY <1>1 DEF Unvisited
  <2> QED
    BY <2>1, <1>2, <1>4, <1>6, RearguedCalls
<1>11. StackOK(body', degreeMemo, maxDegree, <<>>, None) /\ ReturnedOK(body', degreeMemo, maxDegree, <<>>, None, None)
  BY EmptyStack
<1>12. WalkDone
  BY <1>1, <1>7, <1>8, <1>9, <1>10, <1>11 DEF WalkDone, CallStep
<1> QED
  BY <1>1, <1>12, WalkStep DEF Walking

LEMMA CheckDegreesKeeps ==
  ASSUME Inv, CheckDegrees
  PROVE  Inv'
<1>1. /\ phase = "checks" /\ phase' \in {"order", "failed"}
      /\ walk' = walk /\ current' = current /\ slots' = slots /\ call' = call /\ stack' = stack
      /\ returned' = returned /\ body' = body
      /\ degreeMemo' = degreeMemo /\ rewrites' = rewrites /\ auxAssignments' = auxAssignments
      /\ WalkUnchanged
  BY DEF CheckDegrees, ExpressionUnchanged
<1>2. walk = {} /\ current = None /\ slots = {} /\ stack = <<>> /\ returned = None
  BY <1>1 DEF Inv, WalkOK, Walked, Lowered, Idle
<1>3. WalkOK(body, phase', walk, None, {})
  BY <1>1, <1>2 DEF WalkOK, LoweringPhases
<1>4. CallsOK(body, phase', walk)
  BY <1>1, <1>2 DEF CallsOK, Unvisited
<1>5. WalkDone
  BY <1>1, <1>2, <1>3, <1>4 DEF Inv, WalkDone, CallStep
<1> QED
  BY <1>1, <1>5, WalkStep

-----------------------------------------------------------------------------
(* The order of the auxiliary writes *)

(* The last steps leave the block and what is known of it alone. *)
LEMMA OrderStep ==
  ASSUME Inv, phase = "order", phase' \in {"order", "failed", "lowered"},
         UNCHANGED <<program, maxDegree, walk, current, slots, call, stack, returned>>, ExpressionUnchanged,
         order' \in Seq(DOMAIN auxAssignments), visiting' \in Seq(DOMAIN auxAssignments),
         \A i \in 1..Len(order') : \A dep \in DependenciesIn(body, auxAssignments, order'[i]) :
           \E j \in 1..Len(order') : j < i /\ order'[j] = dep
  PROVE  Inv'
<1>1. /\ body' = body /\ degreeMemo' = degreeMemo /\ rewrites' = rewrites /\ auxAssignments' = auxAssignments
      /\ walk' = walk /\ current' = current /\ slots' = slots /\ call' = call /\ stack' = stack
      /\ returned' = returned /\ program' = program /\ maxDegree' = maxDegree
  BY DEF ExpressionUnchanged
<1>2. walk = {} /\ current = None /\ slots = {} /\ stack = <<>> /\ returned = None
  BY DEF Inv, WalkOK, Walked, Lowered, Idle
<1>3. WalkOK(body, phase', walk, None, {})
  BY <1>2 DEF WalkOK, LoweringPhases
<1>4. CallsOK(body, phase', walk)
  BY <1>2 DEF CallsOK, Unvisited
<1>5. OrderOK'
  <2>1. phase' \notin Walking \cup {"checks"}
    BY DEF Walking
  <2> QED
    BY <2>1, <1>1 DEF OrderOK
<1> QED
  BY <1>1, <1>2, <1>3, <1>4, <1>5 DEF Inv, Idle, CallStep

(* Members are written after those their values are made of. *)
LEMMA OrderFacts ==
  ASSUME Inv
  PROVE  /\ order \in Seq(DOMAIN auxAssignments) /\ visiting \in Seq(DOMAIN auxAssignments)
         /\ \A i \in 1..Len(order) : \A dep \in DependenciesIn(body, auxAssignments, order[i]) :
              \E j \in 1..Len(order) : j < i /\ order[j] = dep
BY DEF Inv, OrderOK

(* The dependencies in the state are those in its body. *)
LEMMA DependenciesOf ==
  \A k : AuxDependencies(k) = DependenciesIn(body, auxAssignments, k)
BY DEF AuxDependencies, DependenciesIn

LEMMA BeginVisitKeeps ==
  ASSUME Inv, BeginVisit
  PROVE  Inv'
<1>1. PICK k \in DOMAIN auxAssignments \ Ordered : visiting' = <<k>>
  BY DEF BeginVisit
<1>2. /\ phase = "order" /\ phase' = "order" /\ order' = order
      /\ UNCHANGED <<program, maxDegree, walk, current, slots, call, stack, returned>> /\ ExpressionUnchanged
  BY DEF BeginVisit
<1>3. visiting' \in Seq(DOMAIN auxAssignments)
  BY <1>1
<1> QED
  BY <1>2, <1>3, OrderFacts, OrderStep

(* The reads that the value of an auxiliary member is computed from are those *)
(* of members, defined before it.                                             *)
LEMMA TreeFacts ==
  ASSUME Inv, NEW v, IsValue(body, v)
  PROVE  /\ v \in DefinitionTree(body, v)
         /\ \A u \in DefinitionTree(body, v) :
              /\ IsValue(body, u) /\ (u = v \/ Before(body, u, v))
              /\ body.op[u].kind = "aux" => /\ body.op[u].leaf \in DOMAIN auxAssignments
                                            /\ auxAssignments[body.op[u].leaf].aux = u
<1>1. IsBody(body) /\ AuxKnown(body, auxAssignments)
  BY DEF Inv, AuxOK
<1>2. /\ v \in DefinitionTree(body, v)
      /\ \A u \in DefinitionTree(body, v) : IsValue(body, u) /\ (u = v \/ Before(body, u, v))
  BY <1>1, ReachedFacts DEF IsValue, DefinitionTree
<1> QED
  BY <1>1, <1>2 DEF AuxKnown, OfKind, IsValue

(* The value of an auxiliary member comes before the member's read. *)
LEMMA ReadFacts ==
  ASSUME Inv, NEW k \in DOMAIN auxAssignments
  PROVE  /\ IsValue(body, auxAssignments[k].computed) /\ auxAssignments[k].aux \in Live(body)
         /\ Before(body, auxAssignments[k].computed, auxAssignments[k].aux)
         /\ \E e \in Live(body) : AuxEquation(body, e) /\ body.op[e].args[1] = auxAssignments[k].aux
BY DEF Inv, AuxOK, AuxRead, Held, OfKind

LEMMA VisitDependencyKeeps ==
  ASSUME Inv, VisitDependency
  PROVE  Inv'
<1>1. PICK dep \in AuxDependencies(Head(visiting)) \ Ordered :
        IF Contains(visiting, dep) THEN phase' = "failed" /\ visiting' = visiting
        ELSE visiting' = <<dep>> \o visiting /\ phase' = phase
  BY DEF VisitDependency
<1>2. /\ phase = "order" /\ visiting # <<>> /\ order' = order
      /\ UNCHANGED <<program, maxDegree, walk, current, slots, call, stack, returned>> /\ ExpressionUnchanged
  BY DEF VisitDependency
<1>3. visiting \in Seq(DOMAIN auxAssignments)
  BY OrderFacts
<1>4. Head(visiting) \in DOMAIN auxAssignments
  BY <1>2, <1>3, Popped
<1>5. dep \in DOMAIN auxAssignments
  <2> DEFINE v == auxAssignments[Head(visiting)].computed
  <2>1. IsValue(body, v)
    BY <1>4, ReadFacts
  <2>2. \E u \in DefinitionTree(body, v) : body.op[u].kind = "aux" /\ body.op[u].leaf = dep
    BY <1>1 DEF AuxDependencies
  <2> HIDE DEF v
  <2> QED
    BY <2>1, <2>2, TreeFacts
<1>6. visiting' \in Seq(DOMAIN auxAssignments)
  <2>1. <<dep>> \o visiting \in Seq(DOMAIN auxAssignments)
    BY <1>3, <1>5, Pushed
  <2> QED
    BY <2>1, <1>1, <1>3
<1> QED
  BY <1>1, <1>2, <1>6, OrderFacts, OrderStep

LEMMA WriteAuxKeeps ==
  ASSUME Inv, WriteAux
  PROVE  Inv'
<1> DEFINE k == Head(visiting)
           n == Len(order)
<1>1. /\ phase = "order" /\ phase' = "order" /\ visiting # <<>> /\ DependenciesIn(body, auxAssignments, k) \subseteq Ordered
      /\ order' = Append(order, k) /\ visiting' = Tail(visiting)
      /\ UNCHANGED <<program, maxDegree, walk, current, slots, call, stack, returned>> /\ ExpressionUnchanged
  BY DependenciesOf DEF WriteAux
<1>2. /\ order \in Seq(DOMAIN auxAssignments) /\ visiting \in Seq(DOMAIN auxAssignments)
      /\ \A i \in 1..n : \A dep \in DependenciesIn(body, auxAssignments, order[i]) : \E j \in 1..n : j < i /\ order[j] = dep
  BY OrderFacts
<1>3. k \in DOMAIN auxAssignments /\ visiting' \in Seq(DOMAIN auxAssignments)
  BY <1>1, <1>2, Popped
<1> HIDE DEF k
<1>4. /\ order' \in Seq(DOMAIN auxAssignments) /\ Len(order') = n + 1 /\ n \in Nat
      /\ order'[n + 1] = k /\ \A i \in 1..n : order'[i] = order[i]
  BY <1>1, <1>2, <1>3, AppendProperties, LenProperties
<1>5. Ordered = {order[j] : j \in 1..n}
  BY <1>2, LenProperties DEF Ordered, ToSet
<1> HIDE DEF n
<1>6. ASSUME NEW i \in 1..Len(order'), NEW dep \in DependenciesIn(body, auxAssignments, order'[i])
      PROVE  \E j \in 1..Len(order') : j < i /\ order'[j] = dep
  <2>1. CASE i = n + 1
    <3>1. dep \in Ordered
      BY <2>1, <1>1, <1>4, <1>6
    <3>2. PICK j \in 1..n : order[j] = dep
      BY <3>1, <1>5
    <3>3. j \in 1..Len(order') /\ j < i /\ order'[j] = dep
      BY <3>2, <2>1, <1>4
    <3> QED
      BY <3>3
  <2>2. CASE i # n + 1
    <3>1. i \in 1..n /\ order'[i] = order[i]
      BY <2>2, <1>4
    <3>2. PICK j \in 1..n : j < i /\ order[j] = dep
      BY <3>1, <1>2, <1>6
    <3>3. j \in 1..Len(order') /\ order'[j] = dep
      BY <3>2, <1>4
    <3> QED
      BY <3>2, <3>3
  <2> QED
    BY <2>1, <2>2
<1> QED
  BY <1>1, <1>3, <1>4, <1>6, OrderStep

LEMMA FinishKeeps ==
  ASSUME Inv, Finish
  PROVE  Inv'
<1>1. /\ phase = "order" /\ phase' = "lowered" /\ order' = order /\ visiting' = visiting
      /\ UNCHANGED <<program, maxDegree, walk, current, slots, call, stack, returned>> /\ ExpressionUnchanged
  BY DEF Finish, WalkUnchanged
<1> QED
  BY <1>1, OrderFacts, OrderStep

-----------------------------------------------------------------------------
(* The invariant is one *)

(* The invariant holds at first: the bodies that are lowered are well       *)
(* formed.                                                                  *)
LEMMA InvInit ==
  ASSUME Init
  PROVE  Inv
<1>1. /\ program \in Programs /\ maxDegree \in MaxDegrees /\ body = program
      /\ degreeMemo = <<>> /\ rewrites = <<>> /\ auxAssignments = <<>>
      /\ phase = "equalities" /\ walk = OfKind(program, "eq")
      /\ current = None /\ slots = {} /\ stack = <<>> /\ returned = None
      /\ order = <<>> /\ visiting = <<>>
  BY DEF Init
<1>2. /\ IsBody(body) /\ OfKind(body, "aux") = {}
      /\ \A id \in Live(body) : body.op[id].kind \in Users => body.op[id].leaf = id
  BY <1>1, PolyLoweringAssumption
<1>3. \A id \in Live(body) : id # 0 /\ id # None
  BY <1>2, LiveIsSome DEF None
<1>4. \A e : ~ AuxEquation(body, e)
  BY <1>2, <1>3 DEF AuxEquation, Users
<1>5. MemoOK(body, degreeMemo) /\ RewritesOK(body, degreeMemo, maxDegree, rewrites)
  BY <1>1 DEF MemoOK, RewritesOK
<1>6. WalkOK(body, phase, walk, current, slots)
  BY <1>1, <1>2, <1>3 DEF WalkOK, LoweringPhases, Walked, OfKind, Users
<1>7. StackOK(body, degreeMemo, maxDegree, stack, current) /\ ReturnedOK(body, degreeMemo, maxDegree, stack, returned, current)
  BY <1>1, EmptyStack
<1>8. AuxOK(body, degreeMemo, maxDegree, auxAssignments)
  BY <1>1, <1>2, <1>4 DEF AuxOK, AuxKnown, EquationsOK
<1>9. ArgumentsApart(program) => CallsOK(body, phase, walk)
  BY <1>1 DEF ArgumentsApart, CallsOK, Unvisited
<1>10. OrderOK
  <2>1. Len(order) = 0
    BY <1>1
  <2> QED
    BY <2>1, <1>1 DEF OrderOK
<1> QED
  BY <1>1, <1>2, <1>5, <1>6, <1>7, <1>8, <1>9, <1>10 DEF Inv, CallStep, Idle

(* It holds when nothing changes. *)
LEMMA InvStutters ==
  ASSUME Inv, UNCHANGED vars
  PROVE  Inv'
<1>1. /\ program' = program /\ maxDegree' = maxDegree /\ body' = body /\ degreeMemo' = degreeMemo
      /\ rewrites' = rewrites /\ auxAssignments' = auxAssignments /\ phase' = phase /\ walk' = walk
      /\ current' = current /\ slots' = slots /\ call' = call /\ stack' = stack /\ returned' = returned
      /\ order' = order /\ visiting' = visiting
  BY DEF vars
<1>2. OrderOK'
  BY <1>1 DEF Inv, OrderOK
<1> QED
  BY <1>1, <1>2 DEF Inv, Idle

(* Every step keeps it, as long as what Settled asks is met. *)
LEMMA InvKept ==
  ASSUME Inv, Settled, [Next]_vars
  PROVE  Inv'
<1>1. ASSUME LowerExpression PROVE Inv'
  BY <1>1, ReturnCachedKeeps, ReturnUnchangedKeeps, LowerLhsKeeps, LowerRhsKeeps, ReturnRootKeeps,
     BeginProductKeeps, FactorKeeps, ReturnProductKeeps DEF LowerExpression
<1>2. ASSUME RunOnOperation PROVE Inv'
  BY <1>2, NextWalkKeeps, VisitEqualityKeeps, VisitContainmentKeeps, SkipElementKeeps, LowerOperandKeeps,
     SetOperandKeeps, LeaveKeeps, VisitCallKeeps, SkipArgumentKeeps, LowerArgumentKeeps,
     MaterializeArgumentKeeps, ReplaceCallKeeps, CheckDegreesKeeps, BeginVisitKeeps,
     VisitDependencyKeeps, WriteAuxKeeps, FinishKeeps DEF RunOnOperation
<1>3. ASSUME UNCHANGED vars PROVE Inv'
  BY <1>3, InvStutters
<1> QED
  BY <1>1, <1>2, <1>3 DEF Next

(* The pass does not go back to an earlier walk. *)
LEMMA WasSettled ==
  ASSUME [Next]_vars, Settled'
  PROVE  Settled
<1>1. program' = program
  BY DEF Next, LowerExpression, RunOnOperation, vars, ReturnCached, ReturnUnchanged, LowerLhs, LowerRhs, ReturnRoot,
         BeginProduct, Factor, ReturnProduct, CallersUnchanged, NextWalk, VisitEquality, VisitContainment,
         SkipElement, LowerOperand, SetOperand, Leave, VisitCall, SkipArgument, LowerArgument,
         MaterializeArgument, ReplaceCall, CheckDegrees, BeginVisit, VisitDependency, WriteAux, Finish, WalkUnchanged
<1>2. phase' \in {"equalities", "containments"} => phase \in {"equalities", "containments"}
  BY DEF Next, LowerExpression, RunOnOperation, vars, ReturnCached, ReturnUnchanged, LowerLhs, LowerRhs, ReturnRoot,
         BeginProduct, Factor, ReturnProduct, CallersUnchanged, NextWalk, VisitEquality, VisitContainment,
         SkipElement, LowerOperand, SetOperand, Leave, VisitCall, SkipArgument, LowerArgument,
         MaterializeArgument, ReplaceCall, CheckDegrees, BeginVisit, VisitDependency, WriteAux, Finish, WalkUnchanged
<1> QED
  BY <1>1, <1>2 DEF Settled, ArgumentsApart, Apart

(* The parts of the invariant hold together in every reachable state of the *)
(* pass, for every program and every bound above 1: the values that         *)
(* lowerExpression, the walks and the copy of a call's operands hold were   *)
(* not erased under them.                                                   *)
THEOREM Invariance == Spec => [](Settled => Inv)
<1>1. Init => (Settled => Inv)
  BY InvInit
<1>2. (Settled => Inv) /\ [Next]_vars => (Settled' => Inv')
  BY InvKept, WasSettled
<1> QED
  BY <1>1, <1>2, PTL DEF Spec

(* The memo and the cache speak of operations that were built, no operation *)
(* is in the block twice, and the activations of lowerExpression are at one *)
(* of its four stages, whatever is inserted and erased.                     *)
THEOREM TypeCorrect == Spec => [](Settled => TypeOK)
<1>1. Inv => TypeOK
  <2> SUFFICES ASSUME Inv PROVE TypeOK
    OBVIOUS
  <2>1. IsBody(body) /\ IsBlock(body) /\ maxDegree \in MaxDegrees
    BY DEF Inv, IsBody
  <2>2. /\ \A i, j \in DOMAIN body.block : body.block[i] = body.block[j] => i = j
        /\ Live(body) \subseteq Addresses(body)
    BY <2>1, BlockFacts DEF Addresses
  <2>3. \A id \in Live(body) : body.op[id].kind \in Expressions \cup Users
    BY <2>1, OperandFacts
  <2>4. phase \in LoweringPhases
    BY DEF Inv, WalkOK
  <2>5. DOMAIN degreeMemo \subseteq Addresses(body) /\ \A v \in DOMAIN rewrites : rewrites[v] \in Addresses(body)
    BY DEF Inv, MemoOK, RewritesOK, Addresses
  <2>6. \A i \in DOMAIN stack : stack[i].at \in {"entry", "lhs", "rhs", "factor"}
    <3>1. stack \in Seq(Frames)
      BY DEF Inv, StackOK
    <3>2. \A i \in DOMAIN stack : stack[i] \in Frames
      BY <3>1, ElementOfSeq, LenProperties, Zenon
    <3> QED
      BY <3>2 DEF Frames
  <2> QED
    BY <2>1, <2>2, <2>3, <2>4, <2>5, <2>6 DEF TypeOK
<1> QED
  BY <1>1, Invariance, PTL

(* The block stays in SSA form: wherever lowerExpression inserts reads and  *)
(* products, sets operands or takes a cached replacement, each operand is   *)
(* defined before its use.                                                  *)
THEOREM Domination == Spec => [](Settled => DefinitionsDominateUses)
<1>1. Inv => DefinitionsDominateUses
  BY DEF Inv, IsBody, IsOperation, DefinitionsDominateUses, ToSet
<1> QED
  BY <1>1, Invariance, PTL

(* No activation of lowerExpression, no auxiliary member and no copy of a   *)
(* call's operand that is yet to be looked at speaks of an operation that   *)
(* was erased.                                                              *)
THEOREM Handles == Spec => [](Settled => HandlesLive)
<1>1. Inv => HandlesLive
  <2> SUFFICES ASSUME Inv PROVE HandlesLive
    OBVIOUS
  <2>1. ASSUME NEW i \in DOMAIN stack
        PROVE  {stack[i].val, stack[i].lhs, stack[i].rhs} \ {None} \subseteq Live(body)
    <3>1. i \in 1..Len(stack) /\ stack[i] \in Frames
      <4>1. stack \in Seq(Frames)
        BY DEF Inv, StackOK
      <4> QED
        BY <4>1, <2>1, ElementOfSeq, LenProperties, Zenon
    <3>2. /\ FrameOK(body, degreeMemo, maxDegree, stack[i])
          /\ stack[i].at = "factor" => FactorOK(body, degreeMemo, maxDegree, stack[i])
      BY <3>1 DEF Inv, StackOK
    <3> DEFINE f == stack[i]
    <3>3. f \in Frames /\ FrameOK(body, degreeMemo, maxDegree, f)
          /\ (f.at = "factor" => FactorOK(body, degreeMemo, maxDegree, f))
      BY <3>1, <3>2
    <3> HIDE DEF f
    <3>4. f.val \in Live(body) /\ (f.lhs = None \/ f.lhs \in Live(body)) /\ (f.rhs = None \/ f.rhs \in Live(body))
      BY <3>3 DEF Frames, FrameOK, FactorOK, Held, IsValue
    <3> QED
      BY <3>4 DEF f
  <2>2. \A k \in DOMAIN auxAssignments : {auxAssignments[k].computed, auxAssignments[k].aux} \subseteq Live(body)
    BY ReadFacts DEF IsValue
  <2>3. ASSUME phase = "calls", Idle, NEW i \in slots PROVE call.operands[i] \in Live(body)
    <3>1. /\ CallOK(body, degreeMemo, maxDegree, current, slots, call.operands, DOMAIN call.operands)
          /\ slots \subseteq DOMAIN call.operands
      BY <2>3, CopyFacts DEF Kept, Idle
    <3> QED
      BY <3>1, <2>3 DEF CallOK, IsValue
  <2> QED
    BY <2>1, <2>2, <2>3 DEF HandlesLive
<1> QED
  BY <1>1, Invariance, PTL

(* Each auxiliary member that lowerExpression and materializeCallArgument   *)
(* add is equated to a value that its own read has no part in: replacing    *)
(* the uses of a factored value leaves the one in its equation.             *)
THEOREM Determined == Spec => [](Settled => AuxDetermined)
<1>1. Inv => AuxDetermined
  <2> SUFFICES ASSUME Inv PROVE AuxDetermined
    OBVIOUS
  <2>1. IsBody(body) /\ IsBlock(body) /\ EquationsOK(body)
    BY DEF Inv, AuxOK, IsBody
  <2>2. ASSUME NEW k \in DOMAIN auxAssignments
        PROVE  \E e \in OfKind(body, "eq") :
                 /\ body.op[e].leaf = 0
                 /\ body.op[e].args[1] = auxAssignments[k].aux
                 /\ auxAssignments[k].aux \notin DefinitionTree(body, body.op[e].args[2])
    <3>1. PICK e \in Live(body) : AuxEquation(body, e) /\ body.op[e].args[1] = auxAssignments[k].aux
      BY ReadFacts
    <3> DEFINE a == body.op[e].args[1]
               b == body.op[e].args[2]
    <3>2. EquationOK(body, e)
      BY <2>1, <3>1 DEF EquationsOK
    <3>3. Before(body, a, e) /\ Before(body, b, e) /\ IsValue(body, b)
      <4>1. 1 \in DOMAIN body.op[e].args /\ 2 \in DOMAIN body.op[e].args /\ body.op[e].kind = "eq"
        BY <2>1, <3>1, Arities DEF AuxEquation
      <4> QED
        BY <4>1, <2>1, OperandFacts
    <3>4. b # a /\ \A z \in Live(body) : ~ (Before(body, a, z) /\ Before(body, z, e))
      BY <3>2 DEF EquationOK
    <3> HIDE DEF a, b
    <3>5. Before(body, b, a)
      BY <3>3, <3>4, <2>1, BeforeIsAnOrder
    <3>6. a \notin DefinitionTree(body, b)
      <4>1. a \in DefinitionTree(body, b) => a = b \/ Before(body, a, b)
        BY <3>3, TreeFacts
      <4> QED
        BY <4>1, <3>5, <2>1, BeforeIsAnOrder
    <3> QED
      BY <3>1, <3>6 DEF a, b, AuxEquation, OfKind
  <2> QED
    BY <2>2 DEF AuxDetermined
<1> QED
  BY <1>1, Invariance, PTL

(* orderAuxAssignments puts each auxiliary member after every other one     *)
(* whose read its value is computed from, at any depth.                     *)
THEOREM WrittenInOrder == Spec => [](Settled => AuxWrittenAfterDependencies)
<1>1. Inv => AuxWrittenAfterDependencies
  <2> SUFFICES ASSUME Inv,
                      NEW i \in DOMAIN order, NEW v \in DefinitionTree(body, auxAssignments[order[i]].computed),
                      body.op[v].kind = "aux"
               PROVE  \E j \in 1..(i - 1) : order[j] = body.op[v].leaf
    BY DEF AuxWrittenAfterDependencies
  <2> DEFINE k == order[i]
             l == body.op[v].leaf
  <2>1. /\ i \in 1..Len(order) /\ Len(order) \in Nat /\ k \in DOMAIN auxAssignments
        /\ \A dep \in DependenciesIn(body, auxAssignments, k) : \E j \in 1..Len(order) : j < i /\ order[j] = dep
    <3>1. order \in Seq(DOMAIN auxAssignments)
      BY OrderFacts
    <3>2. i \in 1..Len(order) /\ Len(order) \in Nat /\ k \in DOMAIN auxAssignments
      BY <3>1, ElementOfSeq, LenProperties, Zenon
    <3> QED
      BY <3>2, OrderFacts
  <2>2. /\ IsValue(body, auxAssignments[k].computed)
        /\ Before(body, auxAssignments[k].computed, auxAssignments[k].aux)
    BY <2>1, ReadFacts
  <2>3. l \in DOMAIN auxAssignments /\ auxAssignments[l].aux = v
        /\ (v = auxAssignments[k].computed \/ Before(body, v, auxAssignments[k].computed))
    BY <2>2, TreeFacts
  <2>4. l # k
    <3>1. IsBlock(body)
      BY DEF Inv, IsBody
    <3> QED
      BY <3>1, <2>2, <2>3, BeforeIsAnOrder
  <2>5. l \in DependenciesIn(body, auxAssignments, k)
    BY <2>4 DEF DependenciesIn
  <2>6. PICK j \in 1..Len(order) : j < i /\ order[j] = l
    BY <2>1, <2>5
  <2> QED
    BY <2>1, <2>6
<1> QED
  BY <1>1, Invariance, PTL
-----------------------------------------------------------------------------
(* Degrees stay within the bound *)

(* What the memo has for a value is no less than what its operands make it. *)
ClosedAt(b, memo, v) ==
  /\ \A k \in DOMAIN b.op[v].args : b.op[v].args[k] \in DOMAIN memo
  /\ DegreeOf(b, <<>>, memo, v) <= memo[v]
  /\ b.op[v].kind \in Leaves => memo[v] <= 1
Closed(b, memo) == \A v \in DOMAIN memo : IsValue(b, v) => ClosedAt(b, memo, v)

(* The degree of a value is monotone in the degrees of its operands. *)
LEMMA DegreeIsMonotone ==
  ASSUME NEW b, IsBody(b), NEW c, NEW v, IsValue(b, v),
         c.op[v].kind = b.op[v].kind, NEW f, NEW g,
         \A k \in DOMAIN b.op[v].args :
           /\ f[b.op[v].args[k]] \in Nat /\ g[c.op[v].args[k]] \in Nat
           /\ g[c.op[v].args[k]] <= f[b.op[v].args[k]]
  PROVE  DegreeOf(c, <<>>, g, v) <= DegreeOf(b, <<>>, f, v)
<1> DEFINE kind == b.op[v].kind
           x == b.op[v].args
           y == c.op[v].args
<1>0. v \in Live(b) /\ kind \in Expressions /\ v \notin DOMAIN <<>> /\ c.op[v].kind = kind
  BY DEF IsValue
<1>1. CASE kind \in Sums
  <2>1. 1 \in DOMAIN x /\ 2 \in DOMAIN x
    BY <1>0, <1>1, Arities
  <2>2. /\ f[x[1]] \in Nat /\ g[y[1]] \in Nat /\ g[y[1]] <= f[x[1]]
        /\ f[x[2]] \in Nat /\ g[y[2]] \in Nat /\ g[y[2]] <= f[x[2]]
    BY <2>1
  <2>3. /\ DegreeOf(b, <<>>, f, v) = Larger(f[x[1]], f[x[2]])
        /\ DegreeOf(c, <<>>, g, v) = Larger(g[y[1]], g[y[2]])
    BY <1>0, <1>1 DEF DegreeOf, Sums, Products
  <2> QED
    BY <2>2, <2>3 DEF Larger
<1>2. CASE kind \in Products
  <2>1. 1 \in DOMAIN x /\ 2 \in DOMAIN x
    BY <1>0, <1>2, Arities
  <2>2. /\ f[x[1]] \in Nat /\ g[y[1]] \in Nat /\ g[y[1]] <= f[x[1]]
        /\ f[x[2]] \in Nat /\ g[y[2]] \in Nat /\ g[y[2]] <= f[x[2]]
    BY <2>1
  <2>3. /\ DegreeOf(b, <<>>, f, v) = f[x[1]] + f[x[2]]
        /\ DegreeOf(c, <<>>, g, v) = g[y[1]] + g[y[2]]
    BY <1>0, <1>2 DEF DegreeOf, Sums, Products
  <2> QED
    BY <2>2, <2>3
<1>3. CASE kind = "neg"
  <2>1. 1 \in DOMAIN x
    BY <1>0, <1>3, Arities
  <2>2. f[x[1]] \in Nat /\ g[y[1]] \in Nat /\ g[y[1]] <= f[x[1]]
    BY <2>1
  <2>3. DegreeOf(b, <<>>, f, v) = f[x[1]] /\ DegreeOf(c, <<>>, g, v) = g[y[1]]
    BY <1>0, <1>3 DEF DegreeOf, Sums, Products
  <2> QED
    BY <2>2, <2>3
<1>4. CASE kind \in Leaves
  <2>1. /\ DegreeOf(b, <<>>, f, v) = IF kind = "const" THEN 0 ELSE 1
        /\ DegreeOf(c, <<>>, g, v) = IF kind = "const" THEN 0 ELSE 1
    BY <1>0, <1>4 DEF DegreeOf, Leaves, Sums, Products
  <2> QED
    BY <2>1
<1> QED
  BY <1>0, <1>1, <1>2, <1>3, <1>4 DEF Expressions

(* It is a number. *)
LEMMA DegreeIsNumber ==
  ASSUME NEW b, IsBody(b), NEW v, IsValue(b, v), NEW f, \A k \in DOMAIN b.op[v].args : f[b.op[v].args[k]] \in Nat
  PROVE  DegreeOf(b, <<>>, f, v) \in Nat
<1>1. /\ b.op[v].kind \in Sums \cup Products => 1 \in DOMAIN b.op[v].args /\ 2 \in DOMAIN b.op[v].args
      /\ b.op[v].kind = "neg" => 1 \in DOMAIN b.op[v].args
  BY Arities DEF IsValue
<1>2. b.op[v].kind \in Expressions /\ v \notin DOMAIN <<>>
  BY DEF IsValue
<1>3. \A p, q \in Nat : Larger(p, q) \in Nat /\ p + q \in Nat
  BY DEF Larger
<1> QED
  BY <1>1, <1>2, <1>3 DEF DegreeOf, Expressions, Leaves, Sums, Products

(* A degree that is computed anew is no more than the memo has. *)
LEMMA FreshBelow ==
  ASSUME NEW b, IsBody(b), NEW memo, MemoOK(b, memo), Closed(b, memo)
  PROVE  \A v \in DOMAIN memo : IsValue(b, v) => DegreeIn(b, <<>>)[v] <= memo[v]
<1> DEFINE D == DegreeIn(b, <<>>)
           Bad == {v \in Live(b) : v \in DOMAIN memo /\ IsValue(b, v) /\ ~ (D[v] <= memo[v])}
           T == {Index(b, v) : v \in Bad}
<1>0. IsBlock(b) /\ MemoOK(b, <<>>)
  BY DEF IsBody, MemoOK
<1>1. /\ \A v \in Live(b) : D[v] = DegreeOf(b, <<>>, D, v)
      /\ \A v : IsValue(b, v) => D[v] \in Nat
  BY <1>0, DegreeEquation, Degrees
<1> HIDE DEF D
<1> SUFFICES ASSUME NEW w \in DOMAIN memo, IsValue(b, w), ~ (D[w] <= memo[w]) PROVE FALSE
  BY DEF D
<1>w. w \in Bad
  BY DEF IsValue
<1>2. T \subseteq Nat /\ T # {}
  BY <1>0, <1>w, IndexFacts, BlockFacts
<1>3. PICK i \in T : \A j \in T : i <= j
  <2> HIDE DEF T
  <2> QED
    BY <1>2, Least
<1>4. PICK v \in Bad : Index(b, v) = i
  BY <1>3
<1>5. v \in Live(b) /\ v \in DOMAIN memo /\ IsValue(b, v) /\ ~ (D[v] <= memo[v]) /\ b.op[v].kind # "contain"
  BY DEF IsValue, Expressions, Leaves, Sums, Products
<1>6. ClosedAt(b, memo, v) /\ memo[v] \in Nat /\ D[v] \in Nat
  BY <1>1, <1>5 DEF Closed, MemoOK
<1>7. \A k \in DOMAIN b.op[v].args :
        LET a == b.op[v].args[k]
        IN  memo[a] \in Nat /\ D[a] \in Nat /\ D[a] <= memo[a]
  <2> SUFFICES ASSUME NEW k \in DOMAIN b.op[v].args
               PROVE  LET a == b.op[v].args[k] IN memo[a] \in Nat /\ D[a] \in Nat /\ D[a] <= memo[a]
    OBVIOUS
  <2> DEFINE a == b.op[v].args[k]
  <2>1. IsValue(b, a) /\ Before(b, a, v) /\ a \in DOMAIN memo
    BY <1>5, <1>6, OperandFacts DEF ClosedAt
  <2> HIDE DEF a
  <2>2. memo[a] \in Nat /\ D[a] \in Nat
    BY <2>1, <1>1 DEF MemoOK
  <2>3. D[a] <= memo[a]
    <3> SUFFICES ASSUME ~ (D[a] <= memo[a]) PROVE FALSE
      OBVIOUS
    <3>1. Index(b, a) \in T
      BY <2>1 DEF Before
    <3>2. i <= Index(b, a) /\ Index(b, a) < i /\ Index(b, a) \in Nat /\ i \in Nat
      <4> HIDE DEF T, Bad
      <4> QED
        BY <3>1, <1>2, <1>3, <1>4, <2>1 DEF Before
    <3> QED
      BY <3>2
  <2> QED
    BY <2>2, <2>3 DEF a
<1>8. DegreeOf(b, <<>>, D, v) <= DegreeOf(b, <<>>, memo, v)
  <2> HIDE DEF Bad, T
  <2>1. b.op[v].kind \in Expressions
    BY <1>5 DEF IsValue
  <2> QED
    BY <2>1, <1>5, <1>7, DegreeIsMonotone
<1>9. D[v] <= DegreeOf(b, <<>>, memo, v) /\ DegreeOf(b, <<>>, memo, v) <= memo[v] /\ DegreeOf(b, <<>>, memo, v) \in Nat
  <2>1. DegreeOf(b, <<>>, memo, v) \in Nat
    BY <1>5, <1>7, DegreeIsNumber
  <2> QED
    BY <2>1, <1>1, <1>5, <1>6, <1>8 DEF ClosedAt
<1> QED
  BY <1>5, <1>6, <1>9

(* What is reached from a value has its operands reached, but where the     *)
(* descent stops.                                                           *)
LEMMA ReachedClosed ==
  ASSUME NEW b, IsBody(b), NEW stop
  PROVE  \A v \in Live(b) : \A u \in Reached(b, stop)[v] :
           u \notin stop => ToSet(b.op[u].args) \subseteq Reached(b, stop)[v]
<1> DEFINE R == Reached(b, stop)
           OK(v) == \A u \in R[v] : u \notin stop => ToSet(b.op[u].args) \subseteq R[v]
           Bad == {v \in Live(b) : ~ OK(v)}
           T == {Index(b, v) : v \in Bad}
<1>0. IsBlock(b)
  BY DEF IsBody
<1>1. \A v \in Live(b) : R[v] = IF v \in stop THEN {v} ELSE {v} \cup UNION {R[a] : a \in ToSet(b.op[v].args)}
  <2>1. \A v \in Live(b) : R[v] = ReachedOf(b, stop, R, v)
    BY ReachedEquation
  <2> HIDE DEF R
  <2> QED
    BY <2>1 DEF ReachedOf
<1>2. \A v \in Live(b) : v \in R[v]
  BY ReachedFacts
<1> SUFFICES ASSUME NEW w \in Live(b), ~ OK(w) PROVE FALSE
  OBVIOUS
<1> HIDE DEF R
<1>3. T \subseteq Nat /\ T # {}
  <2>1. w \in Bad
    OBVIOUS
  <2> HIDE DEF OK
  <2> QED
    BY <2>1, <1>0, IndexFacts, BlockFacts
<1>4. PICK i \in T : \A j \in T : i <= j
  <2> HIDE DEF T
  <2> QED
    BY <1>3, Least
<1>5. PICK v \in Bad : Index(b, v) = i
  BY <1>4
<1>6. v \in Live(b) /\ ~ OK(v)
  BY <1>5
<1>7. \A a \in ToSet(b.op[v].args) : a \in Live(b) /\ OK(a)
  <2> SUFFICES ASSUME NEW a \in ToSet(b.op[v].args), ~ (a \in Live(b) /\ OK(a)) PROVE FALSE
    OBVIOUS
  <2>1. Before(b, a, v)
    BY <1>6, OperandFacts DEF ToSet
  <2>2. a \in Live(b) /\ Index(b, a) < i
    BY <2>1, <1>5 DEF Before
  <2> HIDE DEF OK
  <2>3. Index(b, a) \in T
    BY <2>2
  <2>4. i <= Index(b, a) /\ Index(b, a) \in Nat /\ i \in Nat
    <3> HIDE DEF T
    <3> QED
      BY <2>3, <1>3, <1>4
  <2> QED
    BY <2>2, <2>4
<1> HIDE DEF T, Bad
<1>8. PICK u \in R[v] : u \notin stop /\ ~ (ToSet(b.op[u].args) \subseteq R[v])
  BY <1>6
<1>9. R[v] = IF v \in stop THEN {v} ELSE {v} \cup UNION {R[a] : a \in ToSet(b.op[v].args)}
  BY <1>1, <1>6
<1>10. CASE u = v
  <2>1. \A a \in ToSet(b.op[v].args) : a \in R[v]
    BY <1>2, <1>7, <1>8, <1>9, <1>10
  <2> QED
    BY <2>1, <1>8, <1>10
<1>11. CASE u # v
  <2>1. PICK a \in ToSet(b.op[v].args) : u \in R[a] /\ R[a] \subseteq R[v]
    BY <1>8, <1>9, <1>11
  <2>2. ToSet(b.op[u].args) \subseteq R[a]
    BY <2>1, <1>7, <1>8
  <2> QED
    BY <2>1, <2>2, <1>8
<1> QED
  BY <1>10, <1>11

(* What the computation of some degrees adds to the memo. *)
LEMMA MemoisedClosed ==
  ASSUME IsBody(body), MemoOK(body, degreeMemo), Closed(body, degreeMemo), NEW vs, \A v \in vs : IsValue(body, v)
  PROVE  Closed(body, MemoisedAll(vs))
<1> DEFINE m == MemoisedAll(vs)
           V == UNION {Visited(v) : v \in vs}
<1>1. /\ DOMAIN m = DOMAIN degreeMemo \cup V
      /\ \A v \in DOMAIN m : m[v] = IF v \in DOMAIN degreeMemo THEN degreeMemo[v] ELSE Degree[v]
  BY DEF MemoisedAll, Overlay
<1>2. \A u \in V : IsValue(body, u) /\ (u \notin DOMAIN degreeMemo => ToSet(body.op[u].args) \subseteq V)
  <2> SUFFICES ASSUME NEW v \in vs, NEW u \in Visited(v)
               PROVE  IsValue(body, u) /\ (u \notin DOMAIN degreeMemo => ToSet(body.op[u].args) \subseteq Visited(v))
    OBVIOUS
  <2>1. v \in Live(body) /\ IsValue(body, v)
    BY DEF IsValue
  <2> QED
    BY <2>1, ReachedFacts, ReachedClosed DEF Visited
<1>3. /\ \A v : IsValue(body, v) => Degree[v] \in Nat
      /\ \A v : IsValue(body, v) /\ v \in DOMAIN degreeMemo => Degree[v] = degreeMemo[v]
      /\ \A v : IsValue(body, v) /\ v \notin DOMAIN degreeMemo /\ body.op[v].kind \in Leaves => Degree[v] <= 1
      /\ \A v : IsValue(body, v) => Degree[v] = DegreeOf(body, degreeMemo, Degree, v)
  BY Degrees, DegreeEquation DEF Degree, IsValue
<1> HIDE DEF m, V
<1>4. \A v \in DOMAIN m : IsValue(body, v) => m[v] = Degree[v]
  BY <1>1, <1>3
<1> SUFFICES ASSUME NEW v \in DOMAIN m, IsValue(body, v) PROVE ClosedAt(body, m, v)
  BY DEF Closed, m
<1> DEFINE x == body.op[v].args
<1>5. \A k \in DOMAIN x : IsValue(body, x[k])
  <2>1. v \in Live(body) /\ body.op[v].kind # "contain"
    BY DEF IsValue, Expressions, Leaves, Sums, Products
  <2> QED
    BY <2>1, OperandFacts
<1>6. \A k \in DOMAIN x : x[k] \in DOMAIN m
  <2>1. CASE v \in DOMAIN degreeMemo
    BY <2>1, <1>1 DEF Closed, ClosedAt
  <2>2. CASE v \notin DOMAIN degreeMemo
    BY <2>2, <1>1, <1>2 DEF ToSet
  <2> QED
    BY <2>1, <2>2
<1>7. \A k \in DOMAIN x : m[x[k]] = Degree[x[k]] /\ Degree[x[k]] \in Nat
  BY <1>3, <1>4, <1>5, <1>6
<1>8. m[v] = Degree[v] /\ Degree[v] \in Nat
  BY <1>3, <1>4
<1>9. CASE v \in DOMAIN degreeMemo
  <2>1. ClosedAt(body, degreeMemo, v) /\ m[v] = degreeMemo[v]
    BY <1>1, <1>9 DEF Closed
  <2>2. \A k \in DOMAIN x : degreeMemo[x[k]] \in Nat /\ m[x[k]] <= degreeMemo[x[k]] /\ m[x[k]] \in Nat
    BY <2>1, <1>3, <1>5, <1>7 DEF ClosedAt
  <2>3. DegreeOf(body, <<>>, m, v) <= DegreeOf(body, <<>>, degreeMemo, v)
    BY <2>2, DegreeIsMonotone
  <2>4. DegreeOf(body, <<>>, m, v) \in Nat /\ DegreeOf(body, <<>>, degreeMemo, v) \in Nat
    BY <1>7, <2>2, DegreeIsNumber
  <2> QED
    BY <2>1, <2>3, <2>4, <1>6, <1>8 DEF ClosedAt
<1>10. CASE v \notin DOMAIN degreeMemo
  <2>1. Degree[v] = DegreeOf(body, <<>>, Degree, v)
    <3>1. Degree[v] = DegreeOf(body, degreeMemo, Degree, v)
      BY <1>3
    <3>2. v \notin DOMAIN <<>>
      OBVIOUS
    <3> QED
      BY <3>1, <3>2, <1>10, Zenon DEF DegreeOf
  <2>2. DegreeOf(body, <<>>, m, v) <= DegreeOf(body, <<>>, Degree, v)
    <3>1. \A k \in DOMAIN x : Degree[x[k]] \in Nat /\ m[x[k]] \in Nat /\ m[x[k]] <= Degree[x[k]]
      BY <1>7
    <3> QED
      BY <3>1, DegreeIsMonotone
  <2> QED
    BY <2>1, <2>2, <1>3, <1>6, <1>8, <1>10 DEF ClosedAt
<1> QED
  BY <1>9, <1>10

Low(memo, bound, v) == v \in DOMAIN memo /\ memo[v] <= bound

(* The values at hand are low, those that are taken apart are not. *)
FrameLow(memo, bound, f) ==
  /\ f.at # "entry" => Tall(memo, bound, f.val)
  /\ f.at \in {"rhs", "factor"} => Low(memo, bound, f.lhs)
  /\ f.at = "factor" => Low(memo, bound, f.rhs)
StackLow(memo, bound, st) == \A i \in 1..Len(st) : FrameLow(memo, bound, st[i])
CacheLow(b, memo, bound, rw) == \A v \in DOMAIN rw : rw[v] \in Live(b) => Low(memo, bound, rw[v])

(* The operands of an equality or of a row that was visited are low, but    *)
(* for those that are left of the one being visited.                        *)
OperandsLow(b, memo, bound, u, cur, sl) ==
  \A k \in DOMAIN b.op[u].args : Low(memo, bound, b.op[u].args[k]) \/ (u = cur /\ k \in sl)
EqualitiesLow(b, memo, bound, ph, wk, cur, sl) ==
  \A e \in OfKind(b, "eq") : (ph = "equalities" /\ e \in wk) \/ OperandsLow(b, memo, bound, e, cur, sl)
RowsLow(b, memo, bound, ph, wk, cur, sl) ==
  \A l \in OfKind(b, "contain") :
    ph = "equalities" \/ (ph = "containments" /\ l \in wk) \/ OperandsLow(b, memo, bound, b.op[l].args[1], cur, sl)

(* Values that stay keep their degrees, and operands are replaced by values *)
(* of no greater degree, but for one operation; new values are low.         *)
Gentle(b, memo, c, memo2, bound, but) ==
  /\ \A v : IsValue(b, v) /\ v \in DOMAIN memo /\ v \in Live(c) /\ v # but =>
       v \in DOMAIN memo2 /\ memo2[v] = memo[v]
  /\ IsValue(b, but) => Low(memo2, bound, but)
  /\ \A u \in Live(b) : u \in Live(c) /\ u # but => \A k \in DOMAIN b.op[u].args :
       LET x == b.op[u].args[k]
           y == c.op[u].args[k]
       IN  /\ ~ IsValue(b, x) => y = x
           /\ IsValue(b, x) /\ x \in DOMAIN memo => y \in DOMAIN memo2 /\ memo2[y] <= memo[x]
  /\ \A v \in Live(c) \ Live(b) :
       c.op[v].kind \in {"aux", "eq", "mul"} /\ (v \in DOMAIN b.op => Low(memo2, bound, v))

(* What is low, stays. *)
LEMMA LowStays ==
  ASSUME NEW b, NEW memo, NEW c, NEW memo2, NEW bound, Keeps(b, memo, c, memo2, bound),
         NEW but, Gentle(b, memo, c, memo2, bound, but), NEW v, IsValue(b, v), Low(memo, bound, v)
  PROVE  IsValue(c, v) /\ Low(memo2, bound, v)
<1>1. v \in Live(b) /\ ~ Tall(memo, bound, v)
  BY DEF IsValue, Low, Tall
<1>2. v \in Live(c)
  BY <1>1 DEF Keeps
<1>3. IsValue(c, v)
  BY <1>1, <1>2 DEF Keeps, IsValue
<1> QED
  BY <1>2, <1>3 DEF Gentle, Low

(* So is what the memo has for a value no less than its operands make it. *)
LEMMA ClosedStays ==
  ASSUME NEW b, IsBody(b), NEW memo, MemoOK(b, memo), NEW c, IsBody(c), NEW memo2, MemoOK(c, memo2), NEW bound,
         Keeps(b, memo, c, memo2, bound), NEW but, Gentle(b, memo, c, memo2, bound, but), Closed(b, memo),
         \A v \in DOMAIN memo2 : IsValue(c, v) =>
           ClosedAt(c, memo2, v) \/ (v \in Live(b) /\ v \in DOMAIN memo /\ v # but)
  PROVE  Closed(c, memo2)
<1> SUFFICES ASSUME NEW v \in DOMAIN memo2, IsValue(c, v), v \in Live(b), v \in DOMAIN memo, v # but
             PROVE  ClosedAt(c, memo2, v)
  BY DEF Closed
<1> DEFINE x == b.op[v].args
           y == c.op[v].args
<1>1. v \in Live(c) /\ c.op[v].kind = b.op[v].kind /\ DOMAIN y = DOMAIN x /\ IsValue(b, v)
  BY DEF Keeps, IsValue
<1>2. ClosedAt(b, memo, v) /\ memo2[v] = memo[v] /\ memo[v] \in Nat
  BY <1>1 DEF Closed, Gentle, MemoOK
<1>3. b.op[v].kind # "contain" /\ c.op[v].kind # "contain"
  BY <1>1 DEF IsValue, Expressions, Leaves, Sums, Products
<1>4. \A k \in DOMAIN x : /\ memo[x[k]] \in Nat /\ y[k] \in DOMAIN memo2 /\ memo2[y[k]] \in Nat
                          /\ memo2[y[k]] <= memo[x[k]]
  <2> SUFFICES ASSUME NEW k \in DOMAIN x
               PROVE  /\ memo[x[k]] \in Nat /\ y[k] \in DOMAIN memo2 /\ memo2[y[k]] \in Nat
                      /\ memo2[y[k]] <= memo[x[k]]
    OBVIOUS
  <2>1. IsValue(b, x[k]) /\ x[k] \in DOMAIN memo
    BY <1>1, <1>2, <1>3, OperandFacts DEF ClosedAt, IsValue
  <2>2. IsValue(c, y[k])
    BY <1>1, <1>3, OperandFacts
  <2>3. y[k] \in DOMAIN memo2 /\ memo2[y[k]] <= memo[x[k]]
    BY <2>1, <1>1 DEF Gentle, IsValue
  <2> QED
    BY <2>1, <2>2, <2>3 DEF MemoOK
<1>5. DegreeOf(c, <<>>, memo2, v) <= DegreeOf(b, <<>>, memo, v)
  BY <1>1, <1>4, DegreeIsMonotone
<1>6. DegreeOf(b, <<>>, memo, v) \in Nat /\ DegreeOf(c, <<>>, memo2, v) \in Nat
  BY <1>1, <1>4, DegreeIsNumber
<1> QED
  BY <1>1, <1>2, <1>4, <1>5, <1>6 DEF ClosedAt

(* Operands that are low stay low. *)
LEMMA OperandsStay ==
  ASSUME NEW b, IsBody(b), NEW memo, MemoOK(b, memo), NEW c, IsBody(c), NEW memo2, MemoOK(c, memo2), NEW bound \in Nat,
         Keeps(b, memo, c, memo2, bound), NEW but, Gentle(b, memo, c, memo2, bound, but),
         NEW u \in Live(b), u \in Live(c), u # but, b.op[u].kind # "contain",
         NEW cur, NEW sl, OperandsLow(b, memo, bound, u, cur, sl)
  PROVE  OperandsLow(c, memo2, bound, u, cur, sl)
<1>1. DOMAIN c.op[u].args = DOMAIN b.op[u].args /\ c.op[u].kind = b.op[u].kind
  BY DEF Keeps
<1> SUFFICES ASSUME NEW k \in DOMAIN b.op[u].args, Low(memo, bound, b.op[u].args[k])
             PROVE  Low(memo2, bound, c.op[u].args[k])
  BY <1>1 DEF OperandsLow
<1> DEFINE x == b.op[u].args[k]
           y == c.op[u].args[k]
<1>2. IsValue(b, x) /\ IsValue(c, y)
  BY <1>1, OperandFacts
<1>3. x \in DOMAIN memo /\ memo[x] <= bound /\ memo[x] \in Nat
  BY <1>2 DEF Low, MemoOK
<1>4. y \in DOMAIN memo2 /\ memo2[y] <= memo[x] /\ memo2[y] \in Nat
  BY <1>2, <1>3 DEF Gentle, MemoOK
<1> QED
  BY <1>3, <1>4 DEF Low

(* The operands of what was visited stay low. *)
LEMMA WalksStay ==
  ASSUME NEW b, IsBody(b), NEW memo, MemoOK(b, memo), NEW c, IsBody(c), NEW memo2, MemoOK(c, memo2), NEW bound \in Nat,
         Keeps(b, memo, c, memo2, bound), NEW but, Gentle(b, memo, c, memo2, bound, but),
         but \in Live(b) => b.op[but].kind \notin {"eq", "array", "contain"},
         \A e \in OfKind(c, "eq") \ Live(b) : \A k \in DOMAIN c.op[e].args : Low(memo2, bound, c.op[e].args[k]),
         NEW ph, NEW wk, NEW cur, NEW sl,
         EqualitiesLow(b, memo, bound, ph, wk, cur, sl), RowsLow(b, memo, bound, ph, wk, cur, sl)
  PROVE  EqualitiesLow(c, memo2, bound, ph, wk, cur, sl) /\ RowsLow(c, memo2, bound, ph, wk, cur, sl)
<1>1. \A v \in Live(b) : v \in Live(c) => c.op[v].kind = b.op[v].kind
  BY DEF Keeps
<1>2. EqualitiesLow(c, memo2, bound, ph, wk, cur, sl)
  <2> SUFFICES ASSUME NEW e \in OfKind(c, "eq"), ~ (ph = "equalities" /\ e \in wk)
               PROVE  OperandsLow(c, memo2, bound, e, cur, sl)
    BY DEF EqualitiesLow
  <2>1. CASE e \in Live(b)
    <3>1. e \in OfKind(b, "eq") /\ e \in Live(c) /\ b.op[e].kind = "eq" /\ e # but
      BY <2>1, <1>1 DEF OfKind
    <3>2. OperandsLow(b, memo, bound, e, cur, sl)
      BY <3>1 DEF EqualitiesLow
    <3> QED
      BY <3>1, <3>2, <2>1, OperandsStay
  <2>2. CASE e \notin Live(b)
    BY <2>2 DEF OperandsLow
  <2> QED
    BY <2>1, <2>2
<1>3. RowsLow(c, memo2, bound, ph, wk, cur, sl)
  <2> SUFFICES ASSUME NEW l \in OfKind(c, "contain"), ph # "equalities", ~ (ph = "containments" /\ l \in wk)
               PROVE  OperandsLow(c, memo2, bound, c.op[l].args[1], cur, sl)
    BY DEF RowsLow
  <2>1. l \in Live(c) /\ c.op[l].kind = "contain"
    BY DEF OfKind
  <2>2. l \in Live(b)
    BY <2>1 DEF Gentle
  <2>3. b.op[l].kind = "contain" /\ l # but /\ l \in OfKind(b, "contain")
    BY <1>1, <2>1, <2>2 DEF OfKind
  <2> DEFINE row == b.op[l].args[1]
  <2>4. 1 \in DOMAIN b.op[l].args
    BY <2>2, <2>3, Arities
  <2>5. row \in Live(b) /\ b.op[row].kind = "array"
    BY <2>2, <2>3, <2>4, OperandFacts DEF OperandKinds, Before
  <2>6. ~ IsValue(b, row) /\ b.op[row].kind # "mul"
    BY <2>5 DEF IsValue, Expressions, Leaves, Sums, Products
  <2>7. c.op[l].args[1] = row
    BY <2>1, <2>2, <2>3, <2>4, <2>6 DEF Gentle
  <2>8. row \in Live(c) /\ row # but
    BY <2>5, <2>6, HeldKept
  <2>9. OperandsLow(b, memo, bound, row, cur, sl)
    BY <2>3 DEF RowsLow
  <2> HIDE DEF row
  <2>10. OperandsLow(c, memo2, bound, row, cur, sl)
    BY <2>5, <2>8, <2>9, OperandsStay
  <2> QED
    BY <2>7, <2>10
<1> QED
  BY <1>2, <1>3

(* So do the values of the activations. *)
LEMMA StackStays ==
  ASSUME NEW b, NEW memo, NEW c, NEW memo2, NEW bound, Keeps(b, memo, c, memo2, bound),
         NEW but, Gentle(b, memo, c, memo2, bound, but),
         NEW st, NEW cur, StackOK(b, memo, bound, st, cur),
         \A i \in 1..Len(st) : st[i].val # but /\ st[i].val \in Live(c), StackLow(memo, bound, st)
  PROVE  StackLow(memo2, bound, st)
<1> SUFFICES ASSUME NEW i \in 1..Len(st) PROVE FrameLow(memo2, bound, st[i])
  BY DEF StackLow
<1> DEFINE f == st[i]
<1>1. FrameOK(b, memo, bound, f) /\ (f.at = "factor" => FactorOK(b, memo, bound, f)) /\ f.val # but /\ f.val \in Live(c)
      /\ FrameLow(memo, bound, f)
  BY DEF StackOK, StackLow
<1> HIDE DEF f
<1>2. f.at # "entry" => Tall(memo2, bound, f.val)
  BY <1>1 DEF FrameOK, FrameLow, Gentle, Tall
<1>3. f.at \in {"rhs", "factor"} => Low(memo2, bound, f.lhs)
  <2> SUFFICES ASSUME f.at \in {"rhs", "factor"} PROVE Low(memo2, bound, f.lhs)
    OBVIOUS
  <2>1. IsValue(b, f.lhs) /\ Low(memo, bound, f.lhs)
    BY <1>1 DEF FrameOK, FrameLow, Held
  <2> QED
    BY <2>1, LowStays
<1>4. f.at = "factor" => Low(memo2, bound, f.rhs)
  <2> SUFFICES ASSUME f.at = "factor" PROVE Low(memo2, bound, f.rhs)
    OBVIOUS
  <2>1. IsValue(b, f.rhs) /\ Low(memo, bound, f.rhs)
    BY <1>1 DEF FactorOK, FrameLow, Held
  <2> QED
    BY <2>1, LowStays
<1> QED
  BY <1>2, <1>3, <1>4 DEF FrameLow, f

Bounded(b, memo, bound, rw, st, ret, ph, wk, cur, sl) ==
  /\ OfKind(b, "div") = {}
  /\ Closed(b, memo)
  /\ CacheLow(b, memo, bound, rw)
  /\ StackLow(memo, bound, st)
  /\ ret # None => Low(memo, bound, ret)
  /\ EqualitiesLow(b, memo, bound, ph, wk, cur, sl)
  /\ RowsLow(b, memo, bound, ph, wk, cur, sl)

(* A step that keeps the block makes no operation of the kinds that are not *)
(* its own.                                                                 *)
LEMMA KindsStay ==
  ASSUME NEW b, NEW memo, NEW c, NEW memo2, NEW bound, Keeps(b, memo, c, memo2, bound),
         NEW but, Gentle(b, memo, c, memo2, bound, but)
  PROVE  \A kind : kind \notin {"aux", "eq", "mul"} => OfKind(c, kind) \subseteq OfKind(b, kind)
<1>1. \A v \in Live(b) : v \in Live(c) => c.op[v].kind = b.op[v].kind
  BY DEF Keeps
<1>2. \A v \in Live(c) : v \notin Live(b) => c.op[v].kind \in {"aux", "eq", "mul"}
  BY DEF Gentle
<1> QED
  BY <1>1, <1>2 DEF OfKind

(* All of it stays, where the stack has no activation of the operation that *)
(* is changed.                                                              *)
LEMMA BoundedStays ==
  ASSUME NEW b, IsBody(b), NEW memo, MemoOK(b, memo), NEW c, IsBody(c), NEW memo2, MemoOK(c, memo2), NEW bound \in Nat,
         Keeps(b, memo, c, memo2, bound), NEW but, Gentle(b, memo, c, memo2, bound, but),
         but \in Live(b) => b.op[but].kind \notin {"eq", "array", "contain"},
         \A e \in OfKind(c, "eq") \ Live(b) : \A k \in DOMAIN c.op[e].args : Low(memo2, bound, c.op[e].args[k]),
         \A v \in DOMAIN memo2 : IsValue(c, v) =>
           ClosedAt(c, memo2, v) \/ (v \in Live(b) /\ v \in DOMAIN memo /\ v # but),
         NEW rw, RewritesOK(b, memo, bound, rw),
         NEW st, NEW cur, StackOK(b, memo, bound, st, cur), \A i \in 1..Len(st) : st[i].val # but /\ st[i].val \in Live(c),
         NEW ret, ret # None => IsValue(b, ret),
         NEW ph, NEW wk, NEW sl, Bounded(b, memo, bound, rw, st, ret, ph, wk, cur, sl)
  PROVE  Bounded(c, memo2, bound, rw, st, ret, ph, wk, cur, sl)
<1>1. OfKind(c, "div") = {}
  BY KindsStay DEF Bounded
<1>2. Closed(c, memo2)
  BY ClosedStays DEF Bounded
<1>3. CacheLow(c, memo2, bound, rw)
  <2> SUFFICES ASSUME NEW v \in DOMAIN rw, rw[v] \in Live(c) PROVE Low(memo2, bound, rw[v])
    BY DEF CacheLow
  <2>1. CASE rw[v] \in Live(b)
    <3>1. IsValue(b, rw[v]) /\ Low(memo, bound, rw[v])
      BY <2>1 DEF RewritesOK, Held, Bounded, CacheLow
    <3> QED
      BY <3>1, LowStays
  <2>2. CASE rw[v] \notin Live(b)
    BY <2>2 DEF RewritesOK, Gentle
  <2> QED
    BY <2>1, <2>2
<1>4. StackLow(memo2, bound, st)
  BY StackStays DEF Bounded
<1>5. ret # None => Low(memo2, bound, ret)
  BY LowStays DEF Bounded
<1>6. EqualitiesLow(c, memo2, bound, ph, wk, cur, sl) /\ RowsLow(c, memo2, bound, ph, wk, cur, sl)
  BY WalksStay DEF Bounded
<1> QED
  BY <1>1, <1>2, <1>3, <1>4, <1>5, <1>6 DEF Bounded

(* Activations under the innermost one are as low. *)
LEMMA PoppedLow ==
  ASSUME NEW memo, NEW bound, NEW st \in Seq(Frames), st # <<>>, StackLow(memo, bound, st)
  PROVE  FrameLow(memo, bound, Head(st)) /\ StackLow(memo, bound, Tail(st))
<1>1. /\ Len(st) \in Nat /\ Len(st) > 0 /\ Len(Tail(st)) = Len(st) - 1 /\ Head(st) = st[1]
      /\ \A i \in 1..(Len(st) - 1) : Tail(st)[i] = st[i + 1]
  BY Popped
<1>2. \A i \in 1..Len(st) : FrameLow(memo, bound, st[i])
  BY DEF StackLow
<1>3. FrameLow(memo, bound, st[1])
  BY <1>1, <1>2
<1>4. \A i \in 1..Len(Tail(st)) : FrameLow(memo, bound, Tail(st)[i])
  <2> SUFFICES ASSUME NEW i \in 1..Len(Tail(st)) PROVE FrameLow(memo, bound, Tail(st)[i])
    OBVIOUS
  <2>1. i + 1 \in 1..Len(st) /\ Tail(st)[i] = st[i + 1]
    BY <1>1
  <2> QED
    BY <2>1, <1>2
<1> QED
  BY <1>1, <1>3, <1>4 DEF StackLow

(* So is a stack with another innermost one. *)
LEMMA PushedLow ==
  ASSUME NEW memo, NEW bound, NEW f \in Frames, NEW T \in Seq(Frames), FrameLow(memo, bound, f), StackLow(memo, bound, T)
  PROVE  StackLow(memo, bound, <<f>> \o T)
<1>1. /\ Len(<<f>> \o T) = Len(T) + 1 /\ Len(T) \in Nat
      /\ (<<f>> \o T)[1] = f /\ \A i \in 1..Len(T) : (<<f>> \o T)[i + 1] = T[i]
  BY Pushed, LenProperties
<1> DEFINE s == <<f>> \o T
<1> HIDE DEF s
<1> SUFFICES ASSUME NEW i \in 1..Len(s) PROVE FrameLow(memo, bound, s[i])
  BY DEF StackLow, s
<1>2. CASE i = 1
  BY <1>1, <1>2 DEF s
<1>3. CASE i # 1
  <2>1. i - 1 \in 1..Len(T) /\ (i - 1) + 1 = i
    BY <1>1, <1>3 DEF s
  <2>2. s[(i - 1) + 1] = T[i - 1]
    BY <1>1, <2>1 DEF s
  <2> QED
    BY <2>1, <2>2 DEF StackLow
<1> QED
  BY <1>2, <1>3

(* Degrees that are added to the memo are gentle. *)
LEMMA ExtendedIsGentle ==
  ASSUME NEW b, IsBody(b), NEW memo, MemoOK(b, memo), NEW memo2, Extended(memo, memo2, None), NEW bound
  PROVE  Gentle(b, memo, b, memo2, bound, None)
<1>1. \A v \in Live(b) : v # None
  BY LiveIsSome
<1>2. \A v : IsValue(b, v) /\ v \in DOMAIN memo => v \in DOMAIN memo2 /\ memo2[v] = memo[v] /\ memo[v] \in Nat
  BY <1>1 DEF Extended, IsValue, MemoOK
<1> QED
  BY <1>1, <1>2 DEF Gentle, IsValue

(* So is an insertion that puts a low value for one of no lesser degree. *)
LEMMA InsertedIsGentle ==
  ASSUME NEW b, IsBody(b), NEW c, NEW ids, NEW operations, NEW old, NEW new \in ids, NEW before,
         Inserted(b, c, ids, operations, old, new, before), IsValue(b, old), NEW memo, MemoOK(b, memo),
         NEW bound \in Nat, NEW d \in Nat, d <= bound, old \in DOMAIN memo => d <= memo[old],
         \A v \in ids : operations[v].kind \in {"aux", "eq", "mul"} /\ (v \in DOMAIN b.op => v = new)
  PROVE  Gentle(b, memo, c, Put(memo, new, d), bound, None)
<1> DEFINE m == Put(memo, new, d)
<1>1. DOMAIN m = DOMAIN memo \cup {new} /\ m[new] = d /\ \A z \in DOMAIN memo : z # new => m[z] = memo[z]
  BY DEF Put
<1> HIDE DEF m
<1>2. /\ Live(c) = Live(b) \cup ids /\ ids \cap Live(b) = {}
      /\ \A id \in ids : c.op[id] = operations[id]
      /\ \A id \in Live(b) : \A k \in DOMAIN b.op[id].args :
            \/ c.op[id].args[k] = b.op[id].args[k]
            \/ c.op[id].args[k] = new /\ b.op[id].args[k] = old
  BY DEF Inserted
<1>3. \A v : IsValue(b, v) /\ v \in DOMAIN memo => v \in DOMAIN m /\ m[v] = memo[v] /\ memo[v] \in Nat
  BY <1>1, <1>2 DEF IsValue, MemoOK
<1>4. ~ IsValue(b, None)
  BY LiveIsSome DEF IsValue
<1>5. \A v \in Live(c) \ Live(b) : c.op[v].kind \in {"aux", "eq", "mul"} /\ (v \in DOMAIN b.op => Low(m, bound, v))
  BY <1>1, <1>2 DEF Low
<1>6. \A u \in Live(b) : \A k \in DOMAIN b.op[u].args :
       LET x == b.op[u].args[k]
           y == c.op[u].args[k]
       IN  /\ ~ IsValue(b, x) => y = x
           /\ IsValue(b, x) /\ x \in DOMAIN memo => y \in DOMAIN m /\ m[y] <= memo[x]
  <2> SUFFICES ASSUME NEW u \in Live(b), NEW k \in DOMAIN b.op[u].args
               PROVE  LET x == b.op[u].args[k]
                          y == c.op[u].args[k]
                      IN  /\ ~ IsValue(b, x) => y = x
                          /\ IsValue(b, x) /\ x \in DOMAIN memo => y \in DOMAIN m /\ m[y] <= memo[x]
    OBVIOUS
  <2>1. CASE c.op[u].args[k] = b.op[u].args[k]
    BY <2>1, <1>3
  <2>2. CASE c.op[u].args[k] = new /\ b.op[u].args[k] = old
    BY <2>2, <1>1
  <2> QED
    BY <2>1, <2>2, <1>2
<1> QED
  BY <1>3, <1>4, <1>5, <1>6 DEF Gentle, m

(* And an erasure after it. *)
LEMMA WithoutIsGentle ==
  ASSUME NEW b, NEW memo, NEW c1, NEW memo2, NEW bound, NEW but, Gentle(b, memo, c1, memo2, bound, but),
         NEW gone, NEW c, Without(c1, c, gone)
  PROVE  Gentle(b, memo, c, memo2, bound, but)
<1>1. c.op = c1.op /\ Live(c) \subseteq Live(c1)
  BY DEF Without
<1> QED
  BY <1>1 DEF Gentle

(* Degrees of all that the pass holds or has visited are within the bound. *)
DegreesOK == Bounded(body, degreeMemo, maxDegree, rewrites, stack, returned, phase, walk, current, slots)

(* No operation of these kinds is made. *)
KindsKept == \A kind \in {"div", "call"} : OfKind(body', kind) \subseteq OfKind(body, kind)

(* Without its innermost activation, all stays within the bound. *)
LEMMA Poppable ==
  ASSUME Inv, DegreesOK, stack # <<>>
  PROVE  /\ FrameLow(degreeMemo, maxDegree, Top) /\ StackLow(degreeMemo, maxDegree, Tail(stack))
         /\ Bounded(body, degreeMemo, maxDegree, rewrites, Tail(stack), None, phase, walk, current, slots)
         /\ maxDegree \in Nat /\ maxDegree >= 2
<1>1. stack \in Seq(Frames) /\ StackLow(degreeMemo, maxDegree, stack)
  BY DEF Inv, StackOK, DegreesOK, Bounded
<1>2. FrameLow(degreeMemo, maxDegree, Top) /\ StackLow(degreeMemo, maxDegree, Tail(stack))
  BY <1>1, PoppedLow DEF Top
<1>3. maxDegree \in Nat /\ maxDegree >= 2
  BY Bounds DEF Inv
<1> QED
  BY <1>2, <1>3 DEF DegreesOK, Bounded

(* Values that are looked up. *)
LEMMA LookedUpBounded ==
  ASSUME Inv, NEW vs, \A v \in vs : IsValue(body, v),
         NEW st, StackOK(body, degreeMemo, maxDegree, st, current), NEW ret, ret # None => IsValue(body, ret),
         NEW ph, NEW wk, NEW sl, Bounded(body, degreeMemo, maxDegree, rewrites, st, ret, ph, wk, current, sl)
  PROVE  Bounded(body, MemoisedAll(vs), maxDegree, rewrites, st, ret, ph, wk, current, sl)
<1> DEFINE m == MemoisedAll(vs)
<1>1. /\ IsBody(body) /\ MemoOK(body, degreeMemo) /\ RewritesOK(body, degreeMemo, maxDegree, rewrites)
      /\ maxDegree \in Nat
  BY Bounds DEF Inv
<1>2. Keeps(body, degreeMemo, body, m, maxDegree) /\ MemoOK(body, m) /\ Extended(degreeMemo, m, None)
  BY LookedUp
<1>3. Closed(body, m)
  BY <1>1, MemoisedClosed DEF Bounded
<1> HIDE DEF m
<1>4. Gentle(body, degreeMemo, body, m, maxDegree, None)
  BY <1>1, <1>2, ExtendedIsGentle
<1>5. \A v \in Live(body) : v # None
  BY <1>1, LiveIsSome
<1>6. \A i \in 1..Len(st) : st[i].val # None /\ st[i].val \in Live(body)
  BY <1>5 DEF StackOK, FrameOK, IsValue
<1>7. \A e \in OfKind(body, "eq") : e \in Live(body)
  BY DEF OfKind
<1> QED
  BY <1>1, <1>2, <1>3, <1>4, <1>5, <1>6, <1>7, BoundedStays DEF Closed, m

(* Each step of lowerExpression keeps the degrees within the bound. *)
LEMMA ReturnCachedBounded ==
  ASSUME Inv, DegreesOK, ReturnCached
  PROVE  DegreesOK' /\ KindsKept
<1>1. /\ stack # <<>> /\ rewrites[Top.val] \in Live(body) /\ Top.val \in DOMAIN rewrites
      /\ stack' = Tail(stack) /\ returned' = rewrites[Top.val]
      /\ body' = body /\ degreeMemo' = degreeMemo /\ rewrites' = rewrites
      /\ maxDegree' = maxDegree /\ phase' = phase /\ walk' = walk /\ current' = current /\ slots' = slots
  BY DEF ReturnCached, HasCachedRewrite, ProperlyDominates, Return, CallersUnchanged
<1>2. Low(degreeMemo, maxDegree, rewrites[Top.val])
  BY <1>1 DEF DegreesOK, Bounded, CacheLow
<1>3. Bounded(body, degreeMemo, maxDegree, rewrites, Tail(stack), rewrites[Top.val], phase, walk, current, slots)
  BY <1>1, <1>2, Poppable DEF Bounded
<1> QED
  BY <1>1, <1>3 DEF DegreesOK, KindsKept

LEMMA ReturnUnchangedBounded ==
  ASSUME Inv, DegreesOK, ReturnUnchanged
  PROVE  DegreesOK' /\ KindsKept
<1> DEFINE m == MemoisedAll({Top.val})
           rw == Overlay(rewrites, [v \in {Top.val} |-> Top.val])
<1>1. /\ stack # <<>> /\ stack' = Tail(stack) /\ returned' = Top.val
      /\ Degree[Top.val] <= maxDegree \/ body.op[Top.val].kind \notin LoweredRoots
      /\ body' = body /\ degreeMemo' = m /\ rewrites' = rw
      /\ maxDegree' = maxDegree /\ phase' = phase /\ walk' = walk /\ current' = current /\ slots' = slots
  BY DEF ReturnUnchanged, Memoised, IdentityIfAbsent, Return, CallersUnchanged
<1>2. IsValue(body, Top.val) /\ StackOK(body, degreeMemo, maxDegree, Tail(stack), current)
  BY TopFacts, <1>1
<1>3. maxDegree \in Nat /\ maxDegree >= 2
      /\ Bounded(body, degreeMemo, maxDegree, rewrites, Tail(stack), None, phase, walk, current, slots)
  BY Poppable, <1>1
<1>4. Top.val \in DOMAIN m /\ m[Top.val] = Degree[Top.val] /\ Degree[Top.val] \in Nat
  BY LookedUp, <1>2
<1>5. Bounded(body, m, maxDegree, rewrites, Tail(stack), None, phase, walk, current, slots)
  BY <1>2, <1>3, LookedUpBounded
<1> HIDE DEF m
<1>6. Low(m, maxDegree, Top.val)
  <2>1. CASE Degree[Top.val] <= maxDegree
    BY <2>1, <1>4 DEF Low
  <2>2. CASE body.op[Top.val].kind \notin LoweredRoots
    <3>1. body.op[Top.val].kind # "div"
      BY <1>2, <1>5 DEF Bounded, OfKind, IsValue
    <3>2. body.op[Top.val].kind \in Leaves
      BY <1>2, <2>2, <3>1 DEF IsValue, Expressions, Sums, Products, LoweredRoots
    <3>3. ClosedAt(body, m, Top.val)
      BY <1>2, <1>4, <1>5 DEF Bounded, Closed
    <3> QED
      BY <3>2, <3>3, <1>3, <1>4 DEF ClosedAt, Low
  <2> QED
    BY <2>1, <2>2, <1>1
<1>7. CacheLow(body, m, maxDegree, rw)
  BY <1>5, <1>6 DEF Bounded, CacheLow, Overlay
<1> HIDE DEF rw
<1>8. Bounded(body, m, maxDegree, rw, Tail(stack), Top.val, phase, walk, current, slots)
  BY <1>5, <1>6, <1>7 DEF Bounded
<1> QED
  BY <1>1, <1>8 DEF DegreesOK, KindsKept

(* An activation of an operand is put on its user's. *)
LEMMA DescentBounded ==
  ASSUME Inv, stack # <<>>, NEW m, NEW g \in Frames, FrameLow(m, maxDegree, g), NEW x, x \in Nat,
         Bounded(body, m, maxDegree, rewrites, Tail(stack), None, phase, walk, current, slots)
  PROVE  Bounded(body, m, maxDegree, rewrites, <<Frame(x, Top.val), g>> \o Tail(stack), None,
                 phase, walk, current, slots)
<1> DEFINE f == Frame(x, Top.val)
           T == Tail(stack)
<1>1. T \in Seq(Frames) /\ Top.val \in Nat
  BY TopFacts DEF Frames
<1>2. f \in Frames /\ f.at = "entry"
  BY <1>1 DEF Frame, Frames, None
<1>3. FrameLow(m, maxDegree, f)
  BY <1>2 DEF FrameLow
<1> HIDE DEF f, T
<1>4. StackLow(m, maxDegree, <<g>> \o T) /\ <<g>> \o T \in Seq(Frames)
  BY <1>1, PushedLow, Pushed DEF Bounded, T
<1>5. StackLow(m, maxDegree, <<f>> \o (<<g>> \o T))
  BY <1>2, <1>3, <1>4, PushedLow
<1>6. <<f, g>> \o T = <<f>> \o (<<g>> \o T)
  BY <1>1, <1>2, TwoPushed
<1> QED
  BY <1>5, <1>6 DEF Bounded, f, T

LEMMA LowerLhsBounded ==
  ASSUME Inv, DegreesOK, LowerLhs
  PROVE  DegreesOK' /\ KindsKept
<1> DEFINE m == MemoisedAll({Top.val})
           x == body.op[Top.val].args[1]
           g == [Top EXCEPT !.at = "lhs"]
<1>1. /\ stack # <<>> /\ Top.at = "entry" /\ Degree[Top.val] > maxDegree
      /\ body.op[Top.val].kind \in LoweredRoots
      /\ body' = body /\ degreeMemo' = m /\ rewrites' = rewrites
      /\ stack' = <<Frame(x, Top.val), g>> \o Tail(stack) /\ returned' = returned
      /\ maxDegree' = maxDegree /\ phase' = phase /\ walk' = walk /\ current' = current /\ slots' = slots
  BY DEF LowerLhs, Memoised, Call, CallersUnchanged
<1>2. /\ Top \in Frames /\ IsValue(body, Top.val) /\ Top.val \in Live(body) /\ returned = None
      /\ StackOK(body, degreeMemo, maxDegree, Tail(stack), current)
  BY TopFacts, <1>1
<1>3. Top.val \in DOMAIN m /\ m[Top.val] = Degree[Top.val] /\ Degree[Top.val] \in Nat
  BY <1>2, LookedUp
<1>4. IsBody(body) /\ maxDegree \in Nat
  BY Bounds DEF Inv
<1>5. Bounded(body, m, maxDegree, rewrites, Tail(stack), None, phase, walk, current, slots)
  BY <1>1, <1>2, Poppable, LookedUpBounded
<1> HIDE DEF m
<1>6. Tall(m, maxDegree, Top.val)
  BY <1>1, <1>3, <1>4 DEF Tall
<1>7. g \in Frames /\ g.val = Top.val /\ g.at = "lhs"
  BY <1>2 DEF Frames
<1> HIDE DEF g
<1>8. FrameLow(m, maxDegree, g)
  BY <1>6, <1>7 DEF FrameLow
<1>9. x \in Nat
  <2>1. 1 \in DOMAIN body.op[Top.val].args
    BY <1>1, <1>2, <1>4, Arities DEF LoweredRoots, Sums, Products
  <2> QED
    BY <2>1, <1>2, <1>4, OperandFacts
<1> HIDE DEF x
<1>10. Bounded(body, m, maxDegree, rewrites, stack', returned', phase, walk, current, slots)
  BY <1>1, <1>2, <1>5, <1>7, <1>8, <1>9, DescentBounded
<1> QED
  BY <1>1, <1>10 DEF DegreesOK, KindsKept

LEMMA LowerRhsBounded ==
  ASSUME Inv, DegreesOK, LowerRhs
  PROVE  DegreesOK' /\ KindsKept
<1> DEFINE x == body.op[Top.val].args[2]
           g == [Top EXCEPT !.at = "rhs", !.lhs = returned]
<1>1. /\ stack # <<>> /\ Top.at = "lhs" /\ returned # None /\ body.op[Top.val].kind # "neg"
      /\ body' = body /\ degreeMemo' = degreeMemo /\ rewrites' = rewrites
      /\ stack' = <<Frame(x, Top.val), g>> \o Tail(stack) /\ returned' = None
      /\ maxDegree' = maxDegree /\ phase' = phase /\ walk' = walk /\ current' = current /\ slots' = slots
  BY DEF LowerRhs, CallersUnchanged
<1>2. /\ Top \in Frames /\ FrameOK(body, degreeMemo, maxDegree, Top) /\ IsValue(body, Top.val) /\ Top.val \in Live(body)
      /\ Held(body, degreeMemo, maxDegree, returned)
  BY TopFacts, <1>1
<1>3. IsBody(body)
  BY DEF Inv
<1>4. /\ FrameLow(degreeMemo, maxDegree, Top)
      /\ Bounded(body, degreeMemo, maxDegree, rewrites, Tail(stack), None, phase, walk, current, slots)
  BY <1>1, Poppable
<1>5. Low(degreeMemo, maxDegree, returned)
  BY <1>1 DEF DegreesOK, Bounded
<1>6. returned \in Nat
  BY <1>2, <1>3, LiveIsSome DEF Held, IsValue
<1>7. g \in Frames /\ g.val = Top.val /\ g.at = "rhs" /\ g.lhs = returned
  BY <1>2, <1>6 DEF Frames
<1> HIDE DEF g
<1>8. FrameLow(degreeMemo, maxDegree, g)
  BY <1>1, <1>4, <1>5, <1>7 DEF FrameLow
<1>9. x \in Nat
  <2>1. 2 \in DOMAIN body.op[Top.val].args
    BY <1>1, <1>2, <1>3, Arities DEF FrameOK, LoweredRoots, Sums, Products
  <2> QED
    BY <2>1, <1>2, <1>3, OperandFacts
<1> HIDE DEF x
<1>10. Bounded(body, degreeMemo, maxDegree, rewrites, stack', returned', phase, walk, current, slots)
  BY <1>1, <1>4, <1>7, <1>8, <1>9, DescentBounded
<1> QED
  BY <1>1, <1>10 DEF DegreesOK, KindsKept

(* An activation stays on top. *)
LEMMA TopBounded ==
  ASSUME Inv, stack # <<>>, NEW b, NEW m, NEW rw, NEW g \in Frames, FrameLow(m, maxDegree, g),
         Bounded(b, m, maxDegree, rw, Tail(stack), None, phase, walk, current, slots)
  PROVE  Bounded(b, m, maxDegree, rw, <<g>> \o Tail(stack), None, phase, walk, current, slots)
<1>1. Tail(stack) \in Seq(Frames)
  BY TopFacts
<1>2. StackLow(m, maxDegree, <<g>> \o Tail(stack))
  BY <1>1, PushedLow DEF Bounded
<1> QED
  BY <1>2 DEF Bounded

LEMMA BeginProductBounded ==
  ASSUME Inv, DegreesOK, BeginProduct
  PROVE  DegreesOK' /\ KindsKept
<1> DEFINE m == MemoisedAll({Top.lhs, returned})
           before == Following(body, Top.val)
           g == [Top EXCEPT !.at = "factor", !.rhs = returned, !.before = before,
                            !.eraseMul = Degree[Top.lhs] + Degree[returned] > maxDegree]
<1>1. /\ stack # <<>> /\ Top.at = "rhs" /\ returned # None
      /\ body.op[Top.val].kind = "mul"
      /\ body' = body /\ degreeMemo' = m /\ rewrites' = rewrites
      /\ stack' = <<g>> \o Tail(stack) /\ returned' = None
      /\ maxDegree' = maxDegree /\ phase' = phase /\ walk' = walk /\ current' = current /\ slots' = slots
  BY DEF BeginProduct, CallersUnchanged
<1>2. /\ Top \in Frames /\ FrameOK(body, degreeMemo, maxDegree, Top) /\ IsValue(body, Top.val) /\ Top.val \in Live(body)
      /\ Held(body, degreeMemo, maxDegree, returned) /\ Before(body, Top.val, Top.useOp)
      /\ StackOK(body, degreeMemo, maxDegree, Tail(stack), current)
  BY TopFacts, <1>1
<1>3. /\ FrameLow(degreeMemo, maxDegree, Top)
      /\ Bounded(body, degreeMemo, maxDegree, rewrites, Tail(stack), None, phase, walk, current, slots)
  BY <1>1, Poppable
<1>4. Low(degreeMemo, maxDegree, returned) /\ Low(degreeMemo, maxDegree, Top.lhs) /\ Tall(degreeMemo, maxDegree, Top.val)
  BY <1>1, <1>3 DEF DegreesOK, Bounded, FrameLow
<1>5. IsValue(body, returned) /\ IsValue(body, Top.lhs)
  BY <1>1, <1>2 DEF FrameOK, Held
<1>6. \A v \in {Top.lhs, returned} : IsValue(body, v)
  BY <1>5
<1>7. Extended(degreeMemo, m, None)
  BY <1>6, LookedUp
<1>8. Bounded(body, m, maxDegree, rewrites, Tail(stack), None, phase, walk, current, slots)
  BY <1>2, <1>3, <1>6, LookedUpBounded
<1> HIDE DEF m
<1>9. IsBody(body) /\ IsBlock(body)
  BY DEF Inv, IsBody
<1>10. Low(m, maxDegree, returned) /\ Low(m, maxDegree, Top.lhs) /\ Tall(m, maxDegree, Top.val)
  <2>1. returned # None /\ Top.lhs # None /\ Top.val # None
    BY <1>2, <1>5, <1>9, LiveIsSome DEF IsValue
  <2> QED
    BY <2>1, <1>4, <1>7 DEF Extended, Low, Tall
<1>11. before \in Nat /\ returned \in Nat
  BY <1>2, <1>5, <1>9, FollowingFacts, LiveIsSome DEF Before, IsValue
<1> HIDE DEF before
<1>12. g \in Frames /\ g.val = Top.val /\ g.at = "factor" /\ g.lhs = Top.lhs /\ g.rhs = returned
  <2> DEFINE e == Degree[Top.lhs] + Degree[returned] > maxDegree
  <2>1. e \in BOOLEAN
    OBVIOUS
  <2>2. g = [Top EXCEPT !.at = "factor", !.rhs = returned, !.before = before, !.eraseMul = e]
    OBVIOUS
  <2> HIDE DEF e, g
  <2> QED
    BY <2>1, <2>2, <1>2, <1>11 DEF Frames
<1> HIDE DEF g
<1>13. FrameLow(m, maxDegree, g)
  BY <1>10, <1>12 DEF FrameLow
<1>14. Bounded(body, m, maxDegree, rewrites, stack', None, phase, walk, current, slots)
  BY <1>1, <1>8, <1>12, <1>13, TopBounded
<1> QED
  BY <1>1, <1>14 DEF DegreesOK, KindsKept

(* A root whose operands are low gets a degree within the bound. *)
LEMMA RootBounded ==
  ASSUME Inv, stack # <<>>, FrameOK(body, degreeMemo, maxDegree, Top), Tall(degreeMemo, maxDegree, Top.val),
         body.op[Top.val].kind \in Sums \cup {"neg"}, NEW args \in Seq(Nat), DOMAIN args = DOMAIN body.op[Top.val].args,
         \A k \in DOMAIN args : IsValue(body, args[k]) /\ Before(body, args[k], Top.val)
                                /\ Low(degreeMemo, maxDegree, args[k]),
         NEW d, d = (IF body.op[Top.val].kind = "neg" THEN Degree[args[1]] ELSE Larger(Degree[args[1]], Degree[args[2]])),
         Bounded(body, degreeMemo, maxDegree, rewrites, Tail(stack), None, phase, walk, current, slots)
  PROVE  LET c == SetArgs(body, Top.val, args)
             m == Put(MemoisedAll(ToSet(args)), Top.val, d)
         IN  /\ Bounded(c, m, maxDegree, rewrites, Tail(stack), None, phase, walk, current, slots)
             /\ Low(m, maxDegree, Top.val)
             /\ \A kind \in {"div", "call"} : OfKind(c, kind) \subseteq OfKind(body, kind)
<1> DEFINE v == Top.val
           vs == ToSet(args)
           m1 == MemoisedAll(vs)
           m == Put(m1, v, d)
           c == SetArgs(body, v, args)
           kind == body.op[v].kind
<1>1. /\ IsBody(body) /\ IsBlock(body) /\ MemoOK(body, degreeMemo) /\ maxDegree \in Nat
      /\ RewritesOK(body, degreeMemo, maxDegree, rewrites)
  BY Bounds DEF Inv, IsBody
<1>2. v \in Live(body) /\ IsValue(body, v) /\ StackOK(body, degreeMemo, maxDegree, Tail(stack), current)
      /\ \A i \in 1..Len(Tail(stack)) : Before(body, v, Tail(stack)[i].val)
  BY TopFacts
<1>3. \A u \in vs : IsValue(body, u)
  BY DEF ToSet
<1>4. /\ Keeps(body, degreeMemo, body, m1, maxDegree) /\ MemoOK(body, m1) /\ Extended(degreeMemo, m1, None)
      /\ RewritesOK(body, m1, maxDegree, rewrites) /\ AuxOK(body, m1, maxDegree, auxAssignments)
      /\ \A u \in vs : u \in DOMAIN m1 /\ m1[u] = Degree[u] /\ Degree[u] \in Nat
  BY <1>3, LookedUp
<1>5. Bounded(body, m1, maxDegree, rewrites, Tail(stack), None, phase, walk, current, slots)
  BY <1>2, <1>3, LookedUpBounded
<1>6. StackOK(body, m1, maxDegree, Tail(stack), current)
  BY <1>4, CallersStay
<1> HIDE DEF m1
<1>7. /\ kind \notin {"mul", "aux", "call", "contain", "eq", "array"} /\ kind \notin Leaves
      /\ OperandKinds(kind) = Expressions /\ v # None
  BY <1>1, <1>2, LiveIsSome DEF Sums, Leaves, Expressions, OperandKinds
<1>8. Reargued(body, c, v) /\ c.op[v].args = args
  BY <1>1, <1>2, <1>7, RearguedSet DEF IsValue
<1> HIDE DEF c
<1>9. \A k \in DOMAIN args : /\ args[k] \in vs /\ args[k] \in DOMAIN m1 /\ m1[args[k]] = Degree[args[k]]
                             /\ Degree[args[k]] \in Nat /\ Degree[args[k]] <= maxDegree /\ args[k] # v
  <2> SUFFICES ASSUME NEW k \in DOMAIN args
               PROVE  /\ args[k] \in vs /\ args[k] \in DOMAIN m1 /\ m1[args[k]] = Degree[args[k]]
                      /\ Degree[args[k]] \in Nat /\ Degree[args[k]] <= maxDegree /\ args[k] # v
    OBVIOUS
  <2>1. args[k] \in vs
    BY DEF ToSet
  <2>2. args[k] # v
    BY <1>1, BeforeIsAnOrder
  <2>3. args[k] # None /\ args[k] \in DOMAIN degreeMemo /\ degreeMemo[args[k]] <= maxDegree
    BY <1>1, LiveIsSome DEF Low, IsValue
  <2> HIDE DEF vs
  <2> QED
    BY <2>1, <2>2, <2>3, <1>4 DEF Extended
<1> HIDE DEF vs
<1>10. /\ kind \in Sums => 1 \in DOMAIN args /\ 2 \in DOMAIN args
       /\ kind = "neg" => 1 \in DOMAIN args
  BY <1>1, <1>2, Arities
<1>11. d \in Nat /\ d <= maxDegree
  <2>1. CASE kind = "neg"
    BY <2>1, <1>9, <1>10
  <2>2. CASE kind # "neg"
    <3>1. d = Larger(Degree[args[1]], Degree[args[2]]) /\ kind \in Sums
      BY <2>2
    <3> QED
      BY <3>1, <1>9, <1>10 DEF Larger
  <2> QED
    BY <2>1, <2>2
<1>12. DOMAIN m = DOMAIN m1 \cup {v} /\ m[v] = d /\ \A z \in DOMAIN m1 : z # v => m[z] = m1[z]
  BY DEF Put
<1> HIDE DEF m
<1>13. MemoOK(body, m) /\ Extended(m1, m, v)
  <2>1. Extended(m1, m, v)
    BY <1>12 DEF Extended
  <2>2. MemoOK(body, m)
    BY <1>1, <1>2, <1>4, <1>7, <1>11, <1>12, LiveIsSome DEF MemoOK
  <2> QED
    BY <2>1, <2>2
<1>14. Keeps(body, m1, c, m, maxDegree) /\ MemoOK(c, m)
  <2>1. ~ AuxEquation(body, v)
    BY <1>7 DEF AuxEquation
  <2> QED
    BY <2>1, <1>4, <1>7, <1>8, <1>13, RearguedStep
<1>15. /\ IsBody(c) /\ Live(c) = Live(body)
       /\ \A x \in Live(body) : c.op[x].kind = body.op[x].kind /\ (x # v => c.op[x] = body.op[x])
  BY <1>8 DEF Reargued
<1>16. Low(m, maxDegree, v)
  BY <1>11, <1>12 DEF Low
<1>17. v \in DOMAIN m1 /\ ~ (m1[v] <= maxDegree) /\ m1[v] \in Nat
  BY <1>1, <1>2, <1>4, <1>7 DEF Tall, Extended, MemoOK
<1>18. Gentle(body, m1, c, m, maxDegree, v)
  <2>1. \A x : IsValue(body, x) /\ x \in DOMAIN m1 => x \in DOMAIN m /\ m[x] <= m1[x]
    <3> SUFFICES ASSUME NEW x, IsValue(body, x), x \in DOMAIN m1 PROVE x \in DOMAIN m /\ m[x] <= m1[x]
      OBVIOUS
    <3>1. m1[x] \in Nat
      BY <1>4 DEF MemoOK
    <3>2. CASE x = v
      BY <3>2, <1>1, <1>11, <1>12, <1>17
    <3>3. CASE x # v
      BY <3>1, <3>3, <1>12
    <3> QED
      BY <3>2, <3>3
  <2>2. \A u \in Live(body) : u # v => c.op[u] = body.op[u]
    BY <1>15
  <2>3. \A x : IsValue(body, x) /\ x \in DOMAIN m1 /\ x # v => x \in DOMAIN m /\ m[x] = m1[x]
    BY <1>12
  <2> QED
    BY <2>1, <2>2, <2>3, <1>15, <1>16 DEF Gentle
<1>19. ClosedAt(c, m, v)
  <2>1. c.op[v].kind = kind /\ c.op[v].args = args
    BY <1>2, <1>8, <1>15
  <2>2. \A k \in DOMAIN args : args[k] \in DOMAIN m /\ m[args[k]] = Degree[args[k]]
    BY <1>9, <1>12
  <2>3. DegreeOf(c, <<>>, m, v) = d
    <3>0. v \notin DOMAIN <<>>
      OBVIOUS
    <3>1. CASE kind = "neg"
      <4>1. DegreeOf(c, <<>>, m, v) = m[args[1]]
        BY <3>0, <3>1, <2>1 DEF DegreeOf, Sums, Products
      <4> QED
        BY <4>1, <3>1, <2>2, <1>10
    <3>2. CASE kind \in Sums
      <4>1. DegreeOf(c, <<>>, m, v) = Larger(m[args[1]], m[args[2]]) /\ kind # "neg"
        BY <3>0, <3>2, <2>1 DEF DegreeOf, Sums, Products
      <4> QED
        BY <4>1, <3>2, <2>2, <1>10
    <3> QED
      BY <3>1, <3>2
  <2> QED
    BY <2>1, <2>2, <2>3, <1>7, <1>11, <1>12 DEF ClosedAt
<1>20. \A x \in DOMAIN m : IsValue(c, x) => ClosedAt(c, m, x) \/ (x \in Live(body) /\ x \in DOMAIN m1 /\ x # v)
  BY <1>12, <1>15, <1>19 DEF IsValue
<1>21. \A i \in 1..Len(Tail(stack)) : Tail(stack)[i].val # v /\ Tail(stack)[i].val \in Live(c)
  BY <1>1, <1>2, <1>15, BeforeIsAnOrder
<1>22. \A e \in OfKind(c, "eq") : e \in Live(body)
  BY <1>15 DEF OfKind
<1> HIDE DEF v
<1>23. Bounded(c, m, maxDegree, rewrites, Tail(stack), None, phase, walk, current, slots)
  BY <1>1, <1>4, <1>5, <1>6, <1>7, <1>14, <1>15, <1>18, <1>20, <1>21, <1>22, BoundedStays
<1>24. \A k \in {"div", "call"} : OfKind(c, k) \subseteq OfKind(body, k)
  BY <1>15 DEF OfKind
<1> QED
  BY <1>16, <1>23, <1>24 DEF c, m, m1, v, vs

LEMMA ReturnRootBounded ==
  ASSUME Inv, DegreesOK, ReturnRoot
  PROVE  DegreesOK' /\ KindsKept
<1> DEFINE args == IF Top.at = "lhs" THEN <<returned>> ELSE <<Top.lhs, returned>>
           d == IF Top.at = "lhs" THEN Degree[returned] ELSE Larger(Degree[Top.lhs], Degree[returned])
           c == SetArgs(body, Top.val, args)
           m == Put(MemoisedAll(ToSet(args)), Top.val, d)
           rw == Overlay(rewrites, [v \in {Top.val} |-> Top.val])
<1>1. /\ stack # <<>> /\ returned # None
      /\ \/ Top.at = "rhs" /\ body.op[Top.val].kind \in Sums
         \/ Top.at = "lhs" /\ body.op[Top.val].kind = "neg"
      /\ body' = c /\ degreeMemo' = m /\ rewrites' = rw
      /\ stack' = Tail(stack) /\ returned' = Top.val
      /\ maxDegree' = maxDegree /\ phase' = phase /\ walk' = walk /\ current' = current /\ slots' = slots
  BY DEF ReturnRoot, IdentityIfAbsent, Return, CallersUnchanged
<1>2. /\ FrameOK(body, degreeMemo, maxDegree, Top) /\ Top.val \in Live(body)
      /\ Held(body, degreeMemo, maxDegree, returned) /\ Before(body, returned, Top.val)
  BY TopFacts, <1>1
<1>3. /\ FrameLow(degreeMemo, maxDegree, Top)
      /\ Bounded(body, degreeMemo, maxDegree, rewrites, Tail(stack), None, phase, walk, current, slots)
  BY <1>1, Poppable
<1>4. IsBody(body)
  BY DEF Inv
<1>5. /\ Tall(degreeMemo, maxDegree, Top.val) /\ Low(degreeMemo, maxDegree, returned)
      /\ IsValue(body, returned) /\ returned \in Nat
  BY <1>1, <1>2, <1>3, <1>4, LiveIsSome DEF FrameLow, DegreesOK, Bounded, Held, IsValue
<1>6. Top.at = "rhs" => /\ IsValue(body, Top.lhs) /\ Before(body, Top.lhs, Top.val) /\ Top.lhs \in Nat
                        /\ Low(degreeMemo, maxDegree, Top.lhs)
  BY <1>2, <1>3, <1>4, LiveIsSome DEF FrameOK, FrameLow, Held, IsValue
<1>7. body.op[Top.val].kind \in Sums \cup {"neg"}
  BY <1>1
<1>8. /\ args \in Seq(Nat) /\ DOMAIN args = DOMAIN body.op[Top.val].args
      /\ \A k \in DOMAIN args : IsValue(body, args[k]) /\ Before(body, args[k], Top.val)
                                /\ Low(degreeMemo, maxDegree, args[k])
      /\ d = (IF body.op[Top.val].kind = "neg" THEN Degree[args[1]] ELSE Larger(Degree[args[1]], Degree[args[2]]))
  <2>1. CASE Top.at = "lhs"
    <3>1. args = <<returned>> /\ body.op[Top.val].kind = "neg" /\ d = Degree[returned]
      BY <2>1, <1>1
    <3>2. DOMAIN body.op[Top.val].args = 1..1
      BY <3>1, <1>2, <1>4, Arities
    <3>3. <<returned>> \in Seq(Nat) /\ DOMAIN <<returned>> = 1..1 /\ \A k \in 1..1 : <<returned>>[k] = returned
      BY <1>5
    <3> HIDE DEF args, d
    <3> QED
      BY <3>1, <3>2, <3>3, <1>2, <1>5
  <2>2. CASE Top.at # "lhs"
    <3> DEFINE l == Top.lhs
    <3>1. args = <<l, returned>> /\ body.op[Top.val].kind \in Sums /\ d = Larger(Degree[l], Degree[returned])
      BY <2>2, <1>1
    <3>2. DOMAIN body.op[Top.val].args = 1..2 /\ body.op[Top.val].kind # "neg"
      BY <3>1, <1>2, <1>4, Arities DEF Sums
    <3>3. l \in Nat /\ IsValue(body, l) /\ Before(body, l, Top.val) /\ Low(degreeMemo, maxDegree, l)
      BY <2>2, <1>1, <1>6
    <3> HIDE DEF l, args, d
    <3>4. /\ <<l, returned>> \in Seq(Nat) /\ DOMAIN <<l, returned>> = 1..2
          /\ <<l, returned>>[1] = l /\ <<l, returned>>[2] = returned
          /\ \A k \in 1..2 : <<l, returned>>[k] = l \/ <<l, returned>>[k] = returned
      BY <3>3, <1>5
    <3> QED
      BY <3>1, <3>2, <3>3, <3>4, <1>2, <1>5
  <2> QED
    BY <2>1, <2>2
<1> HIDE DEF args, d
<1>9. /\ Bounded(c, m, maxDegree, rewrites, Tail(stack), None, phase, walk, current, slots)
      /\ Low(m, maxDegree, Top.val)
      /\ \A kind \in {"div", "call"} : OfKind(c, kind) \subseteq OfKind(body, kind)
  BY <1>1, <1>2, <1>3, <1>5, <1>7, <1>8, RootBounded
<1> HIDE DEF c, m
<1>10. CacheLow(c, m, maxDegree, rw)
  BY <1>9 DEF Bounded, CacheLow, Overlay
<1> HIDE DEF rw
<1>11. Bounded(c, m, maxDegree, rw, Tail(stack), Top.val, phase, walk, current, slots)
  BY <1>9, <1>10 DEF Bounded
<1> QED
  BY <1>1, <1>9, <1>11 DEF DegreesOK, KindsKept

(* An auxiliary read has degree one, and its equation low operands. *)
LEMMA AuxBounded ==
  ASSUME Inv, NEW value, Held(body, degreeMemo, maxDegree, value), body.op[value].kind # "aux",
         Low(degreeMemo, maxDegree, value), degreeMemo[value] >= 1,
         NEW before \in Live(body), Before(body, value, before), ~ AuxEquation(body, before),
         NEW aux \in Allocatable(body), NEW b1, Replaced(body, b1, value, aux, before),
         NEW st, StackOK(body, degreeMemo, maxDegree, st, current),
         NEW sl, Bounded(body, degreeMemo, maxDegree, rewrites, st, None, phase, walk, current, sl)
  PROVE  LET c == InsertAux(b1, value, aux, before)
             m == Put(degreeMemo, aux, 1)
         IN  /\ Bounded(c, m, maxDegree, rewrites, st, None, phase, walk, current, sl)
             /\ Low(m, maxDegree, aux)
             /\ \A v : IsValue(body, v) /\ Low(degreeMemo, maxDegree, v) => Low(m, maxDegree, v)
             /\ \A v : IsValue(body, v) /\ Tall(degreeMemo, maxDegree, v) => Tall(m, maxDegree, v)
             /\ \A kind \in {"div", "call"} : OfKind(c, kind) \subseteq OfKind(body, kind)
<1> DEFINE n == Len(auxAssignments) + 1
           eq == Larger(Fresh(body), aux + 1)
           operations == AuxOperations(value, aux, eq, n)
           c == InsertAux(b1, value, aux, before)
           m == Put(degreeMemo, aux, 1)
           ids == {aux, eq}
<1>1. /\ IsBody(body) /\ IsBlock(body) /\ MemoOK(body, degreeMemo) /\ maxDegree \in Nat /\ maxDegree >= 2
      /\ RewritesOK(body, degreeMemo, maxDegree, rewrites) /\ AuxOK(body, degreeMemo, maxDegree, auxAssignments)
  BY Bounds DEF Inv, IsBody
<1>2. IsValue(body, value) /\ value \in Nat /\ n \in Nat
  BY <1>1, LiveIsSome, LenProperties DEF Held, IsValue, AuxOK
<1>3. /\ aux \in Nat /\ eq \in Nat /\ aux < eq /\ aux \notin Live(body) /\ eq \notin DOMAIN body.op
  BY <1>1, <1>2, AuxAddresses, Zenon
<1>4. Inserted(body, c, ids, operations, value, aux, before)
  BY <1>1, <1>2, AuxInserted
<1>5. AuxStepped(c, m, value, aux, before)
  BY <1>1, AuxStep
<1>6. aux # eq /\ aux \in ids /\ eq \in ids /\ \A v \in ids : v = aux \/ v = eq
  BY <1>3
<1>7. /\ operations[aux] = Operation("aux", <<>>, n)
      /\ operations[eq] = Operation("eq", <<aux, value>>, 0)
  BY <1>6 DEF AuxOperations
<1> HIDE DEF operations, eq, c, n, ids, m
<1>8. /\ operations[aux].kind = "aux" /\ operations[aux].args = <<>>
      /\ operations[eq].kind = "eq" /\ operations[eq].args = <<aux, value>>
  BY <1>7 DEF Operation
<1>9. /\ Live(c) = Live(body) \cup ids /\ c.op[aux] = operations[aux] /\ c.op[eq] = operations[eq]
      /\ aux \in Live(c) /\ eq \in Live(c)
  BY <1>4, <1>6 DEF Inserted
<1>10. /\ DOMAIN m = DOMAIN degreeMemo \cup {aux} /\ m[aux] = 1
       /\ \A z \in DOMAIN degreeMemo : z # aux => m[z] = degreeMemo[z]
  BY DEF m, Put
<1>11. IsBody(c) /\ Keeps(body, degreeMemo, c, m, maxDegree) /\ MemoOK(c, m) /\ Live(body) \subseteq Live(c)
  BY <1>5 DEF AuxStepped
<1>12. Gentle(body, degreeMemo, c, m, maxDegree, None)
  <2>1. \A v \in ids : operations[v].kind \in {"aux", "eq", "mul"} /\ (v \in DOMAIN body.op => v = aux)
    BY <1>3, <1>6, <1>8
  <2>2. value \in DOMAIN degreeMemo => 1 <= degreeMemo[value]
    BY <1>1, <1>2 DEF MemoOK
  <2>3. 1 \in Nat /\ 1 <= maxDegree
    BY <1>1
  <2> QED
    BY <2>1, <2>2, <2>3, <1>1, <1>2, <1>4, <1>6, InsertedIsGentle DEF m
<1>13. Low(m, maxDegree, aux)
  BY <1>1, <1>10 DEF Low
<1>14. Low(m, maxDegree, value)
  BY <1>2, <1>11, <1>12, LowStays
<1>15. \A e \in OfKind(c, "eq") \ Live(body) : \A k \in DOMAIN c.op[e].args : Low(m, maxDegree, c.op[e].args[k])
  <2> SUFFICES ASSUME NEW e \in OfKind(c, "eq") \ Live(body), NEW k \in DOMAIN c.op[e].args
               PROVE  Low(m, maxDegree, c.op[e].args[k])
    OBVIOUS
  <2>1. e = eq
    BY <1>6, <1>8, <1>9 DEF OfKind
  <2>2. c.op[e].args = <<aux, value>>
    BY <2>1, <1>8, <1>9
  <2>3. \A j \in DOMAIN <<aux, value>> : <<aux, value>>[j] = aux \/ <<aux, value>>[j] = value
    OBVIOUS
  <2> QED
    BY <2>2, <2>3, <1>13, <1>14
<1>16. ClosedAt(c, m, aux)
  <2>1. c.op[aux].kind = "aux" /\ c.op[aux].args = <<>> /\ aux \notin DOMAIN <<>>
    BY <1>8, <1>9
  <2>2. DegreeOf(c, <<>>, m, aux) = 1
    BY <2>1 DEF DegreeOf, Sums, Products
  <2> QED
    BY <2>1, <2>2, <1>10 DEF ClosedAt
<1>17. \A v \in Live(body) : v # None
  BY <1>1, LiveIsSome
<1>18. \A v \in DOMAIN m : IsValue(c, v) => ClosedAt(c, m, v) \/ (v \in Live(body) /\ v \in DOMAIN degreeMemo /\ v # None)
  <2> SUFFICES ASSUME NEW v \in DOMAIN m, IsValue(c, v), v # aux
               PROVE  v \in Live(body) /\ v \in DOMAIN degreeMemo /\ v # None
    BY <1>16
  <2>1. v # eq
    BY <1>8, <1>9 DEF IsValue, Expressions, Leaves, Sums, Products
  <2>2. v \in Live(body)
    BY <2>1, <1>6, <1>9 DEF IsValue
  <2> QED
    BY <2>2, <1>10, <1>17
<1>19. \A i \in 1..Len(st) : st[i].val # None /\ st[i].val \in Live(c)
  BY <1>11, <1>17 DEF StackOK, FrameOK, IsValue
<1>20. Bounded(c, m, maxDegree, rewrites, st, None, phase, walk, current, sl)
  BY <1>1, <1>11, <1>12, <1>15, <1>17, <1>18, <1>19, BoundedStays
<1>21. \A v : IsValue(body, v) /\ Low(degreeMemo, maxDegree, v) => Low(m, maxDegree, v)
  BY <1>11, <1>12, LowStays
<1>22. \A v : IsValue(body, v) /\ Tall(degreeMemo, maxDegree, v) => Tall(m, maxDegree, v)
  BY <1>3, <1>10 DEF Tall, IsValue
<1>23. \A kind \in {"div", "call"} : OfKind(c, kind) \subseteq OfKind(body, kind)
  BY <1>11, <1>12, KindsStay
<1> QED
  BY <1>13, <1>20, <1>21, <1>22, <1>23 DEF c, m

(* The value of an auxiliary member is low where its read replaces it. *)
LEMMA FactorBounded ==
  ASSUME Inv, DegreesOK, Factor
  PROVE  DegreesOK' /\ KindsKept
<1> DEFINE value == IF degreeMemo[Top.lhs] >= degreeMemo[Top.rhs] THEN Top.lhs ELSE Top.rhs
           before == Top.before
<1>1. PICK aux \in Allocatable(body) :
        /\ stack # <<>> /\ Top.at = "factor" /\ ProductDegree > maxDegree
        /\ body' = InsertAux(ReplaceSubsequentUsesWith(body, value, aux, before), value, aux, before)
        /\ RecordAux(value, aux) /\ rewrites' = Put(rewrites, value, aux)
        /\ stack' = <<[Top EXCEPT !.lhs = Remapped(Top.lhs, value, aux),
                                  !.rhs = Remapped(Top.rhs, value, aux)]>> \o Tail(stack)
        /\ returned' = returned
        /\ maxDegree' = maxDegree /\ phase' = phase /\ walk' = walk /\ current' = current /\ slots' = slots
  BY DEF Factor, CallersUnchanged
<1> DEFINE b1 == ReplaceSubsequentUsesWith(body, value, aux, before)
           c == InsertAux(b1, value, aux, before)
           m == Put(degreeMemo, aux, 1)
           rw == Put(rewrites, value, aux)
           l == Remapped(Top.lhs, value, aux)
           r == Remapped(Top.rhs, value, aux)
           g == [Top EXCEPT !.lhs = l, !.rhs = r]
<1>2. body' = c /\ degreeMemo' = m /\ rewrites' = rw /\ stack' = <<g>> \o Tail(stack)
  BY <1>1 DEF RecordAux
<1>3. /\ IsBody(body) /\ IsBlock(body) /\ MemoOK(body, degreeMemo) /\ maxDegree \in Nat /\ maxDegree >= 2
  BY Bounds DEF Inv, IsBody
<1>4. /\ Top \in Frames /\ FrameOK(body, degreeMemo, maxDegree, Top) /\ FactorOK(body, degreeMemo, maxDegree, Top)
      /\ IsValue(body, Top.val) /\ returned = None
      /\ StackOK(body, degreeMemo, maxDegree, Tail(stack), current)
  BY <1>1, TopFacts
<1>5. /\ FrameLow(degreeMemo, maxDegree, Top)
      /\ Bounded(body, degreeMemo, maxDegree, rewrites, Tail(stack), None, phase, walk, current, slots)
  BY <1>1, Poppable
<1>6. /\ Held(body, degreeMemo, maxDegree, Top.lhs) /\ IsValue(body, Top.lhs) /\ Low(degreeMemo, maxDegree, Top.lhs)
      /\ Held(body, degreeMemo, maxDegree, Top.rhs) /\ IsValue(body, Top.rhs) /\ Low(degreeMemo, maxDegree, Top.rhs)
      /\ Top.lhs \in DOMAIN degreeMemo /\ Top.rhs \in DOMAIN degreeMemo
      /\ Before(body, Top.lhs, before) /\ Before(body, Top.rhs, before) /\ ~ AuxEquation(body, before)
      /\ Tall(degreeMemo, maxDegree, Top.val)
  BY <1>1, <1>4, <1>5 DEF FrameOK, FactorOK, FrameLow, Held
<1>7. /\ Held(body, degreeMemo, maxDegree, value) /\ Before(body, value, before) /\ IsValue(body, value)
      /\ Low(degreeMemo, maxDegree, value) /\ before \in Live(body)
  BY <1>6 DEF Before
<1>8. degreeMemo[value] >= 1 /\ body.op[value].kind # "aux"
  <2>1. degreeMemo[Top.lhs] \in Nat /\ degreeMemo[Top.rhs] \in Nat
    BY <1>3, <1>6 DEF MemoOK
  <2>2. degreeMemo[Top.lhs] + degreeMemo[Top.rhs] > maxDegree
    BY <1>1 DEF ProductDegree
  <2>3. degreeMemo[value] \in Nat /\ degreeMemo[value] >= degreeMemo[Top.lhs] /\ degreeMemo[value] >= degreeMemo[Top.rhs]
        /\ value \in DOMAIN degreeMemo
    BY <2>1, <1>6
  <2> HIDE DEF value
  <2>4. degreeMemo[value] >= 1 /\ degreeMemo[value] # 1
    BY <2>1, <2>2, <2>3, <1>3
  <2> QED
    BY <2>3, <2>4, <1>3, <1>7 DEF MemoOK
<1> HIDE DEF value, before
<1>9. aux \in Nat
  BY <1>3, BlockFacts DEF Allocatable
<1>10. Replaced(body, b1, value, aux, before)
  BY <1>3, <1>7, <1>9, ReplacedSubsequent
<1> HIDE DEF b1
<1>11. /\ Bounded(c, m, maxDegree, rewrites, Tail(stack), None, phase, walk, current, slots)
       /\ Low(m, maxDegree, aux)
       /\ \A v : IsValue(body, v) /\ Low(degreeMemo, maxDegree, v) => Low(m, maxDegree, v)
       /\ \A v : IsValue(body, v) /\ Tall(degreeMemo, maxDegree, v) => Tall(m, maxDegree, v)
       /\ \A kind \in {"div", "call"} : OfKind(c, kind) \subseteq OfKind(body, kind)
  BY <1>4, <1>5, <1>6, <1>7, <1>8, <1>10, AuxBounded
<1> HIDE DEF c, m
<1>12. /\ l \in Nat /\ r \in Nat /\ (l = aux \/ l = Top.lhs) /\ (r = aux \/ r = Top.rhs)
  BY <1>4, <1>9 DEF Remapped, Frames
<1> HIDE DEF l, r
<1>13. g \in Frames /\ g.val = Top.val /\ g.at = "factor" /\ g.lhs = l /\ g.rhs = r
  BY <1>1, <1>4, <1>12 DEF Frames
<1> HIDE DEF g
<1>14. FrameLow(m, maxDegree, g)
  BY <1>4, <1>6, <1>11, <1>12, <1>13 DEF FrameLow
<1>15. CacheLow(c, m, maxDegree, rw)
  BY <1>11 DEF Bounded, CacheLow, Put
<1> HIDE DEF rw
<1>16. Bounded(c, m, maxDegree, rw, Tail(stack), None, phase, walk, current, slots)
  BY <1>11, <1>15 DEF Bounded
<1>17. Bounded(c, m, maxDegree, rw, <<g>> \o Tail(stack), None, phase, walk, current, slots)
  BY <1>1, <1>13, <1>14, <1>16, TopBounded
<1> QED
  BY <1>1, <1>2, <1>4, <1>11, <1>17 DEF DegreesOK, KindsKept

(* A new product has the degree that its operands make. *)
LEMMA ProductInsertedBounded ==
  ASSUME Inv, stack # <<>>, Top.at = "factor", ProductDegree <= maxDegree,
         FrameLow(degreeMemo, maxDegree, Top),
         Bounded(body, degreeMemo, maxDegree, rewrites, Tail(stack), None, phase, walk, current, slots),
         NEW mulVal, NEW operations, operations[mulVal].kind = "mul", operations[mulVal].args = <<Top.lhs, Top.rhs>>,
         NEW c1, Inserted(body, c1, {mulVal}, operations, Top.val, mulVal, Top.before),
         NEW gone, gone \subseteq {Top.val}, NEW c, Without(c1, c, gone),
         NEW m, m = Put(degreeMemo, mulVal, ProductDegree), ProductStepped(c, m, Top, mulVal)
  PROVE  /\ Bounded(c, m, maxDegree, rewrites, Tail(stack), None, phase, walk, current, slots)
         /\ Low(m, maxDegree, mulVal)
         /\ \A kind \in {"div", "call"} : OfKind(c, kind) \subseteq OfKind(body, kind)
<1>1. /\ IsBody(body) /\ IsBlock(body) /\ MemoOK(body, degreeMemo) /\ maxDegree \in Nat
      /\ RewritesOK(body, degreeMemo, maxDegree, rewrites)
  BY Bounds DEF Inv, IsBody
<1>2. /\ FrameOK(body, degreeMemo, maxDegree, Top) /\ FactorOK(body, degreeMemo, maxDegree, Top)
      /\ IsValue(body, Top.val) /\ Top.val \in Live(body)
      /\ StackOK(body, degreeMemo, maxDegree, Tail(stack), current)
      /\ \A i \in 1..Len(Tail(stack)) : Before(body, Top.val, Tail(stack)[i].val)
  BY TopFacts
<1>3. /\ IsValue(body, Top.lhs) /\ IsValue(body, Top.rhs)
      /\ Top.lhs \in DOMAIN degreeMemo /\ Top.rhs \in DOMAIN degreeMemo
      /\ Tall(degreeMemo, maxDegree, Top.val)
  BY <1>2 DEF FrameOK, FactorOK, FrameLow, Held
<1>4. /\ degreeMemo[Top.lhs] \in Nat /\ degreeMemo[Top.rhs] \in Nat
      /\ ProductDegree = degreeMemo[Top.lhs] + degreeMemo[Top.rhs] /\ ProductDegree \in Nat
  BY <1>1, <1>3 DEF MemoOK, ProductDegree
<1>5. /\ IsBody(c) /\ Keeps(body, degreeMemo, c, m, maxDegree) /\ MemoOK(c, m)
      /\ mulVal \notin Live(body) /\ IsValue(c, mulVal)
      /\ \A x \in Live(body) : x # Top.val => x \in Live(c)
  BY DEF ProductStepped, Held
<1>6. c.op = c1.op /\ Live(c) \subseteq Live(c1) /\ Live(c1) = Live(body) \cup {mulVal}
      /\ c1.op[mulVal] = operations[mulVal]
  BY DEF Without, Inserted
<1>7. /\ DOMAIN m = DOMAIN degreeMemo \cup {mulVal} /\ m[mulVal] = ProductDegree
      /\ \A z \in DOMAIN degreeMemo : z # mulVal => m[z] = degreeMemo[z]
  BY DEF Put
<1>8. Gentle(body, degreeMemo, c, m, maxDegree, None)
  <2>1. Top.val \in DOMAIN degreeMemo => ProductDegree <= degreeMemo[Top.val]
    <3>1. ~ (degreeMemo[Top.val] <= maxDegree) /\ degreeMemo[Top.val] \in Nat
      BY <1>1, <1>2, <1>3 DEF Tall, MemoOK
    <3> QED
      BY <3>1, <1>1, <1>4
  <2>2. \A v \in {mulVal} : operations[v].kind \in {"aux", "eq", "mul"} /\ (v \in DOMAIN body.op => v = mulVal)
    OBVIOUS
  <2>3. Gentle(body, degreeMemo, c1, Put(degreeMemo, mulVal, ProductDegree), maxDegree, None)
    BY <2>1, <2>2, <1>1, <1>2, <1>4, InsertedIsGentle
  <2> QED
    BY <2>3, WithoutIsGentle
<1>9. Low(m, maxDegree, mulVal)
  BY <1>7 DEF Low
<1>10. \A e \in OfKind(c, "eq") : e \in Live(body)
  BY <1>6 DEF OfKind
<1>11. ClosedAt(c, m, mulVal)
  <2>1. c.op[mulVal].kind = "mul" /\ c.op[mulVal].args = <<Top.lhs, Top.rhs>> /\ mulVal \notin DOMAIN <<>>
    BY <1>6
  <2>2. Top.lhs # mulVal /\ Top.rhs # mulVal
    BY <1>3, <1>5 DEF IsValue
  <2>3. m[Top.lhs] = degreeMemo[Top.lhs] /\ m[Top.rhs] = degreeMemo[Top.rhs] /\ Top.lhs \in DOMAIN m /\ Top.rhs \in DOMAIN m
    BY <2>2, <1>3, <1>7
  <2>4. DegreeOf(c, <<>>, m, mulVal) = ProductDegree
    <3>1. DegreeOf(c, <<>>, m, mulVal) = m[c.op[mulVal].args[1]] + m[c.op[mulVal].args[2]]
      BY <2>1 DEF DegreeOf, Sums, Products
    <3>2. c.op[mulVal].args[1] = Top.lhs /\ c.op[mulVal].args[2] = Top.rhs
      BY <2>1
    <3> QED
      BY <3>1, <3>2, <2>3, <1>4
  <2>5. \A k \in DOMAIN c.op[mulVal].args : c.op[mulVal].args[k] \in DOMAIN m
    BY <2>1, <2>3
  <2>6. c.op[mulVal].kind \notin Leaves
    BY <2>1 DEF Leaves
  <2> QED
    BY <2>4, <2>5, <2>6, <1>4, <1>7 DEF ClosedAt
<1>12. \A v \in Live(body) : v # None
  BY <1>1, LiveIsSome
<1>13. \A v \in DOMAIN m : IsValue(c, v) => ClosedAt(c, m, v) \/ (v \in Live(body) /\ v \in DOMAIN degreeMemo /\ v # None)
  BY <1>6, <1>7, <1>11, <1>12 DEF IsValue
<1>14. \A i \in 1..Len(Tail(stack)) : Tail(stack)[i].val # None /\ Tail(stack)[i].val \in Live(c)
  <2> SUFFICES ASSUME NEW i \in 1..Len(Tail(stack)) PROVE Tail(stack)[i].val # None /\ Tail(stack)[i].val \in Live(c)
    OBVIOUS
  <2> DEFINE x == Tail(stack)[i].val
  <2>1. Before(body, Top.val, x)
    BY <1>2
  <2> HIDE DEF x
  <2>2. x \in Live(body) /\ x # Top.val
    BY <2>1, <1>1, BeforeIsAnOrder
  <2>3. x \in Live(c) /\ x # None
    BY <2>2, <1>5, <1>12
  <2> QED
    BY <2>3 DEF x
<1>15. Bounded(c, m, maxDegree, rewrites, Tail(stack), None, phase, walk, current, slots)
  BY <1>1, <1>2, <1>5, <1>8, <1>10, <1>12, <1>13, <1>14, BoundedStays
<1>16. \A kind \in {"div", "call"} : OfKind(c, kind) \subseteq OfKind(body, kind)
  BY <1>5, <1>8, KindsStay
<1> QED
  BY <1>9, <1>15, <1>16

(* The block with the new product, and the old one erased or not. *)
LEMMA ProductBuilt ==
  ASSUME Inv, stack # <<>>, Top.at = "factor", NEW mulVal \in Allocatable(body),
         NEW c, c = (LET mul == [id \in {mulVal} |-> Operation("mul", <<Top.lhs, Top.rhs>>, 0)]
                     IN  IF Top.eraseMul
                         THEN Erase(Insert(ReplaceAllUses(body, Top.val, mulVal), <<mulVal>>, mul, Top.before), Top.val)
                         ELSE Insert(body, <<mulVal>>, mul, Top.before))
  PROVE  \E c1, gone :
           /\ Inserted(body, c1, {mulVal}, ProductOperations(Top.lhs, Top.rhs, mulVal), Top.val, mulVal, Top.before)
           /\ gone \subseteq {Top.val} /\ Without(c1, c, gone)
<1> DEFINE lhs == Top.lhs
           rhs == Top.rhs
           val == Top.val
           before == Top.before
           mul == ProductOperations(lhs, rhs, mulVal)
           b1 == ReplaceAllUses(body, val, mulVal)
           c1 == Insert(b1, <<mulVal>>, mul, before)
           c2 == Insert(body, <<mulVal>>, mul, before)
<1>0. c = IF Top.eraseMul THEN Erase(c1, val) ELSE c2
  BY DEF ProductOperations
<1>1. FrameOK(body, degreeMemo, maxDegree, Top) /\ FactorOK(body, degreeMemo, maxDegree, Top) /\ IsBody(body)
  BY TopFacts DEF Inv
<1>2. /\ IsValue(body, val) /\ val \in Live(body) /\ Tall(degreeMemo, maxDegree, val)
      /\ before \in Live(body)
      /\ Held(body, degreeMemo, maxDegree, lhs) /\ IsValue(body, lhs) /\ Before(body, lhs, before)
      /\ Held(body, degreeMemo, maxDegree, rhs) /\ IsValue(body, rhs) /\ Before(body, rhs, before)
      /\ IsBlock(body) /\ body.op[val].kind = "mul"
      /\ \A id \in Live(body) : val \in ToSet(body.op[id].args) => ~ Before(body, id, before)
  BY <1>1 DEF FrameOK, FactorOK, Before, IsValue, IsBody, Held
<1> HIDE DEF lhs, rhs, val, before
<1>3. lhs # val /\ rhs # val
  BY <1>2 DEF Held, Tall
<1>4. mul[mulVal].args = <<lhs, rhs>>
  BY DEF ProductOperations, Operation
<1>5. Replaced(body, body, val, mulVal, before)
  BY <1>2, ReplacedNone
<1> HIDE DEF mul, b1, c1, c2
<1>6. /\ mulVal \in Nat /\ mulVal \notin Live(body)
      /\ Inserted(body, c2, {mulVal}, mul, val, mulVal, before)
  <2>1. ProductAdded(body, val, mulVal, lhs, rhs, before)
    BY <1>1, <1>2, <1>5, ProductInserted
  <2> QED
    BY <2>1 DEF ProductAdded, c2, mul
<1>7. /\ Replaced(body, b1, val, mulVal, before)
      /\ \A id \in Live(body) : \A k \in DOMAIN body.op[id].args :
           b1.op[id].args[k] = IF body.op[id].args[k] = val THEN mulVal ELSE body.op[id].args[k]
  BY <1>2, <1>6, ReplacedAll DEF b1
<1>8. /\ Inserted(body, c1, {mulVal}, mul, val, mulVal, before)
      /\ \A id \in Live(body) : c1.op[id] = b1.op[id]
  <2>1. ProductAdded(b1, val, mulVal, lhs, rhs, before)
    BY <1>1, <1>2, <1>7, ProductInserted
  <2> QED
    BY <2>1 DEF ProductAdded, c1, mul
<1>9. Without(c1, Erase(c1, val), {val})
  <2>1. ASSUME NEW id \in Live(c1), NEW k \in DOMAIN c1.op[id].args, c1.op[id].args[k] = val PROVE FALSE
    <3>1. val # mulVal
      BY <1>2, <1>6
    <3>2. CASE id \in Live(body)
      <4>1. DOMAIN c1.op[id].args = DOMAIN body.op[id].args
        BY <3>2, <1>8 DEF Inserted
      <4> QED
        BY <4>1, <3>1, <3>2, <2>1, <1>7, <1>8
    <3>3. CASE id = mulVal
      <4>1. c1.op[id].args = <<lhs, rhs>>
        BY <3>3, <1>4, <1>8 DEF Inserted
      <4> QED
        BY <4>1, <2>1, <1>3
    <3> QED
      BY <3>2, <3>3, <1>8 DEF Inserted
  <2>2. IsBody(c1) /\ val \in Live(c1)
    BY <1>2, <1>8 DEF Inserted
  <2> QED
    BY <2>1, <2>2, WithoutUnused
<1>10. CASE Top.eraseMul
  <2>1. c = Erase(c1, val) /\ {val} \subseteq {val}
    BY <1>0, <1>10
  <2> QED
    BY <2>1, <1>8, <1>9 DEF mul, val, lhs, rhs, before
<1>11. CASE ~ Top.eraseMul
  <2>1. Without(c2, c2, {})
    BY <1>6, WithoutNone DEF Inserted
  <2>2. c = c2 /\ {} \subseteq {val}
    BY <1>0, <1>11
  <2> QED
    BY <2>1, <2>2, <1>6 DEF mul, val, lhs, rhs, before
<1> QED
  BY <1>10, <1>11

(* A new product has a degree within the bound. *)
LEMMA ReturnProductBounded ==
  ASSUME Inv, DegreesOK, ReturnProduct
  PROVE  DegreesOK' /\ KindsKept
<1>1. PICK mulVal \in Allocatable(body) :
        /\ body' = LET mul == [id \in {mulVal} |-> Operation("mul", <<Top.lhs, Top.rhs>>, 0)]
                   IN  IF Top.eraseMul
                       THEN Erase(Insert(ReplaceAllUses(body, Top.val, mulVal), <<mulVal>>, mul, Top.before), Top.val)
                       ELSE Insert(body, <<mulVal>>, mul, Top.before)
        /\ degreeMemo' = Put(degreeMemo, mulVal, ProductDegree)
        /\ rewrites' = Put(rewrites, Top.val, mulVal)
        /\ stack' = Tail(stack) /\ returned' = mulVal
  BY DEF ReturnProduct, Return
<1>2. /\ stack # <<>> /\ Top.at = "factor" /\ ProductDegree <= maxDegree
      /\ maxDegree' = maxDegree /\ phase' = phase /\ walk' = walk /\ current' = current /\ slots' = slots
  BY DEF ReturnProduct, CallersUnchanged
<1>3. /\ FrameLow(degreeMemo, maxDegree, Top)
      /\ Bounded(body, degreeMemo, maxDegree, rewrites, Tail(stack), None, phase, walk, current, slots)
      /\ FrameOK(body, degreeMemo, maxDegree, Top) /\ FactorOK(body, degreeMemo, maxDegree, Top)
  BY <1>2, Poppable, TopFacts
<1>4. IsBody(body) /\ MemoOK(body, degreeMemo) /\ AuxOK(body, degreeMemo, maxDegree, auxAssignments)
  BY DEF Inv
<1>5. ProductDegree \in Nat
  BY <1>2, <1>3, <1>4 DEF ProductDegree, FrameOK, FactorOK, Held, MemoOK
<1> DEFINE c == body'
           m == degreeMemo'
           operations == ProductOperations(Top.lhs, Top.rhs, mulVal)
<1>6. ProductStepped(c, m, Top, mulVal)
  <2> DEFINE f == Top
             d == ProductDegree
  <2>1. f.at = "factor" /\ d \in Nat /\ d <= maxDegree
    BY <1>2, <1>5
  <2>2. FrameOK(body, degreeMemo, maxDegree, f) /\ FactorOK(body, degreeMemo, maxDegree, f)
    BY <1>3
  <2>3. LET mul == [id \in {mulVal} |-> Operation("mul", <<f.lhs, f.rhs>>, 0)]
            cc == IF f.eraseMul
                  THEN Erase(Insert(ReplaceAllUses(body, f.val, mulVal), <<mulVal>>, mul, f.before), f.val)
                  ELSE Insert(body, <<mulVal>>, mul, f.before)
        IN  ProductStepped(cc, Put(degreeMemo, mulVal, d), f, mulVal)
    <3> HIDE DEF f, d
    <3> QED
      BY <2>1, <2>2, <1>4, ProductStep
  <2> QED
    BY <2>3, <1>1
<1>7. PICK c1, gone : /\ Inserted(body, c1, {mulVal}, operations, Top.val, mulVal, Top.before)
                      /\ gone \subseteq {Top.val} /\ Without(c1, c, gone)
  BY <1>1, <1>2, ProductBuilt
<1>8. operations[mulVal].kind = "mul" /\ operations[mulVal].args = <<Top.lhs, Top.rhs>>
  BY DEF ProductOperations, Operation
<1>9. m = Put(degreeMemo, mulVal, ProductDegree)
  BY <1>1
<1> HIDE DEF c, m, operations
<1>10. /\ Bounded(c, m, maxDegree, rewrites, Tail(stack), None, phase, walk, current, slots)
       /\ Low(m, maxDegree, mulVal)
       /\ \A kind \in {"div", "call"} : OfKind(c, kind) \subseteq OfKind(body, kind)
  BY <1>2, <1>3, <1>6, <1>7, <1>8, <1>9, ProductInsertedBounded
<1>11. CacheLow(c, m, maxDegree, Put(rewrites, Top.val, mulVal))
  BY <1>10 DEF Bounded, CacheLow, Put
<1>12. Bounded(c, m, maxDegree, Put(rewrites, Top.val, mulVal), Tail(stack), mulVal, phase, walk, current, slots)
  BY <1>10, <1>11 DEF Bounded
<1> QED
  BY <1>1, <1>2, <1>10, <1>12 DEF DegreesOK, KindsKept, c, m

-----------------------------------------------------------------------------
(* The walks keep the degrees *)

(* No expression's operands change. *)
LEMMA UserReargued ==
  ASSUME Inv, DegreesOK, NEW id \in Live(body), ~ IsValue(body, id), NEW c, Reargued(body, c, id)
  PROVE  /\ OfKind(c, "div") = {} /\ Closed(c, degreeMemo) /\ CacheLow(c, degreeMemo, maxDegree, rewrites)
         /\ \A kind : OfKind(c, kind) = OfKind(body, kind)
<1>1. /\ IsBody(body) /\ IsBody(c) /\ Live(c) = Live(body)
      /\ \A x \in Live(body) : c.op[x].kind = body.op[x].kind /\ (x # id => c.op[x] = body.op[x])
  BY DEF Reargued
<1>2. /\ Closed(body, degreeMemo) /\ CacheLow(body, degreeMemo, maxDegree, rewrites) /\ OfKind(body, "div") = {}
  BY DEF DegreesOK, Bounded
<1>3. \A v : IsValue(c, v) => IsValue(body, v) /\ c.op[v] = body.op[v]
  BY <1>1 DEF IsValue
<1>4. Closed(c, degreeMemo)
  BY <1>2, <1>3 DEF Closed, ClosedAt, DegreeOf
<1>5. \A kind : OfKind(c, kind) = OfKind(body, kind)
  BY <1>1 DEF OfKind
<1> QED
  BY <1>1, <1>2, <1>4, <1>5 DEF CacheLow

LEMMA SetOperandBounded ==
  ASSUME Inv, DegreesOK, SetOperand
  PROVE  DegreesOK' /\ KindsKept
<1> DEFINE old == body.op[current].args
           args == OneChanged(old, Slot, returned)
           c == SetArgs(body, current, args)
<1>1. /\ phase \in {"equalities", "containments"} /\ stack = <<>> /\ returned # None
      /\ slots' = slots \ {Slot} /\ returned' = None
      /\ phase' = phase /\ walk' = walk /\ current' = current /\ stack' = stack
      /\ degreeMemo' = degreeMemo /\ rewrites' = rewrites /\ maxDegree' = maxDegree
  BY DEF SetOperand, WalkUnchanged
<1>2. /\ IsBody(body) /\ IsBlock(body) /\ slots # {}
      /\ Held(body, degreeMemo, maxDegree, returned) /\ Before(body, returned, current)
      /\ Low(degreeMemo, maxDegree, returned)
  BY <1>1 DEF Inv, IsBody, Idle, ReturnedOK, User, DegreesOK, Bounded
<1>3. /\ current \in Live(body) /\ body.op[current].kind \in {"eq", "array"} /\ Slot \in slots /\ Slot \in DOMAIN old
  BY <1>1, <1>2, CurrentFacts
<1>4. body' = c
  <2>1. current \in DOMAIN body.op
    BY <1>2, <1>3, LiveIsSome
  <2>2. body' = OperandSet(body, current, Slot, returned)
    BY Zenon DEF SetOperand, OperandSet
  <2> QED
    BY <2>1, <2>2, <1>2, OneOperandSet
<1>5. DOMAIN args = DOMAIN old /\ \A k \in DOMAIN old : args[k] = IF k = Slot THEN returned ELSE old[k]
  BY DEF OneChanged
<1>6. /\ args \in Seq(Nat)
      /\ \A k \in DOMAIN args : Before(body, args[k], current) /\ body.op[args[k]].kind \in OperandKinds(body.op[current].kind)
  <2>1. /\ old \in Seq(Nat) /\ Len(old) \in Nat /\ DOMAIN old = 1..Len(old)
        /\ \A k \in DOMAIN old : Before(body, old[k], current) /\ body.op[old[k]].kind \in OperandKinds(body.op[current].kind)
    BY <1>2, <1>3, OperandFacts
  <2>2. OperandKinds(body.op[current].kind) = Expressions /\ body.op[returned].kind \in Expressions /\ returned \in Nat
    BY <1>2, <1>3, LiveIsSome DEF OperandKinds, Held, IsValue
  <2>3. \A k \in DOMAIN old : old[k] \in Nat
    BY <2>1, ElementOfSeq, Zenon
  <2>4. args = [k \in 1..Len(old) |-> args[k]]
    BY <2>1 DEF OneChanged
  <2> HIDE DEF args
  <2>5. \A k \in 1..Len(old) : args[k] \in Nat
    BY <2>1, <2>2, <2>3, <1>5
  <2>6. args \in [1..Len(old) -> Nat]
    BY <2>4, <2>5
  <2>7. args \in Seq(Nat)
    BY <2>1, <2>6, FunctionIsSeq
  <2> QED
    BY <2>1, <2>2, <2>7, <1>2, <1>5
<1> HIDE DEF args
<1>7. Reargued(body, c, current) /\ c.op[current].args = args
  BY <1>2, <1>3, <1>5, <1>6, RearguedSet
<1> HIDE DEF c
<1>8. ~ IsValue(body, current)
  BY <1>3 DEF IsValue, Expressions, Leaves, Sums, Products
<1>9. /\ OfKind(c, "div") = {} /\ Closed(c, degreeMemo) /\ CacheLow(c, degreeMemo, maxDegree, rewrites)
      /\ \A kind : OfKind(c, kind) = OfKind(body, kind)
  BY <1>3, <1>7, <1>8, UserReargued
<1>10. \A x \in Live(body) : x # current => c.op[x] = body.op[x]
  BY <1>7 DEF Reargued
<1>11. \A u \in Live(body) : OperandsLow(body, degreeMemo, maxDegree, u, current, slots)
                               => OperandsLow(c, degreeMemo, maxDegree, u, current, slots')
  <2> SUFFICES ASSUME NEW u \in Live(body), OperandsLow(body, degreeMemo, maxDegree, u, current, slots)
               PROVE  OperandsLow(c, degreeMemo, maxDegree, u, current, slots')
    OBVIOUS
  <2>1. CASE u = current
    BY <2>1, <1>1, <1>2, <1>5, <1>7 DEF OperandsLow
  <2>2. CASE u # current
    BY <2>2, <1>10 DEF OperandsLow
  <2> QED
    BY <2>1, <2>2
<1>12. EqualitiesLow(c, degreeMemo, maxDegree, phase, walk, current, slots')
  BY <1>9, <1>11 DEF DegreesOK, Bounded, EqualitiesLow, OfKind
<1>13. RowsLow(c, degreeMemo, maxDegree, phase, walk, current, slots')
  <2> SUFFICES ASSUME NEW l \in OfKind(body, "contain"), phase # "equalities", ~ (phase = "containments" /\ l \in walk)
               PROVE  OperandsLow(c, degreeMemo, maxDegree, c.op[l].args[1], current, slots')
    BY <1>9 DEF RowsLow
  <2>1. l \in Live(body) /\ body.op[l].kind = "contain" /\ l # current
    BY <1>3 DEF OfKind
  <2>2. 1 \in DOMAIN body.op[l].args
    BY <2>1, <1>2, Arities
  <2>3. body.op[l].args[1] \in Live(body) /\ c.op[l] = body.op[l]
    BY <2>1, <2>2, <1>2, <1>10, OperandFacts DEF Before
  <2>4. OperandsLow(body, degreeMemo, maxDegree, body.op[l].args[1], current, slots)
    BY DEF DegreesOK, Bounded, RowsLow
  <2> QED
    BY <2>3, <2>4, <1>11
<1>14. StackLow(degreeMemo, maxDegree, stack)
  BY DEF DegreesOK, Bounded
<1>15. Bounded(c, degreeMemo, maxDegree, rewrites, stack, None, phase, walk, current, slots')
  BY <1>9, <1>12, <1>13, <1>14 DEF Bounded
<1> QED
  BY <1>1, <1>4, <1>9, <1>15 DEF DegreesOK, KindsKept

(* Between the operands of one operation and those of the next, what was    *)
(* visited is low.                                                          *)
LEMMA WalkedOn ==
  ASSUME NEW b, NEW m, NEW bound, NEW rw, NEW st, NEW ret, NEW ph, NEW wk, NEW cur,
         Bounded(b, m, bound, rw, st, ret, ph, wk, cur, {}), NEW ph2, NEW wk2, NEW cur2, NEW sl2,
         \A e \in OfKind(b, "eq") : ph = "equalities" /\ e \in wk =>
           (ph2 = "equalities" /\ e \in wk2) \/ OperandsLow(b, m, bound, e, cur2, sl2),
         \A l \in OfKind(b, "contain") : ph = "equalities" \/ (ph = "containments" /\ l \in wk) =>
           ph2 = "equalities" \/ (ph2 = "containments" /\ l \in wk2)
             \/ OperandsLow(b, m, bound, b.op[l].args[1], cur2, sl2)
  PROVE  Bounded(b, m, bound, rw, st, ret, ph2, wk2, cur2, sl2)
<1>1. \A u : OperandsLow(b, m, bound, u, cur, {}) => OperandsLow(b, m, bound, u, cur2, sl2)
  BY DEF OperandsLow
<1>2. EqualitiesLow(b, m, bound, ph2, wk2, cur2, sl2) /\ RowsLow(b, m, bound, ph2, wk2, cur2, sl2)
  BY <1>1 DEF Bounded, EqualitiesLow, RowsLow
<1> QED
  BY <1>2 DEF Bounded

(* Each step of the walks keeps the degrees within the bound. *)
LEMMA NextWalkBounded ==
  ASSUME Inv, DegreesOK, NextWalk
  PROVE  DegreesOK' /\ KindsKept
<1>1. /\ walk = {} /\ slots = {}
      /\ \/ phase = "equalities" /\ phase' = "containments" /\ walk' = OfKind(body, "contain")
         \/ phase = "containments" /\ phase' = "calls"
         \/ phase = "calls" /\ phase' = "checks"
      /\ current' = current /\ slots' = slots /\ stack' = stack /\ returned' = returned
      /\ body' = body /\ degreeMemo' = degreeMemo /\ rewrites' = rewrites /\ maxDegree' = maxDegree
  BY DEF NextWalk, ExpressionUnchanged, WalkUnchanged
<1>2. Bounded(body, degreeMemo, maxDegree, rewrites, stack, returned, phase', walk', current, {})
  <2>1. Bounded(body, degreeMemo, maxDegree, rewrites, stack, returned, phase, walk, current, {})
    BY <1>1 DEF DegreesOK
  <2> QED
    BY <2>1, <1>1, WalkedOn
<1> QED
  BY <1>1, <1>2 DEF DegreesOK, KindsKept

(* Nothing is left of the operands of the operation before. *)
LEMMA NothingLeft ==
  ASSUME Inv, current = None
  PROVE  slots = {}
BY DEF Inv, WalkOK

LEMMA VisitEqualityBounded ==
  ASSUME Inv, DegreesOK, VisitEquality
  PROVE  DegreesOK' /\ KindsKept
<1> DEFINE args == body.op[Visit].args
           vs == ToSet(args)
           m == MemoisedAll(vs)
           sl == {i \in {1, 2} : Degree[args[i]] > maxDegree}
<1>1. /\ phase = "equalities" /\ stack = <<>> /\ returned = None /\ walk # {} /\ current = None
      /\ degreeMemo' = m /\ slots' = sl /\ current' = Visit /\ walk' = walk \ {Visit}
      /\ phase' = phase /\ stack' = stack /\ returned' = returned /\ body' = body
      /\ rewrites' = rewrites /\ maxDegree' = maxDegree
  BY DEF VisitEquality, Idle, WalkUnchanged
<1>2. Visit \in Walked(body, phase) /\ Visit \in Live(body)
  BY <1>1, VisitFacts
<1>3. IsBody(body) /\ slots = {} /\ maxDegree \in Nat
  BY <1>1, NothingLeft, Bounds DEF Inv
<1>4. body.op[Visit].kind = "eq"
  BY <1>1, <1>2 DEF Walked, OfKind
<1>5. DOMAIN args = 1..2
  BY <1>2, <1>3, <1>4, Arities
<1>6. \A v \in vs : IsValue(body, v)
  BY <1>2, <1>3, <1>4, OperandFacts DEF ToSet
<1>7. \A k \in 1..2 : args[k] \in vs
  BY <1>5 DEF ToSet
<1> HIDE DEF args, vs
<1>8. \A v \in vs : v \in DOMAIN m /\ m[v] = Degree[v] /\ Degree[v] \in Nat
  BY <1>6, LookedUp
<1>9. Bounded(body, m, maxDegree, rewrites, <<>>, None, phase, walk, current, {})
  <2>1. Bounded(body, degreeMemo, maxDegree, rewrites, <<>>, None, phase, walk, current, {})
    BY <1>1, <1>3 DEF DegreesOK
  <2> QED
    BY <2>1, <1>6, EmptyStack, LookedUpBounded
<1> HIDE DEF m
<1>10. OperandsLow(body, m, maxDegree, Visit, Visit, sl)
  <2> SUFFICES ASSUME NEW k \in 1..2, ~ (k \in sl) PROVE Low(m, maxDegree, args[k])
    BY <1>5 DEF OperandsLow, args
  <2>1. k \in {1, 2} /\ ~ (Degree[args[k]] > maxDegree)
    OBVIOUS
  <2> QED
    BY <2>1, <1>3, <1>7, <1>8 DEF Low
<1> HIDE DEF sl
<1>11. Bounded(body, m, maxDegree, rewrites, <<>>, None, phase, walk \ {Visit}, Visit, sl)
  BY <1>1, <1>9, <1>10, WalkedOn
<1> QED
  BY <1>1, <1>11 DEF DegreesOK, KindsKept

LEMMA VisitContainmentBounded ==
  ASSUME Inv, DegreesOK, VisitContainment
  PROVE  DegreesOK' /\ KindsKept
<1> DEFINE row == body.op[Visit].args[1]
<1>1. /\ phase = "containments" /\ current = None
      /\ current' = row /\ slots' = DOMAIN body.op[row].args /\ walk' = walk \ {Visit}
      /\ phase' = phase /\ stack' = stack /\ returned' = returned /\ body' = body
      /\ degreeMemo' = degreeMemo /\ rewrites' = rewrites /\ maxDegree' = maxDegree
  BY DEF VisitContainment, ExpressionUnchanged, WalkUnchanged
<1>2. Bounded(body, degreeMemo, maxDegree, rewrites, stack, returned, phase, walk, current, {})
  BY <1>1, NothingLeft DEF DegreesOK
<1>3. OperandsLow(body, degreeMemo, maxDegree, row, row, DOMAIN body.op[row].args)
  BY DEF OperandsLow
<1>4. Bounded(body, degreeMemo, maxDegree, rewrites, stack, returned, phase, walk \ {Visit}, row, DOMAIN body.op[row].args)
  BY <1>1, <1>2, <1>3, WalkedOn
<1> QED
  BY <1>1, <1>4 DEF DegreesOK, KindsKept

LEMMA SkipElementBounded ==
  ASSUME Inv, DegreesOK, SkipElement
  PROVE  DegreesOK' /\ KindsKept
<1> DEFINE value == body.op[current].args[Slot]
           m == MemoisedAll({value})
<1>1. /\ phase = "containments" /\ stack = <<>> /\ returned = None /\ slots # {} /\ Degree[value] <= maxDegree
      /\ degreeMemo' = m /\ slots' = slots \ {Slot}
      /\ phase' = phase /\ walk' = walk /\ current' = current /\ stack' = stack
      /\ returned' = returned /\ body' = body /\ rewrites' = rewrites /\ maxDegree' = maxDegree
  BY DEF SkipElement, Idle, Memoised, WalkUnchanged
<1>2. IsValue(body, value)
  BY <1>1, CurrentFacts
<1>3. Low(m, maxDegree, value)
  <2> HIDE DEF value
  <2> QED
    BY <1>1, <1>2, LookedUp DEF Low
<1>4. Bounded(body, m, maxDegree, rewrites, <<>>, None, phase, walk, current, slots)
  <2> HIDE DEF value
  <2>1. Bounded(body, degreeMemo, maxDegree, rewrites, <<>>, None, phase, walk, current, slots)
    BY <1>1 DEF DegreesOK
  <2> QED
    BY <2>1, <1>2, EmptyStack, LookedUpBounded
<1> HIDE DEF m
<1>5. \A u : OperandsLow(body, m, maxDegree, u, current, slots) => OperandsLow(body, m, maxDegree, u, current, slots \ {Slot})
  BY <1>3 DEF OperandsLow
<1>6. Bounded(body, m, maxDegree, rewrites, <<>>, None, phase, walk, current, slots \ {Slot})
  BY <1>4, <1>5 DEF Bounded, EqualitiesLow, RowsLow
<1> QED
  BY <1>1, <1>6 DEF DegreesOK, KindsKept

LEMMA LowerOperandBounded ==
  ASSUME Inv, DegreesOK, LowerOperand
  PROVE  DegreesOK' /\ KindsKept
<1> DEFINE value == body.op[current].args[Slot]
           m == MemoisedAll({value})
           f == Frame(value, current)
<1>1. /\ stack = <<>> /\ returned = None /\ slots # {}
      /\ degreeMemo' = m /\ stack' = <<f>> /\ returned' = None
      /\ phase' = phase /\ walk' = walk /\ current' = current /\ slots' = slots
      /\ body' = body /\ rewrites' = rewrites /\ maxDegree' = maxDegree
  BY DEF LowerOperand, Idle, Memoised, Lower, WalkUnchanged
<1>2. IsValue(body, value)
  BY <1>1, CurrentFacts
<1> HIDE DEF value
<1>3. Bounded(body, m, maxDegree, rewrites, <<>>, None, phase, walk, current, slots)
  <2>1. Bounded(body, degreeMemo, maxDegree, rewrites, <<>>, None, phase, walk, current, slots)
    BY <1>1 DEF DegreesOK
  <2> QED
    BY <2>1, <1>2, EmptyStack, LookedUpBounded
<1> HIDE DEF m
<1>4. StackLow(m, maxDegree, <<f>>)
  BY DEF StackLow, FrameLow, Frame
<1> HIDE DEF f
<1>5. Bounded(body, m, maxDegree, rewrites, <<f>>, None, phase, walk, current, slots)
  BY <1>3, <1>4 DEF Bounded
<1> QED
  BY <1>1, <1>5 DEF DegreesOK, KindsKept

LEMMA LeaveBounded ==
  ASSUME Inv, DegreesOK, Leave
  PROVE  DegreesOK' /\ KindsKept
<1>1. /\ slots = {} /\ current' = None
      /\ phase' = phase /\ walk' = walk /\ slots' = slots /\ stack' = stack /\ returned' = returned
      /\ body' = body /\ degreeMemo' = degreeMemo /\ rewrites' = rewrites /\ maxDegree' = maxDegree
  BY DEF Leave, ExpressionUnchanged, WalkUnchanged
<1>2. Bounded(body, degreeMemo, maxDegree, rewrites, stack, returned, phase, walk, None, {})
  BY <1>1, WalkedOn DEF DegreesOK
<1> QED
  BY <1>1, <1>2 DEF DegreesOK, KindsKept

LEMMA VisitCallBounded ==
  ASSUME Inv, DegreesOK, VisitCall
  PROVE  DegreesOK' /\ KindsKept
<1>1. /\ phase = "calls" /\ current = None
      /\ phase' = phase /\ stack' = stack /\ returned' = returned
      /\ body' = body /\ degreeMemo' = degreeMemo /\ rewrites' = rewrites /\ maxDegree' = maxDegree
  BY DEF VisitCall, ExpressionUnchanged, WalkUnchanged
<1>2. Bounded(body, degreeMemo, maxDegree, rewrites, stack, returned, phase, walk, current, {})
  BY <1>1, NothingLeft DEF DegreesOK
<1>3. Bounded(body, degreeMemo, maxDegree, rewrites, stack, returned, phase, walk', current', slots')
  BY <1>1, <1>2, WalkedOn
<1> QED
  BY <1>1, <1>3 DEF DegreesOK, KindsKept

(* While calls are visited, nothing is left of equalities and rows. *)
LEMMA CallsWalked ==
  ASSUME NEW b, IsBody(b), NEW m, NEW bound, NEW rw, NEW st, NEW ret, NEW wk, NEW cur \in Live(b), NEW sl,
         Bounded(b, m, bound, rw, st, ret, "calls", wk, cur, sl), b.op[cur].kind = "call", NEW sl2
  PROVE  Bounded(b, m, bound, rw, st, ret, "calls", wk, cur, sl2)
<1>1. \A e \in OfKind(b, "eq") : e # cur
  BY DEF OfKind
<1>2. \A l \in OfKind(b, "contain") : b.op[l].args[1] # cur
  <2> SUFFICES ASSUME NEW l \in OfKind(b, "contain") PROVE b.op[l].args[1] # cur
    OBVIOUS
  <2>1. l \in Live(b) /\ b.op[l].kind = "contain"
    BY DEF OfKind
  <2>2. 1 \in DOMAIN b.op[l].args
    BY <2>1, Arities
  <2> QED
    BY <2>1, <2>2, OperandFacts DEF OperandKinds
<1>3. \A u : u # cur /\ OperandsLow(b, m, bound, u, cur, sl) => OperandsLow(b, m, bound, u, cur, sl2)
  BY DEF OperandsLow
<1>4. EqualitiesLow(b, m, bound, "calls", wk, cur, sl2) /\ RowsLow(b, m, bound, "calls", wk, cur, sl2)
  BY <1>1, <1>2, <1>3 DEF Bounded, EqualitiesLow, RowsLow
<1> QED
  BY <1>4 DEF Bounded

LEMMA SkipArgumentBounded ==
  ASSUME Inv, DegreesOK, SkipArgument
  PROVE  DegreesOK' /\ KindsKept
<1>1. /\ phase = "calls" /\ slots # {} /\ slots' = slots \ {Slot}
      /\ phase' = phase /\ walk' = walk /\ current' = current /\ stack' = stack
      /\ returned' = returned /\ body' = body /\ degreeMemo' = degreeMemo /\ rewrites' = rewrites
      /\ maxDegree' = maxDegree
  BY DEF SkipArgument, ExpressionUnchanged, WalkUnchanged
<1>2. current \in Live(body) /\ body.op[current].kind = "call" /\ IsBody(body)
  BY <1>1, CopyFacts DEF Inv
<1>3. Bounded(body, degreeMemo, maxDegree, rewrites, stack, returned, phase, walk, current, slots')
  BY <1>1, <1>2, CallsWalked DEF DegreesOK
<1> QED
  BY <1>1, <1>3 DEF DegreesOK, KindsKept

LEMMA LowerArgumentBounded ==
  ASSUME Inv, DegreesOK, LowerArgument
  PROVE  DegreesOK' /\ KindsKept
<1> DEFINE f == Frame(call.operands[Slot], current)
<1>1. /\ stack' = <<f>> /\ returned' = returned
      /\ phase' = phase /\ walk' = walk /\ current' = current /\ slots' = slots /\ body' = body
      /\ degreeMemo' = degreeMemo /\ rewrites' = rewrites /\ maxDegree' = maxDegree
  BY DEF LowerArgument, ExpressionUnchanged, Lower, WalkUnchanged
<1>2. StackLow(degreeMemo, maxDegree, <<f>>)
  BY DEF StackLow, FrameLow, Frame
<1> HIDE DEF f
<1>3. Bounded(body, degreeMemo, maxDegree, rewrites, <<f>>, returned, phase, walk, current, slots)
  BY <1>2 DEF DegreesOK, Bounded
<1> QED
  BY <1>1, <1>3 DEF DegreesOK, KindsKept

(* An operand of a call gets an auxiliary member, whatever its degree. *)
LEMMA MaterializeArgumentBounded ==
  ASSUME Inv, DegreesOK, MaterializeArgument
  PROVE  DegreesOK' /\ KindsKept
<1> DEFINE operand == call.operands[Slot]
<1>1. /\ phase = "calls" /\ stack = <<>> /\ returned # None
      /\ slots' = slots \ {Slot} /\ returned' = None
      /\ phase' = phase /\ walk' = walk /\ current' = current /\ stack' = stack /\ maxDegree' = maxDegree
  BY DEF MaterializeArgument, WalkUnchanged
<1>2. /\ IsBody(body) /\ IsBlock(body) /\ MemoOK(body, degreeMemo) /\ slots # {}
      /\ Held(body, degreeMemo, maxDegree, returned) /\ Before(body, returned, current)
      /\ Low(degreeMemo, maxDegree, returned) /\ IsValue(body, returned)
  BY <1>1 DEF Inv, IsBody, Idle, ReturnedOK, User, DegreesOK, Bounded, Held
<1>3. current \in Live(body) /\ body.op[current].kind = "call"
  BY <1>1, <1>2, CopyFacts
<1>4. Bounded(body, degreeMemo, maxDegree, rewrites, <<>>, None, phase, walk, current, slots')
  <2>1. Bounded(body, degreeMemo, maxDegree, rewrites, <<>>, None, phase, walk, current, slots)
    BY <1>1 DEF DegreesOK, Bounded
  <2> QED
    BY <2>1, <1>1, <1>2, <1>3, CallsWalked
<1>5. \/ /\ FreshDegree[returned] <= 1 /\ ExpressionUnchanged
      \/ /\ FreshDegree[returned] > 1
         /\ \E aux \in Allocatable(body) :
              /\ body' = InsertAux(body, returned, aux, current)
              /\ RecordAux(returned, aux)
              /\ rewrites' = Put(Put(rewrites, operand, aux), returned, aux)
  BY DEF MaterializeArgument
<1> HIDE DEF operand
<1>6. CASE ExpressionUnchanged
  <2>1. body' = body /\ degreeMemo' = degreeMemo /\ rewrites' = rewrites
    BY <1>6 DEF ExpressionUnchanged
  <2> QED
    BY <2>1, <1>1, <1>4 DEF DegreesOK, KindsKept
<1>7. ASSUME FreshDegree[returned] > 1, NEW aux \in Allocatable(body),
             body' = InsertAux(body, returned, aux, current), RecordAux(returned, aux),
             rewrites' = Put(Put(rewrites, operand, aux), returned, aux)
      PROVE  DegreesOK' /\ KindsKept
  <2> DEFINE c == InsertAux(body, returned, aux, current)
             m == Put(degreeMemo, aux, 1)
             rw1 == Put(rewrites, operand, aux)
             rw2 == Put(rw1, returned, aux)
  <2>1. body' = c /\ degreeMemo' = m /\ rewrites' = rw2
    BY <1>7 DEF RecordAux
  <2>2. MemoOK(body, <<>>)
    BY DEF MemoOK
  <2>3. body.op[returned].kind # "aux" /\ FreshDegree[returned] \in Nat
    <3> DEFINE memo == <<>>
    <3>1. MemoOK(body, memo) /\ FreshDegree = DegreeIn(body, memo)
      BY <2>2 DEF FreshDegree
    <3> HIDE DEF memo
    <3>2. FreshDegree[returned] \in Nat /\ (body.op[returned].kind = "aux" => FreshDegree[returned] = 1)
      BY <3>1, <1>2, Degrees
    <3> QED
      BY <3>2, <1>7
  <2>4. degreeMemo[returned] >= 1
    <3>1. returned \in DOMAIN degreeMemo /\ degreeMemo[returned] \in Nat
      BY <1>2 DEF Low, MemoOK
    <3>2. FreshDegree[returned] <= degreeMemo[returned]
      BY <3>1, <1>2, FreshBelow DEF DegreesOK, Bounded, FreshDegree
    <3> QED
      BY <3>1, <3>2, <2>3, <1>7
  <2>5. ~ AuxEquation(body, current) /\ Replaced(body, body, returned, aux, current)
    BY <1>2, <1>3, ReplacedNone DEF AuxEquation
  <2>6. StackOK(body, degreeMemo, maxDegree, <<>>, current)
    BY EmptyStack
  <2>7. /\ Bounded(c, m, maxDegree, rewrites, <<>>, None, phase, walk, current, slots')
        /\ Low(m, maxDegree, aux)
        /\ \A kind \in {"div", "call"} : OfKind(c, kind) \subseteq OfKind(body, kind)
    BY <2>3, <2>4, <2>5, <2>6, <1>2, <1>3, <1>4, AuxBounded
  <2> HIDE DEF c, m
  <2>8. CacheLow(c, m, maxDegree, rw1)
    BY <2>7 DEF Bounded, CacheLow, Put
  <2> HIDE DEF rw1
  <2>9. CacheLow(c, m, maxDegree, rw2)
    BY <2>7, <2>8 DEF CacheLow, Put
  <2> HIDE DEF rw2
  <2>10. Bounded(c, m, maxDegree, rw2, <<>>, None, phase, walk, current, slots')
    BY <2>7, <2>9 DEF Bounded
  <2> QED
    BY <2>1, <2>7, <2>10, <1>1 DEF DegreesOK, KindsKept
<1> QED
  BY <1>5, <1>6, <1>7

LEMMA ReplaceCallBounded ==
  ASSUME Inv, DegreesOK, ReplaceCall
  PROVE  DegreesOK' /\ KindsKept
<1> DEFINE ops == call.operands
<1>1. /\ phase = "calls" /\ stack = <<>> /\ returned = None /\ slots = {} /\ current # None
      /\ body' = IF call.modified THEN SetArgs(body, current, ops) ELSE body
      /\ current' = None
      /\ phase' = phase /\ walk' = walk /\ slots' = slots /\ stack' = stack /\ returned' = returned
      /\ degreeMemo' = degreeMemo /\ rewrites' = rewrites /\ maxDegree' = maxDegree
  BY DEF ReplaceCall, Idle, WalkUnchanged
<1>2. /\ IsBody(body) /\ IsBlock(body) /\ WalkOK(body, phase, walk, current, slots)
      /\ Bounded(body, degreeMemo, maxDegree, rewrites, <<>>, None, phase, walk, current, {})
  BY <1>1 DEF Inv, IsBody, DegreesOK
<1>3. CallOK(body, degreeMemo, maxDegree, current, slots, ops, DOMAIN ops)
  BY <1>1 DEF Inv, CallStep, Kept
<1>4. current \in Live(body) /\ body.op[current].kind = "call" /\ ~ IsValue(body, current)
  BY <1>1, <1>2 DEF WalkOK, Lowered, Walked, OfKind, IsValue, Expressions, Leaves, Sums, Products
<1>5. Reargued(body, body', current)
  <2>1. CASE call.modified
    <3>1. /\ ops \in Seq(Nat) /\ DOMAIN ops = DOMAIN body.op[current].args
          /\ \A k \in DOMAIN ops : Before(body, ops[k], current)
                                   /\ body.op[ops[k]].kind \in OperandKinds(body.op[current].kind)
      BY <1>3, <1>4 DEF CallOK, IsValue, OperandKinds
    <3> HIDE DEF ops
    <3> QED
      BY <3>1, <2>1, <1>1, <1>2, <1>4, RearguedSet
  <2>2. CASE ~ call.modified
    BY <2>2, <1>1, <1>2, RearguedNone DEF Reargued
  <2> QED
    BY <2>1, <2>2
<1> DEFINE c == body'
<1>6. /\ OfKind(c, "div") = {} /\ Closed(c, degreeMemo) /\ CacheLow(c, degreeMemo, maxDegree, rewrites)
      /\ \A kind : OfKind(c, kind) = OfKind(body, kind)
  BY <1>4, <1>5, UserReargued
<1>7. \A x \in Live(body) : x # current => c.op[x] = body.op[x]
  BY <1>5 DEF Reargued
<1> HIDE DEF c
<1>8. \A u \in Live(body) : u # current /\ OperandsLow(body, degreeMemo, maxDegree, u, current, {})
                              => OperandsLow(c, degreeMemo, maxDegree, u, None, {})
  BY <1>7 DEF OperandsLow
<1>9. EqualitiesLow(c, degreeMemo, maxDegree, phase, walk, None, {})
  BY <1>1, <1>2, <1>4, <1>6, <1>8 DEF Bounded, EqualitiesLow, OfKind
<1>10. RowsLow(c, degreeMemo, maxDegree, phase, walk, None, {})
  <2> SUFFICES ASSUME NEW l \in OfKind(body, "contain")
               PROVE  OperandsLow(c, degreeMemo, maxDegree, c.op[l].args[1], None, {})
    BY <1>6 DEF RowsLow
  <2>1. l \in Live(body) /\ body.op[l].kind = "contain" /\ l # current
    BY <1>4 DEF OfKind
  <2>2. 1 \in DOMAIN body.op[l].args
    BY <2>1, <1>2, Arities
  <2>3. /\ body.op[l].args[1] \in Live(body) /\ c.op[l] = body.op[l]
        /\ body.op[body.op[l].args[1]].kind = "array"
    BY <2>1, <2>2, <1>2, <1>7, OperandFacts DEF Before, OperandKinds
  <2>4. OperandsLow(body, degreeMemo, maxDegree, body.op[l].args[1], current, {})
    BY <1>1, <1>2 DEF Bounded, RowsLow
  <2> QED
    BY <2>3, <2>4, <1>4, <1>8
<1>11. Bounded(c, degreeMemo, maxDegree, rewrites, <<>>, None, phase, walk, None, {})
  BY <1>2, <1>6, <1>9, <1>10 DEF Bounded
<1> QED
  BY <1>1, <1>6, <1>11 DEF DegreesOK, KindsKept, c

(* The last steps leave the block, and look nothing up. *)
LEMMA OrderBounded ==
  ASSUME DegreesOK, phase \in {"checks", "order"}, phase' \in {"order", "failed", "lowered"},
         maxDegree' = maxDegree, UNCHANGED <<walk, current, slots, stack, returned>>, ExpressionUnchanged
  PROVE  DegreesOK' /\ KindsKept
<1>1. /\ body' = body /\ degreeMemo' = degreeMemo /\ rewrites' = rewrites
      /\ walk' = walk /\ current' = current /\ slots' = slots /\ stack' = stack /\ returned' = returned
  BY DEF ExpressionUnchanged
<1>2. phase \notin {"equalities", "containments"}
  OBVIOUS
<1>3. Bounded(body, degreeMemo, maxDegree, rewrites, stack, returned, phase', walk, current, slots)
  BY <1>2 DEF DegreesOK, Bounded, EqualitiesLow, RowsLow
<1> QED
  BY <1>1, <1>3 DEF DegreesOK, KindsKept

(* Neither do the checks and the order add to the degrees. *)
LEMMA LastStepsBounded ==
  ASSUME DegreesOK, CheckDegrees \/ BeginVisit \/ VisitDependency \/ WriteAux \/ Finish
  PROVE  DegreesOK' /\ KindsKept
<1>1. /\ phase \in {"checks", "order"} /\ phase' \in {"order", "failed", "lowered"}
      /\ maxDegree' = maxDegree /\ UNCHANGED <<walk, current, slots, stack, returned>> /\ ExpressionUnchanged
  BY DEF CheckDegrees, BeginVisit, VisitDependency, WriteAux, Finish, WalkUnchanged
<1> QED
  BY <1>1, OrderBounded

-----------------------------------------------------------------------------
(* The pass does not fail *)

(* The operands of what was visited have degrees within the bound, as they  *)
(* are computed anew.                                                       *)
WithinBound == \A v \in OperandsOf(body, "eq") \cup Elements(body) : FreshDegree[v] <= maxDegree

(* What was visited has, computed anew, a degree within the bound. *)
LEMMA VisitedLow ==
  ASSUME Inv, DegreesOK, phase \notin {"equalities", "containments"}
  PROVE  WithinBound
<1>1. IsBody(body) /\ MemoOK(body, degreeMemo) /\ Closed(body, degreeMemo) /\ maxDegree \in Nat
  BY Bounds DEF Inv, DegreesOK, Bounded
<1>2. \A v : IsValue(body, v) /\ Low(degreeMemo, maxDegree, v) => FreshDegree[v] <= maxDegree
  <2> SUFFICES ASSUME NEW v, IsValue(body, v), Low(degreeMemo, maxDegree, v) PROVE FreshDegree[v] <= maxDegree
    OBVIOUS
  <2>1. v \in DOMAIN degreeMemo /\ degreeMemo[v] <= maxDegree /\ degreeMemo[v] \in Nat
    BY <1>1 DEF Low, MemoOK
  <2>2. FreshDegree[v] <= degreeMemo[v]
    BY <2>1, <1>1, FreshBelow DEF FreshDegree
  <2>3. FreshDegree[v] \in Nat
    <3> DEFINE memo == <<>>
    <3>1. MemoOK(body, memo) /\ FreshDegree = DegreeIn(body, memo)
      BY DEF MemoOK, FreshDegree
    <3> HIDE DEF memo
    <3> QED
      BY <3>1, <1>1, Degrees
  <2> QED
    BY <2>1, <2>2, <2>3, <1>1
<1>3. /\ EqualitiesLow(body, degreeMemo, maxDegree, phase, walk, current, {})
      /\ RowsLow(body, degreeMemo, maxDegree, phase, walk, current, {})
  <2>1. CASE slots = {}
    BY <2>1 DEF DegreesOK, Bounded
  <2>2. CASE slots # {}
    <3>1. phase = "calls"
      BY <2>2, CurrentFacts DEF Walking
    <3>2. current \in Live(body) /\ body.op[current].kind = "call"
      BY <2>2, <3>1, CopyFacts
    <3>3. Bounded(body, degreeMemo, maxDegree, rewrites, stack, returned, phase, walk, current, {})
      BY <1>1, <3>1, <3>2, CallsWalked DEF DegreesOK
    <3> QED
      BY <3>3 DEF Bounded
  <2> QED
    BY <2>1, <2>2
<1>4. ASSUME NEW v \in OperandsOf(body, "eq") PROVE FreshDegree[v] <= maxDegree
  <2>1. PICK e \in OfKind(body, "eq") : v \in ToSet(body.op[e].args)
    BY <1>4 DEF OperandsOf
  <2>2. PICK k \in DOMAIN body.op[e].args : v = body.op[e].args[k]
    BY <2>1 DEF ToSet
  <2>3. e \in Live(body) /\ body.op[e].kind = "eq"
    BY <2>1 DEF OfKind
  <2>4. Low(degreeMemo, maxDegree, v)
    BY <2>2, <1>3 DEF EqualitiesLow, OperandsLow
  <2>5. IsValue(body, v)
    BY <2>2, <2>3, <1>1, OperandFacts
  <2> QED
    BY <2>4, <2>5, <1>2
<1>5. ASSUME NEW v \in Elements(body) PROVE FreshDegree[v] <= maxDegree
  <2>1. PICK row \in OperandsOf(body, "contain") : v \in ToSet(body.op[row].args)
    BY <1>5 DEF Elements
  <2>2. PICK l \in OfKind(body, "contain") : row \in ToSet(body.op[l].args)
    BY <2>1 DEF OperandsOf
  <2>3. l \in Live(body) /\ body.op[l].kind = "contain"
    BY <2>2 DEF OfKind
  <2>4. DOMAIN body.op[l].args = 1..1
    BY <2>3, <1>1, Arities
  <2>5. row = body.op[l].args[1] /\ 1 \in DOMAIN body.op[l].args
    BY <2>2, <2>4 DEF ToSet
  <2>6. row \in Live(body) /\ body.op[row].kind = "array"
    BY <2>3, <2>5, <1>1, OperandFacts DEF OperandKinds, Before
  <2>7. PICK k \in DOMAIN body.op[row].args : v = body.op[row].args[k]
    BY <2>1 DEF ToSet
  <2>8. OperandsLow(body, degreeMemo, maxDegree, row, current, {})
    BY <2>5, <1>3 DEF RowsLow
  <2>9. Low(degreeMemo, maxDegree, v)
    BY <2>7, <2>8 DEF OperandsLow
  <2>10. IsValue(body, v)
    BY <2>6, <2>7, <1>1, OperandFacts
  <2> QED
    BY <2>9, <2>10, <1>2
<1> QED
  BY <1>4, <1>5 DEF WithinBound

(* Operands of calls are linear. *)
CallsLinear == \A v \in OperandsOf(body, "call") : FreshDegree[v] <= 1

(* Of the checks, those of the operands of calls alone could fail. *)
LEMMA ChecksHold ==
  ASSUME Inv, DegreesOK, CheckDegrees, phase' = "failed"
  PROVE  ~ CallsLinear
<1>1. phase = "checks" /\ phase' = IF Postconditions THEN "order" ELSE "failed"
  BY DEF CheckDegrees
<1>2. WithinBound
  BY <1>1, VisitedLow
<1>3. CallsLinear => Postconditions
  BY <1>2 DEF Postconditions, WithinBound, CallsLinear
<1> QED
  BY <1>1, <1>3

(* The reads of the members that are visited are in the order of the block, *)
(* each one before that of the member that depends on it.                   *)
ReadOf(k) == auxAssignments[k].aux
VisitsDescend ==
  phase = "order" =>
    \A i, j \in 1..Len(visiting) : i < j => Before(body, ReadOf(visiting[i]), ReadOf(visiting[j]))

(* A dependency's read comes before that of the member. *)
LEMMA DependencyBefore ==
  ASSUME Inv, NEW k \in DOMAIN auxAssignments, NEW dep \in AuxDependencies(k)
  PROVE  dep \in DOMAIN auxAssignments /\ Before(body, ReadOf(dep), ReadOf(k))
<1> DEFINE v == auxAssignments[k].computed
<1>1. IsBlock(body)
  BY DEF Inv, IsBody
<1>2. IsValue(body, v) /\ Before(body, v, ReadOf(k))
  BY ReadFacts DEF ReadOf
<1>3. PICK u \in DefinitionTree(body, v) : body.op[u].kind = "aux" /\ body.op[u].leaf = dep
  BY DEF AuxDependencies
<1> HIDE DEF v
<1>4. dep \in DOMAIN auxAssignments /\ ReadOf(dep) = u /\ (u = v \/ Before(body, u, v))
  BY <1>2, <1>3, TreeFacts DEF ReadOf
<1> QED
  BY <1>1, <1>2, <1>4, BeforeIsAnOrder

(* So no member is met again while it is visited. *)
LEMMA NoCycle ==
  ASSUME Inv, VisitsDescend, VisitDependency
  PROVE  phase' = "order" /\ VisitsDescend'
<1>1. PICK dep \in AuxDependencies(Head(visiting)) \ Ordered :
        IF Contains(visiting, dep) THEN phase' = "failed" /\ visiting' = visiting
        ELSE visiting' = <<dep>> \o visiting /\ phase' = phase
  BY DEF VisitDependency
<1>2. /\ phase = "order" /\ visiting # <<>> /\ body' = body /\ auxAssignments' = auxAssignments
  BY DEF VisitDependency, ExpressionUnchanged
<1>3. visiting \in Seq(DOMAIN auxAssignments) /\ IsBlock(body)
  BY OrderFacts DEF Inv, IsBody
<1> DEFINE n == Len(visiting)
           k == Head(visiting)
<1>4. n \in Nat /\ n > 0 /\ k = visiting[1] /\ k \in DOMAIN auxAssignments
  BY <1>2, <1>3, Popped
<1>5. dep \in DOMAIN auxAssignments /\ Before(body, ReadOf(dep), ReadOf(k))
  BY <1>1, <1>4, DependencyBefore
<1> HIDE DEF k
<1>6. \A j \in 1..n : Before(body, ReadOf(dep), ReadOf(visiting[j]))
  <2> SUFFICES ASSUME NEW j \in 1..n PROVE Before(body, ReadOf(dep), ReadOf(visiting[j]))
    OBVIOUS
  <2>1. CASE j = 1
    BY <2>1, <1>4, <1>5
  <2>2. CASE j # 1
    <3>1. 1 \in 1..n /\ 1 < j
      BY <2>2, <1>4
    <3>2. Before(body, ReadOf(k), ReadOf(visiting[j]))
      BY <3>1, <1>2, <1>4 DEF VisitsDescend
    <3> QED
      BY <3>2, <1>3, <1>5, BeforeIsAnOrder
  <2> QED
    BY <2>1, <2>2
<1>7. ~ Contains(visiting, dep)
  <2> SUFFICES ASSUME NEW j \in 1..n, visiting[j] = dep PROVE FALSE
    BY DEF Contains
  <2> QED
    BY <1>3, <1>6, BeforeIsAnOrder
<1> DEFINE s == <<dep>> \o visiting
<1>8. visiting' = s /\ phase' = phase
  BY <1>1, <1>7
<1>9. Len(s) = n + 1 /\ s[1] = dep /\ \A i \in 1..n : s[i + 1] = visiting[i]
  BY <1>3, <1>5, Pushed
<1> HIDE DEF s, n
<1>10. ASSUME NEW i \in 1..Len(s), NEW j \in 1..Len(s), i < j
       PROVE  Before(body, ReadOf(s[i]), ReadOf(s[j]))
  <2>1. j - 1 \in 1..n /\ (j - 1) + 1 = j
    BY <1>4, <1>9, <1>10
  <2>2. s[j] = visiting[j - 1]
    BY <2>1, <1>9
  <2>3. CASE i = 1
    BY <2>1, <2>2, <2>3, <1>6, <1>9
  <2>4. CASE i # 1
    <3>1. i - 1 \in 1..n /\ (i - 1) + 1 = i /\ i - 1 < j - 1
      BY <2>4, <1>4, <1>9, <1>10
    <3>2. s[i] = visiting[i - 1]
      BY <3>1, <1>9
    <3> QED
      BY <2>1, <2>2, <3>1, <3>2, <1>2 DEF VisitsDescend, n
  <2> QED
    BY <2>3, <2>4
<1> QED
  BY <1>2, <1>8, <1>10 DEF VisitsDescend, ReadOf

(* The visits stay in order when one ends. *)
LEMMA WrittenDescends ==
  ASSUME Inv, VisitsDescend, WriteAux
  PROVE  VisitsDescend'
<1>1. /\ phase = "order" /\ visiting # <<>> /\ visiting' = Tail(visiting)
      /\ body' = body /\ auxAssignments' = auxAssignments
  BY DEF WriteAux, ExpressionUnchanged
<1> DEFINE s == Tail(visiting)
           n == Len(visiting)
<1>2. /\ n \in Nat /\ n > 0 /\ Len(s) = n - 1 /\ \A i \in 1..(n - 1) : s[i] = visiting[i + 1]
  BY <1>1, OrderFacts, Popped
<1> HIDE DEF s, n
<1>3. ASSUME NEW i \in 1..Len(s), NEW j \in 1..Len(s), i < j
      PROVE  Before(body, ReadOf(s[i]), ReadOf(s[j]))
  <2>1. i + 1 \in 1..n /\ j + 1 \in 1..n /\ i + 1 < j + 1 /\ s[i] = visiting[i + 1] /\ s[j] = visiting[j + 1]
    BY <1>2, <1>3
  <2> QED
    BY <2>1, <1>1 DEF VisitsDescend, n
<1> QED
  BY <1>1, <1>3 DEF VisitsDescend, ReadOf, s

(* The visits are in order; and of a body that has no division, but for the *)
(* operands of its calls, the degrees are within the bound.                 *)
Sound ==
  /\ VisitsDescend
  /\ OfKind(program, "div") = {} =>
       /\ DegreesOK /\ (phase = "failed" => ~ CallsLinear)
       /\ OfKind(program, "call") = {} => OfKind(body, "call") = {}

(* Nothing is looked up at first. *)
LEMMA SoundInit ==
  ASSUME Init
  PROVE  Sound
<1>1. /\ body = program /\ degreeMemo = <<>> /\ rewrites = <<>> /\ phase = "equalities"
      /\ walk = OfKind(program, "eq") /\ stack = <<>> /\ returned = None
  BY DEF Init
<1>2. Len(stack) = 0 /\ DOMAIN degreeMemo = {} /\ DOMAIN rewrites = {}
  BY <1>1
<1>3. StackLow(degreeMemo, maxDegree, stack)
  BY <1>2 DEF StackLow
<1>4. EqualitiesLow(body, degreeMemo, maxDegree, phase, walk, current, slots)
      /\ RowsLow(body, degreeMemo, maxDegree, phase, walk, current, slots)
  BY <1>1 DEF EqualitiesLow, RowsLow
<1>5. OfKind(program, "div") = {} => DegreesOK
  BY <1>1, <1>2, <1>3, <1>4 DEF DegreesOK, Bounded, Closed, CacheLow
<1> QED
  BY <1>1, <1>5 DEF Sound, VisitsDescend

(* The walks, with what is lowered on their way. *)
WalkAction ==
  \/ NextWalk \/ VisitEquality \/ VisitContainment \/ SkipElement \/ LowerOperand
  \/ SetOperand \/ Leave \/ VisitCall \/ SkipArgument \/ LowerArgument
  \/ MaterializeArgument \/ ReplaceCall
LastAction == CheckDegrees \/ BeginVisit \/ VisitDependency \/ WriteAux \/ Finish

(* They come before the auxiliary members are ordered. *)
LEMMA WalksComeFirst ==
  ASSUME Inv, LowerExpression \/ WalkAction
  PROVE  phase' \in Walking \cup {"checks"} /\ program' = program
<1>1. program' = program
  BY DEF LowerExpression, ReturnCached, ReturnUnchanged, LowerLhs, LowerRhs, ReturnRoot, BeginProduct,
         Factor, ReturnProduct, CallersUnchanged, WalkAction, NextWalk, VisitEquality, VisitContainment,
         SkipElement, LowerOperand, SetOperand, Leave, VisitCall, SkipArgument, LowerArgument,
         MaterializeArgument, ReplaceCall, WalkUnchanged
<1>2. ASSUME LowerExpression PROVE phase' \in Walking
  <2>1. stack # <<>> /\ phase' = phase
    BY <1>2 DEF LowerExpression, ReturnCached, ReturnUnchanged, LowerLhs, LowerRhs, ReturnRoot, BeginProduct, Factor,
                ReturnProduct, CallersUnchanged
  <2>2. slots # {}
    BY <2>1 DEF Inv, Idle
  <2> QED
    BY <2>1, <2>2, CurrentFacts
<1>3. ASSUME SkipElement \/ LowerOperand \/ SetOperand \/ SkipArgument \/ LowerArgument \/ MaterializeArgument
      PROVE  phase' \in Walking
  BY <1>3 DEF SkipElement, LowerOperand, SetOperand, SkipArgument, LowerArgument, MaterializeArgument, Walking
<1>4. ASSUME VisitEquality \/ VisitContainment \/ Leave \/ VisitCall \/ ReplaceCall
      PROVE  phase' \in Walking
  BY <1>4 DEF VisitEquality, VisitContainment, Leave, VisitCall, ReplaceCall, Walking
<1>5. ASSUME NextWalk PROVE phase' \in Walking \cup {"checks"}
  BY <1>5 DEF NextWalk, Walking
<1> QED
  BY <1>1, <1>2, <1>3, <1>4, <1>5 DEF WalkAction

(* Each of them keeps the degrees. *)
LEMMA WalksBounded ==
  ASSUME Inv, DegreesOK, LowerExpression \/ WalkAction
  PROVE  DegreesOK' /\ KindsKept
<1>1. ASSUME LowerExpression PROVE DegreesOK' /\ KindsKept
  BY <1>1, ReturnCachedBounded, ReturnUnchangedBounded, LowerLhsBounded, LowerRhsBounded, ReturnRootBounded,
     BeginProductBounded, FactorBounded, ReturnProductBounded DEF LowerExpression
<1>2. ASSUME WalkAction PROVE DegreesOK' /\ KindsKept
  BY <1>2, NextWalkBounded, VisitEqualityBounded, VisitContainmentBounded, SkipElementBounded, LowerOperandBounded,
     SetOperandBounded, LeaveBounded, VisitCallBounded, SkipArgumentBounded, LowerArgumentBounded,
     MaterializeArgumentBounded, ReplaceCallBounded DEF WalkAction
<1> QED
  BY <1>1, <1>2

(* The last steps keep the order of the visits, and fail for calls alone. *)
LEMMA LastStepsDescend ==
  ASSUME Inv, VisitsDescend, LastAction
  PROVE  /\ VisitsDescend' /\ program' = program /\ body' = body
         /\ (DegreesOK /\ phase' = "failed" => ~ CallsLinear)
<1>1. program' = program /\ body' = body
  BY DEF LastAction, CheckDegrees, BeginVisit, VisitDependency, WriteAux, Finish, WalkUnchanged, ExpressionUnchanged
<1>2. CASE CheckDegrees
  <2>1. visiting = <<>> /\ visiting' = visiting
    BY <1>2 DEF CheckDegrees, WalkUnchanged, Inv, OrderOK
  <2>2. Len(visiting') = 0
    BY <2>1
  <2>3. VisitsDescend'
    BY <2>2 DEF VisitsDescend
  <2> QED
    BY <2>3, <1>1, <1>2, ChecksHold
<1>3. CASE BeginVisit
  <2>1. phase = "order" /\ phase' = phase /\ \E k : visiting' = <<k>>
    BY <1>3 DEF BeginVisit
  <2>2. Len(visiting') = 1
    BY <2>1
  <2>3. VisitsDescend'
    BY <2>2 DEF VisitsDescend
  <2> QED
    BY <2>1, <2>3, <1>1
<1>4. CASE VisitDependency
  BY <1>1, <1>4, NoCycle
<1>5. CASE WriteAux
  <2>1. phase' = "order"
    BY <1>5 DEF WriteAux
  <2> QED
    BY <2>1, <1>1, <1>5, WrittenDescends
<1>6. CASE Finish
  <2>1. phase' = "lowered"
    BY <1>6 DEF Finish
  <2> QED
    BY <2>1, <1>1 DEF VisitsDescend
<1> QED
  BY <1>2, <1>3, <1>4, <1>5, <1>6 DEF LastAction

(* Every step keeps it. *)
LEMMA SoundKept ==
  ASSUME Inv, Sound, [Next]_vars
  PROVE  Sound'
<1>1. ASSUME UNCHANGED vars PROVE Sound'
  BY <1>1 DEF vars, Sound, DegreesOK, VisitsDescend, ReadOf, CallsLinear, FreshDegree
<1>2. ASSUME LowerExpression \/ WalkAction PROVE Sound'
  <2>1. program' = program /\ phase' # "order" /\ phase' # "failed"
    BY <1>2, WalksComeFirst DEF Walking
  <2>2. OfKind(program, "div") = {} => DegreesOK' /\ KindsKept
    BY <1>2, WalksBounded DEF Sound
  <2> QED
    BY <2>1, <2>2 DEF Sound, VisitsDescend, KindsKept
<1>3. ASSUME LastAction PROVE Sound'
  <2>1. /\ VisitsDescend' /\ program' = program /\ body' = body
        /\ (DegreesOK /\ phase' = "failed" => ~ CallsLinear)
    BY <1>3, LastStepsDescend DEF Sound
  <2>2. OfKind(program, "div") = {} => DegreesOK'
    BY <1>3, LastStepsBounded DEF Sound, LastAction
  <2>3. CallsLinear' = CallsLinear
    BY <2>1 DEF CallsLinear, FreshDegree
  <2> QED
    BY <2>1, <2>2, <2>3 DEF Sound
<1> QED
  BY <1>1, <1>2, <1>3 DEF Next, RunOnOperation, WalkAction, LastAction

(* It holds of every reachable state, with the invariant. *)
THEOREM Soundness == Spec => [](Settled => Inv /\ Sound)
<1>1. Init => (Settled => Inv /\ Sound)
  BY InvInit, SoundInit
<1>2. (Settled => Inv /\ Sound) /\ [Next]_vars => (Settled' => Inv' /\ Sound')
  BY InvKept, SoundKept, WasSettled
<1> QED
  BY <1>1, <1>2, PTL DEF Spec

(* Once equalities and containments are visited, and whatever the lowering  *)
(* of call arguments inserts and erases after that, no side of an equality  *)
(* and no element of a looked-up row is of a degree above maxDegree, not    *)
(* even when degrees are computed anew, without the memo.                   *)
THEOREM DegreesLowered ==
  Spec => [](Settled /\ OfKind(program, "div") = {} /\ phase \notin {"equalities", "containments"} => WithinBound)
<1>1. Settled /\ (Settled => Inv /\ Sound) /\ OfKind(program, "div") = {} /\ phase \notin {"equalities", "containments"}
        => WithinBound
  BY VisitedLow DEF Sound
<1> QED
  BY <1>1, Soundness, PTL

(* The visits of orderAuxAssignments come to no member that is being        *)
(* visited: the auxiliary members that the pass makes do not depend on each *)
(* other in a cycle, whatever the operations of the body.                   *)
THEOREM NoCyclicMembers == Spec => [][Settled /\ phase = "order" => phase' # "failed"]_vars
<1>1. (Settled => Inv /\ Sound) /\ [Next]_vars => [Settled /\ phase = "order" => phase' # "failed"]_vars
  <2> SUFFICES ASSUME Inv, Sound, Next, phase = "order" PROVE phase' # "failed"
    OBVIOUS
  <2>1. ASSUME LowerExpression \/ WalkAction PROVE phase' # "failed"
    BY <2>1, WalksComeFirst DEF Walking
  <2>2. ASSUME BeginVisit \/ WriteAux \/ Finish PROVE phase' # "failed"
    BY <2>2 DEF BeginVisit, WriteAux, Finish
  <2>3. ASSUME VisitDependency PROVE phase' # "failed"
    BY <2>3, NoCycle DEF Sound
  <2>4. ~ CheckDegrees
    BY DEF CheckDegrees
  <2> QED
    BY <2>1, <2>2, <2>3, <2>4 DEF Next, RunOnOperation, WalkAction
<1> QED
  BY <1>1, Soundness, PTL DEF Spec

(* A body without divisions is refused for the operands of its calls alone. *)
THEOREM FailsForCallsAlone ==
  Spec => [](Settled /\ OfKind(program, "div") = {} /\ phase = "failed" =>
               \E v \in OperandsOf(body, "call") : ~ (FreshDegree[v] <= 1))
<1>1. Settled /\ (Settled => Inv /\ Sound) /\ OfKind(program, "div") = {} /\ phase = "failed" =>
        \E v \in OperandsOf(body, "call") : ~ (FreshDegree[v] <= 1)
  BY DEF Sound, CallsLinear
<1> QED
  BY <1>1, Soundness, PTL

(* So the pass never fails on a body of sums, products and negations, with  *)
(* any equalities and containments: its checks of degrees pass, and it can  *)
(* put its auxiliary members in an order.                                   *)
THEOREM NeverFails == Spec => [](OfKind(program, "call") = {} => FailsOnlyOnUnsupported)
<1>1. (Settled => Inv /\ Sound) => (OfKind(program, "call") = {} => FailsOnlyOnUnsupported)
  <2> SUFFICES ASSUME Settled => Inv /\ Sound, OfKind(program, "call") = {}, phase = "failed"
               PROVE  \E id \in Live(program) : program.op[id].kind = "div"
    BY DEF FailsOnlyOnUnsupported
  <2>1. Settled
    BY DEF Settled, ArgumentsApart
  <2>2. OfKind(body, "call") = {} => CallsLinear
    BY DEF CallsLinear, OperandsOf
  <2>3. OfKind(program, "div") # {}
    BY <2>1, <2>2 DEF Sound
  <2> QED
    BY <2>3 DEF OfKind
<1> QED
  BY <1>1, Soundness, PTL
=============================================================================
