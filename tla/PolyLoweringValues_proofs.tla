---------------------- MODULE PolyLoweringValues_proofs ----------------------
(***************************************************************************)
(* Proofs for PolyLowering, continued: values are kept, for all programs,  *)
(* bounds and inputs, when a new operation has an address of its own.  The *)
(* values of a block are the only ones that its operations allow, and each *)
(* step leaves a block that has the values of the one before for all that  *)
(* the pass holds, caches, returns and has visited.  Faithful says what    *)
(* each of these stands for; one lemma per action shows that the action    *)
(* keeps it.                                                               *)
(***************************************************************************)
EXTENDS PolyLowering_proofs

(* Erased operations are products, of operations that are in the block or   *)
(* were erased after them.                                                  *)
Ranked(b, rank, m) ==
  /\ m \in Nat /\ rank \in [DOMAIN b.op \ Live(b) -> 0..m]
  /\ \A v \in DOMAIN b.op \ Live(b) :
       /\ b.op[v].kind = "mul" /\ DOMAIN b.op[v].args = {1, 2}
       /\ \A k \in {1, 2} : \/ b.op[v].args[k] \in Live(b)
                            \/ /\ b.op[v].args[k] \in DOMAIN b.op \ Live(b)
                               /\ rank[b.op[v].args[k]] < rank[v]
ErasedOK(b) == \E m, rank : Ranked(b, rank, m)

(* An auxiliary member holds a value that comes before its read. *)
MembersOK(b, auxs) ==
  \A v \in OfKind(b, "aux") : LET u == auxs[b.op[v].leaf].computed IN IsValue(b, u) /\ Before(b, u, v)

(* A value is made of the kind of its operation and of its operands' values. *)
LEMMA ValueIsLocal ==
  ASSUME NEW b, NEW auxs, NEW f, NEW v, NEW c, NEW auxs2, NEW g, NEW w, NEW inputs,
         c.op[w].kind = b.op[v].kind, c.op[w].leaf = b.op[v].leaf,
         b.op[v].kind \in Sums \cup Products => DOMAIN b.op[v].args = {1, 2},
         b.op[v].kind = "neg" => DOMAIN b.op[v].args = {1},
         b.op[v].kind \in Expressions => \A k \in DOMAIN b.op[v].args : g[c.op[w].args[k]] = f[b.op[v].args[k]],
         b.op[v].kind = "aux" => g[auxs2[c.op[w].leaf].computed] = f[auxs[b.op[v].leaf].computed]
  PROVE  ValueOf(c, auxs2, inputs, g, w) = ValueOf(b, auxs, inputs, f, v)
<1>1. CASE b.op[v].kind \in Sums \cup Products
  <2>1. /\ g[c.op[w].args[1]] = f[b.op[v].args[1]]
        /\ g[c.op[w].args[2]] = f[b.op[v].args[2]]
    BY <1>1 DEF Expressions
  <2> QED
    BY <1>1, <2>1 DEF Sums, Products, ValueOf
<1>2. CASE b.op[v].kind = "neg"
  <2>1. g[c.op[w].args[1]] = f[b.op[v].args[1]]
    BY <1>2 DEF Expressions
  <2> QED
    BY <1>2, <2>1 DEF ValueOf
<1>3. CASE b.op[v].kind = "aux"
  BY <1>3 DEF ValueOf
<1>4. CASE b.op[v].kind \notin Sums \cup Products \cup {"neg", "aux"}
  BY <1>4 DEF ValueOf, Sums, Products
<1> QED
  BY <1>1, <1>2, <1>3, <1>4

(* The order in which values can be computed: along the block, then back    *)
(* through what was erased.                                                 *)
Measure(b, rank, v) == IF v \in Live(b) THEN Index(b, v) ELSE Len(b.block) + 1 + rank[v]

(* A value is that of values which come earlier. *)
LEMMA ComputedEarlier ==
  ASSUME NEW b, IsBody(b), NEW rank, NEW m, Ranked(b, rank, m), NEW auxs, MembersOK(b, auxs), NEW inputs,
         NEW v \in DOMAIN b.op, NEW f, NEW g,
         \A u \in DOMAIN b.op : Measure(b, rank, u) < Measure(b, rank, v) => f[u] = g[u]
  PROVE  ValueOf(b, auxs, inputs, f, v) = ValueOf(b, auxs, inputs, g, v)
<1>1. IsBlock(b) /\ Live(b) \subseteq DOMAIN b.op
  BY BlockFacts DEF IsBody
<1>2. Len(b.block) \in Nat /\ \A u \in Live(b) : Index(b, u) \in 1..Len(b.block)
  BY <1>1, IndexFacts, BlockFacts
<1>3. CASE v \in Live(b)
  <2>1. \A u : Before(b, u, v) => f[u] = g[u]
    BY <1>1, <1>3 DEF Before, Measure
  <2>2. b.op[v].kind \in Expressions => \A k \in DOMAIN b.op[v].args : f[b.op[v].args[k]] = g[b.op[v].args[k]]
    BY <2>1, <1>3, OperandFacts
  <2>3. b.op[v].kind = "aux" => f[auxs[b.op[v].leaf].computed] = g[auxs[b.op[v].leaf].computed]
    BY <2>1, <1>3 DEF MembersOK, OfKind
  <2>4. /\ b.op[v].kind \in Sums \cup Products => DOMAIN b.op[v].args = {1, 2}
        /\ b.op[v].kind = "neg" => DOMAIN b.op[v].args = {1}
    BY <1>3, Arities
  <2> QED
    BY <2>2, <2>3, <2>4, ValueIsLocal
<1>4. CASE v \notin Live(b)
  <2>1. b.op[v].kind = "mul" /\ DOMAIN b.op[v].args = {1, 2}
    BY <1>4 DEF Ranked
  <2>2. \A k \in {1, 2} : f[b.op[v].args[k]] = g[b.op[v].args[k]]
    <3> SUFFICES ASSUME NEW k \in {1, 2} PROVE f[b.op[v].args[k]] = g[b.op[v].args[k]]
      OBVIOUS
    <3> DEFINE u == b.op[v].args[k]
    <3>1. rank[v] \in Nat
      BY <1>4 DEF Ranked
    <3>2. Measure(b, rank, v) = Len(b.block) + 1 + rank[v]
      BY <1>4 DEF Measure
    <3>3. CASE u \in Live(b)
      <4>1. Measure(b, rank, u) \in 1..Len(b.block)
        BY <3>3, <1>2 DEF Measure
      <4> QED
        BY <4>1, <3>1, <3>2, <3>3, <1>1, <1>2
    <3>4. CASE u \in DOMAIN b.op \ Live(b) /\ rank[u] < rank[v]
      <4>1. rank[u] \in Nat /\ Measure(b, rank, u) = Len(b.block) + 1 + rank[u]
        BY <3>4 DEF Measure, Ranked
      <4> QED
        BY <4>1, <3>1, <3>2, <3>4, <1>2
    <3> QED
      BY <3>3, <3>4, <1>4 DEF Ranked
  <2> QED
    BY <2>1, <2>2, ValueIsLocal DEF Sums, Products
<1> QED
  BY <1>3, <1>4

(* So each operation has a value. *)
LEMMA ValueEquation ==
  ASSUME NEW b, IsBody(b), ErasedOK(b), NEW auxs, MembersOK(b, auxs), NEW inputs
  PROVE  \A v \in DOMAIN b.op :
           ValueIn(b, auxs, inputs)[v] = ValueOf(b, auxs, inputs, ValueIn(b, auxs, inputs), v)
<1>1. PICK m, rank : Ranked(b, rank, m)
  BY DEF ErasedOK
<1> DEFINE M(v) == Measure(b, rank, v)
           Of(f, v) == ValueOf(b, auxs, inputs, f, v)
           Upto(f, n) == \A v \in DOMAIN b.op : M(v) <= n => f[v] = Of(f, v)
           T == {n \in Nat : ~ \E f : Upto(f, n)}
           D == Len(b.block) + 1 + m
<1>2. D \in Nat /\ \A v \in DOMAIN b.op : M(v) \in 0..D
  <2>1. Len(b.block) \in Nat /\ \A u \in Live(b) : Index(b, u) \in 1..Len(b.block)
    BY IndexFacts, BlockFacts DEF IsBody
  <2>2. m \in Nat /\ \A v \in DOMAIN b.op : v \notin Live(b) => rank[v] \in 0..m
    BY <1>1 DEF Ranked
  <2> QED
    BY <2>1, <2>2 DEF Measure
<1>3. ASSUME NEW v \in DOMAIN b.op, NEW f, NEW g, \A u \in DOMAIN b.op : M(u) < M(v) => f[u] = g[u]
      PROVE  Of(f, v) = Of(g, v)
  BY <1>1, <1>3, ComputedEarlier
<1> HIDE DEF D, M, Of
<1>4. T = {}
  <2> SUFFICES ASSUME T # {} PROVE FALSE
    OBVIOUS
  <2>1. PICK n \in T : \A k \in T : n <= k
    <3>1. T \subseteq Nat
      OBVIOUS
    <3> HIDE DEF T
    <3> QED
      BY <3>1, Least
  <2>2. n \in Nat /\ ~ \E f : Upto(f, n)
    BY <2>1
  <2>3. PICK f : \A v \in DOMAIN b.op : M(v) < n => f[v] = Of(f, v)
    <3>1. CASE n = 0
      <4>1. \A v \in DOMAIN b.op : ~ (M(v) < 0)
        BY <1>2
      <4> QED
        BY <4>1, <3>1
    <3>2. CASE n # 0
      <4>1. n - 1 \in Nat /\ ~ (n <= n - 1)
        BY <2>2, <3>2
      <4>2. PICK f : Upto(f, n - 1)
        BY <2>1, <4>1
      <4>3. \A v \in DOMAIN b.op : M(v) < n => M(v) <= n - 1
        BY <1>2, <2>2
      <4> QED
        BY <4>2, <4>3
    <3> QED
      BY <3>1, <3>2
  <2> DEFINE g == [v \in DOMAIN b.op |-> Of(f, v)]
  <2>4. \A v \in DOMAIN b.op : g[v] = Of(f, v)
    OBVIOUS
  <2> HIDE DEF g
  <2>5. ASSUME NEW v \in DOMAIN b.op, M(v) <= n PROVE g[v] = Of(g, v)
    <3>1. \A u \in DOMAIN b.op : M(u) < M(v) => M(u) < n
      BY <2>5, <2>2, <1>2
    <3>2. \A u \in DOMAIN b.op : M(u) < M(v) => f[u] = g[u]
      BY <3>1, <2>3, <2>4
    <3>3. Of(f, v) = Of(g, v)
      BY <3>2, <1>3
    <3> QED
      BY <3>3, <2>4
  <2> QED
    BY <2>5, <2>2
<1>5. PICK f : Upto(f, D)
  BY <1>2, <1>4
<1> DEFINE g == [v \in DOMAIN b.op |-> Of(f, v)]
<1>6. \A v \in DOMAIN b.op : M(v) <= D
  BY <1>2
<1>7. \A v \in DOMAIN b.op : f[v] = Of(f, v)
  BY <1>5, <1>6
<1>8. \A v \in DOMAIN b.op : g[v] = f[v]
  BY <1>7
<1>9. \A v \in DOMAIN b.op : Of(f, v) = Of(g, v)
  <2> HIDE DEF g
  <2> QED
    BY <1>8, <1>3
<1>10. g = [v \in DOMAIN b.op |-> ValueOf(b, auxs, inputs, g, v)]
  BY <1>9, Zenon DEF Of
<1>11. ValueIn(b, auxs, inputs) = CHOOSE h : h = [v \in DOMAIN b.op |-> ValueOf(b, auxs, inputs, h, v)]
  BY Zenon DEF ValueIn
<1>12. ValueIn(b, auxs, inputs) = [v \in DOMAIN b.op |-> ValueOf(b, auxs, inputs, ValueIn(b, auxs, inputs), v)]
  BY <1>10, <1>11, Zenon
<1> QED
  BY <1>12, Zenon

(* Nothing else has the values of a block. *)
LEMMA ValueIsUnique ==
  ASSUME NEW b, IsBody(b), ErasedOK(b), NEW auxs, MembersOK(b, auxs), NEW inputs, NEW g,
         \A v : IsValue(b, v) => g[v] = ValueOf(b, auxs, inputs, g, v)
  PROVE  \A v : IsValue(b, v) => ValueIn(b, auxs, inputs)[v] = g[v]
<1> DEFINE V == ValueIn(b, auxs, inputs)
           T == {Index(b, v) : v \in {u \in Live(b) : IsValue(b, u) /\ V[u] # g[u]}}
<1>1. IsBlock(b) /\ Live(b) \subseteq DOMAIN b.op
  BY BlockFacts DEF IsBody
<1>2. \A u \in Live(b) : Index(b, u) \in Nat
  BY <1>1, IndexFacts
<1>3. CASE T = {}
  BY <1>3 DEF IsValue
<1>4. CASE T # {}
  <2>1. PICK n \in T : \A k \in T : n <= k
    <3>1. T \subseteq Nat
      BY <1>2
    <3> HIDE DEF T
    <3> QED
      BY <3>1, <1>4, Least
  <2>2. PICK v \in Live(b) : IsValue(b, v) /\ V[v] # g[v] /\ Index(b, v) = n
    BY <2>1
  <2>3. \A u : IsValue(b, u) /\ Before(b, u, v) => V[u] = g[u]
    <3> SUFFICES ASSUME NEW u, IsValue(b, u), Before(b, u, v), V[u] # g[u] PROVE FALSE
      OBVIOUS
    <3>1. u \in Live(b) /\ Index(b, u) < n
      BY <2>2 DEF Before
    <3>2. Index(b, u) \in T
      BY <3>1
    <3> QED
      BY <3>1, <3>2, <2>1, <1>2, <2>2
  <2> HIDE DEF V
  <2>4. \A k \in DOMAIN b.op[v].args : V[b.op[v].args[k]] = g[b.op[v].args[k]]
    BY <2>2, <2>3, OperandFacts DEF IsValue, Expressions, Leaves, Sums, Products, OperandKinds
  <2>5. b.op[v].kind = "aux" => V[auxs[b.op[v].leaf].computed] = g[auxs[b.op[v].leaf].computed]
    BY <2>2, <2>3 DEF MembersOK, OfKind
  <2>6. /\ b.op[v].kind \in Sums \cup Products => DOMAIN b.op[v].args = {1, 2}
        /\ b.op[v].kind = "neg" => DOMAIN b.op[v].args = {1}
    BY Arities
  <2>7. ValueOf(b, auxs, inputs, V, v) = ValueOf(b, auxs, inputs, g, v)
    BY <2>4, <2>5, <2>6, ValueIsLocal
  <2>8. V[v] = ValueOf(b, auxs, inputs, V, v)
    BY <1>1, ValueEquation DEF V
  <2> QED
    BY <2>2, <2>7, <2>8
<1> QED
  BY <1>3, <1>4

(* A block that came from another one: the values that stayed are as they   *)
(* were, and so are those of operands.  What is new are no users, or        *)
(* equations that hold.                                                     *)
Follows(b, V, c, V2) ==
  /\ DOMAIN b.op \subseteq DOMAIN c.op /\ Live(c) \cap DOMAIN b.op \subseteq Live(b)
  /\ \A v : IsValue(b, v) /\ v \in Live(c) => V2[v] = V[v]
  /\ \A id \in Live(b) : id \in Live(c) =>
       /\ c.op[id].kind = b.op[id].kind /\ c.op[id].leaf = b.op[id].leaf
       /\ DOMAIN c.op[id].args = DOMAIN b.op[id].args
       /\ b.op[id].kind # "contain" =>
            \A k \in DOMAIN b.op[id].args : V2[c.op[id].args[k]] = V[b.op[id].args[k]]
  /\ \A id \in Live(c) \ Live(b) : c.op[id].kind \in {"eq", "array", "call"} =>
       c.op[id].kind = "eq" /\ c.op[id].leaf = 0 /\ V2[c.op[id].args[1]] = V2[c.op[id].args[2]]

(* What the program has for its users is what it had: an added equality     *)
(* holds, other operands have the values they have in the program.          *)
UsersMean(b, V, p, V0) ==
  \A id \in Live(b) : b.op[id].kind \in {"eq", "array", "call"} =>
    \/ b.op[id].kind = "eq" /\ b.op[id].leaf = 0 /\ V[b.op[id].args[1]] = V[b.op[id].args[2]]
    \/ b.op[id].leaf = id /\ \A k \in DOMAIN b.op[id].args : V[b.op[id].args[k]] = V0[p.op[id].args[k]]

(* A cached replacement has the value that it stands for. *)
CacheMeans(b, V, rw) ==
  \A v \in DOMAIN rw : v \in DOMAIN b.op /\ (IsValue(b, v) /\ IsValue(b, rw[v]) => V[rw[v]] = V[v])

(* Lowered operands have the values of the operands, and what is lowered    *)
(* next is the next operand.                                                *)
FrameMeans(b, V, f) ==
  /\ f.at \in {"rhs", "factor"} => V[f.lhs] = V[b.op[f.val].args[1]]
  /\ f.at = "factor" => V[f.rhs] = V[b.op[f.val].args[2]]
Wanted(b, V, st, asked) ==
  IF st = <<>> THEN asked ELSE V[b.op[Head(st).val].args[IF Head(st).at = "lhs" THEN 1 ELSE 2]]
StackMeans(b, V, st, asked) ==
  \A i \in 1..Len(st) :
    /\ FrameMeans(b, V, st[i])
    /\ V[st[i].val] = IF i = Len(st) THEN asked
                      ELSE V[b.op[st[i + 1].val].args[IF st[i + 1].at = "lhs" THEN 1 ELSE 2]]

(* So do the copies of a call's operands that were not erased. *)
CopiesMean(b, V, p, V0, cur, operands) ==
  \A k \in DOMAIN operands :
    operands[k] \in DOMAIN b.op /\ (IsValue(b, operands[k]) => V[operands[k]] = V0[p.op[cur].args[k]])

(* What is kept from a block to the next: the values of what uses them, *)
LEMMA UsersFollow ==
  ASSUME NEW b, IsBody(b), NEW V, NEW c, NEW V2, Follows(b, V, c, V2), NEW p, NEW V0, UsersMean(b, V, p, V0)
  PROVE  UsersMean(c, V2, p, V0)
<1> SUFFICES ASSUME NEW id \in Live(c), c.op[id].kind \in {"eq", "array", "call"}
             PROVE  \/ c.op[id].kind = "eq" /\ c.op[id].leaf = 0 /\ V2[c.op[id].args[1]] = V2[c.op[id].args[2]]
                    \/ c.op[id].leaf = id /\ \A k \in DOMAIN c.op[id].args : V2[c.op[id].args[k]] = V0[p.op[id].args[k]]
  BY DEF UsersMean
<1>1. CASE id \notin Live(b)
  BY <1>1 DEF Follows
<1>2. CASE id \in Live(b)
  <2>1. /\ c.op[id].kind = b.op[id].kind /\ c.op[id].leaf = b.op[id].leaf
        /\ DOMAIN c.op[id].args = DOMAIN b.op[id].args
        /\ \A k \in DOMAIN b.op[id].args : V2[c.op[id].args[k]] = V[b.op[id].args[k]]
    BY <1>2 DEF Follows
  <2>2. b.op[id].kind = "eq" => 1 \in DOMAIN b.op[id].args /\ 2 \in DOMAIN b.op[id].args
    BY <1>2, Arities
  <2> QED
    BY <1>2, <2>1, <2>2 DEF UsersMean
<1> QED
  BY <1>1, <1>2

(* those of the cache, *)
LEMMA CacheFollows ==
  ASSUME NEW b, NEW V, NEW c, NEW V2, Follows(b, V, c, V2), NEW rw, CacheMeans(b, V, rw),
         \A v \in DOMAIN rw : rw[v] \in DOMAIN b.op
  PROVE  CacheMeans(c, V2, rw)
BY DEF Follows, CacheMeans, IsValue

(* and those of the copies of a call's operands. *)
LEMMA CopiesFollow ==
  ASSUME NEW b, NEW V, NEW c, NEW V2, Follows(b, V, c, V2), NEW p, NEW V0, NEW cur, NEW operands,
         CopiesMean(b, V, p, V0, cur, operands)
  PROVE  CopiesMean(c, V2, p, V0, cur, operands)
BY DEF Follows, CopiesMean, IsValue

(* Activations of before whose values are still in the block. *)
LEMMA StackFollows ==
  ASSUME NEW b, IsBody(b), NEW memo, NEW bound, NEW V, NEW c, NEW V2, Follows(b, V, c, V2), NEW st, NEW cur,
         StackOK(b, memo, bound, st, cur), NEW asked, StackMeans(b, V, st, asked),
         \A i \in 1..Len(st) : /\ st[i].val \in Live(c)
                               /\ st[i].at \in {"rhs", "factor"} => st[i].lhs \in Live(c)
                               /\ st[i].at = "factor" => st[i].rhs \in Live(c)
  PROVE  StackMeans(c, V2, st, asked)
<1>1. \A i \in 1..Len(st) :
        /\ V2[st[i].val] = V[st[i].val]
        /\ st[i].at # "entry" =>
             /\ V2[c.op[st[i].val].args[1]] = V[b.op[st[i].val].args[1]]
             /\ b.op[st[i].val].kind # "neg" => V2[c.op[st[i].val].args[2]] = V[b.op[st[i].val].args[2]]
        /\ FrameMeans(c, V2, st[i])
  <2> SUFFICES ASSUME NEW i \in 1..Len(st)
               PROVE  /\ V2[st[i].val] = V[st[i].val]
                      /\ st[i].at # "entry" =>
                           /\ V2[c.op[st[i].val].args[1]] = V[b.op[st[i].val].args[1]]
                           /\ b.op[st[i].val].kind # "neg" => V2[c.op[st[i].val].args[2]] = V[b.op[st[i].val].args[2]]
                      /\ FrameMeans(c, V2, st[i])
    OBVIOUS
  <2> DEFINE f == st[i]
             x == st[i].val
  <2>1. FrameOK(b, memo, bound, f) /\ FrameMeans(b, V, f) /\ (f.at = "factor" => FactorOK(b, memo, bound, f))
    BY DEF StackOK, StackMeans
  <2>2. x \in Live(c) /\ x \in Live(b) /\ V2[x] = V[x]
    BY <2>1 DEF FrameOK, IsValue, Follows
  <2>3. f.at # "entry" => /\ b.op[x].kind # "contain" /\ 1 \in DOMAIN b.op[x].args
                          /\ b.op[x].kind # "neg" => 2 \in DOMAIN b.op[x].args
    BY <2>1, <2>2, Arities DEF FrameOK, LoweredRoots, Sums, Products
  <2>4. f.at # "entry" =>
          /\ V2[c.op[x].args[1]] = V[b.op[x].args[1]]
          /\ b.op[x].kind # "neg" => V2[c.op[x].args[2]] = V[b.op[x].args[2]]
    BY <2>2, <2>3 DEF Follows
  <2>5. /\ f.at \in {"rhs", "factor"} => V2[f.lhs] = V[f.lhs] /\ b.op[x].kind # "neg"
        /\ f.at = "factor" => V2[f.rhs] = V[f.rhs]
    BY <2>1 DEF FrameOK, FactorOK, Held, Follows
  <2> HIDE DEF f
  <2>6. FrameMeans(c, V2, f)
    BY <2>1, <2>4, <2>5 DEF FrameMeans, x, f
  <2> QED
    BY <2>2, <2>4, <2>6 DEF f
<1> SUFFICES ASSUME NEW i \in 1..Len(st)
             PROVE  V2[st[i].val] = IF i = Len(st) THEN asked
                                    ELSE V2[c.op[st[i + 1].val].args[IF st[i + 1].at = "lhs" THEN 1 ELSE 2]]
  BY <1>1 DEF StackMeans
<1>2. CASE i = Len(st)
  BY <1>1, <1>2 DEF StackMeans
<1>3. CASE i # Len(st)
  <2>1. Len(st) \in Nat
    BY LenProperties DEF StackOK
  <2>2. i + 1 \in 1..Len(st) /\ i + 1 > 1
    BY <1>3, <2>1
  <2>3. st[i + 1].at \in {"lhs", "rhs"} /\ FrameOK(b, memo, bound, st[i + 1])
    BY <2>2 DEF StackOK
  <2>4. st[i + 1].at = "rhs" => b.op[st[i + 1].val].kind # "neg"
    BY <2>3 DEF FrameOK
  <2>5. V[st[i].val] = V[b.op[st[i + 1].val].args[IF st[i + 1].at = "lhs" THEN 1 ELSE 2]]
    BY <1>3 DEF StackMeans
  <2> DEFINE j == i + 1
  <2>6. /\ V2[st[i].val] = V[st[i].val]
        /\ V2[c.op[st[j].val].args[1]] = V[b.op[st[j].val].args[1]]
        /\ st[j].at = "rhs" => V2[c.op[st[j].val].args[2]] = V[b.op[st[j].val].args[2]]
    BY <1>1, <2>2, <2>3, <2>4
  <2> HIDE DEF j
  <2>7. V2[st[i].val] = V2[c.op[st[j].val].args[IF st[j].at = "lhs" THEN 1 ELSE 2]]
    BY <2>3, <2>5, <2>6 DEF j
  <2> QED
    BY <2>7, <1>3 DEF j
<1> QED
  BY <1>2, <1>3

(* The innermost activation, and those that are left without it. *)
LEMMA PoppedMeans ==
  ASSUME NEW b, NEW V, NEW st \in Seq(Frames), st # <<>>, NEW asked, StackMeans(b, V, st, asked)
  PROVE  /\ FrameMeans(b, V, Head(st)) /\ StackMeans(b, V, Tail(st), asked)
         /\ V[Head(st).val] = Wanted(b, V, Tail(st), asked)
<1>1. /\ Len(st) \in Nat /\ Len(st) > 0 /\ Len(Tail(st)) = Len(st) - 1 /\ Head(st) = st[1]
      /\ \A i \in 1..(Len(st) - 1) : Tail(st)[i] = st[i + 1]
      /\ Tail(st) = <<>> => Len(st) = 1
      /\ Tail(st) # <<>> => Len(st) > 1 /\ Head(Tail(st)) = st[2]
  BY Popped
<1>2. 1 \in 1..Len(st) /\ \A i \in 1..(Len(st) - 1) : i + 1 \in 1..Len(st)
  BY <1>1
<1>3. FrameMeans(b, V, Head(st)) /\ V[Head(st).val] = Wanted(b, V, Tail(st), asked)
  <2>1. FrameMeans(b, V, st[1])
    BY <1>2 DEF StackMeans
  <2>2. V[st[1].val] = IF 1 = Len(st) THEN asked
                       ELSE V[b.op[st[1 + 1].val].args[IF st[1 + 1].at = "lhs" THEN 1 ELSE 2]]
    BY <1>2 DEF StackMeans
  <2>3. 1 + 1 = 2 /\ (Tail(st) = <<>> <=> Len(st) = 1)
    BY <1>1
  <2>4. Tail(st) # <<>> => V[st[1].val] = V[b.op[Head(Tail(st)).val].args[IF Head(Tail(st)).at = "lhs" THEN 1 ELSE 2]]
    BY <2>2, <2>3, <1>1
  <2> QED
    BY <2>1, <2>2, <2>3, <2>4, <1>1 DEF Wanted
<1>4. StackMeans(b, V, Tail(st), asked)
  <2> DEFINE T == Tail(st)
             n == Len(st)
  <2>1. n \in Nat /\ Len(T) = n - 1 /\ \A i \in 1..(n - 1) : T[i] = st[i + 1]
    BY <1>1
  <2>2. \A i \in 1..n : /\ FrameMeans(b, V, st[i])
                       /\ V[st[i].val] = IF i = n THEN asked
                            ELSE V[b.op[st[i + 1].val].args[IF st[i + 1].at = "lhs" THEN 1 ELSE 2]]
    BY DEF StackMeans
  <2> HIDE DEF T, n
  <2>3. ASSUME NEW i \in 1..(n - 1)
        PROVE  /\ FrameMeans(b, V, T[i])
               /\ V[T[i].val] = IF i = n - 1 THEN asked
                                ELSE V[b.op[T[i + 1].val].args[IF T[i + 1].at = "lhs" THEN 1 ELSE 2]]
    <3> DEFINE j == i + 1
    <3>1. j \in 1..n /\ (i = n - 1 <=> j = n) /\ T[i] = st[j]
      BY <2>1
    <3>2. i # n - 1 => T[j] = st[j + 1]
      BY <2>1
    <3>3. /\ FrameMeans(b, V, st[j])
          /\ V[st[j].val] = IF j = n THEN asked ELSE V[b.op[st[j + 1].val].args[IF st[j + 1].at = "lhs" THEN 1 ELSE 2]]
      BY <2>2, <3>1
    <3> HIDE DEF j
    <3>4. V[T[i].val] = IF i = n - 1 THEN asked ELSE V[b.op[T[j].val].args[IF T[j].at = "lhs" THEN 1 ELSE 2]]
      BY <3>1, <3>2, <3>3
    <3> QED
      BY <3>1, <3>3, <3>4 DEF j
  <2>4. StackMeans(b, V, T, asked)
    BY <2>1, <2>3 DEF StackMeans
  <2> QED
    BY <2>4 DEF T
<1> QED
  BY <1>3, <1>4

(* Another innermost activation. *)
LEMMA PushedMeans ==
  ASSUME NEW b, NEW V, NEW T \in Seq(Frames), NEW f \in Frames, NEW asked, StackMeans(b, V, T, asked),
         FrameMeans(b, V, f), V[f.val] = Wanted(b, V, T, asked)
  PROVE  StackMeans(b, V, <<f>> \o T, asked)
<1> DEFINE s == <<f>> \o T
<1>1. /\ Len(s) = Len(T) + 1 /\ s[1] = f /\ \A i \in 1..Len(T) : s[i + 1] = T[i]
  BY Pushed
<1>2. Len(T) \in Nat /\ (T = <<>> <=> Len(T) = 0) /\ (T # <<>> => Head(T) = T[1])
  BY EmptySeq, HeadTailProperties, LenProperties
<1> HIDE DEF s
<1> SUFFICES ASSUME NEW i \in 1..Len(s)
             PROVE  /\ FrameMeans(b, V, s[i])
                    /\ V[s[i].val] = IF i = Len(s) THEN asked
                                     ELSE V[b.op[s[i + 1].val].args[IF s[i + 1].at = "lhs" THEN 1 ELSE 2]]
  BY DEF StackMeans, s
<1>3. CASE i = 1
  <2>1. CASE T = <<>>
    BY <2>1, <1>1, <1>2, <1>3 DEF Wanted
  <2>2. CASE T # <<>>
    <3>1. i # Len(s) /\ 1 \in 1..Len(T) /\ s[i + 1] = T[1] /\ Head(T) = T[1]
      BY <2>2, <1>1, <1>2, <1>3
    <3> QED
      BY <3>1, <2>2, <1>1, <1>3 DEF Wanted
  <2> QED
    BY <2>1, <2>2
<1>4. CASE i # 1
  <2> DEFINE j == i - 1
  <2>1. j \in 1..Len(T) /\ s[i] = T[j] /\ (i = Len(s) <=> j = Len(T)) /\ i = j + 1
    BY <1>1, <1>2, <1>4
  <2>2. j # Len(T) => j + 1 \in 1..Len(T) /\ s[i + 1] = T[j + 1]
    BY <2>1, <1>1, <1>2
  <2> HIDE DEF j
  <2> QED
    BY <2>1, <2>2 DEF StackMeans
<1> QED
  BY <1>3, <1>4

(* Erased operations are as they were. *)
Buried(b, c, ids) ==
  /\ DOMAIN c.op = DOMAIN b.op \cup ids
  /\ \A v \in DOMAIN b.op \ Live(b) : v \notin ids => c.op[v] = b.op[v]

(* New operations have addresses of their own: none comes back to life. *)
LEMMA ErasedKept ==
  ASSUME NEW b, IsBody(b), ErasedOK(b), NEW c, NEW ids, Buried(b, c, ids), ids \cap DOMAIN b.op = {},
         Live(c) = Live(b) \cup ids
  PROVE  ErasedOK(c)
<1>1. PICK m, rank : Ranked(b, rank, m)
  BY DEF ErasedOK
<1>2. Live(b) \subseteq DOMAIN b.op
  BY BlockFacts DEF IsBody
<1>3. DOMAIN c.op \ Live(c) = DOMAIN b.op \ Live(b)
  BY <1>2 DEF Buried
<1>4. \A v \in DOMAIN b.op \ Live(b) : c.op[v] = b.op[v]
  BY DEF Buried
<1>5. Ranked(c, rank, m)
  BY <1>1, <1>3, <1>4 DEF Ranked
<1> QED
  BY <1>5 DEF ErasedOK

(* Another product is erased: it ranks below those that were erased before. *)
LEMMA ErasedMore ==
  ASSUME NEW b, IsBody(b), ErasedOK(b), NEW c, NEW gone, Without(b, c, gone), NEW val, gone \subseteq {val},
         b.op[val].kind = "mul"
  PROVE  ErasedOK(c)
<1>1. PICK m, rank : Ranked(b, rank, m)
  BY DEF ErasedOK
<1>2. c.op = b.op /\ Live(c) = Live(b) \ gone /\ Live(b) \subseteq DOMAIN b.op /\ m \in Nat
  BY <1>1, BlockFacts DEF Without, IsBody, Ranked
<1> DEFINE dead == DOMAIN b.op \ Live(b)
           dead2 == DOMAIN c.op \ Live(c)
           rank2 == [v \in dead2 |-> IF v \in dead THEN rank[v] + 1 ELSE 0]
<1>3. \A v \in dead2 : v \in dead \/ (v = val /\ val \in Live(b))
  BY <1>2
<1>4. \A v \in dead : rank[v] \in 0..m /\ v \in dead2
  BY <1>1, <1>2 DEF Ranked
<1>5. rank2 \in [dead2 -> 0..(m + 1)]
  BY <1>2, <1>4
<1>6. \A v \in dead2 : rank2[v] = IF v \in dead THEN rank[v] + 1 ELSE 0
  OBVIOUS
<1> HIDE DEF rank2
<1>7. \A u \in Live(b) : u \in Live(c) \/ (u \in dead2 /\ rank2[u] = 0)
  BY <1>2, <1>6
<1>8. ASSUME NEW v \in dead2
      PROVE  /\ c.op[v].kind = "mul" /\ DOMAIN c.op[v].args = {1, 2}
             /\ \A k \in {1, 2} : c.op[v].args[k] \in Live(c)
                                  \/ (c.op[v].args[k] \in dead2 /\ rank2[c.op[v].args[k]] < rank2[v])
  <2>1. CASE v \in dead
    <3>1. /\ b.op[v].kind = "mul" /\ DOMAIN b.op[v].args = {1, 2}
          /\ \A k \in {1, 2} : b.op[v].args[k] \in Live(b) \/ (b.op[v].args[k] \in dead /\ rank[b.op[v].args[k]] < rank[v])
      BY <2>1, <1>1 DEF Ranked
    <3>2. rank2[v] = rank[v] + 1 /\ rank2[v] > 0
      BY <2>1, <1>4, <1>6
    <3>3. ASSUME NEW k \in {1, 2}
          PROVE  b.op[v].args[k] \in Live(c) \/ (b.op[v].args[k] \in dead2 /\ rank2[b.op[v].args[k]] < rank2[v])
      <4>1. CASE b.op[v].args[k] \in Live(b)
        BY <4>1, <3>2, <1>7
      <4>2. CASE b.op[v].args[k] \in dead /\ rank[b.op[v].args[k]] < rank[v]
        BY <4>2, <3>2, <2>1, <1>4, <1>6
      <4> QED
        BY <4>1, <4>2, <3>1
    <3> QED
      BY <3>1, <3>3, <1>2
  <2>2. CASE v \notin dead
    <3>1. v = val /\ val \in Live(b) /\ b.op[v].kind = "mul" /\ DOMAIN b.op[v].args = {1, 2}
      BY <2>2, <1>3, Arities DEF Products
    <3>2. \A k \in {1, 2} : Before(b, b.op[v].args[k], v)
      BY <3>1, OperandFacts
    <3>3. \A k \in {1, 2} : b.op[v].args[k] \in Live(b) /\ b.op[v].args[k] # v
      <4>1. IsBlock(b)
        BY DEF IsBody
      <4> QED
        BY <4>1, <3>2, BeforeIsAnOrder DEF Before
    <3>4. \A k \in {1, 2} : b.op[v].args[k] \in Live(c)
      BY <3>1, <3>3, <1>2
    <3> QED
      BY <3>1, <3>4, <1>2
  <2> QED
    BY <2>1, <2>2
<1>9. m + 1 \in Nat
  BY <1>2
<1>10. Ranked(c, rank2, m + 1)
  BY <1>5, <1>8, <1>9 DEF Ranked
<1> QED
  BY <1>10 DEF ErasedOK

(* The other new operations are equations between the two; the members that *)
(* are read hold what they held; and the values of before, with that of the *)
(* new one.                                                                 *)
Equated(ids, operations, new, old) ==
  \A id \in ids : id # new => operations[id] = Operation("eq", <<new, old>>, 0)
SameMembers(b, auxs, auxs2) == \A v \in OfKind(b, "aux") : auxs2[b.op[v].leaf].computed = auxs[b.op[v].leaf].computed
OneMore(c, V, new, value) == [v \in Live(c) |-> IF v = new THEN value ELSE V[v]]

ValueAdded(b, auxs, c, auxs2, ids, operations, old, new, before) ==
  /\ IsBody(b) /\ ErasedOK(b) /\ MembersOK(b, auxs) /\ ErasedOK(c) /\ MembersOK(c, auxs2)
  /\ Inserted(b, c, ids, operations, old, new, before) /\ ids \cap DOMAIN b.op = {} /\ IsValue(b, old)
  /\ new \in ids /\ operations[new].kind \in Expressions
  /\ Equated(ids, operations, new, old) /\ SameMembers(b, auxs, auxs2)

(* A new value in place of an old one, which it is equal to. *)
LEMMA InsertedFollows ==
  ASSUME NEW b, NEW auxs, NEW c, NEW auxs2, NEW ids, NEW operations, NEW old, NEW new, NEW before,
         ValueAdded(b, auxs, c, auxs2, ids, operations, old, new, before),
         NEW inputs, NEW V, V = ValueIn(b, auxs, inputs),
         ValueOf(c, auxs2, inputs, OneMore(c, V, new, V[old]), new) = V[old]
  PROVE  Follows(b, V, c, ValueIn(c, auxs2, inputs)) /\ ValueIn(c, auxs2, inputs)[new] = V[old]
<1>0. /\ IsBody(b) /\ ErasedOK(b) /\ MembersOK(b, auxs) /\ ErasedOK(c) /\ MembersOK(c, auxs2)
      /\ Inserted(b, c, ids, operations, old, new, before) /\ ids \cap DOMAIN b.op = {} /\ IsValue(b, old)
      /\ new \in ids /\ operations[new].kind \in Expressions
      /\ Equated(ids, operations, new, old) /\ SameMembers(b, auxs, auxs2)
  BY DEF ValueAdded
<1> DEFINE V2 == ValueIn(c, auxs2, inputs)
           g == OneMore(c, V, new, V[old])
<1>1. /\ IsBody(c) /\ Live(c) = Live(b) \cup ids /\ DOMAIN b.op \subseteq DOMAIN c.op
      /\ Live(b) \subseteq DOMAIN b.op /\ new \notin Live(b) /\ old \in Live(b) /\ new \in Live(c)
      /\ \A id \in ids : c.op[id] = operations[id]
  BY <1>0, BlockFacts DEF Inserted, IsBody, IsValue
<1>2. \A v \in Live(b) : g[v] = V[v] /\ g[new] = V[old]
  BY <1>0, <1>1 DEF OneMore
<1> HIDE DEF g
<1>3. \A id \in Live(b) :
        /\ c.op[id].kind = b.op[id].kind /\ c.op[id].leaf = b.op[id].leaf
        /\ DOMAIN c.op[id].args = DOMAIN b.op[id].args
        /\ \A k \in DOMAIN b.op[id].args :
             \/ c.op[id].args[k] = b.op[id].args[k]
             \/ c.op[id].args[k] = new /\ b.op[id].args[k] = old
  BY <1>0 DEF Inserted
<1> HIDE DEF V2
<1>4. ASSUME NEW v, IsValue(c, v) PROVE g[v] = ValueOf(c, auxs2, inputs, g, v)
  <2>1. CASE v \in Live(b)
    <3>1. \A k \in DOMAIN b.op[v].args : b.op[v].args[k] \in Live(b)
      BY <1>0, <2>1, OperandFacts DEF Before
    <3>2. \A k \in DOMAIN b.op[v].args : g[c.op[v].args[k]] = V[b.op[v].args[k]]
      BY <1>0, <2>1, <3>1, <1>2, <1>3
    <3>3. b.op[v].kind = "aux" => g[auxs2[c.op[v].leaf].computed] = V[auxs[b.op[v].leaf].computed]
      <4> SUFFICES ASSUME b.op[v].kind = "aux"
                   PROVE  g[auxs2[c.op[v].leaf].computed] = V[auxs[b.op[v].leaf].computed]
        OBVIOUS
      <4>1. v \in OfKind(b, "aux") /\ c.op[v].leaf = b.op[v].leaf
        BY <1>0, <2>1, <1>3 DEF OfKind
      <4>2. auxs[b.op[v].leaf].computed \in Live(b)
        BY <1>0, <4>1 DEF MembersOK, IsValue
      <4>3. auxs2[b.op[v].leaf].computed = auxs[b.op[v].leaf].computed
        BY <1>0, <4>1 DEF SameMembers
      <4> QED
        BY <1>0, <4>1, <4>2, <4>3, <1>2
    <3>4. /\ b.op[v].kind \in Sums \cup Products => DOMAIN b.op[v].args = {1, 2}
          /\ b.op[v].kind = "neg" => DOMAIN b.op[v].args = {1}
      BY <1>0, <2>1, Arities
    <3>5. ValueOf(c, auxs2, inputs, g, v) = ValueOf(b, auxs, inputs, V, v)
      <4>1. c.op[v].kind = b.op[v].kind /\ c.op[v].leaf = b.op[v].leaf
        BY <1>0, <2>1, <1>3
      <4> QED
        BY <1>0, <4>1, <3>2, <3>3, <3>4, ValueIsLocal
    <3>6. V[v] = ValueOf(b, auxs, inputs, V, v)
      BY <1>0, <2>1, <1>1, ValueEquation
    <3> QED
      BY <1>0, <2>1, <3>5, <3>6, <1>2
  <2>2. CASE v = new
    BY <1>0, <2>2, <1>1, <1>2 DEF g
  <2>3. CASE v \notin Live(b) /\ v # new
    BY <1>0, <2>3, <1>1, <1>4 DEF IsValue, Equated, Operation, Expressions, Leaves, Sums, Products
  <2> QED
    BY <1>0, <2>1, <2>2, <2>3
<1>5. \A v : IsValue(c, v) => V2[v] = g[v]
  BY <1>0, <1>1, <1>4, ValueIsUnique DEF V2
<1>6. IsValue(c, new) /\ V2[new] = V[old]
  BY <1>0, <1>1, <1>2, <1>5 DEF IsValue
<1>7. \A v : IsValue(b, v) => V2[v] = V[v]
  BY <1>0, <1>1, <1>2, <1>3, <1>5 DEF IsValue
<1>8. ASSUME NEW id \in Live(b), b.op[id].kind # "contain", NEW k \in DOMAIN b.op[id].args
      PROVE  V2[c.op[id].args[k]] = V[b.op[id].args[k]]
  <2>1. IsValue(b, b.op[id].args[k])
    BY <1>0, <1>8, OperandFacts
  <2> QED
    BY <1>0, <2>1, <1>3, <1>6, <1>7
<1>9. ASSUME NEW id \in Live(c) \ Live(b), c.op[id].kind \in {"eq", "array", "call"}
      PROVE  c.op[id].kind = "eq" /\ c.op[id].leaf = 0 /\ V2[c.op[id].args[1]] = V2[c.op[id].args[2]]
  <2>1. c.op[id] = Operation("eq", <<new, old>>, 0)
    BY <1>0, <1>1, <1>9 DEF Equated, Expressions, Leaves, Sums, Products
  <2>2. c.op[id].args[1] = new /\ c.op[id].args[2] = old /\ c.op[id].kind = "eq" /\ c.op[id].leaf = 0
    BY <1>0, <2>1 DEF Operation
  <2> QED
    BY <1>0, <2>2, <1>6, <1>7
<1>10. Live(c) \cap DOMAIN b.op \subseteq Live(b)
  BY <1>0, <1>1
<1> QED
  BY <1>0, <1>1, <1>3, <1>6, <1>7, <1>8, <1>9, <1>10 DEF Follows, V2

(* A product that is gone. *)
LEMMA WithoutFollows ==
  ASSUME NEW b, IsBody(b), ErasedOK(b), NEW auxs, MembersOK(b, auxs),
         NEW c, ErasedOK(c), MembersOK(c, auxs), NEW inputs, NEW gone, Without(b, c, gone)
  PROVE  Follows(b, ValueIn(b, auxs, inputs), c, ValueIn(c, auxs, inputs))
<1> DEFINE V == ValueIn(b, auxs, inputs)
           V2 == ValueIn(c, auxs, inputs)
<1>1. IsBody(c) /\ c.op = b.op /\ Live(c) \subseteq Live(b) /\ Live(b) \subseteq DOMAIN b.op
  BY BlockFacts DEF Without, IsBody
<1>2. \A v \in DOMAIN b.op : V[v] = ValueOf(b, auxs, inputs, V, v)
  BY ValueEquation
<1> HIDE DEF V
<1>3. \A v : ValueOf(c, auxs, inputs, V, v) = ValueOf(b, auxs, inputs, V, v)
  BY <1>1 DEF ValueOf
<1>4. \A v : IsValue(c, v) => V[v] = ValueOf(c, auxs, inputs, V, v)
  BY <1>1, <1>2, <1>3 DEF IsValue
<1>5. \A v : IsValue(c, v) => V2[v] = V[v]
  BY <1>1, <1>4, ValueIsUnique DEF V2
<1> HIDE DEF V2
<1>6. \A id \in Live(c) : c.op[id].kind # "contain" => \A k \in DOMAIN c.op[id].args : V2[c.op[id].args[k]] = V[c.op[id].args[k]]
  BY <1>1, <1>5, OperandFacts
<1>7. \A v : IsValue(b, v) /\ v \in Live(c) => IsValue(c, v)
  BY <1>1 DEF IsValue
<1> QED
  BY <1>1, <1>5, <1>6, <1>7 DEF Follows, V, V2

(* An operation with other operands of the same values. *)
LEMMA RearguedFollows ==
  ASSUME NEW b, IsBody(b), ErasedOK(b), NEW auxs, MembersOK(b, auxs),
         NEW c, ErasedOK(c), MembersOK(c, auxs), NEW inputs, NEW id \in Live(b), Reargued(b, c, id),
         NEW V, V = ValueIn(b, auxs, inputs),
         \A k \in DOMAIN b.op[id].args : V[c.op[id].args[k]] = V[b.op[id].args[k]]
  PROVE  Follows(b, V, c, ValueIn(c, auxs, inputs))
<1> DEFINE V2 == ValueIn(c, auxs, inputs)
<1>1. /\ IsBody(c) /\ Live(c) = Live(b) /\ DOMAIN c.op = DOMAIN b.op /\ Live(b) \subseteq DOMAIN b.op
      /\ \A x \in Live(b) : /\ c.op[x].kind = b.op[x].kind /\ c.op[x].leaf = b.op[x].leaf
                            /\ DOMAIN c.op[x].args = DOMAIN b.op[x].args
                            /\ x # id => c.op[x] = b.op[x]
  BY BlockFacts DEF Reargued, IsBody
<1>2. \A x \in Live(b) : \A k \in DOMAIN b.op[x].args : V[c.op[x].args[k]] = V[b.op[x].args[k]]
  BY <1>1
<1> HIDE DEF V2
<1>3. ASSUME NEW v, IsValue(c, v) PROVE V[v] = ValueOf(c, auxs, inputs, V, v)
  <2>1. v \in Live(b) /\ V[v] = ValueOf(b, auxs, inputs, V, v)
    BY <1>1, <1>3, ValueEquation DEF IsValue
  <2>2. /\ b.op[v].kind \in Sums \cup Products => DOMAIN b.op[v].args = {1, 2}
        /\ b.op[v].kind = "neg" => DOMAIN b.op[v].args = {1}
    BY <2>1, Arities
  <2>3. ValueOf(c, auxs, inputs, V, v) = ValueOf(b, auxs, inputs, V, v)
    BY <2>1, <2>2, <1>1, <1>2, ValueIsLocal
  <2> QED
    BY <2>1, <2>3
<1>4. \A v : IsValue(c, v) => V2[v] = V[v]
  BY <1>1, <1>3, ValueIsUnique DEF V2
<1>5. \A v : IsValue(b, v) => IsValue(c, v)
  BY <1>1 DEF IsValue
<1>6. \A x \in Live(b) : b.op[x].kind # "contain" => \A k \in DOMAIN b.op[x].args : V2[c.op[x].args[k]] = V[b.op[x].args[k]]
  <2>1. \A x \in Live(b) : b.op[x].kind # "contain" => \A k \in DOMAIN c.op[x].args : IsValue(c, c.op[x].args[k])
    BY <1>1, OperandFacts
  <2> QED
    BY <2>1, <1>1, <1>2, <1>4
<1> QED
  BY <1>1, <1>4, <1>5, <1>6 DEF Follows, V2

(* Two steps in turn, of which the second adds nothing. *)
LEMMA FollowsOn ==
  ASSUME NEW b, NEW V, NEW c1, IsBody(c1), NEW V1, Follows(b, V, c1, V1), NEW c, NEW V2, Follows(c1, V1, c, V2),
         Live(c) \subseteq Live(c1)
  PROVE  Follows(b, V, c, V2)
<1>1. DOMAIN b.op \subseteq DOMAIN c.op /\ Live(c) \cap DOMAIN b.op \subseteq Live(b)
  BY DEF Follows
<1>2. \A v : IsValue(b, v) /\ v \in Live(c) => V2[v] = V[v]
  BY DEF Follows, IsValue
<1>3. \A id \in Live(b) : id \in Live(c) =>
        /\ c.op[id].kind = b.op[id].kind /\ c.op[id].leaf = b.op[id].leaf
        /\ DOMAIN c.op[id].args = DOMAIN b.op[id].args
        /\ b.op[id].kind # "contain" => \A k \in DOMAIN b.op[id].args : V2[c.op[id].args[k]] = V[b.op[id].args[k]]
  BY DEF Follows
<1>4. ASSUME NEW id \in Live(c) \ Live(b), c.op[id].kind \in {"eq", "array", "call"}
      PROVE  c.op[id].kind = "eq" /\ c.op[id].leaf = 0 /\ V2[c.op[id].args[1]] = V2[c.op[id].args[2]]
  <2>1. /\ id \in Live(c1) /\ c.op[id].kind = c1.op[id].kind /\ c.op[id].leaf = c1.op[id].leaf
        /\ c1.op[id].kind # "contain"
        /\ \A k \in DOMAIN c1.op[id].args : V2[c.op[id].args[k]] = V1[c1.op[id].args[k]]
    BY <1>4 DEF Follows
  <2>2. c1.op[id].kind = "eq" /\ c1.op[id].leaf = 0 /\ V1[c1.op[id].args[1]] = V1[c1.op[id].args[2]]
    BY <2>1, <1>4 DEF Follows
  <2>3. 1 \in DOMAIN c1.op[id].args /\ 2 \in DOMAIN c1.op[id].args
    BY <2>1, <2>2, Arities
  <2> QED
    BY <2>1, <2>2, <2>3
<1> QED
  BY <1>1, <1>2, <1>3, <1>4 DEF Follows

-----------------------------------------------------------------------------
(* What every value stands for *)

(* The value that the operand being lowered has in the program. *)
Asked(p, V0, cur, sl) == V0[p.op[cur].args[Min(sl)]]
Meaning(b, V, p, V0, rw, st, ret, ph, cur, sl, operands) ==
  /\ UsersMean(b, V, p, V0)
  /\ CacheMeans(b, V, rw)
  /\ StackMeans(b, V, st, Asked(p, V0, cur, sl))
  /\ ret # None => V[ret] = Wanted(b, V, st, Asked(p, V0, cur, sl))
  /\ ph = "calls" /\ cur # None => CopiesMean(b, V, p, V0, cur, operands)

Now(inputs) == ValueIn(body, auxAssignments, inputs)
AtFirst(inputs) == ValueIn(program, <<>>, inputs)

(* Whatever the pass has in hand has the value that it is taken for. *)
Faithful ==
  /\ ErasedOK(body)
  /\ \A inputs :
       Meaning(body, Now(inputs), program, AtFirst(inputs), rewrites, stack, returned, phase, current, slots, call.operands)

(* The read of a member comes after the value that it holds. *)
LEMMA MembersAre ==
  ASSUME NEW b, NEW memo, NEW bound, NEW aux, AuxOK(b, memo, bound, aux)
  PROVE  MembersOK(b, aux)
<1> SUFFICES ASSUME NEW v \in OfKind(b, "aux")
             PROVE  IsValue(b, aux[b.op[v].leaf].computed) /\ Before(b, aux[b.op[v].leaf].computed, v)
  BY DEF MembersOK
<1>1. b.op[v].leaf \in DOMAIN aux /\ aux[b.op[v].leaf].aux = v
  BY DEF AuxOK, AuxKnown
<1>2. AuxRead(b, memo, bound, aux[b.op[v].leaf])
  BY <1>1 DEF AuxOK
<1> QED
  BY <1>1, <1>2 DEF AuxRead, Held

(* A step keeps what values stand for when they mean the same in its block. *)
LEMMA FaithfulStep ==
  ASSUME Faithful, program' = program, ErasedOK(body'),
         \A inputs :
           Meaning(body', ValueIn(body', auxAssignments', inputs), program, AtFirst(inputs), rewrites',
                   stack', returned', phase', current', slots', call'.operands)
  PROVE  Faithful'
<1>1. \A inputs : AtFirst(inputs)' = AtFirst(inputs)
  BY DEF AtFirst
<1>2. \A inputs : Now(inputs)' = ValueIn(body', auxAssignments', inputs)
  BY DEF Now
<1> QED
  BY <1>1, <1>2 DEF Faithful

(* A step that leaves the block alone. *)
LEMMA QuietFaithful ==
  ASSUME Faithful, program' = program, body' = body, auxAssignments' = auxAssignments,
         \A inputs :
           LET V == Now(inputs)
           IN  Meaning(body, V, program, AtFirst(inputs), rewrites, stack, returned, phase, current, slots, call.operands)
                 => Meaning(body, V, program, AtFirst(inputs), rewrites', stack', returned', phase', current', slots',
                            call'.operands)
  PROVE  Faithful'
<1>1. \A inputs : ValueIn(body', auxAssignments', inputs) = Now(inputs)
  BY DEF Now
<1>2. ErasedOK(body')
  BY DEF Faithful
<1>3. \A inputs :
        Meaning(body', ValueIn(body', auxAssignments', inputs), program, AtFirst(inputs), rewrites',
                stack', returned', phase', current', slots', call'.operands)
  BY <1>1 DEF Faithful
<1> QED
  BY <1>2, <1>3, FaithfulStep

(* A value that is returned is that of the activation. *)
LEMMA ReturnMeans ==
  ASSUME Inv, stack # <<>>, NEW V, NEW V0, NEW ret,
         Meaning(body, V, program, V0, rewrites, stack, returned, phase, current, slots, call.operands),
         V[ret] = V[Top.val], NEW rw, CacheMeans(body, V, rw)
  PROVE  Meaning(body, V, program, V0, rw, Tail(stack), ret, phase, current, slots, call.operands)
<1>1. stack \in Seq(Frames)
  BY DEF Inv, StackOK
<1> DEFINE asked == Asked(program, V0, current, slots)
<1>2. StackMeans(body, V, stack, asked)
  BY DEF Meaning
<1> HIDE DEF asked
<1>3. StackMeans(body, V, Tail(stack), asked) /\ V[Top.val] = Wanted(body, V, Tail(stack), asked)
  BY <1>1, <1>2, PoppedMeans DEF Top
<1> QED
  BY <1>3 DEF Meaning, asked

(* Another innermost activation, for the same value. *)
LEMMA TopMeans ==
  ASSUME Inv, stack # <<>>, NEW V, NEW V0,
         Meaning(body, V, program, V0, rewrites, stack, returned, phase, current, slots, call.operands),
         NEW g \in Frames, g.val = Top.val, FrameMeans(body, V, g)
  PROVE  /\ Meaning(body, V, program, V0, rewrites, <<g>> \o Tail(stack), None, phase, current, slots, call.operands)
         /\ <<g>> \o Tail(stack) \in Seq(Frames) /\ <<g>> \o Tail(stack) # <<>> /\ Head(<<g>> \o Tail(stack)) = g
<1>1. stack \in Seq(Frames)
  BY DEF Inv, StackOK
<1> DEFINE asked == Asked(program, V0, current, slots)
           T == Tail(stack)
<1>2. StackMeans(body, V, stack, asked) /\ T \in Seq(Frames)
  BY <1>1, Popped DEF Meaning
<1> HIDE DEF asked
<1>3. StackMeans(body, V, T, asked) /\ V[Top.val] = Wanted(body, V, T, asked)
  BY <1>1, <1>2, PoppedMeans DEF Top
<1> HIDE DEF T
<1>4. StackMeans(body, V, <<g>> \o T, asked)
  BY <1>2, <1>3, PushedMeans
<1>5. <<g>> \o T \in Seq(Frames) /\ <<g>> \o T # <<>> /\ Head(<<g>> \o T) = g
  BY <1>2, Pushed
<1> QED
  BY <1>4, <1>5 DEF Meaning, asked, T

(* An operand is lowered next. *)
LEMMA DescentMeans ==
  ASSUME Inv, stack # <<>>, NEW V, NEW V0,
         Meaning(body, V, program, V0, rewrites, stack, returned, phase, current, slots, call.operands),
         NEW g \in Frames, g.val = Top.val, FrameMeans(body, V, g), NEW x \in Nat,
         x = body.op[Top.val].args[IF g.at = "lhs" THEN 1 ELSE 2]
  PROVE  Meaning(body, V, program, V0, rewrites, <<Frame(x, Top.val), g>> \o Tail(stack), None, phase, current, slots,
                 call.operands)
<1> DEFINE f == Frame(x, Top.val)
           T == Tail(stack)
           s == <<g>> \o T
           asked == Asked(program, V0, current, slots)
<1>1. /\ Meaning(body, V, program, V0, rewrites, s, None, phase, current, slots, call.operands)
      /\ s \in Seq(Frames) /\ s # <<>> /\ Head(s) = g
  BY TopMeans
<1>2. T \in Seq(Frames) /\ Top.val \in Nat
  BY TopFacts DEF Frames
<1>3. f \in Frames /\ f.at = "entry" /\ f.val = x
  BY <1>2 DEF Frame, Frames, None
<1> HIDE DEF f, T
<1>4. <<f, g>> \o T = <<f>> \o s
  BY <1>2, <1>3, TwoPushed
<1> HIDE DEF s
<1>5. FrameMeans(body, V, f)
  BY <1>3 DEF FrameMeans
<1>6. V[f.val] = Wanted(body, V, s, asked)
  BY <1>1, <1>3 DEF Wanted
<1>7. StackMeans(body, V, s, asked)
  BY <1>1 DEF Meaning
<1> HIDE DEF asked
<1>8. StackMeans(body, V, <<f>> \o s, asked)
  BY <1>1, <1>3, <1>5, <1>6, <1>7, PushedMeans
<1>9. Meaning(body, V, program, V0, rewrites, <<f>> \o s, None, phase, current, slots, call.operands)
  BY <1>1, <1>8 DEF Meaning, asked
<1> QED
  BY <1>4, <1>9 DEF f, T

(* Each step of lowerExpression keeps what values stand for. *)
LEMMA ReturnCachedFaithful ==
  ASSUME Inv, Faithful, ReturnCached
  PROVE  Faithful'
<1> DEFINE w == rewrites[Top.val]
<1>1. /\ stack # <<>> /\ stack' = Tail(stack) /\ returned' = w /\ rewrites' = rewrites
      /\ program' = program /\ body' = body /\ auxAssignments' = auxAssignments
      /\ phase' = phase /\ current' = current /\ slots' = slots /\ call' = call
      /\ Top.val \in DOMAIN rewrites /\ w \in Live(body)
  BY DEF ReturnCached, Return, CallersUnchanged, HasCachedRewrite, ProperlyDominates
<1>2. IsValue(body, Top.val) /\ IsValue(body, w)
  BY <1>1, TopFacts DEF Inv, RewritesOK, Held
<1>3. ASSUME NEW V, NEW V0,
             Meaning(body, V, program, V0, rewrites, stack, returned, phase, current, slots, call.operands)
      PROVE  Meaning(body, V, program, V0, rewrites, Tail(stack), w, phase, current, slots, call.operands)
  <2>1. V[w] = V[Top.val] /\ CacheMeans(body, V, rewrites)
    BY <1>1, <1>2, <1>3 DEF Meaning, CacheMeans
  <2> HIDE DEF w
  <2> QED
    BY <2>1, <1>1, <1>3, ReturnMeans
<1> HIDE DEF w
<1> QED
  BY <1>1, <1>3, QuietFaithful

LEMMA ReturnUnchangedFaithful ==
  ASSUME Inv, Faithful, ReturnUnchanged
  PROVE  Faithful'
<1> DEFINE rw == Overlay(rewrites, [v \in {Top.val} |-> Top.val])
<1>1. /\ stack # <<>> /\ stack' = Tail(stack) /\ returned' = Top.val /\ rewrites' = rw
      /\ program' = program /\ body' = body /\ auxAssignments' = auxAssignments
      /\ phase' = phase /\ current' = current /\ slots' = slots /\ call' = call
  BY DEF ReturnUnchanged, Return, CallersUnchanged, IdentityIfAbsent
<1>2. Top.val \in DOMAIN body.op
  <2>1. IsBody(body) /\ Top.val \in Live(body)
    BY <1>1, TopFacts DEF Inv
  <2> QED
    BY <2>1, LiveIsSome
<1>3. ASSUME NEW V, NEW V0,
             Meaning(body, V, program, V0, rewrites, stack, returned, phase, current, slots, call.operands)
      PROVE  Meaning(body, V, program, V0, rw, Tail(stack), Top.val, phase, current, slots, call.operands)
  <2>1. CacheMeans(body, V, rw)
    BY <1>2, <1>3 DEF Meaning, CacheMeans, Overlay
  <2> HIDE DEF rw
  <2> QED
    BY <2>1, <1>1, <1>3, ReturnMeans
<1> HIDE DEF rw
<1> QED
  BY <1>1, <1>3, QuietFaithful

LEMMA LowerLhsFaithful ==
  ASSUME Inv, Faithful, LowerLhs
  PROVE  Faithful'
<1> DEFINE x == body.op[Top.val].args[1]
           g == [Top EXCEPT !.at = "lhs"]
<1>1. /\ stack # <<>> /\ Top.at = "entry" /\ body.op[Top.val].kind \in LoweredRoots
      /\ program' = program /\ body' = body /\ auxAssignments' = auxAssignments /\ rewrites' = rewrites
      /\ stack' = <<Frame(x, Top.val), g>> \o Tail(stack) /\ returned' = returned
      /\ phase' = phase /\ current' = current /\ slots' = slots /\ call' = call
  BY DEF LowerLhs, Call, CallersUnchanged
<1>2. Top \in Frames /\ Top.val \in Live(body) /\ returned = None /\ IsBody(body)
  BY TopFacts, <1>1 DEF Inv
<1>3. g \in Frames /\ g.val = Top.val /\ g.at = "lhs"
  BY <1>2 DEF Frames
<1>4. x \in Nat
  <2>1. 1 \in DOMAIN body.op[Top.val].args
    BY <1>1, <1>2, Arities DEF LoweredRoots, Sums, Products
  <2> QED
    BY <2>1, <1>2, OperandFacts
<1>5. x = body.op[Top.val].args[IF g.at = "lhs" THEN 1 ELSE 2]
  BY <1>3
<1> HIDE DEF g, x
<1>6. ASSUME NEW V, NEW V0,
             Meaning(body, V, program, V0, rewrites, stack, returned, phase, current, slots, call.operands)
      PROVE  Meaning(body, V, program, V0, rewrites, <<Frame(x, Top.val), g>> \o Tail(stack), None,
                     phase, current, slots, call.operands)
  <2>1. FrameMeans(body, V, g)
    BY <1>3 DEF FrameMeans
  <2> QED
    BY <2>1, <1>1, <1>3, <1>4, <1>5, <1>6, DescentMeans
<1> QED
  BY <1>1, <1>2, <1>6, QuietFaithful

LEMMA LowerRhsFaithful ==
  ASSUME Inv, Faithful, LowerRhs
  PROVE  Faithful'
<1> DEFINE x == body.op[Top.val].args[2]
           g == [Top EXCEPT !.at = "rhs", !.lhs = returned]
<1>1. /\ stack # <<>> /\ Top.at = "lhs" /\ returned # None /\ body.op[Top.val].kind # "neg"
      /\ program' = program /\ body' = body /\ auxAssignments' = auxAssignments /\ rewrites' = rewrites
      /\ stack' = <<Frame(x, Top.val), g>> \o Tail(stack) /\ returned' = None
      /\ phase' = phase /\ current' = current /\ slots' = slots /\ call' = call
  BY DEF LowerRhs, CallersUnchanged
<1>2. /\ Top \in Frames /\ Top.val \in Live(body) /\ IsBody(body) /\ FrameOK(body, degreeMemo, maxDegree, Top)
      /\ Held(body, degreeMemo, maxDegree, returned)
  BY TopFacts, <1>1 DEF Inv
<1>3. returned \in Nat
  BY <1>2, LiveIsSome DEF Held, IsValue
<1>4. g \in Frames /\ g.val = Top.val /\ g.at = "rhs" /\ g.lhs = returned
  BY <1>2, <1>3 DEF Frames
<1>5. x \in Nat
  <2>1. 2 \in DOMAIN body.op[Top.val].args
    BY <1>1, <1>2, Arities DEF FrameOK, LoweredRoots, Sums, Products
  <2> QED
    BY <2>1, <1>2, OperandFacts
<1>6. x = body.op[Top.val].args[IF g.at = "lhs" THEN 1 ELSE 2]
  BY <1>4
<1> HIDE DEF g, x
<1>7. ASSUME NEW V, NEW V0,
             Meaning(body, V, program, V0, rewrites, stack, returned, phase, current, slots, call.operands)
      PROVE  Meaning(body, V, program, V0, rewrites, <<Frame(x, Top.val), g>> \o Tail(stack), None,
                     phase, current, slots, call.operands)
  <2>1. V[returned] = V[body.op[Top.val].args[1]]
    BY <1>1, <1>7 DEF Meaning, Wanted, Top
  <2>2. FrameMeans(body, V, g)
    BY <2>1, <1>4 DEF FrameMeans
  <2> QED
    BY <2>2, <1>1, <1>4, <1>5, <1>6, <1>7, DescentMeans
<1> QED
  BY <1>1, <1>7, QuietFaithful

LEMMA BeginProductFaithful ==
  ASSUME Inv, Faithful, BeginProduct
  PROVE  Faithful'
<1> DEFINE before == Following(body, Top.val)
           e == Degree[Top.lhs] + Degree[returned] > maxDegree
           g == [Top EXCEPT !.at = "factor", !.rhs = returned, !.before = before, !.eraseMul = e]
<1>1. /\ stack # <<>> /\ Top.at = "rhs" /\ returned # None
      /\ program' = program /\ body' = body /\ auxAssignments' = auxAssignments /\ rewrites' = rewrites
      /\ stack' = <<g>> \o Tail(stack) /\ returned' = None
      /\ phase' = phase /\ current' = current /\ slots' = slots /\ call' = call
  BY DEF BeginProduct, CallersUnchanged
<1>2. /\ Top \in Frames /\ Top.val \in Live(body) /\ IsBody(body) /\ IsBlock(body)
      /\ Held(body, degreeMemo, maxDegree, returned) /\ Before(body, Top.val, Top.useOp)
  BY TopFacts, <1>1 DEF Inv, IsBody
<1>3. before \in Nat /\ returned \in Nat
  BY <1>2, FollowingFacts, LiveIsSome DEF Before, Held, IsValue
<1>4. e \in BOOLEAN
  OBVIOUS
<1> HIDE DEF before, e
<1>5. g \in Frames /\ g.val = Top.val /\ g.at = "factor" /\ g.lhs = Top.lhs /\ g.rhs = returned
  BY <1>2, <1>3, <1>4 DEF Frames
<1> HIDE DEF g
<1>6. ASSUME NEW V, NEW V0,
             Meaning(body, V, program, V0, rewrites, stack, returned, phase, current, slots, call.operands)
      PROVE  Meaning(body, V, program, V0, rewrites, <<g>> \o Tail(stack), None, phase, current, slots, call.operands)
  <2>1. V[returned] = V[body.op[Top.val].args[2]]
    BY <1>1, <1>6 DEF Meaning, Wanted, Top
  <2>2. V[Top.lhs] = V[body.op[Top.val].args[1]]
    <3>1. stack \in Seq(Frames) /\ StackMeans(body, V, stack, Asked(program, V0, current, slots))
      BY <1>6 DEF Inv, StackOK, Meaning
    <3>2. FrameMeans(body, V, Top)
      BY <3>1, <1>1, PoppedMeans DEF Top
    <3> QED
      BY <3>2, <1>1 DEF FrameMeans
  <2>3. FrameMeans(body, V, g)
    BY <2>1, <2>2, <1>5 DEF FrameMeans
  <2> QED
    BY <2>3, <1>1, <1>5, <1>6, TopMeans
<1> QED
  BY <1>1, <1>6, QuietFaithful

-----------------------------------------------------------------------------
(* The steps that change the block keep what values stand for *)

(* Inserting, replacing and erasing leave erased operations alone. *)
LEMMA InsertBuries ==
  ASSUME NEW b, NEW b1, DOMAIN b1.op = DOMAIN b.op, \A v \in DOMAIN b.op \ Live(b) : b1.op[v] = b.op[v],
         NEW ids, NEW operations, NEW before
  PROVE  Buried(b, Insert(b1, ids, operations, before), DOMAIN operations)
<1>1. Insert(b1, ids, operations, before).op = Overlay(operations, b1.op)
  BY DEF Insert
<1>2. /\ DOMAIN Overlay(operations, b1.op) = DOMAIN operations \cup DOMAIN b1.op
      /\ \A v \in DOMAIN b1.op : v \notin DOMAIN operations => Overlay(operations, b1.op)[v] = b1.op[v]
  BY DEF Overlay
<1> QED
  BY <1>1, <1>2 DEF Buried

LEMMA ReplaceBuries ==
  ASSUME NEW b, IsBlock(b), NEW old, NEW new, NEW users, users \subseteq Live(b)
  PROVE  LET c == ReplaceIn(b, old, new, users)
         IN  DOMAIN c.op = DOMAIN b.op /\ \A v \in DOMAIN b.op \ Live(b) : c.op[v] = b.op[v]
<1> DEFINE c == ReplaceIn(b, old, new, users)
           o == b.op
           e == [id \in DOMAIN o |-> IF id \in users THEN [o[id] EXCEPT !.args = ReplaceAll(@, old, new)] ELSE o[id]]
<1>1. b = [block |-> b.block, op |-> o]
  BY BlockFacts
<1>2. c = [b EXCEPT !.op = e]
  BY DEF ReplaceIn
<1>3. c.op = e
  <2> HIDE DEF e, c, o
  <2> QED
    BY <1>1, <1>2
<1>4. DOMAIN e = DOMAIN o /\ \A v \in DOMAIN o : v \notin users => e[v] = o[v]
  OBVIOUS
<1> HIDE DEF c, e
<1> QED
  BY <1>3, <1>4 DEF c

LEMMA SubsequentBuries ==
  ASSUME NEW b, IsBlock(b), NEW old, NEW new, NEW before \in Live(b)
  PROVE  LET c == ReplaceSubsequentUsesWith(b, old, new, before)
         IN  DOMAIN c.op = DOMAIN b.op /\ \A v \in DOMAIN b.op \ Live(b) : c.op[v] = b.op[v]
<1> DEFINE users == ToSet(SubSeq(b.block, Index(b, before), Len(b.block)))
<1>1. users \subseteq Live(b)
  <2>1. Index(b, before) \in 1..Len(b.block) /\ Len(b.block) \in Nat
    BY IndexFacts, BlockFacts
  <2>2. \A v \in users : \E i \in 1..Len(b.block) : v = b.block[i]
    <3> DEFINE s == b.block
               i == Index(b, before)
               n == Len(b.block)
    <3>1. s \in Seq(DOMAIN b.op) /\ i \in 1..n /\ n \in Nat /\ n = Len(s)
      BY <2>1, BlockFacts
    <3> HIDE DEF s, i, n
    <3>2. \A v \in ToSet(SubSeq(s, i, n)) : \E j \in 1..n : v = s[j]
      BY <3>1, SubSeqProperties DEF ToSet
    <3> QED
      BY <3>2 DEF s, i, n
  <2> HIDE DEF users
  <2> QED
    BY <2>2, BlockFacts
<1> HIDE DEF users
<1>2. /\ DOMAIN ReplaceIn(b, old, new, users).op = DOMAIN b.op
      /\ \A v \in DOMAIN b.op \ Live(b) : ReplaceIn(b, old, new, users).op[v] = b.op[v]
  BY <1>1, ReplaceBuries
<1>3. ReplaceSubsequentUsesWith(b, old, new, before) = ReplaceIn(b, old, new, users)
  BY Zenon DEF users, ReplaceSubsequentUsesWith
<1> QED
  BY <1>2, <1>3

(* What the new block is for those that wait for the innermost activation.  *)
LEMMA FollowsMeans ==
  ASSUME Inv, NEW V, NEW V0, NEW c, NEW V2, Follows(body, V, c, V2),
         Meaning(body, V, program, V0, rewrites, stack, returned, phase, current, slots, call.operands),
         NEW m
  PROVE  /\ UsersMean(c, V2, program, V0) /\ CacheMeans(c, V2, rewrites)
         /\ phase = "calls" /\ current # None => CopiesMean(c, V2, program, V0, current, call.operands)
         /\ stack # <<>> /\ StackOK(c, m, maxDegree, Tail(stack), current) =>
              /\ StackMeans(c, V2, Tail(stack), Asked(program, V0, current, slots))
              /\ Wanted(c, V2, Tail(stack), Asked(program, V0, current, slots)) = V[Top.val]
<1>1. UsersMean(c, V2, program, V0)
  BY UsersFollow DEF Inv, Meaning
<1>2. CacheMeans(c, V2, rewrites)
  BY CacheFollows DEF Inv, RewritesOK, Meaning
<1>3. phase = "calls" /\ current # None => CopiesMean(c, V2, program, V0, current, call.operands)
  BY CopiesFollow DEF Meaning
<1>4. ASSUME stack # <<>>, StackOK(c, m, maxDegree, Tail(stack), current)
      PROVE  /\ StackMeans(c, V2, Tail(stack), Asked(program, V0, current, slots))
             /\ Wanted(c, V2, Tail(stack), Asked(program, V0, current, slots)) = V[Top.val]
  <2> DEFINE T == Tail(stack)
             asked == Asked(program, V0, current, slots)
  <2>1. stack \in Seq(Frames) /\ StackMeans(body, V, stack, asked) /\ IsBody(body)
    BY DEF Inv, StackOK, Meaning
  <2> HIDE DEF asked
  <2>2. StackMeans(body, V, T, asked) /\ V[Top.val] = Wanted(body, V, T, asked)
    BY <1>4, <2>1, PoppedMeans DEF Top
  <2>3. T \in Seq(Frames) /\ StackOK(body, degreeMemo, maxDegree, T, current) /\ Suspended(T)
    BY <1>4, TopFacts
  <2>4. \A i \in 1..Len(T) : /\ T[i].at \in {"lhs", "rhs"} /\ FrameOK(c, m, maxDegree, T[i])
                             /\ FrameOK(body, degreeMemo, maxDegree, T[i])
    BY <1>4, <2>3 DEF StackOK, Suspended
  <2> HIDE DEF T
  <2>5. \A i \in 1..Len(T) : /\ T[i].val \in Live(c) /\ (T[i].at \in {"rhs", "factor"} => T[i].lhs \in Live(c))
                             /\ (T[i].at = "factor" => T[i].rhs \in Live(c))
    BY <2>4 DEF FrameOK, Held, IsValue
  <2>6. StackMeans(c, V2, T, asked)
    BY <2>1, <2>2, <2>3, <2>5, StackFollows
  <2>7. Wanted(c, V2, T, asked) = Wanted(body, V, T, asked)
    <3>1. CASE T = <<>>
      BY <3>1 DEF Wanted
    <3>2. CASE T # <<>>
      <4> DEFINE f == Head(T)
                 x == Head(T).val
                 k == IF Head(T).at = "lhs" THEN 1 ELSE 2
      <4>1. Head(T) = T[1] /\ 1 \in 1..Len(T)
        BY <2>3, <3>2, Popped
      <4>2. f.at \in {"lhs", "rhs"} /\ FrameOK(body, degreeMemo, maxDegree, f) /\ x \in Live(c)
        BY <2>4, <2>5, <4>1
      <4>3. x \in Live(body) /\ body.op[x].kind # "contain" /\ k \in DOMAIN body.op[x].args
        BY <2>1, <4>2, Arities DEF FrameOK, IsValue, LoweredRoots, Sums, Products
      <4> HIDE DEF f, k
      <4>4. V2[c.op[x].args[k]] = V[body.op[x].args[k]]
        BY <4>2, <4>3 DEF Follows
      <4> QED
        BY <4>4, <3>2 DEF Wanted, k
    <3> QED
      BY <3>1, <3>2
  <2> QED
    BY <2>2, <2>6, <2>7 DEF T, asked
<1> QED
  BY <1>1, <1>2, <1>3, <1>4

(* A value for an old one is added to the cache. *)
LEMMA CacheGrows ==
  ASSUME NEW b, NEW V, NEW rw, CacheMeans(b, V, rw), NEW x \in DOMAIN b.op, NEW v,
         IsValue(b, x) /\ IsValue(b, v) => V[v] = V[x]
  PROVE  CacheMeans(b, V, Put(rw, x, v)) /\ CacheMeans(b, V, Overlay(rw, [z \in {x} |-> v]))
<1>1. CacheMeans(b, V, Put(rw, x, v))
  BY DEF CacheMeans, Put
<1>2. CacheMeans(b, V, Overlay(rw, [z \in {x} |-> v]))
  BY DEF CacheMeans, Overlay
<1> QED
  BY <1>1, <1>2

(* The operands of an operation are set to others of the same values. *)
LEMMA RearguedFaithful ==
  ASSUME Inv, Faithful, NEW id \in Live(body), NEW c, Reargued(body, c, id),
         \A x \in DOMAIN body.op : x # id => c.op[x] = body.op[x], MembersOK(c, auxAssignments)
  PROVE  /\ ErasedOK(c)
         /\ \A inputs :
              (\A k \in DOMAIN body.op[id].args : Now(inputs)[c.op[id].args[k]] = Now(inputs)[body.op[id].args[k]])
                => Follows(body, Now(inputs), c, ValueIn(c, auxAssignments, inputs))
<1>1. IsBody(body) /\ ErasedOK(body) /\ MembersOK(body, auxAssignments)
  BY MembersAre DEF Inv, Faithful
<1>2. Buried(body, c, {}) /\ {} \cap DOMAIN body.op = {} /\ Live(c) = Live(body) \cup {}
  BY DEF Buried, Reargued
<1>3. ErasedOK(c)
  BY <1>1, <1>2, ErasedKept
<1>4. ASSUME NEW inputs,
             \A k \in DOMAIN body.op[id].args : Now(inputs)[c.op[id].args[k]] = Now(inputs)[body.op[id].args[k]]
      PROVE  Follows(body, Now(inputs), c, ValueIn(c, auxAssignments, inputs))
  <2> DEFINE V == Now(inputs)
  <2>1. V = ValueIn(body, auxAssignments, inputs)
    BY DEF Now
  <2>2. \A k \in DOMAIN body.op[id].args : V[c.op[id].args[k]] = V[body.op[id].args[k]]
    BY <1>4
  <2> HIDE DEF V
  <2>3. Follows(body, V, c, ValueIn(c, auxAssignments, inputs))
    BY <1>1, <1>3, <2>1, <2>2, RearguedFollows
  <2> QED
    BY <2>3 DEF V
<1> QED
  BY <1>3, <1>4

(* A sum or a negation gets lowered operands of the same values. *)
LEMMA ReturnRootFaithful ==
  ASSUME Inv, Inv', Faithful, ReturnRoot
  PROVE  Faithful'
<1> DEFINE args == IF Top.at = "lhs" THEN <<returned>> ELSE <<Top.lhs, returned>>
           c == SetArgs(body, Top.val, args)
           rw == Overlay(rewrites, [v \in {Top.val} |-> Top.val])
           m == degreeMemo'
           val == Top.val
<1>1. /\ stack # <<>> /\ returned # None
      /\ \/ Top.at = "rhs" /\ body.op[Top.val].kind \in Sums
         \/ Top.at = "lhs" /\ body.op[Top.val].kind = "neg"
      /\ body' = c /\ rewrites' = rw /\ auxAssignments' = auxAssignments /\ program' = program
      /\ stack' = Tail(stack) /\ returned' = Top.val
      /\ maxDegree' = maxDegree /\ phase' = phase /\ current' = current /\ slots' = slots /\ call' = call
  BY DEF ReturnRoot, IdentityIfAbsent, Return, CallersUnchanged
<1>2. /\ FrameOK(body, degreeMemo, maxDegree, Top) /\ val \in Live(body) /\ IsValue(body, val)
      /\ Held(body, degreeMemo, maxDegree, returned) /\ Before(body, returned, val)
  BY TopFacts, <1>1
<1>3. IsBody(body) /\ IsBlock(body)
  BY DEF Inv, IsBody
<1>4. StackOK(c, m, maxDegree, Tail(stack), current) /\ AuxOK(c, m, maxDegree, auxAssignments)
  BY <1>1 DEF Inv
<1>5. MembersOK(c, auxAssignments)
  BY <1>4, MembersAre
<1>6. returned \in Nat /\ IsValue(body, returned)
  BY <1>2, <1>3, LiveIsSome DEF Held, IsValue
<1>7. Top.at = "rhs" => Top.lhs \in Nat /\ IsValue(body, Top.lhs) /\ Before(body, Top.lhs, val)
  BY <1>2, <1>3, LiveIsSome DEF FrameOK, Held, IsValue
<1>8. /\ args \in Seq(Nat) /\ DOMAIN args = DOMAIN body.op[val].args
      /\ \A k \in DOMAIN args : IsValue(body, args[k]) /\ Before(body, args[k], val)
      /\ Top.at = "lhs" => DOMAIN args = {1} /\ args[1] = returned
      /\ Top.at = "rhs" => DOMAIN args = {1, 2} /\ args[1] = Top.lhs /\ args[2] = returned
  <2>1. CASE Top.at = "lhs"
    <3>1. args = <<returned>> /\ body.op[val].kind = "neg"
      BY <2>1, <1>1
    <3>2. DOMAIN body.op[val].args = 1..1
      BY <3>1, <1>2, <1>3, Arities
    <3>3. <<returned>> \in Seq(Nat) /\ DOMAIN <<returned>> = 1..1 /\ \A k \in 1..1 : <<returned>>[k] = returned
      BY <1>6
    <3> HIDE DEF args
    <3> QED
      BY <3>1, <3>2, <3>3, <1>2, <1>6, <2>1
  <2>2. CASE Top.at # "lhs"
    <3> DEFINE l == Top.lhs
    <3>1. args = <<l, returned>> /\ body.op[val].kind \in Sums
      BY <2>2, <1>1
    <3>2. DOMAIN body.op[val].args = 1..2
      BY <3>1, <1>2, <1>3, Arities
    <3>3. l \in Nat /\ IsValue(body, l) /\ Before(body, l, val)
      BY <2>2, <1>1, <1>7
    <3> HIDE DEF l, args
    <3>4. /\ <<l, returned>> \in Seq(Nat) /\ DOMAIN <<l, returned>> = 1..2
          /\ <<l, returned>>[1] = l /\ <<l, returned>>[2] = returned
          /\ \A k \in 1..2 : <<l, returned>>[k] = l \/ <<l, returned>>[k] = returned
      BY <3>3, <1>6
    <3> QED
      BY <3>1, <3>2, <3>3, <3>4, <1>2, <1>6, <2>2 DEF l
  <2> QED
    BY <2>1, <2>2
<1> HIDE DEF args
<1>9. Reargued(body, c, val) /\ c.op[val].args = args
  <2>1. \A k \in DOMAIN args : body.op[args[k]].kind \in OperandKinds(body.op[val].kind)
    BY <1>2, <1>8 DEF IsValue, OperandKinds, Expressions, Leaves, Sums, Products
  <2> QED
    BY <2>1, <1>2, <1>3, <1>8, RearguedSet
<1>10. \A x \in DOMAIN body.op : x # val => c.op[x] = body.op[x]
  BY <1>2, <1>3, <1>8, LiveIsSome, SetArgsFacts
<1> HIDE DEF c, val, m
<1>11. /\ ErasedOK(c)
       /\ \A inputs :
            (\A k \in DOMAIN body.op[val].args : Now(inputs)[c.op[val].args[k]] = Now(inputs)[body.op[val].args[k]])
              => Follows(body, Now(inputs), c, ValueIn(c, auxAssignments, inputs))
  BY <1>2, <1>5, <1>9, <1>10, RearguedFaithful
<1>12. ASSUME NEW inputs
       PROVE  Meaning(c, ValueIn(c, auxAssignments, inputs), program, AtFirst(inputs), rw, Tail(stack), val,
                      phase, current, slots, call.operands)
  <2> DEFINE V == Now(inputs)
             V0 == AtFirst(inputs)
             V2 == ValueIn(c, auxAssignments, inputs)
             asked == Asked(program, V0, current, slots)
  <2>1. Meaning(body, V, program, V0, rewrites, stack, returned, phase, current, slots, call.operands)
    BY DEF Faithful
  <2>2. FrameMeans(body, V, Top) /\ V[returned] = V[body.op[val].args[IF Top.at = "lhs" THEN 1 ELSE 2]]
    <3> HIDE DEF V, V0
    <3>1. stack \in Seq(Frames) /\ StackMeans(body, V, stack, asked) /\ V[returned] = Wanted(body, V, stack, asked)
      BY <1>1, <2>1 DEF Inv, StackOK, Meaning
    <3>2. FrameMeans(body, V, Top)
      BY <3>1, <1>1, PoppedMeans DEF Top
    <3> HIDE DEF asked
    <3> QED
      BY <3>1, <3>2, <1>1 DEF Wanted, Top, val
  <2>3. \A k \in DOMAIN body.op[val].args : V[c.op[val].args[k]] = V[body.op[val].args[k]]
    <3> HIDE DEF V
    <3>1. CASE Top.at = "lhs"
      BY <3>1, <1>8, <1>9, <2>2
    <3>2. CASE Top.at = "rhs"
      <4>1. V[Top.lhs] = V[body.op[val].args[1]]
        BY <3>2, <2>2 DEF FrameMeans, val
      <4> QED
        BY <4>1, <3>2, <1>8, <1>9, <2>2
    <3> QED
      BY <3>1, <3>2, <1>1
  <2>4. Follows(body, V, c, V2)
    BY <2>3, <1>11
  <2> HIDE DEF V, V0, V2
  <2>5. /\ UsersMean(c, V2, program, V0) /\ CacheMeans(c, V2, rewrites)
        /\ phase = "calls" /\ current # None => CopiesMean(c, V2, program, V0, current, call.operands)
        /\ StackMeans(c, V2, Tail(stack), asked) /\ Wanted(c, V2, Tail(stack), asked) = V[val]
    BY <1>1, <1>4, <2>1, <2>4, FollowsMeans DEF val
  <2>6. val \in DOMAIN c.op /\ V2[val] = V[val]
    BY <1>2, <1>3, <1>9, <2>4, LiveIsSome DEF Follows, Reargued
  <2>7. CacheMeans(c, V2, rw)
    BY <2>5, <2>6, CacheGrows DEF val
  <2> HIDE DEF rw
  <2> QED
    BY <2>5, <2>6, <2>7 DEF Meaning, V0, V2
<1>13. Top.val = val
  BY DEF val
<1> HIDE DEF rw
<1> QED
  BY <1>1, <1>11, <1>12, <1>13, FaithfulStep

(* One more auxiliary member. *)
LEMMA MemberAdded ==
  ASSUME NEW auxs \in Seq(Assignments), NEW value, NEW aux, value \in Nat, aux \in Nat
  PROVE  LET auxs2 == Append(auxs, [computed |-> value, aux |-> aux])
         IN  auxs2[Len(auxs) + 1].computed = value /\ \A k \in 1..Len(auxs) : auxs2[k] = auxs[k]
<1> DEFINE a == [computed |-> value, aux |-> aux]
<1>1. a \in Assignments /\ a.computed = value
  BY DEF Assignments
<1> HIDE DEF a
<1>2. Append(auxs, a)[Len(auxs) + 1] = a /\ \A k \in 1..Len(auxs) : Append(auxs, a)[k] = auxs[k]
  BY <1>1, AppendProperties
<1> QED
  BY <1>1, <1>2 DEF a

(* A read of a member that holds a value has that value. *)
LEMMA AuxFaithful ==
  ASSUME Inv, Faithful, ~ ReuseAddresses, NEW value, IsValue(body, value),
         NEW before \in Live(body), Before(body, value, before), NEW aux \in Allocatable(body),
         NEW b1, Replaced(body, b1, value, aux, before), \A v \in DOMAIN body.op \ Live(body) : b1.op[v] = body.op[v],
         NEW c, c = InsertAux(b1, value, aux, before),
         NEW auxs2, auxs2[Len(auxAssignments) + 1].computed = value,
         \A k \in 1..Len(auxAssignments) : auxs2[k] = auxAssignments[k], MembersOK(c, auxs2)
  PROVE  /\ ErasedOK(c) /\ IsValue(c, aux) /\ Live(body) \subseteq Live(c)
         /\ \A inputs :
              /\ Follows(body, Now(inputs), c, ValueIn(c, auxs2, inputs))
              /\ ValueIn(c, auxs2, inputs)[aux] = Now(inputs)[value]
<1> DEFINE n == Len(auxAssignments) + 1
           eq == Larger(Fresh(body), aux + 1)
           operations == AuxOperations(value, aux, eq, n)
           ids == {aux, eq}
<1>1. /\ IsBody(body) /\ IsBlock(body) /\ ErasedOK(body) /\ MembersOK(body, auxAssignments)
      /\ auxAssignments \in Seq(Assignments) /\ AuxKnown(body, auxAssignments)
  BY MembersAre DEF Inv, Faithful, AuxOK, IsBody
<1>2. Len(auxAssignments) \in Nat /\ n \in Nat /\ value \in Nat
  BY <1>1, LenProperties, LiveIsSome DEF IsValue
<1>3. Inserted(body, c, ids, operations, value, aux, before)
  BY <1>1, <1>2, AuxInserted
<1>4. /\ aux \in Nat /\ eq \in Nat /\ aux < eq /\ eq \notin DOMAIN body.op /\ aux \notin DOMAIN body.op
  <2>1. aux \in Nat /\ eq \in Nat /\ aux < eq /\ eq \notin DOMAIN body.op
    BY <1>1, <1>2, AuxAddresses
  <2>2. aux = Len(body.op) + 1 /\ Len(body.op) \in Nat /\ DOMAIN body.op = 1..Len(body.op)
    BY <1>1, BlockFacts DEF Allocatable
  <2>3. aux \notin DOMAIN body.op
    BY <2>2
  <2> QED
    BY <2>1, <2>3
<1>5. c.op = Insert(b1, <<aux, eq>>, operations, before).op /\ DOMAIN operations = ids
  BY Zenon DEF InsertAux, AuxOperations
<1> HIDE DEF eq
<1>6. /\ operations[aux] = Operation("aux", <<>>, n)
      /\ \A id \in ids : id # aux => operations[id] = Operation("eq", <<aux, value>>, 0)
  BY <1>4 DEF AuxOperations
<1> HIDE DEF operations, n
<1>7. Buried(body, c, ids)
  <2>1. DOMAIN b1.op = DOMAIN body.op
    BY DEF Replaced
  <2>2. Buried(body, Insert(b1, <<aux, eq>>, operations, before), DOMAIN operations)
    BY <2>1, InsertBuries
  <2> HIDE DEF ids
  <2> QED
    BY <2>2, <1>5 DEF Buried
<1>8. ids \cap DOMAIN body.op = {} /\ Live(c) = Live(body) \cup ids /\ aux \in ids
  BY <1>3, <1>4 DEF Inserted
<1> HIDE DEF ids
<1>9. ErasedOK(c)
  BY <1>1, <1>7, <1>8, ErasedKept
<1>10. /\ operations[aux].kind = "aux" /\ operations[aux].leaf = n /\ operations[aux].kind \in Expressions
       /\ c.op[aux] = operations[aux]
  BY <1>3, <1>6, <1>8 DEF Operation, Expressions, Leaves, Inserted
<1>11. /\ auxs2[n].computed = value
       /\ \A v \in OfKind(body, "aux") : auxs2[body.op[v].leaf].computed = auxAssignments[body.op[v].leaf].computed
  <2>1. \A k \in 1..Len(auxAssignments) : auxs2[k] = auxAssignments[k]
    OBVIOUS
  <2>2. DOMAIN auxAssignments = 1..Len(auxAssignments)
    BY <1>1, LenProperties
  <2>3. auxs2[n].computed = value
    BY DEF n
  <2>4. \A v \in OfKind(body, "aux") : body.op[v].leaf \in 1..Len(auxAssignments)
    BY <2>2, <1>1 DEF AuxKnown
  <2> QED
    BY <2>1, <2>3, <2>4
<1>12. ASSUME NEW inputs
       PROVE  /\ Follows(body, Now(inputs), c, ValueIn(c, auxs2, inputs))
              /\ ValueIn(c, auxs2, inputs)[aux] = Now(inputs)[value]
  <2> DEFINE V == Now(inputs)
             g == OneMore(c, V, aux, V[value])
  <2>1. V = ValueIn(body, auxAssignments, inputs)
    BY DEF Now
  <2> HIDE DEF V
  <2>2. value \in Live(c) /\ value # aux
    BY <1>1, <1>4, <1>8, LiveIsSome DEF IsValue
  <2>3. g[value] = V[value]
    BY <2>2 DEF OneMore
  <2> HIDE DEF g
  <2>4. ValueOf(c, auxs2, inputs, g, aux) = V[value]
    BY <2>3, <1>10, <1>11 DEF ValueOf
  <2>5. Equated(ids, operations, aux, value) /\ SameMembers(body, auxAssignments, auxs2)
    BY <1>6, <1>11 DEF Equated, SameMembers
  <2>6. ValueOf(c, auxs2, inputs, OneMore(c, V, aux, V[value]), aux) = V[value]
    BY <2>4 DEF g
  <2>7. ValueAdded(body, auxAssignments, c, auxs2, ids, operations, value, aux, before)
    BY <1>1, <1>3, <1>8, <1>9, <1>10, <2>5 DEF ValueAdded
  <2>8. /\ Follows(body, V, c, ValueIn(c, auxs2, inputs))
        /\ ValueIn(c, auxs2, inputs)[aux] = V[value]
    BY <2>1, <2>6, <2>7, InsertedFollows
  <2> QED
    BY <2>8 DEF V
<1> QED
  BY <1>8, <1>9, <1>10, <1>12 DEF IsValue

(* The read of a new auxiliary member has the value of the factor it        *)
(* replaces.                                                                *)
LEMMA FactorFaithful ==
  ASSUME Inv, Inv', Faithful, ~ ReuseAddresses, Factor
  PROVE  Faithful'
<1> DEFINE value == IF degreeMemo[Top.lhs] >= degreeMemo[Top.rhs] THEN Top.lhs ELSE Top.rhs
           before == Top.before
           val == Top.val
<1>1. PICK aux \in Allocatable(body) :
        /\ stack # <<>> /\ Top.at = "factor" /\ program' = program
        /\ body' = InsertAux(ReplaceSubsequentUsesWith(body, value, aux, before), value, aux, before)
        /\ auxAssignments' = Append(auxAssignments, [computed |-> value, aux |-> aux])
        /\ rewrites' = Put(rewrites, value, aux)
        /\ stack' = <<[Top EXCEPT !.lhs = Remapped(Top.lhs, value, aux),
                                  !.rhs = Remapped(Top.rhs, value, aux)]>> \o Tail(stack)
        /\ returned' = returned
        /\ maxDegree' = maxDegree /\ phase' = phase /\ current' = current /\ slots' = slots /\ call' = call
  BY DEF Factor, RecordAux, CallersUnchanged
<1> DEFINE b1 == ReplaceSubsequentUsesWith(body, value, aux, before)
           c == InsertAux(b1, value, aux, before)
           auxs2 == Append(auxAssignments, [computed |-> value, aux |-> aux])
           rw == Put(rewrites, value, aux)
           l == Remapped(Top.lhs, value, aux)
           r == Remapped(Top.rhs, value, aux)
           g == [Top EXCEPT !.lhs = l, !.rhs = r]
           T == Tail(stack)
           m == degreeMemo'
<1>2. /\ IsBody(body) /\ IsBlock(body) /\ auxAssignments \in Seq(Assignments)
  BY DEF Inv, IsBody, AuxOK
<1>3. /\ Top \in Frames /\ FrameOK(body, degreeMemo, maxDegree, Top) /\ FactorOK(body, degreeMemo, maxDegree, Top)
      /\ IsValue(body, val) /\ returned = None /\ T \in Seq(Frames)
  BY <1>1, TopFacts
<1>4. /\ IsValue(body, Top.lhs) /\ IsValue(body, Top.rhs) /\ body.op[val].kind = "mul"
      /\ Before(body, Top.lhs, before) /\ Before(body, Top.rhs, before)
  BY <1>1, <1>3 DEF FrameOK, FactorOK, Held
<1>5. IsValue(body, value) /\ Before(body, value, before) /\ before \in Live(body) /\ value \in {Top.lhs, Top.rhs}
  BY <1>4 DEF Before
<1>6. aux \in Nat /\ value \in Nat
  BY <1>2, <1>5, BlockFacts, LiveIsSome DEF Allocatable, IsValue
<1> HIDE DEF value, before
<1>7. /\ Replaced(body, b1, value, aux, before)
      /\ \A v \in DOMAIN body.op \ Live(body) : b1.op[v] = body.op[v]
  BY <1>2, <1>5, <1>6, ReplacedSubsequent, SubsequentBuries
<1> HIDE DEF b1
<1>8. auxs2[Len(auxAssignments) + 1].computed = value /\ \A k \in 1..Len(auxAssignments) : auxs2[k] = auxAssignments[k]
  BY <1>2, <1>6, MemberAdded
<1>9. l \in Nat /\ r \in Nat /\ l \in {aux, Top.lhs} /\ r \in {aux, Top.rhs}
      /\ (l = aux => Top.lhs = value \/ l = Top.lhs) /\ (r = aux => Top.rhs = value \/ r = Top.rhs)
  BY <1>3, <1>6 DEF Remapped, Frames
<1> HIDE DEF auxs2, l, r
<1>10. g \in Frames /\ g.val = val /\ g.at = "factor" /\ g.lhs = l /\ g.rhs = r
  BY <1>1, <1>3, <1>9 DEF Frames
<1>11. body' = c /\ auxAssignments' = auxs2 /\ rewrites' = rw /\ stack' = <<g>> \o T
  BY <1>1 DEF b1, auxs2, l, r
<1> HIDE DEF c, g, T
<1>12. AuxOK(c, m, maxDegree, auxs2) /\ StackOK(c, m, maxDegree, T, current)
  <2>1. StackOK(c, m, maxDegree, <<g>> \o T, current) /\ AuxOK(c, m, maxDegree, auxs2)
    BY <1>1, <1>11 DEF Inv
  <2>2. Tail(<<g>> \o T) = T /\ <<g>> \o T # <<>>
    BY <1>3, <1>10, Pushed
  <2> QED
    BY <2>1, <2>2, StackTop
<1> HIDE DEF m
<1>13. /\ ErasedOK(c) /\ IsValue(c, aux) /\ Live(body) \subseteq Live(c)
       /\ \A inputs :
            /\ Follows(body, Now(inputs), c, ValueIn(c, auxs2, inputs))
            /\ ValueIn(c, auxs2, inputs)[aux] = Now(inputs)[value]
  BY <1>5, <1>7, <1>8, <1>12, MembersAre, AuxFaithful DEF c
<1> HIDE DEF rw, val
<1>14. ASSUME NEW inputs
       PROVE  Meaning(c, ValueIn(c, auxs2, inputs), program, AtFirst(inputs), rw, <<g>> \o T, None,
                      phase, current, slots, call.operands)
  <2> DEFINE V == Now(inputs)
             V0 == AtFirst(inputs)
             V2 == ValueIn(c, auxs2, inputs)
             asked == Asked(program, V0, current, slots)
  <2>1. Meaning(body, V, program, V0, rewrites, stack, returned, phase, current, slots, call.operands)
    BY DEF Faithful
  <2>2. Follows(body, V, c, V2) /\ V2[aux] = V[value]
    BY <1>13
  <2> HIDE DEF V, V0, V2
  <2>3. /\ UsersMean(c, V2, program, V0) /\ CacheMeans(c, V2, rewrites)
        /\ phase = "calls" /\ current # None => CopiesMean(c, V2, program, V0, current, call.operands)
        /\ StackMeans(c, V2, T, asked) /\ Wanted(c, V2, T, asked) = V[val]
    BY <1>1, <1>12, <2>1, <2>2, FollowsMeans DEF T, val
  <2>4. FrameMeans(body, V, Top)
    <3>1. stack \in Seq(Frames) /\ StackMeans(body, V, stack, asked)
      BY <2>1 DEF Inv, StackOK, Meaning
    <3> HIDE DEF asked
    <3> QED
      BY <3>1, <1>1, PoppedMeans DEF Top
  <2>5. \A v : IsValue(body, v) => V2[v] = V[v]
    BY <1>13, <2>2 DEF Follows, IsValue
  <2>6. V2[l] = V[Top.lhs] /\ V2[r] = V[Top.rhs]
    BY <1>4, <1>9, <2>2, <2>5
  <2>7. V2[c.op[val].args[1]] = V[body.op[val].args[1]] /\ V2[c.op[val].args[2]] = V[body.op[val].args[2]]
    <3>1. val \in Live(body) /\ val \in Live(c) /\ 1 \in DOMAIN body.op[val].args /\ 2 \in DOMAIN body.op[val].args
      BY <1>2, <1>3, <1>4, <1>13, Arities DEF IsValue, Products
    <3> QED
      BY <3>1, <1>4, <2>2 DEF Follows
  <2>8. FrameMeans(c, V2, g)
    BY <1>1, <1>10, <2>4, <2>6, <2>7 DEF FrameMeans, val
  <2>9. V2[g.val] = Wanted(c, V2, T, asked)
    BY <1>3, <1>10, <2>3, <2>5
  <2>10. CacheMeans(c, V2, rw)
    <3>1. value \in DOMAIN c.op /\ V2[value] = V[value]
      BY <1>2, <1>5, <2>2, <2>5, LiveIsSome DEF IsValue, Follows
    <3> QED
      BY <3>1, <2>2, <2>3, CacheGrows DEF rw
  <2> HIDE DEF asked
  <2>11. StackMeans(c, V2, <<g>> \o T, asked)
    BY <1>3, <1>10, <2>3, <2>8, <2>9, PushedMeans
  <2> QED
    BY <2>3, <2>10, <2>11 DEF Meaning, asked, V0, V2
<1>15. returned' = None
  BY <1>1, <1>3
<1> QED
  BY <1>1, <1>11, <1>13, <1>14, <1>15, FaithfulStep

(* The block with a new product, and that product alone. *)
LEMMA ProductBuries ==
  ASSUME IsBlock(body), NEW mulVal, NEW mul, DOMAIN mul = {mulVal}, NEW c,
         c = IF Top.eraseMul
             THEN Erase(Insert(ReplaceAllUses(body, Top.val, mulVal), <<mulVal>>, mul, Top.before), Top.val)
             ELSE Insert(body, <<mulVal>>, mul, Top.before)
  PROVE  Buried(body, c, {mulVal})
<1> DEFINE b1 == ReplaceAllUses(body, Top.val, mulVal)
           c1 == Insert(b1, <<mulVal>>, mul, Top.before)
           c2 == Insert(body, <<mulVal>>, mul, Top.before)
<1>1. DOMAIN b1.op = DOMAIN body.op /\ \A v \in DOMAIN body.op \ Live(body) : b1.op[v] = body.op[v]
  BY ReplaceBuries DEF ReplaceAllUses
<1>2. Erase(c1, Top.val).op = c1.op
  BY DEF Erase, Insert
<1> HIDE DEF b1
<1>3. Buried(body, c1, {mulVal}) /\ Buried(body, c2, {mulVal})
  BY <1>1, InsertBuries
<1>4. c.op = c1.op \/ c.op = c2.op
  BY <1>2 DEF b1
<1> HIDE DEF c1, c2
<1> QED
  BY <1>3, <1>4 DEF Buried

(* A product of the lowered operands has the value of the product. *)
LEMMA ProductMeans ==
  ASSUME IsBody(body), ErasedOK(body), MembersOK(body, auxAssignments), FrameOK(body, degreeMemo, maxDegree, Top),
         FactorOK(body, degreeMemo, maxDegree, Top), Top.at = "factor", NEW mulVal, mulVal \notin DOMAIN body.op,
         NEW c1, ErasedOK(c1), MembersOK(c1, auxAssignments),
         Inserted(body, c1, {mulVal}, ProductOperations(Top.lhs, Top.rhs, mulVal), Top.val, mulVal, Top.before),
         NEW inputs, FrameMeans(body, Now(inputs), Top)
  PROVE  /\ Follows(body, Now(inputs), c1, ValueIn(c1, auxAssignments, inputs))
         /\ ValueIn(c1, auxAssignments, inputs)[mulVal] = Now(inputs)[Top.val]
<1> DEFINE val == Top.val
           lhs == Top.lhs
           rhs == Top.rhs
           operations == ProductOperations(lhs, rhs, mulVal)
           V == Now(inputs)
           g == OneMore(c1, V, mulVal, V[val])
<1>1. V = ValueIn(body, auxAssignments, inputs)
  BY DEF Now
<1>2. /\ IsValue(body, val) /\ body.op[val].kind = "mul" /\ IsValue(body, lhs) /\ IsValue(body, rhs)
  BY DEF FrameOK, FactorOK, Held
<1>3. V[lhs] = V[body.op[val].args[1]] /\ V[rhs] = V[body.op[val].args[2]]
  BY DEF FrameMeans
<1>4. V[val] = ValueOf(body, auxAssignments, inputs, V, val)
  BY <1>1, <1>2, LiveIsSome, ValueEquation DEF IsValue
<1> HIDE DEF V, lhs, rhs
<1>5. operations[mulVal] = Operation("mul", <<lhs, rhs>>, 0)
  BY DEF ProductOperations
<1> HIDE DEF operations
<1>6. operations[mulVal].kind = "mul" /\ operations[mulVal].args = <<lhs, rhs>> /\ operations[mulVal].kind \in Expressions
  BY <1>5 DEF Operation, Expressions, Products
<1>7. c1.op[mulVal] = operations[mulVal] /\ Live(c1) = Live(body) \cup {mulVal}
  BY DEF Inserted, operations, lhs, rhs
<1>8. g[lhs] = V[lhs] /\ g[rhs] = V[rhs]
  <2>1. lhs \in Live(body) /\ rhs \in Live(body) /\ lhs # mulVal /\ rhs # mulVal
    BY <1>2, LiveIsSome DEF IsValue
  <2> QED
    BY <2>1, <1>7 DEF OneMore
<1> HIDE DEF g
<1>9. ValueOf(c1, auxAssignments, inputs, g, mulVal) = V[val]
  <2>1. c1.op[mulVal].kind = "mul" /\ c1.op[mulVal].args[1] = lhs /\ c1.op[mulVal].args[2] = rhs
    BY <1>6, <1>7
  <2>2. ValueOf(c1, auxAssignments, inputs, g, mulVal) = (g[lhs] * g[rhs]) % Felts
    BY <2>1 DEF ValueOf
  <2>3. ValueOf(body, auxAssignments, inputs, V, val) = (V[body.op[val].args[1]] * V[body.op[val].args[2]]) % Felts
    BY <1>2 DEF ValueOf
  <2> QED
    BY <2>2, <2>3, <1>3, <1>4, <1>8
<1>10. Equated({mulVal}, operations, mulVal, val) /\ SameMembers(body, auxAssignments, auxAssignments)
  BY DEF Equated, SameMembers
<1>11. ValueAdded(body, auxAssignments, c1, auxAssignments, {mulVal}, operations, val, mulVal, Top.before)
  BY <1>2, <1>6, <1>10 DEF ValueAdded, operations, lhs, rhs
<1>12. ValueOf(c1, auxAssignments, inputs, OneMore(c1, V, mulVal, V[val]), mulVal) = V[val]
  BY <1>9 DEF g
<1>13. /\ Follows(body, V, c1, ValueIn(c1, auxAssignments, inputs))
       /\ ValueIn(c1, auxAssignments, inputs)[mulVal] = V[val]
  BY <1>1, <1>11, <1>12, InsertedFollows
<1> QED
  BY <1>13 DEF V

(* A new product has the value of the product that it replaces. *)
LEMMA ReturnProductFaithful ==
  ASSUME Inv, Inv', Faithful, ~ ReuseAddresses, ReturnProduct
  PROVE  Faithful'
<1>1. PICK mulVal \in Allocatable(body) :
        /\ body' = LET mul == [id \in {mulVal} |-> Operation("mul", <<Top.lhs, Top.rhs>>, 0)]
                   IN  IF Top.eraseMul
                       THEN Erase(Insert(ReplaceAllUses(body, Top.val, mulVal), <<mulVal>>, mul, Top.before), Top.val)
                       ELSE Insert(body, <<mulVal>>, mul, Top.before)
        /\ rewrites' = Put(rewrites, Top.val, mulVal)
        /\ stack' = Tail(stack) /\ returned' = mulVal
  BY DEF ReturnProduct, Return
<1>2. /\ stack # <<>> /\ Top.at = "factor" /\ auxAssignments' = auxAssignments /\ program' = program
      /\ maxDegree' = maxDegree /\ phase' = phase /\ current' = current /\ slots' = slots /\ call' = call
  BY DEF ReturnProduct, CallersUnchanged
<1> DEFINE c == body'
           val == Top.val
           m == degreeMemo'
           T == Tail(stack)
           rw == Put(rewrites, val, mulVal)
           operations == ProductOperations(Top.lhs, Top.rhs, mulVal)
<1>3. /\ IsBody(body) /\ IsBlock(body) /\ ErasedOK(body) /\ MembersOK(body, auxAssignments)
  BY MembersAre DEF Inv, IsBody, Faithful
<1>4. /\ Top \in Frames /\ FrameOK(body, degreeMemo, maxDegree, Top) /\ FactorOK(body, degreeMemo, maxDegree, Top)
      /\ IsValue(body, val) /\ body.op[val].kind = "mul" /\ T \in Seq(Frames)
  BY <1>2, TopFacts DEF FactorOK
<1>5. mulVal \notin DOMAIN body.op
  <2>1. mulVal = Len(body.op) + 1 /\ Len(body.op) \in Nat /\ DOMAIN body.op = 1..Len(body.op)
    BY <1>3, BlockFacts DEF Allocatable
  <2> QED
    BY <2>1
<1>6. PICK c1, gone : /\ Inserted(body, c1, {mulVal}, operations, val, mulVal, Top.before)
                      /\ gone \subseteq {val} /\ Without(c1, c, gone)
  BY <1>1, <1>2, ProductBuilt
<1>7. Buried(body, c, {mulVal})
  <2> DEFINE mul == [id \in {mulVal} |-> Operation("mul", <<Top.lhs, Top.rhs>>, 0)]
  <2>1. DOMAIN mul = {mulVal}
    OBVIOUS
  <2>2. c = IF Top.eraseMul
            THEN Erase(Insert(ReplaceAllUses(body, Top.val, mulVal), <<mulVal>>, mul, Top.before), Top.val)
            ELSE Insert(body, <<mulVal>>, mul, Top.before)
    BY <1>1
  <2> HIDE DEF mul, c
  <2> QED
    BY <2>1, <2>2, <1>3, ProductBuries
<1>8. AuxOK(c, m, maxDegree, auxAssignments) /\ StackOK(c, m, maxDegree, T, current)
  BY <1>1, <1>2 DEF Inv
<1>9. /\ body' = c /\ rewrites' = rw /\ stack' = T
  BY <1>1
<1> HIDE DEF c, m, T, rw, val
<1>10. operations[mulVal].kind = "mul"
  BY DEF ProductOperations, Operation
<1>11. /\ IsBody(c1) /\ Live(c1) = Live(body) \cup {mulVal} /\ c1.op[mulVal].kind = "mul"
       /\ \A x \in Live(body) : c1.op[x].kind = body.op[x].kind /\ c1.op[x].leaf = body.op[x].leaf
       /\ \A x, y \in Live(body) : Before(c1, x, y) <=> Before(body, x, y)
  BY <1>6, <1>10 DEF Inserted
<1>12. ErasedOK(c1)
  <2>1. Buried(body, c1, {mulVal})
    BY <1>6, <1>7 DEF Without, Buried
  <2> QED
    BY <2>1, <1>3, <1>5, <1>11, ErasedKept
<1>13. MembersOK(c1, auxAssignments)
  <2> SUFFICES ASSUME NEW v \in OfKind(c1, "aux")
               PROVE  LET u == auxAssignments[c1.op[v].leaf].computed IN IsValue(c1, u) /\ Before(c1, u, v)
    BY DEF MembersOK
  <2>1. v \in Live(body) /\ v \in OfKind(body, "aux") /\ c1.op[v].leaf = body.op[v].leaf
    BY <1>11 DEF OfKind
  <2> DEFINE u == auxAssignments[body.op[v].leaf].computed
  <2>2. IsValue(body, u) /\ Before(body, u, v)
    BY <2>1, <1>3 DEF MembersOK
  <2> HIDE DEF u
  <2>3. IsValue(c1, u) /\ Before(c1, u, v)
    BY <2>1, <2>2, <1>11 DEF IsValue
  <2> QED
    BY <2>1, <2>3 DEF u
<1>14. ErasedOK(c) /\ MembersOK(c, auxAssignments)
  <2>1. c1.op[val].kind = "mul"
    BY <1>4, <1>11 DEF IsValue
  <2> QED
    BY <2>1, <1>6, <1>8, <1>11, <1>12, ErasedMore, MembersAre
<1>15. /\ mulVal # val /\ mulVal \in Live(c) /\ IsValue(c1, mulVal) /\ val \in DOMAIN c.op
  BY <1>3, <1>4, <1>5, <1>6, <1>7, <1>11, LiveIsSome DEF IsValue, Without, Expressions, Products, Buried
<1>16. ASSUME NEW inputs
       PROVE  Meaning(c, ValueIn(c, auxAssignments, inputs), program, AtFirst(inputs), rw, T, mulVal,
                      phase, current, slots, call.operands)
  <2> DEFINE V == Now(inputs)
             V0 == AtFirst(inputs)
             V1 == ValueIn(c1, auxAssignments, inputs)
             V2 == ValueIn(c, auxAssignments, inputs)
             asked == Asked(program, V0, current, slots)
  <2>1. Meaning(body, V, program, V0, rewrites, stack, returned, phase, current, slots, call.operands)
    BY DEF Faithful
  <2>2. FrameMeans(body, V, Top)
    <3> HIDE DEF V, V0
    <3>1. stack \in Seq(Frames) /\ StackMeans(body, V, stack, asked)
      BY <2>1 DEF Inv, StackOK, Meaning
    <3> HIDE DEF asked
    <3> QED
      BY <3>1, <1>2, PoppedMeans DEF Top
  <2>3. Follows(body, V, c1, V1) /\ V1[mulVal] = V[val]
    BY <1>2, <1>3, <1>4, <1>5, <1>6, <1>12, <1>13, <2>2, ProductMeans DEF val
  <2>4. Follows(c1, V1, c, V2)
    BY <1>6, <1>11, <1>12, <1>13, <1>14, WithoutFollows
  <2> HIDE DEF V, V0, V1, V2
  <2>5. Follows(body, V, c, V2)
    BY <1>6, <1>11, <2>3, <2>4, FollowsOn DEF Without
  <2>6. V2[mulVal] = V[val]
    BY <1>15, <2>3, <2>4 DEF Follows
  <2>7. /\ UsersMean(c, V2, program, V0) /\ CacheMeans(c, V2, rewrites)
        /\ phase = "calls" /\ current # None => CopiesMean(c, V2, program, V0, current, call.operands)
        /\ StackMeans(c, V2, T, asked) /\ Wanted(c, V2, T, asked) = V[val]
    BY <1>2, <1>8, <2>1, <2>5, FollowsMeans DEF T, val
  <2>8. IsValue(c, val) => V2[val] = V[val]
    BY <1>4, <2>5 DEF Follows, IsValue
  <2>9. CacheMeans(c, V2, rw)
    BY <1>15, <2>6, <2>7, <2>8, CacheGrows DEF rw
  <2> QED
    BY <2>6, <2>7, <2>9 DEF Meaning, V0, V2
<1> HIDE DEF operations
<1> QED
  BY <1>1, <1>2, <1>9, <1>14, <1>16, FaithfulStep

-----------------------------------------------------------------------------
(* The walks keep what values stand for *)

(* Between operands the users, the cache and the copies are all there is. *)
LEMMA IdleMeans ==
  ASSUME NEW b, NEW V, NEW p, NEW V0, UsersMean(b, V, p, V0), NEW rw, CacheMeans(b, V, rw),
         NEW ph, NEW cur, NEW sl, NEW operands, ph = "calls" /\ cur # None => CopiesMean(b, V, p, V0, cur, operands)
  PROVE  Meaning(b, V, p, V0, rw, <<>>, None, ph, cur, sl, operands)
BY DEF Meaning, StackMeans

(* The first activation is for the operand that is asked for. *)
LEMMA FirstMeans ==
  ASSUME NEW b, NEW V, NEW p, NEW V0, UsersMean(b, V, p, V0), NEW rw, CacheMeans(b, V, rw),
         NEW ph, NEW cur, NEW sl, NEW operands, ph = "calls" /\ cur # None => CopiesMean(b, V, p, V0, cur, operands),
         NEW x, V[x] = Asked(p, V0, cur, sl)
  PROVE  Meaning(b, V, p, V0, rw, <<Frame(x, cur)>>, None, ph, cur, sl, operands)
<1> DEFINE st == <<Frame(x, cur)>>
<1>1. Len(st) = 1 /\ st[1] = Frame(x, cur) /\ \A i \in 1..1 : i = 1
  OBVIOUS
<1>2. Frame(x, cur).at = "entry" /\ Frame(x, cur).val = x
  BY DEF Frame
<1> HIDE DEF st
<1>3. StackMeans(b, V, st, Asked(p, V0, cur, sl))
  BY <1>1, <1>2 DEF StackMeans, FrameMeans
<1> QED
  BY <1>3 DEF Meaning, st

(* An operand of what is visited has the value that it has in the program. *)
LEMMA OperandMeans ==
  ASSUME Inv, NEW V, NEW V0, UsersMean(body, V, program, V0), current \in Live(body),
         body.op[current].kind \in {"eq", "array", "call"}, ~ AuxEquation(body, current)
  PROVE  \A k \in DOMAIN body.op[current].args : V[body.op[current].args[k]] = V0[program.op[current].args[k]]
BY DEF UsersMean, AuxEquation

(* Steps between operands that change neither the block nor the cache. *)
LEMMA WalkedFaithful ==
  ASSUME Inv, Faithful, \/ NextWalk \/ VisitEquality \/ VisitContainment \/ SkipElement \/ Leave \/ SkipArgument
  PROVE  Faithful'
<1>1. /\ stack = <<>> /\ returned = None /\ stack' = <<>> /\ returned' = None
      /\ program' = program /\ body' = body /\ auxAssignments' = auxAssignments /\ rewrites' = rewrites
      /\ call' = call
      /\ phase' = "calls" /\ current' # None => phase = "calls" /\ current' = current
  BY DEF NextWalk, VisitEquality, VisitContainment, SkipElement, Leave, SkipArgument, Idle, ExpressionUnchanged, WalkUnchanged
<1>2. ASSUME NEW V, NEW V0,
             Meaning(body, V, program, V0, rewrites, stack, returned, phase, current, slots, call.operands)
      PROVE  Meaning(body, V, program, V0, rewrites, <<>>, None, phase', current', slots', call.operands)
  <2>1. phase' = "calls" /\ current' # None => CopiesMean(body, V, program, V0, current', call.operands)
    BY <1>1, <1>2 DEF Meaning
  <2>2. UsersMean(body, V, program, V0) /\ CacheMeans(body, V, rewrites)
    BY <1>2 DEF Meaning
  <2> QED
    BY <2>1, <2>2, IdleMeans
<1> QED
  BY <1>1, <1>2, QuietFaithful

(* The copy of a call's operands has the values of the operands. *)
LEMMA VisitCallFaithful ==
  ASSUME Inv, Faithful, VisitCall
  PROVE  Faithful'
<1> DEFINE args == body.op[Visit].args
<1>1. /\ stack = <<>> /\ returned = None /\ stack' = <<>> /\ returned' = None /\ walk # {} /\ phase = "calls"
      /\ program' = program /\ body' = body /\ auxAssignments' = auxAssignments /\ rewrites' = rewrites
      /\ call'.operands = args /\ phase' = phase /\ current' = Visit
  BY DEF VisitCall, Idle, ExpressionUnchanged, WalkUnchanged
<1>2. Visit \in Live(body) /\ body.op[Visit].kind = "call" /\ IsBody(body)
  BY <1>1, VisitFacts DEF Walked, OfKind, Inv
<1>3. \A k \in DOMAIN args : args[k] \in DOMAIN body.op
  BY <1>2, OperandFacts, LiveIsSome DEF Before
<1>4. ASSUME NEW V, NEW V0,
             Meaning(body, V, program, V0, rewrites, stack, returned, phase, current, slots, call.operands)
      PROVE  Meaning(body, V, program, V0, rewrites, <<>>, None, phase, Visit, slots', args)
  <2>1. UsersMean(body, V, program, V0) /\ CacheMeans(body, V, rewrites)
    BY <1>4 DEF Meaning
  <2>2. \A k \in DOMAIN args : V[args[k]] = V0[program.op[Visit].args[k]]
    BY <2>1, <1>2 DEF UsersMean
  <2>3. CopiesMean(body, V, program, V0, Visit, args)
    BY <2>2, <1>3 DEF CopiesMean
  <2> QED
    BY <2>1, <2>3, IdleMeans
<1> HIDE DEF args
<1> QED
  BY <1>1, <1>4, QuietFaithful

(* What is lowered first is the operand that is asked for. *)
LEMMA LowerOperandFaithful ==
  ASSUME Inv, Faithful, LowerOperand
  PROVE  Faithful'
<1> DEFINE x == body.op[current].args[Slot]
<1>1. /\ stack = <<>> /\ returned = None /\ stack' = <<Frame(x, current)>> /\ returned' = None /\ slots # {}
      /\ phase \in {"equalities", "containments"}
      /\ program' = program /\ body' = body /\ auxAssignments' = auxAssignments /\ rewrites' = rewrites
      /\ call' = call /\ phase' = phase /\ current' = current /\ slots' = slots
  BY DEF LowerOperand, Lower, Idle, WalkUnchanged
<1>2. /\ current \in Live(body) /\ body.op[current].kind \in {"eq", "array", "call"} /\ ~ AuxEquation(body, current)
      /\ Slot \in DOMAIN body.op[current].args
  BY <1>1, CurrentFacts
<1>3. ASSUME NEW V, NEW V0,
             Meaning(body, V, program, V0, rewrites, stack, returned, phase, current, slots, call.operands)
      PROVE  Meaning(body, V, program, V0, rewrites, <<Frame(x, current)>>, None, phase, current, slots, call.operands)
  <2>1. UsersMean(body, V, program, V0) /\ CacheMeans(body, V, rewrites)
        /\ (phase = "calls" /\ current # None => CopiesMean(body, V, program, V0, current, call.operands))
    BY <1>3 DEF Meaning
  <2>2. V[x] = Asked(program, V0, current, slots)
    BY <2>1, <1>2, OperandMeans DEF Asked, Slot
  <2> HIDE DEF x
  <2> QED
    BY <2>1, <2>2, FirstMeans
<1> HIDE DEF x
<1> QED
  BY <1>1, <1>3, QuietFaithful

(* So it is of a call. *)
LEMMA LowerArgumentFaithful ==
  ASSUME Inv, Faithful, LowerArgument
  PROVE  Faithful'
<1> DEFINE x == call.operands[Slot]
<1>1. /\ stack = <<>> /\ returned = None /\ stack' = <<Frame(x, current)>> /\ returned' = None /\ slots # {}
      /\ phase = "calls"
      /\ program' = program /\ body' = body /\ auxAssignments' = auxAssignments /\ rewrites' = rewrites
      /\ call' = call /\ phase' = phase /\ current' = current /\ slots' = slots
  BY DEF LowerArgument, Lower, Idle, ExpressionUnchanged, WalkUnchanged
<1>2. /\ CallOK(body, degreeMemo, maxDegree, current, slots, call.operands, DOMAIN call.operands)
      /\ Slot \in DOMAIN call.operands /\ current # None
  BY <1>1, CopyFacts DEF Kept
<1>3. IsValue(body, x)
  BY <1>2 DEF CallOK
<1>4. ASSUME NEW V, NEW V0,
             Meaning(body, V, program, V0, rewrites, stack, returned, phase, current, slots, call.operands)
      PROVE  Meaning(body, V, program, V0, rewrites, <<Frame(x, current)>>, None, phase, current, slots, call.operands)
  <2>1. UsersMean(body, V, program, V0) /\ CacheMeans(body, V, rewrites)
        /\ CopiesMean(body, V, program, V0, current, call.operands)
    BY <1>1, <1>2, <1>4 DEF Meaning
  <2>2. V[x] = Asked(program, V0, current, slots)
    BY <2>1, <1>2, <1>3 DEF Asked, Slot, CopiesMean
  <2> HIDE DEF x
  <2> QED
    BY <2>1, <2>2, FirstMeans
<1> HIDE DEF x
<1> QED
  BY <1>1, <1>4, QuietFaithful

(* The last steps change neither values nor who uses them. *)
LEMMA LastStepsFaithful ==
  ASSUME Inv, Faithful, CheckDegrees \/ BeginVisit \/ VisitDependency \/ WriteAux \/ Finish
  PROVE  Faithful'
<1>1. /\ stack' = stack /\ returned' = returned /\ current' = current /\ slots' = slots /\ call' = call
      /\ program' = program /\ body' = body /\ auxAssignments' = auxAssignments /\ rewrites' = rewrites
      /\ phase' # "calls"
  BY DEF CheckDegrees, BeginVisit, VisitDependency, WriteAux, Finish, ExpressionUnchanged, WalkUnchanged
<1>2. ASSUME NEW V, NEW V0,
             Meaning(body, V, program, V0, rewrites, stack, returned, phase, current, slots, call.operands)
      PROVE  Meaning(body, V, program, V0, rewrites, stack, returned, phase', current, slots, call.operands)
  BY <1>1, <1>2 DEF Meaning
<1> QED
  BY <1>1, <1>2, QuietFaithful

(* A step that sets operands of what is visited to others of their values. *)
LEMMA SetFaithful ==
  ASSUME Inv, Inv', Faithful, NEW id \in Live(body), Reargued(body, body', id),
         \A x \in DOMAIN body.op : x # id => body'.op[x] = body.op[x],
         UNCHANGED <<program, auxAssignments, rewrites, stack, phase>>, stack = <<>>, returned' = None,
         phase' = "calls" => current' = None,
         \A inputs : \A k \in DOMAIN body.op[id].args :
           Now(inputs)[body'.op[id].args[k]] = Now(inputs)[body.op[id].args[k]]
  PROVE  Faithful'
<1> DEFINE c == body'
<1>1. MembersOK(c, auxAssignments)
  <2>1. AuxOK(c, degreeMemo', maxDegree', auxAssignments)
    BY DEF Inv
  <2> HIDE DEF c
  <2> QED
    BY <2>1, MembersAre
<1>2. Reargued(body, c, id) /\ \A x \in DOMAIN body.op : x # id => c.op[x] = body.op[x]
  OBVIOUS
<1>3. \A inputs : \A k \in DOMAIN body.op[id].args : Now(inputs)[c.op[id].args[k]] = Now(inputs)[body.op[id].args[k]]
  OBVIOUS
<1>4. body' = c
  OBVIOUS
<1> HIDE DEF c
<1>5. /\ ErasedOK(c)
      /\ \A inputs : Follows(body, Now(inputs), c, ValueIn(c, auxAssignments, inputs))
  BY <1>1, <1>2, <1>3, RearguedFaithful
<1> DEFINE cur == current'
           sl == slots'
           operands == call'.operands
<1>6. phase = "calls" => cur = None
  OBVIOUS
<1> HIDE DEF cur, sl, operands
<1>7. ASSUME NEW inputs
      PROVE  Meaning(c, ValueIn(c, auxAssignments, inputs), program, AtFirst(inputs), rewrites, <<>>, None,
                     phase, cur, sl, operands)
  <2> DEFINE V == Now(inputs)
             V0 == AtFirst(inputs)
             V2 == ValueIn(c, auxAssignments, inputs)
  <2>1. Meaning(body, V, program, V0, rewrites, stack, returned, phase, current, slots, call.operands)
    BY DEF Faithful
  <2>2. Follows(body, V, c, V2)
    BY <1>5
  <2> HIDE DEF V, V0, V2
  <2>3. UsersMean(c, V2, program, V0) /\ CacheMeans(c, V2, rewrites)
    BY <2>1, <2>2, FollowsMeans
  <2>4. Meaning(c, V2, program, V0, rewrites, <<>>, None, phase, cur, sl, operands)
    BY <2>3, <1>6, IdleMeans
  <2> QED
    BY <2>4 DEF V, V0, V2
<1> QED
  BY <1>4, <1>5, <1>7, FaithfulStep DEF cur, sl, operands

(* What is returned for an operand has its value. *)
LEMMA ReturnedMeans ==
  ASSUME Inv, Faithful, stack = <<>>, returned # None, slots # {}
  PROVE  \A inputs : Now(inputs)[returned] = Asked(program, AtFirst(inputs), current, slots)
BY DEF Faithful, Meaning, Wanted

(* An operand that is set has the value of the one it replaces. *)
LEMMA SetOperandFaithful ==
  ASSUME Inv, Inv', Faithful, SetOperand
  PROVE  Faithful'
<1> DEFINE old == body.op[current].args
           args == OneChanged(old, Slot, returned)
           c == SetArgs(body, current, args)
<1>1. /\ phase \in {"equalities", "containments"} /\ stack = <<>> /\ returned # None /\ returned' = None
      /\ UNCHANGED <<program, auxAssignments, rewrites, stack, phase>>
  BY DEF SetOperand, WalkUnchanged
<1>2. /\ IsBody(body) /\ IsBlock(body) /\ slots # {}
      /\ Held(body, degreeMemo, maxDegree, returned) /\ Before(body, returned, current)
  BY <1>1 DEF Inv, IsBody, Idle, ReturnedOK, User
<1>3. /\ current \in Live(body) /\ body.op[current].kind \in {"eq", "array"}
      /\ ~ AuxEquation(body, current) /\ Slot \in DOMAIN old
  BY <1>1, <1>2, CurrentFacts
<1>4. current \in DOMAIN body.op /\ body' = c
  <2>1. current \in DOMAIN body.op
    BY <1>2, <1>3, LiveIsSome
  <2>2. body' = OperandSet(body, current, Slot, returned)
    BY Zenon DEF SetOperand, OperandSet
  <2>3. OperandSet(body, current, Slot, returned) = SetArgs(body, current, args)
    BY <2>1, <1>2, OneOperandSet
  <2> QED
    BY <2>1, <2>2, <2>3, Zenon
<1>5. /\ args \in Seq(Nat) /\ DOMAIN args = DOMAIN old
      /\ \A k \in DOMAIN args : args[k] = IF k = Slot THEN returned ELSE old[k]
      /\ \A k \in DOMAIN args : Before(body, args[k], current) /\ body.op[args[k]].kind \in OperandKinds(body.op[current].kind)
  <2>1. /\ old \in Seq(Nat) /\ Len(old) \in Nat /\ DOMAIN old = 1..Len(old)
        /\ \A k \in DOMAIN old : Before(body, old[k], current) /\ body.op[old[k]].kind \in OperandKinds(body.op[current].kind)
    BY <1>2, <1>3, OperandFacts
  <2>2. OperandKinds(body.op[current].kind) = Expressions /\ body.op[returned].kind \in Expressions /\ returned \in Nat
    BY <1>2, <1>3, LiveIsSome DEF OperandKinds, Held, IsValue
  <2> HIDE DEF old
  <2>3. DOMAIN args = DOMAIN old /\ \A k \in DOMAIN old : args[k] = IF k = Slot THEN returned ELSE old[k]
    BY DEF OneChanged
  <2>4. \A k \in DOMAIN old : old[k] \in Nat
    BY <2>1, ElementOfSeq, Zenon
  <2> HIDE DEF args
  <2>5. args \in Seq(Nat)
    <3>1. args \in [1..Len(old) -> Nat]
      <4>1. args = [k \in DOMAIN old |-> args[k]]
        BY <2>3 DEF args, OneChanged
      <4> QED
        BY <4>1, <2>1, <2>2, <2>3, <2>4
    <3> QED
      BY <3>1, <2>1, FunctionIsSeq
  <2> QED
    BY <2>1, <2>2, <2>3, <2>5, <1>2
<1> HIDE DEF args
<1>6. Reargued(body, c, current) /\ c.op[current].args = args
  BY <1>2, <1>3, <1>5, RearguedSet
<1>7. \A x \in DOMAIN body.op : x # current => c.op[x] = body.op[x]
  BY <1>2, <1>4, <1>5, SetArgsFacts
<1> HIDE DEF c
<1>8. ASSUME NEW inputs, NEW k \in DOMAIN old
      PROVE  Now(inputs)[c.op[current].args[k]] = Now(inputs)[old[k]]
  <2> DEFINE V == Now(inputs)
             V0 == AtFirst(inputs)
  <2>1. UsersMean(body, V, program, V0)
    BY DEF Faithful, Meaning
  <2>2. V[returned] = V0[program.op[current].args[Slot]]
    BY <1>1, <1>2, ReturnedMeans DEF Asked, Slot
  <2> HIDE DEF V, V0
  <2>3. V[old[Slot]] = V0[program.op[current].args[Slot]]
    BY <1>3, <2>1, OperandMeans
  <2>4. V[args[k]] = V[old[k]]
    BY <1>5, <2>2, <2>3
  <2> QED
    BY <2>4, <1>6 DEF V
<1> QED
  BY <1>1, <1>3, <1>4, <1>6, <1>7, <1>8, SetFaithful

(* So have the operands of a call. *)
LEMMA ReplaceCallFaithful ==
  ASSUME Inv, Inv', Faithful, ReplaceCall
  PROVE  Faithful'
<1> DEFINE ops == call.operands
           c == SetArgs(body, current, ops)
<1>1. /\ phase = "calls" /\ stack = <<>> /\ returned = None /\ current # None /\ slots = {}
      /\ body' = (IF call.modified THEN c ELSE body) /\ current' = None /\ returned' = None
      /\ UNCHANGED <<program, auxAssignments, rewrites, stack, phase>>
  BY DEF ReplaceCall, Idle, WalkUnchanged
<1>2. IsBody(body) /\ IsBlock(body) /\ WalkOK(body, phase, walk, current, slots)
  BY DEF Inv, IsBody
<1>3. CallOK(body, degreeMemo, maxDegree, current, slots, ops, DOMAIN ops)
  BY <1>1 DEF Inv, CallStep, Kept
<1>4. current \in Live(body) /\ body.op[current].kind = "call" /\ current \in DOMAIN body.op
  BY <1>1, <1>2, LiveIsSome DEF WalkOK, Lowered, Walked, OfKind
<1>5. CASE call.modified
  <2>1. body' = c
    BY <1>1, <1>5
  <2>2. /\ ops \in Seq(Nat) /\ DOMAIN ops = DOMAIN body.op[current].args
        /\ \A k \in DOMAIN ops : Before(body, ops[k], current) /\ IsValue(body, ops[k])
                                 /\ body.op[ops[k]].kind \in OperandKinds(body.op[current].kind)
    BY <1>3, <1>4 DEF CallOK, IsValue, OperandKinds
  <2> HIDE DEF ops
  <2>3. Reargued(body, c, current) /\ c.op[current].args = ops
    BY <2>2, <1>2, <1>4, RearguedSet
  <2>4. \A x \in DOMAIN body.op : x # current => c.op[x] = body.op[x]
    BY <2>2, <1>2, <1>4, SetArgsFacts
  <2> HIDE DEF c
  <2>5. ASSUME NEW inputs, NEW k \in DOMAIN body.op[current].args
        PROVE  Now(inputs)[c.op[current].args[k]] = Now(inputs)[body.op[current].args[k]]
    <3> DEFINE V == Now(inputs)
               V0 == AtFirst(inputs)
    <3>1. UsersMean(body, V, program, V0) /\ CopiesMean(body, V, program, V0, current, ops)
      BY <1>1 DEF Faithful, Meaning, ops
    <3> HIDE DEF V, V0
    <3>2. V[body.op[current].args[k]] = V0[program.op[current].args[k]]
      BY <3>1, <1>4 DEF UsersMean
    <3>3. V[ops[k]] = V0[program.op[current].args[k]]
      BY <3>1, <2>2 DEF CopiesMean
    <3> QED
      BY <3>2, <3>3, <2>3 DEF V
  <2> QED
    BY <1>1, <1>4, <2>1, <2>3, <2>4, <2>5, SetFaithful
<1>6. CASE ~ call.modified
  <2>1. body' = body
    BY <1>1, <1>6
  <2> DEFINE sl == slots'
             operands == call'.operands
  <2> HIDE DEF sl, operands
  <2>2. ASSUME NEW V, NEW V0,
               Meaning(body, V, program, V0, rewrites, stack, returned, phase, current, slots, call.operands)
        PROVE  Meaning(body, V, program, V0, rewrites, <<>>, None, phase, None, sl, operands)
    <3>1. UsersMean(body, V, program, V0) /\ CacheMeans(body, V, rewrites)
      BY <2>2 DEF Meaning
    <3> QED
      BY <3>1, IdleMeans
  <2>3. stack' = <<>> /\ rewrites' = rewrites /\ phase' = phase /\ program' = program /\ auxAssignments' = auxAssignments
    BY <1>1
  <2> QED
    BY <1>1, <2>1, <2>2, <2>3, QuietFaithful DEF sl, operands
<1> QED
  BY <1>5, <1>6

(* A copy of an operand that is replaced by another of the same value. *)
LEMMA CopyMeans ==
  ASSUME NEW b, NEW V, NEW p, NEW V0, NEW cur, NEW operands, CopiesMean(b, V, p, V0, cur, operands),
         NEW i \in DOMAIN operands, NEW v \in DOMAIN b.op, V[v] = V0[p.op[cur].args[i]]
  PROVE  CopiesMean(b, V, p, V0, cur, OneChanged(operands, i, v))
<1> DEFINE changed == OneChanged(operands, i, v)
<1>1. DOMAIN changed = DOMAIN operands /\ \A k \in DOMAIN operands : changed[k] = IF k = i THEN v ELSE operands[k]
  BY DEF OneChanged
<1> HIDE DEF changed
<1>2. CopiesMean(b, V, p, V0, cur, changed)
  BY <1>1 DEF CopiesMean
<1> QED
  BY <1>2 DEF changed

(* So has the copy of one that is lowered, as it is or by an auxiliary      *)
(* member.                                                                  *)
LEMMA MaterializeArgumentFaithful ==
  ASSUME Inv, Inv', Faithful, ~ ReuseAddresses, MaterializeArgument
  PROVE  Faithful'
<1> DEFINE ops == call.operands
<1>1. /\ phase = "calls" /\ stack = <<>> /\ returned # None /\ returned' = None
      /\ phase' = phase /\ current' = current /\ stack' = stack /\ program' = program
  BY DEF MaterializeArgument, WalkUnchanged
<1>2. /\ IsBody(body) /\ IsBlock(body) /\ slots # {} /\ auxAssignments \in Seq(Assignments)
      /\ Held(body, degreeMemo, maxDegree, returned) /\ Before(body, returned, current)
  BY <1>1 DEF Inv, IsBody, Idle, ReturnedOK, User, AuxOK
<1>3. /\ CallOK(body, degreeMemo, maxDegree, current, slots, ops, DOMAIN ops \ {Slot})
      /\ Slot \in DOMAIN ops /\ current # None /\ current \in Live(body)
  BY <1>1, <1>2, CopyFacts DEF Kept, Slot
<1>4. returned \in Nat /\ IsValue(body, returned) /\ returned \in DOMAIN body.op
  BY <1>2, LiveIsSome DEF Held, IsValue
<1>5. \/ /\ call'.operands = OneChanged(ops, Slot, returned)
         /\ ExpressionUnchanged
      \/ \E aux \in Allocatable(body) :
           /\ body' = InsertAux(body, returned, aux, current)
           /\ RecordAux(returned, aux)
           /\ call'.operands = OneChanged(ops, Slot, aux)
           /\ rewrites' = Put(Put(rewrites, ops[Slot], aux), returned, aux)
  BY DEF MaterializeArgument, OneChanged
<1>6. \A inputs :
        LET V == Now(inputs)
            V0 == AtFirst(inputs)
        IN  /\ UsersMean(body, V, program, V0) /\ CacheMeans(body, V, rewrites)
            /\ CopiesMean(body, V, program, V0, current, ops)
            /\ V[returned] = V0[program.op[current].args[Slot]]
  BY <1>1, <1>2, <1>3, ReturnedMeans DEF Faithful, Meaning, Asked, Slot
<1> HIDE DEF ops
<1> DEFINE sl == slots'
           operands == call'.operands
<1>7. CASE operands = OneChanged(ops, Slot, returned) /\ ExpressionUnchanged
  <2>1. body' = body /\ rewrites' = rewrites /\ auxAssignments' = auxAssignments /\ operands = OneChanged(ops, Slot, returned)
    BY <1>7 DEF ExpressionUnchanged
  <2>2. call'.operands = operands /\ slots' = sl
    OBVIOUS
  <2> HIDE DEF sl, operands
  <2>3. ASSUME NEW inputs
        PROVE  Meaning(body, Now(inputs), program, AtFirst(inputs), rewrites, <<>>, None, phase, current, sl, operands)
    <3> DEFINE V == Now(inputs)
               V0 == AtFirst(inputs)
    <3>1. /\ UsersMean(body, V, program, V0) /\ CacheMeans(body, V, rewrites)
          /\ CopiesMean(body, V, program, V0, current, ops)
          /\ V[returned] = V0[program.op[current].args[Slot]]
      BY <1>6
    <3> HIDE DEF V, V0
    <3>2. CopiesMean(body, V, program, V0, current, operands)
      BY <3>1, <2>1, <1>3, <1>4, CopyMeans
    <3>3. Meaning(body, V, program, V0, rewrites, <<>>, None, phase, current, sl, operands)
      BY <3>1, <3>2, IdleMeans
    <3> QED
      BY <3>3 DEF V, V0
  <2>4. stack' = <<>>
    BY <1>1
  <2> QED
    BY <1>1, <2>1, <2>2, <2>3, <2>4, QuietFaithful
<1>8. ASSUME NEW aux \in Allocatable(body), body' = InsertAux(body, returned, aux, current), RecordAux(returned, aux),
             operands = OneChanged(ops, Slot, aux),
             rewrites' = Put(Put(rewrites, ops[Slot], aux), returned, aux)
      PROVE  Faithful'
  <2> DEFINE c == InsertAux(body, returned, aux, current)
             A2 == Append(auxAssignments, [computed |-> returned, aux |-> aux])
             rw == Put(Put(rewrites, ops[Slot], aux), returned, aux)
             x == ops[Slot]
  <2>1. body' = c /\ auxAssignments' = A2 /\ rewrites' = rw /\ aux \in Nat
    <3>1. aux \in Nat
      BY <1>2, BlockFacts DEF Allocatable
    <3> QED
      BY <3>1, <1>8 DEF RecordAux
  <2>2. A2[Len(auxAssignments) + 1].computed = returned /\ \A k \in 1..Len(auxAssignments) : A2[k] = auxAssignments[k]
    BY <1>2, <1>4, <2>1, MemberAdded
  <2>3. c = InsertAux(body, returned, aux, current) /\ call'.operands = operands /\ slots' = sl
    OBVIOUS
  <2>4. operands = OneChanged(ops, Slot, aux)
    BY <1>8
  <2> HIDE DEF c, A2, sl, operands
  <2>5. MembersOK(c, A2)
    <3>1. AuxOK(c, degreeMemo', maxDegree', A2)
      BY <2>1 DEF Inv
    <3> QED
      BY <3>1, MembersAre
  <2>6. /\ ErasedOK(c) /\ IsValue(c, aux) /\ Live(body) \subseteq Live(c)
        /\ \A inputs :
             /\ Follows(body, Now(inputs), c, ValueIn(c, A2, inputs))
             /\ ValueIn(c, A2, inputs)[aux] = Now(inputs)[returned]
    <3>1. Replaced(body, body, returned, aux, current)
      BY <1>2, ReplacedNone
    <3>2. \A v \in DOMAIN body.op \ Live(body) : body.op[v] = body.op[v]
      OBVIOUS
    <3> QED
      BY <3>1, <3>2, <1>2, <1>3, <1>4, <2>2, <2>3, <2>5, AuxFaithful
  <2>7. aux \in DOMAIN c.op
    <3>1. IsBody(c)
      BY <2>1 DEF Inv
    <3> QED
      BY <3>1, <2>6, LiveIsSome DEF IsValue
  <2>8. ASSUME NEW inputs
        PROVE  Meaning(c, ValueIn(c, A2, inputs), program, AtFirst(inputs), rw, <<>>, None, phase, current, sl, operands)
    <3> DEFINE V == Now(inputs)
               V0 == AtFirst(inputs)
               V2 == ValueIn(c, A2, inputs)
    <3>1. /\ Meaning(body, V, program, V0, rewrites, stack, returned, phase, current, slots, call.operands)
          /\ CopiesMean(body, V, program, V0, current, ops)
          /\ V[returned] = V0[program.op[current].args[Slot]]
      BY <1>6 DEF Faithful
    <3>2. Follows(body, V, c, V2) /\ V2[aux] = V[returned]
      BY <2>6
    <3> HIDE DEF V, V0, V2, rw
    <3>3. /\ UsersMean(c, V2, program, V0) /\ CacheMeans(c, V2, rewrites)
          /\ CopiesMean(c, V2, program, V0, current, ops)
      BY <1>1, <1>3, <3>1, <3>2, FollowsMeans DEF ops
    <3>4. CopiesMean(c, V2, program, V0, current, operands)
      BY <1>3, <2>4, <2>7, <3>1, <3>2, <3>3, CopyMeans
    <3>5. x \in DOMAIN body.op /\ (IsValue(c, x) => V2[x] = V2[aux])
      <4>1. x \in DOMAIN body.op /\ (IsValue(body, x) => V[x] = V0[program.op[current].args[Slot]])
        BY <1>3, <3>1 DEF CopiesMean
      <4>2. IsValue(c, x) => IsValue(body, x) /\ V2[x] = V[x]
        BY <4>1, <3>2 DEF Follows, IsValue
      <4> QED
        BY <4>1, <4>2, <3>1, <3>2
    <3>6. DOMAIN body.op \subseteq DOMAIN c.op /\ V2[returned] = V[returned]
      BY <1>4, <2>6, <3>2 DEF Follows, IsValue
    <3> HIDE DEF x
    <3>7. CacheMeans(c, V2, Put(rewrites, x, aux))
      BY <3>3, <3>5, <3>6, CacheGrows
    <3>8. CacheMeans(c, V2, Put(Put(rewrites, x, aux), returned, aux))
      BY <3>7, <3>6, <3>2, <1>4, CacheGrows
    <3>9. CacheMeans(c, V2, rw)
      BY <3>8 DEF rw, x
    <3>10. Meaning(c, V2, program, V0, rw, <<>>, None, phase, current, sl, operands)
      BY <3>3, <3>4, <3>9, IdleMeans
    <3> QED
      BY <3>10 DEF V, V0, V2
  <2>9. stack' = <<>>
    BY <1>1
  <2> HIDE DEF rw
  <2> QED
    BY <1>1, <2>1, <2>3, <2>6, <2>8, <2>9, FaithfulStep
<1> HIDE DEF sl
<1> QED
  BY <1>5, <1>7, <1>8

(* At first the block is the program. *)
LEMMA FaithfulInit ==
  ASSUME Init
  PROVE  Faithful
<1>1. /\ program \in Programs /\ body = program /\ rewrites = <<>> /\ auxAssignments = <<>>
      /\ current = None /\ stack = <<>> /\ returned = None
  BY DEF Init
<1>2. /\ IsBody(program) /\ DOMAIN program.op = Live(program)
      /\ \A id \in Live(program) : program.op[id].kind \in Users => program.op[id].leaf = id
  BY <1>1, PolyLoweringAssumption
<1>3. ErasedOK(program)
  <2> DEFINE rank == [v \in {} |-> 0]
  <2>1. DOMAIN program.op \ Live(program) = {} /\ 0 \in Nat
    BY <1>2
  <2>2. rank \in [{} -> 0..0]
    OBVIOUS
  <2> HIDE DEF rank
  <2>3. Ranked(program, rank, 0)
    BY <2>1, <2>2 DEF Ranked
  <2> QED
    BY <2>3 DEF ErasedOK
<1>4. ASSUME NEW V, NEW ph, NEW sl, NEW operands
      PROVE  Meaning(program, V, program, V, <<>>, <<>>, None, ph, None, sl, operands)
  <2>1. UsersMean(program, V, program, V)
    BY <1>2 DEF UsersMean, Users
  <2>2. CacheMeans(program, V, <<>>)
    BY DEF CacheMeans
  <2> QED
    BY <2>1, <2>2, IdleMeans
<1>5. \A inputs : Now(inputs) = AtFirst(inputs)
  BY <1>1 DEF Now, AtFirst
<1> DEFINE ph == phase
           sl == slots
           operands == call.operands
<1> HIDE DEF ph, sl, operands
<1>6. \A inputs : Meaning(body, Now(inputs), program, AtFirst(inputs), rewrites, stack, returned, ph, current, sl, operands)
  BY <1>1, <1>4, <1>5
<1> QED
  BY <1>1, <1>3, <1>6 DEF Faithful, ph, sl, operands

(* It holds when nothing changes. *)
LEMMA FaithfulStutters ==
  ASSUME Faithful, UNCHANGED vars
  PROVE  Faithful'
<1>1. /\ program' = program /\ body' = body /\ auxAssignments' = auxAssignments /\ rewrites' = rewrites
      /\ stack' = stack /\ returned' = returned /\ phase' = phase /\ current' = current /\ slots' = slots /\ call' = call
  BY DEF vars
<1> QED
  BY <1>1, QuietFaithful

(* Every step keeps it, unless an address is taken for a new operation. *)
LEMMA FaithfulKept ==
  ASSUME Inv, Settled, Faithful, ~ ReuseAddresses, [Next]_vars
  PROVE  Faithful'
<1>1. Inv'
  BY InvKept
<1>2. ASSUME LowerExpression PROVE Faithful'
  BY <1>1, <1>2, ReturnCachedFaithful, ReturnUnchangedFaithful, LowerLhsFaithful, LowerRhsFaithful,
     ReturnRootFaithful, BeginProductFaithful, FactorFaithful, ReturnProductFaithful DEF LowerExpression
<1>3. ASSUME RunOnOperation PROVE Faithful'
  BY <1>1, <1>3, WalkedFaithful, VisitCallFaithful, LowerOperandFaithful, LowerArgumentFaithful,
     SetOperandFaithful, MaterializeArgumentFaithful, ReplaceCallFaithful, LastStepsFaithful DEF RunOnOperation
<1>4. ASSUME UNCHANGED vars PROVE Faithful'
  BY <1>4, FaithfulStutters
<1> QED
  BY <1>2, <1>3, <1>4 DEF Next

(* In every execution the operands of the constraints, lookups and calls of *)
(* the block have the values they have in the program, and the constraints  *)
(* that the pass has added hold: products that are split, cached            *)
(* replacements that are taken elsewhere and copies of call operands stand  *)
(* for what was written.  A new operation has an address of its own.        *)
THEOREM ValuesKept == Spec => [](Settled /\ ~ ReuseAddresses => \A inputs : PreservedIn(inputs))
<1>1. Init => (Settled /\ ~ ReuseAddresses => Inv /\ Faithful)
  BY InvInit, FaithfulInit
<1>2. (Settled /\ ~ ReuseAddresses => Inv /\ Faithful) /\ [Next]_vars
        => (Settled /\ ~ ReuseAddresses => Inv /\ Faithful)'
  <2>1. (~ ReuseAddresses)' <=> ~ ReuseAddresses
    OBVIOUS
  <2> QED
    BY <2>1, InvKept, FaithfulKept, WasSettled
<1>3. Inv /\ Faithful => \A inputs : PreservedIn(inputs)
  <2> SUFFICES ASSUME Inv, Faithful, NEW inputs, NEW id \in Live(body), body.op[id].kind \in {"eq", "array", "call"}
               PROVE  LET now == Now(inputs)
                          before == AtFirst(inputs)
                          args == body.op[id].args
                          of == body.op[id].leaf
                      IN  IF of = 0 THEN now[args[1]] = now[args[2]]
                          ELSE \A k \in DOMAIN args : now[args[k]] = before[program.op[of].args[k]]
    BY DEF PreservedIn, Now, AtFirst
  <2> DEFINE now == Now(inputs)
             before == AtFirst(inputs)
             args == body.op[id].args
             of == body.op[id].leaf
  <2>1. UsersMean(body, now, program, before)
    BY DEF Faithful, Meaning
  <2>2. id # 0
    BY LiveIsSome DEF Inv, None
  <2> HIDE DEF now, before
  <2>3. IF of = 0 THEN now[args[1]] = now[args[2]]
        ELSE \A k \in DOMAIN args : now[args[k]] = before[program.op[of].args[k]]
    BY <2>1, <2>2 DEF UsersMean
  <2> QED
    BY <2>3, Zenon DEF now, before
<1> QED
  BY <1>1, <1>2, <1>3, PTL DEF Spec

(* So it is in the executions that the runs look at. *)
THEOREM Preservation == Spec => [](Settled /\ ~ ReuseAddresses => SystemPreserved)
<1>1. (\A inputs : PreservedIn(inputs)) => SystemPreserved
  BY DEF SystemPreserved
<1> QED
  BY <1>1, ValuesKept, PTL
=============================================================================
