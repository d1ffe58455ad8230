---------------------- MODULE RedundantReadWrite_proofs ----------------------
(***************************************************************************)
(* Proofs about RedundantReadWrite, for functions of any length and with   *)
(* any number of regions one after the other: the walk replaces reads of   *)
(* globals and of the RAM by what they read, and in a straight line the    *)
(* writes it takes for redundant are seen by nobody.                       *)
(***************************************************************************)
EXTENDS RedundantReadWrite, TLAPS

(* What has been defined so far, on this way or another. *)
Defined == Consts \cup Args \cup 1 .. n

(* The facts that are relied upon. *)
Trusted(k) == k[1] \in Stateful \/ plain

(* Facts name values that were defined, stand for themselves where they      *)
(* must, and are never about a value that is to be replaced.                 *)
FactsInv(f) ==
  \A k \in Keys : f[k] # None =>
    /\ f[k] \in Defined /\ k[2] \in Defined
    /\ k[1] = "global" \/ (k[1] = "array" /\ plain) => k[2] \in Consts
    /\ f[k] \in Ops => replacement[f[k]] = None

(* Facts about what is defined in a scope; facts that are true. *)
Within(f, sc) == \A k \in Keys : Trusted(k) /\ f[k] # None => f[k] \in sc /\ k[2] \in sc
Holds(f, m) == \A k \in Keys : Trusted(k) /\ f[k] # None => env[f[k]] = m[<<k[1], env[k[2]]>>]
ClosedScope(sc) == \A v \in sc : v \in Ops /\ replacement[v] # None => replacement[v] \in sc

ReplacementInv ==
  \A r \in Ops :
    /\ r > n => replacement[r] = None /\ env[r] = None /\ r \notin strays
    /\ replacement[r] # None => replacement[r] \in Defined

ScopeInv ==
  /\ scope \subseteq Defined
  /\ Consts \subseteq scope
  /\ \A c \in Consts : env[c] = c
  /\ live => \A v \in scope : env[v] \in Data
  /\ region # "none" =>
       /\ parent.scope \subseteq scope
       /\ Consts \subseteq parent.scope
       /\ \A v \in parent.scope : env[v] \in Data

RegionInv ==
  /\ region = "none" => live /\ ~ second
  /\ region \notin {"none", "ifelse"} => ~ plain
  /\ second => region \in {"ifelse", "while"}
  /\ region # "none" => first.mem \in [Places -> Data]
  /\ region = "while" /\ ~ second =>
       live /\ \A k \in Keys : k[1] \in Stateful => first.facts[k] = None

StaticInv ==
  /\ FactsInv(facts)
  /\ FactsInv(parent.facts)
  /\ FactsInv(first.facts)
  /\ ReplacementInv
  /\ NoDaisyChain
  /\ ScopeInv
  /\ RegionInv

(* What holds as long as no replaced read of a member or an array is wrong. *)
Truth ==
  /\ \A r \in Ops : Right(r)
  /\ Within(facts, scope)
  /\ ClosedScope(scope)
  /\ live => Holds(facts, mem)
  /\ region # "none" => Within(parent.facts, parent.scope) /\ ClosedScope(parent.scope)
  /\ region # "none" /\ ~ second => Within(first.facts, parent.scope)
  /\ second =>
       \A k \in Keys : Trusted(k) /\ first.facts[k] # None =>
         {first.facts[k], k[2]} \cap scope \subseteq parent.scope
  /\ region \in {"if", "for"} /\ ~ live => Holds(parent.facts, mem)
  /\ region = "ifelse" /\ ~ live => Holds(first.facts, mem)
  /\ region = "while" /\ second => Holds(first.facts, first.mem)

IInv ==
  /\ TypeOK
  /\ StaticInv
  /\ plain => TreeReadsRight
  /\ TreeReadsRight => Truth

-----------------------------------------------------------------------------
LEMMA OpsFacts ==
  /\ Ops \subseteq Nat
  /\ \A v \in Consts \cup Args : v \notin Ops /\ v # None
  /\ \A r \in Ops : r # None
  /\ None \notin Values /\ None \notin Data
BY ValuesAssumption DEF Ops, Values

LEMMA DefinedType ==
  ASSUME TypeOK
  PROVE  /\ Defined \subseteq Values
         /\ n < MaxOps => n + 1 \in Ops /\ n + 1 \notin Defined
<1>1. n \in Nat /\ n <= MaxOps /\ MaxOps \in Nat
  BY ValuesAssumption DEF TypeOK
<1>2. 1 .. n \subseteq Ops
  BY <1>1 DEF Ops
<1>3. ASSUME n < MaxOps PROVE n + 1 \in Ops /\ n + 1 \notin 1 .. n
  BY <1>1, <1>3 DEF Ops
<1>4. ASSUME n < MaxOps PROVE n + 1 \notin Consts \cup Args
  BY <1>3, <1>4, OpsFacts
<1> QED
  BY <1>2, <1>3, <1>4 DEF Defined, Values

(* The value the pass uses for v stands for itself. *)
LEMMA TranslateType ==
  ASSUME TypeOK, StaticInv, NEW v \in Defined
  PROVE  /\ Translate(v) \in Defined /\ Translate(v) \in Values
         /\ v \in Consts => Translate(v) = v
         /\ Translate(v) \in Ops => replacement[Translate(v)] = None
<1>1. Defined \subseteq Values
  BY DefinedType
<1>2. Translate(v) \in Defined
  BY DEF StaticInv, ReplacementInv, Translate
<1>3. v \in Consts => Translate(v) = v
  BY OpsFacts DEF Translate
<1>4. Translate(v) \in Ops => replacement[Translate(v)] = None
  BY DEF Translate, StaticInv, NoDaisyChain
<1> QED
  BY <1>1, <1>2, <1>3, <1>4

(* It has the same value when the function runs. *)
LEMMA TranslateRight ==
  ASSUME IInv, TreeReadsRight, NEW v \in scope
  PROVE  /\ Translate(v) \in scope
         /\ live => env[Translate(v)] = env[v] /\ env[v] \in Data
<1>1. Translate(v) \in scope
  BY DEF IInv, Truth, ClosedScope, Translate
<1>2. ASSUME live PROVE env[Translate(v)] = env[v] /\ env[v] \in Data
  <2>1. env[v] \in Data /\ env[v] # None
    BY <1>2, OpsFacts DEF IInv, StaticInv, ScopeInv
  <2>2. CASE v \in Ops /\ replacement[v] # None
    BY <2>1, <2>2 DEF IInv, Truth, Right, Translate
  <2>3. CASE ~ (v \in Ops /\ replacement[v] # None)
    BY <2>1, <2>3 DEF Translate
  <2> QED
    BY <2>2, <2>3
<1> QED
  BY <1>1, <1>2

LEMMA KeyType ==
  ASSUME TypeOK, StaticInv, NEW class \in Classes, NEW v \in Defined
  PROVE  Key(class, v) \in Keys /\ Key(class, v)[1] = class /\ Key(class, v)[2] = Translate(v)
BY TranslateType DEF Key, Keys

LEMMA NamesDefined ==
  ASSUME TypeOK, StaticInv, NEW class \in Classes, NEW v \in Names(class)
  PROVE  v \in scope /\ v \in Defined
BY DEF Names, StaticInv, ScopeInv

-----------------------------------------------------------------------------
LEMMA InitInv == Init => IInv
<1> SUFFICES ASSUME Init PROVE IInv
  OBVIOUS
<1>1. PICK arg \in [Args -> Data] :
        env = [v \in Values |-> IF v \in Consts THEN v ELSE IF v \in Args THEN arg[v] ELSE None]
  BY DEF Init
<1>2. TypeOK
  <2>1. env \in [Values -> Data \cup {None}]
    BY <1>1, ValuesAssumption
  <2>2. mem \in [Places -> Data]
    BY ValuesAssumption DEF Init
  <2>3. n \in 0 .. MaxOps /\ regions \in Nat
    BY ValuesAssumption DEF Init
  <2>4. parent \in [facts : [Keys -> Values \cup {None}], scope : SUBSET Values]
    BY DEF Init, NoParent, NoFacts
  <2>5. first \in [facts : [Keys -> Values \cup {None}], lastWrite : [Keys -> Ops \cup {None}],
                   mem : [Places -> Data \cup {None}]]
    BY DEF Init, NoState, NoFacts, NoWrites
  <2>6. scope \subseteq Values
    BY DEF Init, Values
  <2>7. redundant \in Seq(Ops)
    BY DEF Init
  <2> QED
    BY <2>1, <2>2, <2>3, <2>4, <2>5, <2>6, <2>7 DEF Init, TypeOK, NoFacts, NoWrites
<1>3. StaticInv
  <2>1. FactsInv(facts) /\ FactsInv(parent.facts) /\ FactsInv(first.facts)
    BY DEF Init, FactsInv, NoParent, NoState, NoFacts
  <2>2. ReplacementInv
    BY <1>1, OpsFacts DEF Init, ReplacementInv, Values
  <2>3. NoDaisyChain
    BY OpsFacts DEF Init, NoDaisyChain
  <2>4. ScopeInv
    <3>1. \A c \in Consts : env[c] = c /\ c \in Data
      BY <1>1, ValuesAssumption DEF Values
    <3>2. \A v \in Args : v \notin Consts /\ env[v] \in Data
      BY <1>1, ValuesAssumption DEF Values
    <3> QED
      BY <3>1, <3>2 DEF Init, ScopeInv, Defined
  <2>5. RegionInv
    BY DEF Init, RegionInv
  <2> QED
    BY <2>1, <2>2, <2>3, <2>4, <2>5 DEF StaticInv
<1>4. \A r \in Ops : Right(r)
  BY DEF Init, Right
<1>5. Truth
  <2>1. Within(facts, scope) /\ Holds(facts, mem)
    BY DEF Init, Within, Holds, NoFacts
  <2>2. ClosedScope(scope)
    BY DEF Init, ClosedScope
  <2> QED
    BY <1>4, <2>1, <2>2 DEF Init, Truth
<1> QED
  BY <1>2, <1>3, <1>4, <1>5 DEF IInv, TreeReadsRight

-----------------------------------------------------------------------------
LEMMA TranslateValues ==
  ASSUME TypeOK, NEW class \in Classes, NEW v \in Values
  PROVE  Translate(v) \in Values /\ Key(class, v) \in Keys
BY DEF TypeOK, Translate, Key, Keys

LEMMA PlaceType ==
  ASSUME TypeOK, StaticInv, live, NEW class \in Classes, NEW v \in scope
  PROVE  env[v] \in Data /\ Place(class, v) \in Places
BY DEF StaticInv, ScopeInv, Place, Places

LEMMA ForgetType ==
  ASSUME NEW f \in [Keys -> Values \cup {None}]
  PROVE  Forget(f) \in [Keys -> Values \cup {None}]
BY DEF Forget

LEMMA ReadType ==
  ASSUME TypeOK, StaticInv, NEW class \in Classes, NEW v \in Values, Read(class, v)
  PROVE  TypeOK'
<1>1. v \in scope /\ n' = n + 1 /\ n < MaxOps
  <2>1. shape \in [classes : SUBSET Classes, ops : 0 .. MaxOps, kinds : SUBSET RegionKinds]
    BY ValuesAssumption DEF TypeOK
  <2> QED
    BY <2>1, NamesDefined, ValuesAssumption DEF Read, TypeOK
<1>2. n' \in Ops /\ n' \in 0 .. MaxOps
  BY <1>1, DefinedType, ValuesAssumption DEF TypeOK
<1>3. Key(class, v) \in Keys
  BY TranslateValues
<1>4. env' \in [Values -> Data \cup {None}]
  <2>1. CASE live
    <3>1. mem[Place(class, v)] \in Data
      BY <1>1, <2>1, PlaceType DEF TypeOK
    <3> QED
      BY <2>1, <3>1 DEF Read, TypeOK
  <2>2. CASE ~ live
    BY <2>2 DEF Read, TypeOK
  <2> QED
    BY <2>1, <2>2
<1>5. facts' \in [Keys -> Values \cup {None}] /\ replacement' \in [Ops -> Values \cup {None}]
  BY <1>2, <1>3 DEF Read, TypeOK, Values
<1>6. observed' \subseteq Ops \cup {None}
  <2>1. CASE live
    BY <1>1, <2>1, PlaceType DEF Read, TypeOK
  <2>2. CASE ~ live
    BY <2>2 DEF Read, TypeOK
  <2> QED
    BY <2>1, <2>2
<1>7. accessed' \in [Ops -> Classes \cup {None}] /\ plain' \in BOOLEAN /\ strays' \subseteq Ops
  BY <1>2 DEF Read, TypeOK
<1>8. scope' \subseteq Values
  BY <1>2 DEF Read, TypeOK, Values
<1> QED
  BY <1>2, <1>4, <1>5, <1>6, <1>7, <1>8 DEF Read, TypeOK, control

LEMMA WriteStepType ==
  ASSUME TypeOK, StaticInv, NEW class \in Classes, NEW i \in Values, NEW v \in Values,
         WriteStep(class, i, v)
  PROVE  /\ i \in scope /\ v \in scope /\ n' = n + 1 /\ n' \in Ops /\ n' \in 0 .. MaxOps
         /\ mem' \in [Places -> Data]
         /\ accessed' \in [Ops -> Classes \cup {None}]
         /\ live => Place(class, i) \in Places
<1>1. i \in scope /\ v \in scope /\ n' = n + 1 /\ n < MaxOps
  <2>1. shape \in [classes : SUBSET Classes, ops : 0 .. MaxOps, kinds : SUBSET RegionKinds]
    BY ValuesAssumption DEF TypeOK
  <2> QED
    BY <2>1, NamesDefined, ValuesAssumption DEF WriteStep, TypeOK
<1>2. n' \in Ops /\ n' \in 0 .. MaxOps
  BY <1>1, DefinedType, ValuesAssumption DEF TypeOK
<1>3. mem' \in [Places -> Data] /\ (live => Place(class, i) \in Places)
  <2>1. CASE live
    <3>1. env[v] \in Data /\ Place(class, i) \in Places
      BY <1>1, <2>1, PlaceType
    <3> QED
      BY <2>1, <3>1 DEF WriteStep, TypeOK
  <2>2. CASE ~ live
    BY <2>2 DEF WriteStep, TypeOK
  <2> QED
    BY <2>1, <2>2
<1>4. accessed' \in [Ops -> Classes \cup {None}]
  BY <1>2 DEF WriteStep, TypeOK
<1> QED
  BY <1>1, <1>2, <1>3, <1>4

LEMMA WriteGlobalType ==
  ASSUME TypeOK, StaticInv, NEW g \in Consts, NEW v \in Values, WriteGlobal(g, v)
  PROVE  TypeOK'
<1>1. WriteStep("global", g, v) /\ "global" \in Classes /\ g \in Values
  BY DEF WriteGlobal, Classes, Stateful, Values
<1>2. facts' \in [Keys -> Values \cup {None}]
  BY <1>1, TranslateValues DEF WriteGlobal, TypeOK
<1> QED
  BY <1>1, <1>2, WriteStepType DEF TypeOK, WriteGlobal, WriteStep, control

LEMMA StoreRamType ==
  ASSUME TypeOK, StaticInv, NEW a \in Values, NEW v \in Values, StoreRam(a, v)
  PROVE  TypeOK'
<1>1. WriteStep("ram", a, v) /\ "ram" \in Classes
  BY DEF StoreRam, Classes, Stateful
<1>2. facts' \in [Keys -> Values \cup {None}]
  BY <1>1, TranslateValues DEF StoreRam, AfterStore, TypeOK
<1> QED
  BY <1>1, <1>2, WriteStepType DEF TypeOK, StoreRam, WriteStep, control

LEMMA WithoutType ==
  ASSUME NEW S, NEW f \in [Keys -> S \cup {None}], NEW gone
  PROVE  Without(f, gone) \in [Keys -> S \cup {None}]
BY DEF Without

LEMMA SeqType ==
  ASSUME NEW S, NEW s \in Seq(S), NEW x \in S, NEW t \in Seq(S)
  PROVE  Append(s, x) \in Seq(S) /\ s \o t \in Seq(S)
OBVIOUS

LEMMA WriteTreeType ==
  ASSUME TypeOK, StaticInv, NEW class \in {"array", "member"}, NEW i \in Values, NEW v \in Values,
         WriteTree(class, i, v)
  PROVE  TypeOK'
<1> DEFINE k == Key(class, i)
           f == Without(facts, Invalidated(k))
           w == Without(lastWrite, ForgottenWrites(k))
<1>1. WriteStep(class, i, v) /\ class \in Classes
  BY DEF WriteTree, Classes, Stateful
<1>2. k \in Keys /\ Translate(v) \in Values
  BY <1>1, TranslateValues
<1>3. f \in [Keys -> Values \cup {None}] /\ w \in [Keys -> Ops \cup {None}]
  BY WithoutType DEF TypeOK
<1>4. n' \in Ops
  BY <1>1, WriteStepType
<1>5. facts' \in [Keys -> Values \cup {None}] /\ lastWrite' \in [Keys -> Ops \cup {None}]
  <2>1. facts' \in {f, [f EXCEPT ![k] = Translate(v)]}
    BY DEF WriteTree
  <2>2. lastWrite' \in {w, [w EXCEPT ![k] = n']}
    BY DEF WriteTree
  <2> HIDE DEF f, w, k
  <2> QED
    BY <1>2, <1>3, <1>4, <2>1, <2>2
<1>6. redundant' \in Seq(Ops)
  <2>1. Overwritten(k) \in Seq(Ops)
    <3>1. Overwritten(k) = IF w[k] = None THEN <<>> ELSE <<w[k]>>
      BY DEF Overwritten
    <3>2. w[k] \in Ops \cup {None}
      <4> HIDE DEF k, w
      <4> QED
        BY <1>2, <1>3
    <3> HIDE DEF k, w
    <3>3. w[k] # None => <<w[k]>> \in Seq(Ops)
      BY <3>2
    <3> QED
      BY <3>1, <3>3
  <2>2. redundant' = Append(redundant, n') \/ redundant' = redundant \o Overwritten(k)
    BY DEF WriteTree
  <2> HIDE DEF k
  <2> QED
    <3>1. redundant \in Seq(Ops)
      BY DEF TypeOK
    <3>2. Append(redundant, n') \in Seq(Ops)
      BY <1>4, <3>1, SeqType
    <3>3. redundant \o Overwritten(k) \in Seq(Ops)
      BY <1>4, <2>1, <3>1, SeqType
    <3> QED
      BY <2>2, <3>2, <3>3
<1>7. writer' \in [Places -> Ops \cup {None}]
  <2>1. writer' \in {writer, [writer EXCEPT ![Place(class, i)] = n']}
    BY DEF WriteTree
  <2> QED
    BY <1>4, <2>1 DEF TypeOK
<1>8. plain' \in BOOLEAN
  BY DEF WriteTree, TypeOK
<1> HIDE DEF k, f, w
<1> QED
  BY <1>1, <1>5, <1>6, <1>7, <1>8, WriteStepType DEF TypeOK, WriteStep, control

LEMMA UnknownEffectType ==
  ASSUME TypeOK, StaticInv, NEW handed \in SUBSET {"array", "member"}, NEW changed \in SUBSET handed,
         UnknownEffect(handed, changed)
  PROVE  TypeOK' /\ n' = n + 1
<1>1. n < MaxOps /\ n' = n + 1
  <2>1. shape \in [classes : SUBSET Classes, ops : 0 .. MaxOps, kinds : SUBSET RegionKinds]
    BY ValuesAssumption DEF TypeOK
  <2> QED
    BY <2>1, ValuesAssumption DEF UnknownEffect, TypeOK
<1>2. n' \in 0 .. MaxOps
  BY <1>1, ValuesAssumption DEF TypeOK
<1>3. facts' \in [Keys -> Values \cup {None}]
  BY ForgetType DEF UnknownEffect, TypeOK
<1>4. mem' \in [Places -> Data]
  <2>1. PICK m \in Memories :
          mem' = IF live THEN [p \in Places |-> IF p[1] \in Stateful \cup changed THEN m[p] ELSE mem[p]]
                 ELSE mem
    BY DEF UnknownEffect
  <2> QED
    BY <2>1, ValuesAssumption DEF TypeOK
<1>5. writer' \in [Places -> Ops \cup {None}]
  BY DEF UnknownEffect, TypeOK
<1>6. handed \subseteq Classes /\ plain' \in BOOLEAN
  BY DEF UnknownEffect, TypeOK, Classes
<1>7. observed' \subseteq Ops \cup {None}
  <2>1. handed \X Data \subseteq Places
    BY <1>6 DEF Places
  <2> QED
    BY <2>1 DEF UnknownEffect, TypeOK
<1> QED
  BY <1>1, <1>2, <1>3, <1>4, <1>5, <1>6, <1>7 DEF TypeOK, UnknownEffect, control

LEMMA EnterRegionType ==
  ASSUME TypeOK, NEW kind \in RegionKinds, EnterRegion(kind)
  PROVE  TypeOK'
<1>1. AtEntry(kind, facts) \in [Keys -> Values \cup {None}]
  BY ForgetType DEF AtEntry, TypeOK
<1>2. mem' \in [Places -> Data] /\ live' \in BOOLEAN
  BY ValuesAssumption DEF EnterRegion, EarlierIterations, TypeOK
<1>3. first' \in [facts : [Keys -> Values \cup {None}], lastWrite : [Keys -> Ops \cup {None}],
                 mem : [Places -> Data \cup {None}]]
  <2>1. mem \in [Places -> Data \cup {None}]
    BY DEF TypeOK
  <2> QED
    BY <1>1, <2>1 DEF EnterRegion, TypeOK
<1>4. parent' \in [facts : [Keys -> Values \cup {None}], scope : SUBSET Values]
  BY DEF EnterRegion, TypeOK
<1>5. regions' \in Nat /\ region' \in RegionKinds /\ second' \in BOOLEAN
  <2>1. regions \in Nat
    BY DEF TypeOK
  <2>2. regions' = regions + 1 /\ region' = kind /\ second' = FALSE
    BY DEF EnterRegion
  <2>3. regions' \in Nat
    BY <2>1, <2>2
  <2>4. region' \in RegionKinds
    BY <2>2
  <2>5. second' \in BOOLEAN
    BY <2>2
  <2> QED
    BY <2>3, <2>4, <2>5
<1>6. plain' \in BOOLEAN
  <2>1. plain' = (plain /\ kind = "ifelse")
    BY DEF EnterRegion
  <2> QED
    BY <2>1 DEF TypeOK
<1>7. facts' \in [Keys -> Values \cup {None}]
  BY <1>1 DEF EnterRegion
<1> QED
  BY <1>2, <1>3, <1>4, <1>5, <1>6, <1>7 DEF EnterRegion, TypeOK

LEMMA NextRegionType ==
  ASSUME TypeOK, NextRegion
  PROVE  TypeOK'
<1>1. mem' \in [Places -> Data] /\ live' \in BOOLEAN
  BY ValuesAssumption DEF NextRegion, EarlierIterations, TypeOK
<1>2. first' \in [facts : [Keys -> Values \cup {None}], lastWrite : [Keys -> Ops \cup {None}],
                 mem : [Places -> Data \cup {None}]]
  <2>1. mem \in [Places -> Data \cup {None}]
    BY DEF TypeOK
  <2> QED
    BY <2>1 DEF NextRegion, TypeOK
<1>3. /\ facts' \in [Keys -> Values \cup {None}] /\ lastWrite' \in [Keys -> Ops \cup {None}]
      /\ scope' \subseteq Values
  BY DEF NextRegion, TypeOK
<1> QED
  BY <1>1, <1>2, <1>3 DEF NextRegion, TypeOK

LEMMA LeaveRegionType ==
  ASSUME TypeOK, StaticInv, LeaveRegion
  PROVE  TypeOK'
<1>1. facts' \in [Keys -> Values \cup {None}]
  BY DEF LeaveRegion, AfterRegion, TypeOK
<1>2. lastWrite' \in [Keys -> Ops \cup {None}]
  BY DEF LeaveRegion, TypeOK
<1>3. mem' \in [Places -> Data]
  BY DEF LeaveRegion, TypeOK, StaticInv, RegionInv
<1>4. /\ parent' \in [facts : [Keys -> Values \cup {None}], scope : SUBSET Values]
      /\ first' \in [facts : [Keys -> Values \cup {None}], lastWrite : [Keys -> Ops \cup {None}],
                    mem : [Places -> Data \cup {None}]]
  BY DEF LeaveRegion, NoParent, NoState, NoFacts, NoWrites
<1>5. scope' \subseteq Values
  BY DEF LeaveRegion, TypeOK
<1> QED
  BY <1>1, <1>2, <1>3, <1>4, <1>5 DEF LeaveRegion, TypeOK

-----------------------------------------------------------------------------
(* What a step leaves of facts it does not touch. *)
LEMMA FreshOp ==
  ASSUME TypeOK, StaticInv, n < MaxOps
  PROVE  /\ n + 1 \in Ops /\ n + 1 \notin Defined /\ n + 1 \notin scope
         /\ replacement[n + 1] = None /\ env[n + 1] = None /\ n + 1 \notin strays
         /\ 1 .. (n + 1) = (1 .. n) \cup {n + 1}
         /\ \A r \in Ops : r # n + 1 /\ r > n => r > n + 1
<1>1. n \in Nat /\ n + 1 \in Ops /\ n + 1 \notin Defined
  BY DefinedType, ValuesAssumption DEF TypeOK
<1>2. n + 1 \notin scope
  BY <1>1 DEF StaticInv, ScopeInv
<1>3. replacement[n + 1] = None /\ env[n + 1] = None /\ n + 1 \notin strays
  BY <1>1 DEF StaticInv, ReplacementInv
<1>4. 1 .. (n + 1) = (1 .. n) \cup {n + 1}
  BY <1>1
<1>5. \A r \in Ops : r # n + 1 /\ r > n => r > n + 1
  BY <1>1, OpsFacts
<1> QED
  BY <1>1, <1>2, <1>3, <1>4, <1>5

LEMMA ReadStatic ==
  ASSUME TypeOK, StaticInv, NEW class \in Classes, NEW v \in Values, Read(class, v), TypeOK'
  PROVE  StaticInv'
<1> DEFINE k == Key(class, v)
<1>1. n' = n + 1 /\ n < MaxOps /\ v \in scope /\ v \in Defined
  <2>1. shape \in [classes : SUBSET Classes, ops : 0 .. MaxOps, kinds : SUBSET RegionKinds]
    BY ValuesAssumption DEF TypeOK
  <2> QED
    BY <2>1, NamesDefined, ValuesAssumption DEF Read, TypeOK
<1>2. /\ Defined' = Defined \cup {n + 1} /\ n + 1 \in Ops /\ n + 1 \notin Defined
      /\ replacement[n + 1] = None /\ env[n + 1] = None /\ n + 1 \notin scope
  BY <1>1, FreshOp DEF Defined
<1>3. /\ k \in Keys /\ k[1] = class /\ k[2] = Translate(v) /\ Translate(v) \in Defined
      /\ class = "global" \/ (class = "array" /\ plain') => Translate(v) \in Consts
  <2>1. class = "global" => v \in Consts
    BY DEF Read, Names
  <2>2. plain' => ~ IsVariableIndex(class, v)
    BY DEF Read
  <2> QED
    BY <1>1, <2>1, <2>2, KeyType, TranslateType DEF IsVariableIndex
<1>4. plain' => plain
  BY DEF Read
<1>5. \A r \in Ops : r # n + 1 => replacement'[r] = replacement[r]
  BY <1>1 DEF Read, TypeOK
<1>6. replacement'[n + 1] = facts[k]
  BY <1>1, <1>2 DEF Read, TypeOK
<1>7. \A q \in Keys : facts'[q] = facts[q] \/ (q = k /\ facts'[q] = n + 1 /\ facts[k] = None)
  BY <1>1, <1>3 DEF Read, TypeOK
<1>8. FactsInv(facts)'
  <2> SUFFICES ASSUME NEW q \in Keys, facts'[q] # None
               PROVE  /\ facts'[q] \in Defined' /\ q[2] \in Defined'
                      /\ q[1] = "global" \/ (q[1] = "array" /\ plain') => q[2] \in Consts
                      /\ facts'[q] \in Ops => replacement'[facts'[q]] = None
    BY DEF FactsInv
  <2>1. CASE facts'[q] = facts[q]
    BY <1>2, <1>4, <1>5, <2>1 DEF StaticInv, FactsInv
  <2>2. CASE q = k /\ facts'[q] = n + 1 /\ facts[k] = None
    BY <1>2, <1>3, <1>6, <2>2
  <2> QED
    BY <1>7, <2>1, <2>2
<1>9. FactsInv(parent.facts)' /\ FactsInv(first.facts)'
  <2>1. parent' = parent /\ first' = first
    BY DEF Read, control
  <2> QED
    BY <1>2, <1>4, <1>5, <2>1 DEF StaticInv, FactsInv
<1>10. \A r \in Ops : r # n + 1 => env'[r] = env[r]
  BY <1>1 DEF Read, TypeOK
<1>11. ReplacementInv'
  <2>1. facts[k] # None => facts[k] \in Defined
    BY <1>3 DEF StaticInv, FactsInv
  <2> SUFFICES ASSUME NEW r \in Ops
               PROVE  /\ r > n' => replacement'[r] = None /\ env'[r] = None /\ r \notin strays'
                      /\ replacement'[r] # None => replacement'[r] \in Defined'
    BY DEF ReplacementInv
  <2>2. CASE r = n + 1
    BY <1>1, <1>2, <1>6, <2>1, <2>2, OpsFacts
  <2>3. CASE r # n + 1
    <3>1. r > n' => r > n
      BY <1>1, OpsFacts, ValuesAssumption DEF TypeOK
    <3>2. strays' \subseteq strays \cup {n + 1}
      BY <1>1 DEF Read
    <3> QED
      BY <1>2, <1>5, <1>10, <2>3, <3>1, <3>2 DEF StaticInv, ReplacementInv
  <2> QED
    BY <2>2, <2>3
<1>12. NoDaisyChain'
  <2>1. facts[k] \in Ops => replacement[facts[k]] = None /\ facts[k] \in Defined
    BY <1>3, OpsFacts DEF StaticInv, FactsInv
  <2> SUFFICES ASSUME NEW r \in Ops, replacement'[r] \in Ops
               PROVE  replacement'[replacement'[r]] = None
    BY DEF NoDaisyChain
  <2>2. CASE r = n + 1
    BY <1>2, <1>5, <1>6, <2>1, <2>2
  <2>3. CASE r # n + 1
    BY <1>2, <1>5, <2>3, OpsFacts DEF StaticInv, ReplacementInv, NoDaisyChain
  <2> QED
    BY <2>2, <2>3
<1>13. ScopeInv'
  <2>1. scope' = scope \cup {n + 1} /\ live' = live /\ region' = region /\ parent' = parent
    BY <1>1 DEF Read, control
  <2>2. \A u \in Values : u # n + 1 => env'[u] = env[u]
    BY <1>1 DEF Read, TypeOK
  <2>3. live => env'[n + 1] \in Data
    <3>1. ASSUME live PROVE mem[Place(class, v)] \in Data
      BY <1>1, <3>1, PlaceType DEF TypeOK
    <3>2. n + 1 \in Values
      BY <1>2 DEF Values
    <3> QED
      BY <1>1, <3>1, <3>2 DEF Read, TypeOK
  <2>4. \A u \in scope : u \in Values /\ u # n + 1
    BY <1>2, DefinedType DEF StaticInv, ScopeInv
  <2> QED
    BY <1>2, <2>1, <2>2, <2>3, <2>4 DEF StaticInv, ScopeInv
<1>14. RegionInv'
  BY <1>4 DEF Read, control, StaticInv, RegionInv
<1> QED
  BY <1>8, <1>9, <1>11, <1>12, <1>13, <1>14 DEF StaticInv

(* A write changes what is known in these ways only. *)
WritesFacts(class, i, v) ==
  /\ plain' => plain
  /\ class = "array" /\ plain' => Translate(i) \in Consts
  /\ \A q \in Keys :
       facts'[q] \in {None, facts[q]} \/ (q = Key(class, i) /\ facts'[q] = Translate(v))

LEMMA WriteStatic ==
  ASSUME TypeOK, StaticInv, NEW class \in Classes, NEW i \in Values, NEW v \in Values,
         WriteStep(class, i, v), WritesFacts(class, i, v)
  PROVE  StaticInv'
<1> DEFINE k == Key(class, i)
<1>1. n' = n + 1 /\ n < MaxOps /\ i \in scope /\ v \in scope /\ i \in Defined /\ v \in Defined
  <2>1. shape \in [classes : SUBSET Classes, ops : 0 .. MaxOps, kinds : SUBSET RegionKinds]
    BY ValuesAssumption DEF TypeOK
  <2> QED
    BY <2>1, NamesDefined, ValuesAssumption DEF WriteStep, TypeOK, StaticInv, ScopeInv
<1>2. Defined' = Defined \cup {n + 1} /\ n \in Nat
  BY <1>1, FreshOp, ValuesAssumption DEF Defined, TypeOK
<1>3. /\ k \in Keys /\ k[1] = class /\ k[2] = Translate(i) /\ Translate(i) \in Defined
      /\ Translate(v) \in Defined /\ (Translate(v) \in Ops => replacement[Translate(v)] = None)
      /\ class = "global" \/ (class = "array" /\ plain') => Translate(i) \in Consts
  <2>1. class = "global" => i \in Consts
    BY DEF WriteStep, Names
  <2> QED
    BY <1>1, <2>1, KeyType, TranslateType DEF WritesFacts
<1>4. UNCHANGED <<replacement, scope, env, strays, region, second, parent, first, live>>
  BY DEF WriteStep, control
<1>5. FactsInv(facts)'
  <2> SUFFICES ASSUME NEW q \in Keys, facts'[q] # None
               PROVE  /\ facts'[q] \in Defined' /\ q[2] \in Defined'
                      /\ q[1] = "global" \/ (q[1] = "array" /\ plain') => q[2] \in Consts
                      /\ facts'[q] \in Ops => replacement'[facts'[q]] = None
    BY DEF FactsInv
  <2>1. CASE facts'[q] = facts[q]
    BY <1>2, <1>4, <2>1 DEF StaticInv, FactsInv, WritesFacts
  <2>2. CASE q = k /\ facts'[q] = Translate(v)
    BY <1>2, <1>3, <1>4, <2>2
  <2> QED
    BY <2>1, <2>2 DEF WritesFacts
<1>6. FactsInv(parent.facts)' /\ FactsInv(first.facts)'
  BY <1>2, <1>4 DEF StaticInv, FactsInv, WritesFacts
<1>7. ReplacementInv'
  <2>1. \A r \in Ops : r > n' => r > n
    BY <1>1, <1>2, OpsFacts
  <2> QED
    BY <1>2, <1>4, <2>1 DEF StaticInv, ReplacementInv
<1>8. NoDaisyChain' /\ ScopeInv'
  BY <1>2, <1>4 DEF StaticInv, NoDaisyChain, ScopeInv
<1>9. RegionInv'
  BY <1>4 DEF StaticInv, RegionInv, WritesFacts
<1> QED
  BY <1>5, <1>6, <1>7, <1>8, <1>9 DEF StaticInv

LEMMA WriteGlobalStatic ==
  ASSUME TypeOK, StaticInv, NEW g \in Consts, NEW v \in Values, WriteGlobal(g, v)
  PROVE  WritesFacts("global", g, v) /\ StaticInv'
<1>1. WriteStep("global", g, v) /\ "global" \in Classes /\ g \in Values
  BY DEF WriteGlobal, Classes, Stateful, Values
<1>2. WritesFacts("global", g, v)
  BY DEF WritesFacts, WriteGlobal, TypeOK
<1> QED
  BY <1>1, <1>2, WriteStatic

LEMMA StoreRamStatic ==
  ASSUME TypeOK, StaticInv, NEW a \in Values, NEW v \in Values, StoreRam(a, v)
  PROVE  WritesFacts("ram", a, v) /\ StaticInv'
<1>1. WriteStep("ram", a, v) /\ "ram" \in Classes
  BY DEF StoreRam, Classes, Stateful
<1>2. WritesFacts("ram", a, v)
  BY DEF WritesFacts, StoreRam, AfterStore
<1> QED
  BY <1>1, <1>2, WriteStatic

LEMMA WriteTreeStatic ==
  ASSUME TypeOK, StaticInv, NEW class \in {"array", "member"}, NEW i \in Values, NEW v \in Values,
         WriteTree(class, i, v)
  PROVE  WritesFacts(class, i, v) /\ StaticInv'
<1> DEFINE k == Key(class, i)
           f == Without(facts, Invalidated(k))
<1>1. WriteStep(class, i, v) /\ class \in Classes
  BY DEF WriteTree, Classes, Stateful
<1>2. WritesFacts(class, i, v)
  <2>1. plain' => plain /\ ~ IsVariableIndex(class, i)
    BY DEF WriteTree
  <2>2. facts' \in {f, [f EXCEPT ![k] = Translate(v)]}
    BY DEF WriteTree
  <2>3. f \in [Keys -> Values \cup {None}] /\ \A q \in Keys : f[q] \in {None, facts[q]}
    BY DEF Without, TypeOK
  <2>4. \A q \in Keys : facts'[q] \in {None, facts[q]} \/ (q = k /\ facts'[q] = Translate(v))
    <3> HIDE DEF f, k
    <3> QED
      BY <2>2, <2>3
  <2> QED
    BY <2>1, <2>4 DEF WritesFacts, IsVariableIndex
<1> QED
  BY <1>1, <1>2, WriteStatic

LEMMA UnknownEffectStatic ==
  ASSUME TypeOK, StaticInv, NEW handed \in SUBSET {"array", "member"}, NEW changed \in SUBSET handed,
         UnknownEffect(handed, changed)
  PROVE  StaticInv'
<1>1. n' = n + 1 /\ n < MaxOps
  <2>1. shape \in [classes : SUBSET Classes, ops : 0 .. MaxOps, kinds : SUBSET RegionKinds]
    BY ValuesAssumption DEF TypeOK
  <2> QED
    BY <2>1, ValuesAssumption DEF UnknownEffect, TypeOK
<1>2. Defined' = Defined \cup {n + 1} /\ n \in Nat
  BY <1>1, FreshOp, ValuesAssumption DEF Defined, TypeOK
<1>3. UNCHANGED <<replacement, scope, env, strays, region, second, parent, first, live>>
      /\ (plain' => plain)
  BY DEF UnknownEffect, control
<1>4. \A q \in Keys : facts'[q] \in {None, facts[q]}
  BY DEF UnknownEffect, Forget
<1>5. FactsInv(facts)' /\ FactsInv(parent.facts)' /\ FactsInv(first.facts)'
  BY <1>2, <1>3, <1>4 DEF StaticInv, FactsInv
<1>6. ReplacementInv'
  <2>1. \A r \in Ops : r > n' => r > n
    BY <1>1, <1>2, OpsFacts
  <2> QED
    BY <1>2, <1>3, <2>1 DEF StaticInv, ReplacementInv
<1>7. NoDaisyChain' /\ ScopeInv'
  BY <1>2, <1>3 DEF StaticInv, NoDaisyChain, ScopeInv
<1>8. RegionInv'
  BY <1>3 DEF StaticInv, RegionInv
<1> QED
  BY <1>5, <1>6, <1>7, <1>8 DEF StaticInv

LEMMA EnterRegionStatic ==
  ASSUME TypeOK, StaticInv, NEW kind \in RegionKinds, EnterRegion(kind)
  PROVE  StaticInv'
<1>1. Defined' = Defined /\ UNCHANGED <<n, replacement, scope, env, strays>> /\ (plain' => plain)
  BY DEF EnterRegion, Defined
<1>2. \A q \in Keys : AtEntry(kind, facts)[q] \in {None, facts[q]}
  BY DEF AtEntry, Forget
<1>3. FactsInv(facts)' /\ FactsInv(parent.facts)' /\ FactsInv(first.facts)'
  <2>1. /\ facts' = AtEntry(kind, facts) /\ parent'.facts = facts
        /\ first'.facts = AtEntry(kind, facts)
    BY DEF EnterRegion
  <2> QED
    BY <1>1, <1>2, <2>1 DEF StaticInv, FactsInv
<1>4. ReplacementInv' /\ NoDaisyChain'
  BY <1>1 DEF StaticInv, ReplacementInv, NoDaisyChain
<1>5. ScopeInv'
  <2>1. parent'.scope = scope /\ live
    BY DEF EnterRegion, StaticInv, RegionInv
  <2> QED
    BY <1>1, <2>1 DEF StaticInv, ScopeInv
<1>6. RegionInv'
  <2>1. kind # "none" /\ region' = kind /\ ~ second' /\ (plain' => kind = "ifelse")
    BY DEF EnterRegion, RegionKinds
  <2>2. first'.mem \in [Places -> Data]
    BY DEF EnterRegion, TypeOK
  <2>3. kind = "while" => live' /\ \A k \in Keys : k[1] \in Stateful => first'.facts[k] = None
    BY DEF EnterRegion, AtEntry, Repeats, Forget
  <2> QED
    BY <2>1, <2>2, <2>3 DEF RegionInv
<1> QED
  BY <1>3, <1>4, <1>5, <1>6 DEF StaticInv

LEMMA NextRegionStatic ==
  ASSUME TypeOK, StaticInv, NextRegion
  PROVE  StaticInv'
<1>1. Defined' = Defined /\ UNCHANGED <<n, replacement, env, strays, plain, region, parent>>
  BY DEF NextRegion, Defined
<1>2. /\ facts' = first.facts /\ first'.facts = facts /\ scope' = parent.scope
      /\ first'.mem = mem /\ second' = TRUE /\ region \in {"ifelse", "while"}
  BY DEF NextRegion
<1>3. FactsInv(facts)' /\ FactsInv(parent.facts)' /\ FactsInv(first.facts)'
  BY <1>1, <1>2 DEF StaticInv, FactsInv
<1>4. ReplacementInv' /\ NoDaisyChain'
  BY <1>1 DEF StaticInv, ReplacementInv, NoDaisyChain
<1>5. ScopeInv'
  BY <1>1, <1>2 DEF StaticInv, ScopeInv
<1>6. RegionInv'
  BY <1>1, <1>2 DEF StaticInv, RegionInv, TypeOK
<1> QED
  BY <1>3, <1>4, <1>5, <1>6 DEF StaticInv

LEMMA LeaveRegionStatic ==
  ASSUME TypeOK, StaticInv, LeaveRegion
  PROVE  StaticInv'
<1>1. Defined' = Defined /\ UNCHANGED <<n, replacement, env, strays, plain>>
  BY DEF LeaveRegion, Defined
<1>2. \A q \in Keys : facts'[q] \in {None, facts[q]}
  BY DEF LeaveRegion, AfterRegion
<1>3. \A q \in Keys : parent'.facts[q] = None /\ first'.facts[q] = None
  BY DEF LeaveRegion, NoParent, NoState, NoFacts
<1>4. FactsInv(facts)' /\ FactsInv(parent.facts)' /\ FactsInv(first.facts)'
  BY <1>1, <1>2, <1>3 DEF StaticInv, FactsInv
<1>5. ReplacementInv' /\ NoDaisyChain'
  BY <1>1 DEF StaticInv, ReplacementInv, NoDaisyChain
<1>6. ScopeInv'
  BY <1>1 DEF LeaveRegion, StaticInv, ScopeInv
<1>7. RegionInv'
  BY DEF LeaveRegion, RegionInv
<1> QED
  BY <1>4, <1>5, <1>6, <1>7 DEF StaticInv

-----------------------------------------------------------------------------
(* A step that replaces no read leaves the replacements as right as they were. *)
LEMMA RightKept ==
  ASSUME UNCHANGED <<replacement, strays, env>>,
         \A r \in Ops : accessed'[r] = accessed[r] \/ replacement[r] = None
  PROVE  /\ TreeReadsRight' <=> TreeReadsRight
         /\ (\A r \in Ops : Right(r))' <=> \A r \in Ops : Right(r)
<1>1. \A r \in Ops : Right(r)' <=> Right(r)
  BY DEF Right
<1>2. \A r \in Ops : replacement[r] = None => Right(r)
  BY DEF Right
<1>3. (\A r \in Ops : Right(r))' <=> \A r \in Ops : Right(r)
  BY <1>1
<1>4. TreeReadsRight' <=> TreeReadsRight
  BY <1>1, <1>2 DEF TreeReadsRight
<1> QED
  BY <1>3, <1>4

(* What is read is what the known value is. *)
LEMMA ReadRight ==
  ASSUME IInv, NEW class \in Classes, NEW v \in Values, Read(class, v)
  PROVE  /\ TreeReadsRight /\ (class \in Stateful \/ plain) => \A r \in Ops : r = n + 1 => Right(r)'
         /\ \A r \in Ops : r # n + 1 => Right(r)' <=> Right(r)
         /\ TreeReadsRight' => TreeReadsRight
<1> DEFINE k == Key(class, v)
<1>1. /\ n' = n + 1 /\ n < MaxOps /\ v \in scope /\ v \in Defined
      /\ TypeOK /\ StaticInv
  <2>1. shape \in [classes : SUBSET Classes, ops : 0 .. MaxOps, kinds : SUBSET RegionKinds]
    BY ValuesAssumption DEF IInv, TypeOK
  <2> QED
    BY <2>1, NamesDefined, ValuesAssumption DEF Read, IInv, TypeOK
<1>2. /\ n + 1 \in Ops /\ n + 1 \in Values /\ n + 1 \notin Defined /\ n + 1 \notin scope
      /\ replacement[n + 1] = None /\ env[n + 1] = None /\ n + 1 \notin strays
  BY <1>1, FreshOp DEF Values
<1>3. k \in Keys /\ k[1] = class /\ k[2] = Translate(v)
  BY <1>1, KeyType
<1>4. /\ replacement'[n + 1] = facts[k]
      /\ \A r \in Ops : r # n + 1 => replacement'[r] = replacement[r]
  BY <1>1, <1>2 DEF Read, TypeOK
<1>5. \A u \in Values : u # n + 1 => env'[u] = env[u]
  BY <1>1 DEF Read, TypeOK
<1>6. facts[k] # None => facts[k] \in Defined /\ facts[k] \in Values /\ facts[k] # n + 1
  BY <1>1, <1>2, <1>3, DefinedType DEF StaticInv, FactsInv
<1>7. ASSUME TreeReadsRight, class \in Stateful \/ plain, NEW r \in Ops, r = n + 1
      PROVE  Right(r)'
  <2> SUFFICES ASSUME facts[k] # None
               PROVE  /\ n + 1 \notin strays'
                      /\ env'[n + 1] # None => env'[facts[k]] = env'[n + 1]
    BY <1>4, <1>7 DEF Right
  <2>1. Truth /\ Trusted(k)
    BY <1>3, <1>7 DEF IInv, Trusted
  <2>2. n + 1 \notin strays'
    BY <1>2, <1>3, <2>1 DEF Truth, Within, Read
  <2>3. CASE live
    <3>1. env[facts[k]] = mem[<<class, env[Translate(v)]>>]
      BY <1>3, <2>1, <2>3 DEF Truth, Holds
    <3>2. env[Translate(v)] = env[v]
      BY <1>1, <1>7, <2>3, TranslateRight
    <3>3. env'[n + 1] = mem[Place(class, v)]
      BY <1>1, <1>2, <2>3 DEF Read, TypeOK
    <3> QED
      BY <1>5, <1>6, <2>2, <3>1, <3>2, <3>3 DEF Place
  <2>4. CASE ~ live
    BY <1>2, <2>2, <2>4 DEF Read
  <2> QED
    BY <2>3, <2>4
<1>8. ASSUME NEW r \in Ops, r # n + 1 PROVE Right(r)' <=> Right(r)
  <2>1. replacement'[r] = replacement[r]
    BY <1>4, <1>8
  <2>2. r \in strays' <=> r \in strays
    BY <1>1, <1>8 DEF Read
  <2>3. replacement[r] # None => replacement[r] \in Values /\ replacement[r] # n + 1
    BY <1>1, <1>2, DefinedType DEF StaticInv, ReplacementInv
  <2>4. env'[r] = env[r] /\ (replacement[r] # None => env'[replacement[r]] = env[replacement[r]])
    BY <1>5, <1>8, <2>3 DEF Values
  <2> QED
    BY <2>1, <2>2, <2>4 DEF Right
<1>9. ASSUME TreeReadsRight' PROVE TreeReadsRight
  <2> SUFFICES ASSUME NEW r \in Ops, accessed[r] \notin Stateful PROVE Right(r)
    BY DEF TreeReadsRight
  <2>1. CASE r = n + 1
    BY <1>2, <2>1 DEF Right
  <2>2. CASE r # n + 1
    <3>1. accessed'[r] = accessed[r]
      BY <1>1, <2>2 DEF Read, TypeOK
    <3>2. Right(r)'
      BY <1>9, <3>1 DEF TreeReadsRight
    <3> QED
      BY <1>8, <2>2, <3>2
  <2> QED
    BY <2>1, <2>2
<1> QED
  BY <1>7, <1>8, <1>9

LEMMA ReadTruth ==
  ASSUME IInv, NEW class \in Classes, NEW v \in Values, Read(class, v)
  PROVE  (plain' => TreeReadsRight') /\ (TreeReadsRight' => Truth')
<1> DEFINE k == Key(class, v)
<1>1. /\ n' = n + 1 /\ n < MaxOps /\ v \in scope /\ v \in Defined
      /\ TypeOK /\ StaticInv
  <2>1. shape \in [classes : SUBSET Classes, ops : 0 .. MaxOps, kinds : SUBSET RegionKinds]
    BY ValuesAssumption DEF IInv, TypeOK
  <2> QED
    BY <2>1, NamesDefined, ValuesAssumption DEF Read, IInv, TypeOK
<1>2. /\ n + 1 \in Ops /\ n + 1 \in Values /\ n + 1 \notin Defined /\ n + 1 \notin scope
  BY <1>1, FreshOp DEF Values
<1>3. k \in Keys /\ k[1] = class /\ k[2] = Translate(v) /\ Translate(v) \in Defined
  BY <1>1, KeyType, TranslateType
<1>4. plain' => plain
  BY DEF Read
<1>5. plain' => TreeReadsRight'
  <2> SUFFICES ASSUME plain', NEW r \in Ops PROVE Right(r)'
    BY DEF TreeReadsRight
  <2>1. plain /\ TreeReadsRight /\ Truth
    BY <1>4 DEF IInv
  <2> QED
    BY <1>1, <2>1, ReadRight DEF Truth
<1>6. ASSUME TreeReadsRight' PROVE Truth'
  <2>1. TreeReadsRight /\ Truth
    BY <1>6, ReadRight DEF IInv
  <2>2. accessed'[n + 1] = class
    BY <1>1, <1>2 DEF Read, TypeOK
  <2>3. \A r \in Ops : r = n + 1 => Right(r)'
    BY <1>2, <1>6, <2>1, <2>2, ReadRight DEF TreeReadsRight
  <2>4. \A r \in Ops : Right(r)'
    BY <2>1, <2>3, ReadRight DEF Truth
  <2>5. scope' = scope \cup {n + 1} /\ UNCHANGED <<mem, live, region, second, parent, first>>
    BY <1>1 DEF Read, control
  <2>6. /\ replacement'[n + 1] = facts[k] /\ facts[k] \in scope \cup {None}
        /\ \A r \in Ops : r # n + 1 => replacement'[r] = replacement[r]
    <3>1. replacement'[n + 1] = facts[k]
      BY <1>1, <1>2, FreshOp DEF Read, TypeOK
    <3>2. facts[k] # None => n + 1 \notin strays'
      BY <1>2, <2>3, <3>1 DEF Right
    <3>3. facts[k] \in scope \cup {None}
      BY <1>1, <3>2 DEF Read
    <3>4. \A r \in Ops : r # n + 1 => replacement'[r] = replacement[r]
      BY <1>1 DEF Read, TypeOK
    <3> QED
      BY <3>1, <3>3, <3>4
  <2>7. \A u \in Defined : env'[u] = env[u]
    BY <1>1, <1>2, DefinedType DEF Read, TypeOK
  <2>8. \A q \in Keys : facts'[q] = facts[q] \/ (q = k /\ facts'[q] = n + 1 /\ facts[k] = None)
    BY <1>1, <1>3 DEF Read, TypeOK
  <2>9. Translate(v) \in scope /\ (live => env[Translate(v)] = env[v])
    BY <1>1, <2>1, TranslateRight
  <2>10. Within(facts, scope)'
    <3> SUFFICES ASSUME NEW q \in Keys, Trusted(q)', facts'[q] # None
                 PROVE  facts'[q] \in scope' /\ q[2] \in scope'
      BY DEF Within
    <3>1. Trusted(q)
      BY <1>4 DEF Trusted
    <3> QED
      BY <1>3, <2>1, <2>5, <2>8, <2>9, <3>1 DEF Truth, Within
  <2>11. ClosedScope(scope)'
    <3> SUFFICES ASSUME NEW u \in scope', u \in Ops, replacement'[u] # None
                 PROVE  replacement'[u] \in scope'
      BY DEF ClosedScope
    <3>1. CASE u = n + 1
      BY <2>5, <2>6, <3>1
    <3>2. CASE u # n + 1
      BY <2>1, <2>5, <2>6, <3>2 DEF Truth, ClosedScope
    <3> QED
      BY <3>1, <3>2
  <2>12. live' => Holds(facts, mem)'
    <3> SUFFICES ASSUME live, NEW q \in Keys, Trusted(q)', facts'[q] # None
                 PROVE  env'[facts'[q]] = mem[<<q[1], env'[q[2]]>>]
      BY <2>5 DEF Holds
    <3>1. CASE facts'[q] = facts[q]
      <4>1. env[facts[q]] = mem[<<q[1], env[q[2]]>>]
        BY <1>4, <2>1, <3>1 DEF Truth, Holds, Trusted
      <4>2. facts[q] \in Defined /\ q[2] \in Defined
        BY <1>1, <3>1 DEF StaticInv, FactsInv
      <4> QED
        BY <2>7, <3>1, <4>1, <4>2
    <3>2. CASE q = k /\ facts'[q] = n + 1 /\ facts[k] = None
      <4>1. env'[n + 1] = mem[Place(class, v)]
        BY <1>1, <1>2 DEF Read, TypeOK
      <4>2. env'[Translate(v)] = env[v]
        BY <1>3, <2>7, <2>9
      <4> QED
        BY <1>3, <3>2, <4>1, <4>2 DEF Place
    <3> QED
      BY <2>8, <3>1, <3>2
  <2>13. region' # "none" => Within(parent.facts, parent.scope)' /\ ClosedScope(parent.scope)'
    <3> SUFFICES ASSUME region # "none"
                 PROVE  Within(parent.facts, parent.scope)' /\ ClosedScope(parent.scope)'
      BY <2>5
    <3>1. Within(parent.facts, parent.scope)'
      BY <1>4, <2>1, <2>5 DEF Truth, Within, Trusted
    <3>2. n + 1 \notin parent.scope
      BY <1>1, <1>2 DEF StaticInv, ScopeInv
    <3>3. ClosedScope(parent.scope)'
      BY <2>1, <2>5, <2>6, <3>2 DEF Truth, ClosedScope
    <3> QED
      BY <3>1, <3>3
  <2>14. region' # "none" /\ ~ second' => Within(first.facts, parent.scope)'
    BY <1>4, <2>1, <2>5 DEF Truth, Within, Trusted
  <2>15. second' =>
           \A q \in Keys : Trusted(q)' /\ first'.facts[q] # None =>
             {first'.facts[q], q[2]} \cap scope' \subseteq parent'.scope
    <3> SUFFICES ASSUME second, NEW q \in Keys, Trusted(q), first.facts[q] # None
                 PROVE  {first.facts[q], q[2]} \cap scope' \subseteq parent.scope
      BY <1>4, <2>5 DEF Trusted
    <3>1. {first.facts[q], q[2]} \cap scope \subseteq parent.scope
      BY <2>1 DEF Truth
    <3>2. first.facts[q] # n + 1 /\ q[2] # n + 1
      BY <1>1, <1>2 DEF StaticInv, FactsInv
    <3> QED
      BY <2>5, <3>1, <3>2
  <2>16. region' \in {"if", "for"} /\ ~ live' => Holds(parent.facts, mem)'
    <3> SUFFICES ASSUME region \in {"if", "for"}, ~ live, NEW q \in Keys, Trusted(q),
                        parent.facts[q] # None
                 PROVE  env'[parent.facts[q]] = mem[<<q[1], env'[q[2]]>>]
      BY <1>4, <2>5 DEF Holds, Trusted
    <3>1. parent.facts[q] \in Defined /\ q[2] \in Defined
      BY <1>1 DEF StaticInv, FactsInv
    <3> QED
      BY <2>1, <2>7, <3>1 DEF Truth, Holds
  <2>17. region' = "ifelse" /\ ~ live' => Holds(first.facts, mem)'
    <3> SUFFICES ASSUME region = "ifelse", ~ live, NEW q \in Keys, Trusted(q),
                        first.facts[q] # None
                 PROVE  env'[first.facts[q]] = mem[<<q[1], env'[q[2]]>>]
      BY <1>4, <2>5 DEF Holds, Trusted
    <3>1. first.facts[q] \in Defined /\ q[2] \in Defined
      BY <1>1 DEF StaticInv, FactsInv
    <3> QED
      BY <2>1, <2>7, <3>1 DEF Truth, Holds
  <2>18. region' = "while" /\ second' => Holds(first.facts, first.mem)'
    <3> SUFFICES ASSUME region = "while", second, NEW q \in Keys, Trusted(q),
                        first.facts[q] # None
                 PROVE  env'[first.facts[q]] = first.mem[<<q[1], env'[q[2]]>>]
      BY <1>4, <2>5 DEF Holds, Trusted
    <3>1. first.facts[q] \in Defined /\ q[2] \in Defined
      BY <1>1 DEF StaticInv, FactsInv
    <3> QED
      BY <2>1, <2>7, <3>1 DEF Truth, Holds
  <2> QED
    BY <2>4, <2>10, <2>11, <2>12, <2>13, <2>14, <2>15, <2>16, <2>17, <2>18 DEF Truth
<1> QED
  BY <1>5, <1>6

-----------------------------------------------------------------------------
(* After a write, what is known of other places of the class is of constant *)
(* ones, and so is the place that was written.                              *)
Separate(class, i, v) ==
  /\ facts'[Key(class, i)] = Translate(v)
  /\ \A q \in Keys : q # Key(class, i) /\ q[1] = class /\ facts'[q] # None /\ Trusted(q)' =>
       facts'[q] = facts[q] /\ q[2] \in Consts /\ Translate(i) \in Consts

LEMMA WriteTruth ==
  ASSUME IInv, NEW class \in Classes, NEW i \in Values, NEW v \in Values,
         WriteStep(class, i, v), WritesFacts(class, i, v), Separate(class, i, v), TreeReadsRight'
  PROVE  Truth'
<1> DEFINE k == Key(class, i)
<1>1. /\ TypeOK /\ StaticInv
      /\ n' = n + 1 /\ n < MaxOps /\ i \in scope /\ v \in scope /\ i \in Defined /\ v \in Defined
  <2>1. shape \in [classes : SUBSET Classes, ops : 0 .. MaxOps, kinds : SUBSET RegionKinds]
    BY ValuesAssumption DEF IInv, TypeOK
  <2> QED
    BY <2>1, NamesDefined, ValuesAssumption DEF WriteStep, IInv, TypeOK, StaticInv, ScopeInv
<1>2. /\ UNCHANGED <<replacement, strays, env, scope, region, second, parent, first, live>>
      /\ plain' => plain
  BY DEF WriteStep, WritesFacts, control
<1>3. k \in Keys /\ k[1] = class /\ k[2] = Translate(i)
  BY <1>1, KeyType
<1>4. /\ TreeReadsRight /\ Truth
      /\ \A r \in Ops : Right(r)'
  <2>1. \A r \in Ops : accessed'[r] = accessed[r] \/ replacement[r] = None
    BY <1>1, FreshOp DEF WriteStep, TypeOK
  <2>2. TreeReadsRight
    BY <1>2, <2>1, RightKept
  <2>3. Truth
    BY <2>2 DEF IInv
  <2>4. (\A r \in Ops : Right(r))'
    BY <1>2, <2>1, <2>3, RightKept DEF Truth
  <2> QED
    BY <2>2, <2>3, <2>4
<1>5. /\ Translate(i) \in scope /\ Translate(v) \in scope
      /\ live => env[Translate(i)] = env[i] /\ env[Translate(v)] = env[v]
  BY <1>1, <1>4, TranslateRight
<1>6. \A q \in Keys :
        (facts'[q] # None => facts'[q] = facts[q]) \/ (q = k /\ facts'[q] = Translate(v))
  BY DEF WritesFacts
<1>7. Within(facts, scope)'
  <2> SUFFICES ASSUME NEW q \in Keys, Trusted(q), facts'[q] # None
               PROVE  facts'[q] \in scope /\ q[2] \in scope
    BY <1>2 DEF Within, Trusted
  <2> QED
    BY <1>3, <1>4, <1>5, <1>6 DEF Truth, Within
<1>8. ClosedScope(scope)' /\ (region' # "none" => ClosedScope(parent.scope)')
  BY <1>2, <1>4 DEF Truth, ClosedScope
<1>9. live' => Holds(facts, mem)'
  <2> SUFFICES ASSUME live, NEW q \in Keys, Trusted(q)', facts'[q] # None
               PROVE  env[facts'[q]] = mem'[<<q[1], env[q[2]]>>]
    BY <1>2 DEF Holds
  <2>1. mem' = [mem EXCEPT ![<<class, env[i]>>] = env[v]] /\ <<class, env[i]>> \in Places
    BY <1>1, PlaceType DEF WriteStep, Place
  <2>2. mem \in [Places -> Data]
    BY <1>1 DEF TypeOK
  <2>3. CASE q = k
    BY <1>3, <1>5, <2>1, <2>2, <2>3 DEF Separate
  <2>4. CASE q # k
    <3>1. facts'[q] = facts[q] /\ Trusted(q)
      BY <1>2, <1>6, <2>4 DEF Trusted
    <3>2. /\ env[facts[q]] = mem[<<q[1], env[q[2]]>>]
          /\ q[2] \in scope /\ q[1] \in Classes
      BY <1>4, <3>1 DEF Truth, Holds, Within, Keys
    <3>3. <<q[1], env[q[2]]>> \in Places
      BY <1>1, <3>2 DEF StaticInv, ScopeInv, Places
    <3>4. <<q[1], env[q[2]]>> # <<class, env[i]>>
      <4>1. CASE q[1] # class
        BY <4>1
      <4>2. CASE q[1] = class
        <5>1. q[2] \in Consts /\ Translate(i) \in Consts
          BY <2>4, <4>2 DEF Separate
        <5>2. env[q[2]] = q[2] /\ env[i] = Translate(i)
          BY <1>1, <1>5, <5>1 DEF StaticInv, ScopeInv
        <5>3. q[2] # Translate(i)
          BY <2>4, <4>2 DEF Keys, Key
        <5> QED
          BY <5>2, <5>3
      <4> QED
        BY <4>1, <4>2
    <3> QED
      BY <2>1, <2>2, <3>1, <3>2, <3>3, <3>4
  <2> QED
    BY <2>3, <2>4
<1>10. /\ region' # "none" => Within(parent.facts, parent.scope)'
       /\ region' # "none" /\ ~ second' => Within(first.facts, parent.scope)'
  BY <1>2, <1>4 DEF Truth, Within, Trusted
<1>11. second' =>
         \A q \in Keys : Trusted(q)' /\ first'.facts[q] # None =>
           {first'.facts[q], q[2]} \cap scope' \subseteq parent'.scope
  BY <1>2, <1>4 DEF Truth, Trusted
<1>12. ~ live => mem' = mem
  BY DEF WriteStep
<1>13. /\ region' \in {"if", "for"} /\ ~ live' => Holds(parent.facts, mem)'
       /\ region' = "ifelse" /\ ~ live' => Holds(first.facts, mem)'
  BY <1>2, <1>4, <1>12 DEF Truth, Holds, Trusted
<1>14. region' = "while" /\ second' => Holds(first.facts, first.mem)'
  BY <1>2, <1>4 DEF Truth, Holds, Trusted
<1> QED
  BY <1>4, <1>7, <1>8, <1>9, <1>10, <1>11, <1>13, <1>14 DEF Truth

LEMMA WriteGlobalTruth ==
  ASSUME IInv, NEW g \in Consts, NEW v \in Values, WriteGlobal(g, v)
  PROVE  (plain' => TreeReadsRight') /\ (TreeReadsRight' => Truth')
<1>1. /\ TypeOK /\ StaticInv
      /\ WriteStep("global", g, v) /\ "global" \in Classes /\ g \in Values
  BY DEF IInv, WriteGlobal, Classes, Stateful, Values
<1>2. WritesFacts("global", g, v) /\ StaticInv'
  BY <1>1, WriteGlobalStatic
<1>3. g \in Defined /\ Key("global", g) \in Keys /\ Translate(g) \in Consts
  BY <1>1, NamesDefined, KeyType, TranslateType DEF WriteStep
<1>4. Separate("global", g, v)
  BY <1>1, <1>2, <1>3 DEF Separate, WriteGlobal, TypeOK, StaticInv, FactsInv
<1>5. plain' => TreeReadsRight'
  <2>1. \A r \in Ops : accessed'[r] = accessed[r] \/ replacement[r] = None
    <3>1. n < MaxOps /\ n' = n + 1
      BY <1>1, ValuesAssumption DEF WriteStep, TypeOK
    <3> QED
      BY <1>1, <3>1, FreshOp DEF WriteStep, TypeOK
  <2>2. UNCHANGED <<replacement, strays, env>> /\ (plain' => plain)
    BY <1>1, <1>2 DEF WriteStep, WritesFacts
  <2> QED
    BY <2>1, <2>2, RightKept DEF IInv
<1> QED
  BY <1>1, <1>2, <1>4, <1>5, WriteTruth

LEMMA WriteKeepsRight ==
  ASSUME IInv, NEW class \in Classes, NEW i \in Values, NEW v \in Values,
         WriteStep(class, i, v), WritesFacts(class, i, v)
  PROVE  plain' => TreeReadsRight'
<1>1. \A r \in Ops : accessed'[r] = accessed[r] \/ replacement[r] = None
  <2>1. n < MaxOps /\ n' = n + 1
    <3>1. shape \in [classes : SUBSET Classes, ops : 0 .. MaxOps, kinds : SUBSET RegionKinds]
      BY ValuesAssumption DEF IInv, TypeOK
    <3> QED
      BY <3>1, ValuesAssumption DEF WriteStep, IInv, TypeOK
  <2> QED
    BY <2>1, FreshOp DEF WriteStep, IInv, TypeOK
<1>2. UNCHANGED <<replacement, strays, env>> /\ (plain' => plain)
  BY DEF WriteStep, WritesFacts
<1> QED
  BY <1>1, <1>2, RightKept DEF IInv

LEMMA StoreRamTruth ==
  ASSUME IInv, NEW a \in Values, NEW v \in Values, StoreRam(a, v)
  PROVE  (plain' => TreeReadsRight') /\ (TreeReadsRight' => Truth')
<1>1. TypeOK /\ StaticInv /\ WriteStep("ram", a, v) /\ "ram" \in Classes
  BY DEF IInv, StoreRam, Classes, Stateful
<1>2. WritesFacts("ram", a, v)
  BY <1>1, StoreRamStatic
<1>3. a \in Defined /\ Key("ram", a) \in Keys
  BY <1>1, NamesDefined, KeyType DEF WriteStep
<1>4. Separate("ram", a, v)
  BY <1>3 DEF Separate, StoreRam, AfterStore
<1> QED
  BY <1>1, <1>2, <1>4, WriteKeepsRight, WriteTruth

LEMMA WriteTreeTruth ==
  ASSUME IInv, NEW class \in {"array", "member"}, NEW i \in Values, NEW v \in Values,
         WriteTree(class, i, v)
  PROVE  (plain' => TreeReadsRight') /\ (TreeReadsRight' => Truth')
<1> DEFINE k == Key(class, i)
           f == Without(facts, Invalidated(k))
<1>1. TypeOK /\ StaticInv /\ WriteStep(class, i, v) /\ class \in Classes
  BY DEF IInv, WriteTree, Classes, Stateful
<1>2. WritesFacts(class, i, v) /\ StaticInv'
  BY <1>1, WriteTreeStatic
<1>3. /\ i \in Defined /\ k \in Keys /\ k[1] = class /\ k[2] = Translate(i)
      /\ i \in Consts => Translate(i) \in Consts
  BY <1>1, NamesDefined, KeyType, TranslateType DEF WriteStep
<1>4. facts'[k] = Translate(v)
  <2>1. CASE IsKnown(k, Translate(v))
    BY <2>1 DEF WriteTree, IsKnown
  <2>2. CASE ~ IsKnown(k, Translate(v))
    <3>1. facts' = [f EXCEPT ![k] = Translate(v)]
      BY <2>2 DEF WriteTree
    <3>2. f \in [Keys -> Values \cup {None}]
      BY <1>1, WithoutType DEF TypeOK
    <3> HIDE DEF f, k
    <3> QED
      BY <1>3, <3>1, <3>2
  <2> QED
    BY <2>1, <2>2
<1>5. \A q \in Keys : q # k /\ facts'[q] # None => facts'[q] = facts[q] /\ q \notin Invalidated(k)
  <2>1. facts' \in {f, [f EXCEPT ![k] = Translate(v)]}
    BY DEF WriteTree
  <2>2. \A q \in Keys : f[q] = IF q \in Invalidated(k) THEN None ELSE facts[q]
    BY DEF Without
  <2>3. \A q \in Keys : q # k => facts'[q] = f[q]
    <3>1. f \in [Keys -> Values \cup {None}]
      BY <1>1, WithoutType DEF TypeOK
    <3> HIDE DEF f, k
    <3> QED
      BY <2>1, <3>1
  <2> QED
    BY <2>2, <2>3
<1>6. ASSUME NEW q \in Keys, q # k, q[1] = class, facts'[q] # None, Trusted(q)'
      PROVE  q[2] \in Consts /\ Translate(i) \in Consts
  <2>1. CASE class = "member"
    <3>1. Translate(i) \in Consts
      BY <1>3, <2>1, ValuesAssumption DEF WriteTree
    <3>2. q[2] \in Consts
      BY <1>3, <1>5, <1>6, <2>1 DEF Invalidated, Keys
    <3> QED
      BY <3>1, <3>2
  <2>2. CASE class = "array"
    <3>1. plain'
      BY <1>6, <2>2 DEF Trusted, Stateful
    <3>2. Translate(i) \in Consts
      BY <1>2, <2>2, <3>1 DEF WritesFacts
    <3>3. q[2] \in Consts
      BY <1>2, <1>6, <2>2, <3>1 DEF StaticInv, FactsInv
    <3> QED
      BY <3>2, <3>3
  <2> QED
    BY <2>1, <2>2
<1>7. Separate(class, i, v)
  BY <1>4, <1>5, <1>6 DEF Separate
<1> QED
  BY <1>1, <1>2, <1>7, WriteKeepsRight, WriteTruth

(* Of globals and the RAM nothing stays known; what stays known of arrays and *)
(* members is no longer relied upon if the callee changed them.              *)
LEMMA UnknownEffectTruth ==
  ASSUME IInv, NEW handed \in SUBSET {"array", "member"}, NEW changed \in SUBSET handed,
         UnknownEffect(handed, changed)
  PROVE  (plain' => TreeReadsRight') /\ (TreeReadsRight' => Truth')
<1>1. /\ TypeOK /\ StaticInv
      /\ UNCHANGED <<accessed, replacement, strays, env, scope, region, second, parent, first, live>>
      /\ plain' => plain /\ changed = {}
  BY DEF IInv, UnknownEffect, control
<1>2. plain' => TreeReadsRight'
  BY <1>1, RightKept DEF IInv
<1>3. ASSUME TreeReadsRight' PROVE Truth'
  <2>1. Truth
    BY <1>1, <1>3, RightKept DEF IInv
  <2>2. \A r \in Ops : Right(r)'
    BY <1>1, <2>1, RightKept DEF Truth
  <2>3. \A q \in Keys : facts'[q] # None => facts'[q] = facts[q] /\ q[1] \notin Stateful
    BY DEF UnknownEffect, Forget
  <2>4. PICK m \in Memories :
          mem' = IF live THEN [p \in Places |-> IF p[1] \in Stateful \cup changed THEN m[p] ELSE mem[p]]
                 ELSE mem
    BY DEF UnknownEffect
  <2>5. Within(facts, scope)' /\ ClosedScope(scope)'
    BY <1>1, <2>1, <2>3 DEF Truth, Within, ClosedScope, Trusted
  <2>6. live' => Holds(facts, mem)'
    <3> SUFFICES ASSUME live, NEW q \in Keys, Trusted(q)', facts'[q] # None
                 PROVE  env[facts'[q]] = mem'[<<q[1], env[q[2]]>>]
      BY <1>1 DEF Holds, Trusted
    <3>1. /\ env[facts[q]] = mem[<<q[1], env[q[2]]>>] /\ q[2] \in scope /\ q[1] \in Classes
          /\ facts'[q] = facts[q] /\ q[1] \notin Stateful /\ changed = {}
      BY <1>1, <2>1, <2>3 DEF Truth, Holds, Within, Keys, Trusted
    <3>2. <<q[1], env[q[2]]>> \in Places
      BY <1>1, <3>1 DEF StaticInv, ScopeInv, Places
    <3> QED
      BY <2>4, <3>1, <3>2
  <2>7. ~ live => mem' = mem
    BY <2>4
  <2>8. /\ region' # "none" => Within(parent.facts, parent.scope)' /\ ClosedScope(parent.scope)'
        /\ region' # "none" /\ ~ second' => Within(first.facts, parent.scope)'
    BY <1>1, <2>1 DEF Truth, Within, ClosedScope, Trusted
  <2>9. second' =>
          \A q \in Keys : Trusted(q)' /\ first'.facts[q] # None =>
            {first'.facts[q], q[2]} \cap scope' \subseteq parent'.scope
    BY <1>1, <2>1 DEF Truth, Trusted
  <2>10. /\ region' \in {"if", "for"} /\ ~ live' => Holds(parent.facts, mem)'
         /\ region' = "ifelse" /\ ~ live' => Holds(first.facts, mem)'
    BY <1>1, <2>1, <2>7 DEF Truth, Holds, Trusted
  <2>11. region' = "while" /\ second' => Holds(first.facts, first.mem)'
    BY <1>1, <2>1 DEF Truth, Holds, Trusted
  <2> QED
    BY <2>2, <2>5, <2>6, <2>8, <2>9, <2>10, <2>11 DEF Truth
<1> QED
  BY <1>2, <1>3

(* The body of a conditional starts from what holds; of what a loop starts  *)
(* from, only facts about constant-indexed memory stay, which a function     *)
(* with loops does not rely upon.                                           *)
LEMMA EnterRegionTruth ==
  ASSUME IInv, NEW kind \in RegionKinds, EnterRegion(kind)
  PROVE  (plain' => TreeReadsRight') /\ (TreeReadsRight' => Truth')
<1>1. /\ TypeOK /\ StaticInv /\ region = "none" /\ live
      /\ UNCHANGED <<accessed, replacement, strays, env, scope>>
      /\ plain' = (plain /\ kind = "ifelse")
  BY DEF IInv, EnterRegion, StaticInv, RegionInv
<1>2. plain' => TreeReadsRight'
  BY <1>1, RightKept DEF IInv
<1>3. ASSUME TreeReadsRight' PROVE Truth'
  <2>1. Truth
    BY <1>1, <1>3, RightKept DEF IInv
  <2>2. \A r \in Ops : Right(r)'
    BY <1>1, <2>1, RightKept DEF Truth
  <2>3. /\ facts' = AtEntry(kind, facts) /\ first'.facts = facts' /\ parent'.facts = facts
        /\ parent'.scope = scope /\ region' = kind /\ ~ second'
    BY DEF EnterRegion
  <2>4. \A q \in Keys : Trusted(q)' /\ facts'[q] # None => facts'[q] = facts[q] /\ Trusted(q)
    BY <1>1, <2>3 DEF AtEntry, Forget, Trusted
  <2>5. /\ Within(facts, scope)' /\ Within(first.facts, parent.scope)'
        /\ Within(parent.facts, parent.scope)'
    BY <1>1, <2>1, <2>3, <2>4 DEF Truth, Within, Trusted
  <2>6. ClosedScope(scope)' /\ ClosedScope(parent.scope)'
    BY <1>1, <2>1, <2>3 DEF Truth, ClosedScope
  <2>7. live' => Holds(facts, mem)'
    <3>1. CASE Repeats(kind)
      <4>1. \A q \in Keys : Trusted(q)' => facts'[q] = None
        BY <1>1, <2>3, <3>1 DEF Trusted, AtEntry, Forget, Repeats
      <4> QED
        BY <4>1 DEF Holds
    <3>2. CASE ~ Repeats(kind)
      <4>1. mem' = mem /\ facts' = facts
        BY <3>2 DEF EnterRegion, EarlierIterations, AtEntry
      <4> QED
        BY <1>1, <2>1, <4>1 DEF Truth, Holds, Trusted
    <3> QED
      BY <3>1, <3>2
  <2>8. region' \in {"if", "for"} /\ ~ live' => Holds(parent.facts, mem)'
    <3>1. ~ live' => mem' = mem
      BY DEF EnterRegion
    <3> QED
      BY <1>1, <2>1, <2>3, <3>1 DEF Truth, Holds, Trusted
  <2>9. region' = "ifelse" /\ ~ live' => Holds(first.facts, mem)'
    <3>1. ~ live' => mem' = mem
      BY DEF EnterRegion
    <3>2. region' = "ifelse" => facts' = facts
      BY <2>3 DEF AtEntry, Repeats
    <3> QED
      BY <1>1, <2>1, <2>3, <3>1, <3>2 DEF Truth, Holds, Trusted
  <2> QED
    BY <2>2, <2>3, <2>5, <2>6, <2>7, <2>8, <2>9 DEF Truth
<1> QED
  BY <1>2, <1>3

(* The second region starts from what the first one started from. *)
LEMMA NextRegionTruth ==
  ASSUME IInv, NextRegion
  PROVE  (plain' => TreeReadsRight') /\ (TreeReadsRight' => Truth')
<1>1. /\ TypeOK /\ StaticInv /\ region \in {"ifelse", "while"} /\ ~ second
      /\ UNCHANGED <<accessed, replacement, strays, env, plain, region, parent>>
  BY DEF IInv, NextRegion
<1>2. plain' => TreeReadsRight'
  BY <1>1, RightKept DEF IInv
<1>3. ASSUME TreeReadsRight' PROVE Truth'
  <2>1. Truth
    BY <1>1, <1>3, RightKept DEF IInv
  <2>2. \A r \in Ops : Right(r)'
    BY <1>1, <2>1, RightKept DEF Truth
  <2>3. /\ facts' = first.facts /\ first'.facts = facts /\ first'.mem = mem
        /\ scope' = parent.scope /\ second'
    BY DEF NextRegion
  <2>4. /\ Within(facts, scope)' /\ ClosedScope(scope)'
        /\ Within(parent.facts, parent.scope)' /\ ClosedScope(parent.scope)'
    BY <1>1, <2>1, <2>3 DEF Truth, Within, ClosedScope, Trusted
  <2>5. live' => Holds(facts, mem)'
    <3>1. CASE region = "ifelse"
      <4>1. live' => ~ live /\ mem' = mem
        BY <3>1 DEF NextRegion, EarlierIterations, Repeats
      <4> QED
        BY <1>1, <2>1, <2>3, <3>1, <4>1 DEF Truth, Holds, Trusted
    <3>2. CASE region = "while"
      <4>1. \A q \in Keys : Trusted(q)' => facts'[q] = None
        BY <1>1, <2>3, <3>2 DEF Trusted, StaticInv, RegionInv
      <4> QED
        BY <4>1 DEF Holds
    <3> QED
      BY <1>1, <3>1, <3>2
  <2>6. region' = "ifelse" /\ ~ live' => Holds(first.facts, mem)'
    <3>1. region = "ifelse" /\ ~ live' => live /\ mem' = mem
      BY DEF NextRegion
    <3> QED
      BY <1>1, <2>1, <2>3, <3>1 DEF Truth, Holds, Trusted
  <2>7. region' = "while" => Holds(first.facts, first.mem)'
    <3>1. region = "while" => live
      BY <1>1 DEF StaticInv, RegionInv
    <3> QED
      BY <1>1, <2>1, <2>3, <3>1 DEF Truth, Holds, Trusted
  <2>8. \A q \in Keys : {first'.facts[q], q[2]} \cap scope' \subseteq parent'.scope
    BY <1>1, <2>3
  <2> QED
    BY <1>1, <2>2, <2>3, <2>4, <2>5, <2>6, <2>7, <2>8 DEF Truth
<1> QED
  BY <1>2, <1>3

(* What is known at the end of all regions, and was before if a region may  *)
(* be skipped, is known after them.                                         *)
LEMMA LeaveRegionTruth ==
  ASSUME IInv, LeaveRegion
  PROVE  (plain' => TreeReadsRight') /\ (TreeReadsRight' => Truth')
<1>1. /\ TypeOK /\ StaticInv /\ region \in RegionKinds
      /\ UNCHANGED <<accessed, replacement, strays, env, plain>>
      /\ region \in {"ifelse", "while"} <=> second
  BY DEF IInv, LeaveRegion, TypeOK, StaticInv, RegionInv
<1>2. plain' => TreeReadsRight'
  BY <1>1, RightKept DEF IInv
<1>3. ASSUME TreeReadsRight' PROVE Truth'
  <2>1. Truth
    BY <1>1, <1>3, RightKept DEF IInv
  <2>2. \A r \in Ops : Right(r)'
    BY <1>1, <2>1, RightKept DEF Truth
  <2>3. scope' = parent.scope /\ region' = "none" /\ ~ second' /\ region # "none"
    BY DEF LeaveRegion
  <2>4. \A q \in Keys : facts'[q] # None =>
          /\ facts'[q] = facts[q]
          /\ second => facts'[q] = first.facts[q]
          /\ q[1] \in Stateful => facts'[q] = parent.facts[q]
    BY DEF LeaveRegion, AfterRegion, Common
  <2>5. plain => region = "ifelse"
    BY <1>1, <2>3 DEF StaticInv, RegionInv
  <2>6. Within(facts, scope)'
    <3> SUFFICES ASSUME NEW q \in Keys, Trusted(q), facts'[q] # None
                 PROVE  facts'[q] \in parent.scope /\ q[2] \in parent.scope
      BY <1>1, <2>3 DEF Within, Trusted
    <3>1. CASE q[1] \in Stateful
      BY <2>1, <2>3, <2>4, <3>1 DEF Truth, Within
    <3>2. CASE q[1] \notin Stateful
      <4>1. second
        BY <1>1, <2>5, <3>2 DEF Trusted
      <4>2. {facts'[q], q[2]} \subseteq scope
        BY <2>1, <2>4 DEF Truth, Within
      <4>3. {facts'[q], q[2]} \cap scope \subseteq parent.scope
        BY <2>1, <2>4, <4>1 DEF Truth
      <4> QED
        BY <4>2, <4>3
    <3> QED
      BY <3>1, <3>2
  <2>7. ClosedScope(scope)'
    BY <1>1, <2>1, <2>3 DEF Truth, ClosedScope
  <2>8. Holds(facts, mem)'
    <3>1. CASE region # "while" /\ live
      <4>1. mem' = mem
        BY <3>1 DEF LeaveRegion
      <4> QED
        BY <1>1, <2>1, <2>4, <3>1, <4>1 DEF Truth, Holds, Trusted
    <3>2. CASE region \in {"if", "for"} /\ ~ live
      <4>1. mem' = mem
        BY <3>2 DEF LeaveRegion
      <4>2. \A q \in Keys : Trusted(q) => q[1] \in Stateful
        BY <2>5, <3>2 DEF Trusted
      <4> QED
        BY <1>1, <2>1, <2>4, <3>2, <4>1, <4>2 DEF Truth, Holds, Trusted
    <3>3. CASE region = "ifelse" /\ ~ live
      <4>1. mem' = mem
        BY <3>3 DEF LeaveRegion
      <4> QED
        BY <1>1, <2>1, <2>4, <3>3, <4>1 DEF Truth, Holds, Trusted
    <3>4. CASE region = "while"
      <4>1. mem' = first.mem
        BY <3>4 DEF LeaveRegion
      <4> QED
        BY <1>1, <2>1, <2>4, <3>4, <4>1 DEF Truth, Holds, Trusted
    <3> QED
      BY <1>1, <3>1, <3>2, <3>3, <3>4 DEF RegionKinds
  <2> QED
    BY <2>2, <2>3, <2>6, <2>7, <2>8 DEF Truth
<1> QED
  BY <1>2, <1>3

-----------------------------------------------------------------------------
LEMMA NextInv == IInv /\ [Next]_vars => IInv'
<1> SUFFICES ASSUME IInv, [Next]_vars PROVE IInv'
  OBVIOUS
<1>1. TypeOK /\ StaticInv
  BY DEF IInv
<1>2. ASSUME NEW class \in Classes, NEW v \in Values, Read(class, v) PROVE IInv'
  <2>1. TypeOK' /\ StaticInv'
    BY <1>1, <1>2, ReadType, ReadStatic
  <2> QED
    BY <1>2, <2>1, ReadTruth DEF IInv
<1>3. ASSUME NEW g \in Consts, NEW v \in Values, WriteGlobal(g, v) PROVE IInv'
  BY <1>1, <1>3, WriteGlobalType, WriteGlobalStatic, WriteGlobalTruth DEF IInv
<1>4. ASSUME NEW a \in Values, NEW v \in Values, StoreRam(a, v) PROVE IInv'
  BY <1>1, <1>4, StoreRamType, StoreRamStatic, StoreRamTruth DEF IInv
<1>5. ASSUME NEW class \in {"array", "member"}, NEW i \in Values, NEW v \in Values,
             WriteTree(class, i, v)
      PROVE  IInv'
  BY <1>1, <1>5, WriteTreeType, WriteTreeStatic, WriteTreeTruth DEF IInv
<1>6. ASSUME NEW handed \in SUBSET {"array", "member"}, NEW changed \in SUBSET handed,
             UnknownEffect(handed, changed)
      PROVE  IInv'
  BY <1>1, <1>6, UnknownEffectType, UnknownEffectStatic, UnknownEffectTruth DEF IInv
<1>7. ASSUME NEW kind \in RegionKinds, EnterRegion(kind) PROVE IInv'
  BY <1>1, <1>7, EnterRegionType, EnterRegionStatic, EnterRegionTruth DEF IInv
<1>8. CASE NextRegion
  BY <1>1, <1>8, NextRegionType, NextRegionStatic, NextRegionTruth DEF IInv
<1>9. CASE LeaveRegion
  BY <1>1, <1>9, LeaveRegionType, LeaveRegionStatic, LeaveRegionTruth DEF IInv
<1>10. CASE UNCHANGED vars
  BY <1>10 DEF vars, walk, control, run, IInv, TypeOK, StaticInv, FactsInv, Defined, ReplacementInv,
               NoDaisyChain, ScopeInv, RegionInv, TreeReadsRight, Right, Truth, Within, Holds,
               Trusted, ClosedScope
<1> QED
  BY <1>2, <1>3, <1>4, <1>5, <1>6, <1>7, <1>8, <1>9, <1>10 DEF Next

(* What the pass believes of globals and the RAM is the case, and what it   *)
(* believes of members and arrays is in a plain function.                   *)
THEOREM Invariance == Spec => []IInv
BY InitInv, NextInv, PTL DEF Spec

(* The type invariant. *)
THEOREM TypeCorrect == Spec => []TypeOK
<1>1. IInv => TypeOK
  BY DEF IInv
<1> QED
  BY <1>1, Invariance, PTL

(* A replaced read of a global or of the RAM has the value it is replaced   *)
(* by (doStatefulRead, mergeState, regionEntryState).                       *)
THEOREM StatefulPreserved == Spec => []StatefulReadsPreserved
<1>1. IInv => StatefulReadsPreserved
  BY DEF IInv, Truth, StatefulReadsPreserved
<1> QED
  BY <1>1, Invariance, PTL

(* In a plain function so has every replaced read. *)
THEOREM Preserved == Spec => []ReadsPreserved
<1>1. IInv => ReadsPreserved
  BY DEF IInv, Truth, ReadsPreserved
<1> QED
  BY <1>1, Invariance, PTL

(* replacementMap never maps to a value that it maps itself (translate).    *)
THEOREM NoChains == Spec => []NoDaisyChain
<1>1. IInv => NoDaisyChain
  BY DEF IInv, StaticInv
<1> QED
  BY <1>1, Invariance, PTL

-----------------------------------------------------------------------------
(* In a straight line: what is redundant is seen by nobody and is the last   *)
(* write of no place; a last write has its place to itself, is still known,  *)
(* and if it is a member's, what read it may have seen it under another row. *)
(* What was handed to a call may have been seen by it and does not count.   *)
Seen == {r \in observed \ {None} : accessed[r] \notin lent}

WritesInv ==
  plain /\ regions = 0 =>
    /\ region = "none"
    /\ observed \subseteq 1 .. n \cup {None}
    /\ \A p \in Places : writer[p] \in 1 .. n \cup {None}
    /\ \A p \in Places : writer[p] # None => accessed[writer[p]] = p[1]
    /\ \A j \in 1 .. Len(redundant) :
         /\ redundant[j] \in 1 .. n
         /\ redundant[j] \notin Seen
         /\ \A p \in Places : writer[p] # redundant[j]
    /\ \A k \in Keys : lastWrite[k] # None =>
         /\ lastWrite[k] \in 1 .. n
         /\ facts[k] # None
         /\ (k[1] = "array" /\ k[2] \in Consts) \/ k = <<"member", CurrentRow>>
         /\ lastWrite[k] \in Seen =>
              k[1] = "member" /\ \E u \in Values \ Consts : facts[<<"member", u>>] # None
         /\ \A p \in Places : writer[p] = lastWrite[k] => p = k

LEMMA InitWrites == Init => WritesInv
<1> SUFFICES ASSUME Init PROVE WritesInv
  OBVIOUS
<1>1. \A p \in Places : writer[p] = None
  BY DEF Init
<1>2. \A k \in Keys : lastWrite[k] = None
  BY DEF Init, NoWrites
<1>3. Len(redundant) = 0 /\ observed = {} /\ region = "none"
  BY DEF Init
<1>4. 1 .. Len(redundant) = {}
  BY <1>3
<1> QED
  BY <1>1, <1>2, <1>3, <1>4 DEF WritesInv

(* What is seen stays so, and nothing else is, when an operation is added.   *)
LEMMA SeenKept ==
  ASSUME TypeOK, WritesInv, plain, regions = 0, observed' = observed, lent' = lent,
         \A r \in 1 .. n : accessed'[r] = accessed[r]
  PROVE  /\ Seen' = Seen /\ Seen \subseteq 1 .. n
         /\ \A p \in Places : writer[p] # None => accessed'[writer[p]] = p[1]
BY DEF Seen, WritesInv

LEMMA AccessedKept ==
  ASSUME TypeOK, NEW class \in Classes, accessed' = [accessed EXCEPT ![n + 1] = class]
  PROVE  /\ \A r \in 1 .. n : accessed'[r] = accessed[r]
         /\ n < MaxOps => accessed'[n + 1] = class
<1>1. n \in Nat /\ \A r \in 1 .. n : r # n + 1
  BY DEF TypeOK
<1>2. \A r \in 1 .. n : r \in Ops
  BY ValuesAssumption DEF TypeOK, Ops
<1> QED
  BY <1>1, <1>2, DefinedType DEF TypeOK

LEMMA WritesAside ==
  ASSUME TypeOK, WritesInv, regions' = regions, plain' => plain, region' = region,
         n' \in {n, n + 1}, observed' \subseteq 1 .. n \cup {None}, Seen' \subseteq Seen,
         writer' = writer, redundant' = redundant, lastWrite' = lastWrite,
         \A r \in 1 .. n : accessed'[r] = accessed[r],
         \A k \in Keys : k[1] \notin Stateful => facts'[k] = facts[k]
  PROVE  WritesInv'
<1> SUFFICES ASSUME plain, regions = 0, region = "none" PROVE WritesInv'
  BY DEF WritesInv
<1>1. 1 .. n \subseteq 1 .. n' /\ n \in Nat
  BY ValuesAssumption DEF TypeOK
<1>2. \A u \in Values : <<"member", u>> \in Keys /\ <<"member", u>>[1] \notin Stateful
  BY DEF Keys, Classes, Stateful
<1>3. \A k \in Keys : lastWrite[k] # None => facts'[k] = facts[k]
  <2> TAKE k \in Keys
  <2>1. lastWrite[k] # None => k[1] \in {"array", "member"}
    BY DEF WritesInv
  <2> QED
    BY <2>1 DEF Stateful
<1>4. \A u \in Values : facts'[<<"member", u>>] = facts[<<"member", u>>]
  BY <1>2
<1>5. \A p \in Places : writer'[p] # None => accessed'[writer'[p]] = p[1]
  BY DEF WritesInv
<1>6. \A j \in 1 .. Len(redundant') :
        /\ redundant'[j] \in 1 .. n'
        /\ redundant'[j] \notin Seen'
        /\ \A p \in Places : writer'[p] # redundant'[j]
  BY <1>1 DEF WritesInv
<1>7. \A k \in Keys : lastWrite'[k] # None =>
        /\ lastWrite'[k] \in 1 .. n'
        /\ facts'[k] # None
        /\ (k[1] = "array" /\ k[2] \in Consts) \/ k = <<"member", CurrentRow>>
        /\ \A p \in Places : writer'[p] = lastWrite'[k] => p = k
  BY <1>1, <1>3 DEF WritesInv
<1>8. \A k \in Keys : lastWrite'[k] # None /\ lastWrite'[k] \in Seen' =>
        k[1] = "member" /\ \E u \in Values \ Consts : facts'[<<"member", u>>] # None
  BY <1>4 DEF WritesInv
<1>9. observed' \subseteq 1 .. n' \cup {None} /\ \A p \in Places : writer'[p] \in 1 .. n' \cup {None}
  BY <1>1 DEF WritesInv
<1> QED
  BY <1>5, <1>6, <1>7, <1>8, <1>9 DEF WritesInv

(* A known constant index names its place. *)
LEMMA ConstantNames ==
  ASSUME IInv, plain, live, NEW class \in Classes, NEW v \in scope
  PROVE  /\ env[Translate(v)] = env[v] /\ Place(class, v) \in Places
         /\ Translate(v) \in Values /\ Key(class, v) \in Keys
         /\ Translate(v) \in Consts => Key(class, v) = Place(class, v)
<1>1. TypeOK /\ StaticInv /\ TreeReadsRight
  BY DEF IInv
<1>2. env[Translate(v)] = env[v] /\ v \in Defined
  BY <1>1, TranslateRight DEF StaticInv, ScopeInv
<1>3. Place(class, v) \in Places /\ Translate(v) \in Values /\ Key(class, v) \in Keys
  BY <1>1, <1>2, PlaceType, TranslateType, KeyType
<1>4. Translate(v) \in Consts => env[Translate(v)] = Translate(v)
  BY <1>1 DEF StaticInv, ScopeInv
<1> QED
  BY <1>2, <1>3, <1>4 DEF Key, Place

LEMMA ReadWrites ==
  ASSUME IInv, WritesInv, NEW class \in Classes, NEW v \in Values, Read(class, v)
  PROVE  WritesInv'
<1> DEFINE k == Key(class, v)
           p == Place(class, v)
<1> SUFFICES ASSUME plain', regions' = 0 PROVE WritesInv'
  BY DEF WritesInv
<1>1. /\ plain /\ regions = 0 /\ region = "none" /\ region' = "none" /\ n' = n + 1
      /\ ~ IsVariableIndex(class, v) /\ v \in Names(class) /\ n < shape.ops
      /\ lastWrite' = lastWrite /\ redundant' = redundant /\ writer' = writer /\ lent' = lent
      /\ accessed' = [accessed EXCEPT ![n + 1] = class]
  BY DEF Read, WritesInv, control
<1>2. TypeOK /\ StaticInv /\ live /\ n \in Nat /\ n < MaxOps
  <2>1. shape \in [classes : SUBSET Classes, ops : 0 .. MaxOps, kinds : SUBSET RegionKinds]
    BY ValuesAssumption DEF IInv, TypeOK
  <2> QED
    BY <1>1, <2>1, ValuesAssumption DEF IInv, TypeOK, StaticInv, RegionInv
<1>3. /\ v \in scope /\ k \in Keys /\ p \in Places /\ Translate(v) \in Values
      /\ Translate(v) \in Consts => k = p
      /\ class = "array" => Translate(v) \in Consts
      /\ p[1] = class /\ k = <<class, Translate(v)>>
  BY <1>1, <1>2, NamesDefined, ConstantNames DEF IsVariableIndex, Key, Place
<1>4. n + 1 # None /\ 1 .. n \subseteq 1 .. (n + 1)
  BY <1>2, FreshOp, OpsFacts
<1>5. /\ \A q \in Keys : facts[q] # None => facts'[q] # None
      /\ facts'[k] # None
      /\ observed' = IF facts[k] = None THEN observed \cup {writer[p]} ELSE observed
  BY <1>1, <1>2, <1>3, <1>4 DEF Read, TypeOK
<1> HIDE DEF k, p
<1>10. \A r \in 1 .. n : accessed'[r] = accessed[r]
  BY <1>1, <1>2, AccessedKept
<1>11. Seen' \subseteq Seen \cup (IF facts[k] = None THEN {writer[p]} ELSE {})
  BY <1>1, <1>5, <1>10 DEF Seen, WritesInv
<1>12. \A q \in Places : writer'[q] # None => accessed'[writer'[q]] = q[1]
  BY <1>1, <1>10 DEF WritesInv
<1>6. observed' \subseteq 1 .. n' \cup {None} /\ \A q \in Places : writer'[q] \in 1 .. n' \cup {None}
  BY <1>1, <1>3, <1>4, <1>5 DEF WritesInv
<1>7. \A j \in 1 .. Len(redundant) :
        /\ redundant[j] \in 1 .. n' /\ redundant[j] \notin Seen'
        /\ \A q \in Places : writer'[q] # redundant[j]
  BY <1>1, <1>3, <1>4, <1>11 DEF WritesInv
<1>8. ASSUME NEW h \in Keys, lastWrite[h] # None, lastWrite[h] \in Seen'
      PROVE  h[1] = "member" /\ \E u \in Values \ Consts : facts'[<<"member", u>>] # None
  <2>1. \A u \in Values : <<"member", u>> \in Keys
    BY DEF Keys, Classes
  <2>2. CASE lastWrite[h] \in Seen
    BY <1>1, <1>5, <1>8, <2>1, <2>2 DEF WritesInv
  <2>3. CASE lastWrite[h] \notin Seen
    <3>1. lastWrite[h] = writer[p] /\ facts[k] = None
      BY <1>8, <1>11, <2>3
    <3>2. p = h /\ facts[h] # None /\ h[1] \in {"array", "member"}
      BY <1>1, <1>3, <1>8, <3>1 DEF WritesInv
    <3>3. Translate(v) \notin Consts
      BY <1>3, <3>1, <3>2
    <3>4. class = "member" /\ h[1] = "member"
      BY <1>3, <3>2, <3>3
    <3> QED
      BY <1>3, <1>5, <3>3, <3>4
  <2> QED
    BY <2>2, <2>3
<1>9. \A h \in Keys : lastWrite[h] # None =>
        /\ lastWrite[h] \in 1 .. n' /\ facts'[h] # None
        /\ (h[1] = "array" /\ h[2] \in Consts) \/ h = <<"member", CurrentRow>>
        /\ \A q \in Places : writer[q] = lastWrite[h] => q = h
  BY <1>1, <1>4, <1>5 DEF WritesInv
<1> QED
  BY <1>1, <1>6, <1>7, <1>8, <1>9, <1>12 DEF WritesInv

LEMMA SequenceGrows ==
  ASSUME NEW S, NEW s \in Seq(S), NEW x \in S
  PROVE  /\ s \o <<x>> = Append(s, x) /\ s \o <<>> = s
         /\ \A j \in 1 .. Len(Append(s, x)) :
              (j \in 1 .. Len(s) /\ Append(s, x)[j] = s[j]) \/ Append(s, x)[j] = x
<1>1. /\ Append(s, x) \in Seq(S) /\ Len(Append(s, x)) = Len(s) + 1 /\ Len(s) \in Nat
      /\ \A j \in 1 .. (Len(s) + 1) : Append(s, x)[j] = IF j = Len(s) + 1 THEN x ELSE s[j]
  OBVIOUS
<1>2. s \o <<x>> = Append(s, x)
  OBVIOUS
<1>3. s \o <<>> = s
  OBVIOUS
<1> QED
  BY <1>1, <1>2, <1>3

LEMMA WriteTreeWrites ==
  ASSUME IInv, WritesInv, NEW class \in {"array", "member"}, NEW i \in Values, NEW v \in Values,
         WriteTree(class, i, v)
  PROVE  WritesInv'
<1> DEFINE k == Key(class, i)
           p == Place(class, i)
           f == Without(facts, Invalidated(k))
           w == Without(lastWrite, ForgottenWrites(k))
<1> SUFFICES ASSUME plain', regions' = 0 PROVE WritesInv'
  BY DEF WritesInv
<1>1. /\ plain /\ regions = 0 /\ region = "none" /\ region' = "none" /\ n' = n + 1
      /\ ~ IsVariableIndex(class, i) /\ i \in Names(class) /\ v \in scope /\ n < shape.ops
      /\ observed' = observed /\ lent' = lent /\ WriteStep(class, i, v) /\ class \in Classes
      /\ accessed' = [accessed EXCEPT ![n + 1] = class]
      /\ class = "member" => i = CurrentRow
  BY DEF WriteTree, WriteStep, WritesInv, control, Classes
<1>2. TypeOK /\ StaticInv /\ live /\ n \in Nat /\ n < MaxOps /\ CurrentRow \in Consts
  <2>1. shape \in [classes : SUBSET Classes, ops : 0 .. MaxOps, kinds : SUBSET RegionKinds]
    BY ValuesAssumption DEF IInv, TypeOK
  <2> QED
    BY <1>1, <2>1, ValuesAssumption DEF IInv, TypeOK, StaticInv, RegionInv
<1>3. /\ i \in scope /\ k \in Keys /\ p \in Places /\ Translate(i) \in Consts /\ k = p
      /\ k[1] = class /\ k[2] = Translate(i) /\ k[2] \in Consts
      /\ (k[1] = "array" /\ k[2] \in Consts) \/ k = <<"member", CurrentRow>>
  <2>1. i \in scope /\ i \in Defined
    BY <1>1, <1>2, NamesDefined
  <2>2. Translate(i) \in Consts /\ (class = "member" => Translate(i) = CurrentRow)
    BY <1>1, <1>2, <2>1, TranslateType DEF IsVariableIndex
  <2> QED
    BY <1>1, <1>2, <2>1, <2>2, ConstantNames DEF Key
<1>4. /\ n + 1 # None /\ 1 .. n \subseteq 1 .. (n + 1) /\ n + 1 \notin 1 .. n /\ n + 1 \in Ops
      /\ n + 1 \in 1 .. (n + 1)
  BY <1>2, FreshOp, OpsFacts
<1>11. Seen' = Seen /\ Seen \subseteq 1 .. n /\ n + 1 \notin Seen
  BY <1>1, <1>2, <1>4, AccessedKept, SeenKept
<1>12. /\ \A q \in Places : writer[q] # None => accessed'[writer[q]] = q[1]
       /\ accessed'[n + 1] = p[1]
  <2>1. p[1] = class
    BY DEF Place
  <2> QED
    BY <1>1, <1>2, <2>1, AccessedKept, SeenKept
<1>5. /\ env[Translate(v)] = env[v] /\ Translate(v) \in Values /\ Translate(v) # None
      /\ env[k[2]] = env[i]
  <2>1. Translate(v) # None
    BY <1>2, <1>1, ConstantNames, OpsFacts
  <2> QED
    BY <1>1, <1>2, <1>3, <2>1, ConstantNames
(* what is left of the facts and of the last writes *)
<1>6. /\ \A q \in Keys : f[q] = IF q \in Invalidated(k) THEN None ELSE facts[q]
      /\ \A q \in Keys : w[q] = IF q \in ForgottenWrites(k) THEN None ELSE lastWrite[q]
      /\ \A q \in Invalidated(k) : class = "member" /\ q[1] = "member" /\ q[2] \notin Consts
      /\ f \in [Keys -> Values \cup {None}] /\ w \in [Keys -> Ops \cup {None}]
      /\ class = "member" => \A u \in Values \ Consts : <<"member", u>> \in Invalidated(k)
  BY <1>2, <1>3 DEF Without, Invalidated, TypeOK
<1>7. \A h \in Keys : w[h] # None =>
        /\ w[h] = lastWrite[h] /\ w[h] \in 1 .. n
        /\ f[h] = facts[h] /\ f[h] # None
        /\ (h[1] = "array" /\ h[2] \in Consts) \/ h = <<"member", CurrentRow>>
        /\ \A q \in Places : writer[q] = w[h] => q = h
  <2> TAKE h \in Keys
  <2> HAVE w[h] # None
  <2>1. w[h] = lastWrite[h]
    BY <1>6
  <2>2. /\ w[h] \in 1 .. n /\ facts[h] # None
        /\ (h[1] = "array" /\ h[2] \in Consts) \/ h = <<"member", CurrentRow>>
        /\ \A q \in Places : writer[q] = w[h] => q = h
    BY <1>1, <2>1 DEF WritesInv
  <2>3. h \notin Invalidated(k)
    BY <1>2, <1>6, <2>2
  <2> QED
    BY <1>6, <2>1, <2>2, <2>3
<1>8. \A h \in Keys : w[h] # None /\ w[h] \in Seen =>
        h[1] = "member" /\ h # k /\ \E u \in Values \ Consts : f[<<"member", u>>] # None
  <2> TAKE h \in Keys
  <2> HAVE w[h] # None /\ w[h] \in Seen
  <2>1. w[h] = lastWrite[h] /\ h = <<"member", CurrentRow>>
    BY <1>1, <1>7 DEF WritesInv
  <2>2. PICK u \in Values \ Consts : facts[<<"member", u>>] # None
    BY <1>1, <2>1 DEF WritesInv
  <2>3. <<"member", u>> \in Keys
    BY DEF Keys, Classes
  <2>4. class # "member"
    <3>1. ASSUME class = "member" PROVE FALSE
      <4>1. k = h /\ <<"member", u>> \in Invalidated(k) /\ k[1] = "member"
        BY <1>3, <1>6, <2>1, <3>1
      <4>2. h \in ForgottenWrites(k)
        BY <2>2, <4>1 DEF ForgottenWrites
      <4> QED
        BY <1>6, <4>2
    <3> QED
      BY <3>1
  <2>5. f[<<"member", u>>] = facts[<<"member", u>>]
    BY <1>6, <2>3, <2>4
  <2> QED
    BY <1>3, <2>1, <2>2, <2>4, <2>5
<1>9. CASE IsKnown(k, Translate(v))
  <2>1. facts[k] = Translate(v)
    BY <1>3, <1>5, <1>6, <1>9 DEF IsKnown
  <2>2. mem[p] = env[v]
    <3>1. Holds(facts, mem) /\ Trusted(k)
      BY <1>1, <1>2 DEF IInv, Truth, Trusted
    <3>2. env[facts[k]] = mem[<<k[1], env[k[2]]>>]
      BY <1>3, <1>5, <2>1, <3>1 DEF Holds
    <3> QED
      BY <1>3, <1>5, <2>1, <3>2 DEF Place
  <2>3. /\ writer' = writer /\ redundant' = Append(redundant, n + 1)
        /\ facts' = f /\ lastWrite' = w
    BY <1>1, <1>9, <2>2 DEF WriteTree
  <2>4. \A j \in 1 .. Len(redundant') :
          /\ redundant'[j] \in 1 .. n' /\ redundant'[j] \notin Seen
          /\ \A q \in Places : writer[q] # redundant'[j]
    <3>1. redundant \in Seq(Ops) /\ observed \subseteq 1 .. n \cup {None}
          /\ \A q \in Places : writer[q] \in 1 .. n \cup {None}
      BY <1>1, <1>2 DEF WritesInv, TypeOK
    <3>2. \A j \in 1 .. Len(redundant) :
            /\ redundant[j] \in 1 .. n /\ redundant[j] \notin Seen
            /\ \A q \in Places : writer[q] # redundant[j]
      BY <1>1 DEF WritesInv
    <3>3. n + 1 \notin Seen /\ \A q \in Places : writer[q] # n + 1
      BY <1>4, <1>11, <3>1
    <3>4. \A j \in 1 .. Len(redundant') :
            (j \in 1 .. Len(redundant) /\ redundant'[j] = redundant[j]) \/ redundant'[j] = n + 1
      BY <1>4, <2>3, <3>1, SequenceGrows
    <3> QED
      BY <1>1, <1>4, <3>2, <3>3, <3>4
  <2> HIDE DEF k, p, f, w
  <2>5. \A h \in Keys : w[h] # None /\ w[h] \in Seen =>
          h[1] = "member" /\ \E u \in Values \ Consts : f[<<"member", u>>] # None
    BY <1>8
  <2>6. observed \subseteq 1 .. n' \cup {None} /\ \A q \in Places : writer[q] \in 1 .. n' \cup {None}
    BY <1>1, <1>4 DEF WritesInv
  <2>7. \A h \in Keys : w[h] # None =>
          /\ w[h] \in 1 .. n' /\ f[h] # None
          /\ (h[1] = "array" /\ h[2] \in Consts) \/ h = <<"member", CurrentRow>>
          /\ \A q \in Places : writer[q] = w[h] => q = h
    BY <1>1, <1>4, <1>7
  <2>8. \A q \in Places : writer'[q] # None => accessed'[writer'[q]] = q[1]
    BY <1>12, <2>3
  <2>9. Seen' = Seen /\ observed' = observed /\ region' = "none"
    BY <1>1, <1>11
  <2> QED
    BY <2>3, <2>4, <2>5, <2>6, <2>7, <2>8, <2>9 DEF WritesInv
<1>10. CASE ~ IsKnown(k, Translate(v))
  <2>1. /\ writer' = [writer EXCEPT ![p] = n + 1]
        /\ redundant' = redundant \o Overwritten(k)
        /\ facts' = [f EXCEPT ![k] = Translate(v)]
        /\ lastWrite' = [w EXCEPT ![k] = n + 1]
    BY <1>1, <1>2, <1>10 DEF WriteTree
  <2>2. /\ \A q \in Places : writer'[q] = IF q = p THEN n + 1 ELSE writer[q]
        /\ \A q \in Keys : facts'[q] = IF q = k THEN Translate(v) ELSE f[q]
        /\ \A q \in Keys : lastWrite'[q] = IF q = k THEN n + 1 ELSE w[q]
    BY <1>2, <1>6, <2>1 DEF TypeOK
  <2>3. Overwritten(k) = IF w[k] = None THEN <<>> ELSE <<w[k]>>
    BY DEF Overwritten
  <2> HIDE DEF k, p, f, w
  <2>4. observed \subseteq 1 .. n' \cup {None} /\ \A q \in Places : writer'[q] \in 1 .. n' \cup {None}
    BY <1>1, <1>4, <2>2 DEF WritesInv
  <2>5. n + 1 \notin Seen /\ \A q \in Places : writer[q] # n + 1
    BY <1>1, <1>4, <1>11 DEF WritesInv
  <2>6. \A j \in 1 .. Len(redundant') :
          (j \in 1 .. Len(redundant) /\ redundant'[j] = redundant[j])
          \/ (w[k] # None /\ redundant'[j] = w[k])
    <3>1. redundant \in Seq(Ops) /\ (w[k] # None => w[k] \in Ops)
      BY <1>2, <1>3, <1>6 DEF TypeOK
    <3>2. CASE w[k] = None
      <4>1. redundant' = redundant
        BY <2>1, <2>3, <3>1, <3>2, SeqType, SequenceGrows, <1>4
      <4> QED
        BY <4>1
    <3>3. CASE w[k] # None
      <4>1. redundant' = Append(redundant, w[k])
        BY <2>1, <2>3, <3>1, <3>3, SequenceGrows
      <4> QED
        BY <3>1, <3>3, <4>1, SequenceGrows
    <3> QED
      BY <3>2, <3>3
  <2>7. w[k] # None => w[k] \in 1 .. n /\ w[k] \notin Seen /\ \A q \in Places : writer'[q] # w[k]
    <3> HAVE w[k] # None
    <3>1. w[k] \in 1 .. n /\ w[k] \notin Seen /\ \A q \in Places : writer[q] = w[k] => q = k
      BY <1>3, <1>7, <1>8
    <3> QED
      BY <1>3, <1>4, <2>2, <3>1
  <2>8. \A j \in 1 .. Len(redundant') :
          /\ redundant'[j] \in 1 .. n' /\ redundant'[j] \notin Seen
          /\ \A q \in Places : writer'[q] # redundant'[j]
    <3>1. \A j \in 1 .. Len(redundant) :
            /\ redundant[j] \in 1 .. n /\ redundant[j] \notin Seen
            /\ \A q \in Places : writer'[q] # redundant[j]
      BY <1>1, <1>4, <2>2 DEF WritesInv
    <3> QED
      BY <1>1, <1>4, <2>6, <2>7, <3>1
  <2>9. ASSUME NEW h \in Keys, lastWrite'[h] # None
        PROVE  /\ lastWrite'[h] \in 1 .. n' /\ facts'[h] # None
               /\ (h[1] = "array" /\ h[2] \in Consts) \/ h = <<"member", CurrentRow>>
               /\ lastWrite'[h] \in Seen =>
                    h[1] = "member" /\ \E u \in Values \ Consts : facts'[<<"member", u>>] # None
               /\ \A q \in Places : writer'[q] = lastWrite'[h] => q = h
    <3>1. CASE h = k
      BY <1>1, <1>3, <1>4, <1>5, <2>2, <2>5, <3>1
    <3>2. CASE h # k
      <4>1. lastWrite'[h] = w[h] /\ facts'[h] = f[h] /\ w[h] # None
        BY <2>2, <2>9, <3>2
      <4>2. /\ w[h] \in 1 .. n' /\ f[h] # None
            /\ (h[1] = "array" /\ h[2] \in Consts) \/ h = <<"member", CurrentRow>>
            /\ \A q \in Places : writer[q] = w[h] => q = h
        BY <1>1, <1>4, <1>7, <4>1
      <4>3. \A q \in Places : writer'[q] = w[h] => q = h
        BY <1>4, <1>7, <2>2, <4>1, <4>2
      <4>4. w[h] \in Seen =>
              h[1] = "member" /\ \E u \in Values \ Consts : facts'[<<"member", u>>] # None
        <5> HAVE w[h] \in Seen
        <5>1. PICK u \in Values \ Consts : h[1] = "member" /\ f[<<"member", u>>] # None
          BY <1>8, <4>1
        <5>2. <<"member", u>> \in Keys
          BY DEF Keys, Classes
        <5>3. facts'[<<"member", u>>] # None
          BY <1>5, <2>2, <5>1, <5>2
        <5> QED
          BY <5>1, <5>3
      <4> QED
        BY <4>1, <4>2, <4>3, <4>4
    <3> QED
      BY <3>1, <3>2
  <2>10. \A q \in Places : writer'[q] # None => accessed'[writer'[q]] = q[1]
    BY <1>12, <2>2
  <2> QED
    BY <1>1, <1>11, <2>4, <2>8, <2>9, <2>10 DEF WritesInv
<1> QED
  BY <1>9, <1>10

(* A write of a global or to the RAM does not concern arrays and members. *)
LEMMA WritesElsewhere ==
  ASSUME TypeOK, WritesInv, NEW class \in Classes, NEW i, NEW v, WriteStep(class, i, v),
         UNCHANGED <<lastWrite, redundant, writer, plain>>,
         \A k \in Keys : k[1] \notin Stateful => facts'[k] = facts[k]
  PROVE  WritesInv'
<1> SUFFICES ASSUME plain', regions' = 0 PROVE WritesInv'
  BY DEF WritesInv
<1>1. /\ plain /\ regions = 0 /\ regions' = regions /\ region' = region /\ n' = n + 1
      /\ observed' = observed /\ lent' = lent
      /\ accessed' = [accessed EXCEPT ![n + 1] = class]
  BY DEF WriteStep, control
<1>2. \A r \in 1 .. n : accessed'[r] = accessed[r]
  BY <1>1, AccessedKept
<1>3. Seen' = Seen /\ observed' \subseteq 1 .. n \cup {None}
  BY <1>1, <1>2, SeenKept DEF WritesInv
<1> QED
  BY <1>1, <1>2, <1>3, WritesAside

(* A call sees what it is handed, which no longer counts then. *)
LEMMA UnknownEffectWrites ==
  ASSUME TypeOK, WritesInv, NEW handed \in SUBSET {"array", "member"}, NEW changed \in SUBSET handed,
         UnknownEffect(handed, changed)
  PROVE  WritesInv'
<1> SUFFICES ASSUME plain', regions' = 0 PROVE WritesInv'
  BY DEF WritesInv
<1>1. /\ plain /\ changed = {} /\ regions' = regions /\ region' = region /\ n' = n + 1
      /\ redundant' = redundant /\ lastWrite' = lastWrite /\ accessed' = accessed
      /\ lent' = lent \cup handed
  BY DEF UnknownEffect, control
<1>2. writer' = writer
  BY <1>1 DEF UnknownEffect, TypeOK
<1>3. handed \X Data \subseteq Places
  BY DEF Places, Classes
<1>4. observed' \subseteq observed \cup {writer[q] : q \in handed \X Data}
  BY DEF UnknownEffect
<1>5. observed' \subseteq 1 .. n \cup {None}
  BY <1>1, <1>3, <1>4 DEF WritesInv
<1>6. Seen' \subseteq Seen
  <2> SUFFICES ASSUME NEW r \in observed', r # None, accessed[r] \notin lent \cup handed
               PROVE  r \in observed
    BY <1>1 DEF Seen
  <2>1. ASSUME NEW q \in handed \X Data, r = writer[q] PROVE FALSE
    <3>1. accessed[r] = q[1] /\ q[1] \in handed
      BY <1>1, <1>3, <2>1 DEF WritesInv
    <3> QED
      BY <3>1
  <2> QED
    BY <1>4, <2>1
<1>7. \A k \in Keys : k[1] \notin Stateful => facts'[k] = facts[k]
  BY DEF UnknownEffect, Forget
<1> QED
  BY <1>1, <1>2, <1>5, <1>6, <1>7, WritesAside

LEMMA NextWrites == IInv /\ WritesInv /\ [Next]_vars => WritesInv'
<1> SUFFICES ASSUME IInv, WritesInv, [Next]_vars PROVE WritesInv'
  OBVIOUS
<1>1. TypeOK
  BY DEF IInv
<1>2. ASSUME NEW class \in Classes, NEW v \in Values, Read(class, v) PROVE WritesInv'
  BY <1>2, ReadWrites
<1>3. ASSUME NEW class \in {"array", "member"}, NEW i \in Values, NEW v \in Values,
             WriteTree(class, i, v)
      PROVE  WritesInv'
  BY <1>3, WriteTreeWrites
<1>4. ASSUME NEW g \in Consts, NEW v \in Values, WriteGlobal(g, v) PROVE WritesInv'
  <2>1. Key("global", g)[1] = "global"
    BY DEF Key
  <2>2. \A k \in Keys : k[1] \notin Stateful => facts'[k] = facts[k]
    BY <1>1, <1>4, <2>1 DEF WriteGlobal, TypeOK, Stateful
  <2> QED
    BY <1>1, <1>4, <2>2, WritesElsewhere DEF WriteGlobal, Classes, Stateful
<1>5. ASSUME NEW a \in Values, NEW v \in Values, StoreRam(a, v) PROVE WritesInv'
  <2>1. \A k \in Keys : k[1] \notin Stateful => facts'[k] = facts[k]
    BY <1>5 DEF StoreRam, AfterStore, Key, Stateful
  <2> QED
    BY <1>1, <1>5, <2>1, WritesElsewhere DEF StoreRam, Classes, Stateful
<1>6. ASSUME NEW handed \in SUBSET {"array", "member"}, NEW changed \in SUBSET handed,
             UnknownEffect(handed, changed)
      PROVE  WritesInv'
  BY <1>1, <1>6, UnknownEffectWrites
<1>7. ASSUME NEW kind \in RegionKinds, EnterRegion(kind) PROVE WritesInv'
  <2>1. regions \in Nat /\ regions' = regions + 1
    BY <1>1, <1>7 DEF EnterRegion, TypeOK
  <2>2. regions' # 0
    BY <2>1
  <2> QED
    BY <2>2 DEF WritesInv
<1>8. CASE NextRegion \/ LeaveRegion
  BY <1>8 DEF NextRegion, LeaveRegion, WritesInv
<1>9. CASE UNCHANGED vars
  BY <1>9 DEF vars, walk, control, run, WritesInv, Seen
<1> QED
  BY <1>2, <1>3, <1>4, <1>5, <1>6, <1>7, <1>8, <1>9 DEF Next

(* In a plain function of any length without regions, a write that will be  *)
(* erased was seen by no read that stays, is no place's last one, and was    *)
(* seen by a call only if one was handed what it writes to.                  *)
THEOREM WritesKept == Spec => []WritesPreserved
<1>1. TypeOK /\ WritesInv => WritesPreserved
  BY OpsFacts DEF WritesInv, WritesPreserved, Seen, TypeOK
<1>2. IInv => TypeOK
  BY DEF IInv
<1> QED
  BY <1>1, <1>2, Invariance, InitWrites, NextWrites, PTL DEF Spec
=============================================================================
