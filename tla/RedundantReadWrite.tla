------------------------- MODULE RedundantReadWrite -------------------------
(***************************************************************************)
(* -llzk-duplicate-read-write-elim                                         *)
(* (lib/Transforms/LLZKRedundantReadAndWriteEliminationPass.cpp): the pass *)
(* walks a function once and keeps, for every place in memory, the value   *)
(* it is known to hold; it replaces reads of known places and marks writes *)
(* as redundant.  The function is generated operation by operation, and    *)
(* one of its executions runs along with the walk, so that what the pass   *)
(* believes can be compared with what is the case.                         *)
(*                                                                         *)
(* A place is named by a class and a value: the name of a global, the      *)
(* address in the RAM, the index in an array, the row (table offset) of a  *)
(* member.  Constants name themselves; other values may be equal to each   *)
(* other or to a constant when the function runs.  There is one array and  *)
(* one member, and what they hold are scalars.                             *)
(***************************************************************************)
EXTENDS Naturals, Sequences

CONSTANTS
  Data,        \* what a place may hold
  Consts,      \* the constants that occur in the function
  CurrentRow,  \* the constant 0: the row that is written
  Args,        \* the arguments of the function
  MaxOps,      \* bound: operations of a function, those with regions apart
  MaxRegions,  \* bound: operations with regions
  Memories,    \* what the memory may be on entry and after unknown effects
  Shapes,      \* what a function has: classes of places, operations, regions
  None         \* no value, no operation

Ops == 1 .. MaxOps

(* SSA values; an operation stands for its result. *)
Values == Consts \cup Args \cup Ops

Stateful == {"global", "ram"}
Classes == Stateful \cup {"array", "member"}

(* scf.if without and with an else, scf.for, scf.while. *)
RegionKinds == {"if", "ifelse", "for", "while"}

(* ReferenceIDs and paths of them, and the places they denote at run time. *)
Keys == Classes \X Values
Places == Classes \X Data

ASSUME ValuesAssumption ==
  /\ MaxOps \in Nat
  /\ MaxRegions \in Nat
  /\ Consts \subseteq Data
  /\ CurrentRow \in Consts
  /\ Args \cap Data = {}
  /\ Ops \cap (Data \cup Args) = {}
  /\ None \notin Values \cup Data
  /\ Memories \subseteq [Places -> Data]
  /\ Shapes \subseteq [classes : SUBSET Classes, ops : 0 .. MaxOps, kinds : SUBSET RegionKinds]

VARIABLES
  shape,        \* which of the shapes the function has
  n,            \* operations so far
  accessed,     \* the class each operation reads or writes
  facts,        \* KnownState: key -> the value its place is known to hold
  lastWrite,    \* ReferenceNode::lastWrite
  replacement,  \* replacementMap
  redundant,    \* redundantWrites
  scope,        \* the values that may be used here
  region,       \* the kind of region the walk is in, or "none"
  second,       \* it is the second region of its operation
  parent,       \* parentState, and the scope, at that operation
  first,        \* the state and the memory at the end of the first region
  live,         \* the execution runs through what is being walked
  env,          \* the values in the execution
  mem,          \* the memory in the execution
  writer,       \* history: the write each place has its content from
  observed,     \* history: the writes seen by a read that is not replaced
  strays,       \* history: reads replaced by what is not defined here
  regions,      \* history: operations with regions so far
  plain,        \* history: no conditional without else, loop, variable index, or
                \*          call that changed an array or a member
  lent          \* history: the classes of what was handed to a call

walk == <<n, accessed, facts, lastWrite, replacement, redundant, scope>>
control == <<region, second, parent, first, live, regions>>
run == <<env, mem, writer, observed, strays>>
vars == <<shape, walk, control, run, plain, lent>>

-----------------------------------------------------------------------------
NoFacts == [k \in Keys |-> None]
NoWrites == [k \in Keys |-> None]
NoParent == [facts |-> NoFacts, scope |-> {}]
NoState == [facts |-> NoFacts, lastWrite |-> NoWrites, mem |-> [p \in Places |-> None]]

Init ==
  /\ shape \in Shapes
  /\ n = 0
  /\ accessed = [r \in Ops |-> None]
  /\ facts = NoFacts
  /\ lastWrite = NoWrites
  /\ replacement = [r \in Ops |-> None]
  /\ redundant = <<>>
  /\ scope = Consts \cup Args
  /\ region = "none"
  /\ second = FALSE
  /\ parent = NoParent
  /\ first = NoState
  /\ live = TRUE
  /\ \E arg \in [Args -> Data] :
       env = [v \in Values |-> IF v \in Consts THEN v ELSE IF v \in Args THEN arg[v] ELSE None]
  /\ mem \in Memories
  /\ writer = [p \in Places |-> None]
  /\ observed = {}
  /\ strays = {}
  /\ regions = 0
  /\ plain = TRUE
  /\ lent = {}

(* Mutant of Translate: a value that will be replaced is used as it is. *)
NotTranslated(v) == v

Translate(v) == IF v \in Ops /\ replacement[v] # None THEN replacement[v] ELSE v

Key(class, v) == <<class, Translate(v)>>
Place(class, v) == <<class, env[v]>>

(* Which values can name a place of the class. *)
Names(class) == IF class = "global" THEN Consts ELSE scope

IsVariableIndex(class, v) == class = "array" /\ Translate(v) \notin Consts

(* doStatefulRead, doArrayReadLike, MemberReadOp: the first read of a place *)
(* makes its result the known value; a later one is replaced.               *)
Read(class, v) ==
  /\ n < shape.ops
  /\ class \in shape.classes
  /\ v \in Names(class)
  /\ n' = n + 1
  /\ accessed' = [accessed EXCEPT ![n'] = class]
  /\ scope' = scope \cup {n'}
  /\ IF facts[Key(class, v)] = None
     THEN facts' = [facts EXCEPT ![Key(class, v)] = n'] /\ UNCHANGED replacement
     ELSE replacement' = [replacement EXCEPT ![n'] = facts[Key(class, v)]] /\ UNCHANGED facts
  /\ env' = IF live THEN [env EXCEPT ![n'] = mem[Place(class, v)]] ELSE env
  /\ observed' = IF live /\ facts[Key(class, v)] = None
                 THEN observed \cup {writer[Place(class, v)]} ELSE observed
  /\ strays' = IF facts[Key(class, v)] \in scope \cup {None} THEN strays ELSE strays \cup {n'}
  /\ plain' = (plain /\ ~ IsVariableIndex(class, v))
  /\ UNCHANGED <<shape, lastWrite, redundant, control, mem, writer, lent>>

-----------------------------------------------------------------------------
WriteStep(class, i, v) ==
  /\ n < shape.ops
  /\ class \in shape.classes
  /\ i \in Names(class)
  /\ v \in scope
  /\ n' = n + 1
  /\ accessed' = [accessed EXCEPT ![n'] = class]
  /\ mem' = IF live THEN [mem EXCEPT ![Place(class, i)] = env[v]] ELSE mem
  /\ UNCHANGED <<shape, replacement, scope, control, env, observed, strays, lent>>

WriteGlobal(g, v) ==
  /\ WriteStep("global", g, v)
  /\ facts' = [facts EXCEPT ![Key("global", g)] = Translate(v)]
  /\ UNCHANGED <<lastWrite, redundant, writer, plain>>

(* Any two addresses may be the same. *)
AfterStore(k, v) ==
  [q \in Keys |-> IF q = k THEN v ELSE IF q[1] = "ram" THEN None ELSE facts[q]]

StoreRam(a, v) ==
  /\ WriteStep("ram", a, v)
  /\ facts' = AfterStore(Key("ram", a), Translate(v))
  /\ UNCHANGED <<lastWrite, redundant, writer, plain>>

(* Mutant of Invalidated: a read of a row that is not constant stays known. *)
InvalidatedByIndex(k) == IF k[1] = "array" /\ k[2] \notin Consts THEN {"array"} \X Values ELSE {}

(* What a write to k makes unknown: any element, when the index is not      *)
(* constant (invalidateChildren); the reads of a member in a row that is    *)
(* not (invalidateNonIntegerOffsetChildren).                                *)
Invalidated(k) ==
  IF k[1] = "member" THEN {"member"} \X (Values \ Consts)
  ELSE IF k[2] \in Consts THEN {} ELSE {"array"} \X Values

(* Mutant of ForgottenWrites: only what was invalidated is forgotten. *)
ForgottenInvalidated(k) == Invalidated(k)

(* The writes that are no longer known to be unobserved: those to what was  *)
(* invalidated and, of a member, the one such a read may have seen.         *)
ForgottenWrites(k) ==
  Invalidated(k) \cup
    (IF k[1] = "member" /\ \E q \in Invalidated(k) : facts[q] # None THEN {k} ELSE {})

Without(f, gone) == [q \in Keys |-> IF q \in gone THEN None ELSE f[q]]

(* Mutant of Overwritten: the null pointer of a first write is appended. *)
OverwrittenOrNull(k) == <<Without(lastWrite, ForgottenWrites(k))[k]>>

(* The write that nobody saw before this one took its place. *)
Overwritten(k) ==
  IF Without(lastWrite, ForgottenWrites(k))[k] = None
  THEN <<>> ELSE <<Without(lastWrite, ForgottenWrites(k))[k]>>

IsKnown(k, v) == Without(facts, Invalidated(k))[k] = v

(* doArrayWriteLike, MemberWriteOp: a write of the known value is redundant; *)
(* another one makes the last write redundant.                               *)
WriteTree(class, i, v) ==
  /\ class \in {"array", "member"}
  /\ class = "member" => i = CurrentRow
  /\ WriteStep(class, i, v)
  /\ IF IsKnown(Key(class, i), Translate(v))
     THEN /\ redundant' = Append(redundant, n')
          /\ facts' = Without(facts, Invalidated(Key(class, i)))
          /\ lastWrite' = Without(lastWrite, ForgottenWrites(Key(class, i)))
     ELSE /\ redundant' = redundant \o Overwritten(Key(class, i))
          /\ facts' = [Without(facts, Invalidated(Key(class, i))) EXCEPT
                         ![Key(class, i)] = Translate(v)]
          /\ lastWrite' = [Without(lastWrite, ForgottenWrites(Key(class, i))) EXCEPT
                             ![Key(class, i)] = n']
  /\ writer' =
       IF live /\ ~ (IsKnown(Key(class, i), Translate(v)) /\ mem[Place(class, i)] = env[v])
       THEN [writer EXCEPT ![Place(class, i)] = n'] ELSE writer
  /\ plain' = (plain /\ ~ IsVariableIndex(class, i))

Forget(f) == [q \in Keys |-> IF q[1] \in Stateful THEN None ELSE f[q]]

(* A call, or whatever else has an unknown effect or one that is no read    *)
(* (hasUnknownOrNonReadEffect).  The pass keeps what it knows of arrays and *)
(* members and their last writes; when the callee is handed them, which is  *)
(* by reference in llzk-witgen, it may see what they hold, and change it.   *)
UnknownEffect(handed, changed) ==
  /\ n < shape.ops
  /\ handed \subseteq shape.classes
  /\ n' = n + 1
  /\ facts' = Forget(facts)
  /\ \E m \in Memories :
       mem' = IF live THEN [p \in Places |-> IF p[1] \in Stateful \cup changed THEN m[p] ELSE mem[p]]
              ELSE mem
  /\ writer' = IF live THEN [p \in Places |-> IF p[1] \in changed THEN None ELSE writer[p]] ELSE writer
  /\ observed' = IF live THEN observed \cup {writer[p] : p \in handed \X Data} ELSE observed
  /\ lent' = lent \cup handed
  /\ plain' = (plain /\ changed = {})
  /\ UNCHANGED <<shape, accessed, lastWrite, replacement, redundant, scope, control, env, strays>>

-----------------------------------------------------------------------------
Repeats(kind) == kind \in {"for", "while"}

(* Mutant of AtEntry: the body of a loop is taken for an ordinary region. *)
AtEntryKept(kind, f) == f

(* regionEntryState: the body of a loop may see the writes of an earlier    *)
(* iteration.                                                               *)
AtEntry(kind, f) == IF Repeats(kind) THEN Forget(f) ELSE f

(* The iteration of a loop that is executed along with the walk need not be *)
(* the first one: the earlier ones left some memory.                        *)
EarlierIterations(kind) == IF Repeats(kind) THEN {mem} \cup Memories ELSE {mem}

(* An operation with regions is reached.  The first region of scf.while,    *)
(* its condition, always runs.                                              *)
EnterRegion(kind) ==
  /\ region = "none"
  /\ kind \in shape.kinds
  /\ regions < MaxRegions
  /\ regions' = regions + 1
  /\ region' = kind
  /\ second' = FALSE
  /\ parent' = [facts |-> facts, scope |-> scope]
  /\ first' = [facts |-> AtEntry(kind, facts), lastWrite |-> lastWrite, mem |-> mem]
  /\ facts' = AtEntry(kind, facts)
  /\ live' \in (IF kind = "while" THEN {TRUE} ELSE BOOLEAN)
  /\ mem' \in (IF live' THEN EarlierIterations(kind) ELSE {mem})
  /\ plain' = (plain /\ kind = "ifelse")
  /\ UNCHANGED <<shape, n, accessed, lastWrite, replacement, redundant, scope, env, writer,
                 observed, strays, lent>>

(* The second region of scf.if and scf.while starts from the same state;    *)
(* `first` held it and now holds the end of the first region.               *)
NextRegion ==
  /\ region \in {"ifelse", "while"}
  /\ ~ second
  /\ second' = TRUE
  /\ first' = [facts |-> facts, lastWrite |-> lastWrite, mem |-> mem]
  /\ facts' = first.facts
  /\ lastWrite' = first.lastWrite
  /\ scope' = parent.scope
  /\ live' \in (IF region = "while" THEN BOOLEAN ELSE {~ live})
  /\ mem' \in (IF live' THEN EarlierIterations(region) ELSE {mem})
  /\ UNCHANGED <<shape, n, accessed, replacement, redundant, region, parent, regions, env, writer,
                 observed, strays, plain, lent>>

(* greatestCommonSubtree, of nodes without children. *)
Common(k) == ~ second \/ (facts[k] = first.facts[k] /\ lastWrite[k] = first.lastWrite[k])

(* The facts all regions end with; on globals and the RAM, if they were     *)
(* there before as well.                                                    *)
AfterRegion(k) ==
  IF k[1] \in Stateful
  THEN IF facts[k] = parent.facts[k] /\ (second => facts[k] = first.facts[k])
       THEN facts[k] ELSE None
  ELSE IF Common(k) THEN facts[k] ELSE None

LeaveRegion ==
  /\ region # "none"
  /\ region \in {"ifelse", "while"} => second
  /\ region' = "none"
  /\ facts' = [k \in Keys |-> AfterRegion(k)]
  /\ lastWrite' = [k \in Keys |-> IF Common(k) THEN lastWrite[k] ELSE None]
  /\ scope' = parent.scope
  /\ live' = TRUE
  /\ mem' = IF region = "while" THEN first.mem ELSE mem
  /\ second' = FALSE
  /\ parent' = NoParent
  /\ first' = NoState
  /\ UNCHANGED <<shape, n, accessed, replacement, redundant, regions, env, writer, observed,
                 strays, plain, lent>>

Next ==
  \/ \E class \in Classes, v \in Values : Read(class, v)
  \/ \E g \in Consts, v \in Values : WriteGlobal(g, v)
  \/ \E a, v \in Values : StoreRam(a, v)
  \/ \E class \in {"array", "member"}, i, v \in Values : WriteTree(class, i, v)
  \/ \E handed \in SUBSET {"array", "member"} : \E changed \in SUBSET handed :
       UnknownEffect(handed, changed)
  \/ \E kind \in RegionKinds : EnterRegion(kind)
  \/ NextRegion
  \/ LeaveRegion

Spec == Init /\ [][Next]_vars

-----------------------------------------------------------------------------
TypeOK ==
  /\ shape \in Shapes
  /\ n \in 0 .. MaxOps
  /\ accessed \in [Ops -> Classes \cup {None}]
  /\ facts \in [Keys -> Values \cup {None}]
  /\ lastWrite \in [Keys -> Ops \cup {None}]
  /\ replacement \in [Ops -> Values \cup {None}]
  /\ redundant \in Seq(Ops)
  /\ scope \subseteq Values
  /\ region \in RegionKinds \cup {"none"}
  /\ second \in BOOLEAN
  /\ parent \in [facts : [Keys -> Values \cup {None}], scope : SUBSET Values]
  /\ first \in [facts : [Keys -> Values \cup {None}], lastWrite : [Keys -> Ops \cup {None}],
               mem : [Places -> Data \cup {None}]]
  /\ live \in BOOLEAN
  /\ env \in [Values -> Data \cup {None}]
  /\ mem \in [Places -> Data]
  /\ writer \in [Places -> Ops \cup {None}]
  /\ observed \subseteq Ops \cup {None}
  /\ strays \subseteq Ops
  /\ regions \in Nat
  /\ plain \in BOOLEAN
  /\ lent \subseteq Classes

(* If the read r is replaced, then by a value that is defined on every way  *)
(* to it and, when it was executed, is what it read.                        *)
Right(r) ==
  replacement[r] # None =>
    /\ r \notin strays
    /\ env[r] # None => env[replacement[r]] = env[r]

TreeReadsRight == \A r \in Ops : accessed[r] \notin Stateful => Right(r)

(* Whatever the control flow, the repetitions of loops and the unknown       *)
(* effects, a replaced read of a global or of the RAM has the value it is    *)
(* replaced by, as long as no replaced read of a member or array was wrong   *)
(* before ("Stateful reads are reused when the current analysis state        *)
(* proves the read observes the same value").                                *)
StatefulReadsPreserved == TreeReadsRight => \A r \in Ops : Right(r)

(* So has every replaced read of a function in which each conditional has    *)
(* two branches, nothing repeats, arrays have constant indices, and no call  *)
(* changes an array or a struct it is handed.                                *)
ReadsPreserved == plain => \A r \in Ops : Right(r)

(* The same of any function without calls that are handed arrays or structs. *)
AllReadsPreserved == lent = {} => \A r \in Ops : Right(r)

(* In such a function without regions, a write that will be erased was seen *)
(* by no read that stays, and is no place's last one; nor was it seen by a  *)
(* call, as long as nothing of its class was handed to one.                 *)
WritesPreserved ==
  plain /\ regions = 0 =>
    \A j \in 1 .. Len(redundant) :
      /\ accessed[redundant[j]] \notin lent => redundant[j] \notin observed
      /\ \A p \in Places : writer[p] # redundant[j]

(* A replacement is not replaced itself ("this avoids having a daisy chain") *)
NoDaisyChain ==
  \A r \in Ops : replacement[r] \in Ops => replacement[replacement[r]] = None

(* No write is erased twice. *)
NoDoubleErase ==
  \A i, j \in 1 .. Len(redundant) : redundant[i] = redundant[j] => i = j
=============================================================================
