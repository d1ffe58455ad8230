---------------------------- MODULE PolyLowering ----------------------------
(***************************************************************************)
(* The pass -llzk-poly-lowering-pass on one struct: subexpressions of a    *)
(* degree above maxDegree are factored into auxiliary members, which       *)
(* constrain reads and compute writes.  lowerExpression is recursive and   *)
(* changes the block, a memo of degrees and a cache of rewrites on its     *)
(* way: stack holds its activations.                                       *)
(***************************************************************************)
EXTENDS FeltBlock

CONSTANTS
  Programs,         \* the bodies of constrain, as blocks of operations
  MaxDegrees,       \* the values of the option max-degree
  ReuseAddresses,   \* whether a new operation may get the address of an erased one
  MaxAddress        \* the bound on addresses

ASSUME PolyLoweringAssumption ==
  /\ MaxDegrees \subseteq Nat \ {0, 1}
  /\ ReuseAddresses \in BOOLEAN
  /\ MaxAddress \in Nat
  /\ \A p \in Programs :
       /\ IsBody(p) /\ OfKind(p, "aux") = {} /\ DOMAIN p.op = Live(p)
       /\ \A id \in Live(p) : p.op[id].kind \in Users => p.op[id].leaf = id

VARIABLES
  program,          \* the body before the pass, kept to compare with
  maxDegree,
  body,             \* the body of constrain
  degreeMemo,       \* degrees of values, as a function of addresses
  rewrites,         \* replacements of values, likewise
  auxAssignments,   \* the auxiliary members: what is computed and how it is read
  phase,            \* what runOnOperation is at
  walk,             \* the operations that the current walk has yet to visit
  current, slots,   \* the operation being visited, and which of its operands are left
  call,             \* the copy of a call's operands, and whether it changed
  stack, returned,  \* activations of lowerExpression, and what the last one returned
  order, visiting   \* auxiliary members in the order of their writes; visits under way

vars == <<program, maxDegree, body, degreeMemo, rewrites, auxAssignments, phase, walk,
          current, slots, call, stack, returned, order, visiting>>

None == 0
NoCall == [operands |-> <<>>, modified |-> FALSE]
Top == Head(stack)
Visit == First(body, walk)
Slot == Min(slots)
Frame(val, useOp) ==
  [val |-> val, useOp |-> useOp, at |-> "entry", lhs |-> None, rhs |-> None,
   before |-> None, eraseMul |-> FALSE]

Init ==
  /\ program \in Programs
  /\ maxDegree \in MaxDegrees
  /\ body = program
  /\ degreeMemo = <<>> /\ rewrites = <<>> /\ auxAssignments = <<>>
  /\ phase = "equalities" /\ walk = OfKind(program, "eq")
  /\ current = None /\ slots = {} /\ call = NoCall
  /\ stack = <<>> /\ returned = None
  /\ order = <<>> /\ visiting = <<>>

-----------------------------------------------------------------------------
(* Degrees *)

Addresses(b) == DOMAIN b.op
Larger(a, b) == IF a > b THEN a ELSE b

(* A degree is taken from the memo where there is one. *)
DegreeOf(b, memo, degree, v) ==
  LET kind == b.op[v].kind
      args == b.op[v].args
  IN  IF v \in DOMAIN memo THEN memo[v]
      ELSE CASE kind = "const" -> 0
             [] kind \in {"input", "aux"} -> 1
             [] kind \in Sums -> Larger(degree[args[1]], degree[args[2]])
             [] kind \in Products -> degree[args[1]] + degree[args[2]]
             [] kind = "neg" -> degree[args[1]]
DegreeIn(b, memo) == LET degree[v \in Live(b)] == DegreeOf(b, memo, degree, v) IN degree

Degree == DegreeIn(body, degreeMemo)
FreshDegree == DegreeIn(body, <<>>)

(* The operations that a value is computed from, down to those where the    *)
(* descent stops.                                                           *)
Reached(b, stop) ==
  LET reached[v \in Live(b)] ==
        IF v \in stop THEN {v} ELSE {v} \cup UNION {reached[a] : a \in ToSet(b.op[v].args)}
  IN reached

(* The values that the computation of v's degree comes to. *)
Visited(v) == Reached(body, DOMAIN degreeMemo)[v]

MemoisedAll(vs) == Overlay(degreeMemo, [v \in UNION {Visited(v) : v \in vs} |-> Degree[v]])
Memoised(v) == MemoisedAll({v})

-----------------------------------------------------------------------------
(* Steps of lowerExpression *)

Allocatable(b) ==
  {Len(b.op) + 1}
    \cup (IF ReuseAddresses THEN DOMAIN b.op \ Live(b) ELSE {})
Fresh(b) == Len(b.op) + 1

Return(value) == stack' = Tail(stack) /\ returned' = value
Call(val, useOp, at) ==
  /\ stack' = <<Frame(val, useOp), [Top EXCEPT !.at = at]>> \o Tail(stack)
  /\ UNCHANGED returned

IdentityIfAbsent(val) == rewrites' = Overlay(rewrites, [v \in {val} |-> val])

CallersUnchanged ==
  UNCHANGED <<program, maxDegree, phase, walk, current, slots, call, order, visiting>>

(* Mutant: a cached value is taken wherever it was made. *)
HasCachedRewriteAnywhere(frame) == frame.val \in DOMAIN rewrites

(* A replacement is taken where it is defined before the use. *)
HasCachedRewrite(frame) ==
  /\ frame.val \in DOMAIN rewrites
  /\ ProperlyDominates(body, rewrites[frame.val], frame.useOp)

(* Mutant: negations are passed over. *)
LoweredRootsButNeg == Sums \cup {"mul"}

(* The operations that lowerExpression has rules for. *)
LoweredRoots == Sums \cup {"neg", "mul"}

ReturnCached ==
  /\ stack # <<>> /\ Top.at = "entry"
  /\ HasCachedRewrite(Top)
  /\ Return(rewrites[Top.val])
  /\ UNCHANGED <<body, degreeMemo, rewrites, auxAssignments>> /\ CallersUnchanged

(* Small enough, or a root that the pass has no rule for. *)
ReturnUnchanged ==
  /\ stack # <<>> /\ Top.at = "entry" /\ ~HasCachedRewrite(Top)
  /\ \/ Degree[Top.val] <= maxDegree
     \/ body.op[Top.val].kind \notin LoweredRoots
  /\ degreeMemo' = Memoised(Top.val)
  /\ IdentityIfAbsent(Top.val)
  /\ Return(Top.val)
  /\ UNCHANGED <<body, auxAssignments>> /\ CallersUnchanged

LowerLhs ==
  /\ stack # <<>> /\ Top.at = "entry" /\ ~HasCachedRewrite(Top)
  /\ Degree[Top.val] > maxDegree
  /\ body.op[Top.val].kind \in LoweredRoots
  /\ degreeMemo' = Memoised(Top.val)
  /\ Call(body.op[Top.val].args[1], Top.val, "lhs")
  /\ UNCHANGED <<body, rewrites, auxAssignments>> /\ CallersUnchanged

LowerRhs ==
  /\ stack # <<>> /\ Top.at = "lhs" /\ returned # None
  /\ body.op[Top.val].kind # "neg"
  /\ stack' = <<Frame(body.op[Top.val].args[2], Top.val),
                [Top EXCEPT !.at = "rhs", !.lhs = returned]>> \o Tail(stack)
  /\ returned' = None
  /\ UNCHANGED <<body, degreeMemo, rewrites, auxAssignments>> /\ CallersUnchanged

(* A sum or a negation keeps its place and gets the lowered operands. *)
ReturnRoot ==
  /\ stack # <<>> /\ returned # None
  /\ \/ Top.at = "rhs" /\ body.op[Top.val].kind \in Sums
     \/ Top.at = "lhs" /\ body.op[Top.val].kind = "neg"
  /\ LET args == IF Top.at = "lhs" THEN <<returned>> ELSE <<Top.lhs, returned>>
         degree == IF Top.at = "lhs" THEN Degree[returned]
                   ELSE Larger(Degree[Top.lhs], Degree[returned])
     IN  /\ body' = SetArgs(body, Top.val, args)
         /\ degreeMemo' = Put(MemoisedAll(ToSet(args)), Top.val, degree)
  /\ IdentityIfAbsent(Top.val)
  /\ Return(Top.val)
  /\ UNCHANGED auxAssignments /\ CallersUnchanged

(* Both operands of a product are lowered: the builder is set after it. *)
BeginProduct ==
  /\ stack # <<>> /\ Top.at = "rhs" /\ returned # None
  /\ body.op[Top.val].kind = "mul"
  /\ degreeMemo' = MemoisedAll({Top.lhs, returned})
  /\ stack' = <<[Top EXCEPT !.at = "factor", !.rhs = returned,
                   !.before = Following(body, Top.val),
                   !.eraseMul = Degree[Top.lhs] + Degree[returned] > maxDegree]>> \o Tail(stack)
  /\ returned' = None
  /\ UNCHANGED <<body, rewrites, auxAssignments>> /\ CallersUnchanged

ProductDegree == degreeMemo[Top.lhs] + degreeMemo[Top.rhs]

(* Mutant: the uses that are replaced include the one in the new constraint. *)
InsertAuxReplaced(b, value, aux, before) ==
  LET eq == Larger(Fresh(body), aux + 1)
  IN Insert(b, <<aux, eq>>,
            [id \in {aux, eq} |-> IF id = aux THEN Operation("aux", <<>>, Len(auxAssignments) + 1)
                                  ELSE Operation("eq", <<aux, aux>>, 0)], before)

(* An auxiliary member for a value: its read, and the constraint that it   *)
(* equals the value.                                                       *)
InsertAux(b, value, aux, before) ==
  LET eq == Larger(Fresh(body), aux + 1)
  IN Insert(b, <<aux, eq>>,
            [id \in {aux, eq} |-> IF id = aux THEN Operation("aux", <<>>, Len(auxAssignments) + 1)
                                  ELSE Operation("eq", <<aux, value>>, 0)], before)

(* Mutant: the degree is recorded for the operation after the read. *)
RecordAuxOff(value, aux) ==
  /\ auxAssignments' = Append(auxAssignments, [computed |-> value, aux |-> aux])
  /\ degreeMemo' = Put(degreeMemo, aux + 2, 1)
  /\ aux < MaxAddress /\ Fresh(body) < MaxAddress

(* Mutant: what is computed is the product, not its factor. *)
RecordAuxOfProduct(value, aux) ==
  /\ auxAssignments' =
       Append(auxAssignments, [computed |-> IF stack = <<>> THEN value ELSE Top.val, aux |-> aux])
  /\ degreeMemo' = Put(degreeMemo, aux, 1)
  /\ aux < MaxAddress /\ Fresh(body) < MaxAddress

RecordAux(value, aux) ==
  /\ auxAssignments' = Append(auxAssignments, [computed |-> value, aux |-> aux])
  /\ degreeMemo' = Put(degreeMemo, aux, 1)
  /\ aux < MaxAddress /\ Fresh(body) < MaxAddress

(* Mutants: both sides are replaced, or none. *)
RemappedBoth(side, toFactor, aux) == aux
RemappedNone(side, toFactor, aux) == side

(* What a side of the product is once a value is factored out. *)
Remapped(side, toFactor, aux) == IF side = toFactor THEN aux ELSE side

Factor ==
  /\ stack # <<>> /\ Top.at = "factor" /\ ProductDegree > maxDegree
  /\ LET toFactor == IF degreeMemo[Top.lhs] >= degreeMemo[Top.rhs] THEN Top.lhs ELSE Top.rhs
     IN  \E aux \in Allocatable(body) :
           /\ body' = InsertAux(ReplaceSubsequentUsesWith(body, toFactor, aux, Top.before),
                                toFactor, aux, Top.before)
           /\ RecordAux(toFactor, aux)
           /\ rewrites' = Put(rewrites, toFactor, aux)
           /\ stack' = <<[Top EXCEPT !.lhs = Remapped(@, toFactor, aux),
                               !.rhs = Remapped(@, toFactor, aux)]>> \o Tail(stack)
  /\ UNCHANGED returned /\ CallersUnchanged

(* The new product takes the place of the old one if that was above the    *)
(* bound; its recorded degree may have been, and no longer be.             *)
ReturnProduct ==
  /\ stack # <<>> /\ Top.at = "factor" /\ ProductDegree <= maxDegree
  /\ \E mulVal \in Allocatable(body) :
       LET mul == [id \in {mulVal} |-> Operation("mul", <<Top.lhs, Top.rhs>>, 0)]
       IN  /\ mulVal <= MaxAddress
           /\ body' = IF Top.eraseMul
                       THEN Erase(Insert(ReplaceAllUses(body, Top.val, mulVal), <<mulVal>>, mul,
                                         Top.before), Top.val)
                       ELSE Insert(body, <<mulVal>>, mul, Top.before)
           /\ degreeMemo' = Put(degreeMemo, mulVal, ProductDegree)
           /\ rewrites' = Put(rewrites, Top.val, mulVal)
           /\ Return(mulVal)
  /\ UNCHANGED auxAssignments /\ CallersUnchanged

-----------------------------------------------------------------------------
(* The walks of runOnOperation *)

ExpressionUnchanged == UNCHANGED <<body, degreeMemo, rewrites, auxAssignments>>
WalkUnchanged == UNCHANGED <<program, maxDegree, order, visiting>>
Idle == stack = <<>> /\ returned = None
Lower(val, useOp) == stack' = <<Frame(val, useOp)>> /\ UNCHANGED returned

NextWalk ==
  /\ Idle /\ walk = {} /\ slots = {} /\ current = None
  /\ \/ phase = "equalities" /\ phase' = "containments" /\ walk' = OfKind(body, "contain")
     \/ phase = "containments" /\ phase' = "calls" /\ walk' = OfKind(body, "call")
     \/ phase = "calls" /\ phase' = "checks" /\ UNCHANGED walk
  /\ UNCHANGED <<current, slots, call, stack, returned>>
  /\ ExpressionUnchanged /\ WalkUnchanged

(* Both degrees are looked up before either side is lowered. *)
VisitEquality ==
  /\ phase = "equalities" /\ Idle /\ current = None /\ walk # {}
  /\ LET args == body.op[Visit].args
     IN  /\ degreeMemo' = MemoisedAll(ToSet(args))
         /\ slots' = {i \in {1, 2} : Degree[args[i]] > maxDegree}
  /\ current' = Visit /\ walk' = walk \ {Visit}
  /\ UNCHANGED <<phase, call, stack, returned, body, rewrites, auxAssignments>>
  /\ WalkUnchanged

(* The operands that reach the right side of a containment are those of    *)
(* the array it looks up.                                                  *)
VisitContainment ==
  /\ phase = "containments" /\ Idle /\ current = None /\ walk # {}
  /\ LET row == body.op[Visit].args[1] IN
     /\ current' = row
     /\ slots' = DOMAIN body.op[row].args
  /\ walk' = walk \ {Visit}
  /\ UNCHANGED <<phase, call, stack, returned>> /\ ExpressionUnchanged /\ WalkUnchanged

SkipElement ==
  /\ phase = "containments" /\ Idle /\ slots # {}
  /\ LET value == body.op[current].args[Slot] IN
     /\ Degree[value] <= maxDegree
     /\ degreeMemo' = Memoised(value)
  /\ slots' = slots \ {Slot}
  /\ UNCHANGED <<phase, walk, current, call, stack, returned, body, rewrites, auxAssignments>>
  /\ WalkUnchanged

LowerOperand ==
  /\ phase \in {"equalities", "containments"} /\ Idle /\ slots # {}
  /\ LET value == body.op[current].args[Slot] IN
     /\ phase = "containments" => Degree[value] > maxDegree
     /\ degreeMemo' = Memoised(value)
     /\ Lower(value, current)
  /\ UNCHANGED <<phase, walk, current, slots, call, body, rewrites, auxAssignments>>
  /\ WalkUnchanged

SetOperand ==
  /\ phase \in {"equalities", "containments"} /\ stack = <<>> /\ returned # None
  /\ body' = [body EXCEPT !.op[current].args[Slot] = returned]
  /\ slots' = slots \ {Slot} /\ returned' = None
  /\ UNCHANGED <<phase, walk, current, call, stack, degreeMemo, rewrites, auxAssignments>>
  /\ WalkUnchanged

Leave ==
  /\ phase \in {"equalities", "containments"} /\ Idle /\ current # None /\ slots = {}
  /\ current' = None
  /\ UNCHANGED <<phase, walk, slots, call, stack, returned>>
  /\ ExpressionUnchanged /\ WalkUnchanged

(* The operands of a call are copied and the copies are lowered. *)
VisitCall ==
  /\ phase = "calls" /\ Idle /\ current = None /\ walk # {}
  /\ current' = Visit /\ walk' = walk \ {Visit}
  /\ call' = [operands |-> body.op[Visit].args, modified |-> FALSE]
  /\ slots' = DOMAIN body.op[Visit].args
  /\ UNCHANGED <<phase, stack, returned>> /\ ExpressionUnchanged /\ WalkUnchanged

SkipArgument ==
  /\ phase = "calls" /\ Idle /\ slots # {}
  /\ FreshDegree[call.operands[Slot]] <= 1
  /\ slots' = slots \ {Slot}
  /\ UNCHANGED <<phase, walk, current, call, stack, returned>>
  /\ ExpressionUnchanged /\ WalkUnchanged

LowerArgument ==
  /\ phase = "calls" /\ Idle /\ slots # {}
  /\ FreshDegree[call.operands[Slot]] > 1
  /\ Lower(call.operands[Slot], current)
  /\ UNCHANGED <<phase, walk, current, slots, call>> /\ ExpressionUnchanged /\ WalkUnchanged

(* An argument that is linear after lowering is passed as it is; any other *)
(* one becomes an auxiliary member, read just before the call.             *)
MaterializeArgument ==
  /\ phase = "calls" /\ stack = <<>> /\ returned # None
  /\ LET i == Slot
         operand(v) == [operands |-> [call.operands EXCEPT ![i] = v], modified |-> TRUE]
     IN  \/ /\ FreshDegree[returned] <= 1
            /\ call' = operand(returned)
            /\ ExpressionUnchanged
         \/ /\ FreshDegree[returned] > 1
            /\ \E aux \in Allocatable(body) :
                 /\ body' = InsertAux(body, returned, aux, current)
                 /\ RecordAux(returned, aux)
                 /\ call' = operand(aux)
                 /\ rewrites' = Put(Put(rewrites, call.operands[i], aux), returned, aux)
  /\ slots' = slots \ {Slot} /\ returned' = None
  /\ UNCHANGED <<phase, walk, current, stack>> /\ WalkUnchanged

ReplaceCall ==
  /\ phase = "calls" /\ Idle /\ current # None /\ slots = {}
  /\ body' = IF call.modified THEN SetArgs(body, current, call.operands) ELSE body
  /\ current' = None /\ call' = NoCall
  /\ UNCHANGED <<phase, walk, slots, stack, returned, degreeMemo, rewrites, auxAssignments>>
  /\ WalkUnchanged

-----------------------------------------------------------------------------
(* What the pass checks, and the writes it adds to compute *)

OperandsOf(b, kind) == UNION {ToSet(b.op[id].args) : id \in OfKind(b, kind)}
Elements(b) == UNION {ToSet(b.op[row].args) : row \in OperandsOf(b, "contain")}

Postconditions ==
  /\ \A v \in OperandsOf(body, "eq") \cup Elements(body) : FreshDegree[v] <= maxDegree
  /\ \A v \in OperandsOf(body, "call") : FreshDegree[v] <= 1

CheckDegrees ==
  /\ phase = "checks"
  /\ phase' = IF Postconditions THEN "order" ELSE "failed"
  /\ UNCHANGED <<walk, current, slots, call, stack, returned>>
  /\ ExpressionUnchanged /\ WalkUnchanged

DefinitionTree(b, v) == Reached(b, {})[v]

(* Mutant: the operands of the value alone are looked at. *)
AuxDependenciesDirect(k) ==
  {body.op[u].leaf : u \in {v \in ToSet(body.op[auxAssignments[k].computed].args) :
                              body.op[v].kind = "aux"}} \ {k}

(* The auxiliary members that the value of the given one is computed from. *)
AuxDependencies(k) ==
  {body.op[u].leaf : u \in {v \in DefinitionTree(body, auxAssignments[k].computed) :
                              body.op[v].kind = "aux"}} \ {k}

Ordered == ToSet(order)

BeginVisit ==
  /\ phase = "order" /\ visiting = <<>>
  /\ \E k \in DOMAIN auxAssignments \ Ordered :
       /\ \A j \in DOMAIN auxAssignments \ Ordered : k <= j
       /\ visiting' = <<k>>
  /\ UNCHANGED <<program, maxDegree, phase, walk, current, slots, call, stack, returned, order>>
  /\ ExpressionUnchanged

(* A dependency that is being visited is a cycle, and an error. *)
VisitDependency ==
  /\ phase = "order" /\ visiting # <<>>
  /\ \E dep \in AuxDependencies(Head(visiting)) \ Ordered :
       IF Contains(visiting, dep) THEN phase' = "failed" /\ UNCHANGED visiting
       ELSE visiting' = <<dep>> \o visiting /\ UNCHANGED phase
  /\ UNCHANGED <<program, maxDegree, walk, current, slots, call, stack, returned, order>>
  /\ ExpressionUnchanged

WriteAux ==
  /\ phase = "order" /\ visiting # <<>>
  /\ AuxDependencies(Head(visiting)) \subseteq Ordered
  /\ order' = Append(order, Head(visiting)) /\ visiting' = Tail(visiting)
  /\ UNCHANGED <<program, maxDegree, phase, walk, current, slots, call, stack, returned>>
  /\ ExpressionUnchanged

Finish ==
  /\ phase = "order" /\ visiting = <<>> /\ Ordered = DOMAIN auxAssignments
  /\ phase' = "lowered"
  /\ UNCHANGED <<walk, current, slots, call, stack, returned>>
  /\ ExpressionUnchanged /\ WalkUnchanged

LowerExpression ==
  \/ ReturnCached \/ ReturnUnchanged \/ LowerLhs \/ LowerRhs \/ ReturnRoot
  \/ BeginProduct \/ Factor \/ ReturnProduct

RunOnOperation ==
  \/ NextWalk \/ VisitEquality \/ VisitContainment \/ SkipElement \/ LowerOperand
  \/ SetOperand \/ Leave \/ VisitCall \/ SkipArgument \/ LowerArgument
  \/ MaterializeArgument \/ ReplaceCall \/ CheckDegrees
  \/ BeginVisit \/ VisitDependency \/ WriteAux \/ Finish

Next == LowerExpression \/ RunOnOperation
Spec == Init /\ [][Next]_vars /\ WF_vars(Next)

-----------------------------------------------------------------------------
(* Properties *)

LoweringPhases == {"equalities", "containments", "calls", "checks", "order", "lowered", "failed"}

(* The memo and the cache speak of operations that were built, no operation *)
(* is in the block twice, and the phases of the two passes follow another.  *)
TypeOK ==
  /\ maxDegree \in MaxDegrees
  /\ \A i, j \in DOMAIN body.block : body.block[i] = body.block[j] => i = j
  /\ Live(body) \subseteq Addresses(body)
  /\ \A id \in Live(body) : body.op[id].kind \in Expressions \cup Users
  /\ phase \in LoweringPhases \cup {"normalize", "emit", "circuit"}
  /\ DOMAIN degreeMemo \subseteq Addresses(body)
  /\ \A v \in DOMAIN rewrites : rewrites[v] \in Addresses(body)
  /\ \A i \in DOMAIN stack : stack[i].at \in {"entry", "lhs", "rhs", "factor"}

(* Every operand is defined before its use: the auxiliary reads and the new *)
(* products are placed in the middle of a block, and cached replacements    *)
(* are used far from where they were made.                                  *)
DefinitionsDominateUses ==
  \A id \in Live(body) : \A v \in ToSet(body.op[id].args) : ProperlyDominates(body, v, id)

(* The values the pass has in hand are those of operations that exist: an  *)
(* expression that is lowered may contain, and erase, one that is held.     *)
HandlesLive ==
  /\ \A i \in DOMAIN stack : {stack[i].val, stack[i].lhs, stack[i].rhs} \ {None} \subseteq Live(body)
  /\ \A i \in DOMAIN auxAssignments : phase \in LoweringPhases =>
       {auxAssignments[i].computed, auxAssignments[i].aux} \subseteq Live(body)
  /\ phase = "calls" /\ Idle => \A i \in slots : call.operands[i] \in Live(body)

(* The felts that values stand for in an execution, where auxiliary members *)
(* hold what compute writes to them.                                        *)
Felts == 9973
Executions == {<<2, 3, 5>>, <<101, 1009, 47>>}
ValueOf(b, auxs, inputs, value, v) ==
  LET args == b.op[v].args
      leaf == b.op[v].leaf
  IN  CASE b.op[v].kind = "input" -> inputs[leaf]
        [] b.op[v].kind = "const" -> leaf
        [] b.op[v].kind = "aux"   -> value[auxs[leaf].computed]
        [] b.op[v].kind = "add"   -> (value[args[1]] + value[args[2]]) % Felts
        [] b.op[v].kind = "sub"   -> (value[args[1]] - value[args[2]]) % Felts
        [] b.op[v].kind = "mul"   -> (value[args[1]] * value[args[2]]) % Felts
        [] b.op[v].kind = "div"   -> (value[args[1]] * 5003 + value[args[2]] * 7919) % Felts
        [] b.op[v].kind = "neg"   -> (-value[args[1]]) % Felts
        [] OTHER                  -> 0
ValueIn(b, auxs, inputs) ==
  LET value[v \in DOMAIN b.op] == ValueOf(b, auxs, inputs, value, v) IN value

(* In an execution the operands of the constraints, lookups and calls have  *)
(* the values they had, and the constraints the pass has added hold.        *)
PreservedIn(inputs) ==
  LET now == ValueIn(body, auxAssignments, inputs)
      before == ValueIn(program, <<>>, inputs)
  IN \A id \in Live(body) :
       LET args == body.op[id].args
           of == body.op[id].leaf
       IN  body.op[id].kind \in {"eq", "array", "call"} =>
             IF of = 0 THEN now[args[1]] = now[args[2]]
             ELSE \A k \in DOMAIN args : now[args[k]] = before[program.op[of].args[k]]

(* Lowering keeps what the program says, in whatever execution. *)
SystemPreserved == Idle => \A inputs \in Executions : PreservedIn(inputs)

(* A member that nothing but its own reads constrain could hold anything:   *)
(* each auxiliary member is equated to a value of other, earlier ones.      *)
AuxDetermined ==
  \A k \in DOMAIN auxAssignments :
    \E e \in OfKind(body, "eq") :
      LET args == body.op[e].args IN
      /\ body.op[e].leaf = 0
      /\ args[1] = auxAssignments[k].aux
      /\ auxAssignments[k].aux \notin DefinitionTree(body, args[2])

(* The pass fails only where it has no rule: its own checks of degrees and  *)
(* of cyclic auxiliary members hold for whatever it lowered.                *)
FailsOnlyOnUnsupported ==
  phase = "failed" => \E id \in Live(program) : program.op[id].kind = "div"

(* compute writes an auxiliary member after those its value is made of, so  *)
(* that rebuilding the value never reads a member that is not written yet.  *)
AuxWrittenAfterDependencies ==
  phase \in LoweringPhases =>
    \A i \in DOMAIN order :
      \A v \in DefinitionTree(body, auxAssignments[order[i]].computed) :
        body.op[v].kind = "aux" => \E j \in 1..(i - 1) : order[j] = body.op[v].leaf
=============================================================================
