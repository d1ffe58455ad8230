-------------------------- MODULE IntervalAnalysis --------------------------
(***************************************************************************)
(* The interval analysis of one function body (IntervalDataFlowAnalysis of *)
(* lib/Analysis/IntervalAnalysis.cpp).  The solver visits the operations   *)
(* in program order and then those on its queue.  A visit computes an      *)
(* operation's interval from its operands'; a visit of a constraint starts *)
(* applyInterval, which narrows a value and works its way back to the      *)
(* operands of the operation that defined it.                              *)
(*                                                                         *)
(* An operation is a record [op, args, known, bit]: its operands are       *)
(* earlier operations, "known" is the interval of a constant or of an      *)
(* input (a block argument, or a read of a member with the interval        *)
(* recorded for it), and "bit" tells an i1 result from a felt or an index. *)
(* The queue is left unordered, its order following from use lists.  The   *)
(* solver's expressions, unreduced intervals and aggregates, which no      *)
(* interval depends on, are left out; so are regions and calls.            *)
(***************************************************************************)
EXTENDS IntervalArithmetic

CONSTANT Circuits  \* sequences of operations

Sources == {"input", "const"}
Constraints == {"emiteq", "assert"}
OperandCount(op) ==
  IF op \in Sources THEN 0 ELSE IF op = "emiteq" THEN 2 ELSE IF op = "assert" THEN 1 ELSE Arity(op)

(* The types of the operands and of the result: what the operations' *)
(* verifiers demand, and what is known of an i1 value.                 *)
IsTyped(c, n) ==
  LET op == c[n].op
      bits == {c[c[n].args[i]].bit : i \in DOMAIN c[n].args}
  IN  /\ c[n].bit \in BOOLEAN
      /\ op \in Sources /\ c[n].bit => c[n].known \in {False, True, Boolean}
      /\ op \in BoolOps \cup {"not"} => c[n].bit /\ bits = {TRUE}
      /\ op \in Predicates => c[n].bit /\ bits = {FALSE}
      /\ op \in FeltOps \cup FeltUnaryOps => ~c[n].bit /\ bits = {FALSE}
      /\ op = "cast" => ~c[n].bit
      /\ op = "select" => /\ c[c[n].args[1]].bit
                         /\ c[c[n].args[2]].bit = c[n].bit /\ c[c[n].args[3]].bit = c[n].bit
      /\ op = "assert" => bits = {TRUE}

(* Operands are results of earlier operations. *)
IsCircuit(c) ==
  /\ Len(c) \in Nat /\ DOMAIN c = 1..Len(c)
  /\ \A n \in DOMAIN c :
       /\ c[n].op \in Operations \cup Sources \cup Constraints
       /\ DOMAIN c[n].args = 1..OperandCount(c[n].op)
       /\ \A i \in DOMAIN c[n].args :
            c[n].args[i] \in 1..(n - 1) /\ c[c[n].args[i]].op \notin Constraints
       /\ c[n].op \in Sources => WellFormed(c[n].known)
       /\ c[n].op = "const" => c[n].known.ty = "Degenerate"
       /\ IsTyped(c, n)

ASSUME CircuitsAssumption == \A c \in Circuits : IsCircuit(c)

VARIABLES
  circuit,   \* the body that is analysed
  witness,   \* the values of one execution that meets its constraints
  upcoming,  \* the operation the first pass visits next
  lattice,   \* the interval of each operation's result
  todo,      \* the calls of applyInterval to be made, the next one first
  pending,   \* how often each operation is on the queue
  aborted    \* an "ensure" has failed

vars == <<circuit, witness, upcoming, lattice, todo, pending, aborted>>

Unset == [ty |-> "Unset", a |-> 0, b |-> 0]
Nodes == DOMAIN circuit
Known(n) == circuit[n].op \in Sources

(* The executions of a circuit that meet its constraints. *)
Extended(w, node) ==
  LET V == [i \in DOMAIN node.args |-> w[node.args[i]]]
  IN  CASE node.op \in Sources -> {Append(w, v) : v \in Gamma(node.known)}
        [] node.op = "emiteq" -> IF V[1] = V[2] THEN {Append(w, 0)} ELSE {}
        [] node.op = "assert" -> IF V[1] = 1 THEN {Append(w, 0)} ELSE {}
        [] OTHER -> IF IsDefined(node.op, V) THEN {Append(w, Result(node.op, V))} ELSE {}

Executions(c) ==
  LET before[n \in 0..Len(c)] ==
        IF n = 0 THEN {<<>>} ELSE UNION {Extended(w, c[n]) : w \in before[n - 1]}
  IN  before[Len(c)]

Init ==
  /\ circuit \in Circuits
  /\ witness \in Executions(circuit)
  /\ upcoming = 1
  /\ lattice = [n \in Nodes |-> Unset]
  /\ todo = <<>>
  /\ pending = [n \in Nodes |-> 0]
  /\ aborted = FALSE

-----------------------------------------------------------------------------
Operands(n) == [i \in DOMAIN circuit[n].args |-> lattice[circuit[n].args[i]]]
Uses(n, m) == Cardinality({i \in DOMAIN circuit[m].args : circuit[m].args[i] = n})
Subscribed(n) == \E m \in Nodes : m < upcoming /\ Uses(n, m) > 0

(* Mutant of SetValue: a changed value queues nobody. *)
SetQuietly(n, x, queue) == lattice' = [lattice EXCEPT ![n] = x] /\ pending' = queue

(* setValue and propagateIfChanged: every use of a changed value is queued *)
(* once some user of it has been visited.                                  *)
SetValue(n, x, queue) ==
  /\ lattice' = [lattice EXCEPT ![n] = x]
  /\ pending' = IF x = lattice[n] \/ ~Subscribed(n) THEN queue
                ELSE [m \in Nodes |-> queue[m] + Uses(n, m)]

Call(n, x) == [value |-> n, interval |-> x]

VisitSource(n, queue) ==
  /\ Known(n)
  /\ SetValue(n, circuit[n].known, queue)
  /\ UNCHANGED todo

(* The boolean operations ensure that their operands are boolean. *)
Rejected(n) ==
  /\ circuit[n].op \in BoolOps \cup {"not"}
  /\ \E i \in DOMAIN circuit[n].args : ~IsBoolean(Operands(n)[i])

(* Mutant of VisitOperation: what is already known of the result is forgotten. *)
VisitAfresh(n, queue) ==
  /\ ~Known(n)
  /\ circuit[n].op \notin Constraints \cup {"cast"}
  /\ ~Rejected(n)
  /\ SetValue(n, Transfer(circuit[n].op, Operands(n)), queue)
  /\ UNCHANGED todo

(* Arithmetic, comparisons and select keep what is already known of the result. *)
VisitOperation(n, queue) ==
  /\ ~Known(n)
  /\ circuit[n].op \notin Constraints \cup {"cast"}
  /\ ~Rejected(n)
  /\ LET x == Transfer(circuit[n].op, Operands(n))
     IN  SetValue(n, IF lattice[n] = Unset THEN x ELSE Intersect[<<x, lattice[n]>>], queue)
  /\ UNCHANGED todo

VisitCast(n, queue) ==
  /\ circuit[n].op = "cast"
  /\ SetValue(n, Operands(n)[1], queue)
  /\ UNCHANGED todo

(* The values that the walk down a tree of products comes to. *)
Walked(n) ==
  {m \in 1..n : \A S \in SUBSET (1..n) :
     n \in S /\ (\A k \in S : circuit[k].op = "mul" => ToSet(circuit[k].args) \subseteq S) => m \in S}

(* A factor s or s - c is zero at s = 0 or s = c, as a pair <<s, c>>. *)
Root(m) ==
  LET args == circuit[m].args
      is(i, op) == circuit[args[i]].op = op
  IN  CASE circuit[m].op = "input" -> {<<m, 0>>}
        [] circuit[m].op = "sub" ->
             {<<args[i], circuit[args[3 - i]].known.a>> :
                i \in {j \in {1, 2} : is(j, "input") /\ is(3 - j, "const")}}
        [] OTHER -> {}

(* The roots of a product of such factors; none when something else is one. *)
Roots(n) ==
  LET factors == {m \in Walked(n) : circuit[m].op # "mul"}
  IN  IF \E m \in factors : Root(m) = {} THEN {} ELSE UNION {Root(m) : m \in factors}

IsZero(n) == circuit[n].op = "const" /\ circuit[n].known = False

(* A product that is zero bounds its one signal by its least and greatest root. *)
Decomposition(l, r) ==
  LET R == Roots(IF IsZero(l) THEN r ELSE l)
      signals == {root[1] : root \in R}
      consts == {root[2] : root \in R}
  IN  IF IsZero(l) # IsZero(r) /\ Cardinality(signals) = 1
      THEN <<Call(CHOOSE s \in signals : TRUE, ReduceTo[Corners(consts)])>> ELSE <<>>

VisitEmitEq(n, queue) ==
  /\ circuit[n].op = "emiteq"
  /\ LET l == circuit[n].args[1]
         r == circuit[n].args[2]
         both == Intersect[<<lattice[l], lattice[r]>>]
     IN  todo' = Decomposition(l, r) \o <<Call(l, both), Call(r, both)>>
  /\ pending' = queue
  /\ UNCHANGED lattice

VisitAssert(n, queue) ==
  /\ circuit[n].op = "assert"
  /\ todo' = <<Call(circuit[n].args[1], True)>>
  /\ pending' = queue
  /\ UNCHANGED lattice

Visit(n, queue) ==
  /\ ~aborted
  /\ todo = <<>>
  /\ \/ VisitSource(n, queue)
     \/ VisitOperation(n, queue)
     \/ VisitCast(n, queue)
     \/ VisitEmitEq(n, queue)
     \/ VisitAssert(n, queue)
  /\ UNCHANGED <<circuit, witness, aborted>>

FirstVisit ==
  /\ upcoming \in Nodes
  /\ Visit(upcoming, pending)
  /\ upcoming' = upcoming + 1

(* Mutant of Revisit: an operation stays on the queue. *)
RevisitForever(n) ==
  /\ upcoming \notin Nodes
  /\ pending[n] > 0
  /\ Visit(n, pending)
  /\ UNCHANGED upcoming

Revisit(n) ==
  /\ upcoming \notin Nodes
  /\ pending[n] > 0
  /\ Visit(n, [pending EXCEPT ![n] = @ - 1])
  /\ UNCHANGED upcoming

-----------------------------------------------------------------------------
(* applyInterval(v, x): v is narrowed, then the rule for the operation that *)
(* defined v calls applyInterval for its operands.                          *)
Target == Head(todo).value
Given == Head(todo).interval
Argument(i) == circuit[Target].args[i]
Now(i) == lattice[Argument(i)]

Applying(ops) ==
  /\ ~aborted
  /\ todo # <<>>
  /\ circuit[Target].op \in ops

Apply(ops, calls) ==
  /\ Applying(ops)
  /\ SetValue(Target, Intersect[<<lattice[Target], Given>>], pending)
  /\ todo' = calls \o Tail(todo)
  /\ UNCHANGED <<circuit, witness, upcoming, aborted>>

Both(x, y) == <<Call(Argument(1), x), Call(Argument(2), y)>>

ApplyToLeaf ==
  Apply({"input", "const", "not"} \cup BoolOps \cup FeltUnaryOps \cup
        (FeltOps \ {"add", "sub", "mul"}), <<>>)

ApplyToCast == Apply({"cast"}, <<Call(Argument(1), Given)>>)

ApplyToAdd ==
  Apply({"add"}, Both(Intersect[<<Now(1), Minus[<<Given, Now(2)>>]>>],
                      Intersect[<<Now(2), Minus[<<Given, Now(1)>>]>>]))

ApplyToSub ==
  Apply({"sub"}, Both(Intersect[<<Now(1), Plus[<<Given, Now(2)>>]>>],
                      Intersect[<<Now(2), Minus[<<Now(1), Given>>]>>]))

(* With one constant operand the other is the product by its inverse; with none, *)
(* neither operand of a non-zero product is zero.                                *)
ConstantOperands == {i \in {1, 2} : circuit[Argument(i)].op = "const"}

(* Mutant of ScaledCall: the result is multiplied by the constant again. *)
ScaledTwice(i) == <<Call(Argument(3 - i), Times[<<Given, circuit[Argument(i)].known>>])>>

ScaledCall(i) ==
  LET c == circuit[Argument(i)].known.a
  IN  IF c = 0 THEN <<>> ELSE <<Call(Argument(3 - i), Times[<<Given, Degenerate(Inv(c))>>])>>

ApplyToMul ==
  Apply({"mul"},
        IF Cardinality(ConstantOperands) = 1 THEN ScaledCall(CHOOSE i \in ConstantOperands : TRUE)
        ELSE IF ConstantOperands = {} /\ Intersect[<<Given, False>>] = Empty
        THEN Both(Difference[<<Now(1), False>>], Difference[<<Now(2), False>>])
        ELSE <<>>)

ApplyToSelect ==
  LET overlaps(i) == Intersect[<<Now(i), Given>>] # Empty
      branch(i) == <<Call(Argument(i), Given)>>
      cond(x) == <<Call(Argument(1), x)>>
  IN  Apply({"select"},
            CASE Now(1) = True -> branch(2)
              [] Now(1) = False -> branch(3)
              [] OTHER -> IF overlaps(2) /\ overlaps(3) THEN <<>>
                          ELSE IF overlaps(2) THEN cond(True) \o branch(2)
                          ELSE IF overlaps(3) THEN cond(False) \o branch(3)
                          ELSE cond(Empty))

(* The relation between the operands once the result of the comparison is known. *)
Opposite == [eq |-> "ne", ne |-> "eq", lt |-> "ge", ge |-> "lt", le |-> "gt", gt |-> "le"]
Relation(op, x) == IF x = True THEN op ELSE Opposite[op]

Restricted(rel, x, y) ==
  LET u == ToUnreduced(x)
      w == ToUnreduced(y)
      point(z) == z.ty = "Degenerate"
  IN  CASE rel = "eq" -> <<Intersect[<<x, y>>], Intersect[<<x, y>>]>>
        [] rel = "ne" -> IF point(x) /\ x = y THEN <<Empty, Empty>>
                         ELSE IF point(x) THEN <<x, Difference[<<y, x>>]>>
                         ELSE IF point(y) THEN <<Difference[<<x, y>>], y>> ELSE <<x, y>>
        [] rel = "lt" -> <<ReduceTo[LTPart(u, w)], ReduceTo[GEPart(w, u)]>>
        [] rel = "le" -> <<ReduceTo[LEPart(u, w)], ReduceTo[GTPart(w, u)]>>
        [] rel = "gt" -> <<ReduceTo[GTPart(u, w)], ReduceTo[LEPart(w, u)]>>
        [] rel = "ge" -> <<ReduceTo[GEPart(u, w)], ReduceTo[LTPart(w, u)]>>

ApplyToCmp ==
  /\ Applying(Predicates)
  /\ Given = Empty \/ IsBoolean(Given)
  /\ LET new == Restricted(Relation(circuit[Target].op, Given), Now(1), Now(2))
     IN  Apply(Predicates, IF Given.ty = "Degenerate" THEN Both(new[1], new[2]) ELSE <<>>)

(* The ensure of cmpCase fails, or that of a boolean operation. *)
Abort ==
  /\ ~aborted
  /\ \/ /\ Applying(Predicates)
        /\ Given # Empty /\ ~IsBoolean(Given)
     \/ /\ todo = <<>> /\ upcoming \in Nodes
        /\ Rejected(upcoming)
     \/ /\ todo = <<>> /\ upcoming \notin Nodes
        /\ \E n \in Nodes : pending[n] > 0 /\ Rejected(n)
  /\ aborted' = TRUE
  /\ UNCHANGED <<circuit, witness, upcoming, lattice, todo, pending>>

Next ==
  \/ FirstVisit
  \/ \E n \in Nodes : Revisit(n)
  \/ ApplyToLeaf
  \/ ApplyToCast
  \/ ApplyToAdd
  \/ ApplyToSub
  \/ ApplyToMul
  \/ ApplyToSelect
  \/ ApplyToCmp
  \/ Abort

Spec == Init /\ [][Next]_vars /\ WF_vars(Next)

-----------------------------------------------------------------------------
(* The bounds of every interval lie on the side of the field that the type   *)
(* set by reduce, join and intersect says they do.                           *)
TypeOK ==
  /\ witness \in Executions(circuit)
  /\ upcoming \in 1..(Len(circuit) + 1)
  /\ lattice \in [Nodes -> IntervalType \cup {Unset}]
  /\ \A n \in Nodes : lattice[n] # Unset => WellFormed(lattice[n])
  /\ \A i \in DOMAIN todo : todo[i].value \in Nodes /\ WellFormed(todo[i].interval)
  /\ pending \in [Nodes -> Nat]
  /\ aborted \in BOOLEAN

IsSet(n) == lattice[n] # Unset
Types2(i, j) == {Now(i).ty, Now(j).ty}

(* The intervals, and those still to be applied, contain the values of the   *)
(* execution: the analysis gives ranges the program's values lie in.         *)
Sound ==
  /\ \A n \in Nodes : IsSet(n) => witness[n] \in Gamma(lattice[n])
  /\ \A i \in DOMAIN todo : witness[todo[i].value] \in Gamma(todo[i].interval)

Either(test(_, _), x, y) == test(x, y) \/ test(y, x)

DoubtfulVisit(n) ==
  LET op == circuit[n].op
      X == Operands(n)
      types == {X[i].ty : i \in DOMAIN X}
  IN  \/ op = "bit_not"
      \/ op \in {"sintdiv", "smod"} /\ "C" \in types
      \/ op \in {"lt", "le", "gt", "ge"} /\ X[1].ty = "F"
      \/ op \in {"eq", "ne", "emiteq"} /\ Either(FarPoint, X[1], X[2])
      \/ op = "select" /\ Either(Misjoined, X[2], X[3])
      \/ /\ op \notin Constraints /\ IsSet(n)
         /\ Either(FarPoint, Transfer(op, X), lattice[n])

(* The pairs of intervals a rule intersects. *)
Meets ==
  LET op == circuit[Target].op
  IN  {<<lattice[Target], Given>>} \cup
      CASE op = "add" -> {<<Now(1), Minus[<<Given, Now(2)>>]>>,
                          <<Now(2), Minus[<<Given, Now(1)>>]>>}
        [] op = "sub" -> {<<Now(1), Plus[<<Given, Now(2)>>]>>,
                          <<Now(2), Minus[<<Now(1), Given>>]>>}
        [] op = "select" -> {<<Now(2), Given>>, <<Now(3), Given>>}
        [] op \in Predicates -> {<<Now(1), Now(2)>>}
        [] OTHER -> {}

DoubtfulApply ==
  LET op == circuit[Target].op
      rel == Relation(op, Given)
  IN  \/ \E m \in Meets : Either(FarPoint, m[1], m[2])
      \/ op = "mul" /\ "F" \in Types2(1, 2)
      \/ /\ op \in Predicates
         /\ Given.ty = "Degenerate"
         /\ rel \in {"le", "ge"} \/ (rel # "eq" /\ "F" \in Types2(1, 2))

(* The intervals of an execution that meets the constraints never lose its   *)
(* values, whatever the order in which the operations are revisited, as long *)
(* as no step meets one of the operand intervals above.                      *)
StaysSound ==
  [][Sound => \/ Sound'
              \/ todo # <<>> /\ DoubtfulApply
              \/ /\ todo = <<>>
                 /\ \E n \in Nodes : (n = upcoming \/ pending'[n] < pending[n]) /\ DoubtfulVisit(n)]_vars

(* A visit or a call of applyInterval never gives a value back what an earlier *)
(* one has ruled out, save where "C" meets "F", the two ranges that are left   *)
(* being joined, and when a cast is visited, which takes what its operand has. *)
LooseMeet(n) ==
  \/ todo # <<>> /\ n = Target /\ {lattice[n].ty, Given.ty} = {"C", "F"}
  \/ todo = <<>> /\ {lattice[n].ty, Transfer(circuit[n].op, Operands(n)).ty} = {"C", "F"}

Narrows ==
  [][\A n \in Nodes : IsSet(n) =>
       \/ Gamma(lattice'[n]) \subseteq Gamma(lattice[n])
       \/ LooseMeet(n)
       \/ todo = <<>> /\ circuit[n].op = "cast"]_vars

(* The ensures hold as long as the intervals are sound and no comparison that *)
(* is cast to a felt is scaled or selected.                                   *)
Rescaled ==
  \E n \in Nodes :
    /\ circuit[n].op \in {"mul", "select"}
    /\ \E i \in DOMAIN circuit[n].args : circuit[circuit[n].args[i]].op = "cast"
EnsuresHold == aborted /\ Sound => Rescaled

(* No result is wider than its operands allow, or its operation is queued. *)
UpToDate(n) ==
  ~Known(n) /\ circuit[n].op \notin Constraints /\ n < upcoming =>
    \/ pending[n] > 0
    \/ Rejected(n)
    \/ Gamma(lattice[n]) \subseteq Gamma(Transfer(circuit[n].op, Operands(n)))

(* Once the solver is idle, what is asserted is true (or ruled out) and the  *)
(* sides of an equality have one interval, unless what two different ones    *)
(* share is Entire. And from its first visit on, no result is left behind by *)
(* its operands: a change of one queues it, and a meet that is not loose     *)
(* keeps it up to date.                                                      *)
Idle == todo = <<>> /\ upcoming \notin Nodes /\ \A n \in Nodes : pending[n] = 0

ConstraintsMet ==
  \A n \in Nodes :
    LET X == Operands(n)
    IN  /\ circuit[n].op = "emiteq" => X[1] = X[2] \/ Either(Spanning, X[1], X[2])
        /\ circuit[n].op = "assert" => X[1] \in {True, Empty}

Settled ==
  /\ [](Idle => ConstraintsMet)
  /\ [][\A n \in Nodes : UpToDate(n) => UpToDate(n)' \/ LooseMeet(n)]_vars

(* The solver runs out of calls and of queued visits, or aborts. *)
Terminates == <>(Idle \/ aborted)

=============================================================================
