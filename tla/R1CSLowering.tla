---------------------------- MODULE R1CSLowering ----------------------------
(***************************************************************************)
(* The pass -llzk-r1cs-lowering, run on what PolyLowering leaves for the   *)
(* bound 2, as the pipeline -llzk-full-r1cs-lowering does: equalities are  *)
(* normalized until each has one quadratic term at most, then each becomes *)
(* a constraint a * b = c over linear combinations of signals.             *)
(***************************************************************************)
EXTENDS PolyLowering, TLC

VARIABLES
  normDegree,      \* degreeMemo of this pass
  normRewrites,    \* rewrites of this pass
  postOrder,       \* the values of the current expression still to be normalized
  sides,           \* the normalized sides of the current equality
  builder,         \* where the builder of the current equality stands
  constraints      \* the R1CS constraints, with the equality each comes from

r1csVars == <<normDegree, normRewrites, postOrder, sides, builder, constraints>>
pipelineVars == <<vars, r1csVars>>

PipelineInit ==
  /\ Init
  /\ normDegree = <<>> /\ normRewrites = <<>> /\ postOrder = <<>>
  /\ sides = <<>> /\ builder = "equality" /\ constraints = <<>>

PolyUnchanged ==
  UNCHANGED <<program, maxDegree, degreeMemo, rewrites, slots, call, stack, returned, order, visiting>>

-----------------------------------------------------------------------------
(* Normalization *)

(* The worklist pushes operands in order, so the last one is expanded first. *)
PostOrder ==
  LET post[v \in Addresses(body)] ==
        FoldRight(LAMBDA a, rest : rest \o post[a], body.op[v].args, <<>>) \o <<v>>
  IN post

(* There is no rule for divisions.  Lookups and calls are passed over: the *)
(* pass looks at equalities alone.                                         *)
Expressible(b) == \A id \in Live(b) : b.op[id].kind # "div"

BeginR1CS ==
  /\ phase = "lowered" /\ maxDegree = 2 /\ Expressible(body)
  /\ phase' = "normalize" /\ walk' = OfKind(body, "eq")
  /\ UNCHANGED <<body, auxAssignments, current, r1csVars>> /\ PolyUnchanged

VisitEmitEquality ==
  /\ phase = "normalize" /\ current = None /\ walk # {}
  /\ current' = Visit /\ walk' = walk \ {Visit}
  /\ sides' = <<>> /\ builder' = "equality"
  /\ UNCHANGED <<phase, body, auxAssignments, normDegree, normRewrites, postOrder, constraints>>
  /\ PolyUnchanged

Root == body.op[current].args[Len(sides) + 1]

BeginSide ==
  /\ phase = "normalize" /\ current # None /\ Len(sides) < 2 /\ postOrder = <<>>
  /\ Root \notin DOMAIN normRewrites
  /\ postOrder' = PostOrder[Root]
  /\ UNCHANGED <<phase, walk, current, body, auxAssignments, normDegree, normRewrites, sides, builder, constraints>>
  /\ PolyUnchanged

EndSide ==
  /\ phase = "normalize" /\ current # None /\ Len(sides) < 2 /\ postOrder = <<>>
  /\ Root \in DOMAIN normRewrites
  /\ sides' = Append(sides, normRewrites[Root])
  /\ UNCHANGED <<phase, walk, current, body, auxAssignments, normDegree, normRewrites, postOrder, builder, constraints>>
  /\ PolyUnchanged

NormOperand(i) == normRewrites[body.op[Head(postOrder)].args[i]]
NormOperandDegree(i) == normDegree[NormOperand(i)]

(* Mutant: differences are left as they are. *)
IsQuadraticSumOfAdd ==
  /\ body.op[Head(postOrder)].kind = "add"
  /\ NormOperandDegree(1) = 2 /\ NormOperandDegree(2) = 2

IsQuadraticSum ==
  /\ body.op[Head(postOrder)].kind \in Sums
  /\ NormOperandDegree(1) = 2 /\ NormOperandDegree(2) = 2

SkipNormalized ==
  /\ phase = "normalize" /\ postOrder # <<>>
  /\ Head(postOrder) \in DOMAIN normRewrites
  /\ postOrder' = Tail(postOrder)
  /\ UNCHANGED <<phase, walk, current, body, auxAssignments, normDegree, normRewrites, sides, builder, constraints>>
  /\ PolyUnchanged

(* Every value but a sum of two quadratic ones keeps its form. *)
KeepValue ==
  /\ phase = "normalize" /\ postOrder # <<>>
  /\ LET v == Head(postOrder)
         kind == body.op[v].kind
     IN  /\ v \notin DOMAIN normRewrites
         /\ ~IsQuadraticSum
         /\ normDegree' = (v :> CASE kind = "const" -> 0
                                  [] kind \in {"input", "aux"} -> 1
                                  [] kind \in Sums -> Larger(NormOperandDegree(1), NormOperandDegree(2))
                                  [] kind = "mul" -> NormOperandDegree(1) + NormOperandDegree(2)
                                  [] kind = "neg" -> NormOperandDegree(1)) @@ normDegree
         /\ normRewrites' = (v :> v) @@ normRewrites
  /\ postOrder' = Tail(postOrder)
  /\ UNCHANGED <<phase, walk, current, body, auxAssignments, sides, builder, constraints>>
  /\ PolyUnchanged

(* The left one of two quadratic operands becomes an auxiliary member, from *)
(* this operation on; the sum is built anew and replaces the old one, where *)
(* the builder is left standing although the old sum is erased.            *)
SplitSum ==
  /\ phase = "normalize" /\ postOrder # <<>>
  /\ LET v == Head(postOrder)
         lhs == NormOperand(1)
         rhs == NormOperand(2)
         aux == Fresh(body)
         eq == aux + 1
         sum == aux + 2
         operations == aux :> Operation("aux", <<>>, Len(auxAssignments) + 1)
                        @@ eq :> Operation("eq", <<aux, lhs>>, 0)
                        @@ sum :> Operation(body.op[v].kind, <<aux, rhs>>, 0)
     IN  /\ v \notin DOMAIN normRewrites
         /\ IsQuadraticSum
         /\ sum <= MaxAddress
         /\ body' = Erase(Insert(ReplaceAllUses(ReplaceSubsequentUsesWith(body, lhs, aux, v), v, sum),
                                 <<aux, eq, sum>>, operations, v), v)
         /\ auxAssignments' = Append(auxAssignments, [computed |-> lhs, aux |-> aux])
         /\ normDegree' = (aux :> 1) @@ (sum :> 2) @@ normDegree
         /\ normRewrites' = (aux :> aux) @@ (v :> sum) @@ (sum :> sum) @@ normRewrites
  /\ builder' = "erased sum" /\ postOrder' = Tail(postOrder)
  /\ UNCHANGED <<phase, walk, current, sides, constraints>> /\ PolyUnchanged

BothQuadratic == normDegree[sides[1]] = 2 /\ normDegree[sides[2]] = 2
Rebuilt(lhs) == Operation("eq", <<lhs, sides[2]>>, body.op[current].leaf)

(* The left one of two quadratic sides becomes an auxiliary member, and the *)
(* equality is rebuilt: the builder is put back before it, wherever it was. *)
EmitSplitEquality ==
  /\ phase = "normalize" /\ Len(sides) = 2 /\ BothQuadratic
  /\ LET lhs == sides[1]
         aux == Fresh(body)
     IN  /\ aux + 2 <= MaxAddress
         /\ body' = Erase(Insert(ReplaceSubsequentUsesWith(body, lhs, aux, current),
                                 <<aux, aux + 1, aux + 2>>,
                                 aux :> Operation("aux", <<>>, Len(auxAssignments) + 1)
                                   @@ (aux + 1) :> Operation("eq", <<aux, lhs>>, 0)
                                   @@ (aux + 2) :> Rebuilt(aux), current), current)
         /\ auxAssignments' = Append(auxAssignments, [computed |-> lhs, aux |-> aux])
         /\ normDegree' = (aux :> 1) @@ normDegree
  /\ sides' = <<>> /\ current' = None /\ builder' = "equality"
  /\ UNCHANGED <<phase, walk, normRewrites, postOrder, constraints>> /\ PolyUnchanged

(* With a linear side the equality is rebuilt where the builder stands: *)
(* before the old one, when no sum of this equality was split.          *)
EmitEquality ==
  /\ phase = "normalize" /\ Len(sides) = 2 /\ ~BothQuadratic
  /\ builder = "equality"
  /\ LET rebuilt == Fresh(body) IN
       /\ rebuilt <= MaxAddress
       /\ body' = Erase(Insert(body, <<rebuilt>>, rebuilt :> Rebuilt(sides[1]), current), current)
  /\ sides' = <<>> /\ current' = None
  /\ UNCHANGED <<phase, walk, auxAssignments, normDegree, normRewrites, postOrder, builder, constraints>>
  /\ PolyUnchanged

(* When one was, the builder stands at the sum that was erased, whose links *)
(* are null and whose memory is free: to insert there is undefined, and the *)
(* run ends.                                                                *)
EmitAtErasedSum ==
  /\ phase = "normalize" /\ Len(sides) = 2 /\ ~BothQuadratic
  /\ builder = "erased sum"
  /\ builder' = "crashed"
  /\ UNCHANGED <<phase, walk, current, body, auxAssignments, normDegree, normRewrites, postOrder, sides, constraints>>
  /\ PolyUnchanged

-----------------------------------------------------------------------------
(* Constraints.  A linear combination maps values to coefficients; what is  *)
(* built for an expression stands for a * b + c until it is equated.        *)

Linear(terms, constant) == [terms |-> terms, constant |-> constant]
Zero == Linear(<<>>, 0)
Coefficient(l, v) == IF v \in DOMAIN l.terms THEN l.terms[v] ELSE 0
Plus(l, r) ==
  Linear([v \in DOMAIN l.terms \cup DOMAIN r.terms |-> Coefficient(l, v) + Coefficient(r, v)],
         l.constant + r.constant)
Scaled(l, k) == IF k = 0 THEN Zero ELSE Linear([v \in DOMAIN l.terms |-> k * l.terms[v]], k * l.constant)

(* ok is FALSE once the code has gone where it must not (llvm_unreachable). *)
Constraint(a, b, c) == [a |-> a, b |-> b, c |-> c, ok |-> TRUE]
IsLinearOnly(r) == DOMAIN r.a.terms = {} /\ DOMAIN r.b.terms = {}
IsDegZero(r) == IsLinearOnly(r) /\ DOMAIN r.c.terms = {}
(* Mutant: all three combinations are scaled. *)
ScaledAll(r, k) == [r EXCEPT !.a = Scaled(@, k), !.b = Scaled(@, k), !.c = Scaled(@, k)]

ScaledBy(r, k) == [r EXCEPT !.a = Scaled(@, k), !.c = Scaled(@, k)]
Negated(r) == ScaledBy(r, -1)
OkIf(ok, r) == [r EXCEPT !.ok = @ /\ ok]

Add(l, r) ==
  IF IsLinearOnly(l) THEN OkIf(l.ok, [r EXCEPT !.c = Plus(@, l.c)])
  ELSE OkIf(r.ok /\ IsLinearOnly(r), [l EXCEPT !.c = Plus(@, r.c)])

Multiply(l, r) ==
  CASE IsDegZero(r) -> OkIf(r.ok, ScaledBy(l, r.c.constant))
    [] IsDegZero(l) /\ ~IsDegZero(r) -> OkIf(l.ok, ScaledBy(r, l.c.constant))
    [] OTHER -> OkIf(l.ok /\ r.ok /\ IsLinearOnly(l) /\ IsLinearOnly(r), Constraint(l.c, r.c, Zero))

R1CSForm ==
  LET form[v \in Addresses(body)] ==
        LET args == body.op[v].args IN
        CASE body.op[v].kind \in {"input", "aux"} -> Constraint(Zero, Zero, Linear(v :> 1, 0))
          [] body.op[v].kind = "const" -> Constraint(Zero, Zero, Linear(<<>>, body.op[v].leaf))
          [] body.op[v].kind = "add" -> Add(form[args[1]], form[args[2]])
          [] body.op[v].kind = "sub" -> Add(form[args[1]], Negated(form[args[2]]))
          [] body.op[v].kind = "mul" -> Multiply(form[args[1]], form[args[2]])
          [] body.op[v].kind = "neg" -> Negated(form[args[1]])
  IN form

(* p = q, for p = a * b + c: the quadratic side gives the product. *)
Equated(p, q) ==
  LET P == R1CSForm[p]
      Q == R1CSForm[q]
      isQuadratic(v) == normDegree[v] = 2
  IN CASE isQuadratic(p) -> OkIf(Q.ok /\ ~isQuadratic(q), [P EXCEPT !.c = Plus(Q.c, Scaled(@, -1))])
       [] isQuadratic(q) /\ ~isQuadratic(p) -> OkIf(P.ok, [Q EXCEPT !.c = Plus(P.c, Scaled(@, -1))])
       [] OTHER -> Add(Q, Negated(P))

BeginEmission ==
  /\ phase = "normalize" /\ current = None /\ walk = {}
  /\ phase' = "emit" /\ walk' = OfKind(body, "eq")
  /\ UNCHANGED <<body, auxAssignments, current, r1csVars>> /\ PolyUnchanged

EmitConstraint ==
  /\ phase = "emit" /\ walk # {}
  /\ LET eq == body.op[Visit] IN
     constraints' = Append(constraints, [of |-> eq.leaf, r1cs |-> Equated(eq.args[1], eq.args[2])])
  /\ walk' = walk \ {Visit}
  /\ UNCHANGED <<phase, body, auxAssignments, current, normDegree, normRewrites, postOrder, sides, builder>>
  /\ PolyUnchanged

EndEmission ==
  /\ phase = "emit" /\ walk = {}
  /\ phase' = "circuit"
  /\ UNCHANGED <<walk, body, auxAssignments, current, r1csVars>> /\ PolyUnchanged

PolyStep == Next /\ UNCHANGED r1csVars
R1CSStep ==
  \/ BeginR1CS \/ VisitEmitEquality \/ BeginSide \/ EndSide \/ SkipNormalized \/ KeepValue
  \/ SplitSum \/ EmitSplitEquality \/ EmitEquality \/ EmitAtErasedSum \/ BeginEmission \/ EmitConstraint \/ EndEmission

PipelineNext == PolyStep \/ R1CSStep
PipelineSpec == PipelineInit /\ [][PipelineNext]_pipelineVars /\ WF_pipelineVars(PipelineNext)

-----------------------------------------------------------------------------
(* Properties *)

(* No expression reaches the code the pass declares unreachable: what the  *)
(* degree lowering leaves, if normalizing it does not end the run, has one *)
(* product per equality, also where degrees in the memo are out of date.   *)
OneProductPerConstraint ==
  \A i \in DOMAIN constraints : constraints[i].r1cs.ok

Evaluated(l, values) ==
  FoldFunctionOnSet(LAMBDA x, y : (x + y) % Felts, l.constant % Felts,
                    [v \in DOMAIN l.terms |-> l.terms[v] * values[v]], DOMAIN l.terms)
Residual(r, values) ==
  (Evaluated(r.a, values) * Evaluated(r.b, values) - Evaluated(r.c, values)) % Felts

(* The circuit says what the program said: a constraint that stands for an  *)
(* equality of the program has its difference, up to the sign, in every     *)
(* execution; the others hold; and a circuit, if the pass comes to one, has *)
(* a constraint for every equality.                                         *)
CircuitEquivalent ==
  /\ \A inputs \in Executions :
       LET now == ValueIn(body, auxAssignments, inputs)
           before == ValueIn(program, <<>>, inputs)
       IN \A i \in DOMAIN constraints :
            LET residual == Residual(constraints[i].r1cs, now)
                args == program.op[constraints[i].of].args
                difference == (before[args[1]] - before[args[2]]) % Felts
            IN  residual \in IF constraints[i].of = 0 THEN {0}
                             ELSE {difference, (-difference) % Felts}
  /\ phase = "circuit" =>
       {constraints[i].of : i \in DOMAIN constraints} \ {0} = OfKind(program, "eq")

Ended ==
  \/ phase \in {"failed", "circuit"}
  \/ phase = "lowered" /\ ~(maxDegree = 2 /\ Expressible(body))
  \/ builder = "crashed"

(* Every struct is lowered or refused, or the run ends at an equality with a *)
(* linear side in which a sum was split: factoring makes progress, and the   *)
(* values normalized are finitely many.                                      *)
PipelineTerminates == <>Ended
=============================================================================
