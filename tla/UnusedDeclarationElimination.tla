-------------------- MODULE UnusedDeclarationElimination --------------------
(***************************************************************************)
(* The pass -llzk-unused-declaration-elim                                  *)
(* (lib/Transforms/LLZKUnusedDeclarationEliminationPass.cpp).              *)
(*                                                                         *)
(* A compilation unit is a set of struct definitions and a set of          *)
(* operations.  The pass first erases the members that no operation reads  *)
(* (and the writes to them), then, with the option remove-structs, erases  *)
(* the structs that no other struct uses, with a worklist that is refilled *)
(* whenever it runs empty.                                                 *)
(***************************************************************************)
EXTENDS Naturals, FiniteSets

CONSTANTS
  Structs,      \* names of the struct.def operations of the unit
  Ops,          \* the other operations: member definitions, reads, writes...
  Modules,      \* the nested modules of the unit
  Within,       \* the nested modules around a struct or a module
  None,         \* no struct: the op is in a free function, or there is no Main
  Unresolved,   \* the target of a member reference that does not resolve
  IRs           \* the compilation units the pass may be run on

(***************************************************************************)
(* One compilation unit.                                                   *)
(*   main      the main component, or None                                 *)
(*   removeStructs  the pass option                                        *)
(*   kind      what each operation is                                      *)
(*   parent    the struct an operation is nested in, None in a free        *)
(*             function                                                    *)
(*   member    the member definition a read or write resolves to           *)
(*   public    the member definitions with the llzk.pub attribute          *)
(*   mentions  the structs that occur as a type of the op: of an operand,  *)
(*             a result, a block argument or a TypeAttr (not those that    *)
(*             occur only inside such a type, as the element of an array)  *)
(***************************************************************************)
IRType ==
  [ main          : Structs \cup {None},
    removeStructs : BOOLEAN,
    kind          : [Ops -> {"member", "read", "write", "other"}],
    parent        : [Ops -> Structs \cup {None}],
    member        : [Ops -> Ops \cup {Unresolved}],
    public        : SUBSET Ops,
    mentions      : [Ops -> SUBSET Structs] ]

ASSUME StructsAssumption ==
  /\ IsFiniteSet(Structs)
  /\ None \notin Structs
  /\ Unresolved \notin Ops
  /\ IRs \subseteq IRType

(* Nesting is a strict order: what is around a module that is around d is *)
(* around d, and no module is around itself.                              *)
ASSUME NestingAssumption ==
  /\ Modules \cap Structs = {}
  /\ Within \in [Structs \cup Modules -> SUBSET Modules]
  /\ \A d \in Structs \cup Modules : \A m \in Within[d] :
        m \notin Within[m] /\ Within[m] \subseteq Within[d]

VARIABLES
  pc,       \* where runOnOperation is
  ir,       \* the compilation unit the pass was given
  ops,      \* the operations still in the IR
  structs,  \* the structs still in the IR
  modules,  \* the nested modules still in the IR
  members,  \* the candidate set `members` of removeUnusedMembers
  uses,     \* the map `uses`:   struct -> structs it uses
  usedBy,   \* the map `usedBy`: struct -> structs that use it
  unused    \* the vector `unusedStructs`: how often it holds each struct

vars == <<pc, ir, ops, structs, modules, members, uses, usedBy, unused>>

-----------------------------------------------------------------------------
OpsOfKind(k) == {o \in ops : ir.kind[o] = k}

(* Mutants of Candidates: the symbols at the write sites, unresolved ones    *)
(* too; the outputs of Main are not spared.                                  *)
CandidatesBySymbol == {ir.member[w] : w \in OpsOfKind("write")}

CandidatesWithOutputs ==
  {m \in OpsOfKind("member") : ir.parent[m] \in Structs}

(* Members that may be removed: all but the outputs of the main component. *)
Candidates ==
  {m \in OpsOfKind("member") :
     /\ ir.parent[m] \in Structs
     /\ ir.parent[m] # ir.main \/ m \notin ir.public}

(* Mutant of UsesOf: only member declarations are looked at. *)
UsesOfMembersOnly(s) ==
  {t \in Structs \ {s} :
     \E o \in ops : ir.kind[o] = "member" /\ ir.parent[o] = s /\ t \in ir.mentions[o]}

(* tryAddUse, over the operations nested in struct s: a type counts when it *)
(* is itself a struct type, of another struct.                              *)
UsesOf(s) ==
  {t \in Structs \ {s} : \E o \in ops : ir.parent[o] = s /\ t \in ir.mentions[o]}

(* updateUnusedStructs: append every struct of the map that has no user. *)
WithUnused(vec, live, by) ==
  [s \in Structs |->
     IF s \in live /\ by[s] = {} /\ s # ir.main THEN vec[s] + 1 ELSE vec[s]]

EmptyVector == [s \in Structs |-> 0]

(* Mutant of Popped: back() without pop_back(). *)
NotPopped(vec, s) == vec

Popped(vec, s) == [vec EXCEPT ![s] = @ - 1]

(* Mutant of Refilled: after every struct. *)
RefilledAlways(vec, live, by) == WithUnused(vec, live, by)

(* The worklist is refilled when it runs empty. *)
Refilled(vec, live, by) ==
  IF vec = EmptyVector THEN WithUnused(vec, live, by) ELSE vec

Init ==
  /\ ir \in IRs
  /\ pc = "reads"
  /\ ops = Ops
  /\ structs = Structs
  /\ modules = Modules
  /\ members = {}
  /\ uses = [s \in Structs |-> {}]
  /\ usedBy = [s \in Structs |-> {}]
  /\ unused = EmptyVector

(* The walk over the reads: a member that is read is no candidate.  A read *)
(* that does not resolve makes the pass fail before the IR is touched.     *)
WalkReads ==
  /\ pc = "reads"
  /\ IF \E r \in OpsOfKind("read") : ir.member[r] = Unresolved
     THEN /\ pc' = "failed"
          /\ UNCHANGED members
     ELSE /\ pc' = "writes"
          /\ members' = Candidates \ {ir.member[r] : r \in OpsOfKind("read")}
  /\ UNCHANGED <<ir, ops, structs, modules, uses, usedBy, unused>>

(* The walk over the writes erases the writes to candidates as it meets     *)
(* them.  When one does not resolve the walk stops, with the writes that    *)
(* came before it erased: before, in whatever order the walk visits them.   *)
WalkWrites ==
  /\ pc = "writes"
  /\ LET toUnread == {w \in OpsOfKind("write") : ir.member[w] \in members}
     IN  IF \E w \in OpsOfKind("write") : ir.member[w] = Unresolved
         THEN /\ pc' = "failed"
              /\ \E before \in SUBSET toUnread : ops' = ops \ before
         ELSE /\ pc' = "erase members"
              /\ ops' = ops \ toUnread
  /\ UNCHANGED <<ir, structs, modules, members, uses, usedBy, unused>>

EraseMembers ==
  /\ pc = "erase members"
  /\ ops' = ops \ members
  /\ pc' = IF ir.removeStructs THEN "collect uses" ELSE "done"
  /\ UNCHANGED <<ir, structs, modules, members, uses, usedBy, unused>>

(* Mutant of CollectUses: without the first fill. *)
CollectUsesUnfilled ==
  /\ pc = "collect uses"
  /\ uses' = [s \in Structs |-> UsesOf(s)]
  /\ usedBy' = [s \in Structs |-> {u \in Structs : s \in UsesOf(u)}]
  /\ pc' = "worklist"
  /\ UNCHANGED <<ir, ops, structs, modules, members, unused>>

(* The first half of removeUnusedStructs: both maps, then the first fill of *)
(* the worklist.                                                            *)
CollectUses ==
  /\ pc = "collect uses"
  /\ uses' = [s \in Structs |-> UsesOf(s)]
  /\ usedBy' = [s \in Structs |-> {u \in Structs : s \in UsesOf(u)}]
  /\ unused' = WithUnused(EmptyVector, structs, usedBy')
  /\ pc' = "worklist"
  /\ UNCHANGED <<ir, ops, structs, modules, members>>

(* One iteration of the worklist loop.  The vector's order is that of a     *)
(* DenseMap keyed by pointers, so any of its elements may come next.        *)
EraseStruct(s) ==
  /\ pc = "worklist"
  /\ unused[s] > 0
  /\ LET live == structs \ {s}
         by   == [t \in Structs |->
                    IF t \in uses[s] THEN usedBy[t] \ {s} ELSE usedBy[t]]
     IN  /\ structs' = live
         /\ usedBy' = by
         /\ uses' = [uses EXCEPT ![s] = {}]
         /\ unused' = Refilled(Popped(unused, s), live, by)
  /\ ops' = {o \in ops : ir.parent[o] # s}
  /\ UNCHANGED <<pc, ir, modules, members>>

WorklistEmpty ==
  /\ pc = "worklist"
  /\ unused = EmptyVector
  /\ pc' = "empty modules"
  /\ UNCHANGED <<ir, ops, structs, modules, members, uses, usedBy, unused>>

(* removeEmptyModules: the walk collects the modules with an empty body and *)
(* they are erased after it, so a module that held only empty modules when  *)
(* the walk met it stays.  Free functions are taken to be in no nested      *)
(* module.                                                                  *)
RemoveEmptyModules ==
  /\ pc = "empty modules"
  /\ modules' = {m \in modules : \E d \in structs \cup modules : m \in Within[d]}
  /\ pc' = "done"
  /\ UNCHANGED <<ir, ops, structs, members, uses, usedBy, unused>>

Next ==
  \/ WalkReads
  \/ WalkWrites
  \/ EraseMembers
  \/ CollectUses
  \/ \E s \in Structs : EraseStruct(s)
  \/ WorklistEmpty
  \/ RemoveEmptyModules

(* The pass runs to its end: every iteration of its loops is taken. *)
Spec == Init /\ [][Next]_vars /\ WF_vars(Next)

-----------------------------------------------------------------------------
(* The variables have the types of the code's data structures. *)
TypeOK ==
  /\ pc \in {"reads", "writes", "erase members", "collect uses", "worklist",
             "empty modules", "done", "failed"}
  /\ ir \in IRType
  /\ ops \subseteq Ops
  /\ structs \subseteq Structs
  /\ modules \subseteq Modules
  /\ members \subseteq Ops
  /\ uses \in [Structs -> SUBSET Structs]
  /\ usedBy \in [Structs -> SUBSET Structs]
  /\ unused \in [Structs -> Nat]

(* Nothing that is left in the unit refers to something erased: the struct   *)
(* types of an operation that is left in a struct name a struct that is left *)
(* and whose path of modules is left.  It covers the uses the pass looks for *)
(* (removeUnusedStructs: types of operands, results, block arguments and     *)
(* TypeAttrs of the operations nested in a struct).                          *)
NoDanglingUse ==
  \A o \in ops :
    ir.parent[o] # None =>
      \A s \in ir.mentions[o] : s \in structs /\ Within[s] \subseteq modules

(* The worklist holds every struct at most once and only structs that are    *)
(* still in the IR, without users and not Main: erase() is never called on   *)
(* an operation that is gone (updateUnusedStructs runs only when the vector  *)
(* is empty, "to avoid double processing").                                  *)
WorklistSound ==
  \A s \in Structs :
    unused[s] > 0 => /\ unused[s] = 1
                     /\ s \in structs
                     /\ usedBy[s] = {}
                     /\ s # ir.main

(* An operation is erased with the struct it is in, or because it defines or *)
(* writes a member that no operation reads and that is no output of Main.    *)
(* A member reference that does not resolve stops the pass halfway           *)
(* (removeUnusedMembers returns failure()): what it has erased by then obeys *)
(* the same rule.                                                            *)
OnlyUnreadErased ==
  \A o \in Ops \ ops :
    ir.parent[o] \in structs \cup {None} =>
      LET m == IF ir.kind[o] = "member" THEN o ELSE ir.member[o]
      IN  /\ ir.kind[o] \in {"member", "write"}
          /\ ~ \E r \in Ops : ir.kind[r] = "read" /\ ir.member[r] = m
          /\ ~ (ir.parent[m] = ir.main /\ m \in ir.public)

-----------------------------------------------------------------------------
(* What the pass does to the structs, as the removal of dead definitions: a *)
(* struct uses another while an operation in it mentions it.                *)
UseEdges == {e \in structs \X Structs : e[2] \in UsesOf(e[1])}

(* The worklist is through.  A pass that failed, or that was not asked to    *)
(* remove structs, has not ended it: it has removed none.                    *)
Ended == pc = "empty modules" \/ (pc = "done" /\ ir.removeStructs)

Pruning == INSTANCE DeadDefinitions WITH
  Node    <- Structs,
  live    <- structs,
  edges   <- UseEdges,
  root    <- Structs \cap {ir.main},
  stopped <- Ended

(* The worklist removes a struct only when no struct that is left uses it,   *)
(* never Main, and ends only when every other struct is used, also when it   *)
(* has removed none: whatever the order in which the DenseMap and the vector *)
(* deliver the structs.  Without the worklist no struct is removed.          *)
PrunesDeadStructs == Pruning!Spec

(* The loop ends: every struct is erased at most once. *)
Terminates == <>(pc \in {"done", "failed"})
=============================================================================
