----------------------------- MODULE FromKeepSet -----------------------------
(***************************************************************************)
(* Step6_Cleanup::FromKeepSet of -llzk-flatten                             *)
(* (lib/Dialect/Polymorphic/Transforms/FlatteningPass.cpp): erase every    *)
(* struct and free function that cannot be reached from the definitions to *)
(* keep.  The clean-up modes main-as-root and concrete-as-root use it.     *)
(***************************************************************************)
EXTENDS SymbolGraphs

VARIABLES
  pc,             \* "mark", "done" or "failed"
  uses,           \* the use graph
  keep,           \* the definitions the mode keeps
  roots,          \* the SetVector `roots`
  processed,      \* those the outer loop has been at
  pending,        \* the symbols on the stack of the depth-first walk
  defsToKeep,     \* the erasable definitions below some root
  symbolsToKeep,  \* the symbols the walk has visited
  left            \* the symbols still in the IR

vars == <<pc, uses, keep, roots, processed, pending, defsToKeep, symbolsToKeep, left>>

-----------------------------------------------------------------------------
Globals == {s \in Symbols : Kind[s] = "global"} \ Included

Roots(k) == k \cup Globals

(* The main struct, if there is one, or the definitions with no unresolved   *)
(* template binding: any set of definitions of this unit.                    *)
Init ==
  /\ pc = "mark"
  /\ uses \in UseRelations
  /\ keep \in SUBSET {s \in Symbols \ Included : IsErasableDefinition(s)}
  /\ roots = Roots(keep)
  /\ processed = {}
  /\ pending = {}
  /\ defsToKeep = {}
  /\ symbolsToKeep = {}
  /\ left = Symbols \ Included

(* Mutant of DefsBelow: whatever is defined below the root. *)
AllBelow(r) == Subtree(r)

DefsBelow(r) == {d \in Subtree(r) : IsErasableDefinition(d)}

(* One iteration of the outer loop: the definitions below the root are kept *)
(* and a depth-first walk starts from each of them.                         *)
TakeRoot(r) ==
  /\ pc = "mark"
  /\ pending = {}
  /\ r \in roots \ processed
  /\ processed' = processed \cup {r}
  /\ defsToKeep' = defsToKeep \cup DefsBelow(r)
  /\ pending' = Subtree(r) \ symbolsToKeep
  /\ UNCHANGED <<pc, uses, keep, roots, symbolsToKeep, left>>

(* Mutant of NewRoots: a definition that is used is no root of its own. *)
NoNewRoots(n) == {}

(* What is used is a root too when it is an erasable definition of this file. *)
NewRoots(n) == IF IsErasableDefinition(n) THEN {n} \ Included ELSE {}

(* Mutant of Successors: what is on the stack already is pushed for ever. *)
EverySuccessor(n, visited) == uses[n]

Successors(n, visited) == uses[n] \ visited

(* The walk visits a symbol, whatever the order of the use graph's edges. *)
VisitSymbol(n) ==
  /\ pc = "mark"
  /\ n \in pending
  /\ Kind[n] # "unknown"
  /\ symbolsToKeep' = symbolsToKeep \cup {n}
  /\ roots' = roots \cup NewRoots(n)
  /\ pending' = (pending \ {n}) \cup Successors(n, symbolsToKeep')
  /\ UNCHANGED <<pc, uses, keep, processed, defsToKeep, left>>

(* A used symbol that is not found ends the pass before anything is erased. *)
LookupFails(n) ==
  /\ pc = "mark"
  /\ n \in pending
  /\ Kind[n] = "unknown"
  /\ pc' = "failed"
  /\ UNCHANGED <<uses, keep, roots, processed, pending, defsToKeep, symbolsToKeep, left>>

(* Mutant of ToErase: what somebody uses stays. *)
ToEraseUnused == {d \in left : IsErasableDefinition(d) /\ d \notin keep /\ Users(uses, d) = {}}

ToErase ==
  {d \in left : IsErasableDefinition(d) /\ d \notin defsToKeep \cup symbolsToKeep}

EraseUnreachable ==
  /\ pc = "mark"
  /\ pending = {}
  /\ roots \subseteq processed
  /\ pc' = "done"
  /\ left' = left \ UNION {Subtree(d) : d \in ToErase}
  /\ UNCHANGED <<uses, keep, roots, processed, pending, defsToKeep, symbolsToKeep>>

Next ==
  \/ \E r \in Symbols : TakeRoot(r)
  \/ \E n \in Symbols : VisitSymbol(n)
  \/ \E n \in Symbols : LookupFails(n)
  \/ EraseUnreachable

Spec == Init /\ [][Next]_vars /\ WF_vars(Next)

-----------------------------------------------------------------------------
(* The variables have the types of the code's data structures. *)
TypeOK ==
  /\ pc \in {"mark", "done", "failed"}
  /\ uses \in [Symbols -> SUBSET Symbols]
  /\ keep \subseteq Symbols
  /\ roots \subseteq Symbols
  /\ processed \subseteq roots
  /\ pending \subseteq Symbols
  /\ defsToKeep \subseteq {s \in Symbols : IsErasableDefinition(s)}
  /\ symbolsToKeep \subseteq Symbols
  /\ left \subseteq Symbols

(* Whatever a struct, a function or a global that is left uses is left as    *)
(* well: a definition that is reached through a use only becomes a root in   *)
(* the middle of the loop over the roots, and what lies in its body must be  *)
(* reached by a later iteration.                                             *)
NoDanglingUse ==
  pc = "done" =>
    \A s \in left : Kind[s] # "contract" => uses[s] \ Included \subseteq left

(* A set of symbols that holds what its symbols use and what is defined in   *)
(* the definitions among them.                                               *)
Closed(c) ==
  /\ \A s \in c : uses[s] \subseteq c
  /\ \A s \in c : IsErasableDefinition(s) /\ s \notin Included => Subtree(s) \subseteq c

(* What is left of the structs and free functions is reachable from what was *)
(* to be kept, or from a global: it is in every closed set that holds those  *)
(* ("All definitions that cannot be reached ... are deleted").               *)
KeepsOnlyReachable ==
  pc = "done" =>
    \A c \in SUBSET Symbols :
      keep \cup Globals \subseteq c /\ Closed(c) =>
        {d \in left : IsErasableDefinition(d)} \subseteq c

(* The loop over the growing vector and the walks in it end. *)
Terminates == <>(pc \in {"done", "failed"})
=============================================================================
