---------------------------- MODULE FromEraseSet ----------------------------
(***************************************************************************)
(* Step6_Cleanup::FromEraseSet of -llzk-flatten                            *)
(* (lib/Dialect/Polymorphic/Transforms/FlatteningPass.cpp), the clean-up   *)
(* mode preimage: erase the definitions that were replaced by concrete     *)
(* instantiations, as far as nothing that stays needs them.  The recursive *)
(* collectSafeToErase is modelled with its call stack: the symbol it is at *)
(* and, of every symbol it is inside of, the one it was called for.        *)
(***************************************************************************)
EXTENDS SymbolGraphs

CONSTANTS
  Nobody,        \* no symbol
  EraseTargets   \* the sets of definitions that were instantiated

ASSUME TargetsAssumption ==
  /\ Nobody \notin Symbols
  /\ \A t \in EraseTargets : t \subseteq {s \in Symbols : IsErasableDefinition(s)}

VARIABLES
  pc,          \* "collect" or "done"
  uses,        \* the use graph
  tryToErase,  \* the set tryToErase
  todo,        \* its elements the loop of eraseUnusedDefinitions has not been at
  safety,      \* visitedPlusSafetyResult: "none" when not visited
  current,     \* the symbol the innermost collectSafeToErase checks
  caller,      \* of a symbol being checked: the symbol it is checked for
  waiting,     \* of a symbol being checked: what has still to be looked at
  reverting,   \* the call for current is about to return false
  left         \* the symbols still in the IR

vars == <<pc, uses, tryToErase, todo, safety, current, caller, waiting, reverting, left>>

-----------------------------------------------------------------------------
(* Mutant of DependsOn: the root of the tree is taken for a symbol. *)
DependsOnRoot(s) == ({Parent[s]} \cup Users(uses, s)) \ Included

(* What the safety of a symbol is made to depend on: what it is defined in  *)
(* and, unless it comes from an include, whoever uses it.                   *)
DependsOn(s) == (({Parent[s]} \ {Top}) \cup Users(uses, s)) \ Included

Init ==
  /\ pc = "collect"
  /\ uses \in UseRelations
  /\ \E t \in EraseTargets : tryToErase = t \ Included
  /\ todo = tryToErase
  /\ safety = [s \in Symbols |-> "none"]
  /\ current = Nobody
  /\ caller = [s \in Symbols |-> Nobody]
  /\ waiting = [s \in Symbols |-> {}]
  /\ reverting = FALSE
  /\ left = Symbols \ Included

(* An erasable definition that is not to be erased stays. *)
Stays(s) == IsErasableDefinition(s) /\ s \notin tryToErase

(* Mutants of Enter: the symbol is marked as unsafe at first; not at all. *)
EnterUnsafe(s, c) ==
  /\ safety' = [safety EXCEPT ![s] = "unsafe"]
  /\ current' = s
  /\ caller' = [caller EXCEPT ![s] = c]

EnterUnmarked(s, c) ==
  /\ safety' = safety
  /\ current' = s
  /\ caller' = [caller EXCEPT ![s] = c]

(* The call for symbol s, made while the one for symbol c is active: the     *)
(* symbol is marked as safe before anything is looked at.                    *)
Enter(s, c) ==
  /\ safety' = [safety EXCEPT ![s] = "safe"]
  /\ current' = s
  /\ caller' = [caller EXCEPT ![s] = c]

(* The loop over tryToErase, a DenseSet: in any order. *)
NextCandidate(s) ==
  /\ pc = "collect"
  /\ current = Nobody
  /\ s \in todo
  /\ todo' = todo \ {s}
  /\ IF safety[s] = "none"
     THEN Enter(s, Nobody) /\ waiting' = [waiting EXCEPT ![s] = DependsOn(s)]
     ELSE UNCHANGED <<safety, current, caller, waiting>>
  /\ UNCHANGED <<pc, uses, tryToErase, reverting, left>>

(* The definition it is in is looked at first, then the users in the order  *)
(* in which the use graph holds them.                                       *)
LookedAtNext(d) ==
  /\ pc = "collect"
  /\ current # Nobody
  /\ ~ reverting
  /\ d \in waiting[current]
  /\ Parent[current] \in waiting[current] => d = Parent[current]

(* collectSafeToErase(d) returns a result found before: true. *)
FoundSafe(d) ==
  /\ LookedAtNext(d)
  /\ safety[d] = "safe"
  /\ waiting' = [waiting EXCEPT ![current] = @ \ {d}]
  /\ UNCHANGED <<pc, uses, tryToErase, todo, safety, current, caller, reverting, left>>

(* It returns false: found before, or because d stays. *)
FoundUnsafe(d) ==
  /\ LookedAtNext(d)
  /\ safety[d] = "unsafe" \/ (safety[d] = "none" /\ Stays(d))
  /\ safety' = [safety EXCEPT ![d] = "unsafe"]
  /\ reverting' = TRUE
  /\ UNCHANGED <<pc, uses, tryToErase, todo, current, caller, waiting, left>>

(* Or it is called for a symbol that was not visited. *)
Descend(d) ==
  /\ LookedAtNext(d)
  /\ safety[d] = "none"
  /\ ~ Stays(d)
  /\ Enter(d, current)
  /\ waiting' = [waiting EXCEPT ![current] = @ \ {d}, ![d] = DependsOn(d)]
  /\ UNCHANGED <<pc, uses, tryToErase, todo, reverting, left>>

(* Everything was found to be safe: return true to the caller. *)
ReturnSafe ==
  /\ pc = "collect"
  /\ current # Nobody
  /\ ~ reverting
  /\ waiting[current] = {}
  /\ current' = caller[current]
  /\ UNCHANGED <<pc, uses, tryToErase, todo, safety, caller, waiting, reverting, left>>

(* Mutant of Reverted: the mark stays. *)
NotReverted(s) == safety

Reverted(s) == [safety EXCEPT ![s] = "unsafe"]

(* "Otherwise, revert the safety decision and return it": the caller, which *)
(* stops at the first unsafe symbol, does the same.                         *)
ReturnUnsafe ==
  /\ pc = "collect"
  /\ current # Nobody
  /\ reverting
  /\ safety' = Reverted(current)
  /\ waiting' = [waiting EXCEPT ![current] = {}]
  /\ current' = caller[current]
  /\ reverting' = (caller[current] # Nobody)
  /\ UNCHANGED <<pc, uses, tryToErase, todo, caller, left>>

SafeToErase == {s \in tryToErase : safety[s] = "safe"}

EraseUnusedDefinitions ==
  /\ pc = "collect"
  /\ current = Nobody
  /\ todo = {}
  /\ left' = left \ UNION {Subtree(s) : s \in SafeToErase}
  /\ pc' = "done"
  /\ UNCHANGED <<uses, tryToErase, todo, safety, current, caller, waiting, reverting>>

Next ==
  \/ \E s \in Symbols : NextCandidate(s)
  \/ \E d \in Symbols : FoundSafe(d)
  \/ \E d \in Symbols : FoundUnsafe(d)
  \/ \E d \in Symbols : Descend(d)
  \/ ReturnSafe
  \/ ReturnUnsafe
  \/ EraseUnusedDefinitions

Spec == Init /\ [][Next]_vars /\ WF_vars(Next)

-----------------------------------------------------------------------------
(* The variables have the types of the code's data structures. *)
TypeOK ==
  /\ pc \in {"collect", "done"}
  /\ uses \in [Symbols -> SUBSET Symbols]
  /\ tryToErase \subseteq {s \in Symbols : IsErasableDefinition(s)}
  /\ todo \subseteq tryToErase
  /\ safety \in [Symbols -> {"none", "safe", "unsafe"}]
  /\ current \in Symbols \cup {Nobody}
  /\ caller \in [Symbols -> Symbols \cup {Nobody}]
  /\ waiting \in [Symbols -> SUBSET Symbols]
  /\ reverting \in BOOLEAN
  /\ left \subseteq Symbols

(* A set of symbols that holds whatever depends on one of them. *)
ClosedUnderNeed(c) == \A s \in Symbols : DependsOn(s) \cap c # {} => s \in c

(* A definition is given up only for a reason: every set that holds the      *)
(* definitions that stay and whatever they need, directly or not, holds it.  *)
(* Definitions that only need each other do not keep each other.             *)
UnsafeIsNeeded ==
  pc = "done" =>
    \A c \in SUBSET Symbols :
      {s \in Symbols : Stays(s)} \subseteq c /\ ClosedUnderNeed(c) =>
        {s \in tryToErase : s \in left} \subseteq c

(* When no definition is given up, nothing that is left in a struct or a     *)
(* free function uses what is erased.                                        *)
NoDanglingUnlessGivenUp ==
  pc = "done" /\ tryToErase \cap left = {} =>
    \A s \in left :
      IsErasableDefinition(s) \/ Kind[s] = "nested" => uses[s] \ Included \subseteq left

(* The same in any case ("The main checks to determine if a SymbolOp ... is  *)
(* safe to erase without leaving any dangling references to it").            *)
NoDanglingUse ==
  pc = "done" =>
    \A s \in left :
      IsErasableDefinition(s) \/ Kind[s] = "nested" => uses[s] \ Included \subseteq left

(* No cycle of definitions keeps the recursion going. *)
Terminates == <>(pc = "done")
=============================================================================
