---------------------------- MODULE SymbolGraphs ----------------------------
(***************************************************************************)
(* The two graphs over the symbols of a unit that the clean-up of          *)
(* -llzk-flatten reads: the tree of symbol definitions (SymbolDefTree) and *)
(* the graph of symbol uses (SymbolUseGraph).                              *)
(***************************************************************************)
EXTENDS FiniteSets

CONSTANTS
  Symbols,       \* the symbols of the unit
  Kind,          \* what each symbol is
  Parent,        \* the symbol it is defined in
  Top,           \* the root of the tree of definitions: no symbol
  Included,      \* the symbols that come from another file via an include
  UseRelations   \* the use graphs a unit may have: symbol -> symbols it uses

(* "nested" is a member or a function of a struct; "scope" a nested module  *)
(* or a template; "unknown" a path that the graph holds and no lookup finds. *)
Kinds == {"struct", "free function", "nested", "global", "contract", "scope", "unknown"}

(* FromKeepSet::isErasableDefinition *)
IsErasableDefinition(s) == Kind[s] \in {"struct", "free function"}

(* A struct's functions and members are all that is defined in a definition *)
(* the clean-up may erase or keep.                                          *)
Subtree(s) == {s} \cup {c \in Symbols : Parent[c] = s /\ Kind[c] = "nested"}

(* The users of a symbol: its predecessors in the use graph. *)
Users(uses, s) == {u \in Symbols : s \in uses[u]}

ASSUME SymbolsAssumption ==
  /\ IsFiniteSet(Symbols)
  /\ Kind \in [Symbols -> Kinds]
  /\ Parent \in [Symbols -> Symbols \cup {Top}]
  /\ Top \notin Symbols
  /\ Included \subseteq Symbols
  /\ \A s \in Symbols : Kind[s] = "nested" =>
       /\ Parent[s] \in Symbols
       /\ Kind[Parent[s]] = "struct"
       /\ s \in Included <=> Parent[s] \in Included

(* An included symbol, a module and an unknown path use nothing in the graph *)
(* of this unit.  Whoever uses a function or member of a struct mentions the *)
(* struct, or the type of the function does.                                 *)
ASSUME UsesAssumption ==
  /\ UseRelations \subseteq [Symbols -> SUBSET Symbols]
  /\ \A uses \in UseRelations :
       /\ \A s \in Symbols : s \in Included \/ Kind[s] \in {"scope", "unknown"} => uses[s] = {}
       /\ \A s \in Symbols : \A n \in uses[s] :
            Kind[n] = "nested" => Parent[n] \in uses[s] \cup uses[n]
=============================================================================
