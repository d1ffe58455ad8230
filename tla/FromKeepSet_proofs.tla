-------------------------- MODULE FromKeepSet_proofs --------------------------
(***************************************************************************)
(* Proofs about FromKeepSet, for every set of symbols, every use graph and *)
(* every set of definitions to keep.                                       *)
(***************************************************************************)
EXTENDS FromKeepSet, TLAPS

(* Nothing is erased before the end, and what was to be kept is a root. *)
RootsInv ==
  /\ pc # "done" => left = Symbols \ Included
  /\ uses \in UseRelations
  /\ keep \cup Globals \subseteq roots
  /\ roots \cap Included = {}
  /\ \A r \in roots : IsErasableDefinition(r) \/ Kind[r] = "global"

(* What the loop is through with: the walk has reached, or will, whatever is *)
(* defined in those roots.                                                   *)
ProcessedInv ==
  \A r \in processed : Subtree(r) \subseteq symbolsToKeep \cup pending

(* A definition is kept for its own sake only when it is a root. *)
DefsAreRoots == defsToKeep \subseteq roots

(* The walk has been, or will be, at whatever a visited symbol uses, and a   *)
(* definition it visited is a root.                                          *)
VisitedInv ==
  \A s \in symbolsToKeep :
    /\ uses[s] \subseteq symbolsToKeep \cup pending
    /\ IsErasableDefinition(s) /\ s \notin Included => s \in roots

IInv == TypeOK /\ RootsInv /\ ProcessedInv /\ DefsAreRoots /\ VisitedInv

-----------------------------------------------------------------------------
LEMMA KindsDiffer ==
  ASSUME NEW s \in Symbols
  PROVE  /\ IsErasableDefinition(s) => Kind[s] \notin {"nested", "global", "contract", "scope", "unknown"}
         /\ Kind[s] \in {"nested", "global", "contract", "scope", "unknown"} \/ IsErasableDefinition(s)
BY SymbolsAssumption DEF IsErasableDefinition, Kinds

LEMMA SubtreeType ==
  ASSUME NEW s \in Symbols
  PROVE  Subtree(s) \subseteq Symbols /\ s \in Subtree(s)
BY DEF Subtree

(* The only definition in a definition's subtree is the definition. *)
LEMMA DefsBelowIs ==
  ASSUME NEW s \in Symbols, NEW d \in DefsBelow(s)
  PROVE  d = s /\ d \in Symbols /\ IsErasableDefinition(d)
BY KindsDiffer DEF DefsBelow, Subtree

LEMMA InitInv == Init => IInv
<1> SUFFICES ASSUME Init PROVE IInv
  OBVIOUS
<1>1. TypeOK
  BY UsesAssumption DEF Init, TypeOK, Roots, Globals
<1>2. RootsInv
  BY DEF Init, RootsInv, Roots, Globals
<1> QED
  BY <1>1, <1>2 DEF Init, IInv, ProcessedInv, DefsAreRoots, VisitedInv

LEMMA TakeRootInv ==
  ASSUME IInv, NEW r \in Symbols, TakeRoot(r)
  PROVE  IInv'
<1>1. /\ pc' = pc /\ uses' = uses /\ keep' = keep /\ roots' = roots /\ left' = left
      /\ symbolsToKeep' = symbolsToKeep /\ pending = {} /\ r \in roots
      /\ processed' = processed \cup {r}
      /\ defsToKeep' = defsToKeep \cup DefsBelow(r)
      /\ pending' = Subtree(r) \ symbolsToKeep
  BY DEF TakeRoot
<1>2. TypeOK'
  <2>1. DefsBelow(r) \subseteq {s \in Symbols : IsErasableDefinition(s)}
    BY DefsBelowIs
  <2> QED
    BY <1>1, <2>1, SubtreeType DEF IInv, TypeOK
<1>3. RootsInv'
  BY <1>1 DEF IInv, RootsInv, Globals
<1>4. ProcessedInv'
  BY <1>1 DEF IInv, ProcessedInv
<1>5. DefsAreRoots'
  BY <1>1, DefsBelowIs DEF IInv, DefsAreRoots
<1>6. VisitedInv'
  BY <1>1 DEF IInv, VisitedInv
<1> QED
  BY <1>2, <1>3, <1>4, <1>5, <1>6 DEF IInv

LEMMA VisitSymbolInv ==
  ASSUME IInv, NEW n \in Symbols, VisitSymbol(n)
  PROVE  IInv'
<1>1. /\ pc' = pc /\ uses' = uses /\ keep' = keep /\ left' = left
      /\ processed' = processed /\ defsToKeep' = defsToKeep
      /\ n \in pending
      /\ symbolsToKeep' = symbolsToKeep \cup {n}
      /\ roots' = roots \cup NewRoots(n)
      /\ pending' = (pending \ {n}) \cup (uses[n] \ symbolsToKeep')
  BY DEF VisitSymbol, Successors
<1>2. uses[n] \subseteq Symbols
  BY DEF IInv, TypeOK
<1>3. TypeOK'
  BY <1>1, <1>2 DEF IInv, TypeOK, NewRoots
<1>4. RootsInv'
  BY <1>1 DEF IInv, RootsInv, NewRoots, Globals
<1>5. ProcessedInv'
  BY <1>1 DEF IInv, ProcessedInv
<1>6. DefsAreRoots'
  BY <1>1 DEF IInv, DefsAreRoots
<1>7. VisitedInv'
  <2> SUFFICES ASSUME NEW s \in symbolsToKeep'
               PROVE  /\ uses[s] \subseteq symbolsToKeep' \cup pending'
                      /\ IsErasableDefinition(s) /\ s \notin Included => s \in roots'
    BY <1>1 DEF VisitedInv
  <2>1. CASE s \in symbolsToKeep
    BY <1>1, <2>1 DEF IInv, VisitedInv
  <2>2. CASE s = n
    BY <1>1, <2>2 DEF NewRoots
  <2> QED
    BY <1>1, <2>1, <2>2
<1> QED
  BY <1>3, <1>4, <1>5, <1>6, <1>7 DEF IInv

LEMMA NextInv == IInv /\ [Next]_vars => IInv'
<1> SUFFICES ASSUME IInv, [Next]_vars PROVE IInv'
  OBVIOUS
<1>1. CASE \E r \in Symbols : TakeRoot(r)
  BY <1>1, TakeRootInv
<1>2. CASE \E n \in Symbols : VisitSymbol(n)
  BY <1>2, VisitSymbolInv
<1>3. CASE (\E n \in Symbols : LookupFails(n)) \/ EraseUnreachable \/ UNCHANGED vars
  <2>1. /\ UNCHANGED <<uses, keep, roots, processed, pending, defsToKeep, symbolsToKeep>>
        /\ left' \subseteq left /\ pc' \in {"mark", "done", "failed"}
        /\ pc' # "done" => left' = left /\ pc # "done"
    BY <1>3 DEF LookupFails, EraseUnreachable, vars, IInv, TypeOK
  <2>2. TypeOK'
    BY <2>1 DEF IInv, TypeOK
  <2>3. RootsInv'
    BY <2>1 DEF IInv, RootsInv, Globals
  <2> QED
    BY <2>1, <2>2, <2>3 DEF IInv, ProcessedInv, DefsAreRoots, VisitedInv
<1> QED
  BY <1>1, <1>2, <1>3 DEF Next

THEOREM Invariance == Spec => []IInv
BY InitInv, NextInv, PTL DEF Spec

(* The sets of the pass keep their types. *)
THEOREM TypeCorrect == Spec => []TypeOK
BY Invariance, PTL DEF IInv

-----------------------------------------------------------------------------
(* When the loop over the roots is over, whatever is visited or a root stays *)
(* and the walk has been at whatever it uses.                                *)
LEMMA KeptAreVisited ==
  ASSUME IInv, EraseUnreachable, NEW d \in Symbols, d \notin Included,
         IsErasableDefinition(d), d \notin ToErase
  PROVE  Subtree(d) \subseteq symbolsToKeep
<1>1. pending = {} /\ roots \subseteq processed /\ left = Symbols \ Included
  BY DEF EraseUnreachable, IInv, RootsInv
<1>2. d \in roots
  BY <1>1 DEF ToErase, IInv, DefsAreRoots, VisitedInv
<1> QED
  BY <1>1, <1>2 DEF IInv, ProcessedInv

LEMMA LeftAfterErasing ==
  ASSUME IInv, EraseUnreachable, NEW s \in Symbols
  PROVE  s \in left' <=>
           /\ s \notin Included
           /\ s \notin ToErase
           /\ Kind[s] = "nested" => Parent[s] \notin ToErase
<1>1. left = Symbols \ Included /\ left' = left \ UNION {Subtree(d) : d \in ToErase}
  BY DEF EraseUnreachable, IInv, RootsInv
<1>2. s \in UNION {Subtree(d) : d \in ToErase} <=> \E d \in ToErase : s \in Subtree(d)
  OBVIOUS
<1>3. (\E d \in ToErase : s \in Subtree(d))
        <=> s \in ToErase \/ (Kind[s] = "nested" /\ Parent[s] \in ToErase)
  BY DEF Subtree
<1> QED
  BY <1>1, <1>2, <1>3

(* What uses something and is left has been visited, unless it is a contract. *)
LEMMA UsersAreVisited ==
  ASSUME IInv, EraseUnreachable, NEW s \in Symbols, s \in left',
         Kind[s] # "contract", uses[s] # {}
  PROVE  s \in symbolsToKeep
<1>1. /\ pending = {} /\ roots \subseteq processed /\ s \notin Included /\ s \notin ToErase
      /\ Kind[s] = "nested" => Parent[s] \notin ToErase
  BY LeftAfterErasing DEF EraseUnreachable
<1>2. CASE IsErasableDefinition(s)
  BY <1>1, <1>2, KeptAreVisited, SubtreeType
<1>3. CASE Kind[s] = "nested"
  <2>1. Parent[s] \in Symbols /\ Parent[s] \notin Included /\ IsErasableDefinition(Parent[s])
    BY <1>1, <1>3, SymbolsAssumption DEF IsErasableDefinition
  <2>2. s \in Subtree(Parent[s])
    BY <1>3 DEF Subtree
  <2> QED
    BY <1>1, <1>3, <2>1, <2>2, KeptAreVisited
<1>4. CASE Kind[s] = "global"
  <2>1. s \in roots
    BY <1>1, <1>4 DEF IInv, RootsInv, Globals
  <2> QED
    BY <1>1, <2>1, SubtreeType DEF IInv, ProcessedInv
<1>5. CASE Kind[s] \in {"scope", "unknown"}
  BY <1>5, UsesAssumption DEF IInv, RootsInv
<1> QED
  BY <1>2, <1>3, <1>4, <1>5, KindsDiffer

LEMMA ErasingLeavesNoDanglingUse ==
  ASSUME IInv, EraseUnreachable
  PROVE  NoDanglingUse'
<1> SUFFICES ASSUME NEW s \in left', Kind[s] # "contract", NEW t \in uses[s] \ Included
             PROVE  t \in left'
  BY DEF NoDanglingUse, EraseUnreachable
<1>1. s \in Symbols /\ t \in Symbols
  BY DEF IInv, TypeOK, EraseUnreachable
<1>2. s \in symbolsToKeep
  BY <1>1, UsersAreVisited
<1>3. t \in symbolsToKeep /\ uses[t] \subseteq symbolsToKeep /\ uses[s] \subseteq symbolsToKeep
  BY <1>2 DEF IInv, VisitedInv, EraseUnreachable
<1>4. symbolsToKeep \cap ToErase = {}
  BY DEF ToErase
<1>5. Kind[t] = "nested" => Parent[t] \in symbolsToKeep
  BY <1>1, <1>3, UsesAssumption DEF IInv, RootsInv
<1> QED
  BY <1>1, <1>3, <1>4, <1>5, LeftAfterErasing

(* Whatever the unit and the definitions to keep: no struct, function or     *)
(* global that is left uses a definition that was erased.                    *)
THEOREM NoDangling == Spec => []NoDanglingUse
<1>1. Init => NoDanglingUse
  BY DEF Init, NoDanglingUse
<1>2. IInv /\ NoDanglingUse /\ [Next]_vars => NoDanglingUse'
  <2> SUFFICES ASSUME IInv, NoDanglingUse, [Next]_vars PROVE NoDanglingUse'
    OBVIOUS
  <2>1. CASE EraseUnreachable
    BY <2>1, ErasingLeavesNoDanglingUse
  <2>2. CASE \E n \in Symbols : TakeRoot(n) \/ VisitSymbol(n) \/ LookupFails(n)
    BY <2>2 DEF TakeRoot, VisitSymbol, LookupFails, NoDanglingUse
  <2>3. CASE UNCHANGED vars
    BY <2>3 DEF vars, NoDanglingUse
  <2> QED
    BY <2>1, <2>2, <2>3 DEF Next
<1> QED
  BY <1>1, <1>2, Invariance, PTL DEF Spec

-----------------------------------------------------------------------------
(* The walk stays inside every closed set that holds what is to be kept. *)
ReachableInv ==
  \A c \in SUBSET Symbols :
    keep \cup Globals \subseteq c /\ Closed(c) =>
      roots \cup pending \cup symbolsToKeep \subseteq c

LEMMA ReachableStep == IInv /\ ReachableInv /\ [Next]_vars => ReachableInv'
<1> SUFFICES ASSUME IInv, ReachableInv, [Next]_vars,
                    NEW c \in SUBSET Symbols, keep' \cup Globals \subseteq c, Closed(c)'
             PROVE  roots' \cup pending' \cup symbolsToKeep' \subseteq c
  BY DEF ReachableInv, Globals
<1>1. uses' = uses /\ keep' = keep
  BY DEF Next, TakeRoot, VisitSymbol, LookupFails, EraseUnreachable, vars
<1>2. Closed(c) /\ roots \cup pending \cup symbolsToKeep \subseteq c
  BY <1>1 DEF Closed, ReachableInv
<1>3. CASE \E r \in Symbols : TakeRoot(r)
  <2>1. PICK r \in Symbols : TakeRoot(r)
    BY <1>3
  <2>2. r \in roots /\ roots' = roots /\ symbolsToKeep' = symbolsToKeep
        /\ pending' \subseteq Subtree(r)
    BY <2>1 DEF TakeRoot
  <2>3. CASE IsErasableDefinition(r)
    BY <1>2, <2>2, <2>3 DEF Closed, IInv, RootsInv
  <2>4. CASE Kind[r] = "global"
    <3>1. Subtree(r) = {r}
      BY <2>4, SymbolsAssumption DEF Subtree
    <3> QED
      BY <1>2, <2>2, <3>1
  <2> QED
    BY <2>2, <2>3, <2>4 DEF IInv, RootsInv
<1>4. CASE \E n \in Symbols : VisitSymbol(n)
  <2>1. PICK n \in Symbols : VisitSymbol(n)
    BY <1>4
  <2>2. /\ n \in pending /\ roots' \subseteq roots \cup {n}
        /\ symbolsToKeep' = symbolsToKeep \cup {n}
        /\ pending' \subseteq pending \cup uses[n]
    BY <2>1 DEF VisitSymbol, NewRoots, Successors
  <2> QED
    BY <1>2, <2>2 DEF Closed
<1>5. CASE (\E n \in Symbols : LookupFails(n)) \/ EraseUnreachable \/ UNCHANGED vars
  BY <1>2, <1>5 DEF LookupFails, EraseUnreachable, vars
<1> QED
  BY <1>3, <1>4, <1>5 DEF Next

(* What is left of the definitions is reachable: nothing is kept in vain. *)
THEOREM OnlyReachable == Spec => []KeepsOnlyReachable
<1>1. Init => ReachableInv /\ KeepsOnlyReachable
  BY DEF Init, ReachableInv, KeepsOnlyReachable, Roots
<1>2. IInv /\ ReachableInv /\ KeepsOnlyReachable /\ [Next]_vars => KeepsOnlyReachable'
  <2> SUFFICES ASSUME IInv, ReachableInv, KeepsOnlyReachable, [Next]_vars
               PROVE  KeepsOnlyReachable'
    OBVIOUS
  <2>1. CASE EraseUnreachable
    <3> SUFFICES ASSUME NEW c \in SUBSET Symbols, keep \cup Globals \subseteq c, Closed(c),
                        NEW d \in left', IsErasableDefinition(d)
                 PROVE  d \in c
      BY <2>1 DEF KeepsOnlyReachable, Closed, Globals, EraseUnreachable
    <3>1. d \in Symbols
      BY <2>1 DEF IInv, TypeOK, EraseUnreachable
    <3>2. d \notin ToErase /\ d \notin Included
      BY <2>1, <3>1, LeftAfterErasing
    <3>3. d \in symbolsToKeep
      BY <2>1, <3>1, <3>2, KeptAreVisited, SubtreeType
    <3> QED
      BY <3>3 DEF ReachableInv
  <2>2. CASE \E n \in Symbols : TakeRoot(n) \/ VisitSymbol(n) \/ LookupFails(n)
    BY <2>2 DEF TakeRoot, VisitSymbol, LookupFails, KeepsOnlyReachable
  <2>3. CASE UNCHANGED vars
    BY <2>3 DEF vars, KeepsOnlyReachable, Closed, Globals
  <2> QED
    BY <2>1, <2>2, <2>3 DEF Next
<1> QED
  BY <1>1, <1>2, Invariance, ReachableStep, PTL DEF Spec
=============================================================================
