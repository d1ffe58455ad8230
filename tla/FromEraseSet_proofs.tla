------------------------- MODULE FromEraseSet_proofs -------------------------
(***************************************************************************)
(* Proofs about FromEraseSet, for every set of symbols, every use graph,   *)
(* every set of definitions to erase and every order of the walks.         *)
(***************************************************************************)
EXTENDS FromEraseSet, TLAPS

(* A call is made for what its caller depends on, and so is what it still    *)
(* has to look at; only an active call returns false.                        *)
CallsInv ==
  /\ \A s \in Symbols : caller[s] # Nobody => s \in DependsOn(caller[s])
  /\ \A s \in Symbols : waiting[s] \subseteq DependsOn(s)
  /\ reverting => current # Nobody

(* The loop over tryToErase has a result for what it is through with. *)
VisitedInv == \A s \in tryToErase \ todo : safety[s] # "none"

IInv == TypeOK /\ CallsInv /\ VisitedInv

-----------------------------------------------------------------------------
LEMMA DependsOnType ==
  ASSUME NEW s \in Symbols
  PROVE  DependsOn(s) \subseteq Symbols
BY SymbolsAssumption DEF DependsOn, Users

LEMMA SameDependencies ==
  ASSUME uses' = uses, NEW s
  PROVE  DependsOn(s)' = DependsOn(s)
BY DEF DependsOn, Users

LEMMA InitInv == Init => IInv
<1> SUFFICES ASSUME Init PROVE IInv
  OBVIOUS
<1>1. TypeOK
  BY UsesAssumption, TargetsAssumption DEF Init, TypeOK
<1>2. CallsInv
  BY DEF Init, CallsInv
<1>3. VisitedInv
  BY DEF Init, VisitedInv
<1> QED
  BY <1>1, <1>2, <1>3 DEF IInv

(* A call for symbol s, made for c, that is entered. *)
LEMMA EnterInv ==
  ASSUME IInv, NEW s \in Symbols, NEW c \in Symbols \cup {Nobody},
         c # Nobody => s \in DependsOn(c),
         Enter(s, c), ~ reverting,
         NEW rest \in [Symbols -> SUBSET Symbols],
         \A t \in Symbols : rest[t] \subseteq waiting[t],
         waiting' = [rest EXCEPT ![s] = DependsOn(s)],
         todo' \subseteq todo, todo \ todo' \subseteq {s},
         UNCHANGED <<pc, uses, tryToErase, reverting, left>>
  PROVE  IInv'
<1>1. /\ safety' = [safety EXCEPT ![s] = "safe"]
      /\ current' = s /\ caller' = [caller EXCEPT ![s] = c]
  BY DEF Enter
<1>2. TypeOK'
  BY <1>1, DependsOnType DEF IInv, TypeOK
<1>3. CallsInv'
  <2>1. \A t \in Symbols : caller'[t] # Nobody => t \in DependsOn(caller'[t])
    BY <1>1 DEF IInv, CallsInv, TypeOK
  <2>2. \A t \in Symbols : waiting'[t] \subseteq DependsOn(t)
    BY DEF IInv, CallsInv
  <2> QED
    BY <1>1, <2>1, <2>2, SameDependencies DEF CallsInv
<1>4. VisitedInv'
  BY <1>1 DEF IInv, VisitedInv, TypeOK
<1> QED
  BY <1>2, <1>3, <1>4 DEF IInv

LEMMA NextCandidateInv ==
  ASSUME IInv, NEW s \in Symbols, NextCandidate(s)
  PROVE  IInv'
<1>1. /\ current = Nobody /\ s \in todo /\ todo' = todo \ {s}
      /\ UNCHANGED <<pc, uses, tryToErase, reverting, left>>
  BY DEF NextCandidate
<1>2. ~ reverting
  BY <1>1 DEF IInv, CallsInv
<1>3. CASE safety[s] = "none"
  <2>1. Enter(s, Nobody) /\ waiting' = [waiting EXCEPT ![s] = DependsOn(s)]
    BY <1>3 DEF NextCandidate
  <2>2. waiting \in [Symbols -> SUBSET Symbols]
    BY DEF IInv, TypeOK
  <2> QED
    BY <1>1, <1>2, <2>1, <2>2, EnterInv
<1>4. CASE safety[s] # "none"
  <2>1. UNCHANGED <<safety, current, caller, waiting>>
    BY <1>4 DEF NextCandidate
  <2>2. TypeOK'
    BY <1>1, <2>1 DEF IInv, TypeOK
  <2>3. CallsInv'
    BY <1>1, <2>1, SameDependencies DEF IInv, CallsInv
  <2>4. VisitedInv'
    BY <1>1, <1>4, <2>1 DEF IInv, VisitedInv
  <2> QED
    BY <2>2, <2>3, <2>4 DEF IInv
<1> QED
  BY <1>3, <1>4

LEMMA DescendInv ==
  ASSUME IInv, NEW d \in Symbols, Descend(d)
  PROVE  IInv'
<1> DEFINE rest == [waiting EXCEPT ![current] = @ \ {d}]
<1>1. /\ current # Nobody /\ ~ reverting /\ d \in waiting[current] /\ Enter(d, current)
      /\ waiting' = [waiting EXCEPT ![current] = @ \ {d}, ![d] = DependsOn(d)]
      /\ UNCHANGED <<pc, uses, tryToErase, todo, reverting, left>>
  BY DEF Descend, LookedAtNext
<1>2. waiting \in [Symbols -> SUBSET Symbols] /\ current \in Symbols
  BY <1>1 DEF IInv, TypeOK
<1>3. rest \in [Symbols -> SUBSET Symbols] /\ \A t \in Symbols : rest[t] \subseteq waiting[t]
  BY <1>2
<1>4. waiting' = [rest EXCEPT ![d] = DependsOn(d)]
  BY <1>1
<1>5. d \in DependsOn(current)
  BY <1>1, <1>2 DEF IInv, CallsInv
<1> HIDE DEF rest
<1> QED
  BY <1>1, <1>2, <1>3, <1>4, <1>5, EnterInv

(* The other steps only mark symbols as unsafe and look at less. *)
LEMMA NextInv == IInv /\ [Next]_vars => IInv'
<1> SUFFICES ASSUME IInv, [Next]_vars PROVE IInv'
  OBVIOUS
<1>1. CASE \E s \in Symbols : NextCandidate(s)
  BY <1>1, NextCandidateInv
<1>2. CASE \E d \in Symbols : Descend(d)
  BY <1>2, DescendInv
<1>3. CASE \E d \in Symbols : FoundSafe(d)
  <2>1. PICK d \in Symbols : FoundSafe(d)
    BY <1>3
  <2>2. /\ current # Nobody /\ ~ reverting
        /\ waiting' = [waiting EXCEPT ![current] = @ \ {d}]
        /\ UNCHANGED <<pc, uses, tryToErase, todo, safety, current, caller, reverting, left>>
    BY <2>1 DEF FoundSafe, LookedAtNext
  <2>3. TypeOK'
    BY <2>2 DEF IInv, TypeOK
  <2>4. CallsInv'
    BY <2>2, SameDependencies DEF IInv, CallsInv, TypeOK
  <2> QED
    BY <2>2, <2>3, <2>4 DEF IInv, VisitedInv
<1>4. CASE \E d \in Symbols : FoundUnsafe(d)
  <2>1. PICK d \in Symbols : FoundUnsafe(d)
    BY <1>4
  <2>2. /\ current # Nobody /\ safety' = [safety EXCEPT ![d] = "unsafe"] /\ reverting' = TRUE
        /\ UNCHANGED <<pc, uses, tryToErase, todo, current, caller, waiting, left>>
    BY <2>1 DEF FoundUnsafe, LookedAtNext
  <2>3. TypeOK'
    BY <2>2 DEF IInv, TypeOK
  <2>4. CallsInv'
    BY <2>2, SameDependencies DEF IInv, CallsInv
  <2>5. VisitedInv'
    BY <2>2 DEF IInv, VisitedInv, TypeOK
  <2> QED
    BY <2>3, <2>4, <2>5 DEF IInv
<1>5. CASE ReturnSafe
  <2>1. /\ ~ reverting /\ current # Nobody /\ current' = caller[current]
        /\ UNCHANGED <<pc, uses, tryToErase, todo, safety, caller, waiting, reverting, left>>
    BY <1>5 DEF ReturnSafe
  <2>2. TypeOK'
    BY <2>1 DEF IInv, TypeOK
  <2>3. CallsInv'
    BY <2>1, SameDependencies DEF IInv, CallsInv
  <2> QED
    BY <2>1, <2>2, <2>3 DEF IInv, VisitedInv
<1>6. CASE ReturnUnsafe
  <2>1. /\ current # Nobody /\ safety' = [safety EXCEPT ![current] = "unsafe"]
        /\ waiting' = [waiting EXCEPT ![current] = {}]
        /\ current' = caller[current] /\ reverting' = (caller[current] # Nobody)
        /\ UNCHANGED <<pc, uses, tryToErase, todo, caller, left>>
    BY <1>6 DEF ReturnUnsafe, Reverted
  <2>2. TypeOK'
    BY <2>1 DEF IInv, TypeOK
  <2>3. CallsInv'
    BY <2>1, SameDependencies DEF IInv, CallsInv, TypeOK
  <2>4. VisitedInv'
    BY <2>1 DEF IInv, VisitedInv, TypeOK
  <2> QED
    BY <2>2, <2>3, <2>4 DEF IInv
<1>7. CASE EraseUnusedDefinitions \/ UNCHANGED vars
  <2>1. /\ left' \subseteq left /\ pc' \in {pc, "done"}
        /\ UNCHANGED <<uses, tryToErase, todo, safety, current, caller, waiting, reverting>>
    BY <1>7 DEF EraseUnusedDefinitions, vars
  <2>2. TypeOK'
    BY <2>1 DEF IInv, TypeOK
  <2>3. CallsInv'
    BY <2>1, SameDependencies DEF IInv, CallsInv
  <2> QED
    BY <2>1, <2>2, <2>3 DEF IInv, VisitedInv
<1> QED
  BY <1>1, <1>2, <1>3, <1>4, <1>5, <1>6, <1>7 DEF Next

THEOREM Invariance == Spec => []IInv
BY InitInv, NextInv, PTL DEF Spec

(* The map, the sets and the call stack keep their types. *)
THEOREM TypeCorrect == Spec => []TypeOK
BY Invariance, PTL DEF IInv

-----------------------------------------------------------------------------
(* Every set that holds the definitions that stay and whatever they need     *)
(* holds what was found unsafe.                                              *)
Needed(c) == {s \in Symbols : Stays(s)} \subseteq c /\ ClosedUnderNeed(c)

NeededInv ==
  \A c \in SUBSET Symbols :
    Needed(c) =>
      /\ \A s \in Symbols : safety[s] = "unsafe" => s \in c
      /\ reverting => current \in c

LEMMA SameNeed ==
  ASSUME uses' = uses, tryToErase' = tryToErase, NEW c
  PROVE  Needed(c)' <=> Needed(c)
BY SameDependencies DEF Needed, ClosedUnderNeed, Stays

LEMMA NeededStep == IInv /\ NeededInv /\ [Next]_vars => NeededInv'
<1> SUFFICES ASSUME IInv, NeededInv, [Next]_vars, NEW c \in SUBSET Symbols, Needed(c)'
             PROVE  /\ \A s \in Symbols : safety'[s] = "unsafe" => s \in c
                    /\ reverting' => current' \in c
  BY DEF NeededInv
<1>1. uses' = uses /\ tryToErase' = tryToErase
  BY DEF Next, NextCandidate, FoundSafe, FoundUnsafe, Descend, ReturnSafe, ReturnUnsafe,
         EraseUnusedDefinitions, vars
<1>2. Needed(c)
  BY <1>1, SameNeed
<1>3. /\ \A s \in Symbols : safety[s] = "unsafe" => s \in c
      /\ reverting => current \in c
  BY <1>2 DEF NeededInv
<1>4. CASE \E s \in Symbols : NextCandidate(s) \/ Descend(s)
  <2>1. /\ safety' = safety \/ \E s \in Symbols : safety' = [safety EXCEPT ![s] = "safe"]
        /\ ~ reverting /\ reverting' = reverting
    BY <1>4 DEF NextCandidate, Descend, LookedAtNext, Enter, IInv, CallsInv
  <2> QED
    BY <1>3, <2>1 DEF IInv, TypeOK
<1>5. CASE \E d \in Symbols : FoundUnsafe(d)
  <2>1. PICK d \in Symbols : FoundUnsafe(d)
    BY <1>5
  <2>2. /\ safety[d] = "unsafe" \/ Stays(d)
        /\ safety' = [safety EXCEPT ![d] = "unsafe"] /\ current' = current
        /\ current \in Symbols /\ d \in waiting[current]
    BY <2>1 DEF FoundUnsafe, LookedAtNext, IInv, TypeOK
  <2>3. d \in c
    BY <1>2, <1>3, <2>2 DEF Needed
  <2>4. current \in c
    BY <1>2, <2>2, <2>3 DEF IInv, CallsInv, Needed, ClosedUnderNeed
  <2> QED
    BY <1>3, <2>2, <2>3, <2>4 DEF IInv, TypeOK
<1>6. CASE ReturnUnsafe
  <2>1. /\ reverting /\ current \in Symbols /\ current' = caller[current]
        /\ safety' = [safety EXCEPT ![current] = "unsafe"]
        /\ reverting' = (caller[current] # Nobody)
    BY <1>6 DEF ReturnUnsafe, Reverted, IInv, TypeOK
  <2>2. current \in c
    BY <1>3, <2>1
  <2>3. ASSUME caller[current] # Nobody PROVE caller[current] \in c
    <3>1. current \in DependsOn(caller[current]) /\ caller[current] \in Symbols
      BY <2>1, <2>3 DEF IInv, CallsInv, TypeOK
    <3> QED
      BY <1>2, <2>2, <3>1 DEF Needed, ClosedUnderNeed
  <2> QED
    BY <1>3, <2>1, <2>2, <2>3 DEF IInv, TypeOK
<1>7. CASE (\E d \in Symbols : FoundSafe(d)) \/ ReturnSafe \/ EraseUnusedDefinitions \/ UNCHANGED vars
  <2>1. safety' = safety /\ reverting' = reverting /\ (reverting => current' = current)
    BY <1>7 DEF FoundSafe, LookedAtNext, ReturnSafe, EraseUnusedDefinitions, vars
  <2> QED
    BY <1>3, <2>1
<1> QED
  BY <1>4, <1>5, <1>6, <1>7 DEF Next

(* Whatever the order in which the candidates and the users are looked at: a *)
(* candidate that is left is needed, directly or not, by a definition that   *)
(* is not to be erased.  Candidates that only need each other are erased.    *)
THEOREM LeftIsNeeded == Spec => []UnsafeIsNeeded
<1>1. Init => NeededInv /\ UnsafeIsNeeded
  BY DEF Init, NeededInv, UnsafeIsNeeded
<1>2. IInv /\ NeededInv /\ UnsafeIsNeeded /\ [Next]_vars => UnsafeIsNeeded'
  <2> SUFFICES ASSUME IInv, NeededInv, UnsafeIsNeeded, [Next]_vars, pc' = "done",
                      NEW c \in SUBSET Symbols, Needed(c)', NEW s \in tryToErase', s \in left'
               PROVE  s \in c
    BY DEF UnsafeIsNeeded, Needed
  <2>1. uses' = uses /\ tryToErase' = tryToErase
    BY DEF Next, NextCandidate, FoundSafe, FoundUnsafe, Descend, ReturnSafe, ReturnUnsafe,
           EraseUnusedDefinitions, vars
  <2>2. Needed(c) /\ s \in tryToErase /\ s \in Symbols
    BY <2>1, SameNeed DEF IInv, TypeOK
  <2>3. CASE EraseUnusedDefinitions
    <3>1. todo = {} /\ left' = left \ UNION {Subtree(d) : d \in SafeToErase}
      BY <2>3 DEF EraseUnusedDefinitions
    <3>2. s \notin SafeToErase
      BY <3>1 DEF Subtree
    <3>3. safety[s] = "unsafe"
      BY <2>2, <3>1, <3>2 DEF SafeToErase, IInv, VisitedInv, TypeOK
    <3> QED
      BY <2>2, <3>3 DEF NeededInv
  <2>4. CASE UNCHANGED vars
    BY <2>2, <2>4 DEF vars, UnsafeIsNeeded, Needed
  <2>5. CASE Next /\ ~ EraseUnusedDefinitions
    BY <2>5 DEF Next, NextCandidate, FoundSafe, FoundUnsafe, Descend, LookedAtNext,
                ReturnSafe, ReturnUnsafe
  <2> QED
    BY <2>3, <2>4, <2>5
<1> QED
  BY <1>1, <1>2, Invariance, NeededStep, PTL DEF Spec
-----------------------------------------------------------------------------
(* The unit is as it was until the end. *)
UnitInv ==
  /\ uses \in UseRelations
  /\ tryToErase \cap Included = {}
  /\ pc = "collect" => left = Symbols \ Included

(* A symbol is checked for another that is being checked, or for itself if  *)
(* it is to be erased; no definition that stays is checked, or safe.        *)
CallersInv ==
  /\ \A s \in Symbols : safety[s] = "none" => caller[s] = Nobody
  /\ \A s \in Symbols : safety[s] = "safe" => ~ Stays(s)
  /\ \A s \in Symbols : safety[s] # "none" /\ ~ Stays(s) /\ caller[s] = Nobody => s \in tryToErase
  /\ \A s \in {current} \cup {caller[t] : t \in Symbols} :
       s # Nobody => safety[s] # "none" /\ ~ Stays(s)

(* What an unsafe symbol makes unsafe includes the one the loop started with. *)
GivenUpInv ==
  (\E s \in Symbols : safety[s] = "unsafe") =>
    reverting \/ \E t \in tryToErase : safety[t] = "unsafe"

(* What need not be looked at any more has a result. *)
LookedAtInv ==
  \A s \in Symbols : safety[s] = "safe" => \A d \in DependsOn(s) \ waiting[s] : safety[d] # "none"

(* Something is still to be looked at only for the symbol being checked and *)
(* those it is checked for: these are in every set of this kind.            *)
OnStack(c) ==
  /\ current # Nobody => current \in c
  /\ \A s \in c : caller[s] # Nobody => caller[s] \in c

StackInv ==
  \A c \in SUBSET Symbols : OnStack(c) => \A s \in Symbols : waiting[s] # {} => s \in c

SafeInv == UnitInv /\ CallersInv /\ GivenUpInv /\ LookedAtInv /\ StackInv

LEMMA InitSafeInv == Init => SafeInv
<1> SUFFICES ASSUME Init PROVE SafeInv
  OBVIOUS
<1>1. UnitInv
  BY DEF Init, UnitInv
<1>2. CallersInv
  BY DEF Init, CallersInv
<1>3. GivenUpInv /\ LookedAtInv /\ StackInv
  BY DEF Init, GivenUpInv, LookedAtInv, StackInv
<1> QED
  BY <1>1, <1>2, <1>3 DEF SafeInv

LEMMA UnitStep == IInv /\ UnitInv /\ [Next]_vars => UnitInv'
BY DEF UnitInv, Next, NextCandidate, FoundSafe, FoundUnsafe, Descend, LookedAtNext, ReturnSafe,
       ReturnUnsafe, EraseUnusedDefinitions, vars

LEMMA SameStays ==
  ASSUME tryToErase' = tryToErase, NEW s
  PROVE  Stays(s)' <=> Stays(s)
BY DEF Stays

(* What both ways to enter a symbol, and all the other steps, come down to. *)
Entered(s, c) ==
  /\ s \in Symbols /\ safety[s] = "none" /\ ~ Stays(s) /\ ~ reverting
  /\ c = current /\ (c = Nobody => s \in tryToErase)
  /\ safety' = [safety EXCEPT ![s] = "safe"] /\ current' = s
  /\ caller' = [caller EXCEPT ![s] = c] /\ waiting'[s] = DependsOn(s)
  /\ \A t \in Symbols \ {s} : waiting'[t] \in {waiting[t], waiting[t] \ {s}}
  /\ \A t \in Symbols \ {s, c} : waiting'[t] = waiting[t]

LEMMA EnteredStep ==
  ASSUME IInv, NEW s \in Symbols,
         (NextCandidate(s) /\ safety[s] = "none") \/ Descend(s)
  PROVE  /\ \E c \in Symbols \cup {Nobody} : Entered(s, c)
         /\ UNCHANGED <<uses, tryToErase, reverting>>
<1>1. CASE NextCandidate(s) /\ safety[s] = "none"
  <2>1. /\ current = Nobody /\ s \in todo /\ Enter(s, Nobody)
        /\ waiting' = [waiting EXCEPT ![s] = DependsOn(s)]
        /\ UNCHANGED <<uses, tryToErase, reverting>>
    BY <1>1 DEF NextCandidate
  <2>2. s \in tryToErase /\ ~ Stays(s) /\ ~ reverting
    BY <2>1 DEF IInv, TypeOK, CallsInv, Stays
  <2> QED
    BY <1>1, <2>1, <2>2 DEF Entered, Enter, IInv, TypeOK
<1>2. CASE Descend(s)
  <2>1. /\ current \in Symbols /\ current # Nobody /\ ~ reverting /\ safety[s] = "none" /\ ~ Stays(s)
        /\ Enter(s, current)
        /\ waiting' = [waiting EXCEPT ![current] = @ \ {s}, ![s] = DependsOn(s)]
        /\ UNCHANGED <<uses, tryToErase, reverting>>
    BY <1>2 DEF Descend, LookedAtNext, IInv, TypeOK
  <2> QED
    BY <2>1 DEF Entered, Enter, IInv, TypeOK
<1> QED
  BY <1>1, <1>2

LEMMA CallersStep == IInv /\ CallersInv /\ [Next]_vars => CallersInv'
<1> SUFFICES ASSUME IInv, CallersInv, [Next]_vars PROVE CallersInv'
  OBVIOUS
<1>1. ASSUME NEW s \in Symbols, (NextCandidate(s) /\ safety[s] = "none") \/ Descend(s)
      PROVE  CallersInv'
  <2>1. PICK c \in Symbols \cup {Nobody} : Entered(s, c)
    BY <1>1, EnteredStep
  <2>2. tryToErase' = tryToErase
    BY <1>1, EnteredStep
  <2>3. \A t \in Symbols : safety'[t] = IF t = s THEN "safe" ELSE safety[t]
    BY <2>1 DEF Entered, IInv, TypeOK
  <2>4. \A t \in Symbols : caller'[t] = IF t = s THEN c ELSE caller[t]
    BY <2>1 DEF Entered, IInv, TypeOK
  <2>5. /\ \A t \in Symbols : safety'[t] = "none" => caller'[t] = Nobody
        /\ \A t \in Symbols : safety'[t] = "safe" => ~ Stays(t)
        /\ \A t \in Symbols : safety'[t] # "none" /\ ~ Stays(t) /\ caller'[t] = Nobody => t \in tryToErase
    BY <2>1, <2>3, <2>4 DEF Entered, CallersInv
  <2>6. ASSUME NEW t \in {current'} \cup {caller'[u] : u \in Symbols}, t # Nobody
        PROVE  safety'[t] # "none" /\ ~ Stays(t)
    <3>1. t = s \/ t \in {current} \cup {caller[u] : u \in Symbols}
      BY <2>1, <2>4, <2>6 DEF Entered
    <3>2. t \in Symbols
      BY <2>6, <3>1 DEF IInv, TypeOK
    <3> QED
      BY <2>1, <2>3, <2>6, <3>1, <3>2 DEF Entered, CallersInv
  <2> QED
    BY <2>2, <2>5, <2>6, SameStays DEF CallersInv
<1>2. ASSUME \/ \E s \in Symbols : (NextCandidate(s) /\ safety[s] # "none") \/ FoundSafe(s)
             \/ ReturnSafe \/ EraseUnusedDefinitions \/ UNCHANGED vars
      PROVE  CallersInv'
  <2>1. /\ UNCHANGED <<safety, caller, tryToErase>>
        /\ current' \in {current} \cup {caller[u] : u \in Symbols}
    BY <1>2 DEF NextCandidate, FoundSafe, LookedAtNext, ReturnSafe, EraseUnusedDefinitions, vars, IInv, TypeOK
  <2> QED
    BY <2>1, SameStays DEF CallersInv
<1>3. ASSUME NEW d \in Symbols, FoundUnsafe(d) PROVE CallersInv'
  <2>1. /\ safety[d] = "unsafe" \/ (safety[d] = "none" /\ Stays(d))
        /\ safety' = [safety EXCEPT ![d] = "unsafe"]
        /\ UNCHANGED <<caller, tryToErase, current>>
    BY <1>3 DEF FoundUnsafe
  <2>2. \A t \in Symbols : safety'[t] = IF t = d THEN "unsafe" ELSE safety[t]
    BY <2>1 DEF IInv, TypeOK
  <2>3. \A t \in {current} \cup {caller[u] : u \in Symbols} : t # Nobody => t \in Symbols
    BY DEF IInv, TypeOK
  <2> QED
    BY <2>1, <2>2, <2>3, SameStays DEF CallersInv
<1>4. ASSUME ReturnUnsafe PROVE CallersInv'
  <2>1. /\ current \in Symbols /\ current # Nobody
        /\ safety' = [safety EXCEPT ![current] = "unsafe"] /\ current' = caller[current]
        /\ UNCHANGED <<caller, tryToErase>>
    BY <1>4 DEF ReturnUnsafe, Reverted, IInv, TypeOK
  <2>2. \A t \in Symbols : safety'[t] = IF t = current THEN "unsafe" ELSE safety[t]
    BY <2>1 DEF IInv, TypeOK
  <2>3. safety[current] # "none"
    BY <2>1 DEF CallersInv
  <2>4. \A t \in {current} \cup {caller[u] : u \in Symbols} : t # Nobody => t \in Symbols
    BY DEF IInv, TypeOK
  <2> QED
    BY <2>1, <2>2, <2>3, <2>4, SameStays DEF CallersInv
<1> QED
  BY <1>1, <1>2, <1>3, <1>4 DEF Next

LEMMA GivenUpStep == IInv /\ CallersInv /\ GivenUpInv /\ [Next]_vars => GivenUpInv'
<1> SUFFICES ASSUME IInv, CallersInv, GivenUpInv, [Next]_vars PROVE GivenUpInv'
  OBVIOUS
<1>1. ASSUME NEW s \in Symbols, (NextCandidate(s) /\ safety[s] = "none") \/ Descend(s)
      PROVE  GivenUpInv'
  <2>1. PICK c \in Symbols \cup {Nobody} : Entered(s, c)
    BY <1>1, EnteredStep
  <2>2. UNCHANGED <<tryToErase, reverting>>
    BY <1>1, EnteredStep
  <2>3. \A t \in Symbols : safety'[t] = "unsafe" <=> safety[t] = "unsafe"
    BY <2>1 DEF Entered, IInv, TypeOK
  <2> QED
    BY <2>2, <2>3 DEF GivenUpInv, IInv, TypeOK
<1>2. ASSUME \/ \E s \in Symbols : (NextCandidate(s) /\ safety[s] # "none") \/ FoundSafe(s)
             \/ ReturnSafe \/ EraseUnusedDefinitions \/ UNCHANGED vars
      PROVE  GivenUpInv'
  BY <1>2 DEF NextCandidate, FoundSafe, ReturnSafe, EraseUnusedDefinitions, vars, GivenUpInv
<1>3. ASSUME NEW d \in Symbols, FoundUnsafe(d) PROVE GivenUpInv'
  BY <1>3 DEF FoundUnsafe, GivenUpInv
<1>4. ASSUME ReturnUnsafe PROVE GivenUpInv'
  <2>1. /\ current \in Symbols /\ current # Nobody
        /\ safety' = [safety EXCEPT ![current] = "unsafe"]
        /\ reverting' = (caller[current] # Nobody) /\ UNCHANGED tryToErase
    BY <1>4 DEF ReturnUnsafe, Reverted, IInv, TypeOK
  <2>2. CASE caller[current] = Nobody
    <3>1. current \in tryToErase
      BY <2>1, <2>2 DEF CallersInv
    <3>2. safety'[current] = "unsafe"
      BY <2>1 DEF IInv, TypeOK
    <3> QED
      BY <2>1, <3>1, <3>2 DEF GivenUpInv
  <2> QED
    BY <2>1, <2>2 DEF GivenUpInv
<1> QED
  BY <1>1, <1>2, <1>3, <1>4 DEF Next

LEMMA LookedAtStep == IInv /\ LookedAtInv /\ [Next]_vars => LookedAtInv'
<1> SUFFICES ASSUME IInv, LookedAtInv, [Next]_vars PROVE LookedAtInv'
  OBVIOUS
<1>1. \A t \in Symbols : DependsOn(t)' = DependsOn(t) /\ DependsOn(t) \subseteq Symbols
  <2>1. uses' = uses
    BY DEF Next, NextCandidate, FoundSafe, FoundUnsafe, Descend, ReturnSafe, ReturnUnsafe,
           EraseUnusedDefinitions, vars
  <2> QED
    BY <2>1, SameDependencies, DependsOnType
<1>2. ASSUME NEW s \in Symbols, (NextCandidate(s) /\ safety[s] = "none") \/ Descend(s)
      PROVE  LookedAtInv'
  <2>1. PICK c \in Symbols \cup {Nobody} : Entered(s, c)
    BY <1>2, EnteredStep
  <2>2. \A t \in Symbols : safety'[t] = IF t = s THEN "safe" ELSE safety[t]
    BY <2>1 DEF Entered, IInv, TypeOK
  <2>3. ASSUME NEW t \in Symbols, safety'[t] = "safe", NEW d \in DependsOn(t) \ waiting'[t]
        PROVE  safety'[d] # "none"
    BY <1>1, <2>1, <2>2, <2>3 DEF Entered, LookedAtInv
  <2> QED
    BY <1>1, <2>3 DEF LookedAtInv
<1>3. ASSUME NEW s \in Symbols, FoundSafe(s) PROVE LookedAtInv'
  <2>1. /\ safety[s] = "safe" /\ waiting' = [waiting EXCEPT ![current] = @ \ {s}] /\ safety' = safety
    BY <1>3 DEF FoundSafe
  <2>2. \A t \in Symbols : waiting'[t] \in {waiting[t], waiting[t] \ {s}}
    BY <2>1 DEF IInv, TypeOK
  <2> QED
    BY <1>1, <2>1, <2>2 DEF LookedAtInv
<1>4. ASSUME NEW d \in Symbols, FoundUnsafe(d) PROVE LookedAtInv'
  <2>1. safety' = [safety EXCEPT ![d] = "unsafe"] /\ waiting' = waiting
    BY <1>4 DEF FoundUnsafe
  <2> QED
    BY <1>1, <2>1 DEF LookedAtInv, IInv, TypeOK
<1>5. ASSUME ReturnUnsafe PROVE LookedAtInv'
  <2>1. /\ safety' = [safety EXCEPT ![current] = "unsafe"]
        /\ waiting' = [waiting EXCEPT ![current] = {}] /\ current \in Symbols
    BY <1>5 DEF ReturnUnsafe, Reverted, IInv, TypeOK
  <2>2. \A t \in Symbols : t # current => waiting'[t] = waiting[t] /\ safety'[t] = safety[t]
    BY <2>1 DEF IInv, TypeOK
  <2>3. safety'[current] = "unsafe"
    BY <2>1 DEF IInv, TypeOK
  <2> QED
    BY <1>1, <2>2, <2>3 DEF LookedAtInv
<1>6. ASSUME \/ \E s \in Symbols : NextCandidate(s) /\ safety[s] # "none"
             \/ ReturnSafe \/ EraseUnusedDefinitions \/ UNCHANGED vars
      PROVE  LookedAtInv'
  BY <1>1, <1>6 DEF NextCandidate, ReturnSafe, EraseUnusedDefinitions, vars, LookedAtInv
<1> QED
  BY <1>2, <1>3, <1>4, <1>5, <1>6 DEF Next

LEMMA StackStep == IInv /\ CallersInv /\ StackInv /\ [Next]_vars => StackInv'
<1> SUFFICES ASSUME IInv, CallersInv, StackInv, [Next]_vars,
                    NEW c \in SUBSET Symbols, OnStack(c)', NEW t \in Symbols, waiting'[t] # {}
             PROVE  t \in c
  BY DEF StackInv
<1>1. /\ current' # Nobody => current' \in c
      /\ \A s \in c : caller'[s] # Nobody => caller'[s] \in c
  BY DEF OnStack
<1>2. ASSUME NEW s \in Symbols, (NextCandidate(s) /\ safety[s] = "none") \/ Descend(s)
      PROVE  t \in c
  <2>1. PICK d \in Symbols \cup {Nobody} : Entered(s, d)
    BY <1>2, EnteredStep
  <2>2. \A u \in Symbols : caller'[u] = IF u = s THEN d ELSE caller[u]
    BY <2>1 DEF Entered, IInv, TypeOK
  <2>3. s \in c /\ (current # Nobody => current \in c)
    BY <1>1, <2>1, <2>2, TargetsAssumption DEF Entered
  <2>4. caller[s] = Nobody
    BY <2>1 DEF Entered, CallersInv
  <2>5. OnStack(c)
    BY <1>1, <2>2, <2>3, <2>4 DEF OnStack
  <2>6. t = s \/ waiting[t] # {}
    BY <2>1 DEF Entered
  <2> QED
    BY <2>3, <2>5, <2>6 DEF StackInv
<1>3. ASSUME ReturnSafe \/ ReturnUnsafe PROVE t \in c
  <2>1. /\ current \in Symbols /\ current # Nobody /\ current' = caller[current] /\ caller' = caller
        /\ \A u \in Symbols : waiting'[u] = IF u = current THEN {} ELSE waiting[u]
    BY <1>3 DEF ReturnSafe, ReturnUnsafe, IInv, TypeOK
  <2>2. OnStack(c \cup {current})
    BY <1>1, <2>1 DEF OnStack
  <2>3. t # current /\ waiting[t] # {}
    BY <2>1
  <2> QED
    BY <2>1, <2>2, <2>3 DEF StackInv
<1>4. ASSUME \/ \E s \in Symbols : (NextCandidate(s) /\ safety[s] # "none") \/ FoundSafe(s) \/ FoundUnsafe(s)
             \/ EraseUnusedDefinitions \/ UNCHANGED vars
      PROVE  t \in c
  <2>1. UNCHANGED <<current, caller>> /\ waiting'[t] \subseteq waiting[t]
    BY <1>4 DEF NextCandidate, FoundSafe, FoundUnsafe, EraseUnusedDefinitions, vars, IInv, TypeOK
  <2>2. OnStack(c) /\ waiting[t] # {}
    BY <1>1, <2>1 DEF OnStack
  <2> QED
    BY <2>2 DEF StackInv
<1> QED
  BY <1>2, <1>3, <1>4 DEF Next

(* What the call stack, the provisional marks and the results that were      *)
(* reverted owe to each other holds before every call and return.            *)
THEOREM SafeInvariance == Spec => []SafeInv
<1>1. IInv /\ SafeInv /\ [Next]_vars => SafeInv'
  BY UnitStep, CallersStep, GivenUpStep, LookedAtStep, StackStep DEF SafeInv
<1> QED
  BY <1>1, InitSafeInv, Invariance, PTL DEF Spec

(* At the end nothing is half-way: if every target is safe, no symbol at all *)
(* was found unsafe, and what a safe symbol depends on is safe.              *)
LEMMA SafeIsClosed ==
  ASSUME IInv, SafeInv, current = Nobody, \A t \in tryToErase : safety[t] = "safe",
         NEW s \in Symbols, safety[s] = "safe", NEW d \in DependsOn(s)
  PROVE  safety[d] = "safe" /\ ~ Stays(d)
<1>1. waiting[s] = {}
  <2>1. OnStack({})
    BY DEF OnStack
  <2> QED
    BY <2>1 DEF SafeInv, StackInv
<1>2. d \in Symbols /\ safety[d] # "none"
  BY <1>1, DependsOnType DEF SafeInv, LookedAtInv
<1>3. safety[d] # "unsafe"
  BY <1>2 DEF SafeInv, GivenUpInv, IInv, CallsInv
<1> QED
  BY <1>2, <1>3 DEF IInv, TypeOK, SafeInv, CallersInv

(* Although results are recorded under marks that are reverted later: when   *)
(* every target goes, nothing that is left in a struct or in a free function *)
(* uses what is erased.                                                      *)
THEOREM NothingDangles == Spec => []NoDanglingUnlessGivenUp
<1>1. Init => NoDanglingUnlessGivenUp
  BY DEF Init, NoDanglingUnlessGivenUp
<1>2. IInv /\ SafeInv /\ NoDanglingUnlessGivenUp /\ [Next]_vars => NoDanglingUnlessGivenUp'
  <2> SUFFICES ASSUME IInv, SafeInv, NoDanglingUnlessGivenUp, [Next]_vars,
                      pc' = "done", (tryToErase \cap left)' = {},
                      NEW s \in left', IsErasableDefinition(s) \/ Kind[s] = "nested",
                      NEW n \in uses'[s] \ Included, n \notin left'
               PROVE  FALSE
    BY DEF NoDanglingUnlessGivenUp
  <2>1. CASE EraseUnusedDefinitions
    <3>1. /\ current = Nobody /\ todo = {} /\ UNCHANGED <<uses, tryToErase, safety>>
          /\ left' = (Symbols \ Included) \ UNION {Subtree(t) : t \in SafeToErase}
      BY <2>1 DEF EraseUnusedDefinitions, SafeInv, UnitInv
    <3>2. /\ uses \in UseRelations /\ uses \in [Symbols -> SUBSET Symbols]
          /\ tryToErase \subseteq {e \in Symbols : IsErasableDefinition(e)}
          /\ tryToErase \cap Included = {}
      BY DEF IInv, TypeOK, SafeInv, UnitInv
    <3>3. s \in Symbols \ Included /\ n \in Symbols \ Included /\ n \in uses[s]
      BY <3>1, <3>2
    <3>4. \A t \in tryToErase : t \in SafeToErase /\ safety[t] = "safe"
      <4> SUFFICES ASSUME NEW t \in tryToErase PROVE t \in SafeToErase
        BY DEF SafeToErase
      <4>1. t \in Symbols \ Included /\ t \notin left' /\ Kind[t] # "nested"
        BY <3>1, <3>2 DEF IsErasableDefinition
      <4>2. PICK e \in SafeToErase : t \in Subtree(e)
        BY <3>1, <4>1
      <4> QED
        BY <4>1, <4>2 DEF Subtree
    <3>5. ASSUME NEW d \in Symbols, safety[d] = "safe", s \in DependsOn(d) PROVE FALSE
      <4>1. safety[s] = "safe" /\ ~ Stays(s)
        BY <3>1, <3>4, <3>5, SafeIsClosed
      <4>2. s \notin tryToErase
        BY <3>1, <3>4 DEF Subtree
      <4>3. Kind[s] = "nested" /\ Parent[s] \in Symbols \ Included /\ Kind[Parent[s]] = "struct"
        BY <3>3, <4>1, <4>2, SymbolsAssumption DEF Stays
      <4>4. Parent[s] \in DependsOn(s)
        BY <4>3, SymbolsAssumption DEF DependsOn
      <4>5. ~ Stays(Parent[s])
        BY <3>1, <3>3, <3>4, <4>1, <4>4, SafeIsClosed
      <4>6. Parent[s] \in SafeToErase
        BY <3>4, <4>3, <4>5 DEF Stays, IsErasableDefinition
      <4>7. s \in Subtree(Parent[s])
        BY <3>3, <4>3 DEF Subtree
      <4> QED
        BY <3>1, <4>6, <4>7
    <3>6. PICK t \in SafeToErase : n \in Subtree(t)
      BY <3>1, <3>3
    <3>7. t \in Symbols \ Included /\ safety[t] = "safe"
      BY <3>2, <3>6 DEF SafeToErase
    <3>8. n = t \/ (Kind[n] = "nested" /\ Parent[n] = t)
      BY <3>6 DEF Subtree
    <3>9. CASE t \in uses[s]
      BY <3>3, <3>5, <3>7, <3>9 DEF DependsOn, Users
    <3>10. CASE Kind[n] = "nested" /\ t \in uses[n]
      <4>1. n \in DependsOn(t) /\ s \in DependsOn(n)
        BY <3>3, <3>10 DEF DependsOn, Users
      <4>2. safety[n] = "safe"
        BY <3>1, <3>4, <3>7, <4>1, SafeIsClosed
      <4> QED
        BY <3>3, <3>5, <4>1, <4>2
    <3> QED
      BY <3>2, <3>3, <3>8, <3>9, <3>10, UsesAssumption
  <2>2. CASE UNCHANGED vars
    BY <2>2 DEF vars, NoDanglingUnlessGivenUp
  <2>3. CASE Next /\ ~ EraseUnusedDefinitions
    BY <2>3 DEF Next, NextCandidate, FoundSafe, FoundUnsafe, Descend, LookedAtNext,
                ReturnSafe, ReturnUnsafe
  <2> QED
    BY <2>1, <2>2, <2>3
<1> QED
  BY <1>1, <1>2, Invariance, SafeInvariance, PTL DEF Spec
=============================================================================
