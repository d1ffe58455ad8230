---------------- MODULE UnusedDeclarationElimination_proofs ----------------
(***************************************************************************)
(* Proofs about -llzk-unused-declaration-elim, for every compilation unit: *)
(* any number of structs and operations, any uses between them.            *)
(***************************************************************************)
EXTENDS UnusedDeclarationElimination, TLAPS

(* Before the worklist nothing but operations is erased. *)
Untouched ==
  pc \in {"reads", "writes", "erase members", "collect uses", "failed"} =>
    structs = Structs /\ modules = Modules

(* While the worklist runs, the two maps say exactly who uses whom among the *)
(* structs that are left.                                                    *)
MapsExact ==
  pc \in {"worklist", "empty modules"} =>
    \A s \in structs :
      /\ uses[s] = UsesOf(s)
      /\ usedBy[s] = {u \in structs : s \in UsesOf(u)}

(* An operation goes with the struct it is in, and its types stay. *)
UsesClosed ==
  \A o \in ops :
    ir.parent[o] # None =>
      ir.parent[o] \in structs /\ ir.mentions[o] \subseteq structs

(* A struct keeps the modules around it. *)
PathsClosed == \A s \in structs : Within[s] \subseteq modules

IInv ==
  /\ TypeOK
  /\ Untouched
  /\ MapsExact
  /\ WorklistSound
  /\ UsesClosed
  /\ PathsClosed

-----------------------------------------------------------------------------
(* What UsesOf returns is a set of structs. *)
LEMMA UsesOfType ==
  ASSUME TypeOK, NEW s \in Structs
  PROVE  UsesOf(s) \in SUBSET Structs
BY DEF TypeOK, IRType, UsesOf

(* The worklist after a refill: a struct is in it once if it has no user. *)
LEMMA WithUnusedType ==
  ASSUME NEW live, NEW by
  PROVE  WithUnused(EmptyVector, live, by) \in [Structs -> Nat]
BY DEF WithUnused, EmptyVector

LEMMA WithUnusedIs ==
  ASSUME NEW live, NEW by, NEW s \in Structs
  PROVE  /\ WithUnused(EmptyVector, live, by)[s] \in {0, 1}
         /\ WithUnused(EmptyVector, live, by)[s] > 0
              => s \in live /\ by[s] = {} /\ s # ir.main
BY DEF WithUnused, EmptyVector

LEMMA InitInv == Init => IInv
<1> SUFFICES ASSUME Init PROVE IInv
  OBVIOUS
<1>1. TypeOK
  BY StructsAssumption DEF Init, TypeOK, EmptyVector
<1>2. UsesClosed
  BY <1>1 DEF Init, TypeOK, IRType, UsesClosed
<1>3. PathsClosed
  BY NestingAssumption DEF Init, PathsClosed
<1> QED
  BY <1>1, <1>2, <1>3 DEF Init, IInv, Untouched, MapsExact, WorklistSound, EmptyVector

(* Erasing struct s from the worklist. *)
LEMMA EraseStructInv ==
  ASSUME IInv, NEW s \in Structs, EraseStruct(s)
  PROVE  IInv'
<1> DEFINE live == structs \ {s}
           by   == [t \in Structs |-> IF t \in uses[s] THEN usedBy[t] \ {s} ELSE usedBy[t]]
           rest == Popped(unused, s)
<1>1. /\ pc = "worklist" /\ pc' = pc /\ ir' = ir /\ modules' = modules
      /\ members' = members
      /\ structs' = live /\ usedBy' = by /\ uses' = [uses EXCEPT ![s] = {}]
      /\ unused' = Refilled(rest, live, by)
      /\ ops' = {o \in ops : ir.parent[o] # s}
      /\ unused[s] > 0
  BY DEF EraseStruct
<1>2. s \in structs /\ usedBy[s] = {} /\ s # ir.main /\ unused[s] = 1
  BY <1>1 DEF IInv, WorklistSound
<1>3. rest \in [Structs -> Nat]
      /\ \A t \in Structs : rest[t] > 0 => t # s /\ unused[t] > 0 /\ rest[t] = unused[t]
  <2>1. unused \in [Structs -> Nat]
    BY DEF IInv, TypeOK
  <2>2. rest = [unused EXCEPT ![s] = 0]
    BY <1>2, <2>1 DEF Popped
  <2> HIDE DEF rest
  <2> QED
    BY <2>1, <2>2
<1>4. TypeOK'
  <2>1. by \in [Structs -> SUBSET Structs]
    BY DEF IInv, TypeOK
  <2>2. unused' \in [Structs -> Nat]
    <3>1. CASE rest = EmptyVector
      BY <1>1, <3>1, WithUnusedType DEF Refilled
    <3>2. CASE rest # EmptyVector
      BY <1>1, <1>3, <3>2 DEF Refilled
    <3> QED
      BY <3>1, <3>2
  <2> QED
    BY <1>1, <2>1, <2>2 DEF IInv, TypeOK
<1>5. \A t \in live : UsesOf(t)' = UsesOf(t)
  BY <1>1 DEF UsesOf
<1>6. MapsExact'
  <2> SUFFICES ASSUME NEW t \in live
               PROVE  /\ uses'[t] = UsesOf(t)
                      /\ usedBy'[t] = {u \in live : t \in UsesOf(u)}
    BY <1>1, <1>5 DEF MapsExact
  <2>1. t \in Structs /\ t \in structs /\ t # s
    BY DEF IInv, TypeOK
  <2>2. uses[s] = UsesOf(s) /\ uses[t] = UsesOf(t)
        /\ usedBy[t] = {u \in structs : t \in UsesOf(u)}
    BY <1>1, <1>2, <2>1 DEF IInv, MapsExact
  <2>3. usedBy'[t] = IF t \in uses[s] THEN usedBy[t] \ {s} ELSE usedBy[t]
    BY <1>1, <2>1
  <2> QED
    BY <1>1, <2>1, <2>2, <2>3 DEF IInv, TypeOK
<1>7. \A t \in live : usedBy[t] = {} => by[t] = {}
  BY DEF IInv, TypeOK
<1>8. WorklistSound'
  <2> SUFFICES ASSUME NEW t \in Structs, unused'[t] > 0
               PROVE  unused'[t] = 1 /\ t \in live /\ by[t] = {} /\ t # ir.main
    BY <1>1 DEF WorklistSound
  <2>1. CASE rest = EmptyVector
    <3>1. unused' = WithUnused(EmptyVector, live, by)
      BY <1>1, <2>1 DEF Refilled
    <3> HIDE DEF live, by
    <3>2. unused'[t] \in {0, 1} /\ (unused'[t] > 0 => t \in live /\ by[t] = {} /\ t # ir.main)
      BY <3>1, WithUnusedIs
    <3> QED
      BY <3>2
  <2>2. CASE rest # EmptyVector
    <3>1. unused' = rest
      BY <1>1, <2>2 DEF Refilled
    <3>2. t # s /\ unused[t] > 0 /\ rest[t] = unused[t]
      BY <1>3, <3>1
    <3>3. unused[t] = 1 /\ t \in structs /\ usedBy[t] = {} /\ t # ir.main
      BY <3>2 DEF IInv, WorklistSound
    <3> QED
      BY <1>7, <3>1, <3>2, <3>3
  <2> QED
    BY <2>1, <2>2
<1>9. UsesClosed'
  <2> SUFFICES ASSUME NEW o \in ops', ir.parent[o] # None
               PROVE  ir.parent[o] \in live /\ ir.mentions[o] \subseteq live
    BY <1>1 DEF UsesClosed
  <2>1. o \in ops /\ ir.parent[o] # s
    BY <1>1
  <2>2. ir.parent[o] \in structs /\ ir.mentions[o] \subseteq structs
    BY <2>1 DEF IInv, UsesClosed
  <2>3. ASSUME s \in ir.mentions[o] PROVE FALSE
    <3>1. s \in UsesOf(ir.parent[o])
      BY <2>1, <2>2, <2>3 DEF UsesOf
    <3>2. ir.parent[o] \in usedBy[s]
      BY <1>1, <1>2, <2>2, <3>1 DEF IInv, MapsExact
    <3> QED
      BY <1>2, <3>2
  <2> QED
    BY <2>1, <2>2, <2>3
<1>10. PathsClosed'
  BY <1>1 DEF IInv, PathsClosed
<1>11. Untouched'
  BY <1>1 DEF Untouched
<1> QED
  BY <1>4, <1>6, <1>8, <1>9, <1>10, <1>11 DEF IInv

(* The operations of one struct only get fewer, and their types stay. *)
LEMMA FewerOpsFewerUses ==
  ASSUME IInv, ir' = ir, ops' \subseteq ops, NEW s \in Structs
  PROVE  UsesOf(s)' \subseteq UsesOf(s)
BY DEF UsesOf

(* The phases before the worklist. *)
LEMMA MemberPhaseInv ==
  ASSUME IInv, WalkReads \/ WalkWrites \/ EraseMembers
  PROVE  IInv'
<1>1. /\ ir' = ir /\ structs' = structs /\ modules' = modules
      /\ uses' = uses /\ usedBy' = usedBy /\ unused' = unused
      /\ ops' \subseteq ops /\ members' \subseteq Ops
      /\ pc \in {"reads", "writes", "erase members"}
      /\ pc' \in {"writes", "erase members", "collect uses", "done", "failed"}
  BY DEF WalkReads, WalkWrites, EraseMembers, Candidates, OpsOfKind, IInv, TypeOK
<1>2. TypeOK'
  BY <1>1 DEF IInv, TypeOK
<1>3. UsesClosed'
  BY <1>1 DEF IInv, UsesClosed
<1> QED
  BY <1>1, <1>2, <1>3 DEF IInv, Untouched, MapsExact, WorklistSound, PathsClosed

LEMMA CollectUsesInv ==
  ASSUME IInv, CollectUses
  PROVE  IInv'
<1>1. /\ pc = "collect uses" /\ pc' = "worklist" /\ structs = Structs
      /\ ir' = ir /\ ops' = ops /\ structs' = structs /\ modules' = modules
      /\ members' = members
      /\ uses' = [s \in Structs |-> UsesOf(s)]
      /\ usedBy' = [s \in Structs |-> {u \in Structs : s \in UsesOf(u)}]
      /\ unused' = WithUnused(EmptyVector, structs, usedBy')
  BY DEF CollectUses, IInv, Untouched
<1>2. \A s \in Structs : UsesOf(s)' = UsesOf(s)
  BY <1>1 DEF UsesOf
<1>3. TypeOK'
  <2>1. uses' \in [Structs -> SUBSET Structs]
    BY <1>1, UsesOfType DEF IInv
  <2>2. usedBy' \in [Structs -> SUBSET Structs]
    BY <1>1
  <2>3. unused' \in [Structs -> Nat]
    BY <1>1, WithUnusedType
  <2> QED
    BY <1>1, <2>1, <2>2, <2>3 DEF IInv, TypeOK
<1>4. MapsExact'
  BY <1>1, <1>2 DEF MapsExact
<1>5. WorklistSound'
  <2> SUFFICES ASSUME NEW s \in Structs, unused'[s] > 0
               PROVE  unused'[s] = 1 /\ s \in structs /\ usedBy'[s] = {} /\ s # ir.main
    BY <1>1 DEF WorklistSound
  <2>1. unused'[s] \in {0, 1} /\ (unused'[s] > 0 => s \in structs /\ usedBy'[s] = {} /\ s # ir.main)
    BY <1>1, WithUnusedIs
  <2> QED
    BY <2>1
<1>6. UsesClosed' /\ PathsClosed' /\ Untouched'
  BY <1>1 DEF IInv, UsesClosed, PathsClosed, Untouched
<1> QED
  BY <1>3, <1>4, <1>5, <1>6 DEF IInv

LEMMA WorklistEmptyInv ==
  ASSUME IInv, WorklistEmpty
  PROVE  IInv'
<1>1. /\ pc = "worklist" /\ pc' = "empty modules"
      /\ UNCHANGED <<ir, ops, structs, modules, members, uses, usedBy, unused>>
  BY DEF WorklistEmpty
<1>2. \A s \in structs : UsesOf(s)' = UsesOf(s)
  BY <1>1 DEF UsesOf
<1>3. TypeOK'
  BY <1>1 DEF IInv, TypeOK
<1>4. MapsExact'
  BY <1>1, <1>2 DEF IInv, MapsExact
<1>5. WorklistSound' /\ UsesClosed' /\ PathsClosed' /\ Untouched'
  BY <1>1 DEF IInv, WorklistSound, UsesClosed, PathsClosed, Untouched
<1> QED
  BY <1>3, <1>4, <1>5 DEF IInv

(* A module around a struct that is left has a body. *)
LEMMA RemoveEmptyModulesInv ==
  ASSUME IInv, RemoveEmptyModules
  PROVE  IInv'
<1>1. /\ pc' = "done"
      /\ modules' = {m \in modules : \E d \in structs \cup modules : m \in Within[d]}
      /\ UNCHANGED <<ir, ops, structs, members, uses, usedBy, unused>>
  BY DEF RemoveEmptyModules
<1>2. PathsClosed'
  BY <1>1 DEF IInv, PathsClosed
<1> QED
  BY <1>1, <1>2 DEF IInv, TypeOK, Untouched, MapsExact, WorklistSound, UsesClosed

LEMMA NextInv == IInv /\ [Next]_vars => IInv'
<1> SUFFICES ASSUME IInv, [Next]_vars PROVE IInv'
  OBVIOUS
<1>1. CASE WalkReads \/ WalkWrites \/ EraseMembers
  BY <1>1, MemberPhaseInv
<1>2. CASE CollectUses
  BY <1>2, CollectUsesInv
<1>3. CASE \E s \in Structs : EraseStruct(s)
  BY <1>3, EraseStructInv
<1>4. CASE WorklistEmpty
  BY <1>4, WorklistEmptyInv
<1>5. CASE RemoveEmptyModules
  BY <1>5, RemoveEmptyModulesInv
<1>6. CASE UNCHANGED vars
  <2>1. \A s \in structs : UsesOf(s)' = UsesOf(s)
    BY <1>6 DEF vars, UsesOf
  <2>2. TypeOK'
    BY <1>6 DEF vars, IInv, TypeOK
  <2>3. MapsExact'
    BY <1>6, <2>1 DEF vars, IInv, MapsExact
  <2>4. WorklistSound' /\ UsesClosed' /\ PathsClosed' /\ Untouched'
    BY <1>6 DEF vars, IInv, WorklistSound, UsesClosed, PathsClosed, Untouched
  <2> QED
    BY <2>2, <2>3, <2>4 DEF IInv
<1> QED
  BY <1>1, <1>2, <1>3, <1>4, <1>5, <1>6 DEF Next

THEOREM Invariance == Spec => []IInv
BY InitInv, NextInv, PTL DEF Spec

-----------------------------------------------------------------------------
(* The data structures of the pass keep their types. *)
THEOREM TypeCorrect == Spec => []TypeOK
BY Invariance, PTL DEF IInv

(* Whatever the unit, no operation that is left in a struct has a type that *)
(* names an erased struct or goes through an erased module.                 *)
THEOREM NoDangling == Spec => []NoDanglingUse
<1>1. IInv => NoDanglingUse
  BY DEF IInv, UsesClosed, PathsClosed, NoDanglingUse
<1> QED
  BY <1>1, Invariance, PTL

(* erase() is never called twice on a struct, nor on Main. *)
THEOREM NoDoubleErase == Spec => []WorklistSound
BY Invariance, PTL DEF IInv

-----------------------------------------------------------------------------
(* The candidates are members that no operation reads and that are no output *)
(* of Main; until the walk over the writes no operation is gone.             *)
UnreadInv ==
  /\ pc \in {"reads", "writes"} => ops = Ops
  /\ pc \in {"writes", "erase members"} =>
       \A m \in members :
         /\ m \in Ops /\ ir.kind[m] = "member"
         /\ ~ \E r \in Ops : ir.kind[r] = "read" /\ ir.member[r] = m
         /\ ~ (ir.parent[m] = ir.main /\ m \in ir.public)
  /\ OnlyUnreadErased

LEMMA UnreadInit == Init => UnreadInv
BY DEF Init, UnreadInv, OnlyUnreadErased

LEMMA UnreadStep == IInv /\ UnreadInv /\ [Next]_vars => UnreadInv'
<1> SUFFICES ASSUME IInv, UnreadInv, [Next]_vars PROVE UnreadInv'
  OBVIOUS
<1>1. CASE WalkReads
  <2>1. /\ pc = "reads" /\ ops = Ops /\ ops' = ops /\ ir' = ir /\ structs' = structs
        /\ pc' \in {"failed", "writes"}
        /\ pc' = "writes" =>
             members' = Candidates \ {ir.member[r] : r \in OpsOfKind("read")}
    BY <1>1 DEF WalkReads, UnreadInv
  <2>2. ASSUME pc' = "writes", NEW m \in members'
        PROVE  /\ m \in Ops /\ ir.kind[m] = "member"
               /\ ~ \E r \in Ops : ir.kind[r] = "read" /\ ir.member[r] = m
               /\ ~ (ir.parent[m] = ir.main /\ m \in ir.public)
    BY <2>1, <2>2 DEF Candidates, OpsOfKind
  <2> QED
    BY <2>1, <2>2 DEF UnreadInv, OnlyUnreadErased
<1>2. CASE WalkWrites
  <2>1. /\ pc = "writes" /\ ops = Ops /\ ir' = ir /\ structs' = structs /\ members' = members
        /\ pc' \in {"failed", "erase members"}
        /\ ops' \subseteq ops
        /\ \A o \in ops \ ops' : ir.kind[o] = "write" /\ ir.member[o] \in members
    BY <1>2 DEF WalkWrites, UnreadInv, OpsOfKind
  <2>2. OnlyUnreadErased'
    BY <2>1 DEF UnreadInv, OnlyUnreadErased
  <2> QED
    BY <2>1, <2>2 DEF UnreadInv
<1>3. CASE EraseMembers
  <2>1. /\ pc = "erase members" /\ ir' = ir /\ structs' = structs /\ ops' = ops \ members
        /\ pc' \in {"collect uses", "done"}
    BY <1>3 DEF EraseMembers
  <2>2. OnlyUnreadErased'
    BY <2>1 DEF UnreadInv, OnlyUnreadErased
  <2> QED
    BY <2>1, <2>2 DEF UnreadInv
<1>4. CASE \E s \in Structs : EraseStruct(s)
  <2>1. PICK s \in Structs : EraseStruct(s)
    BY <1>4
  <2>2. /\ pc' = "worklist" /\ ir' = ir /\ structs' = structs \ {s}
        /\ ops' = {o \in ops : ir.parent[o] # s}
    BY <2>1 DEF EraseStruct
  <2>3. OnlyUnreadErased'
    BY <2>2, StructsAssumption DEF UnreadInv, OnlyUnreadErased
  <2> QED
    BY <2>2, <2>3 DEF UnreadInv
<1>5. CASE CollectUses \/ WorklistEmpty \/ RemoveEmptyModules
  <2>1. /\ ir' = ir /\ structs' = structs /\ ops' = ops
        /\ pc' \in {"worklist", "empty modules", "done"}
    BY <1>5 DEF CollectUses, WorklistEmpty, RemoveEmptyModules
  <2> QED
    BY <2>1 DEF UnreadInv, OnlyUnreadErased
<1>6. CASE UNCHANGED vars
  BY <1>6 DEF vars, UnreadInv, OnlyUnreadErased
<1> QED
  BY <1>1, <1>2, <1>3, <1>4, <1>5, <1>6 DEF Next

(* Also when a reference does not resolve and the pass gives up halfway, an  *)
(* operation is erased only with its struct or for a member nobody reads.    *)
THEOREM OnlyUnread == Spec => []OnlyUnreadErased
<1>1. UnreadInv => OnlyUnreadErased
  BY DEF UnreadInv
<1> QED
  BY <1>1, Invariance, UnreadInit, UnreadStep, PTL DEF Spec

-----------------------------------------------------------------------------
(* When the worklist is empty every struct that is left, but Main, is used. *)
RefilledInv ==
  pc = "worklist" /\ unused = EmptyVector =>
    \A s \in structs : s = ir.main \/ usedBy[s] # {}

LEMMA RefillComplete ==
  ASSUME NEW live, NEW by, WithUnused(EmptyVector, live, by) = EmptyVector,
         NEW s \in Structs, s \in live
  PROVE  s = ir.main \/ by[s] # {}
<1>1. WithUnused(EmptyVector, live, by)[s] = 0
  BY DEF EmptyVector
<1> QED
  BY <1>1 DEF WithUnused, EmptyVector

LEMMA RefilledStep == IInv /\ RefilledInv /\ [Next]_vars => RefilledInv'
<1> SUFFICES ASSUME IInv, RefilledInv, [Next]_vars,
                    pc' = "worklist", unused' = EmptyVector, NEW s \in structs'
             PROVE  s = ir'.main \/ usedBy'[s] # {}
  BY DEF RefilledInv, EmptyVector
<1>1. CASE CollectUses
  BY <1>1, RefillComplete DEF CollectUses, IInv, TypeOK
<1>2. CASE \E d \in Structs : EraseStruct(d)
  <2>1. PICK d \in Structs : EraseStruct(d)
    BY <1>2
  <2>2. unused' = Refilled(Popped(unused, d), structs', usedBy') /\ ir' = ir
        /\ structs' \subseteq structs
    BY <2>1 DEF EraseStruct
  <2>3. unused' = WithUnused(EmptyVector, structs', usedBy')
    BY <2>2 DEF Refilled
  <2>4. s \in Structs
    BY <2>2 DEF IInv, TypeOK
  <2> QED
    BY <2>2, <2>3, <2>4, RefillComplete
<1>3. CASE UNCHANGED vars
  BY <1>3 DEF vars, RefilledInv
<1>4. CASE WalkReads \/ WalkWrites \/ EraseMembers \/ WorklistEmpty \/ RemoveEmptyModules
  BY <1>4 DEF WalkReads, WalkWrites, EraseMembers, WorklistEmpty, RemoveEmptyModules
<1> QED
  BY <1>1, <1>2, <1>3, <1>4 DEF Next

(* The worklist is not reached without the option. *)
OptionInv == pc \in {"collect uses", "worklist", "empty modules"} => ir.removeStructs

LEMMA OptionStep == OptionInv /\ [Next]_vars => OptionInv'
BY DEF OptionInv, Next, vars, WalkReads, WalkWrites, EraseMembers, CollectUses, EraseStruct,
       WorklistEmpty, RemoveEmptyModules

(* While the operations of the structs that are left are untouched, so is    *)
(* the relation the abstract specification sees.                             *)
LEMMA SameEdges ==
  ASSUME ir' = ir, ops' = ops, structs' = structs
  PROVE  UseEdges' = UseEdges
BY DEF UseEdges, UsesOf

LEMMA FewerEdges ==
  ASSUME IInv, ir' = ir, ops' \subseteq ops, structs' = structs
  PROVE  UseEdges' \subseteq UseEdges
<1> SUFFICES ASSUME NEW e \in UseEdges' PROVE e \in UseEdges
  OBVIOUS
<1>1. e \in structs \X Structs /\ e[2] \in UsesOf(e[1])'
  BY DEF UseEdges
<1>2. e[1] \in Structs
  BY <1>1 DEF IInv, TypeOK
<1>3. e[2] \in UsesOf(e[1])
  BY <1>1, <1>2, FewerOpsFewerUses
<1> QED
  BY <1>1, <1>3 DEF UseEdges

(* Without struct s, which no other struct uses. *)
LEMMA EdgesWithout ==
  ASSUME IInv, NEW s \in Structs, ir' = ir, structs' = structs \ {s},
         ops' = {o \in ops : ir.parent[o] # s}
  PROVE  UseEdges' = {e \in UseEdges : e[1] # s}
<1>1. ASSUME NEW u \in structs \ {s} PROVE UsesOf(u)' = UsesOf(u)
  BY <1>1 DEF UsesOf
<1>2. UseEdges' = {e \in (structs \ {s}) \X Structs : e[2] \in UsesOf(e[1])'}
  BY DEF UseEdges
<1>3. \A e \in (structs \ {s}) \X Structs : UsesOf(e[1])' = UsesOf(e[1])
  BY <1>1
<1>4. UseEdges' = {e \in (structs \ {s}) \X Structs : e[2] \in UsesOf(e[1])}
  BY <1>2, <1>3
<1> QED
  BY <1>4 DEF UseEdges

(* Only the worklist's own end ends it: erasing members, failing and         *)
(* collecting the uses come before, removing the modules after it.           *)
LEMMA SameEnd ==
  ASSUME OptionInv,
         \/ WalkReads \/ WalkWrites \/ EraseMembers
         \/ CollectUses \/ RemoveEmptyModules \/ UNCHANGED vars
  PROVE  Ended' = Ended
<1>1. CASE CollectUses
  <2>1. pc = "collect uses" /\ pc' = "worklist"
    BY <1>1 DEF CollectUses
  <2>2. Ended = FALSE
    BY <2>1 DEF Ended
  <2>3. Ended' = FALSE
    BY <2>1 DEF Ended
  <2> QED
    BY <2>2, <2>3
<1>2. CASE RemoveEmptyModules
  <2>1. pc = "empty modules" /\ pc' = "done" /\ ir' = ir /\ ir.removeStructs
    BY <1>2 DEF RemoveEmptyModules, OptionInv
  <2>2. Ended = TRUE
    BY <2>1 DEF Ended
  <2>3. Ended' = TRUE
    BY <2>1 DEF Ended
  <2> QED
    BY <2>2, <2>3
<1>3. CASE UNCHANGED vars
  <2>1. pc' = pc /\ ir' = ir
    BY <1>3 DEF vars
  <2> QED
    BY <2>1 DEF Ended
<1>4. CASE WalkReads \/ WalkWrites \/ EraseMembers
  <2>1. pc \in {"reads", "writes", "erase members"} /\ ir' = ir
        /\ pc' # "empty modules" /\ (pc' = "done" => ~ ir.removeStructs)
    BY <1>4 DEF WalkReads, WalkWrites, EraseMembers
  <2>2. Ended = FALSE
    BY <2>1 DEF Ended
  <2>3. Ended' = FALSE
    BY <2>1 DEF Ended
  <2> QED
    BY <2>2, <2>3
<1> QED
  BY <1>1, <1>2, <1>3, <1>4

LEMMA PruningStep ==
  IInv /\ RefilledInv /\ OptionInv /\ [Next]_vars => [Pruning!Next]_Pruning!vars
<1> SUFFICES ASSUME IInv, RefilledInv, OptionInv, [Next]_vars PROVE [Pruning!Next]_Pruning!vars
  OBVIOUS
<1>1. CASE WalkReads \/ WalkWrites \/ EraseMembers
  <2>1. /\ ir' = ir /\ structs' = structs /\ ops' \subseteq ops /\ structs = Structs
        /\ pc \in {"reads", "writes", "erase members"}
    BY <1>1 DEF WalkReads, WalkWrites, EraseMembers, IInv, Untouched
  <2>2. UseEdges' \subseteq UseEdges
    BY <2>1, FewerEdges
  <2>3. ~ Ended
    BY <2>1 DEF Ended
  <2>4. Ended' = Ended
    BY <1>1, SameEnd
  <2>5. Pruning!DropUses
    BY <2>1, <2>2, <2>3, <2>4 DEF Pruning!DropUses
  <2> QED
    BY <2>5 DEF Pruning!Next
<1>2. CASE CollectUses \/ RemoveEmptyModules \/ UNCHANGED vars
  <2>1. ir' = ir /\ structs' = structs /\ ops' = ops
    BY <1>2 DEF CollectUses, RemoveEmptyModules, vars
  <2>2. Ended' = Ended
    BY <1>2, SameEnd
  <2>3. UseEdges' = UseEdges
    BY <2>1, SameEdges
  <2>4. UNCHANGED Pruning!vars
    BY <2>1, <2>2, <2>3 DEF Pruning!vars
  <2> QED
    BY <2>4
<1>3. CASE WorklistEmpty
  <2>1. /\ ir' = ir /\ structs' = structs /\ ops' = ops /\ unused = EmptyVector
        /\ pc = "worklist" /\ pc' = "empty modules"
    BY <1>3 DEF WorklistEmpty
  <2>2. UseEdges' = UseEdges
    BY <2>1, SameEdges
  <2>3. ASSUME NEW d \in Structs, Pruning!Removable(d) PROVE FALSE
    <3>1. d \in structs /\ d # ir.main
      BY <2>3 DEF Pruning!Removable
    <3>2. PICK u \in structs : d \in UsesOf(u)
      BY <2>1, <3>1 DEF RefilledInv, IInv, MapsExact
    <3>3. u # d
      BY <3>2 DEF UsesOf
    <3>4. <<u, d>> \in UseEdges
      BY <3>2 DEF UseEdges
    <3>5. u \in Pruning!Users(d)
      BY <3>3, <3>4 DEF Pruning!Users
    <3> QED
      BY <2>3, <3>5 DEF Pruning!Removable
  <2>4. ~ Ended /\ Ended'
    BY <2>1 DEF Ended
  <2>5. Ended' = TRUE
    BY <2>4 DEF Ended
  <2>6. Pruning!Stop
    BY <2>1, <2>2, <2>3, <2>4, <2>5 DEF Pruning!Stop
  <2> QED
    BY <2>6 DEF Pruning!Next
<1>4. CASE \E s \in Structs : EraseStruct(s)
  <2>1. PICK s \in Structs : EraseStruct(s)
    BY <1>4
  <2>2. /\ pc = "worklist" /\ pc' = "worklist" /\ ir' = ir /\ structs' = structs \ {s}
        /\ ops' = {o \in ops : ir.parent[o] # s} /\ unused[s] > 0
    BY <2>1 DEF EraseStruct
  <2>3. s \in structs /\ s # ir.main /\ usedBy[s] = {}
    BY <2>2 DEF IInv, WorklistSound
  <2>4. \A u \in structs : s \notin UsesOf(u)
    BY <2>2, <2>3 DEF IInv, MapsExact
  <2>5. UseEdges' = {e \in UseEdges : e[1] # s}
    BY <2>2, EdgesWithout
  <2>6. Pruning!Users(s) = {}
    BY <2>4 DEF Pruning!Users, UseEdges
  <2>7. Pruning!Removable(s)
    BY <2>3, <2>6 DEF Pruning!Removable
  <2>8. Ended = FALSE /\ Ended' = FALSE
    BY <2>2 DEF Ended
  <2>9. Pruning!Remove(s)
    BY <2>2, <2>5, <2>7, <2>8 DEF Pruning!Remove
  <2> QED
    BY <2>9 DEF Pruning!Next
<1> QED
  BY <1>1, <1>2, <1>3, <1>4 DEF Next

(* The pass implements the removal of dead definitions: a struct goes only   *)
(* when no struct that is left uses it, and when the worklist ends nothing   *)
(* that could go is left, whether it removed anything or not.                *)
THEOREM ImplementsPruning == Spec => PrunesDeadStructs
<1>1. Init => Pruning!Init
  <2> SUFFICES ASSUME Init PROVE Pruning!Init
    OBVIOUS
  <2>1. structs = Structs
    BY DEF Init
  <2>2. UseEdges \in SUBSET (Structs \X Structs)
    BY <2>1 DEF UseEdges
  <2>3. pc = "reads"
    BY DEF Init
  <2>4. Ended = FALSE
    BY <2>3 DEF Ended
  <2> QED
    BY <2>1, <2>2, <2>4 DEF Pruning!Init
<1>2. Init => RefilledInv /\ OptionInv
  BY DEF Init, RefilledInv, OptionInv
<1> QED
  BY <1>1, <1>2, Invariance, RefilledStep, OptionStep, PruningStep, PTL DEF Spec, Pruning!Spec, PrunesDeadStructs
=============================================================================
