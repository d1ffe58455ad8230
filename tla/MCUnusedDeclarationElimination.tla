------------------- MODULE MCUnusedDeclarationElimination -------------------
(***************************************************************************)
(* Small compilation units for the pass: three structs, of which s1 may be *)
(* Main; a member of s1 and a member of s2; and two more operations, each  *)
(* a read, a write or another use of a struct, in any struct or in a free  *)
(* function.  Struct s3 is in a nested module, inside another.             *)
(***************************************************************************)
EXTENDS UnusedDeclarationElimination, TLC

CONSTANTS s1, s2, s3, m1, m2, o1, o2, outer, inner

MCStructs == {s1, s2, s3}
MCOps     == {m1, m2, o1, o2}
MCModules == {outer, inner}

MCWithin ==
  [d \in MCStructs \cup MCModules |->
     CASE d = s3    -> {outer, inner}
       [] d = inner -> {outer}
       [] OTHER     -> {}]

Owner == [m \in {m1, m2} |-> IF m = m1 THEN s1 ELSE s2]

(* What an operation other than a member definition can be: a read or write *)
(* mentions the struct it accesses and the type of the member.              *)
Accesses ==
  [kind : {"read", "write"}, member : {m1, m2}, parent : MCStructs \cup {None}, refs : {{}}]
  \cup [kind : {"read", "write"}, member : {Unresolved}, parent : {s1}, refs : {{}}]

Others ==
  [kind : {"other"}, member : {Unresolved}, parent : MCStructs \cup {None},
   refs : {{s} : s \in MCStructs}]

Mentions(op, mtype) ==
  op.refs \cup (IF op.member = Unresolved THEN {}
                ELSE {Owner[op.member]} \cup mtype[op.member])

Unit(main, rm, pub, mtype, a, b) ==
  [ main          |-> main,
    removeStructs |-> rm,
    kind     |-> (m1 :> "member" @@ m2 :> "member" @@ o1 :> a.kind @@ o2 :> b.kind),
    parent   |-> (m1 :> s1 @@ m2 :> s2 @@ o1 :> a.parent @@ o2 :> b.parent),
    member   |-> (m1 :> Unresolved @@ m2 :> Unresolved @@ o1 :> a.member @@ o2 :> b.member),
    public   |-> pub,
    mentions |-> (m1 :> mtype[m1] @@ m2 :> mtype[m2]
                  @@ o1 :> Mentions(a, mtype) @@ o2 :> Mentions(b, mtype)) ]

MemberTypes == {(m1 :> x @@ m2 :> y) : x \in {{}, {s2}, {s3}}, y \in {{}, {s1}, {s3}}}

(* Main, the option and the public members. *)
Options == {<<None, FALSE, {}>>, <<None, TRUE, {}>>, <<s1, TRUE, {}>>, <<s1, TRUE, {m1}>>}

(* The second operation is no read in a free function, and a write only next *)
(* to another write: the first one can be.  Two writes may be one that does  *)
(* not resolve and one to a member that nobody reads.                        *)
Pairs ==
  { pair \in (Accesses \cup Others) \X (Accesses \cup Others) :
      CASE pair[2].kind = "other" -> TRUE
        [] pair[2].kind = "read"  -> pair[2].parent # None
        [] pair[2].kind = "write" -> pair[1].kind = "write" }

MCIRs ==
  { Unit(opt[1], opt[2], opt[3], mtype, pair[1], pair[2]) :
      opt \in Options, mtype \in MemberTypes, pair \in Pairs }
=============================================================================
