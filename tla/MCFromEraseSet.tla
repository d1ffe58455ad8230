--------------------------- MODULE MCFromEraseSet ---------------------------
(***************************************************************************)
(* Two structs S and T in a template P, each with a function, a free       *)
(* function h in P, a concrete function f that stays, and an included      *)
(* function x.                                                             *)
(***************************************************************************)
EXTENDS FromEraseSet, TLC

CONSTANTS P, S, Sf, T, Tf, h, f, x

MCSymbols == {P, S, Sf, T, Tf, h, f, x}

MCKind ==
  P :> "scope" @@ S :> "struct" @@ Sf :> "nested" @@ T :> "struct" @@ Tf :> "nested"
    @@ h :> "free function" @@ f :> "free function" @@ x :> "free function"

MCParent ==
  [s \in MCSymbols |-> CASE s = Sf -> S [] s = Tf -> T [] s \in {S, T, h} -> P [] OTHER -> Top]

MCIncluded == {x}

Graph(sUses, tUses, hUses, fUses) ==
  [s \in MCSymbols |->
     CASE s = Sf -> sUses \cup {S, x}
       [] s = Tf -> tUses \cup {T}
       [] s = h  -> hUses
       [] s = f  -> fUses
       [] OTHER  -> {}]

MCUseRelations ==
  { Graph(a, b, d, e) :
      a \in SUBSET {h, T, Tf}, b \in SUBSET {h, S}, d \in SUBSET {h, T}, e \in SUBSET {S, Sf, h} }

MCEraseTargets == {{S, h}, {S, T, h, x}}
=============================================================================
