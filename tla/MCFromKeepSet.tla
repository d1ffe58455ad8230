---------------------------- MODULE MCFromKeepSet ----------------------------
(***************************************************************************)
(* A struct M (the main struct, when it is kept) and a struct S, each with *)
(* a function, a free function h, a global g, a contract c, an included    *)
(* function x and a path u that no lookup finds.                           *)
(***************************************************************************)
EXTENDS FromKeepSet, TLC

CONSTANTS M, Mf, S, Sf, h, g, c, x, u

MCSymbols == {M, Mf, S, Sf, h, g, c, x, u}

MCKind ==
  M :> "struct" @@ Mf :> "nested" @@ S :> "struct" @@ Sf :> "nested" @@ h :> "free function"
    @@ g :> "global" @@ c :> "contract" @@ x :> "free function" @@ u :> "unknown"

MCParent == [s \in MCSymbols |-> IF s = Mf THEN M ELSE IF s = Sf THEN S ELSE Top]

MCIncluded == {x}

(* The types of a struct's functions mention it; the rest is chosen.  The   *)
(* contract is one of S.                                                    *)
Graph(mUses, sUses, hUses, gUses) ==
  [s \in MCSymbols |->
     CASE s = Mf -> mUses \cup {M, x}
       [] s = Sf -> sUses \cup {S}
       [] s = h  -> hUses
       [] s = g  -> gUses
       [] s = c  -> {S}
       [] OTHER  -> {}]

MCUseRelations ==
  { Graph(a, b, d, e) :
      a \in SUBSET {Sf, h, g}, b \in {{}, {h}, {g}}, d \in {{}, {S}, {h}, {Mf}, {u}},
      e \in {{}, {S}} }
=============================================================================
