------------------------ MODULE MCRedundantReadWrite ------------------------
(***************************************************************************)
(* Two values; the constant d0, which is also the current row, and an      *)
(* argument a that equals it or does not; functions that access one or two *)
(* classes of places with up to four operations and one if or loop.        *)
(***************************************************************************)
EXTENDS RedundantReadWrite

CONSTANTS d0, d1, a

MCData == {d0, d1}
MCConsts == {d0}
MCArgs == {a}
MCMemories == { [p \in Classes \X MCData |-> d] : d \in MCData }
Shape(classes, ops, kinds) == [classes |-> classes, ops |-> ops, kinds |-> kinds]

MCShapes ==
  { Shape({"global"}, 4, RegionKinds), Shape({"ram"}, 3, RegionKinds),
    Shape({"array"}, 3, RegionKinds), Shape({"member"}, 3, RegionKinds),
    Shape({"array"}, 4, {}), Shape({"member"}, 4, {}),
    Shape({"global", "ram"}, 3, {}), Shape({"array", "ram"}, 3, {}) }

MCArrayOnly == {Shape({"array"}, 4, {})}
MCMemberWithElse == {Shape({"member"}, 3, {"ifelse"})}
=============================================================================
