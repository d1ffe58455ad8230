--------------------------- MODULE DeadDefinitions ---------------------------
(***************************************************************************)
(* What removing unused definitions promises: a definition is removed only *)
(* when no definition that is left uses it, a root is never removed, and   *)
(* the removal stops only when nothing more can be removed, whether or not *)
(* anything was.  Uses can go away before the first removal, never come    *)
(* back.  A removal that has not stopped may have been given up.           *)
(***************************************************************************)
CONSTANTS Node

VARIABLES
  live,     \* the definitions that are left
  edges,    \* <<u, d>>: u, which is left, uses d
  root,     \* the definitions that are kept whatever uses them
  stopped   \* nothing will be removed any more

vars == <<live, edges, root, stopped>>

Users(d) == {u \in live \ {d} : <<u, d>> \in edges}

Removable(d) == d \in live \ root /\ Users(d) = {}

Init ==
  /\ live = Node
  /\ edges \in SUBSET (Node \X Node)
  /\ root \in SUBSET Node
  /\ stopped = FALSE

DropUses ==
  /\ live = Node
  /\ ~ stopped
  /\ edges' \in SUBSET edges
  /\ UNCHANGED <<live, root, stopped>>

Remove(d) ==
  /\ ~ stopped
  /\ Removable(d)
  /\ live' = live \ {d}
  /\ edges' = {e \in edges : e[1] # d}
  /\ UNCHANGED <<root, stopped>>

(* Nothing removable is left. *)
Stop ==
  /\ ~ stopped
  /\ \A d \in Node : ~ Removable(d)
  /\ stopped' = TRUE
  /\ UNCHANGED <<live, edges, root>>

Next == DropUses \/ (\E d \in Node : Remove(d)) \/ Stop

Spec == Init /\ [][Next]_vars
=============================================================================
