----------------------------- MODULE FeltBlock -----------------------------
(***************************************************************************)
(* The straight-line body of a constrain function: one block of felt       *)
(* operations, each with at most one result, named by the operation's      *)
(* address.  A body is [block |-> the addresses in program order,          *)
(* op |-> what is stored at each address]; an address that is not in       *)
(* block holds an operation that was erased.  The operators are the steps  *)
(* MLIR's builders and LLZKLoweringUtils take on such a block.             *)
(***************************************************************************)
EXTENDS Integers, Sequences, SequencesExt

(* An operation.  leaf is the number of an input or of an auxiliary member, *)
(* the value of a constant, and for a user of values its address in the     *)
(* program before the passes (0 if the passes have added it).               *)
Operation(kind, args, leaf) == [kind |-> kind, args |-> args, leaf |-> leaf]

Leaves == {"input", "const", "aux"}
Sums == {"add", "sub"}
Products == {"mul", "div"}
Expressions == Leaves \cup Sums \cup Products \cup {"neg"}
Users == {"eq", "array", "contain", "call"}

Live(body) == ToSet(body.block)
OfKind(body, kind) == {id \in Live(body) : body.op[id].kind = kind}
Index(body, id) == CHOOSE i \in DOMAIN body.block : body.block[i] = id

(* The value is defined before the user, in the only block there is. *)
ProperlyDominates(body, value, user) ==
  value \in Live(body) /\ Index(body, value) < Index(body, user)

(* The operation of a set that a walk of the block meets first. *)
First(body, ids) == CHOOSE id \in ids : \A other \in ids : Index(body, id) <= Index(body, other)

(* The operation that a builder positioned just after id inserts before. *)
Following(body, id) == body.block[Index(body, id) + 1]

Put(f, x, y) == [z \in DOMAIN f \cup {x} |-> IF z = x THEN y ELSE f[z]]
Overlay(f, g) ==
  [z \in DOMAIN f \cup DOMAIN g |-> IF z \in DOMAIN f THEN f[z] ELSE g[z]]

(* New operations, given by address, are inserted before one of the block. *)
Insert(body, ids, operations, before) ==
  LET i == Index(body, before)
  IN [block |-> SubSeq(body.block, 1, i - 1) \o ids \o SubSeq(body.block, i, Len(body.block)),
      op |-> Overlay(operations, body.op)]

Erase(body, id) == [body EXCEPT !.block = RemoveAt(@, Index(body, id))]

SetArgs(body, id, args) == [body EXCEPT !.op[id].args = args]

ReplaceIn(body, old, new, users) ==
  [body EXCEPT !.op =
     [id \in DOMAIN body.op |->
        IF id \in users THEN [body.op[id] EXCEPT !.args = ReplaceAll(@, old, new)] ELSE body.op[id]]]

ReplaceAllUses(body, old, new) == ReplaceIn(body, old, new, Live(body))

(* Uses from an operation on; those before it stay. *)
ReplaceSubsequentUsesWith(body, old, new, from) ==
  ReplaceIn(body, old, new, ToSet(SubSeq(body.block, Index(body, from), Len(body.block))))

-----------------------------------------------------------------------------
(* What the verifier of a function and of its operations asks of a body: an *)
(* operation has as many operands as its kind takes, values of expressions  *)
(* or, to be looked up, of an array, and each is defined before it is used. *)

Arity(kind) == IF kind \in Sums \cup Products \cup {"eq"} THEN {2}
               ELSE IF kind \in {"neg", "contain"} THEN {1}
               ELSE IF kind \in Leaves THEN {0}
               ELSE Nat
OperandKinds(kind) == IF kind = "contain" THEN {"array"} ELSE Expressions

IsOperation(body, id) ==
  LET kind == body.op[id].kind
      args == body.op[id].args
  IN  /\ Len(args) \in Arity(kind)
      /\ \A k \in DOMAIN args :
           /\ ProperlyDominates(body, args[k], id)
           /\ body.op[args[k]].kind \in OperandKinds(kind)

Operations == [kind : Expressions \cup Users, args : Seq(Nat), leaf : Int]

(* Addresses are numbered as they are first used. *)
IsBlock(body) ==
  /\ body \in [block : Seq(DOMAIN body.op), op : Seq(Operations)]
  /\ \A i, j \in DOMAIN body.block : body.block[i] = body.block[j] => i = j

IsBody(body) == IsBlock(body) /\ \A id \in Live(body) : IsOperation(body, id)
=============================================================================
