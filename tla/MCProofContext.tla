----------------------------- MODULE MCProofContext -----------------------------
(***************************************************************************)
(* Mock transactions for ProofContext.  Cells "a" and "b" hold code, "ga"  *)
(* and "gb" the data of dep groups.  A script refers to its code by data   *)
(* hash (three hash types) or by the hash of a type script.                *)
(***************************************************************************)
EXTENDS ProofContext

Dep(d, t)       == [data |-> d, type |-> t, group |-> FALSE]
Container(d, t) == [data |-> d, type |-> t, group |-> TRUE]
Lock(code, by)  == [kind |-> "lock", code |-> code, by |-> by, args |-> "x"]
Type(code, by)  == [kind |-> "type", code |-> code, by |-> by, args |-> "y"]

MCTypeIdHash == <<"type", "type id">>
MCElfSize    == [d \in {"a", "b", "ga", "gb"} |->
                   CASE d = "a" -> 600000 [] d = "b" -> 400000 [] OTHER -> 74]
MCTraceSizes == {1000, 500000}

(* Plain code cells, one script used as a lock and as a type, a data cell  *)
(* nobody refers to, and a Type ID group between two others.               *)
PlainTx ==
  [deps   |-> <<Dep("a", "none"), Dep("b", "tb"), Container("ga", "none"), Dep("a", "none")>>,
   groups |-> <<Lock(DataHash("a"), "data1"), Type(MCTypeIdHash, "type"),
                Type(DataHash("a"), "data2"), Type(TypeHash("tb"), "type")>>]

(* The container carries the type script of its own member, as when both   *)
(* are deployed together: the member, pushed after it, must prevail.       *)
MemberAfterContainerTx ==
  [deps   |-> <<Container("gb", "tb"), Dep("b", "tb"), Dep("b", "tb"), Dep("a", "ta")>>,
   groups |-> <<Lock(TypeHash("tb"), "type"), Type(TypeHash("ta"), "type"),
                Type(DataHash("b"), "data2")>>]

(* Two cell deps with one type script and different data.                  *)
AmbiguousTx ==
  [deps   |-> <<Dep("a", "tb"), Dep("b", "tb")>>,
   groups |-> <<Lock(TypeHash("tb"), "type")>>]

TypeIdOnlyTx == [deps |-> <<>>, groups |-> <<Lock(MCTypeIdHash, "type")>>]

OldVersionTx ==
  [deps |-> <<Dep("a", "none")>>, groups |-> <<Lock(DataHash("a"), "data")>>]

MCMockTxs == {PlainTx, MemberAfterContainerTx, AmbiguousTx, TypeIdOnlyTx, OldVersionTx}

(* A code cell, then the container of another group with its type script.  *)
ClashTx ==
  [deps   |-> <<Dep("b", "tb"), Container("ga", "tb"), Dep("a", "none")>>,
   groups |-> <<Lock(TypeHash("tb"), "type")>>]

MCClashTxs == {ClashTx}
================================================================================
