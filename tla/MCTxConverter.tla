----------------------------- MODULE MCTxConverter -----------------------------
(***************************************************************************)
(* A small chain for TxConverter.  "src" creates four cells: a code cell   *)
(* (index 0), a dep group of two members (1), an empty dep group (2) and a *)
(* dep group of one member (3).  The other hashes are transactions to      *)
(* convert; "gone" is a hash the node does not know.                       *)
(***************************************************************************)
EXTENDS TxConverter

Op(h, i)  == [hash |-> h, index |-> i]
Code(op)  == [op |-> op, group |-> FALSE]
Group(op) == [op |-> op, group |-> TRUE]

MCTxHash    == {"src", "plain", "groups", "empty", "base", "bad", "far", "gone"}
MCBlockHash == {"b1", "b2", "orphan"}
MCHeaders   == {"b1", "b2"}
MCTypes     == {"none", "t1"}
MCData      == {"elf", "two", "zero", "one", "coin"}

MCGroups ==
  [d \in {"two", "zero", "one"} |->
     CASE d = "two"  -> <<Op("src", 0), Op("plain", 0)>>
       [] d = "zero" -> <<>>
       [] d = "one"  -> <<Op("groups", 0)>>]

Tx0(ins, deps, hdrs, outs) ==
  [cellbase |-> FALSE, inputs |-> ins, deps |-> deps, headers |-> hdrs, outputs |-> outs]

Out(d, t) == [data |-> d, type |-> t]

MCChain ==
  [h \in MCTxHash \ {"gone"} |->
     CASE h = "src"    -> Tx0(<<Op("base", 0)>>, <<Code(Op("gone", 0))>>, <<>>,
                              <<Out("elf", "t1"), Out("two", "none"),
                                Out("zero", "none"), Out("one", "none")>>)
       [] h = "plain"  -> Tx0(<<Op("src", 0)>>, <<>>, <<"b1", "b2">>, <<Out("coin", "t1")>>)
       [] h = "groups" -> Tx0(<<Op("base", 0)>>,
                              <<Group(Op("src", 1)), Code(Op("src", 0)), Group(Op("src", 3))>>,
                              <<>>, <<Out("coin", "none")>>)
       [] h = "empty"  -> Tx0(<<Op("base", 0)>>, <<Group(Op("src", 2)), Code(Op("src", 0))>>,
                              <<"orphan">>, <<Out("coin", "none")>>)
       [] h = "base"   -> [Tx0(<<>>, <<>>, <<>>, <<Out("coin", "none")>>)
                             EXCEPT !.cellbase = TRUE]
       [] h = "bad"    -> Tx0(<<Op("base", 0)>>, <<Group(Op("src", 0))>>, <<>>, <<>>)
       [] h = "far"    -> Tx0(<<Op("base", 7)>>, <<>>, <<>>, <<>>)]
================================================================================
