----------------------------- MODULE CellResolution -----------------------------
(***************************************************************************)
(* What the first half of HostExecutor::run promises: in one step a        *)
(* transaction hash becomes the mock transaction that the chain defines    *)
(* for it, or nothing.  Each cell dep is followed by the members of its    *)
(* dep group, in order; the header deps are the transaction's own.         *)
(***************************************************************************)
EXTENDS Integers, Sequences, SequencesExt

CONSTANTS TxHash, Chain, Groups

VARIABLES hash, status, mock

NoMock == [inputs |-> <<>>, cellDeps |-> <<>>, headers |-> <<>>]

CellAt(op) == Chain[op.hash].outputs[op.index + 1]

Expanded(dep) ==
  LET own     == [op |-> dep.op, cell |-> CellAt(dep.op), group |-> dep.group]
      members == IF dep.group THEN Groups[CellAt(dep.op).data] ELSE <<>>
  IN  <<own>> \o [j \in DOMAIN members |->
                    [op |-> members[j], cell |-> CellAt(members[j]), group |-> FALSE]]

MockOf(t) ==
  [inputs   |-> [k \in DOMAIN t.inputs |-> [op   |-> t.inputs[k],
                                            cell |-> CellAt(t.inputs[k])]],
   cellDeps |-> FlattenSeq([k \in DOMAIN t.deps |-> Expanded(t.deps[k])]),
   headers  |-> t.headers]

Init == hash \in TxHash /\ status = "pending" /\ mock = NoMock

Resolve ==
  /\ status = "pending"
  /\ hash \in DOMAIN Chain /\ ~Chain[hash].cellbase
  /\ status' = "done" /\ mock' = MockOf(Chain[hash])
  /\ UNCHANGED hash

Skip ==
  /\ status = "pending"
  /\ hash \in DOMAIN Chain /\ Chain[hash].cellbase
  /\ status' = "cellbase"
  /\ UNCHANGED <<hash, mock>>

GiveUp == status = "pending" /\ status' = "failed" /\ UNCHANGED <<hash, mock>>

Next == Resolve \/ Skip \/ GiveUp

Spec == Init /\ [][Next]_<<hash, status, mock>>
================================================================================
