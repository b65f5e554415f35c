------------------------------ MODULE TxConverter ------------------------------
(***************************************************************************)
(* The first half of HostExecutor::run (src/lib.rs): get_transaction, then *)
(* tx_to_mock_tx (src/tx_converter.rs), which resolves the transaction's   *)
(* inputs, cell deps, dep-group members and header deps in up to three     *)
(* batches and assembles the MockTransaction from the flat result arrays.  *)
(*                                                                         *)
(* The two loops over the cell deps are one action per iteration, so that  *)
(* sub_result_idx is a variable whose invariant can be stated and proved.  *)
(***************************************************************************)
EXTENDS RpcClient, FiniteSets

CONSTANTS
  Data,    (* cell data                                                    *)
  Types,   (* type scripts of cells, "no type script" among them           *)
  Groups,  (* the data that parse as an OutPointVec -> the out points      *)
  MaxOdd   (* bound: odd responses the node writes in one reply            *)

Cell == [data : Data, type : Types]
Dep  == [op : OutPoint, group : BOOLEAN]
Tx   == [cellbase : BOOLEAN, inputs : Seq(OutPoint), deps : Seq(Dep),
         headers : Seq(BlockHash), outputs : Seq(Cell)]

ASSUME ChainAssumption ==
  /\ DOMAIN Chain \subseteq TxHash
  /\ \A h \in DOMAIN Chain : Chain[h] \in Tx
  /\ Headers \subseteq BlockHash
  /\ DOMAIN Groups \subseteq Data
  /\ \A d \in DOMAIN Groups : Groups[d] \in Seq(OutPoint)

VARIABLES
  pc,           (* where run is                                            *)
  hash,         (* the tx_hash argument                                    *)
  results,      (* cell_results                                            *)
  subs,         (* sub_out_points_per_dep, for the deps collected so far   *)
  subCalls,     (* sub_calls                                               *)
  subResults,   (* sub_results                                             *)
  subResultIdx, (* sub_result_idx                                          *)
  inputs,       (* mock_info.inputs                                        *)
  cellDeps,     (* mock_info.cell_deps                                     *)
  depIdx,       (* cell deps assembled so far                              *)
  headers,      (* mock_info.header_deps                                   *)
  subStart      (* history: length of sub_calls when each dep was met      *)

mockVars == <<inputs, cellDeps, depIdx, headers>>
subVars  == <<subs, subCalls, subResults, subResultIdx, subStart>>
vars     == <<nextId, wire, reply, pc, hash, results, subs, subCalls, subResults,
              subResultIdx, inputs, cellDeps, depIdx, headers, subStart>>

(* The transaction being converted: exec decoded it from the node's reply. *)
tx == Chain[hash]

Waiting  == {"fetch", "main", "sub", "header"}
Terminal == {"cellbase", "failed", "done"}

Init ==
  /\ RpcInit
  /\ pc = "start"
  /\ hash \in TxHash
  /\ results = <<>> /\ subs = <<>> /\ subCalls = <<>> /\ subResults = <<>>
  /\ subResultIdx = 0 /\ subStart = <<>>
  /\ inputs = <<>> /\ cellDeps = <<>> /\ depIdx = 0 /\ headers = <<>>

Fail == pc' = "failed" /\ Close /\ UNCHANGED <<hash, results, subVars, mockVars>>

--------------------------------------------------------------------------------
(* get_transaction(&tx_hash).exec(..)                                      *)
GetTransaction ==
  /\ pc = "start"
  /\ Post(<<TransactionCall(hash)>>)
  /\ pc' = "fetch"
  /\ UNCHANGED <<hash, results, subVars, mockVars>>

(* One reply object, decoded whatever its id; a cellbase ends the run.     *)
TransactionFetched ==
  /\ pc = "fetch" /\ Len(reply) = 1
  /\ Decodes(wire[1], reply[1])
  /\ pc' = IF Decoded(wire[1], reply[1]).cellbase THEN "cellbase" ELSE "resolve"
  /\ Close
  /\ UNCHANGED <<hash, results, subVars, mockVars>>

--------------------------------------------------------------------------------
(* tx_to_mock_tx: inputs and cell deps in one batch.                       *)
InputOps(t) == IF t.cellbase THEN <<>> ELSE t.inputs
DepOps(t)   == [k \in DOMAIN t.deps |-> t.deps[k].op]
MainOps(t)  == InputOps(t) \o DepOps(t)

CellCalls(ops) == [k \in DOMAIN ops |-> CellCall(ops[k])]

NInputs       == Len(InputOps(tx))
MainResult(k) == results[NInputs + k]

(* exec_batch returns Ok(vec![]) for no calls without posting anything.    *)
ResolveCells ==
  /\ pc = "resolve"
  /\ IF MainOps(tx) = <<>>
     THEN pc' = "collect" /\ UNCHANGED rpcVars
     ELSE pc' = "main" /\ Post(CellCalls(MainOps(tx)))
  /\ UNCHANGED <<hash, results, subVars, mockVars>>

Entry(op, cell) == [op |-> op, cell |-> cell]

MainResults ==
  /\ pc = "main" /\ BatchOk
  /\ results' = BatchResults
  /\ inputs'  = [k \in 1 .. NInputs |-> Entry(tx.inputs[k], results'[k])]
  /\ pc' = "collect"
  /\ Close
  /\ UNCHANGED <<hash, subVars, cellDeps, depIdx, headers>>

(* One iteration of the loop that parses dep groups and builds sub_calls.  *)
Members(k) == IF tx.deps[k].group THEN Groups[MainResult(k).data] ELSE <<>>

CollectDep ==
  /\ pc = "collect" /\ Len(subs) < Len(tx.deps)
  /\ LET k == Len(subs) + 1 IN
     /\ tx.deps[k].group => MainResult(k).data \in DOMAIN Groups
     /\ subs'     = Append(subs, Members(k))
     /\ subStart' = Append(subStart, Len(subCalls))
     /\ subCalls' = subCalls \o NumberedFrom(nextId, CellCalls(Members(k)))
     /\ nextId'   = nextId + Len(Members(k))
  /\ UNCHANGED <<wire, reply, pc, hash, results, subResults, subResultIdx, mockVars>>

(* OutPointVec::from_slice rejects the data of a cell named as a dep group.*)
MalformedGroup ==
  /\ pc = "collect" /\ Len(subs) < Len(tx.deps)
  /\ tx.deps[Len(subs) + 1].group
  /\ MainResult(Len(subs) + 1).data \notin DOMAIN Groups
  /\ Fail

(* Mutant: the case without sub-cells is forgotten.                        *)
ResolveSomeMembers ==
  /\ pc = "collect" /\ Len(subs) = Len(tx.deps) /\ subCalls # <<>>
  /\ pc' = "sub" /\ PostBuilt(subCalls)
  /\ UNCHANGED <<hash, results, subVars, mockVars>>

ResolveMembers ==
  /\ pc = "collect" /\ Len(subs) = Len(tx.deps)
  /\ IF subCalls = <<>>
     THEN pc' = "assemble" /\ UNCHANGED rpcVars
     ELSE pc' = "sub" /\ PostBuilt(subCalls)
  /\ UNCHANGED <<hash, results, subVars, mockVars>>

MemberResults ==
  /\ pc = "sub" /\ BatchOk
  /\ subResults' = BatchResults
  /\ pc' = "assemble"
  /\ Close
  /\ UNCHANGED <<hash, results, subs, subCalls, subResultIdx, subStart, mockVars>>

(* One iteration of the loop that pushes a cell dep and then its members.  *)
DepEntry(op, cell, group) == [op |-> op, cell |-> cell, group |-> group]

MemberEntries(k) ==
  [j \in DOMAIN subs[k] |-> DepEntry(subs[k][j], subResults[subResultIdx + j], FALSE)]

(* Mutant: the members first, then the dep group's own cell.               *)
PushedMembersFirst(k) ==
  MemberEntries(k) \o <<DepEntry(tx.deps[k].op, MainResult(k), tx.deps[k].group)>>

PushedBy(k) ==
  <<DepEntry(tx.deps[k].op, MainResult(k), tx.deps[k].group)>> \o MemberEntries(k)

PushDep ==
  /\ pc = "assemble" /\ depIdx < Len(tx.deps)
  /\ cellDeps'     = cellDeps \o PushedBy(depIdx + 1)
  /\ subResultIdx' = subResultIdx + Len(subs[depIdx + 1])
  /\ depIdx'       = depIdx + 1
  /\ UNCHANGED <<rpcVars, pc, hash, results, subs, subCalls, subResults, subStart,
                 inputs, headers>>

ResolveHeaders ==
  /\ pc = "assemble" /\ depIdx = Len(tx.deps)
  /\ IF tx.headers = <<>>
     THEN pc' = "done" /\ UNCHANGED rpcVars
     ELSE pc' = "header" /\ Post([k \in DOMAIN tx.headers |-> HeaderCall(tx.headers[k])])
  /\ UNCHANGED <<hash, results, subVars, mockVars>>

HeaderResults ==
  /\ pc = "header" /\ BatchOk
  /\ headers' = BatchResults
  /\ pc' = "done"
  /\ Close
  /\ UNCHANGED <<hash, results, subVars, inputs, cellDeps, depIdx>>

--------------------------------------------------------------------------------
(* A reply the client cannot use: a call without a response, or a response *)
(* its decode_* function rejects.                                          *)
ReplyRejected ==
  /\ \/ pc = "fetch" /\ Len(reply) = 1 /\ ~Decodes(wire[1], reply[1])
     \/ pc \in {"main", "sub", "header"} /\ ~BatchOk
  /\ Fail

(* External: send() or json() fails (refused, timed out, not JSON).        *)
TransportFails == pc \in Waiting /\ Fail

(* External: the node writes a response about a call of the POST: the one  *)
(* good answer to it, or, MaxOdd times in a reply, anything else.          *)
OddOnes ==
  Len(reply) - Cardinality({reply[n] : n \in DOMAIN reply}
                             \cap [about : Call, tagged : {TRUE}, good : {TRUE}])

NodeResponds ==
  /\ pc \in Waiting
  /\ pc = "fetch" => reply = <<>>
  /\ \E k \in DOMAIN wire, tagged \in BOOLEAN, good \in BOOLEAN :
       LET r == [about |-> wire[k], tagged |-> tagged, good |-> good] IN
       /\ \/ tagged /\ good /\ \A n \in DOMAIN reply : reply[n] # r
          \/ OddOnes < MaxOdd
       /\ Respond(r)
  /\ UNCHANGED <<pc, hash, results, subVars, mockVars>>

Finished == pc \in Terminal /\ UNCHANGED vars

Compute ==
  \/ GetTransaction \/ ResolveCells \/ CollectDep \/ MalformedGroup
  \/ ResolveMembers \/ PushDep \/ ResolveHeaders

Receive == TransactionFetched \/ MainResults \/ MemberResults \/ HeaderResults

Next == Compute \/ Receive \/ ReplyRejected \/ TransportFails \/ NodeResponds
        \/ Finished

(* The host is one thread that never pauses, and Client::builder().timeout *)
(* bounds every POST, so a call cannot block it for ever.  Nothing is      *)
(* assumed of the node.                                                    *)
Fairness == WF_vars(Compute) /\ WF_vars(TransportFails)

Spec == Init /\ [][Next]_vars /\ Fairness

--------------------------------------------------------------------------------
(* Types, as far as the proofs need them.                                  *)
InputEntry  == [op : OutPoint, cell : Cell]
CellDepEntry == [op : OutPoint, cell : Cell, group : BOOLEAN]

TypeOK ==
  /\ RpcTypeOK
  /\ pc \in {"start", "resolve", "collect", "assemble"} \cup Waiting \cup Terminal
  /\ hash \in TxHash
  /\ results \in Seq(Cell) /\ subResults \in Seq(Cell)
  /\ subs \in Seq(Seq(OutPoint)) /\ subStart \in Seq(Nat)
  /\ subCalls \in Seq(Call) /\ subResultIdx \in Nat
  /\ inputs \in Seq(InputEntry) /\ cellDeps \in Seq(CellDepEntry)
  /\ depIdx \in Nat /\ headers \in Seq(BlockHash)

(* What the chain holds at an out point.                                   *)
Resolvable(op) == op.hash \in DOMAIN Chain /\ op.index < Len(Chain[op.hash].outputs)
CellAt(op)     == Chain[op.hash].outputs[op.index + 1]

(* Every input and every cell dep pushed into the mock transaction, dep    *)
(* group members included, carries the cell its own out point denotes: the *)
(* flat result arrays are never read at another entry's index.             *)
EntriesMatchChain ==
  /\ \A k \in DOMAIN inputs :
       Resolvable(inputs[k].op) /\ inputs[k].cell = CellAt(inputs[k].op)
  /\ \A k \in DOMAIN cellDeps :
       Resolvable(cellDeps[k].op) /\ cellDeps[k].cell = CellAt(cellDeps[k].op)

(* The numbers of a batch identify its calls, and none of them is the 0    *)
(* that serde gives a response without an id: such a response cannot pass  *)
(* for the answer to any call of a batch.                                  *)
IdsIdentifyCalls ==
  pc \in {"main", "sub", "header"} =>
    \A j, k \in DOMAIN wire : /\ wire[k].id # 0
                              /\ wire[j].id = wire[k].id => j = k

(* A batch is accepted whenever every call has, last of its id, a good     *)
(* answer about something the node holds: order, gaps filled by            *)
(* duplicates, and responses without an id never make it fail.             *)
WellAnswered(c) ==
  /\ \E n \in DOMAIN reply :
       /\ reply[n] = [about |-> c, tagged |-> TRUE, good |-> TRUE]
       /\ \A m \in DOMAIN reply : m > n => ~(reply[m].tagged /\ reply[m].about = c)
  /\ IF c.decode = "header" THEN c.hash \in Headers
     ELSE Resolvable([hash |-> c.hash, index |-> c.index])

CompleteReplyAccepted ==
  (pc \in {"main", "sub", "header"} /\ \A k \in DOMAIN wire : WellAnswered(wire[k]))
    => BatchOk

(* The mock transaction is visible to the rest of run only when it is done.*)
Resolution == INSTANCE CellResolution WITH
  status <- IF pc \in Terminal THEN pc ELSE "pending",
  mock   <- IF pc = "done"
            THEN [inputs |-> inputs, cellDeps |-> cellDeps, headers |-> headers]
            ELSE [inputs |-> <<>>, cellDeps |-> <<>>, headers |-> <<>>]

(* The three batches, the offset arithmetic between them and the two loops *)
(* produce exactly the mock transaction the chain defines, or fail: no     *)
(* reordered, doubled, missing or id-less response leads to another one.   *)
ResolvesAtomically == Resolution!Spec

(* Whatever the node does, the conversion ends.                            *)
RunEnds == <>(pc \in Terminal)
================================================================================
