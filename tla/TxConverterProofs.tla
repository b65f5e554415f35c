--------------------------- MODULE TxConverterProofs ---------------------------
(***************************************************************************)
(* For every chain, every transaction and every node, however it orders,   *)
(* doubles, drops or mislabels its responses: the ids of a batch identify  *)
(* its calls, and every entry of the mock transaction carries the cell its *)
(* own out point denotes.                                                  *)
(*                                                                         *)
(* EntriesMatchChain is not inductive: it says nothing of the arrays the   *)
(* entries are read from.  ConvInv adds what the batches ask (Numbering,   *)
(* Asked), what the results answer (Answered) and where the members of     *)
(* each dep group start in the flat array (Offsets).  MockInv adds how far *)
(* the mock transaction is, so that each step is one of CellResolution or  *)
(* none.                                                                   *)
(***************************************************************************)
EXTENDS TxConverter, SequenceTheorems, WellFoundedInduction, TLAPS

Batch     == {"main", "sub", "header"}
Resolving == {"collect", "sub", "assemble", "header"}
Known     == {"resolve", "main"} \cup Resolving

(* calls bear the last Len(calls) numbers given out, none of them 0.       *)
Consecutive(calls) ==
  /\ 1 <= nextId - Len(calls)
  /\ \A k \in DOMAIN calls : calls[k].id = nextId - Len(calls) + k - 1

Asks(c, op) == c.decode = "cell" /\ c.hash = op.hash /\ c.index = op.index

Numbering ==
  /\ pc = "start" => nextId = 0
  /\ pc = "fetch" => Len(wire) = 1 /\ wire[1].decode = "transaction" /\ wire[1].hash = hash
  /\ pc \in {"resolve", "collect", "assemble"} \cup Waiting => nextId >= 1
  /\ pc \in Batch => Consecutive(wire)
  /\ pc = "collect" => Consecutive(subCalls)
  /\ pc \in Waiting => \A n \in DOMAIN reply : \E k \in DOMAIN wire : reply[n].about = wire[k]

Asked ==
  /\ pc \in Known => hash \in DOMAIN Chain
  /\ pc = "main" => /\ Len(wire) = NInputs + Len(tx.deps)
                    /\ \A k \in 1 .. NInputs : Asks(wire[k], tx.inputs[k])
                    /\ \A k \in DOMAIN tx.deps : Asks(wire[NInputs + k], tx.deps[k].op)
  /\ pc \in {"collect", "sub"} => \A i \in DOMAIN subCalls : subCalls[i].decode = "cell"
  /\ pc = "sub" => wire = subCalls
  /\ pc = "header" => \A k \in DOMAIN wire : wire[k].decode = "header"

Answered ==
  /\ pc \in Resolving => \A k \in DOMAIN tx.deps :
       Resolvable(tx.deps[k].op) /\ MainResult(k) = CellAt(tx.deps[k].op)
  /\ pc = "assemble" => \A i \in DOMAIN subCalls :
       Resolvable(subCalls[i]) /\ subResults[i] = CellAt(subCalls[i])

Offsets ==
  /\ pc \in {"start", "fetch", "resolve", "main"} =>
       subs = <<>> /\ subStart = <<>> /\ subCalls = <<>> /\ depIdx = 0 /\ subResultIdx = 0
  /\ pc \in {"collect", "sub"} => depIdx = 0 /\ subResultIdx = 0
  /\ pc \in {"sub", "assemble"} => Len(subs) = Len(tx.deps)
  /\ pc \in {"collect", "sub", "assemble"} =>
       /\ Len(subStart) = Len(subs) /\ Len(subs) <= Len(tx.deps)
       /\ Len(subs) = 0 => Len(subCalls) = 0
       /\ Len(subs) # 0 => subStart[1] = 0
       /\ \A k \in DOMAIN subs :
            /\ subStart[k] + Len(subs[k]) =
                 IF k = Len(subs) THEN Len(subCalls) ELSE subStart[k + 1]
            /\ \A j \in DOMAIN subs[k] : /\ subStart[k] + j \in DOMAIN subCalls
                                         /\ Asks(subCalls[subStart[k] + j], subs[k][j])
  /\ pc = "assemble" =>
       /\ depIdx <= Len(subs)
       /\ depIdx < Len(subs) => subResultIdx = subStart[depIdx + 1]

ConvInv == TypeOK /\ Numbering /\ Asked /\ Answered /\ Offsets /\ EntriesMatchChain

--------------------------------------------------------------------------------
(* A batch that is accepted took, for each call, a response about that     *)
(* very call: ids identify calls and an id-less response has id 0.         *)
LEMMA BatchAnswers ==
  ASSUME RpcTypeOK, Consecutive(wire), BatchOk,
         \A n \in DOMAIN reply : \E j \in DOMAIN wire : reply[n].about = wire[j],
         NEW k \in DOMAIN wire
  PROVE  ById(wire[k].id).about = wire[k] /\ Decodes(wire[k], ById(wire[k].id))
<1> DEFINE n == CHOOSE n \in DOMAIN reply : LastFiled(wire[k].id, n)
<1>1. n \in DOMAIN reply /\ LastFiled(wire[k].id, n)
  BY DEF BatchOk, Taken
<1>2. wire[k].id >= 1 /\ wire[k].id = nextId - Len(wire) + k - 1
  BY DEF Consecutive, RpcTypeOK
<1>3. reply[n].tagged /\ reply[n].about.id = wire[k].id
  BY <1>1, <1>2 DEF LastFiled, ResponseId
<1>4. PICK j \in DOMAIN wire : reply[n].about = wire[j]
  BY <1>1
<1>5. j = k
  BY <1>2, <1>3, <1>4 DEF Consecutive, RpcTypeOK
<1> QED
  BY <1>4, <1>5 DEF ById, BatchOk

(* What exec_batch returns for a cell call is the cell the call names.     *)
LEMMA CellAnswer ==
  ASSUME RpcTypeOK, Consecutive(wire), BatchOk,
         \A n \in DOMAIN reply : \E j \in DOMAIN wire : reply[n].about = wire[j],
         NEW k \in DOMAIN wire, wire[k].decode = "cell"
  PROVE  /\ Resolvable(wire[k]) /\ CellAt(wire[k]) \in Cell
         /\ BatchResults[k] = CellAt(wire[k])
<1>1. ById(wire[k].id).about = wire[k] /\ Decodes(wire[k], ById(wire[k].id))
  BY BatchAnswers
<1>2. wire[k] \in Call
  BY DEF RpcTypeOK
<1>3. Resolvable(wire[k])
  BY <1>1 DEF Decodes, Resolvable
<1>4. Chain[wire[k].hash].outputs \in Seq(Cell) /\ wire[k].index \in Nat
  BY <1>2, <1>3, ChainAssumption DEF Resolvable, Tx, Call
<1>5. CellAt(wire[k]) \in Cell
  BY <1>3, <1>4 DEF Resolvable, CellAt
<1>6. BatchResults[k] = CellAt(wire[k])
  BY <1>1 DEF BatchResults, Decoded, CellAt
<1> QED
  BY <1>3, <1>5, <1>6

--------------------------------------------------------------------------------
LEMMA InitConvInv == Init => ConvInv
BY DEF Init, RpcInit, ConvInv, TypeOK, RpcTypeOK, Numbering, Asked, Answered, Offsets,
       EntriesMatchChain, Batch, Resolving, Known, Waiting, Terminal

(* A failed run keeps what was assembled and forgets the rest.             *)
LEMMA FailConvInv == ASSUME ConvInv, Fail PROVE ConvInv'
<1>1. TypeOK'
  BY DEF Fail, Close, ConvInv, TypeOK, RpcTypeOK, subVars, mockVars, Terminal
<1>2. Numbering' /\ Asked' /\ Answered' /\ Offsets'
  BY DEF Fail, Numbering, Asked, Answered, Offsets, Batch, Resolving, Known, Waiting
<1>3. EntriesMatchChain'
  BY DEF Fail, ConvInv, EntriesMatchChain, mockVars, Resolvable, CellAt
<1> QED
  BY <1>1, <1>2, <1>3 DEF ConvInv

LEMMA GetTransactionConvInv == ASSUME ConvInv, GetTransaction PROVE ConvInv'
<1> USE DEF GetTransaction, Post, NumberedFrom, TransactionCall, subVars, mockVars
<1>1. TypeOK'
  BY DEF ConvInv, TypeOK, RpcTypeOK, Call, Waiting, Numbering
<1>2. Numbering'
  BY DEF ConvInv, Numbering, TypeOK, RpcTypeOK, Batch, Waiting
<1>3. Asked' /\ Answered'
  BY DEF Asked, Answered, Batch, Resolving, Known
<1>4. Offsets'
  BY DEF ConvInv, Offsets
<1>5. EntriesMatchChain'
  BY DEF ConvInv, EntriesMatchChain, Resolvable, CellAt
<1> QED
  BY <1>1, <1>2, <1>3, <1>4, <1>5 DEF ConvInv

LEMMA TransactionFetchedConvInv == ASSUME ConvInv, TransactionFetched PROVE ConvInv'
<1> USE DEF TransactionFetched, Close, subVars, mockVars
<1>1. TypeOK'
  BY DEF ConvInv, TypeOK, RpcTypeOK, Waiting, Terminal
<1>2. Numbering'
  BY DEF ConvInv, Numbering, Batch, Waiting
<1>3. hash \in DOMAIN Chain
  <2>1. PICK k \in DOMAIN wire : reply[1].about = wire[k]
    BY DEF ConvInv, Numbering, Waiting
  <2>2. reply[1].about = wire[1] /\ wire[1].decode = "transaction" /\ wire[1].hash = hash
    BY <2>1 DEF ConvInv, Numbering, TypeOK, RpcTypeOK
  <2> QED
    BY <2>2 DEF Decodes
<1>4. Asked' /\ Answered'
  BY <1>3 DEF Asked, Answered, Batch, Resolving, Known
<1>5. Offsets'
  BY DEF ConvInv, Offsets
<1>6. EntriesMatchChain'
  BY DEF ConvInv, EntriesMatchChain, Resolvable, CellAt
<1> QED
  BY <1>1, <1>2, <1>4, <1>5, <1>6 DEF ConvInv

--------------------------------------------------------------------------------
(* The shape of the transaction and of the calls made for it.              *)
LEMMA TxShape ==
  ASSUME hash \in DOMAIN Chain
  PROVE  /\ tx.inputs \in Seq(OutPoint) /\ tx.deps \in Seq(Dep)
         /\ tx.headers \in Seq(BlockHash) /\ tx.outputs \in Seq(Cell)
BY ChainAssumption DEF tx, Tx

LEMMA MainOpsShape ==
  ASSUME hash \in DOMAIN Chain
  PROVE  /\ NInputs \in Nat /\ NInputs <= Len(tx.inputs)
         /\ MainOps(tx) \in Seq(OutPoint)
         /\ Len(MainOps(tx)) = NInputs + Len(tx.deps)
         /\ \A k \in 1 .. NInputs : MainOps(tx)[k] = tx.inputs[k]
         /\ \A k \in 1 .. Len(tx.deps) : MainOps(tx)[NInputs + k] = tx.deps[k].op
<1> DEFINE ins  == InputOps(tx)
           deps == DepOps(tx)
<1>1. /\ ins \in Seq(OutPoint) /\ Len(ins) <= Len(tx.inputs)
      /\ \A k \in 1 .. Len(ins) : ins[k] = tx.inputs[k]
  BY TxShape, EmptySeq DEF InputOps
<1>2. /\ deps \in Seq(OutPoint) /\ Len(deps) = Len(tx.deps)
      /\ \A k \in 1 .. Len(tx.deps) : deps[k] = tx.deps[k].op
  <2>1. \A k \in 1 .. Len(tx.deps) : tx.deps[k] \in Dep
    BY TxShape
  <2>2. \A k \in 1 .. Len(tx.deps) : tx.deps[k].op \in OutPoint
    BY <2>1 DEF Dep
  <2>3. Len(tx.deps) \in Nat /\ DOMAIN tx.deps = 1 .. Len(tx.deps)
    BY TxShape
  <2>4. deps = [k \in 1 .. Len(tx.deps) |-> tx.deps[k].op]
    BY <2>3 DEF DepOps
  <2>5. deps \in [1 .. Len(tx.deps) -> OutPoint]
    BY <2>2, <2>4
  <2> HIDE DEF deps
  <2> QED
    BY <2>3, <2>4, <2>5
<1>3. MainOps(tx) = ins \o deps /\ NInputs = Len(ins)
  BY DEF MainOps, NInputs
<1> HIDE DEF ins, deps
<1> HIDE DEF ins, deps
<1>4. /\ ins \o deps \in Seq(OutPoint) /\ Len(ins) \in Nat
      /\ Len(ins \o deps) = Len(ins) + Len(deps)
      /\ \A k \in 1 .. Len(ins) : (ins \o deps)[k] = ins[k]
      /\ \A k \in 1 .. Len(deps) : (ins \o deps)[Len(ins) + k] = deps[k]
  <2>1. ins \in Seq(OutPoint) /\ deps \in Seq(OutPoint)
    BY <1>1, <1>2
  <2> QED
    BY <2>1
<1>5. /\ NInputs \in Nat /\ NInputs <= Len(tx.inputs)
      /\ MainOps(tx) \in Seq(OutPoint)
      /\ Len(MainOps(tx)) = NInputs + Len(tx.deps)
  BY <1>1, <1>2, <1>3, <1>4
<1>6. \A k \in 1 .. NInputs : MainOps(tx)[k] = tx.inputs[k]
  BY <1>1, <1>3, <1>4
<1>7. \A k \in 1 .. Len(tx.deps) : MainOps(tx)[NInputs + k] = tx.deps[k].op
  BY <1>2, <1>3, <1>4
<1> QED
  BY <1>5, <1>6, <1>7

(* Cell calls numbered from n on: what they ask and what they are called.  *)
LEMMA NumberedCells ==
  ASSUME NEW ops \in Seq(OutPoint), NEW n \in Nat, n >= 1
  PROVE  /\ NumberedFrom(n, CellCalls(ops)) \in Seq(Call)
         /\ Len(NumberedFrom(n, CellCalls(ops))) = Len(ops)
         /\ \A k \in 1 .. Len(ops) :
              /\ NumberedFrom(n, CellCalls(ops))[k].id = n + k - 1
              /\ Asks(NumberedFrom(n, CellCalls(ops))[k], ops[k])
<1> DEFINE w == NumberedFrom(n, CellCalls(ops))
<1>1. w = [k \in 1 .. Len(ops) |-> [id |-> n + k - 1, decode |-> "cell",
                                    hash |-> ops[k].hash, index |-> ops[k].index]]
  BY DEF NumberedFrom, CellCalls, CellCall
<1>2. \A k \in 1 .. Len(ops) : ops[k].hash \in TxHash /\ ops[k].index \in Nat
  <2>1. \A k \in 1 .. Len(ops) : ops[k] \in OutPoint
    OBVIOUS
  <2> QED
    BY <2>1 DEF OutPoint
<1>3. \A k \in 1 .. Len(ops) : w[k] \in Call
  BY <1>1, <1>2 DEF Call
<1>4. w \in [1 .. Len(ops) -> Call]
  BY <1>1, <1>3
<1>5. w \in Seq(Call) /\ Len(w) = Len(ops)
  BY <1>4
<1>6. \A k \in 1 .. Len(ops) : w[k].id = n + k - 1 /\ Asks(w[k], ops[k])
  BY <1>1 DEF Asks
<1> QED
  BY <1>5, <1>6

LEMMA ResolveCellsConvInv == ASSUME ConvInv, ResolveCells PROVE ConvInv'
<1> USE DEF ResolveCells, subVars, mockVars
<1>0. hash \in DOMAIN Chain /\ nextId >= 1 /\ nextId \in Nat
  BY DEF ConvInv, Asked, Numbering, Known, TypeOK, RpcTypeOK
<1>1. EntriesMatchChain'
  BY DEF ConvInv, EntriesMatchChain, Resolvable, CellAt
<1>2. CASE MainOps(tx) = <<>>
  <2> USE <1>2 DEF rpcVars
  <2>1. TypeOK'
    BY DEF ConvInv, TypeOK, RpcTypeOK
  <2>2. Numbering'
    BY <1>0 DEF ConvInv, Numbering, Offsets, Batch, Waiting, Consecutive, TypeOK, RpcTypeOK
  <2>3. Asked' /\ Answered'
    <3>1. tx.deps = <<>> /\ subCalls = <<>>
      BY <1>0, MainOpsShape, TxShape DEF ConvInv, Offsets
    <3> QED
      BY <1>0, <3>1 DEF Asked, Answered, Batch, Resolving, Known, tx
  <2>4. Offsets'
    BY <1>0, TxShape DEF ConvInv, Offsets, tx
  <2> QED
    BY <1>1, <2>1, <2>2, <2>3, <2>4 DEF ConvInv
<1>3. CASE MainOps(tx) # <<>>
  <2>0. /\ pc' = "main" /\ reply' = <<>>
        /\ wire' = NumberedFrom(nextId, CellCalls(MainOps(tx)))
        /\ nextId' = nextId + Len(CellCalls(MainOps(tx)))
    BY <1>3 DEF Post
  <2>1. Len(CellCalls(MainOps(tx))) = Len(MainOps(tx))
    BY <1>0, MainOpsShape DEF CellCalls
  <2>2. /\ wire' \in Seq(Call) /\ Len(wire') = Len(MainOps(tx))
        /\ \A k \in 1 .. Len(wire') : wire'[k].id = nextId + k - 1
                                     /\ Asks(wire'[k], MainOps(tx)[k])
    BY <1>0, <2>0, MainOpsShape, NumberedCells
  <2>3. TypeOK'
    BY <1>0, <2>0, <2>1, <2>2 DEF ConvInv, TypeOK, RpcTypeOK, Waiting
  <2>4. Numbering'
    BY <1>0, <2>0, <2>1, <2>2 DEF Numbering, Batch, Waiting, Consecutive
  <2>5. Asked' /\ Answered'
    <3>1. UNCHANGED <<tx, NInputs>>
      BY DEF tx, NInputs
    <3>2. /\ Len(wire') = NInputs + Len(tx.deps)
          /\ \A k \in 1 .. NInputs : Asks(wire'[k], tx.inputs[k])
          /\ \A k \in DOMAIN tx.deps : Asks(wire'[NInputs + k], tx.deps[k].op)
      <4>1. /\ NInputs \in Nat /\ Len(tx.deps) \in Nat
            /\ DOMAIN tx.deps = 1 .. Len(tx.deps)
            /\ Len(MainOps(tx)) = NInputs + Len(tx.deps)
        BY <1>0, MainOpsShape, TxShape
      <4>2. \A k \in 1 .. NInputs + Len(tx.deps) : Asks(wire'[k], MainOps(tx)[k])
        BY <2>2, <4>1
      <4>3. \A k \in 1 .. NInputs : Asks(wire'[k], tx.inputs[k])
        BY <1>0, <4>1, <4>2, MainOpsShape
      <4>4. \A k \in 1 .. Len(tx.deps) : Asks(wire'[NInputs + k], tx.deps[k].op)
        BY <1>0, <4>1, <4>2, MainOpsShape
      <4> QED
        BY <2>2, <4>1, <4>3, <4>4
    <3> QED
      BY <1>0, <2>0, <3>1, <3>2 DEF Asked, Answered, Known, Resolving
  <2>6. Offsets'
    BY <2>0 DEF ConvInv, Offsets
  <2> QED
    BY <1>1, <2>3, <2>4, <2>5, <2>6 DEF ConvInv
<1> QED
  BY <1>2, <1>3

--------------------------------------------------------------------------------
LEMMA CellTyped ==
  ASSUME NEW c, Resolvable(c), c.index \in Nat
  PROVE  CellAt(c) \in Cell
<1>1. Chain[c.hash].outputs \in Seq(Cell)
  BY ChainAssumption DEF Resolvable, Tx
<1> QED
  BY <1>1 DEF Resolvable, CellAt

LEMMA AsksSame ==
  ASSUME NEW c, NEW op, Asks(c, op), Resolvable(c)
  PROVE  Resolvable(op) /\ CellAt(op) = CellAt(c)
BY DEF Asks, Resolvable, CellAt

(* A batch of cell calls returns, in order, the cells they name.           *)
LEMMA BatchCells ==
  ASSUME RpcTypeOK, Consecutive(wire), BatchOk,
         \A n \in DOMAIN reply : \E j \in DOMAIN wire : reply[n].about = wire[j],
         \A k \in DOMAIN wire : wire[k].decode = "cell"
  PROVE  /\ BatchResults \in Seq(Cell) /\ Len(BatchResults) = Len(wire)
         /\ \A k \in DOMAIN wire : Resolvable(wire[k]) /\ BatchResults[k] = CellAt(wire[k])
<1>1. \A k \in DOMAIN wire : /\ Resolvable(wire[k]) /\ CellAt(wire[k]) \in Cell
                            /\ BatchResults[k] = CellAt(wire[k])
  BY CellAnswer
<1>2. DOMAIN wire = 1 .. Len(wire) /\ Len(wire) \in Nat
  BY DEF RpcTypeOK
<1>3. BatchResults \in [1 .. Len(wire) -> Cell]
  BY <1>1, <1>2 DEF BatchResults
<1> QED
  BY <1>1, <1>2, <1>3

LEMMA MainResultsConvInv == ASSUME ConvInv, MainResults PROVE ConvInv'
<1>a. /\ pc = "main" /\ pc' = "collect" /\ BatchOk /\ results' = BatchResults
      /\ inputs' = [k \in 1 .. NInputs |-> Entry(tx.inputs[k], results'[k])]
      /\ wire' = <<>> /\ reply' = <<>>
      /\ UNCHANGED <<nextId, hash, subs, subCalls, subResults, subResultIdx, subStart,
                     cellDeps, depIdx, headers>>
  BY DEF MainResults, Close, subVars
<1>0. /\ hash \in DOMAIN Chain /\ RpcTypeOK /\ Consecutive(wire) /\ nextId >= 1
      /\ \A n \in DOMAIN reply : \E j \in DOMAIN wire : reply[n].about = wire[j]
  BY <1>a DEF ConvInv, Asked, Numbering, Known, TypeOK, Batch, Waiting
<1>1. /\ Len(wire) = NInputs + Len(tx.deps)
      /\ \A k \in 1 .. NInputs : Asks(wire[k], tx.inputs[k])
      /\ \A k \in 1 .. Len(tx.deps) : Asks(wire[NInputs + k], tx.deps[k].op)
  BY <1>a, <1>0, TxShape DEF ConvInv, Asked
<1>2. /\ NInputs \in Nat /\ Len(tx.deps) \in Nat /\ DOMAIN wire = 1 .. Len(wire)
      /\ DOMAIN tx.deps = 1 .. Len(tx.deps) /\ NInputs <= Len(tx.inputs)
  BY <1>0, MainOpsShape, TxShape DEF RpcTypeOK
<1>3. \A k \in DOMAIN wire : wire[k].decode = "cell"
  <2> SUFFICES ASSUME NEW k \in DOMAIN wire PROVE wire[k].decode = "cell"
    OBVIOUS
  <2>1. CASE k <= NInputs
    BY <1>1, <1>2, <2>1 DEF Asks
  <2>2. CASE k > NInputs
    <3>1. k - NInputs \in 1 .. Len(tx.deps) /\ NInputs + (k - NInputs) = k
      BY <1>1, <1>2, <2>2
    <3> QED
      BY <1>1, <3>1 DEF Asks
  <2> QED
    BY <1>2, <2>1, <2>2
<1>4. /\ results' \in Seq(Cell) /\ Len(results') = Len(wire)
      /\ \A k \in DOMAIN wire : Resolvable(wire[k]) /\ results'[k] = CellAt(wire[k])
  BY <1>a, <1>0, <1>3, BatchCells
<1>5. \A k \in 1 .. NInputs : Resolvable(tx.inputs[k]) /\ results'[k] = CellAt(tx.inputs[k])
  <2> SUFFICES ASSUME NEW k \in 1 .. NInputs
               PROVE  Resolvable(tx.inputs[k]) /\ results'[k] = CellAt(tx.inputs[k])
    OBVIOUS
  <2>1. k \in DOMAIN wire /\ Asks(wire[k], tx.inputs[k])
    BY <1>1, <1>2
  <2> QED
    BY <1>4, <2>1, AsksSame
<1>6. \A k \in 1 .. Len(tx.deps) : /\ Resolvable(tx.deps[k].op)
                                  /\ results'[NInputs + k] = CellAt(tx.deps[k].op)
  <2> SUFFICES ASSUME NEW k \in 1 .. Len(tx.deps)
               PROVE  /\ Resolvable(tx.deps[k].op)
                      /\ results'[NInputs + k] = CellAt(tx.deps[k].op)
    OBVIOUS
  <2>1. NInputs + k \in DOMAIN wire /\ Asks(wire[NInputs + k], tx.deps[k].op)
    BY <1>1, <1>2
  <2> QED
    BY <1>4, <2>1, AsksSame
<1>7. inputs' \in Seq(InputEntry) /\ DOMAIN inputs' = 1 .. NInputs
  <2>1. \A k \in 1 .. NInputs : tx.inputs[k] \in OutPoint /\ results'[k] \in Cell
    BY <1>0, <1>1, <1>2, <1>4, TxShape
  <2>2. \A k \in 1 .. NInputs : Entry(tx.inputs[k], results'[k]) \in InputEntry
    BY <2>1 DEF Entry, InputEntry
  <2> QED
    BY <1>a, <1>2, <2>2
<1>8. TypeOK'
  BY <1>a, <1>4, <1>7 DEF ConvInv, TypeOK, RpcTypeOK, Waiting
<1>9. UNCHANGED <<tx, NInputs>>
  BY <1>a DEF tx, NInputs
<1>10. Numbering'
  BY <1>a, <1>0 DEF ConvInv, Numbering, Offsets, Batch, Waiting, Consecutive, RpcTypeOK
<1>11. Asked' /\ Answered'
  <2>1. subCalls = <<>>
    BY <1>a DEF ConvInv, Offsets
  <2>2. \A k \in DOMAIN tx.deps : Resolvable(tx.deps[k].op)' /\ CellAt(tx.deps[k].op)'
                                                           = CellAt(tx.deps[k].op)
    BY <1>2, <1>6, <1>9 DEF Resolvable, CellAt
  <2>3. \A k \in DOMAIN tx.deps : MainResult(k)' = CellAt(tx.deps[k].op)
    BY <1>2, <1>6, <1>9 DEF MainResult
  <2> QED
    BY <1>a, <1>0, <1>9, <2>1, <2>2, <2>3 DEF Asked, Answered, Known, Resolving
<1>12. Offsets'
  BY <1>a, <1>2, <1>9 DEF ConvInv, Offsets
<1>13. EntriesMatchChain'
  BY <1>a, <1>5, <1>7 DEF ConvInv, EntriesMatchChain, Resolvable, CellAt, Entry
<1> QED
  BY <1>8, <1>10, <1>11, <1>12, <1>13 DEF ConvInv

--------------------------------------------------------------------------------
LEMMA CollectDepConvInv == ASSUME ConvInv, CollectDep PROVE ConvInv'
<1> DEFINE k     == Len(subs) + 1
           m     == Members(k)
           calls == NumberedFrom(nextId, CellCalls(m))
<1>a. /\ pc = "collect" /\ Len(subs) < Len(tx.deps)
      /\ tx.deps[k].group => MainResult(k).data \in DOMAIN Groups
      /\ subs' = Append(subs, m) /\ subStart' = Append(subStart, Len(subCalls))
      /\ subCalls' = subCalls \o calls /\ nextId' = nextId + Len(m)
      /\ UNCHANGED <<wire, reply, pc, hash, results, subResults, subResultIdx,
                     inputs, cellDeps, depIdx, headers>>
  BY DEF CollectDep, mockVars
<1>0. /\ hash \in DOMAIN Chain /\ Consecutive(subCalls) /\ nextId \in Nat /\ nextId >= 1
      /\ subs \in Seq(Seq(OutPoint)) /\ subStart \in Seq(Nat) /\ subCalls \in Seq(Call)
  BY <1>a DEF ConvInv, Asked, Numbering, Known, Resolving, TypeOK, RpcTypeOK
<1>1. m \in Seq(OutPoint)
  BY <1>a, ChainAssumption, EmptySeq DEF Members
<1> HIDE DEF m
<1>2. /\ calls \in Seq(Call) /\ Len(calls) = Len(m)
      /\ \A j \in 1 .. Len(m) : calls[j].id = nextId + j - 1 /\ Asks(calls[j], m[j])
  BY <1>0, <1>1, NumberedCells
<1> HIDE DEF calls
<1>3. Len(m) \in Nat /\ Len(subs) \in Nat /\ Len(subCalls) \in Nat /\ Len(calls) \in Nat
  BY <1>0, <1>1, <1>2
<1>4. /\ subCalls' \in Seq(Call) /\ Len(subCalls') = Len(subCalls) + Len(m)
      /\ DOMAIN subCalls' = 1 .. Len(subCalls')
      /\ \A i \in 1 .. Len(subCalls) : subCalls'[i] = subCalls[i]
      /\ \A j \in 1 .. Len(m) : subCalls'[Len(subCalls) + j] = calls[j]
  <2>1. /\ subCalls \in Seq(Call) /\ calls \in Seq(Call) /\ Len(calls) = Len(m)
    BY <1>0, <1>2
  <2>2. /\ subCalls \o calls \in Seq(Call)
        /\ Len(subCalls \o calls) = Len(subCalls) + Len(calls)
        /\ \A i \in 1 .. Len(subCalls) : (subCalls \o calls)[i] = subCalls[i]
        /\ \A j \in 1 .. Len(calls) : (subCalls \o calls)[Len(subCalls) + j] = calls[j]
    BY <2>1
  <2>3. DOMAIN (subCalls \o calls) = 1 .. Len(subCalls \o calls)
    BY <2>2
  <2> QED
    BY <1>a, <2>1, <2>2, <2>3
<1>5. /\ subs' \in Seq(Seq(OutPoint)) /\ Len(subs') = k /\ DOMAIN subs' = 1 .. k
      /\ \A i \in 1 .. Len(subs) : subs'[i] = subs[i]
      /\ subs'[k] = m
  BY <1>a, <1>0, <1>1
<1>6. /\ subStart' \in Seq(Nat) /\ Len(subStart') = Len(subStart) + 1
      /\ \A i \in 1 .. Len(subStart) : subStart'[i] = subStart[i]
      /\ subStart'[Len(subStart) + 1] = Len(subCalls)
  BY <1>a, <1>0, <1>3
<1>7. Len(subStart) = Len(subs)
  BY <1>a DEF ConvInv, Offsets
<1>8. UNCHANGED <<tx, NInputs>>
  BY <1>a DEF tx, NInputs
<1>9. TypeOK'
  BY <1>a, <1>0, <1>3, <1>4, <1>5, <1>6 DEF ConvInv, TypeOK, RpcTypeOK
<1>10. Numbering'
  <2>1. 1 <= nextId' - Len(subCalls')
    BY <1>a, <1>0, <1>3, <1>4 DEF Consecutive
  <2>2. ASSUME NEW i \in 1 .. Len(subCalls')
        PROVE  subCalls'[i].id = nextId' - Len(subCalls') + i - 1
    <3>1. CASE i <= Len(subCalls)
      <4>1. i \in DOMAIN subCalls /\ subCalls'[i] = subCalls[i]
        BY <1>0, <1>3, <1>4, <3>1
      <4>2. subCalls[i].id = nextId - Len(subCalls) + i - 1
        BY <1>0, <4>1 DEF Consecutive
      <4> QED
        BY <1>a, <1>0, <1>3, <1>4, <4>1, <4>2
    <3>2. CASE i > Len(subCalls)
      <4>1. /\ i - Len(subCalls) \in 1 .. Len(m)
            /\ Len(subCalls) + (i - Len(subCalls)) = i
        BY <1>3, <1>4, <3>2
      <4>2. subCalls'[i] = calls[i - Len(subCalls)]
        BY <1>4, <4>1
      <4> QED
        BY <1>a, <1>0, <1>2, <1>3, <1>4, <4>1, <4>2
    <3> QED
      BY <1>3, <3>1, <3>2
  <2>3. Consecutive(subCalls)'
    BY <1>4, <2>1, <2>2 DEF Consecutive
  <2>4. nextId' >= 1
    BY <1>a, <1>0, <1>3
  <2> QED
    BY <1>a, <2>3, <2>4 DEF Numbering, Batch, Waiting
<1>11. Asked' /\ Answered'
  <2>1. \A i \in DOMAIN subCalls' : subCalls'[i].decode = "cell"
    <3> SUFFICES ASSUME NEW i \in 1 .. Len(subCalls') PROVE subCalls'[i].decode = "cell"
      BY <1>4
    <3>1. CASE i <= Len(subCalls)
      BY <1>a, <1>0, <1>3, <1>4, <3>1 DEF ConvInv, Asked
    <3>2. CASE i > Len(subCalls)
      <4>1. /\ i - Len(subCalls) \in 1 .. Len(m)
            /\ Len(subCalls) + (i - Len(subCalls)) = i
        BY <1>3, <1>4, <3>2
      <4> QED
        BY <1>2, <1>4, <4>1 DEF Asks
    <3> QED
      BY <1>3, <3>1, <3>2
  <2>2. \A j \in DOMAIN tx.deps :
          /\ Resolvable(tx.deps[j].op)' <=> Resolvable(tx.deps[j].op)
          /\ MainResult(j)' = MainResult(j) /\ CellAt(tx.deps[j].op)' = CellAt(tx.deps[j].op)
    BY <1>a, <1>8 DEF Resolvable, MainResult, CellAt
  <2> QED
    BY <1>a, <1>8, <2>1, <2>2 DEF ConvInv, Asked, Answered, Known, Resolving
<1>12. Offsets'
  <2>1. Len(subs') <= Len(tx.deps) /\ Len(subs') # 0 /\ Len(subStart') = Len(subs')
    <3>1. Len(tx.deps) \in Nat
      BY <1>0, TxShape
    <3> QED
      BY <1>a, <1>3, <1>5, <1>6, <1>7, <3>1
  <2>2. subStart'[1] = 0
    BY <1>a, <1>3, <1>6, <1>7 DEF ConvInv, Offsets
  <2>3. ASSUME NEW i \in 1 .. k
        PROVE  /\ subStart'[i] + Len(subs'[i]) =
                     IF i = Len(subs') THEN Len(subCalls') ELSE subStart'[i + 1]
               /\ \A j \in DOMAIN subs'[i] :
                    /\ subStart'[i] + j \in DOMAIN subCalls'
                    /\ Asks(subCalls'[subStart'[i] + j], subs'[i][j])
    <3>1. CASE i = k
      <4>1. subStart'[i] = Len(subCalls) /\ subs'[i] = m /\ DOMAIN m = 1 .. Len(m)
        BY <1>1, <1>5, <1>6, <1>7, <3>1
      <4>2. subStart'[i] + Len(subs'[i]) = Len(subCalls') /\ i = Len(subs')
        BY <1>4, <1>5, <3>1, <4>1
      <4>3. ASSUME NEW j \in 1 .. Len(m)
            PROVE  /\ Len(subCalls) + j \in DOMAIN subCalls'
                   /\ Asks(subCalls'[Len(subCalls) + j], m[j])
        <5>1. Len(subCalls) + j \in DOMAIN subCalls'
          BY <1>3, <1>4
        <5>2. subCalls'[Len(subCalls) + j] = calls[j] /\ Asks(calls[j], m[j])
          BY <1>2, <1>4
        <5> QED
          BY <5>1, <5>2
      <4> QED
        BY <4>1, <4>2, <4>3
    <3>2. CASE i <= Len(subs)
      <4>1. /\ subStart'[i] = subStart[i] /\ subs'[i] = subs[i] /\ i \in DOMAIN subs
            /\ i # Len(subs')
        <5>1. i \in 1 .. Len(subs) /\ i \in 1 .. Len(subStart) /\ i # k
          BY <1>3, <1>7, <3>2
        <5>2. i \in DOMAIN subs
          BY <1>0, <5>1
        <5>3. subStart'[i] = subStart[i] /\ subs'[i] = subs[i] /\ i # Len(subs')
          BY <1>5, <1>6, <5>1
        <5> QED
          BY <5>2, <5>3
      <4>2. /\ subStart[i] + Len(subs[i]) =
                 IF i = Len(subs) THEN Len(subCalls) ELSE subStart[i + 1]
            /\ \A j \in DOMAIN subs[i] : /\ subStart[i] + j \in DOMAIN subCalls
                                         /\ Asks(subCalls[subStart[i] + j], subs[i][j])
        BY <1>a, <4>1 DEF ConvInv, Offsets
      <4>3. subStart'[i + 1] = IF i = Len(subs) THEN Len(subCalls) ELSE subStart[i + 1]
        <5>1. CASE i = Len(subs)
          BY <1>6, <1>7, <5>1
        <5>2. CASE i # Len(subs)
          <6>1. i + 1 \in 1 .. Len(subStart)
            BY <1>3, <1>7, <3>2, <5>2
          <6> QED
            BY <1>6, <5>2, <6>1
        <5> QED
          BY <5>1, <5>2
      <4>4. \A n \in DOMAIN subCalls : n \in DOMAIN subCalls' /\ subCalls'[n] = subCalls[n]
        <5>1. DOMAIN subCalls = 1 .. Len(subCalls)
          BY <1>0
        <5>2. \A n \in 1 .. Len(subCalls) : n \in 1 .. Len(subCalls')
          BY <1>3, <1>4
        <5> QED
          BY <1>4, <5>1, <5>2
      <4> QED
        BY <4>1, <4>2, <4>3, <4>4
    <3> QED
      BY <1>3, <3>1, <3>2
  <2> QED
    <3>1. depIdx' = 0 /\ subResultIdx' = 0
      BY <1>a DEF ConvInv, Offsets
    <3>2. \A i \in DOMAIN subs' :
            /\ subStart'[i] + Len(subs'[i]) =
                 IF i = Len(subs') THEN Len(subCalls') ELSE subStart'[i + 1]
            /\ \A j \in DOMAIN subs'[i] : /\ subStart'[i] + j \in DOMAIN subCalls'
                                          /\ Asks(subCalls'[subStart'[i] + j], subs'[i][j])
      BY <1>5, <2>3
    <3>3. Len(tx.deps)' = Len(tx.deps) /\ pc' = "collect"
      BY <1>a, <1>8
    <3> QED
      BY <2>1, <2>2, <3>1, <3>2, <3>3 DEF Offsets
<1>13. EntriesMatchChain'
  BY <1>a DEF ConvInv, EntriesMatchChain, Resolvable, CellAt
<1> QED
  BY <1>9, <1>10, <1>11, <1>12, <1>13 DEF ConvInv

LEMMA MalformedGroupConvInv == ASSUME ConvInv, MalformedGroup PROVE ConvInv'
BY FailConvInv DEF MalformedGroup

LEMMA ResolveMembersConvInv == ASSUME ConvInv, ResolveMembers PROVE ConvInv'
<1>a. /\ pc = "collect" /\ Len(subs) = Len(tx.deps)
      /\ UNCHANGED <<nextId, hash, results, subs, subCalls, subResults, subResultIdx,
                     subStart, inputs, cellDeps, depIdx, headers, tx>>
      /\ \/ subCalls = <<>> /\ pc' = "assemble" /\ wire' = wire /\ reply' = reply
         \/ pc' = "sub" /\ wire' = subCalls /\ reply' = <<>>
  BY DEF ResolveMembers, PostBuilt, rpcVars, subVars, mockVars, tx
<1>1. TypeOK'
  <2>1. wire \in Seq(Call) /\ reply \in Seq(Response) /\ subCalls \in Seq(Call)
    BY DEF ConvInv, TypeOK, RpcTypeOK
  <2>2. wire' \in Seq(Call) /\ reply' \in Seq(Response)
    BY <1>a, <2>1, EmptySeq
  <2> QED
    BY <1>a, <2>2 DEF ConvInv, TypeOK, RpcTypeOK, Waiting
<1>2. Numbering'
  BY <1>a DEF ConvInv, Numbering, Batch, Waiting, Consecutive
<1>3. Asked'
  BY <1>a DEF ConvInv, Asked, Known, Resolving
<1>4. Answered'
  <2>1. \A j \in DOMAIN tx.deps :
          /\ Resolvable(tx.deps[j].op)' <=> Resolvable(tx.deps[j].op)
          /\ MainResult(j)' = MainResult(j) /\ CellAt(tx.deps[j].op)' = CellAt(tx.deps[j].op)
    BY <1>a DEF Resolvable, MainResult, CellAt, NInputs
  <2> QED
    BY <1>a, <2>1 DEF ConvInv, Answered, Resolving
<1>5. Offsets'
  <2>1. Len(tx.deps) \in Nat
    BY <1>a, TxShape DEF ConvInv, Asked, Known, Resolving
  <2>2. depIdx < Len(subs) => subResultIdx = subStart[depIdx + 1]
    BY <1>a, <2>1 DEF ConvInv, Offsets
  <2> QED
    BY <1>a, <2>1, <2>2 DEF ConvInv, Offsets, Asks
<1>6. EntriesMatchChain'
  BY <1>a DEF ConvInv, EntriesMatchChain, Resolvable, CellAt
<1> QED
  BY <1>1, <1>2, <1>3, <1>4, <1>5, <1>6 DEF ConvInv

LEMMA MemberResultsConvInv == ASSUME ConvInv, MemberResults PROVE ConvInv'
<1>a. /\ pc = "sub" /\ pc' = "assemble" /\ BatchOk /\ subResults' = BatchResults
      /\ wire' = <<>> /\ reply' = <<>>
      /\ UNCHANGED <<nextId, hash, results, subs, subCalls, subResultIdx,
                     subStart, inputs, cellDeps, depIdx, headers, tx>>
  BY DEF MemberResults, Close, mockVars, tx
<1>0. /\ hash \in DOMAIN Chain /\ RpcTypeOK /\ Consecutive(wire) /\ nextId >= 1
      /\ wire = subCalls /\ \A k \in DOMAIN wire : wire[k].decode = "cell"
      /\ \A n \in DOMAIN reply : \E j \in DOMAIN wire : reply[n].about = wire[j]
  BY <1>a DEF ConvInv, Asked, Numbering, Known, Resolving, TypeOK, Batch, Waiting
<1>1. /\ subResults' \in Seq(Cell)
      /\ \A k \in DOMAIN wire : Resolvable(wire[k]) /\ subResults'[k] = CellAt(wire[k])
  BY <1>a, <1>0, BatchCells
<1>2. TypeOK'
  BY <1>a, <1>1 DEF ConvInv, TypeOK, RpcTypeOK
<1>3. Numbering' /\ Asked'
  BY <1>a, <1>0 DEF ConvInv, Numbering, Asked, Known, Resolving, Batch, Waiting
<1>4. Answered'
  <2>1. \A j \in DOMAIN tx.deps :
          /\ Resolvable(tx.deps[j].op)' <=> Resolvable(tx.deps[j].op)
          /\ MainResult(j)' = MainResult(j) /\ CellAt(tx.deps[j].op)' = CellAt(tx.deps[j].op)
    BY <1>a DEF Resolvable, MainResult, CellAt, NInputs
  <2>2. \A i \in DOMAIN subCalls : /\ Resolvable(subCalls[i])'
                                  /\ subResults'[i] = CellAt(subCalls[i])'
    BY <1>a, <1>0, <1>1 DEF Resolvable, CellAt
  <2> QED
    BY <1>a, <2>1, <2>2 DEF ConvInv, Answered, Resolving
<1>5. Offsets'
  <2>1. Len(tx.deps) \in Nat
    BY <1>0, TxShape
  <2>2. depIdx < Len(subs) => subResultIdx = subStart[depIdx + 1]
    BY <1>a, <2>1 DEF ConvInv, Offsets
  <2> QED
    BY <1>a, <2>1, <2>2 DEF ConvInv, Offsets, Asks
<1>6. EntriesMatchChain'
  BY <1>a DEF ConvInv, EntriesMatchChain, Resolvable, CellAt
<1> QED
  BY <1>2, <1>3, <1>4, <1>5, <1>6 DEF ConvInv

--------------------------------------------------------------------------------
(* The slice of sub_results that starts at sub_result_idx belongs to the   *)
(* dep being pushed: this is what Offsets is for.                          *)
LEMMA PushDepConvInv == ASSUME ConvInv, PushDep PROVE ConvInv'
<1> DEFINE k == depIdx + 1
<1>a. /\ pc = "assemble" /\ depIdx < Len(tx.deps)
      /\ cellDeps' = cellDeps \o PushedBy(k)
      /\ subResultIdx' = subResultIdx + Len(subs[k]) /\ depIdx' = k
      /\ UNCHANGED <<nextId, wire, reply, pc, hash, results, subs, subCalls, subResults,
                     subStart, inputs, headers, tx>>
  BY DEF PushDep, rpcVars, tx
<1>0. /\ hash \in DOMAIN Chain /\ depIdx \in Nat /\ cellDeps \in Seq(CellDepEntry)
      /\ subs \in Seq(Seq(OutPoint)) /\ subStart \in Seq(Nat) /\ subResultIdx \in Nat
      /\ Len(subs) = Len(tx.deps) /\ Len(tx.deps) \in Nat /\ Len(subStart) = Len(subs)
  BY <1>a, TxShape DEF ConvInv, Asked, Known, Resolving, TypeOK, Offsets
<1>1. k \in DOMAIN subs /\ k \in DOMAIN tx.deps /\ k \in 1 .. Len(subs)
  <2>1. k \in 1 .. Len(subs)
    BY <1>a, <1>0
  <2>2. DOMAIN subs = 1 .. Len(subs)
    BY <1>0
  <2>3. DOMAIN tx.deps = 1 .. Len(tx.deps)
    BY <1>0, TxShape
  <2> QED
    BY <1>0, <2>1, <2>2, <2>3
<1>2. /\ subResultIdx = subStart[k]
      /\ subStart[k] + Len(subs[k]) =
           IF k = Len(subs) THEN Len(subCalls) ELSE subStart[k + 1]
      /\ \A j \in DOMAIN subs[k] : /\ subStart[k] + j \in DOMAIN subCalls
                                   /\ Asks(subCalls[subStart[k] + j], subs[k][j])
  BY <1>a, <1>0, <1>1 DEF ConvInv, Offsets
<1>3. subs[k] \in Seq(OutPoint) /\ tx.deps[k] \in Dep
  BY <1>0, <1>1, TxShape
<1>4. \A j \in DOMAIN subs[k] :
        /\ Resolvable(subs[k][j]) /\ subs[k][j] \in OutPoint
        /\ subResults[subResultIdx + j] = CellAt(subs[k][j])
        /\ CellAt(subs[k][j]) \in Cell
  <2> SUFFICES ASSUME NEW j \in DOMAIN subs[k]
               PROVE  /\ Resolvable(subs[k][j]) /\ subs[k][j] \in OutPoint
                      /\ subResults[subResultIdx + j] = CellAt(subs[k][j])
                      /\ CellAt(subs[k][j]) \in Cell
    OBVIOUS
  <2> DEFINE c == subCalls[subStart[k] + j]
  <2>1. Asks(c, subs[k][j]) /\ Resolvable(c) /\ subResults[subResultIdx + j] = CellAt(c)
    BY <1>a, <1>2 DEF ConvInv, Answered
  <2>2. Resolvable(subs[k][j]) /\ CellAt(subs[k][j]) = CellAt(c)
    BY <2>1, AsksSame
  <2>3. subs[k][j] \in OutPoint /\ subs[k][j].index \in Nat
    <3>1. subs[k][j] \in OutPoint
      BY <1>3
    <3> QED
      BY <3>1 DEF OutPoint
  <2> QED
    BY <2>1, <2>2, <2>3, CellTyped
<1>5. /\ Resolvable(tx.deps[k].op) /\ MainResult(k) = CellAt(tx.deps[k].op)
      /\ CellAt(tx.deps[k].op) \in Cell
  <2>1. Resolvable(tx.deps[k].op) /\ MainResult(k) = CellAt(tx.deps[k].op)
    BY <1>a, <1>1 DEF ConvInv, Answered, Resolving
  <2>2. tx.deps[k].op.index \in Nat
    BY <1>3 DEF Dep, OutPoint
  <2> QED
    BY <2>1, <2>2, CellTyped
<1>6. /\ PushedBy(k) \in Seq(CellDepEntry)
      /\ \A i \in DOMAIN PushedBy(k) : /\ Resolvable(PushedBy(k)[i].op)
                                       /\ PushedBy(k)[i].cell = CellAt(PushedBy(k)[i].op)
  <2> DEFINE own == DepEntry(tx.deps[k].op, MainResult(k), tx.deps[k].group)
             mem == MemberEntries(k)
  <2>1. own \in CellDepEntry /\ Resolvable(own.op) /\ own.cell = CellAt(own.op)
    BY <1>3, <1>5 DEF DepEntry, CellDepEntry, Dep
  <2>2. DOMAIN subs[k] = 1 .. Len(subs[k]) /\ Len(subs[k]) \in Nat
    BY <1>3
  <2>3. \A j \in 1 .. Len(subs[k]) :
          mem[j] \in CellDepEntry /\ Resolvable(mem[j].op) /\ mem[j].cell = CellAt(mem[j].op)
    BY <1>4, <2>2 DEF MemberEntries, DepEntry, CellDepEntry
  <2>4. mem \in Seq(CellDepEntry) /\ Len(mem) = Len(subs[k])
    <3>1. mem \in [1 .. Len(subs[k]) -> CellDepEntry]
      BY <2>2, <2>3 DEF MemberEntries
    <3> QED
      BY <2>2, <3>1
  <2>5. PushedBy(k) = <<own>> \o mem
    BY DEF PushedBy
  <2> HIDE DEF own, mem
  <2>6. /\ <<own>> \o mem \in Seq(CellDepEntry) /\ Len(<<own>> \o mem) = 1 + Len(mem)
        /\ (<<own>> \o mem)[1] = own
        /\ \A j \in 1 .. Len(mem) : (<<own>> \o mem)[1 + j] = mem[j]
    BY <2>1, <2>4
  <2>7. ASSUME NEW i \in 1 .. 1 + Len(mem)
        PROVE  i = 1 \/ \E j \in 1 .. Len(mem) : i = 1 + j
    <3>1. CASE i # 1
      <4>1. i - 1 \in 1 .. Len(mem) /\ i = 1 + (i - 1)
        BY <2>2, <2>4, <3>1
      <4> QED
        BY <4>1
    <3> QED
      BY <3>1
  <2>8. ASSUME NEW i \in 1 .. 1 + Len(mem)
        PROVE  /\ Resolvable((<<own>> \o mem)[i].op)
               /\ (<<own>> \o mem)[i].cell = CellAt((<<own>> \o mem)[i].op)
    BY <2>1, <2>3, <2>4, <2>6, <2>7
  <2>9. DOMAIN (<<own>> \o mem) = 1 .. 1 + Len(mem)
    BY <2>6
  <2> QED
    BY <2>5, <2>6, <2>8, <2>9
<1> DEFINE new == PushedBy(k)
<1> HIDE DEF new
<1>7. /\ cellDeps \o new \in Seq(CellDepEntry)
      /\ DOMAIN (cellDeps \o new) = 1 .. Len(cellDeps) + Len(new)
      /\ \A i \in 1 .. Len(cellDeps) : (cellDeps \o new)[i] = cellDeps[i]
      /\ \A i \in 1 .. Len(new) : (cellDeps \o new)[Len(cellDeps) + i] = new[i]
  <2>1. cellDeps \in Seq(CellDepEntry) /\ new \in Seq(CellDepEntry)
    BY <1>0, <1>6 DEF new
  <2> QED
    BY <2>1
<1>8. TypeOK'
  <2>1. subResultIdx' \in Nat /\ depIdx' \in Nat
    BY <1>a, <1>0, <1>3
  <2> QED
    BY <1>a, <1>7, <2>1 DEF ConvInv, TypeOK, RpcTypeOK, new
<1>9. Numbering' /\ Asked'
  BY <1>a DEF ConvInv, Numbering, Asked, Batch, Known, Resolving, Waiting
<1>10. Answered'
  <2>1. \A j \in DOMAIN tx.deps :
          /\ Resolvable(tx.deps[j].op)' <=> Resolvable(tx.deps[j].op)
          /\ MainResult(j)' = MainResult(j) /\ CellAt(tx.deps[j].op)' = CellAt(tx.deps[j].op)
    BY <1>a DEF Resolvable, MainResult, CellAt, NInputs
  <2>2. \A i \in DOMAIN subCalls :
          /\ Resolvable(subCalls[i])' <=> Resolvable(subCalls[i])
          /\ CellAt(subCalls[i])' = CellAt(subCalls[i])
    BY <1>a DEF Resolvable, CellAt
  <2> QED
    BY <1>a, <2>1, <2>2 DEF ConvInv, Answered
<1>11. Offsets'
  <2>1. depIdx' <= Len(subs') /\ (depIdx' < Len(subs') => subResultIdx' = subStart'[depIdx' + 1])
    BY <1>a, <1>0, <1>1, <1>2
  <2> QED
    BY <1>a, <2>1 DEF ConvInv, Offsets, Asks
<1>12. EntriesMatchChain'
  <2>1. ASSUME NEW i \in DOMAIN cellDeps'
        PROVE  Resolvable(cellDeps'[i].op) /\ cellDeps'[i].cell = CellAt(cellDeps'[i].op)
    <3>1. Len(cellDeps) \in Nat /\ Len(new) \in Nat /\ cellDeps' = cellDeps \o new
          /\ DOMAIN cellDeps = 1 .. Len(cellDeps) /\ DOMAIN new = 1 .. Len(new)
      BY <1>a, <1>0, <1>6 DEF new
    <3>2. CASE i <= Len(cellDeps)
      BY <1>7, <3>1, <3>2 DEF ConvInv, EntriesMatchChain
    <3>3. CASE i > Len(cellDeps)
      <4>1. /\ i - Len(cellDeps) \in 1 .. Len(new)
            /\ Len(cellDeps) + (i - Len(cellDeps)) = i
        BY <1>7, <3>1, <3>3
      <4>2. cellDeps'[i] = new[i - Len(cellDeps)]
        BY <1>7, <3>1, <4>1
      <4> QED
        BY <1>6, <3>1, <4>1, <4>2 DEF new
    <3> QED
      BY <1>7, <3>1, <3>2, <3>3
  <2> QED
    BY <1>a, <2>1 DEF ConvInv, EntriesMatchChain, Resolvable, CellAt
<1> QED
  BY <1>8, <1>9, <1>10, <1>11, <1>12 DEF ConvInv

--------------------------------------------------------------------------------
LEMMA ResolveHeadersConvInv == ASSUME ConvInv, ResolveHeaders PROVE ConvInv'
<1> DEFINE asks == [k \in DOMAIN tx.headers |-> HeaderCall(tx.headers[k])]
<1>a. /\ pc = "assemble" /\ nextId \in Nat /\ nextId >= 1 /\ hash \in DOMAIN Chain
      /\ UNCHANGED <<hash, results, subs, subCalls, subResults, subResultIdx,
                     subStart, inputs, cellDeps, depIdx, headers, tx>>
  BY DEF ResolveHeaders, subVars, mockVars, tx, ConvInv, Numbering, Asked, Known, Resolving,
         TypeOK, RpcTypeOK
<1>0. EntriesMatchChain'
  BY <1>a DEF ConvInv, EntriesMatchChain, Resolvable, CellAt
<1>1. CASE pc' = "done" /\ UNCHANGED rpcVars
  <2>1. TypeOK'
    BY <1>a, <1>1 DEF ConvInv, TypeOK, RpcTypeOK, rpcVars, Terminal
  <2>2. Numbering' /\ Asked' /\ Answered' /\ Offsets'
    BY <1>a, <1>1 DEF Numbering, Asked, Answered, Offsets, Batch, Known, Resolving, Waiting
  <2> QED
    BY <1>0, <2>1, <2>2 DEF ConvInv
<1>2. CASE pc' = "header" /\ Post(asks)
  <2>0. /\ wire' = NumberedFrom(nextId, asks) /\ nextId' = nextId + Len(asks)
        /\ reply' = <<>> /\ pc' = "header"
    BY <1>2 DEF Post
  <2>1. /\ Len(tx.headers) \in Nat /\ DOMAIN tx.headers = 1 .. Len(tx.headers)
        /\ \A k \in 1 .. Len(tx.headers) : tx.headers[k] \in BlockHash
    BY <1>a, TxShape
  <2>2. Len(asks) = Len(tx.headers) /\ DOMAIN asks = 1 .. Len(tx.headers)
    BY <2>1
  <2>3. wire' = [k \in 1 .. Len(tx.headers) |->
                   [id |-> nextId + k - 1, decode |-> "header",
                    hash |-> tx.headers[k], index |-> 0]]
    BY <2>0, <2>1 DEF NumberedFrom, HeaderCall
  <2> HIDE DEF asks
  <2>4. wire' \in [1 .. Len(tx.headers) -> Call]
    <3>1. \A k \in 1 .. Len(tx.headers) : nextId + k - 1 \in Nat
      BY <1>a, <2>1
    <3> QED
      BY <2>1, <2>3, <3>1 DEF Call
  <2>5. /\ wire' \in Seq(Call) /\ Len(wire') = Len(tx.headers)
        /\ DOMAIN wire' = 1 .. Len(tx.headers)
    BY <2>1, <2>4
  <2>6. TypeOK'
    BY <1>a, <2>0, <2>1, <2>2, <2>5 DEF ConvInv, TypeOK, RpcTypeOK, Waiting
  <2>7. Numbering'
    <3>1. nextId' = nextId + Len(wire') /\ 1 <= nextId' - Len(wire')
      BY <1>a, <2>0, <2>1, <2>2, <2>5
    <3>2. \A k \in DOMAIN wire' : wire'[k].id = nextId + k - 1
      BY <2>3
    <3>3. Consecutive(wire)'
      BY <1>a, <2>1, <2>5, <3>1, <3>2 DEF Consecutive
    <3> QED
      BY <1>a, <2>0, <2>1, <2>2, <3>3 DEF Numbering, Batch, Waiting
  <2>8. Asked'
    BY <1>a, <2>0, <2>3, <2>5 DEF Asked
  <2>9. Answered'
    <3>1. \A j \in DOMAIN tx.deps :
            /\ Resolvable(tx.deps[j].op)' <=> Resolvable(tx.deps[j].op)
            /\ MainResult(j)' = MainResult(j) /\ CellAt(tx.deps[j].op)' = CellAt(tx.deps[j].op)
      BY <1>a DEF Resolvable, MainResult, CellAt, NInputs
    <3> QED
      BY <1>a, <2>0, <3>1 DEF ConvInv, Answered, Resolving
  <2>10. Offsets'
    BY <2>0 DEF Offsets
  <2> QED
    BY <1>0, <2>6, <2>7, <2>8, <2>9, <2>10 DEF ConvInv
<1> QED
  BY <1>1, <1>2 DEF ResolveHeaders

LEMMA HeaderResultsConvInv == ASSUME ConvInv, HeaderResults PROVE ConvInv'
<1>a. /\ pc = "header" /\ pc' = "done" /\ BatchOk /\ headers' = BatchResults
      /\ wire' = <<>> /\ reply' = <<>>
      /\ UNCHANGED <<nextId, hash, results, subs, subCalls, subResults, subResultIdx,
                     subStart, inputs, cellDeps, depIdx>>
  BY DEF HeaderResults, Close, subVars
<1>0. /\ RpcTypeOK /\ Consecutive(wire)
      /\ \A k \in DOMAIN wire : wire[k].decode = "header"
      /\ \A n \in DOMAIN reply : \E j \in DOMAIN wire : reply[n].about = wire[j]
  BY <1>a DEF ConvInv, Asked, Numbering, TypeOK, Batch, Waiting
<1>1. headers' \in Seq(BlockHash)
  <2>1. ASSUME NEW k \in DOMAIN wire PROVE BatchResults[k] \in BlockHash
    <3>1. ById(wire[k].id).about = wire[k]
      BY <1>a, <1>0, BatchAnswers
    <3>2. wire[k] \in Call /\ wire[k].decode = "header"
      BY <1>0 DEF RpcTypeOK
    <3>3. wire[k].hash \in BlockHash
      BY <3>2 DEF Call
    <3> QED
      BY <3>1, <3>2, <3>3 DEF BatchResults, Decoded
  <2>2. DOMAIN wire = 1 .. Len(wire) /\ Len(wire) \in Nat
    BY <1>0 DEF RpcTypeOK
  <2>3. BatchResults \in [1 .. Len(wire) -> BlockHash]
    BY <2>1, <2>2 DEF BatchResults
  <2> QED
    BY <1>a, <2>2, <2>3
<1>2. TypeOK'
  BY <1>a, <1>1 DEF ConvInv, TypeOK, RpcTypeOK, Terminal
<1>3. Numbering' /\ Asked' /\ Answered' /\ Offsets'
  BY <1>a DEF Numbering, Asked, Answered, Offsets, Batch, Known, Resolving, Waiting
<1>4. EntriesMatchChain'
  BY <1>a DEF ConvInv, EntriesMatchChain, Resolvable, CellAt
<1> QED
  BY <1>2, <1>3, <1>4 DEF ConvInv

LEMMA NodeRespondsConvInv == ASSUME ConvInv, NodeResponds PROVE ConvInv'
<1>a. /\ pc \in Waiting
      /\ UNCHANGED <<nextId, wire, pc, hash, results, subs, subCalls, subResults,
                     subResultIdx, subStart, inputs, cellDeps, depIdx, headers>>
  BY DEF NodeResponds, Respond, subVars, mockVars
<1>1. PICK j \in DOMAIN wire, tagged \in BOOLEAN, good \in BOOLEAN :
        reply' = Append(reply, [about |-> wire[j], tagged |-> tagged, good |-> good])
  BY DEF NodeResponds, Respond
<1> DEFINE r == [about |-> wire[j], tagged |-> tagged, good |-> good]
<1>2. r \in Response /\ reply \in Seq(Response)
  BY DEF ConvInv, TypeOK, RpcTypeOK, Response
<1>3. r.about = wire[j]
  OBVIOUS
<1> HIDE DEF r
<1>4. /\ Append(reply, r) \in Seq(Response) /\ Len(reply) \in Nat
      /\ DOMAIN Append(reply, r) = 1 .. Len(reply) + 1 /\ DOMAIN reply = 1 .. Len(reply)
      /\ \A n \in 1 .. Len(reply) : Append(reply, r)[n] = reply[n]
      /\ Append(reply, r)[Len(reply) + 1] = r
  BY <1>2
<1>5. reply' = Append(reply, r)
  BY <1>1 DEF r
<1>6. TypeOK'
  BY <1>a, <1>4, <1>5 DEF ConvInv, TypeOK, RpcTypeOK
<1>7. \A n \in DOMAIN reply' : \E k \in DOMAIN wire : reply'[n].about = wire[k]
  <2> SUFFICES ASSUME NEW n \in 1 .. Len(reply) + 1
               PROVE  \E k \in DOMAIN wire : reply'[n].about = wire[k]
    BY <1>4, <1>5
  <2>1. CASE n = Len(reply) + 1
    BY <1>3, <1>4, <1>5, <2>1
  <2>2. CASE n # Len(reply) + 1
    <3>1. n \in DOMAIN reply /\ reply'[n] = reply[n]
      BY <1>4, <1>5, <2>2
    <3> QED
      BY <1>a, <3>1 DEF ConvInv, Numbering
  <2> QED
    BY <2>1, <2>2
<1>8. Numbering'
  <2>1. pc' = "fetch" => Len(wire') = 1 /\ wire'[1].decode = "transaction"
                         /\ wire'[1].hash = hash'
    BY <1>a DEF ConvInv, Numbering
  <2> QED
    BY <1>a, <1>7, <2>1 DEF ConvInv, Numbering, Batch, Waiting, Consecutive
<1>9. Asked'
  BY <1>a DEF ConvInv, Asked, Known, Resolving, Asks, tx, NInputs
<1>10. Answered'
  BY <1>a DEF ConvInv, Answered, Resolving, MainResult, Resolvable, CellAt, tx, NInputs
<1>11. Offsets'
  BY <1>a DEF ConvInv, Offsets, Asks, tx
<1>12. EntriesMatchChain'
  BY <1>a DEF ConvInv, EntriesMatchChain, Resolvable, CellAt
<1> QED
  BY <1>6, <1>8, <1>9, <1>10, <1>11, <1>12 DEF ConvInv

LEMMA StutterConvInv == ASSUME ConvInv, UNCHANGED vars PROVE ConvInv'
<1>1. TypeOK'
  BY DEF ConvInv, TypeOK, RpcTypeOK, vars
<1>2. Numbering'
  BY DEF ConvInv, Numbering, Consecutive, Batch, Waiting, vars
<1>3. Asked'
  BY DEF ConvInv, Asked, Asks, tx, NInputs, vars
<1>4. Answered'
  BY DEF ConvInv, Answered, MainResult, Resolvable, CellAt, tx, NInputs, vars
<1>5. Offsets'
  BY DEF ConvInv, Offsets, Asks, tx, vars
<1>6. EntriesMatchChain'
  BY DEF ConvInv, EntriesMatchChain, Resolvable, CellAt, vars
<1> QED
  BY <1>1, <1>2, <1>3, <1>4, <1>5, <1>6 DEF ConvInv

--------------------------------------------------------------------------------
(* The inductive invariant: between any two steps of run's first half the  *)
(* flat result arrays, the calls they answer and the offsets into them     *)
(* agree, whatever the node answered.                                      *)
THEOREM Invariance == Spec => []ConvInv
<1>1. Init => ConvInv
  BY InitConvInv
<1>2. ConvInv /\ [Next]_vars => ConvInv'
  <2> SUFFICES ASSUME ConvInv, [Next]_vars PROVE ConvInv'
    OBVIOUS
  <2>1. CASE Compute
    BY <2>1, GetTransactionConvInv, ResolveCellsConvInv, CollectDepConvInv,
       MalformedGroupConvInv, ResolveMembersConvInv, PushDepConvInv, ResolveHeadersConvInv
       DEF Compute
  <2>2. CASE Receive
    BY <2>2, TransactionFetchedConvInv, MainResultsConvInv, MemberResultsConvInv,
       HeaderResultsConvInv DEF Receive
  <2>3. CASE ReplyRejected \/ TransportFails
    BY <2>3, FailConvInv DEF ReplyRejected, TransportFails
  <2>4. CASE NodeResponds
    BY <2>4, NodeRespondsConvInv
  <2>5. CASE UNCHANGED vars
    BY <2>5, StutterConvInv
  <2> QED
    BY <2>1, <2>2, <2>3, <2>4, <2>5 DEF Next, Finished
<1> QED
  BY <1>1, <1>2, PTL DEF Spec

(* Every call, response, out point and cell in the state is well formed.   *)
THEOREM TypeCorrect == Spec => []TypeOK
<1>1. ConvInv => TypeOK
  BY DEF ConvInv
<1> QED
  BY <1>1, Invariance, PTL

(* For every chain and every node: an input or a cell dep of the mock      *)
(* transaction carries the cell its own out point denotes.                 *)
THEOREM EntriesCorrect == Spec => []EntriesMatchChain
<1>1. ConvInv => EntriesMatchChain
  BY DEF ConvInv
<1> QED
  BY <1>1, Invariance, PTL

(* For every chain: the ids of a batch are distinct and none is the 0 that *)
(* a response without an id decodes to.                                    *)
THEOREM IdsDistinct == Spec => []IdsIdentifyCalls
<1>1. ConvInv => IdsIdentifyCalls
  <2> SUFFICES ASSUME ConvInv, pc \in Batch, NEW j \in DOMAIN wire, NEW k \in DOMAIN wire
               PROVE  wire[k].id # 0 /\ (wire[j].id = wire[k].id => j = k)
    BY DEF IdsIdentifyCalls, Batch
  <2>1. Consecutive(wire) /\ wire \in Seq(Call) /\ nextId \in Nat
    BY DEF ConvInv, Numbering, TypeOK, RpcTypeOK
  <2> QED
    BY <2>1 DEF Consecutive
<1> QED
  BY <1>1, Invariance, PTL

(* For every chain and every node: a reply in which each call has, last of *)
(* its id, a good answer is accepted, whatever else the reply holds.       *)
THEOREM CompleteRepliesAccepted == Spec => []CompleteReplyAccepted
<1>1. ConvInv => CompleteReplyAccepted
  <2> SUFFICES ASSUME ConvInv, pc \in Batch, \A k \in DOMAIN wire : WellAnswered(wire[k]),
                      NEW k \in DOMAIN wire
               PROVE  Taken(k) /\ Decodes(wire[k], ById(wire[k].id))
    BY DEF CompleteReplyAccepted, BatchOk, Batch
  <2>1. /\ \A j \in DOMAIN wire : wire[j].id = nextId - Len(wire) + j - 1 /\ wire[j].id # 0
        /\ nextId \in Nat /\ wire \in Seq(Call) /\ reply \in Seq(Response)
        /\ \A n \in DOMAIN reply : \E j \in DOMAIN wire : reply[n].about = wire[j]
    <3>1. Consecutive(wire) /\ pc \in Waiting
      BY DEF ConvInv, Numbering, Batch, Waiting
    <3>2. nextId \in Nat /\ wire \in Seq(Call) /\ reply \in Seq(Response)
      BY DEF ConvInv, TypeOK, RpcTypeOK
    <3>3. \A j \in DOMAIN wire : wire[j].id = nextId - Len(wire) + j - 1 /\ wire[j].id # 0
      BY <3>1, <3>2 DEF Consecutive
    <3> QED
      BY <3>1, <3>2, <3>3 DEF ConvInv, Numbering
  <2>2. \A j \in DOMAIN wire : wire[j].id = wire[k].id => j = k
    BY <2>1
  <2>3. PICK n \in DOMAIN reply :
          /\ reply[n] = [about |-> wire[k], tagged |-> TRUE, good |-> TRUE]
          /\ \A m \in DOMAIN reply : m > n => ~(reply[m].tagged /\ reply[m].about = wire[k])
    BY DEF WellAnswered
  <2>4. ASSUME NEW m \in DOMAIN reply, ResponseId(reply[m]) = wire[k].id
        PROVE  m <= n
    <3>1. reply[m].tagged /\ reply[m].about.id = wire[k].id
      BY <2>1, <2>4 DEF ResponseId
    <3>2. reply[m].about = wire[k]
      BY <2>1, <2>2, <3>1
    <3> QED
      BY <2>1, <2>3, <3>1, <3>2
  <2>5. LastFiled(wire[k].id, n)
    BY <2>3, <2>4 DEF LastFiled, ResponseId
  <2>6. \A m \in DOMAIN reply : LastFiled(wire[k].id, m) => m = n
    BY <2>1, <2>4, <2>5 DEF LastFiled
  <2>7. ById(wire[k].id) = reply[n]
    BY <2>5, <2>6 DEF ById
  <2>8. Taken(k)
    BY <2>1, <2>2, <2>5 DEF Taken
  <2>9. Decodes(wire[k], reply[n])
    BY <2>3 DEF Decodes, WellAnswered, Resolvable
  <2> QED
    BY <2>7, <2>8, <2>9
<1> QED
  BY <1>1, Invariance, PTL

--------------------------------------------------------------------------------
(* Sets of naturals, in place of induction.                                *)
LEMMA AllNats ==
  ASSUME NEW S, 0 \in S, \A n \in Nat : n \in S => n + 1 \in S
  PROVE  Nat \subseteq S
<1> SUFFICES ASSUME Nat \ S # {} PROVE FALSE
  OBVIOUS
<1>1. PICK n \in Nat \ S : \A y \in Nat \ S : <<y, n>> \notin OpToRel(<, Nat)
  BY NatLessThanWellFounded, WFMin
<1>2. \A y \in Nat \ S : ~(y < n)
  BY <1>1 DEF OpToRel
<1>3. n \in Nat /\ n \notin S
  BY <1>1
<1>4. n - 1 \in Nat /\ (n - 1) + 1 = n /\ n - 1 < n
  BY <1>3
<1>5. n - 1 \in S
  BY <1>2, <1>4
<1> QED
  BY <1>3, <1>4, <1>5

(* What FlattenSeq computes: the function of its recursion, and what of it *)
(* stands for the first n sequences.                                       *)
Flattens(S, n, f) ==
  DOMAIN f = 1 .. n /\ \A i \in 1 .. n : f[i] = IF i = 1 THEN S[i] ELSE f[i - 1] \o S[i]
Flattening(S) ==
  CHOOSE f : f = [i \in 1 .. Len(S) |-> IF i = 1 THEN S[i] ELSE f[i - 1] \o S[i]]
UpTo(S, n) == IF n = 0 THEN <<>> ELSE Flattening(S)[n]

LEMMA FlattensExist ==
  ASSUME NEW S
  PROVE  \A n \in Nat : \E f : Flattens(S, n, f)
<1> DEFINE P == {n \in Nat : \E f : Flattens(S, n, f)}
<1>1. 0 \in P
  <2>1. Flattens(S, 0, [i \in 1 .. 0 |-> 0])
    BY DEF Flattens
  <2> QED
    BY <2>1
<1>2. ASSUME NEW n \in Nat, n \in P PROVE n + 1 \in P
  <2>1. PICK f : Flattens(S, n, f)
    BY <1>2
  <2> DEFINE last == IF n + 1 = 1 THEN S[n + 1] ELSE f[n] \o S[n + 1]
             g    == [i \in 1 .. n + 1 |-> IF i = n + 1 THEN last ELSE f[i]]
  <2>2. \A i \in 1 .. n : g[i] = f[i] /\ (i # 1 => g[i - 1] = f[i - 1])
    OBVIOUS
  <2>3. g[n + 1] = last /\ (n # 0 => g[n] = f[n])
    OBVIOUS
  <2>4. ASSUME NEW i \in 1 .. n + 1
        PROVE  g[i] = IF i = 1 THEN S[i] ELSE g[i - 1] \o S[i]
    <3>1. CASE i \in 1 .. n
      <4>1. f[i] = IF i = 1 THEN S[i] ELSE f[i - 1] \o S[i]
        BY <2>1, <3>1 DEF Flattens
      <4> HIDE DEF g
      <4> QED
        BY <2>2, <3>1, <4>1
    <3>2. CASE i = n + 1
      <4>1. (n + 1 = 1) <=> (n = 0)
        OBVIOUS
      <4>2. n + 1 - 1 = n
        OBVIOUS
      <4> HIDE DEF g
      <4> QED
        BY <2>3, <3>2, <4>1, <4>2
    <3> QED
      BY <3>1, <3>2
  <2>5. Flattens(S, n + 1, g)
    BY <2>4 DEF Flattens
  <2> QED
    BY <2>5
<1> HIDE DEF P
<1>3. Nat \subseteq P
  BY <1>1, <1>2, AllNats
<1> QED
  BY <1>3 DEF P

LEMMA FlattenIs ==
  ASSUME NEW S, Len(S) \in Nat, Len(S) = 0 => S = <<>>,
         \A n \in 1 .. Len(S) : <<>> \o S[n] = S[n]
  PROVE  /\ UpTo(S, 0) = <<>>
         /\ \A n \in 1 .. Len(S) : UpTo(S, n) = UpTo(S, n - 1) \o S[n]
         /\ Resolution!FlattenSeq(S) = UpTo(S, Len(S))
<1> DEFINE N     == Len(S)
           Eq(f) == f = [i \in 1 .. N |-> IF i = 1 THEN S[i] ELSE f[i - 1] \o S[i]]
           flat  == CHOOSE f : Eq(f)
<1>0. N \in Nat
  OBVIOUS
<1>1. PICK f : Flattens(S, N, f)
  BY <1>0, FlattensExist
<1>2. Eq([i \in 1 .. N |-> f[i]])
  <2> DEFINE g == [i \in 1 .. N |-> f[i]]
  <2>1. ASSUME NEW i \in 1 .. N PROVE g[i] = IF i = 1 THEN S[i] ELSE g[i - 1] \o S[i]
    <3>1. f[i] = IF i = 1 THEN S[i] ELSE f[i - 1] \o S[i]
      BY <1>1 DEF Flattens
    <3>2. g[i] = f[i] /\ (i # 1 => g[i - 1] = f[i - 1])
      BY <1>0
    <3> QED
      BY <3>1, <3>2
  <2>2. g = [i \in 1 .. N |-> g[i]]
    OBVIOUS
  <2> HIDE DEF g
  <2>3. g = [i \in 1 .. N |-> IF i = 1 THEN S[i] ELSE g[i - 1] \o S[i]]
    BY <2>1, <2>2
  <2> QED
    BY <2>3 DEF g
<1> HIDE DEF Eq
<1>3. Eq(flat)
  BY <1>2
<1>4. Flattening(S) = flat
  BY DEF Flattening, Eq
<1>5. flat = [i \in 1 .. N |-> IF i = 1 THEN S[i] ELSE flat[i - 1] \o S[i]]
  BY <1>3 DEF Eq
<1> HIDE DEF flat
<1>6. ASSUME NEW n \in 1 .. N PROVE UpTo(S, n) = UpTo(S, n - 1) \o S[n]
  <2>1. flat[n] = IF n = 1 THEN S[n] ELSE flat[n - 1] \o S[n]
    BY <1>5, Zenon
  <2>2. CASE n = 1
    <3>1. UpTo(S, n) = S[n] /\ UpTo(S, n - 1) = <<>>
      BY <1>4, <2>1, <2>2 DEF UpTo
    <3> QED
      BY <3>1
  <2>3. CASE n # 1
    <3>1. n - 1 # 0 /\ n # 0
      BY <1>0, <2>3
    <3> QED
      BY <1>4, <2>1, <2>3, <3>1 DEF UpTo
  <2> QED
    BY <2>2, <2>3
<1>7. Resolution!FlattenSeq(S) = UpTo(S, N)
  <2>1. CASE N = 0
    <3>1. S = <<>>
      BY <2>1
    <3> QED
      BY <2>1, <3>1 DEF UpTo, Resolution!FlattenSeq
  <2>2. CASE N # 0
    <3>1. Resolution!FlattenSeq(S) = Flattening(S)[N]
      BY <2>2 DEF Resolution!FlattenSeq, Flattening
    <3> QED
      BY <2>2, <3>1 DEF UpTo
  <2> QED
    BY <2>1, <2>2
<1>8. UpTo(S, 0) = <<>>
  BY DEF UpTo
<1> QED
  BY <1>6, <1>7, <1>8

--------------------------------------------------------------------------------
(* How far the mock transaction is.                                        *)
Early == {"start", "fetch", "resolve", "main"}

ResolvedInputs(t) == [k \in DOMAIN t.inputs |-> Entry(t.inputs[k], CellAt(t.inputs[k]))]
MembersOf(dep)    == IF dep.group THEN Groups[CellAt(dep.op).data] ELSE <<>>
Expansions(t)     == [k \in DOMAIN t.deps |-> Resolution!Expanded(t.deps[k])]

Convertible == pc \in Known \cup {"done"} => hash \in DOMAIN Chain /\ ~tx.cellbase
InputsSoFar ==
  /\ pc \in Early => inputs = <<>>
  /\ pc \in Resolving \cup {"done"} => inputs = ResolvedInputs(tx)
MembersSoFar ==
  pc \in {"collect", "sub", "assemble"} => \A k \in DOMAIN subs : subs[k] = MembersOf(tx.deps[k])
DepsSoFar ==
  /\ pc \in Early \cup {"collect", "sub"} => cellDeps = <<>>
  /\ pc = "assemble" => cellDeps = UpTo(Expansions(tx), depIdx)
  /\ pc \in {"header", "done"} => cellDeps = Resolution!FlattenSeq(Expansions(tx))
HeadersSoFar ==
  /\ pc \notin Terminal => headers = <<>>
  /\ pc = "header" =>
       Len(wire) = Len(tx.headers) /\ \A k \in DOMAIN wire : wire[k].hash = tx.headers[k]
  /\ pc = "done" => headers = tx.headers

MockInv == Convertible /\ InputsSoFar /\ MembersSoFar /\ DepsSoFar /\ HeadersSoFar

LEMMA InitMockInv == Init => MockInv
  BY DEF Init, MockInv, Convertible, InputsSoFar, MembersSoFar, DepsSoFar, HeadersSoFar,
         Early, Known, Resolving, Terminal

(* A run that fails has nothing to show.                                   *)
LEMMA FailMockInv == ASSUME Fail PROVE MockInv'
  BY DEF Fail, MockInv, Convertible, InputsSoFar, MembersSoFar, DepsSoFar, HeadersSoFar,
         Early, Known, Resolving, Terminal

(* A step to another phase that touches nothing of the mock transaction.   *)
LEMMA SameMock ==
  ASSUME MockInv, UNCHANGED <<hash, subs, depIdx, inputs, cellDeps, headers>>,
         \/ pc' = pc /\ UNCHANGED wire
         \/ pc = "start" /\ pc' = "fetch"
         \/ pc = "resolve" /\ pc' = "main"
         \/ pc = "collect" /\ pc' = "sub"
         \/ pc = "sub" /\ pc' = "assemble" /\ depIdx = 0 /\ UpTo(Expansions(tx), 0) = <<>>
         \/ pc = "collect" /\ pc' = "assemble" /\ depIdx = 0 /\ UpTo(Expansions(tx), 0) = <<>>
  PROVE  MockInv'
<1> USE DEF Early, Known, Resolving, Terminal
<1>1. /\ UNCHANGED tx
      /\ ResolvedInputs(tx)' = ResolvedInputs(tx) /\ Expansions(tx)' = Expansions(tx)
      /\ \A k \in DOMAIN subs : MembersOf(tx.deps[k])' = MembersOf(tx.deps[k])
  BY DEF tx, ResolvedInputs, Expansions, MembersOf, CellAt
<1>2. Convertible' /\ InputsSoFar' /\ MembersSoFar'
  BY <1>1 DEF MockInv, Convertible, InputsSoFar, MembersSoFar
<1>3. DepsSoFar'
  <2> HIDE DEF UpTo, Expansions
  <2>1. \A n : UpTo(Expansions(tx), n)' = UpTo(Expansions(tx), n')
    BY <1>1 DEF UpTo, Flattening
  <2> QED
    BY <1>1, <2>1 DEF MockInv, DepsSoFar
<1>4. HeadersSoFar'
  BY <1>1 DEF MockInv, HeadersSoFar
<1> QED
  BY <1>2, <1>3, <1>4 DEF MockInv

(* Every dep group expands to a sequence, once its data was parsed.        *)
LEMMA ExpansionsFlatten ==
  ASSUME hash \in DOMAIN Chain, \A k \in DOMAIN tx.deps : MembersOf(tx.deps[k]) \in Seq(OutPoint)
  PROVE  /\ UpTo(Expansions(tx), 0) = <<>>
         /\ \A n \in DOMAIN tx.deps :
              UpTo(Expansions(tx), n) = UpTo(Expansions(tx), n - 1) \o Resolution!Expanded(tx.deps[n])
         /\ Resolution!FlattenSeq(Expansions(tx)) = UpTo(Expansions(tx), Len(tx.deps))
<1> DEFINE S == Expansions(tx)
<1>1. /\ Len(tx.deps) \in Nat /\ DOMAIN tx.deps = 1 .. Len(tx.deps)
      /\ Len(S) = Len(tx.deps) /\ \A n \in DOMAIN tx.deps : S[n] = Resolution!Expanded(tx.deps[n])
      /\ Len(S) = 0 => S = <<>>
  <2>1. Len(tx.deps) \in Nat /\ DOMAIN tx.deps = 1 .. Len(tx.deps)
    BY TxShape
  <2> QED
    BY <2>1 DEF Expansions
<1>2. ASSUME NEW n \in DOMAIN tx.deps PROVE <<>> \o S[n] = S[n]
  <2> DEFINE dep == tx.deps[n]
             own == [op |-> dep.op, cell |-> CellAt(dep.op), group |-> dep.group]
             M   == MembersOf(dep)
             mem == [j \in DOMAIN M |-> [op |-> M[j], cell |-> CellAt(M[j]), group |-> FALSE]]
             T   == {own} \cup {mem[j] : j \in DOMAIN M}
  <2>1. S[n] = <<own>> \o mem
    BY <1>1 DEF Resolution!Expanded, Resolution!CellAt, CellAt, MembersOf
  <2>2. Len(M) \in Nat /\ DOMAIN M = 1 .. Len(M)
    <3>1. M \in Seq(OutPoint)
      OBVIOUS
    <3> HIDE DEF M
    <3> QED
      BY <3>1
  <2>3. mem \in [1 .. Len(M) -> T]
    <3> HIDE DEF own, M
    <3>1. mem = [j \in 1 .. Len(M) |-> mem[j]] /\ \A j \in 1 .. Len(M) : mem[j] \in T
      BY <2>2
    <3> HIDE DEF mem, T
    <3> QED
      BY <3>1
  <2>4. own \in T
    OBVIOUS
  <2> HIDE DEF own, mem, T, M
  <2>5. mem \in Seq(T)
    BY <2>2, <2>3
  <2>6. <<own>> \o mem \in Seq(T)
    BY <2>4, <2>5
  <2> DEFINE s == <<own>> \o mem
  <2>7. s \in Seq(T)
    BY <2>6
  <2> HIDE DEF s
  <2>8. <<>> \o s = s
    BY <2>7
  <2> QED
    BY <2>1, <2>8 DEF s
<1> HIDE DEF S
<1>3. /\ UpTo(S, 0) = <<>>
      /\ \A n \in 1 .. Len(S) : UpTo(S, n) = UpTo(S, n - 1) \o S[n]
      /\ Resolution!FlattenSeq(S) = UpTo(S, Len(S))
  <2>1. Len(S) \in Nat /\ \A n \in 1 .. Len(S) : <<>> \o S[n] = S[n]
    BY <1>1, <1>2
  <2> QED
    BY <1>1, <2>1, FlattenIs
<1> QED
  BY <1>1, <1>3 DEF S

(* The reply to get_transaction is about the hash that was asked for.      *)
LEMMA FetchedIs ==
  ASSUME ConvInv, TransactionFetched
  PROVE  Decoded(wire[1], reply[1]) = tx /\ hash \in DOMAIN Chain
<1>1. pc = "fetch" /\ Len(reply) = 1 /\ Decodes(wire[1], reply[1])
  BY DEF TransactionFetched
<1>2. /\ Len(wire) = 1 /\ wire[1].decode = "transaction" /\ wire[1].hash = hash
      /\ \E k \in DOMAIN wire : reply[1].about = wire[k]
  BY <1>1 DEF ConvInv, Numbering, TypeOK, RpcTypeOK, Waiting
<1>3. reply[1].about = wire[1]
  BY <1>2 DEF ConvInv, TypeOK, RpcTypeOK
<1> QED
  BY <1>1, <1>2, <1>3 DEF Decoded, Decodes, tx

LEMMA TransactionFetchedMockInv ==
  ASSUME ConvInv, MockInv, TransactionFetched
  PROVE  MockInv'
<1>1. /\ pc = "fetch" /\ Len(reply) = 1 /\ Decodes(wire[1], reply[1])
      /\ pc' = IF Decoded(wire[1], reply[1]).cellbase THEN "cellbase" ELSE "resolve"
      /\ UNCHANGED <<hash, subs, inputs, cellDeps, headers, tx>>
  BY DEF TransactionFetched, subVars, mockVars, tx
<1>2. Decoded(wire[1], reply[1]) = tx /\ hash \in DOMAIN Chain
  BY FetchedIs
<1> USE DEF Early, Known, Resolving, Terminal
<1>3. Convertible' /\ InputsSoFar' /\ MembersSoFar' /\ DepsSoFar' /\ HeadersSoFar'
  BY <1>1, <1>2 DEF MockInv, Convertible, InputsSoFar, MembersSoFar, DepsSoFar, HeadersSoFar
<1> QED
  BY <1>3 DEF MockInv

LEMMA ResolveCellsMockInv ==
  ASSUME ConvInv, MockInv, ResolveCells
  PROVE  MockInv'
<1>1. /\ pc = "resolve" /\ hash \in DOMAIN Chain /\ ~tx.cellbase
      /\ UNCHANGED <<hash, subs, depIdx, inputs, cellDeps, headers, tx>>
  BY DEF ResolveCells, subVars, mockVars, tx, MockInv, Convertible, Known
<1>2. CASE pc' = "main"
  BY <1>1, <1>2, SameMock
<1>3. CASE pc' = "collect" /\ MainOps(tx) = <<>>
  <2>1. inputs = <<>> /\ cellDeps = <<>> /\ headers = <<>> /\ subs = <<>>
    BY <1>1 DEF MockInv, InputsSoFar, DepsSoFar, HeadersSoFar, Early, Terminal, ConvInv, Offsets
  <2>2. Len(tx.inputs) = 0 /\ tx.inputs \in Seq(OutPoint)
    <3>1. NInputs = Len(tx.inputs)
      BY <1>1 DEF NInputs, InputOps
    <3>2. NInputs + Len(tx.deps) = 0 /\ NInputs \in Nat
      BY <1>1, <1>3, MainOpsShape
    <3>3. Len(tx.inputs) \in Nat /\ Len(tx.deps) \in Nat
      BY <1>1, TxShape
    <3>4. tx.inputs \in Seq(OutPoint)
      BY <1>1, TxShape
    <3> DEFINE d == Len(tx.deps)
    <3>5. d \in Nat /\ NInputs + d = 0
      BY <3>2, <3>3
    <3> HIDE DEF d
    <3>6. NInputs = 0
      BY <3>2, <3>5
    <3>7. Len(tx.inputs) = 0
      BY <3>1, <3>6
    <3> QED
      BY <3>4, <3>7
  <2>3. ResolvedInputs(tx) = <<>>
    BY <2>2 DEF ResolvedInputs
  <2>4. Convertible' /\ InputsSoFar' /\ MembersSoFar' /\ DepsSoFar' /\ HeadersSoFar'
    BY <1>1, <1>3, <2>1, <2>3 DEF Convertible, InputsSoFar, MembersSoFar, DepsSoFar,
       HeadersSoFar, Early, Known, Resolving, Terminal, ResolvedInputs, CellAt
  <2> QED
    BY <2>4 DEF MockInv
<1> QED
  BY <1>2, <1>3 DEF ResolveCells

LEMMA MainResultsMockInv ==
  ASSUME ConvInv, ConvInv', MockInv, MainResults
  PROVE  MockInv'
<1>1. /\ pc = "main" /\ pc' = "collect" /\ hash \in DOMAIN Chain /\ ~tx.cellbase
      /\ inputs' = [k \in 1 .. NInputs |-> Entry(tx.inputs[k], results'[k])]
      /\ UNCHANGED <<hash, subs, cellDeps, headers, tx>>
  BY DEF MainResults, subVars, tx, MockInv, Convertible, Known
<1>2. 1 .. NInputs = DOMAIN tx.inputs
  BY <1>1, TxShape DEF NInputs, InputOps
<1>3. \A k \in 1 .. NInputs : results'[k] = CellAt(tx.inputs[k])
  <2>1. \A k \in DOMAIN inputs' : inputs'[k].cell = CellAt(inputs'[k].op)
    BY <1>1 DEF ConvInv, EntriesMatchChain, CellAt
  <2> QED
    BY <1>1, <2>1 DEF Entry
<1>4. inputs' = ResolvedInputs(tx) /\ ResolvedInputs(tx)' = ResolvedInputs(tx)
  BY <1>1, <1>2, <1>3 DEF ResolvedInputs, Entry, CellAt
<1>5. subs = <<>> /\ cellDeps = <<>> /\ headers = <<>>
  BY <1>1 DEF ConvInv, Offsets, MockInv, DepsSoFar, HeadersSoFar, Early, Terminal
<1>6. Convertible' /\ InputsSoFar' /\ MembersSoFar' /\ DepsSoFar' /\ HeadersSoFar'
  BY <1>1, <1>4, <1>5 DEF Convertible, InputsSoFar, MembersSoFar, DepsSoFar, HeadersSoFar,
     Early, Known, Resolving, Terminal
<1> QED
  BY <1>6 DEF MockInv

LEMMA CollectDepMockInv ==
  ASSUME ConvInv, MockInv, CollectDep
  PROVE  MockInv'
<1> DEFINE n == Len(subs) + 1
<1>1. /\ pc = "collect" /\ pc' = "collect" /\ Len(subs) < Len(tx.deps)
      /\ subs' = Append(subs, Members(n))
      /\ hash \in DOMAIN Chain /\ ~tx.cellbase
      /\ UNCHANGED <<hash, inputs, cellDeps, depIdx, headers, tx>>
  BY DEF CollectDep, mockVars, tx, MockInv, Convertible, Known, Resolving
<1>2. subs \in Seq(Seq(OutPoint)) /\ Len(tx.deps) \in Nat /\ DOMAIN tx.deps = 1 .. Len(tx.deps)
  BY <1>1, TxShape DEF ConvInv, TypeOK
<1>3. Len(subs) \in Nat /\ n \in DOMAIN tx.deps
  BY <1>1, <1>2
<1>4. Members(n) = MembersOf(tx.deps[n])
  BY <1>1, <1>3 DEF ConvInv, Answered, Resolving, Members, MembersOf
<1>5. \A k \in DOMAIN subs' : subs'[k] = MembersOf(tx.deps[k])
  <2>1. /\ DOMAIN subs' = 1 .. n /\ subs'[n] = MembersOf(tx.deps[n])
        /\ \A k \in 1 .. Len(subs) : subs'[k] = subs[k] /\ k \in DOMAIN subs
    BY <1>1, <1>2, <1>4
  <2>2. \A k \in 1 .. n : k = n \/ k \in 1 .. Len(subs)
    BY <1>3
  <2> QED
    BY <1>1, <2>1, <2>2 DEF MockInv, MembersSoFar
<1>6. ResolvedInputs(tx)' = ResolvedInputs(tx)
  BY <1>1 DEF ResolvedInputs, CellAt
<1>7. \A k \in DOMAIN subs' : MembersOf(tx.deps[k])' = MembersOf(tx.deps[k])
  BY <1>1 DEF MembersOf, CellAt, tx
<1>8. Convertible' /\ InputsSoFar' /\ MembersSoFar' /\ DepsSoFar' /\ HeadersSoFar'
  BY <1>1, <1>5, <1>6, <1>7 DEF MockInv, Convertible, InputsSoFar, MembersSoFar, DepsSoFar,
     HeadersSoFar, Early, Known, Resolving, Terminal
<1> QED
  BY <1>8 DEF MockInv

(* The calls are about the header deps, in order.                          *)
LEMMA ResolveHeadersMockInv ==
  ASSUME ConvInv, MockInv, ResolveHeaders
  PROVE  MockInv'
<1>1. /\ pc = "assemble" /\ depIdx = Len(tx.deps) /\ hash \in DOMAIN Chain /\ ~tx.cellbase
      /\ UNCHANGED <<hash, subs, depIdx, inputs, cellDeps, headers, tx>>
      /\ headers = <<>> /\ cellDeps = UpTo(Expansions(tx), depIdx)
  BY DEF ResolveHeaders, subVars, mockVars, tx, MockInv, Convertible, Known, Resolving,
     HeadersSoFar, DepsSoFar, Terminal
<1>2. cellDeps = Resolution!FlattenSeq(Expansions(tx))
  <2>1. \A k \in DOMAIN tx.deps : MembersOf(tx.deps[k]) \in Seq(OutPoint)
    <3>1. Len(subs) = Len(tx.deps) /\ subs \in Seq(Seq(OutPoint))
      BY <1>1 DEF ConvInv, Offsets, TypeOK
    <3>2. DOMAIN tx.deps = DOMAIN subs /\ \A k \in DOMAIN subs : subs[k] \in Seq(OutPoint)
      BY <1>1, <3>1, TxShape
    <3> QED
      BY <1>1, <3>2 DEF MockInv, MembersSoFar
  <2> QED
    BY <1>1, <2>1, ExpansionsFlatten
<1>3. /\ inputs = ResolvedInputs(tx) /\ ResolvedInputs(tx)' = ResolvedInputs(tx)
      /\ Expansions(tx)' = Expansions(tx)
      /\ Resolution!FlattenSeq(Expansions(tx))' = Resolution!FlattenSeq(Expansions(tx))
  BY <1>1 DEF MockInv, InputsSoFar, Resolving, ResolvedInputs, CellAt, Expansions
<1>4. pc' = "done" => headers = tx.headers
  BY <1>1 DEF ResolveHeaders
<1>5. pc' = "header" =>
        Len(wire') = Len(tx.headers) /\ \A k \in DOMAIN wire' : wire'[k].hash = tx.headers[k]
  <2> SUFFICES ASSUME pc' = "header"
               PROVE  /\ Len(wire') = Len(tx.headers)
                      /\ \A k \in DOMAIN wire' : wire'[k].hash = tx.headers[k]
    OBVIOUS
  <2>1. wire' = [k \in DOMAIN tx.headers |->
                   [id |-> nextId + k - 1, decode |-> "header", hash |-> tx.headers[k], index |-> 0]]
    BY DEF ResolveHeaders, Post, NumberedFrom, HeaderCall
  <2>2. DOMAIN tx.headers = 1 .. Len(tx.headers) /\ Len(tx.headers) \in Nat
    BY <1>1, TxShape
  <2> QED
    BY <2>1, <2>2
<1>6. pc' \in {"done", "header"}
  BY DEF ResolveHeaders
<1>7. Convertible' /\ InputsSoFar' /\ MembersSoFar' /\ DepsSoFar' /\ HeadersSoFar'
  BY <1>1, <1>2, <1>3, <1>4, <1>5, <1>6 DEF Convertible, InputsSoFar, MembersSoFar, DepsSoFar,
     HeadersSoFar, Early, Known, Resolving, Terminal
<1> QED
  BY <1>7 DEF MockInv

LEMMA HeaderResultsMockInv ==
  ASSUME ConvInv, MockInv, HeaderResults
  PROVE  MockInv'
<1>1. /\ pc = "header" /\ pc' = "done" /\ BatchOk /\ headers' = BatchResults
      /\ hash \in DOMAIN Chain /\ ~tx.cellbase
      /\ UNCHANGED <<hash, inputs, cellDeps, tx>>
  BY DEF HeaderResults, tx, MockInv, Convertible, Known, Resolving
<1>2. headers' = tx.headers
  <2>1. /\ RpcTypeOK /\ Consecutive(wire) /\ \A k \in DOMAIN wire : wire[k].decode = "header"
        /\ \A n \in DOMAIN reply : \E j \in DOMAIN wire : reply[n].about = wire[j]
    BY <1>1 DEF ConvInv, Asked, Numbering, TypeOK, Batch, Waiting
  <2>2. ASSUME NEW k \in DOMAIN wire PROVE Decoded(wire[k], ById(wire[k].id)) = tx.headers[k]
    <3>1. ById(wire[k].id).about = wire[k]
      BY <1>1, <2>1, BatchAnswers
    <3> QED
      BY <1>1, <2>1, <3>1 DEF Decoded, MockInv, HeadersSoFar
  <2>3. DOMAIN wire = 1 .. Len(tx.headers)
    BY <1>1, <2>1 DEF RpcTypeOK, MockInv, HeadersSoFar
  <2>4. tx.headers = [k \in 1 .. Len(tx.headers) |-> tx.headers[k]]
    BY <1>1, TxShape
  <2>5. headers' = [k \in 1 .. Len(tx.headers) |-> tx.headers[k]]
    BY <1>1, <2>2, <2>3 DEF BatchResults
  <2> QED
    BY <2>4, <2>5
<1>3. /\ inputs = ResolvedInputs(tx) /\ ResolvedInputs(tx)' = ResolvedInputs(tx)
      /\ cellDeps = Resolution!FlattenSeq(Expansions(tx))
      /\ Resolution!FlattenSeq(Expansions(tx))' = Resolution!FlattenSeq(Expansions(tx))
  BY <1>1 DEF MockInv, InputsSoFar, DepsSoFar, Resolving, ResolvedInputs, CellAt, Expansions
<1>4. Convertible' /\ InputsSoFar' /\ MembersSoFar' /\ DepsSoFar' /\ HeadersSoFar'
  BY <1>1, <1>2, <1>3 DEF Convertible, InputsSoFar, MembersSoFar, DepsSoFar, HeadersSoFar,
     Early, Known, Resolving, Terminal
<1> QED
  BY <1>4 DEF MockInv

(* Each dep is followed by its members: what a turn of the loop appends is *)
(* what the dep expands to.                                                *)
LEMMA PushDepMockInv ==
  ASSUME ConvInv, ConvInv', MockInv, PushDep
  PROVE  MockInv'
<1> DEFINE n == depIdx + 1  dep == tx.deps[n]
<1>1. /\ pc = "assemble" /\ pc' = "assemble" /\ depIdx < Len(tx.deps) /\ depIdx' = n
      /\ cellDeps' = cellDeps \o PushedBy(n)
      /\ hash \in DOMAIN Chain /\ ~tx.cellbase /\ headers = <<>>
      /\ UNCHANGED <<hash, subs, inputs, headers, tx>>
      /\ cellDeps = UpTo(Expansions(tx), depIdx)
  BY DEF PushDep, tx, MockInv, Convertible, Known, Resolving, DepsSoFar, HeadersSoFar, Terminal
<1>2. /\ depIdx \in Nat /\ cellDeps \in Seq(CellDepEntry) /\ cellDeps' \in Seq(CellDepEntry)
      /\ subs \in Seq(Seq(OutPoint)) /\ Len(subs) = Len(tx.deps)
      /\ Len(tx.deps) \in Nat /\ DOMAIN tx.deps = 1 .. Len(tx.deps)
  <2>1. Len(tx.deps) \in Nat /\ DOMAIN tx.deps = 1 .. Len(tx.deps)
    BY <1>1, TxShape
  <2>2. depIdx \in Nat /\ cellDeps \in Seq(CellDepEntry) /\ subs \in Seq(Seq(OutPoint))
    BY DEF ConvInv, TypeOK
  <2>3. cellDeps' \in Seq(CellDepEntry)
    BY DEF ConvInv, TypeOK
  <2>4. Len(subs) = Len(tx.deps)
    BY <1>1 DEF ConvInv, Offsets
  <2> QED
    BY <2>1, <2>2, <2>3, <2>4
<1>3. /\ n \in DOMAIN tx.deps /\ n \in DOMAIN subs /\ DOMAIN tx.deps = DOMAIN subs
      /\ n - 1 = depIdx
  BY <1>1, <1>2
<1>4. /\ \A k \in DOMAIN subs : subs[k] \in Seq(OutPoint) /\ subs[k] = MembersOf(tx.deps[k])
      /\ \A k \in DOMAIN tx.deps : MembersOf(tx.deps[k]) \in Seq(OutPoint)
  BY <1>1, <1>2, <1>3 DEF MockInv, MembersSoFar
<1>5. MainResult(n) = CellAt(dep.op)
  BY <1>1, <1>3 DEF ConvInv, Answered, Resolving
<1>6. \A j \in DOMAIN subs[n] : subResults[subResultIdx + j] = CellAt(subs[n][j])
  <2> SUFFICES ASSUME NEW j \in DOMAIN subs[n]
               PROVE  subResults[subResultIdx + j] = CellAt(subs[n][j])
    OBVIOUS
  <2> DEFINE c == subCalls[subStart[n] + j]
  <2>1. subResultIdx = subStart[n] /\ subStart[n] + j \in DOMAIN subCalls /\ Asks(c, subs[n][j])
    BY <1>1, <1>2, <1>3 DEF ConvInv, Offsets
  <2>2. Resolvable(c) /\ subResults[subResultIdx + j] = CellAt(c)
    BY <1>1, <2>1 DEF ConvInv, Answered
  <2> QED
    BY <2>1, <2>2, AsksSame
<1>7. PushedBy(n) = Resolution!Expanded(dep)
  <2>1. subs[n] = MembersOf(dep)
    BY <1>3, <1>4
  <2>2. MemberEntries(n) = [j \in DOMAIN subs[n] |->
                              [op |-> subs[n][j], cell |-> CellAt(subs[n][j]), group |-> FALSE]]
    BY <1>6 DEF MemberEntries, DepEntry
  <2> QED
    BY <1>5, <2>1, <2>2 DEF PushedBy, DepEntry, Resolution!Expanded, Resolution!CellAt, CellAt,
       MembersOf
<1>8. cellDeps' = UpTo(Expansions(tx), n)
  BY <1>1, <1>3, <1>4, <1>7, ExpansionsFlatten
<1>9. /\ ResolvedInputs(tx)' = ResolvedInputs(tx)
      /\ UpTo(Expansions(tx), depIdx)' = UpTo(Expansions(tx), n)
      /\ \A k \in DOMAIN subs : MembersOf(tx.deps[k])' = MembersOf(tx.deps[k])
  <2>1. Expansions(tx)' = Expansions(tx) /\ ResolvedInputs(tx)' = ResolvedInputs(tx)
    BY <1>1 DEF ResolvedInputs, CellAt, Expansions
  <2>2. UpTo(Expansions(tx), depIdx)' = UpTo(Expansions(tx)', depIdx')
    BY DEF UpTo, Flattening
  <2>3. \A k \in DOMAIN subs : MembersOf(tx.deps[k])' = MembersOf(tx.deps[k])
    BY <1>1 DEF MembersOf, CellAt
  <2> QED
    BY <1>1, <2>1, <2>2, <2>3
<1>10. Convertible' /\ InputsSoFar' /\ MembersSoFar' /\ DepsSoFar' /\ HeadersSoFar'
  <2> HIDE DEF n
  <2> QED
    BY <1>1, <1>4, <1>8, <1>9 DEF MockInv, Convertible, InputsSoFar, MembersSoFar, DepsSoFar,
       HeadersSoFar, Early, Known, Resolving, Terminal
<1> QED
  BY <1>10 DEF MockInv

LEMMA MembersKeepMockInv ==
  ASSUME ConvInv, MockInv, ResolveMembers \/ MemberResults
  PROVE  MockInv'
<1>1. /\ UNCHANGED <<hash, subs, depIdx, inputs, cellDeps, headers>>
      /\ pc \in {"collect", "sub"} /\ pc' \in {"sub", "assemble"}
      /\ pc = "sub" => pc' = "assemble"
      /\ pc = "collect" => Len(subs) = Len(tx.deps)
      /\ hash \in DOMAIN Chain /\ depIdx = 0
  BY DEF ResolveMembers, MemberResults, subVars, mockVars, MockInv, Convertible, Known, Resolving,
     ConvInv, Offsets
<1>2. UpTo(Expansions(tx), 0) = <<>>
  BY DEF UpTo
<1> QED
  BY <1>1, <1>2, SameMock

LEMMA StepMockInv ==
  ASSUME ConvInv, ConvInv', MockInv, [Next]_vars
  PROVE  MockInv'
<1>1. CASE Compute
  <2>1. CASE GetTransaction
    BY <2>1, SameMock DEF GetTransaction, subVars, mockVars
  <2>2. CASE MalformedGroup
    BY <2>2, FailMockInv DEF MalformedGroup
  <2> QED
    BY <1>1, <2>1, <2>2, ResolveCellsMockInv, CollectDepMockInv, MembersKeepMockInv,
       PushDepMockInv, ResolveHeadersMockInv DEF Compute
<1>2. CASE Receive
  BY <1>2, TransactionFetchedMockInv, MainResultsMockInv, MembersKeepMockInv,
     HeaderResultsMockInv DEF Receive
<1>3. CASE ReplyRejected \/ TransportFails
  BY <1>3, FailMockInv DEF ReplyRejected, TransportFails
<1>4. CASE NodeResponds
  BY <1>4, SameMock DEF NodeResponds, Respond, subVars, mockVars
<1>5. CASE UNCHANGED vars
  BY <1>5, SameMock DEF vars
<1> QED
  BY <1>1, <1>2, <1>3, <1>4, <1>5 DEF Next, Finished

--------------------------------------------------------------------------------
(* The step of the abstract resolution that a step of the conversion is.   *)
Status == IF pc \in Terminal THEN pc ELSE "pending"
Shown  == IF pc = "done" THEN [inputs |-> inputs, cellDeps |-> cellDeps, headers |-> headers]
          ELSE [inputs |-> <<>>, cellDeps |-> <<>>, headers |-> <<>>]

(* A phase that is followed by another one shows nothing yet.              *)
LEMMA Unshown ==
  ASSUME UNCHANGED hash, pc \notin Terminal, pc' \notin Terminal
  PROVE  UNCHANGED <<hash, Status, Shown>>
  BY DEF Status, Shown, Terminal

LEMMA FailIsGiveUp ==
  ASSUME Fail, pc \notin Terminal
  PROVE  Resolution!GiveUp
  BY DEF Fail, Resolution!GiveUp, Terminal

(* What is shown at the end is what the chain defines.                     *)
LEMMA DoneIsResolve ==
  ASSUME MockInv', UNCHANGED hash, pc \notin Terminal, pc' = "done"
  PROVE  Resolution!Resolve
<1>1. /\ hash \in DOMAIN Chain /\ ~tx.cellbase /\ UNCHANGED tx
      /\ inputs' = ResolvedInputs(tx)' /\ headers' = tx.headers
      /\ cellDeps' = Resolution!FlattenSeq(Expansions(tx))'
  BY DEF MockInv, Convertible, InputsSoFar, DepsSoFar, HeadersSoFar, tx
<1>2. [inputs |-> inputs', cellDeps |-> cellDeps', headers |-> headers'] = Resolution!MockOf(tx)
  <2>1. ResolvedInputs(tx)' = [k \in DOMAIN tx.inputs |-> [op   |-> tx.inputs[k],
                                                          cell |-> Resolution!CellAt(tx.inputs[k])]]
    BY <1>1 DEF ResolvedInputs, Entry, CellAt, Resolution!CellAt
  <2>2. Resolution!FlattenSeq(Expansions(tx))' =
          Resolution!FlattenSeq([k \in DOMAIN tx.deps |-> Resolution!Expanded(tx.deps[k])])
    BY <1>1 DEF Expansions
  <2> QED
    BY <1>1, <2>1, <2>2 DEF Resolution!MockOf
<1> QED
  BY <1>1, <1>2 DEF Resolution!Resolve, Terminal, tx

LEMMA StepResolves ==
  ASSUME ConvInv, MockInv', [Next]_vars
  PROVE  Resolution!Next \/ UNCHANGED <<hash, Status, Shown>>
<1>1. CASE Compute \/ Receive
  <2>1. /\ pc \notin Terminal /\ UNCHANGED hash
    BY <1>1 DEF Compute, Receive, GetTransaction, ResolveCells, CollectDep, MalformedGroup, Fail,
       ResolveMembers, PushDep, ResolveHeaders, TransactionFetched, MainResults, MemberResults,
       HeaderResults, Terminal
  <2>2. CASE pc' \notin Terminal
    BY <2>1, <2>2, Unshown
  <2>3. CASE pc' = "done"
    BY <2>1, <2>3, DoneIsResolve DEF Resolution!Next
  <2>4. CASE pc' = "failed"
    BY <2>1, <2>4 DEF Resolution!Next, Resolution!GiveUp, Terminal
  <2>5. CASE pc' = "cellbase"
    <3>1. TransactionFetched /\ pc = "fetch"
      BY <1>1, <2>5 DEF Compute, Receive, GetTransaction, ResolveCells, CollectDep,
         MalformedGroup, Fail, ResolveMembers, PushDep, ResolveHeaders, TransactionFetched,
         MainResults, MemberResults, HeaderResults, Terminal
    <3>2. Decoded(wire[1], reply[1]) = tx /\ hash \in DOMAIN Chain
      BY <3>1, FetchedIs
    <3>3. tx.cellbase
      BY <2>5, <3>1, <3>2 DEF TransactionFetched
    <3> QED
      BY <2>1, <2>5, <3>2, <3>3 DEF Resolution!Next, Resolution!Skip, Terminal, tx
  <2> QED
    BY <2>2, <2>3, <2>4, <2>5 DEF Terminal
<1>2. CASE ReplyRejected \/ TransportFails
  BY <1>2, FailIsGiveUp DEF ReplyRejected, TransportFails, Waiting, Terminal, Resolution!Next
<1>3. CASE NodeResponds
  BY <1>3, Unshown DEF NodeResponds, Waiting, Terminal
<1>4. CASE UNCHANGED vars
  BY <1>4 DEF vars, Status, Shown
<1> QED
  BY <1>1, <1>2, <1>3, <1>4 DEF Next, Finished

(* For every chain and every node, the three batches, the offsets between  *)
(* them and the two loops make in many steps what CellResolution makes in  *)
(* one: the mock transaction that the chain defines, or nothing.           *)
THEOREM ResolutionRefines == Spec => ResolvesAtomically
<1>1. Init => Resolution!Init
  BY DEF Init, Resolution!Init, Resolution!NoMock, Terminal
<1>2. ConvInv /\ ConvInv' /\ MockInv /\ [Next]_vars => MockInv'
  BY StepMockInv
<1>3. Spec => [](ConvInv /\ MockInv)
  BY <1>2, Invariance, InitMockInv, PTL DEF Spec
<1>4. ConvInv /\ MockInv' /\ [Next]_vars
        => [Resolution!Next]_<<hash, Status, Shown>>
  BY StepResolves
<1> QED
  BY <1>1, <1>3, <1>4, PTL DEF Spec, ResolvesAtomically, Resolution!Spec, Status, Shown
================================================================================
