------------------------------- MODULE RpcClient -------------------------------
(***************************************************************************)
(* The JSON-RPC client of the host (src/rpc_client.rs) and the node it     *)
(* talks to.                                                               *)
(*                                                                         *)
(* The client numbers every call as it builds it (AtomicU64, from 0),      *)
(* posts one call (RpcCall::exec) or an array of calls (exec_batch) and    *)
(* blocks until the HTTP reply or the client's timeout.  exec_batch files  *)
(* the responses by id in a HashMap and takes them out call by call; exec  *)
(* never looks at the id.                                                  *)
(*                                                                         *)
(* The node is external.  It answers truthfully about the call whose id it *)
(* quotes, but may leave calls out, answer in any order, answer a call     *)
(* twice, answer with an error, and write a response without an "id".      *)
(***************************************************************************)
EXTENDS Integers, Sequences

CONSTANTS
  TxHash,     (* transaction hashes that appear in a call                  *)
  BlockHash,  (* block hashes that appear in a call                        *)
  Chain,      (* what the node holds: committed hash -> transaction record *)
  Headers     (* block hashes whose header the node holds                  *)

VARIABLES
  nextId,     (* RpcClient::next_id                                        *)
  wire,       (* the calls of the POST in flight, in request order         *)
  reply       (* the responses the node has written to it so far           *)

rpcVars == <<nextId, wire, reply>>

OutPoint == [hash : TxHash, index : Nat]

(* A call without its number: what to ask and how the answer is decoded.   *)
(* output_index is 0 where the code has None; only cell decoding reads it. *)
TransactionCall(h) == [decode |-> "transaction", hash |-> h, index |-> 0]
(* Mutant: a cell call decoded as the whole transaction.                   *)
CellCallAsTransaction(op) == TransactionCall(op.hash)
CellCall(op)       == [decode |-> "cell", hash |-> op.hash, index |-> op.index]
HeaderCall(b)      == [decode |-> "header", hash |-> b, index |-> 0]

Call == [id : Nat, decode : {"transaction", "cell"}, hash : TxHash, index : Nat]
        \cup [id : Nat, decode : {"header"}, hash : BlockHash, index : Nat]

(* Each call built takes the next number.                                  *)
NumberedFrom(n, asks) ==
  [k \in DOMAIN asks |-> [id     |-> n + k - 1,
                          decode |-> asks[k].decode,
                          hash   |-> asks[k].hash,
                          index  |-> asks[k].index]]

(* A response is about one call.  It is tagged when it has an "id" member  *)
(* and good when it is neither an error, nor null, nor hex.                *)
Response == [about : Call, tagged : BOOLEAN, good : BOOLEAN]

(* #[serde(default)] on JsonRpcResponse::id: a response without one gets 0.*)
ResponseId(r) == IF r.tagged THEN r.about.id ELSE 0

Method(c) == IF c.decode = "header" THEN "get_header" ELSE "get_transaction"

(* The decode_* function of call c returns Ok on response r.               *)
Decodes(c, r) ==
  /\ r.good
  /\ Method(r.about) = Method(c)
  /\ c.decode = "header" => r.about.hash \in Headers
  /\ c.decode # "header" => r.about.hash \in DOMAIN Chain
  /\ c.decode = "cell"   => c.index < Len(Chain[r.about.hash].outputs)

(* What it returns.  The index is the call's own, the rest the response's. *)
Decoded(c, r) ==
  CASE c.decode = "transaction" -> Chain[r.about.hash]
    [] c.decode = "cell"        -> Chain[r.about.hash].outputs[c.index + 1]
    [] c.decode = "header"      -> r.about.hash

--------------------------------------------------------------------------------
(* exec_batch, second half: the map from ids to responses and its use.     *)

(* Response n is the one by_id holds for id: a later insert replaces an     *)
(* earlier one.                                                            *)
LastFiled(id, n) ==
  /\ ResponseId(reply[n]) = id
  /\ \A m \in DOMAIN reply : ResponseId(reply[m]) = id => m <= n

ById(id) == reply[CHOOSE n \in DOMAIN reply : LastFiled(id, n)]

(* Mutant: a second response with the same id is an error.                 *)
TakenOnce(k) ==
  \E n \in DOMAIN reply :
    \A m \in DOMAIN reply : ResponseId(reply[m]) = wire[k].id <=> m = n

(* by_id.remove(&id) finds a response that no earlier call took.           *)
Taken(k) ==
  /\ \E n \in DOMAIN reply : LastFiled(wire[k].id, n)
  /\ \A j \in 1 .. k - 1 : wire[j].id # wire[k].id

BatchOk == \A k \in DOMAIN wire : Taken(k) /\ Decodes(wire[k], ById(wire[k].id))

(* Mutant: responses are matched to calls by position.                     *)
BatchResultsByPosition == [k \in DOMAIN wire |-> Decoded(wire[k], reply[k])]

BatchResults == [k \in DOMAIN wire |-> Decoded(wire[k], ById(wire[k].id))]

--------------------------------------------------------------------------------
RpcInit == nextId = 0 /\ wire = <<>> /\ reply = <<>>

(* Mutant: every POST numbers its calls from the same value.               *)
PostRenumbered(asks) ==
  wire' = NumberedFrom(nextId, asks) /\ reply' = <<>> /\ UNCHANGED nextId

(* Numbers the calls and posts them.                                       *)
Post(asks) ==
  /\ wire'   = NumberedFrom(nextId, asks)
  /\ nextId' = nextId + Len(asks)
  /\ reply'  = <<>>

(* Posts calls that were numbered when they were built.                    *)
PostBuilt(calls) == wire' = calls /\ reply' = <<>> /\ UNCHANGED nextId

(* The POST is over: its reply was consumed or it failed.                  *)
Close == wire' = <<>> /\ reply' = <<>> /\ UNCHANGED nextId

(* External: the node writes one more response.                            *)
Respond(r) == reply' = Append(reply, r) /\ UNCHANGED <<nextId, wire>>

RpcTypeOK ==
  /\ nextId \in Nat
  /\ wire \in Seq(Call)
  /\ reply \in Seq(Response)
================================================================================
