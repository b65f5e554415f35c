------------------------------ MODULE ProofContext ------------------------------
(***************************************************************************)
(* The second half of HostExecutor::run: from the mock transaction to the  *)
(* guest's replay.  The host indexes the cell deps by hash, lets CKB's     *)
(* verifier enumerate the script groups (src/vefier_context.rs), runs the  *)
(* collector on each (accumulate_traces), interns the ELFs of the traces   *)
(* (src/types/types.rs) and hands the context to the guest, which replays  *)
(* one trace (guest/src/lib.rs, executor.rs).                              *)
(*                                                                         *)
(* External: the verifier, which finds a script's code in the cell deps    *)
(* the transaction resolves to; the collector, which runs it; the replay   *)
(* of a trace by the VM, which may fail.                                   *)
(***************************************************************************)
EXTENDS Integers, Sequences, FiniteSets, FiniteSetsExt

CONSTANTS
  MockTxs,      (* the mock transactions tx_to_mock_tx hands over          *)
  NoType,       (* the type of a cell without a type script                *)
  TypeIdHash,   (* TYPE_ID_CODE_HASH                                       *)
  ElfSize,      (* data -> its length in bytes                             *)
  TraceSizes,   (* the lengths a serialized trace may have                 *)
  TxSize,       (* length of the raw transaction                           *)
  WarnSize,     (* the size execute compares the input with                *)
  MaxInputSize  (* max_input_size of the guest's entrypoint                *)

U16Range == 65536

ASSUME ContextAssumption ==
  /\ TraceSizes \subseteq Nat
  /\ \A x \in MockTxs :
       /\ Len(x.deps) \in Nat /\ DOMAIN x.deps = 1 .. Len(x.deps)
       /\ Len(x.groups) \in Nat /\ DOMAIN x.groups = 1 .. Len(x.groups)
       /\ \A i \in DOMAIN x.deps : x.deps[i].data \in DOMAIN ElfSize

(* The hashes a cell dep is indexed by.  They never collide.               *)
DataHash(d) == <<"data", d>>
TypeHash(t) == <<"type", t>>

VARIABLES
  pc,         (* where run is                                              *)
  mock,       (* mock_info.cell_deps and the verifier's script groups      *)
  indexed,    (* cell deps indexed so far                                  *)
  elfByHash,  (* elf_by_hash                                               *)
  met,        (* script groups met so far                                  *)
  traces,     (* script_traces                                             *)
  elfIndex,   (* code_hash_to_index                                        *)
  elfs,       (* machine_program_elfs                                      *)
  interned,   (* traces interned so far                                    *)
  vmTraces,   (* guest_context.vm_traces                                   *)
  warned,     (* execute printed "INPUT EXCEEDS max_input_size"            *)
  replayed    (* what the guest ran: nothing or one [elf, version, trace]  *)

traceVars == <<met, traces>>
guestVars == <<elfIndex, elfs, interned, vmTraces, warned, replayed>>
vars      == <<pc, mock, indexed, elfByHash, met, traces, elfIndex, elfs, interned,
               vmTraces, warned, replayed>>

Terminal == {"proved", "unresolved", "exited", "elf_missing", "too_large", "no_traces",
             "invalid_version", "vm_error"}

Init ==
  /\ pc = "index" /\ mock \in MockTxs
  /\ indexed = 0 /\ elfByHash = [h \in {} |-> <<>>]
  /\ met = 0 /\ traces = <<>>
  /\ elfIndex = [h \in {} |-> 0] /\ elfs = <<>> /\ interned = 0
  /\ vmTraces = <<>> /\ warned = FALSE /\ replayed = <<>>

--------------------------------------------------------------------------------
(* from_mock_transaction_with_groups: one iteration of the indexing loop.  *)
HashesOf(dep) ==
  {DataHash(dep.data)} \cup (IF dep.type = NoType THEN {} ELSE {TypeHash(dep.type)})

(* f with v under every key of keys.                                       *)
Put(f, keys, v) == [x \in DOMAIN f \cup keys |-> IF x \in keys THEN v ELSE f[x]]

(* Mutants: a cell dep is indexed by its data only; the first cell dep with *)
(* a hash keeps it.                                                        *)
IndexedByData(dep) == Put(elfByHash, {DataHash(dep.data)}, dep.data)
IndexedOnce(dep)   == Put(elfByHash, HashesOf(dep) \ DOMAIN elfByHash, dep.data)

(* insert replaces what an earlier cell dep left under the same hash.      *)
Indexed(dep)       == Put(elfByHash, HashesOf(dep), dep.data)

IndexDep ==
  /\ pc = "index" /\ indexed < Len(mock.deps)
  /\ elfByHash' = Indexed(mock.deps[indexed + 1])
  /\ indexed' = indexed + 1
  /\ UNCHANGED <<pc, mock, traceVars, guestVars>>

(* The verifier enumerates the groups, or refuses the transaction and the  *)
(* unwrap in run panics.                                                   *)
EnumerateGroups ==
  /\ pc = "index" /\ indexed = Len(mock.deps)
  /\ pc' \in {"collect", "unresolved"}
  /\ UNCHANGED <<mock, indexed, elfByHash, traceVars, guestVars>>

--------------------------------------------------------------------------------
(* accumulate_traces: one iteration of the loop over the groups.           *)
IsTypeIdGroup(g) == g.code = TypeIdHash /\ g.by = "type"

(* External: select_version, at an epoch where every version is active.    *)
ScriptVersion(g) == CASE g.by = "data" -> 0 [] g.by = "data1" -> 1 [] OTHER -> 2

(* External: the data of the resolved cell deps the script may refer to. A *)
(* dep group is resolved to its members: its own cell is not among them.   *)
CodeOf(g) ==
  {mock.deps[i].data : i \in {j \in DOMAIN mock.deps : /\ ~mock.deps[j].group
                                                       /\ g.code \in HashesOf(mock.deps[j])}}

GroupLeft == pc = "collect" /\ met < Len(mock.groups)

SkipTypeId ==
  /\ GroupLeft /\ IsTypeIdGroup(mock.groups[met + 1])
  /\ met' = met + 1
  /\ UNCHANGED <<pc, mock, indexed, elfByHash, traces, guestVars>>

(* External: no code, two candidates that differ, a VM error, or the cycle *)
(* limit.  collect_vm_syscalls_for_group exits the process with 254.       *)
CollectorFails ==
  /\ GroupLeft /\ ~IsTypeIdGroup(mock.groups[met + 1])
  /\ pc' = "exited"
  /\ UNCHANGED <<mock, indexed, elfByHash, traceVars, guestVars>>

(* The collector ran the group's code, to whatever exit code; the trace of *)
(* root VM {0, 0} is kept, with length 0 if there is none.  The ELF for it *)
(* is looked up only now: ProgramElfNotFound ends the run.                 *)
CollectGroup ==
  /\ GroupLeft /\ ~IsTypeIdGroup(mock.groups[met + 1])
  /\ LET g == mock.groups[met + 1] IN
     /\ Cardinality(CodeOf(g)) = 1
     /\ IF g.code \notin DOMAIN elfByHash
        THEN pc' = "elf_missing" /\ UNCHANGED traceVars
        ELSE /\ \E size \in TraceSizes \cup {0} :
                  traces' = Append(traces, [group |-> g, version |-> ScriptVersion(g),
                                            size |-> size, elf |-> elfByHash[g.code]])
             /\ met' = met + 1
             /\ UNCHANGED pc
  /\ UNCHANGED <<mock, indexed, elfByHash, guestVars>>

AllCollected ==
  /\ pc = "collect" /\ met = Len(mock.groups)
  /\ pc' = "intern"
  /\ UNCHANGED <<mock, indexed, elfByHash, traceVars, guestVars>>

--------------------------------------------------------------------------------
(* From<&TransactionProofContext>: one iteration of the interning loop.    *)

Interned(trace, idx) ==
  IF trace.group.code \in DOMAIN elfIndex THEN UNCHANGED <<elfIndex, elfs>>
  ELSE /\ elfIndex' = Put(elfIndex, {trace.group.code}, idx)
       /\ elfs' = Append(elfs, trace.elf)

(* Mutants: the index counts traces, not ELFs; it is taken after the push. *)
NextIndexByTrace   == interned % U16Range
NextIndexAfterPush == (Len(elfs) + 1) % U16Range
NextIndex        == Len(elfs) % U16Range

InternElf ==
  /\ pc = "intern" /\ interned < Len(traces)
  /\ Interned(traces[interned + 1], NextIndex)
  /\ interned' = interned + 1
  /\ UNCHANGED <<pc, mock, indexed, elfByHash, traceVars, vmTraces, warned, replayed>>

(* total_input: what execute prints and compares.  The guest's own input,  *)
(* serialized by postcard, is at least as long.                            *)
TotalInput ==
  TxSize + MapThenSumSet(LAMBDA k : traces[k].size, DOMAIN traces)
         + MapThenSumSet(LAMBDA k : ElfSize[elfs[k]], DOMAIN elfs)

Analyse ==
  /\ pc = "intern" /\ interned = Len(traces)
  /\ vmTraces' = [k \in DOMAIN traces |->
                    [version |-> traces[k].version, trace |-> k,
                     elf |-> elfIndex[traces[k].group.code]]]
  /\ warned' = (TotalInput > WarnSize)
  /\ pc' = "guest"
  /\ UNCHANGED <<mock, indexed, elfByHash, traceVars, elfIndex, elfs, interned, replayed>>

--------------------------------------------------------------------------------
(* The guest.  A panic of the guest is a panic of prove.                   *)
Fits == TotalInput <= MaxInputSize

Panics(why) == pc' = why /\ UNCHANGED <<mock, indexed, elfByHash, traceVars, guestVars>>

InputTooLarge == pc = "guest" /\ ~Fits /\ Panics("too_large")

NoTraces == pc = "guest" /\ Fits /\ vmTraces = <<>> /\ Panics("no_traces")

(* Mutant: the last trace.                                                 *)
ToReplayLast == vmTraces[Len(vmTraces)]

(* The one trace the guest replays.                                        *)
ToReplay == vmTraces[1]

(* run refuses VERSION0 on a machine whose isa has ISA_MOP, as execute's.  *)
InvalidVersion ==
  /\ pc = "guest" /\ Fits /\ vmTraces # <<>>
  /\ ToReplay.version = 0
  /\ Panics("invalid_version")

(* External: the ELF does not load, or the replay leaves the trace.        *)
ReplayFails == pc = "guest" /\ Fits /\ vmTraces # <<>> /\ Panics("vm_error")

Replay ==
  /\ pc = "guest" /\ Fits /\ vmTraces # <<>>
  /\ ToReplay.version # 0
  /\ ToReplay.elf + 1 \in DOMAIN elfs
  /\ replayed' = <<[elf |-> elfs[ToReplay.elf + 1], version |-> ToReplay.version,
                    trace |-> ToReplay.trace]>>
  /\ pc' = "proved"
  /\ UNCHANGED <<mock, indexed, elfByHash, traceVars, elfIndex, elfs, interned, vmTraces,
                 warned>>

Finished == pc \in Terminal /\ UNCHANGED vars

Next ==
  \/ IndexDep \/ EnumerateGroups
  \/ SkipTypeId \/ CollectorFails \/ CollectGroup \/ AllCollected
  \/ InternElf \/ Analyse
  \/ InputTooLarge \/ NoTraces \/ InvalidVersion \/ ReplayFails \/ Replay
  \/ Finished

Spec == Init /\ [][Next]_vars

--------------------------------------------------------------------------------
ContextTypeOK ==
  /\ pc \in {"index", "collect", "intern", "guest"} \cup Terminal
  /\ mock \in MockTxs
  /\ indexed \in 0 .. Len(mock.deps) /\ met \in 0 .. Len(mock.groups)
  /\ \A h \in DOMAIN elfByHash : elfByHash[h] \in DOMAIN ElfSize
  /\ \A k \in DOMAIN traces : /\ traces[k].version \in 0 .. 2
                              /\ traces[k].size \in TraceSizes \cup {0}
  /\ Len(elfs) <= interned /\ interned <= Len(traces)
  /\ \A h \in DOMAIN elfIndex : elfIndex[h] \in 0 .. Len(elfs) - 1
  /\ \A k \in DOMAIN vmTraces : vmTraces[k].elf < U16Range

(* A group the collector could run never fails at the ELF lookup: the map  *)
(* built from the mock cell deps covers whatever the verifier resolves.    *)
RunnableGroupHasElf == pc # "elf_missing"

(* The ELF that accompanies a trace is the code the verifier ran to record *)
(* it, although one is found in a last-insert-wins map of every mock cell  *)
(* dep and the other in the cell deps CKB resolves.                        *)
ElfIsVerifiedCode == \A k \in DOMAIN traces : CodeOf(traces[k].group) = {traces[k].elf}

(* After interning by code hash, the index that reaches the guest with a   *)
(* trace designates that trace's own ELF.                                  *)
IndexedElf ==
  \A k \in DOMAIN vmTraces : /\ vmTraces[k].elf + 1 \in DOMAIN elfs
                             /\ elfs[vmTraces[k].elf + 1] = traces[vmTraces[k].trace].elf

(* A proof is about the first group the verifier enumerated that is not a  *)
(* Type ID: its code, its version, the trace recorded for it.              *)
ProvesFirstGroup ==
  pc = "proved" =>
    \E i \in DOMAIN mock.groups :
      /\ \A j \in 1 .. i - 1 : IsTypeIdGroup(mock.groups[j])
      /\ traces[replayed[1].trace].group = mock.groups[i]
      /\ CodeOf(mock.groups[i]) = {replayed[1].elf}
      /\ replayed[1].version = ScriptVersion(mock.groups[i])

(* The analysis warns of every input the guest cannot take: it prints "max *)
(* input size configured" and "Jolt will panic" for that purpose.          *)
UnfitInputWarned == pc = "guest" /\ ~Fits => warned

(* Every script version execute maps to a machine version can be replayed. *)
MappedVersionRuns == pc # "invalid_version"
================================================================================
