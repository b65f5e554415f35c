------------------------------- MODULE GuestCode -------------------------------
(***************************************************************************)
(* A machine and its program, at the level of the run loop.  Memory is     *)
(* counted in parcels of two bytes; what an instruction computes is        *)
(* abstracted to one register acc, how it moves the pc, what it costs, and *)
(* what it does to the code in memory is kept.  An ECALL is named by the   *)
(* system call that it makes.                                              *)
(***************************************************************************)
EXTENDS Naturals, Integers, Sequences, FiniteSetsExt

CONSTANTS
  MemorySize, PageParcels,  (* parcels of the memory and of a page         *)
  AccLimit,                 (* acc is counted modulo AccLimit              *)
  U64Max,                   (* the largest number of cycles                *)
  U32Range,                 (* 2^32 in parcels                             *)
  Images,                   (* programs: code by address, executable pages *)
  LoadedCode,               (* what LOADCODE puts into a page              *)
  SyscallCycles             (* what CHARGE adds                            *)

Addr  == 0 .. MemorySize - 1
Page  == 0 .. (MemorySize \div PageParcels) - 1
PageOf(a) == a \div PageParcels

Inst(op, len, arg) == [op |-> op, len |-> len, arg |-> arg]
Data == Inst("DATA", 1, 0)

Ecalls    == {"EXIT", "EXEC", "LOADCODE", "CHARGE", "UNKNOWN"}
Jumps     == {"JAL", "JALR", "BNE"}
Computing == {"ADD", "ADDIW", "LUI", "CUSTOM_LOAD_IMM", "FENCE"}
Ops       == Ecalls \cup Jumps \cup Computing \cup {"STORE", "DATA"}
BlockEnds == Ecalls \cup Jumps \cup {"FENCE"}
IsBasicBlockEnd(i) == i.op \in BlockEnds

(* What memory holds: the system calls name programs and pages there are.  *)
Instruction ==
  {i \in [op : Ops, len : Nat \ {0}, arg : Int] :
     (i.op = "EXEC" => i.arg \in DOMAIN Images) /\ (i.op = "LOADCODE" => i.arg \in Page)}
Code == [Addr -> Instruction]
Memory == [code : Code, exec : [Page -> BOOLEAN]]

ASSUME GuestCodeAssumption ==
  /\ MemorySize \in Nat \ {0} /\ PageParcels \in Nat \ {0}
  /\ \A a \in Addr : PageOf(a) \in Page
  /\ U32Range \in Nat /\ U32Range > MemorySize
  /\ U64Max \in Nat /\ AccLimit \in Nat \ {0} /\ SyscallCycles \in Nat
  /\ \A image \in DOMAIN Images : Images[image] \in Memory
  /\ LoadedCode \in Code

(* Instructions are fetched from executable pages only.                    *)
Fetchable(mem, pc) ==
  /\ pc \in Addr /\ pc + mem.code[pc].len - 1 \in Addr
  /\ \A a \in pc .. pc + mem.code[pc].len - 1 : mem.exec[PageOf(a)]
Decodable(mem, pc) == Fetchable(mem, pc) /\ mem.code[pc].op # "DATA"

(* LUI and ADDIW are one instruction to a machine that fuses.              *)
Fusible(head, next) == head.op = "LUI" /\ next.op = "ADDIW"
Fuse(head, next) == Inst("CUSTOM_LOAD_IMM", head.len + next.len, head.arg + next.arg)

(* Mutant: the sum is not checked.                                         *)
AddUnchecked(m, c) == [m EXCEPT !.cycles = @ + c]

(* add_cycles: nothing is charged when the limit would be passed.          *)
AddCycles(m, c) ==
  IF m.cycles + c > U64Max THEN [m EXCEPT !.err = "CyclesOverflow"]
  ELSE IF m.cycles + c > m.max THEN [m EXCEPT !.err = "CyclesExceeded"]
  ELSE [m EXCEPT !.cycles = @ + c]

(* Mutant: the limit is not compared after a system call.                  *)
AddAfterCall(m, c) ==
  IF m.cycles + c > U64Max THEN [m EXCEPT !.err = "CyclesOverflow"] ELSE [m EXCEPT !.cycles = @ + c]

(* add_cycles_no_checking; ecall compares when the system call is done.    *)
AddCyclesInSyscall(m, c) ==
  IF m.cycles + c > U64Max THEN [m EXCEPT !.err = "CyclesOverflow"]
  ELSE [m EXCEPT !.cycles = @ + c,
                 !.err    = IF m.cycles + c > m.max THEN "CyclesExceeded" ELSE @]

Failed(m) == [m EXCEPT !.err = "Error"]

(* Exec resets the machine and loads another program, unless the guest's   *)
(* own handler answers 0 and returns.                                      *)
Exec(m, image, override) ==
  IF override THEN [m EXCEPT !.acc = 0]
  ELSE [m EXCEPT !.mem = Images[image], !.pc = 0, !.acc = 0, !.reset = TRUE]

(* Code is loaded into a page that is not frozen, and freezes it.          *)
Loaded(mem, page) ==
  [code |-> [a \in Addr |-> IF PageOf(a) = page THEN LoadedCode[a] ELSE mem.code[a]],
   exec |-> [mem.exec EXCEPT ![page] = TRUE]]
LoadCode(m, page) ==
  IF m.mem.exec[page] THEN Failed(m) ELSE [m EXCEPT !.mem = Loaded(m.mem, page)]

Written(mem, a) == [code |-> [mem.code EXCEPT ![a] = Inst("ADD", 1, 1)], exec |-> mem.exec]

(* Mutant: a store can overwrite code.                                     *)
StoreAnywhere(m, a) ==
  IF a \in Addr THEN [m EXCEPT !.mem = Written(m.mem, a)] ELSE Failed(m)

(* W^X: a store to an executable page is refused.                          *)
Store(m, a) ==
  IF a \in Addr /\ ~m.mem.exec[PageOf(a)] THEN [m EXCEPT !.mem = Written(m.mem, a)] ELSE Failed(m)

Accumulate(m, n) == [m EXCEPT !.acc = (m.acc + n) % AccLimit]

(* Execute instruction i, whose pc is m.pc.                                *)
Compute(m, i) ==
  CASE i.op \in {"ADD", "ADDIW"}           -> Accumulate(m, i.arg)
    [] i.op \in {"LUI", "CUSTOM_LOAD_IMM"} -> [m EXCEPT !.acc = i.arg % AccLimit]
    [] i.op = "FENCE"                      -> m

Target(m, i) ==
  CASE i.op = "JAL"  -> m.pc + i.arg
    [] i.op = "JALR" -> i.arg
    [] i.op = "BNE"  -> IF m.acc # 0 THEN m.pc + i.arg ELSE m.pc + i.len

Call(m, i, override) ==
  CASE i.op = "EXIT"     -> [m EXCEPT !.running = FALSE]
    [] i.op = "EXEC"     -> Exec(m, i.arg, override)
    [] i.op = "LOADCODE" -> LoadCode(m, i.arg)
    [] i.op = "CHARGE"   -> AddCyclesInSyscall(m, SyscallCycles)
    [] i.op = "UNKNOWN"  -> Failed(m)

Execute(m, i, override) ==
  LET next == [m EXCEPT !.pc = @ + i.len]
  IN  CASE i.op \in Computing -> Compute(next, i)
        [] i.op \in Jumps     -> [m EXCEPT !.pc = Target(m, i)]
        [] i.op \in Ecalls    -> Call(next, i, override)
        [] i.op = "STORE"     -> Store(next, i.arg)
        [] i.op \notin Computing \cup Jumps \cup Ecalls \cup {"STORE"} -> Failed(next)
================================================================================
