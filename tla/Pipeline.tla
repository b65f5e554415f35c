-------------------------------- MODULE Pipeline --------------------------------
(***************************************************************************)
(* A machine with macro-operation fusion on: it decodes the instructions   *)
(* at its pc, fused where a rule matches, and executes what it decoded.    *)
(* Versions 1 and 2 may fuse; version 0 has the opcodes of its own and     *)
(* runs without (run_with_decoder refuses it with ISA_MOP).                *)
(***************************************************************************)
EXTENDS Decoder

CONSTANT Programs  (* sets of [insts, pc, version, values]                 *)

(* The opcodes that only decode_mop makes, and those without a rd.         *)
FusedOps ==
  WideOps \cup {"FAR_JUMP_REL", "FAR_JUMP_ABS", "ADC", "SBB", "ADCS", "SBBS", "ADD3A", "ADD3B",
                "ADD3C", "CUSTOM_LOAD_IMM", "CUSTOM_LOAD_UIMM"}
OpsWithoutRd == DOMAIN StoreBytes \cup BranchOps \cup {"EBREAK", "FENCEI"}

(* What decode_raw answers.  Only LUI and AUIPC have an immediate of 32    *)
(* bits; a jump's, the next longest, has 21; a shift's is its amount.      *)
ShortImmediate == -(2^(WORD - 2)) .. 2^(WORD - 2) - 1
IsRaw(i) ==
  /\ i \in [op : STRING, rd : RegisterIndex, rs1 : RegisterIndex, rs2 : RegisterIndex,
            rs3 : RegisterIndex, rs4 : RegisterIndex, imm : Int, len : {2, 4}]
  /\ i.op \notin FusedOps
  /\ i.op \in OpsWithoutRd => i.rd = ZERO
  /\ i.op \in ShiftImmediateOps => i.imm \in 0 .. XLEN - 1
  /\ IF i.op \in {"LUI", "AUIPC"} THEN IsI32(i.imm) ELSE i.imm \in ShortImmediate

VARIABLES code, version, m

vars == <<code, version, m>>

(* The program's instructions, one after another, the first at pc.         *)
Placed(insts, pc) ==
  LET at(k) == pc + SumFunctionOnSet([j \in DOMAIN insts |-> insts[j].len], 1 .. k - 1)
  IN  [a \in {at(k) : k \in DOMAIN insts} |-> insts[CHOOSE k \in DOMAIN insts : at(k) = a]]

(* A program is a sequence of instructions in memory: the code is fetched  *)
(* from there.                                                             *)
ASSUME ProgramsAssumption ==
  \A c \in DOMAIN Programs : \A p \in Programs[c] :
    /\ \E n \in 0 .. MemSize : DOMAIN p.insts = 1 .. n
    /\ \A k \in DOMAIN p.insts : IsRaw(p.insts[k])
    /\ DOMAIN Placed(p.insts, p.pc) \subseteq Addr
    /\ p.pc \in Value /\ p.version \in 0 .. 2 /\ p.values \in Seq(Value)

(* A machine with values in its registers from x1 on.                      *)
Machine(pc, values) ==
  [regs |-> [r \in RegisterIndex |-> IF r \in DOMAIN values THEN values[r] ELSE 0],
   pc |-> pc, next_pc |-> pc, err |-> "none", lr |-> NoReservation,
   mem |-> [a \in Addr |-> a % 2^BYTE]]

Init ==
  \E c \in DOMAIN Programs : \E p \in Programs[c] :
    code = Placed(p.insts, p.pc) /\ version = p.version /\ m = Machine(p.pc, p.values)

Decoded == IF version = 0 THEN Raw(code, m.pc) ELSE DecodeMop(code, m.pc, version)

(* A pc where there is no instruction stops the machine.                   *)
Step ==
  /\ m.err = "none"
  /\ m' = IF m.pc \in DOMAIN code THEN Run(m, Decoded) ELSE Fault(m, "InvalidInstruction")
  /\ UNCHANGED <<code, version>>

Next == Step

Spec == Init /\ [][Next]_vars

--------------------------------------------------------------------------------
(* Type invariant.  Registers, memory and pc keep their widths, x0 is      *)
(* zero, and an instruction leaves no half-done jump.                      *)
PipelineTypeOK ==
  /\ m.regs \in [RegisterIndex -> Value] /\ m.regs[ZERO] = 0
  /\ m.pc \in Value /\ m.next_pc = m.pc /\ m.lr \in Value
  /\ m.mem \in [Addr -> 0 .. 2^BYTE - 1]

(* The machine one to five instructions later if none are fused.           *)
Unfused(x) == Run(x, Raw(code, x.pc))
Later ==
  LET x1 == Unfused(m)  x2 == Unfused(x1)  x3 == Unfused(x2)  x4 == Unfused(x3)
  IN  <<x1, x2, x3, x4, Unfused(x4)>>

(* A pc outside memory is as good as any other: nothing is fetched there.  *)
Observed(x) == [x EXCEPT !.pc = IF @ < MemSize THEN @ ELSE MemSize, !.next_pc = 0]

(* Before version 2 a far jump through a register other than RA leaves     *)
(* that register unwritten.                                                *)
LosesItsRegister ==
  version < 2 /\ Decoded.op \in {"FAR_JUMP_ABS", "FAR_JUMP_REL"} /\ code[m.pc].rd # RA

(* Whatever the registers of the instructions and the aliases among them,  *)
(* one step of the machine is one to five steps of a machine that does not *)
(* fuse: fusing never changes a result (decode_mop).                       *)
FusedAsSequence ==
  [][m.pc \in DOMAIN code /\ ~LosesItsRegister =>
       \E k \in 1 .. 5 : Observed(m') = Observed(Later[k])]_vars

(* The comparison of a fused borrow is of the registers subtracted, which  *)
(* fusion_sbb means to check and does not.                                 *)
NoUncheckedBorrow ==
  \A pc \in DOMAIN code :
    LET w == Window(code, pc)
    IN  RuleSbb(w[1], w[2], w[3], w[4], w[5]) => w[2].rs2 = w[1].rs2

(* An instruction whose destination is also an operand does what it does   *)
(* with a destination of its own: no handler reads a register that it has  *)
(* written.  JALR of version 0 does, which is why version 1 has another.   *)
(* (The rd of FENCE is no register.)                                       *)
Fresh == RISCV_GENERAL_REGISTER_NUMBER - 1
AliasingIsHarmless ==
  LET i     == Raw(code, m.pc)
      alias == Run(m, i)
      apart == Run(m, [i EXCEPT !.rd = Fresh])
      moved == [m.regs EXCEPT ![i.rd] = IF i.rd = ZERO THEN 0 ELSE apart.regs[Fresh]]
  IN  i.op \notin {"NONE", "JALR_VERSION0", "FENCE"} /\ apart.err = "none"
        => alias = [apart EXCEPT !.regs = moved]

Operand1 == m.regs[Raw(code, m.pc).rs1]
Operand2 == m.regs[Raw(code, m.pc).rs2]
Result(op) == ComputedValue(op, Operand1, Operand2, 0)

(* x = q * y + r modulo 2^bits, the remainder is smaller than the divisor  *)
(* and has the dividend's sign; dividing by zero gives -1 and x.           *)
Divides(x, y, q, r, bits) ==
  IF y = 0 THEN (q + 1) % 2^bits = 0 /\ r = x
  ELSE /\ (q * y + r) % 2^bits = x % 2^bits /\ Magnitude(r) < Magnitude(y)
       /\ r # 0 => Sign(r) = Sign(x)

(* DIV and REM, DIVU and REMU, and their word forms, agree with one        *)
(* another for every dividend and divisor, zero and overflow included.     *)
QuotientAndRemainder ==
  LET a == Operand1  b == Operand2
      W(x) == SignedLow(x, WORD)
  IN  Raw(code, m.pc).op \in MulDivOps =>
        /\ Divides(Signed(a), Signed(b), Signed(Result("DIV")), Signed(Result("REM")), XLEN)
        /\ Divides(a, b, Result("DIVU"), Result("REMU"), XLEN)
        /\ Divides(W(a), W(b), Signed(Result("DIVW")), Signed(Result("REMW")), WORD)
        /\ Divides(ZextW(a), ZextW(b), ZextW(Result("DIVUW")), ZextW(Result("REMUW")), WORD)

(* MUL and the three high products are the halves of the whole product;    *)
(* the three carry-less products are pieces of one, whichever operand is   *)
(* shifted.                                                                *)
ProductHalves ==
  LET a == Operand1  b == Operand2  op == Raw(code, m.pc).op
  IN  /\ op \in MulDivOps =>
           /\ Signed(Result("MULH")) * 2^XLEN + Result("MUL") = Signed(a) * Signed(b)
           /\ Signed(Result("MULHSU")) * 2^XLEN + Result("MUL") = Signed(a) * b
           /\ Wrap(Result("MULHU") - Result("MULHSU")) = IF Signed(a) < 0 THEN b ELSE 0
      /\ op \in SingleBitOps =>
           /\ Result("CLMULR") = BitOr(Shl(Result("CLMULH"), 1), Shr(Result("CLMUL"), XLEN - 1))
           /\ Result("CLMUL") = Clmul(b, a) /\ Result("CLMULH") = Clmulh(b, a)

(* Counts find the highest and the lowest one bit, rotations turn back,    *)
(* and the result of an instruction on words is a sign-extended word.      *)
BitLaws ==
  LET a == Operand1  b == Operand2  i == Raw(code, m.pc)
  IN  /\ i.op \in CountOps \cup RotateOps =>
           /\ ComputedValue("ROR", Result("ROL"), b, 0) = a
           /\ ComputedValue("RORW", Result("ROLW"), b, 0) = SextW(a)
           /\ Rev8(Result("REV8")) = a /\ Result("CPOP") + Cpop(Complement(a)) = XLEN
           /\ a # 0 => a \in 2^(XLEN - 1 - Result("CLZ")) .. 2^(XLEN - Result("CLZ")) - 1
           /\ a # 0 => a % 2^Result("CTZ") = 0 /\ (a \div 2^Result("CTZ")) % 2 = 1
           /\ ZextW(a) # 0 => Result("CTZW") = Result("CTZ")
           /\ ZextW(a) # 0 => Result("CLZW") = ComputedValue("CLZ", Shl(a, WORD), 0, 0)
      /\ i.op \in {"SUBW", "ADDW", "SLLW", "SRLW", "SRAW", "MULW", "DIVW", "DIVUW", "REMW",
                   "REMUW", "ROLW", "RORW", "RORIW", "ADDIW", "SLLIW", "SRLIW", "SRAIW"} =>
           LET v == ComputedValue(i.op, a, b, i.imm) IN v = SextW(v)

LoadReservedOps == {"LR_W", "LR_D"}
StoreConditionalOps == {"SC_W", "SC_D"}

(* In a program of loads and stores every instruction before the pc has    *)
(* succeeded, and a register never written holds the address it held.  A   *)
(* store-conditional answers 0 exactly when the last load-reserved before  *)
(* it was of the same address and no store-conditional has used that       *)
(* reservation up; otherwise it changes no memory.                         *)
ReservationOps == LoadReservedOps \cup StoreConditionalOps
StraightLine ==
  /\ \A a \in DOMAIN code :
       code[a].op \in ReservationOps \cup DOMAIN LoadShape \cup DOMAIN StoreBytes
  /\ \A a, b \in DOMAIN code :
       code[a].op \in ReservationOps => code[b].rd \notin {code[a].rs1} \ {ZERO}
ReservedNow ==
  \E l \in DOMAIN code :
    /\ l < m.pc /\ code[l].op \in LoadReservedOps
    /\ m.regs[code[l].rs1] = Operand1
    /\ \A k \in DOMAIN code :
         l < k /\ k < m.pc => code[k].op \notin ReservationOps
ScAnswersLastLr ==
  [][StraightLine /\ Raw(code, m.pc).op \in StoreConditionalOps /\ m'.err = "none" =>
       /\ code[m.pc].rd # ZERO => ((m'.regs[code[m.pc].rd] = 0) <=> ReservedNow)
       /\ ReservedNow \/ m'.mem = m.mem]_vars

(* An instruction that fails has changed nothing but the pc, which is past *)
(* it; only an atomic operation whose store is refused has written rd.     *)
FaultIsPrecise ==
  [][m'.err # "none" /\ m.pc \in DOMAIN code =>
       /\ m'.mem = m.mem /\ m'.lr = m.lr /\ m'.pc = Wrap(m.pc + Decoded.len)
       /\ m'.regs = m.regs \/ (Decoded.op \in AmoWOps \cup AmoDOps
                                 /\ m'.err = "MemWriteOnExecutablePage")]_vars
================================================================================
