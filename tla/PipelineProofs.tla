------------------------------ MODULE PipelineProofs ------------------------------
(***************************************************************************)
(* For every width of the registers, size of memory and program: what an   *)
(* instruction computes fits a register, what it leaves when it fails,     *)
(* that a destination among the operands changes nothing, and that fusing  *)
(* instructions changes nothing.                                           *)
(***************************************************************************)
EXTENDS Pipeline, RegisterProofs

(* A machine has its seven parts and its registers; nothing is said of the *)
(* values.                                                                 *)
Shaped(x) ==
  /\ x = [regs |-> x.regs, pc |-> x.pc, next_pc |-> x.next_pc, err |-> x.err, lr |-> x.lr,
          mem |-> x.mem]
  /\ x.regs = [r \in RegisterIndex |-> x.regs[r]]

(* What writing a register leaves, x0 among it.                            *)
SameButRegs(x, y) ==
  /\ y.pc = x.pc /\ y.next_pc = x.next_pc /\ y.err = x.err /\ y.lr = x.lr /\ y.mem = x.mem
  /\ y.regs[ZERO] = x.regs[ZERO]

LEMMA SetShaped ==
  ASSUME NEW x, NEW r, NEW v, Shaped(x)
  PROVE  Shaped(Set(x, r, v)) /\ SameButRegs(x, Set(x, r, v))
<1>1. ZERO \in RegisterIndex
  BY MachineAssumption DEF ZERO, RegisterIndex
<1>2. CASE r % RISCV_GENERAL_REGISTER_NUMBER = ZERO
  BY <1>2 DEF Shaped, SameButRegs, Set
<1>3. CASE r % RISCV_GENERAL_REGISTER_NUMBER # ZERO
  <2> DEFINE n == r % RISCV_GENERAL_REGISTER_NUMBER
  <2>1. Set(x, r, v) = [x EXCEPT !.regs = [x.regs EXCEPT ![n] = v]] /\ n # ZERO
    BY <1>3 DEF Set, Shaped
  <2> HIDE DEF n
  <2> QED
    BY <1>1, <2>1 DEF Shaped, SameButRegs
<1> QED
  BY <1>2, <1>3

LEMMA GotoShaped ==
  ASSUME NEW x, NEW pc, Shaped(x)
  PROVE  LET y == Goto(x, pc)
         IN  /\ Shaped(y) /\ y.regs = x.regs /\ y.err = x.err /\ y.lr = x.lr /\ y.mem = x.mem
             /\ y.pc = x.pc /\ y.next_pc = pc
  BY DEF Shaped, Goto

LEMMA FaultShaped ==
  ASSUME NEW x, NEW e, Shaped(x)
  PROVE  LET y == Fault(x, e)
         IN  /\ Shaped(y) /\ y.regs = x.regs /\ y.lr = x.lr /\ y.mem = x.mem
             /\ y.pc = x.pc /\ y.next_pc = x.next_pc /\ y.err = e
  BY DEF Shaped, Fault

LEMMA StoredShaped ==
  ASSUME NEW x, NEW a, NEW n, NEW v, Shaped(x)
  PROVE  LET y == Stored(x, a, n, v)
         IN  /\ Shaped(y) /\ y.regs = x.regs /\ y.lr = x.lr
             /\ y.pc = x.pc /\ y.next_pc = x.next_pc
             /\ \/ y.err = x.err
                \/ y.mem = x.mem /\ y.err = "MemOutOfBound" /\ ~InBounds(a, n)
                \/ y.mem = x.mem /\ y.err = "MemWriteOnExecutablePage" /\ InBounds(a, n)
<1>1. CASE ~InBounds(a, n)
  <2>1. Stored(x, a, n, v) = Fault(x, "MemOutOfBound")
    BY <1>1 DEF Stored
  <2> QED
    BY <1>1, <2>1, FaultShaped
<1>2. CASE InBounds(a, n) /\ ReadOnly \cap (a .. a + n - 1) # {}
  <2>1. Stored(x, a, n, v) = Fault(x, "MemWriteOnExecutablePage")
    BY <1>2 DEF Stored
  <2> QED
    BY <1>2, <2>1, FaultShaped
<1>3. CASE InBounds(a, n) /\ ReadOnly \cap (a .. a + n - 1) = {}
  <2> DEFINE mem == [c \in Addr |->
               IF c \in a .. a + n - 1 THEN (v \div 2^(BYTE * (c - a))) % 2^BYTE ELSE x.mem[c]]
  <2>1. Stored(x, a, n, v) = [x EXCEPT !.mem = mem]
    BY <1>3 DEF Stored
  <2> HIDE DEF mem
  <2> QED
    BY <2>1 DEF Shaped
<1> QED
  BY <1>1, <1>2, <1>3

--------------------------------------------------------------------------------
(* What a handler has done to the machine x when it answers y: an error    *)
(* comes before any change, but for the register of an atomic operation    *)
(* whose store is refused.                                                 *)
Precise(x, i, y) ==
  y.err # x.err =>
    /\ y.mem = x.mem /\ y.lr = x.lr /\ y.next_pc = x.next_pc
    /\ y.regs = x.regs \/ (i.op \in AmoWOps \cup AmoDOps
                             /\ y.err = "MemWriteOnExecutablePage")

Handled(x, i, y) ==
  /\ Shaped(y) /\ y.pc = x.pc /\ y.regs[ZERO] = x.regs[ZERO]
  /\ y.err = "none" => x.err = "none"
  /\ Precise(x, i, y)

(* A handler that only computes and writes registers.                      *)
Quiet(x, y) == Shaped(y) /\ SameButRegs(x, y)

LEMMA QuietIsHandled ==
  ASSUME NEW x, NEW i, NEW y, Quiet(x, y)
  PROVE  Handled(x, i, y)
  BY DEF Quiet, SameButRegs, Handled, Precise

LEMMA SetQuiet ==
  ASSUME NEW x, NEW y, NEW r, NEW v, Quiet(x, y)
  PROVE  Quiet(x, Set(y, r, v))
  BY SetShaped DEF Quiet, SameButRegs

LEMMA FaultHandled ==
  ASSUME NEW x, NEW i, NEW e, Shaped(x), e # "none"
  PROVE  Handled(x, i, Fault(x, e))
  BY FaultShaped DEF Handled, Precise

LEMMA GotoHandled ==
  ASSUME NEW x, NEW i, NEW y, NEW pc, Quiet(x, y)
  PROVE  Handled(x, i, Goto(y, pc))
  BY GotoShaped DEF Quiet, SameButRegs, Handled, Precise

LEMMA LoadHandled ==
  ASSUME NEW x, NEW i, Shaped(x)
  PROVE  Handled(x, i, Load(x, i))
<1>1. \/ Load(x, i) = Fault(x, "MemOutOfBound")
      \/ \E v : Load(x, i) = Set(x, i.rd, v)
  BY DEF Load
<1>2. Quiet(x, x)
  BY DEF Quiet, SameButRegs
<1> QED
  BY <1>1, <1>2, SetQuiet, QuietIsHandled, FaultHandled

LEMMA StoreHandled ==
  ASSUME NEW x, NEW i, Shaped(x)
  PROVE  Handled(x, i, Store(x, i))
  BY StoredShaped DEF Store, Handled, Precise

(* The one handler that can fail after a write.                            *)
LEMMA AmoHandled ==
  ASSUME NEW x, NEW i, Shaped(x), i.op \in AmoWOps \cup AmoDOps
  PROVE  Handled(x, i, Amo(x, i))
<1> DEFINE a == x.regs[i.rs1]
           n == IF i.op \in AmoWOps THEN 4 ELSE 8
<1>1. \/ Amo(x, i) = Fault(x, "MemOutOfBound")
      \/ InBounds(a, n) /\ \E v, w : Amo(x, i) = Stored(Set(x, i.rd, v), a, n, w)
  BY DEF Amo
<1>2. ASSUME NEW v, NEW w, InBounds(a, n), Amo(x, i) = Stored(Set(x, i.rd, v), a, n, w)
      PROVE  Handled(x, i, Amo(x, i))
  <2> DEFINE s == Set(x, i.rd, v)
             y == Stored(s, a, n, w)
  <2>1. Shaped(s) /\ SameButRegs(x, s)
    BY SetShaped
  <2> HIDE DEF s, a, n
  <2>2. /\ Shaped(y) /\ y.lr = s.lr /\ y.pc = s.pc /\ y.next_pc = s.next_pc /\ y.regs = s.regs
        /\ y.err = s.err \/ (y.mem = s.mem /\ y.err = "MemWriteOnExecutablePage")
    BY <1>2, <2>1, StoredShaped
  <2> QED
    BY <1>2, <2>1, <2>2 DEF s, Handled, Precise, SameButRegs
<1> QED
  BY <1>1, <1>2, FaultHandled

LEMMA LoadReservedHandled ==
  ASSUME NEW x, NEW i, Shaped(x)
  PROVE  Handled(x, i, LoadReserved(x, i))
<1> DEFINE a == x.regs[i.rs1]
<1>1. \/ LoadReserved(x, i) = Fault(x, "MemOutOfBound")
      \/ \E v : LoadReserved(x, i) = [Set(x, i.rd, v) EXCEPT !.lr = a]
  BY DEF LoadReserved
<1>2. ASSUME NEW v, LoadReserved(x, i) = [Set(x, i.rd, v) EXCEPT !.lr = a]
      PROVE  Handled(x, i, LoadReserved(x, i))
  <2> HIDE DEF a
  <2> QED
    BY <1>2, SetShaped DEF Shaped, SameButRegs, Handled, Precise
<1> QED
  BY <1>1, <1>2, FaultHandled

LEMMA StoreConditionalHandled ==
  ASSUME NEW x, NEW i, Shaped(x)
  PROVE  Handled(x, i, StoreConditional(x, i))
<1> DEFINE a == x.regs[i.rs1]
           n == ReservationBytes[i.op]
           v == IF a = x.lr THEN x.regs[i.rs2] ELSE Loaded(x, a, n)
           s == Stored(x, a, n, v)
<1>1. \/ StoreConditional(x, i) = Fault(x, "MemOutOfBound")
      \/ StoreConditional(x, i) = s
      \/ /\ s.err = "none"
         /\ \E w : StoreConditional(x, i) = [Set(s, i.rd, w) EXCEPT !.lr = NoReservation]
  BY DEF StoreConditional
<1>2. Handled(x, i, s)
  BY StoredShaped DEF Handled, Precise
<1>3. ASSUME NEW w, s.err = "none",
             StoreConditional(x, i) = [Set(s, i.rd, w) EXCEPT !.lr = NoReservation]
      PROVE  Handled(x, i, StoreConditional(x, i))
  <2> HIDE DEF s
  <2>1. Shaped(Set(s, i.rd, w)) /\ SameButRegs(s, Set(s, i.rd, w))
    BY <1>2, SetShaped DEF Handled
  <2> QED
    BY <1>2, <1>3, <2>1 DEF Shaped, SameButRegs, Handled, Precise
<1> QED
  BY <1>1, <1>2, <1>3, FaultHandled

LEMMA FusedHandled ==
  ASSUME NEW x, NEW i, Shaped(x)
  PROVE  /\ Handled(x, i, Wide(x, i))  /\ Handled(x, i, Adc(x, i))  /\ Handled(x, i, Sbb(x, i))
         /\ Handled(x, i, Adcs(x, i))  /\ Handled(x, i, Sbbs(x, i))
         /\ Handled(x, i, Add3a(x, i)) /\ Handled(x, i, Add3b(x, i)) /\ Handled(x, i, Add3c(x, i))
<1>1. Quiet(x, x)
  BY DEF Quiet, SameButRegs
<1>2. ASSUME NEW y, NEW op, NEW r, NEW a, NEW b, Quiet(x, y)
      PROVE  Quiet(x, Do(y, op, r, a, b))
  BY <1>2, SetQuiet DEF Do
<1>3. Quiet(x, Wide(x, i))
  BY <1>1, SetQuiet DEF Wide
<1>4. Quiet(x, Adc(x, i))
  BY <1>1, <1>2 DEF Adc
<1>5. Quiet(x, Sbb(x, i))
  BY <1>1, <1>2 DEF Sbb
<1>6. Quiet(x, Adcs(x, i)) /\ Quiet(x, Sbbs(x, i))
  BY <1>1, <1>2, SetQuiet DEF Adcs, Sbbs
<1>7. Quiet(x, Add3a(x, i)) /\ Quiet(x, Add3b(x, i)) /\ Quiet(x, Add3c(x, i))
  BY <1>1, <1>2, SetQuiet DEF Add3a, Add3b, Add3c
<1> QED
  BY <1>3, <1>4, <1>5, <1>6, <1>7, QuietIsHandled

LEMMA ExecuteHandled ==
  ASSUME NEW x, NEW i, Shaped(x)
  PROVE  Handled(x, i, ExecuteInstruction(x, i))
<1>1. Quiet(x, x)
  BY DEF Quiet, SameButRegs
<1>2. \A r, v : Handled(x, i, Set(x, r, v))
  BY <1>1, SetQuiet, QuietIsHandled
<1>3. \A r, v, pc : Handled(x, i, Goto(Set(x, r, v), pc))
  BY <1>1, SetQuiet, GotoHandled
<1>4. /\ Handled(x, i, Lui(x, i)) /\ Handled(x, i, Auipc(x, i)) /\ Handled(x, i, LoadImm(x, i))
      /\ Handled(x, i, Set(x, i.rd, ComputedValue(i.op, x.regs[i.rs1], x.regs[i.rs2], i.imm)))
  BY <1>2 DEF Lui, Auipc, LoadImm
<1>5. /\ Handled(x, i, Jal(x, i)) /\ Handled(x, i, JalrVersion0(x, i))
      /\ Handled(x, i, JalrVersion1(x, i)) /\ Handled(x, i, FarJumpRel(x, i))
      /\ Handled(x, i, FarJumpAbs(x, i))
  BY <1>3 DEF Jal, JalrVersion0, JalrVersion1, FarJumpRel, FarJumpAbs
<1>6. Handled(x, i, Branch(x, i))
  BY <1>1, GotoHandled DEF Branch
<1>7. Handled(x, i, x)
  BY <1>1, QuietIsHandled
<1>8. i.op \in AmoWOps \cup AmoDOps => Handled(x, i, Amo(x, i))
  BY AmoHandled
<1>9. /\ Handled(x, i, Load(x, i)) /\ Handled(x, i, Store(x, i))
      /\ Handled(x, i, LoadReserved(x, i)) /\ Handled(x, i, StoreConditional(x, i))
      /\ Handled(x, i, Fault(x, "InvalidOp"))
  BY LoadHandled, StoreHandled, LoadReservedHandled, StoreConditionalHandled, FaultHandled
<1> QED
  BY <1>4, <1>5, <1>6, <1>7, <1>8, <1>9, FusedHandled, Zenon DEF ExecuteInstruction

(* A machine between two instructions.                                     *)
Between(x) == Shaped(x) /\ x.next_pc = x.pc /\ x.regs[ZERO] = 0

LEMMA RunHandled ==
  ASSUME NEW x, NEW i, Between(x)
  PROVE  LET y == Run(x, i)
         IN  /\ Between(y) /\ (y.err = "none" => x.err = "none")
             /\ y.err # x.err =>
                  /\ y.mem = x.mem /\ y.lr = x.lr /\ y.pc = Link(x, i)
                  /\ y.regs = x.regs \/ (i.op \in AmoWOps \cup AmoDOps
                                           /\ y.err = "MemWriteOnExecutablePage")
<1> DEFINE g == Goto(x, Link(x, i))
           r == ExecuteInstruction(g, i)
<1>1. /\ Shaped(g) /\ g.regs = x.regs /\ g.err = x.err /\ g.lr = x.lr /\ g.mem = x.mem
      /\ g.pc = x.pc /\ g.next_pc = Link(x, i)
  BY GotoShaped DEF Between
<1>2. Handled(g, i, r)
  BY <1>1, ExecuteHandled
<1>3. Run(x, i) = [r EXCEPT !.pc = r.next_pc]
  BY DEF Run
<1> HIDE DEF g, r
<1>4. Shaped(r)
  BY <1>2 DEF Handled
<1> QED
  BY <1>1, <1>2, <1>3, <1>4 DEF Between, Shaped, Handled, Precise

LEMMA StepKeepsBetween ==
  ASSUME Between(m), [Next]_vars
  PROVE  Between(m)'
<1>1. CASE Step
  <2>1. CASE m.pc \in DOMAIN code
    BY <1>1, <2>1, RunHandled DEF Step
  <2>2. CASE m.pc \notin DOMAIN code
    BY <1>1, <2>2, FaultShaped DEF Step, Between
  <2> QED
    BY <2>1, <2>2
<1>2. CASE UNCHANGED vars
  BY <1>2 DEF vars, Between, Shaped
<1> QED
  BY <1>1, <1>2 DEF Next

LEMMA InitBetween == Init => Between(m)
<1> SUFFICES ASSUME NEW pc, NEW values \in Seq(Value)
             PROVE  Between(Machine(pc, values))
  BY ProgramsAssumption DEF Init
<1>1. ZERO \in RegisterIndex /\ ZERO \notin DOMAIN values
  BY MachineAssumption DEF ZERO, RegisterIndex
<1> QED
  BY <1>1 DEF Machine, Between, Shaped

(* An instruction that fails, fused or not and whatever its operands, has  *)
(* changed neither memory nor the reservation, and no register but that of *)
(* an atomic operation whose store is refused; the pc is past it: what the *)
(* handlers of execute.rs do before their first error return.              *)
THEOREM FaultsArePrecise == Spec => FaultIsPrecise
<1> DEFINE A == m'.err # "none" /\ m.pc \in DOMAIN code =>
       /\ m'.mem = m.mem /\ m'.lr = m.lr /\ m'.pc = Wrap(m.pc + Decoded.len)
       /\ m'.regs = m.regs \/ (Decoded.op \in AmoWOps \cup AmoDOps
                                 /\ m'.err = "MemWriteOnExecutablePage")
<1>1. ASSUME Between(m), [Next]_vars
      PROVE  [A]_vars
  <2>1. CASE Step
    <3> SUFFICES ASSUME m'.err # "none", m.pc \in DOMAIN code
                 PROVE  A
      OBVIOUS
    <3>1. m' = Run(m, Decoded) /\ m.err = "none"
      BY <2>1 DEF Step
    <3>2. Link(m, Decoded) = Wrap(m.pc + Decoded.len)
      BY DEF Link, OverflowingAdd
    <3> QED
      BY <1>1, <3>1, <3>2, RunHandled
  <2>2. CASE UNCHANGED vars
    BY <2>2
  <2> QED
    BY <1>1, <2>1, <2>2 DEF Next
<1> QED
  BY <1>1, InitBetween, StepKeepsBetween, PTL DEF Spec, FaultIsPrecise

--------------------------------------------------------------------------------
(* The opcodes of two arms of execute_instruction are different, so that   *)
(* the opcode alone decides which handler runs.                            *)
MemoryOps == DOMAIN LoadShape \cup DOMAIN StoreBytes \cup AmoWOps \cup AmoDOps
               \cup {"LR_W", "LR_D", "SC_W", "SC_D"}
JumpOps   == BranchOps \cup {"LUI", "AUIPC", "JAL", "JALR_VERSION0", "JALR_VERSION1"}
OtherOps  == {"EBREAK", "FENCE", "FENCEI"}

LEMMA OpcodesDisjoint ==
  /\ \A op \in ValueOps : op \notin MemoryOps /\ op \notin JumpOps /\ op \notin OtherOps /\ op \notin FusedOps
  /\ \A op \in MemoryOps : op \notin JumpOps /\ op \notin OtherOps /\ op \notin FusedOps
  /\ \A op \in JumpOps : op \notin OtherOps /\ op \notin FusedOps
  /\ \A op \in OtherOps : op \notin FusedOps
<1> USE DEF MemoryOps, JumpOps, OtherOps, FusedOps, LoadShape, StoreBytes, AmoWOps, AmoDOps,
            BranchOps, WideOps
<1>1. \A op \in ValueOps : op \notin MemoryOps /\ op \notin JumpOps /\ op \notin OtherOps /\ op \notin FusedOps
  BY DEF ValueOps, AluOps, MulDivOps, SingleBitOps, CountOps, RotateOps, ImmediateOps,
         ShiftImmediateOps, BitImmediateOps
<1>2. \A op \in MemoryOps : op \notin JumpOps /\ op \notin OtherOps /\ op \notin FusedOps
  OBVIOUS
<1>3. \A op \in JumpOps : op \notin OtherOps /\ op \notin FusedOps
  OBVIOUS
<1>4. \A op \in OtherOps : op \notin FusedOps
  OBVIOUS
<1> QED
  BY <1>1, <1>2, <1>3, <1>4

(* The handler of each opcode that is not fused.                           *)
LEMMA RawHandler ==
  ASSUME NEW x, NEW i, i.op \notin FusedOps
  PROVE  /\ i.op \in ValueOps =>
              ExecuteInstruction(x, i) =
                Set(x, i.rd, ComputedValue(i.op, x.regs[i.rs1], x.regs[i.rs2], i.imm))
         /\ i.op \in DOMAIN LoadShape => ExecuteInstruction(x, i) = Load(x, i)
         /\ i.op \in DOMAIN StoreBytes => ExecuteInstruction(x, i) = Store(x, i)
         /\ i.op \in AmoWOps \cup AmoDOps => ExecuteInstruction(x, i) = Amo(x, i)
         /\ i.op \in {"LR_W", "LR_D"} => ExecuteInstruction(x, i) = LoadReserved(x, i)
         /\ i.op \in {"SC_W", "SC_D"} => ExecuteInstruction(x, i) = StoreConditional(x, i)
         /\ i.op \in BranchOps => ExecuteInstruction(x, i) = Branch(x, i)
         /\ i.op = "LUI" => ExecuteInstruction(x, i) = Lui(x, i)
         /\ i.op = "AUIPC" => ExecuteInstruction(x, i) = Auipc(x, i)
         /\ i.op = "JAL" => ExecuteInstruction(x, i) = Jal(x, i)
         /\ i.op = "JALR_VERSION0" => ExecuteInstruction(x, i) = JalrVersion0(x, i)
         /\ i.op = "JALR_VERSION1" => ExecuteInstruction(x, i) = JalrVersion1(x, i)
         /\ i.op \in OtherOps => ExecuteInstruction(x, i) = x
         /\ i.op \notin ValueOps \cup MemoryOps \cup JumpOps \cup OtherOps =>
              ExecuteInstruction(x, i) = Fault(x, "InvalidOp")
<1>f. /\ i.op \notin WideOps /\ i.op # "FAR_JUMP_REL" /\ i.op # "FAR_JUMP_ABS"
      /\ i.op # "ADC" /\ i.op # "SBB" /\ i.op # "ADCS" /\ i.op # "SBBS" /\ i.op # "ADD3A"
      /\ i.op # "ADD3B" /\ i.op # "ADD3C" /\ i.op \notin {"CUSTOM_LOAD_IMM", "CUSTOM_LOAD_UIMM"}
  BY DEF FusedOps
<1>m. i.op \notin MemoryOps =>
        /\ i.op \notin DOMAIN LoadShape /\ i.op \notin DOMAIN StoreBytes
        /\ i.op \notin AmoWOps \cup AmoDOps
        /\ i.op \notin {"LR_W", "LR_D"} /\ i.op \notin {"SC_W", "SC_D"}
  BY DEF MemoryOps
<1>j. i.op \notin JumpOps =>
        /\ i.op \notin BranchOps /\ i.op # "LUI" /\ i.op # "AUIPC" /\ i.op # "JAL"
        /\ i.op # "JALR_VERSION0" /\ i.op # "JALR_VERSION1"
  BY DEF JumpOps
<1>o. i.op \notin OtherOps => i.op \notin {"EBREAK", "FENCE", "FENCEI"}
  BY DEF OtherOps
<1>1. CASE i.op \in ValueOps
  <2>1. i.op \notin MemoryOps /\ i.op \notin JumpOps /\ i.op \notin OtherOps
    BY <1>1, OpcodesDisjoint
  <2>2. ExecuteInstruction(x, i) =
          Set(x, i.rd, ComputedValue(i.op, x.regs[i.rs1], x.regs[i.rs2], i.imm))
    BY <1>1, <1>f, <1>m, <1>j, <1>o, <2>1 DEF ExecuteInstruction
  <2> QED
    BY <1>1, <1>m, <1>j, <2>1, <2>2
<1>2. CASE i.op \in MemoryOps
  <2>1. i.op \notin ValueOps /\ i.op \notin JumpOps /\ i.op \notin OtherOps
    BY <1>2, OpcodesDisjoint
  <2>2. CASE i.op \in DOMAIN LoadShape
    <3>1. /\ i.op \notin DOMAIN StoreBytes /\ i.op \notin AmoWOps \cup AmoDOps
          /\ i.op \notin {"LR_W", "LR_D"} /\ i.op \notin {"SC_W", "SC_D"}
      BY <2>2 DEF LoadShape, StoreBytes, AmoWOps, AmoDOps
    <3>2. ExecuteInstruction(x, i) = Load(x, i)
      BY <1>f, <1>j, <1>o, <2>1, <2>2, <3>1 DEF ExecuteInstruction
    <3> QED
      BY <1>j, <2>1, <2>2, <3>1, <3>2, <1>2
  <2>3. CASE i.op \in DOMAIN StoreBytes
    <3>1. /\ i.op \notin DOMAIN LoadShape /\ i.op \notin AmoWOps \cup AmoDOps
          /\ i.op \notin {"LR_W", "LR_D"} /\ i.op \notin {"SC_W", "SC_D"}
      BY <2>3 DEF LoadShape, StoreBytes, AmoWOps, AmoDOps
    <3>2. ExecuteInstruction(x, i) = Store(x, i)
      BY <1>f, <1>j, <1>o, <2>1, <2>3, <3>1 DEF ExecuteInstruction
    <3> QED
      BY <1>j, <2>1, <2>3, <3>1, <3>2, <1>2
  <2>4. CASE i.op \in AmoWOps \cup AmoDOps
    <3>1. /\ i.op \notin DOMAIN LoadShape /\ i.op \notin DOMAIN StoreBytes
          /\ i.op \notin {"LR_W", "LR_D"} /\ i.op \notin {"SC_W", "SC_D"}
      BY <2>4 DEF LoadShape, StoreBytes, AmoWOps, AmoDOps
    <3>2. ExecuteInstruction(x, i) = Amo(x, i)
      BY <1>f, <1>j, <1>o, <2>1, <2>4, <3>1 DEF ExecuteInstruction
    <3> QED
      BY <1>j, <2>1, <2>4, <3>1, <3>2, <1>2
  <2>5. CASE i.op \in {"LR_W", "LR_D"}
    <3>1. /\ i.op \notin DOMAIN LoadShape /\ i.op \notin DOMAIN StoreBytes
          /\ i.op \notin AmoWOps \cup AmoDOps /\ i.op \notin {"SC_W", "SC_D"}
      BY <2>5 DEF LoadShape, StoreBytes, AmoWOps, AmoDOps
    <3>2. ExecuteInstruction(x, i) = LoadReserved(x, i)
      BY <1>f, <1>j, <1>o, <2>1, <2>5, <3>1 DEF ExecuteInstruction
    <3> QED
      BY <1>j, <2>1, <2>5, <3>1, <3>2, <1>2
  <2>6. CASE i.op \in {"SC_W", "SC_D"}
    <3>1. /\ i.op \notin DOMAIN LoadShape /\ i.op \notin DOMAIN StoreBytes
          /\ i.op \notin AmoWOps \cup AmoDOps /\ i.op \notin {"LR_W", "LR_D"}
      BY <2>6 DEF LoadShape, StoreBytes, AmoWOps, AmoDOps
    <3>2. ExecuteInstruction(x, i) = StoreConditional(x, i)
      BY <1>f, <1>j, <1>o, <2>1, <2>6, <3>1 DEF ExecuteInstruction
    <3> QED
      BY <1>j, <2>1, <2>6, <3>1, <3>2, <1>2
  <2> QED
    BY <1>2, <2>2, <2>3, <2>4, <2>5, <2>6 DEF MemoryOps
<1>3. CASE i.op \in JumpOps
  <2>1. i.op \notin ValueOps /\ i.op \notin MemoryOps /\ i.op \notin OtherOps
    BY <1>3, OpcodesDisjoint
  <2>2. CASE i.op \in BranchOps
    <3>1. /\ i.op # "LUI" /\ i.op # "AUIPC" /\ i.op # "JAL"
          /\ i.op # "JALR_VERSION0" /\ i.op # "JALR_VERSION1"
      BY <2>2 DEF BranchOps
    <3>2. ExecuteInstruction(x, i) = Branch(x, i)
      BY <1>f, <1>m, <1>o, <2>1, <2>2, <3>1 DEF ExecuteInstruction
    <3> QED
      BY <1>m, <2>1, <2>2, <3>1, <3>2, <1>3
  <2>3. CASE i.op \in {"LUI", "AUIPC", "JAL", "JALR_VERSION0", "JALR_VERSION1"}
    <3>1. i.op \notin BranchOps
      BY <2>3 DEF BranchOps
    <3>2. CASE i.op = "LUI"
      BY <1>f, <1>m, <1>o, <1>3, <2>1, <3>1, <3>2 DEF ExecuteInstruction
    <3>3. CASE i.op = "AUIPC"
      BY <1>f, <1>m, <1>o, <1>3, <2>1, <3>1, <3>3 DEF ExecuteInstruction
    <3>4. CASE i.op = "JAL"
      BY <1>f, <1>m, <1>o, <1>3, <2>1, <3>1, <3>4 DEF ExecuteInstruction
    <3>5. CASE i.op = "JALR_VERSION0"
      BY <1>f, <1>m, <1>o, <1>3, <2>1, <3>1, <3>5 DEF ExecuteInstruction
    <3>6. CASE i.op = "JALR_VERSION1"
      BY <1>f, <1>m, <1>o, <1>3, <2>1, <3>1, <3>6 DEF ExecuteInstruction
    <3> QED
      BY <2>3, <3>2, <3>3, <3>4, <3>5, <3>6
  <2> QED
    BY <1>3, <2>2, <2>3 DEF JumpOps
<1>4. CASE i.op \in OtherOps
  <2>1. i.op \notin ValueOps /\ i.op \notin MemoryOps /\ i.op \notin JumpOps
    BY <1>4, OpcodesDisjoint
  <2>2. ExecuteInstruction(x, i) = x
    BY <1>4, <1>f, <1>m, <1>j, <2>1 DEF OtherOps, ExecuteInstruction
  <2> QED
    BY <1>4, <1>m, <1>j, <2>1, <2>2
<1>5. CASE i.op \notin ValueOps \cup MemoryOps \cup JumpOps \cup OtherOps
  <2>1. ExecuteInstruction(x, i) = Fault(x, "InvalidOp")
    BY <1>5, <1>f, <1>m, <1>j, <1>o DEF ExecuteInstruction
  <2> QED
    BY <1>5, <1>m, <1>j, <2>1
<1> QED
  BY <1>1, <1>2, <1>3, <1>4, <1>5

--------------------------------------------------------------------------------
(* The registers when r, unless it is x0, becomes v.                       *)
WithRegister(regs, r, v) == IF r = ZERO THEN regs ELSE [regs EXCEPT ![r] = v]

LEMMA FreshIsRegister == Fresh \in RegisterIndex /\ Fresh # ZERO /\ ZERO \in RegisterIndex
  BY MachineAssumption DEF Fresh, RegisterIndex, ZERO

LEMMA SetIs ==
  ASSUME NEW x, NEW v, NEW r \in RegisterIndex, Shaped(x)
  PROVE  Set(x, r, v) = [x EXCEPT !.regs = WithRegister(x.regs, r, v)]
<1>1. r % RISCV_GENERAL_REGISTER_NUMBER = r
  BY MachineAssumption DEF RegisterIndex
<1> QED
  BY <1>1 DEF Set, WithRegister, Shaped

(* Writes of the registers and of another part commute.                    *)
LEMMA UpdatesCommute ==
  ASSUME NEW x, NEW regs, NEW e, Shaped(x)
  PROVE  /\ [[x EXCEPT !.regs = regs] EXCEPT !.lr = e] = [[x EXCEPT !.lr = e] EXCEPT !.regs = regs]
         /\ [[x EXCEPT !.regs = regs] EXCEPT !.mem = e] = [[x EXCEPT !.mem = e] EXCEPT !.regs = regs]
         /\ [[x EXCEPT !.regs = regs] EXCEPT !.next_pc = e]
              = [[x EXCEPT !.next_pc = e] EXCEPT !.regs = regs]
         /\ Shaped([x EXCEPT !.lr = e]) /\ Shaped([x EXCEPT !.mem = e])
         /\ Shaped([x EXCEPT !.next_pc = e])
<1>1. [[x EXCEPT !.regs = regs] EXCEPT !.lr = e] = [[x EXCEPT !.lr = e] EXCEPT !.regs = regs]
  BY DEF Shaped
<1>2. [[x EXCEPT !.regs = regs] EXCEPT !.mem = e] = [[x EXCEPT !.mem = e] EXCEPT !.regs = regs]
  BY DEF Shaped
<1>3. [[x EXCEPT !.regs = regs] EXCEPT !.next_pc = e]
        = [[x EXCEPT !.next_pc = e] EXCEPT !.regs = regs]
  BY DEF Shaped
<1>4. Shaped([x EXCEPT !.lr = e])
  BY DEF Shaped
<1>5. Shaped([x EXCEPT !.mem = e])
  BY DEF Shaped
<1>6. Shaped([x EXCEPT !.next_pc = e])
  BY DEF Shaped
<1> QED
  BY <1>1, <1>2, <1>3, <1>4, <1>5, <1>6

(* What AliasingIsHarmless says of the answers of a handler for i and for  *)
(* i with a destination of its own, both given the machine x.              *)
Apart(i) == [i EXCEPT !.rd = Fresh]
Agrees(x, i, alias, apart) ==
  apart.err = "none" =>
    alias = [apart EXCEPT !.regs =
              [x.regs EXCEPT ![i.rd] = IF i.rd = ZERO THEN 0 ELSE apart.regs[Fresh]]]

(* A handler that writes rd as its last or only register,                  *)
LEMMA WritesRd ==
  ASSUME NEW x, NEW i, NEW y, NEW v, Shaped(x), Shaped(y), x.regs[ZERO] = 0,
         i.rd \in RegisterIndex
  PROVE  Agrees(x, i, [y EXCEPT !.regs = WithRegister(x.regs, i.rd, v)],
                      [y EXCEPT !.regs = WithRegister(x.regs, Fresh, v)])
<1> DEFINE apart == [y EXCEPT !.regs = WithRegister(x.regs, Fresh, v)]
<1>1. apart.regs = WithRegister(x.regs, Fresh, v) /\ apart.regs[Fresh] = v
  BY FreshIsRegister DEF Shaped, WithRegister
<1>2. [x.regs EXCEPT ![i.rd] = IF i.rd = ZERO THEN 0 ELSE v] = WithRegister(x.regs, i.rd, v)
  BY FreshIsRegister DEF Shaped, WithRegister
<1>3. [apart EXCEPT !.regs = WithRegister(x.regs, i.rd, v)]
        = [y EXCEPT !.regs = WithRegister(x.regs, i.rd, v)]
  BY DEF Shaped
<1> QED
  BY <1>1, <1>2, <1>3 DEF Agrees

(* and one that writes none.                                               *)
LEMMA WritesNone ==
  ASSUME NEW x, NEW i, NEW y, Shaped(x), Shaped(y), x.regs[ZERO] = 0, i.rd = ZERO,
         y.regs = x.regs
  PROVE  Agrees(x, i, y, y)
<1>1. [x.regs EXCEPT ![i.rd] = IF i.rd = ZERO THEN 0 ELSE y.regs[Fresh]] = x.regs
  BY FreshIsRegister DEF Shaped
<1> QED
  BY <1>1 DEF Agrees, Shaped

LEMMA ApartFields ==
  ASSUME NEW i, IsRaw(i)
  PROVE  LET j == Apart(i)
         IN  /\ j.op = i.op /\ j.rd = Fresh /\ j.rs1 = i.rs1 /\ j.rs2 = i.rs2
             /\ j.imm = i.imm /\ j.len = i.len
             /\ i.rd \in RegisterIndex /\ i.op \notin FusedOps
  BY DEF IsRaw, Apart

LEMMA LoadAgrees ==
  ASSUME NEW x, NEW i, IsRaw(i), Shaped(x), x.regs[ZERO] = 0
  PROVE  Agrees(x, i, Load(x, i), Load(x, Apart(i)))
<1>1. \/ Load(x, Apart(i)) = Fault(x, "MemOutOfBound")
      \/ \E v : Load(x, i) = Set(x, i.rd, v) /\ Load(x, Apart(i)) = Set(x, Fresh, v)
  BY ApartFields DEF Load
<1>2. Fault(x, "MemOutOfBound").err # "none"
  BY FaultShaped
<1>3. \A v : Agrees(x, i, Set(x, i.rd, v), Set(x, Fresh, v))
  BY SetIs, WritesRd, ApartFields, FreshIsRegister
<1> QED
  BY <1>1, <1>2, <1>3 DEF Agrees

LEMMA StoreAgrees ==
  ASSUME NEW x, NEW i, IsRaw(i), Shaped(x), x.regs[ZERO] = 0, i.op \in DOMAIN StoreBytes
  PROVE  Agrees(x, i, Store(x, i), Store(x, Apart(i)))
<1>1. Store(x, Apart(i)) = Store(x, i)
  BY ApartFields DEF Store
<1>2. i.rd = ZERO
  BY DEF IsRaw, OpsWithoutRd
<1>3. Shaped(Store(x, i)) /\ Store(x, i).regs = x.regs
  BY StoredShaped DEF Store
<1> QED
  BY <1>1, <1>2, <1>3, WritesNone

(* A store after the write of rd stores what one before it would.          *)
LEMMA StoredAgrees ==
  ASSUME NEW x, NEW i, NEW v, NEW a, NEW n, NEW w, IsRaw(i), Shaped(x), x.regs[ZERO] = 0
  PROVE  Agrees(x, i, Stored(Set(x, i.rd, v), a, n, w), Stored(Set(x, Fresh, v), a, n, w))
<1> DEFINE s == Set(x, i.rd, v)
           t == Set(x, Fresh, v)
           mem == [c \in Addr |->
               IF c \in a .. a + n - 1 THEN (w \div 2^(BYTE * (c - a))) % 2^BYTE ELSE x.mem[c]]
<1>1. /\ Shaped(s) /\ s.mem = x.mem /\ s = [x EXCEPT !.regs = WithRegister(x.regs, i.rd, v)]
      /\ Shaped(t) /\ t.mem = x.mem /\ t = [x EXCEPT !.regs = WithRegister(x.regs, Fresh, v)]
  BY SetShaped, SetIs, ApartFields, FreshIsRegister DEF SameButRegs
<1>2. CASE ~InBounds(a, n)
  <2>1. Stored(t, a, n, w) = Fault(t, "MemOutOfBound")
    BY <1>2 DEF Stored
  <2> QED
    BY <1>1, <2>1, FaultShaped DEF Agrees
<1>3. CASE InBounds(a, n) /\ ReadOnly \cap (a .. a + n - 1) # {}
  <2>1. Stored(t, a, n, w) = Fault(t, "MemWriteOnExecutablePage")
    BY <1>3 DEF Stored
  <2> QED
    BY <1>1, <2>1, FaultShaped DEF Agrees
<1>4. CASE InBounds(a, n) /\ ReadOnly \cap (a .. a + n - 1) = {}
  <2>1. Stored(s, a, n, w) = [s EXCEPT !.mem = mem] /\ Stored(t, a, n, w) = [t EXCEPT !.mem = mem]
    BY <1>1, <1>4 DEF Stored
  <2> DEFINE y == [x EXCEPT !.mem = mem]
  <2> HIDE DEF mem, s, t, y
  <2>2. /\ Stored(s, a, n, w) = [y EXCEPT !.regs = WithRegister(x.regs, i.rd, v)]
        /\ Stored(t, a, n, w) = [y EXCEPT !.regs = WithRegister(x.regs, Fresh, v)]
        /\ Shaped(y)
    BY <1>1, <2>1, UpdatesCommute DEF y
  <2>3. Agrees(x, i, Stored(s, a, n, w), Stored(t, a, n, w))
    BY <2>2, WritesRd, ApartFields
  <2> QED
    BY <2>3 DEF s, t
<1> QED
  BY <1>2, <1>3, <1>4

LEMMA AmoAgrees ==
  ASSUME NEW x, NEW i, IsRaw(i), Shaped(x), x.regs[ZERO] = 0, i.op \in AmoWOps \cup AmoDOps
  PROVE  Agrees(x, i, Amo(x, i), Amo(x, Apart(i)))
<1> DEFINE a   == x.regs[i.rs1]
           src == x.regs[i.rs2]
           n   == IF i.op \in AmoWOps THEN 4 ELSE 8
           raw == Loaded(x, a, n)
<1>1. CASE ~InBounds(a, n)
  <2>1. Amo(x, Apart(i)) = Fault(x, "MemOutOfBound")
    BY <1>1, ApartFields DEF Amo
  <2> QED
    BY <2>1, FaultShaped DEF Agrees
<1>2. CASE InBounds(a, n) /\ i.op \in AmoWOps
  <2> DEFINE w == AmoWValue(i.op, src, raw)
  <2>0. i.op \notin AmoDOps
    BY <1>2 DEF AmoWOps, AmoDOps
  <2>1. /\ Amo(x, i) = Stored(Set(x, i.rd, SextW(raw)), a, n, w)
        /\ Amo(x, Apart(i)) = Stored(Set(x, Fresh, SextW(raw)), a, n, w)
    BY <1>2, <2>0, ApartFields DEF Amo
  <2> HIDE DEF w, raw, n, a
  <2> QED
    BY <2>1, StoredAgrees
<1>3. CASE InBounds(a, n) /\ i.op \in AmoDOps
  <2> DEFINE w == AmoDValue(i.op, src, raw)
  <2>0. i.op \notin AmoWOps
    BY <1>3 DEF AmoWOps, AmoDOps
  <2>1. /\ Amo(x, i) = Stored(Set(x, i.rd, raw), a, n, w)
        /\ Amo(x, Apart(i)) = Stored(Set(x, Fresh, raw), a, n, w)
    BY <1>3, <2>0, ApartFields DEF Amo
  <2> HIDE DEF w, raw, n, a
  <2> QED
    BY <2>1, StoredAgrees
<1> QED
  BY <1>1, <1>2, <1>3

LEMMA LoadReservedAgrees ==
  ASSUME NEW x, NEW i, IsRaw(i), Shaped(x), x.regs[ZERO] = 0
  PROVE  Agrees(x, i, LoadReserved(x, i), LoadReserved(x, Apart(i)))
<1> DEFINE a == x.regs[i.rs1]
           y == [x EXCEPT !.lr = a]
<1>1. \/ LoadReserved(x, Apart(i)) = Fault(x, "MemOutOfBound")
      \/ \E v : /\ LoadReserved(x, i) = [Set(x, i.rd, v) EXCEPT !.lr = a]
                /\ LoadReserved(x, Apart(i)) = [Set(x, Fresh, v) EXCEPT !.lr = a]
  BY ApartFields DEF LoadReserved
<1>2. Fault(x, "MemOutOfBound").err # "none"
  BY FaultShaped
<1> HIDE DEF a
<1>3. Shaped(y)
  BY UpdatesCommute
<1>4. ASSUME NEW r \in RegisterIndex, NEW v
      PROVE  [Set(x, r, v) EXCEPT !.lr = a] = [y EXCEPT !.regs = WithRegister(x.regs, r, v)]
  <2>1. Set(x, r, v) = [x EXCEPT !.regs = WithRegister(x.regs, r, v)]
    BY SetIs
  <2> QED
    BY <2>1, UpdatesCommute, Zenon
<1> HIDE DEF y
<1>5. \A v : Agrees(x, i, [Set(x, i.rd, v) EXCEPT !.lr = a], [Set(x, Fresh, v) EXCEPT !.lr = a])
  <2> TAKE v
  <2>1. /\ [Set(x, i.rd, v) EXCEPT !.lr = a] = [y EXCEPT !.regs = WithRegister(x.regs, i.rd, v)]
        /\ [Set(x, Fresh, v) EXCEPT !.lr = a] = [y EXCEPT !.regs = WithRegister(x.regs, Fresh, v)]
    BY <1>4, ApartFields, FreshIsRegister
  <2> QED
    BY <1>3, <2>1, WritesRd, ApartFields
<1> QED
  BY <1>1, <1>2, <1>5 DEF Agrees

LEMMA StoreConditionalAgrees ==
  ASSUME NEW x, NEW i, IsRaw(i), Shaped(x), x.regs[ZERO] = 0
  PROVE  Agrees(x, i, StoreConditional(x, i), StoreConditional(x, Apart(i)))
<1> DEFINE a == x.regs[i.rs1]
           n == ReservationBytes[i.op]
           s == Stored(x, a, n, IF a = x.lr THEN x.regs[i.rs2] ELSE Loaded(x, a, n))
           y == [s EXCEPT !.lr = NoReservation]
<1>1. \/ StoreConditional(x, Apart(i)) = Fault(x, "MemOutOfBound")
      \/ StoreConditional(x, Apart(i)) = s /\ s.err # "none"
      \/ \E v :
           /\ StoreConditional(x, i) = [Set(s, i.rd, v) EXCEPT !.lr = NoReservation]
           /\ StoreConditional(x, Apart(i)) = [Set(s, Fresh, v) EXCEPT !.lr = NoReservation]
  BY ApartFields DEF StoreConditional
<1>2. Fault(x, "MemOutOfBound").err # "none"
  BY FaultShaped
<1>3. Shaped(s) /\ s.regs = x.regs
  BY StoredShaped
<1> HIDE DEF s
<1>4. Shaped(y)
  BY <1>3, UpdatesCommute
<1>5. ASSUME NEW r \in RegisterIndex, NEW v
      PROVE  [Set(s, r, v) EXCEPT !.lr = NoReservation]
               = [y EXCEPT !.regs = WithRegister(x.regs, r, v)]
  <2>1. Set(s, r, v) = [s EXCEPT !.regs = WithRegister(x.regs, r, v)]
    BY <1>3, SetIs
  <2> QED
    BY <1>3, <2>1, UpdatesCommute, Zenon
<1> HIDE DEF y
<1>6. \A v : Agrees(x, i, [Set(s, i.rd, v) EXCEPT !.lr = NoReservation],
                          [Set(s, Fresh, v) EXCEPT !.lr = NoReservation])
  <2> TAKE v
  <2>1. /\ [Set(s, i.rd, v) EXCEPT !.lr = NoReservation]
             = [y EXCEPT !.regs = WithRegister(x.regs, i.rd, v)]
        /\ [Set(s, Fresh, v) EXCEPT !.lr = NoReservation]
             = [y EXCEPT !.regs = WithRegister(x.regs, Fresh, v)]
    BY <1>5, ApartFields, FreshIsRegister
  <2> QED
    BY <1>4, <2>1, WritesRd, ApartFields
<1> QED
  BY <1>1, <1>2, <1>6 DEF Agrees

(* A jump that links writes rd beside next_pc.                             *)
LEMMA GotoAgrees ==
  ASSUME NEW x, NEW i, NEW v, NEW pc, IsRaw(i), Shaped(x), x.regs[ZERO] = 0
  PROVE  Agrees(x, i, Goto(Set(x, i.rd, v), pc), Goto(Set(x, Fresh, v), pc))
<1> DEFINE y == [x EXCEPT !.next_pc = pc]
<1>1. Shaped(y)
  BY UpdatesCommute
<1>2. ASSUME NEW r \in RegisterIndex
      PROVE  Goto(Set(x, r, v), pc) = [y EXCEPT !.regs = WithRegister(x.regs, r, v)]
  <2>1. Set(x, r, v) = [x EXCEPT !.regs = WithRegister(x.regs, r, v)]
    BY SetIs
  <2> QED
    BY <2>1, UpdatesCommute, Zenon DEF Goto
<1> HIDE DEF y
<1> QED
  BY <1>1, <1>2, WritesRd, ApartFields, FreshIsRegister

LEMMA ExecuteAgrees ==
  ASSUME NEW x, NEW i, IsRaw(i), Shaped(x), x.regs[ZERO] = 0,
         i.op \notin {"JALR_VERSION0", "FENCE"}
  PROVE  Agrees(x, i, ExecuteInstruction(x, i), ExecuteInstruction(x, Apart(i)))
<1> DEFINE j == Apart(i)
<1>0. /\ i.op \notin FusedOps /\ i.rd \in RegisterIndex
      /\ j.op = i.op /\ j.rd = Fresh /\ j.rs1 = i.rs1 /\ j.rs2 = i.rs2
      /\ j.imm = i.imm /\ j.len = i.len
  BY ApartFields
<1> HIDE DEF j
<1>s. \A v : Agrees(x, i, Set(x, i.rd, v), Set(x, Fresh, v))
  BY <1>0, SetIs, WritesRd, FreshIsRegister
<1>1. CASE i.op \in ValueOps
  BY <1>0, <1>1, <1>s, RawHandler DEF j
<1>2. CASE i.op \in DOMAIN LoadShape
  BY <1>0, <1>2, RawHandler, LoadAgrees DEF j
<1>3. CASE i.op \in DOMAIN StoreBytes
  BY <1>0, <1>3, RawHandler, StoreAgrees DEF j
<1>4. CASE i.op \in AmoWOps \cup AmoDOps
  BY <1>0, <1>4, RawHandler, AmoAgrees DEF j
<1>5. CASE i.op \in {"LR_W", "LR_D"}
  BY <1>0, <1>5, RawHandler, LoadReservedAgrees DEF j
<1>6. CASE i.op \in {"SC_W", "SC_D"}
  BY <1>0, <1>6, RawHandler, StoreConditionalAgrees DEF j
<1>7. CASE i.op \in BranchOps
  <2>1. i.rd = ZERO
    BY <1>7 DEF IsRaw, OpsWithoutRd
  <2>2. ExecuteInstruction(x, i) = Branch(x, i) /\ ExecuteInstruction(x, j) = Branch(x, j)
    BY <1>0, <1>7, RawHandler
  <2>3. Branch(x, j) = Branch(x, i)
    BY <1>0 DEF Branch
  <2>4. Shaped(Branch(x, i)) /\ Branch(x, i).regs = x.regs
    BY GotoShaped DEF Branch
  <2> QED
    BY <2>1, <2>2, <2>3, <2>4, WritesNone DEF j
<1>8. CASE i.op = "LUI"
  BY <1>0, <1>8, <1>s, RawHandler DEF Lui, j
<1>9. CASE i.op = "AUIPC"
  BY <1>0, <1>9, <1>s, RawHandler DEF Auipc, j
<1>10. CASE i.op = "JAL"
  <2>1. Link(x, j) = Link(x, i)
    BY <1>0 DEF Link
  <2> QED
    BY <1>0, <1>10, <2>1, RawHandler, GotoAgrees DEF Jal, j
<1>11. CASE i.op = "JALR_VERSION1"
  <2>1. Link(x, j) = Link(x, i)
    BY <1>0 DEF Link
  <2> QED
    BY <1>0, <1>11, <2>1, RawHandler, GotoAgrees DEF JalrVersion1, j
<1>12. CASE i.op \in OtherOps
  <2>1. i.rd = ZERO
    BY <1>12 DEF IsRaw, OpsWithoutRd, OtherOps
  <2> QED
    BY <1>0, <1>12, <2>1, RawHandler, WritesNone DEF j
<1>13. CASE i.op \notin ValueOps \cup MemoryOps \cup JumpOps \cup OtherOps
  <2>1. ExecuteInstruction(x, j) = Fault(x, "InvalidOp")
    BY <1>0, <1>13, RawHandler
  <2> QED
    BY <2>1, FaultShaped DEF Agrees, j
<1> QED
  BY <1>1, <1>2, <1>3, <1>4, <1>5, <1>6, <1>7, <1>8, <1>9, <1>10, <1>11, <1>12, <1>13
  DEF MemoryOps, JumpOps

CodeIsRaw == \A a \in DOMAIN code : IsRaw(code[a])

LEMMA InitCodeIsRaw == Init => CodeIsRaw
<1> SUFFICES ASSUME NEW insts, NEW pc, \A k \in DOMAIN insts : IsRaw(insts[k])
             PROVE  \A a \in DOMAIN Placed(insts, pc) : IsRaw(Placed(insts, pc)[a])
  BY ProgramsAssumption DEF Init, CodeIsRaw
<1> QED
  BY DEF Placed

LEMMA RunAgrees ==
  ASSUME NEW x, NEW i, IsRaw(i), Between(x), i.op \notin {"JALR_VERSION0", "FENCE"}
  PROVE  Agrees(x, i, Run(x, i), Run(x, Apart(i)))
<1> DEFINE j == Apart(i)
           g == Goto(x, Link(x, i))
           r == ExecuteInstruction(g, i)
           t == ExecuteInstruction(g, j)
<1>1. Shaped(g) /\ g.regs = x.regs /\ g.err = x.err
  BY GotoShaped DEF Between
<1>2. Link(x, j) = Link(x, i)
  BY ApartFields DEF Link
<1>3. Run(x, i) = [r EXCEPT !.pc = r.next_pc] /\ Run(x, j) = [t EXCEPT !.pc = t.next_pc]
  BY <1>2 DEF Run
<1>4. Agrees(g, i, r, t)
  BY <1>1, ExecuteAgrees DEF Between
<1>5. Shaped(t)
  BY <1>1, ExecuteHandled DEF Handled
<1> HIDE DEF g, r, t, j
<1> DEFINE moved == [x.regs EXCEPT ![i.rd] = IF i.rd = ZERO THEN 0 ELSE t.regs[Fresh]]
<1>6. ASSUME t.err = "none" PROVE r = [t EXCEPT !.regs = moved]
  BY <1>1, <1>4, <1>6 DEF Agrees
<1> HIDE DEF moved
<1>7. ASSUME t.err = "none"
      PROVE  [r EXCEPT !.pc = r.next_pc] = [[t EXCEPT !.pc = t.next_pc] EXCEPT !.regs = moved]
  BY <1>5, <1>6, <1>7 DEF Shaped
<1>8. /\ [t EXCEPT !.pc = t.next_pc].err = t.err
      /\ [t EXCEPT !.pc = t.next_pc].regs = t.regs
  BY <1>5 DEF Shaped
<1> QED
  BY <1>3, <1>7, <1>8 DEF Agrees, moved, j

(* No handler reads a register after it has written rd: with a destination *)
(* among its operands every instruction but JALR of version 0 does what it *)
(* does with one of its own (execute.rs, common.rs).                       *)
THEOREM AliasesAreHarmless == Spec => []AliasingIsHarmless
<1>1. ASSUME Between(m), CodeIsRaw
      PROVE  AliasingIsHarmless
  <2> DEFINE i == Raw(code, m.pc)
  <2> SUFFICES ASSUME i.op \notin {"NONE", "JALR_VERSION0", "FENCE"}
               PROVE  Agrees(m, i, Run(m, i), Run(m, Apart(i)))
    BY DEF AliasingIsHarmless, Agrees, Apart
  <2>1. m.pc \in DOMAIN code
    BY DEF Raw, Blank, Instruction
  <2>2. IsRaw(i)
    BY <1>1, <2>1 DEF Raw, CodeIsRaw
  <2> QED
    BY <1>1, <2>2, RunAgrees
<1>2. CodeIsRaw /\ [Next]_vars => CodeIsRaw'
  BY DEF CodeIsRaw, Next, Step, vars
<1> QED
  BY <1>1, <1>2, InitBetween, StepKeepsBetween, InitCodeIsRaw, PTL DEF Spec

--------------------------------------------------------------------------------
(* A machine whose parts have their widths, between or amid instructions.  *)
WellTyped(x) ==
  /\ Shaped(x)
  /\ x.regs \in [RegisterIndex -> Value] /\ x.regs[ZERO] = 0
  /\ x.pc \in Value /\ x.next_pc \in Value /\ x.lr \in Value
  /\ x.mem \in [Addr -> 0 .. 2^BYTE - 1]

(* An instruction names registers and has an immediate and a length.       *)
Sound(i) ==
  /\ i.rd \in RegisterIndex /\ i.rs1 \in RegisterIndex /\ i.rs2 \in RegisterIndex
  /\ i.rs3 \in RegisterIndex /\ i.rs4 \in RegisterIndex
  /\ i.imm \in Int /\ i.len \in Int
  /\ i.op \in ShiftImmediateOps => i.imm \in 0 .. XLEN - 1

(* Writing registers, jumping, failing and storing keep the widths.        *)
LEMMA SetTyped ==
  ASSUME NEW x, NEW r \in RegisterIndex, NEW v \in Value, WellTyped(x)
  PROVE  WellTyped(Set(x, r, v))
<1>1. Set(x, r, v) = [x EXCEPT !.regs = WithRegister(x.regs, r, v)]
  BY SetIs DEF WellTyped
<1>2. /\ WithRegister(x.regs, r, v) \in [RegisterIndex -> Value]
      /\ WithRegister(x.regs, r, v)[ZERO] = 0
  BY DEF WithRegister, WellTyped
<1>3. Shaped(Set(x, r, v))
  BY SetShaped DEF WellTyped
<1> QED
  BY <1>1, <1>2, <1>3 DEF WellTyped, Shaped

LEMMA GotoTyped ==
  ASSUME NEW x, NEW pc \in Value, WellTyped(x)
  PROVE  WellTyped(Goto(x, pc))
  BY GotoShaped DEF WellTyped

LEMMA FaultTyped ==
  ASSUME NEW x, NEW e, WellTyped(x)
  PROVE  WellTyped(Fault(x, e))
  BY FaultShaped DEF WellTyped

(* The bytes of an access lie within a register.                           *)
LEMMA ByteShift ==
  ASSUME NEW k \in 0 .. 8
  PROVE  BYTE * k \in 0 .. XLEN /\ 2^(BYTE * k) \in Nat /\ 2^(BYTE * k) > 0
<1>1. BYTE * k \in 0 .. XLEN
  BY Widths
<1> QED
  BY <1>1, Powers

LEMMA StoredTyped ==
  ASSUME NEW x, NEW a \in Value, NEW n \in 1 .. 8, NEW v \in Int, WellTyped(x)
  PROVE  WellTyped(Stored(x, a, n, v))
<1> DEFINE mem == [c \in Addr |->
             IF c \in a .. a + n - 1 THEN (v \div 2^(BYTE * (c - a))) % 2^BYTE ELSE x.mem[c]]
<1>0. Shaped(Stored(x, a, n, v))
  BY StoredShaped DEF WellTyped
<1>1. CASE ~InBounds(a, n)
  BY <1>1, FaultTyped DEF Stored
<1>2. CASE InBounds(a, n) /\ ReadOnly \cap (a .. a + n - 1) # {}
  BY <1>2, FaultTyped DEF Stored
<1>3. CASE InBounds(a, n) /\ ReadOnly \cap (a .. a + n - 1) = {}
  <2>1. Stored(x, a, n, v) = [x EXCEPT !.mem = mem]
    BY <1>3 DEF Stored
  <2>2. mem \in [Addr -> 0 .. 2^BYTE - 1]
    <3> SUFFICES ASSUME NEW c \in Addr PROVE mem[c] \in 0 .. 2^BYTE - 1
      OBVIOUS
    <3>1. CASE c \in a .. a + n - 1
      <4>1. c - a \in 0 .. 8
        BY <3>1 DEF Value, Addr
      <4>2. 2^(BYTE * (c - a)) \in Nat /\ 2^(BYTE * (c - a)) > 0 /\ 2^BYTE \in Nat /\ 2^BYTE > 0
        BY <4>1, ByteShift, Powers, Widths
      <4>3. v \div 2^(BYTE * (c - a)) \in Int
        BY <4>2, ModIn
      <4> QED
        BY <3>1, <4>2, <4>3, ModIn
    <3>2. CASE c \notin a .. a + n - 1
      BY <3>2 DEF WellTyped
    <3> QED
      BY <3>1, <3>2
  <2> HIDE DEF mem
  <2> QED
    BY <1>0, <2>1, <2>2 DEF WellTyped, Shaped
<1> QED
  BY <1>1, <1>2, <1>3

(* A value loaded is a sum of bytes, each at its power of 2^BYTE.          *)
LEMMA LoadedIn ==
  ASSUME NEW x, NEW a \in Value, NEW n \in 1 .. 8, WellTyped(x), InBounds(a, n)
  PROVE  Loaded(x, a, n) \in Value
<1> DEFINE f == [k \in 0 .. n - 1 |-> x.mem[a + k] * 2^(BYTE * k)]
           g == [k \in 0 .. n |-> 2^(BYTE * k)]
<1>1. \A k \in 0 .. n : g[k] = 2^(BYTE * k) /\ g[k] \in Nat
  BY ByteShift
<1>2. ASSUME NEW k \in 0 .. n - 1
      PROVE  f[k] \in Nat /\ f[k] + g[k] <= g[k + 1]
  <2> DEFINE p == 2^(BYTE * k)
             b == 2^BYTE
             d == x.mem[a + k]
  <2>1. a + k \in Addr
    BY MachineAssumption DEF InBounds, Addr, Value
  <2>2. d \in 0 .. b - 1 /\ b \in Nat
    BY <2>1, Powers, Widths DEF WellTyped
  <2>3. p \in Nat
    BY ByteShift
  <2>4. g[k + 1] = p * b
    <3>1. BYTE * k \in Nat /\ BYTE \in Nat /\ BYTE * k + BYTE = BYTE * (k + 1) /\ BYTE * k + BYTE <= XLEN
      BY Widths
    <3>2. 2^(BYTE * k + BYTE) = 2^(BYTE * k) * 2^BYTE
      BY <3>1, PowersAdd
    <3> QED
      BY <3>1, <3>2, <1>1
  <2>5. f[k] = d * p /\ g[k] = p
    OBVIOUS
  <2> HIDE DEF p, b, d, f, g
  <2>6. d * p \in Nat /\ d * p + p <= p * b
    <3>1. d * p <= (b - 1) * p /\ d * p \in Nat
      BY <2>2, <2>3
    <3>2. (b - 1) * p = p * b - p
      BY <2>2, <2>3
    <3> QED
      BY <2>2, <2>3, <3>1, <3>2
  <2> QED
    BY <2>4, <2>5, <2>6
<1>3. g[0] = 1 /\ g[n] = 2^(BYTE * n)
  <2>1. BYTE * 0 = 0 /\ 0 \in 0 .. n /\ n \in 0 .. n
    BY Widths
  <2>2. 2^(BYTE * 0) = 1
    BY <2>1, Powers
  <2> QED
    BY <1>1, <2>1, <2>2
<1>4. Loaded(x, a, n) = SumFunctionOnSet(f, 0 .. n - 1)
  BY DEF Loaded, SumFunction
<1> HIDE DEF f, g
<1>5. SumFunctionOnSet(f, 0 .. n - 1) \in Nat /\ SumFunctionOnSet(f, 0 .. n - 1) + g[0] <= g[n]
  <2>1. n \in Nat /\ \A k \in 0 .. n : g[k] \in Nat
    BY <1>1
  <2>2. \A k \in 0 .. n - 1 : f[k] \in Nat /\ f[k] + g[k] <= g[k + 1]
    BY <1>2
  <2> QED
    BY <2>1, <2>2, SumBelow
<1>6. 2^(BYTE * n) <= 2^XLEN /\ 2^(BYTE * n) \in Nat /\ 2^XLEN \in Nat
  <2>1. BYTE * n \in 0 .. XLEN /\ XLEN \in 0 .. XLEN
    BY ByteShift, Widths
  <2> QED
    BY <2>1, PowersGrow, Powers
<1> QED
  BY <1>3, <1>4, <1>5, <1>6 DEF Value

(* Each handler, after the one it is translated from (execute.rs).         *)
LEMMA LoadTyped ==
  ASSUME NEW x, NEW i, WellTyped(x), Sound(i), i.op \in DOMAIN LoadShape
  PROVE  WellTyped(Load(x, i))
<1> DEFINE n == LoadShape[i.op][1]
           a == OverflowingAdd(x.regs[i.rs1], i.imm)
           v == Loaded(x, a, n)
<1>1. n \in 1 .. 8
  BY DEF LoadShape
<1>2. a \in Value
  BY SumsIn, ValuesAreInts DEF WellTyped, Sound
<1>3. \/ Load(x, i) = Fault(x, "MemOutOfBound")
      \/ InBounds(a, n) /\ Load(x, i) = Set(x, i.rd, v)
      \/ InBounds(a, n) /\ Load(x, i) = Set(x, i.rd, SignExtend(v, BYTE * n))
  BY DEF Load
<1> HIDE DEF n, a
<1>4. InBounds(a, n) => v \in Value /\ SignExtend(v, BYTE * n) \in Value
  <2>1. InBounds(a, n) => v \in Value
    BY <1>1, <1>2, LoadedIn
  <2>2. BYTE * n \in 0 .. XLEN
    BY <1>1, ByteShift
  <2> QED
    BY <2>1, <2>2, NarrowIn, ValuesAreInts
<1> QED
  BY <1>3, <1>4, FaultTyped, SetTyped DEF Sound

LEMMA StoreTyped ==
  ASSUME NEW x, NEW i, WellTyped(x), Sound(i), i.op \in DOMAIN StoreBytes
  PROVE  WellTyped(Store(x, i))
<1>1. StoreBytes[i.op] \in 1 .. 8
  BY DEF StoreBytes
<1>2. OverflowingAdd(x.regs[i.rs1], i.imm) \in Value /\ x.regs[i.rs2] \in Int
  BY SumsIn, ValuesAreInts DEF WellTyped, Sound
<1> QED
  BY <1>1, <1>2, StoredTyped DEF Store

LEMMA AmoTyped ==
  ASSUME NEW x, NEW i, WellTyped(x), Sound(i), i.op \in AmoWOps \cup AmoDOps
  PROVE  WellTyped(Amo(x, i))
<1> DEFINE a   == x.regs[i.rs1]
           src == x.regs[i.rs2]
           n   == IF i.op \in AmoWOps THEN 4 ELSE 8
           raw == Loaded(x, a, n)
<1>1. a \in Value /\ src \in Value /\ n \in 1 .. 8
  BY DEF WellTyped, Sound
<1>2. CASE ~InBounds(a, n)
  BY <1>2, FaultTyped DEF Amo
<1>3. CASE InBounds(a, n)
  <2>1. raw \in Value
    <3> HIDE DEF a, n
    <3> QED
      BY <1>1, <1>3, LoadedIn
  <2>2. SextW(raw) \in Value /\ SextW(src) \in Value /\ ZextW(src) \in Value
    <3> HIDE DEF raw, src
    <3> QED
      BY <1>1, <2>1, NarrowIn, ValuesAreInts
  <2> HIDE DEF raw, src
  <2>3. \A o \in {"MIN", "MAX", "MINU", "MAXU"} : \A y, z \in Value : CountValue(o, y, z) \in Value
    BY CountIn DEF CountOps
  <2>4. CASE i.op \in AmoWOps
    <3> DEFINE w == AmoWValue(i.op, src, raw)
               old == SextW(raw)
    <3>1. w \in Value
      <4>1. /\ OverflowingAdd(src, old) \in Value /\ BitXor(src, old) \in Value
            /\ BitAnd(src, old) \in Value /\ BitOr(src, old) \in Value
        BY <1>1, <2>2, SumsIn, LogicIn, ValuesAreInts
      <4>2. /\ CountValue("MIN", SextW(src), old) \in Value
            /\ CountValue("MAX", SextW(src), old) \in Value
            /\ CountValue("MINU", ZextW(src), raw) \in Value
            /\ CountValue("MAXU", ZextW(src), raw) \in Value
        BY <2>1, <2>2, <2>3
      <4> QED
        BY <1>1, <2>4, <4>1, <4>2, Zenon DEF AmoWOps, AmoWValue
    <3>2. i.op \notin AmoDOps
      BY <2>4 DEF AmoWOps, AmoDOps
    <3>3. Amo(x, i) = Stored(Set(x, i.rd, old), a, n, w)
      BY <1>3, <2>4, <3>2 DEF Amo, raw, src
    <3>4. WellTyped(Set(x, i.rd, old))
      BY <2>2, SetTyped DEF Sound
    <3> HIDE DEF w, old, a, n
    <3> QED
      BY <1>1, <3>1, <3>3, <3>4, StoredTyped, ValuesAreInts
  <2>5. CASE i.op \in AmoDOps
    <3> DEFINE w == AmoDValue(i.op, src, raw)
    <3>1. w \in Value
      <4>1. /\ OverflowingAdd(src, raw) \in Value /\ BitXor(src, raw) \in Value
            /\ BitAnd(src, raw) \in Value /\ BitOr(src, raw) \in Value
        BY <1>1, <2>1, SumsIn, LogicIn, ValuesAreInts
      <4>2. /\ CountValue("MIN", src, raw) \in Value /\ CountValue("MAX", src, raw) \in Value
            /\ CountValue("MINU", src, raw) \in Value /\ CountValue("MAXU", src, raw) \in Value
        BY <1>1, <2>1, <2>3
      <4> QED
        BY <1>1, <2>5, <4>1, <4>2, Zenon DEF AmoDOps, AmoDValue
    <3>2. i.op \notin AmoWOps
      BY <2>5 DEF AmoWOps, AmoDOps
    <3>3. Amo(x, i) = Stored(Set(x, i.rd, raw), a, n, w)
      BY <1>3, <2>5, <3>2 DEF Amo, raw, src
    <3>4. WellTyped(Set(x, i.rd, raw))
      BY <2>1, SetTyped DEF Sound
    <3> HIDE DEF w, a, n
    <3> QED
      BY <1>1, <3>1, <3>3, <3>4, StoredTyped, ValuesAreInts
  <2> QED
    BY <2>4, <2>5
<1> QED
  BY <1>2, <1>3

(* Whatever the reservation becomes, it is an address or none.             *)
LEMMA ReservedTyped ==
  ASSUME NEW x, NEW a \in Value, WellTyped(x)
  PROVE  WellTyped([x EXCEPT !.lr = a])
<1>1. Shaped([x EXCEPT !.lr = a])
  BY UpdatesCommute DEF WellTyped
<1> QED
  BY <1>1 DEF WellTyped, Shaped

LEMMA LoadReservedTyped ==
  ASSUME NEW x, NEW i, WellTyped(x), Sound(i), i.op \in {"LR_W", "LR_D"}
  PROVE  WellTyped(LoadReserved(x, i))
<1> DEFINE a == x.regs[i.rs1]
           n == ReservationBytes[i.op]
           v == SignExtend(Loaded(x, a, n), BYTE * n)
<1>1. a \in Value /\ n \in 1 .. 8
  BY DEF WellTyped, Sound, ReservationBytes
<1>2. \/ LoadReserved(x, i) = Fault(x, "MemOutOfBound")
      \/ InBounds(a, n) /\ LoadReserved(x, i) = [Set(x, i.rd, v) EXCEPT !.lr = a]
  BY DEF LoadReserved
<1> HIDE DEF a, n
<1>3. InBounds(a, n) => v \in Value
  <2>1. InBounds(a, n) => Loaded(x, a, n) \in Value
    BY <1>1, LoadedIn
  <2>2. BYTE * n \in 0 .. XLEN
    BY <1>1, ByteShift
  <2> QED
    BY <2>1, <2>2, NarrowIn, ValuesAreInts
<1>4. i.rd \in RegisterIndex
  BY DEF Sound
<1> HIDE DEF v
<1> QED
  BY <1>1, <1>2, <1>3, <1>4, FaultTyped, SetTyped, ReservedTyped

LEMMA StoreConditionalTyped ==
  ASSUME NEW x, NEW i, WellTyped(x), Sound(i), i.op \in {"SC_W", "SC_D"}
  PROVE  WellTyped(StoreConditional(x, i))
<1> DEFINE a == x.regs[i.rs1]
           n == ReservationBytes[i.op]
           v == IF a = x.lr THEN x.regs[i.rs2] ELSE Loaded(x, a, n)
           s == Stored(x, a, n, v)
<1>1. a \in Value /\ x.regs[i.rs2] \in Value /\ n \in 1 .. 8
  BY DEF WellTyped, Sound, ReservationBytes
<1>2. \/ StoreConditional(x, i) = Fault(x, "MemOutOfBound")
      \/ InBounds(a, n) /\ StoreConditional(x, i) = s
      \/ /\ InBounds(a, n)
         /\ \E w \in {0, 1} : StoreConditional(x, i) = [Set(s, i.rd, w) EXCEPT !.lr = NoReservation]
  BY DEF StoreConditional
<1> HIDE DEF a, n
<1>3. InBounds(a, n) => v \in Int
  BY <1>1, LoadedIn, ValuesAreInts
<1> HIDE DEF v
<1>4. InBounds(a, n) => WellTyped(s)
  BY <1>1, <1>3, StoredTyped
<1>5. NoReservation \in Value /\ i.rd \in RegisterIndex
  BY Widths, Powers DEF NoReservation, Value, Sound
<1> HIDE DEF s
<1>6. ASSUME NEW w \in {0, 1}, InBounds(a, n)
      PROVE  WellTyped([Set(s, i.rd, w) EXCEPT !.lr = NoReservation])
  <2>1. w \in Value
    BY FlagsIn
  <2>2. WellTyped(Set(s, i.rd, w))
    BY <1>4, <1>5, <1>6, <2>1, SetTyped
  <2> QED
    BY <1>5, <2>2, ReservedTyped
<1> QED
  BY <1>2, <1>4, <1>6, FaultTyped

LEMMA JumpsTyped ==
  ASSUME NEW x, NEW i, WellTyped(x), Sound(i)
  PROVE  /\ WellTyped(Branch(x, i)) /\ WellTyped(Jal(x, i))
         /\ WellTyped(JalrVersion0(x, i)) /\ WellTyped(JalrVersion1(x, i))
         /\ WellTyped(Lui(x, i)) /\ WellTyped(Auipc(x, i))
         /\ WellTyped(FarJumpRel(x, i)) /\ WellTyped(FarJumpAbs(x, i))
         /\ WellTyped(LoadImm(x, i))
<1>1. /\ x.pc \in Int /\ i.imm \in Int /\ i.len \in Int /\ x.regs[i.rs1] \in Int
      /\ i.rd \in RegisterIndex /\ RA \in RegisterIndex
  <2>1. RA \in RegisterIndex
    BY MachineAssumption DEF RA, RegisterIndex
  <2>2. x.pc \in Int /\ x.regs[i.rs1] \in Int
    BY ValuesAreInts DEF WellTyped, Sound
  <2> QED
    BY <2>1, <2>2 DEF Sound
<1>2. /\ Link(x, i) \in Value /\ OverflowingAdd(x.pc, i.imm) \in Value
      /\ OverflowingAdd(x.pc, i.len) \in Value /\ Wrap(i.imm) \in Value
  BY <1>1, SumsIn, WrapIn DEF Link
<1>3. \A v : Even(v) \in Value
  BY LogicIn DEF Even
<1>4. \A r \in RegisterIndex, v \in Value : WellTyped(Set(x, r, v))
  BY SetTyped
<1>5. \A r \in RegisterIndex, v \in Value, pc \in Value : WellTyped(Goto(Set(x, r, v), pc))
  BY <1>4, GotoTyped
<1>6. WellTyped(Branch(x, i))
  BY <1>2, GotoTyped DEF Branch
<1>7. /\ WellTyped(Jal(x, i)) /\ WellTyped(JalrVersion0(x, i)) /\ WellTyped(JalrVersion1(x, i))
      /\ WellTyped(FarJumpRel(x, i)) /\ WellTyped(FarJumpAbs(x, i))
  BY <1>1, <1>2, <1>3, <1>5 DEF Jal, JalrVersion0, JalrVersion1, FarJumpRel, FarJumpAbs
<1>8. WellTyped(Lui(x, i)) /\ WellTyped(Auipc(x, i)) /\ WellTyped(LoadImm(x, i))
  BY <1>1, <1>2, <1>4 DEF Lui, Auipc, LoadImm
<1> QED
  BY <1>6, <1>7, <1>8

LEMMA FusedTyped ==
  ASSUME NEW x, NEW i, WellTyped(x), Sound(i)
  PROVE  /\ i.op \in WideOps => WellTyped(Wide(x, i))
         /\ WellTyped(Adc(x, i)) /\ WellTyped(Sbb(x, i)) /\ WellTyped(Adcs(x, i))
         /\ WellTyped(Sbbs(x, i)) /\ WellTyped(Add3a(x, i)) /\ WellTyped(Add3b(x, i))
         /\ WellTyped(Add3c(x, i))
<1>0. /\ i.rd \in RegisterIndex /\ i.rs1 \in RegisterIndex /\ i.rs2 \in RegisterIndex
      /\ i.rs3 \in RegisterIndex /\ i.rs4 \in RegisterIndex
  BY DEF Sound
<1>1. ASSUME NEW y, WellTyped(y), NEW op \in {"ADD", "SUB", "SLTU", "OR"},
             NEW r \in RegisterIndex, NEW a \in RegisterIndex, NEW b \in RegisterIndex
      PROVE  WellTyped(Do(y, op, r, a, b))
  <2>1. y.regs[a] \in Value /\ y.regs[b] \in Value /\ op \in AluOps
    BY <1>1 DEF WellTyped, AluOps
  <2> QED
    BY <1>1, <2>1, AluIn, SetTyped DEF Do
<1>2. \A y, r, a : WellTyped(y) /\ r \in RegisterIndex => y.regs[r] \in Value
  BY DEF WellTyped
<1>3. \A y, r, v : WellTyped(y) /\ r \in RegisterIndex /\ v \in Value => WellTyped(Set(y, r, v))
  BY SetTyped
<1>4. i.op \in WideOps => WellTyped(Wide(x, i))
  <2> SUFFICES ASSUME i.op \in WideOps PROVE WellTyped(Wide(x, i))
    OBVIOUS
  <2> DEFINE a == x.regs[i.rs1]
             b == x.regs[i.rs2]
             P(v) == v[1] \in Value /\ v[2] \in Value
  <2>1. a \in Value /\ b \in Value /\ a \in Int /\ b \in Int
    BY <1>0, <1>2, ValuesAreInts
  <2> HIDE DEF a, b
  <2>2. P(WideValue(i.op, a, b))
    <3>1. /\ P(<<MulHighSigned(a, b), OverflowingMul(a, b)>>)
          /\ P(<<MulHighUnsigned(a, b), OverflowingMul(a, b)>>)
          /\ P(<<MulHighSignedUnsigned(a, b), OverflowingMul(a, b)>>)
          /\ P(<<OverflowingDivSigned(a, b), OverflowingRemSigned(a, b)>>)
          /\ P(<<OverflowingDiv(a, b), OverflowingRem(a, b)>>)
      BY <2>1, HighIn, SumsIn, QuotientsIn
    <3> HIDE DEF P
    <3> QED
      BY <3>1, Zenon DEF WideOps, WideValue
  <2> QED
    BY <1>0, <1>3, <2>2 DEF Wide, a, b
<1>5. WellTyped(Adc(x, i)) /\ WellTyped(Sbb(x, i))
  <2>1. WellTyped(Adc(x, i))
    BY <1>0, <1>1 DEF Adc
  <2>2. WellTyped(Sbb(x, i))
    BY <1>0, <1>1 DEF Sbb
  <2> QED
    BY <2>1, <2>2
<1>6. WellTyped(Add3a(x, i)) /\ WellTyped(Add3b(x, i))
  BY <1>0, <1>1 DEF Add3a, Add3b
<1>7. WellTyped(Add3c(x, i))
  <2> DEFINE m1 == Do(x, "ADD", i.rd, i.rs1, i.rs2)
             carry == Lt(m1.regs[i.rd], m1.regs[i.rs1])
  <2>1. WellTyped(m1)
    BY <1>0, <1>1
  <2>2. carry \in Int /\ m1.regs[i.rs4] \in Int
    BY <1>0, <1>2, <2>1, FlagsIn, ValuesAreInts
  <2>3. OverflowingAdd(carry, m1.regs[i.rs4]) \in Value
    BY <2>2, SumsIn
  <2> HIDE DEF m1, carry
  <2> QED
    BY <1>0, <1>3, <2>1, <2>3 DEF Add3c, m1, carry
<1>8. WellTyped(Adcs(x, i))
  <2>1. OverflowingAdd(x.regs[i.rs1], x.regs[i.rs2]) \in Value
    BY <1>0, <1>2, SumsIn, ValuesAreInts
  <2> QED
    BY <1>0, <1>3, <2>1, FlagsIn DEF Adcs
<1>9. WellTyped(Sbbs(x, i))
  <2>1. WellTyped(Do(x, "SUB", i.rd, i.rs1, i.rs2))
    BY <1>0, <1>1
  <2> QED
    BY <1>0, <1>3, <2>1, FlagsIn DEF Sbbs
<1> QED
  BY <1>4, <1>5, <1>6, <1>7, <1>8, <1>9

LEMMA ExecuteTyped ==
  ASSUME NEW x, NEW i, WellTyped(x), Sound(i)
  PROVE  WellTyped(ExecuteInstruction(x, i))
<1>1. i.op \in ValueOps =>
        WellTyped(Set(x, i.rd, ComputedValue(i.op, x.regs[i.rs1], x.regs[i.rs2], i.imm)))
  <2> SUFFICES ASSUME i.op \in ValueOps
               PROVE  WellTyped(Set(x, i.rd, ComputedValue(i.op, x.regs[i.rs1], x.regs[i.rs2], i.imm)))
    OBVIOUS
  <2>1. x.regs[i.rs1] \in Value /\ x.regs[i.rs2] \in Value /\ i.rd \in RegisterIndex
    BY DEF WellTyped, Sound
  <2>2. ComputedValue(i.op, x.regs[i.rs1], x.regs[i.rs2], i.imm) \in Value
    BY <2>1, ComputedIn DEF Sound
  <2> QED
    BY <2>1, <2>2, SetTyped
<1>2. i.op \in DOMAIN LoadShape => WellTyped(Load(x, i))
  BY LoadTyped
<1>3. i.op \in DOMAIN StoreBytes => WellTyped(Store(x, i))
  BY StoreTyped
<1>4. i.op \in AmoWOps \cup AmoDOps => WellTyped(Amo(x, i))
  BY AmoTyped
<1>5. i.op \in {"LR_W", "LR_D"} => WellTyped(LoadReserved(x, i))
  BY LoadReservedTyped
<1>6. i.op \in {"SC_W", "SC_D"} => WellTyped(StoreConditional(x, i))
  BY StoreConditionalTyped
<1>7. WellTyped(Fault(x, "InvalidOp"))
  BY FaultTyped
<1> QED
  BY <1>1, <1>2, <1>3, <1>4, <1>5, <1>6, <1>7, JumpsTyped, FusedTyped, Zenon DEF ExecuteInstruction

(* One instruction, and what the decoder hands to it.                      *)
LEMMA RunTyped ==
  ASSUME NEW x, NEW i, WellTyped(x), Sound(i)
  PROVE  WellTyped(Run(x, i))
<1> DEFINE g == Goto(x, Link(x, i))
           r == ExecuteInstruction(g, i)
<1>1. Link(x, i) \in Value
  BY SumsIn, ValuesAreInts DEF WellTyped, Sound, Link
<1>2. WellTyped(g)
  BY <1>1, GotoTyped
<1>3. WellTyped(r)
  BY <1>2, ExecuteTyped
<1>4. Run(x, i) = [r EXCEPT !.pc = r.next_pc]
  BY DEF Run
<1> HIDE DEF r
<1> QED
  BY <1>3, <1>4 DEF WellTyped, Shaped

LEMMA BlankSound == Sound(Blank)
  BY MachineAssumption DEF Blank, Instruction, Sound, RegisterIndex, ShiftImmediateOps

LEMMA RawSound ==
  ASSUME CodeIsRaw, NEW pc
  PROVE  Sound(Raw(code, pc))
<1>1. \A i : IsRaw(i) => Sound(i)
  BY DEF IsRaw, Sound
<1> QED
  BY <1>1, BlankSound DEF Raw, CodeIsRaw

LEMMA WindowSound ==
  ASSUME CodeIsRaw, NEW pc
  PROVE  \A k \in 1 .. 5 : Sound(Window(code, pc)[k])
  BY RawSound DEF Window

(* A fused instruction takes its registers from those that it stands for.  *)
LEMMA LengthsAreInts ==
  ASSUME NEW w, \A k \in 1 .. 5 : Sound(w[k]), NEW n
  PROVE  LengthOf(w, n) \in Int
<1>1. w[1].len \in Int /\ w[2].len \in Int /\ w[3].len \in Int /\ w[4].len \in Int /\ w[5].len \in Int
  BY DEF Sound
<1> QED
  BY <1>1 DEF LengthOf

LEMMA FusedSound ==
  ASSUME NEW w, NEW n, LengthOf(w, n) \in Int,
         NEW op, NEW a \in RegisterIndex, NEW b \in RegisterIndex, NEW c \in RegisterIndex,
         NEW d \in RegisterIndex, NEW e \in RegisterIndex, NEW imm \in Int,
         op \notin ShiftImmediateOps
  PROVE  /\ Sound(Fused(Rtype(op, a, b, c), w, n))
         /\ Sound(Fused(R4type(op, a, b, c, d), w, n))
         /\ Sound(Fused(R5type(op, a, b, c, d, e), w, n))
         /\ Sound(Fused(Utype(op, a, imm), w, n))
<1>1. 0 \in RegisterIndex
  BY MachineAssumption DEF RegisterIndex
<1>2. ASSUME NEW r1 \in RegisterIndex, NEW r2 \in RegisterIndex, NEW r3 \in RegisterIndex,
             NEW r4 \in RegisterIndex, NEW v \in Int
      PROVE  Sound(Fused(Instruction(op, a, r1, r2, r3, r4, v), w, n))
  <2> DEFINE l == LengthOf(w, n)
  <2>1. Fused(Instruction(op, a, r1, r2, r3, r4, v), w, n)
          = [op |-> op, rd |-> a, rs1 |-> r1, rs2 |-> r2, rs3 |-> r3, rs4 |-> r4,
             imm |-> v, len |-> l]
    BY DEF Fused, Instruction
  <2> HIDE DEF l
  <2> QED
    BY <2>1 DEF Sound, l
<1> QED
  BY <1>1, <1>2 DEF Rtype, R4type, R5type, Utype

LEMMA DecodedSound ==
  ASSUME CodeIsRaw, m.pc \in Value
  PROVE  Sound(Decoded)
<1> DEFINE w == Window(code, m.pc)
<1>1. \A k \in 1 .. 5 : Sound(w[k])
  BY WindowSound
<1> HIDE DEF w
<1>2. /\ w[1].rd \in RegisterIndex /\ w[1].rs1 \in RegisterIndex /\ w[1].rs2 \in RegisterIndex
      /\ w[2].rd \in RegisterIndex /\ w[2].rs1 \in RegisterIndex /\ w[2].rs2 \in RegisterIndex
      /\ w[3].rd \in RegisterIndex /\ w[3].rs1 \in RegisterIndex /\ w[3].rs2 \in RegisterIndex
      /\ w[4].rd \in RegisterIndex /\ w[4].rs1 \in RegisterIndex /\ w[4].rs2 \in RegisterIndex
      /\ w[1].imm \in Int /\ w[2].imm \in Int
  BY <1>1 DEF Sound
<1>l. \A n : LengthOf(w, n) \in Int
  BY <1>1, LengthsAreInts
<1>f. ASSUME NEW op, op \notin ShiftImmediateOps, NEW n
      PROVE  /\ \A a, b, c \in RegisterIndex : Sound(Fused(Rtype(op, a, b, c), w, n))
             /\ \A a, b, c, d \in RegisterIndex : Sound(Fused(R4type(op, a, b, c, d), w, n))
             /\ \A a, b, c, d, e \in RegisterIndex : Sound(Fused(R5type(op, a, b, c, d, e), w, n))
             /\ \A a \in RegisterIndex : \A imm \in Int : Sound(Fused(Utype(op, a, imm), w, n))
  <2>1. LengthOf(w, n) \in Int /\ 0 \in Int
    BY <1>l
  <2>2. ASSUME NEW a \in RegisterIndex, NEW b \in RegisterIndex, NEW c \in RegisterIndex
        PROVE  Sound(Fused(Rtype(op, a, b, c), w, n))
    BY <1>f, <2>1, FusedSound
  <2>3. ASSUME NEW a \in RegisterIndex, NEW b \in RegisterIndex, NEW c \in RegisterIndex,
               NEW d \in RegisterIndex
        PROVE  Sound(Fused(R4type(op, a, b, c, d), w, n))
    BY <1>f, <2>1, FusedSound
  <2>4. ASSUME NEW a \in RegisterIndex, NEW b \in RegisterIndex, NEW c \in RegisterIndex,
               NEW d \in RegisterIndex, NEW e \in RegisterIndex
        PROVE  Sound(Fused(R5type(op, a, b, c, d, e), w, n))
    BY <1>f, <2>1, FusedSound
  <2>5. ASSUME NEW a \in RegisterIndex, NEW imm \in Int
        PROVE  Sound(Fused(Utype(op, a, imm), w, n))
    BY <1>f, <2>1, FusedSound
  <2> QED
    BY <2>2, <2>3, <2>4, <2>5
<1>o. {"ADC", "ADD3A", "ADD3B", "ADD3C", "ADCS", "SBB", "SBBS"} \cap ShiftImmediateOps = {}
  BY DEF ShiftImmediateOps
<1>3. RA \in RegisterIndex
  BY MachineAssumption DEF RA, RegisterIndex
<1>4. Sound(DecodeAdd(w, version))
  <2>1. Swapped(w[1]).rd \in RegisterIndex /\ Swapped(w[1]).rs1 \in RegisterIndex
          /\ Swapped(w[1]).rs2 \in RegisterIndex
    <3>1. CASE w[1].rd = w[1].rs1 /\ w[1].rd # w[1].rs2
      BY <1>2, <3>1 DEF Swapped
    <3>2. CASE ~(w[1].rd = w[1].rs1 /\ w[1].rd # w[1].rs2)
      BY <1>2, <3>2 DEF Swapped
    <3> QED
      BY <3>1, <3>2
  <2> DEFINE s == Swapped(w[1])
  <2> HIDE DEF s
  <2>2. Sound(Fused(Rtype("ADC", w[1].rd, w[2].rd, w[4].rd), w, 5))
    BY <1>2, <1>f, <1>o
  <2>3. Sound(Fused(R5type("ADD3A", w[1].rd, w[1].rs1, w[2].rd, w[3].rd, w[3].rs2), w, 3))
    BY <1>2, <1>f, <1>o
  <2>4. Sound(Fused(R5type("ADD3B", w[1].rd, w[1].rs1, w[1].rs2, w[3].rd, w[3].rs2), w, 3))
    BY <1>2, <1>f, <1>o
  <2>5. Sound(Fused(R5type("ADD3C", w[1].rd, w[1].rs1, w[1].rs2, w[2].rd, w[3].rs2), w, 3))
    BY <1>2, <1>f, <1>o
  <2>6. Sound(Fused(R4type("ADCS", s.rd, s.rs1, s.rs2, w[2].rd), w, 2))
    BY <1>2, <1>f, <2>1, <1>o DEF s
  <2>7. Sound(w[1])
    BY <1>1
  <2> QED
    BY <2>2, <2>3, <2>4, <2>5, <2>6, <2>7, Zenon DEF DecodeAdd, s
<1>5. Sound(DecodeSub(w, version))
  <2>1. Sound(Fused(R4type("SBB", w[1].rs1, w[1].rs2, w[3].rs2, w[2].rd), w, 5))
    BY <1>2, <1>f, <1>o
  <2>2. Sound(Fused(R4type("SBBS", w[1].rd, w[1].rs1, w[1].rs2, w[2].rd), w, 2))
    BY <1>2, <1>f, <1>o
  <2>3. Sound(w[1])
    BY <1>1
  <2> QED
    BY <2>1, <2>2, <2>3, Zenon DEF DecodeSub
<1>6. w[1].op \in DOMAIN Wides => Sound(DecodeWide(w))
  <2> SUFFICES ASSUME w[1].op \in DOMAIN Wides PROVE Sound(DecodeWide(w))
    OBVIOUS
  <2>1. Wides[w[1].op][2] \notin ShiftImmediateOps
    BY DEF Wides, WideProducts, WideQuotients, ShiftImmediateOps
  <2>2. /\ Sound(Fused(R4type(Wides[w[1].op][2], w[1].rd, w[1].rs1, w[1].rs2, w[2].rd), w, 2))
        /\ Sound(w[1])
    <3>1. Sound(w[1])
      BY <1>1
    <3> QED
      BY <1>2, <1>f, <2>1, <3>1
  <2> QED
    BY <2>2, Zenon DEF DecodeWide
<1>7. WrappingI32(w[1].imm + w[2].imm) \in Int
  <2>1. w[1].imm + w[2].imm \in Int /\ WORD \in 0 .. XLEN
    BY <1>2, Widths
  <2> QED
    BY <2>1, NarrowIn DEF WrappingI32
<1>8. "FAR_JUMP_ABS" \notin ShiftImmediateOps /\ "FAR_JUMP_REL" \notin ShiftImmediateOps
      /\ "CUSTOM_LOAD_IMM" \notin ShiftImmediateOps
  BY DEF ShiftImmediateOps
<1> DEFINE sum == WrappingI32(w[1].imm + w[2].imm)
<1>9. Sound(DecodeLui(w, version))
  <2> HIDE DEF sum
  <2>0. sum \in Int
    BY <1>7 DEF sum
  <2>1. /\ Sound(Fused(Utype("FAR_JUMP_ABS", RA, sum), w, 2))
        /\ Sound(Fused(Utype("CUSTOM_LOAD_IMM", w[1].rd, sum), w, 2))
        /\ Sound(w[1])
    <3>1. Sound(Fused(Utype("FAR_JUMP_ABS", RA, sum), w, 2))
      BY <1>3, <1>8, <1>f, <2>0
    <3>2. Sound(Fused(Utype("CUSTOM_LOAD_IMM", w[1].rd, sum), w, 2))
      BY <1>2, <1>8, <1>f, <2>0
    <3> QED
      BY <1>1, <3>1, <3>2
  <2> QED
    BY <2>1, Zenon DEF DecodeLui, sum
<1>10. Sound(DecodeAuipc(w, m.pc, version))
  <2> HIDE DEF sum
  <2>1. m.pc \in Int
    BY ValuesAreInts
  <2>2. sum \in Int /\ sum + m.pc \in Int
    BY <1>7, <2>1 DEF sum
  <2>3. /\ Sound(Fused(Utype("FAR_JUMP_REL", RA, sum), w, 2))
        /\ Sound(Fused(Utype("CUSTOM_LOAD_IMM", w[1].rd, sum + m.pc), w, 2))
        /\ Sound(w[1])
    <3>1. Sound(Fused(Utype("FAR_JUMP_REL", RA, sum), w, 2))
      BY <1>3, <1>8, <1>f, <2>2
    <3>2. Sound(Fused(Utype("CUSTOM_LOAD_IMM", w[1].rd, sum + m.pc), w, 2))
      BY <1>2, <1>8, <1>f, <2>2
    <3> QED
      BY <1>1, <3>1, <3>2
  <2> QED
    BY <2>3, Zenon DEF DecodeAuipc, sum
<1>11. Sound(DecodeMop(code, m.pc, version))
  <2>1. Sound(w[1])
    BY <1>1
  <2> QED
    BY <1>4, <1>5, <1>6, <1>9, <1>10, <2>1, Zenon DEF DecodeMop, w
<1> QED
  BY <1>11, RawSound DEF Decoded

LEMMA InitTyped == Init => WellTyped(m)
<1> SUFFICES ASSUME NEW pc \in Value, NEW values \in Seq(Value)
             PROVE  WellTyped(Machine(pc, values))
  BY ProgramsAssumption DEF Init
<1>1. Between(Machine(pc, values))
  <2>1. ZERO \in RegisterIndex /\ ZERO \notin DOMAIN values
    BY MachineAssumption DEF ZERO, RegisterIndex
  <2> QED
    BY <2>1 DEF Machine, Between, Shaped
<1>2. 2^BYTE \in Nat /\ 2^BYTE > 0 /\ NoReservation \in Value
  BY Widths, Powers DEF NoReservation, Value
<1>3. \A a \in Addr : a % 2^BYTE \in 0 .. 2^BYTE - 1
  BY <1>2, ModIn DEF Addr
<1>4. \A r \in RegisterIndex : (IF r \in DOMAIN values THEN values[r] ELSE 0) \in Value
  BY FlagsIn
<1> QED
  BY <1>1, <1>2, <1>3, <1>4 DEF Between, WellTyped, Machine

LEMMA StepKeepsTyped ==
  ASSUME WellTyped(m), CodeIsRaw, [Next]_vars
  PROVE  WellTyped(m)' /\ CodeIsRaw'
<1>1. ASSUME Step PROVE WellTyped(m)'
  <2>1. CASE m.pc \in DOMAIN code
    BY <1>1, <2>1, DecodedSound, RunTyped DEF Step, WellTyped
  <2>2. CASE m.pc \notin DOMAIN code
    BY <1>1, <2>2, FaultTyped DEF Step
  <2> QED
    BY <2>1, <2>2
<1>2. ASSUME UNCHANGED vars PROVE WellTyped(m)'
  BY <1>2 DEF vars, WellTyped, Shaped
<1>3. CodeIsRaw'
  BY DEF CodeIsRaw, Next, Step, vars
<1> QED
  BY <1>1, <1>2, <1>3 DEF Next

(* Registers, memory, reservation and pc keep their widths, x0 is zero,    *)
(* and no jump is half done, whatever the values computed and the          *)
(* instructions fused (register.rs, execute.rs).                           *)
THEOREM PipelineTypes == Spec => []PipelineTypeOK
<1>1. Between(m) /\ WellTyped(m) => PipelineTypeOK
  BY DEF Between, WellTyped, PipelineTypeOK
<1> QED
  BY <1>1, InitTyped, StepKeepsTyped, InitBetween, StepKeepsBetween, InitCodeIsRaw, PTL DEF Spec

--------------------------------------------------------------------------------
(* Fused instructions.  The machine with other registers, amid or between  *)
(* instructions.                                                           *)
Halfway(regs, pc, next) ==
  [regs |-> regs, pc |-> pc, next_pc |-> next, err |-> m.err, lr |-> m.lr, mem |-> m.mem]
At(regs, pc) == Halfway(regs, pc, pc)
IsRegs(regs) == regs = [r \in RegisterIndex |-> regs[r]]

(* rd := a op b on registers alone.                                        *)
Done(regs, op, rd, ra, rb) == WithRegister(regs, rd, AluValue(op, regs[ra], regs[rb]))

LEMMA WithRegisterIs ==
  ASSUME NEW regs, NEW r \in RegisterIndex, NEW v, IsRegs(regs)
  PROVE  /\ IsRegs(WithRegister(regs, r, v))
         /\ r # ZERO => WithRegister(regs, r, v)[r] = v
         /\ \A s \in RegisterIndex : s # r => WithRegister(regs, r, v)[s] = regs[s]
  BY DEF WithRegister, IsRegs

LEMMA HalfwayShaped ==
  ASSUME NEW regs, NEW pc, NEW next, IsRegs(regs)
  PROVE  Shaped(Halfway(regs, pc, next))
  BY DEF Halfway, IsRegs, Shaped

LEMMA SetHalfway ==
  ASSUME NEW regs, NEW pc, NEW next, NEW r \in RegisterIndex, NEW v, IsRegs(regs)
  PROVE  Set(Halfway(regs, pc, next), r, v) = Halfway(WithRegister(regs, r, v), pc, next)
<1> DEFINE x == Halfway(regs, pc, next)
<1>1. Set(x, r, v) = [x EXCEPT !.regs = WithRegister(x.regs, r, v)]
  BY HalfwayShaped, SetIs
<1>2. x.regs = regs
  BY DEF Halfway
<1> DEFINE new == WithRegister(regs, r, v)
<1> HIDE DEF new
<1>3. [x EXCEPT !.regs = new] = Halfway(new, pc, next)
  BY DEF Halfway
<1> QED
  BY <1>1, <1>2, <1>3 DEF new

LEMMA DoHalfway ==
  ASSUME NEW regs, NEW pc, NEW next, NEW op, NEW rd \in RegisterIndex, NEW ra, NEW rb, IsRegs(regs)
  PROVE  /\ Do(Halfway(regs, pc, next), op, rd, ra, rb) = Halfway(Done(regs, op, rd, ra, rb), pc, next)
         /\ IsRegs(Done(regs, op, rd, ra, rb))
<1>1. Halfway(regs, pc, next).regs = regs
  BY DEF Halfway
<1> QED
  BY <1>1, SetHalfway, WithRegisterIs DEF Do, Done

LEMMA GotoHalfway ==
  ASSUME NEW regs, NEW pc, NEW next, NEW new
  PROVE  Goto(Halfway(regs, pc, next), new) = Halfway(regs, pc, new)
  BY DEF Goto, Halfway

LEMMA RunHalfway ==
  ASSUME NEW regs, NEW pc, NEW i, NEW new, NEW next,
         ExecuteInstruction(Halfway(regs, pc, Wrap(pc + i.len)), i) = Halfway(new, pc, next)
  PROVE  Run(At(regs, pc), i) = At(new, next)
<1>1. Link(At(regs, pc), i) = Wrap(pc + i.len)
  BY DEF Link, OverflowingAdd, At, Halfway
<1>2. Goto(At(regs, pc), Wrap(pc + i.len)) = Halfway(regs, pc, Wrap(pc + i.len))
  BY GotoHalfway DEF At
<1>3. [Halfway(new, pc, next) EXCEPT !.pc = Halfway(new, pc, next).next_pc] = At(new, next)
  BY DEF At, Halfway
<1> QED
  BY <1>1, <1>2, <1>3 DEF Run

LEMMA MachineIsAt == Between(m) => m = At(m.regs, m.pc) /\ IsRegs(m.regs)
  BY DEF Between, Shaped, At, Halfway, IsRegs

(* An instruction that computes a value, as decode_raw answers it.         *)
LEMMA RunValue ==
  ASSUME NEW regs, NEW pc, NEW i, i.op \in ValueOps, i.rd \in RegisterIndex, IsRegs(regs)
  PROVE  LET new == WithRegister(regs, i.rd,
                      ComputedValue(i.op, regs[i.rs1], regs[i.rs2], i.imm))
         IN  Run(At(regs, pc), i) = At(new, Wrap(pc + i.len)) /\ IsRegs(new)
<1> DEFINE n == Wrap(pc + i.len)
           v == ComputedValue(i.op, regs[i.rs1], regs[i.rs2], i.imm)
           x == Halfway(regs, pc, n)
<1>1. i.op \notin FusedOps
  BY OpcodesDisjoint
<1>2. ExecuteInstruction(x, i)
        = Set(x, i.rd, ComputedValue(i.op, x.regs[i.rs1], x.regs[i.rs2], i.imm))
  BY <1>1, RawHandler
<1>3. x.regs = regs
  BY DEF Halfway
<1>4. ExecuteInstruction(x, i) = Set(x, i.rd, v)
  BY <1>2, <1>3
<1> HIDE DEF v, n
<1>5. ExecuteInstruction(x, i) = Halfway(WithRegister(regs, i.rd, v), pc, n)
  BY <1>4, SetHalfway
<1> HIDE DEF x
<1>6. IsRegs(WithRegister(regs, i.rd, v))
  BY WithRegisterIs
<1> QED
  BY <1>5, <1>6, RunHalfway DEF n, x, v

SumOps == {"ADD", "SUB", "SLTU", "OR"}
PairOps == {"MULH", "MULHU", "MULHSU", "MUL", "DIV", "DIVU", "REM", "REMU"}

LEMMA ComputedIs ==
  /\ \A op \in SumOps : op \in ValueOps /\ \A a, b, imm : ComputedValue(op, a, b, imm) = AluValue(op, a, b)
  /\ \A op \in PairOps : op \in ValueOps /\ \A a, b, imm : ComputedValue(op, a, b, imm) = MulDivValue(op, a, b)
  /\ \A a, b, imm : ComputedValue("ADDI", a, b, imm) = ImmediateValue("ADDI", a, imm)
  /\ \A a, b, imm : ComputedValue("ADDIW", a, b, imm) = ImmediateValue("ADDIW", a, imm)
  /\ "ADDI" \in ValueOps /\ "ADDIW" \in ValueOps
<1> USE DEF ValueOps, AluOps, MulDivOps, SingleBitOps, CountOps, RotateOps, ImmediateOps,
            ShiftImmediateOps, BitImmediateOps
<1>1. ASSUME NEW op \in SumOps, NEW a, NEW b, NEW imm
      PROVE  op \in ValueOps /\ ComputedValue(op, a, b, imm) = AluValue(op, a, b)
  BY DEF SumOps, ComputedValue
<1>2. ASSUME NEW op \in PairOps, NEW a, NEW b, NEW imm
      PROVE  op \in ValueOps /\ ComputedValue(op, a, b, imm) = MulDivValue(op, a, b)
  BY DEF PairOps, ComputedValue
<1>3. ASSUME NEW op \in {"ADDI", "ADDIW"}, NEW a, NEW b, NEW imm
      PROVE  op \in ValueOps /\ ComputedValue(op, a, b, imm) = ImmediateValue(op, a, imm)
  BY DEF ComputedValue
<1> QED
  BY <1>1, <1>2, <1>3

(* The code lies in memory.                                                *)
CodeFits == DOMAIN code \subseteq Addr /\ version \in 0 .. 2

(* What a sum or difference leaves in the registers.                       *)
Ran(regs, i) == Done(regs, i.op, i.rd, i.rs1, i.rs2)

LEMMA Followed ==
  ASSUME CodeIsRaw, CodeFits, NEW pc, Raw(code, pc).op # "NONE"
  PROVE  /\ pc \in DOMAIN code /\ pc \in Addr /\ Wrap(pc) = pc
         /\ IsRaw(Raw(code, pc)) /\ Raw(code, pc).len \in {2, 4}
         /\ Raw(code, pc).rd \in RegisterIndex
<1>1. pc \in DOMAIN code
  BY DEF Raw, Blank, Instruction
<1>2. pc \in Addr /\ IsRaw(Raw(code, pc))
  BY <1>1 DEF CodeFits, CodeIsRaw, Raw
<1>3. Wrap(pc) = pc
  <2>1. MemSize <= 2^XLEN /\ 2^XLEN \in Nat
    <3>1. WORD - 2 \in 0 .. XLEN /\ XLEN \in 0 .. XLEN
      BY Widths
    <3> QED
      BY <3>1, PowersGrow, Powers, MachineAssumption
  <2>2. pc \in Nat /\ pc < 2^XLEN
    BY <1>2, <2>1, MachineAssumption DEF Addr
  <2> QED
    BY <2>1, <2>2 DEF Wrap
<1> QED
  BY <1>1, <1>2, <1>3 DEF IsRaw

LEMMA UnfusedValue ==
  ASSUME CodeIsRaw, CodeFits, NEW regs, IsRegs(regs), NEW pc, Raw(code, pc).op \in ValueOps
  PROVE  LET i   == Raw(code, pc)
             new == WithRegister(regs, i.rd, ComputedValue(i.op, regs[i.rs1], regs[i.rs2], i.imm))
         IN  /\ Unfused(At(regs, pc)) = At(new, Wrap(pc + i.len)) /\ IsRegs(new)
             /\ pc \in DOMAIN code /\ i.op # "NONE"
<1>1. Raw(code, pc).op # "NONE"
  BY DEF ValueOps, AluOps, MulDivOps, SingleBitOps, CountOps, RotateOps, ImmediateOps,
         ShiftImmediateOps, BitImmediateOps
<1>2. At(regs, pc).pc = pc
  BY DEF At, Halfway
<1> QED
  BY <1>1, <1>2, Followed, RunValue DEF Unfused

LEMMA UnfusedSum ==
  ASSUME CodeIsRaw, CodeFits, NEW regs, IsRegs(regs), NEW pc, Raw(code, pc).op \in SumOps
  PROVE  LET i == Raw(code, pc)
         IN  /\ Unfused(At(regs, pc)) = At(Ran(regs, i), Wrap(pc + i.len)) /\ IsRegs(Ran(regs, i))
             /\ i.op # "NONE"
  BY ComputedIs, UnfusedValue DEF Ran, Done

(* Sums and differences one after another, if none are fused.              *)
LEMMA LaterSums ==
  ASSUME CodeIsRaw, CodeFits, Between(m),
         NEW w, w = Window(code, m.pc), w[1].op \in SumOps, w[2].op \in SumOps
  PROVE  LET r2 == Ran(Ran(m.regs, w[1]), w[2])
             r3 == Ran(r2, w[3])
             r5 == Ran(Ran(r3, w[4]), w[5])
         IN  /\ Later[2] = At(r2, Wrap(m.pc + LengthOf(w, 2))) /\ IsRegs(r2)
             /\ w[3].op \in SumOps =>
                  Later[3] = At(r3, Wrap(m.pc + LengthOf(w, 3))) /\ IsRegs(r3)
             /\ w[3].op \in SumOps /\ w[4].op \in SumOps /\ w[5].op \in SumOps =>
                  Later[5] = At(r5, Wrap(m.pc + LengthOf(w, 5)))
<1> DEFINE p1 == m.pc
           p2 == m.pc + w[1].len
           p3 == m.pc + w[1].len + w[2].len
           p4 == m.pc + w[1].len + w[2].len + w[3].len
           p5 == m.pc + w[1].len + w[2].len + w[3].len + w[4].len
           r1 == Ran(m.regs, w[1])
           r2 == Ran(r1, w[2])
           r3 == Ran(r2, w[3])
           r4 == Ran(r3, w[4])
           r5 == Ran(r4, w[5])
<1>1. w[1] = Raw(code, p1) /\ w[2] = Raw(code, p2) /\ w[3] = Raw(code, p3)
      /\ w[4] = Raw(code, p4) /\ w[5] = Raw(code, p5)
  BY DEF Window
<1>2. \A op \in SumOps : op # "NONE"
  BY DEF SumOps
<1>3. /\ Later[1] = Unfused(m) /\ Later[2] = Unfused(Later[1]) /\ Later[3] = Unfused(Later[2])
      /\ Later[4] = Unfused(Later[3]) /\ Later[5] = Unfused(Later[4])
  BY DEF Later
<1>4. m = At(m.regs, p1) /\ IsRegs(m.regs)
  BY MachineIsAt
<1> HIDE DEF r1, r2, r3, r4, r5, p1, p2, p3, p4, p5
<1>5. /\ Later[1] = At(r1, Wrap(p1 + w[1].len)) /\ IsRegs(r1)
  BY <1>1, <1>3, <1>4, UnfusedSum DEF r1
<1>6. p2 = p1 + w[1].len /\ Wrap(p2) = p2
  BY <1>1, <1>2, Followed DEF p1, p2
<1>7. Later[2] = At(r2, Wrap(p2 + w[2].len)) /\ IsRegs(r2)
  BY <1>1, <1>3, <1>5, <1>6, UnfusedSum DEF r2
<1>8. ASSUME w[3].op \in SumOps
      PROVE  Later[3] = At(r3, Wrap(p3 + w[3].len)) /\ IsRegs(r3)
  <2>1. p3 = p2 + w[2].len /\ Wrap(p3) = p3
    BY <1>1, <1>2, <1>8, Followed DEF p2, p3
  <2> QED
    BY <1>1, <1>3, <1>7, <1>8, <2>1, UnfusedSum DEF r3
<1>9. ASSUME w[3].op \in SumOps, w[4].op \in SumOps, w[5].op \in SumOps
      PROVE  Later[5] = At(r5, Wrap(p5 + w[5].len))
  <2>1. p4 = p3 + w[3].len /\ Wrap(p4) = p4
    BY <1>1, <1>2, <1>9, Followed DEF p3, p4
  <2>2. p5 = p4 + w[4].len /\ Wrap(p5) = p5
    BY <1>1, <1>2, <1>9, Followed DEF p4, p5
  <2>3. Later[4] = At(r4, Wrap(p4 + w[4].len)) /\ IsRegs(r4)
    BY <1>1, <1>3, <1>8, <1>9, <2>1, UnfusedSum DEF r4
  <2> QED
    BY <1>1, <1>3, <1>9, <2>2, <2>3, UnfusedSum DEF r5
<1>10. /\ p1 \in Int /\ w[1].len \in Int /\ w[2].len \in Int
       /\ w[3].len \in Int /\ w[4].len \in Int /\ w[5].len \in Int
  <2>1. w[1].op # "NONE" /\ p1 \in Addr
    BY <1>1, <1>2, Followed
  <2>2. \A pc : Sound(Raw(code, pc))
    BY RawSound
  <2> QED
    BY <1>1, <2>1, <2>2 DEF Sound, Addr
<1>11. /\ p2 + w[2].len = m.pc + LengthOf(w, 2)
       /\ p3 + w[3].len = m.pc + LengthOf(w, 3)
       /\ p5 + w[5].len = m.pc + LengthOf(w, 5)
  BY <1>10 DEF p1, p2, p3, p5, LengthOf
<1> QED
  BY <1>7, <1>8, <1>9, <1>11 DEF r1, r2, r3, r4, r5

--------------------------------------------------------------------------------
LEMMA FusedFields ==
  ASSUME NEW w, NEW n, NEW op, NEW a, NEW b, NEW c, NEW d, NEW e, NEW imm
  PROVE  /\ LET i == Fused(Rtype(op, a, b, c), w, n)
            IN  i.op = op /\ i.rd = a /\ i.rs1 = b /\ i.rs2 = c /\ i.len = LengthOf(w, n)
         /\ LET i == Fused(R4type(op, a, b, c, d), w, n)
            IN  i.op = op /\ i.rd = a /\ i.rs1 = b /\ i.rs2 = c /\ i.rs3 = d /\ i.len = LengthOf(w, n)
         /\ LET i == Fused(R5type(op, a, b, c, d, e), w, n)
            IN  i.op = op /\ i.rd = a /\ i.rs1 = b /\ i.rs2 = c /\ i.rs3 = d /\ i.rs4 = e
                  /\ i.len = LengthOf(w, n)
         /\ LET i == Fused(Utype(op, a, imm), w, n)
            IN  i.op = op /\ i.rd = a /\ i.imm = imm /\ i.len = LengthOf(w, n)
  BY DEF Fused, Rtype, R4type, R5type, Utype, Instruction

(* The handlers of the instructions that decode_mop makes.                 *)
LEMMA FusedHandler ==
  ASSUME NEW x, NEW i, i.op \in FusedOps
  PROVE  /\ i.op \in WideOps => ExecuteInstruction(x, i) = Wide(x, i)
         /\ i.op = "FAR_JUMP_REL" => ExecuteInstruction(x, i) = FarJumpRel(x, i)
         /\ i.op = "FAR_JUMP_ABS" => ExecuteInstruction(x, i) = FarJumpAbs(x, i)
         /\ i.op = "ADC" => ExecuteInstruction(x, i) = Adc(x, i)
         /\ i.op = "SBB" => ExecuteInstruction(x, i) = Sbb(x, i)
         /\ i.op = "ADCS" => ExecuteInstruction(x, i) = Adcs(x, i)
         /\ i.op = "SBBS" => ExecuteInstruction(x, i) = Sbbs(x, i)
         /\ i.op = "ADD3A" => ExecuteInstruction(x, i) = Add3a(x, i)
         /\ i.op = "ADD3B" => ExecuteInstruction(x, i) = Add3b(x, i)
         /\ i.op = "ADD3C" => ExecuteInstruction(x, i) = Add3c(x, i)
         /\ i.op = "CUSTOM_LOAD_IMM" => ExecuteInstruction(x, i) = LoadImm(x, i)
<1>1. i.op \notin ValueOps /\ i.op \notin MemoryOps /\ i.op \notin JumpOps /\ i.op \notin OtherOps
  BY OpcodesDisjoint
<1>2. /\ i.op \notin ValueOps
      /\ i.op \notin DOMAIN LoadShape /\ i.op \notin DOMAIN StoreBytes
      /\ i.op \notin AmoWOps \cup AmoDOps
      /\ i.op \notin {"LR_W", "LR_D"} /\ i.op \notin {"SC_W", "SC_D"}
      /\ i.op \notin BranchOps /\ i.op # "LUI" /\ i.op # "AUIPC" /\ i.op # "JAL"
      /\ i.op # "JALR_VERSION0" /\ i.op # "JALR_VERSION1"
      /\ i.op \notin {"EBREAK", "FENCE", "FENCEI"}
  BY <1>1 DEF MemoryOps, JumpOps, OtherOps
<1>3. CASE i.op \in WideOps
  <2>1. i.op \notin {"FAR_JUMP_REL", "FAR_JUMP_ABS", "ADC", "SBB", "ADCS", "SBBS", "ADD3A",
                     "ADD3B", "ADD3C", "CUSTOM_LOAD_IMM", "CUSTOM_LOAD_UIMM"}
    BY <1>3 DEF WideOps
  <2> QED
    BY <1>2, <1>3, <2>1 DEF ExecuteInstruction
<1>4. CASE i.op \notin WideOps
  BY <1>2, <1>4 DEF ExecuteInstruction
<1> QED
  BY <1>3, <1>4

(* What the fused handlers leave in the registers.                         *)
AdcRegs(r, i) ==
  LET r1 == Done(r, "ADD", i.rd, i.rd, i.rs1)
      r2 == Done(r1, "SLTU", i.rs1, i.rd, i.rs1)
      r3 == Done(r2, "ADD", i.rd, i.rd, i.rs2)
      r4 == Done(r3, "SLTU", i.rs2, i.rd, i.rs2)
  IN  Done(r4, "OR", i.rs1, i.rs1, i.rs2)
SbbRegs(r, i) ==
  LET r1 == Done(r, "SUB", i.rs1, i.rd, i.rs1)
      r2 == Done(r1, "SLTU", i.rs3, i.rd, i.rs1)
      r3 == Done(r2, "SUB", i.rd, i.rs1, i.rs2)
      r4 == Done(r3, "SLTU", i.rs2, i.rs1, i.rd)
  IN  Done(r4, "OR", i.rs1, i.rs2, i.rs3)
AdcsRegs(r, i) ==
  LET v == OverflowingAdd(r[i.rs1], r[i.rs2])
  IN  WithRegister(WithRegister(r, i.rd, v), i.rs3, Lt(v, r[i.rs1]))
SbbsRegs(r, i) == WithRegister(Done(r, "SUB", i.rd, i.rs1, i.rs2), i.rs3, Lt(r[i.rs1], r[i.rs2]))
Add3aRegs(r, i) ==
  LET r1 == Done(r, "ADD", i.rd, i.rd, i.rs1)
      r2 == Done(r1, "SLTU", i.rs2, i.rd, i.rs1)
  IN  Done(r2, "ADD", i.rs3, i.rs2, i.rs4)
Add3bRegs(r, i) ==
  LET r1 == Done(r, "ADD", i.rd, i.rs1, i.rs2)
      r2 == Done(r1, "SLTU", i.rs1, i.rd, i.rs1)
  IN  Done(r2, "ADD", i.rs3, i.rs1, i.rs4)
Add3cRegs(r, i) ==
  LET r1    == Done(r, "ADD", i.rd, i.rs1, i.rs2)
      carry == Lt(r1[i.rd], r1[i.rs1])
  IN  WithRegister(r1, i.rs3, OverflowingAdd(carry, r1[i.rs4]))
WideRegs(r, i) ==
  LET v == WideValue(i.op, r[i.rs1], r[i.rs2])
  IN  WithRegister(WithRegister(r, i.rd, v[1]), i.rs3, v[2])

LEMMA FusedRegs ==
  ASSUME NEW r, IsRegs(r), NEW pc, NEW next, NEW i,
         i.rd \in RegisterIndex, i.rs1 \in RegisterIndex, i.rs2 \in RegisterIndex,
         i.rs3 \in RegisterIndex
  PROVE  LET x == Halfway(r, pc, next)
         IN  /\ Adc(x, i) = Halfway(AdcRegs(r, i), pc, next)
             /\ Sbb(x, i) = Halfway(SbbRegs(r, i), pc, next)
             /\ Adcs(x, i) = Halfway(AdcsRegs(r, i), pc, next)
             /\ Sbbs(x, i) = Halfway(SbbsRegs(r, i), pc, next)
             /\ Add3a(x, i) = Halfway(Add3aRegs(r, i), pc, next)
             /\ Add3b(x, i) = Halfway(Add3bRegs(r, i), pc, next)
             /\ Add3c(x, i) = Halfway(Add3cRegs(r, i), pc, next)
             /\ Wide(x, i) = Halfway(WideRegs(r, i), pc, next)
<1> DEFINE x == Halfway(r, pc, next)
<1>1. \A s : Halfway(s, pc, next).regs = s
  BY DEF Halfway
<1>2. \A s, op, a, b : \A d \in RegisterIndex :
        IsRegs(s) => /\ Do(Halfway(s, pc, next), op, d, a, b) = Halfway(Done(s, op, d, a, b), pc, next)
                     /\ IsRegs(Done(s, op, d, a, b))
  BY DoHalfway
<1>3. \A s, v : \A d \in RegisterIndex :
        IsRegs(s) => /\ Set(Halfway(s, pc, next), d, v) = Halfway(WithRegister(s, d, v), pc, next)
                     /\ IsRegs(WithRegister(s, d, v))
  BY SetHalfway, WithRegisterIs
<1>4. Adc(x, i) = Halfway(AdcRegs(r, i), pc, next)
  BY <1>2 DEF Adc, AdcRegs
<1>5. Sbb(x, i) = Halfway(SbbRegs(r, i), pc, next)
  BY <1>2 DEF Sbb, SbbRegs
<1>6. Adcs(x, i) = Halfway(AdcsRegs(r, i), pc, next)
  BY <1>1, <1>3 DEF Adcs, AdcsRegs
<1>7. Sbbs(x, i) = Halfway(SbbsRegs(r, i), pc, next)
  BY <1>1, <1>2, <1>3 DEF Sbbs, SbbsRegs
<1>8. Add3a(x, i) = Halfway(Add3aRegs(r, i), pc, next)
  BY <1>2 DEF Add3a, Add3aRegs
<1>9. Add3b(x, i) = Halfway(Add3bRegs(r, i), pc, next)
  BY <1>2 DEF Add3b, Add3bRegs
<1>10. Add3c(x, i) = Halfway(Add3cRegs(r, i), pc, next)
  BY <1>1, <1>2, <1>3 DEF Add3c, Add3cRegs
<1>11. Wide(x, i) = Halfway(WideRegs(r, i), pc, next)
  BY <1>1, <1>3 DEF Wide, WideRegs
<1> QED
  BY <1>4, <1>5, <1>6, <1>7, <1>8, <1>9, <1>10, <1>11

LEMMA RunFused ==
  ASSUME Between(m), NEW i,
         i.rd \in RegisterIndex, i.rs1 \in RegisterIndex, i.rs2 \in RegisterIndex,
         i.rs3 \in RegisterIndex
  PROVE  LET pc == Wrap(m.pc + i.len)
         IN  /\ i.op = "ADC" => Run(m, i) = At(AdcRegs(m.regs, i), pc)
             /\ i.op = "SBB" => Run(m, i) = At(SbbRegs(m.regs, i), pc)
             /\ i.op = "ADCS" => Run(m, i) = At(AdcsRegs(m.regs, i), pc)
             /\ i.op = "SBBS" => Run(m, i) = At(SbbsRegs(m.regs, i), pc)
             /\ i.op = "ADD3A" => Run(m, i) = At(Add3aRegs(m.regs, i), pc)
             /\ i.op = "ADD3B" => Run(m, i) = At(Add3bRegs(m.regs, i), pc)
             /\ i.op = "ADD3C" => Run(m, i) = At(Add3cRegs(m.regs, i), pc)
             /\ i.op \in WideOps => Run(m, i) = At(WideRegs(m.regs, i), pc)
             /\ i.op = "CUSTOM_LOAD_IMM" =>
                  Run(m, i) = At(WithRegister(m.regs, i.rd, Wrap(i.imm)), pc)
<1> DEFINE pc == Wrap(m.pc + i.len)
           x  == Halfway(m.regs, m.pc, pc)
<1>1. m = At(m.regs, m.pc) /\ IsRegs(m.regs)
  BY MachineIsAt
<1>2. \A new : ExecuteInstruction(x, i) = Halfway(new, m.pc, pc) => Run(m, i) = At(new, pc)
  BY <1>1, RunHalfway
<1>3. LoadImm(x, i) = Halfway(WithRegister(m.regs, i.rd, Wrap(i.imm)), m.pc, pc)
  BY <1>1, SetHalfway DEF LoadImm
<1>4. /\ Adc(x, i) = Halfway(AdcRegs(m.regs, i), m.pc, pc)
      /\ Sbb(x, i) = Halfway(SbbRegs(m.regs, i), m.pc, pc)
      /\ Adcs(x, i) = Halfway(AdcsRegs(m.regs, i), m.pc, pc)
      /\ Sbbs(x, i) = Halfway(SbbsRegs(m.regs, i), m.pc, pc)
      /\ Add3a(x, i) = Halfway(Add3aRegs(m.regs, i), m.pc, pc)
      /\ Add3b(x, i) = Halfway(Add3bRegs(m.regs, i), m.pc, pc)
      /\ Add3c(x, i) = Halfway(Add3cRegs(m.regs, i), m.pc, pc)
      /\ Wide(x, i) = Halfway(WideRegs(m.regs, i), m.pc, pc)
  BY <1>1, FusedRegs
<1>5. i.op \in WideOps \cup {"ADC", "SBB", "ADCS", "SBBS", "ADD3A", "ADD3B", "ADD3C",
                             "CUSTOM_LOAD_IMM"} => i.op \in FusedOps
  BY DEF FusedOps
<1> HIDE DEF x, pc
<1> QED
  BY <1>2, <1>3, <1>4, <1>5, FusedHandler DEF pc

LEMMA AluIs ==
  \A a, b : /\ AluValue("ADD", a, b) = OverflowingAdd(a, b)
            /\ AluValue("SUB", a, b) = OverflowingSub(a, b)
            /\ AluValue("SLTU", a, b) = Lt(a, b)
  BY DEF AluValue

LEMMA AddsCommute == \A a, b \in Int : OverflowingAdd(a, b) = OverflowingAdd(b, a)
<1> SUFFICES ASSUME NEW a \in Int, NEW b \in Int PROVE OverflowingAdd(a, b) = OverflowingAdd(b, a)
  OBVIOUS
<1>1. a + b = b + a
  OBVIOUS
<1> QED
  BY <1>1 DEF OverflowingAdd

(* Between fetching and executing: all that a rule of decode_mop meets.    *)
Fetching(w) ==
  /\ WellTyped(m) /\ Between(m) /\ CodeIsRaw /\ CodeFits /\ w = Window(code, m.pc)
  /\ m.pc \in DOMAIN code

LEMMA RegistersOf ==
  ASSUME NEW w, Fetching(w)
  PROVE  /\ \A k \in 1 .. 5 : w[k].rd \in RegisterIndex /\ w[k].rs1 \in RegisterIndex
                               /\ w[k].rs2 \in RegisterIndex
         /\ \A r \in RegisterIndex : m.regs[r] \in Int
         /\ Later[1] = Run(m, w[1])
<1>1. \A k \in 1 .. 5 : Sound(w[k])
  BY WindowSound DEF Fetching
<1>2. w[1] = Raw(code, m.pc)
  BY DEF Window, Fetching
<1> QED
  BY <1>1, <1>2, ValuesAreInts DEF Sound, Fetching, WellTyped, Later, Unfused

LEMMA FusedAdc ==
  ASSUME NEW w, Fetching(w), w[1].op = "ADD", RuleAdc(w[1], w[2], w[3], w[4], w[5])
  PROVE  Run(m, Fused(Rtype("ADC", w[1].rd, w[2].rd, w[4].rd), w, 5)) = Later[5]
<1> DEFINE i == Fused(Rtype("ADC", w[1].rd, w[2].rd, w[4].rd), w, 5)
<1>1. i.op = "ADC" /\ i.rd = w[1].rd /\ i.rs1 = w[2].rd /\ i.rs2 = w[4].rd /\ i.len = LengthOf(w, 5)
        /\ i.rs3 = 0
  BY FusedFields DEF Fused, Rtype, Instruction
<1>2. Later[5] = At(Ran(Ran(Ran(Ran(Ran(m.regs, w[1]), w[2]), w[3]), w[4]), w[5]),
                    Wrap(m.pc + LengthOf(w, 5)))
  BY LaterSums DEF RuleAdc, SumOps, Fetching
<1> HIDE DEF i
<1>3. Run(m, i) = At(AdcRegs(m.regs, i), Wrap(m.pc + i.len))
  <2>1. i.rd \in RegisterIndex /\ i.rs1 \in RegisterIndex /\ i.rs2 \in RegisterIndex
          /\ i.rs3 \in RegisterIndex
    BY <1>1, RegistersOf, BlankSound DEF Blank, Instruction, Sound
  <2> QED
    BY <1>1, <2>1, RunFused DEF Fetching
<1>4. Ran(Ran(Ran(Ran(Ran(m.regs, w[1]), w[2]), w[3]), w[4]), w[5]) = AdcRegs(m.regs, i)
  BY <1>1 DEF RuleAdc, AdcRegs, Ran
<1> QED
  BY <1>1, <1>2, <1>3, <1>4 DEF i

LEMMA FusedSbb ==
  ASSUME NEW w, Fetching(w), w[1].op = "SUB", RuleSbb(w[1], w[2], w[3], w[4], w[5]),
         w[2].rs2 = w[1].rs2
  PROVE  Run(m, Fused(R4type("SBB", w[1].rs1, w[1].rs2, w[3].rs2, w[2].rd), w, 5)) = Later[5]
<1> DEFINE i == Fused(R4type("SBB", w[1].rs1, w[1].rs2, w[3].rs2, w[2].rd), w, 5)
<1>1. i.op = "SBB" /\ i.rd = w[1].rs1 /\ i.rs1 = w[1].rs2 /\ i.rs2 = w[3].rs2 /\ i.rs3 = w[2].rd
        /\ i.len = LengthOf(w, 5)
  BY FusedFields
<1>2. Later[5] = At(Ran(Ran(Ran(Ran(Ran(m.regs, w[1]), w[2]), w[3]), w[4]), w[5]),
                    Wrap(m.pc + LengthOf(w, 5)))
  BY LaterSums DEF RuleSbb, SumOps, Fetching
<1> HIDE DEF i
<1>3. Run(m, i) = At(SbbRegs(m.regs, i), Wrap(m.pc + i.len))
  <2>1. i.rd \in RegisterIndex /\ i.rs1 \in RegisterIndex /\ i.rs2 \in RegisterIndex
          /\ i.rs3 \in RegisterIndex
    BY <1>1, RegistersOf
  <2> QED
    BY <1>1, <2>1, RunFused DEF Fetching
<1>4. Ran(Ran(Ran(Ran(Ran(m.regs, w[1]), w[2]), w[3]), w[4]), w[5]) = SbbRegs(m.regs, i)
  BY <1>1 DEF RuleSbb, SbbRegs, Ran
<1> QED
  BY <1>1, <1>2, <1>3, <1>4 DEF i

LEMMA FusedAdd3 ==
  ASSUME NEW w, Fetching(w), w[1].op = "ADD"
  PROVE  /\ RuleAdd3a(w[1], w[2], w[3]) =>
              Run(m, Fused(R5type("ADD3A", w[1].rd, w[1].rs1, w[2].rd, w[3].rd, w[3].rs2), w, 3)) = Later[3]
         /\ RuleAdd3b(w[1], w[2], w[3]) =>
              Run(m, Fused(R5type("ADD3B", w[1].rd, w[1].rs1, w[1].rs2, w[3].rd, w[3].rs2), w, 3)) = Later[3]
         /\ RuleAdd3c(w[1], w[2], w[3]) =>
              Run(m, Fused(R5type("ADD3C", w[1].rd, w[1].rs1, w[1].rs2, w[2].rd, w[3].rs2), w, 3)) = Later[3]
<1>0. w[2].op = "SLTU" /\ w[3].op = "ADD" =>
        Later[3] = At(Ran(Ran(Ran(m.regs, w[1]), w[2]), w[3]), Wrap(m.pc + LengthOf(w, 3)))
  BY LaterSums DEF SumOps, Fetching
<1>r. \A k \in 1 .. 3 : w[k].rd \in RegisterIndex /\ w[k].rs1 \in RegisterIndex
                         /\ w[k].rs2 \in RegisterIndex
  BY RegistersOf
<1>m. IsRegs(m.regs)
  BY MachineIsAt DEF Fetching
<1>1. ASSUME RuleAdd3a(w[1], w[2], w[3])
      PROVE  Run(m, Fused(R5type("ADD3A", w[1].rd, w[1].rs1, w[2].rd, w[3].rd, w[3].rs2), w, 3)) = Later[3]
  <2> DEFINE i == Fused(R5type("ADD3A", w[1].rd, w[1].rs1, w[2].rd, w[3].rd, w[3].rs2), w, 3)
  <2>1. i.op = "ADD3A" /\ i.rd = w[1].rd /\ i.rs1 = w[1].rs1 /\ i.rs2 = w[2].rd /\ i.rs3 = w[3].rd
          /\ i.rs4 = w[3].rs2 /\ i.len = LengthOf(w, 3)
    BY FusedFields
  <2> HIDE DEF i
  <2>2. Run(m, i) = At(Add3aRegs(m.regs, i), Wrap(m.pc + i.len))
    BY <1>r, <2>1, RunFused DEF Fetching
  <2>3. AluValue("ADD", m.regs[w[1].rd], m.regs[w[1].rs1])
          = AluValue("ADD", m.regs[w[1].rs1], m.regs[w[1].rd])
    BY <1>r, RegistersOf, AluIs, AddsCommute
  <2>4. Ran(m.regs, w[1]) = Done(m.regs, "ADD", i.rd, i.rd, i.rs1)
    BY <1>1, <2>1, <2>3 DEF RuleAdd3a, Ran, Done
  <2>5. Ran(Ran(Ran(m.regs, w[1]), w[2]), w[3]) = Add3aRegs(m.regs, i)
    BY <1>1, <2>1, <2>4 DEF RuleAdd3a, Add3aRegs, Ran
  <2> QED
    BY <1>0, <1>1, <2>1, <2>2, <2>5 DEF i, RuleAdd3a
<1>2. ASSUME RuleAdd3b(w[1], w[2], w[3])
      PROVE  Run(m, Fused(R5type("ADD3B", w[1].rd, w[1].rs1, w[1].rs2, w[3].rd, w[3].rs2), w, 3)) = Later[3]
  <2> DEFINE i == Fused(R5type("ADD3B", w[1].rd, w[1].rs1, w[1].rs2, w[3].rd, w[3].rs2), w, 3)
  <2>1. i.op = "ADD3B" /\ i.rd = w[1].rd /\ i.rs1 = w[1].rs1 /\ i.rs2 = w[1].rs2 /\ i.rs3 = w[3].rd
          /\ i.rs4 = w[3].rs2 /\ i.len = LengthOf(w, 3)
    BY FusedFields
  <2> HIDE DEF i
  <2>2. Run(m, i) = At(Add3bRegs(m.regs, i), Wrap(m.pc + i.len))
    BY <1>r, <2>1, RunFused DEF Fetching
  <2>5. Ran(Ran(Ran(m.regs, w[1]), w[2]), w[3]) = Add3bRegs(m.regs, i)
    BY <1>2, <2>1 DEF RuleAdd3b, Add3bRegs, Ran
  <2> QED
    BY <1>0, <1>2, <2>1, <2>2, <2>5 DEF i, RuleAdd3b
<1>3. ASSUME RuleAdd3c(w[1], w[2], w[3])
      PROVE  Run(m, Fused(R5type("ADD3C", w[1].rd, w[1].rs1, w[1].rs2, w[2].rd, w[3].rs2), w, 3)) = Later[3]
  <2> DEFINE i == Fused(R5type("ADD3C", w[1].rd, w[1].rs1, w[1].rs2, w[2].rd, w[3].rs2), w, 3)
             r1 == Ran(m.regs, w[1])
             c == Lt(r1[w[1].rd], r1[w[1].rs1])
             r2 == Ran(r1, w[2])
  <2>1. i.op = "ADD3C" /\ i.rd = w[1].rd /\ i.rs1 = w[1].rs1 /\ i.rs2 = w[1].rs2 /\ i.rs3 = w[2].rd
          /\ i.rs4 = w[3].rs2 /\ i.len = LengthOf(w, 3)
    BY FusedFields
  <2> HIDE DEF i
  <2>2. Run(m, i) = At(Add3cRegs(m.regs, i), Wrap(m.pc + i.len))
    BY <1>r, <2>1, RunFused DEF Fetching
  <2>3. IsRegs(r1)
    BY <1>r, <1>m, WithRegisterIs DEF Ran, Done
  <2>4. Add3cRegs(m.regs, i) = WithRegister(r1, w[2].rd, OverflowingAdd(c, r1[w[3].rs2]))
    BY <2>1 DEF Add3cRegs, Ran
  <2> HIDE DEF r1
  <2>5. r2 = WithRegister(r1, w[2].rd, c)
    BY <1>3, AluIs DEF RuleAdd3c, Ran, Done
  <2> HIDE DEF c
  <2>6. r2[w[2].rd] = c /\ r2[w[3].rs2] = r1[w[3].rs2]
    BY <1>3, <1>r, <2>3, <2>5, WithRegisterIs DEF RuleAdd3c
  <2>7. Ran(r2, w[3]) = WithRegister(r2, w[2].rd, OverflowingAdd(c, r1[w[3].rs2]))
    BY <1>3, <2>6, AluIs DEF RuleAdd3c, Ran, Done
  <2>8. \A v : WithRegister(r2, w[2].rd, v) = WithRegister(r1, w[2].rd, v)
    BY <1>r, <2>3, <2>5 DEF WithRegister, IsRegs
  <2> HIDE DEF r2
  <2> QED
    BY <1>0, <1>3, <2>1, <2>2, <2>4, <2>7, <2>8 DEF i, RuleAdd3c, r1, r2
<1> QED
  BY <1>1, <1>2, <1>3

(* What an instruction that computes a value leaves in the registers.      *)
Val(regs, i) ==
  WithRegister(regs, i.rd, ComputedValue(i.op, regs[i.rs1], regs[i.rs2], i.imm))

LEMMA WindowInts ==
  ASSUME NEW w, Fetching(w)
  PROVE  /\ m.pc \in Int /\ w[1].len \in Int /\ w[2].len \in Int
         /\ w[1].imm \in Int /\ w[2].imm \in Int
<1>1. \A k \in 1 .. 5 : Sound(w[k])
  BY WindowSound DEF Fetching
<1>2. Sound(w[1]) /\ Sound(w[2])
  BY <1>1
<1>3. m.pc \in Int
  BY ValuesAreInts DEF Fetching, WellTyped
<1> QED
  BY <1>2, <1>3 DEF Sound

(* Two instructions, if they are not fused.                                *)
LEMMA LaterOne ==
  ASSUME NEW w, Fetching(w)
  PROVE  LET pc == Wrap(m.pc + w[1].len)
         IN  /\ w[1].op \in ValueOps => Later[1] = At(Val(m.regs, w[1]), pc)
             /\ w[1].op = "LUI" =>
                  Later[1] = At(WithRegister(m.regs, w[1].rd, Wrap(w[1].imm)), pc)
             /\ w[1].op = "AUIPC" =>
                  Later[1] = At(WithRegister(m.regs, w[1].rd, Wrap(m.pc + w[1].imm)), pc)
<1> DEFINE i == w[1]
           n == Wrap(m.pc + i.len)
           x == Halfway(m.regs, m.pc, n)
<1>1. i.rd \in RegisterIndex /\ Later[1] = Run(m, i)
  BY RegistersOf
<1>2. m = At(m.regs, m.pc) /\ IsRegs(m.regs)
  BY MachineIsAt DEF Fetching
<1>3. \A new : ExecuteInstruction(x, i) = Halfway(new, m.pc, n) => Run(m, i) = At(new, n)
  BY <1>2, RunHalfway
<1>4. i.op \in ValueOps => Run(m, i) = At(Val(m.regs, i), n)
  BY <1>1, <1>2, RunValue DEF Val
<1>5. i.op \in {"LUI", "AUIPC"} => i.op \notin FusedOps
  BY DEF FusedOps, WideOps
<1>6. x.pc = m.pc
  BY DEF Halfway
<1>7. /\ Lui(x, i) = Halfway(WithRegister(m.regs, i.rd, Wrap(i.imm)), m.pc, n)
      /\ Auipc(x, i) = Halfway(WithRegister(m.regs, i.rd, Wrap(m.pc + i.imm)), m.pc, n)
  BY <1>1, <1>2, <1>6, SetHalfway DEF Lui, Auipc, OverflowingAdd
<1> HIDE DEF x, n, i
<1>8. /\ i.op = "LUI" => ExecuteInstruction(x, i) = Lui(x, i)
      /\ i.op = "AUIPC" => ExecuteInstruction(x, i) = Auipc(x, i)
  BY <1>5, RawHandler
<1> QED
  BY <1>1, <1>3, <1>4, <1>7, <1>8 DEF i, n

LEMMA LaterTwo ==
  ASSUME NEW w, Fetching(w), NEW r, IsRegs(r), Later[1] = At(r, Wrap(m.pc + w[1].len)),
         w[2].op # "NONE"
  PROVE  LET pc == Wrap(m.pc + LengthOf(w, 2))
         IN  /\ w[2].op \in ValueOps => Later[2] = At(Val(r, w[2]), pc)
             /\ w[2].op = "JALR_VERSION1" =>
                  Later[2] = At(WithRegister(r, w[2].rd, pc), Even(Wrap(r[w[2].rs1] + w[2].imm)))
<1> DEFINE i  == w[2]
           p2 == m.pc + w[1].len
           n  == Wrap(p2 + i.len)
           x  == Halfway(r, p2, n)
<1>1. i = Raw(code, p2)
  BY DEF Window, Fetching
<1>2. Wrap(p2) = p2
  BY <1>1, Followed DEF Fetching
<1>3. i.rd \in RegisterIndex
  BY RegistersOf
<1>4. Later[2] = Run(At(r, p2), i)
  <2>1. Later[2] = Unfused(Later[1])
    BY DEF Later
  <2>2. At(r, p2).pc = p2
    BY DEF At, Halfway
  <2> QED
    BY <1>1, <1>2, <2>1, <2>2 DEF Unfused
<1>5. n = Wrap(m.pc + LengthOf(w, 2))
  <2>2. m.pc \in Int /\ w[1].len \in Int /\ w[2].len \in Int
    BY WindowInts
  <2>3. p2 + i.len = m.pc + LengthOf(w, 2)
    BY <2>2 DEF LengthOf
  <2> QED
    BY <2>3
<1>6. ASSUME i.op = "JALR_VERSION1"
      PROVE  Later[2] = At(WithRegister(r, i.rd, n), Even(Wrap(r[i.rs1] + i.imm)))
  <2>1. i.op \notin FusedOps
    BY <1>6 DEF FusedOps, WideOps
  <2>2. x.pc = p2 /\ x.regs = r
    BY DEF Halfway
  <2>3. JalrVersion1(x, i) = Halfway(WithRegister(r, i.rd, n), p2, Even(Wrap(r[i.rs1] + i.imm)))
    BY <1>3, <2>2, SetHalfway, GotoHalfway DEF JalrVersion1, Link, OverflowingAdd
  <2> HIDE DEF i, x
  <2>4. ExecuteInstruction(x, i) = JalrVersion1(x, i)
    BY <1>6, <2>1, RawHandler
  <2> HIDE DEF p2
  <2> DEFINE new == WithRegister(r, i.rd, n)
             to  == Even(Wrap(r[i.rs1] + i.imm))
  <2> HIDE DEF new, to
  <2>5. ExecuteInstruction(Halfway(r, p2, Wrap(p2 + i.len)), i) = Halfway(new, p2, to)
    BY <2>3, <2>4 DEF x, n, new, to
  <2>6. Run(At(r, p2), i) = At(new, to)
    BY <2>5, RunHalfway
  <2> QED
    BY <1>4, <2>6 DEF new, to
<1>7. ASSUME i.op \in ValueOps PROVE Later[2] = At(Val(r, i), n)
  BY <1>3, <1>4, <1>7, RunValue DEF Val
<1> QED
  BY <1>5, <1>6, <1>7

LEMMA ValIsRegs ==
  ASSUME NEW regs, IsRegs(regs), NEW i, i.rd \in RegisterIndex
  PROVE  IsRegs(Val(regs, i))
  BY WithRegisterIs DEF Val

LEMMA FusedWide ==
  ASSUME NEW w, Fetching(w), w[1].op \in DOMAIN Wides, RuleWide(w[1], w[2])
  PROVE  Run(m, Fused(R4type(Wides[w[1].op][2], w[1].rd, w[1].rs1, w[1].rs2, w[2].rd), w, 2)) = Later[2]
<1> DEFINE i == Fused(R4type(Wides[w[1].op][2], w[1].rd, w[1].rs1, w[1].rs2, w[2].rd), w, 2)
           r == Val(m.regs, w[1])
           a == m.regs[w[1].rs1]
           b == m.regs[w[1].rs2]
<1>r. \A k \in 1 .. 3 : w[k].rd \in RegisterIndex /\ w[k].rs1 \in RegisterIndex
                         /\ w[k].rs2 \in RegisterIndex
  BY RegistersOf
<1>m. IsRegs(m.regs)
  BY MachineIsAt DEF Fetching
<1>1. i.op = Wides[w[1].op][2] /\ i.rd = w[1].rd /\ i.rs1 = w[1].rs1 /\ i.rs2 = w[1].rs2
        /\ i.rs3 = w[2].rd /\ i.len = LengthOf(w, 2)
  BY FusedFields
<1>2. /\ w[1].op \in PairOps /\ w[2].op \in PairOps /\ i.op \in WideOps /\ w[2].op # "NONE"
      /\ WideValue(i.op, a, b) = <<MulDivValue(w[1].op, a, b), MulDivValue(w[2].op, a, b)>>
  <2>1. w[2].op = Wides[w[1].op][1]
    BY DEF RuleWide
  <2>2. w[1].op \in {"MULH", "MULHU", "MULHSU", "DIV", "DIVU"}
    BY DEF Wides, WideProducts, WideQuotients
  <2> HIDE DEF i, a, b
  <2>3. CASE w[1].op = "MULH"
    <3>1. w[2].op = "MUL" /\ i.op = "WIDE_MUL"
      BY <1>1, <2>1, <2>3 DEF Wides, WideProducts, WideQuotients
    <3> QED
      BY <2>3, <3>1 DEF PairOps, WideOps, WideValue, MulDivValue
  <2>4. CASE w[1].op = "MULHU"
    <3>1. w[2].op = "MUL" /\ i.op = "WIDE_MULU"
      BY <1>1, <2>1, <2>4 DEF Wides, WideProducts, WideQuotients
    <3> QED
      BY <2>4, <3>1 DEF PairOps, WideOps, WideValue, MulDivValue
  <2>5. CASE w[1].op = "MULHSU"
    <3>1. w[2].op = "MUL" /\ i.op = "WIDE_MULSU"
      BY <1>1, <2>1, <2>5 DEF Wides, WideProducts, WideQuotients
    <3> QED
      BY <2>5, <3>1 DEF PairOps, WideOps, WideValue, MulDivValue
  <2>6. CASE w[1].op = "DIV"
    <3>1. w[2].op = "REM" /\ i.op = "WIDE_DIV"
      BY <1>1, <2>1, <2>6 DEF Wides, WideProducts, WideQuotients
    <3> QED
      BY <2>6, <3>1 DEF PairOps, WideOps, WideValue, MulDivValue
  <2>7. CASE w[1].op = "DIVU"
    <3>1. w[2].op = "REMU" /\ i.op = "WIDE_DIVU"
      BY <1>1, <2>1, <2>7 DEF Wides, WideProducts, WideQuotients
    <3> QED
      BY <2>7, <3>1 DEF PairOps, WideOps, WideValue, MulDivValue
  <2> QED
    BY <2>2, <2>3, <2>4, <2>5, <2>6, <2>7
<1> HIDE DEF i
<1>3. Run(m, i) = At(WideRegs(m.regs, i), Wrap(m.pc + i.len))
  BY <1>1, <1>2, <1>r, RunFused DEF Fetching
<1>4. r = WithRegister(m.regs, w[1].rd, MulDivValue(w[1].op, a, b)) /\ w[1].op \in ValueOps
        /\ w[2].op \in ValueOps
  BY <1>2, ComputedIs DEF Val
<1>5. IsRegs(r) /\ r[w[1].rs1] = a /\ r[w[1].rs2] = b
  BY <1>4, <1>m, <1>r, WithRegisterIs DEF RuleWide
<1>6. Later[1] = At(r, Wrap(m.pc + w[1].len))
  BY <1>4, LaterOne
<1> HIDE DEF r
<1>7. Later[2] = At(Val(r, w[2]), Wrap(m.pc + LengthOf(w, 2)))
  BY <1>2, <1>4, <1>5, <1>6, LaterTwo
<1>8. Val(r, w[2]) = WithRegister(r, w[2].rd, MulDivValue(w[2].op, a, b))
  BY <1>2, <1>5, ComputedIs DEF Val, RuleWide
<1>9. WideRegs(m.regs, i) = WithRegister(r, w[2].rd, MulDivValue(w[2].op, a, b))
  BY <1>1, <1>2, <1>4 DEF WideRegs
<1> QED
  BY <1>1, <1>3, <1>7, <1>8, <1>9 DEF i

LEMMA FusedAdcs ==
  ASSUME NEW w, Fetching(w), w[1].op = "ADD",
         NEW s, s = Swapped(w[1]), RuleAdcs(s, w[2])
  PROVE  Run(m, Fused(R4type("ADCS", s.rd, s.rs1, s.rs2, w[2].rd), w, 2)) = Later[2]
<1> DEFINE i  == Fused(R4type("ADCS", s.rd, s.rs1, s.rs2, w[2].rd), w, 2)
           r1 == Ran(m.regs, w[1])
           v  == OverflowingAdd(m.regs[s.rs1], m.regs[s.rs2])
<1>1. i.op = "ADCS" /\ i.rd = s.rd /\ i.rs1 = s.rs1 /\ i.rs2 = s.rs2 /\ i.rs3 = w[2].rd
        /\ i.len = LengthOf(w, 2)
  BY FusedFields
<1> HIDE DEF i
<1>2. /\ w[1].rd \in RegisterIndex /\ w[1].rs1 \in RegisterIndex /\ w[1].rs2 \in RegisterIndex
      /\ w[2].rd \in RegisterIndex
  BY RegistersOf
<1>3. /\ s.rd = w[1].rd /\ s.rs1 \in RegisterIndex /\ s.rs2 \in RegisterIndex
      /\ \/ s.rs1 = w[1].rs1 /\ s.rs2 = w[1].rs2
         \/ s.rs1 = w[1].rs2 /\ s.rs2 = w[1].rs1
  <2>1. CASE w[1].rd = w[1].rs1 /\ w[1].rd # w[1].rs2
    <3>1. w[1] = Raw(code, m.pc) /\ Raw(code, m.pc) = code[m.pc] /\ IsRaw(code[m.pc])
      BY DEF Fetching, Window, Raw, CodeIsRaw
    <3>2. s.rd = w[1].rd /\ s.rs1 = w[1].rs2 /\ s.rs2 = w[1].rs1
      BY <2>1, <3>1 DEF Swapped, IsRaw
    <3> QED
      BY <1>2, <3>2
  <2>2. CASE ~(w[1].rd = w[1].rs1 /\ w[1].rd # w[1].rs2)
    BY <1>2, <2>2 DEF Swapped
  <2> QED
    BY <2>1, <2>2
<1>4. Run(m, i) = At(AdcsRegs(m.regs, i), Wrap(m.pc + i.len))
  BY <1>1, <1>2, <1>3, RunFused DEF Fetching
<1>5. Later[2] = At(Ran(r1, w[2]), Wrap(m.pc + LengthOf(w, 2)))
  BY LaterSums DEF RuleAdcs, SumOps, Fetching
<1>6. IsRegs(m.regs)
  BY MachineIsAt DEF Fetching
<1>7. r1 = WithRegister(m.regs, s.rd, v)
  <2>1. m.regs[w[1].rs1] \in Int /\ m.regs[w[1].rs2] \in Int
    BY <1>2, RegistersOf
  <2>2. v = OverflowingAdd(m.regs[w[1].rs1], m.regs[w[1].rs2])
    BY <1>3, <2>1, AddsCommute
  <2> QED
    BY <1>3, <2>2, AluIs DEF Ran, Done
<1> HIDE DEF v
<1>8. r1[s.rd] = v /\ r1[s.rs1] = m.regs[s.rs1]
  BY <1>2, <1>3, <1>6, <1>7, WithRegisterIs DEF RuleAdcs
<1>9. Ran(r1, w[2]) = WithRegister(r1, w[2].rd, Lt(v, m.regs[s.rs1]))
  BY <1>8, AluIs DEF Ran, Done, RuleAdcs
<1> HIDE DEF r1
<1>10. AdcsRegs(m.regs, i) = WithRegister(r1, w[2].rd, Lt(v, m.regs[s.rs1]))
  BY <1>1, <1>7 DEF AdcsRegs, v
<1> QED
  BY <1>1, <1>4, <1>5, <1>9, <1>10 DEF i, r1

LEMMA FusedSbbs ==
  ASSUME NEW w, Fetching(w), w[1].op = "SUB", RuleSbbs(w[1], w[2])
  PROVE  Run(m, Fused(R4type("SBBS", w[1].rd, w[1].rs1, w[1].rs2, w[2].rd), w, 2)) = Later[2]
<1> DEFINE i  == Fused(R4type("SBBS", w[1].rd, w[1].rs1, w[1].rs2, w[2].rd), w, 2)
           r1 == Ran(m.regs, w[1])
<1>1. i.op = "SBBS" /\ i.rd = w[1].rd /\ i.rs1 = w[1].rs1 /\ i.rs2 = w[1].rs2 /\ i.rs3 = w[2].rd
        /\ i.len = LengthOf(w, 2)
  BY FusedFields
<1> HIDE DEF i
<1>2. /\ w[1].rd \in RegisterIndex /\ w[1].rs1 \in RegisterIndex /\ w[1].rs2 \in RegisterIndex
      /\ w[2].rd \in RegisterIndex
  BY RegistersOf
<1>3. Run(m, i) = At(SbbsRegs(m.regs, i), Wrap(m.pc + i.len))
  BY <1>1, <1>2, RunFused DEF Fetching
<1>4. Later[2] = At(Ran(r1, w[2]), Wrap(m.pc + LengthOf(w, 2)))
  BY LaterSums DEF RuleSbbs, SumOps, Fetching
<1>5. IsRegs(m.regs)
  BY MachineIsAt DEF Fetching
<1>6. r1 = Done(m.regs, "SUB", i.rd, i.rs1, i.rs2)
  BY <1>1 DEF Ran
<1>7. r1[w[1].rs1] = m.regs[w[1].rs1] /\ r1[w[1].rs2] = m.regs[w[1].rs2]
  BY <1>2, <1>5, WithRegisterIs DEF Ran, Done, RuleSbbs
<1>8. Ran(r1, w[2]) = WithRegister(r1, w[2].rd, Lt(m.regs[w[1].rs1], m.regs[w[1].rs2]))
  BY <1>7, AluIs DEF Ran, Done, RuleSbbs
<1> HIDE DEF r1
<1>9. SbbsRegs(m.regs, i) = WithRegister(r1, w[2].rd, Lt(m.regs[w[1].rs1], m.regs[w[1].rs2]))
  BY <1>1, <1>6 DEF SbbsRegs
<1> QED
  BY <1>1, <1>3, <1>4, <1>8, <1>9 DEF i, r1

--------------------------------------------------------------------------------
(* An i32 that holds its sum is that sum; one that does not is off by the  *)
(* span of a word.                                                         *)
LEMMA WrappedImmediate ==
  ASSUME NEW x \in Int
  PROVE  /\ IsI32(x) => WrappingI32(x) = x
         /\ x \in 2^(WORD - 1) .. 2^WORD - 1 => WrappingI32(x) = x - 2^WORD
         /\ x \in -(2^WORD) .. -(2^(WORD - 1)) - 1 => WrappingI32(x) = x + 2^WORD
<1> DEFINE H == 2^(WORD - 1)  W == 2^WORD
<1>1. H \in Nat /\ H > 0 /\ W = 2 * H /\ W \in Nat /\ W > 0
  BY WordSizes
<1>2. \A r \in 0 .. W - 1 : SignedLow(r, WORD) = IF r >= H THEN r - W ELSE r
  <2> SUFFICES ASSUME NEW r \in 0 .. W - 1
               PROVE  SignedLow(r, WORD) = IF r >= H THEN r - W ELSE r
    OBVIOUS
  <2> HIDE DEF W, H
  <2>1. r % W = r
    <3>1. (W * 0 + r) % W = r
      BY <1>1, DivisionIsUnique
    <3> QED
      BY <1>1, <3>1
  <2> QED
    BY <1>1, <2>1 DEF SignedLow, W
<1>3. WrappingI32(x + W) = WrappingI32(x)
  <2> HIDE DEF W, H
  <2> DEFINE one == 1
  <2>2. x + W * one = x + W /\ one \in Int
    BY <1>1
  <2> HIDE DEF one
  <2>1. (x + W * one) % W = x % W
    BY <1>1, <2>2, ModOfShift
  <2> QED
    BY <2>1, <2>2 DEF WrappingI32, SignedLow, W
<1> HIDE DEF W, H
<1>4. IsI32(x) = (x \in -H .. H - 1)
  BY DEF IsI32, H
<1>5. ASSUME x \in 0 .. W - 1
      PROVE  WrappingI32(x) = IF x >= H THEN x - W ELSE x
  BY <1>2, <1>5 DEF WrappingI32
<1>6. ASSUME x \in -W .. -1
      PROVE  WrappingI32(x) = IF x + W >= H THEN x ELSE x + W
  <2>1. x + W \in 0 .. W - 1
    BY <1>1, <1>6
  <2>2. WrappingI32(x + W) = IF x + W >= H THEN (x + W) - W ELSE x + W
    BY <1>2, <2>1 DEF WrappingI32
  <2>3. (x + W) - W = x
    BY <1>1
  <2> QED
    BY <1>3, <2>2, <2>3
<1>7. /\ x \in -H .. H - 1 => WrappingI32(x) = x
      /\ x \in H .. W - 1 => WrappingI32(x) = x - W
      /\ x \in -W .. -H - 1 => WrappingI32(x) = x + W
  BY <1>1, <1>5, <1>6
<1> QED
  BY <1>4, <1>7 DEF H, W

(* When the immediates of a far jump overflow an i32, the fused jump goes  *)
(* elsewhere than the two instructions do, and neither goes into memory.   *)
LEMMA FarTargets ==
  ASSUME NEW base \in 0 .. 2^(WORD - 2) - 1, NEW x \in Int,
         x \in -(2^(WORD - 1)) - 2^(WORD - 2) .. 2^(WORD - 1) + 2^(WORD - 2) - 2
  PROVE  LET fused == Even(Wrap(base + WrappingI32(x)))
             apart == Even(Wrap(base + x))
         IN  fused = apart \/ (fused \in Nat /\ fused >= MemSize /\ apart \in Nat /\ apart >= MemSize)
<1> DEFINE Q == 2^(WORD - 2)  N == 2^XLEN
<1>1. /\ Q \in Nat /\ Q >= 4 /\ N \in Nat /\ N >= 16 * Q
      /\ 2^(WORD - 1) = 2 * Q /\ 2^WORD = 4 * Q
  BY WordSizes, Widths
<1>2. MemSize \in 1 .. Q
  BY MachineAssumption
<1> HIDE DEF Q, N
<1>3. ASSUME NEW a \in Int, a \in Q .. N - 1 \/ a \in -(N - Q) .. -1
      PROVE  Even(Wrap(a)) \in Nat /\ Even(Wrap(a)) >= MemSize
  <2>1. Wrap(a) \in Value /\ Wrap(a) >= Q
    <3>1. CASE a \in Q .. N - 1
      <4>1. a \in Value
        BY <1>1, <3>1 DEF Value, N
      <4> QED
        BY <3>1, <4>1, WrapOfSmall
    <3>2. CASE a \in -(N - Q) .. -1
      <4>1. a \in -N .. -1
        BY <1>1, <3>2
      <4>2. Wrap(a) = a + N
        BY <4>1, WrapOfSmall DEF N
      <4> QED
        BY <1>1, <3>2, <4>2 DEF Value, N
    <3> QED
      BY <1>3, <3>1, <3>2
  <2>2. Even(Wrap(a)) \in Nat /\ Even(Wrap(a)) >= Q
    BY <2>1, EvenIsHigh DEF Q
  <2> QED
    BY <1>1, <1>2, <2>2
<1>4. CASE x \in -(2 * Q) .. 2 * Q - 1
  <2>1. IsI32(x)
    BY <1>1, <1>4 DEF IsI32
  <2> QED
    BY <2>1, WrappedImmediate
<1>5. CASE x \in 2 * Q .. 3 * Q - 2
  <2>1. x \in 2^(WORD - 1) .. 2^WORD - 1
    BY <1>1, <1>5
  <2>2. WrappingI32(x) = x - 4 * Q
    BY <1>1, <2>1, WrappedImmediate
  <2>3. base + x \in Int /\ base + x \in Q .. N - 1
    BY <1>1, <1>5 DEF Q
  <2>4. base + (x - 4 * Q) \in Int /\ base + (x - 4 * Q) \in -(N - Q) .. -1
    BY <1>1, <1>5 DEF Q
  <2> QED
    BY <1>3, <2>2, <2>3, <2>4
<1>6. CASE x \in -(3 * Q) .. -(2 * Q) - 1
  <2>1. x \in -(2^WORD) .. -(2^(WORD - 1)) - 1
    BY <1>1, <1>6
  <2>2. WrappingI32(x) = x + 4 * Q
    BY <1>1, <2>1, WrappedImmediate
  <2>3. base + x \in Int /\ base + x \in -(N - Q) .. -1
    BY <1>1, <1>6 DEF Q
  <2>4. base + (x + 4 * Q) \in Int /\ base + (x + 4 * Q) \in Q .. N - 1
    BY <1>1, <1>6 DEF Q
  <2> QED
    BY <1>3, <2>2, <2>3, <2>4
<1>7. x \in -(3 * Q) .. 3 * Q - 2
  BY <1>1 DEF Q
<1> QED
  BY <1>1, <1>4, <1>5, <1>6, <1>7

LEMMA RunFarJump ==
  ASSUME Between(m), NEW i, i.op \in {"FAR_JUMP_REL", "FAR_JUMP_ABS"}
  PROVE  Run(m, i) = At(WithRegister(m.regs, RA, Wrap(m.pc + i.len)),
                        Even(Wrap(IF i.op = "FAR_JUMP_REL" THEN m.pc + i.imm ELSE i.imm)))
<1> DEFINE n == Wrap(m.pc + i.len)
           x == Halfway(m.regs, m.pc, n)
           to == Even(Wrap(IF i.op = "FAR_JUMP_REL" THEN m.pc + i.imm ELSE i.imm))
           new == WithRegister(m.regs, RA, n)
<1>1. m = At(m.regs, m.pc) /\ IsRegs(m.regs)
  BY MachineIsAt
<1>2. RA \in RegisterIndex
  BY MachineAssumption DEF RA, RegisterIndex
<1>3. x.pc = m.pc
  BY DEF Halfway
<1>4. Goto(Set(x, RA, Link(x, i)), to) = Halfway(new, m.pc, to)
  <2>1. Link(x, i) = n
    BY <1>3 DEF Link, OverflowingAdd
  <2> HIDE DEF n, to
  <2>2. Set(x, RA, n) = Halfway(new, m.pc, n)
    BY <1>1, <1>2, SetHalfway
  <2> HIDE DEF new, x
  <2> QED
    BY <2>1, <2>2, GotoHalfway
<1>5. i.op \in FusedOps
  BY DEF FusedOps
<1>6. ExecuteInstruction(x, i) = Goto(Set(x, RA, Link(x, i)), to)
  <2>1. CASE i.op = "FAR_JUMP_REL"
    BY <1>3, <1>5, <2>1, FusedHandler DEF FarJumpRel, OverflowingAdd
  <2>2. CASE i.op = "FAR_JUMP_ABS"
    BY <1>5, <2>2, FusedHandler DEF FarJumpAbs
  <2> QED
    BY <2>1, <2>2
<1>7. ExecuteInstruction(Halfway(m.regs, m.pc, Wrap(m.pc + i.len)), i) = Halfway(new, m.pc, to)
  BY <1>4, <1>6
<1> HIDE DEF new, to, x, n
<1>8. Run(At(m.regs, m.pc), i) = At(new, to)
  BY <1>1, <1>7, RunHalfway
<1> QED
  BY <1>1, <1>8 DEF new, to, n

LEMMA SamePlace ==
  ASSUME NEW regs, NEW p, NEW q,
         p = q \/ (p \in Nat /\ p >= MemSize /\ q \in Nat /\ q >= MemSize)
  PROVE  Observed(At(regs, p)) = Observed(At(regs, q))
<1>1. ASSUME NEW r
      PROVE  Observed(At(regs, r)) = Halfway(regs, IF r < MemSize THEN r ELSE MemSize, 0)
  <2> DEFINE x == At(regs, r)
             v == IF r < MemSize THEN r ELSE MemSize
  <2>1. x.pc = r
    BY DEF At, Halfway
  <2>2. Observed(x) = [x EXCEPT !.pc = v, !.next_pc = 0]
    BY <2>1 DEF Observed
  <2> HIDE DEF v
  <2>3. [x EXCEPT !.pc = v, !.next_pc = 0] = Halfway(regs, v, 0)
    <3>1. x = [regs |-> regs, pc |-> r, next_pc |-> r, err |-> m.err, lr |-> m.lr, mem |-> m.mem]
      BY DEF At, Halfway
    <3> HIDE DEF x
    <3>2. [x EXCEPT !.pc = v] = Halfway(regs, v, r)
      BY <3>1 DEF Halfway
    <3>3. [Halfway(regs, v, r) EXCEPT !.next_pc = 0] = Halfway(regs, v, 0)
      BY DEF Halfway
    <3>4. [x EXCEPT !.pc = v, !.next_pc = 0] = [[x EXCEPT !.pc = v] EXCEPT !.next_pc = 0]
      OBVIOUS
    <3> QED
      BY <3>2, <3>3, <3>4
  <2> HIDE DEF x
  <2> QED
    BY <2>2, <2>3 DEF v, x
<1> QED
  BY <1>1, MachineAssumption

LEMMA WrittenTwice ==
  ASSUME NEW regs, IsRegs(regs), NEW r \in RegisterIndex, NEW u, NEW v
  PROVE  WithRegister(WithRegister(regs, r, u), r, v) = WithRegister(regs, r, v)
  BY DEF WithRegister, IsRegs

(* A jump relative to the pc, or to zero, through RA.                      *)
Base(i) == IF i.op = "LUI" THEN 0 ELSE m.pc

LEMMA LaterBase ==
  ASSUME NEW w, Fetching(w), w[1].op \in {"LUI", "AUIPC"}
  PROVE  /\ Base(w[1]) \in 0 .. 2^(WORD - 2) - 1
         /\ Later[1] = At(WithRegister(m.regs, w[1].rd, Wrap(Base(w[1]) + w[1].imm)),
                          Wrap(m.pc + w[1].len))
         /\ IsI32(w[1].imm)
<1>1. w[1].imm \in Int
  BY WindowInts
<1>2. Base(w[1]) + w[1].imm = IF w[1].op = "LUI" THEN w[1].imm ELSE m.pc + w[1].imm
  BY <1>1 DEF Base
<1>3. m.pc \in 0 .. 2^(WORD - 2) - 1 /\ 0 \in 0 .. 2^(WORD - 2) - 1
  <2>1. m.pc \in 0 .. MemSize - 1
    BY DEF Fetching, CodeFits, Addr
  <2> QED
    BY <2>1, MachineAssumption, WordSizes
<1>4. IsI32(w[1].imm)
  <2>1. w[1] = Raw(code, m.pc) /\ Raw(code, m.pc) = code[m.pc] /\ IsRaw(code[m.pc])
    BY DEF Fetching, Window, Raw, CodeIsRaw
  <2> QED
    BY <2>1 DEF IsRaw
<1>5. Base(w[1]) \in 0 .. 2^(WORD - 2) - 1
  BY <1>3 DEF Base
<1>6. CASE w[1].op = "LUI"
  BY <1>2, <1>4, <1>5, <1>6, LaterOne
<1>7. CASE w[1].op = "AUIPC"
  BY <1>2, <1>4, <1>5, <1>7, LaterOne
<1> QED
  BY <1>6, <1>7

LEMMA FusedFarJump ==
  ASSUME NEW w, Fetching(w), w[1].op \in {"LUI", "AUIPC"}, w[1].rd = RA,
         w[2].op = "JALR_VERSION1", w[2].rs1 = RA, w[2].rd = RA,
         NEW op, op = IF w[1].op = "LUI" THEN "FAR_JUMP_ABS" ELSE "FAR_JUMP_REL"
  PROVE  Observed(Run(m, Fused(Utype(op, RA, WrappingI32(w[1].imm + w[2].imm)), w, 2)))
           = Observed(Later[2])
<1> DEFINE b   == Base(w[1])
           sum == WrappingI32(w[1].imm + w[2].imm)
           i   == Fused(Utype(op, RA, sum), w, 2)
           n   == Wrap(m.pc + LengthOf(w, 2))
           old == Wrap(b + w[1].imm)
           r1  == WithRegister(m.regs, RA, old)
           new == WithRegister(m.regs, RA, n)
           x   == w[1].imm + w[2].imm
<1>1. w[1].imm \in Int /\ w[2].imm \in Int /\ b \in Int /\ b \in 0 .. 2^(WORD - 2) - 1
  BY LaterBase, WindowInts, WordSizes
<1>2. IsRegs(m.regs) /\ RA \in RegisterIndex /\ RA # ZERO
  BY MachineIsAt, MachineAssumption DEF Fetching, RA, ZERO, RegisterIndex
<1>3. i.op = op /\ i.imm = sum /\ i.len = LengthOf(w, 2)
  BY FusedFields
<1>4. Run(m, i) = At(new, Even(Wrap(b + sum)))
  <2> HIDE DEF i, sum
  <2>1. Run(m, i) = At(WithRegister(m.regs, RA, Wrap(m.pc + i.len)),
                       Even(Wrap(IF i.op = "FAR_JUMP_REL" THEN m.pc + i.imm ELSE i.imm)))
    BY <1>3, RunFarJump DEF Fetching
  <2>2. (IF i.op = "FAR_JUMP_REL" THEN m.pc + i.imm ELSE i.imm) = b + sum
    <3>1. sum \in Int
      <4>1. x \in Int /\ WORD \in 0 .. XLEN
        BY <1>1, Widths
      <4> HIDE DEF x
      <4>2. WrappingI32(x) \in Int
        BY <4>1, NarrowIn DEF WrappingI32
      <4> QED
        BY <4>2 DEF sum, x
    <3> QED
      BY <1>3, <3>1 DEF Base
  <2> QED
    BY <1>3, <2>1, <2>2
<1> HIDE DEF i
<1>5. Later[1] = At(r1, Wrap(m.pc + w[1].len)) /\ IsRegs(r1) /\ r1[RA] = old
  BY <1>2, LaterBase, WithRegisterIs
<1>6. WithRegister(r1, RA, n) = new
  BY <1>2, WrittenTwice
<1> HIDE DEF r1, new
<1>7. Later[2] = At(new, Even(Wrap(old + w[2].imm)))
  BY <1>5, <1>6, LaterTwo
<1>8. Wrap(old + w[2].imm) = Wrap(b + x)
  <2>1. b + w[1].imm \in Int /\ (b + w[1].imm) + w[2].imm = b + x
    BY <1>1
  <2> QED
    BY <1>1, <2>1, WrapOfSum
<1> DEFINE p == Even(Wrap(b + sum))  q == Even(Wrap(b + x))
<1>9. p = q \/ (p \in Nat /\ p >= MemSize /\ q \in Nat /\ q >= MemSize)
  <2>1. w[2].imm \in ShortImmediate
    <3>1. w[2] = Raw(code, m.pc + w[1].len)
      BY DEF Window, Fetching
    <3>2. IsRaw(w[2])
      BY <3>1, Followed DEF Fetching
    <3> QED
      BY <3>2 DEF IsRaw
  <2>2. IsI32(w[1].imm)
    BY LaterBase
  <2>3. x \in Int /\ x \in -(2^(WORD - 1)) - 2^(WORD - 2) .. 2^(WORD - 1) + 2^(WORD - 2) - 2
    <3> DEFINE Q == 2^(WORD - 2)  H == 2^(WORD - 1)
    <3>1. Q \in Nat /\ H = 2 * Q
      BY WordSizes
    <3>2. w[1].imm \in -H .. H - 1 /\ w[2].imm \in -Q .. Q - 1
      BY <2>1, <2>2 DEF IsI32, ShortImmediate
    <3> HIDE DEF Q, H
    <3>3. x \in Int /\ x \in -H - Q .. H + Q - 2
      BY <1>1, <3>1, <3>2
    <3> QED
      BY <3>3 DEF Q, H
  <2> HIDE DEF b, x
  <2>4. sum = WrappingI32(x)
    BY DEF x
  <2> HIDE DEF sum
  <2> QED
    BY <1>1, <2>3, <2>4, FarTargets
<1> HIDE DEF p, q
<1>10. Observed(At(new, p)) = Observed(At(new, q))
  BY <1>9, SamePlace
<1> QED
  BY <1>4, <1>7, <1>8, <1>10 DEF p, q, i

(* A constant in two parts, and a distance from the pc.                    *)
LEMMA FusedConstant ==
  ASSUME NEW w, Fetching(w), w[1].op \in {"LUI", "AUIPC"},
         w[2].rs1 = w[1].rd, w[2].rd = w[1].rd, w[2].op \in {"ADDI", "ADDIW"},
         NEW imm \in Int,
         ImmediateValue(w[2].op, Wrap(Base(w[1]) + w[1].imm), w[2].imm) = Wrap(imm)
  PROVE  Run(m, Fused(Utype("CUSTOM_LOAD_IMM", w[1].rd, imm), w, 2)) = Later[2]
<1> DEFINE i   == Fused(Utype("CUSTOM_LOAD_IMM", w[1].rd, imm), w, 2)
           old == Wrap(Base(w[1]) + w[1].imm)
           r1  == WithRegister(m.regs, w[1].rd, old)
           n   == Wrap(m.pc + LengthOf(w, 2))
<1>1. i.op = "CUSTOM_LOAD_IMM" /\ i.rd = w[1].rd /\ i.imm = imm /\ i.len = LengthOf(w, 2)
        /\ i.rs1 = 0 /\ i.rs2 = 0 /\ i.rs3 = 0
  BY DEF Fused, Utype, Instruction
<1> HIDE DEF i
<1>2. w[1].rd \in RegisterIndex /\ IsRegs(m.regs) /\ 0 \in RegisterIndex
  BY RegistersOf, MachineIsAt, FreshIsRegister DEF Fetching, ZERO
<1>3. Run(m, i) = At(WithRegister(m.regs, w[1].rd, Wrap(imm)), n)
  BY <1>1, <1>2, RunFused DEF Fetching
<1>4. Later[1] = At(r1, Wrap(m.pc + w[1].len)) /\ IsRegs(r1)
  BY <1>2, LaterBase, WithRegisterIs
<1>5. w[1].rd # ZERO => r1[w[1].rd] = old
  BY <1>2, WithRegisterIs
<1>6. \A v : WithRegister(r1, w[1].rd, v) = WithRegister(m.regs, w[1].rd, v)
  BY <1>2, WrittenTwice
<1>7. \A v : w[1].rd = ZERO => WithRegister(r1, w[1].rd, v) = WithRegister(r1, w[1].rd, Wrap(imm))
  BY DEF WithRegister
<1> HIDE DEF r1, n
<1>8. Later[2] = At(Val(r1, w[2]), n)
  <2>1. w[2].op \in ValueOps /\ w[2].op # "NONE"
    BY ComputedIs
  <2> QED
    BY <1>4, <2>1, LaterTwo DEF n
<1>9. Val(r1, w[2]) = WithRegister(r1, w[1].rd, ImmediateValue(w[2].op, r1[w[1].rd], w[2].imm))
  BY ComputedIs DEF Val
<1>10. Val(r1, w[2]) = WithRegister(r1, w[1].rd, Wrap(imm))
  BY <1>5, <1>7, <1>9
<1> QED
  BY <1>3, <1>6, <1>8, <1>10 DEF i

--------------------------------------------------------------------------------
(* What an instruction does is what one to five do that are not fused.     *)
IsSequence(i) == \E k \in 1 .. 5 : Observed(Run(m, i)) = Observed(Later[k])

LEMMA FirstIsSequence ==
  ASSUME NEW w, Fetching(w)
  PROVE  IsSequence(w[1])
<1>1. Run(m, w[1]) = Later[1]
  BY RegistersOf
<1> QED
  BY <1>1 DEF IsSequence

LEMMA AddIsSequence ==
  ASSUME NEW w, Fetching(w), w[1].op = "ADD"
  PROVE  IsSequence(DecodeAdd(w, version))
<1> DEFINE s == Swapped(w[1])
<1>1. ASSUME NEW i, NEW k \in 1 .. 5, Run(m, i) = Later[k]
      PROVE  IsSequence(i)
  BY <1>1 DEF IsSequence
<1>2. RuleAdc(w[1], w[2], w[3], w[4], w[5]) =>
        IsSequence(Fused(Rtype("ADC", w[1].rd, w[2].rd, w[4].rd), w, 5))
  BY <1>1, FusedAdc
<1>3. /\ RuleAdd3a(w[1], w[2], w[3]) =>
           IsSequence(Fused(R5type("ADD3A", w[1].rd, w[1].rs1, w[2].rd, w[3].rd, w[3].rs2), w, 3))
      /\ RuleAdd3b(w[1], w[2], w[3]) =>
           IsSequence(Fused(R5type("ADD3B", w[1].rd, w[1].rs1, w[1].rs2, w[3].rd, w[3].rs2), w, 3))
      /\ RuleAdd3c(w[1], w[2], w[3]) =>
           IsSequence(Fused(R5type("ADD3C", w[1].rd, w[1].rs1, w[1].rs2, w[2].rd, w[3].rs2), w, 3))
  BY <1>1, FusedAdd3
<1>4. RuleAdcs(s, w[2]) =>
        IsSequence(Fused(R4type("ADCS", s.rd, s.rs1, s.rs2, w[2].rd), w, 2))
  <2> HIDE DEF s
  <2> QED
    BY <1>1, FusedAdcs DEF s
<1>5. IsSequence(w[1])
  BY FirstIsSequence
<1> QED
  BY <1>2, <1>3, <1>4, <1>5, Zenon DEF DecodeAdd

LEMMA SubIsSequence ==
  ASSUME NEW w, Fetching(w), w[1].op = "SUB", NoUncheckedBorrow
  PROVE  IsSequence(DecodeSub(w, version))
<1>1. ASSUME NEW i, NEW k \in 1 .. 5, Run(m, i) = Later[k]
      PROVE  IsSequence(i)
  BY <1>1 DEF IsSequence
<1>2. RuleSbb(w[1], w[2], w[3], w[4], w[5]) =>
        IsSequence(Fused(R4type("SBB", w[1].rs1, w[1].rs2, w[3].rs2, w[2].rd), w, 5))
  <2> SUFFICES ASSUME RuleSbb(w[1], w[2], w[3], w[4], w[5])
               PROVE  IsSequence(Fused(R4type("SBB", w[1].rs1, w[1].rs2, w[3].rs2, w[2].rd), w, 5))
    OBVIOUS
  <2>1. w[2].rs2 = w[1].rs2
    BY DEF NoUncheckedBorrow, Fetching
  <2> QED
    BY <1>1, <2>1, FusedSbb
<1>3. RuleSbbs(w[1], w[2]) =>
        IsSequence(Fused(R4type("SBBS", w[1].rd, w[1].rs1, w[1].rs2, w[2].rd), w, 2))
  BY <1>1, FusedSbbs
<1>4. IsSequence(w[1])
  BY FirstIsSequence
<1> QED
  BY <1>2, <1>3, <1>4, Zenon DEF DecodeSub

LEMMA WideIsSequence ==
  ASSUME NEW w, Fetching(w), w[1].op \in DOMAIN Wides
  PROVE  IsSequence(DecodeWide(w))
<1>1. ASSUME NEW i, NEW k \in 1 .. 5, Run(m, i) = Later[k]
      PROVE  IsSequence(i)
  BY <1>1 DEF IsSequence
<1>2. RuleWide(w[1], w[2]) =>
        IsSequence(Fused(R4type(Wides[w[1].op][2], w[1].rd, w[1].rs1, w[1].rs2, w[2].rd), w, 2))
  BY <1>1, FusedWide
<1>3. IsSequence(w[1])
  BY FirstIsSequence
<1> QED
  BY <1>2, <1>3, Zenon DEF DecodeWide

LEMMA LuiIsSequence ==
  ASSUME NEW w, Fetching(w), w[1].op = "LUI", RuleFarJump(w[1], w[2], version) => w[1].rd = RA
  PROVE  IsSequence(DecodeLui(w, version))
<1> DEFINE x == w[1].imm + w[2].imm
<1>1. RuleFarJump(w[1], w[2], version) =>
        IsSequence(Fused(Utype("FAR_JUMP_ABS", RA, WrappingI32(x)), w, 2))
  BY FusedFarJump DEF RuleFarJump, IsSequence
<1>2. RuleLuiAddiw(w[1], w[2]) =>
        IsSequence(Fused(Utype("CUSTOM_LOAD_IMM", w[1].rd, WrappingI32(x)), w, 2))
  <2> SUFFICES ASSUME RuleLuiAddiw(w[1], w[2])
               PROVE  IsSequence(Fused(Utype("CUSTOM_LOAD_IMM", w[1].rd, WrappingI32(x)), w, 2))
    OBVIOUS
  <2>1. w[1].imm \in Int /\ w[2].imm \in Int /\ x \in Int
    BY WindowInts
  <2>2. WrappingI32(x) \in Int
    <3>1. WORD \in 0 .. XLEN
      BY Widths
    <3> HIDE DEF x
    <3> QED
      BY <2>1, <3>1, NarrowIn DEF WrappingI32
  <2>3. ImmediateValue("ADDIW", Wrap(Base(w[1]) + w[1].imm), w[2].imm) = Wrap(WrappingI32(x))
    <3>1. Base(w[1]) + w[1].imm = w[1].imm
      BY <2>1 DEF Base
    <3>2. \A a, b : ImmediateValue("ADDIW", a, b) = Wrap(SignedLow(Wrap(a + b), WORD))
      BY DEF ImmediateValue, SextW, SignExtend, OverflowingAdd
    <3>3. Wrap(Wrap(w[1].imm) + w[2].imm) = Wrap(x)
      BY <2>1, WrapOfSum
    <3>4. SignedLow(Wrap(x), WORD) = SignedLow(x, WORD)
      <4> HIDE DEF x
      <4> QED
        BY <2>1, WordOfWrap
    <3> QED
      BY <3>1, <3>2, <3>3, <3>4 DEF WrappingI32
  <2>4. w[2].op = "ADDIW" /\ w[2].rs1 = w[1].rd /\ w[2].rd = w[1].rd
    BY DEF RuleLuiAddiw
  <2> HIDE DEF x
  <2>5. Run(m, Fused(Utype("CUSTOM_LOAD_IMM", w[1].rd, WrappingI32(x)), w, 2)) = Later[2]
    BY <2>2, <2>3, <2>4, FusedConstant
  <2> QED
    BY <2>5 DEF IsSequence
<1>3. IsSequence(w[1])
  BY FirstIsSequence
<1> QED
  BY <1>1, <1>2, <1>3, Zenon DEF DecodeLui

LEMMA AuipcIsSequence ==
  ASSUME NEW w, Fetching(w), w[1].op = "AUIPC",
         RuleAuipcJalr(w[1], w[2], version) => w[1].rd = RA
  PROVE  IsSequence(DecodeAuipc(w, m.pc, version))
<1> DEFINE x == w[1].imm + w[2].imm
<1>1. RuleAuipcJalr(w[1], w[2], version) =>
        IsSequence(Fused(Utype("FAR_JUMP_REL", RA, WrappingI32(x)), w, 2))
  BY FusedFarJump DEF RuleAuipcJalr, RuleFarJump, IsSequence
<1>2. RuleAuipcAddi(w[1], w[2], m.pc, version) =>
        IsSequence(Fused(Utype("CUSTOM_LOAD_IMM", w[1].rd, WrappingI32(x) + m.pc), w, 2))
  <2> SUFFICES ASSUME RuleAuipcAddi(w[1], w[2], m.pc, version)
               PROVE  IsSequence(Fused(Utype("CUSTOM_LOAD_IMM", w[1].rd, WrappingI32(x) + m.pc), w, 2))
    OBVIOUS
  <2>1. w[1].imm \in Int /\ w[2].imm \in Int /\ x \in Int /\ m.pc \in Int
    BY WindowInts
  <2>2. WrappingI32(x) = x
    <3>1. IsI32(x)
      BY DEF RuleAuipcAddi
    <3> HIDE DEF x
    <3> QED
      BY <2>1, <3>1, WrappedImmediate
  <2>3. ImmediateValue("ADDI", Wrap(Base(w[1]) + w[1].imm), w[2].imm) = Wrap(x + m.pc)
    <3>1. Base(w[1]) = m.pc
      BY DEF Base
    <3>2. \A a, b : ImmediateValue("ADDI", a, b) = Wrap(a + b)
      BY DEF ImmediateValue, OverflowingAdd
    <3>3. m.pc + w[1].imm \in Int /\ (m.pc + w[1].imm) + w[2].imm = x + m.pc
      BY <2>1
    <3>4. Wrap(Wrap(m.pc + w[1].imm) + w[2].imm) = Wrap((m.pc + w[1].imm) + w[2].imm)
      BY <2>1, <3>3, WrapOfSum
    <3> QED
      BY <3>1, <3>2, <3>3, <3>4
  <2>4. w[2].op = "ADDI" /\ w[2].rs1 = w[1].rd /\ w[2].rd = w[1].rd
    BY DEF RuleAuipcAddi
  <2>5. x + m.pc \in Int
    BY <2>1
  <2> HIDE DEF x
  <2>6. Run(m, Fused(Utype("CUSTOM_LOAD_IMM", w[1].rd, x + m.pc), w, 2)) = Later[2]
    BY <2>3, <2>4, <2>5, FusedConstant
  <2> QED
    BY <2>2, <2>6 DEF IsSequence
<1>3. IsSequence(w[1])
  BY FirstIsSequence
<1> QED
  BY <1>1, <1>2, <1>3, Zenon DEF DecodeAuipc

LEMMA DecodedIsSequence ==
  ASSUME NEW w, Fetching(w), NoUncheckedBorrow, ~LosesItsRegister
  PROVE  IsSequence(Decoded)
<1>1. CASE version = 0
  <2>1. Decoded = w[1]
    BY <1>1 DEF Decoded, Fetching, Window
  <2> QED
    BY <2>1, FirstIsSequence
<1>2. CASE version # 0
  <2>0. Decoded = DecodeMop(code, m.pc, version) /\ w = Window(code, m.pc)
    BY <1>2 DEF Decoded, Fetching
  <2>h. w[1] = code[m.pc]
    BY DEF Fetching, Window, Raw
  <2>o. "LUI" \notin DOMAIN Wides /\ "AUIPC" \notin DOMAIN Wides
    BY DEF Wides, WideProducts, WideQuotients
  <2>1. w[1].op = "LUI" => IsSequence(DecodeLui(w, version))
    <3> SUFFICES ASSUME w[1].op = "LUI" PROVE IsSequence(DecodeLui(w, version))
      OBVIOUS
    <3>1. RuleFarJump(w[1], w[2], version) => w[1].rd = RA
      <4> SUFFICES ASSUME RuleFarJump(w[1], w[2], version), w[1].rd # RA PROVE FALSE
        OBVIOUS
      <4>0. ~RuleLuiAddiw(w[1], w[2])
        BY DEF RuleFarJump, RuleLuiAddiw
      <4>1. Decoded = DecodeLui(w, version)
        BY <2>0, <2>o DEF DecodeMop
      <4>2. DecodeLui(w, version) = Fused(Utype("FAR_JUMP_ABS", RA, WrappingI32(w[1].imm + w[2].imm)), w, 2)
        BY <4>0 DEF DecodeLui
      <4>3. Decoded.op = "FAR_JUMP_ABS"
        BY <4>1, <4>2, FusedFields
      <4>4. version < 2
        BY DEF RuleFarJump, Fetching, CodeFits
      <4> QED
        BY <2>h, <4>3, <4>4 DEF LosesItsRegister
    <3> QED
      BY <3>1, LuiIsSequence
  <2>2. w[1].op = "AUIPC" => IsSequence(DecodeAuipc(w, m.pc, version))
    <3> SUFFICES ASSUME w[1].op = "AUIPC" PROVE IsSequence(DecodeAuipc(w, m.pc, version))
      OBVIOUS
    <3>1. RuleAuipcJalr(w[1], w[2], version) => w[1].rd = RA
      <4> SUFFICES ASSUME RuleAuipcJalr(w[1], w[2], version), w[1].rd # RA PROVE FALSE
        OBVIOUS
      <4>0. ~RuleAuipcAddi(w[1], w[2], m.pc, version)
        BY DEF RuleAuipcJalr, RuleFarJump, RuleAuipcAddi
      <4>1. Decoded = DecodeAuipc(w, m.pc, version)
        BY <2>0, <2>o DEF DecodeMop
      <4>2. DecodeAuipc(w, m.pc, version)
              = Fused(Utype("FAR_JUMP_REL", RA, WrappingI32(w[1].imm + w[2].imm)), w, 2)
        BY <4>0 DEF DecodeAuipc
      <4>3. Decoded.op = "FAR_JUMP_REL"
        BY <4>1, <4>2, FusedFields
      <4>4. version < 2
        BY DEF RuleAuipcJalr, RuleFarJump, Fetching, CodeFits
      <4> QED
        BY <2>h, <4>3, <4>4 DEF LosesItsRegister
    <3> QED
      BY <3>1, AuipcIsSequence
  <2>3. /\ w[1].op = "ADD" => IsSequence(DecodeAdd(w, version))
        /\ w[1].op = "SUB" => IsSequence(DecodeSub(w, version))
        /\ w[1].op \in DOMAIN Wides => IsSequence(DecodeWide(w))
        /\ IsSequence(w[1])
    BY AddIsSequence, SubIsSequence, WideIsSequence, FirstIsSequence
  <2>4. IsSequence(DecodeMop(code, m.pc, version))
    BY <2>0, <2>1, <2>2, <2>3, Zenon DEF DecodeMop
  <2> QED
    BY <2>0, <2>4
<1> QED
  BY <1>1, <1>2

LEMMA InitCodeFits == Init => CodeFits
  BY ProgramsAssumption DEF Init, CodeFits

(* Fusing instructions changes nothing but the number of steps, in every   *)
(* program but those that reach the check fusion_sbb does not make and the *)
(* far jumps of old versions that lose a register (decode_mop).            *)
THEOREM FusingChangesNothing == Spec /\ NoUncheckedBorrow => FusedAsSequence
<1>1. WellTyped(m) /\ Between(m) /\ CodeIsRaw /\ CodeFits /\ NoUncheckedBorrow /\ [Next]_vars
        => [m.pc \in DOMAIN code /\ ~LosesItsRegister =>
              \E k \in 1 .. 5 : Observed(m') = Observed(Later[k])]_vars
  <2> SUFFICES ASSUME WellTyped(m), Between(m), CodeIsRaw, CodeFits, NoUncheckedBorrow, Step,
                      m.pc \in DOMAIN code, ~LosesItsRegister
               PROVE  \E k \in 1 .. 5 : Observed(m') = Observed(Later[k])
    BY DEF Next
  <2>1. m' = Run(m, Decoded)
    BY DEF Step
  <2>2. Fetching(Window(code, m.pc))
    BY DEF Fetching
  <2>3. IsSequence(Decoded)
    BY <2>2, DecodedIsSequence
  <2> QED
    BY <2>1, <2>3 DEF IsSequence
<1>2. CodeFits /\ NoUncheckedBorrow /\ [Next]_vars => CodeFits' /\ NoUncheckedBorrow'
  BY DEF CodeFits, NoUncheckedBorrow, Next, Step, vars
<1> QED
  BY <1>1, <1>2, InitTyped, StepKeepsTyped, InitBetween, StepKeepsBetween, InitCodeIsRaw,
     InitCodeFits, PTL DEF Spec, FusedAsSequence

(* The operands of an instruction are values.                              *)
LEMMA OperandsIn ==
  ASSUME WellTyped(m), CodeIsRaw
  PROVE  Operand1 \in Value /\ Operand2 \in Value
  BY RawSound DEF Operand1, Operand2, WellTyped, Sound

--------------------------------------------------------------------------------
(* Quotients and remainders that a register, or a word of it, holds.       *)
LEMMA TruncatedDivides ==
  ASSUME NEW k \in 0 .. XLEN, NEW x \in Int, NEW y \in Int, y # 0,
         -(2^k) <= 2 * x, 2 * x < 2^k
  PROVE  Divides(x, y, SignedLow(TruncatedQ(x, y), k), SignedLow(TruncatedR(x, y), k), k)
<1> DEFINE Q == TruncatedQ(x, y)  R == TruncatedR(x, y)  n == 2^k
           q == SignedLow(Q, k)   r == SignedLow(R, k)
<1>1. n \in Nat /\ n > 0
  BY Powers
<1>2. /\ Q \in Int /\ R \in Int /\ Q * y + R = x
      /\ Magnitude(R) < Magnitude(y) /\ (R # 0 => Sign(R) = Sign(x))
      /\ -Magnitude(x) <= R /\ R <= Magnitude(x)
      /\ x >= 0 => R >= 0
      /\ x < 0 => R <= 0
  BY TruncatedIs
<1> HIDE DEF Q, R
<1>3. r = R
  <2>1. -n <= 2 * R /\ 2 * R < n
    BY <1>1, <1>2 DEF Magnitude, Sign
  <2> QED
    BY <1>2, <2>1, LowOfSmall
<1>4. PICK j \in Int : q = Q + n * j
  BY <1>2, LowIs
<1> HIDE DEF n, q, r
<1>5. q * y + R = x + n * (j * y) /\ j * y \in Int
  <2>1. q * y = Q * y + n * (j * y)
    BY <1>1, <1>2, <1>4
  <2>2. Q * y \in Int /\ n * (j * y) \in Int /\ j * y \in Int
    BY <1>1, <1>2
  <2> QED
    BY <1>1, <1>2, <2>1, <2>2
<1>6. (x + n * (j * y)) % n = x % n
  BY <1>1, <1>5, ModOfShift
<1> QED
  BY <1>2, <1>3, <1>5, <1>6 DEF Divides, n, Q, R, q, r

LEMMA UnsignedDivides ==
  ASSUME NEW k, NEW x \in Nat, NEW y \in Nat, y # 0
  PROVE  Divides(x, y, x \div y, x % y, k)
<1> DEFINE q == x \div y  r == x % y
<1>1. q \in Int /\ r \in 0 .. y - 1 /\ x = y * q + r
  BY ModIn
<1> HIDE DEF q, r
<1>2. q * y + r = x
  BY <1>1
<1>3. Magnitude(r) < Magnitude(y) /\ Sign(r) = Sign(x)
  BY <1>1 DEF Magnitude, Sign
<1> QED
  BY <1>2, <1>3 DEF Divides, q, r

LEMMA ZeroDivides ==
  ASSUME NEW k \in 0 .. XLEN, NEW x \in Int
  PROVE  Divides(x, 0, -1, x, k) /\ Divides(x, 0, 2^k - 1, x, k)
<1> DEFINE n == 2^k  zero == 0
           one == 1
<1>1. /\ n \in Nat /\ n > 0 /\ zero \in Int /\ one \in Int /\ zero \in 0 .. n - 1
      /\ -1 + 1 = zero /\ (n - 1) + 1 = n
  BY Powers
<1>2. n * zero + zero = zero /\ n * one + zero = n
  BY <1>1
<1>3. 0 % n = 0 /\ n % n = 0
  <2> HIDE DEF n, zero, one
  <2>1. (n * zero + zero) % n = zero /\ (n * one + zero) % n = zero
    BY <1>1, DivisionIsUnique
  <2> QED
    BY <1>2, <2>1 DEF zero
<1> QED
  BY <1>1, <1>3 DEF Divides

(* DIV and REM, at a dividend and a divisor that fit k bits.               *)
LEMMA SignedQuotients ==
  ASSUME NEW a \in Value, NEW b \in Value
  PROVE  Divides(Signed(a), Signed(b), Signed(OverflowingDivSigned(a, b)),
                 Signed(OverflowingRemSigned(a, b)), XLEN)
<1> DEFINE x == Signed(a)  y == Signed(b)  N == 2^XLEN  h == 2^(XLEN - 1)
<1>0. XLEN \in 0 .. XLEN /\ N \in Nat /\ N > 0 /\ h \in Nat /\ h > 1 /\ N = h + h
  <2>1. XLEN \in 0 .. XLEN /\ XLEN - 1 \in 0 .. XLEN - 1 /\ (XLEN - 1) + 1 = XLEN
         /\ XLEN - 1 \in 0 .. XLEN /\ 1 \in 0 .. XLEN - 1
    BY Widths
  <2>2. N = h + h
    BY <2>1, Powers
  <2>3. N > 4
    BY Widths, WordSizes
  <2> QED
    BY <2>1, <2>2, <2>3, Powers
<1>1. a \in 0 .. N - 1 /\ b \in 0 .. N - 1
  BY DEF Value
<1>2. /\ x \in Int /\ -N <= 2 * x /\ 2 * x < N
      /\ y \in Int /\ -N <= 2 * y /\ 2 * y < N
  <2>1. a \in Int /\ b \in Int
    BY ValuesAreInts
  <2> QED
    BY <1>0, <2>1, LowIs DEF Signed
<1>3. Wrap(x) = a /\ Wrap(y) = b
  <2> SUFFICES ASSUME NEW c \in Value PROVE Wrap(Signed(c)) = c
    OBVIOUS
  <2>1. c % N = c
    BY WrapOfSmall, ValuesAreInts DEF Wrap
  <2>2. c \in 0 .. N - 1 /\ c \in Int
    BY DEF Value
  <2>3. Signed(c) \in {c, c - N}
    BY <1>0, <2>1, <2>2 DEF Signed, SignedLow
  <2>4. CASE Signed(c) = c
    BY <2>1, <2>4 DEF Wrap
  <2>5. CASE Signed(c) = c - N
    <3> DEFINE minus == -1
    <3>1. minus \in Int /\ c + N * minus = c - N
      BY <1>0, <2>2
    <3> HIDE DEF minus, N
    <3>2. (c + N * minus) % N = c % N
      BY <1>0, <2>2, <3>1, ModOfShift
    <3> QED
      BY <2>1, <2>5, <3>1, <3>2 DEF Wrap, N
  <2> QED
    BY <2>3, <2>4, <2>5
<1>4. b = 0 <=> y = 0
  <2>1. b = 0 => y = 0
    BY <1>0 DEF Signed, SignedLow
  <2>2. 0 \in Value
    BY FlagsIn
  <2>3. y = 0 => b = 0
    BY <1>3, <2>2, WrapOfSmall
  <2> QED
    BY <2>1, <2>3
<1>5. CASE b = 0
  <2>0. ~Overflows(a, b)
    BY <1>4, <1>5 DEF Overflows
  <2>1. OverflowingDivSigned(a, b) = Wrap(-1) /\ OverflowingRemSigned(a, b) = a
    BY <1>5, <2>0, Zenon DEF OverflowingDivSigned, OverflowingRemSigned
  <2>2. Signed(Wrap(-1)) = -1
    <3> DEFINE minus == -1
    <3>1. minus \in Int /\ -N <= 2 * minus /\ 2 * minus < N
      BY <1>0
    <3> HIDE DEF minus, N
    <3>2. SignedLow(Wrap(minus), XLEN) = minus
      BY <1>0, <3>1, LowOfSmall DEF N
    <3> QED
      BY <3>2 DEF minus, Signed
  <2> QED
    BY <1>0, <1>2, <1>4, <1>5, <2>1, <2>2, ZeroDivides
<1>6. CASE b # 0 /\ Overflows(a, b)
  <2>1. OverflowingDivSigned(a, b) = Wrap(-h) /\ OverflowingRemSigned(a, b) = 0
    BY <1>6 DEF OverflowingDivSigned, OverflowingRemSigned
  <2>2. x = -h /\ y = -1
    BY <1>6 DEF Overflows
  <2>3. Signed(OverflowingDivSigned(a, b)) = x
    BY <1>0, <1>2, <2>1, <2>2, LowOfSmall DEF Signed
  <2>4. Signed(0) = 0
    <3> DEFINE zero == 0
    <3>1. zero \in Int /\ -N <= 2 * zero /\ 2 * zero < N
      BY <1>0
    <3> HIDE DEF zero, N
    <3>2. SignedLow(zero, XLEN) = zero
      BY <1>0, <3>1, LowOfSmall DEF N
    <3> QED
      BY <3>2 DEF zero, Signed
  <2>5. (x * y + 0) % N = x % N
    <3> DEFINE one == 1
    <3>1. one \in Int /\ x * y + 0 = x + N * one
      BY <1>0, <2>2
    <3> HIDE DEF x, y, N, one
    <3>2. (x + N * one) % N = x % N
      BY <1>0, <1>2, <3>1, ModOfShift
    <3> QED
      BY <3>1, <3>2
  <2>6. Magnitude(0) < Magnitude(y)
    BY <2>2 DEF Magnitude, Sign
  <2> QED
    BY <2>1, <2>2, <2>3, <2>4, <2>5, <2>6 DEF Divides
<1>7. CASE b # 0 /\ ~Overflows(a, b)
  <2>1. /\ OverflowingDivSigned(a, b) = Wrap(TruncatedQ(x, y))
        /\ OverflowingRemSigned(a, b) = Wrap(TruncatedR(x, y))
    BY <1>7 DEF OverflowingDivSigned, OverflowingRemSigned
  <2>2. y # 0
    BY <1>4, <1>7
  <2>3. TruncatedQ(x, y) \in Int /\ TruncatedR(x, y) \in Int
    BY <1>2, <2>2, TruncatedIs
  <2>4. /\ Signed(Wrap(TruncatedQ(x, y))) = SignedLow(TruncatedQ(x, y), XLEN)
        /\ Signed(Wrap(TruncatedR(x, y))) = SignedLow(TruncatedR(x, y), XLEN)
    BY <1>0, <2>3, LowOfWrap DEF Signed
  <2> HIDE DEF x, y, N
  <2>5. Divides(x, y, SignedLow(TruncatedQ(x, y), XLEN), SignedLow(TruncatedR(x, y), XLEN), XLEN)
    BY <1>0, <1>2, <2>2, TruncatedDivides DEF N
  <2> QED
    BY <2>1, <2>4, <2>5 DEF x, y
<1> QED
  BY <1>5, <1>6, <1>7

(* DIVW and REMW take and leave words; no quotient of them overflows a     *)
(* register.                                                               *)
LEMMA WordQuotients ==
  ASSUME NEW a \in Value, NEW b \in Value
  PROVE  Divides(SignedLow(a, WORD), SignedLow(b, WORD),
                 Signed(SextW(OverflowingDivSigned(SextW(a), SextW(b)))),
                 Signed(SextW(OverflowingRemSigned(SextW(a), SextW(b)))), WORD)
<1> DEFINE x == SignedLow(a, WORD)  y == SignedLow(b, WORD)  W == 2^WORD
           sa == SextW(a)  sb == SextW(b)
<1>0. a \in Int /\ b \in Int /\ WORD \in 0 .. XLEN /\ XLEN \in 0 .. XLEN
  BY Widths, ValuesAreInts
<1>1. /\ Signed(sa) = x /\ Signed(sb) = y
      /\ SignedLow(sa, WORD) = x /\ sa \in Value /\ sb \in Value
  BY <1>0, WordIs, NarrowIn
<1>2. /\ x \in Int /\ -W <= 2 * x /\ 2 * x < W
      /\ y \in Int /\ -W <= 2 * y /\ 2 * y < W
  BY <1>0, LowIs
<1>3. y = 0 <=> sb = 0
  <2>1. sb = Wrap(y)
    BY DEF SextW, SignExtend
  <2>2. y = 0 => sb = 0
    BY <2>1, WrapOfSmall, FlagsIn
  <2>3. sb = 0 => y = 0
    <3>1. WORD \in 0 .. XLEN /\ 2^XLEN \in Nat /\ 2^XLEN > 0 /\ 0 % 2^XLEN = 0
      BY Widths, Powers, WrapOfSmall, FlagsIn DEF Wrap
    <3> QED
      BY <1>1, <3>1 DEF Signed, SignedLow
  <2> QED
    BY <2>2, <2>3
<1>4. ~Overflows(sa, sb)
  <2> DEFINE h == 2^(XLEN - 1)
  <2>1. h \in Nat /\ 2^XLEN = h + h
    <3>1. XLEN - 1 \in 0 .. XLEN - 1 /\ (XLEN - 1) + 1 = XLEN /\ XLEN - 1 \in 0 .. XLEN
      BY Widths
    <3> QED
      BY <3>1, Powers
  <2>2. W \in Nat /\ W > 0 /\ 2^XLEN >= 4 * W
    BY Widths, WordSizes
  <2>3. x # -h
    BY <1>2, <2>1, <2>2
  <2> QED
    BY <1>1, <2>3 DEF Overflows
<1> HIDE DEF sa, sb
<1>5. CASE sb = 0
  <2>1. OverflowingDivSigned(sa, sb) = Wrap(-1) /\ OverflowingRemSigned(sa, sb) = sa
    BY <1>4, <1>5, Zenon DEF OverflowingDivSigned, OverflowingRemSigned
  <2>2. Signed(SextW(sa)) = x
    BY <1>1, WordIs, ValuesAreInts
  <2>3. Signed(SextW(Wrap(-1))) = -1
    <3> DEFINE minus == -1
    <3>1. minus \in Int /\ -W <= 2 * minus /\ 2 * minus < W
      BY WordSizes
    <3> HIDE DEF minus, W
    <3>2. SignedLow(Wrap(minus), WORD) = minus
      BY <1>0, <3>1, LowOfSmall DEF W
    <3>3. Wrap(minus) \in Int
      BY <3>1, WrapIn, ValuesAreInts
    <3>4. Signed(SextW(Wrap(minus))) = minus
      BY <3>2, <3>3, WordIs
    <3> QED
      BY <3>4 DEF minus
  <2>4. Divides(x, 0, -1, x, WORD)
    BY <1>0, <1>2, ZeroDivides
  <2> QED
    BY <1>3, <1>5, <2>1, <2>2, <2>3, <2>4 DEF sa, sb
<1>6. CASE sb # 0
  <2>1. /\ OverflowingDivSigned(sa, sb) = Wrap(TruncatedQ(x, y))
        /\ OverflowingRemSigned(sa, sb) = Wrap(TruncatedR(x, y))
    BY <1>1, <1>4, <1>6, Zenon DEF OverflowingDivSigned, OverflowingRemSigned
  <2>2. y # 0
    BY <1>3, <1>6
  <2> HIDE DEF x, y, W
  <2>3. TruncatedQ(x, y) \in Int /\ TruncatedR(x, y) \in Int
    BY <1>2, <2>2, TruncatedIs
  <2>4. ASSUME NEW z \in Int PROVE Signed(SextW(Wrap(z))) = SignedLow(z, WORD)
    BY <1>0, WordIs, WrapIn, ValuesAreInts, LowOfWrap
  <2>5. Divides(x, y, SignedLow(TruncatedQ(x, y), WORD), SignedLow(TruncatedR(x, y), WORD), WORD)
    BY <1>0, <1>2, <2>2, TruncatedDivides DEF W
  <2> QED
    BY <2>1, <2>3, <2>4, <2>5 DEF sa, sb, x, y
<1> QED
  BY <1>5, <1>6

(* DIVU and REMU, and their word forms.                                    *)
LEMMA UnsignedQuotients ==
  ASSUME NEW a \in Value, NEW b \in Value
  PROVE  /\ Divides(a, b, OverflowingDiv(a, b), OverflowingRem(a, b), XLEN)
         /\ Divides(ZextW(a), ZextW(b), ZextW(SextW(OverflowingDiv(ZextW(a), ZextW(b)))),
                    ZextW(SextW(OverflowingRem(ZextW(a), ZextW(b)))), WORD)
<1> DEFINE N == 2^XLEN  W == 2^WORD
<1>0. /\ WORD \in 0 .. XLEN /\ XLEN \in 0 .. XLEN /\ a \in Int /\ b \in Int
      /\ N \in Nat /\ N = W * W /\ W \in Nat /\ W > 0
  BY Widths, ValuesAreInts, Powers
<1>1. Divides(a, b, OverflowingDiv(a, b), OverflowingRem(a, b), XLEN)
  <2>1. CASE b = 0
    BY <1>0, <2>1, ZeroDivides DEF OverflowingDiv, OverflowingRem
  <2>2. CASE b # 0
    <3>1. a \in Nat /\ b \in Nat
      BY DEF Value
    <3> QED
      BY <2>2, <3>1, UnsignedDivides DEF OverflowingDiv, OverflowingRem
  <2> QED
    BY <2>1, <2>2
<1> DEFINE x == ZextW(a)  y == ZextW(b)
<1>2. x \in 0 .. W - 1 /\ y \in 0 .. W - 1
  BY <1>0, ModIn DEF ZextW, ZeroExtend
<1>3. ASSUME NEW z \in 0 .. W - 1 PROVE ZextW(SextW(z)) = z
  <2>1. ZextW(SextW(z)) = ZextW(z)
    BY WordIs
  <2> DEFINE zero == 0
  <2>2. zero \in Int /\ W * zero + z = z
    BY <1>0
  <2> HIDE DEF zero, W
  <2>3. (W * zero + z) % W = z
    BY <1>0, <1>3, <2>2, DivisionIsUnique
  <2> QED
    BY <2>1, <2>2, <2>3 DEF ZextW, ZeroExtend, W
<1>4. Divides(x, y, ZextW(SextW(OverflowingDiv(x, y))), ZextW(SextW(OverflowingRem(x, y))), WORD)
  <2> HIDE DEF x, y
  <2>1. CASE y = 0
    <3>1. OverflowingDiv(x, y) = N - 1 /\ OverflowingRem(x, y) = x
      BY <2>1 DEF OverflowingDiv, OverflowingRem
    <3>2. ZextW(SextW(N - 1)) = W - 1
      <4> DEFINE v == W - 1
      <4> HIDE DEF N, W
      <4>1. N - 1 \in Int /\ v \in Int /\ v \in 0 .. W - 1 /\ N - 1 = W * v + v
        BY <1>0 DEF v
      <4> HIDE DEF v
      <4>2. (W * v + v) % W = v
        BY <1>0, <4>1, DivisionIsUnique
      <4>3. ZextW(SextW(N - 1)) = ZextW(N - 1)
        BY <4>1, WordIs
      <4> QED
        BY <4>1, <4>2, <4>3 DEF ZextW, ZeroExtend, v, W
    <3> QED
      BY <1>0, <1>2, <1>3, <2>1, <3>1, <3>2, ZeroDivides
  <2>2. CASE y # 0
    <3>1. OverflowingDiv(x, y) = x \div y /\ OverflowingRem(x, y) = x % y
      BY <2>2 DEF OverflowingDiv, OverflowingRem
    <3>2. x \in Nat /\ y \in Nat /\ y > 0
      BY <1>2, <2>2
    <3>3. x \div y \in 0 .. W - 1 /\ x % y \in 0 .. W - 1
      BY <1>0, <1>2, <3>2, DivBelow
    <3>4. ZextW(SextW(x \div y)) = x \div y /\ ZextW(SextW(x % y)) = x % y
      BY <1>3, <3>3
    <3> QED
      BY <2>2, <3>1, <3>2, <3>4, UnsignedDivides
  <2> QED
    BY <2>1, <2>2
<1> QED
  BY <1>1, <1>4

LEMMA QuotientsAgree ==
  ASSUME WellTyped(m), CodeIsRaw
  PROVE  QuotientAndRemainder
<1> DEFINE a == Operand1  b == Operand2
<1>1. a \in Value /\ b \in Value
  BY OperandsIn
<1>2. /\ Result("DIV") = OverflowingDivSigned(a, b) /\ Result("REM") = OverflowingRemSigned(a, b)
      /\ Result("DIVU") = OverflowingDiv(a, b) /\ Result("REMU") = OverflowingRem(a, b)
      /\ Result("DIVW") = SextW(OverflowingDivSigned(SextW(a), SextW(b)))
      /\ Result("REMW") = SextW(OverflowingRemSigned(SextW(a), SextW(b)))
      /\ Result("DIVUW") = SextW(OverflowingDiv(ZextW(a), ZextW(b)))
      /\ Result("REMUW") = SextW(OverflowingRem(ZextW(a), ZextW(b)))
  <2>1. ASSUME NEW op \in MulDivOps PROVE Result(op) = MulDivValue(op, a, b)
    BY ComputedByFamily DEF Result
  <2>2. {"DIV", "REM", "DIVU", "REMU", "DIVW", "REMW", "DIVUW", "REMUW"} \subseteq MulDivOps
    BY DEF MulDivOps
  <2> HIDE DEF a, b
  <2> QED
    BY <2>1, <2>2 DEF MulDivValue
<1> HIDE DEF a, b
<1> QED
  BY <1>1, <1>2, SignedQuotients, WordQuotients, UnsignedQuotients DEF QuotientAndRemainder, a, b

(* Division and remainder agree at every width, for every dividend and     *)
(* divisor, zero and overflow included (register.rs, execute.rs).          *)
THEOREM DivisionsAgree == Spec => []QuotientAndRemainder
<1>1. Spec => [](WellTyped(m) /\ CodeIsRaw)
  BY InitTyped, StepKeepsTyped, InitCodeIsRaw, PTL DEF Spec
<1>2. WellTyped(m) /\ CodeIsRaw => QuotientAndRemainder
  BY QuotientsAgree
<1> QED
  BY <1>1, <1>2, PTL

LEMMA ProductsAre ==
  ASSUME WellTyped(m), CodeIsRaw
  PROVE  ProductHalves
<1> DEFINE a == Operand1  b == Operand2  op == Raw(code, m.pc).op
<1>1. a \in Value /\ b \in Value
  BY OperandsIn
<1>2. /\ Result("MUL") = OverflowingMul(a, b) /\ Result("MULH") = MulHighSigned(a, b)
      /\ Result("MULHSU") = MulHighSignedUnsigned(a, b) /\ Result("MULHU") = MulHighUnsigned(a, b)
  <2>1. ASSUME NEW o \in MulDivOps PROVE Result(o) = MulDivValue(o, a, b)
    BY ComputedByFamily DEF Result
  <2>2. {"MUL", "MULH", "MULHSU", "MULHU"} \subseteq MulDivOps
    BY DEF MulDivOps
  <2> HIDE DEF a, b
  <2> QED
    BY <2>1, <2>2 DEF MulDivValue
<1>3. Result("CLMUL") = Clmul(a, b) /\ Result("CLMULH") = Clmulh(a, b) /\ Result("CLMULR") = Clmulr(a, b)
  <2>1. ASSUME NEW o \in SingleBitOps PROVE Result(o) = SingleBitValue(o, a, b)
    BY ComputedByFamily DEF Result
  <2>2. {"CLMUL", "CLMULH", "CLMULR"} \subseteq SingleBitOps
    BY DEF SingleBitOps
  <2> HIDE DEF a, b
  <2> QED
    BY <2>1, <2>2 DEF SingleBitValue
<1> HIDE DEF a, b
<1>4. /\ Signed(Result("MULH")) * 2^XLEN + Result("MUL") = Signed(a) * Signed(b)
      /\ Signed(Result("MULHSU")) * 2^XLEN + Result("MUL") = Signed(a) * b
      /\ Wrap(Result("MULHU") - Result("MULHSU")) = IF Signed(a) < 0 THEN b ELSE 0
  BY <1>1, <1>2, HalvesOfProduct
<1>5. /\ Result("CLMULR") = BitOr(Shl(Result("CLMULH"), 1), Shr(Result("CLMUL"), XLEN - 1))
      /\ Result("CLMUL") = Clmul(b, a) /\ Result("CLMULH") = Clmulh(b, a)
  BY <1>3, ClmulIs, ClmulrIs
<1> QED
  BY <1>4, <1>5 DEF ProductHalves, a, b

(* The products of two registers are pieces of one product, at every       *)
(* width and for all operands (register.rs, execute.rs).                   *)
THEOREM ProductsAgree == Spec => []ProductHalves
<1>1. Spec => [](WellTyped(m) /\ CodeIsRaw)
  BY InitTyped, StepKeepsTyped, InitCodeIsRaw, PTL DEF Spec
<1>2. WellTyped(m) /\ CodeIsRaw => ProductHalves
  BY ProductsAre
<1> QED
  BY <1>1, <1>2, PTL

LEMMA BitsObey ==
  ASSUME WellTyped(m), CodeIsRaw
  PROVE  BitLaws
<1> DEFINE a == Operand1  b == Operand2  i == Raw(code, m.pc)
<1>1. a \in Value /\ b \in Value /\ Sound(i)
  BY OperandsIn, RawSound
<1>2. /\ a \in Int /\ b \in Int /\ b % XLEN \in Int /\ b % WORD \in Int
      /\ i.imm \in Int /\ (i.op \in ShiftImmediateOps => i.imm \in 0 .. XLEN - 1)
  BY <1>1, ValuesAreInts, AmountsIn DEF Sound
<1>3. /\ \A x, y : ComputedValue("ROR", x, y, 0) = Ror(x, y % XLEN)
      /\ \A x, y : ComputedValue("RORW", x, y, 0) = SextW(Ror(Twins(x), y % WORD))
      /\ \A x, y : ComputedValue("ROLW", x, y, 0) = SextW(Rol(Twins(x), y % WORD))
  <2>1. "ROR" \in RotateOps /\ "RORW" \in RotateOps /\ "ROLW" \in RotateOps
    BY DEF RotateOps
  <2>2. \A op \in RotateOps : \A x, y : ComputedValue(op, x, y, 0) = RotateValue(op, x, y)
    BY ComputedByFamily
  <2>3. \A x, y : /\ RotateValue("ROR", x, y) = Ror(x, y % XLEN)
                  /\ RotateValue("RORW", x, y) = SextW(Ror(Twins(x), y % WORD))
                  /\ RotateValue("ROLW", x, y) = SextW(Rol(Twins(x), y % WORD))
    BY DEF RotateValue
  <2> QED
    BY <2>1, <2>2, <2>3
<1>4. /\ \A x, y : ComputedValue("ROL", x, y, 0) = Rol(x, y % XLEN)
      /\ \A x, y : ComputedValue("REV8", x, y, 0) = Rev8(x)
      /\ \A x, y : ComputedValue("CPOP", x, y, 0) = Cpop(x)
      /\ \A x, y : ComputedValue("CLZ", x, y, 0) = Clz(x)
      /\ \A x, y : ComputedValue("CTZ", x, y, 0) = Ctz(x)
      /\ \A x, y : ComputedValue("CLZW", x, y, 0) = Clz(ZextW(x)) - WORD
      /\ \A x, y : ComputedValue("CTZW", x, y, 0) = Ctz(BitOr(x, 2^XLEN - 2^WORD))
  <2>1. {"ROL", "REV8", "CPOP", "CLZ", "CTZ", "CLZW", "CTZW"} \subseteq CountOps
    BY DEF CountOps
  <2>2. \A op \in CountOps : \A x, y : ComputedValue(op, x, y, 0) = CountValue(op, x, y)
    BY ComputedByFamily
  <2>3. \A x, y : /\ CountValue("ROL", x, y) = Rol(x, y % XLEN)
                  /\ CountValue("REV8", x, y) = Rev8(x)
                  /\ CountValue("CPOP", x, y) = Cpop(x)
                  /\ CountValue("CLZ", x, y) = Clz(x)
                  /\ CountValue("CTZ", x, y) = Ctz(x)
                  /\ CountValue("CLZW", x, y) = Clz(ZextW(x)) - WORD
                  /\ CountValue("CTZW", x, y) = Ctz(BitOr(x, 2^XLEN - 2^WORD))
    BY DEF CountValue
  <2> QED
    BY <2>1, <2>2, <2>3
<1>5. i.op \in WordOps =>
        LET v == ComputedValue(i.op, a, b, i.imm) IN v = SextW(v)
  BY <1>1, <1>2, WordsAreExtended
<1> HIDE DEF a, b, i
<1>6. /\ ComputedValue("ROR", Result("ROL"), b, 0) = a
      /\ ComputedValue("RORW", Result("ROLW"), b, 0) = SextW(a)
  <2>1. Result("ROL") = Rol(a, b % XLEN) /\ Result("ROLW") = SextW(Rol(Twins(a), b % WORD))
    BY <1>3, <1>4 DEF Result, a, b
  <2>2. Ror(Rol(a, b % XLEN), b % XLEN) = a
    BY <1>1, <1>2, TurnsBack
  <2>3. SextW(Ror(Twins(SextW(Rol(Twins(a), b % WORD))), b % WORD)) = SextW(a)
    BY <1>1, <1>2, WordTurnsBack
  <2> QED
    BY <1>3, <2>1, <2>2, <2>3
<1>7. /\ Result("REV8") = Rev8(a) /\ Result("CPOP") = Cpop(a)
      /\ Result("CLZ") = Clz(a) /\ Result("CTZ") = Ctz(a)
      /\ Result("CLZW") = Clz(ZextW(a)) - WORD /\ Result("CTZW") = Ctz(BitOr(a, 2^XLEN - 2^WORD))
  BY <1>4 DEF Result, a, b
<1>8. Rev8(Result("REV8")) = a /\ Result("CPOP") + Cpop(Complement(a)) = XLEN
  BY <1>1, <1>7, BytesTurnBack, OnesAndZeros
<1>9. /\ a # 0 => a \in 2^(XLEN - 1 - Result("CLZ")) .. 2^(XLEN - Result("CLZ")) - 1
      /\ a # 0 => a % 2^Result("CTZ") = 0 /\ (a \div 2^Result("CTZ")) % 2 = 1
  BY <1>1, <1>7, HighestBit, LowestBit
<1>10. /\ ZextW(a) # 0 => Result("CTZW") = Result("CTZ")
       /\ ZextW(a) # 0 => Result("CLZW") = ComputedValue("CLZ", Shl(a, WORD), 0, 0)
  BY <1>1, <1>4, <1>7, WordCounts
<1> QED
  BY <1>5, <1>6, <1>8, <1>9, <1>10 DEF BitLaws, WordOps, a, b, i

(* Counts, rotations and the instructions on words do what their names say *)
(* at every width and for all operands (register.rs, execute.rs).          *)
THEOREM BitLawsHold == Spec => []BitLaws
<1>1. Spec => [](WellTyped(m) /\ CodeIsRaw)
  BY InitTyped, StepKeepsTyped, InitCodeIsRaw, PTL DEF Spec
<1>2. WellTyped(m) /\ CodeIsRaw => BitLaws
  BY BitsObey
<1> QED
  BY <1>1, <1>2, PTL

--------------------------------------------------------------------------------
(* The instructions of a program follow one another from its pc on.        *)
PlaceOf(insts, pc, k) == pc + SumFunctionOnSet([j \in DOMAIN insts |-> insts[j].len], 1 .. k - 1)

LEMMA PlacesFollow ==
  ASSUME NEW insts, NEW n \in Nat, NEW pc \in Nat, DOMAIN insts = 1 .. n,
         \A k \in 1 .. n : insts[k].len \in Nat
  PROVE  \A j, k \in 1 .. n :
           /\ PlaceOf(insts, pc, j) \in Nat /\ PlaceOf(insts, pc, j) >= pc
           /\ j < k => PlaceOf(insts, pc, j) + insts[j].len <= PlaceOf(insts, pc, k)
<1> DEFINE f == [j \in DOMAIN insts |-> insts[j].len]
           T == 1 .. n
           Total(k) == SumFunctionOnSet(f, 1 .. k - 1)
<1>1. IsFiniteSet(T) /\ \A k \in T : f[k] = insts[k].len /\ f[k] \in Nat
  <2>1. \A k \in T : f[k] = insts[k].len /\ f[k] \in Nat
    OBVIOUS
  <2>2. 1 \in Int /\ n \in Int
    OBVIOUS
  <2>3. IsFiniteSet(T)
    BY <2>2, FS_Interval
  <2> QED
    BY <2>1, <2>3
<1>2. \A k \in T : PlaceOf(insts, pc, k) = pc + Total(k)
  BY DEF PlaceOf
<1> HIDE DEF f
<1>3. \A k \in T : Total(k) \in Nat
  <2> TAKE k \in T
  <2>1. 1 .. k - 1 \in SUBSET T
    OBVIOUS
  <2> HIDE DEF T
  <2> QED
    BY <1>1, <2>1, SumInNat
<1>4. ASSUME NEW k \in T, k + 1 \in T
      PROVE  Total(k + 1) = f[k] + Total(k)
  <2>1. /\ 1 .. (k + 1) - 1 \in SUBSET T /\ k \in 1 .. (k + 1) - 1
        /\ (1 .. (k + 1) - 1) \ {k} = 1 .. k - 1
    OBVIOUS
  <2> DEFINE U == 1 .. (k + 1) - 1
  <2> HIDE DEF T, U
  <2>n. \A x \in T : f[x] \in Nat
    BY <1>1
  <2>s. \A S \in SUBSET T : \A x \in S :
          SumFunctionOnSet(f, S) = f[x] + SumFunctionOnSet(f, S \ {x})
    BY <1>1, <2>n, SumRemove, Zenon
  <2>2. SumFunctionOnSet(f, U) = f[k] + SumFunctionOnSet(f, U \ {k})
    BY <2>1, <2>s DEF U
  <2> QED
    BY <2>1, <2>2 DEF U
<1> HIDE DEF Total
<1>5. ASSUME NEW j \in T, NEW k \in T, j < k
      PROVE  Total(j + 1) <= Total(k)
  <2> DEFINE d == k - j - 1
             S == {e \in 0 .. d : Total(j + 1) <= Total(j + 1 + e)}
  <2>1. d \in Nat /\ j + 1 + d = k /\ j + 1 + 0 = j + 1 /\ j + 1 \in T
    BY <1>5
  <2>2. 0 \in S
    BY <1>3, <2>1
  <2>3. ASSUME NEW e \in 0 .. d - 1, e \in S
        PROVE  e + 1 \in S
    <3>1. j + 1 + e \in T /\ j + 1 + (e + 1) = (j + 1 + e) + 1 /\ (j + 1 + e) + 1 \in T /\ e + 1 \in 0 .. d
      BY <2>1
    <3>2. Total((j + 1 + e) + 1) = f[j + 1 + e] + Total(j + 1 + e)
      BY <1>4, <3>1
    <3>3. Total(j + 1) <= Total(j + 1 + e)
      BY <2>3
    <3>4. Total(j + 1) \in Nat /\ Total(j + 1 + e) \in Nat /\ f[j + 1 + e] \in Nat
      BY <1>1, <1>3, <2>1, <3>1
    <3>5. Total(j + 1) <= Total(j + 1 + (e + 1))
      BY <3>1, <3>2, <3>3, <3>4
    <3> QED
      BY <3>1, <3>5
  <2> HIDE DEF S
  <2>4. 0 .. d \subseteq S
    BY <2>1, <2>2, <2>3, UpTo
  <2>5. d \in S
    BY <2>1, <2>4
  <2> QED
    BY <2>1, <2>5 DEF S
<1> SUFFICES ASSUME NEW j \in T, NEW k \in T
             PROVE  /\ PlaceOf(insts, pc, j) \in Nat /\ PlaceOf(insts, pc, j) >= pc
                    /\ j < k => PlaceOf(insts, pc, j) + insts[j].len <= PlaceOf(insts, pc, k)
  OBVIOUS
<1>6. Total(j) \in Nat /\ Total(k) \in Nat /\ f[j] = insts[j].len /\ f[j] \in Nat
  BY <1>1, <1>3
<1>7. j < k => j + 1 \in T
  OBVIOUS
<1>8. j < k => f[j] + Total(j) <= Total(k)
  BY <1>4, <1>5, <1>7
<1>9. PlaceOf(insts, pc, j) = pc + Total(j) /\ PlaceOf(insts, pc, k) = pc + Total(k)
  BY <1>2
<1> HIDE DEF T
<1> QED
  BY <1>6, <1>8, <1>9

(* No instruction of the code overlaps the next.                           *)
InOrder == \A a, b \in DOMAIN code : a < b => a + code[a].len <= b

LEMMA PlacedInOrder ==
  ASSUME NEW insts, NEW n \in Nat, NEW pc \in Nat, DOMAIN insts = 1 .. n,
         \A k \in 1 .. n : IsRaw(insts[k])
  PROVE  LET c == Placed(insts, pc)
         IN  /\ \A a \in DOMAIN c : a >= pc
             /\ \A a, b \in DOMAIN c : a < b => a + c[a].len <= b
<1> DEFINE c == Placed(insts, pc)
           Pos(k) == PlaceOf(insts, pc, k)
           K(a) == CHOOSE k \in DOMAIN insts : Pos(k) = a
<1>0. \A k \in 1 .. n : insts[k].len \in Nat
  BY DEF IsRaw
<1>1. c = [a \in {Pos(k) : k \in DOMAIN insts} |-> insts[K(a)]]
  BY DEF Placed, PlaceOf
<1>2. \A j, k \in 1 .. n :
        Pos(j) \in Nat /\ Pos(j) >= pc /\ (j < k => Pos(j) + insts[j].len <= Pos(k))
  BY <1>0, PlacesFollow
<1> HIDE DEF Pos, c
<1>3. \A a \in DOMAIN c : c[a] = insts[K(a)] /\ K(a) \in 1 .. n /\ Pos(K(a)) = a
  BY <1>1
<1> HIDE DEF K
<1>4. ASSUME NEW a \in DOMAIN c, NEW b \in DOMAIN c, a < b
      PROVE  a + c[a].len <= b
  <2> DEFINE j == K(a)  k == K(b)
  <2>1. /\ c[a] = insts[j] /\ j \in 1 .. n /\ Pos(j) = a /\ k \in 1 .. n /\ Pos(k) = b
        /\ insts[k].len \in Nat /\ insts[j].len \in Nat
    BY <1>0, <1>3
  <2> HIDE DEF j, k
  <2>2. a \in Nat /\ b \in Nat /\ (j < k => a + insts[j].len <= b) /\ (k < j => b + insts[k].len <= a)
    BY <1>2, <2>1
  <2>3. ~(k < j)
    BY <1>4, <2>1, <2>2
  <2>4. k # j
    BY <1>4, <2>1, <2>2
  <2> QED
    BY <2>1, <2>2, <2>3, <2>4
<1>5. \A a \in DOMAIN c : a >= pc
  BY <1>2, <1>3
<1> QED
  BY <1>4, <1>5 DEF c

--------------------------------------------------------------------------------
(* The bytes of a sum are the ones it was made of.                         *)
LEMMA ByteOfSum ==
  ASSUME NEW n \in 1 .. 8, NEW d, \A k \in 0 .. n - 1 : d[k] \in 0 .. 2^BYTE - 1,
         NEW f, \A k \in 0 .. n - 1 : f[k] = d[k] * 2^(BYTE * k), NEW j \in 0 .. n - 1
  PROVE  (SumFunctionOnSet(f, 0 .. n - 1) \div 2^(BYTE * j)) % 2^BYTE = d[j]
<1> DEFINE T == 0 .. n - 1
           p(k) == 2^(BYTE * k)
           b == 2^BYTE
           Total(k) == SumFunctionOnSet(f, 0 .. k - 1)
<1>1. b \in Nat /\ b > 0
  BY Powers, Widths
<1>2. \A k \in 0 .. 8 : p(k) \in Nat /\ p(k) > 0
  BY ByteShift
<1>3. \A k \in 0 .. 7 : \A e \in 0 .. 8 - k : p(k + e) = p(k) * p(e)
  <2> TAKE k \in 0 .. 7
  <2> TAKE e \in 0 .. 8 - k
  <2>1. /\ BYTE * k \in Nat /\ BYTE * e \in Nat /\ BYTE * k + BYTE * e = BYTE * (k + e)
        /\ BYTE * (k + e) <= XLEN
    BY Widths
  <2>2. 2^(BYTE * k + BYTE * e) = 2^(BYTE * k) * 2^(BYTE * e)
    BY <2>1, PowersAdd
  <2> QED
    BY <2>1, <2>2
<1>4. p(0) = 1 /\ p(1) = b
  <2>1. BYTE * 0 = 0 /\ BYTE * 1 = BYTE
    BY Widths
  <2> QED
    BY <2>1, Powers
<1>5. \A k \in T : f[k] = d[k] * p(k) /\ d[k] \in 0 .. b - 1
  OBVIOUS
<1> HIDE DEF p, b
<1>6. \A k \in T : p(k + 1) = p(k) * b
  <2> TAKE k \in T
  <2>1. p(k + 1) = p(k) * p(1)
    BY <1>3
  <2> QED
    BY <1>4, <2>1
<1>7. \A k \in T : f[k] \in Nat /\ f[k] + p(k) <= p(k + 1)
  <2> TAKE k \in T
  <2> DEFINE x == d[k]  y == p(k)
  <2>1. x \in 0 .. b - 1 /\ y \in Nat /\ f[k] = x * y /\ p(k + 1) = y * b
    BY <1>2, <1>5, <1>6
  <2> HIDE DEF x, y
  <2>2. x * y \in Nat /\ x * y <= (b - 1) * y
    BY <1>1, <2>1
  <2>3. (b - 1) * y = y * b - y
    BY <1>1, <2>1
  <2> QED
    BY <1>1, <2>1, <2>2, <2>3 DEF y
<1>8. IsFiniteSet(T) /\ \A k \in T : f[k] \in Nat
  BY <1>7, FS_Interval
<1>9. \A k \in 0 .. n : Total(k) \in Nat
  <2>1. \A S \in SUBSET T : SumFunctionOnSet(f, S) \in Nat
    <3> HIDE DEF T
    <3> QED
      BY <1>8, SumInNat, Zenon
  <2>2. \A k \in 0 .. n : 0 .. k - 1 \in SUBSET T
    OBVIOUS
  <2> HIDE DEF T
  <2> QED
    BY <2>1, <2>2
<1>10. ASSUME NEW k \in T PROVE Total(k + 1) = f[k] + Total(k)
  <2> DEFINE U == 0 .. (k + 1) - 1
  <2>1. U \in SUBSET T /\ k \in U /\ U \ {k} = 0 .. k - 1
    OBVIOUS
  <2> HIDE DEF T, U
  <2>2. \A S \in SUBSET T : \A x \in S :
          SumFunctionOnSet(f, S) = f[x] + SumFunctionOnSet(f, S \ {x})
    BY <1>8, SumRemove, Zenon
  <2>3. SumFunctionOnSet(f, U) = f[k] + SumFunctionOnSet(f, U \ {k})
    BY <2>1, <2>2
  <2> QED
    BY <2>1, <2>3 DEF U
<1>11. Total(j) \in 0 .. p(j) - 1
  <2> DEFINE g == [k \in 0 .. 8 |-> p(k)]
  <2>1. \A k \in 0 .. j - 1 : f[k] \in Nat /\ f[k] + g[k] <= g[k + 1]
    BY <1>7
  <2>2. j \in Nat /\ g[0] = 1 /\ g[j] = p(j) /\ \A k \in 0 .. j : g[k] \in Nat
    BY <1>2, <1>4
  <2> HIDE DEF g
  <2>3. \A S \in SUBSET (0 .. j - 1) :
          SumFunctionOnSet(f, S) \in Nat /\ SumFunctionOnSet(f, S) + g[0] <= g[j]
    BY <2>1, <2>2, SumBelow
  <2>4. Total(j) \in Nat /\ Total(j) + g[0] <= g[j]
    BY <2>3
  <2> HIDE DEF Total
  <2> QED
    BY <1>2, <2>2, <2>4
<1> HIDE DEF Total
<1> DEFINE S == {e \in 0 .. n - 1 - j :
                   \E q \in Nat : Total(j + 1 + e) = Total(j) + p(j) * (d[j] + b * q)}
<1>12. 0 \in S
  <2>1. Total(j + 1) = d[j] * p(j) + Total(j)
    BY <1>5, <1>10
  <2>2. d[j] \in Nat /\ p(j) \in Nat /\ Total(j) \in Nat
    BY <1>1, <1>2, <1>5, <1>9
  <2>3. d[j] * p(j) = p(j) * (d[j] + b * 0)
    BY <1>1, <2>2
  <2>4. Total(j + 1 + 0) = Total(j) + p(j) * (d[j] + b * 0)
    BY <2>1, <2>2, <2>3
  <2> QED
    BY <2>4
<1>13. ASSUME NEW e \in 0 .. n - 1 - j - 1, e \in S
       PROVE  e + 1 \in S
  <2>1. PICK q \in Nat : Total(j + 1 + e) = Total(j) + p(j) * (d[j] + b * q)
    BY <1>13
  <2> DEFINE k == j + 1 + e
             D == d[k]  P == p(j)  R == p(e)
  <2>2. k \in T /\ j + 1 + (e + 1) = k + 1 /\ e + 1 \in 0 .. n - 1 - j
    OBVIOUS
  <2>3. Total(k + 1) = D * p(k) + Total(k)
    BY <1>5, <1>10, <2>2
  <2>4. p(k) = (P * b) * R
    <3>1. j + 1 \in 0 .. 7 /\ e \in 0 .. 8 - (j + 1) /\ k = (j + 1) + e /\ j \in T
      OBVIOUS
    <3>2. p((j + 1) + e) = p(j + 1) * R
      BY <1>3, <3>1
    <3> QED
      BY <1>6, <3>1, <3>2
  <2>5. D \in Nat /\ P \in Nat /\ R \in Nat /\ Total(j) \in Nat /\ d[j] \in Nat
    BY <1>1, <1>2, <1>5, <1>9, <2>2
  <2>6. Total(k) = Total(j) + P * (d[j] + b * q)
    BY <2>1
  <2> HIDE DEF k, D, P, R
  <2>7. P * (d[j] + b * (q + D * R)) = P * (d[j] + b * q) + D * ((P * b) * R)
    BY <1>1, <2>5
  <2>8. q + D * R \in Nat
    BY <2>5
  <2>9. P * (d[j] + b * q) \in Nat /\ D * ((P * b) * R) \in Nat
    BY <1>1, <2>5
  <2>10. Total(k + 1) = Total(j) + P * (d[j] + b * (q + D * R))
    BY <2>3, <2>4, <2>5, <2>6, <2>7, <2>9
  <2>11. Total(j + 1 + (e + 1)) = Total(j) + p(j) * (d[j] + b * (q + D * R))
    BY <2>2, <2>10 DEF P
  <2> QED
    BY <2>2, <2>8, <2>11
<1> HIDE DEF S
<1>14. n - 1 - j \in S
  <2>1. n - 1 - j \in Nat
    OBVIOUS
  <2>2. 0 .. n - 1 - j \subseteq S
    BY <1>12, <1>13, <2>1, UpTo
  <2> QED
    BY <2>1, <2>2
<1>15. PICK q \in Nat : Total(n) = Total(j) + p(j) * (d[j] + b * q)
  <2>1. j + 1 + (n - 1 - j) = n
    OBVIOUS
  <2> QED
    BY <1>14, <2>1 DEF S
<1>16. Total(n) \div p(j) = d[j] + b * q
  <2> DEFINE Q == d[j] + b * q
  <2>1. Q \in Int /\ p(j) \in Nat /\ p(j) > 0
    BY <1>1, <1>2, <1>5
  <2> HIDE DEF Q
  <2>2. (p(j) * Q + Total(j)) \div p(j) = Q
    BY <1>11, <2>1, DivisionIsUnique
  <2>3. Total(n) = p(j) * Q + Total(j)
    BY <1>11, <1>15, <2>1 DEF Q
  <2> QED
    BY <2>2, <2>3 DEF Q
<1>17. (d[j] + b * q) % b = d[j]
  <2>1. (b * q + d[j]) % b = d[j] /\ b * q + d[j] = d[j] + b * q
    BY <1>1, <1>5, DivisionIsUnique
  <2> QED
    BY <2>1
<1> QED
  BY <1>16, <1>17 DEF Total, p, b

LEMMA LoadedBytes ==
  ASSUME NEW x, NEW a \in Value, NEW n \in 1 .. 8, WellTyped(x), InBounds(a, n),
         NEW j \in 0 .. n - 1
  PROVE  (Loaded(x, a, n) \div 2^(BYTE * j)) % 2^BYTE = x.mem[a + j]
<1> DEFINE d == [k \in 0 .. n - 1 |-> x.mem[a + k]]
           f == [k \in 0 .. n - 1 |-> x.mem[a + k] * 2^(BYTE * k)]
<1>1. \A k \in 0 .. n - 1 : d[k] \in 0 .. 2^BYTE - 1
  <2>1. \A k \in 0 .. n - 1 : a + k \in Addr
    BY MachineAssumption DEF InBounds, Addr, Value
  <2> QED
    BY <2>1 DEF WellTyped
<1>2. \A k \in 0 .. n - 1 : f[k] = d[k] * 2^(BYTE * k)
  OBVIOUS
<1>3. Loaded(x, a, n) = SumFunctionOnSet(f, 0 .. n - 1) /\ d[j] = x.mem[a + j]
  BY DEF Loaded, SumFunction
<1> HIDE DEF f, d
<1>4. (SumFunctionOnSet(f, 0 .. n - 1) \div 2^(BYTE * j)) % 2^BYTE = d[j]
  BY <1>1, <1>2, ByteOfSum
<1> QED
  BY <1>3, <1>4

(* Storing what was loaded from the same place changes nothing.            *)
LEMMA StoredBack ==
  ASSUME NEW x, NEW a \in Value, NEW n \in 1 .. 8, WellTyped(x)
  PROVE  InBounds(a, n) => Stored(x, a, n, Loaded(x, a, n)).mem = x.mem
<1> SUFFICES ASSUME InBounds(a, n) PROVE Stored(x, a, n, Loaded(x, a, n)).mem = x.mem
  OBVIOUS
<1> DEFINE v == Loaded(x, a, n)
           mem == [c \in Addr |->
             IF c \in a .. a + n - 1 THEN (v \div 2^(BYTE * (c - a))) % 2^BYTE ELSE x.mem[c]]
<1>1. CASE ReadOnly \cap (a .. a + n - 1) # {}
  <2>1. Stored(x, a, n, v) = Fault(x, "MemWriteOnExecutablePage")
    BY <1>1 DEF Stored
  <2> QED
    BY <2>1, FaultShaped DEF WellTyped
<1>2. CASE ReadOnly \cap (a .. a + n - 1) = {}
  <2>1. Stored(x, a, n, v) = [x EXCEPT !.mem = mem]
    BY <1>2 DEF Stored
  <2>2. ASSUME NEW c \in Addr PROVE mem[c] = x.mem[c]
    <3>1. CASE c \in a .. a + n - 1
      <4>1. c - a \in 0 .. n - 1 /\ a + (c - a) = c
        BY <3>1 DEF Value, Addr
      <4>2. (v \div 2^(BYTE * (c - a))) % 2^BYTE = x.mem[a + (c - a)]
        BY <4>1, LoadedBytes
      <4> QED
        BY <3>1, <4>1, <4>2
    <3> QED
      BY <3>1
  <2> HIDE DEF v
  <2>3. mem = x.mem
    BY <2>2 DEF WellTyped
  <2> HIDE DEF mem
  <2>4. [x EXCEPT !.mem = mem].mem = mem
    BY DEF WellTyped, Shaped
  <2> QED
    BY <2>1, <2>3, <2>4 DEF v
<1> QED
  BY <1>1, <1>2

--------------------------------------------------------------------------------
(* What a load, a store or a reservation leaves of the machine x when it   *)
(* succeeds: only rd is written and the next pc stays.                     *)
OthersKept(x, i, y) ==
  /\ y.next_pc = x.next_pc
  /\ \A r \in RegisterIndex : r \notin {i.rd} \ {ZERO} => y.regs[r] = x.regs[r]

LEMMA SetKeepsOthers ==
  ASSUME NEW x, NEW i, NEW v, WellTyped(x), i.rd \in RegisterIndex
  PROVE  LET y == Set(x, i.rd, v)
         IN  /\ OthersKept(x, i, y) /\ y.lr = x.lr /\ y.mem = x.mem /\ y.err = x.err
             /\ Shaped(y) /\ (i.rd # ZERO => y.regs[i.rd] = v)
<1> DEFINE y == Set(x, i.rd, v)
<1>1. Shaped(y) /\ SameButRegs(x, y)
  BY SetShaped DEF WellTyped
<1>2. y = [x EXCEPT !.regs = WithRegister(x.regs, i.rd, v)]
  BY SetIs DEF WellTyped
<1> HIDE DEF y
<1>3. y.regs = WithRegister(x.regs, i.rd, v)
  BY <1>2 DEF WellTyped, Shaped
<1>4. \A r \in RegisterIndex : r \notin {i.rd} \ {ZERO} => y.regs[r] = x.regs[r]
  BY <1>3 DEF WithRegister, WellTyped
<1>5. i.rd # ZERO => y.regs[i.rd] = v
  BY <1>3 DEF WithRegister, WellTyped
<1> QED
  BY <1>1, <1>4, <1>5 DEF y, SameButRegs, OthersKept

LEMMA LoadKeeps ==
  ASSUME NEW x, NEW i, WellTyped(x), i.rd \in RegisterIndex, Load(x, i).err = "none"
  PROVE  OthersKept(x, i, Load(x, i)) /\ Load(x, i).lr = x.lr
<1>1. \/ Load(x, i) = Fault(x, "MemOutOfBound")
      \/ \E v : Load(x, i) = Set(x, i.rd, v)
  BY DEF Load
<1>2. Fault(x, "MemOutOfBound").err # "none"
  BY FaultShaped DEF WellTyped
<1>3. PICK v : Load(x, i) = Set(x, i.rd, v)
  BY <1>1, <1>2
<1> QED
  BY <1>3, SetKeepsOthers

LEMMA StoreKeeps ==
  ASSUME NEW x, NEW i, WellTyped(x)
  PROVE  OthersKept(x, i, Store(x, i)) /\ Store(x, i).lr = x.lr
  BY StoredShaped DEF Store, OthersKept, WellTyped

LEMMA LoadReservedKeeps ==
  ASSUME NEW x, NEW i, WellTyped(x), i.rd \in RegisterIndex, LoadReserved(x, i).err = "none"
  PROVE  OthersKept(x, i, LoadReserved(x, i)) /\ LoadReserved(x, i).lr = x.regs[i.rs1]
<1> DEFINE a == x.regs[i.rs1]
<1>1. \/ LoadReserved(x, i) = Fault(x, "MemOutOfBound")
      \/ \E v : LoadReserved(x, i) = [Set(x, i.rd, v) EXCEPT !.lr = a]
  BY DEF LoadReserved
<1>2. Fault(x, "MemOutOfBound").err # "none"
  BY FaultShaped DEF WellTyped
<1>3. PICK v : LoadReserved(x, i) = [Set(x, i.rd, v) EXCEPT !.lr = a]
  BY <1>1, <1>2
<1> DEFINE y == Set(x, i.rd, v)
<1>4. OthersKept(x, i, y) /\ Shaped(y)
  BY SetKeepsOthers
<1> HIDE DEF a, y
<1>5. LoadReserved(x, i) = [y EXCEPT !.lr = a]
  BY <1>3 DEF y
<1> QED
  BY <1>4, <1>5 DEF OthersKept, Shaped, a

(* A store-conditional that succeeds answers whether it was of the address *)
(* reserved, and changes no memory unless it was.                          *)
LEMMA StoreConditionalKeeps ==
  ASSUME NEW x, NEW i, WellTyped(x), Sound(i), i.op \in {"SC_W", "SC_D"},
         StoreConditional(x, i).err = "none"
  PROVE  LET y == StoreConditional(x, i)
         IN  /\ OthersKept(x, i, y) /\ y.lr = NoReservation /\ x.regs[i.rs1] # NoReservation
             /\ i.rd # ZERO => (y.regs[i.rd] = 0 <=> x.regs[i.rs1] = x.lr)
             /\ x.regs[i.rs1] # x.lr => y.mem = x.mem
<1> DEFINE a == x.regs[i.rs1]
           n == ReservationBytes[i.op]
           v == IF a = x.lr THEN x.regs[i.rs2] ELSE Loaded(x, a, n)
           s == Stored(x, a, n, v)
           w == IF a = x.lr THEN 0 ELSE 1
           y == StoreConditional(x, i)
<1>1. a \in Value /\ x.regs[i.rs2] \in Value /\ n \in 1 .. 8 /\ i.rd \in RegisterIndex
  BY DEF WellTyped, Sound, ReservationBytes
<1>2. \/ y = Fault(x, "MemOutOfBound")
      \/ InBounds(a, n) /\ s.err # "none" /\ y = s
      \/ InBounds(a, n) /\ y = [Set(s, i.rd, w) EXCEPT !.lr = NoReservation]
  BY DEF StoreConditional
<1>3. Fault(x, "MemOutOfBound").err # "none"
  BY FaultShaped DEF WellTyped
<1>4. InBounds(a, n) /\ y = [Set(s, i.rd, w) EXCEPT !.lr = NoReservation]
  BY <1>2, <1>3
<1>5. a # NoReservation
  <2>1. MemSize < 2^XLEN - 1 /\ MemSize \in Nat /\ 2^XLEN \in Nat
    <3>1. WORD - 2 \in 0 .. XLEN /\ WORD \in 0 .. XLEN /\ WORD - 2 \in 0 .. WORD /\ 2^WORD > XLEN /\ XLEN > 4
      BY Widths, XLENAssumption DEF WORD, HALF, BYTE
    <3>2. 2^(WORD - 2) <= 2^WORD /\ 2^(WORD - 2) \in Nat /\ 2^WORD \in Nat
      BY <3>1, PowersGrow, Powers
    <3> DEFINE p == 2^WORD  q == 2^(WORD - 2)
    <3>3. 2^XLEN = p * p /\ p > 4 /\ p \in Nat /\ MemSize \in 1 .. q /\ q <= p /\ q \in Nat
      BY <3>1, <3>2, Widths, MachineAssumption
    <3> HIDE DEF p, q
    <3>4. p * p >= 4 * p
      BY <3>3
    <3> QED
      BY <3>3, <3>4
  <2> QED
    BY <1>1, <1>4, <2>1 DEF InBounds, NoReservation, Value
<1> HIDE DEF a, n
<1>6. v \in Int
  BY <1>1, <1>4, LoadedIn, ValuesAreInts
<1>7. a # x.lr => s = Stored(x, a, n, Loaded(x, a, n))
  OBVIOUS
<1>8. a # x.lr => s.mem = x.mem
  BY <1>1, <1>4, <1>7, StoredBack
<1> HIDE DEF v
<1>9. WellTyped(s)
  BY <1>1, <1>6, StoredTyped
<1>10. s.regs = x.regs /\ s.next_pc = x.next_pc
  BY StoredShaped DEF WellTyped
<1> HIDE DEF s
<1> DEFINE t == Set(s, i.rd, w)
<1>11. OthersKept(s, i, t) /\ Shaped(t) /\ t.mem = s.mem /\ (i.rd # ZERO => t.regs[i.rd] = w)
  BY <1>1, <1>9, SetKeepsOthers
<1>12. y = [t EXCEPT !.lr = NoReservation]
  BY <1>4
<1> HIDE DEF t, y
<1>13. y.lr = NoReservation /\ y.regs = t.regs /\ y.mem = t.mem /\ y.next_pc = t.next_pc
  BY <1>11, <1>12 DEF Shaped
<1>14. OthersKept(x, i, y)
  BY <1>10, <1>11, <1>13 DEF OthersKept
<1>15. i.rd # ZERO => (y.regs[i.rd] = 0 <=> a = x.lr)
  BY <1>11, <1>13
<1> QED
  BY <1>5, <1>8, <1>11, <1>13, <1>14, <1>15 DEF y, a

(* The same of a whole step, which is past the instruction.                *)
LineOps == ReservationOps \cup DOMAIN LoadShape \cup DOMAIN StoreBytes

LEMMA LineStep ==
  ASSUME WellTyped(m), Between(m), NEW i, IsRaw(i), i.op \in LineOps, Run(m, i).err = "none"
  PROVE  LET y == Run(m, i)
         IN  /\ y.pc = Link(m, i)
             /\ \A r \in RegisterIndex : r \notin {i.rd} \ {ZERO} => y.regs[r] = m.regs[r]
             /\ i.op \in LoadReservedOps => y.lr = m.regs[i.rs1]
             /\ i.op \in StoreConditionalOps =>
                  /\ y.lr = NoReservation /\ m.regs[i.rs1] # NoReservation
                  /\ i.rd # ZERO => (y.regs[i.rd] = 0 <=> m.regs[i.rs1] = m.lr)
                  /\ m.regs[i.rs1] # m.lr => y.mem = m.mem
             /\ i.op \notin ReservationOps => y.lr = m.lr
<1> DEFINE y == Run(m, i)
           g == Goto(m, Link(m, i))
           r == ExecuteInstruction(g, i)
<1>1. Sound(i) /\ i.op \notin FusedOps
  BY DEF IsRaw, Sound
<1>2. WellTyped(g) /\ g.regs = m.regs /\ g.lr = m.lr /\ g.mem = m.mem /\ g.next_pc = Link(m, i)
  <2>1. Link(m, i) \in Value
    BY <1>1, SumsIn, ValuesAreInts DEF WellTyped, Sound, Link
  <2> QED
    BY <2>1, GotoTyped, GotoShaped DEF WellTyped
<1>3. y = [r EXCEPT !.pc = r.next_pc]
  BY DEF Run
<1>4. Shaped(r)
  BY <1>2, ExecuteHandled DEF Handled, WellTyped
<1> HIDE DEF g, r, y
<1>5. y.pc = r.next_pc /\ y.regs = r.regs /\ y.lr = r.lr /\ y.mem = r.mem /\ r.err = "none"
  BY <1>3, <1>4 DEF Shaped, y
<1>6. i.rd \in RegisterIndex
  BY <1>1 DEF Sound
<1>7. CASE i.op \in DOMAIN LoadShape
  <2>1. r = Load(g, i) /\ i.op \notin ReservationOps
    BY <1>1, <1>7, RawHandler DEF r, ReservationOps, LoadReservedOps, StoreConditionalOps, LoadShape
  <2>2. OthersKept(g, i, r) /\ r.lr = g.lr
    BY <1>2, <1>5, <1>6, <2>1, LoadKeeps
  <2> QED
    BY <1>2, <1>5, <2>1, <2>2 DEF OthersKept, y, ReservationOps
<1>8. CASE i.op \in DOMAIN StoreBytes
  <2>1. r = Store(g, i) /\ i.op \notin ReservationOps
    BY <1>1, <1>8, RawHandler DEF r, ReservationOps, LoadReservedOps, StoreConditionalOps, StoreBytes
  <2>2. OthersKept(g, i, r) /\ r.lr = g.lr
    BY <1>2, <2>1, StoreKeeps
  <2> QED
    BY <1>2, <1>5, <2>1, <2>2 DEF OthersKept, y, ReservationOps
<1>9. CASE i.op \in LoadReservedOps
  <2>1. r = LoadReserved(g, i) /\ i.op \notin StoreConditionalOps
    BY <1>1, <1>9, RawHandler DEF r, LoadReservedOps, StoreConditionalOps
  <2>2. OthersKept(g, i, r) /\ r.lr = g.regs[i.rs1]
    BY <1>2, <1>5, <1>6, <2>1, LoadReservedKeeps
  <2> QED
    BY <1>2, <1>5, <1>9, <2>1, <2>2 DEF OthersKept, y, ReservationOps
<1>10. CASE i.op \in StoreConditionalOps
  <2>1. r = StoreConditional(g, i) /\ i.op \notin LoadReservedOps /\ i.op \in {"SC_W", "SC_D"}
    BY <1>1, <1>10, RawHandler DEF r, LoadReservedOps, StoreConditionalOps
  <2>2. /\ OthersKept(g, i, r) /\ r.lr = NoReservation /\ g.regs[i.rs1] # NoReservation
        /\ i.rd # ZERO => (r.regs[i.rd] = 0 <=> g.regs[i.rs1] = g.lr)
        /\ g.regs[i.rs1] # g.lr => r.mem = g.mem
    BY <1>1, <1>2, <1>5, <2>1, StoreConditionalKeeps
  <2> QED
    BY <1>2, <1>5, <1>10, <2>1, <2>2 DEF OthersKept, y, ReservationOps
<1> QED
  BY <1>7, <1>8, <1>9, <1>10 DEF LineOps, ReservationOps

--------------------------------------------------------------------------------
(* The reservation, told from the program: it is of the last load-reserved *)
(* before the pc unless a store-conditional came after it.                 *)
LastLr(l) ==
  /\ l \in DOMAIN code /\ l < m.pc /\ code[l].op \in LoadReservedOps
  /\ \A k \in DOMAIN code : l < k /\ k < m.pc => code[k].op \notin ReservationOps
LrHeld ==
  StraightLine /\ m.err = "none" =>
    /\ \A l \in DOMAIN code : LastLr(l) => m.lr = m.regs[code[l].rs1]
    /\ (\A l \in DOMAIN code : ~LastLr(l)) => m.lr = NoReservation

LEMMA InitLrHeld == Init => InOrder /\ LrHeld
<1> SUFFICES ASSUME Init PROVE InOrder /\ LrHeld
  OBVIOUS
<1>1. PICK c \in DOMAIN Programs : \E p \in Programs[c] :
        code = Placed(p.insts, p.pc) /\ version = p.version /\ m = Machine(p.pc, p.values)
  BY DEF Init
<1>2. PICK p \in Programs[c] : code = Placed(p.insts, p.pc) /\ m = Machine(p.pc, p.values)
  BY <1>1
<1>3. PICK n \in 0 .. MemSize : DOMAIN p.insts = 1 .. n
  BY ProgramsAssumption
<1>4. n \in Nat /\ p.pc \in Nat /\ \A k \in 1 .. n : IsRaw(p.insts[k])
  BY <1>3, ProgramsAssumption DEF Value
<1>5. (\A a \in DOMAIN code : a >= p.pc) /\ InOrder
  BY <1>2, <1>3, <1>4, PlacedInOrder DEF InOrder
<1>6. m.pc = p.pc /\ m.lr = NoReservation
  BY <1>2 DEF Machine
<1>7. CodeFits
  BY InitCodeFits
<1>8. \A l \in DOMAIN code : ~LastLr(l)
  BY <1>4, <1>5, <1>6, <1>7 DEF LastLr, CodeFits, Addr
<1> QED
  BY <1>5, <1>6, <1>8 DEF LrHeld

(* Only some arithmetic and the first halves of addresses start a fusion.  *)
LEMMA LineIsNotFused ==
  ASSUME m.pc \in DOMAIN code, code[m.pc].op \in LineOps
  PROVE  Decoded = code[m.pc]
<1> DEFINE w == Window(code, m.pc)
<1>1. w[1] = code[m.pc]
  BY DEF Window, Raw
<1>2. /\ w[1].op \notin {"ADD", "SUB", "LUI", "AUIPC"} /\ w[1].op \notin DOMAIN Wides
  BY <1>1 DEF LineOps, ReservationOps, LoadReservedOps, StoreConditionalOps, LoadShape, StoreBytes,
              Wides, WideProducts, WideQuotients
<1> HIDE DEF w
<1>3. DecodeMop(code, m.pc, version) = w[1]
  BY <1>2 DEF DecodeMop, w
<1> QED
  BY <1>1, <1>3 DEF Decoded, Raw

(* On a straight line the next instruction is the one that follows.        *)
LEMMA StraightStep ==
  ASSUME WellTyped(m), Between(m), CodeIsRaw, CodeFits, StraightLine, Step, m'.err = "none"
  PROVE  /\ m.pc \in DOMAIN code /\ code[m.pc].op \in LineOps /\ IsRaw(code[m.pc])
         /\ m' = Run(m, code[m.pc])
         /\ m'.pc = m.pc + code[m.pc].len /\ code[m.pc].len \in Nat /\ code[m.pc].len > 0
<1> DEFINE i == code[m.pc]
<1>1. m.pc \in DOMAIN code
  BY FaultShaped DEF Step, WellTyped
<1>2. i.op \in LineOps /\ IsRaw(i)
  BY <1>1 DEF StraightLine, LineOps, CodeIsRaw
<1>3. m' = Run(m, i)
  BY <1>1, <1>2, LineIsNotFused DEF Step
<1>4. m'.pc = Link(m, i)
  BY <1>2, <1>3, LineStep
<1>5. i.len \in {2, 4} /\ m.pc \in 0 .. MemSize - 1
  BY <1>1, <1>2 DEF IsRaw, CodeFits, Addr
<1>6. Link(m, i) = m.pc + i.len
  <2>1. MemSize + 4 < 2^XLEN /\ MemSize \in Nat /\ 2^XLEN \in Nat
    <3>1. WORD - 2 \in 0 .. XLEN /\ WORD \in 0 .. XLEN /\ WORD - 2 \in 0 .. WORD /\ 2^WORD > XLEN /\ XLEN >= 8
      BY Widths, XLENAssumption DEF WORD, HALF, BYTE
    <3>2. 2^(WORD - 2) <= 2^WORD /\ 2^(WORD - 2) \in Nat /\ 2^WORD \in Nat
      BY <3>1, PowersGrow, Powers
    <3> DEFINE p == 2^WORD  q == 2^(WORD - 2)
    <3>3. 2^XLEN = p * p /\ p > 8 /\ p \in Nat /\ MemSize \in 1 .. q /\ q <= p /\ q \in Nat
      BY <3>1, <3>2, Widths, MachineAssumption
    <3> HIDE DEF p, q
    <3>4. p * p >= 8 * p
      BY <3>3
    <3> QED
      BY <3>3, <3>4
  <2>2. m.pc + i.len \in 0 .. 2^XLEN - 1
    BY <1>5, <2>1
  <2> DEFINE N == 2^XLEN  z == m.pc + i.len
  <2>3. N \in Nat /\ N > 0 /\ z \in 0 .. N - 1
    BY <2>1, <2>2
  <2> HIDE DEF N, z
  <2>4. (N * 0 + z) % N = z /\ N * 0 + z = z
    BY <2>3, DivisionIsUnique
  <2> QED
    BY <2>4 DEF N, z, Link, OverflowingAdd, Wrap
<1> QED
  BY <1>1, <1>2, <1>3, <1>4, <1>5, <1>6

LEMMA StepKeepsLrHeld ==
  ASSUME WellTyped(m), Between(m), CodeIsRaw, CodeFits, InOrder, LrHeld, Step
  PROVE  LrHeld'
<1> SUFFICES ASSUME StraightLine', m'.err = "none"
             PROVE  /\ \A l \in DOMAIN code' : LastLr(l)' => m'.lr = m'.regs[code'[l].rs1]
                    /\ (\A l \in DOMAIN code' : ~LastLr(l)') => m'.lr = NoReservation
  BY DEF LrHeld
<1>1. code' = code /\ m.err = "none" /\ StraightLine
  BY DEF Step, StraightLine
<1> DEFINE i == code[m.pc]
<1>2. /\ m.pc \in DOMAIN code /\ i.op \in LineOps /\ IsRaw(i) /\ m' = Run(m, i)
      /\ m'.pc = m.pc + i.len /\ i.len \in Nat /\ i.len > 0
  BY <1>1, StraightStep
<1>3. /\ \A r \in RegisterIndex : r \notin {i.rd} \ {ZERO} => m'.regs[r] = m.regs[r]
      /\ i.op \in LoadReservedOps => m'.lr = m.regs[i.rs1]
      /\ i.op \in StoreConditionalOps => m'.lr = NoReservation
      /\ i.op \notin ReservationOps => m'.lr = m.lr
  BY <1>2, LineStep
<1>4. \A k \in DOMAIN code : k \in Nat /\ (k < m'.pc <=> k < m.pc \/ k = m.pc)
  <2> TAKE k \in DOMAIN code
  <2>1. k \in Nat /\ m.pc \in Nat
    BY <1>2 DEF CodeFits, Addr
  <2>2. m.pc < k => m.pc + i.len <= k
    BY <1>2 DEF InOrder
  <2> HIDE DEF i
  <2> QED
    BY <1>2, <2>1, <2>2
<1>5. m.pc \in Nat
  BY <1>2, <1>4
<1>6. \A l \in DOMAIN code : code[l].op \in ReservationOps =>
        m'.regs[code[l].rs1] = m.regs[code[l].rs1]
  <2> TAKE l \in DOMAIN code
  <2> HAVE code[l].op \in ReservationOps
  <2>1. i.rd \notin {code[l].rs1} \ {ZERO} /\ code[l].rs1 \in RegisterIndex
    BY <1>1, <1>2 DEF StraightLine, CodeIsRaw, IsRaw
  <2>2. code[l].rs1 \notin {i.rd} \ {ZERO}
    BY <2>1
  <2> HIDE DEF i
  <2> QED
    BY <1>3, <2>1, <2>2
<1>7. \A l \in DOMAIN code :
        LastLr(l)' <=> /\ l < m.pc \/ l = m.pc
                       /\ code[l].op \in LoadReservedOps
                       /\ \A k \in DOMAIN code :
                            l < k /\ (k < m.pc \/ k = m.pc) => code[k].op \notin ReservationOps
  BY <1>1, <1>4 DEF LastLr
<1>8. /\ \A l \in DOMAIN code : LastLr(l) => m.lr = m.regs[code[l].rs1]
      /\ (\A l \in DOMAIN code : ~LastLr(l)) => m.lr = NoReservation
  BY <1>1 DEF LrHeld
<1>9. CASE i.op \in LoadReservedOps
  <2>1. i.op \in ReservationOps
    BY <1>9 DEF ReservationOps
  <2>2. \A l \in DOMAIN code : LastLr(l)' => l = m.pc
    BY <1>2, <1>7, <2>1
  <2>3. PICK l \in DOMAIN code : l = m.pc
    BY <1>2
  <2>4. \A k \in DOMAIN code : ~(m.pc < k /\ (k < m.pc \/ k = m.pc))
    BY <1>4, <1>5
  <2>5. LastLr(l)'
    BY <1>7, <1>9, <2>3, <2>4
  <2>6. m'.lr = m.regs[i.rs1] /\ m'.regs[i.rs1] = m.regs[i.rs1]
    BY <1>2, <1>3, <1>6, <1>9, <2>1
  <2>7. \A k \in DOMAIN code : LastLr(k)' => m'.lr = m'.regs[code[k].rs1]
    BY <2>2, <2>6
  <2> QED
    BY <1>1, <2>5, <2>7
<1>10. CASE i.op \in StoreConditionalOps
  <2>1. i.op \in ReservationOps /\ i.op \notin LoadReservedOps
    BY <1>10 DEF ReservationOps, StoreConditionalOps, LoadReservedOps
  <2>2. \A l \in DOMAIN code : ~LastLr(l)'
    BY <1>2, <1>7, <2>1
  <2> QED
    BY <1>1, <1>3, <1>10, <2>2
<1>11. CASE i.op \notin ReservationOps
  <2>1. i.op \notin LoadReservedOps
    BY <1>11 DEF ReservationOps
  <2>2. \A l \in DOMAIN code : LastLr(l)' <=> LastLr(l)
    BY <1>2, <1>7, <1>11, <2>1 DEF LastLr
  <2>3. \A l \in DOMAIN code : LastLr(l) => code[l].op \in ReservationOps
    BY DEF LastLr, ReservationOps
  <2> QED
    BY <1>1, <1>3, <1>6, <1>8, <1>11, <2>2, <2>3
<1> QED
  BY <1>9, <1>10, <1>11 DEF ReservationOps

(* On a straight line of any length a store-conditional answers 0 exactly  *)
(* when the last load-reserved was of the same address and no              *)
(* store-conditional has used it up, and changes no memory otherwise       *)
(* (execute.rs: handle_lr_w, handle_sc_w, handle_lr_d, handle_sc_d).       *)
THEOREM ReservationsAreHeld == Spec => ScAnswersLastLr
<1> DEFINE A == StraightLine /\ Raw(code, m.pc).op \in StoreConditionalOps /\ m'.err = "none" =>
                  /\ code[m.pc].rd # ZERO => ((m'.regs[code[m.pc].rd] = 0) <=> ReservedNow)
                  /\ ReservedNow \/ m'.mem = m.mem
<1>1. ASSUME WellTyped(m), Between(m), CodeIsRaw, CodeFits, LrHeld, [Next]_vars
      PROVE  [A]_vars
  <2> SUFFICES ASSUME Step, StraightLine, Raw(code, m.pc).op \in StoreConditionalOps, m'.err = "none"
               PROVE  /\ code[m.pc].rd # ZERO => ((m'.regs[code[m.pc].rd] = 0) <=> ReservedNow)
                      /\ ReservedNow \/ m'.mem = m.mem
    BY <1>1 DEF Next
  <2> DEFINE i == code[m.pc]
  <2>1. m.pc \in DOMAIN code /\ i.op \in LineOps /\ IsRaw(i) /\ m' = Run(m, i) /\ m.err = "none"
    BY <1>1, StraightStep DEF Step
  <2>2. Raw(code, m.pc) = i /\ i.op \in StoreConditionalOps
    BY <2>1 DEF Raw
  <2>3. /\ m.regs[i.rs1] # NoReservation
        /\ i.rd # ZERO => (m'.regs[i.rd] = 0 <=> m.regs[i.rs1] = m.lr)
        /\ m.regs[i.rs1] # m.lr => m'.mem = m.mem
    BY <1>1, <2>1, <2>2, LineStep
  <2>4. Operand1 = m.regs[i.rs1]
    BY <2>2 DEF Operand1
  <2>5. ReservedNow <=> \E l \in DOMAIN code : LastLr(l) /\ m.regs[code[l].rs1] = m.regs[i.rs1]
    BY <2>4 DEF ReservedNow, LastLr
  <2>6. /\ \A l \in DOMAIN code : LastLr(l) => m.lr = m.regs[code[l].rs1]
        /\ (\A l \in DOMAIN code : ~LastLr(l)) => m.lr = NoReservation
    BY <1>1, <2>1 DEF LrHeld
  <2>7. ReservedNow <=> m.regs[i.rs1] = m.lr
    BY <2>3, <2>5, <2>6
  <2> QED
    BY <2>3, <2>7
<1>2. InOrder /\ LrHeld /\ CodeFits /\ WellTyped(m) /\ Between(m) /\ CodeIsRaw /\ [Next]_vars
        => InOrder' /\ LrHeld' /\ CodeFits'
  <2> SUFFICES ASSUME InOrder, LrHeld, CodeFits, WellTyped(m), Between(m), CodeIsRaw, [Next]_vars
               PROVE  InOrder' /\ LrHeld' /\ CodeFits'
    OBVIOUS
  <2>1. InOrder' /\ CodeFits'
    BY DEF InOrder, CodeFits, Next, Step, vars
  <2>2. CASE Step
    BY <2>1, <2>2, StepKeepsLrHeld
  <2>3. CASE UNCHANGED vars
    BY <2>1, <2>3 DEF vars, LrHeld, LastLr, StraightLine
  <2> QED
    BY <2>1, <2>2, <2>3 DEF Next
<1> QED
  BY <1>1, <1>2, InitTyped, StepKeepsTyped, InitBetween, StepKeepsBetween, InitCodeIsRaw,
     InitCodeFits, InitLrHeld, PTL DEF Spec, ScAnswersLastLr
================================================================================
