-------------------------------- MODULE Execute --------------------------------
(***************************************************************************)
(* What an instruction does to a machine (instructions/execute.rs and      *)
(* common.rs).  A machine m is a record: regs, pc and next_pc, the memory  *)
(* mem, the load reservation lr, and err, the error of the instruction     *)
(* that failed.  An instruction i is a record of its opcode op, the        *)
(* registers rd, rs1 .. rs4, the immediate imm, and its length len.        *)
(* ECALL is the run loop's.                                                *)
(***************************************************************************)
EXTENDS Register, Sequences

CONSTANTS
  RISCV_GENERAL_REGISTER_NUMBER,
  MemSize,   (* memory_size                                                *)
  ReadOnly   (* the addresses of pages that are not writable               *)

(* RISCV_MAX_MEMORY is 2^22, far below half the span of an i32.            *)
ASSUME MachineAssumption ==
  /\ RISCV_GENERAL_REGISTER_NUMBER \in Nat /\ RISCV_GENERAL_REGISTER_NUMBER > 1
  /\ MemSize \in 1 .. 2^(WORD - 2)

RegisterIndex == 0 .. RISCV_GENERAL_REGISTER_NUMBER - 1
Addr == 0 .. MemSize - 1
ZERO == 0
RA   == 1
NoReservation == 2^XLEN - 1

Fault(m, e) == [m EXCEPT !.err = e]
Goto(m, pc) == [m EXCEPT !.next_pc = pc]

(* Mutant: x0 can be written.                                              *)
SetAny(m, r, v) == [m EXCEPT !.regs[r % RISCV_GENERAL_REGISTER_NUMBER] = v]

(* update_register: writes to x0 are ignored.                              *)
Set(m, r, v) ==
  IF r % RISCV_GENERAL_REGISTER_NUMBER = ZERO THEN m
  ELSE [m EXCEPT !.regs[r % RISCV_GENERAL_REGISTER_NUMBER] = v]

(* Memory: n little-endian bytes at a.                                     *)
InBounds(a, n) == a + n <= MemSize
Loaded(m, a, n) == SumFunction([k \in 0 .. n - 1 |-> m.mem[a + k] * 2^(BYTE * k)])
Stored(m, a, n, v) ==
  CASE ~InBounds(a, n) -> Fault(m, "MemOutOfBound")
    [] InBounds(a, n) /\ ReadOnly \cap (a .. a + n - 1) # {} ->
         Fault(m, "MemWriteOnExecutablePage")
    [] OTHER ->
         [m EXCEPT !.mem = [c \in Addr |->
            IF c \in a .. a + n - 1 THEN (v \div 2^(BYTE * (c - a))) % 2^BYTE ELSE m.mem[c]]]

SextW(v) == SignExtend(v, WORD)
ZextW(v) == ZeroExtend(v, WORD)

--------------------------------------------------------------------------------
(* Register-to-register instructions: the value of rd.                     *)

AluOps == {"SUB", "SUBW", "ADD", "ADDW", "XOR", "OR", "AND", "SLL", "SLLW", "SRL", "SRLW",
           "SRA", "SRAW", "SLT", "SLTU"}
AluValue(op, a, b) ==
  CASE op = "SUB"  -> OverflowingSub(a, b)   [] op = "SUBW" -> SextW(OverflowingSub(a, b))
    [] op = "ADD"  -> OverflowingAdd(a, b)   [] op = "ADDW" -> SextW(OverflowingAdd(a, b))
    [] op = "XOR"  -> BitXor(a, b)
    [] op = "OR"   -> BitOr(a, b)
    [] op = "AND"  -> BitAnd(a, b)
    [] op = "SLL"  -> Shl(a, b % XLEN)       [] op = "SLLW" -> SextW(Shl(a, b % WORD))
    [] op = "SRL"  -> Shr(a, b % XLEN)       [] op = "SRLW" -> SextW(Shr(ZextW(a), b % WORD))
    [] op = "SRA"  -> SignedShr(a, b % XLEN)
    [] op = "SRAW" -> SextW(SignedShr(SextW(a), b % WORD))
    [] op = "SLT"  -> LtS(a, b)
    [] op = "SLTU" -> Lt(a, b)

MulDivOps == {"MUL", "MULW", "MULH", "MULHSU", "MULHU", "DIV", "DIVW", "DIVU", "DIVUW",
              "REM", "REMW", "REMU", "REMUW"}
MulDivValue(op, a, b) ==
  CASE op = "MUL"    -> OverflowingMul(a, b)
    [] op = "MULW"   -> SextW(OverflowingMul(ZextW(a), ZextW(b)))
    [] op = "MULH"   -> MulHighSigned(a, b)
    [] op = "MULHSU" -> MulHighSignedUnsigned(a, b)
    [] op = "MULHU"  -> MulHighUnsigned(a, b)
    [] op = "DIV"    -> OverflowingDivSigned(a, b)
    [] op = "DIVW"   -> SextW(OverflowingDivSigned(SextW(a), SextW(b)))
    [] op = "DIVU"   -> OverflowingDiv(a, b)
    [] op = "DIVUW"  -> SextW(OverflowingDiv(ZextW(a), ZextW(b)))
    [] op = "REM"    -> OverflowingRemSigned(a, b)
    [] op = "REMW"   -> SextW(OverflowingRemSigned(SextW(a), SextW(b)))
    [] op = "REMU"   -> OverflowingRem(a, b)
    [] op = "REMUW"  -> SextW(OverflowingRem(ZextW(a), ZextW(b)))

(* The B extension: single bits and carry-less products;                   *)
SingleBitOps == {"ADDUW", "ANDN", "BCLR", "BEXT", "BINV", "BSET", "CLMUL", "CLMULH", "CLMULR"}
SingleBitValue(op, a, b) ==
  LET bit == 2^(b % XLEN)
  IN  CASE op = "ADDUW"  -> OverflowingAdd(b, ZextW(a))
        [] op = "ANDN"   -> BitAnd(a, Complement(b))
        [] op = "BCLR"   -> BitAnd(a, Complement(bit))
        [] op = "BEXT"   -> BitAnd(1, Shr(a, b % XLEN))
        [] op = "BINV"   -> BitXor(a, bit)
        [] op = "BSET"   -> BitOr(a, bit)
        [] op = "CLMUL"  -> Clmul(a, b)
        [] op = "CLMULH" -> Clmulh(a, b)
        [] op = "CLMULR" -> Clmulr(a, b)

(* counts, extrema and rotations;                                          *)
CountOps == {"CLZ", "CLZW", "CPOP", "CPOPW", "CTZ", "CTZW", "MAX", "MAXU", "MIN", "MINU",
             "ORCB", "ORN", "REV8", "ROL"}
CountValue(op, a, b) ==
  CASE op = "CLZ"   -> Clz(a)                [] op = "CLZW"  -> Clz(ZextW(a)) - WORD
    [] op = "CPOP"  -> Cpop(a)               [] op = "CPOPW" -> Cpop(ZextW(a))
    [] op = "CTZ"   -> Ctz(a)
    [] op = "CTZW"  -> Ctz(BitOr(a, 2^XLEN - 2^WORD))
    [] op = "MAX"   -> IF Signed(a) >= Signed(b) THEN a ELSE b
    [] op = "MAXU"  -> IF a >= b THEN a ELSE b
    [] op = "MIN"   -> IF Signed(a) < Signed(b) THEN a ELSE b
    [] op = "MINU"  -> IF a < b THEN a ELSE b
    [] op = "ORCB"  -> Orcb(a)
    [] op = "ORN"   -> BitOr(a, Complement(b))
    [] op = "REV8"  -> Rev8(a)
    [] op = "ROL"   -> Rol(a, b % XLEN)

(* Mutant: the word is not doubled.                                        *)
SingleWord(a) == ZextW(a)

(* rotations of a word, doubled first, and shifted sums.                   *)
Twins(a) == ZextW(a) * (2^WORD + 1)
RotateOps == {"ROLW", "ROR", "RORW", "SEXTB", "SEXTH", "SH1ADD", "SH1ADDUW", "SH2ADD",
              "SH2ADDUW", "SH3ADD", "SH3ADDUW", "XNOR", "ZEXTH"}
RotateValue(op, a, b) ==
  CASE op = "ROLW"     -> SextW(Rol(Twins(a), b % WORD))
    [] op = "ROR"      -> Ror(a, b % XLEN)
    [] op = "RORW"     -> SextW(Ror(Twins(a), b % WORD))
    [] op = "SEXTB"    -> SignedShr(SignedShl(a, XLEN - BYTE), XLEN - BYTE)
    [] op = "SEXTH"    -> SignedShr(SignedShl(a, XLEN - HALF), XLEN - HALF)
    [] op = "SH1ADD"   -> OverflowingAdd(Shl(a, 1), b)
    [] op = "SH1ADDUW" -> OverflowingAdd(Shl(ZextW(a), 1), b)
    [] op = "SH2ADD"   -> OverflowingAdd(Shl(a, 2), b)
    [] op = "SH2ADDUW" -> OverflowingAdd(Shl(ZextW(a), 2), b)
    [] op = "SH3ADD"   -> OverflowingAdd(Shl(a, 3), b)
    [] op = "SH3ADDUW" -> OverflowingAdd(Shl(ZextW(a), 3), b)
    [] op = "XNOR"     -> BitXor(a, Complement(b))
    [] op = "ZEXTH"    -> ZeroExtend(a, HALF)

(* Instructions with an immediate: the value of rd.                        *)
ImmediateOps == {"ADDI", "ADDIW", "XORI", "ORI", "ANDI", "SLTI", "SLTIU"}
ImmediateValue(op, a, imm) ==
  CASE op = "ADDI"  -> OverflowingAdd(a, imm)
    [] op = "ADDIW" -> SextW(OverflowingAdd(a, imm))
    [] op = "XORI"  -> BitXor(a, Wrap(imm))
    [] op = "ORI"   -> BitOr(a, Wrap(imm))
    [] op = "ANDI"  -> BitAnd(a, Wrap(imm))
    [] op = "SLTI"  -> Flag(Signed(a) < imm)
    [] op = "SLTIU" -> Lt(a, Wrap(imm))

ShiftImmediateOps == {"SLLI", "SRLI", "SRAI", "SLLIW", "SRLIW", "SRAIW"}
ShiftImmediateValue(op, a, shamt) ==
  CASE op = "SLLI"  -> Shl(a, shamt)         [] op = "SLLIW" -> SextW(Shl(a, shamt))
    [] op = "SRLI"  -> Shr(a, shamt)         [] op = "SRLIW" -> SextW(Shr(ZextW(a), shamt))
    [] op = "SRAI"  -> SignedShr(a, shamt)
    [] op = "SRAIW" -> SextW(SignedShr(SextW(a), shamt))

BitImmediateOps == {"BCLRI", "BEXTI", "BINVI", "BSETI", "RORI", "RORIW", "SLLIUW"}
BitImmediateValue(op, a, imm) ==
  CASE op = "BCLRI"  -> SingleBitValue("BCLR", a, imm)
    [] op = "BEXTI"  -> SingleBitValue("BEXT", a, imm)
    [] op = "BINVI"  -> SingleBitValue("BINV", a, imm)
    [] op = "BSETI"  -> SingleBitValue("BSET", a, imm)
    [] op = "RORI"   -> RotateValue("ROR", a, imm)
    [] op = "RORIW"  -> RotateValue("RORW", a, imm)
    [] op = "SLLIUW" -> Shl(ZextW(a), imm % XLEN)

--------------------------------------------------------------------------------
(* Memory.                                                                 *)

(* Every load: its bytes, whether it sign-extends, and whether it is the   *)
(* opcode of a VERSION0 machine.                                           *)
LoadShape ==
  [LB_VERSION0  |-> <<1, TRUE, TRUE>>,  LB_VERSION1  |-> <<1, TRUE, FALSE>>,
   LH_VERSION0  |-> <<2, TRUE, TRUE>>,  LH_VERSION1  |-> <<2, TRUE, FALSE>>,
   LW_VERSION0  |-> <<4, TRUE, TRUE>>,  LW_VERSION1  |-> <<4, TRUE, FALSE>>,
   LD_VERSION0  |-> <<8, TRUE, TRUE>>,  LD_VERSION1  |-> <<8, TRUE, FALSE>>,
   LBU_VERSION0 |-> <<1, FALSE, TRUE>>, LBU_VERSION1 |-> <<1, FALSE, FALSE>>,
   LHU_VERSION0 |-> <<2, FALSE, TRUE>>, LHU_VERSION1 |-> <<2, FALSE, FALSE>>,
   LWU_VERSION0 |-> <<4, FALSE, TRUE>>, LWU_VERSION1 |-> <<4, FALSE, FALSE>>]

(* check_load_boundary: a VERSION0 machine does not load its last byte.    *)
LoadBoundaryOk(version0, a, n) == version0 => a + n < 2^XLEN /\ a + n # MemSize

Load(m, i) ==
  LET n        == LoadShape[i.op][1]
      signed   == LoadShape[i.op][2]
      version0 == LoadShape[i.op][3]
      a        == OverflowingAdd(m.regs[i.rs1], i.imm)
  IN  IF LoadBoundaryOk(version0, a, n) /\ InBounds(a, n)
      THEN LET v == Loaded(m, a, n)
           IN  Set(m, i.rd, IF signed THEN SignExtend(v, BYTE * n) ELSE v)
      ELSE Fault(m, "MemOutOfBound")

StoreBytes == [SB |-> 1, SH |-> 2, SW |-> 4, SD |-> 8]
Store(m, i) ==
  Stored(m, OverflowingAdd(m.regs[i.rs1], i.imm), StoreBytes[i.op], m.regs[i.rs2])

AmoWOps == {"AMOSWAP_W", "AMOADD_W", "AMOXOR_W", "AMOAND_W", "AMOOR_W", "AMOMIN_W",
            "AMOMAX_W", "AMOMINU_W", "AMOMAXU_W"}
AmoWValue(op, src, raw) ==
  LET old == SextW(raw)
  IN  CASE op = "AMOSWAP_W" -> src
        [] op = "AMOADD_W"  -> OverflowingAdd(src, old)
        [] op = "AMOXOR_W"  -> BitXor(src, old)
        [] op = "AMOAND_W"  -> BitAnd(src, old)
        [] op = "AMOOR_W"   -> BitOr(src, old)
        [] op = "AMOMIN_W"  -> CountValue("MIN", SextW(src), old)
        [] op = "AMOMAX_W"  -> CountValue("MAX", SextW(src), old)
        [] op = "AMOMINU_W" -> CountValue("MINU", ZextW(src), raw)
        [] op = "AMOMAXU_W" -> CountValue("MAXU", ZextW(src), raw)

AmoDOps == {"AMOSWAP_D", "AMOADD_D", "AMOXOR_D", "AMOAND_D", "AMOOR_D", "AMOMIN_D",
            "AMOMAX_D", "AMOMINU_D", "AMOMAXU_D"}
AmoDValue(op, src, old) ==
  CASE op = "AMOSWAP_D" -> src
    [] op = "AMOADD_D"  -> OverflowingAdd(src, old)
    [] op = "AMOXOR_D"  -> BitXor(src, old)
    [] op = "AMOAND_D"  -> BitAnd(src, old)
    [] op = "AMOOR_D"   -> BitOr(src, old)
    [] op = "AMOMIN_D"  -> CountValue("MIN", src, old)
    [] op = "AMOMAX_D"  -> CountValue("MAX", src, old)
    [] op = "AMOMINU_D" -> CountValue("MINU", src, old)
    [] op = "AMOMAXU_D" -> CountValue("MAXU", src, old)

(* Both operands are read, the old value goes to rd, and then the new one  *)
(* is stored.                                                              *)
Amo(m, i) ==
  LET a   == m.regs[i.rs1]
      src == m.regs[i.rs2]
      n   == IF i.op \in AmoWOps THEN 4 ELSE 8
      raw == Loaded(m, a, n)
  IN  CASE ~InBounds(a, n) -> Fault(m, "MemOutOfBound")
        [] InBounds(a, n) /\ i.op \in AmoWOps ->
             Stored(Set(m, i.rd, SextW(raw)), a, n, AmoWValue(i.op, src, raw))
        [] InBounds(a, n) /\ i.op \in AmoDOps ->
             Stored(Set(m, i.rd, raw), a, n, AmoDValue(i.op, src, raw))

ReservationBytes == [LR_W |-> 4, SC_W |-> 4, LR_D |-> 8, SC_D |-> 8]

(* Mutant: the reservation is made before the load.                        *)
ReserveFirst(m, i) ==
  LET a == m.regs[i.rs1]
      n == ReservationBytes[i.op]
      r == [m EXCEPT !.lr = a]
  IN  IF InBounds(a, n) THEN Set(r, i.rd, SignExtend(Loaded(r, a, n), BYTE * n))
      ELSE Fault(r, "MemOutOfBound")

LoadReserved(m, i) ==
  LET a == m.regs[i.rs1]
      n == ReservationBytes[i.op]
  IN  IF InBounds(a, n)
      THEN [Set(m, i.rd, SignExtend(Loaded(m, a, n), BYTE * n)) EXCEPT !.lr = a]
      ELSE Fault(m, "MemOutOfBound")

(* Mutant: a store that succeeds keeps the reservation.                    *)
KeepsReservation(m, i) ==
  LET a      == m.regs[i.rs1]
      n      == ReservationBytes[i.op]
      stored == Stored(m, a, n, IF a = m.lr THEN m.regs[i.rs2] ELSE Loaded(m, a, n))
  IN  CASE ~InBounds(a, n) -> Fault(m, "MemOutOfBound")
        [] InBounds(a, n) /\ stored.err # "none" -> stored
        [] OTHER -> Set(stored, i.rd, IF a = m.lr THEN 0 ELSE 1)

(* A conditional store that fails stores the old value.                    *)
StoreConditional(m, i) ==
  LET a         == m.regs[i.rs1]
      n         == ReservationBytes[i.op]
      condition == a = m.lr
      stored    == Stored(m, a, n, IF condition THEN m.regs[i.rs2] ELSE Loaded(m, a, n))
  IN  CASE ~InBounds(a, n) -> Fault(m, "MemOutOfBound")
        [] InBounds(a, n) /\ stored.err # "none" -> stored
        [] OTHER ->
             [Set(stored, i.rd, IF condition THEN 0 ELSE 1) EXCEPT !.lr = NoReservation]

--------------------------------------------------------------------------------
(* Jumps and branches.  The pc is the instruction's own until it is done.  *)

BranchOps == {"BEQ", "BNE", "BLT", "BGE", "BLTU", "BGEU"}
Taken(op, a, b) ==
  CASE op = "BEQ"  -> a = b
    [] op = "BNE"  -> a # b
    [] op = "BLT"  -> Signed(a) < Signed(b)
    [] op = "BGE"  -> Signed(a) >= Signed(b)
    [] op = "BLTU" -> a < b
    [] op = "BGEU" -> a >= b
Branch(m, i) ==
  Goto(m, OverflowingAdd(m.pc, IF Taken(i.op, m.regs[i.rs1], m.regs[i.rs2])
                               THEN i.imm ELSE i.len))

Link(m, i) == OverflowingAdd(m.pc, i.len)
Even(a)    == BitAnd(a, Complement(1))

Jal(m, i) == Goto(Set(m, i.rd, Link(m, i)), OverflowingAdd(m.pc, i.imm))

JalrVersion0(m, i) ==
  LET linked == Set(m, i.rd, Link(m, i))
  IN  Goto(linked, Even(OverflowingAdd(linked.regs[i.rs1], i.imm)))

(* Mutant: as in version 0, the link is written first.                     *)
LinksFirst(m, i) ==
  LET linked == Set(m, i.rd, Link(m, i))
  IN  Goto(linked, Even(OverflowingAdd(linked.regs[i.rs1], i.imm)))

JalrVersion1(m, i) ==
  Goto(Set(m, i.rd, Link(m, i)), Even(OverflowingAdd(m.regs[i.rs1], i.imm)))

Lui(m, i)   == Set(m, i.rd, Wrap(i.imm))
Auipc(m, i) == Set(m, i.rd, OverflowingAdd(m.pc, i.imm))

--------------------------------------------------------------------------------
(* Fused instructions: the two halves of a product, a quotient and its     *)
(* remainder; far jumps; sums and differences of several words.            *)

WideOps == {"WIDE_MUL", "WIDE_MULU", "WIDE_MULSU", "WIDE_DIV", "WIDE_DIVU"}
WideValue(op, a, b) ==
  CASE op = "WIDE_MUL"   -> <<MulHighSigned(a, b), OverflowingMul(a, b)>>
    [] op = "WIDE_MULU"  -> <<MulHighUnsigned(a, b), OverflowingMul(a, b)>>
    [] op = "WIDE_MULSU" -> <<MulHighSignedUnsigned(a, b), OverflowingMul(a, b)>>
    [] op = "WIDE_DIV"   -> <<OverflowingDivSigned(a, b), OverflowingRemSigned(a, b)>>
    [] op = "WIDE_DIVU"  -> <<OverflowingDiv(a, b), OverflowingRem(a, b)>>
Wide(m, i) ==
  LET v == WideValue(i.op, m.regs[i.rs1], m.regs[i.rs2])
  IN  Set(Set(m, i.rd, v[1]), i.rs3, v[2])

FarJumpRel(m, i) == Goto(Set(m, RA, Link(m, i)), Even(OverflowingAdd(m.pc, i.imm)))
FarJumpAbs(m, i) == Goto(Set(m, RA, Link(m, i)), Even(Wrap(i.imm)))

(* rd := a op b, on the registers of m as they are.                        *)
Do(m, op, rd, ra, rb) == Set(m, rd, AluValue(op, m.regs[ra], m.regs[rb]))

Adc(m, i) ==
  LET m1 == Do(m, "ADD", i.rd, i.rd, i.rs1)
      m2 == Do(m1, "SLTU", i.rs1, i.rd, i.rs1)
      m3 == Do(m2, "ADD", i.rd, i.rd, i.rs2)
      m4 == Do(m3, "SLTU", i.rs2, i.rd, i.rs2)
  IN  Do(m4, "OR", i.rs1, i.rs1, i.rs2)

Sbb(m, i) ==
  LET m1 == Do(m, "SUB", i.rs1, i.rd, i.rs1)
      m2 == Do(m1, "SLTU", i.rs3, i.rd, i.rs1)
      m3 == Do(m2, "SUB", i.rd, i.rs1, i.rs2)
      m4 == Do(m3, "SLTU", i.rs2, i.rs1, i.rd)
  IN  Do(m4, "OR", i.rs1, i.rs2, i.rs3)

(* The sum or difference is compared as it was computed, whatever rd is.   *)
Adcs(m, i) ==
  LET r == OverflowingAdd(m.regs[i.rs1], m.regs[i.rs2])
  IN  Set(Set(m, i.rd, r), i.rs3, Lt(r, m.regs[i.rs1]))
Sbbs(m, i) ==
  Set(Do(m, "SUB", i.rd, i.rs1, i.rs2), i.rs3, Lt(m.regs[i.rs1], m.regs[i.rs2]))

Add3a(m, i) ==
  LET m1 == Do(m, "ADD", i.rd, i.rd, i.rs1)
      m2 == Do(m1, "SLTU", i.rs2, i.rd, i.rs1)
  IN  Do(m2, "ADD", i.rs3, i.rs2, i.rs4)
Add3b(m, i) ==
  LET m1 == Do(m, "ADD", i.rd, i.rs1, i.rs2)
      m2 == Do(m1, "SLTU", i.rs1, i.rd, i.rs1)
  IN  Do(m2, "ADD", i.rs3, i.rs1, i.rs4)
Add3c(m, i) ==
  LET m1    == Do(m, "ADD", i.rd, i.rs1, i.rs2)
      carry == Lt(m1.regs[i.rd], m1.regs[i.rs1])
  IN  Set(m1, i.rs3, OverflowingAdd(carry, m1.regs[i.rs4]))

LoadImm(m, i) == Set(m, i.rd, Wrap(i.imm))

--------------------------------------------------------------------------------
(* execute_instruction: the handler of the opcode; a handler that only     *)
(* computes a value for rd is given by that value.                         *)
ValueOps == AluOps \cup MulDivOps \cup SingleBitOps \cup CountOps \cup RotateOps
              \cup ImmediateOps \cup ShiftImmediateOps \cup BitImmediateOps
ComputedValue(op, a, b, imm) ==
  CASE op \in AluOps            -> AluValue(op, a, b)
    [] op \in MulDivOps         -> MulDivValue(op, a, b)
    [] op \in SingleBitOps      -> SingleBitValue(op, a, b)
    [] op \in CountOps          -> CountValue(op, a, b)
    [] op \in RotateOps         -> RotateValue(op, a, b)
    [] op \in ImmediateOps      -> ImmediateValue(op, a, imm)
    [] op \in ShiftImmediateOps -> ShiftImmediateValue(op, a, imm)
    [] op \in BitImmediateOps   -> BitImmediateValue(op, a, imm)

ExecuteInstruction(m, i) ==
  CASE i.op \in ValueOps ->
         Set(m, i.rd, ComputedValue(i.op, m.regs[i.rs1], m.regs[i.rs2], i.imm))
    [] i.op \in DOMAIN LoadShape             -> Load(m, i)
    [] i.op \in DOMAIN StoreBytes            -> Store(m, i)
    [] i.op \in AmoWOps \cup AmoDOps         -> Amo(m, i)
    [] i.op \in {"LR_W", "LR_D"}             -> LoadReserved(m, i)
    [] i.op \in {"SC_W", "SC_D"}             -> StoreConditional(m, i)
    [] i.op \in BranchOps                    -> Branch(m, i)
    [] i.op \in WideOps                      -> Wide(m, i)
    [] i.op = "LUI"                          -> Lui(m, i)
    [] i.op = "AUIPC"                        -> Auipc(m, i)
    [] i.op = "JAL"                          -> Jal(m, i)
    [] i.op = "JALR_VERSION0"                -> JalrVersion0(m, i)
    [] i.op = "JALR_VERSION1"                -> JalrVersion1(m, i)
    [] i.op = "FAR_JUMP_REL"                 -> FarJumpRel(m, i)
    [] i.op = "FAR_JUMP_ABS"                 -> FarJumpAbs(m, i)
    [] i.op = "ADC"                          -> Adc(m, i)
    [] i.op = "SBB"                          -> Sbb(m, i)
    [] i.op = "ADCS"                         -> Adcs(m, i)
    [] i.op = "SBBS"                         -> Sbbs(m, i)
    [] i.op = "ADD3A"                        -> Add3a(m, i)
    [] i.op = "ADD3B"                        -> Add3b(m, i)
    [] i.op = "ADD3C"                        -> Add3c(m, i)
    [] i.op \in {"CUSTOM_LOAD_IMM", "CUSTOM_LOAD_UIMM"} -> LoadImm(m, i)
    [] i.op \in {"EBREAK", "FENCE", "FENCEI"} -> m
    [] OTHER                                 -> Fault(m, "InvalidOp")

(* execute: the pc moves on even when the instruction fails.               *)
Run(m, i) ==
  LET r == ExecuteInstruction(Goto(m, Link(m, i)), i)
  IN  [r EXCEPT !.pc = r.next_pc]
================================================================================
