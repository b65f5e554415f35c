------------------------------ MODULE WordDecoder ------------------------------
(***************************************************************************)
(* From the bytes at a pc to an instruction: DefaultDecoder.decode_bits    *)
(* reads a compressed word of two bytes or a full one of four, and         *)
(* decode_raw gives it to the factories of the decoder's ISA, one after    *)
(* the other, until one accepts it (rvc.rs, i.rs, m.rs, b.rs, a.rs).  A    *)
(* word is a record of two halves of 16 bits; a factory answers the set of *)
(* the one instruction it makes of a word, or the empty set.               *)
(***************************************************************************)
EXTENDS Decoder

CONSTANTS
  RISCV_PAGESIZE,
  Fetches  (* sets of [bytes, executable, pc, isa, version, bits]: the memory, *)
           (* its executable pages, and a decoder for registers of bits bits   *)

(* A memory is of whole pages (flat.rs: new), and "the lowest               *)
(* bit in PC will always be zero" (decoder.rs: decode_raw).                *)
ASSUME FetchesAssumption ==
  /\ RISCV_PAGESIZE \in Nat \ {0} /\ RISCV_PAGESIZE % 2 = 0
  /\ \A c \in DOMAIN Fetches : \A f \in Fetches[c] :
       LET size == Cardinality(DOMAIN f.bytes)
       IN  /\ size \in Nat /\ size % RISCV_PAGESIZE = 0
           /\ f.bytes \in [0 .. size - 1 -> 0 .. 255]
           /\ f.pc \in Nat /\ f.pc % 2 = 0
           /\ f.version \in 0 .. 2 /\ f.bits \in {32, 64}

VARIABLES
  fetch,   (* what is being decoded                                        *)
  decoded  (* "pending", or the error and the instructions: at most one    *)

wordVars == <<fetch, decoded>>

--------------------------------------------------------------------------------
(* utils.rs: the fields of a word.                                         *)

Field(w, lower, length) ==
  CASE lower >= 16 -> (w.hi \div 2^(lower - 16)) % 2^length
    [] lower + length <= 16 -> (w.lo \div 2^lower) % 2^length
    [] OTHER -> (w.lo \div 2^lower) + (w.hi % 2^(lower + length - 16)) * 2^(16 - lower)

X(w, lower, length, shifts) == Field(w, lower, length) * 2^shifts
XS(w, lower, length, shifts) ==
  LET v == Field(w, lower, length)
  IN  (IF v >= 2^(length - 1) THEN v - 2^length ELSE v) * 2^shifts

Opcode(w) == Field(w, 0, 7)
Funct3(w) == Field(w, 12, 3)
Funct7(w) == Field(w, 25, 7)
Rd(w)  == Field(w, 7, 5)
Rs1(w) == Field(w, 15, 5)
Rs2(w) == Field(w, 20, 5)

BtypeImmediate(w) == X(w, 8, 4, 1) + X(w, 25, 6, 5) + X(w, 7, 1, 11) + XS(w, 31, 1, 12)
JtypeImmediate(w) == X(w, 21, 10, 1) + X(w, 20, 1, 11) + X(w, 12, 8, 12) + XS(w, 31, 1, 20)
ItypeImmediate(w) == XS(w, 20, 12, 0)
StypeImmediate(w) == X(w, 7, 5, 0) + XS(w, 25, 7, 5)
UtypeImmediate(w) == XS(w, 12, 20, 12)

(* Opcodes that version 1 replaced: jalr(version), lb(version), ...        *)
Versioned ==
  [JALR |-> <<"JALR_VERSION0", "JALR_VERSION1">>,
   LB |-> <<"LB_VERSION0", "LB_VERSION1">>, LBU |-> <<"LBU_VERSION0", "LBU_VERSION1">>,
   LH |-> <<"LH_VERSION0", "LH_VERSION1">>, LHU |-> <<"LHU_VERSION0", "LHU_VERSION1">>,
   LW |-> <<"LW_VERSION0", "LW_VERSION1">>, LWU |-> <<"LWU_VERSION0", "LWU_VERSION1">>,
   LD |-> <<"LD_VERSION0", "LD_VERSION1">>]
OfVersion(op, version) == Versioned[op][IF version >= 1 THEN 2 ELSE 1]

(* A match on fields, a table of keys and opcodes: the opcode of the key.  *)
Row(table, key) == {r[2] : r \in {s \in table : s[1] = key}}

BlankInstruction(op) == [Blank EXCEPT !.op = op]
Nop == Itype("ADDI", 0, 0, 0)

RtypeOf(ops, w) == {Rtype(op, Rd(w), Rs1(w), Rs2(w)) : op \in ops}
ItypeOf(ops, w, imm) == {Itype(op, Rd(w), Rs1(w), imm) : op \in ops}
StypeOf(ops, w, imm) == {Stype(op, imm, Rs1(w), Rs2(w)) : op \in ops}

--------------------------------------------------------------------------------
(* Compressed words.                                                       *)

SP == 2
CRs2(w) == Field(w, 2, 5)
CompactRegisterNumber(w, least) == Field(w, least, 3) + 8

(* Mutants: bit 6 is forgotten; the two lowest groups trade places.        *)
JImmediateShort(w)   == X(w, 3, 3, 1) + X(w, 11, 1, 4) + X(w, 2, 1, 5) + X(w, 7, 1, 6)
                          + X(w, 9, 2, 8) + X(w, 8, 1, 10) + XS(w, 12, 1, 11)
BImmediateSwapped(w) == X(w, 3, 2, 6) + X(w, 10, 2, 3) + X(w, 2, 1, 5) + X(w, 5, 2, 1)
                          + XS(w, 12, 1, 8)

Immediate(w)       == X(w, 2, 5, 0) + XS(w, 12, 1, 5)
UImmediate(w)      == X(w, 2, 5, 0) + X(w, 12, 1, 5)
JImmediate(w)      == X(w, 3, 3, 1) + X(w, 11, 1, 4) + X(w, 2, 1, 5) + X(w, 7, 1, 6)
                        + X(w, 6, 1, 7) + X(w, 9, 2, 8) + X(w, 8, 1, 10) + XS(w, 12, 1, 11)
FldUImmediate(w)   == X(w, 10, 3, 3) + X(w, 5, 2, 6)
SwUImmediate(w)    == X(w, 6, 1, 2) + X(w, 10, 3, 3) + X(w, 5, 1, 6)
LwspUImmediate(w)  == X(w, 4, 3, 2) + X(w, 12, 1, 5) + X(w, 2, 2, 6)
FldspUImmediate(w) == X(w, 5, 2, 3) + X(w, 12, 1, 5) + X(w, 2, 3, 6)
FsdspUImmediate(w) == X(w, 10, 3, 3) + X(w, 7, 3, 6)
SwspUImmediate(w)  == X(w, 9, 4, 2) + X(w, 7, 2, 6)
BImmediate(w)      == X(w, 3, 2, 1) + X(w, 10, 2, 3) + X(w, 2, 1, 5) + X(w, 5, 2, 6)
                        + XS(w, 12, 1, 8)

(* Mutant: the comparison with the version is the other way round.         *)
HintBefore1(version) == IF version < 1 THEN {Nop} ELSE {}

(* Words without effect, which version 0 refuses.                          *)
Hint(version) == IF version >= 1 THEN {Nop} ELSE {}

Quadrant0(w, version, rv64) ==
  LET f3     == Field(w, 13, 3)
      rd     == CompactRegisterNumber(w, 2)
      rs1    == CompactRegisterNumber(w, 7)
      nzuimm == X(w, 6, 1, 2) + X(w, 5, 1, 3) + X(w, 11, 2, 4) + X(w, 7, 4, 6)
  IN  CASE f3 = 0 /\ nzuimm # 0 -> {Itype("ADDI", rd, SP, nzuimm)}
        [] f3 = 2 -> {Itype(OfVersion("LW", version), rd, rs1, SwUImmediate(w))}
        [] f3 = 3 /\ rv64 -> {Itype(OfVersion("LD", version), rd, rs1, FldUImmediate(w))}
        [] f3 = 6 -> {Stype("SW", SwUImmediate(w), rs1, rd)}
        [] f3 = 7 /\ rv64 -> {Stype("SD", FldUImmediate(w), rs1, rd)}
        [] OTHER -> {}

(* C.SRLI64 and C.SRAI64, the register operations, then the shifts and     *)
(* C.ANDI.                                                                 *)
CompactArithmetic(w, rv64) ==
  LET rd    == CompactRegisterNumber(w, 7)
      wide  == Field(w, 12, 1)
      group == Field(w, 10, 2)
      which == Field(w, 5, 2)
      two(op) == {Rtype(op, rd, rd, CompactRegisterNumber(w, 2))}
      shift == UImmediate(w) % (IF rv64 THEN 64 ELSE 32)
  IN  CASE group \in {0, 1} /\ wide = 0 /\ which = 0 /\ Field(w, 2, 3) = 0 -> {Nop}
        [] group = 3 /\ wide = 0 -> two(<<"SUB", "XOR", "OR", "AND">>[which + 1])
        [] group = 3 /\ wide = 1 /\ rv64 /\ which \in {0, 1} ->
             two(<<"SUBW", "ADDW">>[which + 1])
        [] group = 0 /\ UImmediate(w) # 0 -> {Itype("SRLI", rd, rd, shift)}
        [] group = 1 /\ UImmediate(w) # 0 -> {Itype("SRAI", rd, rd, shift)}
        [] group = 2 -> {Itype("ANDI", rd, rd, Immediate(w))}
        [] OTHER -> {}

Quadrant1(w, version, rv64) ==
  LET f3   == Field(w, 13, 3)
      rd   == Rd(w)
      imm  == Immediate(w)
      imm10 == X(w, 6, 1, 4) + X(w, 2, 1, 5) + X(w, 5, 1, 6) + X(w, 3, 2, 7) + XS(w, 12, 1, 9)
      rs1  == CompactRegisterNumber(w, 7)
  IN  CASE f3 = 0 /\ rd # 0 /\ imm # 0 -> {Itype("ADDI", rd, rd, imm)}
        [] f3 = 0 /\ rd = 0 /\ imm = 0 -> {Nop}
        [] f3 = 0 /\ (rd = 0) # (imm = 0) -> Hint(version)
        [] f3 = 1 /\ ~rv64 -> {Utype("JAL", 1, JImmediate(w))}
        [] f3 = 1 /\ rv64 /\ rd # 0 -> {Itype("ADDIW", rd, rd, imm)}
        [] f3 = 2 -> IF rd # 0 THEN {Itype("ADDI", rd, 0, imm)} ELSE Hint(version)
        [] f3 = 3 /\ imm # 0 /\ rd = SP -> {Itype("ADDI", SP, SP, imm10)}
        [] f3 = 3 /\ imm # 0 /\ rd # SP ->
             IF rd # 0 THEN {Utype("LUI", rd, imm * 2^12)} ELSE Hint(version)
        [] f3 = 4 -> CompactArithmetic(w, rv64)
        [] f3 = 5 -> {Utype("JAL", 0, JImmediate(w))}
        [] f3 = 6 -> {Stype("BEQ", BImmediate(w), rs1, 0)}
        [] f3 = 7 -> {Stype("BNE", BImmediate(w), rs1, 0)}
        [] OTHER -> {}

(* C.JR, C.MV, C.EBREAK, C.JALR and C.ADD.                                 *)
RegisterMoves(w, version) ==
  LET rd == Rd(w)  rs2 == CRs2(w)  link == Field(w, 12, 1)
  IN  CASE rs2 = 0 /\ rd # 0 -> {Itype(OfVersion("JALR", version), link, rd, 0)}
        [] rs2 = 0 /\ rd = 0 -> IF link = 1 THEN {BlankInstruction("EBREAK")} ELSE {}
        [] rs2 # 0 /\ rd # 0 -> {Rtype("ADD", rd, IF link = 1 THEN rd ELSE 0, rs2)}
        [] OTHER -> Hint(version)

Quadrant2(w, version, rv64) ==
  LET f3 == Field(w, 13, 3)  rd == Rd(w)  uimm == UImmediate(w)
  IN  CASE f3 = 0 -> IF rd # 0 /\ uimm # 0
                     THEN {Itype("SLLI", rd, rd, uimm % (IF rv64 THEN 64 ELSE 32))}
                     ELSE Hint(version)
        [] f3 = 2 /\ rd # 0 -> {Itype(OfVersion("LW", version), rd, SP, LwspUImmediate(w))}
        [] f3 = 3 /\ rv64 /\ rd # 0 ->
             {Itype(OfVersion("LD", version), rd, SP, FldspUImmediate(w))}
        [] f3 = 4 -> RegisterMoves(w, version)
        [] f3 = 6 -> {Stype("SW", SwspUImmediate(w), SP, CRs2(w))}
        [] f3 = 7 /\ rv64 -> {Stype("SD", FsdspUImmediate(w), SP, CRs2(w))}
        [] OTHER -> {}

RvcFactory(w, version, rv64) ==
  LET q == Field(w, 0, 2)
  IN  {[i EXCEPT !.len = 2] : i \in
         CASE q = 0 -> Quadrant0(w, version, rv64)
           [] q = 1 -> Quadrant1(w, version, rv64)
           [] q = 2 -> Quadrant2(w, version, rv64)
           [] q = 3 -> {}}

--------------------------------------------------------------------------------
(* Full words.                                                             *)

LoadOps   == [LB |-> 0, LH |-> 1, LW |-> 2, LD |-> 3, LBU |-> 4, LHU |-> 5, LWU |-> 6]
BranchOf ==
  {<<0, "BEQ">>, <<1, "BNE">>, <<4, "BLT">>, <<5, "BGE">>, <<6, "BLTU">>, <<7, "BGEU">>}
StoreOf   == {<<0, "SB">>, <<1, "SH">>, <<2, "SW">>, <<3, "SD">>}
ImmOf ==
  {<<0, "ADDI">>, <<2, "SLTI">>, <<3, "SLTIU">>, <<4, "XORI">>, <<6, "ORI">>,
   <<7, "ANDI">>}
ShiftOf   == {<<<<1, 0>>, "SLLI">>, <<<<5, 0>>, "SRLI">>, <<<<5, 16>>, "SRAI">>}
ShiftWOf  == {<<<<1, 0>>, "SLLIW">>, <<<<5, 0>>, "SRLIW">>, <<<<5, 32>>, "SRAIW">>}
AluOf ==
  {<<<<0, 0>>, "ADD">>, <<<<0, 32>>, "SUB">>, <<<<1, 0>>, "SLL">>, <<<<2, 0>>, "SLT">>,
   <<<<3, 0>>, "SLTU">>, <<<<4, 0>>, "XOR">>, <<<<5, 0>>, "SRL">>, <<<<5, 32>>, "SRA">>,
   <<<<6, 0>>, "OR">>, <<<<7, 0>>, "AND">>}
AluWOf ==
  {<<<<0, 0>>, "ADDW">>, <<<<0, 32>>, "SUBW">>, <<<<1, 0>>, "SLLW">>, <<<<5, 0>>, "SRLW">>,
   <<<<5, 32>>, "SRAW">>}

(* FENCE keeps its three sets of four bits as if they were registers.      *)
Fences(w) ==
  CASE w = [lo |-> 2^12 + 15, hi |-> 0] -> {BlankInstruction("FENCEI")}
    [] w.lo = 15 /\ Field(w, 16, 4) = 0 ->
         {Rtype("FENCE", Field(w, 28, 4), Field(w, 24, 4), Field(w, 20, 4))}
    [] OTHER -> {}

IFactory(w, version, rv64) ==
  LET f3 == Funct3(w)  f7 == Funct7(w)  imm == ItypeImmediate(w)
      bits == IF rv64 THEN 64 ELSE 32
  IN  CASE Opcode(w) = 55  -> {Utype("LUI", Rd(w), UtypeImmediate(w))}
        [] Opcode(w) = 23  -> {Utype("AUIPC", Rd(w), UtypeImmediate(w))}
        [] Opcode(w) = 111 -> {Utype("JAL", Rd(w), JtypeImmediate(w))}
        [] Opcode(w) = 103 /\ f3 = 0 -> ItypeOf({OfVersion("JALR", version)}, w, imm)
        [] Opcode(w) = 3 ->
             ItypeOf({OfVersion(op, version) :
                        op \in {o \in DOMAIN LoadOps :
                                 LoadOps[o] = f3 /\ (rv64 \/ f3 \notin {3, 6})}}, w, imm)
        [] Opcode(w) = 19 /\ f3 \in {1, 5} ->
             ItypeOf(Row(ShiftOf, <<f3, f7 \div 2>>), w, imm % bits)
        [] Opcode(w) = 19 /\ f3 \notin {1, 5} -> ItypeOf(Row(ImmOf, f3), w, imm)
        [] Opcode(w) = 99 -> StypeOf(Row(BranchOf, f3), w, BtypeImmediate(w))
        [] Opcode(w) = 35 /\ (rv64 \/ f3 # 3) ->
             StypeOf(Row(StoreOf, f3), w, StypeImmediate(w))
        [] Opcode(w) = 51 -> RtypeOf(Row(AluOf, <<f3, f7>>), w)
        [] Opcode(w) = 15 -> Fences(w)
        [] w = [lo |-> 115, hi |-> 0]  -> {BlankInstruction("ECALL")}
        [] w = [lo |-> 115, hi |-> 16] -> {BlankInstruction("EBREAK")}
        [] Opcode(w) = 27 /\ rv64 /\ f3 = 0 -> ItypeOf({"ADDIW"}, w, imm)
        [] Opcode(w) = 27 /\ rv64 /\ f3 # 0 ->
             ItypeOf(Row(ShiftWOf, <<f3, f7>>), w, imm % 32)
        [] Opcode(w) = 59 /\ rv64 -> RtypeOf(Row(AluWOf, <<f3, f7>>), w)
        [] OTHER -> {}

MulOf  == <<"MUL", "MULH", "MULHSU", "MULHU", "DIV", "DIVU", "REM", "REMU">>
MulWOf    == {<<0, "MULW">>, <<4, "DIVW">>, <<5, "DIVUW">>, <<6, "REMW">>, <<7, "REMUW">>}

(* Mutant: funct7 is not looked at.                                        *)
MFactoryOfAnyFunct7(w, version, rv64) ==
  CASE Opcode(w) = 51 -> RtypeOf({MulOf[Funct3(w) + 1]}, w)
    [] Opcode(w) = 59 /\ rv64 -> RtypeOf(Row(MulWOf, Funct3(w)), w)
    [] OTHER -> {}

MFactory(w, version, rv64) ==
  CASE Funct7(w) = 1 /\ Opcode(w) = 51 -> RtypeOf({MulOf[Funct3(w) + 1]}, w)
    [] Funct7(w) = 1 /\ Opcode(w) = 59 /\ rv64 -> RtypeOf(Row(MulWOf, Funct3(w)), w)
    [] OTHER -> {}

BOf ==
  {<<<<7, 32>>, "ANDN">>, <<<<6, 32>>, "ORN">>, <<<<4, 32>>, "XNOR">>,
   <<<<1, 48>>, "ROL">>, <<<<5, 48>>, "ROR">>, <<<<1, 52>>, "BINV">>,
   <<<<1, 20>>, "BSET">>, <<<<1, 36>>, "BCLR">>, <<<<5, 36>>, "BEXT">>,
   <<<<2, 16>>, "SH1ADD">>, <<<<4, 16>>, "SH2ADD">>, <<<<6, 16>>, "SH3ADD">>,
   <<<<1, 5>>, "CLMUL">>, <<<<3, 5>>, "CLMULH">>, <<<<2, 5>>, "CLMULR">>,
   <<<<4, 5>>, "MIN">>, <<<<5, 5>>, "MINU">>, <<<<6, 5>>, "MAX">>, <<<<7, 5>>, "MAXU">>}
BWOf ==
  {<<<<0, 4>>, "ADDUW">>, <<<<1, 48>>, "ROLW">>, <<<<2, 16>>, "SH1ADDUW">>,
   <<<<4, 16>>, "SH2ADDUW">>, <<<<5, 48>>, "RORW">>, <<<<6, 16>>, "SH3ADDUW">>}
BUnaryOf ==
  {<<<<20, 5, 7>>, "ORCB">>, <<<<53, 5, 24>>, "REV8">>, <<<<48, 1, 0>>, "CLZ">>,
   <<<<48, 1, 2>>, "CPOP">>, <<<<48, 1, 1>>, "CTZ">>, <<<<48, 1, 4>>, "SEXTB">>,
   <<<<48, 1, 5>>, "SEXTH">>}
BUnaryWOf == {<<0, "CLZW">>, <<2, "CPOPW">>, <<1, "CTZW">>}
BImmOf ==
  {<<<<18, 1>>, "BCLRI">>, <<<<18, 5>>, "BEXTI">>, <<<<26, 1>>, "BINVI">>,
   <<<<10, 1>>, "BSETI">>, <<<<24, 5>>, "RORI">>}

BFactory(w, version, rv64) ==
  LET f3 == Funct3(w)  f7 == Funct7(w)  rs2 == Rs2(w)
  IN  CASE Opcode(w) = 59 /\ <<f3, f7>> = <<4, 4>> ->
             RtypeOf({op \in {"ZEXTH"} : rv64 /\ rs2 = 0}, w)
        [] Opcode(w) = 59 /\ <<f3, f7>> # <<4, 4>> -> RtypeOf(Row(BWOf, <<f3, f7>>), w)
        [] Opcode(w) = 51 -> RtypeOf(Row(BOf, <<f3, f7>>), w)
        [] Opcode(w) = 19 /\ Row(BUnaryOf, <<f7, f3, rs2>>) # {} ->
             RtypeOf(Row(BUnaryOf, <<f7, f3, rs2>>), w)
        [] Opcode(w) = 19 /\ Row(BUnaryOf, <<f7, f3, rs2>>) = {} ->
             ItypeOf(Row(BImmOf, <<f7 \div 2, f3>>), w, X(w, 20, 6, 0))
        [] Opcode(w) = 27 /\ f7 = 48 /\ f3 = 1 -> RtypeOf(Row(BUnaryWOf, rs2), w)
        [] Opcode(w) = 27 /\ f7 = 48 /\ f3 = 5 -> ItypeOf({"RORIW"}, w, X(w, 20, 5, 0))
        [] Opcode(w) = 27 /\ f7 \div 2 = 2 /\ f3 = 1 ->
             ItypeOf({"SLLIUW"}, w, X(w, 20, 6, 0))
        [] OTHER -> {}

AmoOf ==
  {<<2, "LR_W">>, <<3, "SC_W">>, <<1, "AMOSWAP_W">>, <<0, "AMOADD_W">>, <<4, "AMOXOR_W">>,
   <<12, "AMOAND_W">>, <<8, "AMOOR_W">>, <<16, "AMOMIN_W">>, <<20, "AMOMAX_W">>,
   <<24, "AMOMINU_W">>, <<28, "AMOMAXU_W">>}
AmoDOf ==
  {<<2, "LR_D">>, <<3, "SC_D">>, <<1, "AMOSWAP_D">>, <<0, "AMOADD_D">>, <<4, "AMOXOR_D">>,
   <<12, "AMOAND_D">>, <<8, "AMOOR_D">>, <<16, "AMOMIN_D">>, <<20, "AMOMAX_D">>,
   <<24, "AMOMINU_D">>, <<28, "AMOMAXU_D">>}

AFactory(w, version, rv64) ==
  LET f5 == Funct7(w) \div 4
      ops == CASE Funct3(w) = 2 -> Row(AmoOf, f5)
               [] Funct3(w) = 3 /\ rv64 -> Row(AmoDOf, f5)
               [] OTHER -> {}
  IN  IF Opcode(w) = 47 /\ (f5 = 2 => Rs2(w) = 0) THEN RtypeOf(ops, w) ELSE {}

--------------------------------------------------------------------------------
(* DefaultDecoder.                                                         *)

(* check_no_overflow and check_permission, of an even address.             *)
Refusal(f, a, n) ==
  CASE a + n > Cardinality(DOMAIN f.bytes) -> "MemOutOfBound"
    [] a + n <= Cardinality(DOMAIN f.bytes) /\
         (\E c \in a .. a + n - 1 : c \div RISCV_PAGESIZE \notin f.executable) ->
         "MemWriteOnExecutablePage"
    [] OTHER -> "none"

HalfAt(f, a) == f.bytes[a] + 2^8 * f.bytes[a + 1]
Compressed(half) == half % 4 # 3
NoWord == [lo |-> 0, hi |-> 0]

(* execute_load32 reads four bytes at once; of a compressed word it keeps  *)
(* two.                                                                    *)
DecodeBitsFast(f) ==
  LET e == Refusal(f, f.pc, 4)  lo == HalfAt(f, f.pc)
  IN  IF e # "none" THEN [err |-> e, word |-> NoWord]
      ELSE [err |-> e,
            word |-> [lo |-> lo, hi |-> IF Compressed(lo) THEN 0 ELSE HalfAt(f, f.pc + 2)]]

(* execute_load16 reads two, and two more only of a full word.             *)
DecodeBitsSlow(f) ==
  LET e == Refusal(f, f.pc, 2)  lo == HalfAt(f, f.pc)  e2 == Refusal(f, f.pc + 2, 2)
  IN  CASE e # "none" -> [err |-> e, word |-> NoWord]
        [] e = "none" /\ Compressed(lo) -> [err |-> e, word |-> [lo |-> lo, hi |-> 0]]
        [] e = "none" /\ ~Compressed(lo) /\ e2 # "none" -> [err |-> e2, word |-> NoWord]
        [] OTHER -> [err |-> e2, word |-> [lo |-> lo, hi |-> HalfAt(f, f.pc + 2)]]

(* Mutant: the last two bytes of a page take the fast path too.            *)
DecodeBitsToTheEnd(f) ==
  IF f.pc % RISCV_PAGESIZE < RISCV_PAGESIZE - 1 THEN DecodeBitsFast(f) ELSE DecodeBitsSlow(f)

DecodeBits(f) ==
  IF f.pc % RISCV_PAGESIZE < RISCV_PAGESIZE - 2 THEN DecodeBitsFast(f) ELSE DecodeBitsSlow(f)

(* The factories of a decoder, in the order in which it asks them.         *)
FactoriesOf(isa) ==
  <<"rvc", "i", "m">> \o (IF "ISA_B" \in isa THEN <<"b">> ELSE <<>>)
                      \o (IF "ISA_A" \in isa THEN <<"a">> ELSE <<>>)
Factory(name, w, version, bits) ==
  CASE name = "rvc" -> RvcFactory(w, version, bits = 64)
    [] name = "i"   -> IFactory(w, version, bits = 64)
    [] name = "m"   -> MFactory(w, version, bits = 64)
    [] name = "b"   -> BFactory(w, version, bits = 64)
    [] name = "a"   -> AFactory(w, version, bits = 64)

(* The answer of the first factory that accepts the word.                  *)
FirstAnswer(isa, w, version, bits) ==
  LET asked   == FactoriesOf(isa)
      accepts == {k \in DOMAIN asked : Factory(asked[k], w, version, bits) # {}}
  IN  IF accepts = {} THEN {} ELSE Factory(asked[Min(accepts)], w, version, bits)

Failed(e) == [err |-> e, insts |-> {}]
DecodeRaw(f) ==
  LET b     == DecodeBits(f)
      insts == FirstAnswer(f.isa, b.word, f.version, f.bits)
  IN  CASE f.pc >= Cardinality(DOMAIN f.bytes) -> Failed("MemOutOfBound")
        [] f.pc < Cardinality(DOMAIN f.bytes) /\ b.err # "none" -> Failed(b.err)
        [] OTHER -> [err |-> IF insts = {} THEN "InvalidInstruction" ELSE "none",
                     insts |-> insts]

Pending == [err |-> "pending", insts |-> {}]

WordInit == (\E c \in DOMAIN Fetches : fetch \in Fetches[c]) /\ decoded = Pending

Decode ==
  /\ decoded = Pending
  /\ decoded' = DecodeRaw(fetch)
  /\ UNCHANGED fetch

WordSpec == WordInit /\ [][Decode]_wordVars

--------------------------------------------------------------------------------
Accepted == decoded.insts # {}
Fetched  == DecodeBits(fetch).word

(* At most one factory accepts a word: what a word means depends neither   *)
(* on the order in which decode_raw asks the factories nor on the          *)
(* extensions that a decoder has beside (DefaultDecoder::new).             *)
FactoriesAreDisjoint ==
  Accepted =>
    Cardinality({k \in {"rvc", "i", "m", "b", "a"} :
                   Factory(k, Fetched, fetch.version, fetch.bits) # {}}) = 1

(* A word with bit k changed.                                              *)
Flip(w, k) ==
  LET flipped(half, b) == IF (half \div 2^b) % 2 = 1 THEN half - 2^b ELSE half + 2^b
  IN  IF k < 16 THEN [w EXCEPT !.lo = flipped(@, k)] ELSE [w EXCEPT !.hi = flipped(@, k - 16)]

(* Every bit of a word counts: the factories take words apart without      *)
(* losing a bit, so that no two words which differ in one bit become the   *)
(* same instruction.  Only an atomic operation's aq and rl are ignored,    *)
(* and words without effect are all NOP.                                   *)
IgnoredBits(i) == IF i.op \in AmoWOps \cup AmoDOps \cup DOMAIN ReservationBytes
                  THEN {25, 26} ELSE {}
EveryBitCounts ==
  \A i \in decoded.insts :
    fetch.bits = 64 /\ [i EXCEPT !.len = 4] # Nop =>
      \A k \in 0 .. 8 * i.len - 1 :
        (FirstAnswer(fetch.isa, Flip(Fetched, k), fetch.version, fetch.bits) = {i})
          => k \in IgnoredBits(i)

(* The opcodes that differ between versions are forms of one instruction.  *)
Unversioned(op) ==
  IF \E v \in DOMAIN Versioned : op \in {Versioned[v][1], Versioned[v][2]}
  THEN CHOOSE v \in DOMAIN Versioned : op \in {Versioned[v][1], Versioned[v][2]} ELSE op

(* A program of an older version keeps its instructions: every version     *)
(* after accepts what a version accepts, as the same instruction, up to    *)
(* the opcodes whose behaviour a version replaced (utils.rs, rvc.rs).      *)
LaterVersionsAgree ==
  \A i \in decoded.insts : \A v \in fetch.version .. 2 :
    \E j \in FirstAnswer(fetch.isa, Fetched, v, fetch.bits) :
      [j EXCEPT !.op = Unversioned(@)] = [i EXCEPT !.op = Unversioned(@)]

(* Decoding fails to read exactly when the bytes of the instruction itself *)
(* are outside memory or on a page that is not executable, whatever lies   *)
(* behind a compressed one, and reads these bytes (decode_bits).           *)
InstructionBytes ==
  LET pc == fetch.pc
  IN  IF pc + 1 \in DOMAIN fetch.bytes /\ ~Compressed(HalfAt(fetch, pc))
      THEN pc .. pc + 3 ELSE pc .. pc + 1
Readable ==
  \A a \in InstructionBytes :
    a \in DOMAIN fetch.bytes /\ a \div RISCV_PAGESIZE \in fetch.executable
FetchReadsTheInstruction ==
  decoded # Pending =>
    /\ decoded.err \in {"MemOutOfBound", "MemWriteOnExecutablePage"} <=> ~Readable
    /\ Readable => decoded.insts =
         FirstAnswer(fetch.isa,
                     [lo |-> HalfAt(fetch, fetch.pc),
                      hi |-> IF Cardinality(InstructionBytes) = 4
                             THEN HalfAt(fetch, fetch.pc + 2) ELSE 0],
                     fetch.version, fetch.bits)

(* The places that the comments over rvc.rs' immediates give the bits from *)
(* bit 12 downwards.  The first bit of a signed one counts negatively.     *)
Layout(bits, places, signed) == [bits |-> bits, places |-> places, signed |-> signed]
Low6 == <<12, 6, 5, 4, 3, 2>>
SwLayout       == Layout(<<12, 11, 10, 6, 5>>, <<5, 4, 3, 2, 6>>, FALSE)
FldLayout      == Layout(<<12, 11, 10, 6, 5>>, <<5, 4, 3, 7, 6>>, FALSE)
SignedLayout   == Layout(Low6, <<5, 4, 3, 2, 1, 0>>, TRUE)
JLayout        == Layout(<<12, 11, 10, 9, 8, 7, 6, 5, 4, 3, 2>>,
                         <<11, 4, 9, 8, 10, 6, 7, 3, 2, 1, 5>>, TRUE)
BLayout        == Layout(<<12, 11, 10, 6, 5, 4, 3, 2>>, <<8, 4, 3, 7, 6, 2, 1, 5>>, TRUE)
UnsignedLayout == Layout(Low6, <<5, 4, 3, 2, 1, 0>>, FALSE)
LwspLayout     == Layout(Low6, <<5, 4, 3, 2, 7, 6>>, FALSE)
FldspLayout    == Layout(Low6, <<5, 4, 3, 8, 7, 6>>, FALSE)
SwspLayout     == Layout(<<12, 11, 10, 9, 8, 7>>, <<5, 4, 3, 2, 7, 6>>, FALSE)
FsdspLayout    == Layout(<<12, 11, 10, 9, 8, 7>>, <<5, 4, 3, 8, 7, 6>>, FALSE)
NoLayout       == Layout(<<>>, <<>>, FALSE)
CommentedLayout(q, f3) ==
  CASE q = 0 /\ f3 \in {2, 6}    -> SwLayout
    [] q = 0 /\ f3 \in {3, 7}    -> FldLayout
    [] q = 1 /\ f3 \in {0, 1, 2} -> SignedLayout
    [] q = 1 /\ f3 = 5           -> JLayout
    [] q = 1 /\ f3 \in {6, 7}    -> BLayout
    [] q = 2 /\ f3 = 0           -> UnsignedLayout
    [] q = 2 /\ f3 = 2           -> LwspLayout
    [] q = 2 /\ f3 = 3           -> FldspLayout
    [] q = 2 /\ f3 = 6           -> SwspLayout
    [] q = 2 /\ f3 = 7           -> FsdspLayout
    [] OTHER                     -> NoLayout
LaidOut(w, l) ==
  LET placed == [k \in DOMAIN l.bits |-> Field(w, l.bits[k], 1) * 2^l.places[k]]
  IN  SumFunctionOnSet(placed, DOMAIN l.bits) - (IF l.signed THEN 2 * placed[1] ELSE 0)

(* A compressed word's immediate is what the comments over rvc.rs' helpers *)
(* say: each bit at its place, the first the sign of the signed ones.      *)
ImmediatesAsCommented ==
  \A i \in decoded.insts :
    LET l == CommentedLayout(Field(Fetched, 0, 2), Field(Fetched, 13, 3))
    IN  i.len = 2 /\ l # NoLayout /\ fetch.bits = 64 /\ [i EXCEPT !.len = 4] # Nop
          => i.imm = LaidOut(Fetched, l)
================================================================================
