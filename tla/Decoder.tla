-------------------------------- MODULE Decoder --------------------------------
(***************************************************************************)
(* Macro-operation fusion (decoder.rs: decode_mop).  Adjacent instructions *)
(* that match a rule are decoded as one.  code[pc] is the instruction that *)
(* decode_raw answers at pc; it answers an error elsewhere.  An i32 is a   *)
(* word, so that immediates wrap and overflow where they do in the code.   *)
(***************************************************************************)
EXTENDS Execute

(* A factory sets the fields of its form, and the others are zero.         *)
Instruction(op, rd, rs1, rs2, rs3, rs4, imm) ==
  [op |-> op, rd |-> rd, rs1 |-> rs1, rs2 |-> rs2, rs3 |-> rs3, rs4 |-> rs4, imm |-> imm, len |-> 4]
Blank == Instruction("NONE", 0, 0, 0, 0, 0, 0)
Rtype(op, rd, rs1, rs2) == Instruction(op, rd, rs1, rs2, 0, 0, 0)
Itype(op, rd, rs1, imm) == Instruction(op, rd, rs1, 0, 0, 0, imm)
Stype(op, imm, rs1, rs2) == Instruction(op, 0, rs1, rs2, 0, 0, imm)
Utype(op, rd, imm) == Instruction(op, rd, 0, 0, 0, 0, imm)
R4type(op, rd, rs1, rs2, rs3) == Instruction(op, rd, rs1, rs2, rs3, 0, 0)
R5type(op, rd, rs1, rs2, rs3, rs4) == Instruction(op, rd, rs1, rs2, rs3, rs4, 0)

Raw(code, pc) == IF pc \in DOMAIN code THEN code[pc] ELSE Blank

(* add a,a,b; sltu b,a,b; add a,a,c; sltu c,a,c; or b,b,c                  *)
RuleAdc(head, next, neck, body, tail) ==
  /\ head.rd = head.rs1 /\ head.rs1 # head.rs2
  /\ next.op = "SLTU" /\ next.rd = head.rs2 /\ next.rs2 = head.rs2 /\ next.rs1 = head.rs1
  /\ neck.op = "ADD" /\ neck.rd = neck.rs1 /\ neck.rs1 = next.rs1
  /\ neck.rs2 \notin {head.rs1, head.rs2}
  /\ body.op = "SLTU" /\ body.rd = body.rs2 /\ body.rs2 = neck.rs2 /\ body.rs1 = neck.rs1
  /\ tail.op = "OR" /\ tail.rd = tail.rs1 /\ tail.rs1 = head.rs2 /\ tail.rs2 = body.rs2
  /\ ZERO \notin {head.rd, next.rd, body.rd}

(* add r0,r1,r0; sltu r2,r0,r1; add r3,r2,r4                               *)
RuleAdd3a(i0, i1, i2) ==
  /\ i1.op = "SLTU" /\ i2.op = "ADD"
  /\ i0.rs2 = i0.rd /\ i1.rs1 = i0.rd /\ i1.rs2 = i0.rs1 /\ i2.rs1 = i1.rd
  /\ i0.rd # i0.rs1 /\ i0.rd # i2.rs2 /\ i1.rd # i2.rs2
  /\ i0.rd # ZERO /\ i1.rd # ZERO

(* add r0,r1,r2; sltu r1,r0,r1; add r3,r1,r4                               *)
RuleAdd3b(i0, i1, i2) ==
  /\ i1.op = "SLTU" /\ i2.op = "ADD"
  /\ i1.rd = i0.rs1 /\ i1.rs1 = i0.rd /\ i1.rs2 = i0.rs1 /\ i2.rs1 = i0.rs1
  /\ i0.rd # i0.rs1 /\ i0.rd # i2.rs2 /\ i0.rs1 # i2.rs2
  /\ i0.rd # ZERO /\ i0.rs1 # ZERO

(* add r0,r1,r2; sltu r3,r0,r1; add r3,r3,r4                               *)
RuleAdd3c(i0, i1, i2) ==
  /\ i1.op = "SLTU" /\ i2.op = "ADD"
  /\ i1.rs1 = i0.rd /\ i1.rs2 = i0.rs1 /\ i2.rd = i1.rd /\ i2.rs1 = i1.rd
  /\ i0.rd # i0.rs1 /\ i0.rd # i2.rs2 /\ i1.rd # i2.rs2
  /\ i0.rd # ZERO /\ i1.rd # ZERO

(* add r0,r1,r2 or add r0,r2,r1; sltu r3,r0,r1                             *)
Swapped(i0) ==
  IF i0.rd = i0.rs1 /\ i0.rd # i0.rs2
  THEN [i0 EXCEPT !.rs1 = i0.rs2, !.rs2 = i0.rs1] ELSE i0
(* Mutant: the sum may overwrite the addend it is compared with.           *)
RuleAdcsOverwriting(i0, i1) ==
  i1.op = "SLTU" /\ i1.rs1 = i0.rd /\ i1.rs2 = i0.rs1 /\ i0.rd # ZERO

RuleAdcs(i0, i1) ==
  /\ i1.op = "SLTU" /\ i1.rs1 = i0.rd /\ i1.rs2 = i0.rs1
  /\ i0.rd # i0.rs1 /\ i0.rd # ZERO

(* sub b,a,b; sltu d,a,b; sub a,b,c; sltu c,b,a; or b,c,d.  The test that  *)
(* should find b again in next compares next.rs2 with itself.              *)
RuleSbb(head, next, neck, body, tail) ==
  /\ head.rd = head.rs2 /\ head.rs1 # head.rs2
  /\ next.op = "SLTU" /\ next.rd \notin {head.rs1, head.rs2}
  /\ next.rs1 = head.rs1 /\ next.rs2 = next.rs2
  /\ neck.op = "SUB" /\ neck.rd = head.rs1 /\ neck.rs1 = head.rs2
  /\ neck.rs2 \notin {head.rs1, head.rs2, next.rd}
  /\ body.op = "SLTU" /\ body.rd = neck.rs2 /\ body.rs1 = head.rs2 /\ body.rs2 = head.rs1
  /\ tail.op = "OR" /\ tail.rd = head.rd /\ tail.rs1 = neck.rs2 /\ tail.rs2 = next.rd
  /\ ZERO \notin {head.rs1, head.rs2, neck.rs2, next.rd}

(* sub r0,r1,r2; sltu r3,r1,r2                                             *)
RuleSbbs(i0, i1) ==
  /\ i1.op = "SLTU" /\ i1.rs1 = i0.rs1 /\ i1.rs2 = i0.rs2
  /\ i0.rd # i0.rs1 /\ i0.rd # i0.rs2

WrappingI32(x) == SignedLow(x, WORD)
IsI32(x)       == x \in -(2^(WORD - 1)) .. 2^(WORD - 1) - 1

(* A jump through the register that head has just loaded, linking in RA.   *)
RuleFarJump(head, next, version) ==
  /\ next.op = "JALR_VERSION1" /\ next.rs1 = head.rd /\ next.rd = RA
  /\ version >= 2 => next.rs1 = RA

RuleLuiAddiw(head, next) ==
  next.op = "ADDIW" /\ next.rs1 = next.rd /\ next.rd = head.rd

(* The sum with the pc is computed when the code is decoded.               *)
RuleAuipcAddi(head, next, pc, version) ==
  /\ version >= 2 /\ next.op = "ADDI" /\ next.rs1 = next.rd /\ next.rd = head.rd
  /\ IsI32(pc) /\ IsI32(head.imm + next.imm) /\ IsI32(head.imm + next.imm + pc)

(* From version 2 on a relative jump is fused when the sum does not        *)
(* overflow.                                                               *)
RuleAuipcJalr(head, next, version) ==
  /\ RuleFarJump(head, next, version)
  /\ version >= 2 => IsI32(head.imm + next.imm)

(* The instruction that makes a pair with the opcode, and the pair.        *)
WideProducts ==
  [MULH   |-> <<"MUL", "WIDE_MUL">>,
   MULHU  |-> <<"MUL", "WIDE_MULU">>,
   MULHSU |-> <<"MUL", "WIDE_MULSU">>]
WideQuotients ==
  [DIV    |-> <<"REM", "WIDE_DIV">>,
   DIVU   |-> <<"REMU", "WIDE_DIVU">>]
Wides ==
  [op \in DOMAIN WideProducts \cup DOMAIN WideQuotients |->
     IF op \in DOMAIN WideProducts THEN WideProducts[op] ELSE WideQuotients[op]]

RuleWide(head, next) ==
  /\ next.op = Wides[head.op][1]
  /\ head.rd \notin {head.rs1, head.rs2}
  /\ head.rs1 = next.rs1 /\ head.rs2 = next.rs2 /\ head.rd # next.rd

(* The instructions that follow one another from pc on.                    *)
Window(code, pc) ==
  LET head == Raw(code, pc)
      next == Raw(code, pc + head.len)
      neck == Raw(code, pc + head.len + next.len)
      body == Raw(code, pc + head.len + next.len + neck.len)
      tail == Raw(code, pc + head.len + next.len + neck.len + body.len)
  IN  <<head, next, neck, body, tail>>

(* A fused instruction is as long as the first n of a window together.     *)
LengthOf(w, n) ==
  w[1].len + w[2].len + (IF n > 2 THEN w[3].len ELSE 0) + (IF n > 3 THEN w[4].len + w[5].len ELSE 0)
Fused(inst, w, n) == [inst EXCEPT !.len = LengthOf(w, n)]

(* The first rule that matches decides.                                    *)
DecodeAdd(w, version) ==
  LET head == w[1]  next == w[2]  neck == w[3]  body == w[4]  tail == w[5]
      swap == Swapped(head)
  IN  IF RuleAdc(head, next, neck, body, tail)
      THEN Fused(Rtype("ADC", head.rd, next.rd, body.rd), w, 5)
      ELSE IF version < 2 THEN head
      ELSE IF RuleAdd3a(head, next, neck)
      THEN Fused(R5type("ADD3A", head.rd, head.rs1, next.rd, neck.rd, neck.rs2), w, 3)
      ELSE IF RuleAdd3b(head, next, neck)
      THEN Fused(R5type("ADD3B", head.rd, head.rs1, head.rs2, neck.rd, neck.rs2), w, 3)
      ELSE IF RuleAdd3c(head, next, neck)
      THEN Fused(R5type("ADD3C", head.rd, head.rs1, head.rs2, next.rd, neck.rs2), w, 3)
      ELSE IF RuleAdcs(swap, next)
      THEN Fused(R4type("ADCS", swap.rd, swap.rs1, swap.rs2, next.rd), w, 2)
      ELSE head

DecodeSub(w, version) ==
  LET head == w[1]  next == w[2]  neck == w[3]  body == w[4]  tail == w[5]
  IN  IF RuleSbb(head, next, neck, body, tail)
      THEN Fused(R4type("SBB", head.rs1, head.rs2, neck.rs2, next.rd), w, 5)
      ELSE IF version >= 2 /\ RuleSbbs(head, next)
      THEN Fused(R4type("SBBS", head.rd, head.rs1, head.rs2, next.rd), w, 2)
      ELSE head

DecodeLui(w, version) ==
  LET head == w[1]  next == w[2]  sum == WrappingI32(head.imm + next.imm)
  IN  CASE RuleFarJump(head, next, version) -> Fused(Utype("FAR_JUMP_ABS", RA, sum), w, 2)
        [] RuleLuiAddiw(head, next) -> Fused(Utype("CUSTOM_LOAD_IMM", head.rd, sum), w, 2)
        [] OTHER -> head

DecodeAuipc(w, pc, version) ==
  LET head == w[1]  next == w[2]  sum == WrappingI32(head.imm + next.imm)
  IN  CASE RuleAuipcJalr(head, next, version) -> Fused(Utype("FAR_JUMP_REL", RA, sum), w, 2)
        [] RuleAuipcAddi(head, next, pc, version) ->
             Fused(Utype("CUSTOM_LOAD_IMM", head.rd, sum + pc), w, 2)
        [] OTHER -> head

DecodeWide(w) ==
  LET head == w[1]  next == w[2]
  IN  IF RuleWide(head, next)
      THEN Fused(R4type(Wides[head.op][2], head.rd, head.rs1, head.rs2, next.rd), w, 2)
      ELSE head

DecodeMop(code, pc, version) ==
  LET w == Window(code, pc)
  IN  CASE w[1].op = "ADD"           -> DecodeAdd(w, version)
        [] w[1].op = "SUB"           -> DecodeSub(w, version)
        [] w[1].op = "LUI"           -> DecodeLui(w, version)
        [] w[1].op = "AUIPC"         -> DecodeAuipc(w, pc, version)
        [] w[1].op \in DOMAIN Wides  -> DecodeWide(w)
        [] OTHER                     -> w[1]
================================================================================
