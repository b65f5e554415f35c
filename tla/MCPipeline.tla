------------------------------- MODULE MCPipeline -------------------------------
(***************************************************************************)
(* Registers of 16 bits, so that a byte has 2, a word and an i32 have 8, a *)
(* 12-bit immediate 4 and a memory of 64 bytes ends well below 2^31.       *)
(***************************************************************************)
EXTENDS Pipeline, WordDecoder

MCReadOnly == 16 .. 31

(* The instructions of a template name roles 1 .. n; an assignment gives   *)
(* the roles registers, x0 or one of n others, the first use of which is   *)
(* in increasing order.                                                    *)
Assignments(n) ==
  {f \in [1 .. n -> 0 .. n] :
     \A k \in 1 .. n : f[k] <= 1 + Max({0} \cup {f[j] : j \in 1 .. k - 1})}
Distinct(n) == [k \in 1 .. n |-> k]

T(op, rd, rs1, rs2) == <<op, rd, rs1, rs2>>

(* Every fusion rule: an instance on distinct roles.                       *)
Sums ==
  {<<T("ADD", 1, 1, 2), T("SLTU", 2, 1, 2), T("ADD", 1, 1, 3), T("SLTU", 3, 1, 3), T("OR", 2, 2, 3)>>,
   <<T("ADD", 1, 2, 1), T("SLTU", 3, 1, 2), T("ADD", 4, 3, 5)>>,
   <<T("ADD", 1, 2, 3), T("SLTU", 2, 1, 2), T("ADD", 4, 2, 5)>>,
   <<T("ADD", 1, 2, 3), T("SLTU", 4, 1, 2), T("ADD", 4, 4, 5)>>,
   <<T("ADD", 1, 2, 3), T("SLTU", 4, 1, 2)>>,
   <<T("ADD", 1, 3, 2), T("SLTU", 4, 1, 2)>>,
   <<T("SUB", 1, 2, 3), T("SLTU", 4, 2, 3)>>}
Borrow ==
  <<T("SUB", 2, 1, 2), T("SLTU", 4, 1, 2), T("SUB", 1, 2, 3), T("SLTU", 3, 2, 1), T("OR", 2, 3, 4)>>
Pairs ==
  {<<T(op, 1, 2, 3), T(Wides[op][1], 4, 2, 3)>> : op \in DOMAIN Wides}

Roles(t) == UNION {{t[k][2], t[k][3], t[k][4]} : k \in DOMAIN t}

(* A template with other registers, and with one operand of one            *)
(* instruction replaced.                                                   *)
Assigned(t) ==
  {[k \in DOMAIN t |-> Rtype(t[k][1], f[t[k][2]], f[t[k][3]], f[t[k][4]])] :
     f \in Assignments(Max(Roles(t)))}
Perturbed(t) ==
  {[t EXCEPT ![k][s] = r] : k \in DOMAIN t, s \in 2 .. 4, r \in Roles(t) \cup {0}}
AsInstructions(t) == [k \in DOMAIN t |-> Rtype(t[k][1], t[k][2], t[k][3], t[k][4])]
Fusible(t) == Assigned(t) \cup {AsInstructions(p) : p \in Perturbed(t)}

(* The second sltu or sub of a borrow has an operand too many if the rule  *)
(* never looks at it.                                                      *)
Unchecked(t) == t[2].rs2 # t[1].rs2
Borrows == Fusible(Borrow)

Uppers == {-128, -16, 0, 16, 112}
Lowers == {-8, -1, 0, 7}
Loads ==
  {<<Utype(u, f[1], x), Itype(op, f[2], f[3], y)>> :
     u \in {"LUI", "AUIPC"}, op \in {"ADDI", "ADDIW", "JALR_VERSION1"},
     x \in Uppers, y \in Lowers, f \in Assignments(3)}

ProgramSet(insts, pcs, versions, values) ==
  [insts : insts, pc : pcs, version : versions, values : values]

CarryValues ==
  {<<1, 65535, 1, 65535, 1>>, <<65535, 1, 2, 65535, 65535>>, <<65535, 65535, 65535, 1, 0>>,
   <<32768, 7, 32769, 1, 3>>, <<0, 0, 1, 1, 1>>}

(* Compressed instructions are two bytes long.                             *)
Shortened(insts) == [insts EXCEPT ![1].len = 2]

FusionPrograms ==
  <<ProgramSet(UNION {Fusible(t) : t \in Sums \cup Pairs} \cup {b \in Borrows : ~Unchecked(b)},
               {0}, {1, 2}, CarryValues),
    ProgramSet({Shortened(g) : g \in Loads}, {0}, {1, 2}, {<<1, 2>>}),
    ProgramSet(Loads, {40}, {1, 2}, {<<1, 2>>})>>

Operands == {0, 1, 2, 127, 128, 255, 256, 32767, 32768, 65280, 65535}
Addresses == {0, 7, 15, 28, 30, 31, 56, 60, 62, 63, 64, 65535}

(* Every instruction with a value for rd, with registers that alias and    *)
(* with all pairs of operands.                                             *)
ImmediatesOf(op) ==
  IF op \in ShiftImmediateOps \cup BitImmediateOps THEN {0, 1, 7} ELSE {-8, 0, 7}
Single(op, f) ==
  IF op \in ImmediateOps \cup ShiftImmediateOps \cup BitImmediateOps
  THEN {Itype(op, f[1], f[2], y) : y \in ImmediatesOf(op)}
  ELSE {Rtype(op, f[1], f[2], f[3])}
ValuePrograms ==
  <<ProgramSet({<<i>> : i \in UNION {Single(op, f) : op \in ValueOps, f \in Assignments(3)}},
               {0}, {1}, {<<1, 65535, 128>>, <<32768, 255, 3>>}),
    ProgramSet({<<i>> : i \in UNION {Single(op, Distinct(3)) : op \in ValueOps}},
               {0}, {1}, {5} \X Operands \X Operands)>>

MemoryInstructions(f) ==
  {Itype(op, f[1], f[2], 1) : op \in DOMAIN LoadShape}
    \cup {Stype(op, -1, f[1], f[2]) : op \in DOMAIN StoreBytes}
    \cup {Rtype(op, f[1], f[2], f[3]) : op \in AmoWOps \cup AmoDOps \cup DOMAIN ReservationBytes}
Version0(i) == i.op = "JALR_VERSION0" \/ (i.op \in DOMAIN LoadShape /\ LoadShape[i.op][3])
InVersions(insts, pcs, values) ==
  <<ProgramSet({<<i>> : i \in {j \in insts : Version0(j)}}, pcs, {0}, values),
    ProgramSet({<<i>> : i \in {j \in insts : ~Version0(j)}}, pcs, {1}, values)>>
MemoryPrograms ==
  InVersions(UNION {MemoryInstructions(f) : f \in Assignments(3)},
             {0}, {0, 40} \X Addresses \X {49152})

JumpInstructions(f) ==
  {Stype(op, y, f[1], f[2]) : op \in BranchOps, y \in {-8, 6}}
    \cup {Utype(op, f[1], y) : op \in {"JAL", "LUI", "AUIPC"}, y \in {-16, 16}}
    \cup {Itype(op, f[1], f[2], y) : op \in {"JALR_VERSION0", "JALR_VERSION1"}, y \in {-8, 7}}
    \cup {Rtype(op, 0, 0, 0) : op \in {"EBREAK", "FENCE", "FENCEI", "UNLOADED"}}
JumpPrograms ==
  InVersions({[i EXCEPT !.len = n] :
                i \in UNION {JumpInstructions(f) : f \in Assignments(2)}, n \in {2, 4}},
             {8}, {<<20, 9>>, <<65535, 8>>, <<9, 9>>})

(* Reservations at 4 (in x1) and 8 (in x2); 20 (x3) cannot be written and  *)
(* 62 (x4) ends outside.                                                   *)
ReservationInstructions ==
  {Rtype("LR_W", 6, 1, 0), Rtype("LR_D", 6, 2, 0), Rtype("LR_W", 6, 3, 0), Rtype("LR_D", 6, 4, 0),
   Rtype("SC_W", 6, 1, 5), Rtype("SC_D", 6, 2, 5), Rtype("SC_W", 6, 3, 5), Rtype("SC_W", 6, 4, 5),
   Stype("SB", 0, 1, 5)}
ReservationPrograms ==
  <<ProgramSet([1 .. 4 -> ReservationInstructions], {0}, {1}, {<<4, 8, 20, 62, 49153>>})>>

MCPrograms ==
  FusionPrograms \o ValuePrograms \o MemoryPrograms \o JumpPrograms \o ReservationPrograms

MCNoFetches == <<>>

(* A borrow that compares with any register.                               *)
MCSbbPrograms == <<ProgramSet(Borrows, {0}, {1, 2}, CarryValues)>>

--------------------------------------------------------------------------------
(* Words.  The fields of a sample take every value that some factory looks *)
(* for, each bit alone, all and none.                                      *)

Bytes(w) == <<w.lo % 256, w.lo \div 256, w.hi % 256, w.hi \div 256>>

(* A memory with a word at pc and the same byte everywhere else.           *)
Memory(size, pc, w, rest) ==
  [a \in 0 .. size - 1 |-> IF a \in pc .. pc + 3 THEN Bytes(w)[a - pc + 1] ELSE rest]

ShortWords ==
  {[lo |-> q + 4 * low + 128 * r + 4096 * b12 + 8192 * f3, hi |-> 0] :
     q \in 0 .. 2, low \in {0, 1, 2, 4, 8, 16, 24, 31}, r \in {0, 1, 2, 4, 8, 16, 24, 31},
     b12 \in {0, 1}, f3 \in 0 .. 7}

(* A full word of its opcode, rd, funct3, rs1, rs2 and funct7.             *)
FullWord(op, rd, f3, rs1, rs2, f7) ==
  [lo |-> op + 128 * rd + 4096 * f3 + 32768 * (rs1 % 2),
   hi |-> rs1 \div 2 + 16 * rs2 + 512 * f7]
(* Some opcodes leave funct7 and rs2 to an immediate.                      *)
WordsOf(ops, rs2s, f7s) ==
  {FullWord(op, 5, f3, 10, rs2, f7) : op \in ops, f3 \in 0 .. 7, rs2 \in rs2s, f7 \in f7s}
Keyed == {19, 27, 47, 51, 59}
Funct7s == {0, 1, 2, 4, 5, 8, 16, 20, 32, 36, 48, 49, 52, 53, 64, 96, 112, 127}
FewWords == WordsOf(Keyed, {0, 24}, Funct7s)
FullWords ==
  WordsOf(Keyed, {0, 1, 2, 4, 5, 7, 24, 31}, Funct7s)
    \cup WordsOf({3, 23, 35, 55, 99, 103, 111, 115}, {0, 1, 8, 31}, {0, 1, 32, 64, 127})
    \cup {FullWord(op, 0, f3, 0, rs2, f7) :
            op \in {15, 115}, f3 \in {0, 1}, rs2 \in {0, 1, 15, 31}, f7 \in {0, 1, 7, 127}}

AllIsa == {"ISA_A", "ISA_B"}
WordFetches(words, isas, versions, bits) ==
  [bytes : {Memory(8, 0, w, 0) : w \in words}, executable : {{0}}, pc : {0},
   isa : isas, version : versions, bits : bits]

(* Memories of two pages: at an even pc a compressed or a full word and    *)
(* anything behind it, on pages of which none, one or both may execute.    *)
EdgeWords == {[lo |-> 1, hi |-> 0], [lo |-> 4 * 9 + 2 + 128, hi |-> 65535],
              FullWord(19, 1, 0, 1, 1, 0), FullWord(47, 1, 0, 1, 1, 0)}
EdgeFetches(pc) ==
  [bytes : {Memory(16, pc, w, after) : w \in EdgeWords, after \in {0, 255}},
   executable : SUBSET {0, 1}, pc : {pc}, isa : {{}, AllIsa}, version : {0, 1}, bits : {64}]

MCFetches ==
  <<WordFetches(ShortWords, {{}}, {0, 1, 2}, {64}),
    WordFetches(ShortWords, {{}}, {1}, {32}),
    WordFetches(FullWords, {AllIsa}, {1}, {64}),
    WordFetches(FewWords, {AllIsa}, {0}, {64}),
    WordFetches(FewWords, {AllIsa}, {1}, {32}),
    WordFetches(FewWords, {{}, {"ISA_A"}, {"ISA_B"}}, {1}, {64})>>
    \o [k \in 1 .. 9 |-> EdgeFetches(2 * (k - 1))]

(* Either a program runs or a word is decoded.                             *)
NoProgram == code = <<>> /\ version = 1 /\ m = [Machine(0, <<>>) EXCEPT !.err = "not loaded"]
NoWordToDecode == fetch = <<>> /\ decoded = Pending
MCInit == (Init /\ NoWordToDecode) \/ (NoProgram /\ WordInit)
MCNext ==
  \/ fetch = <<>> /\ Next /\ UNCHANGED wordVars
  \/ fetch # <<>> /\ Decode /\ UNCHANGED vars
MCSpec == MCInit /\ [][MCNext]_<<vars, wordVars>>

(* "a series of adjacent macro-operations are merged into a single         *)
(* macro-operation": what a step of the machine does is what one to five   *)
(* adjacent instructions do, also where a borrow's first comparison is     *)
(* with another register than the subtraction's (decoder.rs: rule_sbb).    *)
MergesAdjacentOperations == FusedAsSequence
================================================================================
