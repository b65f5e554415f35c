--------------------------- MODULE WordDecoderProofs ---------------------------
(***************************************************************************)
(* What is proved of decoding a word, for every memory, pc, version and    *)
(* set of extensions.                                                      *)
(***************************************************************************)
EXTENDS WordDecoder, RegisterProofs

--------------------------------------------------------------------------------
(* Reading the bytes.                                                      *)

(* A memory of whole pages, and an even pc.                                *)
Size(f) == Cardinality(DOMAIN f.bytes)
FetchOK(f) ==
  /\ Size(f) \in Nat /\ Size(f) % RISCV_PAGESIZE = 0
  /\ f.bytes \in [0 .. Size(f) - 1 -> 0 .. 255]
  /\ f.pc \in Nat /\ f.pc % 2 = 0
  /\ f.version \in 0 .. 2 /\ f.bits \in {32, 64}

DecodedInv == FetchOK(fetch) /\ decoded \in {Pending, DecodeRaw(fetch)}

LEMMA DecodedInvariant == WordSpec => []DecodedInv
<1>1. WordInit => DecodedInv
  BY FetchesAssumption DEF WordInit, DecodedInv, FetchOK, Size
<1>2. DecodedInv /\ [Decode]_wordVars => DecodedInv'
  BY DEF DecodedInv, Decode, wordVars
<1> QED
  BY <1>1, <1>2, PTL DEF WordSpec

(* Two addresses of which the first is even are on a page together, and    *)
(* four are if the first two are not the last of it.                       *)
LEMMA SamePage ==
  ASSUME NEW P \in Nat, P > 0, P % 2 = 0, NEW a \in Nat, a % 2 = 0
  PROVE  /\ (a + 1) \div P = a \div P
         /\ a % P < P - 2 => (a + 2) \div P = a \div P /\ (a + 3) \div P = a \div P
         /\ a % P < P - 2 => (a % P) + 4 <= P
<1> DEFINE q == a \div P  r == a % P  h == P \div 2
<1>1. q \in Int /\ r \in 0 .. P - 1 /\ a = P * q + r
  BY ModIn
<1>2. h \in Nat /\ P = 2 * h
  OBVIOUS
<1>3. r % 2 = 0
  <2>1. a = 2 * (h * q) + r /\ h * q \in Int
    BY <1>1, <1>2
  <2> DEFINE b == h * q
  <2> HIDE DEF b, q, r, h
  <2>2. a = 2 * b + r /\ b \in Int /\ r \in Int
    BY <1>1, <2>1 DEF b
  <2> QED
    BY <2>2
<1> HIDE DEF q, r, h
<1>4. r <= P - 2
  BY <1>1, <1>2, <1>3
<1>5. r < P - 2 => r + 4 <= P
  BY <1>1, <1>2, <1>3
<1>6. ASSUME NEW k \in Nat, r + k < P PROVE (a + k) \div P = q
  <2>1. a + k = P * q + (r + k) /\ r + k \in 0 .. P - 1
    BY <1>1, <1>6
  <2> QED
    BY <1>1, <2>1, DivisionIsUnique
<1>7. r + 1 < P
  BY <1>1, <1>4
<1>8. r < P - 2 => r + 2 < P /\ r + 3 < P
  BY <1>1, <1>5
<1> QED
  BY <1>5, <1>6, <1>7, <1>8 DEF q, r

(* A memory of whole pages does not end within a page.                     *)
LEMMA WithinMemory ==
  ASSUME NEW P \in Nat, P > 0, P % 2 = 0, NEW n \in Nat, n % P = 0,
         NEW a \in Nat, a < n, a % 2 = 0
  PROVE  /\ a + 2 <= n
         /\ a % P < P - 2 => a + 4 <= n
<1> DEFINE q == a \div P  r == a % P  d == n \div P
<1>1. q \in Int /\ r \in 0 .. P - 1 /\ a = P * q + r
  BY ModIn
<1>2. d \in Int /\ n = P * d
  BY ModIn
<1>3. r <= P - 2
  <2>1. (a + 1) \div P = q
    BY SamePage
  <2>2. CASE r = P - 1
    <3>1. a + 1 = P * (q + 1) + 0 /\ 0 \in 0 .. P - 1 /\ q + 1 \in Int
      BY <1>1, <2>2
    <3>2. (a + 1) \div P = q + 1
      BY <3>1, DivisionIsUnique
    <3> QED
      BY <1>1, <2>1, <3>2
  <2> QED
    BY <1>1, <2>2
<1>4. r < P - 2 => r + 4 <= P
  BY SamePage
<1> HIDE DEF q, r, d
<1>5. q < d
  <2> SUFFICES ASSUME q >= d PROVE FALSE
    BY <1>1, <1>2
  <2>1. P * q >= P * d
    BY <1>1, <1>2
  <2> QED
    BY <1>1, <1>2, <2>1
<1>6. P * d >= P * q + P
  <2>1. P * (q + 1) <= P * d
    BY <1>1, <1>2, <1>5
  <2> QED
    BY <1>1, <1>2, <2>1
<1> QED
  BY <1>1, <1>2, <1>3, <1>4, <1>6 DEF r

(* What a refused load of n bytes at a is refused for.                     *)
LEMMA RefusalIs ==
  ASSUME NEW f, FetchOK(f), NEW a \in Nat, NEW n \in Nat, n > 0
  PROVE  /\ Refusal(f, a, n) \in {"MemOutOfBound", "MemWriteOnExecutablePage", "none"}
         /\ Refusal(f, a, n) = "none" <=>
              \A c \in a .. a + n - 1 :
                c \in DOMAIN f.bytes /\ c \div RISCV_PAGESIZE \in f.executable
<1> DEFINE s == Cardinality(DOMAIN f.bytes)
<1>1. s \in Nat /\ DOMAIN f.bytes = 0 .. s - 1
  BY DEF FetchOK, Size
<1>2. a + n <= s <=> \A c \in a .. a + n - 1 : c \in DOMAIN f.bytes
  <2>1. a + n - 1 \in a .. a + n - 1
    OBVIOUS
  <2> HIDE DEF s
  <2> QED
    BY <1>1, <2>1
<1> DEFINE open == \A c \in a .. a + n - 1 : c \div RISCV_PAGESIZE \in f.executable
<1>3. Refusal(f, a, n) = IF a + n > s THEN "MemOutOfBound"
                         ELSE IF open THEN "none" ELSE "MemWriteOnExecutablePage"
  <2>1. s \in Nat
    BY <1>1
  <2>2. (\E c \in a .. a + n - 1 : c \div RISCV_PAGESIZE \notin f.executable) <=> ~open
    OBVIOUS
  <2> HIDE DEF open
  <2>3. a + n > s <=> ~(a + n <= s)
    BY <2>1
  <2> QED
    BY <2>2, <2>3 DEF Refusal
<1> HIDE DEF s
<1>4. a + n > s <=> ~(a + n <= s)
  BY <1>1
<1> QED
  BY <1>2, <1>3, <1>4

(* A load within an even pair, and within two of one page, is of bytes     *)
(* that are all readable or all not.                                       *)
Open(f, a) == a \in DOMAIN f.bytes /\ a \div RISCV_PAGESIZE \in f.executable

(* The bytes of the instruction at the pc: the first two say how many.     *)
BytesOf(f) ==
  IF f.pc + 1 \in DOMAIN f.bytes /\ ~Compressed(HalfAt(f, f.pc))
  THEN f.pc .. f.pc + 3 ELSE f.pc .. f.pc + 1
AllOpen(f) == \A a \in BytesOf(f) : Open(f, a)
WordAt(f) ==
  [lo |-> HalfAt(f, f.pc),
   hi |-> IF Cardinality(BytesOf(f)) = 4 THEN HalfAt(f, f.pc + 2) ELSE 0]

LEMMA BytesAre ==
  ASSUME NEW f, FetchOK(f), f.pc < Size(f)
  PROVE  /\ f.pc + 1 \in DOMAIN f.bytes
         /\ Compressed(HalfAt(f, f.pc)) =>
              /\ AllOpen(f) <=> Open(f, f.pc) /\ Open(f, f.pc + 1)
              /\ WordAt(f) = [lo |-> HalfAt(f, f.pc), hi |-> 0]
         /\ ~Compressed(HalfAt(f, f.pc)) =>
              /\ AllOpen(f) <=> /\ Open(f, f.pc) /\ Open(f, f.pc + 1)
                                /\ Open(f, f.pc + 2) /\ Open(f, f.pc + 3)
              /\ WordAt(f) = [lo |-> HalfAt(f, f.pc), hi |-> HalfAt(f, f.pc + 2)]
<1> DEFINE s == Size(f)  P == RISCV_PAGESIZE  pc == f.pc
<1>1. /\ s \in Nat /\ s % P = 0 /\ DOMAIN f.bytes = 0 .. s - 1 /\ pc \in Nat /\ pc % 2 = 0
      /\ P \in Nat /\ P > 0 /\ P % 2 = 0 /\ pc < s
  BY FetchesAssumption DEF FetchOK
<1> HIDE DEF s, P, pc
<1>2. pc + 2 <= s
  BY <1>1, WithinMemory
<1>3. pc + 1 \in DOMAIN f.bytes
  BY <1>1, <1>2
<1>4. Cardinality(pc .. pc + 1) = 2 /\ Cardinality(pc .. pc + 3) = 4
  <2> DEFINE b == pc + 1  d == pc + 3
  <2>1. pc \in Int /\ b \in Int /\ d \in Int
    BY <1>1
  <2> HIDE DEF b, d
  <2>2. /\ Cardinality(pc .. b) = (IF pc > b THEN 0 ELSE b - pc + 1)
        /\ Cardinality(pc .. d) = (IF pc > d THEN 0 ELSE d - pc + 1)
    BY <2>1, FS_Interval
  <2> QED
    BY <1>1, <2>2 DEF b, d
<1>5. /\ pc .. pc + 1 = {pc, pc + 1}
      /\ pc .. pc + 3 = {pc, pc + 1, pc + 2, pc + 3}
  BY <1>1
<1>6. BytesOf(f) = IF ~Compressed(HalfAt(f, pc)) THEN pc .. pc + 3 ELSE pc .. pc + 1
  BY <1>3 DEF BytesOf, pc
<1>7. CASE Compressed(HalfAt(f, pc))
  <2>1. BytesOf(f) = {pc, pc + 1} /\ Cardinality(BytesOf(f)) = 2
    BY <1>4, <1>5, <1>6, <1>7
  <2>2. AllOpen(f) <=> Open(f, pc) /\ Open(f, pc + 1)
    BY <2>1 DEF AllOpen
  <2> QED
    BY <1>3, <1>7, <2>1, <2>2 DEF WordAt, pc
<1>8. CASE ~Compressed(HalfAt(f, pc))
  <2>1. BytesOf(f) = {pc, pc + 1, pc + 2, pc + 3} /\ Cardinality(BytesOf(f)) = 4
    BY <1>4, <1>5, <1>6, <1>8
  <2>2. AllOpen(f) <=> Open(f, pc) /\ Open(f, pc + 1) /\ Open(f, pc + 2) /\ Open(f, pc + 3)
    BY <2>1 DEF AllOpen
  <2> QED
    BY <1>3, <1>8, <2>1, <2>2 DEF WordAt, pc
<1> QED
  BY <1>7, <1>8 DEF pc

(* Both ways of reading find what is to be found.                          *)
LEMMA BitsAre ==
  ASSUME NEW f, FetchOK(f), f.pc < Size(f)
  PROVE  /\ DecodeBits(f).err \in {"MemOutOfBound", "MemWriteOnExecutablePage", "none"}
         /\ DecodeBits(f).err = "none" <=> AllOpen(f)
         /\ DecodeBits(f).err = "none" => DecodeBits(f).word = WordAt(f)
<1> DEFINE P == RISCV_PAGESIZE  pc == f.pc  lo == HalfAt(f, pc)
           e4 == Refusal(f, pc, 4)  e2 == Refusal(f, pc, 2)  e22 == Refusal(f, pc + 2, 2)
<1>1. /\ Size(f) \in Nat /\ Size(f) % P = 0 /\ DOMAIN f.bytes = 0 .. Size(f) - 1
      /\ pc \in Nat /\ pc % 2 = 0 /\ P \in Nat /\ P > 0 /\ P % 2 = 0 /\ pc < Size(f)
  BY FetchesAssumption DEF FetchOK
<1> DEFINE errs == {"MemOutOfBound", "MemWriteOnExecutablePage", "none"}
<1>2. /\ e4 \in errs /\ e2 \in errs /\ e22 \in errs
      /\ e4 = "none" <=> /\ Open(f, pc) /\ Open(f, pc + 1) /\ Open(f, pc + 2) /\ Open(f, pc + 3)
      /\ e2 = "none" <=> Open(f, pc) /\ Open(f, pc + 1)
      /\ e22 = "none" <=> Open(f, pc + 2) /\ Open(f, pc + 3)
  <2>1. /\ pc .. pc + 4 - 1 = {pc, pc + 1, pc + 2, pc + 3}
        /\ pc .. pc + 2 - 1 = {pc, pc + 1}
        /\ (pc + 2) .. (pc + 2) + 2 - 1 = {pc + 2, pc + 3}
    <3>1. pc \in Nat
      BY <1>1
    <3> HIDE DEF pc
    <3> QED
      BY <3>1
  <2> DEFINE n4 == 4  n2 == 2  p2 == pc + 2
  <2>2. n4 \in Nat /\ n2 \in Nat /\ n4 > 0 /\ n2 > 0 /\ p2 \in Nat /\ pc \in Nat
    BY <1>1
  <2> HIDE DEF n4, n2, p2, pc
  <2>3. /\ Refusal(f, pc, n4) \in errs
        /\ Refusal(f, pc, n4) = "none" <=> \A c \in pc .. pc + n4 - 1 : Open(f, c)
        /\ Refusal(f, pc, n2) \in errs
        /\ Refusal(f, pc, n2) = "none" <=> \A c \in pc .. pc + n2 - 1 : Open(f, c)
        /\ Refusal(f, p2, n2) \in errs
        /\ Refusal(f, p2, n2) = "none" <=> \A c \in p2 .. p2 + n2 - 1 : Open(f, c)
    BY <2>2, RefusalIs DEF Open
  <2> QED
    BY <2>1, <2>3 DEF n4, n2, p2
<1>3. /\ Compressed(lo) => (AllOpen(f) <=> Open(f, pc) /\ Open(f, pc + 1))
      /\ Compressed(lo) => WordAt(f) = [lo |-> lo, hi |-> 0]
      /\ ~Compressed(lo) => (AllOpen(f) <=> /\ Open(f, pc) /\ Open(f, pc + 1)
                                            /\ Open(f, pc + 2) /\ Open(f, pc + 3))
      /\ ~Compressed(lo) => WordAt(f) = [lo |-> lo, hi |-> HalfAt(f, pc + 2)]
  BY BytesAre
<1>4. CASE pc % P < P - 2
  <2>1. pc + 4 <= Size(f) /\ (pc + 1) \div P = pc \div P /\ (pc + 2) \div P = pc \div P
        /\ (pc + 3) \div P = pc \div P
    <3> HIDE DEF P, pc
    <3> QED
      BY <1>1, <1>4, WithinMemory, SamePage
  <2>2. /\ Open(f, pc) <=> Open(f, pc + 1)
        /\ Open(f, pc) <=> Open(f, pc + 2)
        /\ Open(f, pc) <=> Open(f, pc + 3)
    <3>1. pc \in DOMAIN f.bytes /\ pc + 1 \in DOMAIN f.bytes /\ pc + 2 \in DOMAIN f.bytes
          /\ pc + 3 \in DOMAIN f.bytes
      <4> DEFINE n == Size(f)
      <4>1. n \in Nat /\ DOMAIN f.bytes = 0 .. n - 1 /\ pc \in Nat /\ pc + 4 <= n
        BY <1>1, <2>1
      <4> HIDE DEF P, pc, n
      <4> QED
        BY <4>1
    <3> QED
      BY <2>1, <3>1 DEF Open
  <2>3. DecodeBits(f) = IF e4 # "none" THEN [err |-> e4, word |-> NoWord]
                        ELSE [err |-> e4, word |-> [lo |-> lo,
                                hi |-> IF Compressed(lo) THEN 0 ELSE HalfAt(f, pc + 2)]]
    BY <1>4 DEF DecodeBits, DecodeBitsFast
  <2> HIDE DEF lo, e4, pc
  <2>4. DecodeBits(f).err = e4
    BY <2>3
  <2>5. e4 = "none" => DecodeBits(f).word =
          [lo |-> lo, hi |-> IF Compressed(lo) THEN 0 ELSE HalfAt(f, pc + 2)]
    BY <2>3
  <2> QED
    BY <1>2, <1>3, <2>2, <2>4, <2>5
<1>5. CASE ~(pc % P < P - 2)
  <2>1. DecodeBits(f) = DecodeBitsSlow(f)
    BY <1>5 DEF DecodeBits
  <2>2. CASE e2 # "none"
    <3>1. DecodeBits(f) = [err |-> e2, word |-> NoWord]
      BY <2>1, <2>2 DEF DecodeBitsSlow
    <3> QED
      BY <1>2, <1>3, <2>2, <3>1
  <2>3. CASE e2 = "none" /\ Compressed(lo)
    <3>1. DecodeBits(f) = [err |-> e2, word |-> [lo |-> lo, hi |-> 0]]
      BY <2>1, <2>3 DEF DecodeBitsSlow
    <3> QED
      BY <1>2, <1>3, <2>3, <3>1
  <2>4. CASE e2 = "none" /\ ~Compressed(lo) /\ e22 # "none"
    <3>1. DecodeBits(f) = [err |-> e22, word |-> NoWord]
      BY <2>1, <2>4 DEF DecodeBitsSlow
    <3> QED
      BY <1>2, <1>3, <2>4, <3>1
  <2>5. CASE e2 = "none" /\ ~Compressed(lo) /\ e22 = "none"
    <3>1. DecodeBits(f) = [err |-> e22, word |-> [lo |-> lo, hi |-> HalfAt(f, pc + 2)]]
      BY <2>1, <2>5 DEF DecodeBitsSlow
    <3> QED
      BY <1>2, <1>3, <2>5, <3>1
  <2> QED
    BY <2>2, <2>3, <2>4, <2>5
<1> QED
  BY <1>4, <1>5

(* Whichever path decode_bits takes, and whatever lies behind the          *)
(* instruction, reading fails exactly when a byte of the instruction is    *)
(* outside memory or not executable, and what is decoded is these bytes.   *)
THEOREM FetchesExactly == WordSpec => []FetchReadsTheInstruction
<1>1. DecodedInv => FetchReadsTheInstruction
  <2> SUFFICES ASSUME DecodedInv, decoded # Pending PROVE FetchReadsTheInstruction
    BY DEF FetchReadsTheInstruction
  <2> DEFINE f == fetch  answer == FirstAnswer(f.isa, WordAt(f), f.version, f.bits)
             failures == {"MemOutOfBound", "MemWriteOnExecutablePage"}
  <2>1. FetchOK(f) /\ decoded = DecodeRaw(f)
    BY DEF DecodedInv
  <2>2. Readable <=> AllOpen(f)
    BY DEF Readable, InstructionBytes, AllOpen, BytesOf, Open
  <2>3. (decoded.err \in failures <=> ~AllOpen(f)) /\ (AllOpen(f) => decoded.insts = answer)
    <3>1. CASE f.pc >= Size(f)
      <4>1. decoded = Failed("MemOutOfBound")
        <5>1. ~(f.pc < Cardinality(DOMAIN f.bytes)) /\ f.pc >= Cardinality(DOMAIN f.bytes)
          BY <2>1, <3>1 DEF FetchOK, Size
        <5> QED
          BY <2>1, <5>1 DEF DecodeRaw
      <4>2. f.pc \notin DOMAIN f.bytes /\ f.pc \in BytesOf(f)
        BY <2>1, <3>1 DEF FetchOK, BytesOf
      <4> QED
        BY <4>1, <4>2 DEF Failed, AllOpen, Open
    <3>2. CASE f.pc < Size(f)
      <4>1. ~(f.pc >= Cardinality(DOMAIN f.bytes)) /\ f.pc < Cardinality(DOMAIN f.bytes)
        BY <2>1, <3>2 DEF FetchOK, Size
      <4>2. CASE DecodeBits(f).err # "none"
        <5>1. decoded = Failed(DecodeBits(f).err)
          BY <2>1, <4>1, <4>2 DEF DecodeRaw
        <5> QED
          BY <2>1, <3>2, <4>2, <5>1, BitsAre DEF Failed
      <4>3. CASE DecodeBits(f).err = "none"
        <5>1. DecodeBits(f).word = WordAt(f) /\ AllOpen(f)
          BY <2>1, <3>2, <4>3, BitsAre
        <5>2. decoded = [err |-> IF answer = {} THEN "InvalidInstruction" ELSE "none",
                         insts |-> answer]
          BY <2>1, <4>1, <4>3, <5>1 DEF DecodeRaw
        <5> QED
          BY <5>1, <5>2
      <4> QED
        BY <4>2, <4>3
    <3> QED
      BY <2>1, <3>1, <3>2 DEF FetchOK
  <2>4. answer = FirstAnswer(fetch.isa,
                     [lo |-> HalfAt(fetch, fetch.pc),
                      hi |-> IF Cardinality(InstructionBytes) = 4
                             THEN HalfAt(fetch, fetch.pc + 2) ELSE 0],
                     fetch.version, fetch.bits)
    BY DEF WordAt, BytesOf, InstructionBytes
  <2> QED
    BY <2>2, <2>3, <2>4 DEF FetchReadsTheInstruction
<1> QED
  BY <1>1, DecodedInvariant, PTL

--------------------------------------------------------------------------------
(* Which words a factory accepts.                                          *)
WordOK(w) == w.lo \in Nat /\ w.lo < 65536 /\ w.hi \in Nat /\ w.hi < 65536

(* A field within a half.                                                  *)
LEMMA FieldLow ==
  ASSUME NEW w, NEW l \in Nat, NEW n \in Nat, l + n <= 16, n > 0
  PROVE  Field(w, l, n) = (w.lo \div 2^l) % 2^n
<1>1. ~(l >= 16)
  OBVIOUS
<1> QED
  BY <1>1 DEF Field

LEMMA FieldHigh ==
  ASSUME NEW w, NEW l \in Nat, NEW n \in Nat, l >= 16, n > 0
  PROVE  Field(w, l, n) = (w.hi \div 2^(l - 16)) % 2^n
<1>1. ~(l + n <= 16)
  OBVIOUS
<1> QED
  BY <1>1 DEF Field

LEMMA FieldsAre ==
  ASSUME NEW w, WordOK(w)
  PROVE  /\ Opcode(w) = w.lo % 128 /\ Field(w, 0, 2) = w.lo % 4
         /\ Opcode(w) \in Nat /\ Opcode(w) % 4 = Field(w, 0, 2)
         /\ Funct3(w) \in 0 .. 7 /\ Rs2(w) \in 0 .. 31
         /\ Funct7(w) \in Nat /\ Funct7(w) < 128
<1>1. w.lo \in Nat /\ w.hi \in Nat
  BY DEF WordOK
<1> DEFINE lo == w.lo  hi == w.hi  zero == 0  two == 2  three == 3  five == 5  seven == 7
           twelve == 12  twenty == 20  k25 == 25
<1>2. /\ zero \in Nat /\ two \in Nat /\ three \in Nat /\ five \in Nat /\ seven \in Nat
      /\ twelve \in Nat /\ twenty \in Nat /\ k25 \in Nat
      /\ zero + seven <= 16 /\ zero + two <= 16 /\ twelve + three <= 16 /\ twenty >= 16 /\ k25 >= 16
      /\ two > 0 /\ three > 0 /\ five > 0 /\ seven > 0
  OBVIOUS
<1>3. /\ Field(w, zero, seven) = (lo \div 2^zero) % 2^seven
      /\ Field(w, zero, two) = (lo \div 2^zero) % 2^two
      /\ Field(w, twelve, three) = (lo \div 2^twelve) % 2^three
      /\ Field(w, twenty, five) = (hi \div 2^(twenty - 16)) % 2^five
      /\ Field(w, k25, seven) = (hi \div 2^(k25 - 16)) % 2^seven
  <2> HIDE DEF zero, two, three, five, seven, twelve, twenty, k25
  <2> QED
    BY <1>2, FieldLow, FieldHigh
<1>4. /\ Opcode(w) = (lo \div 2^0) % 2^7 /\ Field(w, 0, 2) = (lo \div 2^0) % 2^2
      /\ Funct3(w) = (lo \div 2^12) % 2^3 /\ Rs2(w) = (hi \div 2^4) % 2^5
      /\ Funct7(w) = (hi \div 2^9) % 2^7
  BY <1>3 DEF Opcode, Funct3, Funct7, Rs2
<1>5. lo \in Nat /\ hi \in Nat
  BY <1>1
<1> HIDE DEF lo, hi
<1>6. Opcode(w) = lo % 128 /\ Field(w, 0, 2) = lo % 4
  BY <1>4, <1>5
<1>7. (lo % 128) % 4 = lo % 4
  BY <1>5
<1>8. Funct3(w) \in 0 .. 7 /\ Rs2(w) \in 0 .. 31
  BY <1>4, <1>5
<1>9. Funct7(w) \in Nat /\ Funct7(w) < 128
  BY <1>4, <1>5
<1> QED
  BY <1>5, <1>6, <1>7, <1>8, <1>9 DEF lo

LEMMA KeyIn ==
  ASSUME NEW table, NEW key, Row(table, key) # {}
  PROVE  \E s \in table : s[1] = key
  BY DEF Row

LEMMA MDemands ==
  ASSUME NEW w, NEW version, NEW rv64 \in BOOLEAN, MFactory(w, version, rv64) # {}
  PROVE  Funct7(w) = 1 /\ Opcode(w) \in {51, 59}
  BY DEF MFactory

LEMMA ADemands ==
  ASSUME NEW w, NEW version, NEW rv64 \in BOOLEAN, AFactory(w, version, rv64) # {}
  PROVE  Opcode(w) = 47
  BY DEF AFactory

LEMMA RvcDemands ==
  ASSUME NEW w, WordOK(w), NEW version, NEW rv64 \in BOOLEAN, RvcFactory(w, version, rv64) # {}
  PROVE  Opcode(w) % 4 # 3
<1>1. Opcode(w) % 4 = Field(w, 0, 2)
  BY FieldsAre
<1>2. Field(w, 0, 2) # 3
  BY DEF RvcFactory
<1> QED
  BY <1>1, <1>2

LEMMA BKeys ==
  /\ \A s \in BOf : \/ s[1][2] \in {5, 16, 20, 36, 48, 52}
                    \/ s[1][2] = 32 /\ s[1][1] \in {4, 6, 7}
  /\ \A s \in BWOf : s[1][2] \in {4, 16, 48}
  /\ \A s \in BUnaryOf : s[1][1] \in {20, 48, 53} /\ s[1][2] \in {1, 5}
  /\ \A s \in BImmOf : s[1][1] \in {10, 18, 24, 26} /\ s[1][2] \in {1, 5}
<1>1. \A s \in BOf : \/ s[1][2] \in {5, 16, 20, 36, 48, 52}
                     \/ s[1][2] = 32 /\ s[1][1] \in {4, 6, 7}
  BY DEF BOf
<1>2. \A s \in BWOf : s[1][2] \in {4, 16, 48}
  BY DEF BWOf
<1>3. \A s \in BUnaryOf : s[1][1] \in {20, 48, 53} /\ s[1][2] \in {1, 5}
  BY DEF BUnaryOf
<1>4. \A s \in BImmOf : s[1][1] \in {10, 18, 24, 26} /\ s[1][2] \in {1, 5}
  BY DEF BImmOf
<1> QED
  BY <1>1, <1>2, <1>3, <1>4

LEMMA IKeys ==
  /\ \A s \in AluOf : s[1][2] = 0 \/ (s[1][2] = 32 /\ s[1][1] \in {0, 5})
  /\ \A s \in AluWOf : s[1][2] \in {0, 32}
  /\ \A s \in ShiftOf : s[1][2] \in {0, 16}
  /\ \A s \in ShiftWOf : s[1][2] \in {0, 32}
<1>1. \A s \in AluOf : s[1][2] = 0 \/ (s[1][2] = 32 /\ s[1][1] \in {0, 5})
  BY DEF AluOf
<1>2. \A s \in AluWOf : s[1][2] \in {0, 32}
  BY DEF AluWOf
<1>3. \A s \in ShiftOf : s[1][2] \in {0, 16}
  BY DEF ShiftOf
<1>4. \A s \in ShiftWOf : s[1][2] \in {0, 32}
  BY DEF ShiftWOf
<1> QED
  BY <1>1, <1>2, <1>3, <1>4

LEMMA BDemands ==
  ASSUME NEW w, WordOK(w), NEW version, NEW rv64 \in BOOLEAN, BFactory(w, version, rv64) # {}
  PROVE  \/ Opcode(w) = 59 /\ Funct7(w) \in {4, 16, 48}
         \/ Opcode(w) = 51 /\ \/ Funct7(w) \in {5, 16, 20, 36, 48, 52}
                              \/ Funct7(w) = 32 /\ Funct3(w) \in {4, 6, 7}
         \/ Opcode(w) = 19 /\ Funct3(w) \in {1, 5} /\ Funct7(w) \div 2 \in {10, 18, 24, 26}
         \/ Opcode(w) = 27 /\ \/ Funct7(w) = 48 /\ Funct3(w) \in {1, 5}
                              \/ Funct7(w) \div 2 = 2 /\ Funct3(w) = 1
<1> DEFINE o == Opcode(w)  f3 == Funct3(w)  f7 == Funct7(w)  rs2 == Rs2(w)
<1>1. \A ops, imm : (RtypeOf(ops, w) # {} => ops # {}) /\ (ItypeOf(ops, w, imm) # {} => ops # {})
  BY DEF RtypeOf, ItypeOf
<1>2. o \in {59, 51, 19, 27}
  BY DEF BFactory
<1>3. CASE o = 59
  <2>1. CASE <<f3, f7>> = <<4, 4>>
    BY <1>3, <2>1
  <2>2. CASE <<f3, f7>> # <<4, 4>>
    <3>1. BFactory(w, version, rv64) = RtypeOf(Row(BWOf, <<f3, f7>>), w)
      BY <1>3, <2>2 DEF BFactory
    <3>2. PICK s \in BWOf : s[1] = <<f3, f7>>
      BY <1>1, <3>1, KeyIn
    <3> QED
      BY <1>3, <3>2, BKeys
  <2> QED
    BY <2>1, <2>2
<1>4. CASE o = 51
  <2>1. BFactory(w, version, rv64) = RtypeOf(Row(BOf, <<f3, f7>>), w)
    BY <1>4 DEF BFactory
  <2>2. PICK s \in BOf : s[1] = <<f3, f7>>
    BY <1>1, <2>1, KeyIn
  <2> QED
    BY <1>4, <2>2, BKeys
<1>5. CASE o = 19
  <2>1. CASE Row(BUnaryOf, <<f7, f3, rs2>>) # {}
    <3>1. PICK s \in BUnaryOf : s[1] = <<f7, f3, rs2>>
      BY <2>1, KeyIn
    <3> QED
      BY <1>5, <3>1, BKeys
  <2>2. CASE Row(BUnaryOf, <<f7, f3, rs2>>) = {}
    <3>1. BFactory(w, version, rv64) = ItypeOf(Row(BImmOf, <<f7 \div 2, f3>>), w, X(w, 20, 6, 0))
      BY <1>5, <2>2 DEF BFactory
    <3>2. PICK s \in BImmOf : s[1] = <<f7 \div 2, f3>>
      BY <1>1, <3>1, KeyIn
    <3> QED
      BY <1>5, <3>2, BKeys
  <2> QED
    BY <2>1, <2>2
<1>6. CASE o = 27
  BY <1>6 DEF BFactory
<1> QED
  BY <1>2, <1>3, <1>4, <1>5, <1>6

LEMMA IDemands ==
  ASSUME NEW w, WordOK(w), NEW version, NEW rv64 \in BOOLEAN, IFactory(w, version, rv64) # {}
  PROVE  \/ Opcode(w) \in {3, 15, 23, 35, 55, 99, 103, 111, 115}
         \/ Opcode(w) = 19 /\ (Funct3(w) \in {1, 5} => Funct7(w) \div 2 \in {0, 16})
         \/ Opcode(w) = 51 /\ \/ Funct7(w) = 0
                              \/ Funct7(w) = 32 /\ Funct3(w) \in {0, 5}
         \/ Opcode(w) = 27 /\ (Funct3(w) = 0 \/ Funct7(w) \in {0, 32})
         \/ Opcode(w) = 59 /\ Funct7(w) \in {0, 32}
<1> DEFINE o == Opcode(w)  f3 == Funct3(w)  f7 == Funct7(w)  imm == ItypeImmediate(w)
<1>1. \A ops, v : (RtypeOf(ops, w) # {} => ops # {}) /\ (ItypeOf(ops, w, v) # {} => ops # {})
  BY DEF RtypeOf, ItypeOf
<1>2. \A h : w = [lo |-> 115, hi |-> h] => o = 115
  BY FieldsAre
<1>3. o \in {3, 15, 19, 23, 27, 35, 51, 55, 59, 99, 103, 111, 115}
  BY <1>2 DEF IFactory
<1>4. CASE o = 19
  <2>1. CASE f3 \in {1, 5}
    <3>1. IFactory(w, version, rv64) = ItypeOf(Row(ShiftOf, <<f3, f7 \div 2>>), w,
                                               imm % (IF rv64 THEN 64 ELSE 32))
      BY <1>2, <1>4, <2>1 DEF IFactory
    <3>2. PICK s \in ShiftOf : s[1] = <<f3, f7 \div 2>>
      BY <1>1, <3>1, KeyIn
    <3> QED
      BY <1>4, <3>2, IKeys
  <2> QED
    BY <1>4, <2>1
<1>5. CASE o = 51
  <2>1. IFactory(w, version, rv64) = RtypeOf(Row(AluOf, <<f3, f7>>), w)
    BY <1>2, <1>5 DEF IFactory
  <2>2. PICK s \in AluOf : s[1] = <<f3, f7>>
    BY <1>1, <2>1, KeyIn
  <2> QED
    BY <1>5, <2>2, IKeys
<1>6. CASE o = 27 /\ f3 # 0
  <2>1. rv64
    BY <1>2, <1>6 DEF IFactory
  <2>2. IFactory(w, version, rv64) = ItypeOf(Row(ShiftWOf, <<f3, f7>>), w, imm % 32)
    BY <1>6, <2>1 DEF IFactory
  <2>3. PICK s \in ShiftWOf : s[1] = <<f3, f7>>
    BY <1>1, <2>2, KeyIn
  <2> QED
    BY <1>6, <2>3, IKeys
<1>7. CASE o = 59
  <2>1. rv64
    BY <1>2, <1>7 DEF IFactory
  <2>2. IFactory(w, version, rv64) = RtypeOf(Row(AluWOf, <<f3, f7>>), w)
    BY <1>2, <1>7, <2>1 DEF IFactory
  <2>3. PICK s \in AluWOf : s[1] = <<f3, f7>>
    BY <1>1, <2>2, KeyIn
  <2> QED
    BY <1>7, <2>3, IKeys
<1> QED
  BY <1>3, <1>4, <1>5, <1>6, <1>7

(* No word is one of two factories, whatever the versions.                 *)
FactoryNames == {"rvc", "i", "m", "b", "a"}
LEMMA FactoriesDiffer ==
  ASSUME NEW w, WordOK(w), NEW bits, NEW v, NEW v2,
         NEW x \in FactoryNames, NEW y \in FactoryNames,
         Factory(x, w, v, bits) # {}, Factory(y, w, v2, bits) # {}
  PROVE  x = y
<1> DEFINE rv64 == bits = 64
<1>1. rv64 \in BOOLEAN
  OBVIOUS
<1> HIDE DEF rv64
<1>2. \A u : /\ Factory("rvc", w, u, bits) = RvcFactory(w, u, rv64)
             /\ Factory("i", w, u, bits) = IFactory(w, u, rv64)
             /\ Factory("m", w, u, bits) = MFactory(w, u, rv64)
             /\ Factory("b", w, u, bits) = BFactory(w, u, rv64)
             /\ Factory("a", w, u, bits) = AFactory(w, u, rv64)
  BY DEF Factory, rv64
<1> DEFINE o == Opcode(w)  f3 == Funct3(w)  f7 == Funct7(w)
<1>3. o \in Nat /\ f3 \in 0 .. 7 /\ f7 \in Nat
  BY FieldsAre
<1>4. ASSUME NEW u
      PROVE  /\ RvcFactory(w, u, rv64) # {} => o % 4 # 3
             /\ MFactory(w, u, rv64) # {} => f7 = 1 /\ o \in {51, 59}
             /\ AFactory(w, u, rv64) # {} => o = 47
  BY <1>1, RvcDemands, MDemands, ADemands
<1>5. ASSUME NEW u, BFactory(w, u, rv64) # {}
      PROVE  \/ o = 59 /\ f7 \in {4, 16, 48}
             \/ o = 51 /\ (f7 \in {5, 16, 20, 36, 48, 52} \/ (f7 = 32 /\ f3 \in {4, 6, 7}))
             \/ o = 19 /\ f3 \in {1, 5} /\ f7 \div 2 \in {10, 18, 24, 26}
             \/ o = 27 /\ ((f7 = 48 /\ f3 \in {1, 5}) \/ (f7 \div 2 = 2 /\ f3 = 1))
  BY <1>1, <1>5, BDemands
<1>6. ASSUME NEW u, IFactory(w, u, rv64) # {}
      PROVE  \/ o \in {3, 15, 23, 35, 55, 99, 103, 111, 115}
             \/ o = 19 /\ (f3 \in {1, 5} => f7 \div 2 \in {0, 16})
             \/ o = 51 /\ (f7 = 0 \/ (f7 = 32 /\ f3 \in {0, 5}))
             \/ o = 27 /\ (f3 = 0 \/ f7 \in {0, 32})
             \/ o = 59 /\ f7 \in {0, 32}
  BY <1>1, <1>6, IDemands
<1> HIDE DEF o, f3, f7
<1>7. ASSUME NEW u, NEW u2
      PROVE  /\ RvcFactory(w, u, rv64) = {} \/ MFactory(w, u2, rv64) = {}
             /\ RvcFactory(w, u, rv64) = {} \/ AFactory(w, u2, rv64) = {}
             /\ MFactory(w, u, rv64) = {} \/ AFactory(w, u2, rv64) = {}
  BY <1>3, <1>4
<1>8. ASSUME NEW u, NEW u2, BFactory(w, u, rv64) # {}
      PROVE  /\ RvcFactory(w, u2, rv64) = {}
             /\ MFactory(w, u2, rv64) = {}
             /\ AFactory(w, u2, rv64) = {}
  BY <1>3, <1>4, <1>5, <1>8
<1>9. ASSUME NEW u, NEW u2, IFactory(w, u, rv64) # {}
      PROVE  /\ RvcFactory(w, u2, rv64) = {}
             /\ MFactory(w, u2, rv64) = {}
             /\ AFactory(w, u2, rv64) = {}
  BY <1>3, <1>4, <1>6, <1>9
<1>10. ASSUME NEW u, NEW u2, IFactory(w, u, rv64) # {} PROVE BFactory(w, u2, rv64) = {}
  <2> SUFFICES ASSUME BFactory(w, u2, rv64) # {} PROVE FALSE
    OBVIOUS
  <2>1. \/ o = 59 /\ f7 \in {4, 16, 48}
        \/ o = 51 /\ (f7 \in {5, 16, 20, 36, 48, 52} \/ (f7 = 32 /\ f3 \in {4, 6, 7}))
        \/ o = 19 /\ f3 \in {1, 5} /\ f7 \div 2 \in {10, 18, 24, 26}
        \/ o = 27 /\ ((f7 = 48 /\ f3 \in {1, 5}) \/ (f7 \div 2 = 2 /\ f3 = 1))
    BY <1>5
  <2>2. \/ o \in {3, 15, 23, 35, 55, 99, 103, 111, 115}
        \/ o = 19 /\ (f3 \in {1, 5} => f7 \div 2 \in {0, 16})
        \/ o = 51 /\ (f7 = 0 \/ (f7 = 32 /\ f3 \in {0, 5}))
        \/ o = 27 /\ (f3 = 0 \/ f7 \in {0, 32})
        \/ o = 59 /\ f7 \in {0, 32}
    BY <1>6, <1>10
  <2> QED
    BY <1>3, <2>1, <2>2
<1> QED
  BY <1>2, <1>7, <1>8, <1>9, <1>10 DEF FactoryNames

--------------------------------------------------------------------------------
(* The answer does not depend on the order in which factories are asked.   *)
LEMMA AskedAre ==
  ASSUME NEW isa
  PROVE  /\ DOMAIN FactoriesOf(isa) \subseteq Nat
         /\ \A k \in DOMAIN FactoriesOf(isa) : FactoriesOf(isa)[k] \in FactoryNames
<1> DEFINE b == IF "ISA_B" \in isa THEN <<"b">> ELSE <<>>
           a == IF "ISA_A" \in isa THEN <<"a">> ELSE <<>>
           first == <<"rvc", "i", "m">>
<1>1. first \in Seq(FactoryNames) /\ b \in Seq(FactoryNames) /\ a \in Seq(FactoryNames)
  <2>1. {"rvc", "i", "m", "b", "a"} = FactoryNames
    BY DEF FactoryNames
  <2>2. <<"rvc", "i", "m">> \in Seq(FactoryNames)
    BY <2>1
  <2>3. <<"b">> \in Seq(FactoryNames)
    BY <2>1
  <2>4. <<"a">> \in Seq(FactoryNames)
    BY <2>1
  <2>5. <<>> \in Seq(FactoryNames)
    OBVIOUS
  <2> QED
    BY <2>2, <2>3, <2>4, <2>5
<1> HIDE DEF first, a, b
<1>2. first \o b \in Seq(FactoryNames)
  BY <1>1
<1>3. (first \o b) \o a \in Seq(FactoryNames)
  BY <1>1, <1>2
<1>4. FactoriesOf(isa) = (first \o b) \o a
  BY DEF FactoriesOf, first, a, b
<1> QED
  BY <1>3, <1>4

LEMMA AnswerIs ==
  ASSUME NEW w, WordOK(w), NEW isa, NEW v, NEW bits, FirstAnswer(isa, w, v, bits) # {}
  PROVE  \E k \in DOMAIN FactoriesOf(isa) :
           FirstAnswer(isa, w, v, bits) = Factory(FactoriesOf(isa)[k], w, v, bits)
<1> DEFINE asked == FactoriesOf(isa)
           accepts == {k \in DOMAIN asked : Factory(asked[k], w, v, bits) # {}}
<1>1. FirstAnswer(isa, w, v, bits) =
        IF accepts = {} THEN {} ELSE Factory(asked[Min(accepts)], w, v, bits)
  BY DEF FirstAnswer
<1>2. accepts # {} /\ accepts \subseteq Nat
  BY <1>1, AskedAre
<1>3. Min(accepts) \in accepts
  <2> HIDE DEF accepts
  <2>1. PICK n \in accepts : \A k \in accepts : n <= k
    BY <1>2, LeastNat
  <2> QED
    BY <2>1 DEF Min
<1> QED
  BY <1>1, <1>2, <1>3

LEMMA AnswerOf ==
  ASSUME NEW w, WordOK(w), NEW isa, NEW v, NEW bits,
         NEW k \in DOMAIN FactoriesOf(isa), Factory(FactoriesOf(isa)[k], w, v, bits) # {}
  PROVE  FirstAnswer(isa, w, v, bits) = Factory(FactoriesOf(isa)[k], w, v, bits)
<1> DEFINE asked == FactoriesOf(isa)
           accepts == {j \in DOMAIN asked : Factory(asked[j], w, v, bits) # {}}
<1>1. FirstAnswer(isa, w, v, bits) =
        IF accepts = {} THEN {} ELSE Factory(asked[Min(accepts)], w, v, bits)
  BY DEF FirstAnswer
<1>2. accepts # {} /\ accepts \subseteq Nat
  BY AskedAre
<1>3. Min(accepts) \in accepts
  <2> HIDE DEF accepts
  <2>1. PICK n \in accepts : \A j \in accepts : n <= j
    BY <1>2, LeastNat
  <2> QED
    BY <2>1 DEF Min
<1>4. asked[Min(accepts)] = asked[k]
  BY <1>3, AskedAre, FactoriesDiffer
<1> QED
  BY <1>1, <1>2, <1>4

(* The word that was read.                                                 *)
LEMMA FetchedIsWord ==
  ASSUME NEW f, FetchOK(f), f.pc < Size(f), DecodeBits(f).err = "none"
  PROVE  WordOK(DecodeBits(f).word)
<1>1. DecodeBits(f).word = WordAt(f) /\ AllOpen(f)
  BY BitsAre
<1> DEFINE pc == f.pc
<1>2. pc \in Nat
  BY DEF FetchOK
<1> DEFINE B == 0 .. 255
<1>3. ASSUME NEW x \in B, NEW y \in B
      PROVE  x + 2^8 * y \in Nat /\ x + 2^8 * y < 65536
  OBVIOUS
<1>4. ASSUME NEW a \in Nat, a \in DOMAIN f.bytes, a + 1 \in DOMAIN f.bytes
      PROVE  HalfAt(f, a) \in Nat /\ HalfAt(f, a) < 65536
  <2>1. f.bytes \in [0 .. Size(f) - 1 -> B]
    BY DEF FetchOK
  <2> HIDE DEF B
  <2>2. f.bytes[a] \in B /\ f.bytes[a + 1] \in B
    BY <1>4, <2>1
  <2> QED
    BY <1>3, <2>2 DEF HalfAt
<1> HIDE DEF pc
<1>5. CASE Compressed(HalfAt(f, pc))
  <2>1. WordAt(f) = [lo |-> HalfAt(f, pc), hi |-> 0] /\ Open(f, pc) /\ Open(f, pc + 1)
    BY <1>1, <1>5, BytesAre DEF pc
  <2> QED
    BY <1>1, <1>2, <1>4, <2>1 DEF WordOK, Open
<1>6. CASE ~Compressed(HalfAt(f, pc))
  <2>1. /\ WordAt(f) = [lo |-> HalfAt(f, pc), hi |-> HalfAt(f, pc + 2)]
        /\ Open(f, pc) /\ Open(f, pc + 1) /\ Open(f, pc + 2) /\ Open(f, pc + 3)
    BY <1>1, <1>6, BytesAre DEF pc
  <2> DEFINE c == pc + 2
  <2>2. c \in Nat /\ c + 1 = pc + 3
    BY <1>2
  <2>3. HalfAt(f, c) \in Nat /\ HalfAt(f, c) < 65536
    <3> HIDE DEF c
    <3>1. Open(f, c) /\ Open(f, c + 1)
      BY <2>1, <2>2 DEF c
    <3> QED
      BY <1>4, <2>2, <3>1 DEF Open
  <2>4. HalfAt(f, pc) \in Nat /\ HalfAt(f, pc) < 65536
    BY <1>2, <1>4, <2>1 DEF Open
  <2> QED
    BY <1>1, <2>1, <2>3, <2>4 DEF WordOK
<1> QED
  BY <1>5, <1>6

(* What was decoded, if anything was.                                      *)
LEMMA DecodedIs ==
  ASSUME DecodedInv, decoded.insts # {}
  PROVE  /\ WordOK(Fetched)
         /\ decoded.insts = FirstAnswer(fetch.isa, Fetched, fetch.version, fetch.bits)
<1>1. decoded = DecodeRaw(fetch) /\ FetchOK(fetch)
  BY DEF DecodedInv, Pending
<1> DEFINE n == Cardinality(DOMAIN fetch.bytes)
<1>2. n \in Nat /\ fetch.pc \in Nat /\ n = Size(fetch)
  BY <1>1 DEF FetchOK, Size
<1> HIDE DEF n
<1>3. fetch.pc < n
  <2> SUFFICES ASSUME ~(fetch.pc < n) PROVE FALSE
    OBVIOUS
  <2>1. fetch.pc >= n
    BY <1>2
  <2>2. decoded = Failed("MemOutOfBound")
    BY <1>1, <2>1 DEF DecodeRaw, n
  <2> QED
    BY <2>2 DEF Failed
<1>4. ~(fetch.pc >= n)
  BY <1>2, <1>3
<1>5. DecodeBits(fetch).err = "none"
  <2> SUFFICES ASSUME DecodeBits(fetch).err # "none" PROVE FALSE
    OBVIOUS
  <2>1. decoded = Failed(DecodeBits(fetch).err)
    BY <1>1, <1>3, <1>4 DEF DecodeRaw, n
  <2> QED
    BY <2>1 DEF Failed
<1>6. decoded.insts = FirstAnswer(fetch.isa, Fetched, fetch.version, fetch.bits)
  BY <1>1, <1>3, <1>4, <1>5 DEF DecodeRaw, n, Fetched
<1> QED
  BY <1>1, <1>2, <1>3, <1>5, <1>6, FetchedIsWord DEF Fetched

(* Every word that is accepted is accepted by one factory only: neither    *)
(* the order of the factories nor the extensions beside decide what a      *)
(* word means.                                                             *)
THEOREM OneFactoryAccepts == WordSpec => []FactoriesAreDisjoint
<1>1. DecodedInv => FactoriesAreDisjoint
  <2> SUFFICES ASSUME DecodedInv, decoded.insts # {}
               PROVE  Cardinality({k \in {"rvc", "i", "m", "b", "a"} :
                        Factory(k, Fetched, fetch.version, fetch.bits) # {}}) = 1
    BY DEF FactoriesAreDisjoint, Accepted
  <2> DEFINE asked == FactoriesOf(fetch.isa)
             who == {k \in {"rvc", "i", "m", "b", "a"} :
                       Factory(k, Fetched, fetch.version, fetch.bits) # {}}
  <2>1. WordOK(Fetched) /\ FirstAnswer(fetch.isa, Fetched, fetch.version, fetch.bits) # {}
    BY DecodedIs
  <2>2. PICK k \in DOMAIN asked :
          FirstAnswer(fetch.isa, Fetched, fetch.version, fetch.bits)
            = Factory(asked[k], Fetched, fetch.version, fetch.bits)
    BY <2>1, AnswerIs
  <2>3. who = {asked[k]}
    BY <2>1, <2>2, AskedAre, FactoriesDiffer DEF FactoryNames
  <2> QED
    BY <2>3, FS_Singleton
<1> QED
  BY <1>1, DecodedInvariant, PTL

--------------------------------------------------------------------------------
(* What a version accepts, the versions after it accept.                   *)

(* An opcode and the forms it has had.                                     *)
LEMMA FormsAre ==
  /\ DOMAIN Versioned = {"JALR", "LB", "LBU", "LH", "LHU", "LW", "LWU", "LD"}
  /\ \A p, q \in DOMAIN Versioned : \A k, l \in {1, 2} :
       Versioned[p][k] = Versioned[q][l] => p = q
<1> DEFINE forms == [p \in DOMAIN Versioned |-> {Versioned[p][1], Versioned[p][2]}]
<1>1. DOMAIN Versioned = {"JALR", "LB", "LBU", "LH", "LHU", "LW", "LWU", "LD"}
  BY DEF Versioned
<1>2. /\ Versioned["JALR"] = <<"JALR_VERSION0", "JALR_VERSION1">>
      /\ Versioned["LB"] = <<"LB_VERSION0", "LB_VERSION1">>
      /\ Versioned["LBU"] = <<"LBU_VERSION0", "LBU_VERSION1">>
      /\ Versioned["LH"] = <<"LH_VERSION0", "LH_VERSION1">>
      /\ Versioned["LHU"] = <<"LHU_VERSION0", "LHU_VERSION1">>
      /\ Versioned["LW"] = <<"LW_VERSION0", "LW_VERSION1">>
      /\ Versioned["LWU"] = <<"LWU_VERSION0", "LWU_VERSION1">>
      /\ Versioned["LD"] = <<"LD_VERSION0", "LD_VERSION1">>
  BY DEF Versioned
<1> QED
  BY <1>1, <1>2

LEMMA UnversionedIs ==
  ASSUME NEW o \in DOMAIN Versioned, NEW v
  PROVE  Unversioned(OfVersion(o, v)) = o
<1> DEFINE op == OfVersion(o, v)  of(p) == op \in {Versioned[p][1], Versioned[p][2]}
<1>1. of(o)
  BY DEF OfVersion
<1>2. \A p \in DOMAIN Versioned : of(p) => p = o
  BY <1>1, FormsAre
<1>3. Unversioned(op) = IF \E p \in DOMAIN Versioned : of(p)
                        THEN CHOOSE p \in DOMAIN Versioned : of(p) ELSE op
  BY DEF Unversioned
<1> HIDE DEF of, op
<1>4. Unversioned(op) = CHOOSE p \in DOMAIN Versioned : of(p)
  BY <1>1, <1>3
<1> QED
  BY <1>1, <1>2, <1>4 DEF op

(* Every instruction of s is in t, or a later form of it is.               *)
Grows(s, t, v, v2) ==
  \A i \in s : \/ i \in t
               \/ \E o \in DOMAIN Versioned : \E rd, rs1, imm :
                    /\ i = Itype(OfVersion(o, v), rd, rs1, imm)
                    /\ Itype(OfVersion(o, v2), rd, rs1, imm) \in t

LEMMA LoadGrows ==
  ASSUME NEW o \in DOMAIN Versioned, NEW rd, NEW rs1, NEW imm, NEW v, NEW v2
  PROVE  Grows({Itype(OfVersion(o, v), rd, rs1, imm)},
               {Itype(OfVersion(o, v2), rd, rs1, imm)}, v, v2)
  BY DEF Grows

LEMMA SameGrows == ASSUME NEW s, NEW v, NEW v2 PROVE Grows(s, s, v, v2)
  BY DEF Grows

LEMMA HintGrows ==
  ASSUME NEW v \in Nat, NEW v2 \in Nat, v <= v2 PROVE Grows(Hint(v), Hint(v2), v, v2)
<1>1. Hint(v) = {} \/ Hint(v) = Hint(v2)
  BY DEF Hint
<1> QED
  BY <1>1 DEF Grows

LEMMA Quadrant0Grows ==
  ASSUME NEW w, NEW v \in Nat, NEW v2 \in Nat, v <= v2, NEW rv64 \in BOOLEAN
  PROVE  Grows(Quadrant0(w, v, rv64), Quadrant0(w, v2, rv64), v, v2)
<1> DEFINE f3 == Field(w, 13, 3)
<1>1. {"LW", "LD"} \subseteq DOMAIN Versioned
  BY FormsAre
<1>2. CASE f3 = 2
  BY <1>1, <1>2, LoadGrows DEF Quadrant0
<1>3. CASE f3 = 3 /\ rv64
  BY <1>1, <1>3, LoadGrows DEF Quadrant0
<1>4. CASE f3 # 2 /\ ~(f3 = 3 /\ rv64)
  <2>1. Quadrant0(w, v, rv64) = Quadrant0(w, v2, rv64)
    BY <1>4 DEF Quadrant0
  <2> QED
    BY <2>1, SameGrows
<1> QED
  BY <1>2, <1>3, <1>4

LEMMA Quadrant1Grows ==
  ASSUME NEW w, NEW v \in Nat, NEW v2 \in Nat, v <= v2, NEW rv64 \in BOOLEAN
  PROVE  Grows(Quadrant1(w, v, rv64), Quadrant1(w, v2, rv64), v, v2)
<1> DEFINE hinted(u) == Quadrant1(w, u, rv64) = Hint(u)
<1>1. (hinted(v) /\ hinted(v2)) \/ Quadrant1(w, v, rv64) = Quadrant1(w, v2, rv64)
  BY DEF Quadrant1
<1> QED
  BY <1>1, SameGrows, HintGrows

LEMMA Quadrant2Grows ==
  ASSUME NEW w, NEW v \in Nat, NEW v2 \in Nat, v <= v2, NEW rv64 \in BOOLEAN
  PROVE  Grows(Quadrant2(w, v, rv64), Quadrant2(w, v2, rv64), v, v2)
<1> DEFINE f3 == Field(w, 13, 3)  rd == Rd(w)  rs2 == CRs2(w)
<1>1. {"JALR", "LW", "LD"} \subseteq DOMAIN Versioned
  BY FormsAre
<1>2. CASE f3 = 2 /\ rd # 0
  BY <1>1, <1>2, LoadGrows DEF Quadrant2
<1>3. CASE f3 = 3 /\ rv64 /\ rd # 0
  BY <1>1, <1>3, LoadGrows DEF Quadrant2
<1>4. CASE f3 = 4
  <2>1. \A u : Quadrant2(w, u, rv64) = RegisterMoves(w, u)
    BY <1>4 DEF Quadrant2
  <2>2. CASE rs2 = 0 /\ rd # 0
    BY <1>1, <2>1, <2>2, LoadGrows DEF RegisterMoves
  <2>3. CASE rs2 # 0 /\ rd = 0
    <3>1. \A u : RegisterMoves(w, u) = Hint(u)
      BY <2>3 DEF RegisterMoves
    <3> QED
      BY <2>1, <3>1, HintGrows
  <2>4. CASE rs2 = 0 /\ rd = 0
    <3>1. RegisterMoves(w, v) = RegisterMoves(w, v2)
      BY <2>4 DEF RegisterMoves
    <3> QED
      BY <2>1, <3>1, SameGrows
  <2>5. CASE rs2 # 0 /\ rd # 0
    <3>1. RegisterMoves(w, v) = RegisterMoves(w, v2)
      BY <2>5 DEF RegisterMoves
    <3> QED
      BY <2>1, <3>1, SameGrows
  <2> QED
    BY <2>2, <2>3, <2>4, <2>5
<1>5. CASE f3 = 0 /\ ~(rd # 0 /\ UImmediate(w) # 0)
  <2>1. \A u : Quadrant2(w, u, rv64) = Hint(u)
    BY <1>5 DEF Quadrant2
  <2> QED
    BY <2>1, HintGrows
<1>6. CASE f3 = 0 /\ rd # 0 /\ UImmediate(w) # 0
  <2>1. Quadrant2(w, v, rv64) = Quadrant2(w, v2, rv64)
    BY <1>6 DEF Quadrant2
  <2> QED
    BY <2>1, SameGrows
<1>7. CASE f3 \notin {0, 4} /\ ~(f3 = 2 /\ rd # 0) /\ ~(f3 = 3 /\ rv64 /\ rd # 0)
  <2>1. Quadrant2(w, v, rv64) = Quadrant2(w, v2, rv64)
    BY <1>7 DEF Quadrant2
  <2> QED
    BY <2>1, SameGrows
<1> QED
  BY <1>2, <1>3, <1>4, <1>5, <1>6, <1>7

LEMMA IGrows ==
  ASSUME NEW w, WordOK(w), NEW v, NEW v2, NEW rv64 \in BOOLEAN
  PROVE  Grows(IFactory(w, v, rv64), IFactory(w, v2, rv64), v, v2)
<1> DEFINE o == Opcode(w)  f3 == Funct3(w)  imm == ItypeImmediate(w)
<1>1. \A h : w = [lo |-> 115, hi |-> h] => o = 115
  BY FieldsAre
<1>2. "JALR" \in DOMAIN Versioned /\ DOMAIN LoadOps \subseteq DOMAIN Versioned
  BY FormsAre DEF LoadOps
<1>3. CASE o = 103 /\ f3 = 0
  <2>1. \A u : IFactory(w, u, rv64) = {Itype(OfVersion("JALR", u), Rd(w), Rs1(w), imm)}
    BY <1>1, <1>3 DEF IFactory, ItypeOf
  <2> QED
    BY <1>2, <2>1, LoadGrows
<1>4. CASE o = 3
  <2> DEFINE ops == {p \in DOMAIN LoadOps : LoadOps[p] = f3 /\ (rv64 \/ f3 \notin {3, 6})}
  <2>1. \A u : IFactory(w, u, rv64) = ItypeOf({OfVersion(op, u) : op \in ops}, w, imm)
    BY <1>1, <1>4 DEF IFactory
  <2>2. ops \subseteq DOMAIN Versioned
    BY <1>2
  <2> HIDE DEF ops
  <2>3. \A u : \A i : i \in IFactory(w, u, rv64) <=>
          \E op \in ops : i = Itype(OfVersion(op, u), Rd(w), Rs1(w), imm)
    BY <2>1 DEF ItypeOf
  <2> QED
    BY <2>2, <2>3 DEF Grows
<1>5. CASE o # 3 /\ ~(o = 103 /\ f3 = 0)
  <2>1. IFactory(w, v, rv64) = IFactory(w, v2, rv64)
    BY <1>1, <1>5 DEF IFactory
  <2> QED
    BY <2>1, SameGrows
<1> QED
  BY <1>3, <1>4, <1>5

Alike(i, j) == [j EXCEPT !.op = Unversioned(@)] = [i EXCEPT !.op = Unversioned(@)]

LEMMA FormsAlike ==
  ASSUME NEW o \in DOMAIN Versioned, NEW rd, NEW rs1, NEW imm, NEW v, NEW v2
  PROVE  /\ Alike(Itype(OfVersion(o, v), rd, rs1, imm), Itype(OfVersion(o, v2), rd, rs1, imm))
         /\ Alike([Itype(OfVersion(o, v), rd, rs1, imm) EXCEPT !.len = 2],
                  [Itype(OfVersion(o, v2), rd, rs1, imm) EXCEPT !.len = 2])
<1> DEFINE op == OfVersion(o, v)  op2 == OfVersion(o, v2)
<1>1. Unversioned(op) = o /\ Unversioned(op2) = o
  BY UnversionedIs
<1> HIDE DEF op, op2
<1>2. ASSUME NEW p, Unversioned(p) = o
      PROVE  /\ [Itype(p, rd, rs1, imm) EXCEPT !.op = Unversioned(@)] = Itype(o, rd, rs1, imm)
             /\ [[Itype(p, rd, rs1, imm) EXCEPT !.len = 2] EXCEPT !.op = Unversioned(@)]
                  = [Itype(o, rd, rs1, imm) EXCEPT !.len = 2]
  <2> DEFINE R(u) == [op |-> u, rd |-> rd, rs1 |-> rs1, rs2 |-> 0, rs3 |-> 0, rs4 |-> 0,
                      imm |-> imm, len |-> 2]
  <2>1. [Itype(p, rd, rs1, imm) EXCEPT !.op = Unversioned(@)] = Itype(o, rd, rs1, imm)
    BY <1>2 DEF Itype, Instruction
  <2>2. \A u : [Itype(u, rd, rs1, imm) EXCEPT !.len = 2] = R(u)
    BY DEF Itype, Instruction
  <2>3. [R(p) EXCEPT !.op = Unversioned(@)] = R(o)
    BY <1>2
  <2> QED
    BY <2>1, <2>2, <2>3
<1> QED
  BY <1>1, <1>2 DEF Alike, op, op2

LEMMA FactoryGrows ==
  ASSUME NEW w, WordOK(w), NEW bits, NEW x \in FactoryNames,
         NEW v \in 0 .. 2, NEW v2 \in 0 .. 2, v <= v2, NEW i \in Factory(x, w, v, bits)
  PROVE  \E j \in Factory(x, w, v2, bits) : Alike(i, j)
<1> DEFINE rv64 == bits = 64
<1>1. rv64 \in BOOLEAN /\ v \in Nat /\ v2 \in Nat
  OBVIOUS
<1> HIDE DEF rv64
<1>2. ASSUME NEW s, NEW t, Grows(s, t, v, v2), NEW k \in s
      PROVE  /\ \E j \in t : Alike(k, j)
             /\ \E j \in t : Alike([k EXCEPT !.len = 2], [j EXCEPT !.len = 2])
  <2>1. CASE k \in t
    BY <2>1 DEF Alike
  <2>2. CASE \E o \in DOMAIN Versioned : \E rd, rs1, imm :
               /\ k = Itype(OfVersion(o, v), rd, rs1, imm)
               /\ Itype(OfVersion(o, v2), rd, rs1, imm) \in t
    <3>1. PICK o \in DOMAIN Versioned : \E rd, rs1, imm :
            /\ k = Itype(OfVersion(o, v), rd, rs1, imm)
            /\ Itype(OfVersion(o, v2), rd, rs1, imm) \in t
      BY <2>2
    <3>2. PICK rd, rs1, imm :
            /\ k = Itype(OfVersion(o, v), rd, rs1, imm)
            /\ Itype(OfVersion(o, v2), rd, rs1, imm) \in t
      BY <3>1
    <3> QED
      BY <3>2, FormsAlike
  <2> QED
    BY <1>2, <2>1, <2>2 DEF Grows
<1>3. CASE x = "rvc"
  <2> DEFINE q == Field(w, 0, 2)
             Q(u) == CASE q = 0 -> Quadrant0(w, u, rv64) [] q = 1 -> Quadrant1(w, u, rv64)
                       [] q = 2 -> Quadrant2(w, u, rv64) [] q = 3 -> {}
  <2>1. \A u : Factory(x, w, u, bits) = {[k EXCEPT !.len = 2] : k \in Q(u)}
    BY <1>3 DEF Factory, RvcFactory, rv64
  <2>2. q \in 0 .. 3
    BY FieldsAre DEF WordOK
  <2>3. Grows(Q(v), Q(v2), v, v2)
    <3>1. CASE q = 0
      BY <1>1, <3>1, Quadrant0Grows
    <3>2. CASE q = 1
      BY <1>1, <3>2, Quadrant1Grows
    <3>3. CASE q = 2
      BY <1>1, <3>3, Quadrant2Grows
    <3>4. CASE q = 3
      BY <3>4, SameGrows
    <3> QED
      BY <2>2, <3>1, <3>2, <3>3, <3>4
  <2> HIDE DEF Q
  <2>4. PICK k \in Q(v) : i = [k EXCEPT !.len = 2]
    BY <2>1
  <2>5. PICK j \in Q(v2) : Alike([k EXCEPT !.len = 2], [j EXCEPT !.len = 2])
    BY <1>2, <2>3
  <2> QED
    BY <2>1, <2>4, <2>5
<1>4. CASE x = "i"
  <2>1. \A u : Factory(x, w, u, bits) = IFactory(w, u, rv64)
    BY <1>4 DEF Factory, rv64
  <2>2. Grows(IFactory(w, v, rv64), IFactory(w, v2, rv64), v, v2)
    BY <1>1, IGrows
  <2> QED
    BY <1>2, <2>1, <2>2
<1>5. CASE x \in {"m", "b", "a"}
  <2>1. Factory(x, w, v, bits) = Factory(x, w, v2, bits)
    BY <1>5 DEF Factory, MFactory, BFactory, AFactory
  <2> QED
    BY <2>1 DEF Alike
<1> QED
  BY <1>3, <1>4, <1>5 DEF FactoryNames

(* What a version accepts, every version after it accepts as the same      *)
(* instruction, though maybe in a newer form; for every word.              *)
THEOREM VersionsAgree == WordSpec => []LaterVersionsAgree
<1>1. DecodedInv => LaterVersionsAgree
  <2> SUFFICES ASSUME DecodedInv, NEW i \in decoded.insts, NEW v \in fetch.version .. 2
               PROVE  \E j \in FirstAnswer(fetch.isa, Fetched, v, fetch.bits) : Alike(i, j)
    BY DEF LaterVersionsAgree, Alike
  <2> DEFINE asked == FactoriesOf(fetch.isa)
  <2>1. /\ WordOK(Fetched)
        /\ decoded.insts = FirstAnswer(fetch.isa, Fetched, fetch.version, fetch.bits)
    BY DecodedIs
  <2>2. PICK k \in DOMAIN asked :
          decoded.insts = Factory(asked[k], Fetched, fetch.version, fetch.bits)
    BY <2>1, AnswerIs
  <2>3. fetch.version \in 0 .. 2 /\ v \in 0 .. 2 /\ fetch.version <= v
    BY DEF DecodedInv, FetchOK
  <2>4. PICK j \in Factory(asked[k], Fetched, v, fetch.bits) : Alike(i, j)
    BY <2>1, <2>2, <2>3, AskedAre, FactoryGrows
  <2>5. FirstAnswer(fetch.isa, Fetched, v, fetch.bits) = Factory(asked[k], Fetched, v, fetch.bits)
    BY <2>1, <2>4, AnswerOf
  <2> QED
    BY <2>4, <2>5
<1> QED
  BY <1>1, DecodedInvariant, PTL

--------------------------------------------------------------------------------
(* Immediates.                                                             *)

(* A sum over a first part of a sequence, one term after another.          *)
LEMMA SumOfFirst ==
  ASSUME NEW n \in Nat, NEW f, \A k \in 1 .. n : f[k] \in Nat
  PROVE  /\ SumFunctionOnSet(f, 1 .. 0) = 0
         /\ \A m \in 1 .. n : /\ SumFunctionOnSet(f, 1 .. m - 1) \in Nat
                             /\ SumFunctionOnSet(f, 1 .. m) = SumFunctionOnSet(f, 1 .. m - 1) + f[m]
<1>1. IsFiniteSet(1 .. n)
  BY FS_Interval
<1>2. SumFunctionOnSet(f, 1 .. 0) = 0
  <2>1. 1 .. 0 = {} /\ IsFiniteSet({})
    BY FS_EmptySet
  <2> QED
    BY <2>1, SumIs
<1>3. ASSUME NEW m \in 1 .. n
      PROVE  /\ SumFunctionOnSet(f, 1 .. m - 1) \in Nat
             /\ SumFunctionOnSet(f, 1 .. m) = SumFunctionOnSet(f, 1 .. m - 1) + f[m]
  <2>1. /\ (1 .. m) \ {m} = 1 .. m - 1
        /\ 1 .. m \in SUBSET (1 .. n) /\ 1 .. m - 1 \in SUBSET (1 .. n) /\ m \in 1 .. m
    OBVIOUS
  <2>2. SumFunctionOnSet(f, 1 .. m) = f[m] + SumFunctionOnSet(f, (1 .. m) \ {m})
    BY <1>1, <2>1, SumRemove
  <2>3. SumFunctionOnSet(f, 1 .. m - 1) \in Nat
    BY <1>1, <2>1, SumInNat
  <2>4. SumFunctionOnSet(f, 1 .. m) = f[m] + SumFunctionOnSet(f, 1 .. m - 1)
    BY <2>1, <2>2
  <2> DEFINE total == SumFunctionOnSet(f, 1 .. m - 1)
  <2>5. total \in Nat /\ f[m] \in Nat
    BY <2>3
  <2> HIDE DEF total
  <2>6. f[m] + total = total + f[m]
    BY <2>5
  <2> QED
    BY <2>3, <2>4, <2>6 DEF total
<1> QED
  BY <1>2, <1>3

(* A field is the sum of its bits.                                         *)
Bit(w, k) == Field(w, k, 1)

LEMMA FieldBits ==
  ASSUME NEW w, WordOK(w)
  PROVE  /\ \A k \in 2 .. 12 : Bit(w, k) \in {0, 1}
         /\ Field(w, 2, 2) = Bit(w, 2) + 2 * Bit(w, 3)
         /\ Field(w, 2, 3) = Bit(w, 2) + 2 * Bit(w, 3) + 4 * Bit(w, 4)
         /\ Field(w, 2, 5) = Bit(w, 2) + 2 * Bit(w, 3) + 4 * Bit(w, 4) + 8 * Bit(w, 5)
                               + 16 * Bit(w, 6)
         /\ Field(w, 3, 2) = Bit(w, 3) + 2 * Bit(w, 4)
         /\ Field(w, 3, 3) = Bit(w, 3) + 2 * Bit(w, 4) + 4 * Bit(w, 5)
         /\ Field(w, 4, 3) = Bit(w, 4) + 2 * Bit(w, 5) + 4 * Bit(w, 6)
         /\ Field(w, 5, 2) = Bit(w, 5) + 2 * Bit(w, 6)
         /\ Field(w, 7, 2) = Bit(w, 7) + 2 * Bit(w, 8)
         /\ Field(w, 7, 3) = Bit(w, 7) + 2 * Bit(w, 8) + 4 * Bit(w, 9)
         /\ Field(w, 9, 2) = Bit(w, 9) + 2 * Bit(w, 10)
         /\ Field(w, 9, 4) = Bit(w, 9) + 2 * Bit(w, 10) + 4 * Bit(w, 11) + 8 * Bit(w, 12)
         /\ Field(w, 10, 2) = Bit(w, 10) + 2 * Bit(w, 11)
         /\ Field(w, 10, 3) = Bit(w, 10) + 2 * Bit(w, 11) + 4 * Bit(w, 12)
<1> DEFINE lo == w.lo
<1>1. lo \in Nat
  BY DEF WordOK
<1>2. /\ Bit(w, 2) = (lo \div 4) % 2
      /\ Bit(w, 3) = (lo \div 8) % 2
      /\ Bit(w, 4) = (lo \div 16) % 2
      /\ Bit(w, 5) = (lo \div 32) % 2
      /\ Bit(w, 6) = (lo \div 64) % 2
      /\ Bit(w, 7) = (lo \div 128) % 2
      /\ Bit(w, 8) = (lo \div 256) % 2
      /\ Bit(w, 9) = (lo \div 512) % 2
      /\ Bit(w, 10) = (lo \div 1024) % 2
      /\ Bit(w, 11) = (lo \div 2048) % 2
      /\ Bit(w, 12) = (lo \div 4096) % 2
  BY <1>1 DEF Bit, Field
<1>3. /\ Field(w, 2, 2) = (lo \div 4) % 4
      /\ Field(w, 2, 3) = (lo \div 4) % 8
      /\ Field(w, 2, 5) = (lo \div 4) % 32
      /\ Field(w, 3, 2) = (lo \div 8) % 4
      /\ Field(w, 3, 3) = (lo \div 8) % 8
      /\ Field(w, 4, 3) = (lo \div 16) % 8
      /\ Field(w, 5, 2) = (lo \div 32) % 4
      /\ Field(w, 7, 2) = (lo \div 128) % 4
      /\ Field(w, 7, 3) = (lo \div 128) % 8
      /\ Field(w, 9, 2) = (lo \div 512) % 4
      /\ Field(w, 9, 4) = (lo \div 512) % 16
      /\ Field(w, 10, 2) = (lo \div 1024) % 4
      /\ Field(w, 10, 3) = (lo \div 1024) % 8
  BY <1>1 DEF Field
<1> HIDE DEF lo
<1>4. (lo \div 4) % 4 = ((lo \div 4) % 2) + 2 * ((lo \div 8) % 2)
  BY <1>1
<1>5. (lo \div 4) % 8 = ((lo \div 4) % 2) + 2 * ((lo \div 8) % 2) + 4 * ((lo \div 16) % 2)
  BY <1>1
<1>6. (lo \div 4) % 32 = ((lo \div 4) % 2) + 2 * ((lo \div 8) % 2) + 4 * ((lo \div 16) % 2)
                          + 8 * ((lo \div 32) % 2) + 16 * ((lo \div 64) % 2)
  BY <1>1, SMTT(30)
<1>7. (lo \div 8) % 4 = ((lo \div 8) % 2) + 2 * ((lo \div 16) % 2)
  BY <1>1
<1>8. (lo \div 8) % 8 = ((lo \div 8) % 2) + 2 * ((lo \div 16) % 2) + 4 * ((lo \div 32) % 2)
  BY <1>1
<1>9. (lo \div 16) % 8 = ((lo \div 16) % 2) + 2 * ((lo \div 32) % 2) + 4 * ((lo \div 64) % 2)
  BY <1>1
<1>10. (lo \div 32) % 4 = ((lo \div 32) % 2) + 2 * ((lo \div 64) % 2)
  BY <1>1
<1>11. (lo \div 128) % 4 = ((lo \div 128) % 2) + 2 * ((lo \div 256) % 2)
  BY <1>1
<1>12. (lo \div 128) % 8 = ((lo \div 128) % 2) + 2 * ((lo \div 256) % 2) + 4 * ((lo \div 512) % 2)
  BY <1>1
<1>13. (lo \div 512) % 4 = ((lo \div 512) % 2) + 2 * ((lo \div 1024) % 2)
  BY <1>1
<1>14. (lo \div 512) % 16 = ((lo \div 512) % 2) + 2 * ((lo \div 1024) % 2)
                             + 4 * ((lo \div 2048) % 2) + 8 * ((lo \div 4096) % 2)
  BY <1>1, SMTT(30)
<1>15. (lo \div 1024) % 4 = ((lo \div 1024) % 2) + 2 * ((lo \div 2048) % 2)
  BY <1>1
<1>16. (lo \div 1024) % 8 = ((lo \div 1024) % 2) + 2 * ((lo \div 2048) % 2)
                             + 4 * ((lo \div 4096) % 2)
  BY <1>1
<1>17. \A k \in 2 .. 12 : Bit(w, k) \in {0, 1}
  <2>1. \A x \in Nat : x % 2 \in {0, 1}
    OBVIOUS
  <2>2. \A n \in {4, 8, 16, 32, 64, 128, 256, 512, 1024, 2048, 4096} : lo \div n \in Nat
    BY <1>1
  <2> QED
    BY <1>2, <2>1, <2>2
<1> QED
  BY <1>2, <1>3, <1>4, <1>5, <1>6, <1>7, <1>8, <1>9, <1>10, <1>11, <1>12, <1>13, <1>14,
     <1>15, <1>16, <1>17

(* Sums of as many terms as an immediate has bits.                         *)
LEMMA SumOfTerms ==
  ASSUME NEW f, NEW n \in Nat, \A k \in 1 .. n : f[k] \in Nat
  PROVE  /\ n = 5 => SumFunctionOnSet(f, 1 .. 5) = f[1] + f[2] + f[3] + f[4] + f[5]
         /\ n = 6 => SumFunctionOnSet(f, 1 .. 6) = f[1] + f[2] + f[3] + f[4] + f[5] + f[6]
         /\ n = 8 => SumFunctionOnSet(f, 1 .. 8) =
                       f[1] + f[2] + f[3] + f[4] + f[5] + f[6] + f[7] + f[8]
         /\ n = 11 => SumFunctionOnSet(f, 1 .. 11) =
                        f[1] + f[2] + f[3] + f[4] + f[5] + f[6] + f[7] + f[8] + f[9] + f[10] + f[11]
<1> DEFINE S(m) == SumFunctionOnSet(f, 1 .. m)
<1>1. S(0) = 0 /\ \A m \in 1 .. n : S(m - 1) \in Nat /\ S(m) = S(m - 1) + f[m]
  BY SumOfFirst
<1>2. \A m \in 1 .. n : S(m) \in Nat
  <2> HIDE DEF S
  <2> QED
    BY <1>1
<1> HIDE DEF S
<1>3. n >= 5 => S(5) = f[1] + f[2] + f[3] + f[4] + f[5] /\ S(5) \in Nat
  <2> SUFFICES ASSUME n >= 5 PROVE S(5) = f[1] + f[2] + f[3] + f[4] + f[5] /\ S(5) \in Nat
    OBVIOUS
  <2>1. S(1) = S(0) + f[1] /\ S(2) = S(1) + f[2] /\ S(3) = S(2) + f[3]
    BY <1>1
  <2>2. S(4) = S(3) + f[4] /\ S(5) = S(4) + f[5]
    BY <1>1
  <2> QED
    BY <1>1, <1>2, <2>1, <2>2
<1>4. n >= 8 => /\ S(8) = f[1] + f[2] + f[3] + f[4] + f[5] + f[6] + f[7] + f[8]
                /\ S(8) \in Nat
  <2> SUFFICES ASSUME n >= 8 PROVE S(8) = S(5) + f[6] + f[7] + f[8] /\ S(8) \in Nat
    BY <1>3
  <2>1. S(6) = S(5) + f[6] /\ S(7) = S(6) + f[7] /\ S(8) = S(7) + f[8]
    BY <1>1
  <2> QED
    BY <1>2, <2>1
<1>5. n = 6 => S(6) = f[1] + f[2] + f[3] + f[4] + f[5] + f[6]
  <2> SUFFICES ASSUME n = 6 PROVE S(6) = S(5) + f[6]
    BY <1>3
  <2> QED
    BY <1>1
<1>6. n = 11 => S(11) = f[1] + f[2] + f[3] + f[4] + f[5] + f[6] + f[7] + f[8] + f[9] + f[10] + f[11]
  <2> SUFFICES ASSUME n = 11 PROVE S(11) = S(8) + f[9] + f[10] + f[11]
    BY <1>4
  <2>1. S(9) = S(8) + f[9] /\ S(10) = S(9) + f[10] /\ S(11) = S(10) + f[11]
    BY <1>1
  <2> QED
    BY <1>2, <2>1
<1> QED
  BY <1>3, <1>4, <1>5, <1>6 DEF S

(* The bits at the places of a layout.                                     *)
Placed(w, bits, places, n) == [k \in 1 .. n |-> Bit(w, bits[k]) * 2^places[k]]

LEMMA LaidOutIs ==
  ASSUME NEW w, NEW n, NEW bits, NEW places, DOMAIN bits = 1 .. n
  PROVE  /\ LaidOut(w, Layout(bits, places, FALSE)) =
              SumFunctionOnSet(Placed(w, bits, places, n), 1 .. n) - 0
         /\ LaidOut(w, Layout(bits, places, TRUE)) =
              SumFunctionOnSet(Placed(w, bits, places, n), 1 .. n)
                - 2 * Placed(w, bits, places, n)[1]
<1> DEFINE f == Placed(w, bits, places, n)
<1>1. ASSUME NEW l, l.bits = bits, l.places = places
      PROVE  LaidOut(w, l) = SumFunctionOnSet(f, 1 .. n) - (IF l.signed THEN 2 * f[1] ELSE 0)
  <2> DEFINE placed == [k \in DOMAIN l.bits |-> Field(w, l.bits[k], 1) * 2^l.places[k]]
  <2>1. LaidOut(w, l) = SumFunctionOnSet(placed, DOMAIN l.bits)
                          - (IF l.signed THEN 2 * placed[1] ELSE 0)
    BY DEF LaidOut
  <2>2. placed = f
    BY <1>1 DEF Placed, Bit
  <2> HIDE DEF placed, f
  <2> QED
    BY <1>1, <2>1, <2>2
<1> HIDE DEF f
<1>2. LaidOut(w, Layout(bits, places, FALSE)) = SumFunctionOnSet(f, 1 .. n) - 0
  <2> DEFINE l == Layout(bits, places, FALSE)
  <2>1. l.bits = bits /\ l.places = places /\ l.signed = FALSE
    BY DEF Layout
  <2> HIDE DEF l
  <2> QED
    BY <1>1, <2>1 DEF l
<1>3. LaidOut(w, Layout(bits, places, TRUE)) = SumFunctionOnSet(f, 1 .. n) - 2 * f[1]
  <2> DEFINE l == Layout(bits, places, TRUE)
  <2>1. l.bits = bits /\ l.places = places /\ l.signed = TRUE
    BY DEF Layout
  <2> HIDE DEF l
  <2> QED
    BY <1>1, <2>1 DEF l
<1> QED
  BY <1>2, <1>3 DEF f

LEMMA SwUImmediateIs ==
  ASSUME NEW w, WordOK(w)
  PROVE  LaidOut(w, SwLayout) = SwUImmediate(w)
<1> DEFINE bits == <<12, 11, 10, 6, 5>>
           places == <<5, 4, 3, 2, 6>>
           f == Placed(w, bits, places, 5)
           sum == SumFunctionOnSet(f, 1 .. 5)
<1>1. /\ DOMAIN bits = 1 .. 5 /\ bits[1] = 12 /\ places[1] = 5
      /\ bits[2] = 11 /\ places[2] = 4 /\ bits[3] = 10 /\ places[3] = 3
      /\ bits[4] = 6 /\ places[4] = 2 /\ bits[5] = 5 /\ places[5] = 6
  OBVIOUS
<1> HIDE DEF bits, places
<1>2. /\ f[1] = Bit(w, bits[1]) * 2^places[1] /\ f[2] = Bit(w, bits[2]) * 2^places[2]
      /\ f[3] = Bit(w, bits[3]) * 2^places[3] /\ f[4] = Bit(w, bits[4]) * 2^places[4]
      /\ f[5] = Bit(w, bits[5]) * 2^places[5]
  BY DEF Placed
<1>3. LaidOut(w, Layout(bits, places, FALSE)) = sum - 0
  <2> DEFINE n == 5
  <2>1. DOMAIN bits = 1 .. n
    BY <1>1
  <2> HIDE DEF n
  <2>2. LaidOut(w, Layout(bits, places, FALSE)) =
          SumFunctionOnSet(Placed(w, bits, places, n), 1 .. n) - 0
    BY <2>1, LaidOutIs
  <2> QED
    BY <2>2 DEF n
<1> HIDE DEF f, sum
<1>4. /\ Bit(w, 5) \in {0, 1} /\ Bit(w, 6) \in {0, 1} /\ Bit(w, 10) \in {0, 1}
      /\ Bit(w, 11) \in {0, 1} /\ Bit(w, 12) \in {0, 1}
  BY FieldBits
<1>5. /\ f[1] = Bit(w, 12) * 32 /\ f[2] = Bit(w, 11) * 16 /\ f[3] = Bit(w, 10) * 8
      /\ f[4] = Bit(w, 6) * 4 /\ f[5] = Bit(w, 5) * 64
  <2>1. /\ f[1] = Bit(w, 12) * 2^5 /\ f[2] = Bit(w, 11) * 2^4 /\ f[3] = Bit(w, 10) * 2^3
        /\ f[4] = Bit(w, 6) * 2^2 /\ f[5] = Bit(w, 5) * 2^6
    BY <1>1, <1>2
  <2> QED
    BY <2>1
<1>6. \A k \in 1 .. 5 : f[k] \in Nat
  BY <1>4, <1>5
<1>7. sum = f[1] + f[2] + f[3] + f[4] + f[5]
  BY <1>6, SumOfTerms DEF sum
<1>8. SwUImmediate(w) = Bit(w, 6) * 4 + Field(w, 10, 3) * 8 + Bit(w, 5) * 64
  BY FieldBits DEF SwUImmediate, X, XS, Bit
<1>9. /\ Field(w, 10, 3) = Bit(w, 10) + 2 * Bit(w, 11) + 4 * Bit(w, 12)
  BY FieldBits
<1>10. sum - 0 = SwUImmediate(w)
  BY <1>4, <1>5, <1>7, <1>8, <1>9
<1> QED
  BY <1>3, <1>10 DEF bits, places, SwLayout

LEMMA FldUImmediateIs ==
  ASSUME NEW w, WordOK(w)
  PROVE  LaidOut(w, FldLayout) = FldUImmediate(w)
<1> DEFINE bits == <<12, 11, 10, 6, 5>>
           places == <<5, 4, 3, 7, 6>>
           f == Placed(w, bits, places, 5)
           sum == SumFunctionOnSet(f, 1 .. 5)
<1>1. /\ DOMAIN bits = 1 .. 5 /\ bits[1] = 12 /\ places[1] = 5
      /\ bits[2] = 11 /\ places[2] = 4 /\ bits[3] = 10 /\ places[3] = 3
      /\ bits[4] = 6 /\ places[4] = 7 /\ bits[5] = 5 /\ places[5] = 6
  OBVIOUS
<1> HIDE DEF bits, places
<1>2. /\ f[1] = Bit(w, bits[1]) * 2^places[1] /\ f[2] = Bit(w, bits[2]) * 2^places[2]
      /\ f[3] = Bit(w, bits[3]) * 2^places[3] /\ f[4] = Bit(w, bits[4]) * 2^places[4]
      /\ f[5] = Bit(w, bits[5]) * 2^places[5]
  BY DEF Placed
<1>3. LaidOut(w, Layout(bits, places, FALSE)) = sum - 0
  <2> DEFINE n == 5
  <2>1. DOMAIN bits = 1 .. n
    BY <1>1
  <2> HIDE DEF n
  <2>2. LaidOut(w, Layout(bits, places, FALSE)) =
          SumFunctionOnSet(Placed(w, bits, places, n), 1 .. n) - 0
    BY <2>1, LaidOutIs
  <2> QED
    BY <2>2 DEF n
<1> HIDE DEF f, sum
<1>4. /\ Bit(w, 5) \in {0, 1} /\ Bit(w, 6) \in {0, 1} /\ Bit(w, 10) \in {0, 1}
      /\ Bit(w, 11) \in {0, 1} /\ Bit(w, 12) \in {0, 1}
  BY FieldBits
<1>5. /\ f[1] = Bit(w, 12) * 32 /\ f[2] = Bit(w, 11) * 16 /\ f[3] = Bit(w, 10) * 8
      /\ f[4] = Bit(w, 6) * 128 /\ f[5] = Bit(w, 5) * 64
  <2>1. /\ f[1] = Bit(w, 12) * 2^5 /\ f[2] = Bit(w, 11) * 2^4 /\ f[3] = Bit(w, 10) * 2^3
        /\ f[4] = Bit(w, 6) * 2^7 /\ f[5] = Bit(w, 5) * 2^6
    BY <1>1, <1>2
  <2> QED
    BY <2>1
<1>6. \A k \in 1 .. 5 : f[k] \in Nat
  BY <1>4, <1>5
<1>7. sum = f[1] + f[2] + f[3] + f[4] + f[5]
  BY <1>6, SumOfTerms DEF sum
<1>8. FldUImmediate(w) = Field(w, 10, 3) * 8 + Field(w, 5, 2) * 64
  BY FieldBits DEF FldUImmediate, X, XS, Bit
<1>9. /\ Field(w, 10, 3) = Bit(w, 10) + 2 * Bit(w, 11) + 4 * Bit(w, 12)
      /\ Field(w, 5, 2) = Bit(w, 5) + 2 * Bit(w, 6)
  BY FieldBits
<1>10. sum - 0 = FldUImmediate(w)
  BY <1>4, <1>5, <1>7, <1>8, <1>9
<1> QED
  BY <1>3, <1>10 DEF bits, places, FldLayout

LEMMA ImmediateIs ==
  ASSUME NEW w, WordOK(w)
  PROVE  LaidOut(w, SignedLayout) = Immediate(w)
<1> DEFINE bits == <<12, 6, 5, 4, 3, 2>>
           places == <<5, 4, 3, 2, 1, 0>>
           f == Placed(w, bits, places, 6)
           sum == SumFunctionOnSet(f, 1 .. 6)
<1>1. /\ DOMAIN bits = 1 .. 6 /\ bits[1] = 12 /\ places[1] = 5
      /\ bits[2] = 6 /\ places[2] = 4 /\ bits[3] = 5 /\ places[3] = 3
      /\ bits[4] = 4 /\ places[4] = 2 /\ bits[5] = 3 /\ places[5] = 1
      /\ bits[6] = 2 /\ places[6] = 0
  OBVIOUS
<1> HIDE DEF bits, places
<1>2. /\ f[1] = Bit(w, bits[1]) * 2^places[1] /\ f[2] = Bit(w, bits[2]) * 2^places[2]
      /\ f[3] = Bit(w, bits[3]) * 2^places[3] /\ f[4] = Bit(w, bits[4]) * 2^places[4]
      /\ f[5] = Bit(w, bits[5]) * 2^places[5] /\ f[6] = Bit(w, bits[6]) * 2^places[6]
  BY DEF Placed
<1>3. LaidOut(w, Layout(bits, places, TRUE)) = sum - 2 * f[1]
  <2> DEFINE n == 6
  <2>1. DOMAIN bits = 1 .. n
    BY <1>1
  <2> HIDE DEF n
  <2>2. LaidOut(w, Layout(bits, places, TRUE)) =
          SumFunctionOnSet(Placed(w, bits, places, n), 1 .. n)
            - 2 * Placed(w, bits, places, n)[1]
    BY <2>1, LaidOutIs
  <2> QED
    BY <2>2 DEF n
<1> HIDE DEF f, sum
<1>4. /\ Bit(w, 2) \in {0, 1} /\ Bit(w, 3) \in {0, 1} /\ Bit(w, 4) \in {0, 1}
      /\ Bit(w, 5) \in {0, 1} /\ Bit(w, 6) \in {0, 1} /\ Bit(w, 12) \in {0, 1}
  BY FieldBits
<1>5. /\ f[1] = Bit(w, 12) * 32 /\ f[2] = Bit(w, 6) * 16 /\ f[3] = Bit(w, 5) * 8
      /\ f[4] = Bit(w, 4) * 4 /\ f[5] = Bit(w, 3) * 2 /\ f[6] = Bit(w, 2) * 1
  <2>1. /\ f[1] = Bit(w, 12) * 2^5 /\ f[2] = Bit(w, 6) * 2^4 /\ f[3] = Bit(w, 5) * 2^3
        /\ f[4] = Bit(w, 4) * 2^2 /\ f[5] = Bit(w, 3) * 2^1 /\ f[6] = Bit(w, 2) * 2^0
    BY <1>1, <1>2
  <2> QED
    BY <2>1
<1>6. \A k \in 1 .. 6 : f[k] \in Nat
  BY <1>4, <1>5
<1>7. sum = f[1] + f[2] + f[3] + f[4] + f[5] + f[6]
  BY <1>6, SumOfTerms DEF sum
<1>8. Immediate(w) = Field(w, 2, 5) - Bit(w, 12) * 32
  BY FieldBits DEF Immediate, X, XS, Bit
<1>9. /\ Field(w, 2, 5) = Bit(w, 2) + 2 * Bit(w, 3) + 4 * Bit(w, 4) + 8 * Bit(w, 5) + 16 * Bit(w, 6)
  BY FieldBits
<1>10. sum - 2 * f[1] = Immediate(w)
  BY <1>4, <1>5, <1>7, <1>8, <1>9
<1> QED
  BY <1>3, <1>10 DEF bits, places, SignedLayout, Low6

LEMMA JImmediateIs ==
  ASSUME NEW w, WordOK(w)
  PROVE  LaidOut(w, JLayout) = JImmediate(w)
<1> DEFINE bits == <<12, 11, 10, 9, 8, 7, 6, 5, 4, 3, 2>>
           places == <<11, 4, 9, 8, 10, 6, 7, 3, 2, 1, 5>>
           f == Placed(w, bits, places, 11)
           sum == SumFunctionOnSet(f, 1 .. 11)
<1>1. /\ DOMAIN bits = 1 .. 11 /\ bits[1] = 12 /\ places[1] = 11
      /\ bits[2] = 11 /\ places[2] = 4 /\ bits[3] = 10 /\ places[3] = 9
      /\ bits[4] = 9 /\ places[4] = 8 /\ bits[5] = 8 /\ places[5] = 10
      /\ bits[6] = 7 /\ places[6] = 6 /\ bits[7] = 6 /\ places[7] = 7
      /\ bits[8] = 5 /\ places[8] = 3 /\ bits[9] = 4 /\ places[9] = 2
      /\ bits[10] = 3 /\ places[10] = 1 /\ bits[11] = 2 /\ places[11] = 5
  OBVIOUS
<1> HIDE DEF bits, places
<1>2. /\ f[1] = Bit(w, bits[1]) * 2^places[1] /\ f[2] = Bit(w, bits[2]) * 2^places[2]
      /\ f[3] = Bit(w, bits[3]) * 2^places[3] /\ f[4] = Bit(w, bits[4]) * 2^places[4]
      /\ f[5] = Bit(w, bits[5]) * 2^places[5] /\ f[6] = Bit(w, bits[6]) * 2^places[6]
      /\ f[7] = Bit(w, bits[7]) * 2^places[7] /\ f[8] = Bit(w, bits[8]) * 2^places[8]
      /\ f[9] = Bit(w, bits[9]) * 2^places[9] /\ f[10] = Bit(w, bits[10]) * 2^places[10]
      /\ f[11] = Bit(w, bits[11]) * 2^places[11]
  BY DEF Placed
<1>3. LaidOut(w, Layout(bits, places, TRUE)) = sum - 2 * f[1]
  <2> DEFINE n == 11
  <2>1. DOMAIN bits = 1 .. n
    BY <1>1
  <2> HIDE DEF n
  <2>2. LaidOut(w, Layout(bits, places, TRUE)) =
          SumFunctionOnSet(Placed(w, bits, places, n), 1 .. n)
            - 2 * Placed(w, bits, places, n)[1]
    BY <2>1, LaidOutIs
  <2> QED
    BY <2>2 DEF n
<1> HIDE DEF f, sum
<1>4. /\ Bit(w, 2) \in {0, 1} /\ Bit(w, 3) \in {0, 1} /\ Bit(w, 4) \in {0, 1}
      /\ Bit(w, 5) \in {0, 1} /\ Bit(w, 6) \in {0, 1} /\ Bit(w, 7) \in {0, 1}
      /\ Bit(w, 8) \in {0, 1} /\ Bit(w, 9) \in {0, 1} /\ Bit(w, 10) \in {0, 1}
      /\ Bit(w, 11) \in {0, 1} /\ Bit(w, 12) \in {0, 1}
  BY FieldBits
<1>5. /\ f[1] = Bit(w, 12) * 2048 /\ f[2] = Bit(w, 11) * 16 /\ f[3] = Bit(w, 10) * 512
      /\ f[4] = Bit(w, 9) * 256 /\ f[5] = Bit(w, 8) * 1024 /\ f[6] = Bit(w, 7) * 64
      /\ f[7] = Bit(w, 6) * 128 /\ f[8] = Bit(w, 5) * 8 /\ f[9] = Bit(w, 4) * 4
      /\ f[10] = Bit(w, 3) * 2 /\ f[11] = Bit(w, 2) * 32
  <2>1. /\ f[1] = Bit(w, 12) * 2^11 /\ f[2] = Bit(w, 11) * 2^4 /\ f[3] = Bit(w, 10) * 2^9
        /\ f[4] = Bit(w, 9) * 2^8 /\ f[5] = Bit(w, 8) * 2^10 /\ f[6] = Bit(w, 7) * 2^6
        /\ f[7] = Bit(w, 6) * 2^7 /\ f[8] = Bit(w, 5) * 2^3 /\ f[9] = Bit(w, 4) * 2^2
        /\ f[10] = Bit(w, 3) * 2^1 /\ f[11] = Bit(w, 2) * 2^5
    BY <1>1, <1>2
  <2> QED
    BY <2>1
<1>6. \A k \in 1 .. 11 : f[k] \in Nat
  BY <1>4, <1>5
<1>7. sum = f[1] + f[2] + f[3] + f[4] + f[5] + f[6] + f[7] + f[8] + f[9] + f[10] + f[11]
  BY <1>6, SumOfTerms DEF sum
<1>8. JImmediate(w) = Field(w, 3, 3) * 2 + Bit(w, 11) * 16 + Bit(w, 2) * 32 + Bit(w, 7) * 64
        + Bit(w, 6) * 128 + Field(w, 9, 2) * 256 + Bit(w, 8) * 1024 - Bit(w, 12) * 2048
  BY FieldBits DEF JImmediate, X, XS, Bit
<1>9. /\ Field(w, 3, 3) = Bit(w, 3) + 2 * Bit(w, 4) + 4 * Bit(w, 5)
      /\ Field(w, 9, 2) = Bit(w, 9) + 2 * Bit(w, 10)
  BY FieldBits
<1>10. sum - 2 * f[1] = JImmediate(w)
  BY <1>4, <1>5, <1>7, <1>8, <1>9
<1> QED
  BY <1>3, <1>10 DEF bits, places, JLayout

LEMMA BImmediateIs ==
  ASSUME NEW w, WordOK(w)
  PROVE  LaidOut(w, BLayout) = BImmediate(w)
<1> DEFINE bits == <<12, 11, 10, 6, 5, 4, 3, 2>>
           places == <<8, 4, 3, 7, 6, 2, 1, 5>>
           f == Placed(w, bits, places, 8)
           sum == SumFunctionOnSet(f, 1 .. 8)
<1>1. /\ DOMAIN bits = 1 .. 8 /\ bits[1] = 12 /\ places[1] = 8
      /\ bits[2] = 11 /\ places[2] = 4 /\ bits[3] = 10 /\ places[3] = 3
      /\ bits[4] = 6 /\ places[4] = 7 /\ bits[5] = 5 /\ places[5] = 6
      /\ bits[6] = 4 /\ places[6] = 2 /\ bits[7] = 3 /\ places[7] = 1
      /\ bits[8] = 2 /\ places[8] = 5
  OBVIOUS
<1> HIDE DEF bits, places
<1>2. /\ f[1] = Bit(w, bits[1]) * 2^places[1] /\ f[2] = Bit(w, bits[2]) * 2^places[2]
      /\ f[3] = Bit(w, bits[3]) * 2^places[3] /\ f[4] = Bit(w, bits[4]) * 2^places[4]
      /\ f[5] = Bit(w, bits[5]) * 2^places[5] /\ f[6] = Bit(w, bits[6]) * 2^places[6]
      /\ f[7] = Bit(w, bits[7]) * 2^places[7] /\ f[8] = Bit(w, bits[8]) * 2^places[8]
  BY DEF Placed
<1>3. LaidOut(w, Layout(bits, places, TRUE)) = sum - 2 * f[1]
  <2> DEFINE n == 8
  <2>1. DOMAIN bits = 1 .. n
    BY <1>1
  <2> HIDE DEF n
  <2>2. LaidOut(w, Layout(bits, places, TRUE)) =
          SumFunctionOnSet(Placed(w, bits, places, n), 1 .. n)
            - 2 * Placed(w, bits, places, n)[1]
    BY <2>1, LaidOutIs
  <2> QED
    BY <2>2 DEF n
<1> HIDE DEF f, sum
<1>4. /\ Bit(w, 2) \in {0, 1} /\ Bit(w, 3) \in {0, 1} /\ Bit(w, 4) \in {0, 1}
      /\ Bit(w, 5) \in {0, 1} /\ Bit(w, 6) \in {0, 1} /\ Bit(w, 10) \in {0, 1}
      /\ Bit(w, 11) \in {0, 1} /\ Bit(w, 12) \in {0, 1}
  BY FieldBits
<1>5. /\ f[1] = Bit(w, 12) * 256 /\ f[2] = Bit(w, 11) * 16 /\ f[3] = Bit(w, 10) * 8
      /\ f[4] = Bit(w, 6) * 128 /\ f[5] = Bit(w, 5) * 64 /\ f[6] = Bit(w, 4) * 4
      /\ f[7] = Bit(w, 3) * 2 /\ f[8] = Bit(w, 2) * 32
  <2>1. /\ f[1] = Bit(w, 12) * 2^8 /\ f[2] = Bit(w, 11) * 2^4 /\ f[3] = Bit(w, 10) * 2^3
        /\ f[4] = Bit(w, 6) * 2^7 /\ f[5] = Bit(w, 5) * 2^6 /\ f[6] = Bit(w, 4) * 2^2
        /\ f[7] = Bit(w, 3) * 2^1 /\ f[8] = Bit(w, 2) * 2^5
    BY <1>1, <1>2
  <2> QED
    BY <2>1
<1>6. \A k \in 1 .. 8 : f[k] \in Nat
  BY <1>4, <1>5
<1>7. sum = f[1] + f[2] + f[3] + f[4] + f[5] + f[6] + f[7] + f[8]
  BY <1>6, SumOfTerms DEF sum
<1>8. BImmediate(w) = Field(w, 3, 2) * 2 + Field(w, 10, 2) * 8 + Bit(w, 2) * 32
                        + Field(w, 5, 2) * 64 - Bit(w, 12) * 256
  BY FieldBits DEF BImmediate, X, XS, Bit
<1>9. /\ Field(w, 3, 2) = Bit(w, 3) + 2 * Bit(w, 4)
      /\ Field(w, 10, 2) = Bit(w, 10) + 2 * Bit(w, 11)
      /\ Field(w, 5, 2) = Bit(w, 5) + 2 * Bit(w, 6)
  BY FieldBits
<1>10. sum - 2 * f[1] = BImmediate(w)
  BY <1>4, <1>5, <1>7, <1>8, <1>9
<1> QED
  BY <1>3, <1>10 DEF bits, places, BLayout

LEMMA UImmediateIs ==
  ASSUME NEW w, WordOK(w)
  PROVE  LaidOut(w, UnsignedLayout) = UImmediate(w)
<1> DEFINE bits == <<12, 6, 5, 4, 3, 2>>
           places == <<5, 4, 3, 2, 1, 0>>
           f == Placed(w, bits, places, 6)
           sum == SumFunctionOnSet(f, 1 .. 6)
<1>1. /\ DOMAIN bits = 1 .. 6 /\ bits[1] = 12 /\ places[1] = 5
      /\ bits[2] = 6 /\ places[2] = 4 /\ bits[3] = 5 /\ places[3] = 3
      /\ bits[4] = 4 /\ places[4] = 2 /\ bits[5] = 3 /\ places[5] = 1
      /\ bits[6] = 2 /\ places[6] = 0
  OBVIOUS
<1> HIDE DEF bits, places
<1>2. /\ f[1] = Bit(w, bits[1]) * 2^places[1] /\ f[2] = Bit(w, bits[2]) * 2^places[2]
      /\ f[3] = Bit(w, bits[3]) * 2^places[3] /\ f[4] = Bit(w, bits[4]) * 2^places[4]
      /\ f[5] = Bit(w, bits[5]) * 2^places[5] /\ f[6] = Bit(w, bits[6]) * 2^places[6]
  BY DEF Placed
<1>3. LaidOut(w, Layout(bits, places, FALSE)) = sum - 0
  <2> DEFINE n == 6
  <2>1. DOMAIN bits = 1 .. n
    BY <1>1
  <2> HIDE DEF n
  <2>2. LaidOut(w, Layout(bits, places, FALSE)) =
          SumFunctionOnSet(Placed(w, bits, places, n), 1 .. n) - 0
    BY <2>1, LaidOutIs
  <2> QED
    BY <2>2 DEF n
<1> HIDE DEF f, sum
<1>4. /\ Bit(w, 2) \in {0, 1} /\ Bit(w, 3) \in {0, 1} /\ Bit(w, 4) \in {0, 1}
      /\ Bit(w, 5) \in {0, 1} /\ Bit(w, 6) \in {0, 1} /\ Bit(w, 12) \in {0, 1}
  BY FieldBits
<1>5. /\ f[1] = Bit(w, 12) * 32 /\ f[2] = Bit(w, 6) * 16 /\ f[3] = Bit(w, 5) * 8
      /\ f[4] = Bit(w, 4) * 4 /\ f[5] = Bit(w, 3) * 2 /\ f[6] = Bit(w, 2) * 1
  <2>1. /\ f[1] = Bit(w, 12) * 2^5 /\ f[2] = Bit(w, 6) * 2^4 /\ f[3] = Bit(w, 5) * 2^3
        /\ f[4] = Bit(w, 4) * 2^2 /\ f[5] = Bit(w, 3) * 2^1 /\ f[6] = Bit(w, 2) * 2^0
    BY <1>1, <1>2
  <2> QED
    BY <2>1
<1>6. \A k \in 1 .. 6 : f[k] \in Nat
  BY <1>4, <1>5
<1>7. sum = f[1] + f[2] + f[3] + f[4] + f[5] + f[6]
  BY <1>6, SumOfTerms DEF sum
<1>8. UImmediate(w) = Field(w, 2, 5) + Bit(w, 12) * 32
  BY FieldBits DEF UImmediate, X, XS, Bit
<1>9. /\ Field(w, 2, 5) = Bit(w, 2) + 2 * Bit(w, 3) + 4 * Bit(w, 4) + 8 * Bit(w, 5) + 16 * Bit(w, 6)
  BY FieldBits
<1>10. sum - 0 = UImmediate(w)
  BY <1>4, <1>5, <1>7, <1>8, <1>9
<1> QED
  BY <1>3, <1>10 DEF bits, places, UnsignedLayout, Low6

LEMMA LwspUImmediateIs ==
  ASSUME NEW w, WordOK(w)
  PROVE  LaidOut(w, LwspLayout) = LwspUImmediate(w)
<1> DEFINE bits == <<12, 6, 5, 4, 3, 2>>
           places == <<5, 4, 3, 2, 7, 6>>
           f == Placed(w, bits, places, 6)
           sum == SumFunctionOnSet(f, 1 .. 6)
<1>1. /\ DOMAIN bits = 1 .. 6 /\ bits[1] = 12 /\ places[1] = 5
      /\ bits[2] = 6 /\ places[2] = 4 /\ bits[3] = 5 /\ places[3] = 3
      /\ bits[4] = 4 /\ places[4] = 2 /\ bits[5] = 3 /\ places[5] = 7
      /\ bits[6] = 2 /\ places[6] = 6
  OBVIOUS
<1> HIDE DEF bits, places
<1>2. /\ f[1] = Bit(w, bits[1]) * 2^places[1] /\ f[2] = Bit(w, bits[2]) * 2^places[2]
      /\ f[3] = Bit(w, bits[3]) * 2^places[3] /\ f[4] = Bit(w, bits[4]) * 2^places[4]
      /\ f[5] = Bit(w, bits[5]) * 2^places[5] /\ f[6] = Bit(w, bits[6]) * 2^places[6]
  BY DEF Placed
<1>3. LaidOut(w, Layout(bits, places, FALSE)) = sum - 0
  <2> DEFINE n == 6
  <2>1. DOMAIN bits = 1 .. n
    BY <1>1
  <2> HIDE DEF n
  <2>2. LaidOut(w, Layout(bits, places, FALSE)) =
          SumFunctionOnSet(Placed(w, bits, places, n), 1 .. n) - 0
    BY <2>1, LaidOutIs
  <2> QED
    BY <2>2 DEF n
<1> HIDE DEF f, sum
<1>4. /\ Bit(w, 2) \in {0, 1} /\ Bit(w, 3) \in {0, 1} /\ Bit(w, 4) \in {0, 1}
      /\ Bit(w, 5) \in {0, 1} /\ Bit(w, 6) \in {0, 1} /\ Bit(w, 12) \in {0, 1}
  BY FieldBits
<1>5. /\ f[1] = Bit(w, 12) * 32 /\ f[2] = Bit(w, 6) * 16 /\ f[3] = Bit(w, 5) * 8
      /\ f[4] = Bit(w, 4) * 4 /\ f[5] = Bit(w, 3) * 128 /\ f[6] = Bit(w, 2) * 64
  <2>1. /\ f[1] = Bit(w, 12) * 2^5 /\ f[2] = Bit(w, 6) * 2^4 /\ f[3] = Bit(w, 5) * 2^3
        /\ f[4] = Bit(w, 4) * 2^2 /\ f[5] = Bit(w, 3) * 2^7 /\ f[6] = Bit(w, 2) * 2^6
    BY <1>1, <1>2
  <2> QED
    BY <2>1
<1>6. \A k \in 1 .. 6 : f[k] \in Nat
  BY <1>4, <1>5
<1>7. sum = f[1] + f[2] + f[3] + f[4] + f[5] + f[6]
  BY <1>6, SumOfTerms DEF sum
<1>8. LwspUImmediate(w) = Field(w, 4, 3) * 4 + Bit(w, 12) * 32 + Field(w, 2, 2) * 64
  BY FieldBits DEF LwspUImmediate, X, XS, Bit
<1>9. /\ Field(w, 4, 3) = Bit(w, 4) + 2 * Bit(w, 5) + 4 * Bit(w, 6)
      /\ Field(w, 2, 2) = Bit(w, 2) + 2 * Bit(w, 3)
  BY FieldBits
<1>10. sum - 0 = LwspUImmediate(w)
  BY <1>4, <1>5, <1>7, <1>8, <1>9
<1> QED
  BY <1>3, <1>10 DEF bits, places, LwspLayout, Low6

LEMMA FldspUImmediateIs ==
  ASSUME NEW w, WordOK(w)
  PROVE  LaidOut(w, FldspLayout) = FldspUImmediate(w)
<1> DEFINE bits == <<12, 6, 5, 4, 3, 2>>
           places == <<5, 4, 3, 8, 7, 6>>
           f == Placed(w, bits, places, 6)
           sum == SumFunctionOnSet(f, 1 .. 6)
<1>1. /\ DOMAIN bits = 1 .. 6 /\ bits[1] = 12 /\ places[1] = 5
      /\ bits[2] = 6 /\ places[2] = 4 /\ bits[3] = 5 /\ places[3] = 3
      /\ bits[4] = 4 /\ places[4] = 8 /\ bits[5] = 3 /\ places[5] = 7
      /\ bits[6] = 2 /\ places[6] = 6
  OBVIOUS
<1> HIDE DEF bits, places
<1>2. /\ f[1] = Bit(w, bits[1]) * 2^places[1] /\ f[2] = Bit(w, bits[2]) * 2^places[2]
      /\ f[3] = Bit(w, bits[3]) * 2^places[3] /\ f[4] = Bit(w, bits[4]) * 2^places[4]
      /\ f[5] = Bit(w, bits[5]) * 2^places[5] /\ f[6] = Bit(w, bits[6]) * 2^places[6]
  BY DEF Placed
<1>3. LaidOut(w, Layout(bits, places, FALSE)) = sum - 0
  <2> DEFINE n == 6
  <2>1. DOMAIN bits = 1 .. n
    BY <1>1
  <2> HIDE DEF n
  <2>2. LaidOut(w, Layout(bits, places, FALSE)) =
          SumFunctionOnSet(Placed(w, bits, places, n), 1 .. n) - 0
    BY <2>1, LaidOutIs
  <2> QED
    BY <2>2 DEF n
<1> HIDE DEF f, sum
<1>4. /\ Bit(w, 2) \in {0, 1} /\ Bit(w, 3) \in {0, 1} /\ Bit(w, 4) \in {0, 1}
      /\ Bit(w, 5) \in {0, 1} /\ Bit(w, 6) \in {0, 1} /\ Bit(w, 12) \in {0, 1}
  BY FieldBits
<1>5. /\ f[1] = Bit(w, 12) * 32 /\ f[2] = Bit(w, 6) * 16 /\ f[3] = Bit(w, 5) * 8
      /\ f[4] = Bit(w, 4) * 256 /\ f[5] = Bit(w, 3) * 128 /\ f[6] = Bit(w, 2) * 64
  <2>1. /\ f[1] = Bit(w, 12) * 2^5 /\ f[2] = Bit(w, 6) * 2^4 /\ f[3] = Bit(w, 5) * 2^3
        /\ f[4] = Bit(w, 4) * 2^8 /\ f[5] = Bit(w, 3) * 2^7 /\ f[6] = Bit(w, 2) * 2^6
    BY <1>1, <1>2
  <2> QED
    BY <2>1
<1>6. \A k \in 1 .. 6 : f[k] \in Nat
  BY <1>4, <1>5
<1>7. sum = f[1] + f[2] + f[3] + f[4] + f[5] + f[6]
  BY <1>6, SumOfTerms DEF sum
<1>8. FldspUImmediate(w) = Field(w, 5, 2) * 8 + Bit(w, 12) * 32 + Field(w, 2, 3) * 64
  BY FieldBits DEF FldspUImmediate, X, XS, Bit
<1>9. /\ Field(w, 5, 2) = Bit(w, 5) + 2 * Bit(w, 6)
      /\ Field(w, 2, 3) = Bit(w, 2) + 2 * Bit(w, 3) + 4 * Bit(w, 4)
  BY FieldBits
<1>10. sum - 0 = FldspUImmediate(w)
  BY <1>4, <1>5, <1>7, <1>8, <1>9
<1> QED
  BY <1>3, <1>10 DEF bits, places, FldspLayout, Low6

LEMMA SwspUImmediateIs ==
  ASSUME NEW w, WordOK(w)
  PROVE  LaidOut(w, SwspLayout) = SwspUImmediate(w)
<1> DEFINE bits == <<12, 11, 10, 9, 8, 7>>
           places == <<5, 4, 3, 2, 7, 6>>
           f == Placed(w, bits, places, 6)
           sum == SumFunctionOnSet(f, 1 .. 6)
<1>1. /\ DOMAIN bits = 1 .. 6 /\ bits[1] = 12 /\ places[1] = 5
      /\ bits[2] = 11 /\ places[2] = 4 /\ bits[3] = 10 /\ places[3] = 3
      /\ bits[4] = 9 /\ places[4] = 2 /\ bits[5] = 8 /\ places[5] = 7
      /\ bits[6] = 7 /\ places[6] = 6
  OBVIOUS
<1> HIDE DEF bits, places
<1>2. /\ f[1] = Bit(w, bits[1]) * 2^places[1] /\ f[2] = Bit(w, bits[2]) * 2^places[2]
      /\ f[3] = Bit(w, bits[3]) * 2^places[3] /\ f[4] = Bit(w, bits[4]) * 2^places[4]
      /\ f[5] = Bit(w, bits[5]) * 2^places[5] /\ f[6] = Bit(w, bits[6]) * 2^places[6]
  BY DEF Placed
<1>3. LaidOut(w, Layout(bits, places, FALSE)) = sum - 0
  <2> DEFINE n == 6
  <2>1. DOMAIN bits = 1 .. n
    BY <1>1
  <2> HIDE DEF n
  <2>2. LaidOut(w, Layout(bits, places, FALSE)) =
          SumFunctionOnSet(Placed(w, bits, places, n), 1 .. n) - 0
    BY <2>1, LaidOutIs
  <2> QED
    BY <2>2 DEF n
<1> HIDE DEF f, sum
<1>4. /\ Bit(w, 7) \in {0, 1} /\ Bit(w, 8) \in {0, 1} /\ Bit(w, 9) \in {0, 1}
      /\ Bit(w, 10) \in {0, 1} /\ Bit(w, 11) \in {0, 1} /\ Bit(w, 12) \in {0, 1}
  BY FieldBits
<1>5. /\ f[1] = Bit(w, 12) * 32 /\ f[2] = Bit(w, 11) * 16 /\ f[3] = Bit(w, 10) * 8
      /\ f[4] = Bit(w, 9) * 4 /\ f[5] = Bit(w, 8) * 128 /\ f[6] = Bit(w, 7) * 64
  <2>1. /\ f[1] = Bit(w, 12) * 2^5 /\ f[2] = Bit(w, 11) * 2^4 /\ f[3] = Bit(w, 10) * 2^3
        /\ f[4] = Bit(w, 9) * 2^2 /\ f[5] = Bit(w, 8) * 2^7 /\ f[6] = Bit(w, 7) * 2^6
    BY <1>1, <1>2
  <2> QED
    BY <2>1
<1>6. \A k \in 1 .. 6 : f[k] \in Nat
  BY <1>4, <1>5
<1>7. sum = f[1] + f[2] + f[3] + f[4] + f[5] + f[6]
  BY <1>6, SumOfTerms DEF sum
<1>8. SwspUImmediate(w) = Field(w, 9, 4) * 4 + Field(w, 7, 2) * 64
  BY FieldBits DEF SwspUImmediate, X, XS, Bit
<1>9. /\ Field(w, 9, 4) = Bit(w, 9) + 2 * Bit(w, 10) + 4 * Bit(w, 11) + 8 * Bit(w, 12)
      /\ Field(w, 7, 2) = Bit(w, 7) + 2 * Bit(w, 8)
  BY FieldBits
<1>10. sum - 0 = SwspUImmediate(w)
  BY <1>4, <1>5, <1>7, <1>8, <1>9
<1> QED
  BY <1>3, <1>10 DEF bits, places, SwspLayout

LEMMA FsdspUImmediateIs ==
  ASSUME NEW w, WordOK(w)
  PROVE  LaidOut(w, FsdspLayout) = FsdspUImmediate(w)
<1> DEFINE bits == <<12, 11, 10, 9, 8, 7>>
           places == <<5, 4, 3, 8, 7, 6>>
           f == Placed(w, bits, places, 6)
           sum == SumFunctionOnSet(f, 1 .. 6)
<1>1. /\ DOMAIN bits = 1 .. 6 /\ bits[1] = 12 /\ places[1] = 5
      /\ bits[2] = 11 /\ places[2] = 4 /\ bits[3] = 10 /\ places[3] = 3
      /\ bits[4] = 9 /\ places[4] = 8 /\ bits[5] = 8 /\ places[5] = 7
      /\ bits[6] = 7 /\ places[6] = 6
  OBVIOUS
<1> HIDE DEF bits, places
<1>2. /\ f[1] = Bit(w, bits[1]) * 2^places[1] /\ f[2] = Bit(w, bits[2]) * 2^places[2]
      /\ f[3] = Bit(w, bits[3]) * 2^places[3] /\ f[4] = Bit(w, bits[4]) * 2^places[4]
      /\ f[5] = Bit(w, bits[5]) * 2^places[5] /\ f[6] = Bit(w, bits[6]) * 2^places[6]
  BY DEF Placed
<1>3. LaidOut(w, Layout(bits, places, FALSE)) = sum - 0
  <2> DEFINE n == 6
  <2>1. DOMAIN bits = 1 .. n
    BY <1>1
  <2> HIDE DEF n
  <2>2. LaidOut(w, Layout(bits, places, FALSE)) =
          SumFunctionOnSet(Placed(w, bits, places, n), 1 .. n) - 0
    BY <2>1, LaidOutIs
  <2> QED
    BY <2>2 DEF n
<1> HIDE DEF f, sum
<1>4. /\ Bit(w, 7) \in {0, 1} /\ Bit(w, 8) \in {0, 1} /\ Bit(w, 9) \in {0, 1}
      /\ Bit(w, 10) \in {0, 1} /\ Bit(w, 11) \in {0, 1} /\ Bit(w, 12) \in {0, 1}
  BY FieldBits
<1>5. /\ f[1] = Bit(w, 12) * 32 /\ f[2] = Bit(w, 11) * 16 /\ f[3] = Bit(w, 10) * 8
      /\ f[4] = Bit(w, 9) * 256 /\ f[5] = Bit(w, 8) * 128 /\ f[6] = Bit(w, 7) * 64
  <2>1. /\ f[1] = Bit(w, 12) * 2^5 /\ f[2] = Bit(w, 11) * 2^4 /\ f[3] = Bit(w, 10) * 2^3
        /\ f[4] = Bit(w, 9) * 2^8 /\ f[5] = Bit(w, 8) * 2^7 /\ f[6] = Bit(w, 7) * 2^6
    BY <1>1, <1>2
  <2> QED
    BY <2>1
<1>6. \A k \in 1 .. 6 : f[k] \in Nat
  BY <1>4, <1>5
<1>7. sum = f[1] + f[2] + f[3] + f[4] + f[5] + f[6]
  BY <1>6, SumOfTerms DEF sum
<1>8. FsdspUImmediate(w) = Field(w, 10, 3) * 8 + Field(w, 7, 3) * 64
  BY FieldBits DEF FsdspUImmediate, X, XS, Bit
<1>9. /\ Field(w, 10, 3) = Bit(w, 10) + 2 * Bit(w, 11) + 4 * Bit(w, 12)
      /\ Field(w, 7, 3) = Bit(w, 7) + 2 * Bit(w, 8) + 4 * Bit(w, 9)
  BY FieldBits
<1>10. sum - 0 = FsdspUImmediate(w)
  BY <1>4, <1>5, <1>7, <1>8, <1>9
<1> QED
  BY <1>3, <1>10 DEF bits, places, FsdspLayout

(* What the instructions made of a word carry.                             *)
Short(j) == [j EXCEPT !.len = 2]

LEMMA Carried ==
  /\ \A op, a, b, c : Rtype(op, a, b, c).len = 4
  /\ \A op, a, b, c : Itype(op, a, b, c).len = 4 /\ Short(Itype(op, a, b, c)).imm = c
  /\ \A op, a, b, c : Stype(op, c, a, b).len = 4 /\ Short(Stype(op, c, a, b)).imm = c
  /\ \A op, a, c : Utype(op, a, c).len = 4 /\ Short(Utype(op, a, c)).imm = c
  /\ \A op : BlankInstruction(op).len = 4
  /\ [Short(Nop) EXCEPT !.len = 4] = Nop
<1>1. \A op, a, b, c : Rtype(op, a, b, c).len = 4
  BY DEF Rtype, Instruction
<1>2. \A op, a, b, c : Itype(op, a, b, c).len = 4 /\ Short(Itype(op, a, b, c)).imm = c
  BY DEF Itype, Instruction, Short
<1>3. \A op, a, b, c : Stype(op, c, a, b).len = 4 /\ Short(Stype(op, c, a, b)).imm = c
  BY DEF Stype, Instruction, Short
<1>4. \A op, a, c : Utype(op, a, c).len = 4 /\ Short(Utype(op, a, c)).imm = c
  BY DEF Utype, Instruction, Short
<1>5. \A op : BlankInstruction(op).len = 4
  BY DEF BlankInstruction, Blank, Instruction
<1>6. [Short(Nop) EXCEPT !.len = 4] = Nop
  <2> DEFINE R(n) == [op |-> "ADDI", rd |-> 0, rs1 |-> 0, rs2 |-> 0, rs3 |-> 0, rs4 |-> 0,
                      imm |-> 0, len |-> n]
  <2>1. Nop = R(4) /\ Short(R(4)) = R(2) /\ [R(2) EXCEPT !.len = 4] = R(4)
    BY DEF Nop, Itype, Instruction, Short
  <2> QED
    BY <2>1
<1> QED
  BY <1>1, <1>2, <1>3, <1>4, <1>5, <1>6

(* Only compressed words make instructions of two bytes.                   *)
LEMMA FullAnswers ==
  ASSUME NEW w, WordOK(w), NEW v, NEW bits, NEW x \in {"i", "m", "b", "a"},
         NEW i \in Factory(x, w, v, bits)
  PROVE  i.len = 4
<1> DEFINE rv64 == bits = 64
<1>1. /\ \A ops : \A j \in RtypeOf(ops, w) : j.len = 4
      /\ \A ops, imm : \A j \in ItypeOf(ops, w, imm) : j.len = 4
      /\ \A ops, imm : \A j \in StypeOf(ops, w, imm) : j.len = 4
  BY Carried DEF RtypeOf, ItypeOf, StypeOf
<1>2. CASE x = "i"
  <2>1. i \in IFactory(w, v, rv64)
    BY <1>2 DEF Factory
  <2>2. \A j \in Fences(w) : j.len = 4
    BY Carried DEF Fences
  <2>3. \A h : w = [lo |-> 115, hi |-> h] => Opcode(w) = 115
    BY FieldsAre
  <2>4. \/ \E ops : i \in RtypeOf(ops, w)
        \/ \E ops, imm : i \in ItypeOf(ops, w, imm) \/ i \in StypeOf(ops, w, imm)
        \/ \E op, a, c : i = Utype(op, a, c)
        \/ \E op : i = BlankInstruction(op)
        \/ i \in Fences(w)
    <3> HIDE DEF rv64
    <3> QED
      BY <2>1, <2>3 DEF IFactory
  <2> QED
    BY <1>1, <2>2, <2>4, Carried
<1>3. CASE x = "m"
  <2>1. i \in MFactory(w, v, rv64)
    BY <1>3 DEF Factory
  <2>2. \E ops : i \in RtypeOf(ops, w)
    BY <2>1 DEF MFactory
  <2> QED
    BY <1>1, <2>2
<1>4. CASE x = "b"
  <2>1. i \in BFactory(w, v, rv64)
    BY <1>4 DEF Factory
  <2>2. (\E ops : i \in RtypeOf(ops, w)) \/ \E ops, imm : i \in ItypeOf(ops, w, imm)
    <3> HIDE DEF rv64
    <3> QED
      BY <2>1 DEF BFactory
  <2> QED
    BY <1>1, <2>2
<1>5. CASE x = "a"
  <2>1. i \in AFactory(w, v, rv64)
    BY <1>5 DEF Factory
  <2>2. \E ops : i \in RtypeOf(ops, w)
    BY <2>1 DEF AFactory
  <2> QED
    BY <1>1, <2>2
<1> QED
  BY <1>2, <1>3, <1>4, <1>5

OfQuadrant(w, v, i) ==
  /\ Field(w, 0, 2) = 0 => \E j \in Quadrant0(w, v, TRUE) : i = Short(j)
  /\ Field(w, 0, 2) = 1 => \E j \in Quadrant1(w, v, TRUE) : i = Short(j)
  /\ Field(w, 0, 2) = 2 => \E j \in Quadrant2(w, v, TRUE) : i = Short(j)

LEMMA RvcIs ==
  ASSUME NEW w, NEW v, NEW i \in RvcFactory(w, v, TRUE)
  PROVE  OfQuadrant(w, v, i) /\ Field(w, 0, 2) # 3
<1> DEFINE q == Field(w, 0, 2)
           s == CASE q = 0 -> Quadrant0(w, v, TRUE) [] q = 1 -> Quadrant1(w, v, TRUE)
                  [] q = 2 -> Quadrant2(w, v, TRUE) [] q = 3 -> {}
<1>1. \E j \in s : i = Short(j)
  BY DEF RvcFactory, Short
<1> HIDE DEF q
<1>2. /\ q = 0 => s = Quadrant0(w, v, TRUE)
      /\ q = 1 => s = Quadrant1(w, v, TRUE)
      /\ q = 2 => s = Quadrant2(w, v, TRUE)
      /\ q = 3 => s = {}
  <2> DEFINE s0 == Quadrant0(w, v, TRUE)  s1 == Quadrant1(w, v, TRUE)
             s2 == Quadrant2(w, v, TRUE)
  <2>1. s = CASE q = 0 -> s0 [] q = 1 -> s1 [] q = 2 -> s2 [] q = 3 -> {}
    OBVIOUS
  <2> HIDE DEF s0, s1, s2, s
  <2>2. /\ q = 0 => s = s0
        /\ q = 1 => s = s1
        /\ q = 2 => s = s2
        /\ q = 3 => s = {}
    BY <2>1
  <2> QED
    BY <2>2 DEF s0, s1, s2
<1> HIDE DEF s
<1> QED
  BY <1>1, <1>2 DEF q, OfQuadrant

(* The immediates of the three quadrants, for registers of 64 bits.        *)
LEMMA Quadrant0Immediates ==
  ASSUME NEW w, WordOK(w), NEW v, NEW j \in Quadrant0(w, v, TRUE),
         CommentedLayout(0, Field(w, 13, 3)) # NoLayout
  PROVE  Short(j).imm = LaidOut(w, CommentedLayout(0, Field(w, 13, 3)))
<1> DEFINE f3 == Field(w, 13, 3)  l == CommentedLayout(0, f3)
<1>1. f3 \in {2, 3, 6, 7}
  BY DEF CommentedLayout
<1>2. CASE f3 \in {2, 6}
  <2>1. LaidOut(w, l) = SwUImmediate(w)
    <3>1. l = SwLayout
      BY <1>2 DEF CommentedLayout
    <3> QED
      BY <3>1, SwUImmediateIs
  <2>2. Short(j).imm = SwUImmediate(w)
    BY <1>2, Carried DEF Quadrant0
  <2> QED
    BY <2>1, <2>2
<1>3. CASE f3 \in {3, 7}
  <2>1. LaidOut(w, l) = FldUImmediate(w)
    <3>1. l = FldLayout
      BY <1>3 DEF CommentedLayout
    <3> QED
      BY <3>1, FldUImmediateIs
  <2>2. Short(j).imm = FldUImmediate(w)
    BY <1>3, Carried DEF Quadrant0
  <2> QED
    BY <2>1, <2>2
<1> QED
  BY <1>1, <1>2, <1>3

LEMMA Quadrant1Immediates ==
  ASSUME NEW w, WordOK(w), NEW v, NEW j \in Quadrant1(w, v, TRUE), j # Nop,
         CommentedLayout(1, Field(w, 13, 3)) # NoLayout
  PROVE  Short(j).imm = LaidOut(w, CommentedLayout(1, Field(w, 13, 3)))
<1> DEFINE f3 == Field(w, 13, 3)  l == CommentedLayout(1, f3)
<1>1. f3 \in {0, 1, 2, 5, 6, 7}
  BY DEF CommentedLayout
<1>2. j \notin Hint(v) /\ j \notin {Nop}
  BY DEF Hint
<1>3. CASE f3 \in {0, 1, 2}
  <2>1. LaidOut(w, l) = Immediate(w)
    <3>1. l = SignedLayout
      BY <1>3 DEF CommentedLayout
    <3> QED
      BY <3>1, ImmediateIs
  <2>2. Short(j).imm = Immediate(w)
    <3>1. \E op, a, b : j = Itype(op, a, b, Immediate(w))
      <4>1. CASE f3 = 0
        <5>1. f3 # 1 /\ f3 # 2 /\ f3 # 3 /\ f3 # 4 /\ f3 # 5 /\ f3 # 6 /\ f3 # 7
          BY <4>1
        <5> QED
          BY <1>2, <4>1, <5>1, Zenon DEF Quadrant1
      <4>2. CASE f3 = 1
        <5>1. f3 # 0 /\ f3 # 2 /\ f3 # 3 /\ f3 # 4 /\ f3 # 5 /\ f3 # 6 /\ f3 # 7
          BY <4>2
        <5> QED
          BY <1>2, <4>2, <5>1, Zenon DEF Quadrant1
      <4>3. CASE f3 = 2
        <5>1. f3 # 0 /\ f3 # 1 /\ f3 # 3 /\ f3 # 4 /\ f3 # 5 /\ f3 # 6 /\ f3 # 7
          BY <4>3
        <5> QED
          BY <1>2, <4>3, <5>1, Zenon DEF Quadrant1
      <4> QED
        BY <1>3, <4>1, <4>2, <4>3
    <3> QED
      BY <3>1, Carried
  <2> QED
    BY <2>1, <2>2
<1>4. CASE f3 = 5
  <2>1. LaidOut(w, l) = JImmediate(w)
    <3>1. l = JLayout
      BY <1>4 DEF CommentedLayout
    <3> QED
      BY <3>1, JImmediateIs
  <2>2. Short(j).imm = JImmediate(w)
    BY <1>4, Carried DEF Quadrant1
  <2> QED
    BY <2>1, <2>2
<1>5. CASE f3 \in {6, 7}
  <2>1. LaidOut(w, l) = BImmediate(w)
    <3>1. l = BLayout
      BY <1>5 DEF CommentedLayout
    <3> QED
      BY <3>1, BImmediateIs
  <2>2. Short(j).imm = BImmediate(w)
    <3>1. \E op, a, b : j = Stype(op, BImmediate(w), a, b)
      <4>1. CASE f3 = 6
        BY <4>1 DEF Quadrant1
      <4>2. CASE f3 = 7
        BY <4>2 DEF Quadrant1
      <4> QED
        BY <1>5, <4>1, <4>2
    <3> QED
      BY <3>1, Carried
  <2> QED
    BY <2>1, <2>2
<1> QED
  BY <1>1, <1>3, <1>4, <1>5

LEMMA Quadrant2Immediates ==
  ASSUME NEW w, WordOK(w), NEW v, NEW j \in Quadrant2(w, v, TRUE), j # Nop,
         CommentedLayout(2, Field(w, 13, 3)) # NoLayout
  PROVE  Short(j).imm = LaidOut(w, CommentedLayout(2, Field(w, 13, 3)))
<1> DEFINE f3 == Field(w, 13, 3)  l == CommentedLayout(2, f3)
<1>1. f3 \in {0, 2, 3, 6, 7}
  BY DEF CommentedLayout
<1>2. j \notin Hint(v)
  BY DEF Hint
<1>3. CASE f3 = 0
  <2>1. LaidOut(w, l) = UImmediate(w)
    <3>1. l = UnsignedLayout
      BY <1>3 DEF CommentedLayout
    <3> QED
      BY <3>1, UImmediateIs
  <2>2. UImmediate(w) % 64 = UImmediate(w)
    <3>1. UImmediate(w) = Field(w, 2, 5) + Bit(w, 12) * 32
      BY FieldBits DEF UImmediate, X, Bit
    <3>2. /\ Bit(w, 2) \in {0, 1} /\ Bit(w, 3) \in {0, 1} /\ Bit(w, 4) \in {0, 1}
          /\ Bit(w, 5) \in {0, 1} /\ Bit(w, 6) \in {0, 1} /\ Bit(w, 12) \in {0, 1}
      BY FieldBits
    <3>3. Field(w, 2, 5) = Bit(w, 2) + 2 * Bit(w, 3) + 4 * Bit(w, 4) + 8 * Bit(w, 5)
                             + 16 * Bit(w, 6)
      BY FieldBits
    <3> QED
      BY <3>1, <3>2, <3>3
  <2>3. Short(j).imm = UImmediate(w) % 64
    BY <1>2, <1>3, Carried DEF Quadrant2
  <2> QED
    BY <2>1, <2>2, <2>3
<1>4. CASE f3 = 2
  <2>1. LaidOut(w, l) = LwspUImmediate(w)
    <3>1. l = LwspLayout
      BY <1>4 DEF CommentedLayout
    <3> QED
      BY <3>1, LwspUImmediateIs
  <2>2. Short(j).imm = LwspUImmediate(w)
    BY <1>4, Carried DEF Quadrant2
  <2> QED
    BY <2>1, <2>2
<1>5. CASE f3 = 3
  <2>1. LaidOut(w, l) = FldspUImmediate(w)
    <3>1. l = FldspLayout
      BY <1>5 DEF CommentedLayout
    <3> QED
      BY <3>1, FldspUImmediateIs
  <2>2. Short(j).imm = FldspUImmediate(w)
    BY <1>5, Carried DEF Quadrant2
  <2> QED
    BY <2>1, <2>2
<1>6. CASE f3 = 6
  <2>1. LaidOut(w, l) = SwspUImmediate(w)
    <3>1. l = SwspLayout
      BY <1>6 DEF CommentedLayout
    <3> QED
      BY <3>1, SwspUImmediateIs
  <2>2. Short(j).imm = SwspUImmediate(w)
    BY <1>6, Carried DEF Quadrant2
  <2> QED
    BY <2>1, <2>2
<1>7. CASE f3 = 7
  <2>1. LaidOut(w, l) = FsdspUImmediate(w)
    <3>1. l = FsdspLayout
      BY <1>7 DEF CommentedLayout
    <3> QED
      BY <3>1, FsdspUImmediateIs
  <2>2. Short(j).imm = FsdspUImmediate(w)
    BY <1>7, Carried DEF Quadrant2
  <2> QED
    BY <2>1, <2>2
<1> QED
  BY <1>1, <1>3, <1>4, <1>5, <1>6, <1>7

(* The bits of every compressed immediate stand where the comments over    *)
(* rvc.rs' helpers say; for every word.                                    *)
THEOREM ImmediatesHold == WordSpec => []ImmediatesAsCommented
<1>1. DecodedInv => ImmediatesAsCommented
  <2> DEFINE q == Field(Fetched, 0, 2)  l == CommentedLayout(q, Field(Fetched, 13, 3))
             v == fetch.version
  <2> SUFFICES ASSUME DecodedInv, NEW i \in decoded.insts, i.len = 2, l # NoLayout,
                      fetch.bits = 64, [i EXCEPT !.len = 4] # Nop
               PROVE  i.imm = LaidOut(Fetched, l)
    BY DEF ImmediatesAsCommented
  <2> DEFINE asked == FactoriesOf(fetch.isa)
  <2>1. /\ WordOK(Fetched)
        /\ decoded.insts = FirstAnswer(fetch.isa, Fetched, v, fetch.bits)
    BY DecodedIs
  <2>2. PICK k \in DOMAIN asked : decoded.insts = Factory(asked[k], Fetched, v, fetch.bits)
    BY <2>1, AnswerIs
  <2>3. asked[k] = "rvc"
    <3>1. asked[k] \in FactoryNames /\ i \in Factory(asked[k], Fetched, v, fetch.bits)
      BY <2>2, AskedAre
    <3>2. asked[k] \notin {"i", "m", "b", "a"}
      BY <2>1, <3>1, FullAnswers
    <3> QED
      BY <3>1, <3>2 DEF FactoryNames
  <2>4. i \in RvcFactory(Fetched, v, TRUE)
    BY <2>2, <2>3 DEF Factory
  <2>5. /\ q \in {0, 1, 2}
        /\ q = 0 => \E j \in Quadrant0(Fetched, v, TRUE) : i = Short(j)
        /\ q = 1 => \E j \in Quadrant1(Fetched, v, TRUE) : i = Short(j)
        /\ q = 2 => \E j \in Quadrant2(Fetched, v, TRUE) : i = Short(j)
    <3>1. q \in {0, 1, 2, 3}
      <4>1. q = Fetched.lo % 4 /\ Fetched.lo \in Nat
        BY <2>1, FieldsAre DEF WordOK
      <4> QED
        BY <4>1
    <3>2. q # 3
      BY <2>1, <2>4, RvcIs
    <3>3. /\ q = 0 => \E j \in Quadrant0(Fetched, v, TRUE) : i = Short(j)
          /\ q = 1 => \E j \in Quadrant1(Fetched, v, TRUE) : i = Short(j)
          /\ q = 2 => \E j \in Quadrant2(Fetched, v, TRUE) : i = Short(j)
      <4>1. OfQuadrant(Fetched, v, i)
        BY <2>4, RvcIs
      <4> QED
        BY <4>1 DEF OfQuadrant
    <3> QED
      BY <3>1, <3>2, <3>3
  <2> HIDE DEF l
  <2>10. l = CommentedLayout(q, Field(Fetched, 13, 3))
    BY DEF l
  <2> HIDE DEF q, v
  <2>7. CASE q = 0
    <3>1. PICK j \in Quadrant0(Fetched, v, TRUE) : i = Short(j)
      BY <2>5, <2>7
    <3> QED
      BY <2>1, <2>7, <2>10, <3>1, Quadrant0Immediates
  <2>8. CASE q = 1
    <3>1. PICK j \in Quadrant1(Fetched, v, TRUE) : i = Short(j)
      BY <2>5, <2>8
    <3>2. j # Nop
      BY <3>1, Carried
    <3> QED
      BY <2>1, <2>8, <2>10, <3>1, <3>2, Quadrant1Immediates
  <2>9. CASE q = 2
    <3>1. PICK j \in Quadrant2(Fetched, v, TRUE) : i = Short(j)
      BY <2>5, <2>9
    <3>2. j # Nop
      BY <3>1, Carried
    <3> QED
      BY <2>1, <2>9, <2>10, <3>1, <3>2, Quadrant2Immediates
  <2> QED
    BY <2>5, <2>7, <2>8, <2>9
<1> QED
  BY <1>1, DecodedInvariant, PTL
--------------------------------------------------------------------------------
(* No two words a bit apart are the same instruction.                      *)

BitValues == {1, 2, 4, 8, 16, 32, 64, 128, 256, 512, 1024, 2048, 4096, 8192, 16384, 32768}

(* A half with a bit changed is a power of two away.                       *)
Flipped(h, b) == IF (h \div 2^b) % 2 = 1 THEN h - 2^b ELSE h + 2^b
Apart(h, g, p) == g = h + p \/ h = g + p

LEMMA FlippedIs ==
  ASSUME NEW h \in Nat, h < 65536, NEW b \in 0 .. 15
  PROVE  /\ Flipped(h, b) \in Nat /\ Flipped(h, b) < 65536
         /\ \E p \in BitValues : /\ Apart(h, Flipped(h, b), p)
                                 /\ p \in {512, 1024} => b \in {9, 10}
<1> DEFINE Good(p) == \E g : /\ g = (IF (h \div p) % 2 = 1 THEN h - p ELSE h + p)
                             /\ g \in Nat /\ g < 65536 /\ Apart(h, g, p)
<1>1. ASSUME NEW p, Good(p), p = 2^b
      PROVE  Flipped(h, b) \in Nat /\ Flipped(h, b) < 65536 /\ Apart(h, Flipped(h, b), p)
  BY <1>1 DEF Flipped
<1>2. Good(1)
  BY DEF Apart
<1>3. Good(2)
  BY DEF Apart
<1>4. Good(4)
  BY DEF Apart
<1>5. Good(8)
  BY DEF Apart
<1>6. Good(16)
  BY DEF Apart
<1>7. Good(32)
  BY DEF Apart
<1>8. Good(64)
  BY DEF Apart
<1>9. Good(128)
  BY DEF Apart
<1>10. Good(256)
  BY DEF Apart
<1>11. Good(512)
  BY DEF Apart
<1>12. Good(1024)
  BY DEF Apart
<1>13. Good(2048)
  BY DEF Apart
<1>14. Good(4096)
  BY DEF Apart
<1>15. Good(8192)
  BY DEF Apart
<1>16. Good(16384)
  BY DEF Apart
<1>17. Good(32768)
  BY DEF Apart
<1> HIDE DEF Good
<1>18. CASE b = 0
  <2>1. 2^b = 1
    BY <1>18
  <2> QED
    BY <1>1, <1>2, <1>18, <2>1 DEF BitValues
<1>19. CASE b = 1
  <2>1. 2^b = 2
    BY <1>19
  <2> QED
    BY <1>1, <1>3, <1>19, <2>1 DEF BitValues
<1>20. CASE b = 2
  <2>1. 2^b = 4
    BY <1>20
  <2> QED
    BY <1>1, <1>4, <1>20, <2>1 DEF BitValues
<1>21. CASE b = 3
  <2>1. 2^b = 8
    BY <1>21
  <2> QED
    BY <1>1, <1>5, <1>21, <2>1 DEF BitValues
<1>22. CASE b = 4
  <2>1. 2^b = 16
    BY <1>22
  <2> QED
    BY <1>1, <1>6, <1>22, <2>1 DEF BitValues
<1>23. CASE b = 5
  <2>1. 2^b = 32
    BY <1>23
  <2> QED
    BY <1>1, <1>7, <1>23, <2>1 DEF BitValues
<1>24. CASE b = 6
  <2>1. 2^b = 64
    BY <1>24
  <2> QED
    BY <1>1, <1>8, <1>24, <2>1 DEF BitValues
<1>25. CASE b = 7
  <2>1. 2^b = 128
    BY <1>25
  <2> QED
    BY <1>1, <1>9, <1>25, <2>1 DEF BitValues
<1>26. CASE b = 8
  <2>1. 2^b = 256
    BY <1>26
  <2> QED
    BY <1>1, <1>10, <1>26, <2>1 DEF BitValues
<1>27. CASE b = 9
  <2>1. 2^b = 512
    BY <1>27
  <2> QED
    BY <1>1, <1>11, <1>27, <2>1 DEF BitValues
<1>28. CASE b = 10
  <2>1. 2^b = 1024
    BY <1>28
  <2> QED
    BY <1>1, <1>12, <1>28, <2>1 DEF BitValues
<1>29. CASE b = 11
  <2>1. 2^b = 2048
    BY <1>29
  <2> QED
    BY <1>1, <1>13, <1>29, <2>1 DEF BitValues
<1>30. CASE b = 12
  <2>1. 2^b = 4096
    BY <1>30
  <2> QED
    BY <1>1, <1>14, <1>30, <2>1 DEF BitValues
<1>31. CASE b = 13
  <2>1. 2^b = 8192
    BY <1>31
  <2> QED
    BY <1>1, <1>15, <1>31, <2>1 DEF BitValues
<1>32. CASE b = 14
  <2>1. 2^b = 16384
    BY <1>32
  <2> QED
    BY <1>1, <1>16, <1>32, <2>1 DEF BitValues
<1>33. CASE b = 15
  <2>1. 2^b = 32768
    BY <1>33
  <2> QED
    BY <1>1, <1>17, <1>33, <2>1 DEF BitValues
<1> QED
  BY <1>18, <1>19, <1>20, <1>21, <1>22, <1>23, <1>24, <1>25, <1>26, <1>27, <1>28,
     <1>29, <1>30, <1>31, <1>32, <1>33

LEMMA FlipIs ==
  ASSUME NEW w, WordOK(w), w = [lo |-> w.lo, hi |-> w.hi], NEW k \in 0 .. 31
  PROVE  /\ WordOK(Flip(w, k))
         /\ k < 16 => /\ Flip(w, k).hi = w.hi
                      /\ \E p \in BitValues : Apart(w.lo, Flip(w, k).lo, p)
         /\ k >= 16 => /\ Flip(w, k).lo = w.lo
                       /\ \E p \in BitValues : /\ Apart(w.hi, Flip(w, k).hi, p)
                                               /\ p \in {512, 1024} => k \in {25, 26}
<1>1. CASE k < 16
  <2>1. Flip(w, k) = [lo |-> Flipped(w.lo, k), hi |-> w.hi]
    BY <1>1 DEF Flip, Flipped
  <2> DEFINE g == Flipped(w.lo, k)
  <2>2. g \in Nat /\ g < 65536 /\ \E p \in BitValues : Apart(w.lo, g, p)
    BY <1>1, FlippedIs DEF WordOK
  <2> HIDE DEF g
  <2>3. Flip(w, k) = [lo |-> g, hi |-> w.hi]
    BY <2>1 DEF g
  <2> QED
    BY <1>1, <2>2, <2>3 DEF WordOK
<1>2. CASE k >= 16
  <2> DEFINE b == k - 16
  <2>1. b \in 0 .. 15 /\ (b \in {9, 10} => k \in {25, 26})
    BY <1>2
  <2>2. Flip(w, k) = [lo |-> w.lo, hi |-> Flipped(w.hi, b)]
    BY <1>2 DEF Flip, Flipped
  <2> DEFINE g == Flipped(w.hi, b)
  <2> HIDE DEF b
  <2>3. g \in Nat /\ g < 65536
        /\ \E p \in BitValues : Apart(w.hi, g, p) /\ (p \in {512, 1024} => b \in {9, 10})
    BY <2>1, FlippedIs DEF WordOK
  <2> HIDE DEF g
  <2>4. Flip(w, k) = [lo |-> w.lo, hi |-> g]
    BY <2>2 DEF g
  <2> QED
    BY <1>2, <2>1, <2>3, <2>4 DEF WordOK
<1> QED
  BY <1>1, <1>2
(* A full word and its immediates, in terms of its fields.                 *)
LEMMA FullFields ==
  ASSUME NEW w, WordOK(w)
  PROVE  /\ Opcode(w) \in 0 .. 127 /\ Rd(w) \in 0 .. 31 /\ Funct3(w) \in 0 .. 7
         /\ Rs1(w) \in 0 .. 31 /\ Rs2(w) \in 0 .. 31 /\ Funct7(w) \in 0 .. 127
         /\ w.lo = Opcode(w) + 128 * Rd(w) + 4096 * Funct3(w) + 32768 * (Rs1(w) % 2)
         /\ w.hi = Rs1(w) \div 2 + 16 * Rs2(w) + 512 * Funct7(w)
<1> DEFINE lo == w.lo  hi == w.hi
<1>1. lo \in Nat /\ lo < 65536 /\ hi \in Nat /\ hi < 65536
  BY DEF WordOK
<1>2. /\ Opcode(w) = lo % 128 /\ Rd(w) = (lo \div 128) % 32 /\ Funct3(w) = (lo \div 4096) % 8
      /\ Rs1(w) = lo \div 32768 + (hi % 16) * 2
      /\ Rs2(w) = (hi \div 16) % 32 /\ Funct7(w) = (hi \div 512) % 128
  BY <1>1 DEF Opcode, Rd, Funct3, Rs1, Rs2, Funct7, Field
<1> HIDE DEF lo, hi
<1>3. lo = (lo % 128) + 128 * ((lo \div 128) % 32) + 4096 * ((lo \div 4096) % 8)
             + 32768 * (lo \div 32768)
  BY <1>1
<1>4. hi = (hi % 16) + 16 * ((hi \div 16) % 32) + 512 * ((hi \div 512) % 128)
  BY <1>1
<1> DEFINE top == lo \div 32768  low == hi % 16
<1>5. top \in {0, 1} /\ low \in 0 .. 15
  BY <1>1
<1>6. (top + low * 2) % 2 = top /\ (top + low * 2) \div 2 = low /\ top + low * 2 \in 0 .. 31
  <2> HIDE DEF top, low
  <2> QED
    BY <1>5
<1>7. /\ lo % 128 \in 0 .. 127 /\ (lo \div 128) % 32 \in 0 .. 31 /\ (lo \div 4096) % 8 \in 0 .. 7
      /\ (hi \div 16) % 32 \in 0 .. 31 /\ (hi \div 512) % 128 \in 0 .. 127
  BY <1>1
<1> QED
  BY <1>2, <1>3, <1>4, <1>6, <1>7 DEF lo, hi

(* The parts that the immediates are made of.                              *)
LEMMA ImmediateParts ==
  ASSUME NEW w, WordOK(w)
  PROVE  /\ Field(w, 20, 12) = Rs2(w) + 32 * Funct7(w)
         /\ Field(w, 20, 6) = Rs2(w) + 32 * (Funct7(w) % 2) /\ Field(w, 20, 5) = Rs2(w)
         /\ Field(w, 7, 5) = Rd(w) /\ Field(w, 25, 7) = Funct7(w)
         /\ Field(w, 8, 4) = Rd(w) \div 2 /\ Field(w, 7, 1) = Rd(w) % 2
         /\ Field(w, 25, 6) = Funct7(w) % 64 /\ Field(w, 31, 1) = Funct7(w) \div 64
         /\ Field(w, 12, 20) = Funct3(w) + 8 * Rs1(w) + 256 * Rs2(w) + 8192 * Funct7(w)
         /\ Field(w, 21, 10) = Rs2(w) \div 2 + 16 * (Funct7(w) % 64)
         /\ Field(w, 20, 1) = Rs2(w) % 2 /\ Field(w, 12, 8) = Funct3(w) + 8 * Rs1(w)
<1> DEFINE rd == Rd(w)  f3 == Funct3(w)  rs1 == Rs1(w)  rs2 == Rs2(w)  f7 == Funct7(w)
           o == Opcode(w)  lo == w.lo  hi == w.hi
<1>1. lo \in Nat /\ lo < 65536 /\ hi \in Nat /\ hi < 65536
  BY DEF WordOK
<1>2. /\ o \in 0 .. 127 /\ rd \in 0 .. 31 /\ f3 \in 0 .. 7 /\ rs1 \in 0 .. 31
      /\ rs2 \in 0 .. 31 /\ f7 \in 0 .. 127
      /\ lo = o + 128 * rd + 4096 * f3 + 32768 * (rs1 % 2)
      /\ hi = rs1 \div 2 + 16 * rs2 + 512 * f7
  BY FullFields
<1>3. /\ Field(w, 20, 12) = (hi \div 16) % 4096 /\ Field(w, 20, 6) = (hi \div 16) % 64
      /\ Field(w, 20, 5) = (hi \div 16) % 32
      /\ Field(w, 7, 5) = (lo \div 128) % 32 /\ Field(w, 25, 7) = (hi \div 512) % 128
      /\ Field(w, 8, 4) = (lo \div 256) % 16 /\ Field(w, 25, 6) = (hi \div 512) % 64
      /\ Field(w, 7, 1) = (lo \div 128) % 2 /\ Field(w, 31, 1) = (hi \div 32768) % 2
      /\ Field(w, 12, 20) = lo \div 4096 + (hi % 65536) * 16
      /\ Field(w, 21, 10) = (hi \div 32) % 1024 /\ Field(w, 20, 1) = (hi \div 16) % 2
      /\ Field(w, 12, 8) = lo \div 4096 + (hi % 16) * 16
  BY <1>1 DEF Field
<1> HIDE DEF lo, hi, rd, f3, rs1, rs2, f7, o
<1>5. /\ (hi \div 16) % 4096 = rs2 + 32 * f7 /\ (hi \div 16) % 64 = rs2 + 32 * (f7 % 2)
      /\ (hi \div 16) % 32 = rs2 /\ (hi \div 512) % 128 = f7 /\ (hi \div 512) % 64 = f7 % 64
      /\ (hi \div 32768) % 2 = f7 \div 64
  <2>1. hi \div 16 = rs2 + 32 * f7 /\ hi \div 512 = f7 /\ hi \div 32768 = f7 \div 64
    BY <1>2
  <2>2. (rs2 + 32 * f7) % 4096 = rs2 + 32 * f7 /\ (rs2 + 32 * f7) % 32 = rs2
    BY <1>2
  <2>3. (rs2 + 32 * f7) % 64 = rs2 + 32 * (f7 % 2)
    BY <1>2
  <2>4. f7 % 128 = f7 /\ (f7 \div 64) % 2 = f7 \div 64
    BY <1>2
  <2> QED
    BY <2>1, <2>2, <2>3, <2>4
<1>6. /\ (lo \div 128) % 32 = rd /\ (lo \div 256) % 16 = rd \div 2 /\ (lo \div 128) % 2 = rd % 2
      /\ lo \div 4096 = f3 + 8 * (rs1 % 2)
  <2>1. (lo \div 128) % 32 = rd /\ (lo \div 128) % 2 = rd % 2
    BY <1>2
  <2>2. (lo \div 256) % 16 = rd \div 2
    BY <1>2
  <2>3. lo \div 4096 = f3 + 8 * (rs1 % 2)
    BY <1>2
  <2> QED
    BY <2>1, <2>2, <2>3
<1>7. /\ hi % 65536 = hi /\ hi % 16 = rs1 \div 2
      /\ (hi \div 32) % 1024 = rs2 \div 2 + 16 * (f7 % 64) /\ (hi \div 16) % 2 = rs2 % 2
  BY <1>1, <1>2
<1> DEFINE r == rs1 % 2  s == rs1 \div 2
<1>8. rs1 = r + 2 * s /\ r \in Int /\ s \in Int
  BY <1>2
<1>9. Field(w, 12, 20) = f3 + 8 * rs1 + 256 * rs2 + 8192 * f7
  <2> DEFINE d == Field(w, 12, 20)
  <2>1. d = f3 + 8 * r + 16 * (s + 16 * rs2 + 512 * f7)
    BY <1>2, <1>3, <1>6, <1>7
  <2> HIDE DEF d, r, s
  <2>2. d = f3 + 8 * rs1 + 256 * rs2 + 8192 * f7
    BY <1>2, <1>8, <2>1
  <2> QED
    BY <2>2 DEF d
<1>10. Field(w, 12, 8) = f3 + 8 * rs1
  <2> DEFINE d == Field(w, 12, 8)
  <2>1. d = f3 + 8 * r + 16 * s
    BY <1>2, <1>3, <1>6, <1>7
  <2> HIDE DEF d, r, s
  <2>2. d = f3 + 8 * rs1
    BY <1>2, <1>8, <2>1
  <2> QED
    BY <2>2 DEF d
<1> QED
  BY <1>3, <1>5, <1>6, <1>7, <1>9, <1>10 DEF rd, f3, rs1, rs2, f7

(* The signed value of a field is its own.                                 *)
Wrapped(a, n) == IF a >= n THEN a - 2 * n ELSE a

LEMMA WrappedOnce ==
  ASSUME NEW n \in Nat, NEW a \in Nat, NEW c \in Nat, a < 2 * n, c < 2 * n,
         Wrapped(a, n) = Wrapped(c, n)
  PROVE  a = c
BY DEF Wrapped

LEMMA ImmediatesAre ==
  ASSUME NEW w, WordOK(w)
  PROVE  /\ ItypeImmediate(w) = Wrapped(Field(w, 20, 12), 2048)
         /\ X(w, 20, 6, 0) = Field(w, 20, 6) /\ X(w, 20, 5, 0) = Field(w, 20, 5)
         /\ StypeImmediate(w) = Field(w, 7, 5) + 32 * Wrapped(Field(w, 25, 7), 64)
         /\ BtypeImmediate(w) = 2 * Field(w, 8, 4) + 32 * Field(w, 25, 6)
              + 2048 * Field(w, 7, 1) + 4096 * Wrapped(Field(w, 31, 1), 1)
         /\ UtypeImmediate(w) = 4096 * Wrapped(Field(w, 12, 20), 524288)
         /\ JtypeImmediate(w) = 2 * Field(w, 21, 10) + 2048 * Field(w, 20, 1)
              + 4096 * Field(w, 12, 8) + 1048576 * Wrapped(Field(w, 31, 1), 1)
<1> DEFINE a == Field(w, 20, 12)  b == Field(w, 25, 7)  c == Field(w, 31, 1)
           d == Field(w, 12, 20)
<1>1. /\ ItypeImmediate(w) = (IF a >= 2^11 THEN a - 2^12 ELSE a) * 2^0
      /\ StypeImmediate(w) =
           Field(w, 7, 5) * 2^0 + (IF b >= 2^6 THEN b - 2^7 ELSE b) * 2^5
      /\ BtypeImmediate(w) =
           Field(w, 8, 4) * 2^1 + Field(w, 25, 6) * 2^5 + Field(w, 7, 1) * 2^11
             + (IF c >= 2^0 THEN c - 2^1 ELSE c) * 2^12
      /\ UtypeImmediate(w) = (IF d >= 2^19 THEN d - 2^20 ELSE d) * 2^12
      /\ JtypeImmediate(w) =
           Field(w, 21, 10) * 2^1 + Field(w, 20, 1) * 2^11 + Field(w, 12, 8) * 2^12
             + (IF c >= 2^0 THEN c - 2^1 ELSE c) * 2^20
  BY DEF ItypeImmediate, StypeImmediate, BtypeImmediate, UtypeImmediate, JtypeImmediate, X, XS
<1>2. X(w, 20, 6, 0) = Field(w, 20, 6) * 2^0 /\ X(w, 20, 5, 0) = Field(w, 20, 5) * 2^0
  BY DEF X
<1>3. /\ a \in Int /\ b \in Int /\ c \in Int /\ d \in Int
      /\ Field(w, 20, 6) \in Int /\ Field(w, 20, 5) \in Int /\ Field(w, 7, 5) \in Int
      /\ Field(w, 8, 4) \in Int /\ Field(w, 25, 6) \in Int /\ Field(w, 7, 1) \in Int
      /\ Field(w, 21, 10) \in Int /\ Field(w, 20, 1) \in Int /\ Field(w, 12, 8) \in Int
  <2> DEFINE rd == Rd(w)  f3 == Funct3(w)  rs1 == Rs1(w)  rs2 == Rs2(w)  f7 == Funct7(w)
  <2>1. rd \in Int /\ f3 \in Int /\ rs1 \in Int /\ rs2 \in Int /\ f7 \in Int
    BY FullFields
  <2>2. /\ a = rs2 + 32 * f7 /\ b = f7 /\ c = f7 \div 64
        /\ d = f3 + 8 * rs1 + 256 * rs2 + 8192 * f7
        /\ Field(w, 20, 6) = rs2 + 32 * (f7 % 2) /\ Field(w, 20, 5) = rs2 /\ Field(w, 7, 5) = rd
        /\ Field(w, 8, 4) = rd \div 2 /\ Field(w, 25, 6) = f7 % 64 /\ Field(w, 7, 1) = rd % 2
        /\ Field(w, 21, 10) = rs2 \div 2 + 16 * (f7 % 64) /\ Field(w, 20, 1) = rs2 % 2
        /\ Field(w, 12, 8) = f3 + 8 * rs1
    BY ImmediateParts
  <2> HIDE DEF rd, f3, rs1, rs2, f7, a, b, c, d
  <2> QED
    BY <2>1, <2>2
<1> HIDE DEF a, b, c, d
<1>4. /\ (IF a >= 2^11 THEN a - 2^12 ELSE a) * 2^0 = Wrapped(a, 2048)
      /\ (IF b >= 2^6 THEN b - 2^7 ELSE b) * 2^5 = 32 * Wrapped(b, 64)
      /\ (IF c >= 2^0 THEN c - 2^1 ELSE c) * 2^12 = 4096 * Wrapped(c, 1)
      /\ (IF c >= 2^0 THEN c - 2^1 ELSE c) * 2^20 = 1048576 * Wrapped(c, 1)
      /\ (IF d >= 2^19 THEN d - 2^20 ELSE d) * 2^12 = 4096 * Wrapped(d, 524288)
  BY <1>3 DEF Wrapped
<1>5. ItypeImmediate(w) = Wrapped(a, 2048)
  BY <1>1, <1>4
<1>6. X(w, 20, 6, 0) = Field(w, 20, 6) /\ X(w, 20, 5, 0) = Field(w, 20, 5)
  BY <1>2, <1>3
<1>7. StypeImmediate(w) = Field(w, 7, 5) + 32 * Wrapped(b, 64)
  <2>1. StypeImmediate(w) = Field(w, 7, 5) * 2^0 + 32 * Wrapped(b, 64)
    BY <1>1, <1>4
  <2> QED
    BY <1>3, <2>1
<1>8. BtypeImmediate(w) = 2 * Field(w, 8, 4) + 32 * Field(w, 25, 6)
              + 2048 * Field(w, 7, 1) + 4096 * Wrapped(c, 1)
  <2>1. BtypeImmediate(w) = Field(w, 8, 4) * 2^1 + Field(w, 25, 6) * 2^5 + Field(w, 7, 1) * 2^11
              + 4096 * Wrapped(c, 1)
    BY <1>1, <1>4
  <2> QED
    BY <1>3, <2>1
<1>9. UtypeImmediate(w) = 4096 * Wrapped(d, 524288)
  BY <1>1, <1>4
<1>10. JtypeImmediate(w) = 2 * Field(w, 21, 10) + 2048 * Field(w, 20, 1)
              + 4096 * Field(w, 12, 8) + 1048576 * Wrapped(c, 1)
  <2>1. JtypeImmediate(w) = Field(w, 21, 10) * 2^1 + Field(w, 20, 1) * 2^11
              + Field(w, 12, 8) * 2^12 + 1048576 * Wrapped(c, 1)
    BY <1>1, <1>4
  <2> QED
    BY <1>3, <2>1
<1> QED
  BY <1>5, <1>6, <1>7, <1>8, <1>9, <1>10 DEF a, b, c, d

(* Two words whose fields agree are one; an immediate tells its fields.    *)
LEMMA FieldsTell ==
  ASSUME NEW w, NEW u, WordOK(w), WordOK(u)
  PROVE  /\ Opcode(w) = Opcode(u) /\ Rd(w) = Rd(u) /\ Funct3(w) = Funct3(u) /\ Rs1(w) = Rs1(u)
              => w.lo = u.lo
         /\ Rs1(w) = Rs1(u) /\ Rs2(w) = Rs2(u) /\ Funct7(w) = Funct7(u) => w.hi = u.hi
BY FullFields

LEMMA ImmediatesTell ==
  ASSUME NEW w, NEW u, WordOK(w), WordOK(u)
  PROVE  /\ ItypeImmediate(w) = ItypeImmediate(u) => Rs2(w) = Rs2(u) /\ Funct7(w) = Funct7(u)
         /\ StypeImmediate(w) = StypeImmediate(u) => Rd(w) = Rd(u) /\ Funct7(w) = Funct7(u)
         /\ BtypeImmediate(w) = BtypeImmediate(u) => Rd(w) = Rd(u) /\ Funct7(w) = Funct7(u)
         /\ UtypeImmediate(w) = UtypeImmediate(u) =>
              Funct3(w) = Funct3(u) /\ Rs1(w) = Rs1(u) /\ Rs2(w) = Rs2(u) /\ Funct7(w) = Funct7(u)
         /\ JtypeImmediate(w) = JtypeImmediate(u) =>
              Funct3(w) = Funct3(u) /\ Rs1(w) = Rs1(u) /\ Rs2(w) = Rs2(u) /\ Funct7(w) = Funct7(u)
<1> DEFINE rd == Rd(w)  f3 == Funct3(w)  rs1 == Rs1(w)  rs2 == Rs2(w)  f7 == Funct7(w)
           sd == Rd(u)  g3 == Funct3(u)  ss1 == Rs1(u)  ss2 == Rs2(u)  g7 == Funct7(u)
<1>1. /\ rd \in 0 .. 31 /\ f3 \in 0 .. 7 /\ rs1 \in 0 .. 31 /\ rs2 \in 0 .. 31 /\ f7 \in 0 .. 127
      /\ sd \in 0 .. 31 /\ g3 \in 0 .. 7 /\ ss1 \in 0 .. 31 /\ ss2 \in 0 .. 31 /\ g7 \in 0 .. 127
  BY FullFields
<1>2. /\ ItypeImmediate(w) = Wrapped(rs2 + 32 * f7, 2048)
      /\ ItypeImmediate(u) = Wrapped(ss2 + 32 * g7, 2048)
      /\ StypeImmediate(w) = rd + 32 * Wrapped(f7, 64)
      /\ StypeImmediate(u) = sd + 32 * Wrapped(g7, 64)
      /\ UtypeImmediate(w) = 4096 * Wrapped(f3 + 8 * rs1 + 256 * rs2 + 8192 * f7, 524288)
      /\ UtypeImmediate(u) = 4096 * Wrapped(g3 + 8 * ss1 + 256 * ss2 + 8192 * g7, 524288)
  BY ImmediatesAre, ImmediateParts
<1>3. /\ BtypeImmediate(w) = 2 * (rd \div 2) + 32 * (f7 % 64) + 2048 * (rd % 2)
                               + 4096 * Wrapped(f7 \div 64, 1)
      /\ BtypeImmediate(u) = 2 * (sd \div 2) + 32 * (g7 % 64) + 2048 * (sd % 2)
                               + 4096 * Wrapped(g7 \div 64, 1)
  BY ImmediatesAre, ImmediateParts
<1>4. /\ JtypeImmediate(w) = 2 * (rs2 \div 2 + 16 * (f7 % 64)) + 2048 * (rs2 % 2)
                               + 4096 * (f3 + 8 * rs1) + 1048576 * Wrapped(f7 \div 64, 1)
      /\ JtypeImmediate(u) = 2 * (ss2 \div 2 + 16 * (g7 % 64)) + 2048 * (ss2 % 2)
                               + 4096 * (g3 + 8 * ss1) + 1048576 * Wrapped(g7 \div 64, 1)
  BY ImmediatesAre, ImmediateParts
<1> HIDE DEF rd, f3, rs1, rs2, f7, sd, g3, ss1, ss2, g7
<1>5. ASSUME ItypeImmediate(w) = ItypeImmediate(u) PROVE rs2 = ss2 /\ f7 = g7
  <2> DEFINE a == rs2 + 32 * f7  c == ss2 + 32 * g7
  <2>1. a \in Nat /\ c \in Nat /\ a < 4096 /\ c < 4096
    BY <1>1
  <2>2. Wrapped(a, 2048) = Wrapped(c, 2048)
    BY <1>2, <1>5
  <2> HIDE DEF a, c
  <2>3. a = c
    BY <2>1, <2>2, WrappedOnce
  <2> QED
    BY <1>1, <2>3 DEF a, c
<1>6. ASSUME StypeImmediate(w) = StypeImmediate(u) PROVE rd = sd /\ f7 = g7
  <2> DEFINE a == Wrapped(f7, 64)  c == Wrapped(g7, 64)
  <2>1. a \in Int /\ c \in Int
    BY <1>1 DEF Wrapped
  <2>2. rd + 32 * a = sd + 32 * c
    BY <1>2, <1>6
  <2> HIDE DEF a, c
  <2>3. rd = sd /\ a = c
    BY <1>1, <2>1, <2>2
  <2> QED
    BY <1>1, <2>3, WrappedOnce DEF a, c
<1>7. ASSUME BtypeImmediate(w) = BtypeImmediate(u) PROVE rd = sd /\ f7 = g7
  <2> DEFINE a == f7 \div 64  b == f7 % 64  c == g7 \div 64  d == g7 % 64
             r == rd \div 2  s == rd % 2  x == sd \div 2  y == sd % 2
             p == Wrapped(a, 1)  q == Wrapped(c, 1)
  <2>1. /\ a \in {0, 1} /\ c \in {0, 1} /\ b \in 0 .. 63 /\ d \in 0 .. 63
        /\ f7 = 64 * a + b /\ g7 = 64 * c + d
    BY <1>1
  <2>2. /\ r \in 0 .. 15 /\ x \in 0 .. 15 /\ s \in {0, 1} /\ y \in {0, 1}
        /\ rd = 2 * r + s /\ sd = 2 * x + y
    BY <1>1
  <2>3. 2 * r + 32 * b + 2048 * s + 4096 * p = 2 * x + 32 * d + 2048 * y + 4096 * q
    BY <1>3, <1>7
  <2> HIDE DEF a, b, c, d, r, s, x, y
  <2>4. p = -a /\ q = -c
    BY <2>1 DEF Wrapped
  <2> HIDE DEF p, q
  <2>5. r = x /\ b = d /\ s = y /\ a = c
    BY <2>1, <2>2, <2>3, <2>4
  <2> QED
    BY <2>1, <2>2, <2>5
<1>8. ASSUME UtypeImmediate(w) = UtypeImmediate(u)
      PROVE  f3 = g3 /\ rs1 = ss1 /\ rs2 = ss2 /\ f7 = g7
  <2> DEFINE a == f3 + 8 * rs1 + 256 * rs2 + 8192 * f7
             c == g3 + 8 * ss1 + 256 * ss2 + 8192 * g7
             p == Wrapped(a, 524288)  q == Wrapped(c, 524288)
  <2>1. a \in Nat /\ c \in Nat /\ a < 1048576 /\ c < 1048576
    BY <1>1
  <2>2. 4096 * p = 4096 * q
    BY <1>2, <1>8
  <2> HIDE DEF a, c
  <2>3. p \in Int /\ q \in Int
    BY <2>1 DEF Wrapped
  <2> HIDE DEF p, q
  <2>4. p = q
    BY <2>2, <2>3
  <2>5. a = c
    BY <2>1, <2>4, WrappedOnce DEF p, q
  <2> QED
    BY <1>1, <2>5 DEF a, c
<1>9. ASSUME JtypeImmediate(w) = JtypeImmediate(u)
      PROVE  f3 = g3 /\ rs1 = ss1 /\ rs2 = ss2 /\ f7 = g7
  <2> DEFINE a == f7 \div 64  b == f7 % 64  c == g7 \div 64  d == g7 % 64
             r == rs2 \div 2  s == rs2 % 2  x == ss2 \div 2  y == ss2 % 2
             p == Wrapped(a, 1)  q == Wrapped(c, 1)
  <2>1. /\ a \in {0, 1} /\ c \in {0, 1} /\ b \in 0 .. 63 /\ d \in 0 .. 63
        /\ f7 = 64 * a + b /\ g7 = 64 * c + d
    BY <1>1
  <2>2. /\ r \in 0 .. 15 /\ x \in 0 .. 15 /\ s \in {0, 1} /\ y \in {0, 1}
        /\ rs2 = 2 * r + s /\ ss2 = 2 * x + y
    BY <1>1
  <2>3. 2 * (r + 16 * b) + 2048 * s + 4096 * (f3 + 8 * rs1) + 1048576 * p
          = 2 * (x + 16 * d) + 2048 * y + 4096 * (g3 + 8 * ss1) + 1048576 * q
    BY <1>4, <1>9
  <2> HIDE DEF a, b, c, d, r, s, x, y
  <2>4. p = -a /\ q = -c
    BY <2>1 DEF Wrapped
  <2> HIDE DEF p, q
  <2>5. a = c /\ f3 + 8 * rs1 = g3 + 8 * ss1 /\ s = y /\ r + 16 * b = x + 16 * d
    BY <1>1, <2>1, <2>2, <2>3, <2>4
  <2>6. f3 = g3 /\ rs1 = ss1 /\ r = x /\ b = d
    BY <1>1, <2>1, <2>2, <2>5
  <2> QED
    BY <2>1, <2>2, <2>5, <2>6
<1> QED
  BY <1>5, <1>6, <1>7, <1>8, <1>9 DEF rd, f3, rs1, rs2, f7, sd, g3, ss1, ss2, g7

LEMMA ShiftsTell ==
  ASSUME NEW w, NEW u, WordOK(w), WordOK(u)
  PROVE  /\ Funct7(w) \div 2 = Funct7(u) \div 2 =>
              /\ ItypeImmediate(w) % 64 = ItypeImmediate(u) % 64 =>
                   Rs2(w) = Rs2(u) /\ Funct7(w) = Funct7(u)
              /\ X(w, 20, 6, 0) = X(u, 20, 6, 0) => Rs2(w) = Rs2(u) /\ Funct7(w) = Funct7(u)
         /\ ItypeImmediate(w) % 32 = ItypeImmediate(u) % 32 => Rs2(w) = Rs2(u)
         /\ X(w, 20, 5, 0) = X(u, 20, 5, 0) => Rs2(w) = Rs2(u)
<1> DEFINE rs2 == Rs2(w)  f7 == Funct7(w)  ss2 == Rs2(u)  g7 == Funct7(u)
<1>1. rs2 \in 0 .. 31 /\ f7 \in 0 .. 127 /\ ss2 \in 0 .. 31 /\ g7 \in 0 .. 127
  BY FullFields
<1>2. /\ ItypeImmediate(w) = Wrapped(rs2 + 32 * f7, 2048)
      /\ ItypeImmediate(u) = Wrapped(ss2 + 32 * g7, 2048)
      /\ X(w, 20, 6, 0) = rs2 + 32 * (f7 % 2) /\ X(u, 20, 6, 0) = ss2 + 32 * (g7 % 2)
      /\ X(w, 20, 5, 0) = rs2 /\ X(u, 20, 5, 0) = ss2
  BY ImmediatesAre, ImmediateParts
<1> HIDE DEF rs2, f7, ss2, g7
<1>3. ASSUME f7 \div 2 = g7 \div 2, rs2 + 32 * (f7 % 2) = ss2 + 32 * (g7 % 2)
      PROVE  rs2 = ss2 /\ f7 = g7
  BY <1>1, <1>3
<1>4. /\ ItypeImmediate(w) % 64 = rs2 + 32 * (f7 % 2) /\ ItypeImmediate(w) % 32 = rs2
      /\ ItypeImmediate(u) % 64 = ss2 + 32 * (g7 % 2) /\ ItypeImmediate(u) % 32 = ss2
  <2>1. /\ Wrapped(rs2 + 32 * f7, 2048) % 64 = rs2 + 32 * (f7 % 2)
        /\ Wrapped(rs2 + 32 * f7, 2048) % 32 = rs2
    <3>1. rs2 \in 0 .. 31 /\ f7 \in 0 .. 127
      BY <1>1
    <3> QED
      BY <3>1 DEF Wrapped
  <2>2. /\ Wrapped(ss2 + 32 * g7, 2048) % 64 = ss2 + 32 * (g7 % 2)
        /\ Wrapped(ss2 + 32 * g7, 2048) % 32 = ss2
    <3>1. ss2 \in 0 .. 31 /\ g7 \in 0 .. 127
      BY <1>1
    <3> QED
      BY <3>1 DEF Wrapped
  <2> DEFINE a == Wrapped(rs2 + 32 * f7, 2048)  c == Wrapped(ss2 + 32 * g7, 2048)
  <2>3. ItypeImmediate(w) = a /\ ItypeImmediate(u) = c
    BY <1>2
  <2> HIDE DEF a, c
  <2> QED
    BY <2>1, <2>2, <2>3 DEF a, c
<1> QED
  BY <1>2, <1>3, <1>4 DEF rs2, f7, ss2, g7

(* An opcode has one key in its table, and is in one table.                *)
OneKey(table) == \A s, t \in table : s[2] = t[2] => s[1] = t[1]

LEMMA OneKeys ==
  /\ OneKey(ShiftOf) /\ OneKey(ImmOf) /\ OneKey(BranchOf) /\ OneKey(StoreOf) /\ OneKey(AluOf)
  /\ OneKey(ShiftWOf) /\ OneKey(AluWOf) /\ OneKey(MulWOf) /\ OneKey(BWOf) /\ OneKey(BOf)
  /\ OneKey(BUnaryOf) /\ OneKey(BUnaryWOf) /\ OneKey(BImmOf) /\ OneKey(AmoOf) /\ OneKey(AmoDOf)
<1>1. OneKey(ShiftOf)
  BY DEF OneKey, ShiftOf
<1>2. OneKey(ImmOf)
  BY DEF OneKey, ImmOf
<1>3. OneKey(BranchOf)
  BY DEF OneKey, BranchOf
<1>4. OneKey(StoreOf)
  BY DEF OneKey, StoreOf
<1>5. OneKey(AluOf)
  BY DEF OneKey, AluOf
<1>6. OneKey(ShiftWOf)
  BY DEF OneKey, ShiftWOf
<1>7. OneKey(AluWOf)
  BY DEF OneKey, AluWOf
<1>8. OneKey(MulWOf)
  BY DEF OneKey, MulWOf
<1>9. OneKey(BWOf)
  BY DEF OneKey, BWOf
<1>10. OneKey(BOf)
  BY DEF OneKey, BOf
<1>11. OneKey(BUnaryOf)
  BY DEF OneKey, BUnaryOf
<1>12. OneKey(BUnaryWOf)
  BY DEF OneKey, BUnaryWOf
<1>13. OneKey(BImmOf)
  BY DEF OneKey, BImmOf
<1>14. OneKey(AmoOf)
  BY DEF OneKey, AmoOf
<1>15. OneKey(AmoDOf)
  BY DEF OneKey, AmoDOf
<1> QED
  BY <1>1, <1>2, <1>3, <1>4, <1>5, <1>6, <1>7, <1>8, <1>9, <1>10, <1>11, <1>12, <1>13,
     <1>14, <1>15

(* The arm of the factories that makes an opcode.                          *)
ArmOf(op) ==
  IF op = "LUI" THEN 1 ELSE IF op = "AUIPC" THEN 2 ELSE IF op = "JAL" THEN 3
  ELSE IF op \in {"JALR_VERSION0", "JALR_VERSION1"} THEN 4
  ELSE IF op \in {"LB_VERSION0", "LB_VERSION1", "LBU_VERSION0", "LBU_VERSION1", "LH_VERSION0",
                  "LH_VERSION1", "LHU_VERSION0", "LHU_VERSION1", "LW_VERSION0", "LW_VERSION1",
                  "LWU_VERSION0", "LWU_VERSION1", "LD_VERSION0", "LD_VERSION1"} THEN 5
  ELSE IF op \in {"SLLI", "SRLI", "SRAI"} THEN 6
  ELSE IF op \in {"ADDI", "SLTI", "SLTIU", "XORI", "ORI", "ANDI"} THEN 7
  ELSE IF op \in {"BEQ", "BNE", "BLT", "BGE", "BLTU", "BGEU"} THEN 8
  ELSE IF op \in {"SB", "SH", "SW", "SD"} THEN 9
  ELSE IF op \in {"ADD", "SUB", "SLL", "SLT", "SLTU", "XOR", "SRL", "SRA", "OR", "AND"} THEN 10
  ELSE IF op = "FENCE" THEN 11 ELSE IF op = "FENCEI" THEN 12
  ELSE IF op = "ECALL" THEN 13 ELSE IF op = "EBREAK" THEN 14 ELSE IF op = "ADDIW" THEN 15
  ELSE IF op \in {"SLLIW", "SRLIW", "SRAIW"} THEN 16
  ELSE IF op \in {"ADDW", "SUBW", "SLLW", "SRLW", "SRAW"} THEN 17
  ELSE IF op \in {"MUL", "MULH", "MULHSU", "MULHU", "DIV", "DIVU", "REM", "REMU"} THEN 18
  ELSE IF op \in {"MULW", "DIVW", "DIVUW", "REMW", "REMUW"} THEN 19
  ELSE IF op = "ZEXTH" THEN 20
  ELSE IF op \in {"ADDUW", "ROLW", "SH1ADDUW", "SH2ADDUW", "RORW", "SH3ADDUW"} THEN 21
  ELSE IF op \in {"ANDN", "ORN", "XNOR", "ROL", "ROR", "BINV", "BSET", "BCLR", "BEXT", "SH1ADD",
                  "SH2ADD", "SH3ADD", "CLMUL", "CLMULH", "CLMULR", "MIN", "MINU", "MAX", "MAXU"}
       THEN 22
  ELSE IF op \in {"ORCB", "REV8", "CLZ", "CPOP", "CTZ", "SEXTB", "SEXTH"} THEN 23
  ELSE IF op \in {"CLZW", "CPOPW", "CTZW"} THEN 24
  ELSE IF op \in {"BCLRI", "BEXTI", "BINVI", "BSETI", "RORI"} THEN 25
  ELSE IF op = "RORIW" THEN 26 ELSE IF op = "SLLIUW" THEN 27
  ELSE IF op \in {"LR_W", "SC_W", "AMOSWAP_W", "AMOADD_W", "AMOXOR_W", "AMOAND_W", "AMOOR_W",
                  "AMOMIN_W", "AMOMAX_W", "AMOMINU_W", "AMOMAXU_W"} THEN 28
  ELSE IF op \in {"LR_D", "SC_D", "AMOSWAP_D", "AMOADD_D", "AMOXOR_D", "AMOAND_D", "AMOOR_D",
                  "AMOMIN_D", "AMOMAX_D", "AMOMINU_D", "AMOMAXU_D"} THEN 29
  ELSE 0

OfArm(table, a) == \A s \in table : ArmOf(s[2]) = a

LEMMA ArmsAre ==
  /\ ArmOf("LUI") = 1 /\ ArmOf("AUIPC") = 2 /\ ArmOf("JAL") = 3
  /\ ArmOf("FENCE") = 11 /\ ArmOf("FENCEI") = 12 /\ ArmOf("ECALL") = 13 /\ ArmOf("EBREAK") = 14
  /\ ArmOf("ADDIW") = 15 /\ ArmOf("ZEXTH") = 20 /\ ArmOf("RORIW") = 26 /\ ArmOf("SLLIUW") = 27
  /\ \A v : ArmOf(OfVersion("JALR", v)) = 4
  /\ \A o \in DOMAIN LoadOps : \A v : ArmOf(OfVersion(o, v)) = 5
  /\ OfArm(ShiftOf, 6) /\ OfArm(ImmOf, 7) /\ OfArm(BranchOf, 8) /\ OfArm(StoreOf, 9)
  /\ OfArm(AluOf, 10) /\ OfArm(ShiftWOf, 16) /\ OfArm(AluWOf, 17) /\ OfArm(MulWOf, 19)
  /\ OfArm(BWOf, 21) /\ OfArm(BOf, 22) /\ OfArm(BUnaryOf, 23) /\ OfArm(BUnaryWOf, 24)
  /\ OfArm(BImmOf, 25) /\ OfArm(AmoOf, 28) /\ OfArm(AmoDOf, 29)
  /\ \A k \in 0 .. 7 : ArmOf(MulOf[k + 1]) = 18
<1>1. OfArm(ShiftOf, 6)
  BY DEF OfArm, ArmOf, ShiftOf
<1>2. OfArm(ImmOf, 7)
  BY DEF OfArm, ArmOf, ImmOf
<1>3. OfArm(BranchOf, 8)
  BY DEF OfArm, ArmOf, BranchOf
<1>4. OfArm(StoreOf, 9)
  BY DEF OfArm, ArmOf, StoreOf
<1>5. OfArm(AluOf, 10)
  BY DEF OfArm, ArmOf, AluOf
<1>6. OfArm(ShiftWOf, 16)
  BY DEF OfArm, ArmOf, ShiftWOf
<1>7. OfArm(AluWOf, 17)
  BY DEF OfArm, ArmOf, AluWOf
<1>8. OfArm(MulWOf, 19)
  BY DEF OfArm, ArmOf, MulWOf
<1>9. OfArm(BWOf, 21)
  BY DEF OfArm, ArmOf, BWOf
<1>10. OfArm(BOf, 22)
  BY DEF OfArm, ArmOf, BOf
<1>11. OfArm(BUnaryOf, 23)
  BY DEF OfArm, ArmOf, BUnaryOf
<1>12. OfArm(BUnaryWOf, 24)
  BY DEF OfArm, ArmOf, BUnaryWOf
<1>13. OfArm(BImmOf, 25)
  BY DEF OfArm, ArmOf, BImmOf
<1>14. OfArm(AmoOf, 28)
  BY DEF OfArm, ArmOf, AmoOf
<1>15. OfArm(AmoDOf, 29)
  BY DEF OfArm, ArmOf, AmoDOf
<1>16. \A k \in 0 .. 7 : ArmOf(MulOf[k + 1]) = 18
  <2>1. \A k \in 0 .. 7 :
          MulOf[k + 1] \in {"MUL", "MULH", "MULHSU", "MULHU", "DIV", "DIVU", "REM", "REMU"}
    BY DEF MulOf
  <2> QED
    BY <2>1 DEF ArmOf
<1>17. \A v : ArmOf(OfVersion("JALR", v)) = 4
  <2>1. \A v : OfVersion("JALR", v) \in {"JALR_VERSION0", "JALR_VERSION1"}
    BY DEF OfVersion, Versioned
  <2> QED
    BY <2>1 DEF ArmOf
<1>18. \A o \in DOMAIN LoadOps : \A v : ArmOf(OfVersion(o, v)) = 5
  <2>1. \A o \in DOMAIN LoadOps : \A v :
          OfVersion(o, v) \in
                 {"LB_VERSION0", "LB_VERSION1", "LBU_VERSION0", "LBU_VERSION1", "LH_VERSION0",
                  "LH_VERSION1", "LHU_VERSION0", "LHU_VERSION1", "LW_VERSION0", "LW_VERSION1",
                  "LWU_VERSION0", "LWU_VERSION1", "LD_VERSION0", "LD_VERSION1"}
    BY DEF OfVersion, Versioned, LoadOps
  <2> QED
    BY <2>1 DEF ArmOf
<1>19. /\ ArmOf("LUI") = 1 /\ ArmOf("AUIPC") = 2 /\ ArmOf("JAL") = 3
       /\ ArmOf("FENCE") = 11 /\ ArmOf("FENCEI") = 12 /\ ArmOf("ECALL") = 13
       /\ ArmOf("EBREAK") = 14 /\ ArmOf("ADDIW") = 15 /\ ArmOf("ZEXTH") = 20
       /\ ArmOf("RORIW") = 26 /\ ArmOf("SLLIUW") = 27
  BY DEF ArmOf
<1> QED
  BY <1>1, <1>2, <1>3, <1>4, <1>5, <1>6, <1>7, <1>8, <1>9, <1>10, <1>11, <1>12, <1>13,
     <1>14,
     <1>15, <1>16, <1>17, <1>18, <1>19

(* What an arm has made of a word.                                         *)
Found(table, key, op) == \E s \in table : s[1] = key /\ s[2] = op
RMade(w, i, o) == Opcode(w) = o /\ i.rd = Rd(w) /\ i.rs1 = Rs1(w) /\ i.rs2 = Rs2(w)
IMade(w, i, o, imm) == Opcode(w) = o /\ i.rd = Rd(w) /\ i.rs1 = Rs1(w) /\ i.imm = imm
SMade(w, i, o, imm) == Opcode(w) = o /\ i.rs1 = Rs1(w) /\ i.rs2 = Rs2(w) /\ i.imm = imm
UMade(w, i, o, imm) == Opcode(w) = o /\ i.rd = Rd(w) /\ i.imm = imm
LoadFound(f3, v, op) == \E o \in DOMAIN LoadOps : LoadOps[o] = f3 /\ op = OfVersion(o, v)
FenceMade(w, i) == /\ w.lo = 15 /\ Field(w, 16, 4) = 0
                   /\ i.rd = Field(w, 28, 4) /\ i.rs1 = Field(w, 24, 4) /\ i.rs2 = Field(w, 20, 4)

Made(a, w, v, i) ==
  LET f3 == Funct3(w)  f7 == Funct7(w)  op == i.op
  IN  \/ a = 1 /\ UMade(w, i, 55, UtypeImmediate(w))
      \/ a = 2 /\ UMade(w, i, 23, UtypeImmediate(w))
      \/ a = 3 /\ UMade(w, i, 111, JtypeImmediate(w))
      \/ a = 4 /\ IMade(w, i, 103, ItypeImmediate(w)) /\ f3 = 0
      \/ a = 5 /\ IMade(w, i, 3, ItypeImmediate(w)) /\ LoadFound(f3, v, op)
      \/ a = 6 /\ IMade(w, i, 19, ItypeImmediate(w) % 64) /\ Found(ShiftOf, <<f3, f7 \div 2>>, op)
      \/ a = 7 /\ IMade(w, i, 19, ItypeImmediate(w)) /\ Found(ImmOf, f3, op)
      \/ a = 8 /\ SMade(w, i, 99, BtypeImmediate(w)) /\ Found(BranchOf, f3, op)
      \/ a = 9 /\ SMade(w, i, 35, StypeImmediate(w)) /\ Found(StoreOf, f3, op)
      \/ a = 10 /\ RMade(w, i, 51) /\ Found(AluOf, <<f3, f7>>, op)
      \/ a = 11 /\ FenceMade(w, i)
      \/ a = 12 /\ w = [lo |-> 4111, hi |-> 0]
      \/ a = 13 /\ w = [lo |-> 115, hi |-> 0]
      \/ a = 14 /\ w = [lo |-> 115, hi |-> 16]
      \/ a = 15 /\ IMade(w, i, 27, ItypeImmediate(w)) /\ f3 = 0
      \/ a = 16 /\ IMade(w, i, 27, ItypeImmediate(w) % 32) /\ Found(ShiftWOf, <<f3, f7>>, op)
      \/ a = 17 /\ RMade(w, i, 59) /\ Found(AluWOf, <<f3, f7>>, op)
      \/ a = 18 /\ RMade(w, i, 51) /\ f7 = 1 /\ op = MulOf[f3 + 1]
      \/ a = 19 /\ RMade(w, i, 59) /\ f7 = 1 /\ Found(MulWOf, f3, op)
      \/ a = 20 /\ RMade(w, i, 59) /\ f3 = 4 /\ f7 = 4
      \/ a = 21 /\ RMade(w, i, 59) /\ Found(BWOf, <<f3, f7>>, op)
      \/ a = 22 /\ RMade(w, i, 51) /\ Found(BOf, <<f3, f7>>, op)
      \/ a = 23 /\ RMade(w, i, 19) /\ Found(BUnaryOf, <<f7, f3, Rs2(w)>>, op)
      \/ a = 24 /\ RMade(w, i, 27) /\ f7 = 48 /\ f3 = 1
      \/ a = 25 /\ IMade(w, i, 19, X(w, 20, 6, 0)) /\ Found(BImmOf, <<f7 \div 2, f3>>, op)
      \/ a = 26 /\ IMade(w, i, 27, X(w, 20, 5, 0)) /\ f7 = 48 /\ f3 = 5
      \/ a = 27 /\ IMade(w, i, 27, X(w, 20, 6, 0)) /\ f7 \div 2 = 2 /\ f3 = 1
      \/ a = 28 /\ RMade(w, i, 47) /\ f3 = 2 /\ Found(AmoOf, f7 \div 4, op)
      \/ a = 29 /\ RMade(w, i, 47) /\ f3 = 3 /\ Found(AmoDOf, f7 \div 4, op)

(* What a form makes.                                                      *)
LEMMA RForm ==
  ASSUME NEW w, NEW ops, NEW i \in RtypeOf(ops, w)
  PROVE  i.op \in ops /\ RMade(w, i, Opcode(w))
BY DEF RtypeOf, Rtype, Instruction, RMade

LEMMA IForm ==
  ASSUME NEW w, NEW ops, NEW imm, NEW i \in ItypeOf(ops, w, imm)
  PROVE  i.op \in ops /\ IMade(w, i, Opcode(w), imm)
BY DEF ItypeOf, Itype, Instruction, IMade

LEMMA SForm ==
  ASSUME NEW w, NEW ops, NEW imm, NEW i \in StypeOf(ops, w, imm)
  PROVE  i.op \in ops /\ SMade(w, i, Opcode(w), imm)
BY DEF StypeOf, Stype, Instruction, SMade

LEMMA UForm ==
  ASSUME NEW w, NEW op, NEW imm, NEW i, i = Utype(op, Rd(w), imm)
  PROVE  i.op = op /\ UMade(w, i, Opcode(w), imm)
BY DEF Utype, Instruction, UMade

LEMMA BlankForm ==
  ASSUME NEW op, NEW i, i = BlankInstruction(op)
  PROVE  i.op = op
BY DEF BlankInstruction, Blank, Instruction

LEMMA RowFinds ==
  ASSUME NEW table, NEW key, NEW op \in Row(table, key), NEW a, OfArm(table, a)
  PROVE  Found(table, key, op) /\ ArmOf(op) = a
BY DEF Row, Found, OfArm

LEMMA IMakes ==
  ASSUME NEW w, WordOK(w), NEW v, NEW i \in IFactory(w, v, TRUE)
  PROVE  Made(ArmOf(i.op), w, v, i)
<1> DEFINE o == Opcode(w)  f3 == Funct3(w)  f7 == Funct7(w)  imm == ItypeImmediate(w)
           a == ArmOf(i.op)
<1>1. \A h : w = [lo |-> 115, hi |-> h] => o = 115
  BY FieldsAre
<1>2. o \in {3, 15, 19, 23, 27, 35, 51, 55, 59, 99, 103, 111, 115}
  BY <1>1 DEF IFactory
<1>3. CASE o = 55
  <2>1. i = Utype("LUI", Rd(w), UtypeImmediate(w))
    BY <1>1, <1>3 DEF IFactory
  <2> QED
    BY <1>3, <2>1, UForm, ArmsAre DEF Made
<1>4. CASE o = 23
  <2>1. i = Utype("AUIPC", Rd(w), UtypeImmediate(w))
    BY <1>1, <1>4 DEF IFactory
  <2> QED
    BY <1>4, <2>1, UForm, ArmsAre DEF Made
<1>5. CASE o = 111
  <2>1. i = Utype("JAL", Rd(w), JtypeImmediate(w))
    BY <1>1, <1>5 DEF IFactory
  <2> QED
    BY <1>5, <2>1, UForm, ArmsAre DEF Made
<1>6. CASE o = 103
  <2>1. f3 = 0 /\ i \in ItypeOf({OfVersion("JALR", v)}, w, imm)
    BY <1>1, <1>6 DEF IFactory
  <2>2. i.op = OfVersion("JALR", v) /\ IMade(w, i, 103, imm)
    BY <1>6, <2>1, IForm
  <2> QED
    BY <2>1, <2>2, ArmsAre DEF Made
<1>7. CASE o = 3
  <2> DEFINE ops == {OfVersion(op, v) : op \in {p \in DOMAIN LoadOps : LoadOps[p] = f3}}
  <2>1. i \in ItypeOf(ops, w, imm)
    BY <1>1, <1>7 DEF IFactory
  <2>2. i.op \in ops /\ IMade(w, i, 3, imm)
    <3> HIDE DEF ops
    <3> QED
      BY <1>7, <2>1, IForm
  <2>3. LoadFound(f3, v, i.op)
    BY <2>2 DEF LoadFound
  <2>4. a = 5
    BY <2>3, ArmsAre DEF LoadFound
  <2> QED
    BY <2>2, <2>3, <2>4 DEF Made
<1>8. CASE o = 19 /\ f3 \in {1, 5}
  <2>1. i \in ItypeOf(Row(ShiftOf, <<f3, f7 \div 2>>), w, imm % 64)
    BY <1>1, <1>8 DEF IFactory
  <2>2. i.op \in Row(ShiftOf, <<f3, f7 \div 2>>) /\ IMade(w, i, 19, imm % 64)
    BY <1>8, <2>1, IForm
  <2>3. Found(ShiftOf, <<f3, f7 \div 2>>, i.op) /\ a = 6
    BY <2>2, RowFinds, ArmsAre
  <2> QED
    BY <2>2, <2>3 DEF Made
<1>9. CASE o = 19 /\ f3 \notin {1, 5}
  <2>1. i \in ItypeOf(Row(ImmOf, f3), w, imm)
    BY <1>1, <1>9 DEF IFactory
  <2>2. i.op \in Row(ImmOf, f3) /\ IMade(w, i, 19, imm)
    BY <1>9, <2>1, IForm
  <2>3. Found(ImmOf, f3, i.op) /\ a = 7
    BY <2>2, RowFinds, ArmsAre
  <2> QED
    BY <2>2, <2>3 DEF Made
<1>10. CASE o = 99
  <2>1. i \in StypeOf(Row(BranchOf, f3), w, BtypeImmediate(w))
    BY <1>1, <1>10 DEF IFactory
  <2>2. i.op \in Row(BranchOf, f3) /\ SMade(w, i, 99, BtypeImmediate(w))
    BY <1>10, <2>1, SForm
  <2>3. Found(BranchOf, f3, i.op) /\ a = 8
    BY <2>2, RowFinds, ArmsAre
  <2> QED
    BY <2>2, <2>3 DEF Made
<1>11. CASE o = 35
  <2>1. i \in StypeOf(Row(StoreOf, f3), w, StypeImmediate(w))
    BY <1>1, <1>11 DEF IFactory
  <2>2. i.op \in Row(StoreOf, f3) /\ SMade(w, i, 35, StypeImmediate(w))
    BY <1>11, <2>1, SForm
  <2>3. Found(StoreOf, f3, i.op) /\ a = 9
    BY <2>2, RowFinds, ArmsAre
  <2> QED
    BY <2>2, <2>3 DEF Made
<1>12. CASE o = 51
  <2>1. i \in RtypeOf(Row(AluOf, <<f3, f7>>), w)
    BY <1>1, <1>12 DEF IFactory
  <2>2. i.op \in Row(AluOf, <<f3, f7>>) /\ RMade(w, i, 51)
    BY <1>12, <2>1, RForm
  <2>3. Found(AluOf, <<f3, f7>>, i.op) /\ a = 10
    BY <2>2, RowFinds, ArmsAre
  <2> QED
    BY <2>2, <2>3 DEF Made
<1>13. CASE o = 15
  <2>1. i \in Fences(w)
    BY <1>1, <1>13 DEF IFactory
  <2>2. \/ w = [lo |-> 4111, hi |-> 0] /\ i = BlankInstruction("FENCEI")
        \/ /\ w.lo = 15 /\ Field(w, 16, 4) = 0
           /\ i = Rtype("FENCE", Field(w, 28, 4), Field(w, 24, 4), Field(w, 20, 4))
    BY <2>1 DEF Fences
  <2>3. i = Rtype("FENCE", Field(w, 28, 4), Field(w, 24, 4), Field(w, 20, 4)) =>
          /\ i.op = "FENCE" /\ i.rd = Field(w, 28, 4) /\ i.rs1 = Field(w, 24, 4)
          /\ i.rs2 = Field(w, 20, 4)
    BY DEF Rtype, Instruction
  <2>4. i = BlankInstruction("FENCEI") => i.op = "FENCEI"
    BY BlankForm
  <2> QED
    BY <2>2, <2>3, <2>4, ArmsAre DEF Made, FenceMade
<1>14. CASE o = 115
  <2>1. \/ w = [lo |-> 115, hi |-> 0] /\ i = BlankInstruction("ECALL")
        \/ w = [lo |-> 115, hi |-> 16] /\ i = BlankInstruction("EBREAK")
    BY <1>14 DEF IFactory
  <2>2. /\ i = BlankInstruction("ECALL") => i.op = "ECALL"
        /\ i = BlankInstruction("EBREAK") => i.op = "EBREAK"
    BY BlankForm
  <2> QED
    BY <2>1, <2>2, ArmsAre DEF Made
<1>15. CASE o = 27 /\ f3 = 0
  <2>1. i \in ItypeOf({"ADDIW"}, w, imm)
    BY <1>1, <1>15 DEF IFactory
  <2>2. i.op = "ADDIW" /\ IMade(w, i, 27, imm)
    BY <1>15, <2>1, IForm
  <2> QED
    BY <1>15, <2>2, ArmsAre DEF Made
<1>16. CASE o = 27 /\ f3 # 0
  <2>1. i \in ItypeOf(Row(ShiftWOf, <<f3, f7>>), w, imm % 32)
    BY <1>1, <1>16 DEF IFactory
  <2>2. i.op \in Row(ShiftWOf, <<f3, f7>>) /\ IMade(w, i, 27, imm % 32)
    BY <1>16, <2>1, IForm
  <2>3. Found(ShiftWOf, <<f3, f7>>, i.op) /\ a = 16
    BY <2>2, RowFinds, ArmsAre
  <2> QED
    BY <2>2, <2>3 DEF Made
<1>17. CASE o = 59
  <2>1. i \in RtypeOf(Row(AluWOf, <<f3, f7>>), w)
    BY <1>1, <1>17 DEF IFactory
  <2>2. i.op \in Row(AluWOf, <<f3, f7>>) /\ RMade(w, i, 59)
    BY <1>17, <2>1, RForm
  <2>3. Found(AluWOf, <<f3, f7>>, i.op) /\ a = 17
    BY <2>2, RowFinds, ArmsAre
  <2> QED
    BY <2>2, <2>3 DEF Made
<1> QED
  BY <1>2, <1>3, <1>4, <1>5, <1>6, <1>7, <1>8, <1>9, <1>10, <1>11, <1>12, <1>13,
     <1>14, <1>15,
     <1>16, <1>17

LEMMA MMakes ==
  ASSUME NEW w, WordOK(w), NEW v, NEW i \in MFactory(w, v, TRUE)
  PROVE  Made(ArmOf(i.op), w, v, i)
<1> DEFINE f3 == Funct3(w)  a == ArmOf(i.op)
<1>1. CASE Opcode(w) = 51
  <2>1. Funct7(w) = 1 /\ i \in RtypeOf({MulOf[f3 + 1]}, w)
    BY <1>1 DEF MFactory
  <2>2. i.op = MulOf[f3 + 1] /\ RMade(w, i, 51)
    BY <1>1, <2>1, RForm
  <2>3. a = 18
    BY <2>2, ArmsAre, FullFields
  <2> QED
    BY <2>1, <2>2, <2>3 DEF Made
<1>2. CASE Opcode(w) # 51
  <2>1. Opcode(w) = 59 /\ Funct7(w) = 1 /\ i \in RtypeOf(Row(MulWOf, f3), w)
    BY <1>2 DEF MFactory
  <2>2. i.op \in Row(MulWOf, f3) /\ RMade(w, i, 59)
    BY <2>1, RForm
  <2>3. Found(MulWOf, f3, i.op) /\ a = 19
    BY <2>2, RowFinds, ArmsAre
  <2> QED
    BY <2>1, <2>2, <2>3 DEF Made
<1> QED
  BY <1>1, <1>2

LEMMA BMakes ==
  ASSUME NEW w, WordOK(w), NEW v, NEW i \in BFactory(w, v, TRUE)
  PROVE  Made(ArmOf(i.op), w, v, i)
<1> DEFINE o == Opcode(w)  f3 == Funct3(w)  f7 == Funct7(w)  rs2 == Rs2(w)  a == ArmOf(i.op)
<1>1. o \in {59, 51, 19, 27}
  BY DEF BFactory
<1>2. CASE o = 59 /\ <<f3, f7>> = <<4, 4>>
  <2>1. i \in RtypeOf({op \in {"ZEXTH"} : TRUE /\ rs2 = 0}, w) /\ f3 = 4 /\ f7 = 4
    BY <1>2 DEF BFactory
  <2>2. i.op = "ZEXTH" /\ RMade(w, i, 59)
    BY <1>2, <2>1, RForm
  <2> QED
    BY <2>1, <2>2, ArmsAre DEF Made
<1>3. CASE o = 59 /\ <<f3, f7>> # <<4, 4>>
  <2>1. i \in RtypeOf(Row(BWOf, <<f3, f7>>), w)
    BY <1>3 DEF BFactory
  <2>2. i.op \in Row(BWOf, <<f3, f7>>) /\ RMade(w, i, 59)
    BY <1>3, <2>1, RForm
  <2>3. Found(BWOf, <<f3, f7>>, i.op) /\ a = 21
    BY <2>2, RowFinds, ArmsAre
  <2> QED
    BY <2>2, <2>3 DEF Made
<1>4. CASE o = 51
  <2>1. i \in RtypeOf(Row(BOf, <<f3, f7>>), w)
    BY <1>4 DEF BFactory
  <2>2. i.op \in Row(BOf, <<f3, f7>>) /\ RMade(w, i, 51)
    BY <1>4, <2>1, RForm
  <2>3. Found(BOf, <<f3, f7>>, i.op) /\ a = 22
    BY <2>2, RowFinds, ArmsAre
  <2> QED
    BY <2>2, <2>3 DEF Made
<1>5. CASE o = 19 /\ Row(BUnaryOf, <<f7, f3, rs2>>) # {}
  <2>1. i \in RtypeOf(Row(BUnaryOf, <<f7, f3, rs2>>), w)
    BY <1>5 DEF BFactory
  <2>2. i.op \in Row(BUnaryOf, <<f7, f3, rs2>>) /\ RMade(w, i, 19)
    BY <1>5, <2>1, RForm
  <2>3. Found(BUnaryOf, <<f7, f3, rs2>>, i.op) /\ a = 23
    BY <2>2, RowFinds, ArmsAre
  <2> QED
    BY <2>2, <2>3 DEF Made
<1>6. CASE o = 19 /\ Row(BUnaryOf, <<f7, f3, rs2>>) = {}
  <2>1. i \in ItypeOf(Row(BImmOf, <<f7 \div 2, f3>>), w, X(w, 20, 6, 0))
    BY <1>6 DEF BFactory
  <2>2. i.op \in Row(BImmOf, <<f7 \div 2, f3>>) /\ IMade(w, i, 19, X(w, 20, 6, 0))
    BY <1>6, <2>1, IForm
  <2>3. Found(BImmOf, <<f7 \div 2, f3>>, i.op) /\ a = 25
    BY <2>2, RowFinds, ArmsAre
  <2> QED
    BY <2>2, <2>3 DEF Made
<1>7. CASE o = 27 /\ f7 = 48 /\ f3 = 1
  <2>1. i \in RtypeOf(Row(BUnaryWOf, rs2), w)
    BY <1>7 DEF BFactory
  <2>2. i.op \in Row(BUnaryWOf, rs2) /\ RMade(w, i, 27)
    BY <1>7, <2>1, RForm
  <2>3. a = 24
    BY <2>2, RowFinds, ArmsAre
  <2> QED
    BY <1>7, <2>2, <2>3 DEF Made
<1>8. CASE o = 27 /\ f7 = 48 /\ f3 = 5
  <2>1. i \in ItypeOf({"RORIW"}, w, X(w, 20, 5, 0))
    BY <1>8 DEF BFactory
  <2>2. i.op = "RORIW" /\ IMade(w, i, 27, X(w, 20, 5, 0))
    BY <1>8, <2>1, IForm
  <2> QED
    BY <1>8, <2>2, ArmsAre DEF Made
<1>9. CASE o = 27 /\ f7 # 48
  <2>1. f7 \div 2 = 2 /\ f3 = 1 /\ i \in ItypeOf({"SLLIUW"}, w, X(w, 20, 6, 0))
    BY <1>9 DEF BFactory
  <2>2. i.op = "SLLIUW" /\ IMade(w, i, 27, X(w, 20, 6, 0))
    BY <1>9, <2>1, IForm
  <2> QED
    BY <2>1, <2>2, ArmsAre DEF Made
<1>10. CASE o = 27 /\ f7 = 48 /\ f3 \notin {1, 5}
  BY <1>10 DEF BFactory
<1> QED
  BY <1>1, <1>2, <1>3, <1>4, <1>5, <1>6, <1>7, <1>8, <1>9, <1>10

LEMMA AMakes ==
  ASSUME NEW w, WordOK(w), NEW v, NEW i \in AFactory(w, v, TRUE)
  PROVE  Made(ArmOf(i.op), w, v, i)
<1> DEFINE f5 == Funct7(w) \div 4  a == ArmOf(i.op)
<1>1. Opcode(w) = 47
  BY DEF AFactory
<1>2. CASE Funct3(w) = 2
  <2>1. i \in RtypeOf(Row(AmoOf, f5), w)
    BY <1>2 DEF AFactory
  <2>2. i.op \in Row(AmoOf, f5) /\ RMade(w, i, 47)
    BY <1>1, <2>1, RForm
  <2>3. Found(AmoOf, f5, i.op) /\ a = 28
    BY <2>2, RowFinds, ArmsAre
  <2> QED
    BY <1>2, <2>2, <2>3 DEF Made
<1>3. CASE Funct3(w) = 3
  <2>1. i \in RtypeOf(Row(AmoDOf, f5), w)
    BY <1>3 DEF AFactory
  <2>2. i.op \in Row(AmoDOf, f5) /\ RMade(w, i, 47)
    BY <1>1, <2>1, RForm
  <2>3. Found(AmoDOf, f5, i.op) /\ a = 29
    BY <2>2, RowFinds, ArmsAre
  <2> QED
    BY <1>3, <2>2, <2>3 DEF Made
<1>4. CASE Funct3(w) \notin {2, 3}
  <2>1. i \in RtypeOf({}, w)
    BY <1>4 DEF AFactory
  <2> QED
    BY <2>1, RForm
<1> QED
  BY <1>2, <1>3, <1>4

(* An arm makes an instruction of one word only.  Of an atomic operation   *)
(* two bits are not looked at.                                             *)
Same(a, w, u) ==
  /\ w.lo = u.lo
  /\ \/ w.hi = u.hi
     \/ a \in {28, 29} /\ w.hi % 512 = u.hi % 512 /\ w.hi \div 2048 = u.hi \div 2048

LEMMA FoundOnce ==
  ASSUME NEW table, OneKey(table), NEW k, NEW l, NEW op, Found(table, k, op), Found(table, l, op)
  PROVE  k = l
BY DEF OneKey, Found

LEMMA LoadFoundOnce ==
  ASSUME NEW f, NEW g, NEW v, NEW op, LoadFound(f, v, op), LoadFound(g, v, op)
  PROVE  f = g
<1>1. PICK o \in DOMAIN LoadOps : LoadOps[o] = f /\ op = OfVersion(o, v)
  BY DEF LoadFound
<1>2. PICK p \in DOMAIN LoadOps : LoadOps[p] = g /\ op = OfVersion(p, v)
  BY DEF LoadFound
<1>3. o \in DOMAIN Versioned /\ p \in DOMAIN Versioned
  BY FormsAre DEF LoadOps
<1>4. o = p
  <2>1. \E k \in {1, 2} : Versioned[o][k] = Versioned[p][k]
    BY <1>1, <1>2 DEF OfVersion
  <2> QED
    BY <1>3, <2>1, FormsAre
<1> QED
  BY <1>1, <1>2, <1>4

LEMMA FenceOnce ==
  ASSUME NEW w, NEW u, NEW i, WordOK(w), WordOK(u), FenceMade(w, i), FenceMade(u, i)
  PROVE  w.lo = u.lo /\ w.hi = u.hi
<1> DEFINE h == w.hi  g == u.hi
<1>1. /\ h \in Nat /\ h < 65536 /\ g \in Nat /\ g < 65536
      /\ Field(w, 16, 4) = h % 16 /\ Field(u, 16, 4) = g % 16
      /\ Field(w, 28, 4) = (h \div 4096) % 16 /\ Field(u, 28, 4) = (g \div 4096) % 16
      /\ Field(w, 24, 4) = (h \div 256) % 16 /\ Field(u, 24, 4) = (g \div 256) % 16
      /\ Field(w, 20, 4) = (h \div 16) % 16 /\ Field(u, 20, 4) = (g \div 16) % 16
  BY DEF WordOK, Field
<1>2. /\ h % 16 = g % 16 /\ (h \div 4096) % 16 = (g \div 4096) % 16
      /\ (h \div 256) % 16 = (g \div 256) % 16 /\ (h \div 16) % 16 = (g \div 16) % 16
  BY <1>1 DEF FenceMade
<1>3. w.lo = u.lo
  BY DEF FenceMade
<1> HIDE DEF h, g
<1>4. ASSUME NEW x \in Nat, x < 65536
      PROVE  x = (x % 16) + 16 * ((x \div 16) % 16) + 256 * ((x \div 256) % 16)
                   + 4096 * ((x \div 4096) % 16)
  BY <1>4
<1>5. h = g
  BY <1>1, <1>2, <1>4
<1> QED
  BY <1>3, <1>5 DEF h, g

LEMMA AtomicTells ==
  ASSUME NEW w, NEW u, WordOK(w), WordOK(u), Rs1(w) = Rs1(u), Rs2(w) = Rs2(u),
         Funct7(w) \div 4 = Funct7(u) \div 4
  PROVE  w.hi % 512 = u.hi % 512 /\ w.hi \div 2048 = u.hi \div 2048
<1> DEFINE h == w.hi  g == u.hi
           a == (Rs1(w) \div 2) + 16 * Rs2(w)  c == (Rs1(u) \div 2) + 16 * Rs2(u)
           f7 == Funct7(w)  g7 == Funct7(u)
<1>1. /\ h = a + 512 * f7 /\ g = c + 512 * g7 /\ f7 \in Nat /\ g7 \in Nat /\ a = c
      /\ f7 \div 4 = g7 \div 4
  BY FullFields
<1>2. a \in Nat /\ a < 512
  BY FullFields
<1> HIDE DEF h, g, a, c, f7, g7
<1>3. h % 512 = a /\ g % 512 = a /\ h \div 2048 = f7 \div 4 /\ g \div 2048 = g7 \div 4
  BY <1>1, <1>2
<1> QED
  BY <1>1, <1>3 DEF h, g

LEMMA MadeOnce ==
  ASSUME NEW w, NEW u, WordOK(w), WordOK(u), NEW v, NEW i, NEW a,
         Made(a, w, v, i), Made(a, u, v, i)
  PROVE  Same(a, w, u)
<1> DEFINE o == Opcode(w)  rd == Rd(w)  f3 == Funct3(w)  rs1 == Rs1(w)  rs2 == Rs2(w)
           f7 == Funct7(w)
           q == Opcode(u)  sd == Rd(u)  g3 == Funct3(u)  ss1 == Rs1(u)  ss2 == Rs2(u)
           g7 == Funct7(u)
<1>1. o = q /\ rd = sd /\ f3 = g3 /\ rs1 = ss1 /\ rs2 = ss2 /\ f7 = g7 => Same(a, w, u)
  BY FieldsTell DEF Same
<1>2. a \in 1 .. 29
  BY DEF Made
<1>3. CASE a = 1
  <2>1. UMade(w, i, 55, UtypeImmediate(w)) /\ UMade(u, i, 55, UtypeImmediate(u))
    BY <1>3 DEF Made
  <2>2. UtypeImmediate(w) = UtypeImmediate(u) /\ o = q /\ rd = sd
    BY <2>1 DEF UMade
  <2> QED
    BY <1>1, <2>2, ImmediatesTell
<1>4. CASE a = 2
  <2>1. UMade(w, i, 23, UtypeImmediate(w)) /\ UMade(u, i, 23, UtypeImmediate(u))
    BY <1>4 DEF Made
  <2>2. UtypeImmediate(w) = UtypeImmediate(u) /\ o = q /\ rd = sd
    BY <2>1 DEF UMade
  <2> QED
    BY <1>1, <2>2, ImmediatesTell
<1>5. CASE a = 3
  <2>1. UMade(w, i, 111, JtypeImmediate(w)) /\ UMade(u, i, 111, JtypeImmediate(u))
    BY <1>5 DEF Made
  <2>2. JtypeImmediate(w) = JtypeImmediate(u) /\ o = q /\ rd = sd
    BY <2>1 DEF UMade
  <2> QED
    BY <1>1, <2>2, ImmediatesTell
<1>6. CASE a = 4
  <2>1. IMade(w, i, 103, ItypeImmediate(w)) /\ IMade(u, i, 103, ItypeImmediate(u))
    BY <1>6 DEF Made
  <2>2. ItypeImmediate(w) = ItypeImmediate(u) /\ o = q /\ rd = sd /\ rs1 = ss1
    BY <2>1 DEF IMade
  <2>4. f3 = g3
    BY <1>6 DEF Made
  <2> QED
    BY <1>1, <2>2, <2>4, ImmediatesTell
<1>7. CASE a = 5
  <2>1. IMade(w, i, 3, ItypeImmediate(w)) /\ IMade(u, i, 3, ItypeImmediate(u))
    BY <1>7 DEF Made
  <2>2. ItypeImmediate(w) = ItypeImmediate(u) /\ o = q /\ rd = sd /\ rs1 = ss1
    BY <2>1 DEF IMade
  <2>3. LoadFound(f3, v, i.op) /\ LoadFound(g3, v, i.op)
    BY <1>7 DEF Made
  <2>4. f3 = g3
    BY <2>3, LoadFoundOnce
  <2> QED
    BY <1>1, <2>2, <2>4, ImmediatesTell
<1>8. CASE a = 6
  <2>1. IMade(w, i, 19, ItypeImmediate(w) % 64) /\ IMade(u, i, 19, ItypeImmediate(u) % 64)
    BY <1>8 DEF Made
  <2>2. ItypeImmediate(w) % 64 = ItypeImmediate(u) % 64 /\ o = q /\ rd = sd /\ rs1 = ss1
    BY <2>1 DEF IMade
  <2>3. Found(ShiftOf, <<f3, f7 \div 2>>, i.op) /\ Found(ShiftOf, <<g3, g7 \div 2>>, i.op)
    BY <1>8 DEF Made
  <2>4. f3 = g3 /\ f7 \div 2 = g7 \div 2
    BY <2>3, FoundOnce, OneKeys
  <2> QED
    BY <1>1, <2>2, <2>4, ShiftsTell
<1>9. CASE a = 7
  <2>1. IMade(w, i, 19, ItypeImmediate(w)) /\ IMade(u, i, 19, ItypeImmediate(u))
    BY <1>9 DEF Made
  <2>2. ItypeImmediate(w) = ItypeImmediate(u) /\ o = q /\ rd = sd /\ rs1 = ss1
    BY <2>1 DEF IMade
  <2>3. Found(ImmOf, f3, i.op) /\ Found(ImmOf, g3, i.op)
    BY <1>9 DEF Made
  <2>4. f3 = g3
    BY <2>3, FoundOnce, OneKeys
  <2> QED
    BY <1>1, <2>2, <2>4, ImmediatesTell
<1>10. CASE a = 8
  <2>1. SMade(w, i, 99, BtypeImmediate(w)) /\ SMade(u, i, 99, BtypeImmediate(u))
    BY <1>10 DEF Made
  <2>2. BtypeImmediate(w) = BtypeImmediate(u) /\ o = q /\ rs1 = ss1 /\ rs2 = ss2
    BY <2>1 DEF SMade
  <2>3. Found(BranchOf, f3, i.op) /\ Found(BranchOf, g3, i.op)
    BY <1>10 DEF Made
  <2>4. f3 = g3
    BY <2>3, FoundOnce, OneKeys
  <2> QED
    BY <1>1, <2>2, <2>4, ImmediatesTell
<1>11. CASE a = 9
  <2>1. SMade(w, i, 35, StypeImmediate(w)) /\ SMade(u, i, 35, StypeImmediate(u))
    BY <1>11 DEF Made
  <2>2. StypeImmediate(w) = StypeImmediate(u) /\ o = q /\ rs1 = ss1 /\ rs2 = ss2
    BY <2>1 DEF SMade
  <2>3. Found(StoreOf, f3, i.op) /\ Found(StoreOf, g3, i.op)
    BY <1>11 DEF Made
  <2>4. f3 = g3
    BY <2>3, FoundOnce, OneKeys
  <2> QED
    BY <1>1, <2>2, <2>4, ImmediatesTell
<1>12. CASE a = 10
  <2>1. RMade(w, i, 51) /\ RMade(u, i, 51)
    BY <1>12 DEF Made
  <2>2. o = q /\ rd = sd /\ rs1 = ss1 /\ rs2 = ss2
    BY <2>1 DEF RMade
  <2>3. Found(AluOf, <<f3, f7>>, i.op) /\ Found(AluOf, <<g3, g7>>, i.op)
    BY <1>12 DEF Made
  <2>4. f3 = g3 /\ f7 = g7
    BY <2>3, FoundOnce, OneKeys
  <2> QED
    BY <1>1, <2>2, <2>4
<1>13. CASE a = 11
  BY <1>13, FenceOnce DEF Made, Same
<1>14. CASE a \in {12, 13, 14}
  BY <1>14 DEF Made, Same
<1>15. CASE a = 15
  <2>1. IMade(w, i, 27, ItypeImmediate(w)) /\ IMade(u, i, 27, ItypeImmediate(u))
    BY <1>15 DEF Made
  <2>2. ItypeImmediate(w) = ItypeImmediate(u) /\ o = q /\ rd = sd /\ rs1 = ss1
    BY <2>1 DEF IMade
  <2>4. f3 = g3
    BY <1>15 DEF Made
  <2> QED
    BY <1>1, <2>2, <2>4, ImmediatesTell
<1>16. CASE a = 16
  <2>1. IMade(w, i, 27, ItypeImmediate(w) % 32) /\ IMade(u, i, 27, ItypeImmediate(u) % 32)
    BY <1>16 DEF Made
  <2>2. ItypeImmediate(w) % 32 = ItypeImmediate(u) % 32 /\ o = q /\ rd = sd /\ rs1 = ss1
    BY <2>1 DEF IMade
  <2>3. Found(ShiftWOf, <<f3, f7>>, i.op) /\ Found(ShiftWOf, <<g3, g7>>, i.op)
    BY <1>16 DEF Made
  <2>4. f3 = g3 /\ f7 = g7
    BY <2>3, FoundOnce, OneKeys
  <2> QED
    BY <1>1, <2>2, <2>4, ShiftsTell
<1>17. CASE a = 17
  <2>1. RMade(w, i, 59) /\ RMade(u, i, 59)
    BY <1>17 DEF Made
  <2>2. o = q /\ rd = sd /\ rs1 = ss1 /\ rs2 = ss2
    BY <2>1 DEF RMade
  <2>3. Found(AluWOf, <<f3, f7>>, i.op) /\ Found(AluWOf, <<g3, g7>>, i.op)
    BY <1>17 DEF Made
  <2>4. f3 = g3 /\ f7 = g7
    BY <2>3, FoundOnce, OneKeys
  <2> QED
    BY <1>1, <2>2, <2>4
<1>18. CASE a = 18
  <2>1. RMade(w, i, 51) /\ RMade(u, i, 51) /\ f7 = g7 /\ MulOf[f3 + 1] = MulOf[g3 + 1]
    BY <1>18 DEF Made
  <2>2. o = q /\ rd = sd /\ rs1 = ss1 /\ rs2 = ss2
    BY <2>1 DEF RMade
  <2>3. f3 \in 0 .. 7 /\ g3 \in 0 .. 7
    BY FullFields
  <2>4. \A k, l \in 0 .. 7 : MulOf[k + 1] = MulOf[l + 1] => k = l
    BY DEF MulOf
  <2>5. f3 = g3
    BY <2>1, <2>3, <2>4
  <2> QED
    BY <1>1, <2>1, <2>2, <2>5
<1>19. CASE a = 19
  <2>1. RMade(w, i, 59) /\ RMade(u, i, 59)
    BY <1>19 DEF Made
  <2>2. o = q /\ rd = sd /\ rs1 = ss1 /\ rs2 = ss2
    BY <2>1 DEF RMade
  <2>3. Found(MulWOf, f3, i.op) /\ Found(MulWOf, g3, i.op)
    BY <1>19 DEF Made
  <2>4. f3 = g3 /\ f7 = g7
    BY <2>3, FoundOnce, OneKeys, <1>19 DEF Made
  <2> QED
    BY <1>1, <2>2, <2>4
<1>20. CASE a = 20
  <2>1. RMade(w, i, 59) /\ RMade(u, i, 59)
    BY <1>20 DEF Made
  <2>2. o = q /\ rd = sd /\ rs1 = ss1 /\ rs2 = ss2
    BY <2>1 DEF RMade
  <2>4. f3 = g3 /\ f7 = g7
    BY <1>20 DEF Made
  <2> QED
    BY <1>1, <2>2, <2>4
<1>21. CASE a = 21
  <2>1. RMade(w, i, 59) /\ RMade(u, i, 59)
    BY <1>21 DEF Made
  <2>2. o = q /\ rd = sd /\ rs1 = ss1 /\ rs2 = ss2
    BY <2>1 DEF RMade
  <2>3. Found(BWOf, <<f3, f7>>, i.op) /\ Found(BWOf, <<g3, g7>>, i.op)
    BY <1>21 DEF Made
  <2>4. f3 = g3 /\ f7 = g7
    BY <2>3, FoundOnce, OneKeys
  <2> QED
    BY <1>1, <2>2, <2>4
<1>22. CASE a = 22
  <2>1. RMade(w, i, 51) /\ RMade(u, i, 51)
    BY <1>22 DEF Made
  <2>2. o = q /\ rd = sd /\ rs1 = ss1 /\ rs2 = ss2
    BY <2>1 DEF RMade
  <2>3. Found(BOf, <<f3, f7>>, i.op) /\ Found(BOf, <<g3, g7>>, i.op)
    BY <1>22 DEF Made
  <2>4. f3 = g3 /\ f7 = g7
    BY <2>3, FoundOnce, OneKeys
  <2> QED
    BY <1>1, <2>2, <2>4
<1>23. CASE a = 23
  <2>1. RMade(w, i, 19) /\ RMade(u, i, 19)
    BY <1>23 DEF Made
  <2>2. o = q /\ rd = sd /\ rs1 = ss1 /\ rs2 = ss2
    BY <2>1 DEF RMade
  <2>3. Found(BUnaryOf, <<f7, f3, rs2>>, i.op) /\ Found(BUnaryOf, <<g7, g3, ss2>>, i.op)
    BY <1>23 DEF Made
  <2>4. f3 = g3 /\ f7 = g7
    BY <2>3, FoundOnce, OneKeys
  <2> QED
    BY <1>1, <2>2, <2>4
<1>24. CASE a = 24
  <2>1. RMade(w, i, 27) /\ RMade(u, i, 27)
    BY <1>24 DEF Made
  <2>2. o = q /\ rd = sd /\ rs1 = ss1 /\ rs2 = ss2
    BY <2>1 DEF RMade
  <2>4. f3 = g3 /\ f7 = g7
    BY <1>24 DEF Made
  <2> QED
    BY <1>1, <2>2, <2>4
<1>25. CASE a = 25
  <2>1. IMade(w, i, 19, X(w, 20, 6, 0)) /\ IMade(u, i, 19, X(u, 20, 6, 0))
    BY <1>25 DEF Made
  <2>2. X(w, 20, 6, 0) = X(u, 20, 6, 0) /\ o = q /\ rd = sd /\ rs1 = ss1
    BY <2>1 DEF IMade
  <2>3. Found(BImmOf, <<f7 \div 2, f3>>, i.op) /\ Found(BImmOf, <<g7 \div 2, g3>>, i.op)
    BY <1>25 DEF Made
  <2>4. f3 = g3 /\ f7 \div 2 = g7 \div 2
    BY <2>3, FoundOnce, OneKeys
  <2> QED
    BY <1>1, <2>2, <2>4, ShiftsTell
<1>26. CASE a = 26
  <2>1. IMade(w, i, 27, X(w, 20, 5, 0)) /\ IMade(u, i, 27, X(u, 20, 5, 0))
    BY <1>26 DEF Made
  <2>2. X(w, 20, 5, 0) = X(u, 20, 5, 0) /\ o = q /\ rd = sd /\ rs1 = ss1
    BY <2>1 DEF IMade
  <2>4. f3 = g3 /\ f7 = g7
    BY <1>26 DEF Made
  <2> QED
    BY <1>1, <2>2, <2>4, ShiftsTell
<1>27. CASE a = 27
  <2>1. IMade(w, i, 27, X(w, 20, 6, 0)) /\ IMade(u, i, 27, X(u, 20, 6, 0))
    BY <1>27 DEF Made
  <2>2. X(w, 20, 6, 0) = X(u, 20, 6, 0) /\ o = q /\ rd = sd /\ rs1 = ss1
    BY <2>1 DEF IMade
  <2>4. f3 = g3 /\ f7 \div 2 = g7 \div 2
    BY <1>27 DEF Made
  <2> QED
    BY <1>1, <2>2, <2>4, ShiftsTell
<1>28. CASE a = 28
  <2>1. RMade(w, i, 47) /\ RMade(u, i, 47) /\ f3 = g3
    BY <1>28 DEF Made
  <2>2. o = q /\ rd = sd /\ rs1 = ss1 /\ rs2 = ss2
    BY <2>1 DEF RMade
  <2>3. Found(AmoOf, f7 \div 4, i.op) /\ Found(AmoOf, g7 \div 4, i.op)
    BY <1>28 DEF Made
  <2>4. f7 \div 4 = g7 \div 4
    BY <2>3, FoundOnce, OneKeys
  <2> QED
    BY <1>28, <2>1, <2>2, <2>4, FieldsTell, AtomicTells DEF Same
<1>29. CASE a = 29
  <2>1. RMade(w, i, 47) /\ RMade(u, i, 47) /\ f3 = g3
    BY <1>29 DEF Made
  <2>2. o = q /\ rd = sd /\ rs1 = ss1 /\ rs2 = ss2
    BY <2>1 DEF RMade
  <2>3. Found(AmoDOf, f7 \div 4, i.op) /\ Found(AmoDOf, g7 \div 4, i.op)
    BY <1>29 DEF Made
  <2>4. f7 \div 4 = g7 \div 4
    BY <2>3, FoundOnce, OneKeys
  <2> QED
    BY <1>29, <2>1, <2>2, <2>4, FieldsTell, AtomicTells DEF Same
<1> QED
  BY <1>2, <1>3, <1>4, <1>5, <1>6, <1>7, <1>8, <1>9, <1>10, <1>11, <1>12, <1>13,
     <1>14, <1>15, <1>16,
     <1>17, <1>18, <1>19, <1>20, <1>21, <1>22, <1>23, <1>24, <1>25, <1>26, <1>27, <1>28, <1>29

LEMMA FullMakes ==
  ASSUME NEW w, WordOK(w), NEW v, NEW x \in {"i", "m", "b", "a"}, NEW i \in Factory(x, w, v, 64)
  PROVE  Made(ArmOf(i.op), w, v, i)
<1>1. CASE x = "i"
  <2>1. i \in IFactory(w, v, TRUE)
    BY <1>1 DEF Factory
  <2> QED
    BY <2>1, IMakes
<1>2. CASE x = "m"
  <2>1. i \in MFactory(w, v, TRUE)
    BY <1>2 DEF Factory
  <2> QED
    BY <2>1, MMakes
<1>3. CASE x = "b"
  <2>1. i \in BFactory(w, v, TRUE)
    BY <1>3 DEF Factory
  <2> QED
    BY <2>1, BMakes
<1>4. CASE x = "a"
  <2>1. i \in AFactory(w, v, TRUE)
    BY <1>4 DEF Factory
  <2> QED
    BY <2>1, AMakes
<1> QED
  BY <1>1, <1>2, <1>3, <1>4

LEMMA AtomicArms ==
  ASSUME NEW i, ArmOf(i.op) \in {28, 29}
  PROVE  IgnoredBits(i) = {25, 26}
<1>1. i.op \in {"LR_W", "SC_W", "AMOSWAP_W", "AMOADD_W", "AMOXOR_W", "AMOAND_W", "AMOOR_W",
                "AMOMIN_W", "AMOMAX_W", "AMOMINU_W", "AMOMAXU_W"}
        \/ i.op \in {"LR_D", "SC_D", "AMOSWAP_D", "AMOADD_D", "AMOXOR_D", "AMOAND_D", "AMOOR_D",
                     "AMOMIN_D", "AMOMAX_D", "AMOMINU_D", "AMOMAXU_D"}
  <2> DEFINE op == i.op
  <2>1. ArmOf(op) \in {28, 29}
    OBVIOUS
  <2> HIDE DEF op
  <2>2. op \in {"LR_W", "SC_W", "AMOSWAP_W", "AMOADD_W", "AMOXOR_W", "AMOAND_W", "AMOOR_W",
                "AMOMIN_W", "AMOMAX_W", "AMOMINU_W", "AMOMAXU_W"}
        \/ op \in {"LR_D", "SC_D", "AMOSWAP_D", "AMOADD_D", "AMOXOR_D", "AMOAND_D", "AMOOR_D",
                   "AMOMIN_D", "AMOMAX_D", "AMOMINU_D", "AMOMAXU_D"}
    BY <2>1 DEF ArmOf
  <2> QED
    BY <2>2 DEF op
<1> QED
  BY <1>1 DEF IgnoredBits, AmoWOps, AmoDOps, ReservationBytes

(* A full word a bit apart is another instruction.                         *)
LEMMA FullBits ==
  ASSUME NEW w, WordOK(w), w = [lo |-> w.lo, hi |-> w.hi], NEW k \in 0 .. 31, NEW v,
         NEW x \in {"i", "m", "b", "a"}, NEW y \in {"i", "m", "b", "a"}, NEW i,
         i \in Factory(x, w, v, 64), i \in Factory(y, Flip(w, k), v, 64)
  PROVE  k \in IgnoredBits(i)
<1> DEFINE u == Flip(w, k)  a == ArmOf(i.op)
<1>1. /\ WordOK(u)
      /\ k < 16 => \E p \in BitValues : Apart(w.lo, u.lo, p)
      /\ k >= 16 => \E p \in BitValues : /\ Apart(w.hi, u.hi, p)
                                         /\ p \in {512, 1024} => k \in {25, 26}
  BY FlipIs
<1>2. i \in Factory(y, u, v, 64)
  OBVIOUS
<1> HIDE DEF u, a
<1>3. Made(a, w, v, i) /\ Made(a, u, v, i)
  BY <1>1, <1>2, FullMakes DEF a
<1>4. Same(a, w, u)
  BY <1>1, <1>3, MadeOnce
<1> DEFINE l == w.lo  m == u.lo  h == w.hi  g == u.hi
<1>5. l \in Nat /\ m \in Nat /\ h \in Nat /\ g \in Nat
  BY <1>1 DEF WordOK
<1>6. k >= 16
  <2> SUFFICES ASSUME k < 16 PROVE FALSE
    OBVIOUS
  <2>1. PICK p \in BitValues : Apart(l, m, p)
    BY <1>1
  <2>2. l = m
    BY <1>4 DEF Same
  <2> HIDE DEF l, m
  <2> QED
    BY <1>5, <2>1, <2>2 DEF Apart, BitValues
<1>7. PICK p \in BitValues : Apart(h, g, p) /\ (p \in {512, 1024} => k \in {25, 26})
  BY <1>1, <1>6
<1>8. h # g
  <2> HIDE DEF h, g
  <2> QED
    BY <1>5, <1>7 DEF Apart, BitValues
<1>9. a \in {28, 29} /\ h % 512 = g % 512 /\ h \div 2048 = g \div 2048
  BY <1>4, <1>8 DEF Same
<1>10. p \in {512, 1024}
  <2> HIDE DEF h, g
  <2> QED
    BY <1>5, <1>7, <1>9 DEF Apart, BitValues
<1> QED
  BY <1>7, <1>9, <1>10, AtomicArms DEF a

(* Compressed words: the bits between the quadrant and funct3.             *)
SpnImmediate(w) == X(w, 6, 1, 2) + X(w, 5, 1, 3) + X(w, 11, 2, 4) + X(w, 7, 4, 6)
SpImmediate(w) == X(w, 6, 1, 4) + X(w, 2, 1, 5) + X(w, 5, 1, 6) + X(w, 3, 2, 7) + XS(w, 12, 1, 9)

LEMMA ShortParts ==
  ASSUME NEW w, WordOK(w)
  PROVE  /\ Field(w, 7, 5) = Bit(w, 7) + 2 * Bit(w, 8) + 4 * Bit(w, 9) + 8 * Bit(w, 10)
                               + 16 * Bit(w, 11)
         /\ Field(w, 7, 4) = Bit(w, 7) + 2 * Bit(w, 8) + 4 * Bit(w, 9) + 8 * Bit(w, 10)
         /\ Field(w, 11, 2) = Bit(w, 11) + 2 * Bit(w, 12)
         /\ Field(w, 0, 2) \in 0 .. 3 /\ Field(w, 13, 3) \in 0 .. 7
         /\ w.lo = Field(w, 0, 2) + 4 * Field(w, 2, 5) + 128 * Field(w, 7, 5) + 4096 * Bit(w, 12)
                     + 8192 * Field(w, 13, 3)
<1> DEFINE lo == w.lo
<1>1. lo \in Nat /\ lo < 65536
  BY DEF WordOK
<1>2. /\ Bit(w, 7) = (lo \div 128) % 2
      /\ Bit(w, 8) = (lo \div 256) % 2
      /\ Bit(w, 9) = (lo \div 512) % 2
      /\ Bit(w, 10) = (lo \div 1024) % 2
      /\ Bit(w, 11) = (lo \div 2048) % 2
      /\ Bit(w, 12) = (lo \div 4096) % 2
  BY <1>1 DEF Bit, Field
<1>3. /\ Field(w, 7, 5) = (lo \div 128) % 32 /\ Field(w, 7, 4) = (lo \div 128) % 16
      /\ Field(w, 11, 2) = (lo \div 2048) % 4 /\ Field(w, 0, 2) = lo % 4
      /\ Field(w, 2, 5) = (lo \div 4) % 32 /\ Field(w, 13, 3) = (lo \div 8192) % 8
  BY <1>1 DEF Field
<1> HIDE DEF lo
<1>4. (lo \div 128) % 32 = ((lo \div 128) % 2) + 2 * ((lo \div 256) % 2)
         + 4 * ((lo \div 512) % 2) + 8 * ((lo \div 1024) % 2) + 16 * ((lo \div 2048) % 2)
  BY <1>1, SMTT(30)
<1>5. (lo \div 128) % 16 = ((lo \div 128) % 2) + 2 * ((lo \div 256) % 2)
         + 4 * ((lo \div 512) % 2) + 8 * ((lo \div 1024) % 2)
  BY <1>1, SMTT(30)
<1>6. (lo \div 2048) % 4 = ((lo \div 2048) % 2) + 2 * ((lo \div 4096) % 2)
  BY <1>1
<1>7. lo = (lo % 4) + 4 * ((lo \div 4) % 32) + 128 * ((lo \div 128) % 32)
             + 4096 * ((lo \div 4096) % 2) + 8192 * ((lo \div 8192) % 8)
  BY <1>1, SMTT(30)
<1>8. lo % 4 \in 0 .. 3 /\ (lo \div 8192) % 8 \in 0 .. 7
  BY <1>1
<1> QED
  BY <1>2, <1>3, <1>4, <1>5, <1>6, <1>7, <1>8 DEF lo

(* The immediates as sums of bits.                                         *)
LEMMA ShortImmediates ==
  ASSUME NEW w, WordOK(w)
  PROVE  /\ Immediate(w) = Bit(w, 2) + 2 * Bit(w, 3) + 4 * Bit(w, 4) + 8 * Bit(w, 5) + 16 *
                           Bit(w, 6) - 32 * Bit(w, 12)
         /\ UImmediate(w) = Bit(w, 2) + 2 * Bit(w, 3) + 4 * Bit(w, 4) + 8 * Bit(w, 5) + 16 *
                            Bit(w, 6) + 32 * Bit(w, 12)
         /\ JImmediate(w) = 2 * Bit(w, 3) + 4 * Bit(w, 4) + 8 * Bit(w, 5) + 16 * Bit(w, 11) + 32
                            * Bit(w, 2) + 64 * Bit(w, 7) + 128 * Bit(w, 6) + 256 * Bit(w, 9) +
                            512 * Bit(w, 10) + 1024 * Bit(w, 8) - 2048 * Bit(w, 12)
         /\ FldUImmediate(w) = 8 * Bit(w, 10) + 16 * Bit(w, 11) + 32 * Bit(w, 12) + 64 * Bit(w,
                               5) + 128 * Bit(w, 6)
         /\ SwUImmediate(w) = 4 * Bit(w, 6) + 8 * Bit(w, 10) + 16 * Bit(w, 11) + 32 * Bit(w, 12)
                              + 64 * Bit(w, 5)
         /\ LwspUImmediate(w) = 4 * Bit(w, 4) + 8 * Bit(w, 5) + 16 * Bit(w, 6) + 32 * Bit(w, 12)
                                + 64 * Bit(w, 2) + 128 * Bit(w, 3)
         /\ FldspUImmediate(w) = 8 * Bit(w, 5) + 16 * Bit(w, 6) + 32 * Bit(w, 12) + 64 * Bit(w,
                                 2) + 128 * Bit(w, 3) + 256 * Bit(w, 4)
         /\ FsdspUImmediate(w) = 8 * Bit(w, 10) + 16 * Bit(w, 11) + 32 * Bit(w, 12) + 64 *
                                 Bit(w, 7) + 128 * Bit(w, 8) + 256 * Bit(w, 9)
         /\ SwspUImmediate(w) = 4 * Bit(w, 9) + 8 * Bit(w, 10) + 16 * Bit(w, 11) + 32 * Bit(w,
                                12) + 64 * Bit(w, 7) + 128 * Bit(w, 8)
         /\ BImmediate(w) = 2 * Bit(w, 3) + 4 * Bit(w, 4) + 8 * Bit(w, 10) + 16 * Bit(w, 11) +
                            32 * Bit(w, 2) + 64 * Bit(w, 5) + 128 * Bit(w, 6) - 256 * Bit(w, 12)
         /\ SpnImmediate(w) = 4 * Bit(w, 6) + 8 * Bit(w, 5) + 16 * Bit(w, 11) + 32 * Bit(w, 12)
                              + 64 * Bit(w, 7) + 128 * Bit(w, 8) + 256 * Bit(w, 9) + 512 *
                              Bit(w, 10)
         /\ SpImmediate(w) = 16 * Bit(w, 6) + 32 * Bit(w, 2) + 64 * Bit(w, 5) + 128 * Bit(w, 3)
                             + 256 * Bit(w, 4) - 512 * Bit(w, 12)
<1>1. /\ Bit(w, 2) \in {0, 1} /\ Bit(w, 3) \in {0, 1} /\ Bit(w, 4) \in {0, 1}
      /\ Bit(w, 5) \in {0, 1} /\ Bit(w, 6) \in {0, 1} /\ Bit(w, 7) \in {0, 1}
      /\ Bit(w, 8) \in {0, 1} /\ Bit(w, 9) \in {0, 1} /\ Bit(w, 10) \in {0, 1}
      /\ Bit(w, 11) \in {0, 1} /\ Bit(w, 12) \in {0, 1}
  BY FieldBits
<1>2. Immediate(w) = Bit(w, 2) + 2 * Bit(w, 3) + 4 * Bit(w, 4) + 8 * Bit(w, 5) + 16 * Bit(w, 6)
                     - 32 * Bit(w, 12)
  <2>1. Immediate(w) = Field(w, 2, 5) * 1 - Bit(w, 12) * 32
    BY <1>1, FieldBits, ShortParts DEF Immediate, X, XS, Bit
  <2>2. Field(w, 2, 5) = Bit(w, 2) + 2 * Bit(w, 3) + 4 * Bit(w, 4) + 8 * Bit(w, 5) + 16 * Bit(w,
        6)
    BY FieldBits, ShortParts
  <2> QED
    BY <1>1, <2>1, <2>2
<1>3. UImmediate(w) = Bit(w, 2) + 2 * Bit(w, 3) + 4 * Bit(w, 4) + 8 * Bit(w, 5) + 16 * Bit(w, 6)
                      + 32 * Bit(w, 12)
  <2>1. UImmediate(w) = Field(w, 2, 5) * 1 + Bit(w, 12) * 32
    BY <1>1, FieldBits, ShortParts DEF UImmediate, X, XS, Bit
  <2>2. Field(w, 2, 5) = Bit(w, 2) + 2 * Bit(w, 3) + 4 * Bit(w, 4) + 8 * Bit(w, 5) + 16 * Bit(w,
        6)
    BY FieldBits, ShortParts
  <2> QED
    BY <1>1, <2>1, <2>2
<1>4. JImmediate(w) = 2 * Bit(w, 3) + 4 * Bit(w, 4) + 8 * Bit(w, 5) + 16 * Bit(w, 11) + 32 *
                      Bit(w, 2) + 64 * Bit(w, 7) + 128 * Bit(w, 6) + 256 * Bit(w, 9) + 512 *
                      Bit(w, 10) + 1024 * Bit(w, 8) - 2048 * Bit(w, 12)
  <2>1. JImmediate(w) = Field(w, 3, 3) * 2 + Bit(w, 11) * 16 + Bit(w, 2) * 32 + Bit(w, 7) * 64 +
                        Bit(w, 6) * 128 + Field(w, 9, 2) * 256 + Bit(w, 8) * 1024 - Bit(w, 12) *
                        2048
    BY <1>1, FieldBits, ShortParts DEF JImmediate, X, XS, Bit
  <2>2. /\ Field(w, 3, 3) = Bit(w, 3) + 2 * Bit(w, 4) + 4 * Bit(w, 5)
        /\ Field(w, 9, 2) = Bit(w, 9) + 2 * Bit(w, 10)
    BY FieldBits, ShortParts
  <2> QED
    BY <1>1, <2>1, <2>2
<1>5. FldUImmediate(w) = 8 * Bit(w, 10) + 16 * Bit(w, 11) + 32 * Bit(w, 12) + 64 * Bit(w, 5) +
                         128 * Bit(w, 6)
  <2>1. FldUImmediate(w) = Field(w, 10, 3) * 8 + Field(w, 5, 2) * 64
    BY <1>1, FieldBits, ShortParts DEF FldUImmediate, X, XS, Bit
  <2>2. /\ Field(w, 10, 3) = Bit(w, 10) + 2 * Bit(w, 11) + 4 * Bit(w, 12)
        /\ Field(w, 5, 2) = Bit(w, 5) + 2 * Bit(w, 6)
    BY FieldBits, ShortParts
  <2> QED
    BY <1>1, <2>1, <2>2
<1>6. SwUImmediate(w) = 4 * Bit(w, 6) + 8 * Bit(w, 10) + 16 * Bit(w, 11) + 32 * Bit(w, 12) + 64
                        * Bit(w, 5)
  <2>1. SwUImmediate(w) = Bit(w, 6) * 4 + Field(w, 10, 3) * 8 + Bit(w, 5) * 64
    BY <1>1, FieldBits, ShortParts DEF SwUImmediate, X, XS, Bit
  <2>2. Field(w, 10, 3) = Bit(w, 10) + 2 * Bit(w, 11) + 4 * Bit(w, 12)
    BY FieldBits, ShortParts
  <2> QED
    BY <1>1, <2>1, <2>2
<1>7. LwspUImmediate(w) = 4 * Bit(w, 4) + 8 * Bit(w, 5) + 16 * Bit(w, 6) + 32 * Bit(w, 12) + 64
                          * Bit(w, 2) + 128 * Bit(w, 3)
  <2>1. LwspUImmediate(w) = Field(w, 4, 3) * 4 + Bit(w, 12) * 32 + Field(w, 2, 2) * 64
    BY <1>1, FieldBits, ShortParts DEF LwspUImmediate, X, XS, Bit
  <2>2. /\ Field(w, 4, 3) = Bit(w, 4) + 2 * Bit(w, 5) + 4 * Bit(w, 6)
        /\ Field(w, 2, 2) = Bit(w, 2) + 2 * Bit(w, 3)
    BY FieldBits, ShortParts
  <2> QED
    BY <1>1, <2>1, <2>2
<1>8. FldspUImmediate(w) = 8 * Bit(w, 5) + 16 * Bit(w, 6) + 32 * Bit(w, 12) + 64 * Bit(w, 2) +
                           128 * Bit(w, 3) + 256 * Bit(w, 4)
  <2>1. FldspUImmediate(w) = Field(w, 5, 2) * 8 + Bit(w, 12) * 32 + Field(w, 2, 3) * 64
    BY <1>1, FieldBits, ShortParts DEF FldspUImmediate, X, XS, Bit
  <2>2. /\ Field(w, 5, 2) = Bit(w, 5) + 2 * Bit(w, 6)
        /\ Field(w, 2, 3) = Bit(w, 2) + 2 * Bit(w, 3) + 4 * Bit(w, 4)
    BY FieldBits, ShortParts
  <2> QED
    BY <1>1, <2>1, <2>2
<1>9. FsdspUImmediate(w) = 8 * Bit(w, 10) + 16 * Bit(w, 11) + 32 * Bit(w, 12) + 64 * Bit(w, 7) +
                           128 * Bit(w, 8) + 256 * Bit(w, 9)
  <2>1. FsdspUImmediate(w) = Field(w, 10, 3) * 8 + Field(w, 7, 3) * 64
    BY <1>1, FieldBits, ShortParts DEF FsdspUImmediate, X, XS, Bit
  <2>2. /\ Field(w, 10, 3) = Bit(w, 10) + 2 * Bit(w, 11) + 4 * Bit(w, 12)
        /\ Field(w, 7, 3) = Bit(w, 7) + 2 * Bit(w, 8) + 4 * Bit(w, 9)
    BY FieldBits, ShortParts
  <2> QED
    BY <1>1, <2>1, <2>2
<1>10. SwspUImmediate(w) = 4 * Bit(w, 9) + 8 * Bit(w, 10) + 16 * Bit(w, 11) + 32 * Bit(w, 12) +
                           64 * Bit(w, 7) + 128 * Bit(w, 8)
  <2>1. SwspUImmediate(w) = Field(w, 9, 4) * 4 + Field(w, 7, 2) * 64
    BY <1>1, FieldBits, ShortParts DEF SwspUImmediate, X, XS, Bit
  <2>2. /\ Field(w, 9, 4) = Bit(w, 9) + 2 * Bit(w, 10) + 4 * Bit(w, 11) + 8 * Bit(w, 12)
        /\ Field(w, 7, 2) = Bit(w, 7) + 2 * Bit(w, 8)
    BY FieldBits, ShortParts
  <2> QED
    BY <1>1, <2>1, <2>2
<1>11. BImmediate(w) = 2 * Bit(w, 3) + 4 * Bit(w, 4) + 8 * Bit(w, 10) + 16 * Bit(w, 11) + 32 *
                       Bit(w, 2) + 64 * Bit(w, 5) + 128 * Bit(w, 6) - 256 * Bit(w, 12)
  <2>1. BImmediate(w) = Field(w, 3, 2) * 2 + Field(w, 10, 2) * 8 + Bit(w, 2) * 32 + Field(w, 5,
                        2) * 64 - Bit(w, 12) * 256
    BY <1>1, FieldBits, ShortParts DEF BImmediate, X, XS, Bit
  <2>2. /\ Field(w, 3, 2) = Bit(w, 3) + 2 * Bit(w, 4)
        /\ Field(w, 10, 2) = Bit(w, 10) + 2 * Bit(w, 11)
        /\ Field(w, 5, 2) = Bit(w, 5) + 2 * Bit(w, 6)
    BY FieldBits, ShortParts
  <2> QED
    BY <1>1, <2>1, <2>2
<1>12. SpnImmediate(w) = 4 * Bit(w, 6) + 8 * Bit(w, 5) + 16 * Bit(w, 11) + 32 * Bit(w, 12) + 64
                         * Bit(w, 7) + 128 * Bit(w, 8) + 256 * Bit(w, 9) + 512 * Bit(w, 10)
  <2>1. SpnImmediate(w) = Bit(w, 6) * 4 + Bit(w, 5) * 8 + Field(w, 11, 2) * 16 + Field(w, 7, 4)
                          * 64
    BY <1>1, FieldBits, ShortParts DEF SpnImmediate, X, XS, Bit
  <2>2. /\ Field(w, 11, 2) = Bit(w, 11) + 2 * Bit(w, 12)
        /\ Field(w, 7, 4) = Bit(w, 7) + 2 * Bit(w, 8) + 4 * Bit(w, 9) + 8 * Bit(w, 10)
    BY FieldBits, ShortParts
  <2> QED
    BY <1>1, <2>1, <2>2
<1>13. SpImmediate(w) = 16 * Bit(w, 6) + 32 * Bit(w, 2) + 64 * Bit(w, 5) + 128 * Bit(w, 3) + 256
                        * Bit(w, 4) - 512 * Bit(w, 12)
  <2>1. SpImmediate(w) = Bit(w, 6) * 16 + Bit(w, 2) * 32 + Bit(w, 5) * 64 + Field(w, 3, 2) * 128
                         - Bit(w, 12) * 512
    BY <1>1, FieldBits, ShortParts DEF SpImmediate, X, XS, Bit
  <2>2. Field(w, 3, 2) = Bit(w, 3) + 2 * Bit(w, 4)
    BY FieldBits, ShortParts
  <2> QED
    BY <1>1, <2>1, <2>2
<1> QED
  BY <1>2, <1>3, <1>4, <1>5, <1>6, <1>7, <1>8, <1>9, <1>10, <1>11, <1>12, <1>13

(* What a compressed instruction keeps of a word tells all of its bits.    *)
SameBits(w, u) == \A k \in 2 .. 12 : Bit(w, k) = Bit(u, k)

LEMMA BitsTell ==
  ASSUME NEW w, NEW u, WordOK(w), WordOK(u), SameBits(w, u),
         Field(w, 0, 2) = Field(u, 0, 2), Field(w, 13, 3) = Field(u, 13, 3)
  PROVE  w.lo = u.lo
<1>1. /\ Field(w, 2, 5) = Field(u, 2, 5) /\ Field(w, 7, 5) = Field(u, 7, 5)
      /\ Bit(w, 12) = Bit(u, 12)
  BY FieldBits, ShortParts DEF SameBits
<1> QED
  BY <1>1, ShortParts

LEMMA FieldsSplit ==
  ASSUME NEW w, NEW u, WordOK(w), WordOK(u)
  PROVE  /\ Field(w, 2, 3) = Field(u, 2, 3) =>
              Bit(w, 2) = Bit(u, 2) /\ Bit(w, 3) = Bit(u, 3) /\ Bit(w, 4) = Bit(u, 4)
         /\ Field(w, 2, 5) = Field(u, 2, 5) =>
              Bit(w, 2) = Bit(u, 2) /\ Bit(w, 3) = Bit(u, 3) /\ Bit(w, 4) = Bit(u, 4)
                /\ Bit(w, 5) = Bit(u, 5) /\ Bit(w, 6) = Bit(u, 6)
         /\ Field(w, 5, 2) = Field(u, 5, 2) =>
              Bit(w, 5) = Bit(u, 5) /\ Bit(w, 6) = Bit(u, 6)
         /\ Field(w, 7, 3) = Field(u, 7, 3) =>
              Bit(w, 7) = Bit(u, 7) /\ Bit(w, 8) = Bit(u, 8) /\ Bit(w, 9) = Bit(u, 9)
         /\ Field(w, 7, 5) = Field(u, 7, 5) =>
              Bit(w, 7) = Bit(u, 7) /\ Bit(w, 8) = Bit(u, 8) /\ Bit(w, 9) = Bit(u, 9)
                /\ Bit(w, 10) = Bit(u, 10) /\ Bit(w, 11) = Bit(u, 11)
         /\ Field(w, 10, 2) = Field(u, 10, 2) =>
              Bit(w, 10) = Bit(u, 10) /\ Bit(w, 11) = Bit(u, 11)
<1>1. ASSUME Field(w, 2, 3) = Field(u, 2, 3)
      PROVE  Bit(w, 2) = Bit(u, 2) /\ Bit(w, 3) = Bit(u, 3) /\ Bit(w, 4) = Bit(u, 4)
  <2> DEFINE b2 == Bit(w, 2)  b3 == Bit(w, 3)  b4 == Bit(w, 4)
             d2 == Bit(u, 2)  d3 == Bit(u, 3)  d4 == Bit(u, 4)
             b == b2 + 2 * b3 + 4 * b4
             d == d2 + 2 * d3 + 4 * d4
  <2>1. Field(w, 2, 3) = b /\ Field(u, 2, 3) = d
    BY FieldBits, ShortParts
  <2> HIDE DEF b, d
  <2>2. b = d
    BY <1>1, <2>1
  <2>3. /\ b2 \in {0, 1} /\ d2 \in {0, 1}
        /\ b3 \in {0, 1} /\ d3 \in {0, 1}
        /\ b4 \in {0, 1} /\ d4 \in {0, 1}
    BY FieldBits
  <2> HIDE DEF b2, d2, b3, d3, b4, d4
  <2>4. b2 = d2 /\ b3 = d3 /\ b4 = d4
    BY <2>2, <2>3 DEF b, d
  <2> QED
    BY <2>4 DEF b2, d2, b3, d3, b4, d4
<1>2. ASSUME Field(w, 2, 5) = Field(u, 2, 5)
      PROVE  Bit(w, 2) = Bit(u, 2) /\ Bit(w, 3) = Bit(u, 3) /\ Bit(w, 4) = Bit(u, 4)
               /\ Bit(w, 5) = Bit(u, 5) /\ Bit(w, 6) = Bit(u, 6)
  <2> DEFINE b2 == Bit(w, 2)  b3 == Bit(w, 3)  b4 == Bit(w, 4)  b5 == Bit(w, 5)
             b6 == Bit(w, 6)
             d2 == Bit(u, 2)  d3 == Bit(u, 3)  d4 == Bit(u, 4)  d5 == Bit(u, 5)
             d6 == Bit(u, 6)
             b == b2 + 2 * b3 + 4 * b4 + 8 * b5 + 16 * b6
             d == d2 + 2 * d3 + 4 * d4 + 8 * d5 + 16 * d6
  <2>1. Field(w, 2, 5) = b /\ Field(u, 2, 5) = d
    BY FieldBits, ShortParts
  <2> HIDE DEF b, d
  <2>2. b = d
    BY <1>2, <2>1
  <2>3. /\ b2 \in {0, 1} /\ d2 \in {0, 1}
        /\ b3 \in {0, 1} /\ d3 \in {0, 1}
        /\ b4 \in {0, 1} /\ d4 \in {0, 1}
        /\ b5 \in {0, 1} /\ d5 \in {0, 1}
        /\ b6 \in {0, 1} /\ d6 \in {0, 1}
    BY FieldBits
  <2> HIDE DEF b2, d2, b3, d3, b4, d4, b5, d5, b6, d6
  <2>4. b2 = d2 /\ b3 = d3 /\ b4 = d4 /\ b5 = d5 /\ b6 = d6
    BY <2>2, <2>3 DEF b, d
  <2> QED
    BY <2>4 DEF b2, d2, b3, d3, b4, d4, b5, d5, b6, d6
<1>3. ASSUME Field(w, 5, 2) = Field(u, 5, 2)
      PROVE  Bit(w, 5) = Bit(u, 5) /\ Bit(w, 6) = Bit(u, 6)
  <2> DEFINE b5 == Bit(w, 5)  b6 == Bit(w, 6)
             d5 == Bit(u, 5)  d6 == Bit(u, 6)
             b == b5 + 2 * b6
             d == d5 + 2 * d6
  <2>1. Field(w, 5, 2) = b /\ Field(u, 5, 2) = d
    BY FieldBits, ShortParts
  <2> HIDE DEF b, d
  <2>2. b = d
    BY <1>3, <2>1
  <2>3. /\ b5 \in {0, 1} /\ d5 \in {0, 1}
        /\ b6 \in {0, 1} /\ d6 \in {0, 1}
    BY FieldBits
  <2> HIDE DEF b5, d5, b6, d6
  <2>4. b5 = d5 /\ b6 = d6
    BY <2>2, <2>3 DEF b, d
  <2> QED
    BY <2>4 DEF b5, d5, b6, d6
<1>4. ASSUME Field(w, 7, 3) = Field(u, 7, 3)
      PROVE  Bit(w, 7) = Bit(u, 7) /\ Bit(w, 8) = Bit(u, 8) /\ Bit(w, 9) = Bit(u, 9)
  <2> DEFINE b7 == Bit(w, 7)  b8 == Bit(w, 8)  b9 == Bit(w, 9)
             d7 == Bit(u, 7)  d8 == Bit(u, 8)  d9 == Bit(u, 9)
             b == b7 + 2 * b8 + 4 * b9
             d == d7 + 2 * d8 + 4 * d9
  <2>1. Field(w, 7, 3) = b /\ Field(u, 7, 3) = d
    BY FieldBits, ShortParts
  <2> HIDE DEF b, d
  <2>2. b = d
    BY <1>4, <2>1
  <2>3. /\ b7 \in {0, 1} /\ d7 \in {0, 1}
        /\ b8 \in {0, 1} /\ d8 \in {0, 1}
        /\ b9 \in {0, 1} /\ d9 \in {0, 1}
    BY FieldBits
  <2> HIDE DEF b7, d7, b8, d8, b9, d9
  <2>4. b7 = d7 /\ b8 = d8 /\ b9 = d9
    BY <2>2, <2>3 DEF b, d
  <2> QED
    BY <2>4 DEF b7, d7, b8, d8, b9, d9
<1>5. ASSUME Field(w, 7, 5) = Field(u, 7, 5)
      PROVE  Bit(w, 7) = Bit(u, 7) /\ Bit(w, 8) = Bit(u, 8) /\ Bit(w, 9) = Bit(u, 9)
               /\ Bit(w, 10) = Bit(u, 10) /\ Bit(w, 11) = Bit(u, 11)
  <2> DEFINE b7 == Bit(w, 7)  b8 == Bit(w, 8)  b9 == Bit(w, 9)  b10 == Bit(w, 10)
             b11 == Bit(w, 11)
             d7 == Bit(u, 7)  d8 == Bit(u, 8)  d9 == Bit(u, 9)  d10 == Bit(u, 10)
             d11 == Bit(u, 11)
             b == b7 + 2 * b8 + 4 * b9 + 8 * b10 + 16 * b11
             d == d7 + 2 * d8 + 4 * d9 + 8 * d10 + 16 * d11
  <2>1. Field(w, 7, 5) = b /\ Field(u, 7, 5) = d
    BY FieldBits, ShortParts
  <2> HIDE DEF b, d
  <2>2. b = d
    BY <1>5, <2>1
  <2>3. /\ b7 \in {0, 1} /\ d7 \in {0, 1}
        /\ b8 \in {0, 1} /\ d8 \in {0, 1}
        /\ b9 \in {0, 1} /\ d9 \in {0, 1}
        /\ b10 \in {0, 1} /\ d10 \in {0, 1}
        /\ b11 \in {0, 1} /\ d11 \in {0, 1}
    BY FieldBits
  <2> HIDE DEF b7, d7, b8, d8, b9, d9, b10, d10, b11, d11
  <2>4. b7 = d7 /\ b8 = d8 /\ b9 = d9 /\ b10 = d10 /\ b11 = d11
    BY <2>2, <2>3 DEF b, d
  <2> QED
    BY <2>4 DEF b7, d7, b8, d8, b9, d9, b10, d10, b11, d11
<1>6. ASSUME Field(w, 10, 2) = Field(u, 10, 2)
      PROVE  Bit(w, 10) = Bit(u, 10) /\ Bit(w, 11) = Bit(u, 11)
  <2> DEFINE b10 == Bit(w, 10)  b11 == Bit(w, 11)
             d10 == Bit(u, 10)  d11 == Bit(u, 11)
             b == b10 + 2 * b11
             d == d10 + 2 * d11
  <2>1. Field(w, 10, 2) = b /\ Field(u, 10, 2) = d
    BY FieldBits, ShortParts
  <2> HIDE DEF b, d
  <2>2. b = d
    BY <1>6, <2>1
  <2>3. /\ b10 \in {0, 1} /\ d10 \in {0, 1}
        /\ b11 \in {0, 1} /\ d11 \in {0, 1}
    BY FieldBits
  <2> HIDE DEF b10, d10, b11, d11
  <2>4. b10 = d10 /\ b11 = d11
    BY <2>2, <2>3 DEF b, d
  <2> QED
    BY <2>4 DEF b10, d10, b11, d11
<1> QED
  BY <1>1, <1>2, <1>3, <1>4, <1>5, <1>6

LEMMA ImmediatesSplit ==
  ASSUME NEW w, NEW u, WordOK(w), WordOK(u)
  PROVE  /\ BImmediate(w) = BImmediate(u) =>
              Bit(w, 2) = Bit(u, 2) /\ Bit(w, 3) = Bit(u, 3) /\ Bit(w, 4) = Bit(u, 4)
                /\ Bit(w, 5) = Bit(u, 5) /\ Bit(w, 6) = Bit(u, 6) /\ Bit(w, 10) = Bit(u, 10)
                /\ Bit(w, 11) = Bit(u, 11) /\ Bit(w, 12) = Bit(u, 12)
         /\ FldUImmediate(w) = FldUImmediate(u) =>
              Bit(w, 5) = Bit(u, 5) /\ Bit(w, 6) = Bit(u, 6) /\ Bit(w, 10) = Bit(u, 10)
                /\ Bit(w, 11) = Bit(u, 11) /\ Bit(w, 12) = Bit(u, 12)
         /\ FldspUImmediate(w) = FldspUImmediate(u) =>
              Bit(w, 2) = Bit(u, 2) /\ Bit(w, 3) = Bit(u, 3) /\ Bit(w, 4) = Bit(u, 4)
                /\ Bit(w, 5) = Bit(u, 5) /\ Bit(w, 6) = Bit(u, 6) /\ Bit(w, 12) = Bit(u, 12)
         /\ FsdspUImmediate(w) = FsdspUImmediate(u) =>
              Bit(w, 7) = Bit(u, 7) /\ Bit(w, 8) = Bit(u, 8) /\ Bit(w, 9) = Bit(u, 9)
                /\ Bit(w, 10) = Bit(u, 10) /\ Bit(w, 11) = Bit(u, 11)
                /\ Bit(w, 12) = Bit(u, 12)
         /\ Immediate(w) = Immediate(u) =>
              Bit(w, 2) = Bit(u, 2) /\ Bit(w, 3) = Bit(u, 3) /\ Bit(w, 4) = Bit(u, 4)
                /\ Bit(w, 5) = Bit(u, 5) /\ Bit(w, 6) = Bit(u, 6) /\ Bit(w, 12) = Bit(u, 12)
         /\ JImmediate(w) = JImmediate(u) =>
              Bit(w, 2) = Bit(u, 2) /\ Bit(w, 3) = Bit(u, 3) /\ Bit(w, 4) = Bit(u, 4)
                /\ Bit(w, 5) = Bit(u, 5) /\ Bit(w, 6) = Bit(u, 6) /\ Bit(w, 7) = Bit(u, 7)
                /\ Bit(w, 8) = Bit(u, 8) /\ Bit(w, 9) = Bit(u, 9) /\ Bit(w, 10) = Bit(u, 10)
                /\ Bit(w, 11) = Bit(u, 11) /\ Bit(w, 12) = Bit(u, 12)
         /\ LwspUImmediate(w) = LwspUImmediate(u) =>
              Bit(w, 2) = Bit(u, 2) /\ Bit(w, 3) = Bit(u, 3) /\ Bit(w, 4) = Bit(u, 4)
                /\ Bit(w, 5) = Bit(u, 5) /\ Bit(w, 6) = Bit(u, 6) /\ Bit(w, 12) = Bit(u, 12)
         /\ SpImmediate(w) = SpImmediate(u) =>
              Bit(w, 2) = Bit(u, 2) /\ Bit(w, 3) = Bit(u, 3) /\ Bit(w, 4) = Bit(u, 4)
                /\ Bit(w, 5) = Bit(u, 5) /\ Bit(w, 6) = Bit(u, 6) /\ Bit(w, 12) = Bit(u, 12)
         /\ SpnImmediate(w) = SpnImmediate(u) =>
              Bit(w, 5) = Bit(u, 5) /\ Bit(w, 6) = Bit(u, 6) /\ Bit(w, 7) = Bit(u, 7)
                /\ Bit(w, 8) = Bit(u, 8) /\ Bit(w, 9) = Bit(u, 9) /\ Bit(w, 10) = Bit(u, 10)
                /\ Bit(w, 11) = Bit(u, 11) /\ Bit(w, 12) = Bit(u, 12)
         /\ SwUImmediate(w) = SwUImmediate(u) =>
              Bit(w, 5) = Bit(u, 5) /\ Bit(w, 6) = Bit(u, 6) /\ Bit(w, 10) = Bit(u, 10)
                /\ Bit(w, 11) = Bit(u, 11) /\ Bit(w, 12) = Bit(u, 12)
         /\ SwspUImmediate(w) = SwspUImmediate(u) =>
              Bit(w, 7) = Bit(u, 7) /\ Bit(w, 8) = Bit(u, 8) /\ Bit(w, 9) = Bit(u, 9)
                /\ Bit(w, 10) = Bit(u, 10) /\ Bit(w, 11) = Bit(u, 11)
                /\ Bit(w, 12) = Bit(u, 12)
         /\ UImmediate(w) = UImmediate(u) =>
              Bit(w, 2) = Bit(u, 2) /\ Bit(w, 3) = Bit(u, 3) /\ Bit(w, 4) = Bit(u, 4)
                /\ Bit(w, 5) = Bit(u, 5) /\ Bit(w, 6) = Bit(u, 6) /\ Bit(w, 12) = Bit(u, 12)
<1>1. ASSUME BImmediate(w) = BImmediate(u)
      PROVE  Bit(w, 2) = Bit(u, 2) /\ Bit(w, 3) = Bit(u, 3) /\ Bit(w, 4) = Bit(u, 4)
               /\ Bit(w, 5) = Bit(u, 5) /\ Bit(w, 6) = Bit(u, 6) /\ Bit(w, 10) = Bit(u, 10)
               /\ Bit(w, 11) = Bit(u, 11) /\ Bit(w, 12) = Bit(u, 12)
  <2> DEFINE b2 == Bit(w, 2)  b3 == Bit(w, 3)  b4 == Bit(w, 4)  b5 == Bit(w, 5)
             b6 == Bit(w, 6)  b10 == Bit(w, 10)  b11 == Bit(w, 11)  b12 == Bit(w, 12)
             d2 == Bit(u, 2)  d3 == Bit(u, 3)  d4 == Bit(u, 4)  d5 == Bit(u, 5)
             d6 == Bit(u, 6)  d10 == Bit(u, 10)  d11 == Bit(u, 11)  d12 == Bit(u, 12)
             b == 2 * b3 + 4 * b4 + 8 * b10 + 16 * b11 + 32 * b2 + 64 * b5 + 128 * b6
                  - 256 * b12
             d == 2 * d3 + 4 * d4 + 8 * d10 + 16 * d11 + 32 * d2 + 64 * d5 + 128 * d6
                  - 256 * d12
  <2>1. BImmediate(w) = b /\ BImmediate(u) = d
    BY ShortImmediates
  <2> HIDE DEF b, d
  <2>2. b = d
    BY <1>1, <2>1
  <2>3. /\ b2 \in {0, 1} /\ d2 \in {0, 1}
        /\ b3 \in {0, 1} /\ d3 \in {0, 1}
        /\ b4 \in {0, 1} /\ d4 \in {0, 1}
        /\ b5 \in {0, 1} /\ d5 \in {0, 1}
        /\ b6 \in {0, 1} /\ d6 \in {0, 1}
        /\ b10 \in {0, 1} /\ d10 \in {0, 1}
        /\ b11 \in {0, 1} /\ d11 \in {0, 1}
        /\ b12 \in {0, 1} /\ d12 \in {0, 1}
    BY FieldBits
  <2> HIDE DEF b2, d2, b3, d3, b4, d4, b5, d5, b6, d6, b10, d10, b11, d11, b12, d12
  <2>4. b2 = d2 /\ b3 = d3 /\ b4 = d4 /\ b5 = d5 /\ b6 = d6 /\ b10 = d10 /\ b11 = d11
          /\ b12 = d12
    BY <2>2, <2>3 DEF b, d
  <2> QED
    BY <2>4 DEF b2, d2, b3, d3, b4, d4, b5, d5, b6, d6, b10, d10, b11, d11, b12, d12
<1>2. ASSUME FldUImmediate(w) = FldUImmediate(u)
      PROVE  Bit(w, 5) = Bit(u, 5) /\ Bit(w, 6) = Bit(u, 6) /\ Bit(w, 10) = Bit(u, 10)
               /\ Bit(w, 11) = Bit(u, 11) /\ Bit(w, 12) = Bit(u, 12)
  <2> DEFINE b5 == Bit(w, 5)  b6 == Bit(w, 6)  b10 == Bit(w, 10)  b11 == Bit(w, 11)
             b12 == Bit(w, 12)
             d5 == Bit(u, 5)  d6 == Bit(u, 6)  d10 == Bit(u, 10)  d11 == Bit(u, 11)
             d12 == Bit(u, 12)
             b == 8 * b10 + 16 * b11 + 32 * b12 + 64 * b5 + 128 * b6
             d == 8 * d10 + 16 * d11 + 32 * d12 + 64 * d5 + 128 * d6
  <2>1. FldUImmediate(w) = b /\ FldUImmediate(u) = d
    BY ShortImmediates
  <2> HIDE DEF b, d
  <2>2. b = d
    BY <1>2, <2>1
  <2>3. /\ b5 \in {0, 1} /\ d5 \in {0, 1}
        /\ b6 \in {0, 1} /\ d6 \in {0, 1}
        /\ b10 \in {0, 1} /\ d10 \in {0, 1}
        /\ b11 \in {0, 1} /\ d11 \in {0, 1}
        /\ b12 \in {0, 1} /\ d12 \in {0, 1}
    BY FieldBits
  <2> HIDE DEF b5, d5, b6, d6, b10, d10, b11, d11, b12, d12
  <2>4. b5 = d5 /\ b6 = d6 /\ b10 = d10 /\ b11 = d11 /\ b12 = d12
    BY <2>2, <2>3 DEF b, d
  <2> QED
    BY <2>4 DEF b5, d5, b6, d6, b10, d10, b11, d11, b12, d12
<1>3. ASSUME FldspUImmediate(w) = FldspUImmediate(u)
      PROVE  Bit(w, 2) = Bit(u, 2) /\ Bit(w, 3) = Bit(u, 3) /\ Bit(w, 4) = Bit(u, 4)
               /\ Bit(w, 5) = Bit(u, 5) /\ Bit(w, 6) = Bit(u, 6) /\ Bit(w, 12) = Bit(u, 12)
  <2> DEFINE b2 == Bit(w, 2)  b3 == Bit(w, 3)  b4 == Bit(w, 4)  b5 == Bit(w, 5)
             b6 == Bit(w, 6)  b12 == Bit(w, 12)
             d2 == Bit(u, 2)  d3 == Bit(u, 3)  d4 == Bit(u, 4)  d5 == Bit(u, 5)
             d6 == Bit(u, 6)  d12 == Bit(u, 12)
             b == 8 * b5 + 16 * b6 + 32 * b12 + 64 * b2 + 128 * b3 + 256 * b4
             d == 8 * d5 + 16 * d6 + 32 * d12 + 64 * d2 + 128 * d3 + 256 * d4
  <2>1. FldspUImmediate(w) = b /\ FldspUImmediate(u) = d
    BY ShortImmediates
  <2> HIDE DEF b, d
  <2>2. b = d
    BY <1>3, <2>1
  <2>3. /\ b2 \in {0, 1} /\ d2 \in {0, 1}
        /\ b3 \in {0, 1} /\ d3 \in {0, 1}
        /\ b4 \in {0, 1} /\ d4 \in {0, 1}
        /\ b5 \in {0, 1} /\ d5 \in {0, 1}
        /\ b6 \in {0, 1} /\ d6 \in {0, 1}
        /\ b12 \in {0, 1} /\ d12 \in {0, 1}
    BY FieldBits
  <2> HIDE DEF b2, d2, b3, d3, b4, d4, b5, d5, b6, d6, b12, d12
  <2>4. b2 = d2 /\ b3 = d3 /\ b4 = d4 /\ b5 = d5 /\ b6 = d6 /\ b12 = d12
    BY <2>2, <2>3 DEF b, d
  <2> QED
    BY <2>4 DEF b2, d2, b3, d3, b4, d4, b5, d5, b6, d6, b12, d12
<1>4. ASSUME FsdspUImmediate(w) = FsdspUImmediate(u)
      PROVE  Bit(w, 7) = Bit(u, 7) /\ Bit(w, 8) = Bit(u, 8) /\ Bit(w, 9) = Bit(u, 9)
               /\ Bit(w, 10) = Bit(u, 10) /\ Bit(w, 11) = Bit(u, 11)
               /\ Bit(w, 12) = Bit(u, 12)
  <2> DEFINE b7 == Bit(w, 7)  b8 == Bit(w, 8)  b9 == Bit(w, 9)  b10 == Bit(w, 10)
             b11 == Bit(w, 11)  b12 == Bit(w, 12)
             d7 == Bit(u, 7)  d8 == Bit(u, 8)  d9 == Bit(u, 9)  d10 == Bit(u, 10)
             d11 == Bit(u, 11)  d12 == Bit(u, 12)
             b == 8 * b10 + 16 * b11 + 32 * b12 + 64 * b7 + 128 * b8 + 256 * b9
             d == 8 * d10 + 16 * d11 + 32 * d12 + 64 * d7 + 128 * d8 + 256 * d9
  <2>1. FsdspUImmediate(w) = b /\ FsdspUImmediate(u) = d
    BY ShortImmediates
  <2> HIDE DEF b, d
  <2>2. b = d
    BY <1>4, <2>1
  <2>3. /\ b7 \in {0, 1} /\ d7 \in {0, 1}
        /\ b8 \in {0, 1} /\ d8 \in {0, 1}
        /\ b9 \in {0, 1} /\ d9 \in {0, 1}
        /\ b10 \in {0, 1} /\ d10 \in {0, 1}
        /\ b11 \in {0, 1} /\ d11 \in {0, 1}
        /\ b12 \in {0, 1} /\ d12 \in {0, 1}
    BY FieldBits
  <2> HIDE DEF b7, d7, b8, d8, b9, d9, b10, d10, b11, d11, b12, d12
  <2>4. b7 = d7 /\ b8 = d8 /\ b9 = d9 /\ b10 = d10 /\ b11 = d11 /\ b12 = d12
    BY <2>2, <2>3 DEF b, d
  <2> QED
    BY <2>4 DEF b7, d7, b8, d8, b9, d9, b10, d10, b11, d11, b12, d12
<1>5. ASSUME Immediate(w) = Immediate(u)
      PROVE  Bit(w, 2) = Bit(u, 2) /\ Bit(w, 3) = Bit(u, 3) /\ Bit(w, 4) = Bit(u, 4)
               /\ Bit(w, 5) = Bit(u, 5) /\ Bit(w, 6) = Bit(u, 6) /\ Bit(w, 12) = Bit(u, 12)
  <2> DEFINE b2 == Bit(w, 2)  b3 == Bit(w, 3)  b4 == Bit(w, 4)  b5 == Bit(w, 5)
             b6 == Bit(w, 6)  b12 == Bit(w, 12)
             d2 == Bit(u, 2)  d3 == Bit(u, 3)  d4 == Bit(u, 4)  d5 == Bit(u, 5)
             d6 == Bit(u, 6)  d12 == Bit(u, 12)
             b == b2 + 2 * b3 + 4 * b4 + 8 * b5 + 16 * b6 - 32 * b12
             d == d2 + 2 * d3 + 4 * d4 + 8 * d5 + 16 * d6 - 32 * d12
  <2>1. Immediate(w) = b /\ Immediate(u) = d
    BY ShortImmediates
  <2> HIDE DEF b, d
  <2>2. b = d
    BY <1>5, <2>1
  <2>3. /\ b2 \in {0, 1} /\ d2 \in {0, 1}
        /\ b3 \in {0, 1} /\ d3 \in {0, 1}
        /\ b4 \in {0, 1} /\ d4 \in {0, 1}
        /\ b5 \in {0, 1} /\ d5 \in {0, 1}
        /\ b6 \in {0, 1} /\ d6 \in {0, 1}
        /\ b12 \in {0, 1} /\ d12 \in {0, 1}
    BY FieldBits
  <2> HIDE DEF b2, d2, b3, d3, b4, d4, b5, d5, b6, d6, b12, d12
  <2>4. b2 = d2 /\ b3 = d3 /\ b4 = d4 /\ b5 = d5 /\ b6 = d6 /\ b12 = d12
    BY <2>2, <2>3 DEF b, d
  <2> QED
    BY <2>4 DEF b2, d2, b3, d3, b4, d4, b5, d5, b6, d6, b12, d12
<1>6. ASSUME JImmediate(w) = JImmediate(u)
      PROVE  Bit(w, 2) = Bit(u, 2) /\ Bit(w, 3) = Bit(u, 3) /\ Bit(w, 4) = Bit(u, 4)
               /\ Bit(w, 5) = Bit(u, 5) /\ Bit(w, 6) = Bit(u, 6) /\ Bit(w, 7) = Bit(u, 7)
               /\ Bit(w, 8) = Bit(u, 8) /\ Bit(w, 9) = Bit(u, 9) /\ Bit(w, 10) = Bit(u, 10)
               /\ Bit(w, 11) = Bit(u, 11) /\ Bit(w, 12) = Bit(u, 12)
  <2> DEFINE b2 == Bit(w, 2)  b3 == Bit(w, 3)  b4 == Bit(w, 4)  b5 == Bit(w, 5)
             b6 == Bit(w, 6)  b7 == Bit(w, 7)  b8 == Bit(w, 8)  b9 == Bit(w, 9)
             b10 == Bit(w, 10)  b11 == Bit(w, 11)  b12 == Bit(w, 12)
             d2 == Bit(u, 2)  d3 == Bit(u, 3)  d4 == Bit(u, 4)  d5 == Bit(u, 5)
             d6 == Bit(u, 6)  d7 == Bit(u, 7)  d8 == Bit(u, 8)  d9 == Bit(u, 9)
             d10 == Bit(u, 10)  d11 == Bit(u, 11)  d12 == Bit(u, 12)
             b == 2 * b3 + 4 * b4 + 8 * b5 + 16 * b11 + 32 * b2 + 64 * b7 + 128 * b6
                  + 256 * b9 + 512 * b10 + 1024 * b8 - 2048 * b12
             d == 2 * d3 + 4 * d4 + 8 * d5 + 16 * d11 + 32 * d2 + 64 * d7 + 128 * d6
                  + 256 * d9 + 512 * d10 + 1024 * d8 - 2048 * d12
  <2>1. JImmediate(w) = b /\ JImmediate(u) = d
    BY ShortImmediates
  <2> HIDE DEF b, d
  <2>2. b = d
    BY <1>6, <2>1
  <2>3. /\ b2 \in {0, 1} /\ d2 \in {0, 1}
        /\ b3 \in {0, 1} /\ d3 \in {0, 1}
        /\ b4 \in {0, 1} /\ d4 \in {0, 1}
        /\ b5 \in {0, 1} /\ d5 \in {0, 1}
        /\ b6 \in {0, 1} /\ d6 \in {0, 1}
        /\ b7 \in {0, 1} /\ d7 \in {0, 1}
        /\ b8 \in {0, 1} /\ d8 \in {0, 1}
        /\ b9 \in {0, 1} /\ d9 \in {0, 1}
        /\ b10 \in {0, 1} /\ d10 \in {0, 1}
        /\ b11 \in {0, 1} /\ d11 \in {0, 1}
        /\ b12 \in {0, 1} /\ d12 \in {0, 1}
    BY FieldBits
  <2> HIDE DEF b2, d2, b3, d3, b4, d4, b5, d5, b6, d6, b7, d7, b8, d8, b9, d9, b10, d10,
               b11, d11, b12, d12
  <2>4. b2 = d2 /\ b3 = d3 /\ b4 = d4 /\ b5 = d5 /\ b6 = d6 /\ b7 = d7 /\ b8 = d8 /\ b9 = d9
          /\ b10 = d10 /\ b11 = d11 /\ b12 = d12
    BY <2>2, <2>3 DEF b, d
  <2> QED
    BY <2>4 DEF b2, d2, b3, d3, b4, d4, b5, d5, b6, d6, b7, d7, b8, d8, b9, d9, b10, d10,
               b11, d11, b12, d12
<1>7. ASSUME LwspUImmediate(w) = LwspUImmediate(u)
      PROVE  Bit(w, 2) = Bit(u, 2) /\ Bit(w, 3) = Bit(u, 3) /\ Bit(w, 4) = Bit(u, 4)
               /\ Bit(w, 5) = Bit(u, 5) /\ Bit(w, 6) = Bit(u, 6) /\ Bit(w, 12) = Bit(u, 12)
  <2> DEFINE b2 == Bit(w, 2)  b3 == Bit(w, 3)  b4 == Bit(w, 4)  b5 == Bit(w, 5)
             b6 == Bit(w, 6)  b12 == Bit(w, 12)
             d2 == Bit(u, 2)  d3 == Bit(u, 3)  d4 == Bit(u, 4)  d5 == Bit(u, 5)
             d6 == Bit(u, 6)  d12 == Bit(u, 12)
             b == 4 * b4 + 8 * b5 + 16 * b6 + 32 * b12 + 64 * b2 + 128 * b3
             d == 4 * d4 + 8 * d5 + 16 * d6 + 32 * d12 + 64 * d2 + 128 * d3
  <2>1. LwspUImmediate(w) = b /\ LwspUImmediate(u) = d
    BY ShortImmediates
  <2> HIDE DEF b, d
  <2>2. b = d
    BY <1>7, <2>1
  <2>3. /\ b2 \in {0, 1} /\ d2 \in {0, 1}
        /\ b3 \in {0, 1} /\ d3 \in {0, 1}
        /\ b4 \in {0, 1} /\ d4 \in {0, 1}
        /\ b5 \in {0, 1} /\ d5 \in {0, 1}
        /\ b6 \in {0, 1} /\ d6 \in {0, 1}
        /\ b12 \in {0, 1} /\ d12 \in {0, 1}
    BY FieldBits
  <2> HIDE DEF b2, d2, b3, d3, b4, d4, b5, d5, b6, d6, b12, d12
  <2>4. b2 = d2 /\ b3 = d3 /\ b4 = d4 /\ b5 = d5 /\ b6 = d6 /\ b12 = d12
    BY <2>2, <2>3 DEF b, d
  <2> QED
    BY <2>4 DEF b2, d2, b3, d3, b4, d4, b5, d5, b6, d6, b12, d12
<1>8. ASSUME SpImmediate(w) = SpImmediate(u)
      PROVE  Bit(w, 2) = Bit(u, 2) /\ Bit(w, 3) = Bit(u, 3) /\ Bit(w, 4) = Bit(u, 4)
               /\ Bit(w, 5) = Bit(u, 5) /\ Bit(w, 6) = Bit(u, 6) /\ Bit(w, 12) = Bit(u, 12)
  <2> DEFINE b2 == Bit(w, 2)  b3 == Bit(w, 3)  b4 == Bit(w, 4)  b5 == Bit(w, 5)
             b6 == Bit(w, 6)  b12 == Bit(w, 12)
             d2 == Bit(u, 2)  d3 == Bit(u, 3)  d4 == Bit(u, 4)  d5 == Bit(u, 5)
             d6 == Bit(u, 6)  d12 == Bit(u, 12)
             b == 16 * b6 + 32 * b2 + 64 * b5 + 128 * b3 + 256 * b4 - 512 * b12
             d == 16 * d6 + 32 * d2 + 64 * d5 + 128 * d3 + 256 * d4 - 512 * d12
  <2>1. SpImmediate(w) = b /\ SpImmediate(u) = d
    BY ShortImmediates
  <2> HIDE DEF b, d
  <2>2. b = d
    BY <1>8, <2>1
  <2>3. /\ b2 \in {0, 1} /\ d2 \in {0, 1}
        /\ b3 \in {0, 1} /\ d3 \in {0, 1}
        /\ b4 \in {0, 1} /\ d4 \in {0, 1}
        /\ b5 \in {0, 1} /\ d5 \in {0, 1}
        /\ b6 \in {0, 1} /\ d6 \in {0, 1}
        /\ b12 \in {0, 1} /\ d12 \in {0, 1}
    BY FieldBits
  <2> HIDE DEF b2, d2, b3, d3, b4, d4, b5, d5, b6, d6, b12, d12
  <2>4. b2 = d2 /\ b3 = d3 /\ b4 = d4 /\ b5 = d5 /\ b6 = d6 /\ b12 = d12
    BY <2>2, <2>3 DEF b, d
  <2> QED
    BY <2>4 DEF b2, d2, b3, d3, b4, d4, b5, d5, b6, d6, b12, d12
<1>9. ASSUME SpnImmediate(w) = SpnImmediate(u)
      PROVE  Bit(w, 5) = Bit(u, 5) /\ Bit(w, 6) = Bit(u, 6) /\ Bit(w, 7) = Bit(u, 7)
               /\ Bit(w, 8) = Bit(u, 8) /\ Bit(w, 9) = Bit(u, 9) /\ Bit(w, 10) = Bit(u, 10)
               /\ Bit(w, 11) = Bit(u, 11) /\ Bit(w, 12) = Bit(u, 12)
  <2> DEFINE b5 == Bit(w, 5)  b6 == Bit(w, 6)  b7 == Bit(w, 7)  b8 == Bit(w, 8)
             b9 == Bit(w, 9)  b10 == Bit(w, 10)  b11 == Bit(w, 11)  b12 == Bit(w, 12)
             d5 == Bit(u, 5)  d6 == Bit(u, 6)  d7 == Bit(u, 7)  d8 == Bit(u, 8)
             d9 == Bit(u, 9)  d10 == Bit(u, 10)  d11 == Bit(u, 11)  d12 == Bit(u, 12)
             b == 4 * b6 + 8 * b5 + 16 * b11 + 32 * b12 + 64 * b7 + 128 * b8 + 256 * b9
                  + 512 * b10
             d == 4 * d6 + 8 * d5 + 16 * d11 + 32 * d12 + 64 * d7 + 128 * d8 + 256 * d9
                  + 512 * d10
  <2>1. SpnImmediate(w) = b /\ SpnImmediate(u) = d
    BY ShortImmediates
  <2> HIDE DEF b, d
  <2>2. b = d
    BY <1>9, <2>1
  <2>3. /\ b5 \in {0, 1} /\ d5 \in {0, 1}
        /\ b6 \in {0, 1} /\ d6 \in {0, 1}
        /\ b7 \in {0, 1} /\ d7 \in {0, 1}
        /\ b8 \in {0, 1} /\ d8 \in {0, 1}
        /\ b9 \in {0, 1} /\ d9 \in {0, 1}
        /\ b10 \in {0, 1} /\ d10 \in {0, 1}
        /\ b11 \in {0, 1} /\ d11 \in {0, 1}
        /\ b12 \in {0, 1} /\ d12 \in {0, 1}
    BY FieldBits
  <2> HIDE DEF b5, d5, b6, d6, b7, d7, b8, d8, b9, d9, b10, d10, b11, d11, b12, d12
  <2>4. b5 = d5 /\ b6 = d6 /\ b7 = d7 /\ b8 = d8 /\ b9 = d9 /\ b10 = d10 /\ b11 = d11
          /\ b12 = d12
    BY <2>2, <2>3 DEF b, d
  <2> QED
    BY <2>4 DEF b5, d5, b6, d6, b7, d7, b8, d8, b9, d9, b10, d10, b11, d11, b12, d12
<1>10. ASSUME SwUImmediate(w) = SwUImmediate(u)
      PROVE  Bit(w, 5) = Bit(u, 5) /\ Bit(w, 6) = Bit(u, 6) /\ Bit(w, 10) = Bit(u, 10)
               /\ Bit(w, 11) = Bit(u, 11) /\ Bit(w, 12) = Bit(u, 12)
  <2> DEFINE b5 == Bit(w, 5)  b6 == Bit(w, 6)  b10 == Bit(w, 10)  b11 == Bit(w, 11)
             b12 == Bit(w, 12)
             d5 == Bit(u, 5)  d6 == Bit(u, 6)  d10 == Bit(u, 10)  d11 == Bit(u, 11)
             d12 == Bit(u, 12)
             b == 4 * b6 + 8 * b10 + 16 * b11 + 32 * b12 + 64 * b5
             d == 4 * d6 + 8 * d10 + 16 * d11 + 32 * d12 + 64 * d5
  <2>1. SwUImmediate(w) = b /\ SwUImmediate(u) = d
    BY ShortImmediates
  <2> HIDE DEF b, d
  <2>2. b = d
    BY <1>10, <2>1
  <2>3. /\ b5 \in {0, 1} /\ d5 \in {0, 1}
        /\ b6 \in {0, 1} /\ d6 \in {0, 1}
        /\ b10 \in {0, 1} /\ d10 \in {0, 1}
        /\ b11 \in {0, 1} /\ d11 \in {0, 1}
        /\ b12 \in {0, 1} /\ d12 \in {0, 1}
    BY FieldBits
  <2> HIDE DEF b5, d5, b6, d6, b10, d10, b11, d11, b12, d12
  <2>4. b5 = d5 /\ b6 = d6 /\ b10 = d10 /\ b11 = d11 /\ b12 = d12
    BY <2>2, <2>3 DEF b, d
  <2> QED
    BY <2>4 DEF b5, d5, b6, d6, b10, d10, b11, d11, b12, d12
<1>11. ASSUME SwspUImmediate(w) = SwspUImmediate(u)
      PROVE  Bit(w, 7) = Bit(u, 7) /\ Bit(w, 8) = Bit(u, 8) /\ Bit(w, 9) = Bit(u, 9)
               /\ Bit(w, 10) = Bit(u, 10) /\ Bit(w, 11) = Bit(u, 11)
               /\ Bit(w, 12) = Bit(u, 12)
  <2> DEFINE b7 == Bit(w, 7)  b8 == Bit(w, 8)  b9 == Bit(w, 9)  b10 == Bit(w, 10)
             b11 == Bit(w, 11)  b12 == Bit(w, 12)
             d7 == Bit(u, 7)  d8 == Bit(u, 8)  d9 == Bit(u, 9)  d10 == Bit(u, 10)
             d11 == Bit(u, 11)  d12 == Bit(u, 12)
             b == 4 * b9 + 8 * b10 + 16 * b11 + 32 * b12 + 64 * b7 + 128 * b8
             d == 4 * d9 + 8 * d10 + 16 * d11 + 32 * d12 + 64 * d7 + 128 * d8
  <2>1. SwspUImmediate(w) = b /\ SwspUImmediate(u) = d
    BY ShortImmediates
  <2> HIDE DEF b, d
  <2>2. b = d
    BY <1>11, <2>1
  <2>3. /\ b7 \in {0, 1} /\ d7 \in {0, 1}
        /\ b8 \in {0, 1} /\ d8 \in {0, 1}
        /\ b9 \in {0, 1} /\ d9 \in {0, 1}
        /\ b10 \in {0, 1} /\ d10 \in {0, 1}
        /\ b11 \in {0, 1} /\ d11 \in {0, 1}
        /\ b12 \in {0, 1} /\ d12 \in {0, 1}
    BY FieldBits
  <2> HIDE DEF b7, d7, b8, d8, b9, d9, b10, d10, b11, d11, b12, d12
  <2>4. b7 = d7 /\ b8 = d8 /\ b9 = d9 /\ b10 = d10 /\ b11 = d11 /\ b12 = d12
    BY <2>2, <2>3 DEF b, d
  <2> QED
    BY <2>4 DEF b7, d7, b8, d8, b9, d9, b10, d10, b11, d11, b12, d12
<1>12. ASSUME UImmediate(w) = UImmediate(u)
      PROVE  Bit(w, 2) = Bit(u, 2) /\ Bit(w, 3) = Bit(u, 3) /\ Bit(w, 4) = Bit(u, 4)
               /\ Bit(w, 5) = Bit(u, 5) /\ Bit(w, 6) = Bit(u, 6) /\ Bit(w, 12) = Bit(u, 12)
  <2> DEFINE b2 == Bit(w, 2)  b3 == Bit(w, 3)  b4 == Bit(w, 4)  b5 == Bit(w, 5)
             b6 == Bit(w, 6)  b12 == Bit(w, 12)
             d2 == Bit(u, 2)  d3 == Bit(u, 3)  d4 == Bit(u, 4)  d5 == Bit(u, 5)
             d6 == Bit(u, 6)  d12 == Bit(u, 12)
             b == b2 + 2 * b3 + 4 * b4 + 8 * b5 + 16 * b6 + 32 * b12
             d == d2 + 2 * d3 + 4 * d4 + 8 * d5 + 16 * d6 + 32 * d12
  <2>1. UImmediate(w) = b /\ UImmediate(u) = d
    BY ShortImmediates
  <2> HIDE DEF b, d
  <2>2. b = d
    BY <1>12, <2>1
  <2>3. /\ b2 \in {0, 1} /\ d2 \in {0, 1}
        /\ b3 \in {0, 1} /\ d3 \in {0, 1}
        /\ b4 \in {0, 1} /\ d4 \in {0, 1}
        /\ b5 \in {0, 1} /\ d5 \in {0, 1}
        /\ b6 \in {0, 1} /\ d6 \in {0, 1}
        /\ b12 \in {0, 1} /\ d12 \in {0, 1}
    BY FieldBits
  <2> HIDE DEF b2, d2, b3, d3, b4, d4, b5, d5, b6, d6, b12, d12
  <2>4. b2 = d2 /\ b3 = d3 /\ b4 = d4 /\ b5 = d5 /\ b6 = d6 /\ b12 = d12
    BY <2>2, <2>3 DEF b, d
  <2> QED
    BY <2>4 DEF b2, d2, b3, d3, b4, d4, b5, d5, b6, d6, b12, d12
<1> QED
  BY <1>1, <1>2, <1>3, <1>4, <1>5, <1>6, <1>7, <1>8, <1>9, <1>10, <1>11, <1>12

LEMMA ShortTell ==
  ASSUME NEW w, NEW u, WordOK(w), WordOK(u)
  PROVE  /\ Field(w, 2, 3) = Field(u, 2, 3) /\ Field(w, 7, 3) = Field(u, 7, 3)
            /\ SwUImmediate(w) = SwUImmediate(u)
              => SameBits(w, u)
         /\ Field(w, 2, 3) = Field(u, 2, 3) /\ Field(w, 7, 3) = Field(u, 7, 3)
            /\ FldUImmediate(w) = FldUImmediate(u)
              => SameBits(w, u)
         /\ Field(w, 2, 3) = Field(u, 2, 3) /\ SpnImmediate(w) = SpnImmediate(u)
              => SameBits(w, u)
         /\ Field(w, 7, 5) = Field(u, 7, 5) /\ Immediate(w) = Immediate(u)
              => SameBits(w, u)
         /\ Field(w, 7, 5) = Field(u, 7, 5) /\ UImmediate(w) = UImmediate(u)
              => SameBits(w, u)
         /\ Field(w, 7, 5) = Field(u, 7, 5) /\ SpImmediate(w) = SpImmediate(u)
              => SameBits(w, u)
         /\ JImmediate(w) = JImmediate(u)
              => SameBits(w, u)
         /\ Field(w, 7, 3) = Field(u, 7, 3) /\ BImmediate(w) = BImmediate(u)
              => SameBits(w, u)
         /\ Field(w, 7, 5) = Field(u, 7, 5) /\ LwspUImmediate(w) = LwspUImmediate(u)
              => SameBits(w, u)
         /\ Field(w, 7, 5) = Field(u, 7, 5) /\ FldspUImmediate(w) = FldspUImmediate(u)
              => SameBits(w, u)
         /\ Field(w, 2, 5) = Field(u, 2, 5) /\ SwspUImmediate(w) = SwspUImmediate(u)
              => SameBits(w, u)
         /\ Field(w, 2, 5) = Field(u, 2, 5) /\ FsdspUImmediate(w) = FsdspUImmediate(u)
              => SameBits(w, u)
         /\ Field(w, 7, 3) = Field(u, 7, 3) /\ Field(w, 10, 2) = Field(u, 10, 2)
            /\ UImmediate(w) = UImmediate(u)
              => SameBits(w, u)
         /\ Field(w, 7, 3) = Field(u, 7, 3) /\ Field(w, 10, 2) = Field(u, 10, 2)
            /\ Immediate(w) = Immediate(u)
              => SameBits(w, u)
         /\ Field(w, 2, 5) = Field(u, 2, 5) /\ Field(w, 7, 5) = Field(u, 7, 5)
            /\ Bit(w, 12) = Bit(u, 12)
              => SameBits(w, u)
         /\ Field(w, 2, 3) = Field(u, 2, 3) /\ Field(w, 5, 2) = Field(u, 5, 2)
            /\ Field(w, 7, 3) = Field(u, 7, 3) /\ Field(w, 10, 2) = Field(u, 10, 2)
            /\ Bit(w, 12) = Bit(u, 12)
              => SameBits(w, u)
<1>1. (Bit(w, 2) = Bit(u, 2) /\ Bit(w, 3) = Bit(u, 3) /\ Bit(w, 4) = Bit(u, 4)
        /\ Bit(w, 5) = Bit(u, 5) /\ Bit(w, 6) = Bit(u, 6) /\ Bit(w, 7) = Bit(u, 7)
        /\ Bit(w, 8) = Bit(u, 8) /\ Bit(w, 9) = Bit(u, 9) /\ Bit(w, 10) = Bit(u, 10)
        /\ Bit(w, 11) = Bit(u, 11) /\ Bit(w, 12) = Bit(u, 12))
        => SameBits(w, u)
  BY DEF SameBits
<1>2. ASSUME Field(w, 2, 3) = Field(u, 2, 3), Field(w, 7, 3) = Field(u, 7, 3),
             SwUImmediate(w) = SwUImmediate(u)
      PROVE  SameBits(w, u)
  BY <1>1, <1>2, FieldsSplit, ImmediatesSplit
<1>3. ASSUME Field(w, 2, 3) = Field(u, 2, 3), Field(w, 7, 3) = Field(u, 7, 3),
             FldUImmediate(w) = FldUImmediate(u)
      PROVE  SameBits(w, u)
  BY <1>1, <1>3, FieldsSplit, ImmediatesSplit
<1>4. ASSUME Field(w, 2, 3) = Field(u, 2, 3), SpnImmediate(w) = SpnImmediate(u)
      PROVE  SameBits(w, u)
  BY <1>1, <1>4, FieldsSplit, ImmediatesSplit
<1>5. ASSUME Field(w, 7, 5) = Field(u, 7, 5), Immediate(w) = Immediate(u)
      PROVE  SameBits(w, u)
  BY <1>1, <1>5, FieldsSplit, ImmediatesSplit
<1>6. ASSUME Field(w, 7, 5) = Field(u, 7, 5), UImmediate(w) = UImmediate(u)
      PROVE  SameBits(w, u)
  BY <1>1, <1>6, FieldsSplit, ImmediatesSplit
<1>7. ASSUME Field(w, 7, 5) = Field(u, 7, 5), SpImmediate(w) = SpImmediate(u)
      PROVE  SameBits(w, u)
  BY <1>1, <1>7, FieldsSplit, ImmediatesSplit
<1>8. ASSUME JImmediate(w) = JImmediate(u)
      PROVE  SameBits(w, u)
  BY <1>1, <1>8, FieldsSplit, ImmediatesSplit
<1>9. ASSUME Field(w, 7, 3) = Field(u, 7, 3), BImmediate(w) = BImmediate(u)
      PROVE  SameBits(w, u)
  BY <1>1, <1>9, FieldsSplit, ImmediatesSplit
<1>10. ASSUME Field(w, 7, 5) = Field(u, 7, 5), LwspUImmediate(w) = LwspUImmediate(u)
      PROVE  SameBits(w, u)
  BY <1>1, <1>10, FieldsSplit, ImmediatesSplit
<1>11. ASSUME Field(w, 7, 5) = Field(u, 7, 5), FldspUImmediate(w) = FldspUImmediate(u)
      PROVE  SameBits(w, u)
  BY <1>1, <1>11, FieldsSplit, ImmediatesSplit
<1>12. ASSUME Field(w, 2, 5) = Field(u, 2, 5), SwspUImmediate(w) = SwspUImmediate(u)
      PROVE  SameBits(w, u)
  BY <1>1, <1>12, FieldsSplit, ImmediatesSplit
<1>13. ASSUME Field(w, 2, 5) = Field(u, 2, 5), FsdspUImmediate(w) = FsdspUImmediate(u)
      PROVE  SameBits(w, u)
  BY <1>1, <1>13, FieldsSplit, ImmediatesSplit
<1>14. ASSUME Field(w, 7, 3) = Field(u, 7, 3), Field(w, 10, 2) = Field(u, 10, 2),
             UImmediate(w) = UImmediate(u)
      PROVE  SameBits(w, u)
  BY <1>1, <1>14, FieldsSplit, ImmediatesSplit
<1>15. ASSUME Field(w, 7, 3) = Field(u, 7, 3), Field(w, 10, 2) = Field(u, 10, 2),
             Immediate(w) = Immediate(u)
      PROVE  SameBits(w, u)
  BY <1>1, <1>15, FieldsSplit, ImmediatesSplit
<1>16. ASSUME Field(w, 2, 5) = Field(u, 2, 5), Field(w, 7, 5) = Field(u, 7, 5),
             Bit(w, 12) = Bit(u, 12)
      PROVE  SameBits(w, u)
  BY <1>1, <1>16, FieldsSplit
<1>17. ASSUME Field(w, 2, 3) = Field(u, 2, 3), Field(w, 5, 2) = Field(u, 5, 2),
             Field(w, 7, 3) = Field(u, 7, 3), Field(w, 10, 2) = Field(u, 10, 2),
             Bit(w, 12) = Bit(u, 12)
      PROVE  SameBits(w, u)
  BY <1>1, <1>17, FieldsSplit
<1> QED
  BY <1>2, <1>3, <1>4, <1>5, <1>6, <1>7, <1>8, <1>9, <1>10, <1>11, <1>12, <1>13,
     <1>14, <1>15,
     <1>16, <1>17

(* What a compressed instruction has been made of.                         *)
At(w, q, f3) == Field(w, 0, 2) = q /\ Field(w, 13, 3) = f3
AddiMade(w, i) ==
  \/ At(w, 0, 0) /\ i.rd = Field(w, 2, 3) + 8 /\ i.rs1 = 2 /\ i.imm = SpnImmediate(w)
  \/ At(w, 1, 0) /\ i.rd = Field(w, 7, 5) /\ i.rs1 = i.rd /\ i.rd # 0 /\ i.imm = Immediate(w)
  \/ At(w, 1, 2) /\ i.rd = Field(w, 7, 5) /\ i.rs1 = 0 /\ i.rd # 0 /\ i.imm = Immediate(w)
  \/ At(w, 1, 3) /\ i.rd = Field(w, 7, 5) /\ i.rd = 2 /\ i.rs1 = 2 /\ i.imm = SpImmediate(w)
LoadMade(w, i, f3, imm, spImm) ==
  \/ /\ At(w, 0, f3) /\ i.rd = Field(w, 2, 3) + 8 /\ i.rs1 = Field(w, 7, 3) + 8
     /\ i.imm = imm
  \/ At(w, 2, f3) /\ i.rd = Field(w, 7, 5) /\ i.rs1 = 2 /\ i.imm = spImm
StoreMade(w, i, f3, imm, spImm) ==
  \/ /\ At(w, 0, f3) /\ i.rs2 = Field(w, 2, 3) + 8 /\ i.rs1 = Field(w, 7, 3) + 8
     /\ i.imm = imm
  \/ At(w, 2, f3) /\ i.rs2 = Field(w, 2, 5) /\ i.rs1 = 2 /\ i.imm = spImm
PairMade(w, i, wide, which) ==
  /\ At(w, 1, 4) /\ Field(w, 10, 2) = 3 /\ Bit(w, 12) = wide /\ Field(w, 5, 2) = which
  /\ i.rd = Field(w, 7, 3) + 8 /\ i.rs2 = Field(w, 2, 3) + 8
GroupMade(w, i, group, imm) ==
  /\ At(w, 1, 4) /\ Field(w, 10, 2) = group /\ i.rd = Field(w, 7, 3) + 8 /\ i.imm = imm
LongMade(w, i, q, f3, imm) == At(w, q, f3) /\ i.rd = Field(w, 7, 5) /\ i.imm = imm
BranchMade(w, i, f3) == At(w, 1, f3) /\ i.rs1 = Field(w, 7, 3) + 8 /\ i.imm = BImmediate(w)
JumpMade(w, i) ==
  At(w, 2, 4) /\ Field(w, 2, 5) = 0 /\ i.rd = Bit(w, 12) /\ i.rs1 = Field(w, 7, 5)
BreakMade(w) == At(w, 2, 4) /\ Field(w, 2, 5) = 0 /\ Field(w, 7, 5) = 0 /\ Bit(w, 12) = 1
AddMade(w, i) ==
  /\ At(w, 2, 4) /\ i.rs2 = Field(w, 2, 5) /\ i.rd = Field(w, 7, 5) /\ i.rd # 0
  /\ i.rs1 = IF Bit(w, 12) = 1 THEN i.rd ELSE 0

ShortMade(o, w, i) ==
  \/ o = "ADDI" /\ AddiMade(w, i)
  \/ o = "ADDIW" /\ LongMade(w, i, 1, 1, Immediate(w))
  \/ o = "LUI" /\ LongMade(w, i, 1, 3, Immediate(w) * 4096)
  \/ o = "SLLI" /\ LongMade(w, i, 2, 0, UImmediate(w))
  \/ o = "JAL" /\ At(w, 1, 5) /\ i.imm = JImmediate(w)
  \/ o = "BEQ" /\ BranchMade(w, i, 6)
  \/ o = "BNE" /\ BranchMade(w, i, 7)
  \/ o = "LW" /\ LoadMade(w, i, 2, SwUImmediate(w), LwspUImmediate(w))
  \/ o = "LD" /\ LoadMade(w, i, 3, FldUImmediate(w), FldspUImmediate(w))
  \/ o = "SW" /\ StoreMade(w, i, 6, SwUImmediate(w), SwspUImmediate(w))
  \/ o = "SD" /\ StoreMade(w, i, 7, FldUImmediate(w), FsdspUImmediate(w))
  \/ o = "SRLI" /\ GroupMade(w, i, 0, UImmediate(w))
  \/ o = "SRAI" /\ GroupMade(w, i, 1, UImmediate(w))
  \/ o = "ANDI" /\ GroupMade(w, i, 2, Immediate(w))
  \/ o = "SUB" /\ PairMade(w, i, 0, 0)
  \/ o = "XOR" /\ PairMade(w, i, 0, 1)
  \/ o = "OR" /\ PairMade(w, i, 0, 2)
  \/ o = "AND" /\ PairMade(w, i, 0, 3)
  \/ o = "SUBW" /\ PairMade(w, i, 1, 0)
  \/ o = "ADDW" /\ PairMade(w, i, 1, 1)
  \/ o = "JALR" /\ JumpMade(w, i)
  \/ o = "EBREAK" /\ BreakMade(w)
  \/ o = "ADD" /\ AddMade(w, i)

LEMMA OnlyForm ==
  ASSUME NEW op \in {"ADDI", "ADDIW", "LUI", "SLLI", "JAL", "BEQ", "BNE", "SW", "SD", "SRLI",
                     "SRAI", "ANDI", "SUB", "XOR", "OR", "AND", "SUBW", "ADDW", "EBREAK", "ADD"}
  PROVE  Unversioned(op) = op
<1> DEFINE of(o) == op \in {Versioned[o][1], Versioned[o][2]}
<1>1. \A o \in DOMAIN Versioned : ~of(o)
  BY DEF Versioned
<1>2. Unversioned(op) = IF \E o \in DOMAIN Versioned : of(o)
                        THEN CHOOSE o \in DOMAIN Versioned : of(o) ELSE op
  BY DEF Unversioned
<1> HIDE DEF of
<1> QED
  BY <1>1, <1>2

LEMMA IShort ==
  ASSUME NEW op, NEW rd, NEW rs1, NEW imm, NEW i, i = Short(Itype(op, rd, rs1, imm))
  PROVE  i.op = op /\ i.rd = rd /\ i.rs1 = rs1 /\ i.imm = imm
BY DEF Short, Itype, Instruction

LEMMA SShort ==
  ASSUME NEW op, NEW rs1, NEW rs2, NEW imm, NEW i, i = Short(Stype(op, imm, rs1, rs2))
  PROVE  i.op = op /\ i.rs1 = rs1 /\ i.rs2 = rs2 /\ i.imm = imm
BY DEF Short, Stype, Instruction

LEMMA UShort ==
  ASSUME NEW op, NEW rd, NEW imm, NEW i, i = Short(Utype(op, rd, imm))
  PROVE  i.op = op /\ i.rd = rd /\ i.imm = imm
BY DEF Short, Utype, Instruction

LEMMA RShort ==
  ASSUME NEW op, NEW rd, NEW rs1, NEW rs2, NEW i, i = Short(Rtype(op, rd, rs1, rs2))
  PROVE  i.op = op /\ i.rd = rd /\ i.rs1 = rs1 /\ i.rs2 = rs2
BY DEF Short, Rtype, Instruction

LEMMA BlankShort ==
  ASSUME NEW op, NEW i, i = Short(BlankInstruction(op))
  PROVE  i.op = op
BY DEF Short, BlankInstruction, Blank, Instruction

LEMMA WholeUImmediate ==
  ASSUME NEW w, WordOK(w)
  PROVE  UImmediate(w) % 64 = UImmediate(w)
<1> DEFINE n == UImmediate(w)
<1>1. n \in 0 .. 63
  <2>1. /\ Bit(w, 2) \in {0, 1} /\ Bit(w, 3) \in {0, 1} /\ Bit(w, 4) \in {0, 1}
        /\ Bit(w, 5) \in {0, 1} /\ Bit(w, 6) \in {0, 1} /\ Bit(w, 12) \in {0, 1}
    BY FieldBits
  <2>2. n = Bit(w, 2) + 2 * Bit(w, 3) + 4 * Bit(w, 4) + 8 * Bit(w, 5) + 16 * Bit(w, 6)
              + 32 * Bit(w, 12)
    BY ShortImmediates
  <2> HIDE DEF n
  <2> QED
    BY <2>1, <2>2
<1> HIDE DEF n
<1>2. n % 64 = n
  BY <1>1
<1> QED
  BY <1>2 DEF n

LEMMA Quadrant0Makes ==
  ASSUME NEW w, WordOK(w), Field(w, 0, 2) = 0, NEW v, NEW j \in Quadrant0(w, v, TRUE)
  PROVE  ShortMade(Unversioned(Short(j).op), w, Short(j))
<1> DEFINE f3 == Field(w, 13, 3)  rd == Field(w, 2, 3) + 8  rs1 == Field(w, 7, 3) + 8
           i == Short(j)
<1>1. f3 \in {0, 2, 3, 6, 7}
  BY DEF Quadrant0
<1>2. CASE f3 = 0
  <2>1. j = Itype("ADDI", rd, 2, SpnImmediate(w))
    BY <1>2 DEF Quadrant0, CompactRegisterNumber, SP, SpnImmediate
  <2>2. i.op = "ADDI" /\ i.rd = rd /\ i.rs1 = 2 /\ i.imm = SpnImmediate(w)
    BY <2>1, IShort
  <2>3. AddiMade(w, i)
    BY <1>2, <2>2 DEF AddiMade, At
  <2> QED
    BY <2>2, <2>3, OnlyForm DEF ShortMade
<1>3. CASE f3 = 2
  <2>1. j = Itype(OfVersion("LW", v), rd, rs1, SwUImmediate(w))
    BY <1>3 DEF Quadrant0, CompactRegisterNumber
  <2>2. i.op = OfVersion("LW", v) /\ i.rd = rd /\ i.rs1 = rs1 /\ i.imm = SwUImmediate(w)
    BY <2>1, IShort
  <2>3. Unversioned(i.op) = "LW"
    BY <2>2, UnversionedIs, FormsAre
  <2> QED
    BY <1>3, <2>2, <2>3 DEF ShortMade, LoadMade, At
<1>4. CASE f3 = 3
  <2>1. j = Itype(OfVersion("LD", v), rd, rs1, FldUImmediate(w))
    BY <1>4 DEF Quadrant0, CompactRegisterNumber
  <2>2. i.op = OfVersion("LD", v) /\ i.rd = rd /\ i.rs1 = rs1 /\ i.imm = FldUImmediate(w)
    BY <2>1, IShort
  <2>3. Unversioned(i.op) = "LD"
    BY <2>2, UnversionedIs, FormsAre
  <2> QED
    BY <1>4, <2>2, <2>3 DEF ShortMade, LoadMade, At
<1>5. CASE f3 = 6
  <2>1. j = Stype("SW", SwUImmediate(w), rs1, rd)
    BY <1>5 DEF Quadrant0, CompactRegisterNumber
  <2>2. i.op = "SW" /\ i.rs1 = rs1 /\ i.rs2 = rd /\ i.imm = SwUImmediate(w)
    BY <2>1, SShort
  <2>3. Unversioned(i.op) = "SW"
    BY <2>2, OnlyForm
  <2> QED
    BY <1>5, <2>2, <2>3 DEF ShortMade, StoreMade, At
<1>6. CASE f3 = 7
  <2>1. j = Stype("SD", FldUImmediate(w), rs1, rd)
    BY <1>6 DEF Quadrant0, CompactRegisterNumber
  <2>2. i.op = "SD" /\ i.rs1 = rs1 /\ i.rs2 = rd /\ i.imm = FldUImmediate(w)
    BY <2>1, SShort
  <2>3. Unversioned(i.op) = "SD"
    BY <2>2, OnlyForm
  <2> QED
    BY <1>6, <2>2, <2>3 DEF ShortMade, StoreMade, At
<1> QED
  BY <1>1, <1>2, <1>3, <1>4, <1>5, <1>6

LEMMA ArithmeticMakes ==
  ASSUME NEW w, WordOK(w), At(w, 1, 4), NEW j \in CompactArithmetic(w, TRUE), j # Nop
  PROVE  ShortMade(Unversioned(Short(j).op), w, Short(j))
<1> DEFINE rd == Field(w, 7, 3) + 8  rs2 == Field(w, 2, 3) + 8
           wide == Field(w, 12, 1)  group == Field(w, 10, 2)  which == Field(w, 5, 2)
           i == Short(j)
<1>1. group \in {0, 1, 2, 3} /\ which \in {0, 1, 2, 3} /\ Bit(w, 12) = wide /\ wide \in {0, 1}
  <2>1. /\ Bit(w, 5) \in {0, 1} /\ Bit(w, 6) \in {0, 1} /\ Bit(w, 10) \in {0, 1}
        /\ Bit(w, 11) \in {0, 1} /\ Bit(w, 12) \in {0, 1}
    BY FieldBits
  <2> QED
    BY <2>1, FieldBits DEF Bit
<1> DEFINE first == <<"SUB", "XOR", "OR", "AND">>[which + 1]
           second == <<"SUBW", "ADDW">>[which + 1]
<1>2. ~(group \in {0, 1} /\ wide = 0 /\ which = 0 /\ Field(w, 2, 3) = 0)
  <2> SUFFICES ASSUME group \in {0, 1}, wide = 0, which = 0, Field(w, 2, 3) = 0
               PROVE  j = Nop
    OBVIOUS
  <2>1. group # 2 /\ group # 3 /\ wide # 1
    OBVIOUS
  <2>2. UImmediate(w) = 0
    <3>1. /\ Bit(w, 2) \in {0, 1} /\ Bit(w, 3) \in {0, 1} /\ Bit(w, 4) \in {0, 1}
          /\ Bit(w, 5) \in {0, 1} /\ Bit(w, 6) \in {0, 1}
      BY FieldBits
    <3>2. Bit(w, 2) = 0 /\ Bit(w, 3) = 0 /\ Bit(w, 4) = 0 /\ Bit(w, 5) = 0 /\ Bit(w, 6) = 0
      BY <3>1, FieldBits
    <3> QED
      BY <1>1, <3>2, ShortImmediates
  <2> QED
    BY <2>1, <2>2, Zenon DEF CompactArithmetic
<1>3. CASE group = 0
  <2>1. group # 3 /\ group # 1 /\ group # 2
    BY <1>3
  <2>2. j = Itype("SRLI", rd, rd, UImmediate(w) % 64)
    BY <1>2, <1>3, <2>1, Zenon DEF CompactArithmetic, CompactRegisterNumber
  <2>3. i.op = "SRLI" /\ i.rd = rd /\ i.imm = UImmediate(w)
    BY <2>2, IShort, WholeUImmediate
  <2>4. Unversioned(i.op) = "SRLI"
    BY <2>3, OnlyForm
  <2> QED
    BY <1>3, <2>3, <2>4 DEF ShortMade, GroupMade
<1>4. CASE group = 1
  <2>1. group # 3 /\ group # 0 /\ group # 2
    BY <1>4
  <2>2. j = Itype("SRAI", rd, rd, UImmediate(w) % 64)
    BY <1>2, <1>4, <2>1, Zenon DEF CompactArithmetic, CompactRegisterNumber
  <2>3. i.op = "SRAI" /\ i.rd = rd /\ i.imm = UImmediate(w)
    BY <2>2, IShort, WholeUImmediate
  <2>4. Unversioned(i.op) = "SRAI"
    BY <2>3, OnlyForm
  <2> QED
    BY <1>4, <2>3, <2>4 DEF ShortMade, GroupMade
<1>5. CASE group = 2
  <2>1. group # 3 /\ group # 0 /\ group # 1
    BY <1>5
  <2>2. j = Itype("ANDI", rd, rd, Immediate(w))
    BY <1>2, <1>5, <2>1, Zenon DEF CompactArithmetic, CompactRegisterNumber
  <2>3. i.op = "ANDI" /\ i.rd = rd /\ i.imm = Immediate(w)
    BY <2>2, IShort
  <2>4. Unversioned(i.op) = "ANDI"
    BY <2>3, OnlyForm
  <2> QED
    BY <1>5, <2>3, <2>4 DEF ShortMade, GroupMade
<1>6. CASE group = 3 /\ wide = 0
  <2>1. j = Rtype(first, rd, rd, rs2)
    BY <1>6 DEF CompactArithmetic, CompactRegisterNumber
  <2> HIDE DEF i
  <2>2. i.op = first /\ i.rd = rd /\ i.rs2 = rs2
    <3> HIDE DEF first
    <3> QED
      BY <2>1, RShort DEF i
  <2>3. CASE which = 0
    <3>1. Unversioned(i.op) = "SUB"
      BY <2>2, <2>3, OnlyForm
    <3>2. i.rd = rd /\ i.rs2 = rs2
      BY <2>2
    <3>3. PairMade(w, i, 0, 0)
      BY <1>1, <1>6, <2>3, <3>2 DEF PairMade
    <3> QED
      BY <3>1, <3>3 DEF ShortMade, i
  <2>4. CASE which = 1
    <3>1. Unversioned(i.op) = "XOR"
      BY <2>2, <2>4, OnlyForm
    <3>2. i.rd = rd /\ i.rs2 = rs2
      BY <2>2
    <3>3. PairMade(w, i, 0, 1)
      BY <1>1, <1>6, <2>4, <3>2 DEF PairMade
    <3> QED
      BY <3>1, <3>3 DEF ShortMade, i
  <2>5. CASE which = 2
    <3>1. Unversioned(i.op) = "OR"
      BY <2>2, <2>5, OnlyForm
    <3>2. i.rd = rd /\ i.rs2 = rs2
      BY <2>2
    <3>3. PairMade(w, i, 0, 2)
      BY <1>1, <1>6, <2>5, <3>2 DEF PairMade
    <3> QED
      BY <3>1, <3>3 DEF ShortMade, i
  <2>6. CASE which = 3
    <3>1. Unversioned(i.op) = "AND"
      BY <2>2, <2>6, OnlyForm
    <3>2. i.rd = rd /\ i.rs2 = rs2
      BY <2>2
    <3>3. PairMade(w, i, 0, 3)
      BY <1>1, <1>6, <2>6, <3>2 DEF PairMade
    <3> QED
      BY <3>1, <3>3 DEF ShortMade, i
  <2> QED
    BY <1>1, <2>3, <2>4, <2>5, <2>6 DEF i
<1>7. CASE group = 3 /\ wide = 1
  <2>1. j = Rtype(second, rd, rd, rs2) /\ which \in {0, 1}
    BY <1>7 DEF CompactArithmetic, CompactRegisterNumber
  <2> HIDE DEF i
  <2>2. i.op = second /\ i.rd = rd /\ i.rs2 = rs2
    <3> HIDE DEF second
    <3> QED
      BY <2>1, RShort DEF i
  <2>3. CASE which = 0
    <3>1. Unversioned(i.op) = "SUBW"
      BY <2>2, <2>3, OnlyForm
    <3>2. i.rd = rd /\ i.rs2 = rs2
      BY <2>2
    <3>3. PairMade(w, i, 1, 0)
      BY <1>1, <1>7, <2>3, <3>2 DEF PairMade
    <3> QED
      BY <3>1, <3>3 DEF ShortMade, i
  <2>4. CASE which = 1
    <3>1. Unversioned(i.op) = "ADDW"
      BY <2>2, <2>4, OnlyForm
    <3>2. i.rd = rd /\ i.rs2 = rs2
      BY <2>2
    <3>3. PairMade(w, i, 1, 1)
      BY <1>1, <1>7, <2>4, <3>2 DEF PairMade
    <3> QED
      BY <3>1, <3>3 DEF ShortMade, i
  <2> QED
    BY <2>1, <2>3, <2>4 DEF i
<1> QED
  BY <1>1, <1>3, <1>4, <1>5, <1>6, <1>7

LEMMA Quadrant1Makes ==
  ASSUME NEW w, WordOK(w), Field(w, 0, 2) = 1, NEW v, NEW j \in Quadrant1(w, v, TRUE), j # Nop
  PROVE  ShortMade(Unversioned(Short(j).op), w, Short(j))
<1> DEFINE f3 == Field(w, 13, 3)  rd == Field(w, 7, 5)  rs1 == Field(w, 7, 3) + 8
           i == Short(j)
<1>1. f3 \in {0, 1, 2, 3, 4, 5, 6, 7}
  BY ShortParts
<1>2. j \notin Hint(v) /\ j \notin {Nop}
  BY DEF Hint
<1>3. CASE f3 = 0
  <2>1. f3 # 1 /\ f3 # 2 /\ f3 # 3 /\ f3 # 4 /\ f3 # 5 /\ f3 # 6 /\ f3 # 7
    BY <1>3
  <2>2. j = Itype("ADDI", rd, rd, Immediate(w)) /\ rd # 0
    BY <1>2, <1>3, <2>1, Zenon DEF Quadrant1, Rd
  <2>3. i.op = "ADDI" /\ i.rd = rd /\ i.rs1 = rd /\ i.imm = Immediate(w)
    BY <2>2, IShort
  <2>4. AddiMade(w, i)
    BY <1>3, <2>2, <2>3 DEF AddiMade, At
  <2> QED
    BY <2>3, <2>4, OnlyForm DEF ShortMade
<1>4. CASE f3 = 1
  <2>1. f3 # 0 /\ f3 # 2 /\ f3 # 3 /\ f3 # 4 /\ f3 # 5 /\ f3 # 6 /\ f3 # 7
    BY <1>4
  <2>2. j = Itype("ADDIW", rd, rd, Immediate(w))
    BY <1>2, <1>4, <2>1, Zenon DEF Quadrant1, Rd
  <2>3. i.op = "ADDIW" /\ i.rd = rd /\ i.imm = Immediate(w)
    BY <2>2, IShort
  <2> QED
    BY <1>4, <2>3, OnlyForm DEF ShortMade, LongMade, At
<1>5. CASE f3 = 2
  <2>1. f3 # 0 /\ f3 # 1 /\ f3 # 3 /\ f3 # 4 /\ f3 # 5 /\ f3 # 6 /\ f3 # 7
    BY <1>5
  <2>2. j = Itype("ADDI", rd, 0, Immediate(w)) /\ rd # 0
    BY <1>2, <1>5, <2>1, Zenon DEF Quadrant1, Rd
  <2>3. i.op = "ADDI" /\ i.rd = rd /\ i.rs1 = 0 /\ i.imm = Immediate(w)
    BY <2>2, IShort
  <2>4. AddiMade(w, i)
    BY <1>5, <2>2, <2>3 DEF AddiMade, At
  <2> QED
    BY <2>3, <2>4, OnlyForm DEF ShortMade
<1>6. CASE f3 = 3 /\ rd = 2
  <2>1. f3 # 0 /\ f3 # 1 /\ f3 # 2 /\ f3 # 4 /\ f3 # 5 /\ f3 # 6 /\ f3 # 7
    BY <1>6
  <2>2. j = Itype("ADDI", 2, 2, SpImmediate(w))
    BY <1>2, <1>6, <2>1, Zenon DEF Quadrant1, Rd, SP, SpImmediate
  <2>3. i.op = "ADDI" /\ i.rd = 2 /\ i.rs1 = 2 /\ i.imm = SpImmediate(w)
    BY <2>2, IShort
  <2>4. AddiMade(w, i)
    BY <1>6, <2>3 DEF AddiMade, At
  <2> QED
    BY <2>3, <2>4, OnlyForm DEF ShortMade
<1>7. CASE f3 = 3 /\ rd # 2
  <2>1. f3 # 0 /\ f3 # 1 /\ f3 # 2 /\ f3 # 4 /\ f3 # 5 /\ f3 # 6 /\ f3 # 7
    BY <1>7
  <2>2. j = Utype("LUI", rd, Immediate(w) * 2^12)
    BY <1>2, <1>7, <2>1, Zenon DEF Quadrant1, Rd, SP
  <2>3. 2^12 = 4096
    OBVIOUS
  <2>4. i.op = "LUI" /\ i.rd = rd /\ i.imm = Immediate(w) * 4096
    BY <2>2, <2>3, UShort
  <2> QED
    BY <1>7, <2>4, OnlyForm DEF ShortMade, LongMade, At
<1>8. CASE f3 = 4
  <2>1. f3 # 0 /\ f3 # 1 /\ f3 # 2 /\ f3 # 3 /\ f3 # 5 /\ f3 # 6 /\ f3 # 7
    BY <1>8
  <2>2. j \in CompactArithmetic(w, TRUE)
    BY <1>8, <2>1, Zenon DEF Quadrant1
  <2> QED
    BY <1>8, <2>2, ArithmeticMakes DEF At
<1>9. CASE f3 = 5
  <2>1. f3 # 0 /\ f3 # 1 /\ f3 # 2 /\ f3 # 3 /\ f3 # 4 /\ f3 # 6 /\ f3 # 7
    BY <1>9
  <2>2. j = Utype("JAL", 0, JImmediate(w))
    BY <1>9, <2>1, Zenon DEF Quadrant1
  <2>3. i.op = "JAL" /\ i.imm = JImmediate(w)
    BY <2>2, UShort
  <2> QED
    BY <1>9, <2>3, OnlyForm DEF ShortMade, At
<1>10. CASE f3 = 6
  <2>1. f3 # 0 /\ f3 # 1 /\ f3 # 2 /\ f3 # 3 /\ f3 # 4 /\ f3 # 5 /\ f3 # 7
    BY <1>10
  <2>2. j = Stype("BEQ", BImmediate(w), rs1, 0)
    BY <1>10, <2>1, Zenon DEF Quadrant1, CompactRegisterNumber
  <2>3. i.op = "BEQ" /\ i.rs1 = rs1 /\ i.imm = BImmediate(w)
    BY <2>2, SShort
  <2> QED
    BY <1>10, <2>3, OnlyForm DEF ShortMade, BranchMade, At
<1>11. CASE f3 = 7
  <2>1. f3 # 0 /\ f3 # 1 /\ f3 # 2 /\ f3 # 3 /\ f3 # 4 /\ f3 # 5 /\ f3 # 6
    BY <1>11
  <2>2. j = Stype("BNE", BImmediate(w), rs1, 0)
    BY <1>11, <2>1, Zenon DEF Quadrant1, CompactRegisterNumber
  <2>3. i.op = "BNE" /\ i.rs1 = rs1 /\ i.imm = BImmediate(w)
    BY <2>2, SShort
  <2> QED
    BY <1>11, <2>3, OnlyForm DEF ShortMade, BranchMade, At
<1> QED
  BY <1>1, <1>3, <1>4, <1>5, <1>6, <1>7, <1>8, <1>9, <1>10, <1>11

LEMMA Quadrant2Makes ==
  ASSUME NEW w, WordOK(w), Field(w, 0, 2) = 2, NEW v, NEW j \in Quadrant2(w, v, TRUE), j # Nop
  PROVE  ShortMade(Unversioned(Short(j).op), w, Short(j))
<1> DEFINE f3 == Field(w, 13, 3)  rd == Field(w, 7, 5)  rs2 == Field(w, 2, 5)
           i == Short(j)
<1>1. f3 \in {0, 2, 3, 4, 6, 7}
  BY DEF Quadrant2
<1>2. j \notin Hint(v)
  BY DEF Hint
<1>3. CASE f3 = 0
  <2>1. j = Itype("SLLI", rd, rd, UImmediate(w) % 64)
    BY <1>2, <1>3 DEF Quadrant2, Rd
  <2>2. i.op = "SLLI" /\ i.rd = rd /\ i.imm = UImmediate(w)
    BY <2>1, IShort, WholeUImmediate
  <2> QED
    BY <1>3, <2>2, OnlyForm DEF ShortMade, LongMade, At
<1>4. CASE f3 = 2
  <2>1. j = Itype(OfVersion("LW", v), rd, 2, LwspUImmediate(w))
    BY <1>4 DEF Quadrant2, SP, Rd
  <2>2. i.op = OfVersion("LW", v) /\ i.rd = rd /\ i.rs1 = 2 /\ i.imm = LwspUImmediate(w)
    BY <2>1, IShort
  <2>3. Unversioned(i.op) = "LW"
    BY <2>2, UnversionedIs, FormsAre
  <2> QED
    BY <1>4, <2>2, <2>3 DEF ShortMade, LoadMade, At
<1>5. CASE f3 = 3
  <2>1. j = Itype(OfVersion("LD", v), rd, 2, FldspUImmediate(w))
    BY <1>5 DEF Quadrant2, SP, Rd
  <2>2. i.op = OfVersion("LD", v) /\ i.rd = rd /\ i.rs1 = 2 /\ i.imm = FldspUImmediate(w)
    BY <2>1, IShort
  <2>3. Unversioned(i.op) = "LD"
    BY <2>2, UnversionedIs, FormsAre
  <2> QED
    BY <1>5, <2>2, <2>3 DEF ShortMade, LoadMade, At
<1>6. CASE f3 = 6
  <2>1. j = Stype("SW", SwspUImmediate(w), 2, rs2)
    BY <1>6 DEF Quadrant2, SP, CRs2
  <2>2. i.op = "SW" /\ i.rs1 = 2 /\ i.rs2 = rs2 /\ i.imm = SwspUImmediate(w)
    BY <2>1, SShort
  <2>3. Unversioned(i.op) = "SW"
    BY <2>2, OnlyForm
  <2> QED
    BY <1>6, <2>2, <2>3 DEF ShortMade, StoreMade, At
<1>7. CASE f3 = 7
  <2>1. j = Stype("SD", FsdspUImmediate(w), 2, rs2)
    BY <1>7 DEF Quadrant2, SP, CRs2
  <2>2. i.op = "SD" /\ i.rs1 = 2 /\ i.rs2 = rs2 /\ i.imm = FsdspUImmediate(w)
    BY <2>1, SShort
  <2>3. Unversioned(i.op) = "SD"
    BY <2>2, OnlyForm
  <2> QED
    BY <1>7, <2>2, <2>3 DEF ShortMade, StoreMade, At
<1>8. CASE f3 = 4
  <2> DEFINE link == Field(w, 12, 1)
  <2>1. j \in RegisterMoves(w, v)
    BY <1>8 DEF Quadrant2
  <2>2. Bit(w, 12) = link
    BY DEF Bit
  <2>3. CASE rs2 = 0 /\ rd # 0
    <3>1. j = Itype(OfVersion("JALR", v), link, rd, 0)
      BY <2>1, <2>3 DEF RegisterMoves, Rd, CRs2
    <3>2. i.op = OfVersion("JALR", v) /\ i.rd = link /\ i.rs1 = rd
      BY <3>1, IShort
    <3>3. Unversioned(i.op) = "JALR"
      BY <3>2, UnversionedIs, FormsAre
    <3> QED
      BY <1>8, <2>2, <2>3, <3>2, <3>3 DEF ShortMade, JumpMade, At
  <2>4. CASE rs2 = 0 /\ rd = 0
    <3>1. j = BlankInstruction("EBREAK") /\ link = 1
      BY <2>1, <2>4 DEF RegisterMoves, Rd, CRs2
    <3>2. i.op = "EBREAK"
      BY <3>1, BlankShort
    <3> QED
      BY <1>8, <2>2, <2>4, <3>1, <3>2, OnlyForm DEF ShortMade, BreakMade, At
  <2>5. CASE rs2 # 0
    <3>1. rd # 0 /\ j = Rtype("ADD", rd, IF link = 1 THEN rd ELSE 0, rs2)
      BY <1>2, <2>1, <2>5 DEF RegisterMoves, Rd, CRs2
    <3>2. i.op = "ADD" /\ i.rd = rd /\ i.rs1 = (IF link = 1 THEN rd ELSE 0) /\ i.rs2 = rs2
      BY <3>1, RShort
    <3> QED
      BY <1>8, <2>2, <3>1, <3>2, OnlyForm DEF ShortMade, AddMade, At
  <2> QED
    BY <2>3, <2>4, <2>5
<1> QED
  BY <1>1, <1>3, <1>4, <1>5, <1>6, <1>7, <1>8

(* A compressed word that is not a hint makes one of these.                *)
LEMMA ShortMakes ==
  ASSUME NEW w, WordOK(w), NEW v, NEW i \in RvcFactory(w, v, TRUE), [i EXCEPT !.len = 4] # Nop
  PROVE  ShortMade(Unversioned(i.op), w, i)
<1> DEFINE q == Field(w, 0, 2)
<1>1. q \in {0, 1, 2} /\ OfQuadrant(w, v, i)
  <2>1. q \in {0, 1, 2, 3}
    BY ShortParts
  <2> QED
    BY <2>1, RvcIs
<1>2. \A j : i = Short(j) => j # Nop
  BY Carried
<1>3. CASE q = 0
  BY <1>1, <1>3, Quadrant0Makes DEF OfQuadrant
<1>4. CASE q = 1
  BY <1>1, <1>2, <1>4, Quadrant1Makes DEF OfQuadrant
<1>5. CASE q = 2
  BY <1>1, <1>2, <1>5, Quadrant2Makes DEF OfQuadrant
<1> QED
  BY <1>1, <1>3, <1>4, <1>5

LEMMA FieldRanges ==
  ASSUME NEW w, WordOK(w)
  PROVE  /\ Field(w, 2, 3) \in 0 .. 7 /\ Field(w, 7, 3) \in 0 .. 7
         /\ Field(w, 2, 5) \in 0 .. 31 /\ Field(w, 7, 5) \in 0 .. 31
         /\ Bit(w, 12) \in {0, 1}
<1>1. /\ Bit(w, 2) \in {0, 1} /\ Bit(w, 3) \in {0, 1} /\ Bit(w, 4) \in {0, 1}
      /\ Bit(w, 5) \in {0, 1} /\ Bit(w, 6) \in {0, 1} /\ Bit(w, 7) \in {0, 1}
      /\ Bit(w, 8) \in {0, 1} /\ Bit(w, 9) \in {0, 1} /\ Bit(w, 10) \in {0, 1}
      /\ Bit(w, 11) \in {0, 1} /\ Bit(w, 12) \in {0, 1}
  BY FieldBits
<1>2. Field(w, 2, 3) \in 0 .. 7
  BY <1>1, FieldBits
<1>3. Field(w, 7, 3) \in 0 .. 7
  BY <1>1, FieldBits
<1>4. Field(w, 2, 5) \in 0 .. 31
  BY <1>1, FieldBits
<1>5. Field(w, 7, 5) \in 0 .. 31
  BY <1>1, ShortParts
<1> QED
  BY <1>1, <1>2, <1>3, <1>4, <1>5

LEMMA ImmediateInt ==
  ASSUME NEW w, WordOK(w)
  PROVE  Immediate(w) \in Int
<1>1. /\ Bit(w, 2) \in {0, 1} /\ Bit(w, 3) \in {0, 1} /\ Bit(w, 4) \in {0, 1}
      /\ Bit(w, 5) \in {0, 1} /\ Bit(w, 6) \in {0, 1} /\ Bit(w, 12) \in {0, 1}
  BY FieldBits
<1> QED
  BY <1>1, ShortImmediates

(* C.ADDI and C.ADDI16SP add to the same register; their words are further *)
(* apart than by a bit.                                                    *)
TwoAddi(w, u) == At(w, 1, 0) /\ At(u, 1, 3) /\ Field(w, 7, 5) = Field(u, 7, 5)

LEMMA TwoAddiApart ==
  ASSUME NEW w, NEW u, WordOK(w), WordOK(u), TwoAddi(w, u), NEW p \in BitValues
  PROVE  ~Apart(w.lo, u.lo, p)
<1> DEFINE l == w.lo  m == u.lo  b == Field(w, 2, 5)  c == Field(u, 2, 5)
           r == Field(w, 7, 5)  x == Bit(w, 12)  y == Bit(u, 12)
<1>1. l = 1 + 4 * b + 128 * r + 4096 * x /\ m = 1 + 4 * c + 128 * r + 4096 * y + 24576
  <2>1. /\ l = Field(w, 0, 2) + 4 * b + 128 * r + 4096 * x + 8192 * Field(w, 13, 3)
        /\ m = Field(u, 0, 2) + 4 * c + 128 * Field(u, 7, 5) + 4096 * y + 8192 * Field(u, 13, 3)
    BY ShortParts
  <2>2. /\ Field(w, 0, 2) = 1 /\ Field(w, 13, 3) = 0 /\ Field(u, 0, 2) = 1
        /\ Field(u, 13, 3) = 3 /\ Field(u, 7, 5) = r
    BY DEF TwoAddi, At
  <2>3. b \in 0 .. 31 /\ c \in 0 .. 31 /\ r \in 0 .. 31 /\ x \in {0, 1} /\ y \in {0, 1}
    BY FieldRanges
  <2> HIDE DEF l, m, b, c, r, x, y
  <2> QED
    BY <2>1, <2>2, <2>3
<1>2. b \in 0 .. 31 /\ c \in 0 .. 31 /\ r \in 0 .. 31 /\ x \in {0, 1} /\ y \in {0, 1}
  BY FieldRanges
<1> HIDE DEF l, m, b, c, r, x, y
<1>3. m - l \in Int /\ 16384 < m - l /\ m - l < 32768 /\ l \in Int /\ m \in Int
  BY <1>1, <1>2
<1>4. ~Apart(l, m, p)
  BY <1>3 DEF Apart, BitValues
<1> QED
  BY <1>4 DEF l, m

LEMMA AddiOnce ==
  ASSUME NEW w, NEW u, WordOK(w), WordOK(u), NEW i, AddiMade(w, i), AddiMade(u, i)
  PROVE  \/ SameBits(w, u) /\ \E q, f3 : At(w, q, f3) /\ At(u, q, f3)
         \/ TwoAddi(w, u) \/ TwoAddi(u, w)
<1> DEFINE Spn(x) == At(x, 0, 0) /\ i.rd = Field(x, 2, 3) + 8 /\ i.rs1 = 2
                       /\ i.imm = SpnImmediate(x)
           Addi(x) == At(x, 1, 0) /\ i.rd = Field(x, 7, 5) /\ i.rs1 = i.rd /\ i.rd # 0
                        /\ i.imm = Immediate(x)
           Li(x) == At(x, 1, 2) /\ i.rd = Field(x, 7, 5) /\ i.rs1 = 0 /\ i.rd # 0
                      /\ i.imm = Immediate(x)
           Sp(x) == At(x, 1, 3) /\ i.rd = Field(x, 7, 5) /\ i.rd = 2 /\ i.rs1 = 2
                      /\ i.imm = SpImmediate(x)
<1>1. (Spn(w) \/ Addi(w) \/ Li(w) \/ Sp(w)) /\ (Spn(u) \/ Addi(u) \/ Li(u) \/ Sp(u))
  BY DEF AddiMade
<1>2. /\ Field(w, 2, 3) \in 0 .. 7 /\ Field(u, 2, 3) \in 0 .. 7
  BY FieldRanges
<1>3. CASE Spn(w) /\ Spn(u)
  <2>1. Field(w, 2, 3) = Field(u, 2, 3)
    BY <1>2, <1>3
  <2> QED
    BY <1>3, <2>1, ShortTell
<1>4. CASE Addi(w) /\ Addi(u)
  BY <1>4, ShortTell
<1>5. CASE Li(w) /\ Li(u)
  BY <1>5, ShortTell
<1>6. CASE Sp(w) /\ Sp(u)
  BY <1>6, ShortTell
<1>7. CASE (Addi(w) /\ Sp(u)) \/ (Sp(w) /\ Addi(u))
  BY <1>7 DEF TwoAddi
<1>8. /\ ~(Spn(w) /\ Addi(u)) /\ ~(Addi(w) /\ Spn(u)) /\ ~(Spn(w) /\ Sp(u)) /\ ~(Sp(w) /\ Spn(u))
      /\ ~(Spn(w) /\ Li(u)) /\ ~(Li(w) /\ Spn(u))
      /\ ~(Addi(w) /\ Li(u)) /\ ~(Li(w) /\ Addi(u)) /\ ~(Sp(w) /\ Li(u)) /\ ~(Li(w) /\ Sp(u))
  <2> HIDE DEF At
  <2> QED
    BY <1>2
<1> HIDE DEF Spn, Addi, Li, Sp
<1> QED
  BY <1>1, <1>3, <1>4, <1>5, <1>6, <1>7, <1>8

LEMMA ShortOnce ==
  ASSUME NEW w, NEW u, WordOK(w), WordOK(u), NEW o, NEW i, ShortMade(o, w, i),
         ShortMade(o, u, i)
  PROVE  w.lo = u.lo \/ TwoAddi(w, u) \/ TwoAddi(u, w)
<1> DEFINE SameWord == SameBits(w, u) /\ \E q, f3 : At(w, q, f3) /\ At(u, q, f3)
<1>1. /\ Field(w, 2, 3) \in 0 .. 7 /\ Field(u, 2, 3) \in 0 .. 7
      /\ Field(w, 7, 3) \in 0 .. 7 /\ Field(u, 7, 3) \in 0 .. 7
  BY FieldRanges
<1>2. ASSUME SameWord PROVE w.lo = u.lo
  BY <1>2, BitsTell DEF At
<1>3. ASSUME NEW x, NEW y, x \in 0 .. 7, y \in 0 .. 7, x + 8 = y + 8 PROVE x = y
  BY <1>3
<1>4. CASE o = "ADDI"
  <2>1. AddiMade(w, i) /\ AddiMade(u, i)
    BY <1>4 DEF ShortMade
  <2> QED
    BY <1>2, <2>1, AddiOnce
<1>5. CASE o = "ADDIW"
  <2>1. LongMade(w, i, 1, 1, Immediate(w)) /\ LongMade(u, i, 1, 1, Immediate(u))
    BY <1>5 DEF ShortMade
  <2>2. SameWord
    BY <2>1, ShortTell DEF LongMade
  <2> QED
    BY <1>2, <2>2
<1>6. CASE o = "LUI"
  <2>1. /\ LongMade(w, i, 1, 3, Immediate(w) * 4096)
        /\ LongMade(u, i, 1, 3, Immediate(u) * 4096)
    BY <1>6 DEF ShortMade
  <2>2. Immediate(w) = Immediate(u)
    <3> DEFINE x == Immediate(w)  y == Immediate(u)
    <3>1. x \in Int /\ y \in Int
      BY ImmediateInt
    <3>2. x * 4096 = y * 4096
      BY <2>1 DEF LongMade
    <3> HIDE DEF x, y
    <3>3. x = y
      BY <3>1, <3>2
    <3> QED
      BY <3>3 DEF x, y
  <2>3. SameWord
    BY <2>1, <2>2, ShortTell DEF LongMade
  <2> QED
    BY <1>2, <2>3
<1>7. CASE o = "SLLI"
  <2>1. LongMade(w, i, 2, 0, UImmediate(w)) /\ LongMade(u, i, 2, 0, UImmediate(u))
    BY <1>7 DEF ShortMade
  <2>2. SameWord
    BY <2>1, ShortTell DEF LongMade
  <2> QED
    BY <1>2, <2>2
<1>8. CASE o = "JAL"
  <2>1. (At(w, 1, 5) /\ i.imm = JImmediate(w)) /\ (At(u, 1, 5) /\ i.imm = JImmediate(u))
    BY <1>8 DEF ShortMade
  <2>2. SameWord
    BY <2>1, ShortTell DEF At
  <2> QED
    BY <1>2, <2>2
<1>9. CASE o = "BEQ"
  <2>1. BranchMade(w, i, 6) /\ BranchMade(u, i, 6)
    BY <1>9 DEF ShortMade
  <2>2. Field(w, 7, 3) = Field(u, 7, 3)
    BY <1>1, <2>1 DEF BranchMade
  <2>3. SameWord
    BY <2>1, <2>2, ShortTell DEF BranchMade
  <2> QED
    BY <1>2, <2>3
<1>10. CASE o = "BNE"
  <2>1. BranchMade(w, i, 7) /\ BranchMade(u, i, 7)
    BY <1>10 DEF ShortMade
  <2>2. Field(w, 7, 3) = Field(u, 7, 3)
    BY <1>1, <2>1 DEF BranchMade
  <2>3. SameWord
    BY <2>1, <2>2, ShortTell DEF BranchMade
  <2> QED
    BY <1>2, <2>3
<1>11. CASE o = "LW"
  <2>1. /\ LoadMade(w, i, 2, SwUImmediate(w), LwspUImmediate(w))
        /\ LoadMade(u, i, 2, SwUImmediate(u), LwspUImmediate(u))
    BY <1>11 DEF ShortMade
  <2>2. CASE i.rs1 = 2
    <3>1. /\ At(w, 2, 2) /\ i.rd = Field(w, 7, 5) /\ i.imm = LwspUImmediate(w)
          /\ At(u, 2, 2) /\ i.rd = Field(u, 7, 5) /\ i.imm = LwspUImmediate(u)
      BY <1>1, <2>1, <2>2 DEF LoadMade
    <3>2. SameWord
      BY <3>1, ShortTell
    <3> QED
      BY <1>2, <3>2
  <2>3. CASE i.rs1 # 2
    <3>1. /\ At(w, 0, 2) /\ i.rd = Field(w, 2, 3) + 8 /\ i.rs1 = Field(w, 7, 3) + 8
          /\ At(u, 0, 2) /\ i.rd = Field(u, 2, 3) + 8 /\ i.rs1 = Field(u, 7, 3) + 8
          /\ i.imm = SwUImmediate(w) /\ i.imm = SwUImmediate(u)
      BY <2>1, <2>3 DEF LoadMade
    <3>2. Field(w, 2, 3) = Field(u, 2, 3) /\ Field(w, 7, 3) = Field(u, 7, 3)
      BY <1>1, <3>1
    <3>3. SameWord
      BY <3>1, <3>2, ShortTell
    <3> QED
      BY <1>2, <3>3
  <2> QED
    BY <2>2, <2>3
<1>12. CASE o = "LD"
  <2>1. /\ LoadMade(w, i, 3, FldUImmediate(w), FldspUImmediate(w))
        /\ LoadMade(u, i, 3, FldUImmediate(u), FldspUImmediate(u))
    BY <1>12 DEF ShortMade
  <2>2. CASE i.rs1 = 2
    <3>1. /\ At(w, 2, 3) /\ i.rd = Field(w, 7, 5) /\ i.imm = FldspUImmediate(w)
          /\ At(u, 2, 3) /\ i.rd = Field(u, 7, 5) /\ i.imm = FldspUImmediate(u)
      BY <1>1, <2>1, <2>2 DEF LoadMade
    <3>2. SameWord
      BY <3>1, ShortTell
    <3> QED
      BY <1>2, <3>2
  <2>3. CASE i.rs1 # 2
    <3>1. /\ At(w, 0, 3) /\ i.rd = Field(w, 2, 3) + 8 /\ i.rs1 = Field(w, 7, 3) + 8
          /\ At(u, 0, 3) /\ i.rd = Field(u, 2, 3) + 8 /\ i.rs1 = Field(u, 7, 3) + 8
          /\ i.imm = FldUImmediate(w) /\ i.imm = FldUImmediate(u)
      BY <2>1, <2>3 DEF LoadMade
    <3>2. Field(w, 2, 3) = Field(u, 2, 3) /\ Field(w, 7, 3) = Field(u, 7, 3)
      BY <1>1, <3>1
    <3>3. SameWord
      BY <3>1, <3>2, ShortTell
    <3> QED
      BY <1>2, <3>3
  <2> QED
    BY <2>2, <2>3
<1>13. CASE o = "SW"
  <2>1. /\ StoreMade(w, i, 6, SwUImmediate(w), SwspUImmediate(w))
        /\ StoreMade(u, i, 6, SwUImmediate(u), SwspUImmediate(u))
    BY <1>13 DEF ShortMade
  <2>2. CASE i.rs1 = 2
    <3>1. /\ At(w, 2, 6) /\ i.rs2 = Field(w, 2, 5) /\ i.imm = SwspUImmediate(w)
          /\ At(u, 2, 6) /\ i.rs2 = Field(u, 2, 5) /\ i.imm = SwspUImmediate(u)
      BY <1>1, <2>1, <2>2 DEF StoreMade
    <3>2. SameWord
      BY <3>1, ShortTell
    <3> QED
      BY <1>2, <3>2
  <2>3. CASE i.rs1 # 2
    <3>1. /\ At(w, 0, 6) /\ i.rs2 = Field(w, 2, 3) + 8 /\ i.rs1 = Field(w, 7, 3) + 8
          /\ At(u, 0, 6) /\ i.rs2 = Field(u, 2, 3) + 8 /\ i.rs1 = Field(u, 7, 3) + 8
          /\ i.imm = SwUImmediate(w) /\ i.imm = SwUImmediate(u)
      BY <2>1, <2>3 DEF StoreMade
    <3>2. Field(w, 2, 3) = Field(u, 2, 3) /\ Field(w, 7, 3) = Field(u, 7, 3)
      BY <1>1, <3>1
    <3>3. SameWord
      BY <3>1, <3>2, ShortTell
    <3> QED
      BY <1>2, <3>3
  <2> QED
    BY <2>2, <2>3
<1>14. CASE o = "SD"
  <2>1. /\ StoreMade(w, i, 7, FldUImmediate(w), FsdspUImmediate(w))
        /\ StoreMade(u, i, 7, FldUImmediate(u), FsdspUImmediate(u))
    BY <1>14 DEF ShortMade
  <2>2. CASE i.rs1 = 2
    <3>1. /\ At(w, 2, 7) /\ i.rs2 = Field(w, 2, 5) /\ i.imm = FsdspUImmediate(w)
          /\ At(u, 2, 7) /\ i.rs2 = Field(u, 2, 5) /\ i.imm = FsdspUImmediate(u)
      BY <1>1, <2>1, <2>2 DEF StoreMade
    <3>2. SameWord
      BY <3>1, ShortTell
    <3> QED
      BY <1>2, <3>2
  <2>3. CASE i.rs1 # 2
    <3>1. /\ At(w, 0, 7) /\ i.rs2 = Field(w, 2, 3) + 8 /\ i.rs1 = Field(w, 7, 3) + 8
          /\ At(u, 0, 7) /\ i.rs2 = Field(u, 2, 3) + 8 /\ i.rs1 = Field(u, 7, 3) + 8
          /\ i.imm = FldUImmediate(w) /\ i.imm = FldUImmediate(u)
      BY <2>1, <2>3 DEF StoreMade
    <3>2. Field(w, 2, 3) = Field(u, 2, 3) /\ Field(w, 7, 3) = Field(u, 7, 3)
      BY <1>1, <3>1
    <3>3. SameWord
      BY <3>1, <3>2, ShortTell
    <3> QED
      BY <1>2, <3>3
  <2> QED
    BY <2>2, <2>3
<1>15. CASE o = "SRLI"
  <2>1. GroupMade(w, i, 0, UImmediate(w)) /\ GroupMade(u, i, 0, UImmediate(u))
    BY <1>15 DEF ShortMade
  <2>2. Field(w, 7, 3) = Field(u, 7, 3)
    BY <1>1, <2>1 DEF GroupMade
  <2>3. SameWord
    BY <2>1, <2>2, ShortTell DEF GroupMade
  <2> QED
    BY <1>2, <2>3
<1>16. CASE o = "SRAI"
  <2>1. GroupMade(w, i, 1, UImmediate(w)) /\ GroupMade(u, i, 1, UImmediate(u))
    BY <1>16 DEF ShortMade
  <2>2. Field(w, 7, 3) = Field(u, 7, 3)
    BY <1>1, <2>1 DEF GroupMade
  <2>3. SameWord
    BY <2>1, <2>2, ShortTell DEF GroupMade
  <2> QED
    BY <1>2, <2>3
<1>17. CASE o = "ANDI"
  <2>1. GroupMade(w, i, 2, Immediate(w)) /\ GroupMade(u, i, 2, Immediate(u))
    BY <1>17 DEF ShortMade
  <2>2. Field(w, 7, 3) = Field(u, 7, 3)
    BY <1>1, <2>1 DEF GroupMade
  <2>3. SameWord
    BY <2>1, <2>2, ShortTell DEF GroupMade
  <2> QED
    BY <1>2, <2>3
<1>18. CASE o = "SUB"
  <2>1. PairMade(w, i, 0, 0) /\ PairMade(u, i, 0, 0)
    BY <1>18 DEF ShortMade
  <2>2. Field(w, 2, 3) = Field(u, 2, 3) /\ Field(w, 7, 3) = Field(u, 7, 3)
    BY <1>1, <2>1 DEF PairMade
  <2>3. SameWord
    BY <2>1, <2>2, ShortTell DEF PairMade
  <2> QED
    BY <1>2, <2>3
<1>19. CASE o = "XOR"
  <2>1. PairMade(w, i, 0, 1) /\ PairMade(u, i, 0, 1)
    BY <1>19 DEF ShortMade
  <2>2. Field(w, 2, 3) = Field(u, 2, 3) /\ Field(w, 7, 3) = Field(u, 7, 3)
    BY <1>1, <2>1 DEF PairMade
  <2>3. SameWord
    BY <2>1, <2>2, ShortTell DEF PairMade
  <2> QED
    BY <1>2, <2>3
<1>20. CASE o = "OR"
  <2>1. PairMade(w, i, 0, 2) /\ PairMade(u, i, 0, 2)
    BY <1>20 DEF ShortMade
  <2>2. Field(w, 2, 3) = Field(u, 2, 3) /\ Field(w, 7, 3) = Field(u, 7, 3)
    BY <1>1, <2>1 DEF PairMade
  <2>3. SameWord
    BY <2>1, <2>2, ShortTell DEF PairMade
  <2> QED
    BY <1>2, <2>3
<1>21. CASE o = "AND"
  <2>1. PairMade(w, i, 0, 3) /\ PairMade(u, i, 0, 3)
    BY <1>21 DEF ShortMade
  <2>2. Field(w, 2, 3) = Field(u, 2, 3) /\ Field(w, 7, 3) = Field(u, 7, 3)
    BY <1>1, <2>1 DEF PairMade
  <2>3. SameWord
    BY <2>1, <2>2, ShortTell DEF PairMade
  <2> QED
    BY <1>2, <2>3
<1>22. CASE o = "SUBW"
  <2>1. PairMade(w, i, 1, 0) /\ PairMade(u, i, 1, 0)
    BY <1>22 DEF ShortMade
  <2>2. Field(w, 2, 3) = Field(u, 2, 3) /\ Field(w, 7, 3) = Field(u, 7, 3)
    BY <1>1, <2>1 DEF PairMade
  <2>3. SameWord
    BY <2>1, <2>2, ShortTell DEF PairMade
  <2> QED
    BY <1>2, <2>3
<1>23. CASE o = "ADDW"
  <2>1. PairMade(w, i, 1, 1) /\ PairMade(u, i, 1, 1)
    BY <1>23 DEF ShortMade
  <2>2. Field(w, 2, 3) = Field(u, 2, 3) /\ Field(w, 7, 3) = Field(u, 7, 3)
    BY <1>1, <2>1 DEF PairMade
  <2>3. SameWord
    BY <2>1, <2>2, ShortTell DEF PairMade
  <2> QED
    BY <1>2, <2>3
<1>24. CASE o = "JALR"
  <2>1. JumpMade(w, i) /\ JumpMade(u, i)
    BY <1>24 DEF ShortMade
  <2>2. SameWord
    BY <2>1, ShortTell DEF JumpMade
  <2> QED
    BY <1>2, <2>2
<1>25. CASE o = "EBREAK"
  <2>1. BreakMade(w) /\ BreakMade(u)
    BY <1>25 DEF ShortMade
  <2>2. SameWord
    BY <2>1, ShortTell DEF BreakMade
  <2> QED
    BY <1>2, <2>2
<1>26. CASE o = "ADD"
  <2>1. AddMade(w, i) /\ AddMade(u, i)
    BY <1>26 DEF ShortMade
  <2>2. Bit(w, 12) \in {0, 1} /\ Bit(u, 12) \in {0, 1}
    BY FieldBits
  <2>3. Bit(w, 12) = Bit(u, 12)
    BY <2>1, <2>2 DEF AddMade
  <2>4. SameWord
    BY <2>1, <2>3, ShortTell DEF AddMade
  <2> QED
    BY <1>2, <2>4
<1> HIDE DEF SameWord
<1> QED
  BY <1>4, <1>5, <1>6, <1>7, <1>8, <1>9, <1>10, <1>11, <1>12, <1>13, <1>14, <1>15, <1>16,
     <1>17, <1>18, <1>19, <1>20, <1>21, <1>22, <1>23, <1>24, <1>25, <1>26 DEF ShortMade

LEMMA ShortLen ==
  ASSUME NEW w, WordOK(w), NEW v, NEW i \in RvcFactory(w, v, TRUE)
  PROVE  i.len = 2
<1> DEFINE Halved(j) == Short(j).len = 2
<1>1. /\ \A op, a, b, c : Halved(Rtype(op, a, b, c))
      /\ \A op, a, b, c : Halved(Itype(op, a, b, c))
      /\ \A op, a, b, c : Halved(Stype(op, a, b, c))
      /\ \A op, a, b : Halved(Utype(op, a, b))
      /\ \A op : Halved(BlankInstruction(op))
  <2>1. \A op, a, b, c : Halved(Rtype(op, a, b, c))
    BY DEF Short, Rtype, Instruction
  <2>2. \A op, a, b, c : Halved(Itype(op, a, b, c))
    BY DEF Short, Itype, Instruction
  <2>3. \A op, a, b, c : Halved(Stype(op, a, b, c))
    BY DEF Short, Stype, Instruction
  <2>4. \A op, a, b : Halved(Utype(op, a, b))
    BY DEF Short, Utype, Instruction
  <2>5. \A op : Halved(BlankInstruction(op))
    BY DEF Short, BlankInstruction, Blank, Instruction
  <2> QED
    BY <2>1, <2>2, <2>3, <2>4, <2>5
<1>2. Halved(Nop) /\ \A j \in Hint(v) : Halved(j)
  <2>1. Halved(Nop)
    BY <1>1 DEF Nop
  <2> QED
    BY <2>1 DEF Hint
<1> HIDE DEF Halved
<1>3. \A j \in CompactArithmetic(w, TRUE) : Halved(j)
  BY <1>1, <1>2 DEF CompactArithmetic
<1>4. \A j \in RegisterMoves(w, v) : Halved(j)
  BY <1>1, <1>2 DEF RegisterMoves
<1>5. \A j \in Quadrant0(w, v, TRUE) : Halved(j)
  BY <1>1 DEF Quadrant0
<1>6. ASSUME NEW j \in Quadrant1(w, v, TRUE) PROVE Halved(j)
  <2> DEFINE f3 == Field(w, 13, 3)
  <2>1. CASE f3 = 4
    <3>1. f3 # 0 /\ f3 # 1 /\ f3 # 2 /\ f3 # 3 /\ f3 # 5 /\ f3 # 6 /\ f3 # 7
      BY <2>1
    <3> QED
      BY <1>3, <2>1, <3>1, Zenon DEF Quadrant1
  <2>2. CASE f3 = 0
    <3>1. f3 # 1 /\ f3 # 2 /\ f3 # 3 /\ f3 # 4 /\ f3 # 5 /\ f3 # 6 /\ f3 # 7
      BY <2>2
    <3> QED
      BY <1>1, <1>2, <2>2, <3>1, Zenon DEF Quadrant1
  <2>3. CASE f3 = 3
    <3>1. f3 # 0 /\ f3 # 1 /\ f3 # 2 /\ f3 # 4 /\ f3 # 5 /\ f3 # 6 /\ f3 # 7
      BY <2>3
    <3> QED
      BY <1>1, <1>2, <2>3, <3>1, Zenon DEF Quadrant1
  <2>4. CASE f3 = 1
    <3>1. f3 # 0 /\ f3 # 2 /\ f3 # 3 /\ f3 # 4 /\ f3 # 5 /\ f3 # 6 /\ f3 # 7
      BY <2>4
    <3> QED
      BY <1>1, <1>2, <2>4, <3>1, Zenon DEF Quadrant1
  <2>5. CASE f3 = 2
    <3>1. f3 # 0 /\ f3 # 1 /\ f3 # 3 /\ f3 # 4 /\ f3 # 5 /\ f3 # 6 /\ f3 # 7
      BY <2>5
    <3> QED
      BY <1>1, <1>2, <2>5, <3>1, Zenon DEF Quadrant1
  <2>6. CASE f3 \notin {0, 1, 2, 3, 4}
    BY <1>1, <2>6 DEF Quadrant1
  <2> QED
    BY <2>1, <2>2, <2>3, <2>4, <2>5, <2>6
<1>7. \A j \in Quadrant2(w, v, TRUE) : Halved(j)
  BY <1>1, <1>2, <1>4 DEF Quadrant2
<1>8. \E j : Halved(j) /\ i = Short(j)
  <2>1. Field(w, 0, 2) \in {0, 1, 2} /\ OfQuadrant(w, v, i)
    <3>1. Field(w, 0, 2) \in {0, 1, 2, 3}
      BY ShortParts
    <3> QED
      BY <3>1, RvcIs
  <2> QED
    BY <1>5, <1>6, <1>7, <2>1 DEF OfQuadrant
<1> QED
  BY <1>8 DEF Halved

(* The length of an instruction tells whether its word was compressed.     *)
LEMMA AnswerLen ==
  ASSUME NEW w, WordOK(w), NEW v, NEW x \in FactoryNames, NEW i \in Factory(x, w, v, 64)
  PROVE  /\ i.len = 2 => x = "rvc" /\ i \in RvcFactory(w, v, TRUE)
         /\ i.len # 2 => x \in {"i", "m", "b", "a"}
         /\ \A k \in 0 .. 8 * i.len - 1 : k \in 0 .. 31 /\ (i.len = 2 => k \in 0 .. 15)
<1>1. CASE x = "rvc"
  <2>1. i \in RvcFactory(w, v, TRUE)
    BY <1>1 DEF Factory
  <2>2. i.len = 2
    BY <2>1, ShortLen
  <2>3. \A k \in 0 .. 8 * i.len - 1 : k \in 0 .. 31 /\ k \in 0 .. 15
    BY <2>2
  <2> QED
    BY <1>1, <2>1, <2>2, <2>3, Zenon
<1>2. CASE x # "rvc"
  <2>1. x \in {"i", "m", "b", "a"}
    BY <1>2 DEF FactoryNames
  <2>2. i.len = 4
    BY <2>1, FullAnswers
  <2>3. 8 * i.len - 1 = 31
    BY <2>2
  <2>4. i.len # 2
    BY <2>2
  <2> QED
    BY <2>1, <2>3, <2>4
<1> QED
  BY <1>1, <1>2

(* A compressed word a bit apart is another instruction.                   *)
LEMMA ShortBits ==
  ASSUME NEW w, WordOK(w), w = [lo |-> w.lo, hi |-> w.hi], NEW k \in 0 .. 15, NEW v, NEW i,
         i \in RvcFactory(w, v, TRUE), i \in RvcFactory(Flip(w, k), v, TRUE)
  PROVE  [i EXCEPT !.len = 4] = Nop
<1> DEFINE u == Flip(w, k)
<1>1. WordOK(u) /\ \E p \in BitValues : Apart(w.lo, u.lo, p)
  BY FlipIs
<1>2. i \in RvcFactory(u, v, TRUE)
  OBVIOUS
<1> HIDE DEF u
<1> SUFFICES ASSUME [i EXCEPT !.len = 4] # Nop PROVE FALSE
  OBVIOUS
<1>3. w.lo = u.lo \/ TwoAddi(w, u) \/ TwoAddi(u, w)
  BY <1>1, <1>2, ShortMakes, ShortOnce
<1>4. PICK p \in BitValues : Apart(w.lo, u.lo, p)
  BY <1>1
<1>5. Apart(u.lo, w.lo, p)
  BY <1>4 DEF Apart
<1>6. w.lo # u.lo
  <2> DEFINE l == w.lo  m == u.lo
  <2>1. l \in Nat /\ Apart(l, m, p)
    BY <1>4 DEF WordOK
  <2> HIDE DEF l, m
  <2>2. l # m
    BY <2>1 DEF Apart, BitValues
  <2> QED
    BY <2>2 DEF l, m
<1> QED
  BY <1>1, <1>3, <1>4, <1>5, <1>6, TwoAddiApart

(* A word a bit apart is another instruction.                              *)
LEMMA AnswerBits ==
  ASSUME NEW w, WordOK(w), w = [lo |-> w.lo, hi |-> w.hi], NEW v, NEW x \in FactoryNames,
         NEW i, i \in Factory(x, w, v, 64), [i EXCEPT !.len = 4] # Nop,
         NEW k \in 0 .. 31, i.len = 2 => k \in 0 .. 15,
         NEW y \in FactoryNames, i \in Factory(y, Flip(w, k), v, 64)
  PROVE  k \in IgnoredBits(i)
<1> DEFINE u == Flip(w, k)
<1>1. WordOK(u) /\ i \in Factory(y, u, v, 64)
  BY FlipIs
<1> HIDE DEF u
<1>2. /\ i.len = 2 => i \in RvcFactory(w, v, TRUE)
      /\ i.len # 2 => x \in {"i", "m", "b", "a"}
  BY AnswerLen
<1>3. /\ i.len = 2 => i \in RvcFactory(u, v, TRUE)
      /\ i.len # 2 => y \in {"i", "m", "b", "a"}
  BY <1>1, AnswerLen
<1>4. CASE i.len = 2
  BY <1>2, <1>3, <1>4, ShortBits DEF u
<1>5. CASE i.len # 2
  BY <1>1, <1>2, <1>3, <1>5, FullBits DEF u
<1> QED
  BY <1>4, <1>5

(* Every bit of every word counts: a word of which a bit is changed is     *)
(* never decoded to the same instruction, words without effect and the aq  *)
(* and rl of atomic operations aside.                                      *)
THEOREM EveryBitKept == WordSpec => []EveryBitCounts
<1>1. DecodedInv => EveryBitCounts
  <2> DEFINE w == Fetched  v == fetch.version
  <2> SUFFICES ASSUME DecodedInv, NEW i \in decoded.insts, fetch.bits = 64,
                      [i EXCEPT !.len = 4] # Nop
               PROVE  \A k \in 0 .. 8 * i.len - 1 :
                        FirstAnswer(fetch.isa, Flip(w, k), v, 64) = {i} => k \in IgnoredBits(i)
    BY DEF EveryBitCounts
  <2>1. WordOK(w) /\ decoded.insts = FirstAnswer(fetch.isa, w, v, 64)
    BY DecodedIs
  <2>2. w = [lo |-> w.lo, hi |-> w.hi]
    BY DEF Fetched, DecodeBits, DecodeBitsFast, DecodeBitsSlow, NoWord
  <2> HIDE DEF w, v
  <2>3. PICK x \in FactoryNames : i \in Factory(x, w, v, 64)
    BY <2>1, AnswerIs, AskedAre
  <2>4. WordOK(w)
    BY <2>1
  <2>5. \A k \in 0 .. 8 * i.len - 1 : k \in 0 .. 31 /\ (i.len = 2 => k \in 0 .. 15)
    BY <2>3, <2>4, AnswerLen
  <2> SUFFICES ASSUME NEW k \in 0 .. 31, i.len = 2 => k \in 0 .. 15,
                      FirstAnswer(fetch.isa, Flip(w, k), v, 64) = {i}
               PROVE  k \in IgnoredBits(i)
    BY <2>5
  <2> DEFINE u == Flip(w, k)
  <2>6. WordOK(u) /\ FirstAnswer(fetch.isa, u, v, 64) = {i}
    BY <2>2, <2>4, FlipIs
  <2>7. PICK y \in FactoryNames : i \in Factory(y, u, v, 64)
    <3> HIDE DEF u
    <3>1. FirstAnswer(fetch.isa, u, v, 64) # {}
      BY <2>6
    <3> QED
      BY <2>6, <3>1, AnswerIs, AskedAre
  <2> QED
    BY <2>2, <2>3, <2>4, <2>7, AnswerBits
<1> QED
  BY <1>1, DecodedInvariant, PTL
================================================================================
