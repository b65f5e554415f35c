------------------------------- MODULE Register -------------------------------
(***************************************************************************)
(* The Register trait of instructions/register.rs.  Its implementations    *)
(* for u32 and u64 are the same text at two widths; here the width is a    *)
(* parameter, and a byte, a half word and a word are the same fractions of *)
(* it as in the 64-bit machine.  A register is a natural below 2^XLEN; the *)
(* bitwise operators go through the set of its one bits.                   *)
(***************************************************************************)
EXTENDS Integers, FiniteSets, FiniteSetsExt, Functions

CONSTANT XLEN

ASSUME XLENAssumption == XLEN \in {8, 16, 32, 64}

(* What ^ is; the provers know it of literals only.                        *)
ASSUME PowersAssumption ==
  \A j \in 0 .. XLEN : 2^j \in Nat \ {0} /\ \A k \in 0 .. XLEN - j : 2^(j + k) = 2^j * 2^k

BYTE == XLEN \div 8
HALF == XLEN \div 4
WORD == XLEN \div 2

Value   == 0 .. 2^XLEN - 1
Wrap(x) == x % 2^XLEN

(* A register read as two's complement, and its k low bits so read.        *)
SignedLow(a, k) == LET low == a % 2^k IN IF 2 * low >= 2^k THEN low - 2^k ELSE low
Signed(a)       == SignedLow(a, XLEN)

BitsOf(a)  == {i \in 0 .. XLEN - 1 : (a \div 2^i) % 2 = 1}
ValueOf(S) == SumFunctionOnSet([i \in 0 .. XLEN - 1 |-> 2^i], S)

Complement(a) == 2^XLEN - 1 - a
BitAnd(a, b)  == ValueOf(BitsOf(a) \cap BitsOf(b))
BitOr(a, b)   == ValueOf(BitsOf(a) \cup BitsOf(b))
BitXor(a, b)  == ValueOf((BitsOf(a) \cup BitsOf(b)) \ (BitsOf(a) \cap BitsOf(b)))
Shl(a, k)     == Wrap(a * 2^k)
Shr(a, k)     == a \div 2^k

Flag(p)    == IF p THEN 1 ELSE 0
Lt(a, b)   == Flag(a < b)
LtS(a, b)  == Flag(Signed(a) < Signed(b))

OverflowingAdd(a, b) == Wrap(a + b)
OverflowingSub(a, b) == Wrap(a - b)

(* The low half of a product is the same signed and unsigned.              *)
OverflowingMul(a, b) == Wrap(Signed(a) * Signed(b))

Sign(x)          == IF x < 0 THEN -1 ELSE 1
Magnitude(x)     == Sign(x) * x
TruncatedQ(x, y) == Sign(x) * Sign(y) * (Magnitude(x) \div Magnitude(y))
TruncatedR(x, y) == Sign(x) * (Magnitude(x) % Magnitude(y))

(* -2^(L-1) divided by -1, the one signed division that overflows.         *)
Overflows(a, b) == Signed(a) = -(2^(XLEN - 1)) /\ Signed(b) = -1

(* Mutant: a remainder by zero is zero.                                    *)
RemByZeroIsZero(a, b) == IF b = 0 THEN 0 ELSE a % b

OverflowingDiv(a, b) == IF b = 0 THEN 2^XLEN - 1 ELSE a \div b
OverflowingRem(a, b) == IF b = 0 THEN a ELSE a % b

OverflowingDivSigned(a, b) ==
  CASE b = 0           -> Wrap(-1)
    [] Overflows(a, b) -> Wrap(-(2^(XLEN - 1)))
    [] OTHER           -> Wrap(TruncatedQ(Signed(a), Signed(b)))

OverflowingRemSigned(a, b) ==
  CASE b = 0           -> a
    [] Overflows(a, b) -> 0
    [] OTHER           -> Wrap(TruncatedR(Signed(a), Signed(b)))

(* Mutant: the wrong operand is the signed one.                            *)
UnsignedTimesSigned(a, b) == Wrap((a * Signed(b)) \div 2^XLEN)

MulHighSigned(a, b)         == Wrap((Signed(a) * Signed(b)) \div 2^XLEN)
MulHighSignedUnsigned(a, b) == Wrap((Signed(a) * b) \div 2^XLEN)

(* a * b \div 2^XLEN, half of a at a time to stay in the range of TLC.     *)
MulHighUnsigned(a, b) ==
  LET half == 2^(XLEN \div 2)
  IN  ((a \div half) * b + ((a % half) * b) \div half) \div half

SignedShl(a, k)  == Wrap(a * 2^k)
SignedShr(a, k)  == Wrap(Signed(a) \div 2^k)
ZeroExtend(a, k) == a % 2^k
SignExtend(a, k) == Wrap(SignedLow(a, k))

Clz(a)  == XLEN - 1 - Max(BitsOf(a) \cup {-1})
Ctz(a)  == Min(BitsOf(a) \cup {XLEN})
Cpop(a) == Cardinality(BitsOf(a))

(* x ^= self shifted, for every one bit i of rhs: a bit of the result is   *)
(* set when an odd number of the shifted copies has it.                    *)
Odd(S) == Cardinality(S) % 2 = 1
Clmul(a, b) ==
  ValueOf({j \in 0 .. XLEN - 1 : Odd({i \in BitsOf(b) : j - i \in BitsOf(a)})})
Clmulh(a, b) ==
  ValueOf({j \in 0 .. XLEN - 1 : Odd({i \in BitsOf(b) \ {0} : j + XLEN - i \in BitsOf(a)})})
Clmulr(a, b) ==
  ValueOf({j \in 0 .. XLEN - 1 : Odd({i \in BitsOf(b) : j + XLEN - 1 - i \in BitsOf(a)})})

Orcb(a) == ValueOf({i \in 0 .. XLEN - 1 : \E j \in BitsOf(a) : i \div BYTE = j \div BYTE})
Rev8(a) == ValueOf({(7 - i \div BYTE) * BYTE + (i % BYTE) : i \in BitsOf(a)})

Rol(a, k) == ValueOf({(i + k) % XLEN : i \in BitsOf(a)})
Ror(a, k) == ValueOf({(i - k) % XLEN : i \in BitsOf(a)})
================================================================================
