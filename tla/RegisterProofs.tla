----------------------------- MODULE RegisterProofs -----------------------------
(***************************************************************************)
(* What the operations of Register and the values of Execute are, at every *)
(* width.  The provers have no induction: a sum is reasoned about through  *)
(* a smallest set, or a least number, at which a law of it would fail.     *)
(***************************************************************************)
EXTENDS Execute, TLAPS, WellFoundedInduction, FiniteSetTheorems,
        FunctionTheorems, NaturalsInduction

--------------------------------------------------------------------------------
(* Powers of two.                                                          *)
LEMMA Powers ==
  /\ \A k \in 0 .. XLEN : 2^k \in Nat /\ 2^k > 0
  /\ \A k \in 0 .. XLEN - 1 : 2^(k + 1) = 2^k + 2^k
  /\ 2^0 = 1 /\ 2^1 = 2
<1>1. \A k \in 0 .. XLEN : 2^k \in Nat /\ 2^k > 0
  BY PowersAssumption
<1>2. \A j \in 0 .. XLEN : \A k \in 0 .. XLEN - j : 2^(j + k) = 2^j * 2^k
  BY PowersAssumption
<1>3. 2^0 = 1 /\ 2^1 = 2
  OBVIOUS
<1>4. ASSUME NEW k \in 0 .. XLEN - 1 PROVE 2^(k + 1) = 2^k + 2^k
  <2>1. XLEN \in Nat /\ k \in 0 .. XLEN /\ 1 \in 0 .. XLEN - k
    BY XLENAssumption
  <2>2. 2^(k + 1) = 2^k * 2^1
    BY <1>2, <2>1
  <2>3. 2^k \in Nat
    BY <1>1, <2>1
  <2> QED BY <2>2, <2>3, <1>3
<1> QED
  BY <1>1, <1>3, <1>4

(* Powers of a sum, as far as a register is wide.                          *)
LEMMA PowersAdd ==
  ASSUME NEW j \in Nat, NEW k \in Nat, j + k <= XLEN
  PROVE  2^(j + k) = 2^j * 2^k
<1>1. XLEN \in Nat /\ j \in 0 .. XLEN /\ k \in 0 .. XLEN - j
  BY XLENAssumption
<1> QED
  BY <1>1, PowersAssumption

(* The widths, each below the one that holds it.                           *)
LEMMA Widths ==
  /\ XLEN \in Nat /\ BYTE \in Nat /\ HALF \in Nat /\ WORD \in Nat
  /\ BYTE > 0 /\ HALF = BYTE + BYTE /\ WORD = HALF + HALF /\ XLEN = WORD + WORD /\ XLEN = 8 * BYTE
  /\ 2^XLEN = 2^WORD * 2^WORD /\ 2^WORD \in Nat /\ 2^XLEN \in Nat /\ 2^WORD > XLEN /\ 2^BYTE > 1
<1>1. /\ XLEN \in Nat /\ BYTE \in Nat /\ HALF \in Nat /\ WORD \in Nat
      /\ BYTE > 0 /\ HALF = BYTE + BYTE /\ WORD = HALF + HALF /\ XLEN = WORD + WORD /\ XLEN = 8 * BYTE
  BY XLENAssumption DEF BYTE, HALF, WORD
<1>2. 2^XLEN = 2^WORD * 2^WORD
  BY <1>1, PowersAdd
<1>3. 2^WORD > XLEN /\ 2^BYTE > 1
  <2>1. 2^4 = 16 /\ 2^8 = 256 /\ 2^16 = 65536 /\ 2^32 = 4294967296 /\ 2^1 = 2 /\ 2^2 = 4
    OBVIOUS
  <2>2. \/ XLEN = 8 /\ WORD = 4 /\ BYTE = 1
        \/ XLEN = 16 /\ WORD = 8 /\ BYTE = 2
        \/ XLEN = 32 /\ WORD = 16 /\ BYTE = 4
        \/ XLEN = 64 /\ WORD = 32 /\ BYTE = 8
    BY XLENAssumption DEF WORD, BYTE
  <2>3. CASE XLEN = 8 /\ WORD = 4 /\ BYTE = 1
    BY <2>1, <2>3
  <2>4. CASE XLEN = 16 /\ WORD = 8 /\ BYTE = 2
    BY <2>1, <2>4
  <2>5. CASE XLEN = 32 /\ WORD = 16 /\ BYTE = 4
    BY <2>1, <2>5
  <2>6. CASE XLEN = 64 /\ WORD = 32 /\ BYTE = 8
    BY <2>1, <2>6
  <2> QED
    BY <2>2, <2>3, <2>4, <2>5, <2>6
<1> QED
  BY <1>1, <1>2, <1>3, Powers

--------------------------------------------------------------------------------
(* Sums over a finite set, which Functions defines by picking an element   *)
(* at a time.                                                              *)
LEMMA SmallestSubset ==
  ASSUME NEW T, IsFiniteSet(T), NEW B, B \subseteq SUBSET T, B # {}
  PROVE  \E u \in B : \A v \in B : v \subseteq u => v = u
<1>1. IsWellFoundedOn(StrictSubsetOrdering(T), SUBSET T)
  BY FS_StrictSubsetOrderingWellFounded, FS_FiniteSubsetsOfFinite
<1>2. \E u \in B : \A v \in B : <<v, u>> \notin StrictSubsetOrdering(T)
  BY <1>1, WFMin
<1> QED
  BY <1>2 DEF StrictSubsetOrdering

Pick(S) == CHOOSE x \in S : TRUE
IsSum(f, T, F) ==
  F = [s \in SUBSET T |-> IF s = {} THEN 0 ELSE f[Pick(s)] + F[s \ {Pick(s)}]]

LEMMA PickIn == \A S : S # {} => Pick(S) \in S
  BY DEF Pick

(* Any two functions with the recursion of a sum agree: a smallest set on  *)
(* which they differ is a contradiction.                                   *)
LEMMA SumsAgree ==
  ASSUME NEW f, NEW T, NEW U, NEW F, NEW G, IsFiniteSet(T), IsSum(f, T, F), IsSum(f, U, G)
  PROVE  \A s : s \subseteq T /\ s \subseteq U => F[s] = G[s]
<1> DEFINE B == {s \in SUBSET T : s \subseteq U /\ F[s] # G[s]}
<1> SUFFICES ASSUME B # {} PROVE FALSE
  OBVIOUS
<1>0. B \subseteq SUBSET T
  OBVIOUS
<1>1. PICK u \in B : \A v \in B : v \subseteq u => v = u
  <2> HIDE DEF B
  <2> QED
    BY <1>0, SmallestSubset
<1>2. /\ F[u] = IF u = {} THEN 0 ELSE f[Pick(u)] + F[u \ {Pick(u)}]
      /\ G[u] = IF u = {} THEN 0 ELSE f[Pick(u)] + G[u \ {Pick(u)}]
  BY <1>1 DEF IsSum
<1>3. CASE u = {}
  BY <1>1, <1>2, <1>3
<1>4. CASE u # {}
  <2>1. u \ {Pick(u)} \notin B
    BY <1>1, <1>4, PickIn
  <2>2. F[u \ {Pick(u)}] = G[u \ {Pick(u)}]
    BY <1>1, <2>1
  <2> QED
    BY <1>1, <1>2, <1>4, <2>2
<1> QED
  BY <1>3, <1>4

(* And one exists, built along the subsets.                                *)
LEMMA SumExists ==
  ASSUME NEW f, NEW T, IsFiniteSet(T)
  PROVE  \E F : IsSum(f, T, F)
<1> DEFINE B == {u \in SUBSET T : ~ \E F : IsSum(f, u, F)}
<1> SUFFICES ASSUME B # {} PROVE FALSE
  OBVIOUS
<1>0. B \subseteq SUBSET T
  OBVIOUS
<1>1. PICK u \in B : \A v \in B : v \subseteq u => v = u
  <2> HIDE DEF B
  <2> QED
    BY <1>0, SmallestSubset
<1> DEFINE smaller == {s \in SUBSET u : s # u}
           Part(s) == CHOOSE F : IsSum(f, s, F)
           last == IF u = {} THEN 0 ELSE f[Pick(u)] + Part(u \ {Pick(u)})[u \ {Pick(u)}]
           F == [s \in SUBSET u |-> IF s = u THEN last ELSE Part(s)[s]]
<1>2. \A s \in smaller : IsSum(f, s, Part(s))
  <2> TAKE s \in smaller
  <2>1. s \notin B /\ s \in SUBSET T
    BY <1>1
  <2>2. \E G : IsSum(f, s, G)
    BY <2>1
  <2> HIDE DEF IsSum
  <2> QED
    BY <2>2
<1> HIDE DEF Part
<1>3. ASSUME NEW s \in SUBSET u
      PROVE  F[s] = IF s = {} THEN 0 ELSE f[Pick(s)] + F[s \ {Pick(s)}]
  <2> DEFINE r == s \ {Pick(s)}
  <2>1. CASE s = u
    <3>1. s # {} => r \in smaller
      BY <2>1, PickIn
    <3> QED
      BY <2>1, <3>1
  <2>2. CASE s # u
    <3>1. s \in smaller /\ IsSum(f, s, Part(s))
      BY <1>2, <2>2
    <3>2. Part(s)[s] = IF s = {} THEN 0 ELSE f[Pick(s)] + Part(s)[r]
      BY <3>1 DEF IsSum
    <3>3. CASE s # {}
      <4>1. r \in smaller /\ r \subseteq s
        BY <3>3, <3>1, PickIn
      <4>2. IsSum(f, r, Part(r)) /\ IsFiniteSet(s)
        BY <1>1, <1>2, <4>1, FS_Subset
      <4>3. Part(s)[r] = Part(r)[r]
        BY <3>1, <4>1, <4>2, SumsAgree
      <4> QED
        BY <2>2, <3>2, <3>3, <4>1, <4>3
    <3> QED
      BY <2>2, <3>2, <3>3
  <2> QED
    BY <2>1, <2>2
<1>4. IsSum(f, u, F)
  BY <1>3 DEF IsSum
<1> QED
  BY <1>1, <1>4

(* So the library's sum is the function of that recursion.                 *)
LEMMA SumIs ==
  ASSUME NEW f, NEW T, IsFiniteSet(T)
  PROVE  /\ T = {} => SumFunctionOnSet(f, T) = 0
         /\ T # {} => SumFunctionOnSet(f, T) = f[Pick(T)] + SumFunctionOnSet(f, T \ {Pick(T)})
<1> DEFINE Total(S) == CHOOSE F : IsSum(f, S, F)
           r == T \ {Pick(T)}
<1>1. \A S : SumFunctionOnSet(f, S) = Total(S)[S]
  BY DEF SumFunctionOnSet, FoldFunctionOnSet, MapThenFoldSet, IsSum, Pick
<1>2. \A S : IsFiniteSet(S) => IsSum(f, S, Total(S))
  <2> HIDE DEF IsSum
  <2> QED BY SumExists
<1>3. r \subseteq T /\ IsFiniteSet(r)
  BY FS_Subset
<1> HIDE DEF Total
<1>4. Total(T)[r] = Total(r)[r]
  BY <1>2, <1>3, SumsAgree
<1>5. Total(T)[T] = IF T = {} THEN 0 ELSE f[Pick(T)] + Total(T)[r]
  BY <1>2 DEF IsSum
<1> QED
  BY <1>1, <1>4, <1>5

(* A sum of naturals is one, and takes its terms in any order.             *)
LEMMA SumInNat ==
  ASSUME NEW f, NEW T, IsFiniteSet(T), \A x \in T : f[x] \in Nat
  PROVE  \A S \in SUBSET T : SumFunctionOnSet(f, S) \in Nat
<1> DEFINE B == {S \in SUBSET T : SumFunctionOnSet(f, S) \notin Nat}
<1> SUFFICES ASSUME B # {} PROVE FALSE
  OBVIOUS
<1>0. B \subseteq SUBSET T
  OBVIOUS
<1>1. PICK u \in B : \A v \in B : v \subseteq u => v = u
  <2> HIDE DEF B
  <2> QED
    BY <1>0, SmallestSubset
<1>2. u \in SUBSET T /\ IsFiniteSet(u)
  BY <1>1, FS_Subset
<1>3. SumFunctionOnSet(f, u) \notin Nat
  BY <1>1
<1>n. \A v \in SUBSET T : v \subseteq u /\ v # u => SumFunctionOnSet(f, v) \in Nat
  BY <1>1
<1> HIDE DEF B
<1>4. CASE u = {}
  <2>1. SumFunctionOnSet(f, u) = 0
    BY <1>2, <1>4, SumIs
  <2> QED
    BY <1>3, <2>1
<1>5. CASE u # {}
  <2>1. Pick(u) \in u /\ f[Pick(u)] \in Nat
    BY <1>2, <1>5, PickIn
  <2>2. SumFunctionOnSet(f, u \ {Pick(u)}) \in Nat
    BY <1>n, <1>2, <2>1
  <2>3. SumFunctionOnSet(f, u) = f[Pick(u)] + SumFunctionOnSet(f, u \ {Pick(u)})
    BY <1>2, <1>5, SumIs
  <2> QED
    BY <1>3, <2>1, <2>2, <2>3
<1> QED
  BY <1>4, <1>5

LEMMA SumRemove ==
  ASSUME NEW f, NEW T, IsFiniteSet(T), \A x \in T : f[x] \in Nat
  PROVE  \A S \in SUBSET T : \A x \in S :
           SumFunctionOnSet(f, S) = f[x] + SumFunctionOnSet(f, S \ {x})
<1> DEFINE Total(S) == SumFunctionOnSet(f, S)
           B == {S \in SUBSET T : ~ \A x \in S : Total(S) = f[x] + Total(S \ {x})}
<1> SUFFICES ASSUME B # {} PROVE FALSE
  OBVIOUS
<1>0. B \subseteq SUBSET T
  OBVIOUS
<1>1. PICK u \in B : \A v \in B : v \subseteq u => v = u
  <2> HIDE DEF B
  <2> QED
    BY <1>0, SmallestSubset
<1>2. \A S \in SUBSET T :
        /\ Total(S) \in Nat
        /\ S # {} => Total(S) = f[Pick(S)] + Total(S \ {Pick(S)})
  BY SumInNat, SumIs, FS_Subset
<1>3. PICK x \in u : Total(u) # f[x] + Total(u \ {x})
  BY <1>1
<1>s. \A v \in SUBSET T : v \subseteq u /\ v # u => \A y \in v : Total(v) = f[y] + Total(v \ {y})
  BY <1>1
<1>u. u \in SUBSET T
  BY <1>1
<1> HIDE DEF Total, B
<1> DEFINE p == Pick(u)
<1>4. p \in u /\ p # x /\ Total(u) = f[p] + Total(u \ {p})
  <2>1. p \in u
    BY <1>3, PickIn
  <2>2. Total(u) = f[p] + Total(u \ {p})
    BY <1>2, <1>3, <1>u
  <2> QED
    BY <1>3, <2>1, <2>2
<1> HIDE DEF p
<1>5. Total(u \ {p}) = f[x] + Total((u \ {p}) \ {x})
  BY <1>s, <1>u, <1>3, <1>4
<1>6. Total(u \ {x}) = f[p] + Total((u \ {x}) \ {p})
  BY <1>s, <1>u, <1>3, <1>4
<1>7. (u \ {x}) \ {p} = (u \ {p}) \ {x}
  OBVIOUS
<1>8. f[x] \in Nat /\ f[p] \in Nat
  BY <1>3, <1>4, <1>u
<1>9. Total((u \ {p}) \ {x}) \in Nat
  <2>1. (u \ {p}) \ {x} \in SUBSET T
    BY <1>u
  <2> QED
    BY <1>2, <2>1
<1>10. Total(u \ {x}) = f[p] + Total((u \ {p}) \ {x})
  BY <1>6, <1>7
<1> QED
  BY <1>3, <1>4, <1>5, <1>8, <1>9, <1>10

(* Least elements stand for induction over the naturals.                   *)
LEMMA LeastNat == ASSUME NEW B, B \subseteq Nat, B # {} PROVE \E n \in B : \A k \in B : n <= k
<1>1. IsWellFoundedOn(OpToRel(<, Nat), Nat)
  BY NatLessThanWellFounded
<1>2. \E n \in B : \A k \in B : <<k, n>> \notin OpToRel(<, Nat)
  BY <1>1, WFMin
<1> QED
  <2>1. PICK n \in B : \A k \in B : <<k, n>> \notin OpToRel(<, Nat)
    BY <1>2
  <2>2. \A k \in B : ~(k < n)
    BY <2>1 DEF OpToRel
  <2> QED
    BY <2>2

LEMMA UpTo ==
  ASSUME NEW n \in Nat, NEW S, 0 \in S, \A k \in 0 .. n - 1 : k \in S => k + 1 \in S
  PROVE  0 .. n \subseteq S
<1> SUFFICES ASSUME (0 .. n) \ S # {} PROVE FALSE
  OBVIOUS
<1>1. PICK k \in (0 .. n) \ S : \A j \in (0 .. n) \ S : k <= j
  <2>1. (0 .. n) \ S \subseteq Nat
    OBVIOUS
  <2> QED
    BY <2>1, LeastNat
<1>2. k - 1 \in 0 .. n - 1 /\ k - 1 \in S
  BY <1>1
<1> QED
  BY <1>1, <1>2

(* A sum of digits, each at most what leads from one position to the next. *)
LEMMA SumBelow ==
  ASSUME NEW n \in Nat, NEW f, NEW g,
         \A k \in 0 .. n - 1 : f[k] \in Nat /\ f[k] + g[k] <= g[k + 1],
         \A k \in 0 .. n : g[k] \in Nat
  PROVE  \A S \in SUBSET (0 .. n - 1) :
           SumFunctionOnSet(f, S) \in Nat /\ SumFunctionOnSet(f, S) + g[0] <= g[n]
<1> DEFINE T == 0 .. n - 1
           Total(S) == SumFunctionOnSet(f, S)
           Good == {k \in 0 .. n : \A S \in SUBSET (0 .. k - 1) : Total(S) + g[0] <= g[k]}
<1>1. IsFiniteSet(T)
  BY FS_Interval
<1>2. \A S \in SUBSET T : Total(S) \in Nat /\ \A x \in S : Total(S) = f[x] + Total(S \ {x})
  <2> HIDE DEF T
  <2>1. \A x \in T : f[x] \in Nat
    BY DEF T
  <2> QED
    BY <1>1, <2>1, SumInNat, SumRemove
<1>3. 0 \in Good
  <2>1. Total({}) = 0
    BY SumIs, FS_EmptySet
  <2>2. g[0] \in Nat /\ 0 \in 0 .. n
    OBVIOUS
  <2> SUFFICES ASSUME NEW S \in SUBSET (0 .. 0 - 1) PROVE Total(S) + g[0] <= g[0]
    BY <2>2
  <2>3. S = {}
    OBVIOUS
  <2> HIDE DEF Total
  <2> QED
    BY <2>1, <2>2, <2>3
<1>4. ASSUME NEW k \in 0 .. n - 1, k \in Good
      PROVE  k + 1 \in Good
  <2> SUFFICES ASSUME NEW S \in SUBSET (0 .. k) PROVE Total(S) + g[0] <= g[k + 1]
    OBVIOUS
  <2>1. S \in SUBSET T /\ S \ {k} \in SUBSET (0 .. k - 1) /\ S \ {k} \in SUBSET T
    OBVIOUS
  <2> HIDE DEF Total
  <2>2. Total(S \ {k}) \in Nat /\ Total(S \ {k}) + g[0] <= g[k]
    BY <1>2, <1>4, <2>1
  <2>3. f[k] \in Nat /\ g[k] \in Nat /\ g[k + 1] \in Nat /\ g[0] \in Nat /\ f[k] + g[k] <= g[k + 1]
    OBVIOUS
  <2>4. CASE k \in S
    <3>1. Total(S) = f[k] + Total(S \ {k})
      BY <1>2, <2>1, <2>4
    <3> QED
      BY <2>2, <2>3, <3>1
  <2>5. CASE k \notin S
    <3>1. S \ {k} = S
      BY <2>5
    <3> QED
      BY <2>2, <2>3, <3>1
  <2> QED
    BY <2>4, <2>5
<1> HIDE DEF Good
<1>5. 0 .. n \subseteq Good
  BY <1>3, <1>4, UpTo
<1>6. n \in Good
  BY <1>5
<1> QED
  BY <1>2, <1>6 DEF Good

--------------------------------------------------------------------------------
(* What an instruction computes is a value of a register (register.rs).    *)

(* Remainder and quotient, for every divisor.                              *)
LEMMA ModIn ==
  ASSUME NEW x \in Int, NEW n \in Nat, n > 0
  PROVE  x % n \in 0 .. n - 1 /\ x \div n \in Int /\ x = n * (x \div n) + (x % n)
<1>1. x % n \in 0 .. n - 1
  OBVIOUS
<1>2. x \div n \in Int
  OBVIOUS
<1>3. x = n * (x \div n) + (x % n)
  OBVIOUS
<1> QED
  BY <1>1, <1>2, <1>3

(* What the operations on registers answer fits a register again.          *)
LEMMA WrapIn == \A x \in Int : Wrap(x) \in Value
  BY Powers, Widths, ModIn DEF Wrap, Value

LEMMA PowersGrow ==
  \A k \in 0 .. XLEN : \A j \in 0 .. k : 2^j <= 2^k
<1> SUFFICES ASSUME NEW k \in 0 .. XLEN, NEW j \in 0 .. k PROVE 2^j <= 2^k
  OBVIOUS
<1> DEFINE d == k - j
<1>1. d \in Nat /\ j \in Nat /\ d \in 0 .. XLEN /\ j \in 0 .. XLEN /\ j + d = k
  BY Widths
<1>2. 2^(j + d) = 2^j * 2^d
  BY <1>1, PowersAdd, Widths
<1>3. 2^d \in Nat /\ 2^d > 0 /\ 2^j \in Nat /\ 2^k = 2^j * 2^d
  BY <1>1, <1>2, Powers
<1> DEFINE x == 2^j  y == 2^d
<1>4. x \in Nat /\ y \in Nat /\ y > 0 => x <= x * y
  <2> HIDE DEF x, y
  <2> QED OBVIOUS
<1> QED
  BY <1>3, <1>4

(* A value made of bits is below the power of their number.                *)
LEMMA ValueOfIn ==
  ASSUME NEW S, S \subseteq 0 .. XLEN - 1
  PROVE  ValueOf(S) \in Value
<1> DEFINE f == [i \in 0 .. XLEN - 1 |-> 2^i]
           g == [i \in 0 .. XLEN |-> 2^i]
<1>1. \A k \in 0 .. XLEN : g[k] = 2^k /\ g[k] \in Nat
  BY Powers
<1>2. ASSUME NEW k \in 0 .. XLEN - 1
      PROVE  f[k] \in Nat /\ f[k] + g[k] <= g[k + 1]
  <2>1. k \in 0 .. XLEN /\ k + 1 \in 0 .. XLEN
    BY Widths
  <2>2. 2^k \in Nat /\ 2^(k + 1) = 2^k + 2^k
    BY <2>1, Powers
  <2> QED
    BY <2>1, <2>2
<1>3. ValueOf(S) = SumFunctionOnSet(f, S)
  BY DEF ValueOf
<1>4. g[0] = 1 /\ g[XLEN] = 2^XLEN
  BY Widths, Powers
<1> HIDE DEF f, g
<1>5. SumFunctionOnSet(f, S) \in Nat /\ SumFunctionOnSet(f, S) + g[0] <= g[XLEN]
  BY <1>1, <1>2, Widths, SumBelow
<1> QED
  BY <1>3, <1>4, <1>5, Widths DEF Value

LEMMA LogicIn ==
  ASSUME NEW a, NEW b
  PROVE  /\ BitAnd(a, b) \in Value /\ BitOr(a, b) \in Value /\ BitXor(a, b) \in Value
         /\ Orcb(a) \in Value /\ Clmul(a, b) \in Value
         /\ Clmulh(a, b) \in Value /\ Clmulr(a, b) \in Value
<1>1. BitsOf(a) \subseteq 0 .. XLEN - 1 /\ BitsOf(b) \subseteq 0 .. XLEN - 1
  BY DEF BitsOf
<1>2. BitAnd(a, b) \in Value /\ BitOr(a, b) \in Value /\ BitXor(a, b) \in Value
  <2> DEFINE x == BitsOf(a) \cap BitsOf(b)
             y == BitsOf(a) \cup BitsOf(b)
             z == y \ x
  <2>1. x \subseteq 0 .. XLEN - 1 /\ y \subseteq 0 .. XLEN - 1 /\ z \subseteq 0 .. XLEN - 1
    BY <1>1
  <2>2. ValueOf(x) \in Value /\ ValueOf(y) \in Value /\ ValueOf(z) \in Value
    <3> HIDE DEF x, y, z
    <3> QED BY <2>1, ValueOfIn
  <2> QED
    BY <2>2 DEF BitAnd, BitOr, BitXor
<1>3. Orcb(a) \in Value
  <2> DEFINE s == {i \in 0 .. XLEN - 1 : \E j \in BitsOf(a) : i \div BYTE = j \div BYTE}
  <2>1. s \subseteq 0 .. XLEN - 1
    OBVIOUS
  <2>2. Orcb(a) = ValueOf(s)
    BY DEF Orcb
  <2> HIDE DEF s
  <2> QED
    BY <2>1, <2>2, ValueOfIn
<1>4. ASSUME NEW P, P \subseteq 0 .. XLEN - 1 PROVE ValueOf(P) \in Value
  BY <1>4, ValueOfIn
<1>5. Clmul(a, b) \in Value
  <2> DEFINE s == {j \in 0 .. XLEN - 1 : Odd({i \in BitsOf(b) : j - i \in BitsOf(a)})}
  <2>1. s \subseteq 0 .. XLEN - 1
    OBVIOUS
  <2>2. Clmul(a, b) = ValueOf(s)
    BY DEF Clmul
  <2> HIDE DEF s
  <2> QED
    BY <2>1, <2>2, ValueOfIn
<1>6. Clmulh(a, b) \in Value
  <2> DEFINE s == {j \in 0 .. XLEN - 1 : Odd({i \in BitsOf(b) \ {0} : j + XLEN - i \in BitsOf(a)})}
  <2>1. s \subseteq 0 .. XLEN - 1
    OBVIOUS
  <2>2. Clmulh(a, b) = ValueOf(s)
    BY DEF Clmulh
  <2> HIDE DEF s
  <2> QED
    BY <2>1, <2>2, ValueOfIn
<1>7. Clmulr(a, b) \in Value
  <2> DEFINE s == {j \in 0 .. XLEN - 1 : Odd({i \in BitsOf(b) : j + XLEN - 1 - i \in BitsOf(a)})}
  <2>1. s \subseteq 0 .. XLEN - 1
    OBVIOUS
  <2>2. Clmulr(a, b) = ValueOf(s)
    BY DEF Clmulr
  <2> HIDE DEF s
  <2> QED
    BY <2>1, <2>2, ValueOfIn
<1> QED
  BY <1>2, <1>3, <1>5, <1>6, <1>7

LEMMA PermutedIn ==
  ASSUME NEW a, NEW k \in Int
  PROVE  Rev8(a) \in Value /\ Rol(a, k) \in Value /\ Ror(a, k) \in Value
<1>0. XLEN \in Nat /\ XLEN > 0 /\ BYTE \in Nat /\ BYTE > 0 /\ XLEN = 8 * BYTE
  BY Widths
<1>1. \A i \in BitsOf(a) : i \in 0 .. XLEN - 1
  BY DEF BitsOf
<1>2. \A i \in BitsOf(a) : (i + k) % XLEN \in 0 .. XLEN - 1 /\ (i - k) % XLEN \in 0 .. XLEN - 1
  BY <1>0, <1>1, ModIn
<1>3. ASSUME NEW i \in BitsOf(a)
      PROVE  (7 - i \div BYTE) * BYTE + (i % BYTE) \in 0 .. XLEN - 1
  BY <1>1, XLENAssumption DEF BYTE
<1>4. Rol(a, k) \in Value
  <2> DEFINE s == {(i + k) % XLEN : i \in BitsOf(a)}
  <2>1. s \subseteq 0 .. XLEN - 1 /\ Rol(a, k) = ValueOf(s)
    BY <1>2 DEF Rol
  <2> HIDE DEF s
  <2> QED
    BY <2>1, ValueOfIn
<1>5. Ror(a, k) \in Value
  <2> DEFINE s == {(i - k) % XLEN : i \in BitsOf(a)}
  <2>1. s \subseteq 0 .. XLEN - 1 /\ Ror(a, k) = ValueOf(s)
    BY <1>2 DEF Ror
  <2> HIDE DEF s
  <2> QED
    BY <2>1, ValueOfIn
<1>6. Rev8(a) \in Value
  <2> DEFINE s == {(7 - i \div BYTE) * BYTE + (i % BYTE) : i \in BitsOf(a)}
  <2>1. s \subseteq 0 .. XLEN - 1 /\ Rev8(a) = ValueOf(s)
    BY <1>3 DEF Rev8
  <2> HIDE DEF s
  <2> QED
    BY <2>1, ValueOfIn
<1> QED
  BY <1>4, <1>5, <1>6

(* Division and remainder never grow a natural.                            *)
LEMMA DivBelow ==
  ASSUME NEW a \in Nat, NEW n \in Nat, n > 0
  PROVE  a \div n \in Nat /\ a \div n <= a /\ a % n \in Nat /\ a % n <= a
<1> DEFINE q == a \div n
           r == a % n
<1>1. q \in Int /\ r \in 0 .. n - 1 /\ a = n * q + r
  BY ModIn
<1> HIDE DEF q, r
<1>2. q >= 0
  <2>1. q < 0 => n * q <= -n
    BY <1>1
  <2> QED
    BY <1>1, <2>1
<1>3. n * q >= q
  BY <1>1, <1>2
<1> QED
  BY <1>1, <1>2, <1>3 DEF q, r

(* Narrowing and extending, to any width.                                  *)
LEMMA NarrowIn ==
  /\ \A v \in Int : SextW(v) \in Value /\ ZextW(v) \in Value /\ ZeroExtend(v, HALF) \in Value
  /\ \A v \in Int, k \in 0 .. XLEN : SignedLow(v, k) \in Int /\ SignExtend(v, k) \in Value
  /\ \A v \in Int : Signed(v) \in Int
<1>1. ASSUME NEW v \in Int, NEW k \in 0 .. XLEN
      PROVE  SignedLow(v, k) \in Int /\ SignExtend(v, k) \in Value
  <2>1. 2^k \in Nat /\ 2^k > 0
    BY Powers
  <2>2. v % 2^k \in Int
    BY <2>1
  <2>3. SignedLow(v, k) \in Int
    BY <2>1, <2>2 DEF SignedLow
  <2> QED
    BY <2>3, WrapIn DEF SignExtend
<1>2. ASSUME NEW v \in Int, NEW k \in 0 .. XLEN
      PROVE  ZeroExtend(v, k) \in Value
  <2>1. /\ 2^k \in Nat /\ 2^k > 0 /\ 2^k <= 2^XLEN /\ 2^XLEN \in Nat
        /\ k \in 0 .. XLEN /\ XLEN \in 0 .. XLEN
    BY Powers, Widths, PowersGrow
  <2>2. v % 2^k \in 0 .. 2^k - 1
    BY <2>1, ModIn
  <2> QED
    BY <2>1, <2>2 DEF ZeroExtend, Value
<1>3. WORD \in 0 .. XLEN /\ HALF \in 0 .. XLEN /\ XLEN \in 0 .. XLEN
  BY Widths
<1> QED
  BY <1>1, <1>2, <1>3 DEF SextW, ZextW, Signed

LEMMA ShiftIn ==
  ASSUME NEW a \in Value, NEW k \in 0 .. XLEN
  PROVE  /\ Shl(a, k) \in Value /\ Shr(a, k) \in Value
         /\ SignedShl(a, k) \in Value /\ SignedShr(a, k) \in Value
<1>1. 2^k \in Nat /\ 2^k > 0 /\ a \in Nat /\ Signed(a) \in Int /\ 2^XLEN \in Nat
  <2>1. 2^k \in Nat /\ 2^k > 0
    BY Powers
  <2>2. a \in Nat /\ 2^XLEN \in Nat
    BY Widths DEF Value
  <2> QED
    BY <2>1, <2>2, NarrowIn
<1>2. a * 2^k \in Int /\ Signed(a) \div 2^k \in Int
  BY <1>1
<1>3. a \div 2^k \in Nat /\ a \div 2^k <= a
  BY <1>1, DivBelow
<1> QED
  BY <1>1, <1>2, <1>3, WrapIn DEF Shl, Shr, SignedShl, SignedShr, Value

LEMMA SumsIn ==
  ASSUME NEW a \in Int, NEW b \in Int
  PROVE  /\ OverflowingAdd(a, b) \in Value /\ OverflowingSub(a, b) \in Value
         /\ OverflowingMul(a, b) \in Value
<1>1. Signed(a) * Signed(b) \in Int
  BY NarrowIn
<1> QED
  BY <1>1, WrapIn DEF OverflowingAdd, OverflowingSub, OverflowingMul

LEMMA FlagsIn ==
  /\ \A p : Flag(p) \in Value
  /\ \A a, b : Lt(a, b) \in Value /\ LtS(a, b) \in Value
  /\ 0 \in Value /\ 1 \in Value
<1>1. 0 \in Value /\ 1 \in Value
  BY Widths DEF Value
<1> QED
  BY <1>1 DEF Flag, Lt, LtS

LEMMA QuotientsIn ==
  ASSUME NEW a \in Value, NEW b \in Value
  PROVE  /\ OverflowingDiv(a, b) \in Value /\ OverflowingRem(a, b) \in Value
         /\ OverflowingDivSigned(a, b) \in Value /\ OverflowingRemSigned(a, b) \in Value
<1>1. 2^XLEN \in Nat /\ 2^XLEN > 0 /\ a \in Nat /\ b \in Nat
  BY Powers, Widths DEF Value
<1>2. OverflowingDiv(a, b) \in Value /\ OverflowingRem(a, b) \in Value
  <2>1. CASE b = 0
    BY <1>1, <2>1 DEF OverflowingDiv, OverflowingRem, Value
  <2>2. CASE b # 0
    <3>1. a \div b \in Nat /\ a \div b <= a /\ a % b \in Nat /\ a % b <= a
      BY <1>1, <2>2, DivBelow
    <3> QED
      BY <1>1, <2>2, <3>1 DEF OverflowingDiv, OverflowingRem, Value
  <2> QED
    BY <2>1, <2>2
<1>3. Signed(a) \in Int /\ Signed(b) \in Int
  BY <1>1, NarrowIn
<1>4. ASSUME NEW x \in Int, NEW y \in Int
      PROVE  y # 0 => TruncatedQ(x, y) \in Int /\ TruncatedR(x, y) \in Int
  <2> SUFFICES ASSUME y # 0 PROVE TruncatedQ(x, y) \in Int /\ TruncatedR(x, y) \in Int
    OBVIOUS
  <2>1. /\ Sign(x) \in Int /\ Sign(y) \in Int /\ Magnitude(x) \in Nat
        /\ Magnitude(y) \in Nat /\ Magnitude(y) > 0
    BY DEF Sign, Magnitude
  <2>2. Magnitude(x) \div Magnitude(y) \in Int /\ Magnitude(x) % Magnitude(y) \in Int
    BY <2>1
  <2>3. Sign(x) * Sign(y) \in Int
    BY <2>1
  <2> QED
    BY <2>1, <2>2, <2>3 DEF TruncatedQ, TruncatedR
<1>5. b # 0 => Signed(b) # 0
  <2>1. b % 2^XLEN = b
    BY <1>1 DEF Value
  <2> QED
    BY <1>1, <2>1 DEF Signed, SignedLow, Value
<1>6. b # 0 => Wrap(TruncatedQ(Signed(a), Signed(b))) \in Value
                /\ Wrap(TruncatedR(Signed(a), Signed(b))) \in Value
  BY <1>3, <1>4, <1>5, WrapIn
<1>7. Wrap(-1) \in Value /\ Wrap(-(2^(XLEN - 1))) \in Value
  <2>1. XLEN - 1 \in 0 .. XLEN
    BY Widths
  <2>2. 2^(XLEN - 1) \in Nat
    BY <2>1, Powers
  <2> QED
    BY <2>2, WrapIn
<1> QED
  BY <1>2, <1>6, <1>7, FlagsIn DEF OverflowingDivSigned, OverflowingRemSigned

LEMMA HighIn ==
  ASSUME NEW a \in Value, NEW b \in Value
  PROVE  /\ MulHighSigned(a, b) \in Value /\ MulHighSignedUnsigned(a, b) \in Value
         /\ MulHighUnsigned(a, b) \in Value
<1>1. 2^XLEN \in Nat /\ 2^XLEN > 0 /\ a \in Nat /\ b \in Nat
  BY Powers, Widths DEF Value
<1>2. Signed(a) \in Int /\ Signed(b) \in Int
  BY <1>1, NarrowIn
<1>3. MulHighSigned(a, b) \in Value /\ MulHighSignedUnsigned(a, b) \in Value
  <2>1. Signed(a) * Signed(b) \in Int /\ Signed(a) * b \in Int
    BY <1>1, <1>2
  <2>2. (Signed(a) * Signed(b)) \div 2^XLEN \in Int /\ (Signed(a) * b) \div 2^XLEN \in Int
    BY <1>1, <2>1, ModIn
  <2> QED
    BY <2>2, WrapIn DEF MulHighSigned, MulHighSignedUnsigned
<1>4. MulHighUnsigned(a, b) \in Value
  <2> DEFINE h == 2^WORD
             q == a \div h
             r == a % h
             s == (r * b) \div h
             t == q * b + s
  <2>1. h \in Nat /\ h > 0 /\ 2^XLEN = h * h /\ WORD = XLEN \div 2
    BY Widths, Powers DEF WORD
  <2>2. MulHighUnsigned(a, b) = t \div h
    BY <2>1 DEF MulHighUnsigned
  <2> HIDE DEF h
  <2>3. q \in Nat /\ r \in Nat /\ r <= h - 1 /\ a = h * q + r
    BY <1>1, <2>1, DivBelow, ModIn
  <2>4. a <= h * h - 1 /\ b <= h * h - 1
    BY <1>1, <2>1 DEF Value
  <2> HIDE DEF q, r
  <2>5. q <= h - 1
    <3>1. q >= h => h * q >= h * h
      BY <2>1, <2>3
    <3>2. q < h
      BY <2>1, <2>3, <2>4, <3>1
    <3> QED
      BY <3>2, <2>1, <2>3
  <2>6. r * b \in Nat
    BY <1>1, <2>3
  <2>7. s \in Nat /\ h * s <= r * b
    <3>1. s \in Nat /\ (r * b) % h \in 0 .. h - 1 /\ r * b = h * s + ((r * b) % h)
      BY <2>1, <2>6, ModIn, DivBelow
    <3> QED
      BY <3>1, <2>1, <2>6
  <2> HIDE DEF s
  <2>8. s <= b
    <3>1. r * b <= h * b
      BY <1>1, <2>1, <2>3
    <3>2. s > b => h * s > h * b
      BY <1>1, <2>1, <2>7
    <3>3. h * s \in Nat /\ h * b \in Nat
      BY <1>1, <2>1, <2>7
    <3> QED
      BY <1>1, <2>6, <2>7, <3>1, <3>2, <3>3
  <2>9. t \in Nat /\ t <= h * b
    <3>1. q * b <= (h - 1) * b /\ q * b \in Nat
      BY <1>1, <2>1, <2>3, <2>5
    <3>2. (h - 1) * b = h * b - b
      BY <1>1, <2>1
    <3> QED
      BY <1>1, <2>1, <2>7, <2>8, <3>1, <3>2
  <2> HIDE DEF t
  <2>10. t \div h \in Nat /\ h * (t \div h) <= t
    <3>1. t \div h \in Nat /\ t % h \in 0 .. h - 1 /\ t = h * (t \div h) + (t % h)
      BY <2>1, <2>9, ModIn, DivBelow
    <3> QED
      BY <3>1, <2>1, <2>9
  <2> DEFINE u == t \div h
  <2> HIDE DEF u
  <2>11. u <= b
    <3>1. u \in Nat /\ h * u <= h * b
      BY <1>1, <2>1, <2>9, <2>10 DEF u
    <3>2. u > b => h * u > h * b
      BY <1>1, <2>1, <3>1
    <3>3. h * u \in Nat /\ h * b \in Nat
      BY <1>1, <2>1, <3>1
    <3> QED
      BY <1>1, <3>1, <3>2, <3>3
  <2> QED
    BY <1>1, <2>2, <2>10, <2>11 DEF u, Value
<1> QED
  BY <1>3, <1>4

(* Max and Min of bounded sets of numbers, which count zeros.              *)
LEMMA GreatestLeast ==
  ASSUME NEW S, NEW n \in Nat
  PROVE  /\ S \subseteq -1 .. n /\ S # {} =>
              Max(S) \in S /\ \A x \in S : x <= Max(S)
         /\ S \subseteq 0 .. n /\ S # {} => Min(S) \in S
<1>1. ASSUME S \subseteq 0 .. n, S # {} PROVE Min(S) \in S
  <2>1. S \subseteq Nat
    BY <1>1
  <2>2. \E x \in S : \A y \in S : x <= y
    BY <1>1, <2>1, LeastNat
  <2> QED
    BY <2>2 DEF Min
<1>2. ASSUME S \subseteq -1 .. n, S # {}
      PROVE  Max(S) \in S /\ \A x \in S : x <= Max(S)
  <2> DEFINE B == {n - x : x \in S}
  <2>0. \A x \in S : n - x \in Nat
    BY <1>2
  <2>1. B \subseteq Nat /\ B # {}
    BY <1>2, <2>0
  <2>2. PICK d \in B : \A y \in B : d <= y
    <3> HIDE DEF B
    <3> QED
      BY <2>1, LeastNat
  <2>3. PICK x \in S : d = n - x
    BY <2>2
  <2>4. \A y \in S : n - x <= n - y
    BY <2>2, <2>3
  <2>5. \A y \in S : y <= x
    BY <1>2, <2>4
  <2>6. \E z \in S : \A y \in S : z >= y
    BY <1>2, <2>5
  <2>7. Max(S) \in S /\ \A y \in S : Max(S) >= y
    BY <2>6 DEF Max
  <2> QED
    BY <1>2, <2>7
<1> QED
  BY <1>1, <1>2

(* XLEN is small beside a register.                                        *)
LEMMA CountIsValue == 0 .. XLEN \subseteq Value
<1>1. 2^WORD > XLEN /\ 2^XLEN = 2^WORD * 2^WORD /\ 2^WORD \in Nat /\ XLEN \in Nat /\ 2^XLEN \in Nat
  BY Widths
<1> DEFINE x == 2^WORD
<1>2. x \in Nat /\ x > 0 => x <= x * x
  <2> HIDE DEF x
  <2> QED OBVIOUS
<1> QED
  BY <1>1, <1>2 DEF Value

LEMMA CountsIn ==
  ASSUME NEW a \in Value
  PROVE  /\ Clz(a) \in Value /\ Ctz(a) \in Value /\ Cpop(a) \in Value
         /\ Clz(ZextW(a)) - WORD \in Value
<1>1. BitsOf(a) \subseteq 0 .. XLEN - 1 /\ XLEN \in Nat /\ XLEN > 0 /\ XLEN = WORD + WORD /\ WORD \in Nat /\ WORD > 0
  BY Widths DEF BitsOf
<1>2. \A x : Clz(x) \in 0 .. XLEN
  <2> TAKE x
  <2> DEFINE s == BitsOf(x) \cup {-1}
  <2>1. s \subseteq -1 .. XLEN - 1 /\ s # {} /\ XLEN - 1 \in Nat
    BY <1>1 DEF BitsOf
  <2> HIDE DEF s
  <2>2. Max(s) \in -1 .. XLEN - 1
    BY <2>1, GreatestLeast
  <2> QED
    BY <1>1, <2>2 DEF Clz, s
<1>3. Ctz(a) \in 0 .. XLEN
  <2> DEFINE s == BitsOf(a) \cup {XLEN}
  <2>1. s \subseteq 0 .. XLEN /\ s # {}
    BY <1>1
  <2> HIDE DEF s
  <2>2. Min(s) \in 0 .. XLEN
    BY <1>1, <2>1, GreatestLeast
  <2> QED
    BY <2>2 DEF Ctz, s
<1>4. Cpop(a) \in 0 .. XLEN
  <2>1. IsFiniteSet(0 .. XLEN - 1) /\ Cardinality(0 .. XLEN - 1) = XLEN
    BY <1>1, FS_Interval
  <2>2. IsFiniteSet(BitsOf(a)) /\ Cardinality(BitsOf(a)) <= XLEN
    BY <1>1, <2>1, FS_Subset
  <2>3. Cardinality(BitsOf(a)) \in Nat
    BY <2>2, FS_CardinalityType
  <2> QED
    BY <1>1, <2>2, <2>3 DEF Cpop
<1>5. Clz(ZextW(a)) - WORD \in 0 .. XLEN
  <2> DEFINE w == ZextW(a)
             s == BitsOf(w) \cup {-1}
  <2>1. w \in Nat /\ w < 2^WORD
    <3>1. a \in Int /\ 2^WORD \in Nat /\ 2^WORD > 0
      BY Widths DEF Value
    <3> QED
      BY <3>1, ModIn DEF ZextW, ZeroExtend
  <2> HIDE DEF w
  <2>2. ASSUME NEW i \in BitsOf(w) PROVE i <= WORD - 1
    <3> SUFFICES ASSUME i >= WORD PROVE FALSE
      BY <1>1 DEF BitsOf
    <3>1. i \in 0 .. XLEN /\ WORD \in 0 .. i /\ (w \div 2^i) % 2 = 1
      BY <1>1, <2>2 DEF BitsOf
    <3>2. 2^WORD <= 2^i /\ 2^i \in Nat /\ 2^i > 0 /\ 2^WORD \in Nat
      BY <3>1, PowersGrow, Powers, Widths
    <3>3. w < 2^i
      BY <2>1, <3>2
    <3>4. w \div 2^i = 0
      BY <2>1, <3>2, <3>3
    <3> QED
      BY <3>1, <3>4
  <2>3. s \subseteq -1 .. WORD - 1 /\ s # {} /\ WORD - 1 \in Nat
    BY <1>1, <2>2 DEF BitsOf
  <2> HIDE DEF s
  <2>4. Max(s) \in -1 .. WORD - 1
    BY <2>3, GreatestLeast
  <2>5. Clz(w) = XLEN - 1 - Max(s)
    BY DEF Clz, s
  <2> QED
    BY <1>1, <2>4, <2>5 DEF w
<1> QED
  BY <1>2, <1>3, <1>4, <1>5, CountIsValue

(* Shift amounts are taken modulo a width.                                 *)
LEMMA AmountsIn ==
  ASSUME NEW b \in Int
  PROVE  b % XLEN \in 0 .. XLEN /\ b % WORD \in 0 .. XLEN /\ b % XLEN \in Int /\ b % WORD \in Int
<1>1. XLEN \in Nat /\ XLEN > 0 /\ WORD \in Nat /\ WORD > 0 /\ XLEN = WORD + WORD
  BY Widths
<1>2. b % XLEN \in 0 .. XLEN - 1 /\ b % WORD \in 0 .. WORD - 1
  BY <1>1, ModIn
<1> QED
  BY <1>1, <1>2

LEMMA ValuesAreInts == Value \subseteq Int
  BY DEF Value

(* One lemma for each family of instructions: what it computes fits.       *)
LEMMA AluIn ==
  ASSUME NEW op \in AluOps, NEW a \in Value, NEW b \in Value
  PROVE  AluValue(op, a, b) \in Value
<1>1. /\ a \in Int /\ b \in Int
      /\ SextW(a) \in Value /\ ZextW(a) \in Value
      /\ b % XLEN \in 0 .. XLEN /\ b % WORD \in 0 .. XLEN
  BY ValuesAreInts, AmountsIn, NarrowIn
<1>2. \A v \in Value : SextW(v) \in Value
  BY ValuesAreInts, NarrowIn
<1>3. OverflowingSub(a, b) \in Value /\ SextW(OverflowingSub(a, b)) \in Value
  BY <1>1, <1>2, SumsIn
<1>4. OverflowingAdd(a, b) \in Value /\ SextW(OverflowingAdd(a, b)) \in Value
  BY <1>1, <1>2, SumsIn
<1>5. BitXor(a, b) \in Value /\ BitOr(a, b) \in Value /\ BitAnd(a, b) \in Value
  BY LogicIn
<1>6. Shl(a, b % XLEN) \in Value /\ SextW(Shl(a, b % WORD)) \in Value
  BY <1>1, <1>2, ShiftIn
<1>7. Shr(a, b % XLEN) \in Value /\ SextW(Shr(ZextW(a), b % WORD)) \in Value
  BY <1>1, <1>2, ShiftIn
<1>8. SignedShr(a, b % XLEN) \in Value /\ SextW(SignedShr(SextW(a), b % WORD)) \in Value
  BY <1>1, <1>2, ShiftIn
<1>9. LtS(a, b) \in Value /\ Lt(a, b) \in Value
  BY FlagsIn
<1> QED
  BY <1>3, <1>4, <1>5, <1>6, <1>7, <1>8, <1>9, Zenon DEF AluOps, AluValue

LEMMA MulDivIn ==
  ASSUME NEW op \in MulDivOps, NEW a \in Value, NEW b \in Value
  PROVE  MulDivValue(op, a, b) \in Value
<1>1. /\ a \in Int /\ b \in Int /\ SextW(a) \in Value /\ ZextW(a) \in Value
      /\ SextW(b) \in Value /\ ZextW(b) \in Value
  BY ValuesAreInts, NarrowIn
<1>2. \A v \in Value : SextW(v) \in Value
  BY ValuesAreInts, NarrowIn
<1>3. OverflowingMul(a, b) \in Value /\ SextW(OverflowingMul(ZextW(a), ZextW(b))) \in Value
  BY <1>1, <1>2, SumsIn, ValuesAreInts
<1>4. /\ MulHighSigned(a, b) \in Value /\ MulHighSignedUnsigned(a, b) \in Value
      /\ MulHighUnsigned(a, b) \in Value
  BY HighIn
<1>5. /\ OverflowingDivSigned(a, b) \in Value /\ OverflowingDiv(a, b) \in Value
      /\ OverflowingRemSigned(a, b) \in Value /\ OverflowingRem(a, b) \in Value
  BY QuotientsIn
<1>6. /\ SextW(OverflowingDivSigned(SextW(a), SextW(b))) \in Value
      /\ SextW(OverflowingDiv(ZextW(a), ZextW(b))) \in Value
      /\ SextW(OverflowingRemSigned(SextW(a), SextW(b))) \in Value
      /\ SextW(OverflowingRem(ZextW(a), ZextW(b))) \in Value
  BY <1>1, <1>2, QuotientsIn
<1> QED
  BY <1>3, <1>4, <1>5, <1>6, Zenon DEF MulDivOps, MulDivValue

LEMMA SingleBitIn ==
  ASSUME NEW op \in SingleBitOps, NEW a \in Value, NEW b \in Int
  PROVE  SingleBitValue(op, a, b) \in Value
<1>1. OverflowingAdd(b, ZextW(a)) \in Value
  BY NarrowIn, SumsIn, ValuesAreInts
<1> QED
  BY <1>1, LogicIn, Zenon DEF SingleBitOps, SingleBitValue

LEMMA CountIn ==
  ASSUME NEW op \in CountOps, NEW a \in Value, NEW b \in Value
  PROVE  CountValue(op, a, b) \in Value
<1>1. b % XLEN \in Int /\ a \in Int /\ ZextW(a) \in Value
  BY ValuesAreInts, AmountsIn, NarrowIn
<1>2. Clz(a) \in Value /\ Clz(ZextW(a)) - WORD \in Value /\ Cpop(a) \in Value /\ Ctz(a) \in Value
  BY CountsIn
<1>3. Cpop(ZextW(a)) \in Value
  BY <1>1, CountsIn
<1>4. Ctz(BitOr(a, 2^XLEN - 2^WORD)) \in Value
  BY LogicIn, CountsIn
<1>5. /\ (IF Signed(a) >= Signed(b) THEN a ELSE b) \in Value
      /\ (IF a >= b THEN a ELSE b) \in Value
      /\ (IF Signed(a) < Signed(b) THEN a ELSE b) \in Value
      /\ (IF a < b THEN a ELSE b) \in Value
  OBVIOUS
<1>6. Orcb(a) \in Value /\ BitOr(a, Complement(b)) \in Value
  BY LogicIn
<1>7. Rev8(a) \in Value /\ Rol(a, b % XLEN) \in Value
  BY <1>1, PermutedIn
<1> QED
  BY <1>2, <1>3, <1>4, <1>5, <1>6, <1>7, Zenon DEF CountOps, CountValue

LEMMA RotateIn ==
  ASSUME NEW op \in RotateOps, NEW a \in Value, NEW b \in Int
  PROVE  RotateValue(op, a, b) \in Value
<1>1. /\ a \in Int /\ ZextW(a) \in Value /\ b % XLEN \in Int /\ b % WORD \in Int
      /\ XLEN - BYTE \in 0 .. XLEN /\ XLEN - HALF \in 0 .. XLEN
      /\ 1 \in 0 .. XLEN /\ 2 \in 0 .. XLEN /\ 3 \in 0 .. XLEN
  BY ValuesAreInts, AmountsIn, NarrowIn, Widths
<1>2. SextW(Rol(Twins(a), b % WORD)) \in Value /\ SextW(Ror(Twins(a), b % WORD)) \in Value
  BY <1>1, PermutedIn, NarrowIn, ValuesAreInts
<1>3. Ror(a, b % XLEN) \in Value
  BY <1>1, PermutedIn
<1>4. /\ SignedShr(SignedShl(a, XLEN - BYTE), XLEN - BYTE) \in Value
      /\ SignedShr(SignedShl(a, XLEN - HALF), XLEN - HALF) \in Value
  BY <1>1, ShiftIn
<1>5. \A k \in {1, 2, 3} : /\ OverflowingAdd(Shl(a, k), b) \in Value
                           /\ OverflowingAdd(Shl(ZextW(a), k), b) \in Value
  <2> SUFFICES ASSUME NEW k \in {1, 2, 3}
               PROVE  /\ OverflowingAdd(Shl(a, k), b) \in Value
                      /\ OverflowingAdd(Shl(ZextW(a), k), b) \in Value
    OBVIOUS
  <2>1. Shl(a, k) \in Value /\ Shl(ZextW(a), k) \in Value
    BY <1>1, ShiftIn
  <2> QED
    BY <2>1, SumsIn, ValuesAreInts
<1>6. BitXor(a, Complement(b)) \in Value /\ ZeroExtend(a, HALF) \in Value
  BY <1>1, LogicIn, NarrowIn
<1>7. /\ OverflowingAdd(Shl(a, 1), b) \in Value /\ OverflowingAdd(Shl(ZextW(a), 1), b) \in Value
      /\ OverflowingAdd(Shl(a, 2), b) \in Value /\ OverflowingAdd(Shl(ZextW(a), 2), b) \in Value
      /\ OverflowingAdd(Shl(a, 3), b) \in Value /\ OverflowingAdd(Shl(ZextW(a), 3), b) \in Value
  BY <1>5
<1> QED
  BY <1>2, <1>3, <1>4, <1>6, <1>7, Zenon DEF RotateOps, RotateValue

LEMMA ImmediateIn ==
  ASSUME NEW op \in ImmediateOps, NEW a \in Value, NEW imm \in Int
  PROVE  ImmediateValue(op, a, imm) \in Value
<1>1. OverflowingAdd(a, imm) \in Value /\ SextW(OverflowingAdd(a, imm)) \in Value
  BY SumsIn, NarrowIn, ValuesAreInts
<1>2. /\ BitXor(a, Wrap(imm)) \in Value /\ BitOr(a, Wrap(imm)) \in Value
      /\ BitAnd(a, Wrap(imm)) \in Value
  BY LogicIn
<1>3. Flag(Signed(a) < imm) \in Value /\ Lt(a, Wrap(imm)) \in Value
  BY FlagsIn
<1> QED
  BY <1>1, <1>2, <1>3, Zenon DEF ImmediateOps, ImmediateValue

LEMMA ShiftImmediateIn ==
  ASSUME NEW op \in ShiftImmediateOps, NEW a \in Value, NEW k \in 0 .. XLEN - 1
  PROVE  ShiftImmediateValue(op, a, k) \in Value
<1>1. k \in 0 .. XLEN /\ SextW(a) \in Value /\ ZextW(a) \in Value
  BY NarrowIn, ValuesAreInts, Widths
<1>2. Shl(a, k) \in Value /\ Shr(a, k) \in Value /\ SignedShr(a, k) \in Value
  BY <1>1, ShiftIn
<1>3. /\ SextW(Shl(a, k)) \in Value /\ SextW(Shr(ZextW(a), k)) \in Value
      /\ SextW(SignedShr(SextW(a), k)) \in Value
  BY <1>1, ShiftIn, NarrowIn, ValuesAreInts
<1> QED
  BY <1>2, <1>3, Zenon DEF ShiftImmediateOps, ShiftImmediateValue

LEMMA BitImmediateIn ==
  ASSUME NEW op \in BitImmediateOps, NEW a \in Value, NEW imm \in Int
  PROVE  BitImmediateValue(op, a, imm) \in Value
<1>1. \A o \in {"BCLR", "BEXT", "BINV", "BSET"} : SingleBitValue(o, a, imm) \in Value
  BY SingleBitIn DEF SingleBitOps
<1>2. RotateValue("ROR", a, imm) \in Value /\ RotateValue("RORW", a, imm) \in Value
  BY RotateIn DEF RotateOps
<1>3. Shl(ZextW(a), imm % XLEN) \in Value
  BY AmountsIn, NarrowIn, ValuesAreInts, ShiftIn
<1> QED
  BY <1>1, <1>2, <1>3, Zenon DEF BitImmediateOps, BitImmediateValue

LEMMA ComputedIn ==
  ASSUME NEW op \in ValueOps, NEW a \in Value, NEW b \in Value, NEW imm \in Int,
         op \in ShiftImmediateOps => imm \in 0 .. XLEN - 1
  PROVE  ComputedValue(op, a, b, imm) \in Value
<1>1. op \in AluOps => AluValue(op, a, b) \in Value
  BY AluIn
<1>2. op \in MulDivOps => MulDivValue(op, a, b) \in Value
  BY MulDivIn
<1>3. op \in SingleBitOps => SingleBitValue(op, a, b) \in Value
  BY SingleBitIn, ValuesAreInts
<1>4. op \in CountOps => CountValue(op, a, b) \in Value
  BY CountIn
<1>5. op \in RotateOps => RotateValue(op, a, b) \in Value
  BY RotateIn, ValuesAreInts
<1>6. op \in ImmediateOps => ImmediateValue(op, a, imm) \in Value
  BY ImmediateIn
<1>7. op \in ShiftImmediateOps => ShiftImmediateValue(op, a, imm) \in Value
  BY ShiftImmediateIn
<1>8. op \in BitImmediateOps => BitImmediateValue(op, a, imm) \in Value
  BY BitImmediateIn
<1> QED
  BY <1>1, <1>2, <1>3, <1>4, <1>5, <1>6, <1>7, <1>8, Zenon DEF ValueOps, ComputedValue

--------------------------------------------------------------------------------
(* The one way to write a number as a multiple of n and a remainder.       *)
LEMMA DivisionIsUnique ==
  ASSUME NEW n \in Nat, n > 0, NEW q \in Int, NEW r \in 0 .. n - 1
  PROVE  (n * q + r) % n = r /\ (n * q + r) \div n = q
<1> DEFINE x == n * q + r  d == x \div n  s == x % n
<1>1. x \in Int
  OBVIOUS
<1>2. s \in 0 .. n - 1 /\ d \in Int /\ x = n * d + s
  BY <1>1, ModIn
<1>3. n * q + r = n * d + s
  BY <1>2
<1> HIDE DEF x, d, s
<1>4. n * (q - d) = s - r
  BY <1>2, <1>3
<1>5. ~(q - d >= 1)
  <2> SUFFICES ASSUME q - d >= 1 PROVE FALSE
    OBVIOUS
  <2>1. n * (q - d) >= n
    BY <1>2
  <2> QED
    BY <1>2, <1>4, <2>1
<1>6. ~(q - d <= -1)
  <2> SUFFICES ASSUME q - d <= -1 PROVE FALSE
    OBVIOUS
  <2>1. n * (q - d) <= -n
    BY <1>2
  <2> QED
    BY <1>2, <1>4, <2>1
<1>7. q = d
  BY <1>2, <1>5, <1>6
<1> QED
  BY <1>2, <1>3, <1>7 DEF x, d, s

LEMMA ModOfShift ==
  ASSUME NEW x \in Int, NEW n \in Nat, n > 0, NEW k \in Int
  PROVE  (x + n * k) % n = x % n
<1> DEFINE d == x \div n  r == x % n
<1>1. r \in 0 .. n - 1 /\ d \in Int /\ x = n * d + r
  BY ModIn
<1> HIDE DEF d, r
<1>2. x + n * k = n * (d + k) + r /\ d + k \in Int
  BY <1>1
<1>3. (n * (d + k) + r) % n = r
  BY <1>1, <1>2, DivisionIsUnique
<1> QED
  BY <1>2, <1>3 DEF r

(* A register holds a sum whatever was wrapped on the way, and so does a   *)
(* word of it.                                                             *)
LEMMA WrapOfSum ==
  ASSUME NEW x \in Int, NEW y \in Int
  PROVE  Wrap(Wrap(x) + y) = Wrap(x + y)
<1> DEFINE N == 2^XLEN  d == x \div N
<1>1. N \in Nat /\ N > 0
  BY Powers, Widths
<1>2. Wrap(x) \in Int /\ d \in Int /\ x = N * d + Wrap(x)
  <2> DEFINE r == x % N
  <2>1. Wrap(x) = r
    BY DEF Wrap
  <2> HIDE DEF N
  <2>2. r \in 0 .. N - 1 /\ d \in Int /\ x = N * d + r
    BY <1>1, ModIn
  <2> QED
    BY <1>1, <2>1, <2>2
<1> HIDE DEF d
<1>3. (Wrap(x) + y + N * d) % N = (Wrap(x) + y) % N
  <2>1. Wrap(x) + y \in Int
    BY <1>2
  <2> HIDE DEF N
  <2> QED
    BY <1>1, <1>2, <2>1, ModOfShift
<1>4. (Wrap(x) + y) + N * d = x + y
  <2> HIDE DEF N
  <2> QED
    BY <1>1, <1>2
<1> QED
  BY <1>3, <1>4 DEF Wrap

LEMMA WordOfWrap ==
  ASSUME NEW x \in Int
  PROVE  SignedLow(Wrap(x), WORD) = SignedLow(x, WORD)
<1> DEFINE W == 2^WORD  N == 2^XLEN  d == x \div N
<1>1. W \in Nat /\ W > 0 /\ N = W * W /\ N > 0 /\ N \in Nat
  BY Powers, Widths
<1>2. Wrap(x) \in Int /\ d \in Int /\ x = N * d + Wrap(x)
  <2> DEFINE r == x % N
  <2>1. Wrap(x) = r
    BY DEF Wrap
  <2> HIDE DEF N
  <2>2. r \in 0 .. N - 1 /\ d \in Int /\ x = N * d + r
    BY <1>1, ModIn
  <2> QED
    BY <1>1, <2>1, <2>2
<1> HIDE DEF W, N, d
<1>3. Wrap(x) + W * (W * d) = x /\ W * d \in Int
  BY <1>1, <1>2
<1>4. (Wrap(x) + W * (W * d)) % W = Wrap(x) % W
  BY <1>1, <1>2, <1>3, ModOfShift
<1> QED
  BY <1>3, <1>4 DEF SignedLow, W

(* What the widths are to an immediate.                                    *)
LEMMA WordSizes ==
  /\ 2^(WORD - 2) \in Nat /\ 2^(WORD - 2) >= 4
  /\ 2^(WORD - 1) = 2 * 2^(WORD - 2) /\ 2^WORD = 4 * 2^(WORD - 2)
  /\ 2^XLEN >= 4 * 2^WORD
<1>1. WORD - 2 \in 0 .. XLEN - 1 /\ WORD - 1 \in 0 .. XLEN - 1 /\ WORD - 2 >= 2
  BY Widths
<1>2. /\ 2^((WORD - 2) + 1) = 2^(WORD - 2) + 2^(WORD - 2)
      /\ 2^((WORD - 1) + 1) = 2^(WORD - 1) + 2^(WORD - 1)
  BY <1>1, Powers
<1>3. (WORD - 2) + 1 = WORD - 1 /\ (WORD - 1) + 1 = WORD
  BY Widths
<1>4. 2^(WORD - 2) \in Nat /\ 2^(WORD - 1) \in Nat
  <2>1. WORD - 2 \in 0 .. XLEN /\ WORD - 1 \in 0 .. XLEN
    BY Widths
  <2> QED
    BY <2>1, Powers
<1>5. 2^(WORD - 2) >= 4
  <2>1. 2 \in 0 .. WORD - 2 /\ WORD - 2 \in 0 .. XLEN
    BY Widths
  <2>2. 2^2 = 4
    OBVIOUS
  <2> QED
    BY <2>1, <2>2, PowersGrow
<1>6. 2^(WORD - 1) = 2 * 2^(WORD - 2) /\ 2^WORD = 4 * 2^(WORD - 2)
  BY <1>2, <1>3, <1>4
<1>7. 2^XLEN >= 4 * 2^WORD
  <2> DEFINE W == 2^WORD
  <2>1. W \in Nat /\ W >= 4 /\ 2^XLEN = W * W
    BY <1>4, <1>5, <1>6, Widths
  <2> HIDE DEF W
  <2>2. W * W >= 4 * W
    BY <2>1
  <2> QED
    BY <2>1, <2>2 DEF W
<1> QED
  BY <1>4, <1>5, <1>6, <1>7

(* Clearing the lowest bit leaves the highest one.                         *)
LEMMA EvenIsHigh ==
  ASSUME NEW a \in Value, a >= 2^(WORD - 2)
  PROVE  Even(a) \in Nat /\ Even(a) >= 2^(WORD - 2)
<1> DEFINE S == {k \in 0 .. XLEN - 1 : 2^k <= a}
           k == Max(S)
<1>1. WORD - 2 \in S /\ S \subseteq -1 .. XLEN
  BY Widths, WordSizes
<1>2. k \in S /\ \A j \in S : j <= k
  BY <1>1, GreatestLeast, Widths
<1>3. k \in 0 .. XLEN - 1 /\ 2^k <= a /\ k >= WORD - 2 /\ WORD - 2 >= 2
  BY <1>1, <1>2, Widths
<1>4. a < 2^(k + 1)
  <2>1. CASE k + 1 \in 0 .. XLEN - 1
    <3>1. k + 1 \notin S
      BY <1>2, <1>3
    <3>2. 2^(k + 1) \in Nat /\ a \in Nat
      BY <2>1, Powers, Widths DEF Value
    <3> QED
      BY <2>1, <3>1, <3>2
  <2>2. CASE k + 1 = XLEN
    BY <2>2, Widths DEF Value
  <2> QED
    BY <1>3, <2>1, <2>2, Widths
<1> HIDE DEF S, k
<1> DEFINE p == 2^k  q == 2^(XLEN - k - 1)  N == 2^XLEN
<1>5. p \in Nat /\ p >= 2 /\ q \in Nat /\ q > 0 /\ 2^(k + 1) = p + p /\ N = p * (q + q)
  <2>1. XLEN - k - 1 \in 0 .. XLEN - 1 /\ XLEN - k - 1 + 1 = XLEN - k /\ k + (XLEN - k) = XLEN
          /\ k \in Nat /\ XLEN - k \in Nat /\ 1 \in 0 .. k /\ k \in 0 .. XLEN
          /\ XLEN - k - 1 \in 0 .. XLEN
    BY <1>3, Widths
  <2>2. 2^(k + (XLEN - k)) = 2^k * 2^(XLEN - k)
    BY <2>1, PowersAdd, Widths
  <2>3. 2^(XLEN - k) = q + q
    <3>1. 2^((XLEN - k - 1) + 1) = 2^(XLEN - k - 1) + 2^(XLEN - k - 1)
      BY <2>1, Powers
    <3> QED
      BY <2>1, <3>1
  <2>4. p \in Nat /\ q \in Nat /\ q > 0 /\ 2^1 <= p /\ 2^1 = 2
    BY <2>1, Powers, PowersGrow
  <2>5. 2^(k + 1) = p + p
    BY <1>3, Powers
  <2> QED
    BY <2>1, <2>2, <2>3, <2>4, <2>5
<1> HIDE DEF p, q, N
<1>6. k \in BitsOf(a)
  <2>1. a \in Nat /\ a - p \in 0 .. p - 1
    BY <1>3, <1>4, <1>5 DEF Value, p
  <2> DEFINE one == 1  r == a - p
  <2>2. one \in Int /\ p * one + r = a /\ p > 0
    BY <1>5, <2>1
  <2> HIDE DEF one
  <2>3. r \in 0 .. p - 1
    BY <2>1
  <2> HIDE DEF r
  <2>4. a \div p = one
    BY <1>5, <2>2, <2>3, DivisionIsUnique
  <2>5. (a \div p) % 2 = 1
    BY <2>4 DEF one
  <2> QED
    BY <1>3, <2>5 DEF BitsOf, p
<1>7. k \in BitsOf(Complement(1))
  <2> DEFINE h == (q + q) - 1
             r == p - 2
             c == Complement(1)
  <2>1. r \in 0 .. p - 1 /\ h \in Int /\ p > 0
    BY <1>5
  <2>2. c = N - 2
    BY Widths DEF Complement, N
  <2>3. p * h = N - p
    BY <1>5
  <2>4. p * h + r = c
    BY <1>5, <2>2, <2>3
  <2> HIDE DEF r, c
  <2>5. c \div p = h
    <3> HIDE DEF h
    <3> QED
      BY <1>5, <2>1, <2>4, DivisionIsUnique
  <2>6. h % 2 = 1
    BY <1>5
  <2> QED
    BY <1>3, <2>5, <2>6 DEF BitsOf, p, c
<1>8. Even(a) \in Nat /\ Even(a) >= p
  <2> DEFINE T == 0 .. XLEN - 1
             f == [i \in T |-> 2^i]
             B == BitsOf(a) \cap BitsOf(Complement(1))
  <2>1. IsFiniteSet(T) /\ \A i \in T : f[i] \in Nat
    <3>1. 0 \in Int /\ XLEN - 1 \in Int
      BY Widths
    <3>2. IsFiniteSet(T)
      BY <3>1, FS_Interval
    <3>3. \A i \in T : i \in 0 .. XLEN
      BY Widths
    <3> QED
      BY <3>2, <3>3, Powers
  <2>2. B \in SUBSET T /\ k \in B
    BY <1>6, <1>7 DEF BitsOf
  <2>3. f[k] = p
    BY <1>3 DEF p
  <2>4. Even(a) = SumFunctionOnSet(f, B)
    BY DEF Even, BitAnd, ValueOf
  <2> HIDE DEF T, f, B
  <2>5. SumFunctionOnSet(f, B) = f[k] + SumFunctionOnSet(f, B \ {k})
    BY <2>1, <2>2, SumRemove
  <2>6. B \ {k} \in SUBSET T
    BY <2>2
  <2>7. SumFunctionOnSet(f, B \ {k}) \in Nat
    BY <2>1, <2>6, SumInNat
  <2> QED
    BY <1>5, <2>3, <2>4, <2>5, <2>7
<1>9. 2^(WORD - 2) <= p
  BY <1>3, PowersGrow, Widths DEF p
<1> QED
  BY <1>5, <1>8, <1>9, WordSizes

LEMMA WrapOfSmall ==
  ASSUME NEW x \in Int
  PROVE  /\ x \in Value => Wrap(x) = x
         /\ x \in -(2^XLEN) .. -1 => Wrap(x) = x + 2^XLEN
<1> DEFINE N == 2^XLEN
<1>1. N \in Nat /\ N > 0
  BY Powers, Widths
<1>2. ASSUME NEW q \in Int, NEW r \in 0 .. N - 1 PROVE (N * q + r) % N = r
  <2> HIDE DEF N
  <2> QED
    BY <1>1, DivisionIsUnique
<1> HIDE DEF N
<1>3. ASSUME x \in 0 .. N - 1 PROVE x % N = x
  <2>1. (N * 0 + x) % N = x
    BY <1>2, <1>3
  <2> QED
    BY <1>1, <2>1
<1>4. ASSUME x \in -N .. -1 PROVE x % N = x + N
  <2> DEFINE y == x + N  minus == -1
  <2>1. y \in 0 .. N - 1 /\ minus \in Int /\ N * minus + y = x
    BY <1>1, <1>4
  <2> HIDE DEF y, minus
  <2>2. (N * minus + y) % N = y
    BY <1>2, <2>1
  <2> QED
    BY <2>1, <2>2 DEF y
<1> QED
  BY <1>3, <1>4 DEF Wrap, Value, N

--------------------------------------------------------------------------------
(* Two's complement: the one number of the congruence class within reach.  *)
LEMMA LowIs ==
  ASSUME NEW k \in 0 .. XLEN, NEW z \in Int
  PROVE  /\ SignedLow(z, k) \in Int
         /\ -(2^k) <= 2 * SignedLow(z, k) /\ 2 * SignedLow(z, k) < 2^k
         /\ \E j \in Int : SignedLow(z, k) = z + 2^k * j
<1> DEFINE n == 2^k  d == z \div n  r == z % n
<1>1. n \in Nat /\ n > 0
  BY Powers
<1>2. SignedLow(z, k) = IF 2 * r >= n THEN r - n ELSE r
  BY DEF SignedLow
<1> HIDE DEF n
<1>3. r \in 0 .. n - 1 /\ d \in Int /\ z = n * d + r
  BY <1>1, ModIn
<1> HIDE DEF d, r
<1>4. r - n = z + n * (-d - 1) /\ r = z + n * (-d)
  BY <1>1, <1>3
<1>5. -d - 1 \in Int /\ -d \in Int
  BY <1>3
<1> QED
  BY <1>1, <1>2, <1>3, <1>4, <1>5 DEF n

LEMMA LowUnique ==
  ASSUME NEW k \in 0 .. XLEN, NEW z \in Int, NEW s \in Int, NEW j \in Int,
         s = z + 2^k * j, -(2^k) <= 2 * s, 2 * s < 2^k
  PROVE  SignedLow(z, k) = s
<1> DEFINE n == 2^k  t == SignedLow(z, k)
<1>1. n \in Nat /\ n > 0
  BY Powers
<1>2. PICK i \in Int : t = z + n * i
  BY LowIs
<1>3. t \in Int /\ -n <= 2 * t /\ 2 * t < n
  BY LowIs
<1> HIDE DEF n, t
<1>4. s = z + n * j /\ -n <= 2 * s /\ 2 * s < n
  BY DEF n
<1>5. s - t = n * (j - i) /\ j - i \in Int
  BY <1>1, <1>2, <1>3, <1>4
<1>6. ~(j - i >= 1) 
  <2> SUFFICES ASSUME j - i >= 1 PROVE FALSE
    OBVIOUS
  <2>1. n * (j - i) >= n
    BY <1>1
  <2> QED
    BY <1>1, <1>3, <1>4, <1>5, <2>1
<1>7. ~(j - i <= -1)
  <2> SUFFICES ASSUME j - i <= -1 PROVE FALSE
    OBVIOUS
  <2>1. n * (j - i) <= -n
    BY <1>1
  <2> QED
    BY <1>1, <1>3, <1>4, <1>5, <2>1
<1>8. i = j
  BY <1>6, <1>7
<1> QED
  BY <1>2, <1>4, <1>8 DEF t

(* Congruent numbers have the same low bits.                               *)
LEMMA LowOfShift ==
  ASSUME NEW k \in 0 .. XLEN, NEW z \in Int, NEW j \in Int
  PROVE  /\ SignedLow(z + 2^k * j, k) = SignedLow(z, k)
         /\ ZeroExtend(z + 2^k * j, k) = ZeroExtend(z, k)
<1>1. 2^k \in Nat /\ 2^k > 0
  BY Powers
<1>2. (z + 2^k * j) % 2^k = z % 2^k
  BY <1>1, ModOfShift
<1> QED
  BY <1>2 DEF SignedLow, ZeroExtend

LEMMA WrapIs ==
  ASSUME NEW z \in Int, NEW k \in 0 .. XLEN
  PROVE  \E j \in Int : Wrap(z) = z + 2^k * j
<1> DEFINE N == 2^XLEN  n == 2^k  m == 2^(XLEN - k)  d == z \div N
<1>1. N \in Nat /\ N > 0 /\ n \in Nat /\ n > 0 /\ m \in Nat /\ N = n * m
  <2>1. XLEN - k \in 0 .. XLEN /\ XLEN \in 0 .. XLEN /\ k \in Nat /\ XLEN - k \in Nat
         /\ k + (XLEN - k) = XLEN
    BY Widths
  <2>2. 2^(k + (XLEN - k)) = n * m
    BY <2>1, PowersAdd
  <2> QED
    BY <2>1, <2>2, Powers
<1>2. Wrap(z) \in Int /\ d \in Int /\ z = N * d + Wrap(z)
  <2> DEFINE r == z % N
  <2>1. Wrap(z) = r
    BY DEF Wrap
  <2> HIDE DEF N
  <2>2. r \in 0 .. N - 1 /\ d \in Int /\ z = N * d + r
    BY <1>1, ModIn
  <2> QED
    BY <1>1, <2>1, <2>2
<1> HIDE DEF N, n, m, d
<1>3. Wrap(z) = z + n * (-(m * d)) /\ -(m * d) \in Int
  BY <1>1, <1>2
<1> QED
  BY <1>3 DEF n

LEMMA LowOfWrap ==
  ASSUME NEW z \in Int, NEW k \in 0 .. XLEN
  PROVE  SignedLow(Wrap(z), k) = SignedLow(z, k) /\ ZeroExtend(Wrap(z), k) = ZeroExtend(z, k)
<1>1. PICK j \in Int : Wrap(z) = z + 2^k * j
  BY WrapIs
<1> QED
  BY <1>1, LowOfShift

LEMMA LowOfSmall ==
  ASSUME NEW k \in 0 .. XLEN, NEW s \in Int, -(2^k) <= 2 * s, 2 * s < 2^k
  PROVE  SignedLow(s, k) = s /\ SignedLow(Wrap(s), k) = s
<1> DEFINE zero == 0
<1>1. zero \in Int /\ s = s + 2^k * zero
  BY Powers
<1> HIDE DEF zero
<1> QED
  BY <1>1, LowUnique, LowOfWrap

(* A sign-extended word is that word read as two's complement.             *)
LEMMA WordIs ==
  ASSUME NEW z \in Int
  PROVE  /\ Signed(SextW(z)) = SignedLow(z, WORD)
         /\ SignedLow(SextW(z), WORD) = SignedLow(z, WORD)
         /\ ZextW(SextW(z)) = ZextW(z) /\ SextW(SextW(z)) = SextW(z)
         /\ SignedLow(ZextW(z), WORD) = SignedLow(z, WORD)
<1>1. WORD \in 0 .. XLEN /\ XLEN \in 0 .. XLEN
  BY Widths
<1> DEFINE s == SignedLow(z, WORD)
<1>2. PICK j \in Int : s = z + 2^WORD * j
  BY <1>1, LowIs
<1>3. s \in Int /\ -(2^WORD) <= 2 * s /\ 2 * s < 2^WORD
  BY <1>1, LowIs
<1>4. SextW(z) = Wrap(s)
  BY DEF SextW, SignExtend
<1> HIDE DEF s
<1>5. -(2^XLEN) <= 2 * s /\ 2 * s < 2^XLEN
  BY <1>3, WordSizes, Widths
<1>6. Signed(SextW(z)) = s
  BY <1>1, <1>3, <1>4, <1>5, LowOfSmall DEF Signed
<1>7. SignedLow(SextW(z), WORD) = s
  BY <1>1, <1>3, <1>4, LowOfSmall
<1>8. ZextW(SextW(z)) = ZextW(z)
  <2>1. ZeroExtend(Wrap(s), WORD) = ZeroExtend(s, WORD)
    BY <1>1, <1>3, LowOfWrap
  <2>2. ZeroExtend(s, WORD) = ZeroExtend(z, WORD)
    BY <1>1, <1>2, LowOfShift
  <2> QED
    BY <1>4, <2>1, <2>2 DEF ZextW
<1>9. SextW(SextW(z)) = SextW(z)
  BY <1>7 DEF SextW, SignExtend, s
<1>10. SignedLow(ZextW(z), WORD) = s
  <2> DEFINE W == 2^WORD  d == z \div W  r == z % W
  <2>1. W \in Nat /\ W > 0 /\ ZextW(z) = r
    BY <1>1, Powers DEF ZextW, ZeroExtend
  <2> HIDE DEF W
  <2>2. r \in Int /\ d \in Int /\ z = r + W * d
    BY <2>1, ModIn
  <2> HIDE DEF r, d
  <2>3. SignedLow(r + W * d, WORD) = SignedLow(r, WORD)
    BY <1>1, <2>2, LowOfShift DEF W
  <2> QED
    BY <2>1, <2>2, <2>3 DEF s
<1> QED
  BY <1>6, <1>7, <1>8, <1>9, <1>10 DEF s

--------------------------------------------------------------------------------
(* Quotients and remainders, rounded to zero.                              *)
LEMMA TruncatedIs ==
  ASSUME NEW x \in Int, NEW y \in Int, y # 0
  PROVE  /\ TruncatedQ(x, y) \in Int /\ TruncatedR(x, y) \in Int
         /\ TruncatedQ(x, y) * y + TruncatedR(x, y) = x
         /\ Magnitude(TruncatedR(x, y)) < Magnitude(y)
         /\ TruncatedR(x, y) # 0 => Sign(TruncatedR(x, y)) = Sign(x)
         /\ -Magnitude(x) <= TruncatedR(x, y) /\ TruncatedR(x, y) <= Magnitude(x)
         /\ x >= 0 => TruncatedR(x, y) >= 0
         /\ x < 0 => TruncatedR(x, y) <= 0
         /\ y # -1 => -Magnitude(x) <= TruncatedQ(x, y)
                       /\ (x < 0 => TruncatedQ(x, y) < Magnitude(x))
                       /\ TruncatedQ(x, y) <= Magnitude(x)
         /\ y = -1 => TruncatedQ(x, y) = -x
<1> DEFINE u == Magnitude(x)  v == Magnitude(y)  q == u \div v  r == u % v
           Q == TruncatedQ(x, y)  R == TruncatedR(x, y)
<1>1. /\ u \in Nat /\ v \in Nat /\ v > 0
      /\ x >= 0 => u = x /\ Sign(x) = 1
      /\ x < 0 => u = -x /\ Sign(x) = -1
      /\ y >= 0 => v = y /\ Sign(y) = 1
      /\ y < 0 => v = -y /\ Sign(y) = -1
  BY DEF Magnitude, Sign
<1>q. Q = Sign(x) * Sign(y) * q /\ R = Sign(x) * r
  BY DEF TruncatedQ, TruncatedR
<1> HIDE DEF u, v, Q, R
<1>2. r \in 0 .. v - 1 /\ u = v * q + r /\ q \in Nat /\ q <= u /\ r <= u
  <2>1. r \in 0 .. v - 1 /\ u = v * q + r
    BY <1>1, ModIn
  <2>2. q \in Nat /\ q <= u /\ r <= u
    BY <1>1, DivBelow
  <2> QED
    BY <2>1, <2>2
<1>3. v = 1 => q = u /\ r = 0
  BY <1>1, <1>2
<1>4. u > 0 /\ v > 1 => q < u
  <2> SUFFICES ASSUME u > 0, v > 1, q >= u PROVE FALSE
    BY <1>1, <1>2
  <2>1. v * q >= 2 * q
    BY <1>1, <1>2
  <2> QED
    BY <1>1, <1>2, <2>1
<1> HIDE DEF q, r
<1>x. x >= 0 \/ x < 0
  OBVIOUS
<1>y. y >= 0 \/ y < 0
  OBVIOUS
<1>5. CASE x >= 0
  <2>1. R = r /\ u = x /\ Sign(x) = 1 /\ (r # 0 => Sign(r) = 1) /\ Magnitude(r) = r
    BY <1>1, <1>2, <1>5, <1>q DEF Sign, Magnitude
  <2>2. CASE y >= 0
    <3>1. Q = q /\ v = y
      BY <1>1, <1>2, <1>5, <2>2, <1>q
    <3>2. q * y = v * q
      BY <3>1, <1>1, <1>2
    <3>8. Q \in Int /\ Q * y + R = x
      BY <1>1, <1>2, <2>1, <2>2, <3>1, <3>2
    <3>9. /\ R \in Int /\ Magnitude(R) < v /\ (R # 0 => Sign(R) = Sign(x))
          /\ -u <= R /\ R <= u /\ (x >= 0 => R >= 0) /\ (x < 0 => R <= 0)
      BY <1>1, <1>2, <1>5, <2>1
    <3>10. /\ y # -1 => -u <= Q /\ (x < 0 => Q < u) /\ Q <= u
           /\ y = -1 => Q = -x
      BY <1>1, <1>2, <1>5, <2>1, <2>2, <3>1, <3>2
    <3> QED
      BY <3>8, <3>9, <3>10 DEF u, v, Q, R
  <2>3. CASE y < 0
    <3>1. Q = -q /\ v = -y
      BY <1>1, <1>2, <1>5, <2>3, <1>q
    <3>2. (-q) * y = v * q
      BY <3>1, <1>1, <1>2
    <3>8. Q \in Int /\ Q * y + R = x
      BY <1>1, <1>2, <2>1, <2>3, <3>1, <3>2
    <3>9. /\ R \in Int /\ Magnitude(R) < v /\ (R # 0 => Sign(R) = Sign(x))
          /\ -u <= R /\ R <= u /\ (x >= 0 => R >= 0) /\ (x < 0 => R <= 0)
      BY <1>1, <1>2, <1>5, <2>1
    <3>10. /\ y # -1 => -u <= Q /\ (x < 0 => Q < u) /\ Q <= u
           /\ y = -1 => Q = -x
      BY <1>1, <1>2, <1>3, <1>5, <2>1, <2>3, <3>1, <3>2
    <3> QED
      BY <3>8, <3>9, <3>10 DEF u, v, Q, R
  <2> QED
    BY <1>y, <2>2, <2>3
<1>6. CASE x < 0
  <2>1. R = -r /\ u = -x /\ Sign(x) = -1 /\ (r # 0 => Sign(-r) = -1) /\ Magnitude(-r) = r
    BY <1>1, <1>2, <1>6, <1>q DEF Sign, Magnitude
  <2>2. CASE y >= 0
    <3>1. Q = -q /\ v = y
      BY <1>1, <1>2, <1>6, <2>2, <1>q
    <3>2. (-q) * y = -(v * q)
      BY <3>1, <1>1, <1>2
    <3>8. Q \in Int /\ Q * y + R = x
      BY <1>1, <1>2, <2>1, <2>2, <3>1, <3>2
    <3>9. /\ R \in Int /\ Magnitude(R) < v /\ (R # 0 => Sign(R) = Sign(x))
          /\ -u <= R /\ R <= u /\ (x >= 0 => R >= 0) /\ (x < 0 => R <= 0)
      BY <1>1, <1>2, <1>6, <2>1
    <3>10. /\ y # -1 => -u <= Q /\ (x < 0 => Q < u) /\ Q <= u
           /\ y = -1 => Q = -x
      BY <1>1, <1>2, <1>6, <2>1, <2>2, <3>1, <3>2
    <3> QED
      BY <3>8, <3>9, <3>10 DEF u, v, Q, R
  <2>3. CASE y < 0
    <3>1. Q = q /\ v = -y
      BY <1>1, <1>2, <1>6, <2>3, <1>q
    <3>2. q * y = -(v * q)
      BY <3>1, <1>1, <1>2
    <3>3. y # -1 => q < u
      BY <1>1, <1>4, <1>6, <2>1, <2>3, <3>1
    <3>8. Q \in Int /\ Q * y + R = x
      BY <1>1, <1>2, <2>1, <2>3, <3>1, <3>2
    <3>9. /\ R \in Int /\ Magnitude(R) < v /\ (R # 0 => Sign(R) = Sign(x))
          /\ -u <= R /\ R <= u /\ (x >= 0 => R >= 0) /\ (x < 0 => R <= 0)
      BY <1>1, <1>2, <1>6, <2>1
    <3>10. /\ y # -1 => -u <= Q /\ (x < 0 => Q < u) /\ Q <= u
           /\ y = -1 => Q = -x
      BY <1>1, <1>2, <1>3, <1>6, <2>1, <2>3, <3>1, <3>2, <3>3
    <3> QED
      BY <3>8, <3>9, <3>10 DEF u, v, Q, R
  <2> QED
    BY <1>y, <2>2, <2>3
<1> QED
  BY <1>x, <1>5, <1>6

--------------------------------------------------------------------------------
(* Halves of products.                                                     *)

(* Half a product is no longer than its factors: x * y \div (h + h) fits.  *)
LEMMA HalfFits ==
  ASSUME NEW h \in Nat, h > 0, NEW x \in Int, -h <= x, x < h,
         NEW y \in Int, -h <= y, y < h + h
  PROVE  (x * y) \div (h + h) \in Int /\ -h <= (x * y) \div (h + h) /\ (x * y) \div (h + h) < h
<1> DEFINE n == h + h  p == x * y  q == p \div n  r == p % n
<1>1. p \in Int /\ n \in Nat /\ n > 0
  OBVIOUS
<1>2. q \in Int /\ r \in 0 .. n - 1 /\ p = n * q + r
  BY <1>1, ModIn
<1>3. -(n * h) <= p /\ p < n * h
  <2>1. CASE y >= 0
    <3>1. -(h * y) <= p /\ p <= (h - 1) * y
      BY <2>1
    <3>2. h * y <= h * n /\ (h - 1) * y <= h * y /\ (y > 0 => (h - 1) * y < h * y)
      BY <2>1
    <3>3. h * n > 0 /\ h * n = n * h
      BY <1>1
    <3>4. y = 0 => p = 0
      OBVIOUS
    <3> QED
      BY <1>1, <2>1, <3>1, <3>2, <3>3, <3>4
  <2>2. CASE y < 0
    <3> DEFINE v == -y
    <3>0. v \in Nat /\ v > 0 /\ v <= h /\ p = -(x * v)
      BY <2>2
    <3> HIDE DEF v, n, p
    <3>1. -(h * v) <= x * v /\ x * v <= h * v
      BY <3>0
    <3>2. h * v <= h * h
      BY <3>0
    <3>3. h * h < n * h
      BY DEF n
    <3>4. x * v \in Int /\ h * v \in Int /\ h * h \in Int /\ n * h \in Int
      BY <1>1, <3>0
    <3> QED
      BY <1>1, <3>0, <3>1, <3>2, <3>3, <3>4
  <2> QED
    BY <2>1, <2>2
<1> HIDE DEF n, p, q, r
<1>4. q < h
  <2>1. q >= h => n * q >= n * h
    BY <1>1, <1>2
  <2> QED
    BY <1>1, <1>2, <1>3, <2>1
<1>5. q >= -h
  <2>1. q <= -h - 1 => n * q <= n * (-h - 1)
    BY <1>1, <1>2
  <2>2. n * (-h - 1) = -(n * h) - n
    BY <1>1
  <2> QED
    BY <1>1, <1>2, <1>3, <2>1, <2>2
<1> QED
  BY <1>2, <1>4, <1>5 DEF n, p, q

LEMMA SignBit ==
  LET h == 2^(XLEN - 1)
  IN  /\ h \in Nat /\ h > 1 /\ 2^XLEN = h + h
      /\ \A a \in Value : /\ Signed(a) \in Int /\ -h <= Signed(a) /\ Signed(a) < h
                          /\ Signed(a) = IF a < h THEN a ELSE a - 2^XLEN
<1> DEFINE N == 2^XLEN  h == 2^(XLEN - 1)
<1>0. N \in Nat /\ N > 0 /\ h \in Nat /\ h > 1 /\ N = h + h
  <2>1. XLEN - 1 \in 0 .. XLEN - 1 /\ (XLEN - 1) + 1 = XLEN /\ XLEN - 1 \in 0 .. XLEN
    BY Widths
  <2>2. N = h + h
    BY <2>1, Powers
  <2>3. N > 4
    BY Widths, WordSizes
  <2> QED
    BY <2>1, <2>2, <2>3, Powers
<1> HIDE DEF h
<1>1. ASSUME NEW a \in Value
      PROVE  /\ Signed(a) \in Int /\ -h <= Signed(a) /\ Signed(a) < h
             /\ Signed(a) = IF a < h THEN a ELSE a - N
  <2>1. a % N = a
    BY WrapOfSmall, ValuesAreInts DEF Wrap
  <2>2. a \in 0 .. N - 1
    BY DEF Value
  <2>3. Signed(a) = IF 2 * a >= N THEN a - N ELSE a
    BY <2>1 DEF Signed, SignedLow
  <2> HIDE DEF N
  <2> QED
    BY <1>0, <2>2, <2>3
<1> QED
  BY <1>0, <1>1 DEF h

LEMMA WrapOfShift ==
  ASSUME NEW x \in Int, NEW k \in Int
  PROVE  Wrap(x + 2^XLEN * k) = Wrap(x)
  BY Widths, Powers, ModOfShift DEF Wrap

(* The low half of a product, whichever way its factors are read.          *)
LEMMA LowHalf ==
  ASSUME NEW a \in Value, NEW b \in Value
  PROVE  OverflowingMul(a, b) = Wrap(Signed(a) * b)
<1> DEFINE N == 2^XLEN  x == Signed(a)  y == Signed(b)
<1>1. PICK j \in Int : b = y + N * j
  <2> DEFINE zero == 0  one == 1
  <2>1. Signed(b) \in {b, b - N} /\ N \in Nat /\ b \in Int
    BY SignBit, ValuesAreInts, Widths
  <2> HIDE DEF N
  <2>2. b = b + N * zero /\ b = (b - N) + N * one /\ zero \in Int /\ one \in Int
    BY <2>1
  <2> HIDE DEF zero, one
  <2> QED
    BY <2>1, <2>2
<1>2. x \in Int /\ y \in Int /\ N \in Nat
  BY SignBit, Widths
<1> HIDE DEF x, y, N
<1>3. x * b = x * y + N * (x * j) /\ x * y \in Int /\ x * j \in Int
  BY <1>1, <1>2
<1>4. Wrap(x * y + N * (x * j)) = Wrap(x * y)
  BY <1>3, WrapOfShift DEF N
<1> QED
  BY <1>3, <1>4 DEF OverflowingMul, x, y

(* The high half of an unsigned product, computed by halves of a factor.   *)
LEMMA HighHalf ==
  ASSUME NEW a \in Value, NEW b \in Value
  PROVE  MulHighUnsigned(a, b) = (a * b) \div 2^XLEN
<1> DEFINE h == 2^WORD  q == a \div h  r == a % h
           s == (r * b) \div h  e == (r * b) % h
           t == q * b + s
           u == t \div h  f == t % h
<1>1. h \in Nat /\ h > 0 /\ 2^XLEN = h * h /\ WORD = XLEN \div 2
  BY Widths, Powers DEF WORD
<1>2. MulHighUnsigned(a, b) = u
  BY <1>1 DEF MulHighUnsigned
<1>3. a \in Nat /\ b \in Nat
  BY Widths DEF Value
<1> HIDE DEF h
<1>4. q \in Int /\ r \in 0 .. h - 1 /\ a = h * q + r
  BY <1>1, <1>3, ModIn
<1> HIDE DEF q, r
<1>5. r * b \in Int
  BY <1>3, <1>4
<1>6. s \in Int /\ e \in 0 .. h - 1 /\ r * b = h * s + e
  BY <1>1, <1>5, ModIn
<1> HIDE DEF s, e
<1>7. t \in Int
  BY <1>3, <1>4, <1>6
<1>8. a * b = h * t + e
  <2>1. a * b = h * (q * b) + r * b
    BY <1>1, <1>3, <1>4
  <2>2. h * t = h * (q * b) + h * s
    BY <1>1, <1>3, <1>4, <1>6
  <2>3. q * b \in Int /\ h * (q * b) \in Int /\ h * s \in Int /\ r * b \in Int
    BY <1>1, <1>3, <1>4, <1>6
  <2> QED
    BY <1>6, <2>1, <2>2, <2>3
<1> HIDE DEF t
<1>9. u \in Int /\ f \in 0 .. h - 1 /\ t = h * u + f
  BY <1>1, <1>7, ModIn
<1> HIDE DEF u, f
<1> DEFINE n == h * h  g == h * f + e
<1>10. n \in Nat /\ n > 0 /\ g \in 0 .. n - 1
  <2>1. h * f >= 0 /\ h * f <= h * (h - 1) /\ h * (h - 1) = n - h
    BY <1>1, <1>9
  <2>2. n \in Nat /\ n > 0 /\ h * f \in Int
    BY <1>1, <1>9
  <2> QED
    BY <1>1, <1>6, <2>1, <2>2
<1>11. a * b = n * u + g
  <2>1. h * t = h * (h * u) + h * f /\ h * (h * u) = n * u
    BY <1>1, <1>9
  <2>2. h * t \in Int /\ n * u \in Int /\ h * f \in Int
    BY <1>1, <1>7, <1>9
  <2> QED
    BY <1>6, <1>8, <2>1, <2>2
<1> HIDE DEF n, g
<1>12. (n * u + g) \div n = u
  BY <1>9, <1>10, DivisionIsUnique
<1> QED
  BY <1>1, <1>2, <1>11, <1>12 DEF n

LEMMA HalvesOfProduct ==
  ASSUME NEW a \in Value, NEW b \in Value
  PROVE  /\ Signed(MulHighSigned(a, b)) * 2^XLEN + OverflowingMul(a, b) = Signed(a) * Signed(b)
         /\ Signed(MulHighSignedUnsigned(a, b)) * 2^XLEN + OverflowingMul(a, b) = Signed(a) * b
         /\ Wrap(MulHighUnsigned(a, b) - MulHighSignedUnsigned(a, b))
              = IF Signed(a) < 0 THEN b ELSE 0
<1> DEFINE N == 2^XLEN  h == 2^(XLEN - 1)  x == Signed(a)  y == Signed(b)
<1>1. /\ N \in Nat /\ N > 0 /\ h \in Nat /\ h > 0 /\ N = h + h
      /\ x \in Int /\ -h <= x /\ x < h
      /\ y \in Int /\ -h <= y /\ y < h
      /\ b \in Int /\ -h <= b /\ b < h + h
      /\ a \in Int /\ x = IF a < h THEN a ELSE a - N
      /\ a >= 0 /\ a < N /\ b >= 0
  BY SignBit, Widths DEF Value
<1>2. ASSUME NEW z \in Int, -h <= z, z < h + h
      PROVE  /\ (x * z) \div N \in Int
             /\ Signed(Wrap((x * z) \div N)) = (x * z) \div N
             /\ x * z = N * ((x * z) \div N) + Wrap(x * z)
  <2> DEFINE p == x * z  q == p \div N  r == p % N
  <2>1. Wrap(p) = r
    BY DEF Wrap
  <2>2. XLEN \in 0 .. XLEN
    BY Widths
  <2>3. \A s \in Int : -N <= 2 * s /\ 2 * s < N => SignedLow(Wrap(s), XLEN) = s
    BY <2>2, LowOfSmall
  <2> HIDE DEF N, x
  <2>4. p \in Int
    BY <1>1, <1>2
  <2>5. q \in Int /\ -h <= q /\ q < h
    <3> HIDE DEF h
    <3>1. h \in Nat /\ h > 0 /\ x \in Int /\ -h <= x /\ x < h /\ N = h + h
      BY <1>1
    <3> QED
      BY <1>2, <3>1, HalfFits
  <2> HIDE DEF h
  <2>6. SignedLow(Wrap(q), XLEN) = q
    BY <1>1, <2>3, <2>5
  <2>7. p = N * q + r
    BY <1>1, <2>4, ModIn
  <2> QED
    BY <2>1, <2>5, <2>6, <2>7 DEF Signed
<1>3. Signed(MulHighSigned(a, b)) * N + OverflowingMul(a, b) = x * y
  <2> DEFINE q == (x * y) \div N  s == Signed(MulHighSigned(a, b))  l == OverflowingMul(a, b)
  <2>1. q \in Int /\ Signed(Wrap(q)) = q /\ x * y = N * q + Wrap(x * y)
    BY <1>1, <1>2
  <2>2. s = q /\ l = Wrap(x * y)
    BY <2>1 DEF MulHighSigned, OverflowingMul
  <2> HIDE DEF N, x, y, q, s, l
  <2> QED
    BY <1>1, <2>1, <2>2 DEF s, l
<1>4. Signed(MulHighSignedUnsigned(a, b)) * N + OverflowingMul(a, b) = x * b
  <2> DEFINE q == (x * b) \div N  s == Signed(MulHighSignedUnsigned(a, b))  l == OverflowingMul(a, b)
  <2>1. q \in Int /\ Signed(Wrap(q)) = q /\ x * b = N * q + Wrap(x * b)
    BY <1>1, <1>2
  <2>2. s = q
    BY <2>1 DEF MulHighSignedUnsigned
  <2>3. l = Wrap(x * b)
    BY LowHalf
  <2> HIDE DEF N, x, y, q, s, l
  <2> QED
    BY <1>1, <2>1, <2>2, <2>3 DEF s, l
<1>5. Wrap(MulHighUnsigned(a, b) - MulHighSignedUnsigned(a, b)) = IF x < 0 THEN b ELSE 0
  <2> DEFINE p == x * b  q == p \div N  r == p % N  d == IF x < 0 THEN b ELSE 0
  <2>1. MulHighUnsigned(a, b) = (a * b) \div N /\ MulHighSignedUnsigned(a, b) = Wrap(q)
    BY HighHalf DEF MulHighSignedUnsigned
  <2>2. Wrap(d) = d /\ d \in Int
    BY WrapOfSmall, FlagsIn, ValuesAreInts
  <2>3. (a * b) \div N = q + d
    <3> HIDE DEF N, x
    <3>0. p \in Int
      BY <1>1
    <3> HIDE DEF p
    <3>1. q \in Int /\ r \in 0 .. N - 1 /\ p = N * q + r
      BY <1>1, <3>0, ModIn
    <3>2. a * b = p + N * d
      <4>1. CASE x < 0
        <5>1. a = x + N
          BY <1>1, <4>1
        <5>2. (x + N) * b = x * b + N * b
          BY <1>1
        <5> QED
          BY <4>1, <5>1, <5>2 DEF p
      <4>2. CASE ~(x < 0)
        <5>1. a = x
          BY <1>1, <4>2
        <5> QED
          BY <1>1, <4>2, <5>1 DEF p
      <4> QED
        BY <4>1, <4>2
    <3> HIDE DEF q, r, d
    <3>3. a * b = N * (q + d) + r /\ q + d \in Int
      BY <1>1, <2>2, <3>0, <3>1, <3>2
    <3>4. (N * (q + d) + r) \div N = q + d
      BY <1>1, <3>1, <3>3, DivisionIsUnique
    <3> QED
      BY <3>3, <3>4
  <2>4. q \in Int
    BY <1>1, <1>2
  <2> HIDE DEF q, d
  <2>5. Wrap((q + d) - Wrap(q)) = Wrap(d)
    <3>1. PICK j \in Int : Wrap(q) = q + 2^XLEN * j
      <4>1. XLEN \in 0 .. XLEN
        BY Widths
      <4> QED
        BY <2>4, <4>1, WrapIs
    <3> HIDE DEF N, x
    <3>2. (q + d) - Wrap(q) = d + N * (-j) /\ -j \in Int
      BY <1>1, <2>2, <2>4, <3>1 DEF N
    <3>3. Wrap(d + N * (-j)) = Wrap(d)
      BY <2>2, <3>2, WrapOfShift DEF N
    <3> QED
      BY <3>2, <3>3
  <2> QED
    BY <2>1, <2>2, <2>3, <2>5 DEF d
<1> QED
  BY <1>3, <1>4, <1>5

--------------------------------------------------------------------------------
(* A register is the number that its bits stand for, and the bits are      *)
(* those of the number.                                                    *)
Index == 0 .. XLEN - 1

LEMMA IndexFacts ==
  /\ XLEN \in Nat /\ XLEN > 0 /\ IsFiniteSet(Index)
  /\ \A S : S \subseteq Index => IsFiniteSet(S)
  /\ \A k \in Index : k \in 0 .. XLEN /\ k + 1 \in 0 .. XLEN /\ 2^k \in Nat /\ 2^k > 0
                       /\ 2^(k + 1) = 2^k + 2^k
<1>1. XLEN \in Nat /\ XLEN > 0 /\ 0 \in Int /\ XLEN - 1 \in Int
  BY Widths
<1>2. IsFiniteSet(Index)
  BY <1>1, FS_Interval DEF Index
<1>3. \A S : S \subseteq Index => IsFiniteSet(S)
  BY <1>2, FS_Subset
<1>4. \A k \in Index : k \in 0 .. XLEN /\ k + 1 \in 0 .. XLEN
  BY <1>1 DEF Index
<1>5. \A k \in Index : 2^k \in Nat /\ 2^k > 0 /\ 2^(k + 1) = 2^k + 2^k
  BY <1>4, Powers DEF Index
<1> QED
  BY <1>1, <1>2, <1>3, <1>4, <1>5

LEMMA ValueIs ==
  /\ ValueOf({}) = 0
  /\ \A S \in SUBSET Index : ValueOf(S) \in Nat
  /\ \A S \in SUBSET Index : \A x \in S : ValueOf(S) = 2^x + ValueOf(S \ {x})
<1> DEFINE f == [i \in Index |-> 2^i]
<1>1. \A S : ValueOf(S) = SumFunctionOnSet(f, S)
  BY DEF ValueOf, Index
<1>2. \A x \in Index : f[x] = 2^x /\ f[x] \in Nat
  BY IndexFacts
<1> HIDE DEF f
<1>3. IsFiniteSet({}) /\ IsFiniteSet(Index)
  BY IndexFacts, FS_EmptySet
<1>4. SumFunctionOnSet(f, {}) = 0
  BY <1>3, SumIs
<1>5. \A S \in SUBSET Index : SumFunctionOnSet(f, S) \in Nat
  BY <1>2, <1>3, SumInNat
<1>6. \A S \in SUBSET Index : \A x \in S :
        SumFunctionOnSet(f, S) = f[x] + SumFunctionOnSet(f, S \ {x})
  BY <1>2, <1>3, SumRemove
<1> QED
  BY <1>1, <1>2, <1>4, <1>5, <1>6

(* A law that every set inherits from a smaller one holds of every set.    *)
LEMMA EverySet ==
  ASSUME NEW P, {} \in P, \A S \in SUBSET Index : S # {} /\ (\E x \in S : S \ {x} \in P) => S \in P
  PROVE  SUBSET Index \subseteq P
<1> DEFINE B == (SUBSET Index) \ P
<1> SUFFICES ASSUME B # {} PROVE FALSE
  OBVIOUS
<1>0. B \subseteq SUBSET Index
  OBVIOUS
<1>1. PICK u \in B : \A v \in B : v \subseteq u => v = u
  <2> HIDE DEF B
  <2> QED
    BY <1>0, IndexFacts, SmallestSubset
<1>2. u # {}
  BY <1>1
<1>3. PICK x \in u : TRUE
  BY <1>2
<1>4. u \ {x} \in P
  BY <1>1, <1>3
<1> QED
  BY <1>1, <1>2, <1>3, <1>4

LEMMA ValueOfUnion ==
  ASSUME NEW A \in SUBSET Index, NEW B \in SUBSET Index, A \cap B = {}
  PROVE  ValueOf(A \cup B) = ValueOf(A) + ValueOf(B)
<1> DEFINE P == {S \in SUBSET Index : A \cap S = {} => ValueOf(A \cup S) = ValueOf(A) + ValueOf(S)}
<1>1. {} \in P
  <2>1. A \cup {} = A
    OBVIOUS
  <2> QED
    BY <2>1, ValueIs
<1>2. ASSUME NEW S \in SUBSET Index, NEW x \in S, S \ {x} \in P
      PROVE  S \in P
  <2> SUFFICES ASSUME A \cap S = {} PROVE ValueOf(A \cup S) = ValueOf(A) + ValueOf(S)
    OBVIOUS
  <2>1. ValueOf(A \cup (S \ {x})) = ValueOf(A) + ValueOf(S \ {x})
    BY <1>2
  <2>2. ValueOf(S) = 2^x + ValueOf(S \ {x})
    BY ValueIs
  <2>3. ValueOf(A \cup S) = 2^x + ValueOf((A \cup S) \ {x})
    <3>1. A \cup S \in SUBSET Index /\ x \in A \cup S
      OBVIOUS
    <3> QED
      BY <3>1, ValueIs
  <2>4. (A \cup S) \ {x} = A \cup (S \ {x})
    OBVIOUS
  <2>5. ValueOf(A) \in Nat /\ ValueOf(S \ {x}) \in Nat /\ 2^x \in Nat
    BY ValueIs, IndexFacts
  <2> DEFINE p == 2^x  r == ValueOf(S \ {x})  u == ValueOf(A)
  <2>6. ValueOf(A \cup S) = p + (u + r) /\ ValueOf(S) = p + r
    BY <2>1, <2>2, <2>3, <2>4
  <2>7. p \in Nat /\ r \in Nat /\ u \in Nat
    BY <2>5
  <2> HIDE DEF p, r
  <2> QED
    BY <2>6, <2>7
<1>3. SUBSET Index \subseteq P
  <2> HIDE DEF P
  <2> QED
    BY <1>1, <1>2, EverySet
<1> QED
  BY <1>3

(* Bits from k on are a multiple of 2^k; bits below k stay below it.       *)
LEMMA HighBits ==
  ASSUME NEW k \in 0 .. XLEN, NEW S \in SUBSET (k .. XLEN - 1)
  PROVE  \E c \in Nat : ValueOf(S) = 2^k * c
<1> DEFINE P == {T \in SUBSET Index : T \subseteq k .. XLEN - 1 => \E c \in Nat : ValueOf(T) = 2^k * c}
<1>0. 2^k \in Nat
  BY Powers
<1>1. {} \in P
  <2>1. 2^k * 0 = 0
    BY <1>0
  <2> QED
    BY <2>1, ValueIs
<1>2. ASSUME NEW T \in SUBSET Index, NEW x \in T, T \ {x} \in P
      PROVE  T \in P
  <2> SUFFICES ASSUME T \subseteq k .. XLEN - 1 PROVE \E c \in Nat : ValueOf(T) = 2^k * c
    OBVIOUS
  <2>1. PICK c \in Nat : ValueOf(T \ {x}) = 2^k * c
    BY <1>2
  <2>2. ValueOf(T) = 2^x + ValueOf(T \ {x})
    BY ValueIs
  <2> DEFINE d == x - k
  <2>3. k \in Nat /\ d \in Nat /\ k + d = x /\ k + d <= XLEN /\ d \in 0 .. XLEN
    BY Widths
  <2>4. 2^(k + d) = 2^k * 2^d /\ 2^d \in Nat
    BY <2>3, PowersAdd, Powers
  <2>5. 2^x = 2^k * 2^d
    BY <2>3, <2>4
  <2> DEFINE e == 2^d
  <2> HIDE DEF d, e
  <2>6. 2^x = 2^k * e /\ e \in Nat
    BY <2>4, <2>5 DEF e
  <2>7. ValueOf(T) = 2^k * (e + c) /\ e + c \in Nat
    BY <1>0, <2>1, <2>2, <2>6
  <2> QED
    BY <2>7
<1>3. SUBSET Index \subseteq P
  <2> HIDE DEF P
  <2> QED
    BY <1>1, <1>2, EverySet
<1>4. S \in SUBSET Index
  BY Widths DEF Index
<1> QED
  BY <1>3, <1>4

LEMMA LowBits ==
  ASSUME NEW k \in 0 .. XLEN, NEW S \in SUBSET (0 .. k - 1)
  PROVE  ValueOf(S) \in 0 .. 2^k - 1
<1> DEFINE f == [i \in Index |-> 2^i]
           g == [i \in 0 .. XLEN |-> 2^i]
<1>1. \A j \in 0 .. k : g[j] = 2^j /\ g[j] \in Nat
  <2>1. 0 .. k \subseteq 0 .. XLEN
    BY Widths
  <2> QED
    BY <2>1, Powers
<1>2. ASSUME NEW j \in 0 .. k - 1
      PROVE  f[j] \in Nat /\ f[j] + g[j] <= g[j + 1]
  <2>1. j \in Index /\ j \in 0 .. XLEN /\ j + 1 \in 0 .. XLEN
    BY Widths DEF Index
  <2>2. 2^j \in Nat /\ 2^(j + 1) = 2^j + 2^j
    BY <2>1, IndexFacts
  <2> QED
    BY <2>1, <2>2
<1>3. ValueOf(S) = SumFunctionOnSet(f, S)
  BY DEF ValueOf, Index
<1>4. g[0] = 1 /\ g[k] = 2^k /\ k \in Nat /\ 2^k \in Nat
  BY <1>1, Widths, Powers
<1> HIDE DEF f, g
<1>5. SumFunctionOnSet(f, S) \in Nat /\ SumFunctionOnSet(f, S) + g[0] <= g[k]
  BY <1>1, <1>2, <1>4, SumBelow
<1> QED
  BY <1>3, <1>4, <1>5

(* The k low bits are the remainder by 2^k, the others the quotient.       *)
LEMMA SplitAt ==
  ASSUME NEW k \in 0 .. XLEN, NEW S \in SUBSET Index
  PROVE  /\ ValueOf(S) % 2^k = ValueOf(S \cap 0 .. k - 1)
         /\ ValueOf(S) = ValueOf(S \cap 0 .. k - 1) + ValueOf(S \cap k .. XLEN - 1)
<1> DEFINE L == S \cap 0 .. k - 1  H == S \cap k .. XLEN - 1  n == 2^k
<1>1. L \in SUBSET Index /\ H \in SUBSET Index /\ L \cap H = {} /\ L \cup H = S
       /\ L \in SUBSET (0 .. k - 1) /\ H \in SUBSET (k .. XLEN - 1)
  <2>1. \A i \in Index : i \in 0 .. k - 1 \/ i \in k .. XLEN - 1
    BY Widths DEF Index
  <2>2. (0 .. k - 1) \cap (k .. XLEN - 1) = {}
    BY Widths
  <2> QED
    BY <2>1, <2>2
<1> HIDE DEF L, H
<1>2. ValueOf(S) = ValueOf(L) + ValueOf(H)
  BY <1>1, ValueOfUnion
<1>3. PICK c \in Nat : ValueOf(H) = n * c
  BY <1>1, HighBits
<1>4. ValueOf(L) \in 0 .. n - 1 /\ n \in Nat /\ n > 0
  BY <1>1, LowBits, Powers
<1> DEFINE l == ValueOf(L)
<1> HIDE DEF n, l
<1>5. l \in 0 .. n - 1 /\ ValueOf(S) = n * c + l
  BY <1>2, <1>3, <1>4 DEF l
<1>6. (n * c + l) % n = l
  BY <1>4, <1>5, DivisionIsUnique
<1> QED
  BY <1>2, <1>5, <1>6 DEF n, l, L, H

LEMMA BitsOfValue ==
  ASSUME NEW S \in SUBSET Index
  PROVE  BitsOf(ValueOf(S)) = S
<1> DEFINE v == ValueOf(S)
<1> SUFFICES ASSUME NEW k \in Index PROVE ((v \div 2^k) % 2 = 1) <=> k \in S
  BY DEF BitsOf, Index
<1> DEFINE n == 2^k  L == S \cap 0 .. k - 1  H == S \cap k .. XLEN - 1  U == S \cap k + 1 .. XLEN - 1
           l == ValueOf(L)  b == IF k \in S THEN 1 ELSE 0
<1>1. n \in Nat /\ n > 0 /\ k \in 0 .. XLEN /\ k + 1 \in 0 .. XLEN /\ 2^(k + 1) = n + n
  BY IndexFacts
<1>2. v = l + ValueOf(H)
  BY <1>1, SplitAt
<1>3. l \in 0 .. n - 1
  BY <1>1, LowBits
<1>4. PICK c \in Nat : ValueOf(U) = (n + n) * c
  <2>1. U \in SUBSET (k + 1 .. XLEN - 1)
    OBVIOUS
  <2> HIDE DEF U, n
  <2>2. \E d \in Nat : ValueOf(U) = 2^(k + 1) * d
    BY <1>1, <2>1, HighBits
  <2> QED
    BY <1>1, <2>2
<1>5. ValueOf(H) = n * (b + 2 * c)
  <2>1. H \in SUBSET Index /\ U \in SUBSET Index /\ ValueOf(U) \in Nat
    <3>1. H \in SUBSET Index /\ U \in SUBSET Index
      BY Widths DEF Index
    <3> QED
      BY <3>1, ValueIs
  <2>2. CASE k \in S
    <3>1. k \in H /\ H \ {k} = U
      BY <2>2, Widths DEF Index
    <3> HIDE DEF H, U
    <3>2. ValueOf(H) = n + ValueOf(U)
      BY <2>1, <3>1, ValueIs
    <3> HIDE DEF n
    <3> QED
      BY <1>1, <1>4, <2>2, <3>2
  <2>3. CASE k \notin S
    <3>1. H = U
      BY <2>3, Widths DEF Index
    <3>2. b = 0 /\ n * (0 + 2 * c) = (n + n) * c
      <4> HIDE DEF n
      <4> QED
        BY <1>1, <2>3
    <3> HIDE DEF n, b
    <3> QED
      BY <1>4, <3>1, <3>2
  <2> QED
    BY <2>2, <2>3
<1> DEFINE q == b + 2 * c
<1>6. q \in Int
  OBVIOUS
<1>7. v = n * q + l
  <2>1. ValueOf(H) = n * q
    BY <1>5
  <2> HIDE DEF n, q, l, H, v
  <2> QED
    BY <1>1, <1>2, <1>3, <1>6, <2>1
<1>8. v \div n = q
  <2> HIDE DEF n, q, l, v
  <2>1. (n * q + l) \div n = q
    BY <1>1, <1>3, <1>6, DivisionIsUnique
  <2> QED
    BY <1>7, <2>1
<1>9. q % 2 = b
  OBVIOUS
<1> QED
  BY <1>8, <1>9

LEMMA ValueOfBits ==
  ASSUME NEW a \in Value
  PROVE  ValueOf(BitsOf(a)) = a
<1> DEFINE L(k) == BitsOf(a) \cap 0 .. k - 1
           P == {k \in 0 .. XLEN : ValueOf(L(k)) = a % 2^k}
<1>0. a \in Nat /\ BitsOf(a) \in SUBSET Index
  BY Widths DEF Value, BitsOf, Index
<1>1. 0 \in P
  <2>1. L(0) = {} /\ 2^0 = 1 /\ 0 \in 0 .. XLEN
    BY Widths
  <2>2. a % 1 = 0
    BY <1>0
  <2> QED
    BY <2>1, <2>2, ValueIs
<1>2. ASSUME NEW k \in 0 .. XLEN - 1, k \in P PROVE k + 1 \in P
  <2> DEFINE n == 2^k  q == a \div n  r == a % n  b == q % 2  h == q \div 2
  <2>1. n \in Nat /\ n > 0 /\ k + 1 \in 0 .. XLEN /\ 2^(k + 1) = n + n /\ k \in Index
    BY IndexFacts DEF Index
  <2> DEFINE M == L(k + 1)
  <2>2. M \in SUBSET Index /\ L(k) \in SUBSET Index /\ ValueOf(L(k)) = r
    BY <1>0, <1>2
  <2>3. k \in BitsOf(a) <=> b = 1
    BY <1>2 DEF BitsOf
  <2>4. ValueOf(M) = r + n * b
    <3>0. b \in {0, 1} /\ r \in Nat
      <4> HIDE DEF n
      <4> QED
        BY <1>0, <2>1
    <3>1. CASE k \in BitsOf(a)
      <4>1. k \in M /\ M \ {k} = L(k)
        BY <1>0, <3>1, Widths DEF Index
      <4> HIDE DEF M, L
      <4>2. ValueOf(M) = n + ValueOf(L(k))
        BY <2>2, <4>1, ValueIs
      <4> HIDE DEF n, b, r
      <4> QED
        BY <2>1, <2>2, <2>3, <3>0, <3>1, <4>2
    <3>2. CASE k \notin BitsOf(a)
      <4>1. M = L(k)
        BY <1>0, <3>2, Widths DEF Index
      <4> HIDE DEF M, L, n, b, r
      <4> QED
        BY <2>1, <2>2, <2>3, <3>0, <3>2, <4>1
    <3> QED
      BY <3>1, <3>2
  <2> HIDE DEF n, M, L, P
  <2>5. q \in Int /\ r \in 0 .. n - 1 /\ a = n * q + r
    BY <1>0, <2>1, ModIn
  <2> HIDE DEF q, r
  <2>6. b \in 0 .. 1 /\ h \in Int /\ q = 2 * h + b
    BY <2>5
  <2> HIDE DEF b, h
  <2> DEFINE nn == n + n  s == r + n * b
  <2>7. nn \in Nat /\ nn > 0 /\ s \in 0 .. nn - 1 /\ a = nn * h + s
    <3>1. b = 0 \/ b = 1
      BY <2>6
    <3>2. n * b \in {0, n}
      BY <2>1, <3>1
    <3>3. n * q = n * (2 * h) + n * b
      BY <2>1, <2>6
    <3>4. n * (2 * h) = (n + n) * h
      BY <2>1, <2>6
    <3>5. n * q \in Int /\ n * b \in Int /\ n * (2 * h) \in Int
      BY <2>1, <2>5, <2>6
    <3> QED
      BY <2>1, <2>5, <3>2, <3>3, <3>4, <3>5
  <2> HIDE DEF nn, s
  <2>8. (nn * h + s) % nn = s
    BY <2>6, <2>7, DivisionIsUnique
  <2>9. ValueOf(M) = a % nn
    BY <2>4, <2>7, <2>8 DEF s
  <2> QED
    BY <2>1, <2>9 DEF P, M, nn
<1>3. XLEN \in P
  <2> HIDE DEF P
  <2>1. 0 .. XLEN \subseteq P
    BY <1>1, <1>2, UpTo, Widths
  <2> QED
    BY <2>1, Widths
<1>4. L(XLEN) = BitsOf(a)
  BY <1>0 DEF Index
<1>5. a % 2^XLEN = a
  BY <1>0, WrapOfSmall DEF Wrap
<1> QED
  BY <1>3, <1>4, <1>5

--------------------------------------------------------------------------------
(* The bits of what the operations on bits answer.                         *)
LEMMA BitsIn == \A a : BitsOf(a) \in SUBSET Index
  BY DEF BitsOf, Index

LEMMA BitsOfLogic ==
  ASSUME NEW a, NEW b
  PROVE  BitsOf(BitOr(a, b)) = BitsOf(a) \cup BitsOf(b)
<1> DEFINE U == BitsOf(a) \cup BitsOf(b)
<1>1. U \in SUBSET Index
  BY BitsIn
<1> HIDE DEF U
<1> QED
  BY <1>1, BitsOfValue DEF BitOr, U

LEMMA BitsOfLow ==
  ASSUME NEW a \in Value, NEW k \in 0 .. XLEN
  PROVE  /\ a % 2^k = ValueOf(BitsOf(a) \cap 0 .. k - 1)
         /\ BitsOf(a % 2^k) = BitsOf(a) \cap 0 .. k - 1
<1> DEFINE B == BitsOf(a)  L == B \cap 0 .. k - 1
<1>1. B \in SUBSET Index /\ L \in SUBSET Index
  BY BitsIn
<1>2. ValueOf(B) = a
  BY ValueOfBits
<1>3. ValueOf(B) % 2^k = ValueOf(L)
  BY <1>1, SplitAt
<1>4. BitsOf(ValueOf(L)) = L
  BY <1>1, BitsOfValue
<1> QED
  BY <1>2, <1>3, <1>4

LEMMA NoBits ==
  ASSUME NEW a \in Value
  PROVE  a # 0 <=> BitsOf(a) # {}
<1>1. ValueOf(BitsOf(a)) = a /\ ValueOf({}) = 0 /\ BitsOf(ValueOf({})) = {}
  BY ValueOfBits, ValueIs, BitsOfValue
<1> QED
  BY <1>1

LEMMA AllBits == ValueOf(Index) = 2^XLEN - 1
<1> DEFINE P == {k \in 0 .. XLEN : ValueOf(0 .. k - 1) = 2^k - 1}
<1>1. 0 \in P
  <2>1. 0 .. 0 - 1 = {} /\ 2^0 = 1 /\ 0 \in 0 .. XLEN
    BY Widths
  <2> QED
    BY <2>1, ValueIs
<1>2. ASSUME NEW k \in 0 .. XLEN - 1, k \in P PROVE k + 1 \in P
  <2> DEFINE M == 0 .. (k + 1) - 1  L == 0 .. k - 1
  <2>1. M \in SUBSET Index /\ k \in M /\ M \ {k} = L
    BY Widths DEF Index
  <2> HIDE DEF M
  <2>2. ValueOf(M) = 2^k + ValueOf(L)
    BY <2>1, ValueIs
  <2>3. 2^k \in Nat /\ 2^(k + 1) = 2^k + 2^k /\ k + 1 \in 0 .. XLEN
    BY IndexFacts DEF Index
  <2>4. ValueOf(L) = 2^k - 1
    BY <1>2
  <2>5. ValueOf(M) = 2^(k + 1) - 1
    BY <2>2, <2>3, <2>4
  <2> QED
    BY <2>3, <2>5 DEF M
<1>3. XLEN \in P
  <2> HIDE DEF P
  <2>1. 0 .. XLEN \subseteq P
    BY <1>1, <1>2, UpTo, Widths
  <2> QED
    BY <2>1, Widths
<1> QED
  BY <1>3 DEF Index

LEMMA BitsOfComplement ==
  ASSUME NEW a \in Value
  PROVE  BitsOf(Complement(a)) = Index \ BitsOf(a)
<1> DEFINE B == BitsOf(a)  C == Index \ B
<1>1. B \in SUBSET Index /\ C \in SUBSET Index /\ B \cap C = {} /\ B \cup C = Index
  BY BitsIn
<1>2. ValueOf(Index) = ValueOf(B) + ValueOf(C)
  <2> HIDE DEF B, C
  <2> QED
    BY <1>1, ValueOfUnion
<1>3. ValueOf(B) = a /\ ValueOf(C) \in Nat /\ a \in Nat /\ 2^XLEN \in Nat
  BY <1>1, ValueOfBits, ValueIs, Widths DEF Value
<1> DEFINE c == ValueOf(C)  t == 2^XLEN
<1>4. c \in Nat /\ t - 1 = a + c
  BY <1>2, <1>3, AllBits
<1>5. Complement(a) = c
  <2>1. Complement(a) = t - 1 - a
    BY DEF Complement
  <2> HIDE DEF c, t
  <2> QED
    BY <1>3, <1>4, <2>1
<1> QED
  BY <1>1, <1>5, BitsOfValue

(* Shifted by k, every bit weighs 2^k as much.                             *)
LEMMA ShiftedValue ==
  ASSUME NEW k \in 0 .. XLEN, NEW S \in SUBSET (0 .. XLEN - 1 - k)
  PROVE  ValueOf({i + k : i \in S}) = 2^k * ValueOf(S)
<1> DEFINE Up(T) == {i + k : i \in T}
           P == {T \in SUBSET Index : T \subseteq 0 .. XLEN - 1 - k => ValueOf(Up(T)) = 2^k * ValueOf(T)}
<1>0. 2^k \in Nat
  BY Powers
<1>1. {} \in P
  <2>1. 2^k * 0 = 0 /\ Up({}) = {}
    BY <1>0
  <2> QED
    BY <2>1, ValueIs
<1>2. ASSUME NEW T \in SUBSET Index, NEW x \in T, T \ {x} \in P
      PROVE  T \in P
  <2> SUFFICES ASSUME T \subseteq 0 .. XLEN - 1 - k PROVE ValueOf(Up(T)) = 2^k * ValueOf(T)
    OBVIOUS
  <2>1. ValueOf(Up(T \ {x})) = 2^k * ValueOf(T \ {x})
    BY <1>2
  <2>2. ValueOf(T) = 2^x + ValueOf(T \ {x})
    BY ValueIs
  <2>3. /\ Up(T) \in SUBSET Index /\ x + k \in Up(T)
        /\ Up(T) \ {x + k} = Up(T \ {x})
    <3>1. \A i \in T : i \in Int /\ i + k \in Index
      BY Widths DEF Index
    <3>2. \A i \in T : i + k = x + k => i = x
      BY <3>1
    <3>3. \A i \in T \ {x} : i + k # x + k
      BY <3>2
    <3> QED
      BY <3>1, <3>2, <3>3
  <2>4. ValueOf(Up(T)) = 2^(x + k) + ValueOf(Up(T \ {x}))
    <3> HIDE DEF Up
    <3>1. \A y \in Up(T) : ValueOf(Up(T)) = 2^y + ValueOf(Up(T) \ {y})
      BY <2>3, ValueIs
    <3>2. ValueOf(Up(T)) = 2^(x + k) + ValueOf(Up(T) \ {x + k})
      BY <2>3, <3>1
    <3> QED
      BY <2>3, <3>2
  <2>5. 2^(x + k) = 2^x * 2^k
    <3>1. x \in Nat /\ k \in Nat /\ x + k <= XLEN
      BY Widths DEF Index
    <3> QED
      BY <3>1, PowersAdd
  <2> DEFINE n == 2^k  p == 2^x  r == ValueOf(T \ {x})
  <2>6. n \in Nat /\ p \in Nat /\ r \in Nat
    BY <1>0, IndexFacts, ValueIs
  <2>7. ValueOf(Up(T)) = p * n + n * r /\ ValueOf(T) = p + r
    BY <2>1, <2>2, <2>4, <2>5
  <2> HIDE DEF n, p, r
  <2>8. p * n + n * r = n * (p + r)
    BY <2>6
  <2> QED
    BY <2>7, <2>8 DEF n
<1>3. SUBSET Index \subseteq P
  <2> HIDE DEF P
  <2> QED
    BY <1>1, <1>2, EverySet
<1>4. S \in SUBSET Index
  BY Widths DEF Index
<1> QED
  BY <1>3, <1>4

LEMMA BitsOfShl ==
  ASSUME NEW a \in Value, NEW k \in 0 .. XLEN
  PROVE  BitsOf(Shl(a, k)) = {i \in Index : i - k \in BitsOf(a)}
<1> DEFINE B == BitsOf(a)  L == B \cap 0 .. (XLEN - k) - 1  H == B \cap XLEN - k .. XLEN - 1
           R == {i \in Index : i - k \in B}  n == 2^k  p == 2^(XLEN - k)
<1>1. XLEN - k \in 0 .. XLEN /\ B \in SUBSET Index /\ H \in SUBSET ((XLEN - k) .. XLEN - 1)
       /\ k \in Nat /\ XLEN - k \in Nat /\ (XLEN - k) + k = XLEN
  BY BitsIn, Widths
<1>2. a = ValueOf(L) + ValueOf(H)
  BY <1>1, SplitAt, ValueOfBits
<1>3. PICK c \in Nat : ValueOf(H) = p * c
  <2> HIDE DEF H
  <2> QED
    BY <1>1, HighBits
<1>4. R = {i + k : i \in L}
  <2>1. \A i \in L : i + k \in R
    <3>1. \A i \in L : i + k \in Index /\ (i + k) - k = i
      BY Widths DEF Index
    <3> QED
      BY <3>1
  <2>2. \A i \in R : i - k \in L /\ (i - k) + k = i
    BY <1>1, Widths DEF Index
  <2> QED
    BY <2>1, <2>2
<1>5. ValueOf(R) = n * ValueOf(L)
  <2>1. L \in SUBSET (0 .. XLEN - 1 - k)
    BY Widths
  <2> HIDE DEF L, R
  <2> QED
    BY <1>4, <2>1, ShiftedValue
<1>6. 2^XLEN = p * n /\ p \in Nat /\ n \in Nat
  <2>1. 2^((XLEN - k) + k) = 2^(XLEN - k) * 2^k
    BY <1>1, PowersAdd
  <2> QED
    BY <1>1, <2>1, Powers
<1>7. R \subseteq 0 .. XLEN - 1
  BY DEF Index
<1>8. ValueOf(R) \in Value
  BY <1>7, ValueOfIn
<1>9. ValueOf(L) \in Nat
  BY <1>1, ValueIs
<1> DEFINE l == ValueOf(L)  v == ValueOf(R)
<1> HIDE DEF l, v, n, p
<1>10. a * n = v + 2^XLEN * c
  <2>1. a = l + p * c /\ v = n * l /\ l \in Nat /\ 2^XLEN = p * n
    BY <1>2, <1>3, <1>5, <1>6, <1>9 DEF l, v
  <2>2. a * n = n * l + (p * n) * c
    BY <1>6, <2>1
  <2> QED
    BY <2>1, <2>2
<1>11. Wrap(a * n) = v
  <2>1. v \in Value /\ v \in Int
    BY <1>8, ValuesAreInts DEF v
  <2>2. Wrap(v + 2^XLEN * c) = Wrap(v)
    BY <2>1, WrapOfShift
  <2> QED
    BY <1>10, <2>1, <2>2, WrapOfSmall
<1>12. BitsOf(v) = R
  BY BitsOfValue DEF v
<1> QED
  BY <1>11, <1>12 DEF Shl, n

(* Quotients by powers.                                                    *)
LEMMA BitsOfShr ==
  ASSUME NEW a \in Value, NEW k \in 0 .. XLEN
  PROVE  BitsOf(Shr(a, k)) = {i \in Index : i + k \in BitsOf(a)}
<1> DEFINE B == BitsOf(a)  L == B \cap 0 .. k - 1  H == B \cap k .. XLEN - 1
           R == {i \in Index : i + k \in B}  n == 2^k
<1>1. B \in SUBSET Index /\ k \in Nat /\ XLEN \in Nat
  BY BitsIn, Widths
<1>2. a = ValueOf(L) + ValueOf(H)
  BY <1>1, SplitAt, ValueOfBits
<1>3. H = {i + k : i \in R}
  <2>1. \A i \in R : i + k \in H
    BY <1>1, Widths DEF Index
  <2>2. \A i \in H : i - k \in R /\ (i - k) + k = i
    BY <1>1, Widths DEF Index
  <2> QED
    BY <2>1, <2>2
<1>4. ValueOf(H) = n * ValueOf(R)
  <2>1. R \in SUBSET (0 .. XLEN - 1 - k)
    BY <1>1, Widths DEF Index
  <2> HIDE DEF H, R
  <2> QED
    BY <1>3, <2>1, ShiftedValue
<1>5. ValueOf(L) \in 0 .. n - 1 /\ n \in Nat /\ n > 0
  <2>1. L \in SUBSET (0 .. k - 1)
    OBVIOUS
  <2> HIDE DEF L
  <2> QED
    BY <2>1, LowBits, Powers
<1>6. R \in SUBSET Index
  OBVIOUS
<1>7. ValueOf(R) \in Int
  BY <1>6, ValueIs
<1> DEFINE l == ValueOf(L)  v == ValueOf(R)
<1> HIDE DEF l, v, n
<1>8. a = n * v + l /\ l \in 0 .. n - 1 /\ v \in Int
  BY <1>2, <1>4, <1>5, <1>7 DEF l, v
<1>9. a \div n = v
  BY <1>5, <1>8, DivisionIsUnique
<1>10. BitsOf(v) = R
  BY <1>6, BitsOfValue DEF v
<1> QED
  BY <1>9, <1>10 DEF Shr, n

--------------------------------------------------------------------------------
(* Carry-less products.                                                    *)

(* Pairs of positions that add up to s are as many, whichever is named.    *)
LEMMA PairsCommute ==
  ASSUME NEW A \in SUBSET Index, NEW B \in SUBSET Index, NEW s \in Int
  PROVE  Odd({i \in B : s - i \in A}) = Odd({i \in A : s - i \in B})
<1> DEFINE P == {i \in B : s - i \in A}  Q == {i \in A : s - i \in B}
           f == [i \in P |-> s - i]
<1>1. IsFiniteSet(P) /\ \A i \in Index : i \in Int
  <2>1. P \subseteq Index
    OBVIOUS
  <2> QED
    BY <2>1, IndexFacts DEF Index
<1>2. f \in [P -> Q]
  <2>1. \A i \in P : s - i \in Q
    <3>1. \A i \in P : s - i \in A /\ s - (s - i) = i
      BY <1>1
    <3> QED
      BY <3>1
  <2> QED
    BY <2>1
<1>3. \A i, j \in P : f[i] = f[j] => i = j
  BY <1>1
<1>4. \A j \in Q : \E i \in P : f[i] = j
  <2> SUFFICES ASSUME NEW j \in Q PROVE \E i \in P : f[i] = j
    OBVIOUS
  <2>1. s - j \in P /\ s - (s - j) = j
    BY <1>1
  <2> QED
    BY <2>1
<1> HIDE DEF f, P, Q
<1>5. f \in Bijection(P, Q)
  BY <1>2, <1>3, <1>4, Fun_IsBij
<1>6. ExistsBijection(P, Q)
  BY <1>5 DEF ExistsBijection
<1>7. Cardinality(Q) = Cardinality(P)
  BY <1>1, <1>6, FS_Bijection
<1> QED
  BY <1>7 DEF Odd, P, Q

LEMMA ClmulIs ==
  ASSUME NEW a, NEW b
  PROVE  /\ BitsOf(Clmul(a, b)) = {j \in Index : Odd({i \in BitsOf(b) : j - i \in BitsOf(a)})}
         /\ BitsOf(Clmulh(a, b)) = {j \in Index : Odd({i \in BitsOf(b) : (j + XLEN) - i \in BitsOf(a)})}
         /\ Clmul(a, b) = Clmul(b, a) /\ Clmulh(a, b) = Clmulh(b, a)
<1>0. XLEN \in Nat
  BY Widths
<1>1. ASSUME NEW c, NEW d
      PROVE  Clmulh(c, d) = ValueOf({j \in Index : Odd({i \in BitsOf(d) : (j + XLEN) - i \in BitsOf(c)})})
  <2>1. ASSUME NEW j \in Index
        PROVE  {i \in BitsOf(d) \ {0} : j + XLEN - i \in BitsOf(c)}
                 = {i \in BitsOf(d) : (j + XLEN) - i \in BitsOf(c)}
    <3> DEFINE C == BitsOf(c)  D == BitsOf(d)
    <3>1. C \in SUBSET Index /\ D \in SUBSET Index
      BY BitsIn
    <3> HIDE DEF C, D
    <3>2. \A i : i = 0 => (j + XLEN) - i \notin C
      BY <1>0, <3>1 DEF Index
    <3>3. \A i \in D : j + XLEN - i = (j + XLEN) - i
      BY <1>0, <3>1 DEF Index
    <3>4. {i \in D \ {0} : j + XLEN - i \in C} = {i \in D : (j + XLEN) - i \in C}
      BY <3>2, <3>3
    <3> QED
      BY <3>4 DEF C, D
  <2> QED
    BY <2>1 DEF Clmulh, Index
<1>2. ASSUME NEW c, NEW d
      PROVE  Clmul(c, d) = ValueOf({j \in Index : Odd({i \in BitsOf(d) : j - i \in BitsOf(c)})})
  BY DEF Clmul, Index
<1> DEFINE L(c, d) == {j \in Index : Odd({i \in BitsOf(d) : j - i \in BitsOf(c)})}
           H(c, d) == {j \in Index : Odd({i \in BitsOf(d) : (j + XLEN) - i \in BitsOf(c)})}
<1>3. L(a, b) = L(b, a) /\ H(a, b) = H(b, a)
  <2>1. \A j \in Index : j \in Int /\ j + XLEN \in Int
    BY <1>0 DEF Index
  <2>2. ASSUME NEW s \in Int
        PROVE  Odd({i \in BitsOf(b) : s - i \in BitsOf(a)}) = Odd({i \in BitsOf(a) : s - i \in BitsOf(b)})
    <3> DEFINE A == BitsOf(a)  B == BitsOf(b)
    <3>1. A \in SUBSET Index /\ B \in SUBSET Index
      BY BitsIn
    <3> HIDE DEF A, B
    <3>2. Odd({i \in B : s - i \in A}) = Odd({i \in A : s - i \in B})
      BY <3>1, PairsCommute
    <3> QED
      BY <3>2 DEF A, B
  <2> QED
    BY <2>1, <2>2
<1>4. L(a, b) \in SUBSET Index /\ H(a, b) \in SUBSET Index
  OBVIOUS
<1> HIDE DEF L, H
<1>5. /\ Clmul(a, b) = ValueOf(L(a, b)) /\ Clmul(b, a) = ValueOf(L(b, a))
      /\ Clmulh(a, b) = ValueOf(H(a, b)) /\ Clmulh(b, a) = ValueOf(H(b, a))
  BY <1>1, <1>2 DEF L, H
<1>6. BitsOf(ValueOf(L(a, b))) = L(a, b) /\ BitsOf(ValueOf(H(a, b))) = H(a, b)
  BY <1>4, BitsOfValue
<1> QED
  BY <1>3, <1>5, <1>6 DEF L, H

(* The middle piece is the high one moved up, and the top bit of the low.  *)
LEMMA ClmulrIs ==
  ASSUME NEW a, NEW b
  PROVE  Clmulr(a, b) = BitOr(Shl(Clmulh(a, b), 1), Shr(Clmul(a, b), XLEN - 1))
<1> DEFINE A == BitsOf(a)  B == BitsOf(b)
           L == {j \in Index : Odd({i \in B : j - i \in A})}
           H == {j \in Index : Odd({i \in B : (j + XLEN) - i \in A})}
           R == {j \in Index : Odd({i \in B : j + XLEN - 1 - i \in A})}
           U == {j \in Index : j - 1 \in H}
           D == {j \in Index : j + (XLEN - 1) \in L}
<1>0. XLEN \in Nat /\ XLEN > 1 /\ 1 \in 0 .. XLEN /\ XLEN - 1 \in 0 .. XLEN
  BY Widths
<1>1. /\ BitsOf(Clmul(a, b)) = L /\ BitsOf(Clmulh(a, b)) = H
      /\ Clmul(a, b) \in Value /\ Clmulh(a, b) \in Value
  BY ClmulIs, LogicIn
<1>2. BitsOf(Shl(Clmulh(a, b), 1)) = U /\ BitsOf(Shr(Clmul(a, b), XLEN - 1)) = D
  <2> DEFINE one == 1
  <2>1. one \in 0 .. XLEN
    BY <1>0
  <2> HIDE DEF one
  <2>2. BitsOf(Shl(Clmulh(a, b), one)) = {j \in Index : j - one \in BitsOf(Clmulh(a, b))}
    BY <1>1, <2>1, BitsOfShl
  <2>3. BitsOf(Shr(Clmul(a, b), XLEN - 1)) = {j \in Index : j + (XLEN - 1) \in BitsOf(Clmul(a, b))}
    BY <1>0, <1>1, BitsOfShr
  <2> HIDE DEF H, L
  <2> QED
    BY <1>1, <2>2, <2>3 DEF one
<1>b. A \in SUBSET Index /\ B \in SUBSET Index
  BY BitsIn
<1> HIDE DEF A, B
<1>3. R = U \cup D
  <2> SUFFICES ASSUME NEW j \in Index PROVE j \in R <=> j \in U \/ j \in D
    OBVIOUS
  <2>1. CASE j = 0
    <3>1. j - 1 \notin Index /\ j + (XLEN - 1) \in Index /\ j + (XLEN - 1) = XLEN - 1
      BY <1>0, <2>1 DEF Index
    <3>2. {i \in B : j + XLEN - 1 - i \in A} = {i \in B : (j + (XLEN - 1)) - i \in A}
      <4>1. \A i \in B : j + XLEN - 1 - i = (j + (XLEN - 1)) - i
        BY <1>0, <1>b DEF Index
      <4> QED
        BY <4>1
    <3> QED
      BY <3>1, <3>2
  <2>2. CASE j # 0
    <3>1. j - 1 \in Index /\ j + (XLEN - 1) \notin Index
      BY <1>0, <2>2 DEF Index
    <3>2. \A i \in B : j + XLEN - 1 - i = ((j - 1) + XLEN) - i
      BY <1>0, <1>b DEF Index
    <3>3. {i \in B : j + XLEN - 1 - i \in A} = {i \in B : ((j - 1) + XLEN) - i \in A}
      BY <3>2
    <3> QED
      BY <3>1, <3>3
  <2> QED
    BY <2>1, <2>2
<1>4. Clmulr(a, b) = ValueOf(R)
  BY DEF Clmulr, Index, A, B
<1> QED
  BY <1>2, <1>3, <1>4 DEF BitOr, A, B

--------------------------------------------------------------------------------
(* Counts.                                                                 *)
LEMMA ExtremeIs ==
  ASSUME NEW S \in SUBSET Int, NEW x \in S
  PROVE  /\ (\A y \in S : y <= x) => Max(S) = x
         /\ (\A y \in S : x <= y) => Min(S) = x
<1>1. ASSUME \A y \in S : y <= x PROVE Max(S) = x
  <2>1. \E z \in S : \A y \in S : z >= y
    BY <1>1
  <2>2. Max(S) \in S /\ \A y \in S : Max(S) >= y
    BY <2>1 DEF Max
  <2>3. Max(S) <= x /\ Max(S) >= x /\ Max(S) \in Int /\ x \in Int
    BY <1>1, <2>2
  <2> DEFINE v == Max(S)
  <2> HIDE DEF v
  <2> QED
    BY <2>3 DEF v
<1>2. ASSUME \A y \in S : x <= y PROVE Min(S) = x
  <2>1. \E z \in S : \A y \in S : z <= y
    BY <1>2
  <2>2. Min(S) \in S /\ \A y \in S : Min(S) <= y
    BY <2>1 DEF Min
  <2>3. Min(S) <= x /\ Min(S) >= x /\ Min(S) \in Int /\ x \in Int
    BY <1>2, <2>2
  <2> DEFINE v == Min(S)
  <2> HIDE DEF v
  <2> QED
    BY <2>3 DEF v
<1> QED
  BY <1>1, <1>2

(* The highest bit, and what Clz makes of it.                              *)
Top(S, p) == p \in S /\ \A i \in S : i <= p

LEMMA TopExists ==
  ASSUME NEW S \in SUBSET Index, S # {}
  PROVE  \E p \in Index : Top(S, p)
<1>1. S \subseteq -1 .. XLEN /\ XLEN \in Nat
  BY Widths DEF Index
<1>2. Max(S) \in S /\ \A i \in S : i <= Max(S)
  BY <1>1, GreatestLeast
<1> QED
  BY <1>2 DEF Top

LEMMA BottomExists ==
  ASSUME NEW S \in SUBSET Index, S # {}
  PROVE  \E c \in S : \A i \in S : c <= i
<1>1. S \subseteq Nat
  BY DEF Index
<1> QED
  BY <1>1, LeastNat

LEMMA ClzIs ==
  ASSUME NEW a, NEW p \in Index, Top(BitsOf(a), p)
  PROVE  Clz(a) = XLEN - 1 - p
<1> DEFINE S == BitsOf(a) \cup {-1}
<1>1. S \in SUBSET Int /\ p \in S /\ \A y \in S : y <= p
  BY BitsIn DEF Index, Top
<1> HIDE DEF S
<1>2. Max(S) = p
  BY <1>1, ExtremeIs
<1> QED
  BY <1>2 DEF Clz, S

LEMMA CtzIs ==
  ASSUME NEW a, NEW c \in BitsOf(a), \A i \in BitsOf(a) : c <= i
  PROVE  Ctz(a) = c /\ c \in Index
<1> DEFINE S == BitsOf(a) \cup {XLEN}
<1>1. S \in SUBSET Int /\ c \in S /\ c \in Index /\ \A y \in S : c <= y
  BY BitsIn, Widths DEF Index
<1> HIDE DEF S
<1>2. Min(S) = c
  BY <1>1, ExtremeIs
<1> QED
  BY <1>1, <1>2 DEF Ctz, S

LEMMA HighestBit ==
  ASSUME NEW a \in Value, a # 0
  PROVE  a \in 2^(XLEN - 1 - Clz(a)) .. 2^(XLEN - Clz(a)) - 1
<1> DEFINE B == BitsOf(a)
<1>1. B \in SUBSET Index /\ B # {} /\ ValueOf(B) = a
  BY NoBits, BitsIn, ValueOfBits
<1>2. PICK p \in Index : Top(B, p)
  BY <1>1, TopExists
<1>3. Clz(a) = XLEN - 1 - p
  BY <1>2, ClzIs
<1>4. XLEN - 1 - Clz(a) = p /\ XLEN - Clz(a) = p + 1
  BY <1>3, Widths DEF Index
<1>5. B \in SUBSET (0 .. (p + 1) - 1) /\ p + 1 \in 0 .. XLEN /\ p \in B
  BY <1>1, <1>2, Widths DEF Top, Index
<1> HIDE DEF B
<1>6. ValueOf(B) \in 0 .. 2^(p + 1) - 1
  BY <1>5, LowBits
<1>7. ValueOf(B) = 2^p + ValueOf(B \ {p}) /\ ValueOf(B \ {p}) \in Nat
  <2>1. B \ {p} \in SUBSET Index
    BY <1>1
  <2> QED
    BY <1>1, <1>5, <2>1, ValueIs
<1>8. 2^p \in Nat /\ 2^(p + 1) \in Nat
  BY <1>5, IndexFacts, Powers
<1>9. a >= 2^p /\ a \in 0 .. 2^(p + 1) - 1
  BY <1>1, <1>6, <1>7, <1>8
<1> QED
  BY <1>4, <1>8, <1>9

LEMMA LowestBit ==
  ASSUME NEW a \in Value, a # 0
  PROVE  a % 2^Ctz(a) = 0 /\ (a \div 2^Ctz(a)) % 2 = 1
<1> DEFINE B == BitsOf(a)
<1>1. B \in SUBSET Index /\ B # {}
  BY NoBits, BitsIn
<1>2. PICK c \in B : \A i \in B : c <= i
  BY <1>1, BottomExists
<1>3. Ctz(a) = c
  BY <1>2, CtzIs
<1>4. B \cap 0 .. c - 1 = {} /\ c \in 0 .. XLEN
  BY <1>1, <1>2, IndexFacts DEF Index
<1>5. a % 2^c = ValueOf(B \cap 0 .. c - 1)
  BY <1>4, BitsOfLow
<1>6. (a \div 2^c) % 2 = 1
  BY <1>2 DEF BitsOf
<1> QED
  BY <1>3, <1>4, <1>5, <1>6, ValueIs

LEMMA OnesAndZeros ==
  ASSUME NEW a \in Value
  PROVE  Cpop(a) + Cpop(Complement(a)) = XLEN
<1> DEFINE B == BitsOf(a)
<1>1. B \in SUBSET Index /\ BitsOf(Complement(a)) = Index \ B
  BY BitsIn, BitsOfComplement
<1>2. IsFiniteSet(Index) /\ Cardinality(Index) = XLEN /\ XLEN \in Nat
  <2>1. 0 \in Int /\ XLEN - 1 \in Int /\ XLEN \in Nat /\ XLEN > 0
    BY Widths
  <2> QED
    BY <2>1, FS_Interval DEF Index
<1> HIDE DEF B
<1>3. Cardinality(Index \ B) = Cardinality(Index) - Cardinality(Index \cap B)
  BY <1>2, FS_Difference
<1>4. Index \cap B = B /\ IsFiniteSet(B)
  BY <1>1, <1>2, FS_Subset
<1>5. Cardinality(B) \in Nat
  BY <1>4, FS_CardinalityType
<1> QED
  BY <1>1, <1>2, <1>3, <1>4, <1>5 DEF Cpop, B

(* Counting in a word.                                                     *)
LEMMA WordBits ==
  ASSUME NEW a \in Value
  PROVE  /\ ZextW(a) \in Value /\ BitsOf(ZextW(a)) = BitsOf(a) \cap 0 .. WORD - 1
         /\ ZextW(a) = ValueOf(BitsOf(a) \cap 0 .. WORD - 1)
<1>1. WORD \in 0 .. XLEN
  BY Widths
<1> QED
  BY <1>1, BitsOfLow, NarrowIn, ValuesAreInts DEF ZextW, ZeroExtend

LEMMA WordCounts ==
  ASSUME NEW a \in Value, ZextW(a) # 0
  PROVE  /\ Ctz(BitOr(a, 2^XLEN - 2^WORD)) = Ctz(a)
         /\ Clz(ZextW(a)) - WORD = Clz(Shl(a, WORD))
<1> DEFINE B == BitsOf(a)  L == B \cap 0 .. WORD - 1
<1>0. /\ WORD \in 0 .. XLEN /\ WORD \in Nat /\ WORD > 0 /\ XLEN = WORD + WORD /\ XLEN \in Nat
      /\ B \in SUBSET Index /\ L \in SUBSET Index
  BY Widths, BitsIn
<1>1. BitsOf(ZextW(a)) = L /\ L # {}
  BY WordBits, NoBits
<1>2. Ctz(BitOr(a, 2^XLEN - 2^WORD)) = Ctz(a)
  <2> DEFINE N == 2^XLEN  W == 2^WORD  ones == W - 1  H == BitsOf(N - W)
  <2>1. N \in Nat /\ W \in Nat /\ W > 0 /\ N = W * W
    BY Widths, WordSizes
  <2>2. ones \in Value
    BY <2>1, WordSizes DEF Value
  <2>3. N - W = Complement(ones)
    <3>1. Complement(ones) = N - 1 - ones
      BY DEF Complement
    <3> HIDE DEF N, W
    <3> QED
      BY <2>1, <3>1
  <2>4. BitsOf(ones) = 0 .. WORD - 1
    <3> DEFINE full == N - 1
    <3>1. full \in Value /\ BitsOf(full) = Index
      BY <2>1, AllBits, BitsOfValue DEF Value
    <3>2. full % W = ones
      <4> HIDE DEF N, W
      <4>1. ones \in Int /\ ones \in 0 .. W - 1 /\ W * ones + ones = full
        BY <2>1
      <4> HIDE DEF ones, full
      <4> QED
        BY <2>1, <4>1, DivisionIsUnique
    <3> HIDE DEF full
    <3>3. BitsOf(full % W) = Index \cap 0 .. WORD - 1
      BY <1>0, <3>1, BitsOfLow
    <3>4. Index \cap 0 .. WORD - 1 = 0 .. WORD - 1
      BY <1>0 DEF Index
    <3> QED
      BY <3>2, <3>3, <3>4
  <2>5. H = WORD .. XLEN - 1
    <3>1. H = Index \ 0 .. WORD - 1
      BY <2>2, <2>3, <2>4, BitsOfComplement
    <3>2. Index \ 0 .. WORD - 1 = WORD .. XLEN - 1
      BY <1>0 DEF Index
    <3> QED
      BY <3>1, <3>2
  <2>6. BitsOf(BitOr(a, N - W)) = B \cup H
    BY BitsOfLogic
  <2> HIDE DEF N, W, H
  <2>7. PICK c \in L : \A i \in L : c <= i
    BY <1>0, <1>1, BottomExists
  <2>8. \A i \in B : c <= i
    <3>1. \A i \in B : i \in L \/ i >= WORD
      BY <1>0 DEF Index
    <3> QED
      BY <1>0, <2>7, <3>1 DEF Index
  <2>9. \A i \in B \cup H : c <= i
    BY <1>0, <2>5, <2>7, <2>8
  <2>10. c \in BitsOf(a) /\ c \in BitsOf(BitOr(a, N - W))
    BY <2>6, <2>7
  <2>11. Ctz(a) = c
    BY <2>8, <2>10, CtzIs
  <2>12. Ctz(BitOr(a, N - W)) = c
    BY <2>6, <2>9, <2>10, CtzIs
  <2> QED
    BY <2>11, <2>12 DEF N, W
<1>3. Clz(ZextW(a)) - WORD = Clz(Shl(a, WORD))
  <2>1. PICK p \in Index : Top(L, p)
    BY <1>0, <1>1, TopExists
  <2>2. Clz(ZextW(a)) = XLEN - 1 - p
    BY <1>1, <2>1, ClzIs
  <2> DEFINE U == {i \in Index : i - WORD \in B}  q == p + WORD
  <2>3. BitsOf(Shl(a, WORD)) = U
    BY <1>0, BitsOfShl
  <2>4. q \in Index /\ Top(U, q)
    <3>1. q \in Index /\ q - WORD = p
      BY <1>0, <2>1 DEF Index, Top
    <3>2. \A i \in U : i - WORD \in L
      BY <1>0 DEF Index
    <3>3. \A i \in U : i <= q
      BY <1>0, <2>1, <3>2 DEF Index, Top
    <3>4. q \in U
      BY <2>1, <3>1 DEF Top
    <3> QED
      BY <3>1, <3>3, <3>4 DEF Top
  <2> HIDE DEF U, q
  <2>5. Clz(Shl(a, WORD)) = XLEN - 1 - q
    BY <2>3, <2>4, ClzIs
  <2> QED
    BY <1>0, <2>2, <2>5 DEF q, Index
<1> QED
  BY <1>2, <1>3

--------------------------------------------------------------------------------
(* Permutations of bits and back.                                          *)
LEMMA BytesTurnBack ==
  ASSUME NEW a \in Value
  PROVE  Rev8(Rev8(a)) = a
<1> DEFINE B == BitsOf(a)
           F(i) == (7 - i \div BYTE) * BYTE + (i % BYTE)
           R == {F(i) : i \in B}
<1>1. BYTE \in Nat /\ BYTE > 0 /\ XLEN = 8 * BYTE /\ B \in SUBSET Index
  BY Widths, BitsIn
<1>2. ASSUME NEW i \in Index PROVE F(i) \in Index /\ F(F(i)) = i
  <2> DEFINE q == i \div BYTE  r == i % BYTE  p == 7 - q
  <2>0. i \in Int /\ i >= 0 /\ i < 8 * BYTE
    BY <1>1 DEF Index
  <2>1. q \in Int /\ r \in 0 .. BYTE - 1 /\ i = BYTE * q + r
    BY <1>1, <2>0, ModIn
  <2> HIDE DEF q, r
  <2>2. q \in 0 .. 7
    <3>1. q >= 8 => BYTE * q >= 8 * BYTE
      BY <1>1, <2>1
    <3>2. q <= -1 => BYTE * q <= -BYTE
      BY <1>1, <2>1
    <3>3. BYTE * q \in Int
      BY <1>1, <2>1
    <3> QED
      BY <1>1, <2>0, <2>1, <3>1, <3>2, <3>3
  <2>3. F(i) = BYTE * p + r /\ p \in 0 .. 7 /\ p \in Int /\ 7 - p = q
    <3>1. F(i) = p * BYTE + r
      BY DEF q, r
    <3> QED
      BY <1>1, <2>1, <2>2, <3>1
  <2>4. F(i) \in Index
    <3> HIDE DEF F, p
    <3>1. BYTE * p >= 0 /\ BYTE * p <= 7 * BYTE /\ BYTE * p \in Int
      BY <1>1, <2>3
    <3> QED
      BY <1>1, <2>1, <2>3, <3>1 DEF Index
  <2> DEFINE j == F(i)
  <2>5. F(j) = (7 - j \div BYTE) * BYTE + (j % BYTE)
    OBVIOUS
  <2> HIDE DEF F, p, j
  <2>6. (BYTE * p + r) % BYTE = r /\ (BYTE * p + r) \div BYTE = p
    BY <1>1, <2>1, <2>3, DivisionIsUnique
  <2>7. F(j) = (7 - p) * BYTE + r
    BY <2>3, <2>5, <2>6 DEF j
  <2>8. F(j) = i
    BY <1>1, <2>1, <2>3, <2>7
  <2> QED
    BY <2>4, <2>8 DEF j
<1>3. R \in SUBSET Index /\ {F(i) : i \in R} = B
  <2>1. \A i \in B : F(i) \in Index /\ F(F(i)) = i
    BY <1>1, <1>2
  <2> HIDE DEF F
  <2> QED
    BY <2>1
<1>4. Rev8(a) = ValueOf(R)
  BY DEF Rev8
<1> HIDE DEF B, R
<1>5. BitsOf(Rev8(a)) = R
  BY <1>3, <1>4, BitsOfValue
<1>6. Rev8(Rev8(a)) = ValueOf({F(i) : i \in R})
  BY <1>5 DEF Rev8
<1> QED
  BY <1>3, <1>6, ValueOfBits DEF B

(* A rotation is a bijection of the positions.                             *)
LEMMA Turned ==
  ASSUME NEW i \in Index, NEW k \in Int
  PROVE  /\ (i + k) % XLEN \in Index /\ (i - k) % XLEN \in Index
         /\ (((i + k) % XLEN) - k) % XLEN = i /\ (((i - k) % XLEN) + k) % XLEN = i
<1>0. XLEN \in Nat /\ XLEN > 0 /\ i \in 0 .. XLEN - 1 /\ i \in Int
  BY Widths DEF Index
<1>1. ASSUME NEW x \in Int, NEW d \in Int, x + d = i
      PROVE  x % XLEN \in Index /\ ((x % XLEN) + d) % XLEN = i
  <2> DEFINE q == x \div XLEN  r == x % XLEN
  <2>1. q \in Int /\ r \in 0 .. XLEN - 1 /\ x = XLEN * q + r
    BY <1>0, ModIn
  <2> HIDE DEF q, r
  <2>2. XLEN * (-q) + i = r + d /\ -q \in Int
    BY <1>0, <1>1, <2>1
  <2>3. (XLEN * (-q) + i) % XLEN = i
    BY <1>0, <2>2, DivisionIsUnique
  <2> QED
    BY <2>1, <2>2, <2>3 DEF r, Index
<1>2. i + k \in Int /\ -k \in Int /\ (i + k) + (-k) = i
  BY <1>0
<1>3. (i + k) % XLEN \in Index /\ (((i + k) % XLEN) + (-k)) % XLEN = i
  BY <1>1, <1>2
<1>4. i - k \in Int /\ (i - k) + k = i
  BY <1>0
<1>5. (i - k) % XLEN \in Index /\ (((i - k) % XLEN) + k) % XLEN = i
  BY <1>1, <1>4
<1>6. ((i + k) % XLEN) + (-k) = ((i + k) % XLEN) - k
  BY <1>3 DEF Index
<1> QED
  BY <1>3, <1>5, <1>6

LEMMA RotationsAre ==
  ASSUME NEW a, NEW k \in Int
  PROVE  /\ BitsOf(Rol(a, k)) = {j \in Index : (j - k) % XLEN \in BitsOf(a)}
         /\ BitsOf(Ror(a, k)) = {j \in Index : (j + k) % XLEN \in BitsOf(a)}
<1> DEFINE B == BitsOf(a)  L == {(i + k) % XLEN : i \in B}  R == {(i - k) % XLEN : i \in B}
<1>1. B \in SUBSET Index
  BY BitsIn
<1>2. L = {j \in Index : (j - k) % XLEN \in B} /\ R = {j \in Index : (j + k) % XLEN \in B}
  <2> HIDE DEF B
  <2>1. \A i \in Index : /\ (i + k) % XLEN \in Index /\ (i - k) % XLEN \in Index
                         /\ (((i + k) % XLEN) - k) % XLEN = i /\ (((i - k) % XLEN) + k) % XLEN = i
    BY Turned
  <2>2. L = {j \in Index : (j - k) % XLEN \in B}
    BY <1>1, <2>1
  <2>3. R = {j \in Index : (j + k) % XLEN \in B}
    BY <1>1, <2>1
  <2> QED
    BY <2>2, <2>3
<1>3. L \in SUBSET Index /\ R \in SUBSET Index
  BY <1>2
<1>4. Rol(a, k) = ValueOf(L) /\ Ror(a, k) = ValueOf(R)
  BY DEF Rol, Ror
<1> HIDE DEF L, R
<1>5. BitsOf(ValueOf(L)) = L /\ BitsOf(ValueOf(R)) = R
  BY <1>3, BitsOfValue
<1> QED
  BY <1>2, <1>4, <1>5

LEMMA TurnsBack ==
  ASSUME NEW a \in Value, NEW k \in Int
  PROVE  Ror(Rol(a, k), k) = a
<1> DEFINE v == Ror(Rol(a, k), k)
<1>1. BitsOf(v) = {j \in Index : (j + k) % XLEN \in BitsOf(Rol(a, k))}
  BY RotationsAre
<1>2. BitsOf(Rol(a, k)) = {j \in Index : (j - k) % XLEN \in BitsOf(a)}
  BY RotationsAre
<1>3. BitsOf(v) = BitsOf(a)
  <2>1. \A j \in Index : (j + k) % XLEN \in Index /\ (((j + k) % XLEN) - k) % XLEN = j
    BY Turned
  <2>2. BitsOf(a) \in SUBSET Index
    BY BitsIn
  <2> HIDE DEF v
  <2> QED
    BY <1>1, <1>2, <2>1, <2>2
<1>4. v \in Value
  BY PermutedIn
<1> QED
  BY <1>3, <1>4, ValueOfBits

(* A word and its copy in the upper half repeat at every word.             *)
LEMMA ModAgain ==
  ASSUME NEW x \in Int, NEW d \in Int
  PROVE  /\ x % WORD \in 0 .. WORD - 1
         /\ ((x % XLEN) + d) % WORD = (x + d) % WORD /\ (x % XLEN) % WORD = x % WORD
         /\ ((x % WORD) + d) % WORD = (x + d) % WORD
<1>0. XLEN = WORD * 2 /\ WORD \in Nat /\ WORD > 0 /\ XLEN > 0
  BY Widths
<1>1. ASSUME NEW e \in Int PROVE ((x % XLEN) + e) % WORD = (x + e) % WORD
  <2> DEFINE q == x \div XLEN  r == x % XLEN
  <2>1. q \in Int /\ r \in Int /\ x = XLEN * q + r
    BY <1>0, ModIn
  <2> HIDE DEF q, r
  <2>2. x + e = (r + e) + WORD * (2 * q) /\ 2 * q \in Int /\ r + e \in Int
    BY <1>0, <2>1
  <2>3. ((r + e) + WORD * (2 * q)) % WORD = (r + e) % WORD
    BY <1>0, <2>2, ModOfShift
  <2> QED
    BY <2>2, <2>3 DEF r
<1>2. ((x % WORD) + d) % WORD = (x + d) % WORD
  <2> DEFINE q == x \div WORD  r == x % WORD
  <2>1. q \in Int /\ r \in Int /\ x = WORD * q + r
    BY <1>0, ModIn
  <2> HIDE DEF q, r
  <2>2. x + d = (r + d) + WORD * q /\ r + d \in Int
    BY <1>0, <2>1
  <2>3. ((r + d) + WORD * q) % WORD = (r + d) % WORD
    BY <1>0, <2>1, <2>2, ModOfShift
  <2> QED
    BY <2>2, <2>3 DEF r
<1>3. (x % XLEN) % WORD = x % WORD
  <2> DEFINE zero == 0  r == x % XLEN
  <2>1. zero \in Int /\ r \in Int /\ r + zero = r /\ x + zero = x
    BY <1>0
  <2> HIDE DEF zero
  <2>2. ((x % XLEN) + zero) % WORD = (x + zero) % WORD
    BY <1>1, <2>1
  <2> QED
    BY <2>1, <2>2
<1> QED
  BY <1>0, <1>1, <1>2, <1>3, ModIn

LEMMA SmallMod ==
  ASSUME NEW i \in 0 .. WORD - 1
  PROVE  i % WORD = i /\ (i + WORD) % WORD = i
<1>0. WORD \in Nat /\ WORD > 0
  BY Widths
<1> DEFINE zero == 0  one == 1
<1>1. zero \in Int /\ one \in Int /\ WORD * zero + i = i /\ WORD * one + i = i + WORD
  BY <1>0
<1> HIDE DEF zero, one
<1>2. (WORD * zero + i) % WORD = i /\ (WORD * one + i) % WORD = i
  BY <1>0, <1>1, DivisionIsUnique
<1> QED
  BY <1>1, <1>2

LEMMA TwinsAre ==
  ASSUME NEW a \in Value
  PROVE  /\ Twins(a) \in Value
         /\ BitsOf(Twins(a)) = {i \in Index : i % WORD \in BitsOf(a)}
<1> DEFINE Z == BitsOf(a) \cap 0 .. WORD - 1  U == {i + WORD : i \in Z}  z == ValueOf(Z)  W == 2^WORD
           T == {i \in Index : i % WORD \in BitsOf(a)}
<1>0. /\ WORD \in 0 .. XLEN /\ WORD \in Nat /\ WORD > 0 /\ XLEN = WORD + WORD /\ W \in Nat
      /\ \A i \in 0 .. WORD - 1 : i % WORD = i /\ (i + WORD) % WORD = i
  BY Widths, SmallMod
<1>1. Z \in SUBSET (0 .. XLEN - 1 - WORD) /\ Z \in SUBSET Index /\ ZextW(a) = z
  BY <1>0, WordBits DEF Index
<1>2. ValueOf(U) = W * z
  <2> HIDE DEF Z
  <2> QED
    BY <1>0, <1>1, ShiftedValue
<1>3. U \in SUBSET Index /\ Z \cap U = {} /\ Z \cup U = T
  <2>1. \A i \in Z : i + WORD \in Index /\ i + WORD \notin 0 .. WORD - 1
    BY <1>0 DEF Index
  <2>2. \A i \in Z \cup U : i \in T
    BY <1>0, <1>1, <2>1
  <2>3. ASSUME NEW i \in T PROVE i \in Z \cup U
    <3>1. CASE i <= WORD - 1
      <4>1. i \in 0 .. WORD - 1
        BY <1>0, <3>1 DEF Index
      <4> QED
        BY <1>0, <4>1
    <3>2. CASE i > WORD - 1
      <4> DEFINE j == i - WORD
      <4>1. j \in 0 .. WORD - 1 /\ j + WORD = i
        BY <1>0, <3>2 DEF Index
      <4> HIDE DEF j
      <4>2. i % WORD = j
        BY <1>0, <4>1
      <4>3. j \in Z
        BY <4>1, <4>2
      <4> QED
        BY <4>1, <4>3
    <3> QED
      BY <1>0, <3>1, <3>2 DEF Index
  <2>4. U \in SUBSET Index /\ Z \cap U = {}
    BY <2>1
  <2> QED
    BY <2>2, <2>3, <2>4
<1>4. ValueOf(T) = z + W * z
  <2> HIDE DEF Z, U, T
  <2> QED
    BY <1>1, <1>2, <1>3, ValueOfUnion
<1>5. z \in Nat
  BY <1>1, ValueIs
<1>6. Twins(a) = ValueOf(T)
  <2>1. Twins(a) = z * (W + 1)
    BY <1>1 DEF Twins
  <2> HIDE DEF z, W
  <2>2. z * (W + 1) = z + W * z
    BY <1>0, <1>5
  <2> QED
    BY <1>4, <2>1, <2>2
<1>7. T \in SUBSET Index /\ T \subseteq 0 .. XLEN - 1
  BY DEF Index
<1> HIDE DEF T
<1>8. ValueOf(T) \in Value /\ BitsOf(ValueOf(T)) = T
  BY <1>7, ValueOfIn, BitsOfValue
<1> QED
  BY <1>6, <1>8 DEF T

LEMMA WordTurnsBack ==
  ASSUME NEW a \in Value, NEW k \in Int
  PROVE  SextW(Ror(Twins(SextW(Rol(Twins(a), k))), k)) = SextW(a)
<1> DEFINE t == Twins(a)  v == Rol(t, k)  x == SextW(v)  u == Twins(x)  w == Ror(u, k)
           B == BitsOf(a)
<1>0. /\ WORD \in 0 .. XLEN /\ WORD \in Nat /\ WORD > 0 /\ XLEN = WORD + WORD /\ B \in SUBSET Index
      /\ \A i \in 0 .. WORD - 1 : i % WORD = i
  BY Widths, SmallMod, BitsIn
<1>1. BitsOf(t) = {i \in Index : i % WORD \in B}
  BY TwinsAre
<1>2. v \in Value /\ x \in Value /\ w \in Value
  BY PermutedIn, NarrowIn, ValuesAreInts
<1>3. BitsOf(v) = {j \in Index : (j - k) % WORD \in B}
  <2>1. BitsOf(v) = {j \in Index : (j - k) % XLEN \in BitsOf(t)}
    BY RotationsAre
  <2>2. \A j \in Index : (j - k) % XLEN \in Index
    BY Turned
  <2>3. \A j \in Index : j - k \in Int
    BY DEF Index
  <2> DEFINE zero == 0
  <2>4. zero \in Int
    OBVIOUS
  <2> HIDE DEF zero
  <2>5. \A j \in Index : ((j - k) % XLEN) % WORD = (j - k) % WORD
    BY <2>3, <2>4, ModAgain
  <2> HIDE DEF v, t, B
  <2> QED
    BY <1>1, <2>1, <2>2, <2>5
<1>4. BitsOf(x) \cap 0 .. WORD - 1 = BitsOf(v) \cap 0 .. WORD - 1
  <2>1. ZextW(x) = ZextW(v)
    BY <1>2, WordIs, ValuesAreInts
  <2>2. BitsOf(ZextW(x)) = BitsOf(x) \cap 0 .. WORD - 1 /\ BitsOf(ZextW(v)) = BitsOf(v) \cap 0 .. WORD - 1
    BY <1>2, WordBits
  <2> QED
    BY <2>1, <2>2
<1>5. BitsOf(u) = {i \in Index : (i - k) % WORD \in B}
  <2>1. BitsOf(u) = {i \in Index : i % WORD \in BitsOf(x)}
    BY <1>2, TwinsAre
  <2>2. ASSUME NEW i \in Index PROVE i % WORD \in BitsOf(x) <=> (i - k) % WORD \in B
    <3>1. i \in Int /\ -k \in Int /\ i + (-k) = i - k
      BY DEF Index
    <3>2. i % WORD \in 0 .. WORD - 1 /\ ((i % WORD) + (-k)) % WORD = (i + (-k)) % WORD
      BY <3>1, ModAgain
    <3>3. i % WORD \in Index
      BY <1>0, <3>2 DEF Index
    <3> DEFINE j == i % WORD
    <3> HIDE DEF j, v, x, B
    <3>4. j \in Index /\ j \in 0 .. WORD - 1 /\ j \in Int
      BY <3>2, <3>3 DEF j
    <3>5. j + (-k) = j - k
      BY <3>4
    <3>6. (j - k) % WORD = (i - k) % WORD
      BY <3>1, <3>2, <3>5 DEF j
    <3>7. j \in BitsOf(x) <=> j \in BitsOf(v)
      BY <1>4, <3>4
    <3>8. j \in BitsOf(v) <=> (j - k) % WORD \in B
      BY <1>3, <3>4
    <3> QED
      BY <3>6, <3>7, <3>8 DEF j
  <2> QED
    BY <2>1, <2>2
<1>6. BitsOf(w) = BitsOf(t)
  <2>1. BitsOf(w) = {j \in Index : (j + k) % XLEN \in BitsOf(u)}
    BY RotationsAre
  <2>2. ASSUME NEW j \in Index PROVE (j + k) % XLEN \in BitsOf(u) <=> j % WORD \in B
    <3>1. j + k \in Int /\ -k \in Int /\ (j + k) + (-k) = j
      BY DEF Index
    <3>2. (j + k) % XLEN \in Index
      BY Turned
    <3>3. (((j + k) % XLEN) + (-k)) % WORD = ((j + k) + (-k)) % WORD
      BY <3>1, ModAgain
    <3> DEFINE i == (j + k) % XLEN
    <3> HIDE DEF i, u, B
    <3>4. i \in Index /\ i \in Int
      BY <3>2 DEF i, Index
    <3>5. i + (-k) = i - k
      BY <3>4
    <3>6. (i - k) % WORD = j % WORD
      BY <3>1, <3>3, <3>5 DEF i
    <3>7. i \in BitsOf(u) <=> (i - k) % WORD \in B
      BY <1>5, <3>4
    <3> QED
      BY <3>6, <3>7 DEF i
  <2> HIDE DEF w, t, u, B
  <2> QED
    BY <1>1, <2>1, <2>2
<1>7. w = t
  <2>1. t \in Value
    BY TwinsAre
  <2> HIDE DEF w, t
  <2> QED
    BY <1>2, <1>6, <2>1, ValueOfBits
<1>8. SextW(t) = SextW(a)
  <2>1. t \in Value /\ t \in Int /\ a \in Int
    BY TwinsAre, ValuesAreInts
  <2>2. BitsOf(ZextW(t)) = BitsOf(t) \cap 0 .. WORD - 1 /\ BitsOf(ZextW(a)) = B \cap 0 .. WORD - 1
    BY <2>1, WordBits
  <2>3. BitsOf(t) \cap 0 .. WORD - 1 = B \cap 0 .. WORD - 1
    <3>1. \A i \in 0 .. WORD - 1 : i \in Index /\ i % WORD = i
      BY <1>0 DEF Index
    <3> HIDE DEF t, B
    <3> QED
      BY <1>0, <1>1, <3>1
  <2>4. ZextW(t) = ZextW(a)
    <3>1. ZextW(t) \in Value /\ ZextW(a) \in Value
      BY <2>1, NarrowIn
    <3> HIDE DEF t
    <3> QED
      BY <2>2, <2>3, <3>1, ValueOfBits
  <2>5. SignedLow(t, WORD) = SignedLow(a, WORD)
    <3>1. SignedLow(ZextW(t), WORD) = SignedLow(t, WORD) /\ SignedLow(ZextW(a), WORD) = SignedLow(a, WORD)
      BY <2>1, WordIs
    <3> QED
      BY <2>4, <3>1
  <2> QED
    BY <2>5 DEF SextW, SignExtend
<1> QED
  BY <1>7, <1>8

(* An instruction that computes a value belongs to one family only.        *)
LEMMA ComputedByFamily ==
  ASSUME NEW op, NEW a, NEW b, NEW imm
  PROVE  /\ op \in AluOps => ComputedValue(op, a, b, imm) = AluValue(op, a, b)
         /\ op \in MulDivOps => ComputedValue(op, a, b, imm) = MulDivValue(op, a, b)
         /\ op \in SingleBitOps => ComputedValue(op, a, b, imm) = SingleBitValue(op, a, b)
         /\ op \in CountOps => ComputedValue(op, a, b, imm) = CountValue(op, a, b)
         /\ op \in RotateOps => ComputedValue(op, a, b, imm) = RotateValue(op, a, b)
         /\ op \in ImmediateOps => ComputedValue(op, a, b, imm) = ImmediateValue(op, a, imm)
         /\ op \in ShiftImmediateOps =>
              ComputedValue(op, a, b, imm) = ShiftImmediateValue(op, a, imm)
         /\ op \in BitImmediateOps => ComputedValue(op, a, b, imm) = BitImmediateValue(op, a, imm)
<1> USE DEF AluOps, MulDivOps, SingleBitOps, CountOps, RotateOps, ImmediateOps,
            ShiftImmediateOps, BitImmediateOps
<1>1. op \in AluOps => ComputedValue(op, a, b, imm) = AluValue(op, a, b)
  BY DEF ComputedValue
<1>2. op \in MulDivOps => ComputedValue(op, a, b, imm) = MulDivValue(op, a, b)
  BY DEF ComputedValue
<1>3. op \in SingleBitOps => ComputedValue(op, a, b, imm) = SingleBitValue(op, a, b)
  BY DEF ComputedValue
<1>4. op \in CountOps => ComputedValue(op, a, b, imm) = CountValue(op, a, b)
  BY DEF ComputedValue
<1>5. op \in RotateOps => ComputedValue(op, a, b, imm) = RotateValue(op, a, b)
  BY DEF ComputedValue
<1>6. op \in ImmediateOps => ComputedValue(op, a, b, imm) = ImmediateValue(op, a, imm)
  BY DEF ComputedValue
<1>7. op \in ShiftImmediateOps => ComputedValue(op, a, b, imm) = ShiftImmediateValue(op, a, imm)
  BY DEF ComputedValue
<1>8. op \in BitImmediateOps => ComputedValue(op, a, b, imm) = BitImmediateValue(op, a, imm)
  BY DEF ComputedValue
<1> QED
  BY <1>1, <1>2, <1>3, <1>4, <1>5, <1>6, <1>7, <1>8

(* What an instruction on words answers is a sign-extended word.           *)
WordOps == {"SUBW", "ADDW", "SLLW", "SRLW", "SRAW", "MULW", "DIVW", "DIVUW", "REMW",
            "REMUW", "ROLW", "RORW", "RORIW", "ADDIW", "SLLIW", "SRLIW", "SRAIW"}

LEMMA WordsAreExtended ==
  ASSUME NEW op \in WordOps, NEW a \in Value, NEW b \in Value, NEW imm \in Int,
         op \in ShiftImmediateOps => imm \in 0 .. XLEN - 1
  PROVE  ComputedValue(op, a, b, imm) = SextW(ComputedValue(op, a, b, imm))
<1> DEFINE v == ComputedValue(op, a, b, imm)
<1>1. /\ a \in Int /\ b \in Int /\ SextW(a) \in Value /\ ZextW(a) \in Value
      /\ SextW(b) \in Value /\ ZextW(b) \in Value /\ SextW(a) \in Int /\ ZextW(a) \in Int
      /\ SextW(b) \in Int /\ ZextW(b) \in Int
      /\ b % WORD \in 0 .. XLEN /\ b % WORD \in Int /\ imm % WORD \in Int
  BY ValuesAreInts, NarrowIn, AmountsIn
<1>2. \A z \in Value : SextW(SextW(z)) = SextW(z)
  BY WordIs, ValuesAreInts
<1>3. ASSUME op \in AluOps PROVE \E z \in Value : v = SextW(z)
  <2>1. v = AluValue(op, a, b)
    BY <1>3, ComputedByFamily
  <2>2. op \in {"SUBW", "ADDW", "SLLW", "SRLW", "SRAW"}
    BY <1>3 DEF WordOps, AluOps
  <2>3. /\ OverflowingSub(a, b) \in Value /\ OverflowingAdd(a, b) \in Value
        /\ Shl(a, b % WORD) \in Value /\ Shr(ZextW(a), b % WORD) \in Value
        /\ SignedShr(SextW(a), b % WORD) \in Value
    BY <1>1, SumsIn, ShiftIn
  <2> HIDE DEF v
  <2> QED
    BY <2>1, <2>2, <2>3 DEF AluValue
<1>4. ASSUME op \in MulDivOps PROVE \E z \in Value : v = SextW(z)
  <2>1. v = MulDivValue(op, a, b)
    BY <1>4, ComputedByFamily
  <2>2. op \in {"MULW", "DIVW", "DIVUW", "REMW", "REMUW"}
    BY <1>4 DEF WordOps, MulDivOps
  <2>3. OverflowingMul(ZextW(a), ZextW(b)) \in Value
    BY <1>1, SumsIn
  <2>4. /\ OverflowingDivSigned(SextW(a), SextW(b)) \in Value
        /\ OverflowingRemSigned(SextW(a), SextW(b)) \in Value
        /\ OverflowingDiv(ZextW(a), ZextW(b)) \in Value
        /\ OverflowingRem(ZextW(a), ZextW(b)) \in Value
    BY <1>1, QuotientsIn
  <2> HIDE DEF v
  <2> QED
    BY <2>1, <2>2, <2>3, <2>4 DEF MulDivValue
<1>5. ASSUME op \in {"ROLW", "RORW", "RORIW"} PROVE \E z \in Value : v = SextW(z)
  <2>1. /\ op \in {"ROLW", "RORW"} => v = RotateValue(op, a, b)
        /\ op = "RORIW" => v = RotateValue("RORW", a, imm)
    <3>1. op \in {"ROLW", "RORW"} => op \in RotateOps
      BY DEF RotateOps
    <3>2. op = "RORIW" => op \in BitImmediateOps
      BY DEF BitImmediateOps
    <3>3. BitImmediateValue("RORIW", a, imm) = RotateValue("RORW", a, imm)
      BY DEF BitImmediateValue
    <3> QED
      BY <3>1, <3>2, <3>3, ComputedByFamily
  <2>2. \A k \in Int : Rol(Twins(a), k) \in Value /\ Ror(Twins(a), k) \in Value
    BY PermutedIn
  <2>3. \A k : RotateValue("ROLW", a, k) = SextW(Rol(Twins(a), k % WORD))
                /\ RotateValue("RORW", a, k) = SextW(Ror(Twins(a), k % WORD))
    BY DEF RotateValue
  <2> HIDE DEF v
  <2> QED
    BY <1>1, <1>5, <2>1, <2>2, <2>3
<1>6. ASSUME op = "ADDIW" PROVE \E z \in Value : v = SextW(z)
  <2>1. op \in ImmediateOps
    BY <1>6 DEF ImmediateOps
  <2>2. v = ImmediateValue("ADDIW", a, imm)
    BY <1>6, <2>1, ComputedByFamily
  <2>3. OverflowingAdd(a, imm) \in Value
    BY <1>1, SumsIn
  <2> HIDE DEF v
  <2> QED
    BY <2>2, <2>3 DEF ImmediateValue
<1>7. ASSUME op \in {"SLLIW", "SRLIW", "SRAIW"} PROVE \E z \in Value : v = SextW(z)
  <2>1. op \in ShiftImmediateOps
    BY <1>7 DEF ShiftImmediateOps
  <2>2. v = ShiftImmediateValue(op, a, imm) /\ imm \in 0 .. XLEN
    BY <2>1, ComputedByFamily, Widths
  <2>3. /\ Shl(a, imm) \in Value /\ Shr(ZextW(a), imm) \in Value
        /\ SignedShr(SextW(a), imm) \in Value
    BY <1>1, <2>2, ShiftIn
  <2> HIDE DEF v
  <2> QED
    BY <1>7, <2>2, <2>3 DEF ShiftImmediateValue
<1>8. \/ op \in AluOps \/ op \in MulDivOps \/ op \in {"ROLW", "RORW", "RORIW"}
      \/ op = "ADDIW" \/ op \in {"SLLIW", "SRLIW", "SRAIW"}
  BY DEF WordOps, AluOps, MulDivOps
<1>9. PICK z \in Value : v = SextW(z)
  BY <1>3, <1>4, <1>5, <1>6, <1>7, <1>8
<1> QED
  BY <1>2, <1>9
================================================================================
