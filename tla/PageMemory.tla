------------------------------- MODULE PageMemory -------------------------------
(***************************************************************************)
(* The memory the guest's VM runs on: WXorXMemory over FlatMemory          *)
(* (forks/ckb-vm-asm/src/memory).  A flat array with one set of flags per  *)
(* page; stores are refused on executable pages and mark pages dirty.      *)
(*                                                                         *)
(* The unit is a cell, what store64 writes; a page is PageCells of them.   *)
(***************************************************************************)
EXTENDS Integers, Sequences

CONSTANTS
  NPages,    (* riscv_pages                                                *)
  PageCells, (* RISCV_PAGESIZE                                             *)
  Zero       (* the value memory is initialised with                       *)

ASSUME PageMemoryAssumption == NPages \in Nat \ {0} /\ PageCells \in Nat \ {0}

VARIABLES
  mem,       (* FlatMemory::data                                           *)
  flags      (* FlatMemory::flags                                          *)

Page  == 0 .. NPages - 1
Size  == NPages * PageCells
Addr  == 0 .. Size - 1
Flags == {"freezed", "executable", "dirty"}

(* Memory::new                                                             *)
ZeroMem == [c \in Addr |-> Zero]
NoFlags == [p \in Page |-> {}]

PageOf(a)         == a \div PageCells
PageIndices(a, n) == IF n = 0 THEN {} ELSE PageOf(a) .. PageOf(a + n - 1)

(* check_no_overflow; addresses are far from 2^64.                         *)
NoOverflow(a, n)  == a < Size /\ a + n <= Size

SetFlag(fl, ps, fs)   == [p \in Page |-> IF p \in ps THEN fl[p] \cup fs ELSE fl[p]]
ClearFlag(fl, ps, fs) == [p \in Page |-> IF p \in ps THEN fl[p] \ fs ELSE fl[p]]

(* What WXorXMemory::store_bytes, store_byte and store64 check.            *)
Permitted(fl, a, n) ==
  n # 0 => NoOverflow(a, n) /\ \A p \in PageIndices(a, n) : "executable" \notin fl[p]

(* What FlatMemory does then.                                              *)
Written(m, a, data) ==
  [c \in Addr |-> IF c - a + 1 \in DOMAIN data THEN data[c - a + 1] ELSE m[c]]

Dirtied(fl, a, n) == SetFlag(fl, PageIndices(a, n), {"dirty"})

(* init_pages: the checks, the flags, and fill_page_data, which zeroes     *)
(* what the source does not cover and so dirties every page.               *)
InitPagesOk(fl, addr, size, pad) ==
  /\ addr % PageCells = 0 /\ size % PageCells = 0
  /\ addr + size <= Size /\ pad <= size
  /\ \A p \in PageIndices(addr, size) : "freezed" \notin fl[p]

Filled(m, addr, size, source, pad) ==
  [c \in Addr |->
     IF c \notin addr .. addr + size - 1 THEN m[c]
     ELSE IF c - addr - pad + 1 \in DOMAIN source THEN source[c - addr - pad + 1]
     ELSE Zero]

FilledFlags(fl, addr, size, fs) == SetFlag(fl, PageIndices(addr, size), fs \cup {"dirty"})
================================================================================
