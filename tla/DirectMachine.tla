----------------------------- MODULE DirectMachine -----------------------------
(***************************************************************************)
(* What every run loop promises: the machine decodes the instruction that  *)
(* is in memory at its pc, pays for it and executes it.  There are no      *)
(* caches, traces, interrupts or host.  A machine that runs traces may     *)
(* fail, or run out of cycles, already at the start of a straight line at  *)
(* whose end it must; before version 2 it may look at the low 32 bits of   *)
(* its pc only.  What is left of a machine that failed is not specified.   *)
(***************************************************************************)
EXTENDS GuestCode

VARIABLES setup, d

vars == <<setup, d>>

(* The instruction in memory at a, fused if the machine fuses.             *)
InMemory(a) ==
  LET head == d.mem.code[a]
      b    == a + head.len
  IN  IF setup.mop /\ Decodable(d.mem, b) /\ Fusible(head, d.mem.code[b])
      THEN Fuse(head, d.mem.code[b]) ELSE head

Refused == setup.mop /\ setup.version = 0 /\ setup.engine # "trace"

Broken == [d EXCEPT !.pc = 0, !.cycles = 0, !.err = "Error"]
Settle(x) ==
  CASE x.err \in {"none", "CyclesExceeded"} -> [x EXCEPT !.reset = FALSE]
    [] OTHER -> Broken

Here ==
  {d.pc} \cup IF setup.engine # "interpreter" /\ setup.version < 2 THEN {d.pc % U32Range} ELSE {}

Init == d.err = "none" /\ d.running

Ready == d.err = "none" /\ d.running

(* The instructions of the straight line from a on: their number, whether  *)
(* the line ends at an instruction that cannot be decoded.                 *)
LineFrom(a) ==
  LET line[n \in 0 .. MemorySize + 1] ==
        IF n = 0 THEN [at |-> a, count |-> 0, end |-> "open"]
        ELSE LET p == line[n - 1]
             IN  CASE p.end # "open" -> p
                   [] p.end = "open" /\ ~Decodable(d.mem, p.at) -> [p EXCEPT !.end = "broken"]
                   [] OTHER -> [at    |-> p.at + InMemory(p.at).len, count |-> p.count + 1,
                                end   |-> IF IsBasicBlockEnd(InMemory(p.at)) THEN "block" ELSE "open"]
  IN  line[MemorySize + 1]

Step ==
  /\ Ready /\ ~Refused
  /\ \E a \in Here :
       d' = IF ~Decodable(d.mem, a) THEN Broken
            ELSE LET paid == AddCycles(d, setup.price)
                 IN  Settle(IF paid.err # "none" THEN paid
                            ELSE Execute(paid, InMemory(a), setup.override))

Refuse == Ready /\ Refused /\ d' = Broken

FailAhead ==
  Ready /\ setup.engine # "interpreter" /\ LineFrom(d.pc).end = "broken" /\ d' = Broken

ShortAhead ==
  /\ Ready /\ setup.engine = "asm"
  /\ \E a \in Here : \E n \in 1 .. LineFrom(a).count :
       /\ AddCycles(d, n * setup.price).err # "none"
       /\ d' = Settle(AddCycles(d, n * setup.price))

(* The host runs it on with a higher limit.                                *)
RaiseLimit ==
  /\ d.err = "CyclesExceeded"
  /\ \E limit \in d.cycles .. U64Max : limit > d.max /\ d' = [d EXCEPT !.max = limit, !.err = "none"]

Next == (Step \/ Refuse \/ FailAhead \/ ShortAhead \/ RaiseLimit) /\ UNCHANGED setup

Spec == Init /\ [][Next]_vars
================================================================================
