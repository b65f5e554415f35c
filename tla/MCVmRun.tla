-------------------------------- MODULE MCVmRun --------------------------------
(***************************************************************************)
(* Two pages of six parcels and programs that loop, jump, fuse, also over  *)
(* the edge of a page, call, load code, replace themselves, write to code  *)
(* and run into what is no code.                                           *)
(***************************************************************************)
EXTENDS VmRun

Add == Inst("ADD", 1, 1)
Minus == Inst("ADD", 1, -1)
Listing(first, rest) == [a \in 0 .. MemorySize - 1 |-> IF a + 1 <= Len(first) THEN first[a + 1] ELSE rest]
Program(code) == [code |-> Listing(code, Data), exec |-> [p \in Page |-> p = 0]]

(* The second parcel of an instruction of two.                             *)
Half == Data

Calls == 1
Loads == 2
Spins == 3
Far == 4
Wild == 5
Falls == 6
Again == 7
Edge == 8
Seam == 9

MCImages ==
  [i \in Calls .. Seam |-> Program(
     CASE i = Calls -> <<Inst("LUI", 1, 2), Inst("ADDIW", 1, 0), Minus, Inst("BNE", 1, -1),
                         Inst("STORE", 1, 7), Inst("EXEC", 1, Loads)>>
       [] i = Loads -> <<Add, Inst("CHARGE", 1, 0), Inst("LOADCODE", 1, 1), Inst("FENCE", 1, 0),
                         Inst("JALR", 2, 6), Half>>
       [] i = Spins -> <<Inst("JAL", 1, 0)>>
       [] i = Far   -> <<Add, Add, Add, Inst("JALR", 1, U32Range)>>
       [] i = Wild  -> <<Add, Inst("LUI", 1, 1), Add, Inst("BNE", 1, 2), Data, Inst("STORE", 1, 1)>>
       [] i = Falls -> <<Add, Add, Inst("JAL", 1, 2), Data, Add, Inst("ADD", 2, 1)>>
       [] i = Again -> <<Add, Inst("EXEC", 1, Again), Inst("UNKNOWN", 1, 0)>>
       [] i = Edge  -> <<Add, Add, Inst("BNE", 1, 2), Inst("LOADCODE", 1, 1), Add, Inst("LUI", 1, 1)>>
       [] i = Seam  -> <<Inst("LOADCODE", 2, 1), Half, Add, Add, Add, Inst("LUI", 1, 1)>>)]

MCLoadedCode ==
  [a \in 0 .. MemorySize - 1 |->
     CASE a = 6 -> Inst("ADDIW", 1, 1) [] a = 7 -> Add [] a = 8 -> Inst("LUI", 1, 1)
       [] a = 9 -> Inst("FENCE", 1, 0) [] a = 10 -> Inst("EXIT", 1, 0) [] OTHER -> Data]

(* Fusion and the guest's handler only matter to the programs with what is *)
(* fused and with Exec.                                                    *)
MCSetups ==
  {s \in [engine : {"interpreter", "trace", "asm"}, decoder : {"simple", "memoized", "dynamic"},
           version : {0, 1, 2}, mop : BOOLEAN, price : {0, 1}, override : BOOLEAN,
           image : DOMAIN MCImages] :
     /\ s.engine # "asm" => s.decoder = "simple"
     /\ s.mop => s.image \in {Calls, Edge, Seam}
     /\ s.override => s.image \in {Calls, Again}}
MCLimits == {8, 12}
================================================================================
