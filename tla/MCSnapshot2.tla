------------------------------ MODULE MCSnapshot2 ------------------------------
(***************************************************************************)
(* Four pages of two cells.  The program and the data are long enough for  *)
(* two adjacent pages to be sourced together, and for a load to cover one  *)
(* page whole and another in part.                                         *)
(***************************************************************************)
EXTENDS Snapshot2

MCSource ==
  [id \in {"program", "data"} |->
     IF id = "program" THEN <<"head", "p0", "p1", "p2", "p3", "p4">>
     ELSE <<"d0", "d1", "d2", "d3">>]

Segment(addr, size, fs, from, to, pad) ==
  [addr |-> addr, size |-> size, flags |-> fs, from |-> from, to |-> to, pad |-> pad]

Text == {"executable", "freezed"}

(* Two pages of text, then read-only data from the middle of a page; text  *)
(* and writable data with a zeroed tail; a segment past the end; one over  *)
(* text, which is refused; text where the arguments go.                    *)
MCPrograms ==
  {<<Segment(0, 4, Text, 0, 4, 0), Segment(4, 2, {"freezed"}, 3, 4, 1)>>,
   <<Segment(0, 2, Text, 1, 3, 0), Segment(2, 4, {}, 2, 5, 0)>>,
   <<Segment(6, 4, {}, 0, 4, 0)>>,
   <<Segment(0, 2, Text, 0, 2, 0), Segment(0, 2, {}, 2, 4, 0)>>,
   <<Segment(6, 2, Text, 0, 2, 0)>>}

MCLoads == {[id |-> "data", offset |-> 0, length |-> 0],
            [id |-> "data", offset |-> 1, length |-> 2],
            [id |-> "data", offset |-> 1, length |-> 3]}

(* A writable segment whose zeroed head lies in a page of the one before.  *)
MCOverlappingPrograms ==
  {<<Segment(0, 2, Text, 0, 2, 0), Segment(2, 4, {}, 0, 4, 0), Segment(4, 2, {}, 4, 5, 1)>>}
================================================================================
