------------------------------ MODULE MCAsmMemory ------------------------------
(***************************************************************************)
(* Two frames of three pages of two cells.                                 *)
(***************************************************************************)
EXTENDS AsmMemory

Segment(addr, size, fs, pad, len) ==
  [addr |-> addr, size |-> size, flags |-> fs, pad |-> pad, len |-> len]

Text == {"executable", "freezed"}

(* Pages 0 .. 3, 1 .. 5, 1 and 5: with and without padding and data, text; *)
(* unaligned; past the end.                                                *)
MCSegments ==
  {Segment(0, 8, {}, 0, 5), Segment(2, 10, {}, 1, 4), Segment(0, 2, Text, 0, 2),
   Segment(2, 2, {}, 1, 0), Segment(10, 2, Text, 0, 1), Segment(1, 2, {}, 0, 0),
   Segment(8, 6, {}, 0, 6)}

MCGapSegments ==
  {Segment(0, 4, Text, 0, 4), Segment(0, 10, {}, 0, 10), Segment(2, 8, {}, 0, 3)}

(* Within a page; across pages; across frames; across both pages at once;  *)
(* the last cell; partly and wholly past the end.                          *)
MCAccesses ==
  {<<2, 1>>, <<3, 2>>, <<5, 2>>, <<3, 5>>, <<8, 1>>, <<11, 1>>, <<11, 2>>, <<12, 1>>}

ASSUME GapAssumption ==
       /\ \A seg \in MCSegments : ~LeavesLastPage(seg)
       /\ \A seg \in MCGapSegments : LeavesLastPage(seg)

MCFlagSets == {{"dirty"}, {"executable"}}
================================================================================
