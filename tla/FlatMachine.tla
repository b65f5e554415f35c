------------------------------- MODULE FlatMachine -------------------------------
(***************************************************************************)
(* What a VM's memory promises to the instructions and to the host: the    *)
(* interpreter's WXorXMemory over FlatMemory, one operation per step, and  *)
(* what each operation answers.                                            *)
(***************************************************************************)
EXTENDS PageMemory

CONSTANTS
  Segments, (* init_pages: [addr, size, flags, pad, len], len cells of data *)
  Values,   (* what is stored                                              *)
  Accesses, (* <<address, cells>> of stores, loads and fetches             *)
  FlagSets  (* what set_flag and clear_flag are called with                *)

VARIABLES
  out,      (* the answer to the last operation                            *)
  version0  (* the machine's version is VERSION0                           *)

Init == mem = ZeroMem /\ flags = NoFlags /\ out = <<"ok">> /\ version0 \in BOOLEAN

SourceData(seg) == [k \in 1 .. seg.len |-> "source"]
Copies(v, n)    == [k \in 1 .. n |-> v]
Data(m, a, n)   == [k \in 1 .. n |-> m[a + k - 1]]

InitPages ==
  \E seg \in Segments :
    IF InitPagesOk(flags, seg.addr, seg.size, seg.pad)
    THEN /\ mem'   = Filled(mem, seg.addr, seg.size, SourceData(seg), seg.pad)
         /\ flags' = FilledFlags(flags, seg.addr, seg.size, seg.flags)
         /\ out'   = <<"ok">>
    ELSE out' = <<"refused">> /\ UNCHANGED <<mem, flags>>

(* A store that is refused writes nothing; pages it would have written may *)
(* be marked dirty.                                                        *)
Store ==
  \E acc \in Accesses, v \in Values :
    LET a == acc[1]  n == acc[2] IN
    IF Permitted(flags, a, n)
    THEN /\ mem' = Written(mem, a, Copies(v, n)) /\ flags' = Dirtied(flags, a, n)
         /\ out' = <<"ok">>
    ELSE /\ \E ps \in SUBSET (PageIndices(a, n) \cap Page) :
              flags' = SetFlag(flags, ps, {"dirty"})
         /\ out' = <<"refused">> /\ UNCHANGED mem

(* load_bytes and load8..load64; an instruction of a VERSION0 machine may  *)
(* not load the last cell: check_load_boundary.                            *)
Load(by) ==
  \E acc \in Accesses :
    LET a == acc[1]  n == acc[2] IN
    /\ out' = IF NoOverflow(a, n) /\ ~(by = "guest" /\ version0 /\ a + n = Size)
              THEN <<by>> \o Data(mem, a, n) ELSE <<by, "refused">>
    /\ UNCHANGED <<mem, flags>>

Fetch ==
  \E acc \in Accesses :
    LET a == acc[1]  n == acc[2] IN
    /\ out' = IF NoOverflow(a, n) /\ \A p \in PageIndices(a, n) : "executable" \in flags[p]
              THEN <<"fetch">> \o Data(mem, a, n) ELSE <<"refused">>
    /\ UNCHANGED <<mem, flags>>

ChangeFlag ==
  /\ \E p \in Page, fs \in FlagSets :
       flags' \in {SetFlag(flags, {p}, fs), ClearFlag(flags, {p}, fs)}
  /\ out' = <<"ok">> /\ UNCHANGED mem

Reset == mem' = ZeroMem /\ flags' = NoFlags /\ out' = <<"ok">>

Next ==
  /\ InitPages \/ Store \/ Load("guest") \/ Load("host") \/ Fetch \/ ChangeFlag \/ Reset
  /\ UNCHANGED version0

Spec == Init /\ [][Next]_<<mem, flags, out, version0>>
================================================================================
