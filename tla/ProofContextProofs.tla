--------------------------- MODULE ProofContextProofs ---------------------------
(***************************************************************************)
(* For every mock transaction, with any number of cell deps and groups:    *)
(* what reaches the guest with a trace is the code that CKB ran to record  *)
(* it.  Where the code falls short, at dep group containers that share a   *)
(* hash with a code cell and at more groups than an index counts, the      *)
(* theorems name it as their assumption.                                   *)
(***************************************************************************)
EXTENDS ProofContext, FiniteSetTheorems, SequenceTheorems, TLAPS

(* No container of a dep group is indexed after a code cell by its hash.   *)
NoClash ==
  \A x \in MockTxs : \A i, j \in DOMAIN x.deps :
    i < j /\ ~x.deps[i].group /\ x.deps[j].group => HashesOf(x.deps[i]) \cap HashesOf(x.deps[j]) = {}

(* An index of 16 bits tells the groups of a transaction apart.            *)
FewGroups == \A x \in MockTxs : Len(x.groups) <= U16Range

Groups == UNION {{x.groups[i] : i \in DOMAIN x.groups} : x \in MockTxs}
Trace  == [group : Groups, version : 0 .. 2, size : TraceSizes \cup {0}, elf : DOMAIN ElfSize]

(***************************************************************************)
(* Types and counts                                                        *)
(***************************************************************************)
Counts ==
  /\ pc \in {"index", "collect", "intern", "guest"} \cup Terminal
  /\ mock \in MockTxs
  /\ indexed \in 0 .. Len(mock.deps) /\ met \in 0 .. Len(mock.groups)
  /\ traces \in Seq(Trace) /\ elfs \in Seq(DOMAIN ElfSize) /\ interned \in Nat
  /\ Len(elfs) <= interned /\ interned <= Len(traces) /\ Len(traces) <= met

(* Every hash leads to the last cell dep that was indexed by it.           *)
Found(h, i) ==
  /\ i \in 1 .. indexed /\ h \in HashesOf(mock.deps[i]) /\ elfByHash[h] = mock.deps[i].data
  /\ \A j \in 1 .. indexed : i < j => h \notin HashesOf(mock.deps[j])

Index ==
  /\ \A h \in DOMAIN elfByHash : \E i \in 1 .. indexed : Found(h, i)
  /\ \A i \in 1 .. indexed : HashesOf(mock.deps[i]) \subseteq DOMAIN elfByHash

LEMMA MockTypes ==
  ASSUME NEW x \in MockTxs
  PROVE  /\ Len(x.deps) \in Nat /\ DOMAIN x.deps = 1 .. Len(x.deps)
         /\ Len(x.groups) \in Nat /\ DOMAIN x.groups = 1 .. Len(x.groups)
         /\ \A i \in DOMAIN x.deps : x.deps[i].data \in DOMAIN ElfSize
  BY ContextAssumption

LEMMA IndexedDataIsElf == Counts /\ Index => \A h \in DOMAIN elfByHash : elfByHash[h] \in DOMAIN ElfSize
  BY MockTypes DEF Counts, Index, Found

LEMMA CountsInit == Init => Counts
  BY MockTypes, EmptySeq DEF Init, Counts

LEMMA CountsNext == Counts /\ Index /\ [Next]_vars => Counts'
<1> SUFFICES ASSUME Counts, Index, [Next]_vars PROVE Counts'
  OBVIOUS
<1> USE DEF Counts, traceVars, guestVars
<1>1. CASE IndexDep
  BY <1>1, MockTypes DEF IndexDep
<1>2. CASE EnumerateGroups
  BY <1>2 DEF EnumerateGroups, Terminal
<1>3. CASE SkipTypeId
  BY <1>3, MockTypes DEF SkipTypeId, GroupLeft
<1>4. CASE CollectorFails
  BY <1>4 DEF CollectorFails, Terminal
<1>5. CASE CollectGroup
  <2> DEFINE g == mock.groups[met + 1]
  <2>1. met + 1 \in DOMAIN mock.groups /\ g \in Groups
    BY <1>5, MockTypes DEF CollectGroup, GroupLeft, Groups
  <2>2. CASE g.code \notin DOMAIN elfByHash
    BY <1>5, <2>2 DEF CollectGroup, Terminal
  <2>3. CASE g.code \in DOMAIN elfByHash
    <3>1. PICK size \in TraceSizes \cup {0} :
            traces' = Append(traces, [group |-> g, version |-> ScriptVersion(g),
                                      size |-> size, elf |-> elfByHash[g.code]])
      BY <1>5, <2>3 DEF CollectGroup
    <3> DEFINE t == [group |-> g, version |-> ScriptVersion(g), size |-> size, elf |-> elfByHash[g.code]]
    <3>2. ScriptVersion(g) \in 0 .. 2
      BY DEF ScriptVersion
    <3>3. elfByHash[g.code] \in DOMAIN ElfSize
      BY <2>3, IndexedDataIsElf
    <3>4. t \in Trace
      BY <2>1, <3>2, <3>3 DEF Trace
    <3> HIDE DEF t
    <3>5. traces' = Append(traces, t)
      BY <3>1 DEF t
    <3>6. traces' \in Seq(Trace) /\ Len(traces') = Len(traces) + 1
      BY <3>4, <3>5, AppendProperties
    <3>7. met' = met + 1 /\ UNCHANGED <<pc, mock, indexed, guestVars>>
      BY <1>5, <2>3 DEF CollectGroup
    <3>8. met + 1 \in 0 .. Len(mock.groups)
      BY <2>1, MockTypes
    <3>9. Len(traces) \in Nat
      BY LenProperties
    <3>10. QED
      BY <3>6, <3>7, <3>8, <3>9
  <2>4. QED
    BY <2>2, <2>3
<1>6. CASE AllCollected
  BY <1>6 DEF AllCollected
<1>7. CASE InternElf
  <2> DEFINE t == traces[interned + 1]
  <2>1. Len(traces) \in Nat /\ Len(elfs) \in Nat /\ interned + 1 \in 1 .. Len(traces)
    BY <1>7, LenProperties DEF InternElf
  <2>2. t \in Trace
    BY <2>1, ElementOfSeq
  <2>3. t.elf \in DOMAIN ElfSize
    BY <2>2 DEF Trace
  <2>4. elfs' = elfs \/ elfs' = Append(elfs, t.elf)
    BY <1>7 DEF InternElf, Interned
  <2>5. elfs' \in Seq(DOMAIN ElfSize) /\ Len(elfs') <= Len(elfs) + 1
    <3>1. elfs \in Seq(DOMAIN ElfSize)
      OBVIOUS
    <3>2. /\ Append(elfs, t.elf) \in Seq(DOMAIN ElfSize)
          /\ Len(Append(elfs, t.elf)) = Len(elfs) + 1
      BY <2>3, <3>1, AppendProperties
    <3>3. QED
      BY <2>1, <2>4, <3>1, <3>2
  <2>6. interned' = interned + 1 /\ UNCHANGED <<pc, mock, indexed, met, traces>>
    BY <1>7 DEF InternElf
  <2>7. Len(elfs') \in Nat
    BY <2>5, LenProperties
  <2>8. QED
    BY <2>1, <2>5, <2>6, <2>7
<1>8. CASE Analyse
  BY <1>8 DEF Analyse
<1>9. CASE InputTooLarge \/ NoTraces \/ InvalidVersion \/ ReplayFails
  BY <1>9 DEF InputTooLarge, NoTraces, InvalidVersion, ReplayFails, Panics, Terminal
<1>10. CASE Replay
  BY <1>10 DEF Replay, Terminal
<1>11. CASE UNCHANGED vars
  BY <1>11 DEF vars
<1>12. QED
  BY <1>1, <1>2, <1>3, <1>4, <1>5, <1>6, <1>7, <1>8, <1>9, <1>10, <1>11 DEF Next, Finished

LEMMA IndexInit == Init => Index
  BY DEF Init, Index

LEMMA IndexNext == Counts /\ Index /\ [Next]_vars => Index'
<1> SUFFICES ASSUME Counts, Index, [Next]_vars PROVE Index'
  OBVIOUS
<1>1. CASE IndexDep
  <2> DEFINE dep == mock.deps[indexed + 1]
  <2>1. /\ elfByHash' = Put(elfByHash, HashesOf(dep), dep.data)
        /\ indexed' = indexed + 1 /\ mock' = mock /\ indexed \in Nat
    BY <1>1 DEF IndexDep, Indexed, Counts
  <2> HIDE DEF dep
  <2>2. /\ DOMAIN elfByHash' = DOMAIN elfByHash \cup HashesOf(dep)
        /\ \A h \in HashesOf(dep) : elfByHash'[h] = dep.data
        /\ \A h \in DOMAIN elfByHash : h \notin HashesOf(dep) => elfByHash'[h] = elfByHash[h]
    <3> DEFINE keys == HashesOf(dep)
               e    == Put(elfByHash, keys, dep.data)
    <3>1. /\ DOMAIN e = DOMAIN elfByHash \cup keys
          /\ \A h \in keys : e[h] = dep.data
          /\ \A h \in DOMAIN elfByHash : h \notin keys => e[h] = elfByHash[h]
      BY DEF Put
    <3> HIDE DEF e
    <3>2. elfByHash' = e
      BY <2>1 DEF e
    <3>3. QED
      BY <3>1, <3>2
  <2>3. ASSUME NEW h \in DOMAIN elfByHash' PROVE \E i \in 1 .. indexed' : Found(h, i)'
    <3>1. CASE h \in HashesOf(dep)
      BY <2>1, <2>2, <3>1 DEF Found, dep
    <3>2. CASE h \notin HashesOf(dep)
      <4>1. PICK i \in 1 .. indexed : Found(h, i)
        BY <2>2, <3>2 DEF Index
      <4>2. Found(h, i)'
        BY <2>1, <2>2, <3>2, <4>1 DEF Found, dep
      <4>3. QED
        BY <2>1, <4>1, <4>2
    <3>3. QED
      BY <3>1, <3>2
  <2>4. ASSUME NEW i \in 1 .. indexed' PROVE HashesOf(mock'.deps[i]) \subseteq DOMAIN elfByHash'
    BY <2>1, <2>2 DEF Index, dep
  <2>5. QED
    BY <2>3, <2>4 DEF Index
<1>2. CASE UNCHANGED <<mock, indexed, elfByHash>>
  BY <1>2 DEF Index, Found
<1>3. QED
  BY <1>1, <1>2
  DEF Next, EnumerateGroups, SkipTypeId, CollectorFails, CollectGroup, AllCollected, InternElf, Analyse,
      InputTooLarge, NoTraces, InvalidVersion, ReplayFails, Panics, Replay, Finished, vars

(***************************************************************************)
(* The ELF of a trace                                                      *)
(***************************************************************************)
(* CodeOf, as an operator of the cell deps.                                *)
CodeIn(deps, g) ==
  {deps[i].data : i \in {j \in DOMAIN deps : ~deps[j].group /\ g.code \in HashesOf(deps[j])}}

(* The map is complete before a group is met, and every trace has the ELF  *)
(* the map holds for a code of which CKB found exactly one.                *)
Collected ==
  /\ pc = "index" => met = 0 /\ traces = <<>>
  /\ pc # "index" => indexed = Len(mock.deps)
  /\ \A k \in 1 .. Len(traces) :
       LET h == traces[k].group.code IN
       h \in DOMAIN elfByHash /\ traces[k].elf = elfByHash[h] /\ Cardinality(CodeIn(mock.deps, traces[k].group)) = 1
  /\ RunnableGroupHasElf

LEMMA CodeOfIs == \A g : CodeOf(g) = CodeIn(mock.deps, g)
  BY DEF CodeOf, CodeIn

LEMMA OneCodeIsFound ==
  ASSUME NEW x \in MockTxs, NEW g, Cardinality(CodeIn(x.deps, g)) = 1
  PROVE  /\ \E j \in DOMAIN x.deps : ~x.deps[j].group /\ g.code \in HashesOf(x.deps[j])
         /\ \E d : CodeIn(x.deps, g) = {d}
<1> DEFINE J == {j \in DOMAIN x.deps : ~x.deps[j].group /\ g.code \in HashesOf(x.deps[j])}
           f == [j \in J |-> x.deps[j].data]
<1>1. Len(x.deps) \in Nat /\ DOMAIN x.deps = 1 .. Len(x.deps)
  BY MockTypes
<1>2. IsFiniteSet(J)
  <2>1. IsFiniteSet(DOMAIN x.deps)
    BY <1>1, FS_Interval
  <2>2. J \subseteq DOMAIN x.deps
    OBVIOUS
  <2> HIDE DEF J
  <2>3. QED
    BY <2>1, <2>2, FS_Subset
<1>3. f \in Surjection(J, CodeIn(x.deps, g))
  BY DEF Surjection, CodeIn
<1> HIDE DEF J, f
<1>4. IsFiniteSet(CodeIn(x.deps, g))
  BY <1>2, <1>3, FS_Surjection
<1>5. \E d : CodeIn(x.deps, g) = {d}
  BY <1>4, FS_Singleton
<1>6. QED
  BY <1>5 DEF CodeIn

LEMMA CollectedInit == Init => Collected
  BY DEF Init, Collected, RunnableGroupHasElf

LEMMA CollectedNext == Counts /\ Index /\ Collected /\ [Next]_vars => Collected'
<1> SUFFICES ASSUME Counts, Index, Collected, [Next]_vars PROVE Collected'
  OBVIOUS
<1> USE DEF Collected, RunnableGroupHasElf, traceVars, guestVars
<1>1. CASE IndexDep
  BY <1>1 DEF IndexDep
<1>2. CASE EnumerateGroups
  BY <1>2 DEF EnumerateGroups
<1>3. CASE SkipTypeId \/ CollectorFails \/ AllCollected
  BY <1>3 DEF SkipTypeId, CollectorFails, AllCollected, GroupLeft
<1>4. CASE CollectGroup
  <2> DEFINE g == mock.groups[met + 1]
  <2>1. PICK j \in DOMAIN mock.deps : ~mock.deps[j].group /\ g.code \in HashesOf(mock.deps[j])
    BY <1>4, CodeOfIs, OneCodeIsFound DEF CollectGroup, Counts
  <2>2. indexed = Len(mock.deps) /\ DOMAIN mock.deps = 1 .. Len(mock.deps)
    BY <1>4, MockTypes DEF CollectGroup, GroupLeft, Counts
  <2>3. g.code \in DOMAIN elfByHash
    BY <2>1, <2>2 DEF Index
  <2>4. PICK size \in TraceSizes \cup {0} :
          traces' = Append(traces, [group |-> g, version |-> ScriptVersion(g),
                                    size |-> size, elf |-> elfByHash[g.code]])
    BY <1>4, <2>3 DEF CollectGroup
  <2> DEFINE t == [group |-> g, version |-> ScriptVersion(g), size |-> size, elf |-> elfByHash[g.code]]
  <2>5. t.group = g /\ t.elf = elfByHash[g.code]
    OBVIOUS
  <2>6. Cardinality(CodeIn(mock.deps, t.group)) = 1
    BY <1>4, <2>5, CodeOfIs DEF CollectGroup
  <2> HIDE DEF t
  <2>7. traces' = Append(traces, t) /\ traces \in Seq(Trace)
    BY <2>4 DEF t, Counts
  <2>8. /\ Len(traces') = Len(traces) + 1 /\ Len(traces) \in Nat
        /\ \A k \in 1 .. Len(traces) : traces'[k] = traces[k]
        /\ traces'[Len(traces) + 1] = t
    BY <2>7
  <2>9. UNCHANGED <<pc, mock, indexed, elfByHash>> /\ pc = "collect"
    BY <1>4, <2>3 DEF CollectGroup, GroupLeft
  <2>10. ASSUME NEW k \in 1 .. Len(traces')
         PROVE  /\ traces'[k].group.code \in DOMAIN elfByHash'
                /\ traces'[k].elf = elfByHash'[traces'[k].group.code]
                /\ Cardinality(CodeIn(mock'.deps, traces'[k].group)) = 1
    <3>1. CASE k = Len(traces) + 1
      BY <2>3, <2>5, <2>6, <2>8, <2>9, <3>1
    <3>2. CASE k \in 1 .. Len(traces)
      BY <2>8, <2>9, <3>2
    <3>3. QED
      BY <2>8, <3>1, <3>2
  <2>11. QED
    BY <2>9, <2>10
<1>5. CASE InternElf \/ Analyse
  BY <1>5 DEF InternElf, Analyse
<1>6. CASE InputTooLarge \/ NoTraces \/ InvalidVersion \/ ReplayFails \/ Replay
  BY <1>6 DEF InputTooLarge, NoTraces, InvalidVersion, ReplayFails, Panics, Replay
<1>7. CASE UNCHANGED vars
  BY <1>7 DEF vars
<1>8. QED
  BY <1>1, <1>2, <1>3, <1>4, <1>5, <1>6, <1>7 DEF Next, Finished

(* The last cell dep with the code's hash is no container, so it is the    *)
(* one CKB found.                                                          *)
LEMMA VerifiedCode == NoClash /\ Counts /\ Index /\ Collected => ElfIsVerifiedCode
<1> SUFFICES ASSUME NoClash, Counts, Index, Collected, NEW k \in DOMAIN traces
             PROVE  CodeIn(mock.deps, traces[k].group) = {traces[k].elf}
  BY CodeOfIs DEF ElfIsVerifiedCode
<1> DEFINE g == traces[k].group
<1>1. k \in 1 .. Len(traces)
  BY LenProperties DEF Counts
<1>2. g.code \in DOMAIN elfByHash /\ traces[k].elf = elfByHash[g.code] /\ Cardinality(CodeIn(mock.deps, g)) = 1
  BY <1>1 DEF Collected
<1>3. PICK i \in 1 .. indexed : Found(g.code, i)
  BY <1>2 DEF Index
<1>4. pc # "index" /\ indexed = Len(mock.deps) /\ DOMAIN mock.deps = 1 .. indexed
  <2>1. pc # "index"
    <3> SUFFICES ASSUME pc = "index" PROVE FALSE
      OBVIOUS
    <3>1. Len(traces) = 0
      BY DEF Collected
    <3>2. QED
      BY <1>1, <3>1
  <2>2. QED
    BY <2>1, MockTypes DEF Collected, Counts
<1>5. PICK j \in DOMAIN mock.deps : ~mock.deps[j].group /\ g.code \in HashesOf(mock.deps[j])
  BY <1>2, OneCodeIsFound DEF Counts
<1> HIDE DEF g
<1>6. ~mock.deps[i].group
  <2>1. i = j \/ j < i
    BY <1>3, <1>4, <1>5 DEF Found, Counts
  <2>2. ASSUME j < i, mock.deps[i].group PROVE FALSE
    <3>1. g.code \in HashesOf(mock.deps[i])
      BY <1>3 DEF Found
    <3>2. HashesOf(mock.deps[j]) \cap HashesOf(mock.deps[i]) = {}
      BY <1>3, <1>4, <1>5, <2>2 DEF NoClash, Counts
    <3>3. QED
      BY <1>5, <3>1, <3>2
  <2>3. QED
    BY <1>5, <2>1, <2>2
<1>7. mock.deps[i].data \in CodeIn(mock.deps, g)
  BY <1>3, <1>4, <1>6 DEF CodeIn, Found
<1>8. PICK d : CodeIn(mock.deps, g) = {d}
  BY <1>2, OneCodeIsFound DEF Counts
<1>9. QED
  BY <1>2, <1>3, <1>7, <1>8 DEF Found, g

(***************************************************************************)
(* The index of an ELF                                                     *)
(***************************************************************************)
(* What the interning loop met is indexed, within the ELFs and 16 bits, and *)
(* the traces that go to the guest are numbered as they were recorded.     *)
Interning ==
  /\ pc \in {"index", "collect"} => interned = 0
  /\ pc \in {"index", "collect", "intern"} => vmTraces = <<>>
  /\ \A k \in 1 .. interned : traces[k].group.code \in DOMAIN elfIndex
  /\ \A h \in DOMAIN elfIndex : /\ elfIndex[h] \in 0 .. Len(elfs) - 1
                               /\ elfIndex[h] < U16Range
                               /\ h \in DOMAIN elfByHash
  /\ \A k \in DOMAIN vmTraces :
       /\ k \in 1 .. interned /\ vmTraces[k].trace = k /\ vmTraces[k].version = traces[k].version
       /\ vmTraces[k].elf = elfIndex[traces[k].group.code]

(* An index leads to the ELF of its code, provided it was not truncated.   *)
Designates == \A h \in DOMAIN elfIndex : elfs[elfIndex[h] + 1] = elfByHash[h]

LEMMA InterningInit == Init => Interning /\ Designates
<1> SUFFICES ASSUME Init PROVE Interning /\ Designates
  OBVIOUS
<1>1. interned = 0 /\ vmTraces = <<>> /\ DOMAIN elfIndex = {}
  BY DEF Init
<1>2. DOMAIN vmTraces = {}
  BY <1>1
<1>3. QED
  BY <1>1, <1>2 DEF Interning, Designates

(* One iteration: the code was met before, or its ELF gets the next index. *)
LEMMA InternedIs ==
  ASSUME Counts, Collected, InternElf
  PROVE  /\ Len(traces) \in Nat /\ Len(elfs) \in Nat /\ Len(elfs) < Len(mock.groups)
         /\ interned + 1 \in 1 .. Len(traces)
         /\ LET h == traces[interned + 1].group.code IN
            /\ h \in DOMAIN elfByHash /\ traces[interned + 1].elf = elfByHash[h]
            /\ \/ h \in DOMAIN elfIndex /\ UNCHANGED <<elfIndex, elfs>>
               \/ /\ h \notin DOMAIN elfIndex
                  /\ DOMAIN elfIndex' = DOMAIN elfIndex \cup {h}
                  /\ elfIndex'[h] = Len(elfs) % U16Range
                  /\ \A x \in DOMAIN elfIndex : elfIndex'[x] = elfIndex[x]
                  /\ Len(elfs') = Len(elfs) + 1
                  /\ elfs'[Len(elfs) + 1] = elfByHash[h]
                  /\ \A i \in 1 .. Len(elfs) : elfs'[i] = elfs[i]
<1> DEFINE t == traces[interned + 1]
           h == t.group.code
<1>1. Len(traces) \in Nat /\ Len(elfs) \in Nat
  BY LenProperties DEF Counts
<1>2. interned + 1 \in 1 .. Len(traces)
  BY <1>1 DEF InternElf, Counts
<1>3. Len(elfs) < Len(mock.groups)
  BY <1>1, <1>2, MockTypes DEF Counts
<1>4. h \in DOMAIN elfByHash /\ t.elf = elfByHash[h]
  BY <1>2 DEF Collected
<1>5. CASE h \in DOMAIN elfIndex
  BY <1>1, <1>2, <1>3, <1>4, <1>5 DEF InternElf, Interned
<1>6. CASE h \notin DOMAIN elfIndex
  <2>1. elfIndex' = Put(elfIndex, {h}, Len(elfs) % U16Range) /\ elfs' = Append(elfs, t.elf)
    BY <1>6 DEF InternElf, Interned, NextIndex
  <2> DEFINE v == Len(elfs) % U16Range
             e == Put(elfIndex, {h}, v)
  <2>2. /\ DOMAIN e = DOMAIN elfIndex \cup {h} /\ e[h] = v
        /\ \A x \in DOMAIN elfIndex : e[x] = elfIndex[x]
    BY <1>6 DEF Put
  <2> HIDE DEF e
  <2>3. elfIndex' = e
    BY <2>1 DEF e
  <2>4. elfs \in Seq(DOMAIN ElfSize) /\ t.elf \in DOMAIN ElfSize
    <3>1. t \in Trace
      BY <1>2, ElementOfSeq DEF Counts
    <3>2. QED
      BY <3>1 DEF Trace, Counts
  <2>5. /\ Len(elfs') = Len(elfs) + 1 /\ elfs'[Len(elfs) + 1] = t.elf
        /\ \A i \in 1 .. Len(elfs) : elfs'[i] = elfs[i]
    BY <1>1, <2>1, <2>4, AppendProperties
  <2>6. QED
    BY <1>1, <1>2, <1>3, <1>4, <1>6, <2>2, <2>3, <2>5
<1>7. QED
  BY <1>5, <1>6

LEMMA InterningNext == Counts /\ Collected /\ Interning /\ [Next]_vars => Interning'
<1> SUFFICES ASSUME Counts, Collected, Interning, [Next]_vars PROVE Interning'
  OBVIOUS
<1> USE DEF Interning, traceVars, guestVars
<1>0. /\ Len(traces) \in Nat /\ Len(elfs) \in Nat /\ DOMAIN traces = 1 .. Len(traces)
      /\ interned \in Nat /\ interned <= Len(traces)
  BY LenProperties DEF Counts
<1>1. CASE IndexDep
  <2>1. DOMAIN elfByHash \subseteq DOMAIN elfByHash'
    BY <1>1, Zenon DEF IndexDep, Indexed, Put
  <2>2. QED
    BY <1>1, <2>1 DEF IndexDep
<1>2. CASE EnumerateGroups \/ SkipTypeId \/ CollectorFails \/ AllCollected
  BY <1>2 DEF EnumerateGroups, SkipTypeId, CollectorFails, AllCollected, GroupLeft
<1>3. CASE CollectGroup
  <2>1. pc = "collect" /\ UNCHANGED <<elfByHash, guestVars>>
    BY <1>3 DEF CollectGroup, GroupLeft
  <2>2. DOMAIN vmTraces = {} /\ interned = 0
    BY <2>1
  <2>3. pc' # "index" /\ (pc' = "intern" => vmTraces = <<>>)
    BY <1>3, <2>1 DEF CollectGroup
  <2>4. QED
    BY <2>1, <2>2, <2>3
<1>4. CASE InternElf
  <2> DEFINE h == traces[interned + 1].group.code
  <2>1. /\ pc = "intern" /\ interned' = interned + 1
        /\ UNCHANGED <<pc, mock, elfByHash, traces, vmTraces>>
    BY <1>4 DEF InternElf
  <2>2. DOMAIN vmTraces = {}
    BY <2>1
  <2>3. h \in DOMAIN elfByHash /\ h \in DOMAIN elfIndex' /\ DOMAIN elfIndex' = DOMAIN elfIndex \cup {h}
    BY <1>4, InternedIs
  <2>4. ASSUME NEW x \in DOMAIN elfIndex'
        PROVE  elfIndex'[x] \in 0 .. Len(elfs') - 1 /\ elfIndex'[x] < U16Range
    <3>1. CASE UNCHANGED <<elfIndex, elfs>>
      BY <2>4, <3>1
    <3>2. CASE Len(elfs') = Len(elfs) + 1
      <4>1. Len(elfs) % U16Range \in 0 .. Len(elfs) /\ Len(elfs) % U16Range < U16Range
        BY <1>0 DEF U16Range
      <4>2. elfIndex'[h] = Len(elfs) % U16Range /\ \A y \in DOMAIN elfIndex : elfIndex'[y] = elfIndex[y]
        BY <1>0, <1>4, <3>2, InternedIs
      <4>3. QED
        BY <1>0, <2>3, <2>4, <3>2, <4>1, <4>2
    <3>3. QED
      BY <1>4, <3>1, <3>2, InternedIs
  <2>5. ASSUME NEW k \in 1 .. interned + 1 PROVE traces[k].group.code \in DOMAIN elfIndex'
    BY <1>0, <2>3
  <2>6. QED
    BY <2>1, <2>2, <2>3, <2>4, <2>5
<1>5. CASE Analyse
  <2>1. /\ vmTraces' = [k \in DOMAIN traces |-> [version |-> traces[k].version, trace |-> k,
                                                elf |-> elfIndex[traces[k].group.code]]]
        /\ interned = Len(traces) /\ pc' = "guest"
        /\ UNCHANGED <<elfByHash, traces, elfIndex, elfs, interned>>
    BY <1>5 DEF Analyse
  <2>2. QED
    BY <1>0, <2>1
<1>6. CASE InputTooLarge \/ NoTraces \/ InvalidVersion \/ ReplayFails \/ Replay
  BY <1>6 DEF InputTooLarge, NoTraces, InvalidVersion, ReplayFails, Panics, Replay
<1>7. CASE UNCHANGED vars
  BY <1>7 DEF vars
<1>8. QED
  BY <1>1, <1>2, <1>3, <1>4, <1>5, <1>6, <1>7 DEF Next, Finished

LEMMA DesignatesNext ==
  FewGroups /\ Counts /\ Collected /\ Interning /\ Designates /\ [Next]_vars => Designates'
<1> SUFFICES ASSUME FewGroups, Counts, Collected, Interning, Designates, [Next]_vars PROVE Designates'
  OBVIOUS
<1> USE DEF Designates, traceVars, guestVars
<1>1. CASE IndexDep \/ CollectGroup
  <2>1. interned = 0 /\ UNCHANGED <<elfIndex, elfs>>
    BY <1>1 DEF IndexDep, CollectGroup, GroupLeft, Interning
  <2>2. QED
    <3>1. Len(elfs) = 0
      BY <2>1, LenProperties DEF Counts
    <3>2. DOMAIN elfIndex = {}
      <4> SUFFICES ASSUME NEW h \in DOMAIN elfIndex PROVE FALSE
        OBVIOUS
      <4>1. QED
        BY <3>1 DEF Interning
    <3>3. QED
      BY <2>1, <3>2
<1>2. CASE InternElf
  <2> DEFINE h == traces[interned + 1].group.code
  <2>1. UNCHANGED elfByHash
    BY <1>2 DEF InternElf
  <2>2. CASE UNCHANGED <<elfIndex, elfs>>
    BY <2>1, <2>2
  <2>3. CASE h \notin DOMAIN elfIndex
    <3>1. Len(elfs) \in Nat /\ Len(elfs) < U16Range
      BY <1>2, InternedIs, MockTypes DEF FewGroups, Counts, U16Range
    <3>2. elfIndex'[h] = Len(elfs)
      BY <1>2, <2>3, <3>1, InternedIs DEF U16Range
    <3>3. /\ DOMAIN elfIndex' = DOMAIN elfIndex \cup {h}
          /\ \A x \in DOMAIN elfIndex : elfIndex'[x] = elfIndex[x]
          /\ elfs'[Len(elfs) + 1] = elfByHash[h]
          /\ \A i \in 1 .. Len(elfs) : elfs'[i] = elfs[i]
      BY <1>2, <2>3, InternedIs
    <3>4. ASSUME NEW x \in DOMAIN elfIndex PROVE elfs'[elfIndex'[x] + 1] = elfByHash[x]
      <4>1. elfIndex[x] + 1 \in 1 .. Len(elfs)
        BY <3>1 DEF Interning
      <4>2. QED
        BY <3>3, <4>1
    <3>5. QED
      BY <2>1, <3>2, <3>3, <3>4
  <2>4. QED
    BY <1>2, <2>2, <2>3, InternedIs
<1>3. CASE UNCHANGED <<elfByHash, elfIndex, elfs>>
  BY <1>3
<1>4. QED
  BY <1>1, <1>2, <1>3
  DEF Next, EnumerateGroups, SkipTypeId, CollectorFails, AllCollected, Analyse,
      InputTooLarge, NoTraces, InvalidVersion, ReplayFails, Panics, Replay, Finished, vars

LEMMA IndexLeadsToElf == Counts /\ Collected /\ Interning /\ Designates => IndexedElf
<1> SUFFICES ASSUME Counts, Collected, Interning, Designates, NEW k \in DOMAIN vmTraces
             PROVE  /\ vmTraces[k].elf + 1 \in DOMAIN elfs
                    /\ elfs[vmTraces[k].elf + 1] = traces[vmTraces[k].trace].elf
  BY DEF IndexedElf
<1>1. /\ k \in 1 .. Len(traces) /\ k \in 1 .. interned /\ Len(elfs) \in Nat
      /\ DOMAIN elfs = 1 .. Len(elfs)
  BY LenProperties DEF Counts, Interning
<1>2. traces[k].group.code \in DOMAIN elfIndex /\ vmTraces[k].trace = k
      /\ vmTraces[k].elf = elfIndex[traces[k].group.code]
  BY <1>1 DEF Interning
<1>3. vmTraces[k].elf + 1 \in 1 .. Len(elfs)
  BY <1>1, <1>2 DEF Interning
<1>4. QED
  BY <1>1, <1>2, <1>3 DEF Designates, Collected

(***************************************************************************)
(* The group that is proved                                                *)
(***************************************************************************)
(* g is the first of the groups met that is not a Type ID.                 *)
FirstOf(i) ==
  /\ i \in 1 .. met
  /\ \A j \in 1 .. i - 1 : IsTypeIdGroup(mock.groups[j])
  /\ traces[1].group = mock.groups[i]
  /\ traces[1].version = ScriptVersion(mock.groups[i])

(* The first trace is of the first group; the guest ran that trace.        *)
FirstTrace ==
  /\ Len(traces) = 0 => \A j \in 1 .. met : IsTypeIdGroup(mock.groups[j])
  /\ Len(traces) > 0 => \E i \in 1 .. met : FirstOf(i)
  /\ pc = "guest" => vmTraces = <<>> \/ 1 \in DOMAIN vmTraces
  /\ pc = "proved" => /\ 1 \in DOMAIN vmTraces
                      /\ replayed = <<[elf     |-> elfs[vmTraces[1].elf + 1],
                                       version |-> vmTraces[1].version,
                                       trace   |-> vmTraces[1].trace]>>

LEMMA FirstTraceInit == Init => FirstTrace
  BY DEF Init, FirstTrace, Terminal

LEMMA FirstTraceNext == Counts /\ FirstTrace /\ [Next]_vars => FirstTrace'
<1> SUFFICES ASSUME Counts, FirstTrace, [Next]_vars PROVE FirstTrace'
  OBVIOUS
<1> USE DEF FirstTrace, traceVars, guestVars
<1>0. /\ Len(traces) \in Nat /\ DOMAIN traces = 1 .. Len(traces) /\ met \in Nat
      /\ Len(traces) <= met
  BY LenProperties DEF Counts
<1>1. CASE SkipTypeId
  <2>1. /\ UNCHANGED <<pc, mock, traces, guestVars>> /\ met' = met + 1 /\ pc = "collect"
        /\ IsTypeIdGroup(mock.groups[met + 1])
    BY <1>1 DEF SkipTypeId, GroupLeft
  <2>2. Len(traces) = 0 => \A j \in 1 .. met' : IsTypeIdGroup(mock'.groups[j])
    BY <1>0, <2>1
  <2>3. Len(traces) > 0 => \E i \in 1 .. met' : FirstOf(i)'
    BY <1>0, <2>1 DEF FirstOf
  <2>4. QED
    BY <2>1, <2>2, <2>3
<1>2. CASE CollectGroup
  <2> DEFINE g == mock.groups[met + 1]
  <2>1. pc = "collect" /\ UNCHANGED <<mock, guestVars>>
    BY <1>2 DEF CollectGroup, GroupLeft
  <2>2. CASE UNCHANGED traceVars /\ pc' = "elf_missing"
    BY <2>1, <2>2 DEF FirstOf
  <2>3. ASSUME NEW size, NEW elf,
               traces' = Append(traces, [group |-> g, version |-> ScriptVersion(g), size |-> size, elf |-> elf]),
               met' = met + 1, pc' = pc
        PROVE  FirstTrace'
    <3> DEFINE t == [group |-> g, version |-> ScriptVersion(g), size |-> size, elf |-> elf]
    <3>1. t.group = g /\ t.version = ScriptVersion(g)
      OBVIOUS
    <3> HIDE DEF t
    <3>2. traces' = Append(traces, t) /\ traces \in Seq(Trace)
      BY <2>3 DEF t, Counts
    <3>3. /\ Len(traces') = Len(traces) + 1 /\ traces'[Len(traces) + 1] = t
          /\ Len(traces) > 0 => traces'[1] = traces[1]
      BY <1>0, <3>2
    <3>4. CASE Len(traces) = 0
      <4> PICK n : n = met + 1
        OBVIOUS
      <4>1. traces'[1] = t /\ n \in 1 .. met' /\ Len(traces') > 0
        BY <1>0, <2>3, <3>3, <3>4
      <4>2. \A j \in 1 .. met : IsTypeIdGroup(mock.groups[j])
        BY <3>4
      <4>3. mock'.groups[n] = g /\ \A j \in 1 .. n - 1 : IsTypeIdGroup(mock'.groups[j])
        BY <1>0, <2>1, <4>2
      <4>4. FirstOf(n)'
        BY <2>1, <3>1, <4>1, <4>3 DEF FirstOf
      <4>5. QED
        BY <2>1, <2>3, <4>1, <4>4
    <3>5. CASE Len(traces) > 0
      <4>1. PICK i \in 1 .. met : FirstOf(i)
        BY <3>5
      <4>2. FirstOf(i)'
        BY <1>0, <2>1, <2>3, <3>3, <3>5, <4>1 DEF FirstOf
      <4>3. QED
        BY <1>0, <2>1, <2>3, <3>3, <3>5, <4>1, <4>2
    <3>6. QED
      BY <1>0, <3>4, <3>5
  <2>4. QED
    BY <1>2, <2>2, <2>3 DEF CollectGroup
<1>3. CASE Analyse
  <2>1. /\ vmTraces' = [k \in DOMAIN traces |-> [version |-> traces[k].version, trace |-> k,
                                                elf |-> elfIndex[traces[k].group.code]]]
        /\ pc' = "guest" /\ UNCHANGED <<mock, met, traces>>
    BY <1>3 DEF Analyse
  <2>2. Len(traces) = 0 => vmTraces' = <<>>
    BY <1>0, <2>1
  <2>3. Len(traces) > 0 => 1 \in DOMAIN vmTraces'
    BY <1>0, <2>1
  <2>4. QED
    BY <1>0, <2>1, <2>2, <2>3 DEF FirstOf
<1>4. CASE Replay
  <2>1. /\ pc = "guest" /\ vmTraces # <<>> /\ pc' = "proved"
        /\ replayed' = <<[elf |-> elfs[ToReplay.elf + 1], version |-> ToReplay.version,
                          trace |-> ToReplay.trace]>>
        /\ UNCHANGED <<mock, met, traces, elfs, vmTraces>>
    BY <1>4 DEF Replay
  <2>2. QED
    BY <2>1 DEF ToReplay, FirstOf
<1>5. CASE IndexDep \/ EnumerateGroups \/ CollectorFails \/ AllCollected \/ InternElf
  BY <1>5 DEF IndexDep, EnumerateGroups, CollectorFails, AllCollected, InternElf, GroupLeft, FirstOf
<1>6. CASE InputTooLarge \/ NoTraces \/ InvalidVersion \/ ReplayFails
  BY <1>6 DEF InputTooLarge, NoTraces, InvalidVersion, ReplayFails, Panics, FirstOf
<1>7. CASE UNCHANGED vars
  BY <1>7 DEF vars, FirstOf
<1>8. QED
  BY <1>1, <1>2, <1>3, <1>4, <1>5, <1>6, <1>7 DEF Next, Finished

LEMMA FirstGroupIsProved ==
  Counts /\ FirstTrace /\ Interning /\ ElfIsVerifiedCode /\ IndexedElf => ProvesFirstGroup
<1> SUFFICES ASSUME Counts, FirstTrace, Interning, ElfIsVerifiedCode, IndexedElf, pc = "proved"
             PROVE  \E i \in DOMAIN mock.groups :
                      /\ \A j \in 1 .. i - 1 : IsTypeIdGroup(mock.groups[j])
                      /\ traces[replayed[1].trace].group = mock.groups[i]
                      /\ CodeOf(mock.groups[i]) = {replayed[1].elf}
                      /\ replayed[1].version = ScriptVersion(mock.groups[i])
  BY DEF ProvesFirstGroup
<1>1. 1 \in DOMAIN vmTraces /\ replayed[1].elf = elfs[vmTraces[1].elf + 1]
      /\ replayed[1].version = vmTraces[1].version /\ replayed[1].trace = vmTraces[1].trace
  BY DEF FirstTrace
<1>2. /\ 1 \in 1 .. interned /\ vmTraces[1].trace = 1 /\ vmTraces[1].version = traces[1].version
  BY <1>1 DEF Interning
<1>3. Len(traces) > 0 /\ 1 \in DOMAIN traces
  BY <1>2, LenProperties DEF Counts
<1>4. PICK i \in 1 .. met : FirstOf(i)
  BY <1>3 DEF FirstTrace
<1>5. i \in DOMAIN mock.groups
  BY <1>4, MockTypes DEF Counts
<1>6. replayed[1].elf = traces[1].elf
  BY <1>1, <1>2 DEF IndexedElf
<1>7. CodeOf(traces[1].group) = {replayed[1].elf}
  BY <1>3, <1>6 DEF ElfIsVerifiedCode
<1>8. traces[1].group = mock.groups[i]
  BY <1>4 DEF FirstOf
<1>9. QED
  BY <1>1, <1>2, <1>4, <1>5, <1>7, <1>8 DEF FirstOf

(***************************************************************************)
(* The theorems                                                            *)
(***************************************************************************)
ContextInv == Counts /\ Index /\ Collected /\ Interning /\ FirstTrace

LEMMA ContextInvariance == Spec => []ContextInv
<1>1. Init => ContextInv
  BY CountsInit, IndexInit, CollectedInit, InterningInit, FirstTraceInit DEF ContextInv
<1>2. ContextInv /\ [Next]_vars => ContextInv'
  BY CountsNext, IndexNext, CollectedNext, InterningNext, FirstTraceNext DEF ContextInv
<1>3. QED
  BY <1>1, <1>2, PTL DEF Spec

LEMMA DesignatesInvariance == FewGroups /\ Spec => [](ContextInv /\ Designates)
<1>1. Init => ContextInv /\ Designates
  BY CountsInit, IndexInit, CollectedInit, InterningInit, FirstTraceInit DEF ContextInv
<1>2. FewGroups /\ ContextInv /\ Designates /\ [Next]_vars => (ContextInv /\ Designates)'
  BY CountsNext, IndexNext, CollectedNext, InterningNext, FirstTraceNext, DesignatesNext DEF ContextInv
<1> SUFFICES ASSUME FewGroups PROVE Spec => [](ContextInv /\ Designates)
  OBVIOUS
<1>3. ContextInv /\ Designates /\ [Next]_vars => (ContextInv /\ Designates)'
  BY <1>2
<1>4. QED
  BY <1>1, <1>3, PTL DEF Spec

(* The state of run and of the guest is well formed throughout: the counts *)
(* are within their loops, every index within the ELFs and 16 bits.        *)
THEOREM ContextTypeCorrect == Spec => []ContextTypeOK
<1>1. ContextInv => ContextTypeOK
  <2> SUFFICES ASSUME ContextInv PROVE ContextTypeOK
    OBVIOUS
  <2>1. \A h \in DOMAIN elfByHash : elfByHash[h] \in DOMAIN ElfSize
    BY IndexedDataIsElf DEF ContextInv
  <2>2. \A k \in DOMAIN traces : traces[k].version \in 0 .. 2 /\ traces[k].size \in TraceSizes \cup {0}
    <3> SUFFICES ASSUME NEW k \in DOMAIN traces PROVE traces[k] \in Trace
      BY DEF Trace
    <3>1. traces \in Seq(Trace)
      BY DEF ContextInv, Counts
    <3>2. QED
      BY <3>1, ElementOfSeq, LenProperties
  <2>3. ASSUME NEW k \in DOMAIN vmTraces PROVE vmTraces[k].elf < U16Range
    BY DEF ContextInv, Interning
  <2>4. QED
    BY <2>1, <2>2, <2>3 DEF ContextInv, Counts, Interning, ContextTypeOK
<1>2. QED
  BY <1>1, ContextInvariance, PTL

(* accumulate_traces never ends the run for want of an ELF: whatever the   *)
(* verifier resolves for a group it runs is in the map of the mock cell    *)
(* deps.                                                                   *)
THEOREM RunnableGroupsHaveElfs == Spec => []RunnableGroupHasElf
<1>1. ContextInv => RunnableGroupHasElf
  BY DEF ContextInv, Collected
<1>2. QED
  BY <1>1, ContextInvariance, PTL

(* The ELF of a trace is the code CKB ran to record it, provided that no   *)
(* container of a dep group follows a code cell with a hash in common.     *)
THEOREM ElfsAreVerifiedCode == NoClash /\ Spec => []ElfIsVerifiedCode
<1> SUFFICES ASSUME NoClash PROVE Spec => []ElfIsVerifiedCode
  OBVIOUS
<1>1. ContextInv => ElfIsVerifiedCode
  BY VerifiedCode DEF ContextInv
<1>2. QED
  BY <1>1, ContextInvariance, PTL

(* The index that reaches the guest with a trace leads to the trace's ELF, *)
(* provided that the groups are no more than 16 bits tell apart.           *)
THEOREM IndicesLeadToElfs == FewGroups /\ Spec => []IndexedElf
<1>1. ContextInv /\ Designates => IndexedElf
  BY IndexLeadsToElf DEF ContextInv
<1>2. QED
  BY <1>1, DesignatesInvariance, PTL

(* What prove proves is the script of the first group that is not a Type   *)
(* ID, under its version, with the code CKB ran for it.                    *)
THEOREM FirstGroupProved == NoClash /\ FewGroups /\ Spec => []ProvesFirstGroup
<1> SUFFICES ASSUME NoClash PROVE FewGroups /\ Spec => []ProvesFirstGroup
  OBVIOUS
<1>1. ContextInv /\ Designates => ProvesFirstGroup
  BY VerifiedCode, IndexLeadsToElf, FirstGroupIsProved DEF ContextInv
<1>2. QED
  BY <1>1, DesignatesInvariance, PTL
================================================================================
