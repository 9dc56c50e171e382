------------------------- MODULE KeyedHashScan_proofs -------------------------
(***************************************************************************)
(* Proofs about KeyedHashScan for every key space, chunk size, batch size  *)
(* and number of concurrent writes: what is recorded, the script it makes, *)
(* the counts of the report, and its progress.                             *)
(***************************************************************************)
EXTENDS KeyedHashScan, FiniteSetTheorems, TLAPS

USE DEF tables, range, loaded, staged, Goto

(* The end of a chunk that starts at a, with m the last key of both tables. *)
LEMMA EndArithmetic ==
    ASSUME NEW a \in Int, NEW m \in Int, a <= m
    PROVE  LET e == IF a + ChunkSize - 1 < m THEN a + ChunkSize - 1 ELSE m
           IN e \in Int /\ a <= e /\ e <= m
  BY SizesAssumption

(* The chunk that starts at chunkStart ends at or after it, within the     *)
(* bounds, and so does the one the next state is at.                       *)
LEMMA ChunkEndBounds ==
    /\ chunkStart \in Int /\ maxInclusive \in Int /\ chunkStart <= maxInclusive
       => ChunkEnd \in Int /\ chunkStart <= ChunkEnd /\ ChunkEnd <= maxInclusive
    /\ chunkStart' \in Int /\ maxInclusive' \in Int /\ chunkStart' <= maxInclusive'
       => ChunkEnd' \in Int /\ chunkStart' <= ChunkEnd' /\ ChunkEnd' <= maxInclusive'
  BY EndArithmetic DEF ChunkEnd

(* The initial states have every type right.                               *)
LEMMA InitTypeOK == Init => TypeOK
<1> SUFFICES ASSUME Init PROVE TypeOK
  OBVIOUS
<1>1. EmptyTable \in Table
  BY DEF EmptyTable, Table
<1>2. cancelled \in BOOLEAN
  BY DEF Init
<1>3. writes \in 0..MaxWrites
  BY SizesAssumption DEF Init
<1> QED
  BY <1>1, <1>2, <1>3 DEF Init, TypeOK, Labels, Failures

(* The typing of the merge input after a query.                            *)
LEMMA LoadRowsType ==
    ASSUME NEW keys, TypeOK, LoadRows(keys)
    PROVE  /\ srcRows' \in Table /\ tgtRows' \in Table
           /\ srcRest' \in SUBSET KeySpace /\ tgtRest' \in SUBSET KeySpace
  BY DEF TypeOK, Table, LoadRows, KeysOf

(* Every step keeps the types.                                             *)
LEMMA NextTypeOK == TypeOK /\ [Next]_vars => TypeOK'
<1> SUFFICES ASSUME TypeOK, [Next]_vars PROVE TypeOK'
  OBVIOUS
<1> USE DEF TypeOK
<1>1. CASE ResolvePlan
  BY <1>1 DEF ResolvePlan, Labels
<1>2. CASE ReadBounds
  <2>1. ASSUME NEW lo \in KeySpace, NEW hi \in KeySpace
        PROVE  ChunkCount(lo, hi) \in Int
    BY KeysAssumption, SizesAssumption DEF ChunkCount, CeilDiv
  <2> QED
    BY <1>2, <2>1, KeysAssumption DEF ReadBounds, Labels
<1>3. CASE CompareSummaries
  BY <1>3, SizesAssumption DEF CompareSummaries, NextChunk, RollBack, ChunkEnd, EmptyTable,
     Table, Labels, Failures
<1>4. CASE LoadChunk
  BY <1>4, LoadRowsType DEF LoadChunk, Labels
<1>5. CASE OpenFull
  BY <1>5, LoadRowsType DEF OpenFull, Labels
<1>6. CASE EmitInsert
  BY <1>6 DEF EmitInsert
<1>7. CASE EmitDelete
  BY <1>7 DEF EmitDelete
<1>8. CASE MatchRows
  BY <1>8 DEF MatchRows
<1>9. CASE MergeDone
  BY <1>9, SizesAssumption DEF MergeDone, NextChunk, RollBack, ChunkEnd, EmptyTable, Table,
     Labels, Failures
<1>10. CASE FlushUpdates
  BY <1>10 DEF FlushUpdates, RollBack, EmptyTable, Table, Labels, Failures, KeysOf
<1>11. CASE Commit
  BY <1>11 DEF Commit, Labels
<1>12. CASE CancelCheck \/ QueryFails
  BY <1>12 DEF CancelCheck, QueryFails, RollBack, EmptyTable, Table, Labels, Failures
<1>13. CASE RequestCancel
  BY <1>13 DEF RequestCancel
<1>14. CASE OtherClientWrites
  BY <1>14, SizesAssumption DEF OtherClientWrites, Table
<1>15. CASE UNCHANGED vars
  BY <1>15 DEF vars
<1> QED
  BY <1>1, <1>2, <1>3, <1>4, <1>5, <1>6, <1>7, <1>8, <1>9, <1>10, <1>11, <1>12, <1>13,
     <1>14, <1>15 DEF Next, Scan
-----------------------------------------------------------------------------
(* The inductive invariant ScanInv, one lemma for each kind of step.       *)

(* A step that changes neither the tables nor the staged records changes   *)
(* nothing of what is settled.                                             *)
LEMMA SettledUnchanged ==
    ASSUME UNCHANGED <<tables, staged>>
    PROVE  /\ Recorded' = Recorded /\ UpdateKeys' = UpdateKeys
           /\ Untouched' = Untouched
           /\ \A k \in KeySpace : Settled(k, source[k], target[k])
                                  => Settled(k, source[k], target[k])'
  BY DEF Settled, Justified, Recorded, UpdateKeys, KeysOf, Untouched

(* Of a key without rows and without records there is nothing to record.   *)
LEMMA NothingRecorded ==
    ASSUME NEW k, NEW s, NEW t, k \notin Recorded, s = NoRow, t = NoRow
    PROVE  Settled(k, s, t)
  BY DEF Settled, Justified, Recorded

(* Of a key whose rows are equal nothing has to be recorded.               *)
LEMMA EqualRowsSettled ==
    ASSUME NEW k, NEW s, k \notin Recorded
    PROVE  Settled(k, s, s)
  BY DEF Settled, Justified, Recorded

(* The plan is chosen before anything is recorded.                         *)
LEMMA ResolvePlanInv == ScanInv /\ ResolvePlan => ScanInv'
<1> SUFFICES ASSUME ScanInv, ResolvePlan PROVE ScanInv'
  OBVIOUS
<1> USE DEF ScanInv, ResolvePlan
<1>1. TypeOK'
  BY NextTypeOK DEF Next, Scan
<1>2. pc' \in {"openFull", "bounds"} /\ Recorded = {}
  BY DEF BeforeScan
<1>3. NeverOverflows' /\ BeforeScan' /\ CachedRows'
  BY <1>2, SettledUnchanged DEF NeverOverflows, BeforeScan, CachedRows, KeysOf
<1> QED
  BY <1>1, <1>2, <1>3 DEF ChunkScanInv, MergeInv, AfterScan

(* The bounds cover every row that nobody else wrote.                      *)
LEMMA ReadBoundsInv == ScanInv /\ ReadBounds => ScanInv'
<1> SUFFICES ASSUME ScanInv, ReadBounds PROVE ScanInv'
  OBVIOUS
<1> USE DEF ScanInv
<1>1. TypeOK'
  BY NextTypeOK DEF Next, Scan
<1>2. UNCHANGED <<tables, staged>> /\ pc = "bounds" /\ UNCHANGED failure
  BY DEF ReadBounds
<1>3. Recorded = {} /\ Recorded' = {}
  BY <1>2, SettledUnchanged DEF BeforeScan
<1>4. NeverOverflows' /\ BeforeScan' /\ CachedRows'
  BY <1>2, <1>3, SettledUnchanged DEF NeverOverflows, BeforeScan, CachedRows, KeysOf
<1>5. CASE NoBounds /\ pc' = "finish" /\ UNCHANGED range
  <2>1. \A k \in KeySpace : source[k] = NoRow /\ target[k] = NoRow
    BY <1>5 DEF NoBounds, KeysOf
  <2>2. \A k \in KeySpace : Settled(k, source[k], target[k])
    BY <1>3, <2>1, NothingRecorded
  <2>3. \A k \in KeySpace : Settled(k, source[k], target[k])'
    BY <1>2, <2>2, SettledUnchanged
  <2> QED
    BY <1>1, <1>4, <1>5, <2>3 DEF ChunkScanInv, MergeInv, AfterScan, Untouched
<1>6. CASE pc' = "chunk"
  <2>1. PICK lo \in KeySpace, hi \in KeySpace :
            MergedBounds(lo, hi) /\ chunkStart' = lo /\ maxInclusive' = hi
    BY <1>6 DEF ReadBounds
  <2>2. \A k \in KeySpace : source[k] # NoRow \/ target[k] # NoRow => lo <= k /\ k <= hi
    BY <2>1 DEF MergedBounds, KeysOf
  <2>3. lo <= hi /\ hi <= KeyMax
    BY <2>1, KeysAssumption DEF MergedBounds
  <2>4. ASSUME NEW k \in Untouched', k < lo
        PROVE  Settled(k, source[k], target[k])'
    <3>1. k \in KeySpace /\ source[k] = NoRow /\ target[k] = NoRow
      BY <1>2, <2>2, <2>4, KeysAssumption DEF Untouched
    <3>2. Settled(k, source[k], target[k])
      BY <1>3, <3>1, NothingRecorded
    <3> QED
      BY <1>2, <3>1, <3>2, SettledUnchanged
  <2>5. ChunkScanInv'
    BY <1>2, <1>3, <1>6, <2>1, <2>2, <2>3, <2>4 DEF ChunkScanInv, Untouched
  <2> QED
    BY <1>1, <1>4, <1>6, <2>5 DEF MergeInv, AfterScan
<1> QED
  BY <1>5, <1>6 DEF ReadBounds

(* A rollback leaves nothing to keep true.                                 *)
LEMMA RollBackInv ==
    ASSUME ScanInv, NEW reason \in Failures \ {"overflow"}, RollBack(reason),
           UNCHANGED <<tables, cancelled, range, loaded>>
    PROVE  ScanInv'
<1>1. TypeOK'
  BY DEF ScanInv, TypeOK, RollBack, Labels, EmptyTable, Table
<1>2. NeverOverflows' /\ CachedRows' /\ pc' = "rolledback"
  BY DEF RollBack, NeverOverflows, CachedRows, EmptyTable, Untouched, KeysOf, ScanInv, TypeOK
<1> QED
  BY <1>1, <1>2 DEF ScanInv, BeforeScan, ChunkScanInv, MergeInv, AfterScan

(* Passing on from a chunk whose keys are all settled, to the next chunk   *)
(* or to the end: this is where a gap or an overlap between two chunks     *)
(* would show, and why the addition cannot overflow.                       *)
LEMMA NextChunkInv ==
    ASSUME ScanInv, TypeOK', NextChunk, pc \in {"chunk", "mergeChunk"},
           UNCHANGED <<tables, maxInclusive, loaded>>,
           \A k \in Recorded : k <= ChunkEnd,
           \A k \in Untouched : k <= ChunkEnd => Settled(k, source[k], target[k])
    PROVE  ScanInv'
<1> USE DEF ScanInv
<1>1. /\ ChunkEnd \in Int /\ chunkStart <= ChunkEnd /\ ChunkEnd <= maxInclusive
      /\ maxInclusive \in Int /\ chunkStart \in Int /\ KeyMax \in Int
      /\ maxInclusive <= KeyMax
  BY ChunkEndBounds, KeysAssumption DEF TypeOK, ChunkScanInv
<1>2. CASE ChunkEnd = maxInclusive /\ Goto("finish") /\ UNCHANGED <<chunkStart, staged>>
  <2>1. \A k \in Untouched : Settled(k, source[k], target[k])
    <3>1. TAKE k \in Untouched
    <3>2. k \in KeySpace /\ k \in Int
      BY KeysAssumption DEF Untouched
    <3>3. CASE k <= maxInclusive
      BY <1>2, <3>3
    <3>4. CASE ~(k <= maxInclusive)
      <4>1. source[k] = NoRow /\ target[k] = NoRow
        BY <3>4 DEF ChunkScanInv
      <4>2. k \notin Recorded
        BY <1>1, <1>2, <3>2, <3>4
      <4> QED
        BY <4>1, <4>2, NothingRecorded
    <3> QED
      BY <3>3, <3>4
  <2>2. \A k \in Untouched' : Settled(k, source[k], target[k])'
    BY <1>2, <2>1, SettledUnchanged DEF Untouched
  <2>3. NeverOverflows' /\ CachedRows'
    BY <1>2 DEF NeverOverflows, CachedRows, Untouched, KeysOf
  <2> QED
    BY <1>2, <2>2, <2>3 DEF BeforeScan, ChunkScanInv, MergeInv, AfterScan
<1>3. CASE ChunkEnd # maxInclusive
  <2>1. ChunkEnd # KeyMax
    BY <1>1, <1>3
  <2>2. Goto("chunk") /\ chunkStart' = ChunkEnd + 1 /\ UNCHANGED staged
    BY <1>3, <2>1 DEF NextChunk
  <2>3. \A k \in Untouched' : k < chunkStart' => Settled(k, source[k], target[k])'
    <3>1. TAKE k \in Untouched'
    <3>2. k \in KeySpace /\ k \in Int /\ k \in Untouched
      BY KeysAssumption DEF Untouched
    <3>3. HAVE k < chunkStart'
    <3>4. Settled(k, source[k], target[k])
      BY <1>1, <2>2, <3>2, <3>3
    <3> QED
      BY <2>2, <3>2, <3>4, SettledUnchanged
  <2>4. \A k \in Recorded' : k < chunkStart' /\ k <= ChunkEnd'
    <3>1. TAKE k \in Recorded'
    <3>2. k \in Recorded /\ k \in Int
      BY <2>2, SettledUnchanged, KeysAssumption
         DEF Recorded, UpdateKeys, KeysOf, TypeOK
    <3>3. k < chunkStart'
      BY <1>1, <2>2, <3>2
    <3>4. chunkStart' <= maxInclusive' /\ chunkStart' \in Int /\ maxInclusive' \in Int
      BY <1>1, <1>3, <2>2
    <3>5. ChunkEnd' \in Int /\ chunkStart' <= ChunkEnd'
      BY <3>4, ChunkEndBounds
    <3> QED
      BY <3>2, <3>3, <3>4, <3>5
  <2>5. ChunkScanInv'
    BY <1>1, <1>3, <2>2, <2>3, <2>4 DEF ChunkScanInv, Untouched
  <2>6. NeverOverflows' /\ CachedRows'
    BY <2>2 DEF NeverOverflows, CachedRows, Untouched, KeysOf
  <2> QED
    BY <2>2, <2>5, <2>6 DEF BeforeScan, MergeInv, AfterScan
<1> QED
  BY <1>2, <1>3 DEF NextChunk

(* A chunk is skipped only when all its rows are equal.                    *)
LEMMA CompareSummariesInv == ScanInv /\ CompareSummaries => ScanInv'
<1> SUFFICES ASSUME ScanInv, CompareSummaries PROVE ScanInv'
  OBVIOUS
<1> USE DEF ScanInv, CompareSummaries
<1>1. TypeOK'
  BY NextTypeOK DEF Next, Scan
<1>2. \A k \in Recorded : k <= ChunkEnd /\ k < chunkStart
  BY DEF ChunkScanInv
<1>3. CASE SummariesDiffer /\ Goto("load") /\ UNCHANGED <<chunkStart, staged>>
  <2>1. ChunkEnd' = ChunkEnd
    BY <1>3 DEF ChunkEnd
  <2>2. ChunkScanInv'
    BY <1>2, <1>3, <2>1, SettledUnchanged DEF ChunkScanInv, Untouched
  <2>3. NeverOverflows' /\ CachedRows'
    BY <1>3 DEF NeverOverflows, CachedRows, Untouched, KeysOf
  <2> QED
    BY <1>1, <1>3, <2>2, <2>3 DEF BeforeScan, MergeInv, AfterScan
<1>4. CASE ~SummariesDiffer /\ NextChunk
  <2>1. ASSUME NEW k \in Untouched, k <= ChunkEnd
        PROVE  Settled(k, source[k], target[k])
    <3>1. k \in KeySpace /\ k \in Int /\ chunkStart \in Int
      BY KeysAssumption DEF Untouched, TypeOK
    <3>2. CASE k < chunkStart
      BY <3>2 DEF ChunkScanInv
    <3>3. CASE chunkStart <= k
      <4>1. source[k] = target[k]
        BY <1>4, <2>1, <3>1, <3>3 DEF SummariesDiffer, InChunk
      <4>2. k \notin Recorded
        BY <1>2, <3>1, <3>3
      <4> QED
        BY <4>1, <4>2, EqualRowsSettled
    <3> QED
      BY <3>1, <3>2, <3>3
  <2> QED
    BY <1>1, <1>2, <1>4, <2>1, NextChunkInv
<1> QED
  BY <1>3, <1>4

(* Rows just loaded are unconsumed, and nothing is recorded of their keys. *)
LEMMA LoadedInMerge ==
    ASSUME TypeOK, NEW keys, LoadRows(keys), UNCHANGED staged,
           NEW k \in KeySpace, k \notin Recorded
    PROVE  InMerge(k)'
  BY DEF TypeOK, LoadRows, InMerge, Justified, SrcTaken, TgtTaken, Matched, KeysOf,
     Recorded, UpdateKeys

(* Before anything of the loaded rows is consumed there is no frontier.    *)
LEMMA LoadedFrontier ==
    ASSUME NEW keys, LoadRows(keys)
    PROVE  /\ srcRest' \subseteq KeysOf(srcRows)' /\ tgtRest' \subseteq KeysOf(tgtRows)'
           /\ MergeFrontier'
  BY DEF LoadRows, MergeFrontier, SrcTaken, TgtTaken, KeysOf

(* Loading a chunk.                                                        *)
LEMMA LoadChunkInv == ScanInv /\ LoadChunk => ScanInv'
<1> SUFFICES ASSUME ScanInv, LoadChunk PROVE ScanInv'
  OBVIOUS
<1> USE DEF ScanInv, LoadChunk
<1>1. TypeOK'
  BY NextTypeOK DEF Next, Scan
<1>2. ChunkEnd' = ChunkEnd /\ \A k : InChunk(k)' <=> InChunk(k)
  BY DEF ChunkEnd, InChunk
<1>3. \A k \in Recorded : k < chunkStart /\ k <= ChunkEnd
  BY DEF ChunkScanInv
<1>4. ChunkScanInv'
  BY <1>2, <1>3, SettledUnchanged DEF ChunkScanInv, Untouched
<1>5. ASSUME NEW k \in KeySpace, InChunk(k)
      PROVE  InMerge(k)'
  <2>1. k \notin Recorded
    BY <1>3, <1>5, KeysAssumption DEF InChunk, TypeOK
  <2> QED
    BY <2>1, LoadedInMerge
<1>6. \A k \in KeySpace : ~InChunk(k) => srcRows'[k] = NoRow /\ tgtRows'[k] = NoRow
  BY DEF LoadRows
<1>7. \A k \in Untouched' : InChunk(k) => Fresh(k)'
  BY DEF LoadRows, Fresh, Untouched
<1>8. MergeInv'
  BY <1>2, <1>5, <1>6, <1>7, LoadedFrontier DEF MergeInv
<1>9. NeverOverflows' /\ CachedRows'
  BY DEF NeverOverflows, CachedRows, Untouched, KeysOf
<1> QED
  BY <1>1, <1>4, <1>8, <1>9 DEF BeforeScan, AfterScan

(* Opening both result sets of a full scan.                                *)
LEMMA OpenFullInv == ScanInv /\ OpenFull => ScanInv'
<1> SUFFICES ASSUME ScanInv, OpenFull PROVE ScanInv'
  OBVIOUS
<1> USE DEF ScanInv, OpenFull
<1>1. TypeOK'
  BY NextTypeOK DEF Next, Scan
<1>2. \A k \in KeySpace : InMerge(k)'
  BY LoadedInMerge DEF BeforeScan
<1>3. \A k \in Untouched' : Fresh(k)'
  BY DEF LoadRows, Fresh, Untouched
<1>4. NeverOverflows' /\ CachedRows'
  BY DEF NeverOverflows, CachedRows, Untouched, KeysOf
<1> QED
  BY <1>1, <1>2, <1>3, <1>4, LoadedFrontier DEF BeforeScan, ChunkScanInv, MergeInv, AfterScan

(* What the steps of the merge have in common: they leave the tables and   *)
(* the loaded rows alone, record only keys that are being merged, and      *)
(* forget no record.                                                       *)
LEMMA MergeStepInv ==
    ASSUME ScanInv, TypeOK', Merging,
           UNCHANGED <<tables, pc, failure, range, srcRows, tgtRows, updates>>,
           Recorded \subseteq Recorded',
           Recorded' \subseteq Recorded \cup srcRest \cup tgtRest,
           \A k \in KeySpace : k \notin srcRest \cup tgtRest =>
              /\ k \in inserts' <=> k \in inserts
              /\ k \in deletes' <=> k \in deletes
              /\ k \in UpdateKeys' <=> k \in UpdateKeys,
           srcRest' \subseteq srcRest, tgtRest' \subseteq tgtRest,
           pendingUpdates' \subseteq pendingUpdates \cup (srcRest \cap tgtRest),
           MergeFrontier',
           \A k \in KeySpace : InMerge(k) => InMerge(k)'
    PROVE  ScanInv'
<1> USE DEF ScanInv
<1>1. pc \in {"mergeChunk", "mergeFull"}
  BY DEF Merging
<1>2. ChunkEnd' = ChunkEnd /\ (\A k : InChunk(k)' <=> InChunk(k)) /\ Untouched' = Untouched
  BY DEF ChunkEnd, InChunk, Untouched
<1>3. ASSUME pc = "mergeChunk", NEW k \in srcRest \cup tgtRest
      PROVE  InChunk(k)
  BY <1>3 DEF MergeInv, TypeOK, KeysOf
<1>4. ASSUME pc = "mergeChunk" PROVE ChunkScanInv'
  <2>1. \A k \in Recorded' : k <= ChunkEnd'
    BY <1>2, <1>3, <1>4 DEF ChunkScanInv, InChunk
  <2>2. ASSUME NEW k \in Untouched, k < chunkStart
        PROVE  Settled(k, source[k], target[k])'
    <3>1. k \in KeySpace /\ k \notin srcRest \cup tgtRest
      BY <1>3, <1>4, <2>2, KeysAssumption DEF InChunk, Untouched, TypeOK
    <3>2. Settled(k, source[k], target[k])
      BY <1>4, <2>2 DEF ChunkScanInv
    <3> QED
      BY <3>1, <3>2 DEF Settled, Justified
  <2> QED
    BY <1>2, <1>4, <2>1, <2>2 DEF ChunkScanInv
<1>5. MergeInv'
  <2>1. pc = "mergeChunk" => \A k \in KeySpace :
            IF InChunk(k)' THEN InMerge(k)' ELSE srcRows'[k] = NoRow /\ tgtRows'[k] = NoRow
    BY <1>2 DEF MergeInv
  <2>2. pc = "mergeChunk" => \A k \in Untouched' : InChunk(k)' => Fresh(k)'
    BY <1>2 DEF MergeInv, Fresh
  <2>3. pc = "mergeFull" => /\ \A k \in KeySpace : InMerge(k)'
                            /\ \A k \in Untouched' : Fresh(k)'
    BY <1>2 DEF MergeInv, Fresh
  <2>4. srcRest' \subseteq KeysOf(srcRows)' /\ tgtRest' \subseteq KeysOf(tgtRows)'
    BY <1>1 DEF MergeInv, KeysOf
  <2> QED
    BY <2>1, <2>2, <2>3, <2>4 DEF MergeInv
<1>6. CachedRows'
  <2>1. \A k \in srcRest \cap tgtRest : updates[k] = NoRow
    <3>1. TAKE k \in srcRest \cap tgtRest
    <3>2. InMerge(k) /\ k \in KeySpace
      BY <1>1, <1>3 DEF MergeInv, TypeOK
    <3> QED
      BY <3>2 DEF InMerge, UpdateKeys, KeysOf
  <2> QED
    BY <1>2, <2>1 DEF CachedRows, KeysOf
<1>7. NeverOverflows'
  BY DEF NeverOverflows
<1> QED
  BY <1>1, <1>4, <1>5, <1>6, <1>7 DEF BeforeScan, ChunkScanInv, AfterScan

(* A source row emitted as an insert comes before every target row left,   *)
(* when text order is key order.                                           *)
LEMMA EmitInsertInv == ScanInv /\ EmitInsert => ScanInv'
<1> SUFFICES ASSUME ScanInv, EmitInsert PROVE ScanInv'
  OBVIOUS
<1> USE DEF ScanInv
<1>1. TypeOK'
  BY NextTypeOK DEF Next, Scan
<1>2. PICK s \in srcRest :
        /\ Peek(srcRest, s)
        /\ tgtRest = {} \/ \E t \in tgtRest : Peek(tgtRest, t) /\ s # t /\ TextBefore(s, t)
        /\ srcRest' = srcRest \ {s}
        /\ inserts' = inserts \cup {s}
  BY DEF EmitInsert
<1>3. /\ Merging /\ pc \in {"mergeChunk", "mergeFull"}
      /\ s \in KeySpace /\ srcRest \subseteq KeySpace /\ tgtRest \subseteq KeySpace
      /\ UNCHANGED <<tables, pc, failure, range, srcRows, tgtRows, tgtRest, deletes,
                     pendingUpdates, updates, UpdateKeys>>
  BY <1>2 DEF EmitInsert, Merging, TypeOK, UpdateKeys, KeysOf
<1>4. InMerge(s)
  BY <1>2, <1>3 DEF MergeInv, KeysOf
<1>5. /\ KeysOf(srcRows)' = KeysOf(srcRows) /\ KeysOf(tgtRows)' = KeysOf(tgtRows)
      /\ SrcTaken' = SrcTaken \cup {s} /\ TgtTaken' = TgtTaken
  BY <1>2, <1>3 DEF SrcTaken, TgtTaken, KeysOf, MergeInv
<1>6. OrdersAgree => \A t \in tgtRest : s < t
  BY <1>2, <1>3, KeysAssumption DEF Peek, OrdersAgree
<1>7. OrdersAgree => \A k \in srcRest' : s < k
  BY <1>2, <1>3, KeysAssumption DEF Peek
<1>8. MergeFrontier'
  BY <1>2, <1>3, <1>5, <1>6, <1>7 DEF MergeInv, MergeFrontier
<1>9. OrdersAgree => tgtRows[s] = NoRow
  <2>1. OrdersAgree => s \notin tgtRest /\ s \notin TgtTaken
    BY <1>2, <1>3, <1>6, KeysAssumption DEF MergeInv, MergeFrontier
  <2> QED
    BY <1>3, <2>1 DEF TgtTaken, KeysOf
<1>10. ASSUME NEW k \in KeySpace, InMerge(k) PROVE InMerge(k)'
  <2>1. CASE k = s
    <3>1. Justified(s, srcRows[s], tgtRows[s])'
      BY <1>2, <1>3, <1>4, <1>9 DEF Justified, InMerge
    <3>2. s \in TgtTaken => s \in deletes
      BY <1>2, <1>4 DEF InMerge, Matched, SrcTaken
    <3> QED
      BY <1>2, <1>3, <1>4, <1>5, <2>1, <3>1, <3>2 DEF InMerge
  <2>2. CASE k # s
    BY <1>2, <1>3, <1>5, <1>10, <2>2 DEF InMerge, Justified, Matched
  <2> QED
    BY <2>1, <2>2
<1> QED
  BY <1>1, <1>2, <1>3, <1>8, <1>10, MergeStepInv DEF Recorded

(* The same for a target row emitted as a delete.                          *)
LEMMA EmitDeleteInv == ScanInv /\ EmitDelete => ScanInv'
<1> SUFFICES ASSUME ScanInv, EmitDelete PROVE ScanInv'
  OBVIOUS
<1> USE DEF ScanInv
<1>1. TypeOK'
  BY NextTypeOK DEF Next, Scan
<1>2. PICK t \in tgtRest :
        /\ Peek(tgtRest, t)
        /\ srcRest = {} \/ \E s \in srcRest : Peek(srcRest, s) /\ s # t /\ ~TextBefore(s, t)
        /\ tgtRest' = tgtRest \ {t}
        /\ deletes' = deletes \cup {t}
  BY DEF EmitDelete
<1>3. /\ Merging /\ pc \in {"mergeChunk", "mergeFull"}
      /\ t \in KeySpace /\ srcRest \subseteq KeySpace /\ tgtRest \subseteq KeySpace
      /\ UNCHANGED <<tables, pc, failure, range, srcRows, tgtRows, srcRest, inserts,
                     pendingUpdates, updates, UpdateKeys>>
  BY <1>2 DEF EmitDelete, Merging, TypeOK, UpdateKeys, KeysOf
<1>4. InMerge(t)
  BY <1>2, <1>3 DEF MergeInv, KeysOf
<1>5. /\ KeysOf(srcRows)' = KeysOf(srcRows) /\ KeysOf(tgtRows)' = KeysOf(tgtRows)
      /\ TgtTaken' = TgtTaken \cup {t} /\ SrcTaken' = SrcTaken
  BY <1>2, <1>3 DEF SrcTaken, TgtTaken, KeysOf, MergeInv
<1>6. OrdersAgree => \A s \in srcRest : t < s
  BY <1>2, <1>3, KeysAssumption DEF Peek, OrdersAgree
<1>7. OrdersAgree => \A k \in tgtRest' : t < k
  BY <1>2, <1>3, KeysAssumption DEF Peek
<1>8. MergeFrontier'
  BY <1>2, <1>3, <1>5, <1>6, <1>7 DEF MergeInv, MergeFrontier
<1>9. OrdersAgree => srcRows[t] = NoRow
  <2>1. OrdersAgree => t \notin srcRest /\ t \notin SrcTaken
    BY <1>2, <1>3, <1>6, KeysAssumption DEF MergeInv, MergeFrontier
  <2> QED
    BY <1>3, <2>1 DEF SrcTaken, KeysOf
<1>10. ASSUME NEW k \in KeySpace, InMerge(k) PROVE InMerge(k)'
  <2>1. CASE k = t
    <3>1. Justified(t, srcRows[t], tgtRows[t])'
      BY <1>2, <1>3, <1>4, <1>9 DEF Justified, InMerge
    <3>2. t \in SrcTaken => t \in inserts
      BY <1>2, <1>4 DEF InMerge, Matched, TgtTaken
    <3> QED
      BY <1>2, <1>3, <1>4, <1>5, <2>1, <3>1, <3>2 DEF InMerge
  <2>2. CASE k # t
    BY <1>2, <1>3, <1>5, <1>10, <2>2 DEF InMerge, Justified, Matched
  <2> QED
    BY <2>1, <2>2
<1> QED
  BY <1>1, <1>2, <1>3, <1>8, <1>10, MergeStepInv DEF Recorded

(* Two rows with one key, consumed together.                               *)
LEMMA MatchRowsInv == ScanInv /\ MatchRows => ScanInv'
<1> SUFFICES ASSUME ScanInv, MatchRows PROVE ScanInv'
  OBVIOUS
<1> USE DEF ScanInv
<1>1. TypeOK'
  BY NextTypeOK DEF Next, Scan
<1>2. PICK m \in srcRest \cap tgtRest :
        /\ Peek(srcRest, m) /\ Peek(tgtRest, m)
        /\ srcRest' = srcRest \ {m} /\ tgtRest' = tgtRest \ {m}
        /\ pendingUpdates' = IF srcRows[m] # tgtRows[m] THEN pendingUpdates \cup {m}
                                                         ELSE pendingUpdates
  BY DEF MatchRows
<1>3. /\ Merging /\ pc \in {"mergeChunk", "mergeFull"}
      /\ m \in KeySpace /\ srcRest \subseteq KeySpace /\ tgtRest \subseteq KeySpace
      /\ UNCHANGED <<tables, pc, failure, range, srcRows, tgtRows, inserts, deletes, updates>>
      /\ UpdateKeys' = IF srcRows[m] # tgtRows[m] THEN UpdateKeys \cup {m} ELSE UpdateKeys
  BY <1>2 DEF MatchRows, Merging, TypeOK, UpdateKeys, KeysOf
<1>4. InMerge(m)
  BY <1>2, <1>3 DEF MergeInv, KeysOf
<1>5. /\ KeysOf(srcRows)' = KeysOf(srcRows) /\ KeysOf(tgtRows)' = KeysOf(tgtRows)
      /\ SrcTaken' = SrcTaken \cup {m} /\ TgtTaken' = TgtTaken \cup {m}
  BY <1>2, <1>3 DEF SrcTaken, TgtTaken, KeysOf, MergeInv
<1>6. \A k \in srcRest' \cup tgtRest' : m < k
  BY <1>2, <1>3, KeysAssumption DEF Peek
<1>7. MergeFrontier'
  BY <1>2, <1>3, <1>5, <1>6 DEF MergeInv, MergeFrontier
<1>8. ASSUME NEW k \in KeySpace, InMerge(k) PROVE InMerge(k)'
  <2>1. CASE k = m
    <3>1. m \notin inserts \cup deletes \cup UpdateKeys /\ srcRows[m] # NoRow /\ tgtRows[m] # NoRow
      BY <1>2, <1>4 DEF InMerge
    <3>2. Justified(m, srcRows[m], tgtRows[m])'
      BY <1>3, <3>1 DEF Justified
    <3>3. Matched(m)'
      BY <1>3, <1>5, <3>1 DEF Matched
    <3> QED
      BY <1>2, <2>1, <3>2, <3>3 DEF InMerge
  <2>2. CASE k # m
    BY <1>2, <1>3, <1>5, <1>8, <2>2 DEF InMerge, Justified, Matched
  <2> QED
    BY <2>1, <2>2
<1> QED
  BY <1>1, <1>2, <1>3, <1>7, <1>8, MergeStepInv DEF Recorded

(* Once both sides are consumed, every loaded key is settled.              *)
LEMMA MergedSettled ==
    ASSUME NEW k, k \in KeySpace, InMerge(k), srcRest = {}, tgtRest = {}
    PROVE  Settled(k, srcRows[k], tgtRows[k])
  BY DEF InMerge, Settled, Justified, SrcTaken, TgtTaken, Matched, KeysOf

(* The end of a merge: the chunk, or the whole table, is settled.          *)
LEMMA MergeDoneInv == ScanInv /\ MergeDone => ScanInv'
<1> SUFFICES ASSUME ScanInv, MergeDone PROVE ScanInv'
  OBVIOUS
<1> USE DEF ScanInv, MergeDone
<1>1. TypeOK'
  BY NextTypeOK DEF Next, Scan
<1>2. CASE pc = "mergeChunk" /\ NextChunk
  <2>1. \A k \in Recorded : k <= ChunkEnd
    BY <1>2 DEF ChunkScanInv
  <2>2. ASSUME NEW k \in Untouched, k <= ChunkEnd
        PROVE  Settled(k, source[k], target[k])
    <3>1. k \in KeySpace /\ k \in Int /\ chunkStart \in Int
      BY KeysAssumption DEF Untouched, TypeOK
    <3>2. CASE k < chunkStart
      BY <1>2, <3>2 DEF ChunkScanInv
    <3>3. CASE chunkStart <= k
      <4>1. InMerge(k) /\ Fresh(k)
        BY <1>2, <2>2, <3>1, <3>3 DEF MergeInv, InChunk
      <4> QED
        BY <3>1, <4>1, MergedSettled DEF Fresh
    <3> QED
      BY <3>1, <3>2, <3>3
  <2> QED
    BY <1>1, <1>2, <2>1, <2>2, NextChunkInv
<1>3. CASE pc = "mergeFull" /\ Goto("finish") /\ UNCHANGED <<chunkStart, staged>>
  <2>1. \A k \in Untouched : Settled(k, source[k], target[k])
    BY <1>3, MergedSettled DEF MergeInv, Fresh, Untouched
  <2>2. \A k \in Untouched' : Settled(k, source[k], target[k])'
    BY <1>3, <2>1, SettledUnchanged DEF Untouched
  <2>3. NeverOverflows' /\ CachedRows'
    BY <1>3 DEF NeverOverflows, CachedRows, Untouched, KeysOf
  <2> QED
    BY <1>1, <1>3, <2>2, <2>3 DEF BeforeScan, ChunkScanInv, MergeInv, AfterScan
<1> QED
  BY <1>2, <1>3

(* A flush replaces pending keys by fetched rows and records nothing new.  *)
LEMMA FlushUpdatesInv == ScanInv /\ FlushUpdates => ScanInv'
<1> SUFFICES ASSUME ScanInv, FlushUpdates PROVE ScanInv'
  OBVIOUS
<1> USE DEF ScanInv, FlushUpdates
<1>1. TypeOK'
  BY NextTypeOK DEF Next, Scan
<1>2. CASE ~(pendingUpdates \subseteq KeysOf(source) \cap KeysOf(target))
  BY <1>2, RollBackInv DEF Failures
<1>3. CASE pendingUpdates \subseteq KeysOf(source) \cap KeysOf(target)
  <2>1. /\ updates' = [k \in KeySpace |->
                         IF k \in pendingUpdates THEN source[k] ELSE updates[k]]
        /\ pendingUpdates' = {}
        /\ UNCHANGED <<pc, failure, inserts, deletes, tables, range, loaded>>
    BY <1>3
  <2>2. UpdateKeys' = UpdateKeys /\ Recorded' = Recorded
    BY <1>3, <2>1 DEF UpdateKeys, Recorded, KeysOf, TypeOK
  <2>3. /\ ChunkEnd' = ChunkEnd /\ (\A k : InChunk(k)' <=> InChunk(k)) /\ Untouched' = Untouched
        /\ SrcTaken' = SrcTaken /\ TgtTaken' = TgtTaken
        /\ KeysOf(srcRows)' = KeysOf(srcRows) /\ KeysOf(tgtRows)' = KeysOf(tgtRows)
    BY <2>1 DEF ChunkEnd, InChunk, Untouched, SrcTaken, TgtTaken, KeysOf
  <2>4. \A k \in KeySpace : Settled(k, source[k], target[k]) => Settled(k, source[k], target[k])'
    BY <2>1, <2>2 DEF Settled, Justified
  <2>5. \A k \in KeySpace : InMerge(k) => InMerge(k)'
    BY <2>1, <2>2, <2>3 DEF InMerge, Justified, Matched
  <2>6. BeforeScan' /\ ChunkScanInv' /\ AfterScan' /\ NeverOverflows'
    BY <2>1, <2>2, <2>3, <2>4 DEF BeforeScan, ChunkScanInv, AfterScan, NeverOverflows, Untouched
  <2>7. MergeInv'
    BY <2>1, <2>3, <2>5 DEF MergeInv, MergeFrontier, Fresh
  <2>8. CachedRows'
    BY <2>1, <2>3 DEF CachedRows, Untouched, KeysOf
  <2> QED
    BY <1>1, <2>6, <2>7, <2>8
<1> QED
  BY <1>2, <1>3

(* What others write changes nothing of the keys they did not write.       *)
LEMMA OtherClientWritesInv == ScanInv /\ OtherClientWrites => ScanInv'
<1> SUFFICES ASSUME ScanInv, OtherClientWrites PROVE ScanInv'
  OBVIOUS
<1> USE DEF ScanInv
<1>1. TypeOK'
  BY NextTypeOK DEF Next, Scan
<1>2. UNCHANGED <<pc, failure, range, loaded, staged>>
  BY DEF OtherClientWrites
<1>3. Untouched' \subseteq Untouched
  BY DEF OtherClientWrites, Untouched
<1>4. \A k \in Untouched' : source'[k] = source[k] /\ target'[k] = target[k]
  BY DEF OtherClientWrites, Untouched, TypeOK, Table
<1>5. /\ ChunkEnd' = ChunkEnd /\ (\A k : InChunk(k)' <=> InChunk(k))
      /\ UpdateKeys' = UpdateKeys /\ Recorded' = Recorded
      /\ SrcTaken' = SrcTaken /\ TgtTaken' = TgtTaken
      /\ KeysOf(srcRows)' = KeysOf(srcRows) /\ KeysOf(tgtRows)' = KeysOf(tgtRows)
  BY <1>2 DEF ChunkEnd, InChunk, UpdateKeys, Recorded, SrcTaken, TgtTaken, KeysOf
<1>6. \A k \in Untouched' : Settled(k, source[k], target[k]) => Settled(k, source[k], target[k])'
  BY <1>2, <1>4, <1>5 DEF Settled, Justified
<1>7. \A k : InMerge(k) => InMerge(k)'
  BY <1>2, <1>5 DEF InMerge, Justified, Matched
<1>8. BeforeScan' /\ ChunkScanInv' /\ AfterScan' /\ NeverOverflows'
  BY <1>2, <1>3, <1>4, <1>5, <1>6 DEF BeforeScan, ChunkScanInv, AfterScan, NeverOverflows
<1>9. MergeInv'
  BY <1>2, <1>3, <1>4, <1>5, <1>7 DEF MergeInv, MergeFrontier, Fresh
<1>10. CachedRows'
  BY <1>2, <1>3, <1>4 DEF CachedRows, KeysOf
<1> QED
  BY <1>1, <1>8, <1>9, <1>10

(* Steps that change only the place in the scan or the cancel flag.        *)
LEMMA OtherStepsInv ==
    ScanInv /\ (Commit \/ CancelCheck \/ QueryFails \/ RequestCancel \/ UNCHANGED vars) => ScanInv'
<1> SUFFICES ASSUME ScanInv, Commit \/ CancelCheck \/ QueryFails \/ RequestCancel \/ UNCHANGED vars
             PROVE  ScanInv'
  OBVIOUS
<1>1. CASE CancelCheck \/ QueryFails
  BY <1>1, RollBackInv DEF CancelCheck, QueryFails, Failures
<1>2. CASE Commit
  <2>1. TypeOK' /\ \A k \in Untouched' : Settled(k, source[k], target[k])'
    BY <1>2, SettledUnchanged, NextTypeOK DEF Commit, Next, Scan, ScanInv, AfterScan, Untouched
  <2>2. NeverOverflows' /\ CachedRows'
    BY <1>2 DEF Commit, ScanInv, NeverOverflows, CachedRows, Untouched, KeysOf
  <2> QED
    BY <1>2, <2>1, <2>2 DEF Commit, ScanInv, BeforeScan, ChunkScanInv, MergeInv, AfterScan
<1>3. CASE RequestCancel \/ UNCHANGED vars
  <2>1. TypeOK'
    BY <1>3, NextTypeOK DEF Next, ScanInv
  <2>2. UNCHANGED <<tables, pc, failure, range, loaded, staged>>
    BY <1>3 DEF RequestCancel, vars
  <2> QED
    BY <2>1, <2>2 DEF ScanInv, NeverOverflows, BeforeScan, ChunkScanInv, MergeInv, AfterScan,
       CachedRows, Settled, Justified, InMerge, Matched, MergeFrontier, Fresh, SrcTaken,
       TgtTaken, UpdateKeys, Recorded, KeysOf, Untouched, ChunkEnd, InChunk
<1> QED
  BY <1>1, <1>2, <1>3

(* A scan that has not begun satisfies the invariant.                      *)
LEMMA InitScanInv == Init => ScanInv
  BY InitTypeOK DEF Init, ScanInv, NeverOverflows, BeforeScan, ChunkScanInv, MergeInv,
     AfterScan, CachedRows, Recorded, UpdateKeys, KeysOf, EmptyTable, Untouched

(* ScanInv holds at every moment of every scan.                            *)
THEOREM ScanInvariant == Spec => []ScanInv
<1>1. Init => ScanInv
  BY InitScanInv
<1>2. ScanInv /\ [Next]_vars => ScanInv'
  BY ResolvePlanInv, ReadBoundsInv, CompareSummariesInv, LoadChunkInv, OpenFullInv,
     EmitInsertInv, EmitDeleteInv, MatchRowsInv, MergeDoneInv, FlushUpdatesInv,
     OtherClientWritesInv, OtherStepsInv DEF Next, Scan
<1> QED
  BY <1>1, <1>2, PTL DEF Spec

(* Whatever is committed converges: the generated script brings every row  *)
(* that nobody else wrote to the source's value, without a duplicate key.  *)
THEOREM ScriptAlwaysConverges == Spec => []ScriptConverges
<1>1. ScanInv => ScriptConverges
  <2> SUFFICES ASSUME ScanInv, pc = "committed", NEW k \in Untouched
               PROVE  AfterScript[k] = source[k] /\ (k \in inserts => AfterDeletes[k] = NoRow)
    BY DEF ScriptConverges
  <2>1. k \in KeySpace /\ Settled(k, source[k], target[k]) /\ UpdateKeys = KeysOf(updates)
    BY DEF ScanInv, AfterScan, Untouched, UpdateKeys
  <2>2. updates[k] \in {NoRow, source[k]}
    BY DEF ScanInv, CachedRows
  <2>3. AfterDeletes[k] = IF k \in deletes THEN NoRow ELSE target[k]
    BY <2>1 DEF AfterDeletes
  <2>4. AfterInserts[k] = IF k \in inserts /\ source[k] # NoRow
                          THEN source[k] ELSE AfterDeletes[k]
    BY <2>1 DEF AfterInserts
  <2>5. AfterScript[k] = IF updates[k] # NoRow /\ AfterInserts[k] # NoRow
                         THEN updates[k] ELSE AfterInserts[k]
    BY <2>1 DEF AfterScript
  <2>6. k \in KeysOf(updates) <=> updates[k] # NoRow
    BY <2>1 DEF KeysOf
  <2>7. k \in inserts => AfterDeletes[k] = NoRow
    BY <2>1, <2>3 DEF Settled, Justified
  <2>8. AfterScript[k] = source[k]
    BY <2>1, <2>2, <2>3, <2>4, <2>5, <2>6 DEF Settled, Justified
  <2> QED
    BY <2>7, <2>8
<1> QED
  BY <1>1, ScanInvariant, PTL

(* When text order and key order are one, every record of a row nobody     *)
(* else wrote is a real difference.                                        *)
THEOREM ExactScan == Spec => []ExactWhenOrdersAgree
<1>1. ScanInv => ExactWhenOrdersAgree
  BY DEF ScanInv, AfterScan, ExactWhenOrdersAgree, OnlyRealDifferences, Settled, Justified
<1> QED
  BY <1>1, ScanInvariant, PTL

(* The addition that moves to the next chunk never overflows.              *)
THEOREM ChunksNeverOverflow == Spec => []NeverOverflows
<1>1. ScanInv => NeverOverflows
  BY DEF ScanInv
<1> QED
  BY <1>1, ScanInvariant, PTL

----------------------------------------------------------------------------
(* What the scan reports. *)

(* What is recorded is finite, and counted.                                *)
CountInv ==
    /\ IsFiniteSet(inserts) /\ IsFiniteSet(deletes)
    /\ IsFiniteSet(pendingUpdates) /\ IsFiniteSet(KeysOf(updates))
    /\ CountsMatchRecords

(* The counts are those of finite sets.                                    *)
LEMMA CardinalitiesAreNumbers ==
    ASSUME CountInv
    PROVE  /\ Cardinality(inserts) \in Nat /\ Cardinality(deletes) \in Nat
           /\ Cardinality(pendingUpdates) \in Nat /\ Cardinality(KeysOf(updates)) \in Nat
  BY FS_CardinalityType DEF CountInv

(* The merge reports a row it still has no record of.                      *)
LEMMA MergedIsNew ==
    ASSUME ScanInv, Merging
    PROVE  /\ \A k \in srcRest : k \notin inserts
           /\ \A k \in tgtRest : k \notin deletes
           /\ \A k \in srcRest \cap tgtRest : k \notin UpdateKeys
<1>1. CASE pc = "mergeFull"
  BY <1>1 DEF ScanInv, TypeOK, MergeInv, InMerge
<1>2. CASE pc = "mergeChunk"
  <2>1. \A k \in srcRest \cup tgtRest : k \in KeySpace /\ InChunk(k)
    BY <1>2 DEF ScanInv, TypeOK, MergeInv, KeysOf
  <2> QED
    BY <1>2, <2>1 DEF ScanInv, MergeInv, InMerge
<1> QED
  BY <1>1, <1>2 DEF Merging

(* A scan that ends early leaves nothing recorded, and counts nothing.     *)
LEMMA RollBackCounts ==
    ASSUME NEW reason, RollBack(reason) PROVE CountInv'
<1>1. KeysOf(updates)' = {}
  BY DEF RollBack, KeysOf, EmptyTable
<1> QED
  BY <1>1, FS_EmptySet DEF RollBack, CountInv, CountsMatchRecords

(* A step that stages nothing changes no count.                            *)
LEMMA UnchangedCounts ==
    ASSUME CountInv, UNCHANGED staged PROVE CountInv'
  BY DEF CountInv, CountsMatchRecords, KeysOf

(* A flush moves the pending updates to the cached ones, none twice.       *)
LEMMA FlushCounts ==
    ASSUME ScanInv, CountInv, FlushUpdates PROVE CountInv'
<1>1. CASE ~(pendingUpdates \subseteq KeysOf(source) \cap KeysOf(target))
  BY <1>1, RollBackCounts DEF FlushUpdates
<1>2. CASE pendingUpdates \subseteq KeysOf(source) \cap KeysOf(target)
  <2>1. KeysOf(updates)' = KeysOf(updates) \cup pendingUpdates /\ pendingUpdates' = {}
    BY <1>2 DEF FlushUpdates, KeysOf, ScanInv, TypeOK
  <2>2. KeysOf(updates) \cap pendingUpdates = {}
    BY DEF ScanInv, CachedRows
  <2>3. /\ IsFiniteSet(KeysOf(updates)')
        /\ Cardinality(KeysOf(updates)') = Cardinality(KeysOf(updates)) + Cardinality(pendingUpdates)
    <3>1. Cardinality({}) = 0
      BY FS_EmptySet
    <3>2. /\ IsFiniteSet(KeysOf(updates) \cup pendingUpdates)
          /\ Cardinality(KeysOf(updates) \cup pendingUpdates) =
               Cardinality(KeysOf(updates)) + Cardinality(pendingUpdates)
                 - Cardinality(KeysOf(updates) \cap pendingUpdates)
      BY FS_Union DEF CountInv
    <3>3. Cardinality(KeysOf(updates) \cap pendingUpdates) = 0
      BY <2>2, <3>1
    <3>4. Cardinality(KeysOf(updates) \cup pendingUpdates) =
            Cardinality(KeysOf(updates)) + Cardinality(pendingUpdates)
      BY <3>2, <3>3, CardinalitiesAreNumbers
    <3> QED
      BY <2>1, <3>2, <3>4, Zenon
  <2>4. UNCHANGED <<inserts, deletes, eventCount>>
    BY <1>2 DEF FlushUpdates
  <2> QED
    BY <2>1, <2>3, <2>4, FS_EmptySet, CardinalitiesAreNumbers DEF CountInv, CountsMatchRecords
<1> QED
  BY <1>1, <1>2

(* Every step keeps the recorded sets finite and counted.                  *)
LEMMA CountsKept == ScanInv /\ CountInv /\ [Next]_vars => CountInv'
<1> SUFFICES ASSUME ScanInv, CountInv, [Next]_vars PROVE CountInv'
  OBVIOUS
<1>1. CASE EmitInsert
  <2>1. PICK s \in srcRest : inserts' = inserts \cup {s} /\ eventCount' = eventCount + 1
    BY <1>1 DEF EmitInsert
  <2>2. s \notin inserts
    BY <1>1, MergedIsNew DEF EmitInsert
  <2>3. IsFiniteSet(inserts') /\ Cardinality(inserts') = Cardinality(inserts) + 1
    BY <2>1, <2>2, FS_AddElement DEF CountInv
  <2> QED
    BY <1>1, <2>1, <2>3, CardinalitiesAreNumbers DEF EmitInsert, CountInv, CountsMatchRecords, KeysOf
<1>2. CASE EmitDelete
  <2>1. PICK t \in tgtRest : deletes' = deletes \cup {t} /\ eventCount' = eventCount + 1
    BY <1>2 DEF EmitDelete
  <2>2. t \notin deletes
    BY <1>2, MergedIsNew DEF EmitDelete
  <2>3. IsFiniteSet(deletes') /\ Cardinality(deletes') = Cardinality(deletes) + 1
    BY <2>1, <2>2, FS_AddElement DEF CountInv
  <2> QED
    BY <1>2, <2>1, <2>3, CardinalitiesAreNumbers DEF EmitDelete, CountInv, CountsMatchRecords, KeysOf
<1>3. CASE MatchRows
  <2>1. PICK k \in srcRest \cap tgtRest :
          IF srcRows[k] # tgtRows[k]
          THEN pendingUpdates' = pendingUpdates \cup {k} /\ eventCount' = eventCount + 1
          ELSE UNCHANGED <<pendingUpdates, eventCount>>
    BY <1>3 DEF MatchRows
  <2>2. k \notin pendingUpdates
    BY <1>3, MergedIsNew DEF MatchRows, UpdateKeys
  <2>3. CASE srcRows[k] = tgtRows[k]
    BY <1>3, <2>1, <2>3, UnchangedCounts DEF MatchRows
  <2>4. CASE srcRows[k] # tgtRows[k]
    <3>1. IsFiniteSet(pendingUpdates') /\ Cardinality(pendingUpdates') = Cardinality(pendingUpdates) + 1
      BY <2>1, <2>2, <2>4, FS_AddElement DEF CountInv
    <3> QED
      BY <1>3, <2>1, <2>4, <3>1, CardinalitiesAreNumbers DEF MatchRows, CountInv, CountsMatchRecords, KeysOf
  <2> QED
    BY <2>3, <2>4
<1>4. CASE FlushUpdates
  BY <1>4, FlushCounts
<1>5. CASE CompareSummaries \/ MergeDone
  BY <1>5, RollBackCounts, UnchangedCounts DEF CompareSummaries, MergeDone, NextChunk
<1>6. CASE CancelCheck \/ QueryFails
  BY <1>6, RollBackCounts DEF CancelCheck, QueryFails
<1>7. CASE ResolvePlan \/ ReadBounds \/ LoadChunk \/ OpenFull \/ Commit \/ RequestCancel \/ OtherClientWrites
  BY <1>7, UnchangedCounts DEF ResolvePlan, ReadBounds, LoadChunk, OpenFull, Commit, RequestCancel, OtherClientWrites
<1>8. CASE UNCHANGED vars
  BY <1>8, UnchangedCounts DEF vars
<1> QED
  BY <1>1, <1>2, <1>3, <1>4, <1>5, <1>6, <1>7, <1>8 DEF Next, Scan

(* The counts of a comparison are the number of its records, so no row is  *)
(* reported twice (CountsMatchRecords).                                    *)
THEOREM CountsAreOfRecords == Spec => []CountsMatchRecords
<1>1. Init => CountInv
  <2> SUFFICES ASSUME Init PROVE CountInv
    OBVIOUS
  <2>1. KeysOf(updates) = {}
    BY DEF Init, KeysOf, EmptyTable
  <2>2. IsFiniteSet({}) /\ Cardinality({}) = 0
    BY FS_EmptySet
  <2> QED
    BY <2>1, <2>2 DEF Init, CountInv, CountsMatchRecords
<1>2. CountInv => CountsMatchRecords
  BY DEF CountInv
<1> QED
  BY <1>1, <1>2, ScanInvariant, CountsKept, PTL DEF Spec

-----------------------------------------------------------------------------
(* c chunks cover n keys, and one less does not.                           *)
Covers(c, n) == (c - 1) * ChunkSize < n /\ n <= c * ChunkSize

(* While keys are left, a chunk is.                                        *)
LEMMA SomeLeft ==
    ASSUME NEW c \in Int, NEW n \in Int, n >= 1, Covers(c, n) PROVE c >= 1
<1>1. ChunkSize \in Nat /\ ChunkSize >= 1
  BY SizesAssumption
<1>2. ASSUME c <= 0 PROVE c * ChunkSize <= 0
  BY <1>1, <1>2
<1> QED
  BY <1>1, <1>2 DEF Covers

(* The keys of one chunk are covered by one.                               *)
LEMMA OneChunkLeft ==
    ASSUME NEW c \in Int, NEW n \in Int, n >= 1, n <= ChunkSize, Covers(c, n) PROVE c = 1
<1>1. ChunkSize \in Nat /\ ChunkSize >= 1
  BY SizesAssumption
<1>2. ASSUME c >= 2 PROVE (c - 1) * ChunkSize >= ChunkSize
  BY <1>1, <1>2
<1> QED
  BY <1>1, <1>2, SomeLeft DEF Covers

(* A chunk less covers the keys behind it.                                 *)
LEMMA OneChunkLess ==
    ASSUME NEW c \in Int, NEW n \in Int, Covers(c, n) PROVE Covers(c - 1, n - ChunkSize)
<1>1. ChunkSize \in Int
  BY SizesAssumption
<1>2. /\ (c - 1) * ChunkSize = c * ChunkSize - ChunkSize
      /\ ((c - 1) - 1) * ChunkSize = (c - 1) * ChunkSize - ChunkSize
  BY <1>1
<1>3. c * ChunkSize \in Int /\ (c - 1) * ChunkSize \in Int
  BY <1>1
<1> QED
  BY <1>1, <1>2, <1>3 DEF Covers

(* The number of chunks of the plan covers the keys counted.               *)
LEMMA CountCovers ==
    ASSUME NEW n \in Int, n >= 1
    PROVE  CeilDiv(n, ChunkSize) \in Int /\ Covers(CeilDiv(n, ChunkSize), n)
  BY SizesAssumption DEF CeilDiv, Covers

ChunksLeft == totalChunks - currentChunk
KeysLeft == maxInclusive - chunkStart + 1

(* The chunks not counted yet are those that cover the keys ahead; a chunk *)
(* is counted when its summaries are compared.                             *)
ProgressInv ==
    /\ currentChunk <= totalChunks
    /\ pc \in {"resolve", "bounds", "openFull", "mergeFull"} => totalChunks = 0
    /\ pc = "chunk" => Covers(ChunksLeft, KeysLeft)
    /\ pc \in {"load", "mergeChunk"} => Covers(ChunksLeft + 1, KeysLeft)
    /\ pc \in {"finish", "committed"} => currentChunk = totalChunks

(* The plan made from the bounds covers every key of the range.            *)
LEMMA ReadBoundsProgress == ScanInv /\ ProgressInv /\ ReadBounds => ProgressInv'
<1> SUFFICES ASSUME ScanInv, ProgressInv, ReadBounds PROVE ProgressInv'
  OBVIOUS
<1>0. totalChunks \in Int /\ currentChunk \in Nat /\ totalChunks = 0
  BY DEF ScanInv, TypeOK, ProgressInv, ReadBounds
<1>1. CASE NoBounds /\ Goto("finish") /\ UNCHANGED range
  BY <1>0, <1>1 DEF ProgressInv
<1>2. ASSUME NEW lo \in KeySpace, NEW hi \in KeySpace, MergedBounds(lo, hi),
             chunkStart' = lo, maxInclusive' = hi,
             totalChunks' = ChunkCount(lo, hi), currentChunk' = 0, Goto("chunk")
      PROVE  ProgressInv'
  <2>1. lo \in Int /\ hi \in Int /\ hi - lo + 1 >= 1
    BY <1>2, KeysAssumption DEF MergedBounds
  <2>2. totalChunks' \in Int /\ Covers(totalChunks', hi - lo + 1)
    BY <1>2, <2>1, CountCovers DEF ChunkCount
  <2>3. totalChunks' >= 1
    BY <2>1, <2>2, SomeLeft
  <2>4. ChunksLeft' = totalChunks' /\ KeysLeft' = hi - lo + 1
    BY <1>2, <2>2 DEF ChunksLeft, KeysLeft
  <2> QED
    BY <1>2, <2>2, <2>3, <2>4 DEF ProgressInv
<1> QED
  BY <1>1, <1>2 DEF ReadBounds

(* The scan moves on from a chunk that is counted, c of them being left.   *)
LEMMA NextChunkProgress ==
    ASSUME ScanInv, ScanInv', pc \in {"chunk", "mergeChunk"}, NextChunk,
           UNCHANGED <<maxInclusive, totalChunks>>, currentChunk' <= totalChunks', currentChunk' \in Nat,
           Covers(totalChunks - currentChunk' + 1, KeysLeft)
    PROVE  ProgressInv'
<1>1. /\ chunkStart \in Int /\ maxInclusive \in Int /\ chunkStart <= maxInclusive
      /\ totalChunks \in Int /\ ChunkSize \in Nat /\ ChunkSize >= 1
  BY SizesAssumption DEF ScanInv, TypeOK, ChunkScanInv
<1>2. CASE ChunkEnd = maxInclusive /\ Goto("finish") /\ UNCHANGED <<chunkStart, staged>>
  <2>1. KeysLeft >= 1 /\ KeysLeft <= ChunkSize /\ KeysLeft \in Int
    BY <1>1, <1>2 DEF KeysLeft, ChunkEnd
  <2>2. totalChunks - currentChunk' + 1 \in Int
    BY <1>1
  <2>3. totalChunks - currentChunk' + 1 = 1
    BY <2>1, <2>2, OneChunkLeft
  <2>4. currentChunk' = totalChunks
    <3>1. \A a \in Int, b \in Nat : a - b + 1 = 1 => b = a
      OBVIOUS
    <3> QED
      BY <1>1, <2>3, <3>1
  <2>5. totalChunks' = totalChunks
    OBVIOUS
  <2> QED
    BY <1>2, <2>4, <2>5 DEF ProgressInv
<1>3. CASE /\ ChunkEnd # maxInclusive /\ ChunkEnd # KeyMax
           /\ Goto("chunk") /\ chunkStart' = ChunkEnd + 1 /\ UNCHANGED staged
  <2>1. ChunkEnd = chunkStart + ChunkSize - 1
    BY <1>1, <1>3 DEF ChunkEnd
  <2>2. KeysLeft' = KeysLeft - ChunkSize /\ KeysLeft \in Int
    BY <1>1, <1>3, <2>1 DEF KeysLeft
  <2>3. ChunksLeft' = (totalChunks - currentChunk' + 1) - 1
    BY <1>1 DEF ChunksLeft
  <2>4. Covers(ChunksLeft', KeysLeft')
    BY <1>1, <2>2, <2>3, OneChunkLess
  <2> QED
    BY <1>3, <2>4 DEF ProgressInv
<1>4. CASE RollBack("overflow")
  BY <1>4 DEF ProgressInv, RollBack
<1> QED
  BY <1>2, <1>3, <1>4 DEF NextChunk

(* Equal summaries count their chunk, different ones leave it to the merge.*)
LEMMA SummariesProgress == ScanInv /\ ScanInv' /\ ProgressInv /\ CompareSummaries => ProgressInv'
<1> SUFFICES ASSUME ScanInv, ScanInv', ProgressInv, CompareSummaries PROVE ProgressInv'
  OBVIOUS
<1>1. /\ chunkStart \in Int /\ maxInclusive \in Int /\ chunkStart <= maxInclusive
      /\ totalChunks \in Int /\ currentChunk \in Nat
  BY DEF ScanInv, TypeOK, ChunkScanInv, CompareSummaries
<1>2. Covers(ChunksLeft, KeysLeft) /\ KeysLeft >= 1 /\ KeysLeft \in Int /\ ChunksLeft \in Int
  BY <1>1 DEF ProgressInv, CompareSummaries, ChunksLeft, KeysLeft
<1>3. ChunksLeft >= 1
  BY <1>2, SomeLeft
<1>4. /\ currentChunk' = currentChunk + 1 /\ currentChunk' \in Nat
      /\ UNCHANGED <<maxInclusive, totalChunks>> /\ currentChunk' <= totalChunks'
  BY <1>1, <1>3 DEF CompareSummaries, ChunksLeft
<1>5. totalChunks - currentChunk' + 1 = ChunksLeft
  BY <1>1, <1>4 DEF ChunksLeft
<1>6. CASE Goto("load") /\ UNCHANGED <<chunkStart, staged>>
  <2>1. ChunksLeft' + 1 = ChunksLeft /\ KeysLeft' = KeysLeft
    BY <1>1, <1>4, <1>6 DEF ChunksLeft, KeysLeft
  <2> QED
    BY <1>2, <1>4, <1>6, <2>1 DEF ProgressInv
<1>7. CASE NextChunk
  BY <1>2, <1>4, <1>5, <1>7, NextChunkProgress DEF CompareSummaries
<1> QED
  BY <1>6, <1>7 DEF CompareSummaries

(* A merged chunk is counted.                                              *)
LEMMA MergeDoneProgress == ScanInv /\ ScanInv' /\ ProgressInv /\ MergeDone => ProgressInv'
<1> SUFFICES ASSUME ScanInv, ScanInv', ProgressInv, MergeDone PROVE ProgressInv'
  OBVIOUS
<1>1. totalChunks \in Int /\ currentChunk \in Nat /\ currentChunk <= totalChunks
  BY DEF ScanInv, TypeOK, ProgressInv
<1>2. CASE pc = "mergeChunk" /\ NextChunk
  <2>1. totalChunks - currentChunk' + 1 = ChunksLeft + 1
    BY <1>1 DEF MergeDone, ChunksLeft
  <2>2. Covers(totalChunks - currentChunk' + 1, KeysLeft)
    BY <1>2, <2>1 DEF ProgressInv
  <2> QED
    BY <1>1, <1>2, <2>2, NextChunkProgress DEF MergeDone
<1>3. CASE pc = "mergeFull" /\ Goto("finish")
  BY <1>1, <1>3 DEF MergeDone, ProgressInv
<1> QED
  BY <1>2, <1>3 DEF MergeDone

(* Every step keeps the uncounted chunks and the keys ahead in step.       *)
LEMMA ProgressKept == ScanInv /\ ScanInv' /\ ProgressInv /\ [Next]_vars => ProgressInv'
<1> SUFFICES ASSUME ScanInv, ScanInv', ProgressInv, [Next]_vars PROVE ProgressInv'
  OBVIOUS
<1>1. CASE ReadBounds
  BY <1>1, ReadBoundsProgress
<1>2. CASE CompareSummaries
  BY <1>2, SummariesProgress
<1>3. CASE MergeDone
  BY <1>3, MergeDoneProgress
<1>4. CASE CancelCheck \/ QueryFails
  BY <1>4 DEF CancelCheck, QueryFails, RollBack, ProgressInv
<1>5. CASE ResolvePlan \/ LoadChunk \/ OpenFull \/ Commit
  BY <1>5 DEF ResolvePlan, LoadChunk, OpenFull, Commit, ProgressInv, ChunksLeft, KeysLeft
<1>6. CASE FlushUpdates
  BY <1>6 DEF FlushUpdates, RollBack, ProgressInv, ChunksLeft, KeysLeft
<1>7. CASE EmitInsert \/ EmitDelete \/ MatchRows \/ RequestCancel \/ OtherClientWrites \/ UNCHANGED vars
  BY <1>7 DEF EmitInsert, EmitDelete, MatchRows, RequestCancel, OtherClientWrites, vars,
     ProgressInv, ChunksLeft, KeysLeft
<1> QED
  BY <1>1, <1>2, <1>3, <1>4, <1>5, <1>6, <1>7 DEF Next, Scan

(* The progress never exceeds its total, and a chunked scan that commits   *)
(* has counted every chunk (ChunkProgress).                                *)
THEOREM EveryChunkIsCounted == Spec => []ChunkProgress
<1>1. Init => ProgressInv
  BY DEF Init, ProgressInv
<1>2. ProgressInv => ChunkProgress
  BY DEF ProgressInv, ChunkProgress
<1> QED
  BY <1>1, <1>2, ScanInvariant, ProgressKept, PTL DEF Spec
=============================================================================
