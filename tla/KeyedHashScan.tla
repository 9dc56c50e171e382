---------------------------- MODULE KeyedHashScan ----------------------------
(***************************************************************************)
(* The keyed comparison of one source table with one target table, as      *)
(* compare_core/services/compare_service.rs runs it for a table that has a *)
(* single integer key: resolve_numeric_chunk_plan chooses between a scan   *)
(* by key ranges ("chunk") and one pass over both result sets ("full"),    *)
(* the rows that may differ are merged in key order, and the collector     *)
(* stages insert / update / delete records in one SQLite transaction that  *)
(* is committed or rolled back at the end.                                 *)
(*                                                                         *)
(* The two tables belong to running databases: the queries of a scan are   *)
(* not one snapshot, so other clients write between any two of them.  One  *)
(* action reads both sides of a try_join; writes to different tables       *)
(* commute, so reading them at one instant loses no outcome.               *)
(*                                                                         *)
(* A table is a function from keys to row hashes, NoRow where no row is.   *)
(* The result of a query with ORDER BY key is the set of its keys, read    *)
(* from the smallest one on.                                               *)
(***************************************************************************)
EXTENDS Integers, Sequences, FiniteSets

CONSTANTS
    KeySpace,    \* the integer keys rows may have
    Hashes,      \* the row hashes
    NoRow,       \* "no row with this key"
    KeyMax,      \* the largest value of the key type (i64::MAX, u64::MAX)
    ChunkSize,   \* NUMERIC_KEY_CHUNK_SIZE
    MaxChunks,   \* MAX_NUMERIC_CHUNKS
    Expansion,   \* MAX_CHUNK_SCAN_EXPANSION
    BatchSize,   \* KEYED_DIFF_BATCH_SIZE
    Estimates,   \* what the row-count estimate of the server may say
    MaxWrites    \* bound on the writes of other clients during a scan

ASSUME KeysAssumption == KeySpace \subseteq Int /\ KeyMax \in Int
                         /\ \A k \in KeySpace : k <= KeyMax
ASSUME HashesAssumption == NoRow \notin Hashes
ASSUME SizesAssumption == /\ ChunkSize \in Nat \ {0}
                          /\ BatchSize \in Nat \ {0}
                          /\ MaxChunks \in Nat \ {0}
                          /\ Expansion \in Nat \ {0}
                          /\ Estimates \subseteq Nat
                          /\ MaxWrites \in Nat

VARIABLES
    source, target,          \* the two tables, as the databases hold them
    touched, writes,         \* keys other clients wrote during the scan; their number
    cancelled,               \* the task's cancel flag
    pc, failure,             \* where the scan is, and why it failed
    chunkStart, maxInclusive, totalChunks, currentChunk,
    srcRows, tgtRows,        \* the rows loaded last
    srcRest, tgtRest,        \* keys of loaded rows the merge has not consumed
    inserts, deletes,        \* records staged in the open transaction
    pendingUpdates, updates, \* update keys not fetched yet; fetched source rows
    eventCount               \* insert_count + update_count + delete_count

tables == <<source, target, touched, writes>>
range == <<chunkStart, maxInclusive, totalChunks, currentChunk>>
loaded == <<srcRows, tgtRows, srcRest, tgtRest>>
staged == <<inserts, deletes, pendingUpdates, updates, eventCount>>
vars == <<tables, cancelled, pc, failure, range, loaded, staged>>

Table == [KeySpace -> Hashes \cup {NoRow}]
EmptyTable == [k \in KeySpace |-> NoRow]
KeysOf(t) == {k \in KeySpace : t[k] # NoRow}

-----------------------------------------------------------------------------
(* Key order.  The rows come over MySQL's text protocol, so a key value is *)
(* Value::Bytes holding its decimal text, and compare_mysql_value orders   *)
(* byte strings lexicographically ("-" before the digits).                 *)

DecimalDigits[n \in Nat] ==
    IF n < 10 THEN <<n>> ELSE Append(DecimalDigits[n \div 10], n % 10)

KeyText(k) == IF k < 0 THEN <<-1>> \o DecimalDigits[-k] ELSE DecimalDigits[k]

TextBefore(a, b) ==
    LET s == KeyText(a)
        t == KeyText(b)
    IN \E i \in 1..Len(t) :
          /\ \A j \in 1..(i - 1) : j <= Len(s) /\ s[j] = t[j]
          /\ i > Len(s) \/ s[i] < t[i]

-----------------------------------------------------------------------------
(* The chunk arithmetic.                                                   *)

CeilDiv_Floor(n, d) == n \div d      \* slip: the last, partial chunk is not counted

CeilDiv(n, d) == (n + d - 1) \div d
AtLeast(a, b) == IF a < b THEN b ELSE a

ChunkCount(lo, hi) == CeilDiv(hi - lo + 1, ChunkSize)

ChunkEnd == IF chunkStart + ChunkSize - 1 < maxInclusive
            THEN chunkStart + ChunkSize - 1 ELSE maxInclusive

InChunk(k) == chunkStart <= k /\ k <= ChunkEnd

(* Slip: the range of the source alone.                                    *)
MergedBounds_SourceOnly(lo, hi) ==
    /\ lo \in KeysOf(source) /\ hi \in KeysOf(source)
    /\ \A k \in KeysOf(source) : lo <= k /\ k <= hi

(* merge_numeric_ranges of the MIN and MAX of both tables.                 *)
MergedBounds(lo, hi) ==
    LET keys == KeysOf(source) \cup KeysOf(target)
    IN /\ lo \in keys /\ hi \in keys
       /\ \A k \in keys : lo <= k /\ k <= hi

NoBounds == KeysOf(source) \cup KeysOf(target) = {}

(* chunk_plan_rejection_reason; an estimate of 0 is no estimate.           *)
ChunkPlanRejected(chunks, estimate) ==
    \/ chunks > MaxChunks
    \/ /\ estimate > 0
       /\ chunks > AtLeast(1, CeilDiv(estimate, ChunkSize) * Expansion)

-----------------------------------------------------------------------------
Init ==
    /\ source \in Table /\ target \in Table
    /\ touched = {} /\ writes = 0
    /\ cancelled = FALSE
    /\ pc = "resolve" /\ failure = "none"
    /\ chunkStart = 0 /\ maxInclusive = 0 /\ totalChunks = 0 /\ currentChunk = 0
    /\ srcRows = EmptyTable /\ tgtRows = EmptyTable
    /\ srcRest = {} /\ tgtRest = {}
    /\ inserts = {} /\ deletes = {}
    /\ pendingUpdates = {} /\ updates = EmptyTable
    /\ eventCount = 0

Final == pc \in {"committed", "rolledback"}

(* rollback_diff_write: whatever was staged is dropped with the transaction. *)
RollBack(reason) ==
    /\ pc' = "rolledback" /\ failure' = reason
    /\ inserts' = {} /\ deletes' = {} /\ updates' = EmptyTable
    /\ pendingUpdates' = {} /\ eventCount' = 0

Goto(label) == pc' = label /\ UNCHANGED failure

(* resolve_numeric_chunk_plan: chunked, unless the tables are empty or the *)
(* key range is too wide for the number of rows.                           *)
ResolvePlan ==
    /\ pc = "resolve"
    /\ \/ NoBounds /\ Goto("openFull")
       \/ \E lo, hi \in KeySpace, estimate \in Estimates :
             /\ MergedBounds(lo, hi)
             /\ Goto(IF ChunkPlanRejected(ChunkCount(lo, hi), estimate)
                     THEN "openFull" ELSE "bounds")
    /\ UNCHANGED <<tables, cancelled, range, loaded, staged>>

(* The by-chunks scan reads the bounds a second time.                      *)
ReadBounds ==
    /\ pc = "bounds" /\ ~cancelled
    /\ \/ /\ NoBounds /\ Goto("finish")
          /\ UNCHANGED range
       \/ \E lo, hi \in KeySpace :
             /\ MergedBounds(lo, hi)
             /\ chunkStart' = lo /\ maxInclusive' = hi
             /\ totalChunks' = ChunkCount(lo, hi) /\ currentChunk' = 0
             /\ Goto("chunk")
    /\ UNCHANGED <<tables, cancelled, loaded, staged>>

(* Slip: the row counts alone.                                             *)
SummariesDiffer_CountOnly ==
    Cardinality({k \in KeysOf(source) : InChunk(k)})
        # Cardinality({k \in KeysOf(target) : InChunk(k)})

(* Row count and hash of a chunk, rows in key order; the key is one of the *)
(* hashed columns, so the summaries agree when the rows do.                *)
SummariesDiffer == \E k \in KeySpace : InChunk(k) /\ source[k] # target[k]

(* Slip: moves on first and looks afterwards whether the range is done.    *)
NextChunk_AddFirst ==
    IF ChunkEnd = KeyMax
    THEN RollBack("overflow") /\ UNCHANGED chunkStart
    ELSE IF ChunkEnd + 1 > maxInclusive
    THEN Goto("finish") /\ UNCHANGED <<chunkStart, staged>>
    ELSE Goto("chunk") /\ chunkStart' = ChunkEnd + 1 /\ UNCHANGED staged

(* The end of one chunk: the last one ends the scan, otherwise the next    *)
(* one starts after it (next_numeric_key_value, a checked addition).       *)
NextChunk ==
    \/ /\ ChunkEnd = maxInclusive
       /\ Goto("finish") /\ UNCHANGED <<chunkStart, staged>>
    \/ /\ ChunkEnd # maxInclusive
       /\ IF ChunkEnd = KeyMax
          THEN RollBack("overflow") /\ UNCHANGED chunkStart
          ELSE Goto("chunk") /\ chunkStart' = ChunkEnd + 1 /\ UNCHANGED staged

CompareSummaries ==
    /\ pc = "chunk" /\ ~cancelled
    /\ currentChunk' = currentChunk + 1
    /\ \/ SummariesDiffer /\ Goto("load") /\ UNCHANGED <<chunkStart, staged>>
       \/ ~SummariesDiffer /\ NextChunk
    /\ UNCHANGED <<tables, cancelled, maxInclusive, totalChunks, loaded>>

(* load_keyed_hash_rows on both sides: the rows with these keys, as the    *)
(* databases hold them now, become the input of the merge.                 *)
LoadRows(keys) ==
    /\ srcRows' = [k \in KeySpace |-> IF k \in keys THEN source[k] ELSE NoRow]
    /\ tgtRows' = [k \in KeySpace |-> IF k \in keys THEN target[k] ELSE NoRow]
    /\ srcRest' = KeysOf(source) \cap keys
    /\ tgtRest' = KeysOf(target) \cap keys

LoadChunk ==
    /\ pc = "load"
    /\ LoadRows({k \in KeySpace : InChunk(k)})
    /\ Goto("mergeChunk")
    /\ UNCHANGED <<tables, cancelled, range, staged>>

OpenFull ==
    /\ pc = "openFull" /\ ~cancelled
    /\ LoadRows(KeySpace)
    /\ Goto("mergeFull")
    /\ UNCHANGED <<tables, cancelled, range, staged>>

(* The merge.  peek() is the smallest remaining key of a side.             *)
Peek(rest, k) == k \in rest /\ \A j \in rest : k <= j

(* handle_event flushes as soon as a batch of update keys is full.         *)
BatchFull == Cardinality(pendingUpdates) >= BatchSize

Merging == \/ pc = "mergeChunk" /\ ~BatchFull
           \/ pc = "mergeFull" /\ ~BatchFull /\ ~cancelled

(* A source row with no target row left, or that compares Less.            *)
EmitInsert ==
    /\ Merging
    /\ \E s \in srcRest :
          /\ Peek(srcRest, s)
          /\ \/ tgtRest = {}
             \/ \E t \in tgtRest : Peek(tgtRest, t) /\ s # t /\ TextBefore(s, t)
          /\ srcRest' = srcRest \ {s}
          /\ inserts' = inserts \cup {s}
          /\ eventCount' = eventCount + 1
    /\ UNCHANGED <<tables, cancelled, pc, failure, range, srcRows, tgtRows,
                   tgtRest, deletes, pendingUpdates, updates>>

(* Slip: Equal is taken for Greater.                                       *)
EmitDelete_OrEqual ==
    /\ Merging
    /\ \E t \in tgtRest :
          /\ Peek(tgtRest, t)
          /\ srcRest = {} \/ \E s \in srcRest : Peek(srcRest, s) /\ ~TextBefore(s, t)
          /\ tgtRest' = tgtRest \ {t}
          /\ deletes' = deletes \cup {t}
          /\ eventCount' = eventCount + 1
    /\ UNCHANGED <<tables, cancelled, pc, failure, range, srcRows, tgtRows,
                   srcRest, inserts, pendingUpdates, updates>>

(* A target row with no source row left, or when the comparison is Greater. *)
EmitDelete ==
    /\ Merging
    /\ \E t \in tgtRest :
          /\ Peek(tgtRest, t)
          /\ \/ srcRest = {}
             \/ \E s \in srcRest : Peek(srcRest, s) /\ s # t /\ ~TextBefore(s, t)
          /\ tgtRest' = tgtRest \ {t}
          /\ deletes' = deletes \cup {t}
          /\ eventCount' = eventCount + 1
    /\ UNCHANGED <<tables, cancelled, pc, failure, range, srcRows, tgtRows,
                   srcRest, inserts, pendingUpdates, updates>>

(* Equal keys: an update only when the row hashes differ.                  *)
MatchRows ==
    /\ Merging
    /\ \E k \in srcRest \cap tgtRest :
          /\ Peek(srcRest, k) /\ Peek(tgtRest, k)
          /\ srcRest' = srcRest \ {k} /\ tgtRest' = tgtRest \ {k}
          /\ IF srcRows[k] # tgtRows[k]
             THEN /\ pendingUpdates' = pendingUpdates \cup {k}
                  /\ eventCount' = eventCount + 1
             ELSE UNCHANGED <<pendingUpdates, eventCount>>
    /\ UNCHANGED <<tables, cancelled, pc, failure, range, srcRows, tgtRows,
                   inserts, deletes, updates>>

MergeDone ==
    /\ srcRest = {} /\ tgtRest = {} /\ ~BatchFull
    /\ \/ pc = "mergeChunk" /\ NextChunk
       \/ pc = "mergeFull" /\ Goto("finish") /\ UNCHANGED <<chunkStart, staged>>
    /\ UNCHANGED <<tables, cancelled, maxInclusive, totalChunks, currentChunk, loaded>>

(* Slip: the batch is written but not taken out of the pending keys.       *)
FlushUpdates_KeepsBatch ==
    /\ \/ pc \in {"mergeChunk", "mergeFull"} /\ BatchFull
       \/ pc = "finish" /\ pendingUpdates # {}
    /\ IF pendingUpdates \subseteq KeysOf(source) \cap KeysOf(target)
       THEN /\ updates' = [k \in KeySpace |->
                             IF k \in pendingUpdates THEN source[k] ELSE updates[k]]
            /\ UNCHANGED <<pc, failure, inserts, deletes, pendingUpdates, eventCount>>
       ELSE RollBack("rowVanished")
    /\ UNCHANGED <<tables, cancelled, range, loaded>>

(* flush_update_batch reads the rows of the pending keys again; a row that *)
(* is gone from either table fails the comparison of this table.           *)
FlushUpdates ==
    /\ \/ pc \in {"mergeChunk", "mergeFull"} /\ BatchFull
       \/ pc = "finish" /\ pendingUpdates # {}
    /\ IF pendingUpdates \subseteq KeysOf(source) \cap KeysOf(target)
       THEN /\ updates' = [k \in KeySpace |->
                             IF k \in pendingUpdates THEN source[k] ELSE updates[k]]
            /\ pendingUpdates' = {}
            /\ UNCHANGED <<pc, failure, inserts, deletes, eventCount>>
       ELSE RollBack("rowVanished")
    /\ UNCHANGED <<tables, cancelled, range, loaded>>

Commit ==
    /\ pc = "finish" /\ pendingUpdates = {}
    /\ Goto("committed")
    /\ UNCHANGED <<tables, cancelled, range, loaded, staged>>

(* check_compare_cancellation, where the scan calls it.                    *)
CancelCheck ==
    /\ cancelled
    /\ \/ pc \in {"bounds", "chunk", "openFull"}
       \/ pc = "mergeFull" /\ ~BatchFull /\ srcRest \cup tgtRest # {}
    /\ RollBack("cancelled")
    /\ UNCHANGED <<tables, cancelled, range, loaded>>

(* A query of the scan fails.                                              *)
QueryFails ==
    /\ ~Final
    /\ RollBack("query")
    /\ UNCHANGED <<tables, cancelled, range, loaded>>

Scan == \/ ResolvePlan \/ ReadBounds \/ CompareSummaries \/ LoadChunk \/ OpenFull
        \/ EmitInsert \/ EmitDelete \/ MatchRows \/ MergeDone
        \/ FlushUpdates \/ Commit \/ CancelCheck

-----------------------------------------------------------------------------
(* The user cancels; other clients write.                                  *)

RequestCancel ==
    /\ ~cancelled /\ ~Final
    /\ cancelled' = TRUE
    /\ UNCHANGED <<tables, pc, failure, range, loaded, staged>>

OtherClientWrites ==
    /\ writes < MaxWrites /\ ~Final
    /\ \E k \in KeySpace, h \in Hashes \cup {NoRow} :
          /\ \/ /\ source[k] # h
                /\ source' = [source EXCEPT ![k] = h] /\ UNCHANGED target
             \/ /\ target[k] # h
                /\ target' = [target EXCEPT ![k] = h] /\ UNCHANGED source
          /\ touched' = touched \cup {k}
    /\ writes' = writes + 1
    /\ UNCHANGED <<cancelled, pc, failure, range, loaded, staged>>

Next == Scan \/ QueryFails \/ RequestCancel \/ OtherClientWrites

(* The comparison runs on the async runtime until it ends: every step that *)
(* is possible is eventually taken.  Nothing obliges anyone else to act.   *)
Spec == Init /\ [][Next]_vars /\ WF_vars(Scan)

-----------------------------------------------------------------------------
(* emit_cached_sql_for_table: all deletes, then the inserts with the rows  *)
(* the source holds now, then the updates with the rows cached.            *)

AfterDeletes == [k \in KeySpace |-> IF k \in deletes THEN NoRow ELSE target[k]]
AfterInserts == [k \in KeySpace |-> IF k \in inserts /\ source[k] # NoRow
                                    THEN source[k] ELSE AfterDeletes[k]]
AfterScript == [k \in KeySpace |-> IF updates[k] # NoRow /\ AfterInserts[k] # NoRow
                                   THEN updates[k] ELSE AfterInserts[k]]

-----------------------------------------------------------------------------
Labels == {"resolve", "bounds", "chunk", "load", "openFull", "mergeChunk",
           "mergeFull", "finish", "committed", "rolledback"}
Failures == {"none", "overflow", "rowVanished", "cancelled", "query"}

(* Types of the scan's state.                                              *)
TypeOK ==
    /\ source \in Table /\ target \in Table
    /\ touched \in SUBSET KeySpace /\ writes \in 0..MaxWrites
    /\ cancelled \in BOOLEAN
    /\ pc \in Labels /\ failure \in Failures
    /\ chunkStart \in Int /\ maxInclusive \in Int
    /\ totalChunks \in Int /\ currentChunk \in Nat
    /\ srcRows \in Table /\ tgtRows \in Table
    /\ srcRest \in SUBSET KeySpace /\ tgtRest \in SUBSET KeySpace
    /\ inserts \in SUBSET KeySpace /\ deletes \in SUBSET KeySpace
    /\ pendingUpdates \in SUBSET KeySpace /\ updates \in Table
    /\ eventCount \in Nat

Untouched == KeySpace \ touched

(* Running the generated script against the target makes every row nobody  *)
(* else wrote during the scan equal to the source's row, and never inserts *)
(* a key that is still there: whatever plan was chosen and however others' *)
(* writes moved the bounds, no difference falls between two chunks, into a *)
(* skipped chunk, or past the merge.                                       *)
ScriptConverges ==
    pc = "committed" => \A k \in Untouched :
        /\ AfterScript[k] = source[k]
        /\ k \in inserts => AfterDeletes[k] = NoRow

(* Insert means "only in the source", delete "only in the target": what    *)
(* the counts, the samples and a script of a part of the record kinds are  *)
(* read as.                                                                *)
OnlyRealDifferences ==
    pc = "committed" =>
        \A k \in Untouched : /\ k \in inserts => target[k] = NoRow
                             /\ k \in deletes => source[k] = NoRow

OrdersAgree == \A a, b \in KeySpace : TextBefore(a, b) <=> a < b

(* The same, where the text order of the keys is their numeric order.      *)
ExactWhenOrdersAgree == OrdersAgree => OnlyRealDifferences

(* insert_count, update_count and delete_count, added up, are the number   *)
(* of records that detail pages page through: no row is reported twice.    *)
CountsMatchRecords ==
    eventCount = Cardinality(inserts) + Cardinality(deletes)
                 + Cardinality(pendingUpdates) + Cardinality(KeysOf(updates))

(* The checked addition that moves to the next chunk never overflows, not  *)
(* even when the tables hold the largest key of the type.                  *)
NeverOverflows == failure # "overflow"

(* The progress shown never exceeds its total, and a chunked scan that     *)
(* commits has counted every chunk.                                        *)
ChunkProgress ==
    /\ currentChunk <= totalChunks
    /\ pc = "committed" => currentChunk = totalChunks

-----------------------------------------------------------------------------
(* The inductive invariant.                                                *)

UpdateKeys == pendingUpdates \cup KeysOf(updates)
Recorded == inserts \cup deletes \cup UpdateKeys

(* What may be recorded at all of a key whose rows are s and t.            *)
Justified(k, s, t) ==
    /\ k \in inserts => s # NoRow
    /\ k \in deletes => t # NoRow
    /\ k \in UpdateKeys => /\ s # NoRow /\ t # NoRow /\ s # t
                           /\ k \notin inserts \cup deletes
    /\ OrdersAgree => /\ (k \in inserts) => (t = NoRow)
                      /\ (k \in deletes) => (s = NoRow)

(* What must be recorded of it once it is settled.                         *)
Settled(k, s, t) ==
    /\ Justified(k, s, t)
    /\ s # NoRow /\ t = NoRow => k \in inserts
    /\ s = NoRow /\ t # NoRow => k \in deletes
    /\ s # NoRow /\ t # NoRow =>
          /\ (k \in inserts) <=> (k \in deletes)
          /\ (s # t) => k \in inserts \cup UpdateKeys

SrcTaken == KeysOf(srcRows) \ srcRest
TgtTaken == KeysOf(tgtRows) \ tgtRest
Matched(k) ==
    /\ k \in SrcTaken \cap TgtTaken
    /\ k \notin inserts \cup deletes
    /\ srcRows[k] # tgtRows[k] => k \in UpdateKeys

(* A key while its rows are being merged.                                  *)
InMerge(k) ==
    /\ Justified(k, srcRows[k], tgtRows[k])
    /\ k \in srcRest => srcRows[k] # NoRow /\ k \notin inserts \cup UpdateKeys
    /\ k \in tgtRest => tgtRows[k] # NoRow /\ k \notin deletes \cup UpdateKeys
    /\ k \in SrcTaken => k \in inserts \/ Matched(k)
    /\ k \in TgtTaken => k \in deletes \/ Matched(k)

(* When the orders agree, the merge has consumed exactly what comes first. *)
MergeFrontier ==
    OrdersAgree => \A a \in SrcTaken \cup TgtTaken, b \in srcRest \cup tgtRest : a < b

Fresh(k) == srcRows[k] = source[k] /\ tgtRows[k] = target[k]

BeforeScan == pc \in {"resolve", "bounds", "openFull"} => Recorded = {}

ChunkScanInv ==
    pc \in {"chunk", "load", "mergeChunk"} =>
        /\ chunkStart <= maxInclusive /\ maxInclusive <= KeyMax
        /\ \A k \in Untouched :
              /\ source[k] # NoRow \/ target[k] # NoRow => k <= maxInclusive
              /\ k < chunkStart => Settled(k, source[k], target[k])
        /\ \A k \in Recorded : k <= ChunkEnd /\ (pc # "mergeChunk" => k < chunkStart)

MergeInv ==
    /\ pc = "mergeChunk" =>
          /\ \A k \in KeySpace :
                IF InChunk(k) THEN InMerge(k)
                ELSE srcRows[k] = NoRow /\ tgtRows[k] = NoRow
          /\ \A k \in Untouched : InChunk(k) => Fresh(k)
    /\ pc = "mergeFull" =>
          /\ \A k \in KeySpace : InMerge(k)
          /\ \A k \in Untouched : Fresh(k)
    /\ pc \in {"mergeChunk", "mergeFull"} =>
          /\ srcRest \subseteq KeysOf(srcRows) /\ tgtRest \subseteq KeysOf(tgtRows)
          /\ MergeFrontier

AfterScan ==
    /\ pc \in {"finish", "committed"} =>
          \A k \in Untouched : Settled(k, source[k], target[k])
    /\ pc = "committed" => pendingUpdates = {}

CachedRows ==
    /\ \A k \in Untouched : updates[k] \in {NoRow, source[k]}
    /\ pendingUpdates \cap KeysOf(updates) = {}

(* Everything the scan relies on between two steps: what is recorded of    *)
(* the keys it has passed, of those in the merge and of those still ahead. *)
ScanInv ==
    /\ TypeOK /\ NeverOverflows
    /\ BeforeScan /\ ChunkScanInv /\ MergeInv /\ AfterScan /\ CachedRows

(* The scan ends, cancelled or not, however the chunks fall.               *)
Terminates == <>Final
=============================================================================
