--------------------------- MODULE Workbench_proofs ---------------------------
(***************************************************************************)
(* What each workspace keeps to, in the window as a whole.  An invariant   *)
(* of a workspace holds from the start, is kept by the workspace's own     *)
(* steps, and every other step of the window leaves the workspace alone.   *)
(***************************************************************************)
EXTENDS Workbench, Sequences, Ordered, FiniteSetTheorems, SequenceTheorems,
  WellFoundedInduction, TLAPS

\* Every step is a step of the workspace in front and leaves the others as they are.
LEMMA Interleaves ==
  ASSUME [Next]_vars
  PROVE  /\ workspace' = workspace
         /\ DataStep \/ UNCHANGED dataVars
         /\ DesignStep \/ UNCHANGED designVars
         /\ CachesStep \/ UNCHANGED cacheVars
         /\ ConsoleStep \/ UNCHANGED consoleVars
         /\ SourcesStep \/ UNCHANGED sourceVars
         /\ CompareStep \/ UNCHANGED compareVars
         /\ SharingStep \/ UNCHANGED sharingVars
         /\ SendingStep \/ UNCHANGED sendingVars
         /\ IncomingStep \/ UNCHANGED incomingVars
         /\ RedisStep \/ UNCHANGED redisVars
         /\ PluginStep \/ UNCHANGED dingtalkVars
         /\ HostStep \/ UNCHANGED hostVars
BY DEF Next, vars, viewVars, editorVars, pluginVars, DataStep, DesignStep, CachesStep, ConsoleStep,
  SourcesStep, CompareStep, IncomingStep, SendingStep, SharingStep, RedisStep, TextStep,
  CompletionStep, PluginStep, HostStep

----------------------------------------------------------------------------
(* Lists in order. *)

\* Each of the first ranks of a set is that of one element.
LEMMA Ranks ==
  ASSUME NEW S \in SUBSET Nat, IsFiniteSet(S)
  PROVE  /\ Cardinality(S) \in Nat
         /\ \A r \in S : Rank(r, S) \in 0..(Cardinality(S) - 1)
         /\ \A r, q \in S : Rank(r, S) = Rank(q, S) => r = q
         /\ \A n \in 0..(Cardinality(S) - 1) : \E r \in S : Rank(r, S) = n
<1> DEFINE Below(r) == {q \in S : q < r}
           f == [r \in S |-> Rank(r, S)]
           T == 0..(Cardinality(S) - 1)
<1>1. Cardinality(S) \in Nat
  BY FS_CardinalityType
<1>2. ASSUME NEW r \in S
      PROVE  Rank(r, S) \in T /\ IsFiniteSet(Below(r)) /\ Rank(r, S) = Cardinality(Below(r))
  <2>1. Below(r) \in SUBSET S /\ r \notin Below(r)
    OBVIOUS
  <2>2. /\ IsFiniteSet(Below(r)) /\ Cardinality(Below(r)) <= Cardinality(S)
        /\ Cardinality(S) = Cardinality(Below(r)) => S = Below(r)
    BY <2>1, FS_Subset
  <2>3. Cardinality(Below(r)) \in Nat
    BY <2>2, FS_CardinalityType
  <2> QED
    BY <1>1, <2>1, <2>2, <2>3 DEF Rank
<1>3. ASSUME NEW r \in S, NEW q \in S, r < q
      PROVE  Rank(r, S) < Rank(q, S)
  <2>1. Below(r) \in SUBSET Below(q) /\ r \in Below(q) /\ r \notin Below(r)
    <3>1. r \in Nat /\ q \in Nat
      OBVIOUS
    <3>2. ASSUME NEW x \in Below(r) PROVE x \in Below(q)
      <4>1. x \in S /\ x < r
        OBVIOUS
      <4>2. x < q
        BY <1>3, <3>1, <4>1
      <4> QED
        BY <4>1, <4>2
    <3>3. r \in Below(q)
      BY <1>3
    <3>4. ~(r < r)
      BY <3>1
    <3> QED
      BY <3>2, <3>3, <3>4
  <2>2. /\ Cardinality(Below(r)) <= Cardinality(Below(q))
        /\ Cardinality(Below(q)) = Cardinality(Below(r)) => Below(q) = Below(r)
    BY <1>2, <2>1, FS_Subset
  <2>3. Cardinality(Below(r)) \in Nat /\ Cardinality(Below(q)) \in Nat
    BY <1>2, FS_CardinalityType
  <2> QED
    BY <1>2, <2>1, <2>2, <2>3
<1>4. \A r, q \in S : Rank(r, S) = Rank(q, S) => r = q
  <2> SUFFICES ASSUME NEW r \in S, NEW q \in S, r # q PROVE Rank(r, S) # Rank(q, S)
    OBVIOUS
  <2>1. r < q \/ q < r
    <3>1. r \in Nat /\ q \in Nat
      OBVIOUS
    <3> QED
      BY <3>1
  <2>2. Rank(r, S) \in Nat /\ Rank(q, S) \in Nat
    <3>1. Rank(r, S) \in T /\ Rank(q, S) \in T
      BY <1>2
    <3> HIDE DEF Below, f
    <3> QED
      BY <1>1, <3>1
  <2>3. Rank(r, S) < Rank(q, S) \/ Rank(q, S) < Rank(r, S)
    BY <1>3, <2>1
  <2> QED
    BY <2>2, <2>3
<1>5. IsFiniteSet(T) /\ Cardinality(T) = Cardinality(S)
  <2>1. 0 \in Int /\ Cardinality(S) - 1 \in Int
    BY <1>1
  <2>2. /\ IsFiniteSet(T)
        /\ Cardinality(T) = IF 0 > Cardinality(S) - 1 THEN 0 ELSE (Cardinality(S) - 1) - 0 + 1
    BY <2>1, FS_Interval
  <2> QED
    BY <1>1, <2>2
<1>6. f \in Injection(S, T)
  BY <1>2, <1>4 DEF Injection, IsInjective
<1>7. f \in Surjection(S, T)
  <2> HIDE DEF f, T
  <2> QED
    BY <1>5, <1>6, FS_Injection
<1>8. \A n \in T : \E r \in S : f[r] = n
  BY <1>7 DEF Surjection
<1> QED
  BY <1>1, <1>2, <1>4, <1>8

\* A function on the first n numbers is a sequence.
LEMMA FunctionIsSequence ==
  ASSUME NEW T, NEW n \in Nat, NEW f \in [1..n -> T]
  PROVE  f \in Seq(T) /\ Len(f) = n /\ DOMAIN f = 1..n
OBVIOUS

\* The numbers of a finite set can be listed in order, each once.
LEMMA NumbersInOrder ==
  ASSUME NEW S \in SUBSET Nat, IsFiniteSet(S)
  PROVE  /\ Cardinality(S) \in Nat /\ InOrder(S) \in [1..Cardinality(S) -> S]
         /\ \A i, j \in 1..Cardinality(S) : InOrder(S)[i] = InOrder(S)[j] => i = j
<1> DEFINE D == 1..Cardinality(S)
<1>1. Cardinality(S) \in Nat
  BY Ranks
<1>2. ASSUME NEW i \in D
      PROVE  InOrder(S)[i] \in S /\ Rank(InOrder(S)[i], S) = i - 1
  <2>1. i - 1 \in 0..(Cardinality(S) - 1)
    BY <1>1
  <2>2. \E s \in S : Rank(s, S) = i - 1
    BY <2>1, Ranks
  <2> QED
    BY <2>2 DEF InOrder
<1>3. ASSUME NEW i \in D, NEW j \in D, InOrder(S)[i] = InOrder(S)[j]
      PROVE  i = j
  <2>1. i - 1 = j - 1 /\ i \in Int /\ j \in Int
    BY <1>1, <1>2, <1>3
  <2> QED
    BY <2>1
<1>4. InOrder(S) \in [D -> S]
  BY <1>2 DEF InOrder
<1> QED
  BY <1>1, <1>3, <1>4

\* The items of a list s are items of another list, each from one of its positions in S.
IsSelection(s, list, S) ==
  \E at : /\ at \in [DOMAIN s -> S]
          /\ \A i, j \in DOMAIN s : at[i] = at[j] => i = j
          /\ \A i \in DOMAIN s : s[i] = list[at[i]]

\* The items of a list at some of its positions are such a selection.
LEMMA ItemsAt ==
  ASSUME NEW T, NEW list, list \in Seq(T),
         NEW S, S \subseteq DOMAIN list, NEW s, s = At(list, S)
  PROVE  s \in Seq(T) /\ IsSelection(s, list, S)
<1> PICK at : at = InOrder(S)
  OBVIOUS
<1>1. S \in SUBSET Nat /\ IsFiniteSet(S)
  BY FS_Interval, FS_Subset
<1>2. /\ Cardinality(S) \in Nat /\ at \in [1..Cardinality(S) -> S]
      /\ \A i, j \in 1..Cardinality(S) : at[i] = at[j] => i = j
  BY <1>1, NumbersInOrder
<1>3. s = [i \in DOMAIN at |-> list[at[i]]]
  BY DEF At
<1>4. s \in [1..Cardinality(S) -> T]
  BY <1>2, <1>3
<1>5. s \in Seq(T) /\ DOMAIN s = 1..Cardinality(S)
  BY <1>2, <1>4, FunctionIsSequence
<1>6. IsSelection(s, list, S)
  BY <1>2, <1>3, <1>5 DEF IsSelection
<1> QED
  BY <1>5, <1>6

----------------------------------------------------------------------------
(* The data tab. *)

Row == [id : Int, selected : BOOLEAN, state : {"clean", "updated", "new", "deleted"},
        key : Nat, orig : {0, 1}, val : {0, 1}]
\* the client ids given to added rows so far are negative; loaded rows have their key
IsGiven(id, given) == id \in Int /\ id < 0 /\ given + id > 0
IsGridRow(r, given) ==
  r \in Row /\ IF r.state = "new" THEN IsGiven(r.id, given) ELSE r.id > 0 /\ r.key > 0
IsCommit(c, given) ==
  /\ c.offset \in Nat /\ IsFiniteSet(c.payload.ins)
  /\ \A r \in c.payload.ins : IsGiven(r.id, given) /\ r.val \in {0, 1}
  /\ \A u \in c.payload.upd : u.val \in {0, 1}

\* rows are those of a filter's page
Loaded(rows) == {i \in DOMAIN rows : rows[i].state # "new"}
OfFilter(rows, w) ==
  /\ Cardinality(Loaded(rows)) <= PageSize
  /\ \A i \in Loaded(rows) : w = "ones" => rows[i].orig = 1
IsAnswered(a, w) ==
  /\ a.keys \in Seq(Nat \ {0}) /\ Len(a.keys) <= PageSize /\ a.total \in Nat
  /\ \A i \in DOMAIN a.keys : a.vals[i] \in {0, 1} /\ (w = "ones" => a.vals[i] = 1)

TableInv ==
  /\ IsFiniteSet(DOMAIN table) /\ DOMAIN table \subseteq Nat \ {0}
  /\ \A k \in DOMAIN table : table[k] \in {0, 1}
PagesInv ==
  \A p \in pages :
    /\ p = [n |-> p.n, where |-> p.where, offset |-> p.offset, answer |-> p.answer]
    /\ p.offset \in Nat /\ (p.answer # <<>> => IsAnswered(p.answer, p.where))
CommitsInv ==
  /\ \A p \in previews : IsCommit(p, gestures)
  /\ dialog.shown => /\ dialog = [shown |-> TRUE, busy |-> dialog.busy, commit |-> dialog.commit]
                     /\ IsCommit(dialog.commit, gestures)
  /\ \A a \in applies : a = [commit |-> a.commit, done |-> a.done] /\ IsCommit(a.commit, gestures)
IsDataTab(g) ==
  g = [open |-> TRUE, status |-> g.status, rows |-> g.rows, where |-> g.where, typed |-> g.typed,
       offset |-> g.offset, total |-> g.total, exact |-> g.exact]
IsGrid(g, given) ==
  /\ IsDataTab(g) /\ given > 0 /\ g.rows \in Seq(Row)
  /\ \A i \in DOMAIN g.rows : IsGridRow(g.rows[i], given)
  /\ g.offset \in Nat /\ g.total \in Nat
  /\ ~g.typed => OfFilter(g.rows, g.where)
GridInv == grid = Data!Closed \/ IsGrid(grid, gestures)
\* a row that was inserted is about to leave, or a load has failed
HasInserted(rows) == \E i \in DOMAIN rows : rows[i].id \in inserted
LeaveInv ==
  /\ \A id \in inserted : IsGiven(id, gestures)
  /\ grid.open /\ HasInserted(grid.rows) =>
       pages # {} \/ grid.status = "error" \/ \E a \in applies : a.done = "ok"

DataInv == gestures \in Nat /\ TableInv /\ PagesInv /\ CommitsInv /\ GridInv /\ LeaveInv

\* Lists in order are the same whichever module they are read in.
LEMMA DataLists ==
  /\ \A S : Data!Cardinality(S) = Cardinality(S)
  /\ \A S : Data!InOrder(S) = InOrder(S)
  /\ \A list, S : Data!At(list, S) = At(list, S)
BY DEF Cardinality, Data!Cardinality, Rank, Data!Rank, InOrder, Data!InOrder, At, Data!At

LEMMA DataInit == Data!Init => DataInv
<1> SUFFICES ASSUME Data!Init PROVE DataInv
  OBVIOUS
<1>1. IsFiniteSet(InitialKeys) /\ InitialKeys \subseteq Nat \ {0}
  <2>1. IsFiniteSet(1..MaxKey)
    BY WorkbenchAssumption, FS_Interval
  <2>2. InitialKeys \in SUBSET (1..MaxKey)
    BY WorkbenchAssumption
  <2>3. IsFiniteSet(InitialKeys)
    BY <2>1, <2>2, FS_Subset
  <2> QED
    BY <2>2, <2>3
<1>2. table \in [InitialKeys -> {0, 1}]
  BY DEF Data!Init
<1> QED
  BY <1>1, <1>2 DEF Data!Init, Data!Closed, Data!NoDialog, DataInv, TableInv, PagesInv, CommitsInv, GridInv, LeaveInv

\* What the client ids given before are, they are after more of them were given.
LEMMA MoreGestures ==
  ASSUME DataInv, gestures' \in {gestures, gestures + 1}
  PROVE  /\ \A id : IsGiven(id, gestures) => IsGiven(id, gestures')
         /\ \A r : IsGridRow(r, gestures) => IsGridRow(r, gestures')
         /\ \A c : IsCommit(c, gestures) => IsCommit(c, gestures')
         /\ \A g : IsGrid(g, gestures) => IsGrid(g, gestures')
<1>1. gestures \in Nat /\ gestures' \in Nat /\ gestures' >= gestures
  BY DEF DataInv
<1>2. \A id : IsGiven(id, gestures) => IsGiven(id, gestures')
  <2>1. \A m, n \in Nat, id \in Int : n >= m /\ m + id > 0 => n + id > 0
    OBVIOUS
  <2> QED
    BY <1>1, <2>1 DEF IsGiven
<1>3. \A r : IsGridRow(r, gestures) => IsGridRow(r, gestures')
  BY <1>2 DEF IsGridRow
<1>4. \A c : IsCommit(c, gestures) => IsCommit(c, gestures')
  BY <1>2 DEF IsCommit
<1> QED
  BY <1>1, <1>2, <1>3, <1>4 DEF IsGrid

\* A field of the tab is patched, and the others stay.
LEMMA TabPatched ==
  ASSUME IsDataTab(grid), NEW f, DOMAIN f \subseteq DOMAIN grid, "open" \notin DOMAIN f, Data!patchTab(f)
  PROVE  /\ IsDataTab(grid')
         /\ \A k \in DOMAIN grid : grid'[k] = IF k \in DOMAIN f THEN f[k] ELSE grid[k]
         /\ DOMAIN grid = {"open", "status", "rows", "where", "typed", "offset", "total", "exact"}
<1>1. grid.open
  BY DEF IsDataTab
<1>2. grid' = [k \in DOMAIN grid |-> IF k \in DOMAIN f THEN f[k] ELSE grid[k]]
  BY <1>1 DEF Data!patchTab
<1>3. DOMAIN grid = {"open", "status", "rows", "where", "typed", "offset", "total", "exact"}
  BY DEF IsDataTab
<1>4. grid'.open = TRUE
  BY <1>2, <1>3 DEF IsDataTab
<1> QED
  BY <1>2, <1>3, <1>4 DEF IsDataTab

\* The tab that is open, and its rows.
LEMMA OpenGrid ==
  ASSUME DataInv, grid.open
  PROVE  /\ IsGrid(grid, gestures) /\ grid.rows \in Seq(Row)
         /\ \A i \in DOMAIN grid.rows : IsGridRow(grid.rows[i], gestures) /\ IsGridRow(grid.rows[i], gestures + 1)
         /\ gestures \in Nat /\ DOMAIN grid.rows = 1..Len(grid.rows) /\ Len(grid.rows) \in Nat
<1>1. IsGrid(grid, gestures) /\ gestures \in Nat
  BY DEF DataInv, GridInv, Data!Closed
<1>2. \A n \in Nat, id \in Int : n + id > 0 => (n + 1) + id > 0
  OBVIOUS
<1>3. \A r : IsGridRow(r, gestures) => IsGridRow(r, gestures + 1)
  BY <1>1, <1>2 DEF IsGridRow, IsGiven
<1> QED
  BY <1>1, <1>3 DEF IsGrid

\* The rows of the tab are replaced by others of the same page.
LEMMA GridEdited ==
  ASSUME DataInv, grid.open, NEW rows, rows \in Seq(Row),
         \A i \in DOMAIN rows : IsGridRow(rows[i], gestures'),
         \A i \in DOMAIN rows : rows[i].id \in inserted => HasInserted(grid.rows),
         NEW at, at \in Injection(Loaded(rows), Loaded(grid.rows)),
         \A i \in Loaded(rows) : rows[i].orig = grid.rows[at[i]].orig,
         Data!Patched(rows)
  PROVE  DataInv'
<1>1. IsGrid(grid, gestures)
  BY DEF DataInv, GridInv, Data!Closed
<1>2. /\ gestures' = gestures + 1 /\ gestures \in Nat
      /\ Data!patchTab([rows |-> rows])
      /\ UNCHANGED <<table, pages, previews, dialog, applies, inserted>>
  BY DEF Data!Patched, Data!Gesture, DataInv
<1>3. IsDataTab(grid') /\ grid'.rows = rows /\ grid'.status = grid.status /\ grid'.where = grid.where
      /\ grid'.typed = grid.typed /\ grid'.offset = grid.offset /\ grid'.total = grid.total
  BY <1>1, <1>2, TabPatched DEF IsGrid, IsDataTab
<1>4. OfFilter(grid.rows, grid.where) => OfFilter(rows, grid.where)
  <2>1. IsFiniteSet(DOMAIN grid.rows)
    <3>1. DOMAIN grid.rows = 1..Len(grid.rows) /\ Len(grid.rows) \in Int
      BY OpenGrid
    <3> QED
      BY <3>1, FS_Interval
  <2>2. IsFiniteSet(Loaded(grid.rows))
    BY <2>1, FS_Subset DEF Loaded
  <2>3. IsFiniteSet(Loaded(rows)) /\ Cardinality(Loaded(rows)) <= Cardinality(Loaded(grid.rows))
    BY <2>2, FS_Injection
  <2>4. Cardinality(Loaded(rows)) \in Nat /\ Cardinality(Loaded(grid.rows)) \in Nat
    BY <2>2, <2>3, FS_CardinalityType
  <2>5. \A i \in Loaded(rows) : at[i] \in Loaded(grid.rows)
    BY DEF Injection
  <2> QED
    BY <2>3, <2>4, <2>5, WorkbenchAssumption DEF OfFilter
<1>5. IsGrid(grid, gestures')
  BY <1>1, <1>2, MoreGestures
<1>6. GridInv'
  BY <1>2, <1>3, <1>4, <1>5 DEF GridInv, IsGrid
<1>7. LeaveInv'
  <2>1. \A id \in inserted : IsGiven(id, gestures')
    BY <1>2, MoreGestures DEF DataInv, LeaveInv
  <2>2. HasInserted(rows) => HasInserted(grid.rows)
    BY DEF HasInserted
  <2>3. HasInserted(rows)' => HasInserted(rows)
    BY <1>2 DEF HasInserted
  <2> QED
    BY <1>2, <1>3, <2>1, <2>2 DEF DataInv, LeaveInv, HasInserted
<1>8. CommitsInv'
  BY <1>2, MoreGestures DEF DataInv, CommitsInv
<1> QED
  BY <1>2, <1>6, <1>7, <1>8 DEF DataInv, TableInv, PagesInv

\* Rows that stay where they are, with the loaded values they had.
LEMMA RowsInPlace ==
  ASSUME NEW rows, NEW old, DOMAIN rows = DOMAIN old,
         \A i \in DOMAIN rows : rows[i].state # "new" => old[i].state # "new" /\ rows[i].orig = old[i].orig
  PROVE  \E at : /\ at \in Injection(Loaded(rows), Loaded(old))
                 /\ \A i \in Loaded(rows) : rows[i].orig = old[at[i]].orig
<1> DEFINE at == [i \in Loaded(rows) |-> i]
<1>1. at \in Injection(Loaded(rows), Loaded(old))
  BY DEF Injection, IsInjective, Loaded
<1>2. \A i \in Loaded(rows) : rows[i].orig = old[at[i]].orig
  BY DEF Loaded
<1> QED
  BY <1>1, <1>2

LEMMA DataSelects ==
  ASSUME DataInv, grid.open, NEW i, NEW j, NEW append \in BOOLEAN, Data!SelectRange(i, j, append)
  PROVE  DataInv'
<1> DEFINE on(k) == (k \in (IF i < j THEN i ELSE j)..(IF i < j THEN j ELSE i)) \/ (append /\ grid.rows[k].selected)
<1>1. PICK rows : rows = [k \in DOMAIN grid.rows |-> [grid.rows[k] EXCEPT !.selected = on(k)]]
  OBVIOUS
<1>2. Data!Patched(rows)
  BY <1>1 DEF Data!SelectRange
<1>3. gestures' = gestures + 1
  BY <1>2 DEF Data!Patched, Data!Gesture
<1>4. ASSUME NEW k \in DOMAIN grid.rows
      PROVE  /\ rows[k] \in Row /\ IsGridRow(rows[k], gestures') /\ rows[k].id = grid.rows[k].id
             /\ rows[k].state = grid.rows[k].state /\ rows[k].orig = grid.rows[k].orig
  <2> PICK row : row = grid.rows[k]
    OBVIOUS
  <2> PICK yes \in BOOLEAN : yes = on(k)
    <3>1. on(k) \in BOOLEAN
      OBVIOUS
    <3> QED
      BY <3>1
  <2>1. row = grid.rows[k] /\ rows[k] = [row EXCEPT !.selected = yes]
    BY <1>1
  <2>2. IsGridRow(row, gestures + 1) /\ row \in Row
    BY <2>1, OpenGrid DEF IsGridRow
  <2> QED
    BY <1>3, <2>1, <2>2 DEF IsGridRow, Row
<1> HIDE DEF on
<1>5. rows \in Seq(Row) /\ DOMAIN rows = DOMAIN grid.rows
  <2>1. rows \in [1..Len(grid.rows) -> Row]
    BY <1>1, <1>4, OpenGrid
  <2> QED
    BY <1>1, <2>1, OpenGrid, FunctionIsSequence
<1>6. PICK at : /\ at \in Injection(Loaded(rows), Loaded(grid.rows))
                /\ \A k \in Loaded(rows) : rows[k].orig = grid.rows[at[k]].orig
  BY <1>4, <1>5, RowsInPlace
<1>7. \A k \in DOMAIN rows : rows[k].id \in inserted => HasInserted(grid.rows)
  BY <1>4, <1>5 DEF HasInserted
<1> QED
  BY <1>2, <1>4, <1>5, <1>6, <1>7, GridEdited

LEMMA DataUpdates ==
  ASSUME DataInv, grid.open, NEW i \in DOMAIN grid.rows, NEW v \in {0, 1}, Data!UpdateRow(i, v)
  PROVE  DataInv'
<1>1. PICK row : row = grid.rows[i]
  OBVIOUS
<1>2. PICK state : state = IF row.state = "new" THEN "new" ELSE IF v = row.orig THEN "clean" ELSE "updated"
  OBVIOUS
<1>3. PICK new : new = [row EXCEPT !.val = v, !.state = state]
  OBVIOUS
<1>4. PICK rows : rows = [grid.rows EXCEPT ![i] = new]
  OBVIOUS
<1>5. Data!Patched(rows)
  <2>1. rows = [grid.rows EXCEPT ![i].val = v,
        ![i].state = IF @ = "new" THEN "new" ELSE IF v = grid.rows[i].orig THEN "clean" ELSE "updated"]
    BY <1>1, <1>2, <1>3, <1>4
  <2> QED
    BY <2>1 DEF Data!UpdateRow
<1>6. gestures' = gestures + 1
  BY <1>5 DEF Data!Patched, Data!Gesture
<1>7. new \in Row /\ IsGridRow(new, gestures') /\ new.id = row.id /\ new.orig = row.orig
      /\ (new.state = "new" <=> row.state = "new")
  <2>1. IsGridRow(row, gestures + 1) /\ row \in Row
    BY <1>1, OpenGrid DEF IsGridRow
  <2> QED
    BY <1>2, <1>3, <1>6, <2>1 DEF IsGridRow, Row
<1>8. rows \in Seq(Row) /\ DOMAIN rows = DOMAIN grid.rows
  BY <1>4, <1>7, OpenGrid
<1>9. \A k \in DOMAIN rows : /\ IsGridRow(rows[k], gestures') /\ rows[k].id = grid.rows[k].id
                             /\ rows[k].orig = grid.rows[k].orig
                             /\ rows[k].state = "new" <=> grid.rows[k].state = "new"
  <2> SUFFICES ASSUME NEW k \in DOMAIN rows
               PROVE  /\ IsGridRow(rows[k], gestures') /\ rows[k].id = grid.rows[k].id
                      /\ rows[k].orig = grid.rows[k].orig
                      /\ rows[k].state = "new" <=> grid.rows[k].state = "new"
    OBVIOUS
  <2>1. CASE k = i
    BY <1>1, <1>4, <1>7, <2>1
  <2>2. CASE k # i
    BY <1>4, <1>6, <1>8, <2>2, OpenGrid
  <2> QED
    BY <2>1, <2>2
<1>10. PICK at : /\ at \in Injection(Loaded(rows), Loaded(grid.rows))
                 /\ \A k \in Loaded(rows) : rows[k].orig = grid.rows[at[k]].orig
  <2> PICK old : old = grid.rows
    OBVIOUS
  <2>1. DOMAIN rows = DOMAIN old
    BY <1>8
  <2>2. \A k \in DOMAIN rows : rows[k].state # "new" => old[k].state # "new" /\ rows[k].orig = old[k].orig
    BY <1>9
  <2>3. \E at : /\ at \in Injection(Loaded(rows), Loaded(old))
               /\ \A k \in Loaded(rows) : rows[k].orig = old[at[k]].orig
    BY <2>1, <2>2, RowsInPlace
  <2> QED
    BY <2>3
<1>11. \A k \in DOMAIN rows : rows[k].id \in inserted => HasInserted(grid.rows)
  BY <1>8, <1>9 DEF HasInserted
<1> QED
  BY <1>5, <1>8, <1>9, <1>10, <1>11, GridEdited

LEMMA DataAdds ==
  ASSUME DataInv, Data!AddRow
  PROVE  DataInv'
<1>1. PICK new : new = [Data!GridRow(Data!NoKey, 0) EXCEPT !.id = -gestures, !.state = "new"]
  OBVIOUS
<1>2. PICK rows : rows = Append(grid.rows, new)
  OBVIOUS
<1>3. grid.open /\ Data!Patched(rows)
  BY <1>1, <1>2 DEF Data!AddRow, Data!Editing
<1>4. gestures' = gestures + 1
  BY <1>3 DEF Data!Patched, Data!Gesture
<1>5. new \in Row /\ IsGiven(new.id, gestures') /\ new.state = "new"
  <2>1. gestures \in Nat /\ gestures > 0
    BY <1>3, OpenGrid DEF IsGrid
  <2>2. -gestures \in Int /\ -gestures < 0 /\ (gestures + 1) + (-gestures) > 0
    BY <2>1
  <2>3. new = [id |-> -gestures, selected |-> FALSE, state |-> "new", key |-> 0, orig |-> 0, val |-> 0]
    BY <1>1 DEF Data!GridRow, Data!NoKey
  <2> QED
    BY <1>4, <2>2, <2>3 DEF IsGiven, Row
<1> PICK n : n = Len(grid.rows)
  OBVIOUS
<1>6. /\ rows \in Seq(Row) /\ n \in Nat /\ DOMAIN grid.rows = 1..n /\ DOMAIN rows = 1..(n + 1)
      /\ rows[n + 1] = new /\ \A i \in 1..n : rows[i] = grid.rows[i]
  BY <1>2, <1>3, <1>5, OpenGrid
<1>7. \A i \in DOMAIN rows : i = n + 1 \/ i \in DOMAIN grid.rows
  BY <1>6
<1>8. \A i \in DOMAIN rows : IsGridRow(rows[i], gestures')
  BY <1>3, <1>4, <1>5, <1>6, <1>7, OpenGrid DEF IsGridRow
<1>9. Loaded(rows) \subseteq DOMAIN grid.rows
  BY <1>5, <1>6, <1>7 DEF Loaded
<1>10. PICK at : /\ at \in Injection(Loaded(rows), Loaded(grid.rows))
                 /\ \A k \in Loaded(rows) : rows[k].orig = grid.rows[at[k]].orig
  <2> DEFINE at == [k \in Loaded(rows) |-> k]
  <2>1. \A k \in Loaded(rows) : k \in Loaded(grid.rows) /\ rows[k] = grid.rows[k]
    BY <1>6, <1>9 DEF Loaded
  <2>2. at \in Injection(Loaded(rows), Loaded(grid.rows))
    BY <2>1 DEF Injection, IsInjective
  <2>3. \A k \in Loaded(rows) : rows[k].orig = grid.rows[at[k]].orig
    BY <2>1
  <2> QED
    BY <2>2, <2>3
<1>11. \A i \in DOMAIN rows : rows[i].id \in inserted => HasInserted(grid.rows)
  <2>1. new.id \notin inserted
    <3>1. -gestures \notin inserted
      <4>1. \A id \in inserted : IsGiven(id, gestures)
        BY DEF DataInv, LeaveInv
      <4>2. ~(gestures + (-gestures) > 0)
        BY <1>3, OpenGrid
      <4> QED
        BY <4>1, <4>2 DEF IsGiven
    <3>2. new.id = -gestures
      BY <1>1 DEF Data!GridRow
    <3> QED
      BY <3>1, <3>2
  <2> QED
    BY <1>6, <1>7, <2>1 DEF HasInserted
<1> QED
  BY <1>3, <1>6, <1>8, <1>10, <1>11, GridEdited

\* The rows kept are rows of the tab, each from one position.
LEMMA KeptRows ==
  ASSUME NEW kept, kept = At(grid.rows, Data!Kept), grid.rows \in Seq(Row)
  PROVE  kept \in Seq(Row) /\ IsSelection(kept, grid.rows, Data!Kept)
<1>1. Data!Kept \subseteq DOMAIN grid.rows
  BY DEF Data!Kept
<1> QED
  BY <1>1, ItemsAt

\* Added rows that are marked go, and the others are changed one by one.
LEMMA RowsKept ==
  ASSUME DataInv, grid.open, NEW kept, kept = At(grid.rows, Data!Kept),
         NEW rows, rows = [i \in DOMAIN kept |-> rows[i]],
         \A i \in DOMAIN kept, j \in Data!Kept : kept[i] = grid.rows[j] =>
           /\ IsGridRow(rows[i], gestures + 1) /\ rows[i].orig = grid.rows[j].orig
           /\ rows[i].state # "new" => grid.rows[j].state # "new"
           /\ rows[i].id \in inserted => HasInserted(grid.rows),
         Data!Patched(rows)
  PROVE  DataInv'
<1>1. gestures' = gestures + 1
  BY DEF Data!Patched, Data!Gesture
<1>2. /\ kept \in Seq(Row) /\ IsSelection(kept, grid.rows, Data!Kept)
      /\ Data!Kept \subseteq DOMAIN grid.rows
  <2>1. Data!Kept \subseteq DOMAIN grid.rows
    BY DEF Data!Kept
  <2> QED
    BY <2>1, OpenGrid, KeptRows
<1>3. PICK at : /\ at \in [DOMAIN kept -> Data!Kept]
                /\ \A i, j \in DOMAIN kept : at[i] = at[j] => i = j
                /\ \A i \in DOMAIN kept : kept[i] = grid.rows[at[i]]
  BY <1>2 DEF IsSelection
<1>4. DOMAIN rows = DOMAIN kept
  OBVIOUS
<1>5. \A i \in DOMAIN rows : /\ at[i] \in Data!Kept /\ IsGridRow(rows[i], gestures')
                             /\ rows[i].id \in inserted => HasInserted(grid.rows)
                             /\ rows[i].orig = grid.rows[at[i]].orig
                             /\ rows[i].state # "new" => grid.rows[at[i]].state # "new"
  BY <1>1, <1>3, <1>4
<1>6. rows \in Seq(Row)
  <2>1. Len(kept) \in Nat /\ DOMAIN kept = 1..Len(kept)
    BY <1>2
  <2>2. rows \in [1..Len(kept) -> Row]
    BY <1>5, <2>1 DEF IsGridRow
  <2> QED
    BY <2>1, <2>2, FunctionIsSequence
<1> PICK to : to = [i \in Loaded(rows) |-> at[i]]
  OBVIOUS
<1>7. to \in Injection(Loaded(rows), Loaded(grid.rows))
  <2>1. \A i \in Loaded(rows) : to[i] \in Loaded(grid.rows)
    BY <1>2, <1>5 DEF Loaded
  <2>2. \A i, j \in Loaded(rows) : to[i] = to[j] => i = j
    BY <1>3, <1>4 DEF Loaded
  <2> QED
    BY <2>1, <2>2 DEF Injection, IsInjective
<1>8. \A i \in Loaded(rows) : rows[i].orig = grid.rows[to[i]].orig
  BY <1>5 DEF Loaded
<1> QED
  BY <1>5, <1>6, <1>7, <1>8, GridEdited

LEMMA DataDeletes ==
  ASSUME DataInv, Data!DeleteRows
  PROVE  DataInv'
<1> DEFINE mark(row) == IF row.selected THEN [row EXCEPT !.state = "deleted", !.selected = FALSE] ELSE row
<1>1. PICK kept : kept = At(grid.rows, Data!Kept)
  OBVIOUS
<1>2. PICK rows : rows = [k \in DOMAIN kept |-> mark(kept[k])]
  OBVIOUS
<1>3. grid.open /\ Data!Patched(rows)
  BY <1>1, <1>2, DataLists DEF Data!DeleteRows, Data!Editing
<1>4. ASSUME NEW i \in DOMAIN kept, NEW j \in Data!Kept, kept[i] = grid.rows[j]
      PROVE  /\ IsGridRow(rows[i], gestures + 1) /\ rows[i].orig = grid.rows[j].orig
             /\ rows[i].state # "new" => grid.rows[j].state # "new"
             /\ rows[i].id \in inserted => HasInserted(grid.rows)
  <2> PICK row : row = grid.rows[j]
    OBVIOUS
  <2>1. j \in DOMAIN grid.rows /\ ~(row.selected /\ row.state = "new")
    BY DEF Data!Kept
  <2>2. IsGridRow(row, gestures + 1) /\ row \in Row
    BY <1>3, <2>1, OpenGrid DEF IsGridRow
  <2>3. rows[i] = mark(row)
    BY <1>2, <1>4
  <2>4. IsGridRow(rows[i], gestures + 1) /\ rows[i].orig = row.orig /\ rows[i].id = row.id
        /\ (rows[i].state # "new" => row.state # "new")
    BY <2>1, <2>2, <2>3 DEF IsGridRow, Row
  <2> QED
    BY <2>1, <2>4 DEF HasInserted
<1>5. rows = [i \in DOMAIN kept |-> rows[i]]
  BY <1>2
<1> HIDE DEF mark
<1> QED
  BY <1>1, <1>3, <1>4, <1>5, RowsKept

LEMMA DataRestores ==
  ASSUME DataInv, Data!RestoreRows
  PROVE  DataInv'
<1> DEFINE back(row) == IF row.selected THEN Data!GridRow(row.key, row.orig) ELSE row
<1>1. PICK kept : kept = At(grid.rows, Data!Kept)
  OBVIOUS
<1>2. PICK rows : rows = [k \in DOMAIN kept |-> back(kept[k])]
  OBVIOUS
<1>3. grid.open /\ Data!Patched(rows)
  BY <1>1, <1>2, DataLists DEF Data!RestoreRows, Data!Editing
<1>4. ASSUME NEW i \in DOMAIN kept, NEW j \in Data!Kept, kept[i] = grid.rows[j]
      PROVE  /\ IsGridRow(rows[i], gestures + 1) /\ rows[i].orig = grid.rows[j].orig
             /\ rows[i].state # "new" => grid.rows[j].state # "new"
             /\ rows[i].id \in inserted => HasInserted(grid.rows)
  <2> PICK row : row = grid.rows[j]
    OBVIOUS
  <2>1. j \in DOMAIN grid.rows /\ ~(row.selected /\ row.state = "new")
    BY DEF Data!Kept
  <2>2. IsGridRow(row, gestures + 1) /\ row \in Row
    BY <1>3, <2>1, OpenGrid DEF IsGridRow
  <2>3. rows[i] = back(row)
    BY <1>2, <1>4
  <2>4. CASE row.selected
    <3>1. rows[i] = [id |-> row.key, selected |-> FALSE, state |-> "clean", key |-> row.key,
                     orig |-> row.orig, val |-> row.orig]
      BY <2>3, <2>4 DEF Data!GridRow
    <3>2. row.key \in Nat /\ row.key > 0
      BY <2>1, <2>2, <2>4 DEF IsGridRow, Row
    <3>3. IsGridRow(rows[i], gestures + 1)
      BY <2>2, <3>1, <3>2 DEF IsGridRow, Row
    <3>4. row.key \notin inserted
      BY <3>2 DEF DataInv, LeaveInv, IsGiven
    <3> QED
      BY <2>1, <2>4, <3>1, <3>3, <3>4
  <2>5. CASE ~row.selected
    BY <2>1, <2>2, <2>3, <2>5 DEF HasInserted
  <2> QED
    BY <2>4, <2>5
<1>5. rows = [i \in DOMAIN kept |-> rows[i]]
  BY <1>2
<1> HIDE DEF back
<1> QED
  BY <1>1, <1>3, <1>4, <1>5, RowsKept

\* A page is asked for.
LEMMA PageRequested ==
  ASSUME PagesInv, NEW w, NEW offset \in Nat, Data!RequestPage(w, offset)
  PROVE  PagesInv' /\ pages' # {}
<1>1. PICK n : pages' = pages \cup {[n |-> n, where |-> w, offset |-> offset, answer |-> <<>>]}
  BY DEF Data!RequestPage
<1>2. PICK new : new = [n |-> n, where |-> w, offset |-> offset, answer |-> <<>>]
  OBVIOUS
<1>3. new.offset \in Nat /\ new.answer = <<>> /\ new = [n |-> new.n, where |-> new.where, offset |-> new.offset, answer |-> new.answer]
  BY <1>2
<1>4. pages' = pages \cup {new}
  BY <1>1, <1>2
<1>5. ASSUME NEW p \in pages'
      PROVE  /\ p = [n |-> p.n, where |-> p.where, offset |-> p.offset, answer |-> p.answer]
             /\ p.offset \in Nat /\ (p.answer # <<>> => IsAnswered(p.answer, p.where))
  <2>1. CASE p \in pages
    BY <2>1 DEF PagesInv
  <2>2. CASE p = new
    BY <1>3, <2>2
  <2> QED
    BY <1>4, <2>1, <2>2
<1> QED
  BY <1>4, <1>5 DEF PagesInv

\* Steps of the tab that do not touch rows, commits or the table.
LEMMA TabMoves ==
  ASSUME DataInv, gestures' \in {gestures, gestures + 1}, PagesInv', GridInv', LeaveInv',
         UNCHANGED <<table, previews, dialog, applies, inserted>>
  PROVE  DataInv'
<1>1. CommitsInv'
  BY MoreGestures DEF DataInv, CommitsInv
<1> QED
  BY <1>1 DEF DataInv, TableInv

\* Client ids the server has seen were given.
LEMMA InsertedGiven ==
  ASSUME DataInv, gestures' \in {gestures, gestures + 1}
  PROVE  \A id \in inserted : IsGiven(id, gestures')
BY MoreGestures DEF DataInv, LeaveInv

LEMMA DataReloads ==
  ASSUME DataInv, grid.open, NEW offset \in Nat, Data!Gesture, Data!Reload(offset)
  PROVE  DataInv'
<1>1. IsGrid(grid, gestures) /\ IsGrid(grid, gestures')
  BY OpenGrid, MoreGestures DEF Data!Gesture
<1>2. PagesInv' /\ pages' # {}
  BY PageRequested DEF Data!Reload, DataInv
<1>3. /\ IsDataTab(grid') /\ grid'.status = "loading" /\ grid'.rows = grid.rows /\ grid'.where = grid.where
      /\ grid'.typed = grid.typed /\ grid'.offset = grid.offset /\ grid'.total = grid.total
  BY <1>1, TabPatched DEF Data!Reload, IsGrid, IsDataTab
<1>4. GridInv'
  BY <1>1, <1>3 DEF GridInv, IsGrid
<1>5. LeaveInv'
  <2>1. \A id \in inserted' : IsGiven(id, gestures')
    BY InsertedGiven DEF Data!Reload, Data!Gesture
  <2> QED
    BY <1>2, <2>1 DEF LeaveInv
<1> QED
  BY <1>2, <1>4, <1>5, TabMoves DEF Data!Reload, Data!Gesture

LEMMA DataPages ==
  ASSUME DataInv, grid.open,
         \/ Data!Refresh \/ Data!ApplyFilter
         \/ \E d \in {"first", "prev", "next", "last"} : Data!changeDataPage(d)
  PROVE  DataInv'
<1>1. grid.offset \in Nat /\ grid.total \in Nat /\ PageSize \in Nat \ {0}
  BY OpenGrid, WorkbenchAssumption DEF IsGrid
<1>2. CASE Data!Refresh
  BY <1>1, <1>2, DataReloads DEF Data!Refresh
<1>3. CASE Data!ApplyFilter
  BY <1>3, DataReloads DEF Data!ApplyFilter
<1>4. ASSUME NEW d \in {"first", "prev", "next", "last"}, Data!changeDataPage(d)
      PROVE  DataInv'
  <2>1. Data!NextOffset(d) \in Nat
    <3>1. Data!LastOffset \in Nat
      <4>1. CASE grid.total = 0
        BY <4>1 DEF Data!LastOffset
      <4>2. CASE grid.total # 0
        <5>1. grid.total - 1 \in Nat
          BY <1>1, <4>2
        <5> PICK m \in Nat : m = grid.total - 1
          BY <5>1
        <5> PICK size \in Nat \ {0} : size = PageSize
          BY <1>1
        <5>2. m \div size \in Nat
          OBVIOUS
        <5>3. (m \div size) * size \in Nat
          BY <5>2
        <5> QED
          BY <4>2, <5>3 DEF Data!LastOffset
      <4> QED
        BY <4>1, <4>2
    <3>2. CASE d = "first"
      BY <3>2 DEF Data!NextOffset
    <3>3. CASE d = "prev"
      BY <1>1, <3>3 DEF Data!NextOffset
    <3>4. CASE d = "next"
      BY <1>1, <3>4 DEF Data!NextOffset
    <3>5. CASE d = "last"
      BY <1>1, <3>1, <3>5 DEF Data!NextOffset
    <3> QED
      BY <3>2, <3>3, <3>4, <3>5
  <2> QED
    BY <1>4, <2>1, DataReloads DEF Data!changeDataPage
<1> QED
  BY <1>2, <1>3, <1>4

LEMMA DataOpens ==
  ASSUME DataInv, Data!OpenTable
  PROVE  DataInv'
<1>1. PagesInv' /\ pages' # {}
  BY PageRequested DEF Data!OpenTable, DataInv
<1>2. gestures' = gestures + 1 /\ gestures \in Nat
  BY DEF Data!OpenTable, Data!Gesture, DataInv
<1>3. GridInv'
  <2>1. grid' = [open |-> TRUE, status |-> "loading", rows |-> <<>>, where |-> "", typed |-> FALSE,
              offset |-> 0, total |-> 0, exact |-> TRUE]
    BY DEF Data!OpenTable
  <2>2. OfFilter(<<>>, "")
    <3>1. Loaded(<<>>) = {}
      BY DEF Loaded
    <3>2. Cardinality({}) = 0 /\ PageSize \in Nat
      BY FS_EmptySet, WorkbenchAssumption
    <3> QED
      BY <3>1, <3>2 DEF OfFilter
  <2>3. gestures' > 0
    BY <1>2
  <2>4. /\ grid'.rows = <<>> /\ grid'.where = "" /\ grid'.offset = 0 /\ grid'.total = 0
        /\ IsDataTab(grid')
    BY <2>1 DEF IsDataTab
  <2>5. <<>> \in Seq(Row) /\ DOMAIN <<>> = {}
    OBVIOUS
  <2>6. IsGrid(grid', gestures')
    <3>1. PICK rows : rows = <<>>
      OBVIOUS
    <3>2. rows \in Seq(Row) /\ DOMAIN rows = {} /\ OfFilter(rows, "") /\ grid'.rows = rows
      BY <2>2, <2>4, <2>5, <3>1
    <3>3. 0 \in Nat
      OBVIOUS
    <3> QED
      BY <2>3, <2>4, <3>2, <3>3 DEF IsGrid
  <2> QED
    BY <2>6 DEF GridInv
<1>4. LeaveInv'
  BY <1>1, <1>2, InsertedGiven DEF Data!OpenTable, LeaveInv
<1> QED
  BY <1>1, <1>2, <1>3, <1>4, TabMoves DEF Data!OpenTable

LEMMA DataCloses ==
  ASSUME DataInv, Data!CloseTab
  PROVE  DataInv'
<1>1. gestures' = gestures + 1 /\ grid' = Data!Closed
  BY DEF Data!CloseTab, Data!Gesture
<1>2. LeaveInv'
  BY <1>1, InsertedGiven DEF Data!CloseTab, LeaveInv, Data!Closed
<1> QED
  BY <1>1, <1>2, TabMoves DEF Data!CloseTab, DataInv, PagesInv, GridInv

LEMMA DataTypes ==
  ASSUME DataInv, NEW w, Data!TypeFilter(w)
  PROVE  DataInv'
<1>1. grid.open /\ gestures' = gestures + 1
  BY DEF Data!TypeFilter, Data!Editing, Data!Gesture
<1>2. IsGrid(grid, gestures) /\ IsGrid(grid, gestures')
  BY <1>1, OpenGrid, MoreGestures
<1>3. /\ IsDataTab(grid') /\ grid'.status = grid.status /\ grid'.rows = grid.rows /\ grid'.where = w
      /\ grid'.typed = TRUE /\ grid'.offset = grid.offset /\ grid'.total = grid.total
  BY <1>2, TabPatched DEF Data!TypeFilter, IsGrid, IsDataTab
<1>4. GridInv'
  BY <1>2, <1>3 DEF GridInv, IsGrid
<1>5. LeaveInv'
  BY <1>1, <1>3, InsertedGiven DEF Data!TypeFilter, DataInv, LeaveInv, HasInserted
<1> QED
  BY <1>1, <1>4, <1>5, TabMoves DEF Data!TypeFilter, DataInv, PagesInv

LEMMA DataAltered ==
  ASSUME DataInv, Data!OtherClient
  PROVE  DataInv'
<1>1. gestures' = gestures + 1
  BY DEF Data!OtherClient, Data!Gesture
<1>2. TableInv'
  <2>1. PICK k \in DOMAIN table : table' = [table EXCEPT ![k] = 1 - @]
    BY DEF Data!OtherClient
  <2>2. \A j \in DOMAIN table : table'[j] \in {0, 1}
    BY <2>1 DEF DataInv, TableInv
  <2> QED
    BY <2>1, <2>2 DEF DataInv, TableInv
<1>3. CommitsInv' /\ GridInv'
  BY <1>1, MoreGestures DEF Data!OtherClient, DataInv, CommitsInv, GridInv
<1>4. LeaveInv'
  BY <1>1, InsertedGiven DEF Data!OtherClient, DataInv, LeaveInv, HasInserted
<1> QED
  BY <1>1, <1>2, <1>3, <1>4 DEF Data!OtherClient, DataInv, PagesInv

\* A page answered holds rows of the table that the WHERE clause selects.
LEMMA PageAnswered ==
  ASSUME TableInv, NEW w, NEW offset \in Nat, NEW a, a = Data!PageAnswer(w, offset)
  PROVE  IsAnswered(a, w) /\ DOMAIN a.vals = DOMAIN a.keys
<1>1. PICK S : S = {k \in DOMAIN table : w = "" \/ table[k] = 1}
  OBVIOUS
<1>2. PICK all : all = InOrder(S)
  OBVIOUS
<1>3. PICK last : last = IF Len(all) > offset + PageSize THEN offset + PageSize ELSE Len(all)
  OBVIOUS
<1>4. PICK keys : keys = SubSeq(all, offset + 1, last)
  OBVIOUS
<1>5. /\ a.keys = keys /\ a.vals = [i \in DOMAIN keys |-> table[keys[i]]]
      /\ a.total = offset + Len(keys) + (IF Len(all) > offset + PageSize THEN 1 ELSE 0)
  <2>1. Data!Selected(w) = all
    BY <1>1, <1>2, DataLists DEF Data!Selected
  <2> QED
    BY <1>3, <1>4, <2>1 DEF Data!PageAnswer
<1>6. S \in SUBSET Nat /\ IsFiniteSet(S)
  <2>1. S \in SUBSET DOMAIN table
    BY <1>1
  <2> QED
    BY <2>1, FS_Subset DEF TableInv
<1>7. \A k \in S : k \in Nat \ {0} /\ table[k] \in {0, 1} /\ (w = "ones" => table[k] = 1)
  BY <1>1 DEF TableInv
<1>8. all \in Seq(S) /\ Len(all) \in Nat /\ \A i \in 1..Len(all) : all[i] \in S
  <2>1. Cardinality(S) \in Nat /\ all \in [1..Cardinality(S) -> S]
    BY <1>2, <1>6, NumbersInOrder
  <2> QED
    BY <2>1, FunctionIsSequence
<1>9. last \in Nat /\ last <= Len(all) /\ last <= offset + PageSize
  BY <1>3, <1>8, WorkbenchAssumption
<1>10. keys \in Seq(S) /\ Len(keys) \in Nat /\ Len(keys) <= PageSize
  <2>1. offset + 1 \in Int /\ last \in Int
    BY <1>9
  <2>2. \A i \in (offset + 1)..last : all[i] \in S
    BY <1>8, <1>9
  <2>3. keys \in Seq(S) /\ Len(keys) = IF offset + 1 <= last THEN last - (offset + 1) + 1 ELSE 0
    BY <1>4, <2>1, <2>2, SubSeqProperties
  <2> QED
    BY <1>9, <2>3, WorkbenchAssumption
<1>11. \A i \in DOMAIN keys : keys[i] \in S
  BY <1>10
<1>12. keys \in Seq(Nat \ {0})
  <2>1. keys \in [1..Len(keys) -> Nat \ {0}]
    BY <1>7, <1>10, <1>11
  <2> QED
    BY <1>10, <2>1, FunctionIsSequence
<1>13. a.total \in Nat
  BY <1>5, <1>10
<1>14. \A i \in DOMAIN keys : a.vals[i] \in {0, 1} /\ (w = "ones" => a.vals[i] = 1)
  BY <1>5, <1>7, <1>11
<1> QED
  BY <1>5, <1>10, <1>12, <1>13, <1>14 DEF IsAnswered

LEMMA PageServed ==
  ASSUME DataInv, NEW p \in pages, Data!ServePage(p)
  PROVE  DataInv'
<1>1. PICK a : a = Data!PageAnswer(p.where, p.offset)
  OBVIOUS
<1>2. PICK new : new = [p EXCEPT !.answer = a]
  OBVIOUS
<1>3. pages' = (pages \ {p}) \cup {new}
  BY <1>1, <1>2 DEF Data!ServePage
<1>4. /\ new = [n |-> p.n, where |-> p.where, offset |-> p.offset, answer |-> a] /\ p.offset \in Nat
  BY <1>2 DEF DataInv, PagesInv
<1>5. IsAnswered(a, p.where)
  BY <1>1, <1>4, PageAnswered DEF DataInv
<1>6. PagesInv'
  <2> SUFFICES ASSUME NEW q \in pages'
        PROVE  /\ q = [n |-> q.n, where |-> q.where, offset |-> q.offset, answer |-> q.answer]
               /\ q.offset \in Nat /\ (q.answer # <<>> => IsAnswered(q.answer, q.where))
    BY DEF PagesInv
  <2>1. CASE q \in pages
    BY <2>1 DEF DataInv, PagesInv
  <2>2. CASE q = new
    BY <1>4, <1>5, <2>2
  <2> QED
    BY <1>3, <2>1, <2>2
<1>7. LeaveInv'
  BY <1>3 DEF Data!ServePage, DataInv, LeaveInv, HasInserted
<1> QED
  BY <1>6, <1>7, TabMoves DEF Data!ServePage, DataInv, GridInv

LEMMA PageFailed ==
  ASSUME DataInv, NEW p \in pages, Data!PageFails(p)
  PROVE  DataInv'
<1>1. PagesInv'
  BY DEF Data!PageFails, DataInv, PagesInv
<1>2. CASE grid.open
  <2>1. IsGrid(grid, gestures)
    BY <1>2, OpenGrid
  <2>2. /\ IsDataTab(grid') /\ grid'.status = "error" /\ grid'.rows = grid.rows /\ grid'.where = grid.where
        /\ grid'.typed = grid.typed /\ grid'.offset = grid.offset /\ grid'.total = grid.total
    BY <2>1, TabPatched DEF Data!PageFails, IsGrid, IsDataTab
  <2>3. GridInv'
    BY <2>1, <2>2 DEF Data!PageFails, GridInv, IsGrid
  <2>4. LeaveInv'
    BY <2>2 DEF Data!PageFails, DataInv, LeaveInv
  <2> QED
    BY <1>1, <2>3, <2>4, TabMoves DEF Data!PageFails
<1>3. CASE ~grid.open
  <2>1. grid' = grid
    BY <1>3 DEF Data!PageFails, Data!patchTab
  <2> QED
    BY <1>1, <1>3, <2>1, TabMoves DEF Data!PageFails, DataInv, GridInv, LeaveInv
<1> QED
  BY <1>2, <1>3

\* The rows of an answer are those of a page, all loaded.
LEMMA RowsAnswered ==
  ASSUME NEW w, NEW a, IsAnswered(a, w), gestures \in Nat,
         NEW rows, rows = [i \in DOMAIN a.keys |-> Data!GridRow(a.keys[i], a.vals[i])]
  PROVE  /\ rows \in Seq(Row) /\ OfFilter(rows, w)
         /\ \A i \in DOMAIN rows : IsGridRow(rows[i], gestures) /\ rows[i].id > 0
<1> PICK keys : keys = a.keys
  OBVIOUS
<1> PICK n : n = Len(keys)
  OBVIOUS
<1>1. /\ n \in Nat /\ DOMAIN keys = 1..n /\ n <= PageSize /\ \A i \in 1..n : keys[i] \in Nat \ {0}
  BY DEF IsAnswered
<1>2. ASSUME NEW i \in 1..n
      PROVE  /\ rows[i] \in Row /\ rows[i].id > 0 /\ rows[i].key > 0 /\ rows[i].state = "clean"
             /\ w = "ones" => rows[i].orig = 1
  <2>1. a.vals[i] \in {0, 1} /\ (w = "ones" => a.vals[i] = 1) /\ keys[i] \in Nat \ {0}
    BY <1>1 DEF IsAnswered
  <2> PICK key \in Nat \ {0} : key = keys[i]
    BY <2>1
  <2> PICK val \in {0, 1} : val = a.vals[i]
    BY <2>1
  <2>2. rows[i] = [id |-> key, selected |-> FALSE, state |-> "clean", key |-> key, orig |-> val, val |-> val]
    BY <1>1 DEF Data!GridRow
  <2>3. key \in Int /\ key \in Nat /\ key > 0
    OBVIOUS
  <2>4. rows[i] \in Row
    <3> PICK no \in BOOLEAN : no = FALSE
      OBVIOUS
    <3>1. rows[i] = [id |-> key, selected |-> no, state |-> "clean", key |-> key, orig |-> val, val |-> val]
      BY <2>2
    <3> QED
      BY <2>3, <3>1 DEF Row
  <2> QED
    BY <2>1, <2>2, <2>3, <2>4
<1>3. rows \in [1..n -> Row] /\ DOMAIN rows = 1..n
  BY <1>1, <1>2
<1>4. rows \in Seq(Row)
  BY <1>1, <1>3, FunctionIsSequence
<1>5. Loaded(rows) = 1..n
  BY <1>2, <1>3 DEF Loaded
<1>6. Cardinality(1..n) = n
  <2>1. 1 \in Int /\ n \in Int
    BY <1>1
  <2> QED
    BY <1>1, <2>1, FS_Interval
<1>7. OfFilter(rows, w)
  BY <1>1, <1>2, <1>5, <1>6 DEF OfFilter
<1>8. \A i \in DOMAIN rows : IsGridRow(rows[i], gestures) /\ rows[i].id > 0
  BY <1>2, <1>3 DEF IsGridRow
<1> QED
  BY <1>4, <1>7, <1>8

LEMMA PageArrived ==
  ASSUME DataInv, NEW p \in pages, Data!PageArrives(p)
  PROVE  DataInv'
<1>1. PagesInv'
  BY DEF Data!PageArrives, DataInv, PagesInv
<1>2. CASE grid.open
  <2>1. PICK rows : rows = [i \in DOMAIN p.answer.keys |-> Data!GridRow(p.answer.keys[i], p.answer.vals[i])]
    OBVIOUS
  <2>2. PICK f : f = [status |-> "ready", where |-> p.where, typed |-> FALSE, offset |-> p.offset,
               total |-> p.answer.total, exact |-> p.answer.exact, rows |-> rows]
    OBVIOUS
  <2>3. IsGrid(grid, gestures) /\ gestures \in Nat
    BY <1>2, OpenGrid
  <2>4. IsAnswered(p.answer, p.where) /\ p.offset \in Nat /\ p.answer.total \in Nat
    BY DEF Data!PageArrives, DataInv, PagesInv, IsAnswered
  <2>5. /\ rows \in Seq(Row) /\ OfFilter(rows, p.where)
        /\ \A i \in DOMAIN rows : IsGridRow(rows[i], gestures) /\ rows[i].id > 0
    BY <2>1, <2>3, <2>4, RowsAnswered
  <2>6. Data!patchTab(f)
    BY <2>1, <2>2 DEF Data!PageArrives
  <2>7. /\ IsDataTab(grid') /\ grid'.status = "ready" /\ grid'.rows = rows /\ grid'.where = p.where
        /\ grid'.offset = p.offset /\ grid'.total = p.answer.total
    <3>1. IsDataTab(grid) /\ DOMAIN f \subseteq DOMAIN grid /\ "open" \notin DOMAIN f
      BY <2>2, <2>3 DEF IsGrid, IsDataTab
    <3> QED
      BY <2>2, <2>6, <3>1, TabPatched
  <2>8. GridInv'
    BY <2>3, <2>4, <2>5, <2>7 DEF Data!PageArrives, GridInv, IsGrid
  <2>9. LeaveInv'
    <3>1. \A id \in inserted : id < 0 /\ id \in Int
      BY DEF DataInv, LeaveInv, IsGiven
    <3>2. \A i \in DOMAIN rows : rows[i].id \in Int
      BY <2>5 DEF IsGridRow, Row
    <3>3. ~HasInserted(rows)
      BY <2>5, <3>1, <3>2 DEF HasInserted
    <3> QED
      BY <2>7, <3>3 DEF Data!PageArrives, DataInv, LeaveInv, HasInserted
  <2> QED
    BY <1>1, <2>8, <2>9, TabMoves DEF Data!PageArrives
<1>3. CASE ~grid.open
  <2>1. grid' = grid
    BY <1>3 DEF Data!PageArrives, Data!patchTab
  <2> QED
    BY <1>1, <1>3, <2>1, TabMoves DEF Data!PageArrives, DataInv, GridInv, LeaveInv
<1> QED
  BY <1>2, <1>3

\* The payload of a commit holds the added rows, under their client ids.
LEMMA PayloadTaken ==
  ASSUME NEW rows, NEW given, rows \in Seq(Row), \A i \in DOMAIN rows : IsGridRow(rows[i], given),
         NEW c, c.payload = Data!buildDataMutationPayload(rows), c.payload # <<>>, c.offset \in Nat
  PROVE  IsCommit(c, given)
<1>1. PICK new : new = {i \in DOMAIN rows : rows[i].state = "new"}
  OBVIOUS
<1>2. PICK ins : ins = {[id |-> rows[i].id, val |-> rows[i].val] : i \in new}
  OBVIOUS
<1>3. PICK changed : changed = {i \in DOMAIN rows : rows[i].state = "updated" /\ rows[i].key # Data!NoKey /\ Data!Changed(rows[i])}
  OBVIOUS
<1>4. PICK upd : upd = {[key |-> rows[i].key, val |-> rows[i].val] : i \in changed}
  OBVIOUS
<1>5. c.payload.ins = ins /\ c.payload.upd = upd
  <2> DEFINE of(state) == {i \in DOMAIN rows : rows[i].state = state}
             were(state) == {i \in of(state) : rows[i].key # Data!NoKey}
             edited == {i \in of("updated") : rows[i].key # Data!NoKey /\ Data!Changed(rows[i])}
  <2>1. changed = edited
    BY <1>3
  <2>2. new = of("new")
    BY <1>1
  <2>3. PICK del : del = {rows[i].key : i \in were("deleted")}
    OBVIOUS
  <2>4. c.payload = IF ins = {} /\ upd = {} /\ del = {} THEN <<>> ELSE [ins |-> ins, upd |-> upd, del |-> del]
    <3>1. ins = {[id |-> rows[i].id, val |-> rows[i].val] : i \in of("new")}
      BY <1>2, <2>2
    <3>2. upd = {[key |-> rows[i].key, val |-> rows[i].val] : i \in edited}
      BY <1>4, <2>1
    <3> QED
      BY <2>3, <3>1, <3>2, Zenon DEF Data!buildDataMutationPayload
  <2> QED
    BY <2>4
<1>6. IsFiniteSet(ins)
  <2>1. new \in SUBSET (1..Len(rows)) /\ 1 \in Int /\ Len(rows) \in Int
    BY <1>1
  <2>2. IsFiniteSet(new)
    <3>1. IsFiniteSet(1..Len(rows))
      BY <2>1, FS_Interval
    <3> QED
      BY <2>1, <3>1, FS_Subset
  <2>3. PICK f : f = [i \in new |-> [id |-> rows[i].id, val |-> rows[i].val]]
    OBVIOUS
  <2>4. f \in Surjection(new, ins)
    BY <1>2, <2>3 DEF Surjection
  <2> QED
    BY <2>2, <2>4, FS_Surjection
<1>7. \A r \in ins : IsGiven(r.id, given) /\ r.val \in {0, 1}
  BY <1>1, <1>2 DEF IsGridRow, Row
<1>8. \A u \in upd : u.val \in {0, 1}
  BY <1>3, <1>4 DEF IsGridRow, Row
<1> QED
  BY <1>5, <1>6, <1>7, <1>8 DEF IsCommit

LEMMA DataCommits ==
  ASSUME DataInv, Data!Commit
  PROVE  DataInv'
<1>1. PICK c : /\ c.payload = Data!buildDataMutationPayload(grid.rows) /\ c.payload # <<>>
               /\ c.offset = grid.offset /\ previews' = previews \cup {c}
  <2>1. PICK payload : payload = Data!buildDataMutationPayload(grid.rows)
    OBVIOUS
  <2>2. PICK c : c = [payload |-> payload, where |-> grid.where, offset |-> grid.offset]
    OBVIOUS
  <2>3. payload # <<>> /\ previews' = previews \cup {c}
    BY <2>1, <2>2 DEF Data!Commit
  <2> QED
    BY <2>1, <2>2, <2>3
<1>2. /\ grid.open /\ gestures' = gestures + 1
      /\ UNCHANGED <<table, grid, pages, dialog, applies, inserted>>
  BY DEF Data!Commit, Data!Editing, Data!Gesture
<1>3. IsGrid(grid, gestures')
  BY <1>2, OpenGrid, MoreGestures
<1>4. IsCommit(c, gestures')
  BY <1>1, <1>3, PayloadTaken DEF IsGrid
<1>5. CommitsInv'
  BY <1>1, <1>2, <1>4, MoreGestures DEF DataInv, CommitsInv
<1>6. GridInv'
  BY <1>2, <1>3 DEF GridInv
<1>7. LeaveInv'
  BY <1>2, InsertedGiven DEF DataInv, LeaveInv, HasInserted
<1> QED
  BY <1>2, <1>5, <1>6, <1>7 DEF DataInv, TableInv, PagesInv

\* Steps of the dialog that touch neither the tab nor the table.
LEMMA DialogMoves ==
  ASSUME DataInv, CommitsInv', \A a \in applies : a.done = "ok" => \E b \in applies' : b.done = "ok",
         UNCHANGED <<table, grid, pages, gestures, inserted>>
  PROVE  DataInv'
<1>1. LeaveInv'
  BY DEF DataInv, LeaveInv, HasInserted
<1> QED
  BY <1>1 DEF DataInv, TableInv, PagesInv, GridInv

LEMMA DataPreviews ==
  ASSUME DataInv, NEW p \in previews, NEW ok \in BOOLEAN, Data!PreviewAnswer(p, ok)
  PROVE  DataInv'
<1>1. IsCommit(p, gestures) /\ gestures' = gestures
  BY DEF Data!PreviewAnswer, DataInv, CommitsInv
<1>2. CommitsInv'
  <2>1. CASE ok
    <3>1. dialog' = [shown |-> TRUE, busy |-> FALSE, commit |-> p]
      BY <2>1 DEF Data!PreviewAnswer
    <3>2. /\ dialog' = [shown |-> TRUE, busy |-> dialog'.busy, commit |-> dialog'.commit]
          /\ dialog'.commit = p
      BY <3>1
    <3> QED
      BY <1>1, <3>2 DEF Data!PreviewAnswer, DataInv, CommitsInv
  <2>2. CASE ~ok
    BY <2>2 DEF Data!PreviewAnswer, DataInv, CommitsInv
  <2> QED
    BY <2>1, <2>2
<1> QED
  BY <1>2, DialogMoves DEF Data!PreviewAnswer

LEMMA DialogCloses ==
  ASSUME DataInv, Data!CloseDialog
  PROVE  DataInv'
<1>1. CommitsInv'
  BY DEF Data!CloseDialog, Data!NoDialog, DataInv, CommitsInv
<1> QED
  BY <1>1, DialogMoves DEF Data!CloseDialog

LEMMA DialogConfirms ==
  ASSUME DataInv, Data!Confirm
  PROVE  DataInv'
<1>1. /\ dialog = [shown |-> TRUE, busy |-> dialog.busy, commit |-> dialog.commit]
      /\ IsCommit(dialog.commit, gestures) /\ gestures' = gestures
  BY DEF Data!Confirm, DataInv, CommitsInv
<1>2. PICK a : a = [commit |-> dialog.commit, done |-> "no"]
  OBVIOUS
<1>3. applies' = applies \cup {a}
  BY <1>2 DEF Data!Confirm
<1>4. dialog' = [shown |-> TRUE, busy |-> dialog'.busy, commit |-> dialog'.commit] /\ dialog'.commit = dialog.commit
  BY <1>1 DEF Data!Confirm
<1>5. CommitsInv'
  BY <1>1, <1>2, <1>3, <1>4 DEF Data!Confirm, DataInv, CommitsInv
<1> QED
  BY <1>3, <1>5, DialogMoves DEF Data!Confirm

\* Each row of a commit gets a key of its rank, a free one if there are enough.
LEMMA FreshKeys ==
  ASSUME NEW ins, IsFiniteSet(ins), \A r \in ins : r.id \in Int,
         NEW free, free \subseteq 1..MaxKey, Cardinality(ins) <= Cardinality(free), NEW r \in ins
  PROVE  InOrder(free)[Cardinality({q \in ins : q.id > r.id}) + 1] \in free
<1>1. PICK after : after = {q \in ins : q.id > r.id}
  OBVIOUS
<1>2. after \in SUBSET ins /\ r \notin after
  BY <1>1
<1>3. /\ IsFiniteSet(after) /\ Cardinality(after) <= Cardinality(ins)
      /\ Cardinality(ins) = Cardinality(after) => ins = after
  BY <1>2, FS_Subset
<1>4. Cardinality(after) \in Nat /\ Cardinality(ins) \in Nat
  BY <1>3, FS_CardinalityType
<1>5. free \in SUBSET Nat /\ IsFiniteSet(free)
  <2>1. IsFiniteSet(1..MaxKey)
    BY WorkbenchAssumption, FS_Interval
  <2>2. free \in SUBSET (1..MaxKey)
    OBVIOUS
  <2>3. IsFiniteSet(free)
    BY <2>1, <2>2, FS_Subset
  <2> QED
    BY <2>2, <2>3
<1>6. Cardinality(free) \in Nat /\ InOrder(free) \in [1..Cardinality(free) -> free]
  BY <1>5, NumbersInOrder
<1>7. Cardinality(after) # Cardinality(ins)
  BY <1>2, <1>3
<1>8. PICK m \in Nat, n \in Nat : m = Cardinality(after) /\ n = Cardinality(free)
  BY <1>4, <1>6
<1>9. m + 1 \in 1..n
  BY <1>3, <1>4, <1>7, <1>8
<1> QED
  BY <1>1, <1>6, <1>8, <1>9

\* A table keeps some of its rows, with other values, and gets rows of a commit.
LEMMA TableChanged ==
  ASSUME TableInv, NEW left, left \subseteq DOMAIN table, NEW ins, NEW keys,
         \A r \in ins : keys[r] \in 1..MaxKey /\ r.val \in {0, 1},
         DOMAIN table' = left \cup {keys[r] : r \in ins},
         \A k \in left : table'[k] \in {0, 1},
         \A k \in DOMAIN table' \ left : \E r \in ins : table'[k] = r.val
  PROVE  TableInv'
<1>1. IsFiniteSet(DOMAIN table) /\ DOMAIN table \subseteq Nat \ {0}
  BY DEF TableInv
<1>2. IsFiniteSet(1..MaxKey) /\ 1..MaxKey \subseteq Nat \ {0}
  <2>1. 1 \in Int /\ MaxKey \in Int /\ MaxKey \in Nat
    BY WorkbenchAssumption
  <2>2. IsFiniteSet(1..MaxKey)
    BY <2>1, FS_Interval
  <2> QED
    BY <2>1, <2>2
<1>3. DOMAIN table' \in SUBSET (DOMAIN table \cup 1..MaxKey)
  OBVIOUS
<1>4. IsFiniteSet(DOMAIN table \cup 1..MaxKey)
  BY <1>1, <1>2, FS_Union
<1>5. IsFiniteSet(DOMAIN table')
  BY <1>3, <1>4, FS_Subset
<1>6. \A k \in DOMAIN table' : table'[k] \in {0, 1}
  OBVIOUS
<1> QED
  BY <1>1, <1>2, <1>3, <1>5, <1>6 DEF TableInv

LEMMA DataApplied ==
  ASSUME DataInv, NEW a \in applies, NEW ok \in BOOLEAN, Data!ServeApply(a, ok)
  PROVE  DataInv'
<1>1. PICK done : done = IF ok THEN "ok" ELSE "failed"
  OBVIOUS
<1>2. PICK new : new = [a EXCEPT !.done = done]
  OBVIOUS
<1>3. /\ applies' = (applies \ {a}) \cup {new} /\ a.done = "no"
      /\ UNCHANGED <<grid, pages, previews, dialog, gestures>>
  BY <1>1, <1>2 DEF Data!ServeApply
<1>4. a = [commit |-> a.commit, done |-> a.done] /\ IsCommit(a.commit, gestures)
  BY DEF DataInv, CommitsInv
<1>5. new = [commit |-> a.commit, done |-> done]
  BY <1>2, <1>4
<1>6. CommitsInv'
  BY <1>3, <1>4, <1>5 DEF DataInv, CommitsInv
<1>7. PagesInv' /\ GridInv' /\ gestures' \in Nat
  BY <1>3 DEF DataInv, PagesInv, GridInv
<1>8. \A b \in applies : b.done = "ok" => b \in applies'
  BY <1>3
<1>9. CASE ~ok
  <2>1. table' = table /\ inserted' = inserted
    BY <1>9 DEF Data!ServeApply
  <2>2. LeaveInv'
    BY <1>3, <1>8, <2>1 DEF DataInv, LeaveInv, HasInserted
  <2> QED
    BY <1>6, <1>7, <2>1, <2>2 DEF DataInv, TableInv
<1>10. CASE ok
  <2>1. PICK pay : pay = a.commit.payload
    OBVIOUS
  <2>2. PICK left : left = DOMAIN table \ pay.del
    OBVIOUS
  <2>3. PICK free : free = {k \in 1..MaxKey : k \notin DOMAIN table}
    OBVIOUS
  <2>4. PICK keys : keys = [r \in pay.ins |-> InOrder(free)[Cardinality({q \in pay.ins : q.id > r.id}) + 1]]
    OBVIOUS
  <2>5. /\ Cardinality(pay.ins) <= Cardinality(free) /\ inserted' = inserted \cup {r.id : r \in pay.ins}
    BY <1>10, <2>1, <2>3, DataLists DEF Data!ServeApply
  <2> DEFINE keyOf(r) == Data!InOrder({k \in 1..MaxKey : k \notin DOMAIN table})
                           [Data!Cardinality({q \in a.commit.payload.ins : q.id > r.id}) + 1]
             given(k) == CHOOSE r \in a.commit.payload.ins : keyOf(r) = k
             changed(k) == CHOOSE u \in a.commit.payload.upd : u.key = k
  <2>6. table' = [k \in (DOMAIN table \ a.commit.payload.del) \cup {keyOf(r) : r \in a.commit.payload.ins} |->
                    IF k \in DOMAIN table \ a.commit.payload.del
                    THEN IF \E u \in a.commit.payload.upd : u.key = k THEN changed(k).val ELSE table[k]
                    ELSE given(k).val]
    BY <1>10 DEF Data!ServeApply
  <2>7. /\ \A r \in pay.ins : keyOf(r) = keys[r]
        /\ \A k : \A r \in pay.ins : keyOf(r) = k => given(k) \in pay.ins
        /\ \A k : \A u \in pay.upd : u.key = k => changed(k) \in pay.upd
    BY <2>1, <2>3, <2>4, DataLists
  <2>8. /\ IsFiniteSet(pay.ins) /\ \A r \in pay.ins : IsGiven(r.id, gestures) /\ r.val \in {0, 1}
        /\ \A u \in pay.upd : u.val \in {0, 1}
    BY <1>4, <2>1 DEF IsCommit
  <2>9. \A r \in pay.ins : keys[r] \in 1..MaxKey
    <3>1. \A r \in pay.ins : r.id \in Int
      BY <2>8 DEF IsGiven
    <3>2. free \subseteq 1..MaxKey
      BY <2>3
    <3>3. \A r \in pay.ins : keys[r] \in free
      BY <2>4, <2>5, <2>8, <3>1, <3>2, FreshKeys
    <3> QED
      BY <3>2, <3>3
  <2> HIDE DEF keyOf, given, changed
  <2>10. DOMAIN table' = left \cup {keys[r] : r \in pay.ins}
    <3>1. {keyOf(r) : r \in pay.ins} = {keys[r] : r \in pay.ins}
      BY <2>7
    <3> QED
      BY <2>1, <2>2, <2>6, <3>1
  <2>11. TableInv'
    <3>1. ASSUME NEW k \in left PROVE table'[k] \in {0, 1}
      <4>1. table'[k] = IF \E u \in pay.upd : u.key = k THEN changed(k).val ELSE table[k]
        BY <2>1, <2>2, <2>6
      <4>2. table[k] \in {0, 1}
        BY <2>2 DEF DataInv, TableInv
      <4> QED
        BY <2>7, <2>8, <4>1, <4>2
    <3>2. ASSUME NEW k \in DOMAIN table' \ left PROVE \E r \in pay.ins : table'[k] = r.val
      <4>1. PICK r \in pay.ins : keyOf(r) = k
        BY <2>7, <2>10
      <4>2. given(k) \in pay.ins
        BY <2>7, <4>1
      <4>3. table'[k] = given(k).val
        BY <2>1, <2>2, <2>6
      <4> QED
        BY <4>2, <4>3
    <3>3. left \subseteq DOMAIN table
      BY <2>2
    <3>4. \A r \in pay.ins : keys[r] \in 1..MaxKey /\ r.val \in {0, 1}
      BY <2>8, <2>9
    <3> QED
      BY <2>10, <3>1, <3>2, <3>3, <3>4, TableChanged DEF DataInv
  <2>12. \E b \in applies' : b.done = "ok"
    BY <1>1, <1>3, <1>5, <1>10
  <2>13. LeaveInv'
    BY <1>3, <2>5, <2>8, <2>12 DEF DataInv, LeaveInv
  <2> QED
    BY <1>6, <1>7, <2>11, <2>13 DEF DataInv
<1> QED
  BY <1>9, <1>10

LEMMA DataAnswers ==
  ASSUME DataInv, NEW a \in applies, Data!ApplyAnswer(a)
  PROVE  DataInv'
<1>1. /\ applies' = applies \ {a} /\ UNCHANGED <<table, previews, gestures, inserted>>
  BY DEF Data!ApplyAnswer
<1>2. a.commit.offset \in Nat
  BY DEF DataInv, CommitsInv, IsCommit
<1>3. CASE a.done = "failed"
  <2>1. /\ UNCHANGED <<pages, grid>>
        /\ dialog' = IF dialog.shown THEN [dialog EXCEPT !.busy = FALSE] ELSE dialog
    BY <1>3 DEF Data!ApplyAnswer
  <2>2. CommitsInv'
    <3>1. CASE dialog.shown
      <4>1. dialog = [shown |-> TRUE, busy |-> dialog.busy, commit |-> dialog.commit]
        BY <3>1 DEF DataInv, CommitsInv
      <4>2. dialog' = [shown |-> TRUE, busy |-> dialog'.busy, commit |-> dialog'.commit] /\ dialog'.commit = dialog.commit
        BY <2>1, <3>1, <4>1
      <4> QED
        BY <1>1, <3>1, <4>2 DEF DataInv, CommitsInv
    <3>2. CASE ~dialog.shown
      BY <1>1, <2>1, <3>2 DEF DataInv, CommitsInv
    <3> QED
      BY <3>1, <3>2
  <2> QED
    BY <1>1, <1>3, <2>1, <2>2, DialogMoves
<1>4. CASE a.done = "ok"
  <2>1. /\ dialog' = Data!NoDialog /\ Data!RequestPage(a.commit.where, a.commit.offset)
        /\ Data!patchTab([status |-> "loading"])
    BY <1>4 DEF Data!ApplyAnswer
  <2>2. PagesInv' /\ pages' # {}
    BY <1>2, <2>1, PageRequested DEF DataInv
  <2>3. CommitsInv'
    BY <1>1, <2>1 DEF DataInv, CommitsInv, Data!NoDialog
  <2>4. GridInv'
    <3>1. CASE grid.open
      <4>1. IsGrid(grid, gestures)
        BY <3>1, OpenGrid
      <4>2. /\ IsDataTab(grid') /\ grid'.rows = grid.rows /\ grid'.where = grid.where
            /\ grid'.typed = grid.typed /\ grid'.offset = grid.offset /\ grid'.total = grid.total
        BY <2>1, <4>1, TabPatched DEF IsGrid, IsDataTab
      <4> QED
        BY <1>1, <4>1, <4>2 DEF GridInv, IsGrid
    <3>2. CASE ~grid.open
      <4>1. grid' = grid
        BY <2>1, <3>2 DEF Data!patchTab
      <4> QED
        BY <1>1, <4>1 DEF DataInv, GridInv
    <3> QED
      BY <3>1, <3>2
  <2>5. LeaveInv'
    BY <1>1, <2>2 DEF DataInv, LeaveInv
  <2> QED
    BY <1>1, <2>2, <2>3, <2>4, <2>5 DEF DataInv, TableInv
<1> QED
  BY <1>3, <1>4 DEF Data!ApplyAnswer

\* Every step of the data tab preserves its invariant.
LEMMA DataNext ==
  ASSUME DataInv, DataStep \/ UNCHANGED dataVars
  PROVE  DataInv'
<1>1. CASE UNCHANGED dataVars
  BY <1>1 DEF dataVars, DataInv, TableInv, PagesInv, CommitsInv, GridInv, LeaveInv, HasInserted
<1>2. CASE Data!Next
  <2>1. CASE Data!OpenTable
    BY <2>1, DataOpens
  <2>2. CASE Data!CloseTab
    BY <2>2, DataCloses
  <2>3. CASE Data!Refresh \/ Data!ApplyFilter
    BY <2>3, DataPages DEF Data!Refresh, Data!ApplyFilter, Data!Editing
  <2>4. CASE Data!OtherClient
    BY <2>4, DataAltered
  <2>5. CASE \E w \in Data!Filters : Data!TypeFilter(w)
    BY <2>5, DataTypes
  <2>6. CASE \E d \in {"first", "prev", "next", "last"} : grid.open /\ Data!changeDataPage(d)
    BY <2>6, DataPages
  <2>7. CASE Data!AddRow \/ Data!DeleteRows \/ Data!RestoreRows
    BY <2>7, DataAdds, DataDeletes, DataRestores
  <2>8. CASE grid.open /\ \E i, j \in DOMAIN grid.rows, append \in BOOLEAN : Data!SelectRange(i, j, append)
    BY <2>8, DataSelects
  <2>9. CASE grid.open /\ \E i \in DOMAIN grid.rows, v \in {0, 1} : Data!UpdateRow(i, v)
    BY <2>9, DataUpdates
  <2>10. CASE Data!Commit \/ Data!CloseDialog \/ Data!Confirm
    BY <2>10, DataCommits, DialogCloses, DialogConfirms
  <2>11. CASE \E n \in 1..MaxCalls : Data!PageStep(n)
    BY <2>11, PageServed, PageArrived, PageFailed DEF Data!PageStep
  <2>12. CASE Data!PreviewStep \/ Data!ApplyStep
    BY <2>12, DataPreviews, DataApplied, DataAnswers DEF Data!PreviewStep, Data!ApplyStep
  <2> QED
    BY <1>2, <2>1, <2>2, <2>3, <2>4, <2>5, <2>6, <2>7, <2>8, <2>9, <2>10, <2>11, <2>12, Zenon DEF Data!Next
<1> QED
  BY <1>1, <1>2 DEF DataStep

LEMMA DataHolds == DataInv => InsertedRowsLeave /\ PageMatchesFilter
<1> SUFFICES ASSUME DataInv PROVE InsertedRowsLeave /\ PageMatchesFilter
  OBVIOUS
<1>1. Data!InsertedRowsLeave
  <2> SUFFICES ASSUME grid.open, grid.status = "ready", pages = {}, applies = {}
               PROVE  ~HasInserted(grid.rows)
    BY DEF Data!InsertedRowsLeave, HasInserted
  <2> QED
    BY DEF DataInv, LeaveInv
<1>2. Data!PageMatchesFilter
  <2> SUFFICES ASSUME grid.open, ~grid.typed
        PROVE  /\ Cardinality(Loaded(grid.rows)) <= PageSize
               /\ \A i \in Loaded(grid.rows) : grid.where = "ones" => grid.rows[i].orig = 1
    BY DataLists DEF Data!PageMatchesFilter, Loaded
  <2> QED
    BY OpenGrid DEF IsGrid, OfFilter
<1> QED
  BY <1>1, <1>2 DEF InsertedRowsLeave, PageMatchesFilter

\* The invariant of the data tab holds in the window throughout.
LEMMA DataAlways == Spec => []DataInv
<1>1. Init => DataInv
  BY DataInit DEF Init
<1>2. DataInv /\ [Next]_vars => DataInv'
  BY DataNext, Interleaves
<1> QED
  BY <1>1, <1>2, PTL DEF Spec

\* A row the server has inserted does not stay in the grid as one still to be inserted
\* (InsertedRowsLeave).
THEOREM InsertedRowsAreReplaced == Spec => []InsertedRowsLeave
<1>1. DataInv => InsertedRowsLeave
  BY DataHolds
<1> QED
  BY <1>1, DataAlways, PTL

\* The rows shown are those of the filter and the page shown with them (PageMatchesFilter).
THEOREM PagesMatchTheirFilter == Spec => []PageMatchesFilter
<1>1. DataInv => PageMatchesFilter
  BY DataHolds
<1> QED
  BY <1>1, DataAlways, PTL

----------------------------------------------------------------------------
(* The console. *)

AnswerTo(run) == Console!ExecuteSql(run.sql, run.db, run.offset)
\* a result with columns is what its own statement, database and offset give
IsAnswer(r) == r.columns => Console!ExecuteSql(r.sql, r.db, r.offset) = r
\* what an export is about was shown, and asks for the same statement
IsOfTheResult(asked0) ==
  /\ asked0.sql = asked0.shownOf.sql
  /\ asked0.db = asked0.shownOf.db =>
       Console!ExecuteSql(asked0.sql, asked0.db, asked0.shownOf.offset) = asked0.shownOf

\* a statement on its way alone is the last one, and it is what the console ends with
LastRunCounts ==
  ~crossed =>
    /\ \A r, s \in runs : r = s
    /\ \A r \in runs : AnswerTo(r.run) = lastRun
    /\ runs = {} /\ console.status = "ready" /\ console.result.sql # "" => console.result = lastRun
IsTab(v) == v = [sql |-> v.sql, db |-> v.db, status |-> v.status, result |-> v.result,
                 selected |-> v.selected]
ConsoleInv ==
  /\ IsTab(console) /\ crossed \in BOOLEAN
  /\ LastRunCounts /\ IsAnswer(console.result)
  /\ exportDialog.shown /\ exportDialog.kind = "query_result" => IsOfTheResult(exportDialog.query)
  /\ \A d \in exports : d.kind = "query_result" => IsOfTheResult(d.query)
  /\ file.kind = "query_result" => IsOfTheResult(file.query)

\* A page of a query is the page of that query, and a statement has no columns.
LEMMA AnswersAreTheirOwn ==
  ASSUME NEW sql, NEW db, NEW offset
  PROVE  /\ IsAnswer(Console!ExecuteSql(sql, db, offset))
         /\ Console!ExecuteSql(sql, db, offset).sql = sql
<1>1. CASE sql = "ddl"
  BY <1>1 DEF IsAnswer, Console!ExecuteSql
<1>2. CASE sql # "ddl"
  BY <1>2 DEF IsAnswer, Console!ExecuteSql
<1> QED
  BY <1>1, <1>2

\* The console opens.
LEMMA ConsoleInit == Console!Init => ConsoleInv
<1> SUFFICES ASSUME Console!Init PROVE ConsoleInv
  OBVIOUS
<1>1. IsTab(console) /\ console.status = "ready" /\ console.result.sql = "" /\ ~console.result.columns
  BY DEF Console!Init, IsTab, Console!Opened, Console!Idle
<1>2. ~exportDialog.shown /\ exports = {} /\ file.kind # "query_result" /\ runs = {} /\ crossed = FALSE
  BY DEF Console!Init, Console!NoDialog, Console!NoFile
<1> QED
  BY <1>1, <1>2 DEF ConsoleInv, LastRunCounts, IsAnswer

\* The tab is a record of its fields.
LEMMA ConsoleIsTab == ConsoleInv => IsTab(console)
BY DEF ConsoleInv

\* The editor, the default database and the marked rows: no statement is sent.
LEMMA ConsoleEdits ==
  ASSUME ConsoleInv,
         \/ Console!openConsoleTab \/ Console!selectConsoleRowsRange
         \/ \E sql \in Console!Statements : Console!updateConsoleSql(sql)
         \/ \E db \in Console!ConsoleDatabases : Console!updateConsoleDatabase(db)
  PROVE  ConsoleInv'
<1>1. UNCHANGED <<runs, exportDialog, exports, file, lastRun, crossed>>
  BY DEF Console!openConsoleTab, Console!selectConsoleRowsRange, Console!updateConsoleSql,
    Console!updateConsoleDatabase
<1>2. ASSUME IsTab(console'), IsAnswer(console'.result),
             \/ console'.status = console.status /\ console'.result = console.result
             \/ console'.result.sql = ""
      PROVE  ConsoleInv'
  BY <1>1, <1>2 DEF ConsoleInv, LastRunCounts
<1>3. CASE Console!openConsoleTab
  <2>1. IsTab(console') /\ console'.result.sql = "" /\ ~console'.result.columns
    BY <1>3 DEF Console!openConsoleTab, IsTab, Console!Opened, Console!Idle
  <2> QED
    BY <1>2, <2>1 DEF IsAnswer
<1>4. CASE Console!selectConsoleRowsRange
  <2>1. console' = [console EXCEPT !.selected = TRUE]
    BY <1>4 DEF Console!selectConsoleRowsRange
  <2>2. IsTab(console') /\ console'.status = console.status /\ console'.result = console.result
    BY <2>1, ConsoleIsTab DEF IsTab
  <2> QED
    BY <1>2, <2>2 DEF ConsoleInv
<1>5. CASE \E sql \in Console!Statements : Console!updateConsoleSql(sql)
  <2>1. PICK x : console' = [console EXCEPT !.sql = x]
    BY <1>5 DEF Console!updateConsoleSql
  <2>2. IsTab(console') /\ console'.status = console.status /\ console'.result = console.result
    BY <2>1, ConsoleIsTab DEF IsTab
  <2> QED
    BY <1>2, <2>2 DEF ConsoleInv
<1>6. CASE \E db \in Console!ConsoleDatabases : Console!updateConsoleDatabase(db)
  <2>1. PICK x : console' = [console EXCEPT !.db = x]
    BY <1>6 DEF Console!updateConsoleDatabase
  <2>2. IsTab(console') /\ console'.status = console.status /\ console'.result = console.result
    BY <2>1, ConsoleIsTab DEF IsTab
  <2> QED
    BY <1>2, <2>2 DEF ConsoleInv
<1> QED
  BY <1>3, <1>4, <1>5, <1>6

\* A statement is sent, from the editor or by the pager.
LEMMA ConsoleRuns ==
  ASSUME ConsoleInv, NEW offset, Console!runConsoleSql(offset)
  PROVE  ConsoleInv'
<1> DEFINE run == [sql |-> console.sql, db |-> console.db, offset |-> offset]
<1>1. PICK n : runs' = runs \cup {[n |-> n, run |-> run]}
  BY DEF Console!runConsoleSql
<1>2. lastRun' = AnswerTo(run) /\ crossed' = (runs # {})
  BY DEF Console!runConsoleSql, AnswerTo
<1>3. /\ console' = [console EXCEPT !.status = "loading"]
      /\ UNCHANGED <<exportDialog, exports, file>>
  BY DEF Console!runConsoleSql
<1>4. IsTab(console') /\ console'.status = "loading" /\ console'.result = console.result
  BY <1>3, ConsoleIsTab DEF IsTab
<1> HIDE DEF run
<1>5. crossed' \in BOOLEAN /\ (~crossed' => runs = {})
  BY <1>2
<1>6. LastRunCounts'
  <2>1. ~crossed' => runs' = {[n |-> n, run |-> run]}
    BY <1>1, <1>5
  <2>2. ~crossed' => \A r, s \in runs' : r = s
    BY <2>1
  <2>3. ~crossed' => \A r \in runs' : AnswerTo(r.run) = lastRun'
    BY <1>2, <2>1
  <2>4. runs' # {}
    BY <1>1
  <2> QED
    BY <2>2, <2>3, <2>4 DEF LastRunCounts, AnswerTo
<1> QED
  BY <1>3, <1>4, <1>5, <1>6 DEF ConsoleInv

\* The answer of a statement, or its error.
LEMMA ConsoleAnswers ==
  ASSUME ConsoleInv, NEW r \in runs, Console!RunAnswer(r)
  PROVE  ConsoleInv'
<1>1. runs' = runs \ {r} /\ UNCHANGED <<exportDialog, exports, file, lastRun, crossed>>
  BY DEF Console!RunAnswer
<1>2. CASE /\ r.run.sql # ""
           /\ console' = [console EXCEPT !.status = "ready", !.selected = FALSE,
                               !.result = AnswerTo(r.run)]
  <2>1. IsTab(console') /\ console'.result = AnswerTo(r.run)
    BY <1>2, ConsoleIsTab DEF IsTab
  <2>2. IsAnswer(AnswerTo(r.run))
    BY AnswersAreTheirOwn DEF AnswerTo
  <2>3. LastRunCounts'
    BY <1>1, <2>1 DEF ConsoleInv, LastRunCounts
  <2> QED
    BY <1>1, <2>1, <2>2, <2>3 DEF ConsoleInv
<1>3. CASE console' = [console EXCEPT !.status = "error"]
  <2>1. IsTab(console') /\ console'.status = "error" /\ console'.result = console.result
    BY <1>3, ConsoleIsTab DEF IsTab
  <2> QED
    BY <1>1, <2>1 DEF ConsoleInv, LastRunCounts
<1> QED
  BY <1>2, <1>3 DEF Console!RunAnswer, AnswerTo

\* The export dialog opens, changes, closes, and its export runs.
LEMMA ConsoleExports ==
  ASSUME ConsoleInv,
         \/ Console!openQueryResultExportDialog \/ Console!openTableExportDialog
         \/ \E chosen, deleted : Console!openDataExportDialog({1, 2}, chosen, deleted)
         \/ \E scope : Console!updateExportDialogScope(scope)
         \/ Console!closeExportDialog \/ Console!confirmExportDialog \/ Console!ExportStep
  PROVE  ConsoleInv'
<1>1. UNCHANGED <<console, runs, lastRun, crossed>>
  BY DEF Console!openQueryResultExportDialog, Console!openTableExportDialog,
    Console!openDataExportDialog, Console!updateExportDialogScope, Console!closeExportDialog,
    Console!confirmExportDialog, Console!ExportStep, Console!ExportAnswer
<1> DEFINE About(d) == d.kind = "query_result" => IsOfTheResult(d.query)
<1>2. ASSUME exportDialog'.shown => About(exportDialog'), \A d \in exports' : About(d),
             About(file')
      PROVE  ConsoleInv'
  BY <1>1, <1>2 DEF ConsoleInv, LastRunCounts
<1>3. /\ exportDialog.shown => About(exportDialog)
      /\ \A d \in exports : About(d)
      /\ About(file) /\ IsAnswer(console.result)
  BY DEF ConsoleInv
<1>4. ASSUME NEW kind, NEW scope, NEW rows, NEW selected, NEW asked0
      PROVE  LET d == Console!Dialog(kind, scope, rows, selected, asked0)
             IN d.kind = kind /\ d.query = asked0
  BY DEF Console!Dialog
<1>5. CASE Console!openQueryResultExportDialog
  <2> DEFINE r == console.result
             q == [shownOf |-> r, sql |-> r.sql, db |-> console.db]
  <2>1. PICK scope, selected :
          exportDialog' = Console!Dialog("query_result", scope, 1..r.rows, selected, q)
    BY <1>5 DEF Console!openQueryResultExportDialog
  <2>2. r.columns /\ UNCHANGED <<exports, file>>
    BY <1>5 DEF Console!openQueryResultExportDialog
  <2>3. exportDialog'.query = q
    BY <1>4, <2>1
  <2>4. IsOfTheResult(q)
    BY <1>3, <2>2 DEF IsOfTheResult, IsAnswer
  <2> HIDE DEF q
  <2> QED
    BY <1>2, <1>3, <2>2, <2>3, <2>4
<1>6. CASE \/ Console!openTableExportDialog
           \/ \E chosen, deleted : Console!openDataExportDialog({1, 2}, chosen, deleted)
  <2>1. /\ UNCHANGED <<exports, file>>
        /\ \E scope, rows, selected, q :
             exportDialog' = Console!Dialog("table_data", scope, rows, selected, q)
    BY <1>6 DEF Console!openTableExportDialog, Console!openDataExportDialog
  <2>2. exportDialog'.kind = "table_data"
    BY <1>4, <2>1
  <2> QED
    BY <1>2, <1>3, <2>1, <2>2
<1>7. CASE \E scope : Console!updateExportDialogScope(scope)
  <2>1. PICK scope : exportDialog' = [exportDialog EXCEPT !.scope = scope]
    BY <1>7 DEF Console!updateExportDialogScope
  <2>2. exportDialog.shown /\ UNCHANGED <<exports, file>>
    BY <1>7 DEF Console!updateExportDialogScope
  <2>3. exportDialog'.kind = exportDialog.kind /\ exportDialog'.query = exportDialog.query
    BY <2>1
  <2> QED
    BY <1>2, <1>3, <2>2, <2>3
<1>8. CASE Console!closeExportDialog
  BY <1>2, <1>3, <1>8 DEF Console!closeExportDialog, Console!NoDialog
<1>9. CASE Console!confirmExportDialog
  <2>1. /\ exportDialog' = [exportDialog EXCEPT !.busy = TRUE] /\ exportDialog.shown
        /\ exports' = exports \cup {exportDialog} /\ UNCHANGED file
    BY <1>9 DEF Console!confirmExportDialog
  <2>2. exportDialog'.kind = exportDialog.kind /\ exportDialog'.query = exportDialog.query
    BY <2>1
  <2> QED
    BY <1>2, <1>3, <2>1, <2>2
<1>10. ASSUME NEW d \in exports, Console!ExportAnswer(d)
       PROVE  ConsoleInv'
  <2>1. exports' = exports \ {d}
    BY <1>10 DEF Console!ExportAnswer
  <2>2. CASE exportDialog' = Console!NoDialog /\ file' = Console!Written(d)
    <3>1. ~exportDialog'.shown
      BY <2>2 DEF Console!NoDialog
    <3>2. file'.kind = d.kind /\ file'.query = d.query
      BY <2>2 DEF Console!Written
    <3> QED
      BY <1>2, <1>3, <2>1, <3>1, <3>2
  <2>3. CASE /\ exportDialog' = IF exportDialog.shown THEN [exportDialog EXCEPT !.busy = FALSE]
                               ELSE exportDialog
             /\ UNCHANGED file
    <3>1. /\ exportDialog'.kind = exportDialog.kind /\ exportDialog'.query = exportDialog.query
          /\ exportDialog'.shown = exportDialog.shown
      BY <2>3
    <3> QED
      BY <1>2, <1>3, <2>1, <2>3, <3>1
  <2> QED
    BY <1>10, <2>2, <2>3 DEF Console!ExportAnswer
<1> QED
  BY <1>5, <1>6, <1>7, <1>8, <1>9, <1>10 DEF Console!ExportStep

\* Every step of the console, and every step beside it, preserves the invariant.
LEMMA ConsoleNext ==
  ASSUME ConsoleInv, ConsoleStep \/ UNCHANGED consoleVars
  PROVE  ConsoleInv'
<1>1. CASE UNCHANGED consoleVars
  BY <1>1 DEF consoleVars, ConsoleInv, LastRunCounts
<1>2. CASE Console!Next
  <2>1. CASE Console!Run \/ \E d \in {"first", "prev", "next", "last"} : Console!changeConsolePage(d)
    BY <2>1, ConsoleRuns DEF Console!Run, Console!changeConsolePage
  <2>2. CASE \E n \in 1..MaxRuns : Console!RunStep(n)
    BY <2>2, ConsoleAnswers DEF Console!RunStep
  <2> QED
    BY <1>2, <2>1, <2>2, ConsoleEdits, ConsoleExports DEF Console!Next
<1> QED
  BY <1>1, <1>2 DEF ConsoleStep

\* The console shows the page its last run asked for, and an export is of what was shown
\* (ShowsTheLastRun).
THEOREM ConsoleShowsTheLastRun == Spec => []ShowsTheLastRun
<1>1. Init => ConsoleInv
  BY ConsoleInit DEF Init
<1>2. ConsoleInv /\ [Next]_vars => ConsoleInv'
  BY ConsoleNext, Interleaves
<1>3. ConsoleInv => ShowsTheLastRun
  BY DEF ConsoleInv, LastRunCounts, IsOfTheResult, ShowsTheLastRun, Console!ShowsTheLastRun,
    Console!ExportIsOfTheResultShown
<1> QED
  BY <1>1, <1>2, <1>3, PTL DEF Spec

----------------------------------------------------------------------------
(* The caches of a data source. *)

\* versions a cache can hold, and a load or a statement can have read or made
SchemaVersion(d) == 0..schema[d]
NoVersion == -1
IsLoad(l) ==
  /\ l = [n |-> l.n, kind |-> l.kind, db |-> l.db, read |-> l.read]
  /\ l.db \in Databases /\ l.read \in SchemaVersion(l.db) \cup {NoVersion}
IsStatement(s) ==
  /\ s = [db |-> s.db, kind |-> s.kind, version |-> s.version]
  /\ s.db \in Databases /\ s.version \in SchemaVersion(s.db) \cup {NoVersion}

CachesTypes ==
  /\ schema \in [Databases -> Nat] /\ own \in [Databases -> Nat]
  /\ \A d \in Databases : own[d] <= schema[d]
  /\ tables \in [Databases -> Int] /\ completion \in [Databases -> Int]
  /\ DOMAIN tableRef = Databases /\ DOMAIN completionRef = Databases
  /\ \A l \in loads : IsLoad(l)
  /\ \A s \in statements : IsStatement(s)
WarmTypes ==
  /\ warm = [on |-> warm.on, due |-> warm.due, todo |-> warm.todo, waiting |-> warm.waiting]
  /\ warm.todo \subseteq Databases

OnItsWay(n, kind, d) == \E l \in loads : l.n = n /\ l.kind = kind /\ l.db = d
\* what is registered is on its way
Registrations ==
  \A d \in Databases :
    /\ tableRef[d] # 0 => OnItsWay(tableRef[d], "tables", d)
    /\ completionRef[d] # 0 => OnItsWay(completionRef[d], "completion", d)

\* what is cached of a database, or read and on its way, is not older than its last own DDL
NotOlder ==
  \A d \in Databases \ overtaken :
    /\ tables[d] # NoVersion => own[d] <= tables[d]
    /\ completion[d] # NoVersion => own[d] <= completion[d]
    /\ \A l \in loads : l.db = d /\ l.read # NoVersion => own[d] <= l.read

\* the search still has a database to load, or loads it, or it is done with it
Reached(d) ==
  \/ tables[d] # NoVersion \/ d \in failed \/ d \in warm.todo
  \/ \E l \in loads : l.kind = "tables" /\ l.db = d
SearchReaches == warm.on /\ listed /\ ~warm.due => \A d \in Databases : Reached(d)

CachesInv == CachesTypes /\ WarmTypes /\ Registrations /\ NotOlder /\ SearchReaches

\* The first database in order of a set of databases is one of them.
LEMMA FirstIsMember ==
  ASSUME NEW S \in SUBSET Databases, S # {}
  PROVE  Caches!Min(S) \in S
<1>1. \E x \in S : \A y \in S : ~(<<y, x>> \in OpToRel(<, Nat))
  BY WorkbenchAssumption, NatLessThanWellFounded, WFMin, Zenon
<1>2. PICK x \in S : \A y \in S : ~(<<y, x>> \in OpToRel(<, Nat))
  BY <1>1
<1>3. x \in Nat /\ \A y \in S : y \in Nat
  BY WorkbenchAssumption
<1>4. \A y \in S : ~(y < x)
  BY <1>2, <1>3 DEF OpToRel
<1>5. \A y \in S : x <= y
  BY <1>3, <1>4
<1> QED
  BY <1>5 DEF Caches!Min

LEMMA CachesInit == Caches!Init => CachesInv
BY DEF Caches!Init, Caches!Absent, Caches!NoLoad, CachesInv, CachesTypes, WarmTypes, Registrations,
  NotOlder, SearchReaches, NoVersion

\* The tree, the search or a console asks for a load.
LEMMA CachesAsk ==
  ASSUME CachesInv, NEW d \in Databases,
         \/ Caches!ensureTablesLoaded(d) \/ Caches!RefreshTables(d)
         \/ Caches!ensureSqlAutocompleteLoaded(d)
  PROVE  CachesInv'
<1>1. /\ UNCHANGED <<schema, listed, tables, completion, statements, warm, own, overtaken, failed>>
      /\ \E n, kind : /\ loads' = loads \cup {Caches!Load(n, kind, d)}
                      /\ \/ /\ kind = "tables" /\ tableRef' = [tableRef EXCEPT ![d] = n]
                            /\ UNCHANGED completionRef
                         \/ /\ kind = "completion" /\ UNCHANGED tableRef
                            /\ completionRef' = [completionRef EXCEPT ![d] = n]
  BY DEF Caches!ensureTablesLoaded, Caches!RefreshTables, Caches!ensureSqlAutocompleteLoaded,
    Caches!RequestTables
<1>2. PICK n, kind : /\ loads' = loads \cup {Caches!Load(n, kind, d)}
                     /\ \/ /\ kind = "tables" /\ tableRef' = [tableRef EXCEPT ![d] = n]
                           /\ UNCHANGED completionRef
                        \/ /\ kind = "completion" /\ UNCHANGED tableRef
                           /\ completionRef' = [completionRef EXCEPT ![d] = n]
  BY <1>1
<1> DEFINE l == Caches!Load(n, kind, d)
<1>3. /\ l.n = n /\ l.kind = kind /\ l.db = d /\ l.read = NoVersion /\ IsLoad(l)
      /\ loads' = loads \cup {l}
  BY <1>2 DEF Caches!Load, Caches!NotRead, NoVersion, IsLoad
<1> HIDE DEF l
<1>4. CachesTypes' /\ WarmTypes'
  BY <1>1, <1>2, <1>3 DEF CachesInv, CachesTypes, WarmTypes, IsLoad, IsStatement, SchemaVersion
<1>5. Registrations'
  BY <1>2, <1>3 DEF CachesInv, CachesTypes, Registrations, OnItsWay
<1>6. NotOlder'
  BY <1>1, <1>2, <1>3 DEF CachesInv, NotOlder
<1>7. SearchReaches'
  BY <1>1, <1>2 DEF CachesInv, SearchReaches, Reached
<1> QED
  BY <1>4, <1>5, <1>6, <1>7, Zenon DEF CachesInv

\* The server executes a load.
LEMMA CachesServe ==
  ASSUME CachesInv, NEW l \in loads, Caches!ServeLoad(l)
  PROVE  CachesInv'
<1> DEFINE m == [l EXCEPT !.read = schema[l.db]]
<1>1. /\ l.read = NoVersion /\ loads' = (loads \ {l}) \cup {m}
      /\ UNCHANGED <<schema, listed, tables, completion, tableRef, completionRef, statements,
                     warm, own, overtaken, failed>>
  BY DEF Caches!ServeLoad, Caches!NotRead, NoVersion
<1>2. /\ m.n = l.n /\ m.kind = l.kind /\ m.db = l.db /\ m.read = schema[l.db]
      /\ m.db \in Databases /\ IsLoad(m)
  BY DEF CachesInv, CachesTypes, IsLoad, SchemaVersion
<1> HIDE DEF m
<1>3. CachesTypes' /\ WarmTypes'
  BY <1>1, <1>2 DEF CachesInv, CachesTypes, WarmTypes, IsLoad, IsStatement, SchemaVersion
<1>4. Registrations'
  BY <1>1, <1>2 DEF CachesInv, Registrations, OnItsWay
<1>5. NotOlder'
  BY <1>1, <1>2 DEF CachesInv, CachesTypes, NotOlder
<1>6. SearchReaches'
  BY <1>1, <1>2 DEF CachesInv, SearchReaches, Reached
<1> QED
  BY <1>3, <1>4, <1>5, <1>6, Zenon DEF CachesInv

\* A load is answered, or fails.
LEMMA CachesAnswer ==
  ASSUME CachesInv, NEW l \in loads, NEW ok \in BOOLEAN,
         Caches!TablesAnswer(l, ok) \/ Caches!CompletionAnswer(l, ok)
  PROVE  CachesInv'
<1>1. /\ loads' = loads \ {l} /\ l.read # NoVersion
      /\ UNCHANGED <<schema, listed, statements, own, overtaken>>
  BY DEF Caches!TablesAnswer, Caches!CompletionAnswer, Caches!NotRead, NoVersion
<1>2. l.db \in Databases /\ l.read \in Int /\ l.read >= 0
  BY <1>1 DEF CachesInv, CachesTypes, IsLoad, SchemaVersion, NoVersion
<1>3. CASE Caches!TablesAnswer(l, ok)
  <2>1. /\ l.kind = "tables" /\ tableRef' = [tableRef EXCEPT ![l.db] = 0]
        /\ UNCHANGED <<completion, completionRef>>
        /\ \/ /\ tables' = [tables EXCEPT ![l.db] = l.read] /\ failed' = failed \ {l.db}
              /\ warm' = [warm EXCEPT !.due = TRUE]
           \/ failed' = failed \cup {l.db} /\ UNCHANGED <<tables, warm>>
    BY <1>3 DEF Caches!TablesAnswer, Caches!NoLoad
  <2>2. WarmTypes'
    BY <2>1 DEF CachesInv, WarmTypes
  <2>3. CachesTypes'
    BY <1>1, <1>2, <2>1 DEF CachesInv, CachesTypes, IsLoad, IsStatement, SchemaVersion
  <2>4. Registrations'
    BY <1>1, <2>1 DEF CachesInv, CachesTypes, Registrations, OnItsWay
  <2>5. NotOlder'
    BY <1>1, <1>2, <2>1 DEF CachesInv, CachesTypes, NotOlder
  <2>6. SearchReaches'
    <3>1. CASE warm' = [warm EXCEPT !.due = TRUE]
      BY <3>1 DEF CachesInv, WarmTypes, SearchReaches
    <3>2. CASE failed' = failed \cup {l.db} /\ UNCHANGED <<tables, warm>>
      BY <3>2, <1>1 DEF CachesInv, SearchReaches, Reached
    <3> QED
      BY <2>1, <3>1, <3>2
  <2> QED
    BY <2>2, <2>3, <2>4, <2>5, <2>6, Zenon DEF CachesInv
<1>4. CASE Caches!CompletionAnswer(l, ok)
  <2>1. /\ l.kind = "completion" /\ completionRef' = [completionRef EXCEPT ![l.db] = 0]
        /\ UNCHANGED <<tables, tableRef, warm, failed>>
        /\ \/ completion' = [completion EXCEPT ![l.db] = l.read] \/ UNCHANGED completion
    BY <1>4 DEF Caches!CompletionAnswer, Caches!NoLoad
  <2>2. CachesTypes' /\ WarmTypes'
    BY <1>1, <1>2, <2>1 DEF CachesInv, CachesTypes, WarmTypes, IsLoad, IsStatement, SchemaVersion
  <2>3. Registrations'
    BY <1>1, <2>1 DEF CachesInv, CachesTypes, Registrations, OnItsWay
  <2>4. NotOlder'
    BY <1>1, <1>2, <2>1 DEF CachesInv, CachesTypes, NotOlder
  <2>5. SearchReaches'
    BY <1>1, <2>1 DEF CachesInv, SearchReaches, Reached
  <2> QED
    BY <2>2, <2>3, <2>4, <2>5, Zenon DEF CachesInv
<1> QED
  BY <1>3, <1>4

\* Entries expire, a statement is sent, the data source is saved, its databases are listed, the
\* search is opened or closed: nothing is cached.
LEMMA CachesForget ==
  ASSUME CachesInv,
         \/ \E d \in Databases : Caches!Expire(d)
         \/ \E d \in Databases, kind \in {"table", "database"} : Caches!RunDdl(d, kind)
         \/ Caches!DropExpired \/ Caches!ProfileSaved \/ Caches!ListLoaded
         \/ \E on \in BOOLEAN : Caches!SetSearch(on)
  PROVE  CachesInv'
<1> USE DEF NoVersion
<1>1. UNCHANGED <<schema, loads, own, overtaken, failed>>
  BY DEF Caches!Expire, Caches!RunDdl, Caches!DropExpired, Caches!ProfileSaved, Caches!ListLoaded,
    Caches!SetSearch, Caches!clearProfileCaches
<1>2. \/ UNCHANGED <<listed, tables, warm>>
      \/ /\ warm'.due = TRUE /\ warm'.todo = warm.todo
         /\ warm' = [on |-> warm'.on, due |-> warm'.due, todo |-> warm'.todo,
                     waiting |-> warm'.waiting]
  BY DEF Caches!Expire, Caches!RunDdl, Caches!DropExpired, Caches!ProfileSaved, Caches!ListLoaded,
    Caches!SetSearch, Caches!clearProfileCaches, Caches!clearTablesCache, CachesInv, WarmTypes
<1>3. /\ tables' \in [Databases -> Int] /\ completion' \in [Databases -> Int]
      /\ \A d \in Databases : /\ tables'[d] \in {tables[d], NoVersion}
                              /\ completion'[d] \in {completion[d], NoVersion}
  <2>1. \/ UNCHANGED tables
        \/ tables' = [d \in Databases |-> NoVersion]
    BY DEF Caches!Expire, Caches!RunDdl, Caches!DropExpired, Caches!ProfileSaved,
      Caches!ListLoaded, Caches!SetSearch, Caches!clearProfileCaches, Caches!clearTablesCache,
      Caches!Absent
  <2>2. \/ UNCHANGED completion
        \/ completion' = [d \in Databases |-> NoVersion]
        \/ completion' = [d \in Databases |-> IF d \in expired THEN NoVersion ELSE completion[d]]
    BY DEF Caches!Expire, Caches!RunDdl, Caches!DropExpired, Caches!ProfileSaved,
      Caches!ListLoaded, Caches!SetSearch, Caches!clearProfileCaches,
      Caches!clearSqlAutocompleteCache, Caches!Absent
  <2> QED
    BY <2>1, <2>2 DEF CachesInv, CachesTypes
<1>4. /\ DOMAIN tableRef' = Databases /\ DOMAIN completionRef' = Databases
      /\ \A d \in Databases : /\ tableRef'[d] \in {tableRef[d], 0}
                              /\ completionRef'[d] \in {completionRef[d], 0}
  BY DEF Caches!Expire, Caches!RunDdl, Caches!DropExpired, Caches!ProfileSaved, Caches!ListLoaded,
    Caches!SetSearch, Caches!clearProfileCaches, Caches!Unregistered, Caches!NoLoad, CachesInv,
    CachesTypes
<1>5. \A s \in statements' : IsStatement(s)
  <2>1. \/ UNCHANGED statements
        \/ \E d \in Databases, kind \in {"table", "database"} :
             statements' = statements \cup {[db |-> d, kind |-> kind, version |-> NoVersion]}
    BY DEF Caches!Expire, Caches!RunDdl, Caches!DropExpired, Caches!ProfileSaved,
      Caches!ListLoaded, Caches!SetSearch, Caches!NotRead
  <2> QED
    BY <2>1 DEF CachesInv, CachesTypes, IsStatement, SchemaVersion
<1>6. CachesTypes'
  <2>1. (\A l \in loads : IsLoad(l))' /\ (\A s \in statements : IsStatement(s))'
    BY <1>1, <1>5 DEF CachesInv, CachesTypes, IsLoad, IsStatement, SchemaVersion
  <2> QED
    BY <1>1, <1>3, <1>4, <2>1 DEF CachesInv, CachesTypes
<1>7. WarmTypes'
  BY <1>2 DEF CachesInv, WarmTypes
<1>8. Registrations'
  BY <1>1, <1>4 DEF CachesInv, Registrations, OnItsWay
<1>9. NotOlder'
  BY <1>1, <1>3 DEF CachesInv, NotOlder
<1>10. SearchReaches'
  BY <1>1, <1>2 DEF CachesInv, SearchReaches, Reached
<1> QED
  BY <1>6, <1>7, <1>8, <1>9, <1>10, Zenon DEF CachesInv

\* The server executes a statement.
LEMMA CachesAlter ==
  ASSUME CachesInv, NEW s \in statements, Caches!ServeDdl(s)
  PROVE  CachesInv'
<1>1. PICK t :
      /\ t = [s EXCEPT !.version = schema[s.db] + 1]
      /\ schema' = [schema EXCEPT ![s.db] = @ + 1] /\ statements' = (statements \ {s}) \cup {t}
      /\ UNCHANGED <<listed, tables, completion, tableRef, completionRef, loads, warm, own,
                     overtaken, failed>>
  BY DEF Caches!ServeDdl
<1>2. s.db \in Databases /\ IsStatement(s)
  BY DEF CachesInv, CachesTypes, IsStatement
<1>3. /\ schema' \in [Databases -> Nat] /\ schema'[s.db] = schema[s.db] + 1
      /\ \A d \in Databases : schema[d] \in Nat /\ schema'[d] \in Nat /\ schema[d] <= schema'[d]
  BY <1>1, <1>2 DEF CachesInv, CachesTypes
<1>4. t = [db |-> t.db, kind |-> t.kind, version |-> t.version] /\ t.db = s.db /\ t.version = schema'[s.db]
  BY <1>1, <1>2, <1>3 DEF IsStatement
<1>5. \A d \in Databases : SchemaVersion(d) \subseteq SchemaVersion(d)'
  BY <1>3 DEF SchemaVersion
<1>6. (\A l \in loads : IsLoad(l))'
  BY <1>1, <1>5 DEF CachesInv, CachesTypes, IsLoad
<1>7. (\A x \in statements : IsStatement(x))'
  <2>1. IsStatement(t)'
    BY <1>2, <1>3, <1>4 DEF IsStatement, SchemaVersion
  <2>2. \A x \in statements : IsStatement(x)'
    BY <1>5 DEF CachesInv, CachesTypes, IsStatement
  <2> QED
    BY <1>1, <2>1, <2>2
<1>8. CachesTypes'
  BY <1>1, <1>3, <1>6, <1>7 DEF CachesInv, CachesTypes
<1> QED
  BY <1>1, <1>8 DEF CachesInv, WarmTypes, Registrations, OnItsWay, NotOlder, SearchReaches, Reached

\* A statement is answered: what it affects is forgotten and, by force, loaded again.
LEMMA CachesRefresh ==
  ASSUME CachesInv, NEW s \in statements, Caches!DdlAnswer(s)
  PROVE  CachesInv'
<1> USE DEF NoVersion
<1>1. /\ s.version # NoVersion /\ statements' = statements \ {s}
      /\ own' = [own EXCEPT ![s.db] = s.version]
      /\ overtaken' = IF \E l \in loads : l.db = s.db /\ l.read \in 0..(s.version - 1)
                      THEN overtaken \cup {s.db} ELSE overtaken
      /\ UNCHANGED <<schema, failed>>
  BY DEF Caches!DdlAnswer, Caches!Remembered, Caches!NotRead
<1>2. s.db \in Databases /\ s.version \in Nat /\ s.version <= schema[s.db]
  BY <1>1 DEF CachesInv, CachesTypes, IsStatement, SchemaVersion
<1>3. /\ own' \in [Databases -> Nat] /\ own'[s.db] = s.version
      /\ \A d \in Databases : own'[d] <= schema[d] /\ (d # s.db => own'[d] = own[d])
  BY <1>1, <1>2 DEF CachesInv, CachesTypes
<1>4. /\ overtaken \subseteq overtaken'
      /\ s.db \notin overtaken' =>
           \A l \in loads : l.db = s.db /\ l.read # NoVersion => s.version <= l.read
  BY <1>1, <1>2 DEF CachesInv, CachesTypes, IsLoad, SchemaVersion
<1>5. CASE Caches!clearProfileCaches
  <2>1. /\ tables' = [d \in Databases |-> NoVersion] /\ completion' = [d \in Databases |-> NoVersion]
        /\ tableRef' = [d \in Databases |-> 0] /\ completionRef' = [d \in Databases |-> 0]
        /\ warm' = [warm EXCEPT !.due = TRUE] /\ UNCHANGED loads
    BY <1>5 DEF Caches!clearProfileCaches, Caches!clearTablesCache,
      Caches!clearSqlAutocompleteCache, Caches!Unregistered, Caches!Absent, Caches!NoLoad
  <2>2. (\A l \in loads : IsLoad(l))' /\ (\A x \in statements : IsStatement(x))'
    BY <1>1, <2>1 DEF CachesInv, CachesTypes, IsLoad, IsStatement, SchemaVersion
  <2>3. CachesTypes'
    BY <1>1, <1>3, <2>1, <2>2 DEF CachesInv, CachesTypes
  <2>4. WarmTypes' /\ Registrations' /\ SearchReaches'
    BY <2>1 DEF CachesInv, WarmTypes, Registrations, SearchReaches
  <2>5. NotOlder'
    BY <1>3, <1>4, <2>1 DEF CachesInv, NotOlder
  <2> QED
    BY <2>3, <2>4, <2>5, Zenon DEF CachesInv
<1>6. CASE \E m, n \in Caches!FreshLoads :
             /\ Caches!clearTablesCache({s.db}) /\ Caches!clearSqlAutocompleteCache({s.db})
             /\ loads' = loads \cup {Caches!Load(m, "tables", s.db),
                                     Caches!Load(n, "completion", s.db)}
             /\ tableRef' = [tableRef EXCEPT ![s.db] = m]
             /\ completionRef' = [completionRef EXCEPT ![s.db] = n]
  <2>1. PICK m, n, k, l :
          /\ k = Caches!Load(m, "tables", s.db) /\ l = Caches!Load(n, "completion", s.db)
          /\ loads' = loads \cup {k, l}
          /\ tableRef' = [tableRef EXCEPT ![s.db] = m]
          /\ completionRef' = [completionRef EXCEPT ![s.db] = n]
    BY <1>6
  <2>2. /\ k.n = m /\ k.kind = "tables" /\ k.db = s.db /\ k.read = NoVersion
        /\ l.n = n /\ l.kind = "completion" /\ l.db = s.db /\ l.read = NoVersion
        /\ k = [n |-> k.n, kind |-> k.kind, db |-> k.db, read |-> k.read]
        /\ l = [n |-> l.n, kind |-> l.kind, db |-> l.db, read |-> l.read]
    BY <2>1 DEF Caches!Load, Caches!NotRead
  <2>3. /\ tables' = [d \in Databases |-> IF d \in {s.db} THEN NoVersion ELSE tables[d]]
        /\ completion' = [d \in Databases |-> IF d \in {s.db} THEN NoVersion ELSE completion[d]]
        /\ warm' = [warm EXCEPT !.due = TRUE]
    BY <1>6 DEF Caches!clearTablesCache, Caches!clearSqlAutocompleteCache, Caches!Absent
  <2>4. (\A x \in loads : IsLoad(x))' /\ (\A x \in statements : IsStatement(x))'
    BY <1>1, <1>2, <2>1, <2>2 DEF CachesInv, CachesTypes, IsLoad, IsStatement, SchemaVersion
  <2>5. CachesTypes'
    BY <1>1, <1>3, <2>1, <2>3, <2>4 DEF CachesInv, CachesTypes
  <2>6. WarmTypes' /\ SearchReaches'
    BY <2>3 DEF CachesInv, WarmTypes, SearchReaches
  <2>7. Registrations'
    BY <1>2, <2>1, <2>2 DEF CachesInv, CachesTypes, Registrations, OnItsWay
  <2>8. NotOlder'
    BY <1>3, <1>4, <2>1, <2>2, <2>3 DEF CachesInv, NotOlder
  <2> QED
    BY <2>5, <2>6, <2>7, <2>8, Zenon DEF CachesInv
<1> QED
  BY <1>5, <1>6, Zenon DEF Caches!DdlAnswer

\* The search starts anew.
LEMMA CachesWarmStart == CachesInv /\ Caches!WarmStart => CachesInv'
<1> SUFFICES ASSUME CachesInv, Caches!WarmStart PROVE CachesInv'
  OBVIOUS
<1>1. UNCHANGED <<schema, listed, tables, completion, tableRef, completionRef, loads, statements,
                  own, overtaken, failed>>
  BY DEF Caches!WarmStart
<1>2. /\ warm'.on = warm.on /\ warm'.todo = IF warm.on /\ listed THEN Databases ELSE {}
      /\ warm' = [on |-> warm'.on, due |-> warm'.due, todo |-> warm'.todo,
                  waiting |-> warm'.waiting]
  BY DEF Caches!WarmStart, CachesInv, WarmTypes
<1> QED
  BY <1>1, <1>2 DEF CachesInv, CachesTypes, WarmTypes, IsLoad, IsStatement, SchemaVersion,
    Registrations, OnItsWay, NotOlder, SearchReaches, Reached

\* One turn of its loop: a database whose load is registered, or that is there, is passed over.
LEMMA CachesWarmNext == CachesInv /\ Caches!WarmNext => CachesInv'
<1> SUFFICES ASSUME CachesInv, Caches!WarmNext PROVE CachesInv'
  OBVIOUS
<1> USE DEF NoVersion
<1>1. /\ warm.todo # {}
      /\ UNCHANGED <<schema, listed, tables, completion, completionRef, statements, own,
                     overtaken, failed>>
  BY DEF Caches!WarmNext
<1>2. PICK d \in Databases : d \in warm.todo /\ d = Caches!Min(warm.todo)
  BY <1>1, FirstIsMember DEF CachesInv, WarmTypes
<1>3. CASE tables[d] # NoVersion \/ tableRef[d] # 0
  <2>1. /\ warm' = [warm EXCEPT !.todo = @ \ {d}, !.waiting = 0] /\ UNCHANGED <<loads, tableRef>>
    BY <1>2, <1>3 DEF Caches!WarmNext, Caches!Absent, Caches!NoLoad
  <2>2. /\ warm'.on = warm.on /\ warm'.due = warm.due /\ warm'.todo = warm.todo \ {d}
        /\ WarmTypes'
    BY <2>1 DEF CachesInv, WarmTypes
  <2>3. tables[d] # NoVersion \/ \E l \in loads : l.kind = "tables" /\ l.db = d
    BY <1>3 DEF CachesInv, Registrations, OnItsWay
  <2>4. SearchReaches'
    BY <1>1, <2>1, <2>2, <2>3 DEF CachesInv, SearchReaches, Reached
  <2> QED
    BY <1>1, <2>1, <2>2, <2>4 DEF CachesInv, CachesTypes, IsLoad, IsStatement, SchemaVersion,
      Registrations, OnItsWay, NotOlder
<1>4. CASE ~(tables[d] # NoVersion \/ tableRef[d] # 0)
  <2>1. PICK n, l : /\ l = Caches!Load(n, "tables", d) /\ loads' = loads \cup {l}
                    /\ tableRef' = [tableRef EXCEPT ![d] = n]
                    /\ warm' = [warm EXCEPT !.todo = @ \ {d}, !.waiting = n]
    BY <1>2, <1>4 DEF Caches!WarmNext, Caches!Absent, Caches!NoLoad, Caches!RequestTables
  <2>2. /\ l.n = n /\ l.kind = "tables" /\ l.db = d /\ l.read = NoVersion
        /\ l = [n |-> l.n, kind |-> l.kind, db |-> l.db, read |-> l.read]
    BY <2>1 DEF Caches!Load, Caches!NotRead
  <2>3. /\ warm'.on = warm.on /\ warm'.due = warm.due /\ warm'.todo = warm.todo \ {d}
        /\ WarmTypes'
    BY <2>1 DEF CachesInv, WarmTypes
  <2>4. SearchReaches'
    BY <1>1, <2>1, <2>2, <2>3 DEF CachesInv, SearchReaches, Reached
  <2>5. CachesTypes'
    BY <1>1, <2>1, <2>2 DEF CachesInv, CachesTypes, IsLoad, IsStatement, SchemaVersion
  <2>6. Registrations'
    BY <1>1, <2>1, <2>2 DEF CachesInv, CachesTypes, Registrations, OnItsWay
  <2>7. NotOlder'
    BY <1>1, <2>1, <2>2 DEF CachesInv, NotOlder
  <2> QED
    BY <2>3, <2>4, <2>5, <2>6, <2>7, Zenon DEF CachesInv
<1> QED
  BY <1>3, <1>4

\* Every step of the caches, and every step beside them, preserves the invariant.
LEMMA CachesNext ==
  ASSUME CachesInv, CachesStep \/ UNCHANGED cacheVars
  PROVE  CachesInv'
<1>1. CASE UNCHANGED cacheVars
  BY <1>1 DEF cacheVars, CachesInv, CachesTypes, WarmTypes, IsLoad, IsStatement, SchemaVersion,
    Registrations, OnItsWay, NotOlder, SearchReaches, Reached
<1>2. CASE Caches!Next
  <2>1. CASE \E n \in 1..MaxLoads : Caches!LoadStep(n)
    BY <2>1, CachesServe, CachesAnswer DEF Caches!LoadStep
  <2>2. CASE Caches!WarmStep
    BY <2>2, CachesWarmStart, CachesWarmNext DEF Caches!WarmStep
  <2>3. CASE \E s \in statements : Caches!ServeDdl(s) \/ Caches!DdlAnswer(s)
    BY <2>3, CachesAlter, CachesRefresh
  <2> QED
    BY <1>2, <2>1, <2>2, <2>3, CachesAsk, CachesForget DEF Caches!Next
<1> QED
  BY <1>1, <1>2 DEF CachesStep

LEMMA CachesHold ==
  CachesInv => RegisteredIsOnItsWay /\ CachesFollowUnlessOvertaken /\ SearchSeesEveryDatabase
<1>1. CachesInv => RegisteredIsOnItsWay
  BY DEF CachesInv, Registrations, OnItsWay, RegisteredIsOnItsWay, Caches!RegisteredIsOnItsWay,
    Caches!NoLoad
<1>2. CachesInv => CachesFollowUnlessOvertaken
  BY DEF CachesInv, CachesTypes, IsLoad, SchemaVersion, NotOlder, CachesFollowUnlessOvertaken,
    Caches!CachesFollowUnlessOvertaken, Caches!ReadSince, Caches!Absent, Caches!NotRead, NoVersion
<1>3. CachesInv => SearchSeesEveryDatabase
  BY DEF CachesInv, SearchReaches, Reached, SearchSeesEveryDatabase,
    Caches!SearchSeesEveryDatabase, Caches!Absent, NoVersion
<1> QED
  BY <1>1, <1>2, <1>3

\* The invariant of the caches holds in the window throughout.
LEMMA CachesAlways == Spec => []CachesInv
<1>1. Init => CachesInv
  BY CachesInit DEF Init
<1>2. CachesInv /\ [Next]_vars => CachesInv'
  BY CachesNext, Interleaves
<1> QED
  BY <1>1, <1>2, PTL DEF Spec

\* A load that is registered is on its way (RegisteredIsOnItsWay).
THEOREM RegistrationsAnswer == Spec => []RegisteredIsOnItsWay
<1>1. CachesInv => RegisteredIsOnItsWay
  BY CachesHold
<1> QED
  BY <1>1, CachesAlways, PTL

\* What is cached of a database, or read and on its way, is not older than the last DDL
\* run here, unless an answer read before it was still on its way
\* (CachesFollowUnlessOvertaken).
THEOREM CachesFollowTheSchema == Spec => []CachesFollowUnlessOvertaken
<1>1. CachesInv => CachesFollowUnlessOvertaken
  BY CachesHold
<1> QED
  BY <1>1, CachesAlways, PTL

\* When the search has ended, every database's tables are there or their load failed
\* (SearchSeesEveryDatabase).
THEOREM SearchesReachEveryDatabase == Spec => []SearchSeesEveryDatabase
<1>1. CachesInv => SearchSeesEveryDatabase
  BY CachesHold
<1> QED
  BY <1>1, CachesAlways, PTL
=============================================================================
