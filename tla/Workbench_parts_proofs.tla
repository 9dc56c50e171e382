------------------------ MODULE Workbench_parts_proofs ------------------------
(***************************************************************************)
(* The design tab and the Redis workspace, with the invariants they need.  *)
(* Then the plugin host and the comparison screens in the window: what is  *)
(* proved of PluginHost and of CompareScreen by themselves holds in the    *)
(* window as a whole, as its actions are their own.                        *)
(***************************************************************************)
EXTENDS Workbench_proofs

----------------------------------------------------------------------------
(* The design tab. *)

Column == [name : Nat \ {0}, attr : {0, 1}, origin : Nat, selected : BOOLEAN, pos : Nat]
Cell == [name : Nat \ {0}, attr : {0, 1}]
IsTable(t) == t \in [DOMAIN t -> {0, 1}] /\ DOMAIN t \subseteq Nat \ {0} /\ IsFiniteSet(DOMAIN t)
\* positions are those of the draft, and no two rows are of one column that was loaded
OriginsKept(list, orig) ==
  \A i \in DOMAIN list :
    /\ list[i].pos = i
    /\ list[i].origin # 0 =>
         /\ list[i].origin \in DOMAIN orig
         /\ \A j \in DOMAIN list : list[j].origin = list[i].origin => i = j

IsRequest(r) ==
  r = [mode |-> r.mode, payload |-> r.payload, commit |-> r.commit] /\ r.payload \in Seq(Cell)
\* a dialog shows what would be executed now, unless the table was altered since
IsPreview(p) ==
  /\ p = [open |-> p.open, request |-> p.request, plan |-> p.plan,
          confirmable |-> p.confirmable, altered |-> p.altered]
  /\ p.open /\ IsRequest(p.request) /\ p.altered \in BOOLEAN
  /\ ~p.altered => p.plan = Design!PlanFor(p.request)

DraftInv ==
  \/ tab = [mode |-> "none"]
  \/ /\ tab = [mode |-> tab.mode, loading |-> tab.loading, orig |-> tab.orig, draft |-> tab.draft]
     /\ tab.mode \in {"edit", "create"}
     /\ IsTable(tab.orig) /\ tab.draft \in Seq(Column) /\ OriginsKept(tab.draft, tab.orig)
PreviewInv ==
  /\ asked # <<>> => asked = <<asked[1]>> /\ IsRequest(asked[1])
  /\ sqlPreview # [open |-> FALSE] => IsPreview(sqlPreview)
  /\ running # <<>> => running = <<running[1]>> /\ IsPreview(running[1])
OutcomeInv ==
  outcome.done => /\ outcome.left = outcome.draft
                  /\ ~outcome.altered => outcome.run = outcome.shown
DesignInv == IsTable(columns) /\ DraftInv /\ PreviewInv /\ OutcomeInv

\* Cardinality is the same whichever module it is read in.
LEMMA DesignCardinality == \A S : Design!Cardinality(S) = Cardinality(S)
BY DEF Cardinality, Design!Cardinality

\* So are lists in order.
LEMMA DesignLists ==
  /\ \A S : Design!InOrder(S) = InOrder(S)
  /\ \A list, S : Design!At(list, S) = At(list, S)
BY DEF Cardinality, Design!Cardinality, Rank, Design!Rank, InOrder, Design!InOrder, At, Design!At

\* Some columns of a draft, in order, are columns of that draft, each at one position.
LEMMA ColumnsAt ==
  ASSUME NEW T, NEW list, list \in Seq(T),
         NEW S, S \subseteq DOMAIN list, NEW s, s = Design!At(list, S)
  PROVE  /\ s \in Seq(T)
         /\ \E at : /\ at \in [DOMAIN s -> S]
                    /\ \A i, j \in DOMAIN s : at[i] = at[j] => i = j
                    /\ \A i \in DOMAIN s : s[i] = list[at[i]]
<1>1. s = At(list, S)
  BY DesignLists
<1>2. s \in Seq(T) /\ IsSelection(s, list, S)
  BY <1>1, ItemsAt
<1> QED
  BY <1>2 DEF IsSelection

\* The columns of a valid draft have different names.
LEMMA ValidNames ==
  ASSUME NEW payload \in Seq(Cell), Design!Valid(payload)
  PROVE  \A i, j \in DOMAIN payload : payload[i].name = payload[j].name => i = j
<1> DEFINE D == DOMAIN payload
           T == {payload[i].name : i \in D}
           f == [i \in D |-> payload[i].name]
<1>1. D = 1..Len(payload) /\ Len(payload) \in Nat
  OBVIOUS
<1>2. IsFiniteSet(D) /\ Cardinality(D) = Len(payload)
  BY <1>1, FS_Interval
<1>3. Cardinality(T) = Len(payload)
  BY DesignCardinality DEF Design!Valid
<1>4. f \in Surjection(D, T)
  BY DEF Surjection
<1>5. f \in Injection(D, T)
  BY <1>2, <1>3, <1>4, FS_SurjSameCardinalityImpliesInj
<1> QED
  BY <1>5 DEF Injection, IsInjective

\* Executing a plan for a valid draft makes the table that draft.
LEMMA PlanMakesDraft ==
  ASSUME NEW payload \in Seq(Cell), Design!Valid(payload), NEW t, IsTable(t),
         NEW new, new = Design!After(Design!Plan(payload, t), t)
  PROVE  /\ IsTable(new)
         /\ {[name |-> n, attr |-> new[n]] : n \in DOMAIN new} = {payload[i] : i \in DOMAIN payload}
<1> DEFINE cells == {payload[i] : i \in DOMAIN payload}
           plan == Design!Plan(payload, t)
<1>1. cells \subseteq Cell
  OBVIOUS
<1>2. \A c, e \in cells : c.name = e.name => c = e
  BY ValidNames
<1>3. /\ plan.drop = {n \in DOMAIN t : \A c \in cells : c.name # n}
      /\ plan.modify = {c \in cells : c.name \in DOMAIN t /\ t[c.name] # c.attr}
      /\ plan.add = {c \in cells : c.name \notin DOMAIN t}
  BY DEF Design!Plan
<1>4. new = [n \in (DOMAIN t \ plan.drop) \cup {c.name : c \in plan.add} |->
               IF \E c \in plan.modify \cup plan.add : c.name = n
               THEN (CHOOSE c \in plan.modify \cup plan.add : c.name = n).attr ELSE t[n]]
  BY DEF Design!After
<1> HIDE DEF plan
<1>5. IsFiniteSet({c.name : c \in cells})
  <2> DEFINE D == DOMAIN payload
             f == [i \in D |-> payload[i].name]
  <2>1. IsFiniteSet(D)
    BY FS_Interval
  <2>2. f \in Surjection(D, {c.name : c \in cells})
    BY DEF Surjection
  <2> QED
    BY <2>1, <2>2, FS_Surjection
<1> HIDE DEF cells
<1>6. DOMAIN new = {c.name : c \in cells}
  <2>1. DOMAIN new = (DOMAIN t \ plan.drop) \cup {c.name : c \in plan.add}
    BY <1>4
  <2> QED
    BY <1>3, <2>1
<1>7. ASSUME NEW c \in cells PROVE new[c.name] = c.attr
  <2>1. c.name \in DOMAIN new
    BY <1>6
  <2>2. CASE c \in plan.modify \cup plan.add
    <3>1. \A e \in plan.modify \cup plan.add : e.name = c.name => e = c
      BY <1>2, <1>3
    <3>2. (CHOOSE e \in plan.modify \cup plan.add : e.name = c.name) = c
      BY <2>2, <3>1
    <3> QED
      BY <1>4, <2>1, <2>2, <3>2
  <2>3. CASE c \notin plan.modify \cup plan.add
    <3>1. t[c.name] = c.attr
      BY <1>3, <2>3
    <3>2. ~\E e \in plan.modify \cup plan.add : e.name = c.name
      BY <1>2, <1>3, <2>3
    <3> QED
      BY <1>4, <2>1, <3>1, <3>2
  <2> QED
    BY <2>2, <2>3
<1>8. \A n \in DOMAIN new : new[n] \in {0, 1}
  BY <1>1, <1>6, <1>7 DEF Cell
<1>9. IsTable(new)
  <2>1. new = [n \in DOMAIN new |-> new[n]]
    BY <1>4
  <2>2. DOMAIN new \subseteq Nat \ {0}
    BY <1>1, <1>6 DEF Cell
  <2> QED
    BY <1>5, <1>6, <1>8, <2>1, <2>2 DEF IsTable
<1>10. \A c \in cells : c = [name |-> c.name, attr |-> new[c.name]]
  BY <1>1, <1>7 DEF Cell
<1>11. {[name |-> n, attr |-> new[n]] : n \in DOMAIN new} = cells
  BY <1>6, <1>10
<1> QED
  BY <1>9, <1>11 DEF cells

\* The design tab opens.
LEMMA DesignInit == Design!Init => DesignInv
<1> SUFFICES ASSUME Design!Init PROVE DesignInv
  OBVIOUS
<1>1. IsTable(columns)
  <2>1. IsTable(<<>>)
    BY FS_EmptySet DEF IsTable
  <2>2. IsTable([n \in {1, 2} |-> 0])
    <3>1. IsFiniteSet({1, 2})
      <4>1. IsFiniteSet({1}) /\ IsFiniteSet({2})
        BY FS_Singleton
      <4>2. IsFiniteSet({1} \cup {2})
        BY <4>1, FS_Union
      <4> QED
        BY <4>2
    <3> QED
      BY <3>1 DEF IsTable
  <2> QED
    BY <2>1, <2>2 DEF Design!Init
<1>2. DraftInv
  BY DEF Design!Init, Design!NoTab, DraftInv
<1>3. PreviewInv
  <2>1. asked = <<>> /\ sqlPreview = [open |-> FALSE] /\ running = <<>>
    BY DEF Design!Init, Design!NoPreview
  <2> QED
    BY <2>1 DEF PreviewInv
<1>4. OutcomeInv
  BY DEF Design!Init, Design!Nothing, OutcomeInv
<1> QED
  BY <1>1, <1>2, <1>3, <1>4 DEF DesignInv

\* What does not touch the table, a dialog or an execution needs only a sound tab.
LEMMA OnlyTabChanges ==
  ASSUME DesignInv, DraftInv', UNCHANGED <<columns, asked, sqlPreview, running, outcome>>
  PROVE  DesignInv'
BY DEF DesignInv, PreviewInv, OutcomeInv, IsPreview, IsRequest, IsTable, Design!PlanFor

\* Every tab has its mode.
LEMMA TabHasMode ==
  ASSUME DesignInv, tab.mode # "none"
  PROVE  /\ tab = [mode |-> tab.mode, loading |-> tab.loading, orig |-> tab.orig,
                   draft |-> tab.draft]
         /\ tab.mode \in {"edit", "create"}
         /\ IsTable(tab.orig) /\ tab.draft \in Seq(Column) /\ OriginsKept(tab.draft, tab.orig)
BY DEF DesignInv, DraftInv

\* What a tab opens with: no columns of a table that is still loaded, or one of a new table.
LEMMA FirstDrafts ==
  /\ IsTable(<<>>) /\ <<>> \in Seq(Column) /\ OriginsKept(<<>>, <<>>)
  /\ LET first == <<Design!DraftColumn(1, 0, Design!NoOrigin, 1)>>
     IN first \in Seq(Column) /\ OriginsKept(first, <<>>)
<1>1. IsTable(<<>>)
  BY FS_EmptySet DEF IsTable
<1>2. Design!DraftColumn(1, 0, Design!NoOrigin, 1) \in Column
  BY DEF Design!DraftColumn, Design!NoOrigin, Column
<1>3. Design!DraftColumn(1, 0, Design!NoOrigin, 1).pos = 1 /\ Design!DraftColumn(1, 0, Design!NoOrigin, 1).origin = 0
  BY DEF Design!DraftColumn, Design!NoOrigin
<1> QED
  BY <1>1, <1>2, <1>3 DEF OriginsKept

\* The tab opens, reloads, closes, or its load fails.
LEMMA DesignOpens ==
  ASSUME DesignInv,
         \/ Design!OpenDesign \/ Design!refreshDesignTab \/ Design!openCreateTableTab
         \/ Design!CloseDesign \/ Design!DesignFails
  PROVE  DesignInv'
<1>1. UNCHANGED <<columns, asked, sqlPreview, running, outcome>>
  BY DEF Design!OpenDesign, Design!refreshDesignTab, Design!openCreateTableTab,
    Design!CloseDesign, Design!DesignFails, Design!OnlyTab
<1>2. CASE tab' = [mode |-> "edit", loading |-> TRUE, orig |-> <<>>, draft |-> <<>>]
  BY <1>1, <1>2, FirstDrafts, OnlyTabChanges DEF DraftInv
<1>3. CASE tab' = [mode |-> "create", loading |-> FALSE, orig |-> <<>>,
                   draft |-> <<Design!DraftColumn(1, 0, Design!NoOrigin, 1)>>]
  <2>1. DraftInv'
    BY <1>3, FirstDrafts DEF DraftInv
  <2> QED
    BY <1>1, <2>1, OnlyTabChanges
<1>4. CASE tab' = [mode |-> "none"] \/ tab' = tab
  BY <1>1, <1>4, OnlyTabChanges DEF DraftInv, DesignInv, IsTable, OriginsKept
<1>5. ASSUME NEW b, tab' = [tab EXCEPT !.loading = b], tab.mode # "none"
      PROVE  DesignInv'
  <2>1. /\ tab' = [mode |-> tab'.mode, loading |-> tab'.loading, orig |-> tab'.orig,
                   draft |-> tab'.draft]
        /\ tab'.mode = tab.mode /\ tab'.orig = tab.orig /\ tab'.draft = tab.draft
    BY <1>5, TabHasMode
  <2> QED
    BY <1>1, <1>5, <2>1, TabHasMode, OnlyTabChanges DEF DraftInv
<1> QED
  BY <1>2, <1>3, <1>4, <1>5 DEF Design!OpenDesign, Design!refreshDesignTab,
    Design!openCreateTableTab, Design!CloseDesign, Design!DesignFails, Design!Editing, Design!NoTab

\* The draft of a loaded table has its columns, each once.
LEMMA LoadedOrigins ==
  ASSUME NEW t, IsTable(t)
  PROVE  Design!LoadedDraft(t) \in Seq(Column) /\ OriginsKept(Design!LoadedDraft(t), t)
<1> PICK names : names = Design!InOrder(DOMAIN t)
  OBVIOUS
<1>1. DOMAIN t \in SUBSET Nat /\ IsFiniteSet(DOMAIN t)
  BY DEF IsTable
<1>2. PICK n \in Nat : /\ names \in [1..n -> DOMAIN t]
                       /\ \A i, j \in 1..n : names[i] = names[j] => i = j
  BY <1>1, DesignLists, NumbersInOrder
<1>3. Design!LoadedDraft(t) = [i \in 1..n |-> Design!DraftColumn(names[i], t[names[i]], names[i], i)]
  BY <1>2 DEF Design!LoadedDraft
<1>4. ASSUME NEW i \in 1..n
      PROVE  Design!DraftColumn(names[i], t[names[i]], names[i], i) \in Column
  BY <1>2 DEF IsTable, Design!DraftColumn, Column
<1>5. Design!LoadedDraft(t) \in [1..n -> Column]
  BY <1>3, <1>4
<1>6. \A i \in 1..n : /\ Design!LoadedDraft(t)[i].pos = i
                      /\ Design!LoadedDraft(t)[i].origin = names[i]
  BY <1>3 DEF Design!DraftColumn
<1> QED
  BY <1>2, <1>5, <1>6, FunctionIsSequence DEF OriginsKept

\* The columns arrive.
LEMMA DesignLoads == DesignInv /\ Design!DesignArrives => DesignInv'
<1> SUFFICES ASSUME DesignInv, Design!DesignArrives PROVE DesignInv'
  OBVIOUS
<1>1. UNCHANGED <<columns, asked, sqlPreview, running, outcome>>
  BY DEF Design!DesignArrives, Design!OnlyTab
<1>2. CASE tab' = tab
  BY <1>1, <1>2, OnlyTabChanges DEF DraftInv, DesignInv, IsTable, OriginsKept
<1>3. CASE tab.mode = "edit" /\ tab' = [tab EXCEPT !.loading = FALSE, !.orig = columns,
                                                 !.draft = Design!LoadedDraft(columns)]
  <2> PICK list : list = Design!LoadedDraft(columns)
    OBVIOUS
  <2>1. /\ tab' = [mode |-> tab'.mode, loading |-> tab'.loading, orig |-> tab'.orig,
                   draft |-> tab'.draft]
        /\ tab'.mode = tab.mode /\ tab'.orig = columns /\ tab'.draft = list
    BY <1>3, TabHasMode
  <2>2. IsTable(columns)
    BY DEF DesignInv
  <2>3. list \in Seq(Column) /\ OriginsKept(list, columns)
    BY <2>2, LoadedOrigins
  <2>4. DraftInv'
    BY <1>3, <2>1, <2>2, <2>3 DEF DraftInv
  <2> QED
    BY <1>1, <2>4, OnlyTabChanges
<1> QED
  BY <1>2, <1>3 DEF Design!DesignArrives

\* An edit keeps a sound draft.
LEMMA DraftEdited ==
  ASSUME DesignInv, NEW list, Design!Drafted(list), list \in Seq(Column),
         OriginsKept(list, tab.orig)
  PROVE  DesignInv'
<1>1. /\ tab.mode # "none" /\ tab' = [tab EXCEPT !.draft = list]
      /\ UNCHANGED <<columns, asked, sqlPreview, running, outcome>>
  BY DEF Design!Drafted, Design!Editing
<1>2. /\ tab' = [mode |-> tab'.mode, loading |-> tab'.loading, orig |-> tab'.orig,
                 draft |-> tab'.draft]
      /\ tab'.mode = tab.mode /\ tab'.orig = tab.orig /\ tab'.draft = list
  BY <1>1, TabHasMode
<1>3. DraftInv'
  BY <1>1, <1>2, TabHasMode DEF DraftInv
<1> QED
  BY <1>1, <1>3, OnlyTabChanges

\* Rows that keep position and origin.
LEMMA RowsEdited ==
  ASSUME DesignInv, NEW list, Design!Drafted(list),
         list \in [DOMAIN tab.draft -> Column],
         \A i \in DOMAIN tab.draft : /\ list[i].pos = tab.draft[i].pos
                                     /\ list[i].origin = tab.draft[i].origin
  PROVE  DesignInv'
<1>1. tab.draft \in Seq(Column) /\ OriginsKept(tab.draft, tab.orig)
  BY TabHasMode DEF Design!Drafted, Design!Editing
<1>2. list \in Seq(Column)
  BY <1>1, FunctionIsSequence
<1>3. OriginsKept(list, tab.orig)
  BY <1>1 DEF OriginsKept
<1> QED
  BY <1>2, <1>3, DraftEdited

\* A row is changed or marked, or all are marked.
LEMMA DesignRows ==
  ASSUME DesignInv, tab.mode # "none",
         \/ \E checked \in BOOLEAN : Design!toggleAllDesignRows(checked)
         \/ \E i \in DOMAIN tab.draft : Design!toggleDesignRow(i)
         \/ \E i \in DOMAIN tab.draft, n \in Names, a \in {0, 1} : Design!updateDesignRow(i, n, a)
  PROVE  DesignInv'
<1>1. tab.draft \in Seq(Column) /\ \A i \in DOMAIN tab.draft : tab.draft[i] \in Column
  BY TabHasMode
<1>2. ASSUME NEW checked \in BOOLEAN, Design!toggleAllDesignRows(checked)
      PROVE  DesignInv'
  <2> PICK list : list = [i \in DOMAIN tab.draft |-> [tab.draft[i] EXCEPT !.selected = checked]]
    OBVIOUS
  <2>1. Design!Drafted(list)
    BY <1>2 DEF Design!toggleAllDesignRows
  <2>2. list \in [DOMAIN tab.draft -> Column]
    BY <1>1 DEF Column
  <2>3. \A i \in DOMAIN tab.draft : /\ list[i].pos = tab.draft[i].pos
                                    /\ list[i].origin = tab.draft[i].origin
    BY <1>1 DEF Column
  <2> QED
    BY <2>1, <2>2, <2>3, RowsEdited
<1>3. ASSUME NEW i \in DOMAIN tab.draft, Design!toggleDesignRow(i)
      PROVE  DesignInv'
  <2> PICK row : row = [tab.draft[i] EXCEPT !.selected = ~@]
    OBVIOUS
  <2>1. row \in Column /\ row.pos = tab.draft[i].pos /\ row.origin = tab.draft[i].origin
    BY <1>1 DEF Column
  <2> PICK list : list = [tab.draft EXCEPT ![i] = row]
    OBVIOUS
  <2>2. Design!Drafted(list)
    <3>1. [tab.draft EXCEPT ![i].selected = ~@] = [tab.draft EXCEPT ![i] = row]
      BY <1>1
    <3> QED
      BY <1>3, <3>1 DEF Design!toggleDesignRow
  <2>3. list \in [DOMAIN tab.draft -> Column]
    BY <1>1, <2>1
  <2>4. \A j \in DOMAIN tab.draft : /\ list[j].pos = tab.draft[j].pos
                                    /\ list[j].origin = tab.draft[j].origin
    BY <1>1, <2>1
  <2> QED
    BY <2>2, <2>3, <2>4, RowsEdited
<1>4. ASSUME NEW i \in DOMAIN tab.draft, NEW n \in Names, NEW a \in {0, 1},
             Design!updateDesignRow(i, n, a)
      PROVE  DesignInv'
  <2> PICK row : row = [tab.draft[i] EXCEPT !.name = n, !.attr = a]
    OBVIOUS
  <2>1. n \in Nat \ {0}
    BY WorkbenchAssumption
  <2>2. row \in Column /\ row.pos = tab.draft[i].pos /\ row.origin = tab.draft[i].origin
    BY <1>1, <2>1 DEF Column
  <2> PICK list : list = [tab.draft EXCEPT ![i] = row]
    OBVIOUS
  <2>3. Design!Drafted(list)
    <3>1. [tab.draft EXCEPT ![i].name = n, ![i].attr = a] = [tab.draft EXCEPT ![i] = row]
      BY <1>1
    <3> QED
      BY <1>4, <3>1 DEF Design!updateDesignRow
  <2>4. list \in [DOMAIN tab.draft -> Column]
    BY <1>1, <2>2
  <2>5. \A j \in DOMAIN tab.draft : /\ list[j].pos = tab.draft[j].pos
                                    /\ list[j].origin = tab.draft[j].origin
    BY <1>1, <2>2
  <2> QED
    BY <2>3, <2>4, <2>5, RowsEdited
<1> QED
  BY <1>2, <1>3, <1>4

\* A column is added.
LEMMA DesignAdds ==
  ASSUME DesignInv, tab.mode # "none", Design!addDesignRow
  PROVE  DesignInv'
<1>1. tab.draft \in Seq(Column) /\ OriginsKept(tab.draft, tab.orig)
  BY TabHasMode
<1> PICK n : n = Len(tab.draft) + 1
  OBVIOUS
<1>2. n \in Nat \ {0} /\ DOMAIN tab.draft = 1..(n - 1)
  BY <1>1
<1> PICK row : row = Design!DraftColumn(10 + n, 0, Design!NoOrigin, n)
  OBVIOUS
<1>3. row \in Column /\ row.pos = n /\ row.origin = 0
  BY <1>2 DEF Design!DraftColumn, Design!NoOrigin, Column
<1> PICK list : list = Append(tab.draft, row)
  OBVIOUS
<1>4. Design!Drafted(list)
  BY DEF Design!addDesignRow
<1>5. /\ list \in Seq(Column) /\ DOMAIN list = 1..n /\ list[n] = row
      /\ \A i \in 1..(n - 1) : list[i] = tab.draft[i]
  BY <1>1, <1>2, <1>3
<1>6. \A i \in DOMAIN list : i = n \/ i \in 1..(n - 1)
  BY <1>2, <1>5
<1>7. \A i \in DOMAIN list : list[i].origin # 0 => i \in DOMAIN tab.draft
  BY <1>2, <1>3, <1>5, <1>6
<1>8. OriginsKept(list, tab.orig)
  BY <1>1, <1>2, <1>3, <1>5, <1>6, <1>7 DEF OriginsKept
<1> QED
  BY <1>4, <1>5, <1>8, DraftEdited

\* Rows of a draft that keep their origins are numbered anew.
LEMMA RowsRenumbered ==
  ASSUME DesignInv, tab.mode # "none", NEW rows \in Seq(Column),
         NEW at, at \in [DOMAIN rows -> DOMAIN tab.draft],
         \A i, j \in DOMAIN rows : at[i] = at[j] => i = j,
         \A i \in DOMAIN rows : rows[i].origin = tab.draft[at[i]].origin,
         Design!Drafted(Design!Renumbered(rows))
  PROVE  DesignInv'
<1> PICK list : list = Design!Renumbered(rows)
  OBVIOUS
<1>1. list = [i \in DOMAIN rows |-> [rows[i] EXCEPT !.selected = FALSE, !.pos = i]]
  BY DEF Design!Renumbered
<1>2. \A i \in DOMAIN rows : rows[i] \in Column /\ i \in Nat
  OBVIOUS
<1>3. ASSUME NEW i \in DOMAIN rows
      PROVE  list[i] \in Column /\ list[i].pos = i /\ list[i].origin = rows[i].origin
  <2> PICK row : row = rows[i]
    OBVIOUS
  <2>1. row \in Column /\ i \in Nat /\ list[i] = [row EXCEPT !.selected = FALSE, !.pos = i]
    BY <1>1, <1>2
  <2> QED
    BY <2>1 DEF Column
<1>4. list \in [1..Len(rows) -> Column] /\ Len(rows) \in Nat
  <2>1. DOMAIN rows = 1..Len(rows) /\ Len(rows) \in Nat
    OBVIOUS
  <2> QED
    BY <1>1, <1>3, <2>1
<1>5. list \in Seq(Column) /\ DOMAIN list = DOMAIN rows
  BY <1>4, FunctionIsSequence
<1>6. OriginsKept(tab.draft, tab.orig)
  BY TabHasMode
<1>7. OriginsKept(list, tab.orig)
  BY <1>3, <1>5, <1>6 DEF OriginsKept
<1> QED
  BY <1>5, <1>7, DraftEdited

\* Marked columns are deleted.
LEMMA DesignDeletes ==
  ASSUME DesignInv, tab.mode # "none", Design!deleteSelectedDesignRows
  PROVE  DesignInv'
<1>1. PICK list, S, left : /\ list = tab.draft /\ left = Design!At(list, S)
                             /\ S = {i \in DOMAIN list : ~list[i].selected}
  OBVIOUS
<1>2. left = Design!At(list, S)
  BY <1>1
<1>3. list \in Seq(Column) /\ S \subseteq DOMAIN list
  BY <1>1, TabHasMode
<1>4. /\ left \in Seq(Column)
      /\ \E at : /\ at \in [DOMAIN left -> S]
                 /\ \A i, j \in DOMAIN left : at[i] = at[j] => i = j
                 /\ \A i \in DOMAIN left : left[i] = list[at[i]]
  BY <1>2, <1>3, ColumnsAt
<1>5. PICK at : /\ at \in [DOMAIN left -> S]
                /\ \A i, j \in DOMAIN left : at[i] = at[j] => i = j
                /\ \A i \in DOMAIN left : left[i] = list[at[i]]
  BY <1>4
<1>6. at \in [DOMAIN left -> DOMAIN tab.draft]
  BY <1>1, <1>3, <1>5
<1>7. \A i \in DOMAIN left : left[i].origin = tab.draft[at[i]].origin
  BY <1>1, <1>5
<1>8. Design!Drafted(Design!Renumbered(left))
  BY <1>1 DEF Design!deleteSelectedDesignRows
<1> QED
  BY <1>4, <1>5, <1>8, <1>6, <1>7, RowsRenumbered

\* Marked columns are restored: those added go, those loaded are as they were.
LEMMA DesignRestores ==
  ASSUME DesignInv, tab.mode # "none", Design!restoreSelectedDesignRows
  PROVE  DesignInv'
<1> DEFINE back(c) == IF c.selected
                      THEN Design!DraftColumn(c.origin, tab.orig[c.origin], c.origin, c.pos) ELSE c
<1>1. PICK list, S, kept, rows :
        /\ list = tab.draft /\ kept = Design!At(list, S)
        /\ S = {i \in DOMAIN list : ~list[i].selected \/ list[i].origin \in DOMAIN tab.orig}
        /\ rows = [i \in DOMAIN kept |-> back(kept[i])]
  OBVIOUS
<1>2. kept = Design!At(list, S)
  BY <1>1
<1>3. list \in Seq(Column) /\ IsTable(tab.orig) /\ S \subseteq DOMAIN list
  BY <1>1, TabHasMode
<1>4. /\ kept \in Seq(Column)
      /\ \E at : /\ at \in [DOMAIN kept -> S]
                 /\ \A i, j \in DOMAIN kept : at[i] = at[j] => i = j
                 /\ \A i \in DOMAIN kept : kept[i] = list[at[i]]
  BY <1>2, <1>3, ColumnsAt
<1>5. PICK at : /\ at \in [DOMAIN kept -> S]
                /\ \A i, j \in DOMAIN kept : at[i] = at[j] => i = j
                /\ \A i \in DOMAIN kept : kept[i] = list[at[i]]
  BY <1>4
<1>6. ASSUME NEW i \in DOMAIN kept
      PROVE  back(kept[i]) \in Column /\ back(kept[i]).origin = kept[i].origin
  <2>1. kept[i] \in Column
    BY <1>4
  <2>2. CASE kept[i].selected
    <3>1. kept[i].origin \in DOMAIN tab.orig
      <4>1. at[i] \in S /\ kept[i] = list[at[i]]
        BY <1>5
      <4>2. ~list[at[i]].selected \/ list[at[i]].origin \in DOMAIN tab.orig
        BY <1>1, <4>1
      <4> QED
        BY <2>2, <4>1, <4>2
    <3>2. kept[i].origin \in Nat \ {0} /\ tab.orig[kept[i].origin] \in {0, 1}
      BY <1>3, <3>1 DEF IsTable
    <3> QED
      BY <2>1, <2>2, <3>2 DEF Design!DraftColumn, Column
  <2>3. CASE ~kept[i].selected
    BY <2>1, <2>3
  <2> QED
    BY <2>2, <2>3
<1> HIDE DEF back
<1>7. rows \in Seq(Column) /\ DOMAIN rows = DOMAIN kept
  <2>1. Len(kept) \in Nat /\ DOMAIN kept = 1..Len(kept)
    BY <1>4
  <2>2. rows \in [1..Len(kept) -> Column]
    BY <1>1, <1>6, <2>1
  <2> QED
    BY <2>1, <2>2, FunctionIsSequence
<1>8. \A i \in DOMAIN rows : rows[i].origin = tab.draft[at[i]].origin
  <2>1. \A i \in DOMAIN kept : rows[i] = back(kept[i])
    BY <1>1
  <2>2. \A i \in DOMAIN rows : rows[i].origin = kept[i].origin
    BY <1>6, <1>7, <2>1
  <2>3. \A i \in DOMAIN kept : kept[i].origin = list[at[i]].origin
    BY <1>5
  <2>4. list = tab.draft
    BY <1>1
  <2> QED
    BY <1>7, <2>2, <2>3, <2>4
<1>9. at \in [DOMAIN rows -> DOMAIN tab.draft]
  BY <1>1, <1>3, <1>5, <1>7
<1>10. Design!Drafted(Design!Renumbered(rows))
  BY <1>1 DEF Design!restoreSelectedDesignRows, back
<1> QED
  <2>1. \A i, j \in DOMAIN rows : at[i] = at[j] => i = j
    BY <1>5, <1>7
  <2> QED
    BY <1>7, <1>8, <1>9, <1>10, <2>1, RowsRenumbered

\* What is sent of a draft are its columns.
LEMMA StrippedDraft ==
  ASSUME NEW list, list \in Seq(Column)
  PROVE  Design!Stripped(list) \in Seq(Cell)
<1>1. Design!Stripped(list) = [i \in DOMAIN list |-> [name |-> list[i].name, attr |-> list[i].attr]]
  BY DEF Design!Stripped
<1>2. \A i \in DOMAIN list : list[i] \in Column
  OBVIOUS
<1>3. DOMAIN list = 1..Len(list) /\ Len(list) \in Nat
  OBVIOUS
<1>4. Design!Stripped(list) \in [1..Len(list) -> Cell]
  BY <1>1, <1>2, <1>3 DEF Column, Cell
<1> QED
  BY <1>3, <1>4, FunctionIsSequence

\* What does not touch the tab or the table needs only sound dialogs.
LEMMA OnlyPreviewChanges ==
  ASSUME DesignInv, PreviewInv', UNCHANGED <<columns, tab, outcome>>
  PROVE  DesignInv'
BY DEF DesignInv, DraftInv, OutcomeInv, IsTable, OriginsKept

\* A preview is asked for.
LEMMA DesignAsks ==
  ASSUME DesignInv, NEW commit \in BOOLEAN, Design!AskPreview(commit)
  PROVE  DesignInv'
<1> PICK request : request = [mode |-> tab.mode, payload |-> Design!Stripped(tab.draft),
                              commit |-> commit]
  OBVIOUS
<1>1. /\ tab.mode # "none" /\ asked' = <<request>>
      /\ UNCHANGED <<columns, tab, sqlPreview, running, outcome>>
  BY DEF Design!AskPreview, Design!Editing
<1>2. IsRequest(request)
  BY <1>1, TabHasMode, StrippedDraft DEF IsRequest
<1>3. PreviewInv'
  BY <1>1, <1>2 DEF DesignInv, PreviewInv, IsPreview, IsRequest, Design!PlanFor
<1> QED
  BY <1>1, <1>3, OnlyPreviewChanges

\* The preview is answered, closed or confirmed.
LEMMA DesignPreviews ==
  ASSUME DesignInv,
         Design!PreviewDesignAnswer \/ Design!ClosePreview \/ Design!ConfirmDesign
  PROVE  DesignInv'
<1>1. UNCHANGED <<columns, tab, outcome>>
  BY DEF Design!PreviewDesignAnswer, Design!ClosePreview, Design!ConfirmDesign
<1>2. \A r, p : Design!PlanFor(r)' = Design!PlanFor(r)
  BY <1>1 DEF Design!PlanFor
<1>3. \A p : IsPreview(p) => IsPreview(p)'
  BY <1>2 DEF IsPreview, IsRequest
<1>4. CASE Design!PreviewDesignAnswer
  <2> PICK request : request = asked[1]
    OBVIOUS
  <2>1. asked = <<request>> /\ IsRequest(request) /\ asked' = <<>> /\ running' = running
    BY <1>4 DEF Design!PreviewDesignAnswer, DesignInv, PreviewInv
  <2>2. Head(asked) = request
    BY <2>1
  <2> PICK p : p = [open |-> TRUE, request |-> request, plan |-> Design!PlanFor(request),
                    confirmable |-> request.commit /\ ~Design!IsEmpty(Design!PlanFor(request)),
                    altered |-> FALSE]
    OBVIOUS
  <2>3. sqlPreview' = sqlPreview \/ sqlPreview' = p
    BY <1>4, <2>2 DEF Design!PreviewDesignAnswer
  <2>4. IsPreview(p)
    BY <2>1 DEF IsPreview
  <2>5. PreviewInv'
    BY <1>3, <2>1, <2>3, <2>4 DEF DesignInv, PreviewInv
  <2> QED
    BY <1>1, <2>5, OnlyPreviewChanges
<1>5. CASE Design!ClosePreview
  <2>1. sqlPreview' = [open |-> FALSE] /\ UNCHANGED <<asked, running>>
    BY <1>5 DEF Design!ClosePreview, Design!NoPreview
  <2>2. PreviewInv'
    BY <1>3, <2>1 DEF DesignInv, PreviewInv, IsRequest
  <2> QED
    BY <1>1, <2>2, OnlyPreviewChanges
<1>6. CASE Design!ConfirmDesign
  <2>1. /\ sqlPreview.open /\ sqlPreview' = [open |-> FALSE] /\ running' = <<sqlPreview>>
        /\ UNCHANGED asked
    BY <1>6 DEF Design!ConfirmDesign, Design!NoPreview
  <2>2. IsPreview(sqlPreview)
    BY <2>1 DEF DesignInv, PreviewInv
  <2>3. PreviewInv'
    BY <1>3, <2>1, <2>2 DEF DesignInv, PreviewInv, IsRequest
  <2> QED
    BY <1>1, <2>3, OnlyPreviewChanges
<1> QED
  BY <1>4, <1>5, <1>6

\* A dialog about a table that is altered says nothing of its plan any more.
LEMMA AlteredPreviews ==
  ASSUME NEW p, IsPreview(p)
  PROVE  IsPreview(Design!TableAltered(p))'
<1>1. PICK q, yes : q = [p EXCEPT !.altered = yes] /\ yes = TRUE
  OBVIOUS
<1>2. p = [open |-> p.open, request |-> p.request, plan |-> p.plan,
           confirmable |-> p.confirmable, altered |-> p.altered]
  BY DEF IsPreview
<1>3. q = [open |-> p.open, request |-> p.request, plan |-> p.plan,
           confirmable |-> p.confirmable, altered |-> yes]
  BY <1>1, <1>2
<1>4. Design!TableAltered(p) = q
  BY <1>1 DEF Design!TableAltered, IsPreview
<1>5. q.open = p.open /\ q.request = p.request /\ q.altered = yes
  BY <1>3
<1>6. q = [open |-> q.open, request |-> q.request, plan |-> q.plan,
           confirmable |-> q.confirmable, altered |-> q.altered]
  BY <1>3
<1> QED
  BY <1>1, <1>4, <1>5, <1>6 DEF IsPreview, IsRequest

\* Another client alters the table.
LEMMA DesignOthers ==
  ASSUME DesignInv, NEW n \in Names, NEW a \in {0, 1}, Design!OtherAlters(n, a)
  PROVE  DesignInv'
<1>1. /\ columns' = [m \in DOMAIN columns \cup {n} |-> IF m = n THEN a ELSE columns[m]]
      /\ sqlPreview' = Design!TableAltered(sqlPreview)
      /\ running' = [i \in DOMAIN running |-> Design!TableAltered(running[i])]
      /\ UNCHANGED <<tab, asked, outcome>>
  BY DEF Design!OtherAlters
<1>2. IsTable(columns')
  <2>1. n \in Nat \ {0}
    BY WorkbenchAssumption
  <2>2. IsTable(columns)
    BY DEF DesignInv
  <2>3. IsFiniteSet(DOMAIN columns \cup {n})
    BY <2>2, FS_AddElement DEF IsTable
  <2> QED
    BY <1>1, <2>1, <2>2, <2>3 DEF IsTable
<1>3. sqlPreview' # [open |-> FALSE] => IsPreview(sqlPreview)'
  <2>1. sqlPreview = [open |-> FALSE] => sqlPreview' = [open |-> FALSE]
    BY <1>1 DEF Design!TableAltered
  <2> QED
    BY <1>1, <2>1, AlteredPreviews DEF DesignInv, PreviewInv
<1>4. running' # <<>> => running' = <<running'[1]>> /\ IsPreview(running[1])'
  <2>1. CASE running = <<>>
    BY <1>1, <2>1
  <2>2. CASE running # <<>>
    <3>1. running = <<running[1]>> /\ IsPreview(running[1])
      BY <2>2 DEF DesignInv, PreviewInv
    <3>2. running' = <<Design!TableAltered(running[1])>>
      BY <1>1, <3>1
    <3> QED
      BY <3>1, <3>2, AlteredPreviews
  <2> QED
    BY <2>1, <2>2
<1>5. PreviewInv'
  BY <1>1, <1>3, <1>4 DEF DesignInv, PreviewInv, IsRequest
<1> QED
  BY <1>1, <1>2, <1>5 DEF DesignInv, DraftInv, OutcomeInv, IsTable, OriginsKept

\* A confirmed draft is executed, or that fails.
LEMMA DesignExecutes ==
  ASSUME DesignInv, NEW ok \in BOOLEAN, Design!Execute(ok)
  PROVE  DesignInv'
<1> PICK p, request, plan, t :
      /\ p = running[1] /\ request = p.request /\ plan = Design!PlanFor(request)
      /\ t = IF request.mode = "create" THEN <<>> ELSE columns
  OBVIOUS
<1>1. running # <<>> /\ running' = <<>> /\ UNCHANGED asked
  BY DEF Design!Execute
<1>2. running = <<p>> /\ IsPreview(p) /\ Head(running) = p
  BY <1>1 DEF DesignInv, PreviewInv
<1>3. CASE UNCHANGED <<columns, outcome, tab, designLoads, sqlPreview>>
  <2>1. PreviewInv'
    BY <1>1, <1>3 DEF DesignInv, PreviewInv, IsPreview, IsRequest, Design!PlanFor
  <2> QED
    BY <1>3, <2>1, OnlyPreviewChanges
<1>4. CASE ok /\ Design!Executable(request)
  <2>1. /\ columns' = Design!After(plan, t)
        /\ outcome' = [done |-> TRUE,
                       draft |-> {request.payload[i] : i \in DOMAIN request.payload},
                       left |-> {[name |-> n, attr |-> columns'[n]] : n \in DOMAIN columns'},
                       shown |-> p.plan, run |-> plan, altered |-> p.altered]
        /\ sqlPreview' = Design!TableAltered(sqlPreview)
        /\ Design!AfterExecution(request)
    BY <1>2, <1>4 DEF Design!Execute
  <2>2. IsTable(t)
    BY FirstDrafts DEF DesignInv
  <2>3. plan = Design!Plan(request.payload, t)
    BY DEF Design!PlanFor
  <2>4. request.payload \in Seq(Cell) /\ Design!Valid(request.payload)
    BY <1>2, <1>4 DEF IsPreview, IsRequest, Design!Executable
  <2>5. /\ IsTable(columns')
        /\ {[name |-> n, attr |-> columns'[n]] : n \in DOMAIN columns'}
             = {request.payload[i] : i \in DOMAIN request.payload}
    <3> PICK new : new = Design!After(plan, t)
      OBVIOUS
    <3>1. /\ IsTable(new)
          /\ {[name |-> n, attr |-> new[n]] : n \in DOMAIN new}
               = {request.payload[i] : i \in DOMAIN request.payload}
      BY <2>2, <2>3, <2>4, PlanMakesDraft
    <3> QED
      BY <2>1, <3>1
  <2>6. OutcomeInv'
    <3>1. /\ outcome'.left = {[name |-> n, attr |-> columns'[n]] : n \in DOMAIN columns'}
          /\ outcome'.draft = {request.payload[i] : i \in DOMAIN request.payload}
          /\ outcome'.shown = p.plan /\ outcome'.run = plan /\ outcome'.altered = p.altered
      BY <2>1
    <3>2. ~p.altered => p.plan = plan
      BY <1>2 DEF IsPreview
    <3> QED
      BY <2>5, <3>1, <3>2 DEF OutcomeInv
  <2>7. sqlPreview' # [open |-> FALSE] => IsPreview(sqlPreview)'
    <3>1. sqlPreview = [open |-> FALSE] => sqlPreview' = [open |-> FALSE]
      BY <2>1 DEF Design!TableAltered
    <3> QED
      BY <2>1, <3>1, AlteredPreviews DEF DesignInv, PreviewInv
  <2>8. PreviewInv'
    BY <1>1, <2>7 DEF DesignInv, PreviewInv, IsRequest
  <2>9. DraftInv'
    <3>1. CASE tab' = [mode |-> "edit", loading |-> TRUE, orig |-> <<>>, draft |-> <<>>]
      BY <3>1, FirstDrafts DEF DraftInv
    <3>2. CASE tab' = [tab EXCEPT !.loading = TRUE] /\ tab.mode = "edit"
      <4>1. /\ tab' = [mode |-> tab'.mode, loading |-> tab'.loading, orig |-> tab'.orig,
                       draft |-> tab'.draft]
            /\ tab'.mode = tab.mode /\ tab'.orig = tab.orig /\ tab'.draft = tab.draft
        BY <3>2, TabHasMode
      <4> QED
        BY <3>2, <4>1, TabHasMode DEF DraftInv
    <3>3. CASE tab' = tab
      BY <3>3 DEF DesignInv, DraftInv, IsTable, OriginsKept
    <3> QED
      BY <2>1, <3>1, <3>2, <3>3 DEF Design!AfterExecution
  <2> QED
    BY <2>5, <2>6, <2>8, <2>9 DEF DesignInv, IsTable
<1> QED
  BY <1>2, <1>3, <1>4 DEF Design!Execute

\* Every step of the design tab, and every step beside it, preserves the invariant.
LEMMA DesignNext ==
  ASSUME DesignInv, DesignStep \/ UNCHANGED designVars
  PROVE  DesignInv'
<1>1. CASE UNCHANGED designVars
  BY <1>1 DEF designVars, DesignInv, DraftInv, PreviewInv, OutcomeInv, IsTable, OriginsKept,
    IsPreview, IsRequest, Design!PlanFor
<1>2. CASE Design!Next
  <2>1. Design!Editing => tab.mode # "none"
    BY DEF Design!Editing
  <2> QED
    BY <1>2, <2>1, DesignOpens, DesignLoads, DesignAdds, DesignDeletes, DesignRestores, DesignRows,
      DesignAsks, DesignPreviews, DesignExecutes, DesignOthers DEF Design!Next
<1> QED
  BY <1>1, <1>2 DEF DesignStep

LEMMA DesignHolds == DesignInv => DraftBecomesTable /\ RunsWhatWasShown
<1> SUFFICES ASSUME DesignInv PROVE DraftBecomesTable /\ RunsWhatWasShown
  OBVIOUS
<1>1. Design!OriginsAreKept
  BY TabHasMode DEF OriginsKept, Design!OriginsAreKept, Design!NoOrigin
<1>2. Design!DraftBecomesTable /\ Design!RunsWhatWasShown
  BY DEF DesignInv, OutcomeInv, Design!DraftBecomesTable, Design!RunsWhatWasShown
<1> QED
  BY <1>1, <1>2 DEF DraftBecomesTable, RunsWhatWasShown

\* The invariant of the design tab holds in the window throughout.
LEMMA DesignAlways == Spec => []DesignInv
<1>1. Init => DesignInv
  BY DesignInit DEF Init
<1>2. DesignInv /\ [Next]_vars => DesignInv'
  BY DesignNext, Interleaves
<1> QED
  BY <1>1, <1>2, PTL DEF Spec

\* After Execute the table has the columns of the draft, and the draft keeps track of the
\* columns it was loaded with (DraftBecomesTable).
THEOREM DraftsBecomeTables == Spec => []DraftBecomesTable
<1>1. DesignInv => DraftBecomesTable
  BY DesignHolds
<1> QED
  BY <1>1, DesignAlways, PTL

\* What is executed is the SQL the dialog showed, unless the table was altered under it
\* (RunsWhatWasShown).
THEOREM ShownSqlIsRun == Spec => []RunsWhatWasShown
<1>1. DesignInv => RunsWhatWasShown
  BY DesignHolds
<1> QED
  BY <1>1, DesignAlways, PTL

----------------------------------------------------------------------------
(* The Redis workspace. *)

LEMMA RedisNobody == Redis!Nobody \notin RedisProfiles
BY WorkbenchAssumption DEF Redis!Nobody

IsScreen(v) ==
  /\ v = [known |-> v.known, open |-> v.open, active |-> v.active, db |-> v.db, dbOf |-> v.dbOf,
          scan |-> v.scan, keys |-> v.keys, detail |-> v.detail,
          window |-> v.window, form |-> v.form, busy |-> v.busy]
  /\ v.open \in Seq(RedisProfiles) /\ v.scan \in Nat
  /\ v.window = "form" => v.form \in RedisProfiles
CallShape(c) ==
  c = [op |-> c.op, at |-> c.at, scan |-> c.scan, next |-> c.next, clears |-> c.clears,
       active |-> c.active, open |-> c.open, dbOf |-> c.dbOf]
IsCall(c) ==
  /\ CallShape(c) /\ c.scan \in Nat /\ c.open \in Seq(RedisProfiles)
  /\ c.op \in {"save", "connect", "disconnect"} \/ (c.op = "profiles" /\ c.next = "saved") =>
       c.at = <<c.at[1], c.at[2]>> /\ c.at[1] \in RedisProfiles

\* tabs are of profiles in the store, and keys and detail of the tab in front
InPlace(v, saved) ==
  /\ Redis!SeqSet(v.open) \subseteq saved
  /\ v.active \in Redis!SeqSet(v.open) \cup {Redis!Nobody}
  /\ v.keys \subseteq {Redis!Here(v)} /\ v.detail \in {Redis!Nowhere, Redis!Here(v)}
  /\ v.active = Redis!Nobody => v.keys = {} /\ v.detail = Redis!Nowhere

\* handlers that go on with a place are at it, and the latest scan is of the tab in front
GoesOnHere(c) == c.op \in {"detail", "edit", "rename", "remove", "create"} \/ c.next = "detail"
SeesTabs(c) == c.op \in {"save", "disconnect"} \/ (c.op = "profiles" /\ c.next = "saved")
Holds(c, v) ==
  /\ c.op = "scan" => /\ c.scan <= v.scan
                      /\ c.scan = v.scan => c.at = Redis!Here(v) /\ c.at[1] # Redis!Nobody
                      /\ c.next = "delete" => c.open[1] \notin Redis!SeqSet(v.open)
  /\ GoesOnHere(c) => c.at = Redis!Here(v) /\ c.at[1] # Redis!Nobody
  /\ SeesTabs(c) => c.open = v.open
  /\ c.op = "disconnect" => c.active = v.active /\ c.at[1] \in Redis!SeqSet(v.open)
  /\ c.op = "delete" => c.at[1] \notin Redis!SeqSet(v.open)
RedisInv ==
  /\ IsScreen(redis) /\ \A c \in redisCalls : IsCall(c)
  /\ ~strayed => InPlace(redis, DOMAIN profiles) /\ \A c \in redisCalls : Holds(c, redis)

\* What is done to a screen, field by field.
LEMMA ScreenScans ==
  ASSUME NEW v, IsScreen(v), NEW w, w = Redis!Scanning(v)
  PROVE  /\ IsScreen(w) /\ w.scan = v.scan + 1 /\ w.keys = {} /\ w.detail = Redis!Nowhere
         /\ w.open = v.open /\ w.active = v.active /\ w.db = v.db /\ Redis!Here(w) = Redis!Here(v)
         /\ w.window = v.window /\ w.form = v.form /\ w.known = v.known
<1>1. w = [v EXCEPT !.scan = v.scan + 1, !.busy = v.busy \cup {"keys"}, !.keys = {}, !.detail = Redis!Nowhere]
  BY DEF Redis!Scanning, IsScreen
<1>2. /\ w = [known |-> w.known, open |-> w.open, active |-> w.active, db |-> w.db, dbOf |-> w.dbOf,
              scan |-> w.scan, keys |-> w.keys, detail |-> w.detail,
              window |-> w.window, form |-> w.form, busy |-> w.busy]
      /\ w.scan = v.scan + 1 /\ w.keys = {} /\ w.detail = Redis!Nowhere
      /\ w.open = v.open /\ w.active = v.active /\ w.db = v.db
      /\ w.window = v.window /\ w.form = v.form /\ w.known = v.known
  BY <1>1 DEF IsScreen
<1>3. v.scan + 1 \in Nat
  BY DEF IsScreen
<1> QED
  BY <1>2, <1>3 DEF IsScreen, Redis!Here

LEMMA ScreenFronts ==
  ASSUME NEW v, IsScreen(v), NEW p, NEW d, NEW w, w = Redis!Fronted(v, p, d)
  PROVE  /\ IsScreen(w) /\ w.scan = v.scan + 1 /\ w.keys = {} /\ w.detail = Redis!Nowhere
         /\ w.open = v.open /\ w.active = p /\ w.db = d /\ Redis!Here(w) = <<p, d>>
         /\ w.window = v.window /\ w.form = v.form /\ w.known = v.known
<1>1. PICK u : u = [v EXCEPT !.active = p]
  OBVIOUS
<1>2. u = [known |-> v.known, open |-> v.open, active |-> p, db |-> v.db, dbOf |-> v.dbOf,
           scan |-> v.scan, keys |-> v.keys, detail |-> v.detail,
           window |-> v.window, form |-> v.form, busy |-> v.busy]
  BY <1>1 DEF IsScreen
<1>3. w = [u EXCEPT !.scan = u.scan + 1, !.db = d, !.keys = {}, !.detail = Redis!Nowhere, !.busy = u.busy \ {"keys"}]
  BY <1>1, <1>2 DEF Redis!Fronted, Redis!resetKeyState
<1>4. /\ w = [known |-> w.known, open |-> w.open, active |-> w.active, db |-> w.db, dbOf |-> w.dbOf,
              scan |-> w.scan, keys |-> w.keys, detail |-> w.detail,
              window |-> w.window, form |-> w.form, busy |-> w.busy]
      /\ w.scan = v.scan + 1 /\ w.keys = {} /\ w.detail = Redis!Nowhere
      /\ w.open = v.open /\ w.active = p /\ w.db = d
      /\ w.window = v.window /\ w.form = v.form /\ w.known = v.known
  BY <1>2, <1>3
<1>5. v.scan + 1 \in Nat
  BY DEF IsScreen
<1> QED
  BY <1>4, <1>5 DEF IsScreen, Redis!Here

\* Windows and flags change nothing else.
SameView(w, v) ==
  /\ w.scan = v.scan /\ w.keys = v.keys /\ w.detail = v.detail /\ w.open = v.open
  /\ w.active = v.active /\ w.db = v.db /\ Redis!Here(w) = Redis!Here(v)
SameButFlags(w, v) ==
  /\ SameView(w, v)
  /\ w.window = v.window /\ w.form = v.form /\ w.known = v.known
LEMMA ScreenFlags ==
  ASSUME NEW v, IsScreen(v), NEW flags, NEW w, w \in {Redis!Idle(v, flags), Redis!Working(v, flags)}
  PROVE  IsScreen(w) /\ SameButFlags(w, v)
<1>1. PICK busy : w = [v EXCEPT !.busy = busy]
  BY DEF Redis!Idle, Redis!Working, IsScreen
<1> QED
  BY <1>1 DEF IsScreen, SameButFlags, SameView, Redis!Here

\* A handler that has nothing to do next.
Done == ""
LEMMA DoneIs == Done # "saved" /\ Done # "detail" /\ Done # "delete" /\ Done # "ttl"
BY Zenon DEF Done

\* What a call is, field by field.
CallAs(c, op, at, scan, next, clears, open) ==
  /\ CallShape(c) /\ c.op = op /\ c.at = at /\ c.scan = scan /\ c.next = next /\ c.clears = clears
  /\ c.open = open
LEMMA CallIs ==
  ASSUME NEW op, NEW at, NEW c, c = Redis!Call(op, at)
  PROVE  CallAs(c, op, at, 0, Done, {}, <<>>)
BY DEF Redis!Call, CallShape, CallAs, Done
LEMMA HandlerIs ==
  ASSUME NEW op, NEW at, NEW v, NEW c, c = Redis!Handler(op, at, v)
  PROVE  CallAs(c, op, at, 0, Done, {}, v.open) /\ c.active = v.active
<1>1. PICK b : b = Redis!Call(op, at)
  OBVIOUS
<1>2. c = [b EXCEPT !.active = v.active, !.open = v.open, !.dbOf = v.dbOf]
  BY <1>1 DEF Redis!Handler
<1>3. CallAs(b, op, at, 0, Done, {}, <<>>)
  BY <1>1, CallIs
<1> QED
  BY <1>2, <1>3 DEF CallShape, CallAs
LEMMA ScanIs ==
  ASSUME NEW at, NEW v, NEW next, NEW clears, NEW c, c = Redis!ScanOf(v, at, next, clears)
  PROVE  CallAs(c, "scan", at, v.scan, next, clears, <<>>)
<1>1. PICK b : b = Redis!Call("scan", at)
  OBVIOUS
<1>2. c = [b EXCEPT !.scan = v.scan, !.next = next, !.clears = clears]
  BY <1>1 DEF Redis!ScanOf
<1>3. CallAs(b, "scan", at, 0, Done, {}, <<>>)
  BY <1>1, CallIs
<1> QED
  BY <1>2, <1>3 DEF CallShape, CallAs
LEMMA DetailIs ==
  ASSUME NEW at, NEW clears, NEW c, c = Redis!DetailOf(at, clears)
  PROVE  CallAs(c, "detail", at, 0, Done, clears \cup {"detail"}, <<>>)
<1>1. PICK b : b = Redis!Call("detail", at)
  OBVIOUS
<1>2. c = [b EXCEPT !.clears = clears \cup {"detail"}]
  BY <1>1 DEF Redis!DetailOf
<1>3. CallAs(b, "detail", at, 0, Done, {}, <<>>)
  BY <1>1, CallIs
<1> QED
  BY <1>2, <1>3 DEF CallShape, CallAs
\* The screen moves on, and whatever else is waiting is as it was to it, or it has strayed.
LEMMA OthersHold ==
  ASSUME NEW v, NEW rest, ~Redis!Strays(v, rest), NEW c \in rest, IsCall(c), Holds(c, redis),
         IsScreen(redis), IsScreen(v), v.scan >= redis.scan,
         \/ Redis!Here(v) = Redis!Here(redis) \/ v.scan > redis.scan
         \/ redis.active = Redis!Nobody
  PROVE  Holds(c, v)
<1>1. CASE c.op # "scan" \/ c.next # Done \/ "detail" \in c.clears
  <2>1. Redis!Here(v) = Redis!Here(redis) /\ v.scan = redis.scan /\ v.open = redis.open
    BY <1>1, Zenon DEF Redis!Strays, Redis!Bound, Redis!Moves, Done
  <2>2. v.active = redis.active
    BY <2>1 DEF Redis!Here
  <2> QED
    BY <2>1, <2>2 DEF Holds
<1>2. CASE c.op = "scan" /\ c.next = Done
  <2>1. v.scan \in Nat /\ redis.scan \in Nat /\ c.scan \in Nat /\ c.scan <= redis.scan
    BY <1>2 DEF IsScreen, IsCall, Holds
  <2>2. c.scan <= v.scan
    BY <2>1
  <2>3. ASSUME c.scan = v.scan
        PROVE  c.at = Redis!Here(v) /\ c.at[1] # Redis!Nobody
    <3>1. v.scan = redis.scan /\ c.scan = redis.scan
      BY <2>1, <2>3
    <3>2. c.at = Redis!Here(redis) /\ c.at[1] # Redis!Nobody
      BY <1>2, <3>1 DEF Holds
    <3>3. ~(v.scan > redis.scan)
      BY <2>1, <3>1
    <3>4. redis.active # Redis!Nobody
      BY <3>2 DEF Redis!Here
    <3> QED
      BY <3>2, <3>3, <3>4
  <2> QED
    BY <1>2, <2>2, <2>3, DoneIs DEF Holds, GoesOnHere, SeesTabs
<1> QED
  BY <1>1, <1>2

LEMMA RedisMoves ==
  ASSUME RedisInv, NEW v, NEW rest, NEW calls, rest \subseteq redisCalls,
         redis' = v, redisCalls' = rest \cup calls, strayed' = (strayed \/ Redis!Strays(v, rest)),
         IsScreen(v), v.scan >= redis.scan,
         ~strayed' => \/ Redis!Here(v) = Redis!Here(redis) \/ v.scan > redis.scan
                      \/ redis.active = Redis!Nobody,
         \A c \in calls : IsCall(c) /\ (~strayed' => Holds(c, v)),
         ~strayed' => InPlace(v, DOMAIN profiles')
  PROVE  RedisInv'
<1>1. IsScreen(redis') /\ \A c \in redisCalls' : IsCall(c)
  BY DEF RedisInv
<1>2. ASSUME ~strayed', NEW c \in redisCalls' PROVE Holds(c, redis')
  <2>1. CASE c \in calls
    BY <1>2, <2>1
  <2>2. CASE c \in rest
    <3>1. ~strayed /\ ~Redis!Strays(v, rest)
      BY <1>2
    <3>2. IsCall(c) /\ Holds(c, redis) /\ IsScreen(redis)
      BY <2>2, <3>1 DEF RedisInv
    <3> QED
      BY <1>2, <2>2, <3>1, <3>2, OthersHold
  <2> QED
    BY <2>1, <2>2
<1> QED
  BY <1>1, <1>2 DEF RedisInv

LEMMA RedisStarts ==
  ASSUME RedisInv, NEW v, NEW calls, Redis!Start(v, calls),
         IsScreen(v), v.scan >= redis.scan,
         ~strayed' => \/ Redis!Here(v) = Redis!Here(redis) \/ v.scan > redis.scan
                      \/ redis.active = Redis!Nobody,
         \A c \in calls : IsCall(c) /\ (~strayed' => Holds(c, v)),
         ~strayed' => InPlace(v, DOMAIN profiles)
  PROVE  RedisInv'
<1>1. /\ redis' = v /\ redisCalls' = redisCalls \cup calls /\ profiles' = profiles
      /\ strayed' = (strayed \/ Redis!Strays(v, redisCalls))
  BY DEF Redis!Start
<1> QED
  BY <1>1, RedisMoves

LEMMA RedisGoesOn ==
  ASSUME RedisInv, NEW e, NEW v, NEW calls, Redis!GoOn(e, v, calls),
         IsScreen(v), v.scan >= redis.scan,
         Redis!Here(v) = Redis!Here(redis) \/ v.scan > redis.scan,
         \A c \in calls : IsCall(c) /\ (~strayed' => Holds(c, v)),
         ~strayed' => InPlace(v, DOMAIN profiles')
  PROVE  RedisInv'
<1>1. PICK rest : rest = redisCalls \ {e}
  OBVIOUS
<1>2. /\ redis' = v /\ redisCalls' = rest \cup calls /\ rest \subseteq redisCalls
      /\ strayed' = (strayed \/ Redis!Strays(v, rest))
  BY <1>1 DEF Redis!GoOn
<1> QED
  BY <1>2, RedisMoves

LEMMA RedisInit == Redis!Init => RedisInv
<1> SUFFICES ASSUME Redis!Init PROVE RedisInv
  OBVIOUS
<1>1. PICK b : b = Redis!Handler("profiles", Redis!Nowhere, redis)
  OBVIOUS
<1>2. PICK c : c = [b EXCEPT !.clears = {"connection"}]
  OBVIOUS
<1>3. redisCalls = {c}
  BY <1>1, <1>2 DEF Redis!Init
<1>4. CallAs(b, "profiles", Redis!Nowhere, 0, Done, {}, redis.open)
  BY <1>1, HandlerIs
<1>5. CallShape(c) /\ c.op = "profiles" /\ c.scan = 0 /\ c.next = Done /\ c.open = redis.open
  BY <1>2, <1>4 DEF CallAs, CallShape
<1>6. /\ redis.open = <<>> /\ redis.active = Redis!Nobody /\ redis.scan = 0 /\ redis.keys = {}
      /\ redis.detail = Redis!Nowhere /\ redis.window = "none"
  BY DEF Redis!Init
<1>7. <<>> \in Seq(RedisProfiles) /\ Redis!SeqSet(<<>>) = {}
  BY DEF Redis!SeqSet
<1>8. IsScreen(redis)
  BY <1>6, <1>7 DEF IsScreen, Redis!Init
<1>9. IsCall(c) /\ Holds(c, redis)
  <2>1. c.open \in Seq(RedisProfiles)
    BY <1>5, <1>6, <1>7
  <2>2. c.scan \in Nat /\ c.next # "saved"
    BY <1>5, DoneIs
  <2>3. IsCall(c)
    BY <1>5, <2>1, <2>2 DEF IsCall
  <2>4. Holds(c, redis)
    BY <1>5, DoneIs DEF Holds, GoesOnHere, SeesTabs
  <2> QED
    BY <2>3, <2>4
<1>10. InPlace(redis, DOMAIN profiles)
  BY <1>6, <1>7 DEF InPlace
<1> QED
  BY <1>3, <1>8, <1>9, <1>10 DEF RedisInv

\* A scan of a place is under way, and handlers that are none.
LEMMA ScanStarted ==
  ASSUME NEW v, IsScreen(v), NEW at, NEW next, NEW clears,
         NEW c, c = Redis!ScanOf(v, at, next, clears)
  PROVE  /\ IsCall(c)
         /\ next # "delete" /\ at = Redis!Here(v) /\ at[1] # Redis!Nobody => Holds(c, v)
<1>1. CallAs(c, "scan", at, v.scan, next, clears, <<>>)
  BY ScanIs
<1>2. <<>> \in Seq(RedisProfiles)
  OBVIOUS
<1>3. c.scan = v.scan /\ v.scan \in Nat /\ c.scan <= v.scan
  BY <1>1 DEF CallAs, IsScreen
<1>4. IsCall(c)
  BY <1>1, <1>2, <1>3 DEF CallAs, IsCall
<1>5. next # "delete" /\ at = Redis!Here(v) /\ at[1] # Redis!Nobody => Holds(c, v)
  BY <1>1, <1>3, DoneIs DEF CallAs, Holds, SeesTabs
<1> QED
  BY <1>4, <1>5
LEMMA HandlerStarted ==
  ASSUME NEW op, NEW at, NEW next, next # "saved", NEW clears, NEW open, open \in Seq(RedisProfiles),
         op \in {"save", "connect", "disconnect"} => at = <<at[1], at[2]>> /\ at[1] \in RedisProfiles,
         NEW c, CallAs(c, op, at, 0, next, clears, open)
  PROVE  IsCall(c)
<1>1. c.scan \in Nat
  BY DEF CallAs
<1> QED
  BY <1>1 DEF CallAs, IsCall
\* A handler that is bound to nothing, and one that looks at the tabs.
LEMMA UnboundHolds ==
  ASSUME NEW c, c.op \in {"test", "group", "connect"} \/ (c.op = "profiles" /\ c.next # "saved"), c.next # "detail"
  PROVE  \A v : Holds(c, v)
BY DEF Holds, GoesOnHere, SeesTabs

\* Gestures that only open a window or show that something is under way.
LEMMA SameScreen ==
  ASSUME RedisInv, NEW v, IsScreen(v), SameView(v, redis), NEW calls, Redis!Start(v, calls),
         \A c \in calls : IsCall(c) /\ (~strayed => Holds(c, v))
  PROVE  RedisInv'
<1>1. strayed' = (strayed \/ Redis!Strays(v, redisCalls))
  BY DEF Redis!Start
<1>2. v.scan >= redis.scan
  BY DEF IsScreen, SameView
<1>3. ~strayed' => InPlace(v, DOMAIN profiles)
  BY <1>1 DEF RedisInv, InPlace, SameView
<1> QED
  BY <1>1, <1>2, <1>3, RedisStarts DEF SameView

LEMMA WindowMoves ==
  ASSUME RedisInv, NEW to, NEW p, to = "form" => p \in RedisProfiles,
         Redis!Start([redis EXCEPT !.window = to, !.form = p], {})
  PROVE  RedisInv'
<1>1. PICK v : v = [redis EXCEPT !.window = to, !.form = p]
  OBVIOUS
<1>2. IsScreen(v) /\ SameView(v, redis)
  BY <1>1 DEF RedisInv, IsScreen, SameView, Redis!Here
<1>3. Redis!Start(v, {})
  BY <1>1
<1> QED
  BY <1>2, <1>3, SameScreen

LEMMA RedisWindows ==
  ASSUME RedisInv,
         \/ Redis!toggleProfilePicker \/ Redis!openCreateKeyForm \/ Redis!CloseWindow
         \/ \E p \in RedisProfiles : Redis!openForm(p)
  PROVE  RedisInv'
<1>1. ASSUME NEW from, NEW to, to # "form", Redis!Window(from, to) PROVE RedisInv'
  BY <1>1, WindowMoves DEF Redis!Window
<1>2. ASSUME NEW p \in RedisProfiles, Redis!openForm(p) PROVE RedisInv'
  BY <1>2, WindowMoves DEF Redis!openForm
<1> QED
  BY <1>1, <1>2 DEF Redis!toggleProfilePicker, Redis!openCreateKeyForm, Redis!CloseWindow

\* A handler starts, and shows it.
LEMMA RedisAsks ==
  ASSUME RedisInv, NEW flag, NEW c, Redis!Start(Redis!Working(redis, flag), {c}), IsCall(c),
         ~strayed => \A v : SameView(v, redis) => Holds(c, v)
  PROVE  RedisInv'
<1>1. PICK v : v = Redis!Working(redis, flag)
  OBVIOUS
<1>2. IsScreen(v) /\ SameView(v, redis)
  BY <1>1, ScreenFlags DEF RedisInv, SameButFlags
<1> QED
  BY <1>1, <1>2, SameScreen

LEMMA FormHandlers ==
  ASSUME RedisInv,
         \/ Redis!handleTestConnection \/ Redis!ChangeGroups
         \/ \E d \in Indexes : Redis!handleSaveConnection(d)
  PROVE  RedisInv'
<1>1. redis.open \in Seq(RedisProfiles) /\ (redis.window = "form" => redis.form \in RedisProfiles)
  BY DEF RedisInv, IsScreen
<1>2. CASE Redis!handleTestConnection
  <2>1. PICK b : b = Redis!Call("test", <<redis.form, 0>>)
    OBVIOUS
  <2>2. PICK c : c = [b EXCEPT !.clears = {"form"}]
    OBVIOUS
  <2>3. CallAs(b, "test", <<redis.form, 0>>, 0, Done, {}, <<>>)
    BY <2>1, CallIs
  <2>4. CallAs(c, "test", <<redis.form, 0>>, 0, Done, {"form"}, <<>>)
    BY <2>2, <2>3 DEF CallAs, CallShape
  <2>5. IsCall(c)
    <3>1. <<>> \in Seq(RedisProfiles)
      OBVIOUS
    <3> QED
      BY <2>4, <3>1, DoneIs, HandlerStarted
  <2>6. \A v : Holds(c, v)
    BY <2>4, DoneIs, UnboundHolds DEF CallAs
  <2>7. Redis!Start(Redis!Working(redis, "form"), {c})
    BY <1>2, <2>1, <2>2 DEF Redis!handleTestConnection
  <2> QED
    BY <2>5, <2>6, <2>7, RedisAsks
<1>3. CASE Redis!ChangeGroups
  <2>1. PICK at : at = Redis!Here(redis)
    OBVIOUS
  <2>2. PICK c : c = Redis!Handler("group", at, redis)
    OBVIOUS
  <2>3. CallAs(c, "group", at, 0, Done, {}, redis.open)
    BY <2>2, HandlerIs
  <2>4. IsCall(c) /\ \A v : Holds(c, v)
    BY <1>1, <2>3, DoneIs, HandlerStarted, UnboundHolds DEF CallAs
  <2>5. Redis!Start(Redis!Working(redis, "group"), {c})
    BY <1>3, <2>1, <2>2 DEF Redis!ChangeGroups
  <2> QED
    BY <2>4, <2>5, RedisAsks
<1>4. ASSUME NEW d \in Indexes, Redis!handleSaveConnection(d)
      PROVE  RedisInv'
  <2>1. PICK at : at = <<redis.form, d>>
    OBVIOUS
  <2>2. PICK c : c = Redis!Handler("save", at, redis)
    OBVIOUS
  <2>3. CallAs(c, "save", at, 0, Done, {}, redis.open)
    BY <2>2, HandlerIs
  <2>4. at = <<at[1], at[2]>> /\ at[1] \in RedisProfiles
    BY <1>1, <1>4, <2>1 DEF Redis!handleSaveConnection
  <2>5. IsCall(c)
    BY <1>1, <2>3, <2>4, DoneIs, HandlerStarted
  <2>6. \A v : SameView(v, redis) => Holds(c, v)
    BY <2>3, DoneIs DEF CallAs, Holds, GoesOnHere, SeesTabs, SameView
  <2>7. Redis!Start(Redis!Working(redis, "form"), {c})
    BY <1>4, <2>1, <2>2 DEF Redis!handleSaveConnection
  <2> QED
    BY <2>5, <2>6, <2>7, RedisAsks
<1> QED
  BY <1>2, <1>3, <1>4

\* A scan of the tab that is in front, or comes to it.
LEMMA RedisScans ==
  ASSUME RedisInv, NEW v, IsScreen(v), Redis!StartScan(v), v.scan >= redis.scan, v.open = redis.open,
         v.active # Redis!Nobody, ~strayed => v.active \in Redis!SeqSet(v.open) \cup {Redis!Nobody}
  PROVE  RedisInv'
<1>1. PICK w : w = Redis!Scanning(v)
  OBVIOUS
<1>2. PICK at : at = Redis!Here(v)
  OBVIOUS
<1>3. PICK c : c = Redis!ScanOf(w, at, Done, {})
  OBVIOUS
<1>4. Redis!Start(w, {c})
  BY <1>1, <1>2, <1>3, Zenon DEF Redis!StartScan, Done
<1>5. /\ IsScreen(w) /\ w.scan = v.scan + 1 /\ w.keys = {} /\ w.detail = Redis!Nowhere
      /\ w.open = v.open /\ w.active = v.active /\ Redis!Here(w) = at
  BY <1>1, <1>2, ScreenScans
<1>6. w.scan >= redis.scan /\ w.scan > redis.scan
  BY <1>5 DEF RedisInv, IsScreen
<1>7. at[1] # Redis!Nobody
  BY <1>2 DEF Redis!Here
<1>8. IsCall(c) /\ Holds(c, w)
  BY <1>3, <1>5, <1>7, DoneIs, ScanStarted
<1>9. strayed' = (strayed \/ Redis!Strays(w, redisCalls))
  BY <1>4 DEF Redis!Start
<1>10. ~strayed' => InPlace(w, DOMAIN profiles)
  BY <1>5, <1>9 DEF RedisInv, InPlace
<1> QED
  BY <1>4, <1>5, <1>6, <1>8, <1>10, RedisStarts

\* A tab comes to the front.
LEMMA TabFronted ==
  ASSUME RedisInv, NEW p \in RedisProfiles, p \in Redis!SeqSet(redis.open),
         NEW v, v = Redis!handleActivateProfileTab(redis, p)
  PROVE  /\ IsScreen(v) /\ v.scan >= redis.scan /\ v.open = redis.open
         /\ v.active = p /\ v.active # Redis!Nobody /\ v.active \in Redis!SeqSet(v.open)
<1>1. PICK d : d = redis.dbOf[p]
  OBVIOUS
<1>2. v = Redis!Fronted(redis, p, d)
  BY <1>1 DEF Redis!handleActivateProfileTab
<1>3. IsScreen(redis) /\ redis.scan \in Nat
  BY DEF RedisInv, IsScreen
<1>4. IsScreen(v) /\ v.scan = redis.scan + 1 /\ v.open = redis.open /\ v.active = p
  BY <1>2, <1>3, ScreenFronts
<1> QED
  BY <1>3, <1>4, RedisNobody

LEMMA RedisActivates ==
  ASSUME RedisInv, NEW p \in RedisProfiles, Redis!ActivateTab(p)
  PROVE  RedisInv'
<1>1. PICK v : v = Redis!handleActivateProfileTab(redis, p)
  OBVIOUS
<1>2. p \in Redis!SeqSet(redis.open) /\ Redis!StartScan(v)
  BY <1>1 DEF Redis!ActivateTab
<1> QED
  BY <1>1, <1>2, TabFronted, RedisScans

\* What an opening, closing or deleting handler is.
LEMMA RedisOpens ==
  ASSUME RedisInv, NEW p \in RedisProfiles, Redis!handleOpenProfileTab(p)
  PROVE  RedisInv'
<1>1. CASE p \notin Redis!SeqSet(redis.open)
  <2>1. PICK at : at = <<p, 0>>
    OBVIOUS
  <2>2. PICK b : b = Redis!Call("connect", at)
    OBVIOUS
  <2>3. PICK c : c = [b EXCEPT !.clears = {"connection"}]
    OBVIOUS
  <2>4. CallAs(b, "connect", at, 0, Done, {}, <<>>)
    BY <2>2, CallIs
  <2>5. CallAs(c, "connect", at, 0, Done, {"connection"}, <<>>)
    BY <2>3, <2>4 DEF CallAs, CallShape
  <2>6. at = <<at[1], at[2]>> /\ at[1] \in RedisProfiles
    BY <2>1
  <2>7. IsCall(c)
    <3>1. <<>> \in Seq(RedisProfiles)
      OBVIOUS
    <3> QED
      BY <2>5, <2>6, <3>1, DoneIs, HandlerStarted
  <2>8. \A v : Holds(c, v)
    BY <2>5, DoneIs, UnboundHolds DEF CallAs
  <2>9. Redis!Start(Redis!Working(redis, "connection"), {c})
    BY <1>1, <2>1, <2>2, <2>3 DEF Redis!handleOpenProfileTab
  <2> QED
    BY <2>7, <2>8, <2>9, RedisAsks
<1>2. CASE p \in Redis!SeqSet(redis.open)
  <2>1. PICK w : w = Redis!handleActivateProfileTab(redis, p)
    OBVIOUS
  <2>2. PICK v : v = [w EXCEPT !.window = "none"]
    OBVIOUS
  <2>3. Redis!StartScan(v)
    BY <1>2, <2>1, <2>2 DEF Redis!handleOpenProfileTab
  <2>4. /\ IsScreen(w) /\ w.scan >= redis.scan /\ w.open = redis.open
        /\ w.active # Redis!Nobody /\ w.active \in Redis!SeqSet(w.open)
    BY <1>2, <2>1, TabFronted
  <2>5. /\ IsScreen(v) /\ v.scan >= redis.scan /\ v.open = redis.open
        /\ v.active # Redis!Nobody /\ v.active \in Redis!SeqSet(v.open)
    BY <2>2, <2>4 DEF IsScreen
  <2> QED
    BY <2>3, <2>5, RedisScans
<1> QED
  BY <1>1, <1>2

LEMMA RedisCloses ==
  ASSUME RedisInv, NEW p \in RedisProfiles, p \in Redis!SeqSet(redis.open), NEW next, next \in {Done, "delete"},
         NEW clears, NEW b, b = Redis!Handler("disconnect", <<p, 0>>, redis),
         NEW c, c = [b EXCEPT !.next = next, !.clears = clears],
         Redis!Start(Redis!Working(redis, "connection"), {c})
  PROVE  RedisInv'
<1>1. PICK at : at = <<p, 0>>
  OBVIOUS
<1>2. CallAs(b, "disconnect", at, 0, Done, {}, redis.open) /\ b.active = redis.active
  BY <1>1, HandlerIs
<1>3. CallAs(c, "disconnect", at, 0, next, clears, redis.open) /\ c.active = redis.active
  BY <1>2 DEF CallAs, CallShape
<1>4. redis.open \in Seq(RedisProfiles) /\ at[1] = p /\ at = <<at[1], at[2]>>
  BY <1>1 DEF RedisInv, IsScreen
<1>5. IsCall(c)
  BY <1>3, <1>4, DoneIs, HandlerStarted
<1>6. \A v : SameView(v, redis) => Holds(c, v)
  BY <1>3, <1>4, DoneIs DEF CallAs, Holds, GoesOnHere, SeesTabs, SameView
<1> QED
  BY <1>5, <1>6, RedisAsks

LEMMA RedisRemoves ==
  ASSUME RedisInv, NEW p \in RedisProfiles, Redis!handleCloseProfileTab(p) \/ Redis!handleDeleteConnection(p)
  PROVE  RedisInv'
<1>1. PICK b : b = Redis!Handler("disconnect", <<p, 0>>, redis)
  OBVIOUS
<1>2. CallAs(b, "disconnect", <<p, 0>>, 0, Done, {}, redis.open)
  BY <1>1, HandlerIs
<1>3. CASE Redis!handleCloseProfileTab(p)
  <2>1. PICK c : c = [b EXCEPT !.clears = {"connection"}]
    OBVIOUS
  <2>2. c = [b EXCEPT !.next = Done, !.clears = {"connection"}]
    BY <1>2, <2>1 DEF CallAs, CallShape
  <2>3. Redis!Start(Redis!Working(redis, "connection"), {c}) /\ p \in Redis!SeqSet(redis.open)
    BY <1>1, <1>3, <2>1 DEF Redis!handleCloseProfileTab
  <2> QED
    BY <1>1, <2>2, <2>3, RedisCloses
<1>4. CASE Redis!handleDeleteConnection(p) /\ p \in Redis!SeqSet(redis.open)
  <2>1. PICK c : c = [b EXCEPT !.next = "delete"]
    OBVIOUS
  <2>2. c = [b EXCEPT !.next = "delete", !.clears = {}]
    BY <1>2, <2>1 DEF CallAs, CallShape
  <2>3. Redis!Start(Redis!Working(redis, "connection"), {c})
    BY <1>1, <1>4, <2>1 DEF Redis!handleDeleteConnection
  <2> QED
    BY <1>1, <1>4, <2>2, <2>3, RedisCloses
<1>5. CASE Redis!handleDeleteConnection(p) /\ p \notin Redis!SeqSet(redis.open)
  <2>1. PICK at : at = <<p, 0>>
    OBVIOUS
  <2>2. PICK c : c = Redis!Handler("delete", at, redis)
    OBVIOUS
  <2>3. CallAs(c, "delete", at, 0, Done, {}, redis.open) /\ at[1] = p
    BY <2>1, <2>2, HandlerIs
  <2>4. IsCall(c)
    <3>1. redis.open \in Seq(RedisProfiles)
      BY DEF RedisInv, IsScreen
    <3> QED
      BY <2>3, <3>1, DoneIs, HandlerStarted
  <2>5. \A v : SameView(v, redis) => Holds(c, v)
    BY <1>5, <2>3, DoneIs DEF CallAs, Holds, GoesOnHere, SeesTabs, SameView
  <2>6. Redis!Start(Redis!Working(redis, "connection"), {c})
    BY <1>5, <2>1, <2>2 DEF Redis!handleDeleteConnection
  <2> QED
    BY <2>4, <2>5, <2>6, RedisAsks
<1> QED
  BY <1>3, <1>4, <1>5

LEMMA RedisRefreshes ==
  ASSUME RedisInv, Redis!RefreshKeys
  PROVE  RedisInv'
<1>1. Redis!StartScan(redis) /\ redis.active # Redis!Nobody
  BY DEF Redis!RefreshKeys, Redis!activeProfile
<1>2. IsScreen(redis) /\ redis.scan >= redis.scan
  BY DEF RedisInv, IsScreen
<1>3. ~strayed => redis.active \in Redis!SeqSet(redis.open) \cup {Redis!Nobody}
  BY DEF RedisInv, InPlace
<1> QED
  BY <1>1, <1>2, <1>3, RedisScans

LEMMA RedisSelects ==
  ASSUME RedisInv, NEW d, Redis!SelectDb(d)
  PROVE  RedisInv'
<1>1. CASE Redis!activeProfile(redis) = Redis!Nobody
  <2>1. PICK v : v = [redis EXCEPT !.db = d]
    OBVIOUS
  <2>2. Redis!Start(v, {}) /\ d # redis.db
    BY <1>1, <2>1 DEF Redis!SelectDb
  <2>3. /\ IsScreen(v) /\ v.scan = redis.scan /\ v.keys = redis.keys /\ v.detail = redis.detail
        /\ v.open = redis.open /\ v.active = redis.active /\ v.db = d /\ v.known = redis.known
    BY <2>1 DEF RedisInv, IsScreen
  <2>4. v.scan >= redis.scan
    BY <2>3 DEF IsScreen
  <2>5. strayed' = (strayed \/ Redis!Strays(v, redisCalls))
    BY <2>2 DEF Redis!Start
  <2>6. redis.active # Redis!Nobody => strayed'
    <3>1. SUFFICES ASSUME redis.active # Redis!Nobody PROVE Redis!Strays(v, redisCalls)
      BY <2>5
    <3>2. Redis!Here(v) # Redis!Here(redis)
      BY <2>2, <2>3 DEF Redis!Here
    <3>3. Redis!activeProfile(v) = Redis!Nobody
      BY <1>1, <2>3 DEF Redis!activeProfile
    <3> QED
      BY <2>3, <3>1, <3>2, <3>3 DEF Redis!Strays, Redis!Moves
  <2>7. ~strayed' => InPlace(v, DOMAIN profiles)
    BY <2>3, <2>5, <2>6 DEF RedisInv, InPlace
  <2> QED
    BY <2>2, <2>3, <2>4, <2>6, <2>7, RedisStarts
<1>2. CASE Redis!activeProfile(redis) # Redis!Nobody
  <2>1. PICK of : of = [redis.dbOf EXCEPT ![redis.active] = d]
    OBVIOUS
  <2>2. PICK v : v = [redis EXCEPT !.db = d, !.dbOf = of]
    OBVIOUS
  <2>3. Redis!StartScan(v)
    <3>1. v = [redis EXCEPT !.db = d, !.dbOf = [redis.dbOf EXCEPT ![redis.active] = d]]
      BY <2>1, <2>2
    <3> QED
      BY <1>2, <3>1 DEF Redis!SelectDb, RedisInv, IsScreen
  <2>4. IsScreen(v) /\ v.scan = redis.scan /\ v.open = redis.open /\ v.active = redis.active
    BY <2>2 DEF RedisInv, IsScreen
  <2>5. v.scan >= redis.scan /\ v.active # Redis!Nobody
    BY <1>2, <2>4 DEF IsScreen, Redis!activeProfile
  <2>6. ~strayed => v.active \in Redis!SeqSet(v.open) \cup {Redis!Nobody}
    BY <2>4 DEF RedisInv, InPlace
  <2> QED
    BY <2>3, <2>4, <2>5, <2>6, RedisScans
<1> QED
  BY <1>1, <1>2

\* Reading a key, changing it, or making one.
LEMMA KeyHandlers ==
  ASSUME RedisInv,
         \/ Redis!loadDetail \/ Redis!handleCreateStringKey
         \/ \E op \in {"edit", "rename", "remove"} : Redis!Mutate(op)
  PROVE  RedisInv'
<1>1. PICK at : at = Redis!Here(redis)
  OBVIOUS
<1>2. ASSUME NEW op, op \in {"detail", "create", "edit", "rename", "remove"}, redis.active # Redis!Nobody,
             NEW next, next \in {Done, "ttl"}, NEW clears, NEW c, CallAs(c, op, at, 0, next, clears, <<>>),
             NEW flag, Redis!Start(Redis!Working(redis, flag), {c})
      PROVE  RedisInv'
  <2>1. IsCall(c)
    <3>1. <<>> \in Seq(RedisProfiles)
      OBVIOUS
    <3> QED
      BY <1>2, <3>1, DoneIs, HandlerStarted
  <2>2. at[1] # Redis!Nobody
    BY <1>1, <1>2 DEF Redis!Here
  <2>3. \A v : SameView(v, redis) => Holds(c, v)
    BY <1>1, <1>2, <2>2, DoneIs DEF CallAs, Holds, SeesTabs, SameView
  <2> QED
    BY <1>2, <2>1, <2>3, RedisAsks
<1>3. CASE Redis!loadDetail
  <2>1. PICK b : b = Redis!Call("detail", at)
    OBVIOUS
  <2>2. PICK c : c = [b EXCEPT !.clears = {} \cup {"detail"}]
    OBVIOUS
  <2>3. CallAs(b, "detail", at, 0, Done, {}, <<>>)
    BY <2>1, CallIs
  <2>4. CallAs(c, "detail", at, 0, Done, {} \cup {"detail"}, <<>>)
    BY <2>2, <2>3 DEF CallAs, CallShape
  <2>5. Redis!Start(Redis!Working(redis, "detail"), {c}) /\ redis.active # Redis!Nobody
    BY <1>1, <1>3, <2>1, <2>2 DEF Redis!loadDetail, Redis!DetailOf, Redis!activeProfile
  <2> QED
    BY <1>2, <2>4, <2>5
<1>4. CASE Redis!handleCreateStringKey
  <2>1. PICK b : b = Redis!Call("create", at)
    OBVIOUS
  <2>2. PICK ttl \in {Done, "ttl"} : Redis!Start(Redis!Working(redis, "newKey"), {[b EXCEPT !.next = ttl]})
    BY <1>1, <1>4, <2>1, Zenon DEF Redis!handleCreateStringKey, Done
  <2>3. PICK c : c = [b EXCEPT !.next = ttl]
    OBVIOUS
  <2>4. CallAs(b, "create", at, 0, Done, {}, <<>>)
    BY <2>1, CallIs
  <2>5. CallAs(c, "create", at, 0, ttl, {}, <<>>)
    BY <2>3, <2>4 DEF CallAs, CallShape
  <2>6. redis.active # Redis!Nobody
    BY <1>4 DEF Redis!handleCreateStringKey, Redis!activeProfile
  <2> QED
    BY <1>2, <2>2, <2>3, <2>5, <2>6
<1>5. ASSUME NEW op \in {"edit", "rename", "remove"}, Redis!Mutate(op)
      PROVE  RedisInv'
  <2>1. PICK c : c = Redis!Call(op, at)
    OBVIOUS
  <2>2. CallAs(c, op, at, 0, Done, {}, <<>>)
    BY <2>1, CallIs
  <2>3. Redis!Start(Redis!Working(redis, "detail"), {c}) /\ redis.active # Redis!Nobody
    BY <1>1, <1>5, <2>1 DEF Redis!Mutate, Redis!activeProfile
  <2> QED
    BY <1>2, <2>2, <2>3
<1> QED
  BY <1>3, <1>4, <1>5

----------------------------------------------------------------------------
(* The answers of the Redis workspace. *)

LEMMA RedisLists ==
  \A list, S : Redis!At(list, S) = At(list, S)
BY DEF Cardinality, Redis!Cardinality, Rank, Redis!Rank, InOrder, Redis!InOrder, At, Redis!At

\* Every item of the list that is kept is in the selection.
LEMMA EachOfThem ==
  ASSUME NEW T, NEW list, list \in Seq(T), NEW S, S \subseteq DOMAIN list, NEW n \in S
  PROVE  \E i \in DOMAIN At(list, S) : At(list, S)[i] = list[n]
<1> PICK at : at = InOrder(S)
  OBVIOUS
<1>1. S \in SUBSET Nat /\ IsFiniteSet(S)
  BY FS_Interval, FS_Subset
<1>2. Cardinality(S) \in Nat /\ Rank(n, S) \in 0..(Cardinality(S) - 1)
  BY <1>1, Ranks
<1>3. PICK i : i = Rank(n, S) + 1
  OBVIOUS
<1>4. i \in 1..Cardinality(S) /\ i - 1 = Rank(n, S)
  BY <1>2, <1>3
<1>5. at[i] = CHOOSE s \in S : Rank(s, S) = i - 1
  BY <1>4 DEF InOrder
<1>6. at[i] \in S /\ Rank(at[i], S) = Rank(n, S)
  BY <1>4, <1>5
<1>7. at[i] = n
  BY <1>1, <1>6, Ranks
<1>8. DOMAIN at = 1..Cardinality(S)
  BY DEF InOrder
<1>9. At(list, S) = [k \in DOMAIN at |-> list[at[k]]]
  BY DEF At
<1> QED
  BY <1>4, <1>7, <1>8, <1>9

LEMMA AmongIs ==
  ASSUME NEW tabs, tabs \in Seq(RedisProfiles), NEW S, NEW s, s = Redis!Among(tabs, S)
  PROVE  s \in Seq(RedisProfiles) /\ Redis!SeqSet(s) = Redis!SeqSet(tabs) \cap S
<1>1. PICK D : D = {i \in DOMAIN tabs : tabs[i] \in S}
  OBVIOUS
<1>2. s = At(tabs, D) /\ D \subseteq DOMAIN tabs
  BY <1>1, RedisLists DEF Redis!Among
<1>3. s \in Seq(RedisProfiles) /\ IsSelection(s, tabs, D)
  BY <1>2, ItemsAt
<1>4. ASSUME NEW i \in DOMAIN s PROVE s[i] \in Redis!SeqSet(tabs) \cap S
  BY <1>1, <1>3, <1>4 DEF IsSelection, Redis!SeqSet
<1>5. ASSUME NEW n \in DOMAIN tabs, tabs[n] \in S PROVE \E i \in DOMAIN s : s[i] = tabs[n]
  <2>1. n \in D
    BY <1>1, <1>5
  <2>2. \E i \in DOMAIN At(tabs, D) : At(tabs, D)[i] = tabs[n]
    BY <1>2, <2>1, EachOfThem
  <2> QED
    BY <1>2, <2>2
<1>6. Redis!SeqSet(s) \subseteq Redis!SeqSet(tabs) \cap S
  BY <1>4 DEF Redis!SeqSet
<1>7. Redis!SeqSet(tabs) \cap S \subseteq Redis!SeqSet(s)
  BY <1>5 DEF Redis!SeqSet
<1> QED
  BY <1>3, <1>6, <1>7

\* What the service answers.
LEMMA OutcomeIs ==
  ASSUME NEW c, NEW r \in Redis!Outcomes(c), profiles' = r.profiles
  PROVE  /\ c.op # "delete" => DOMAIN profiles \subseteq DOMAIN profiles'
         /\ DOMAIN profiles \ {c.at[1]} \subseteq DOMAIN profiles'
         /\ c.op = "profiles" /\ r.ok => r.got = DOMAIN profiles'
         /\ c.op = "connect" /\ r.ok => c.at[1] \in DOMAIN profiles'
         /\ c.op = "scan" => r.got \subseteq {c.at}
<1>1. CASE c.op = "save"
  BY <1>1 DEF Redis!Outcomes, Redis!Outcome
<1>2. CASE c.op = "delete"
  BY <1>2 DEF Redis!Outcomes, Redis!Outcome
<1>3. CASE c.op \in {"profiles", "test", "group", "disconnect"}
  BY <1>3 DEF Redis!Outcomes, Redis!Outcome
<1>4. CASE c.op \notin {"save", "delete", "profiles", "test", "group", "disconnect"}
  <2>1. \/ r = Redis!Outcome(profiles, FALSE, {}, FALSE)
        \/ /\ c.at[1] \in DOMAIN profiles
           /\ IF c.op = "scan"
              THEN \E got \in {{}, {c.at}}, more \in BOOLEAN : r = Redis!Outcome(profiles, TRUE, got, more)
              ELSE r = Redis!Outcome(profiles, TRUE, {Redis!Home(c.at[1])}, FALSE)
    BY <1>4 DEF Redis!Outcomes
  <2> QED
    BY <1>4, <2>1 DEF Redis!Outcome
<1> QED
  BY <1>1, <1>2, <1>3, <1>4

\* A handler shows something else, and it or others wait on.
LEMMA SameHere ==
  ASSUME RedisInv, NEW e, NEW v, NEW calls, Redis!GoOn(e, v, calls), IsScreen(v), SameView(v, redis),
         ~strayed => Redis!SeqSet(redis.open) \subseteq DOMAIN profiles',
         \A c \in calls : IsCall(c) /\ (~strayed => Holds(c, v))
  PROVE  RedisInv'
<1>1. strayed' = (strayed \/ Redis!Strays(v, redisCalls \ {e}))
  BY DEF Redis!GoOn
<1>2. v.scan >= redis.scan
  BY DEF IsScreen, SameView
<1>3. ~strayed' => InPlace(v, DOMAIN profiles')
  BY <1>1 DEF RedisInv, InPlace, SameView
<1> QED
  BY <1>1, <1>2, <1>3, RedisGoesOn DEF SameView

\* A handler ends with a scan of a place.
LEMMA RedisRescans ==
  ASSUME RedisInv, NEW e, NEW v, IsScreen(v), v.scan >= redis.scan, NEW at, NEW next, next \in {Done, "detail"},
         NEW clears, Redis!GoOnScanning(e, v, at, next, clears),
         ~strayed => /\ at = Redis!Here(v) /\ at[1] # Redis!Nobody
                     /\ Redis!SeqSet(v.open) \subseteq DOMAIN profiles' /\ v.active \in Redis!SeqSet(v.open)
  PROVE  RedisInv'
<1>1. PICK w : w = Redis!Scanning(v)
  OBVIOUS
<1>2. PICK c : c = Redis!ScanOf(w, at, next, clears)
  OBVIOUS
<1>3. Redis!GoOn(e, w, {c})
  BY <1>1, <1>2 DEF Redis!GoOnScanning
<1>4. /\ IsScreen(w) /\ w.scan = v.scan + 1 /\ w.keys = {} /\ w.detail = Redis!Nowhere
      /\ w.open = v.open /\ w.active = v.active /\ Redis!Here(w) = Redis!Here(v)
  BY <1>1, ScreenScans
<1>5. w.scan >= redis.scan /\ w.scan > redis.scan
  BY <1>4 DEF RedisInv, IsScreen
<1>6. IsCall(c) /\ (~strayed => Holds(c, w))
  BY <1>2, <1>4, DoneIs, ScanStarted
<1>7. strayed' = (strayed \/ Redis!Strays(w, redisCalls \ {e}))
  BY <1>3 DEF Redis!GoOn
<1>8. ~strayed' => InPlace(w, DOMAIN profiles')
  BY <1>4, <1>7 DEF InPlace
<1> QED
  BY <1>3, <1>4, <1>5, <1>6, <1>7, <1>8, RedisGoesOn

\* A scan ends, is overtaken, or asks for more.
LEMMA ScanEnds ==
  ASSUME RedisInv, NEW c \in redisCalls, c.op = "scan", NEW v, IsScreen(v), v.scan = redis.scan,
         v.open = redis.open, v.active = redis.active, Redis!Here(v) = Redis!Here(redis),
         ~strayed => InPlace(v, DOMAIN profiles'), Redis!AfterScan(c, v)
  PROVE  RedisInv'
<1>1. PICK idle : idle = IF Redis!IsLatest(v, c) THEN Redis!Idle(v, {"keys"}) ELSE v
  OBVIOUS
<1>2. IsScreen(idle) /\ SameView(idle, v)
  <2>1. SameView(v, v)
    BY DEF SameView
  <2>2. IsScreen(Redis!Idle(v, {"keys"})) /\ SameView(Redis!Idle(v, {"keys"}), v)
    BY ScreenFlags DEF SameButFlags
  <2> QED
    BY <1>1, <2>1, <2>2
<1>3. ASSUME NEW w, IsScreen(w), SameView(w, idle), NEW calls, Redis!GoOn(c, w, calls),
             \A d \in calls : IsCall(d) /\ (~strayed => Holds(d, w))
      PROVE  RedisInv'
  <2>1. strayed' = (strayed \/ Redis!Strays(w, redisCalls \ {c}))
    BY <1>3 DEF Redis!GoOn
  <2>2. w.scan >= redis.scan /\ Redis!Here(w) = Redis!Here(redis)
    BY <1>2, <1>3 DEF IsScreen, SameView
  <2>3. ~strayed' => InPlace(w, DOMAIN profiles')
    BY <1>2, <1>3, <2>1 DEF InPlace, SameView
  <2> QED
    BY <1>3, <2>1, <2>2, <2>3, RedisGoesOn
<1>4. ~strayed => Holds(c, redis)
  BY DEF RedisInv
<1>5. SameView(idle, idle)
  BY DEF SameView
<1>6. CASE c.next = Done /\ Redis!Ends(c, idle)
  <2>1. PICK w : w = Redis!Idle(idle, c.clears)
    OBVIOUS
  <2>2. IsScreen(w) /\ SameView(w, idle)
    BY <1>2, <2>1, ScreenFlags DEF SameButFlags
  <2>3. Redis!GoOn(c, w, {})
    BY <1>6, <2>1 DEF Redis!Ends
  <2> QED
    BY <1>3, <2>2, <2>3
<1>7. ASSUME c.next = "delete",
             Redis!GoOn(c, idle, {[Redis!Handler("delete", <<c.open[1], 0>>, idle) EXCEPT !.active = c.active]})
      PROVE  RedisInv'
  <2>1. PICK at : at = <<c.open[1], 0>>
    OBVIOUS
  <2>2. PICK b : b = Redis!Handler("delete", at, idle)
    OBVIOUS
  <2>3. PICK d : d = [b EXCEPT !.active = c.active]
    OBVIOUS
  <2>4. Redis!GoOn(c, idle, {d})
    BY <1>7, <2>1, <2>2, <2>3
  <2>5. CallAs(b, "delete", at, 0, Done, {}, idle.open)
    BY <2>2, HandlerIs
  <2>6. CallAs(d, "delete", at, 0, Done, {}, idle.open) /\ at[1] = c.open[1]
    BY <2>1, <2>3, <2>5 DEF CallAs, CallShape
  <2>7. IsCall(d)
    <3>1. idle.open \in Seq(RedisProfiles)
      BY <1>2 DEF IsScreen
    <3> QED
      BY <2>6, <3>1, DoneIs, HandlerStarted
  <2>8. ~strayed => Holds(d, idle)
    <3>1. ~strayed => c.open[1] \notin Redis!SeqSet(idle.open)
      BY <1>2, <1>4, <1>7 DEF Holds, SameView, IsCall, RedisInv, IsScreen
    <3> QED
      BY <2>6, <3>1, DoneIs DEF CallAs, Holds, GoesOnHere, SeesTabs
  <2> QED
    BY <1>2, <1>3, <1>5, <2>4, <2>7, <2>8
<1>8. ASSUME c.next = "detail", Redis!GoOn(c, Redis!Working(idle, "detail"), {Redis!DetailOf(c.at, c.clears)})
      PROVE  RedisInv'
  <2>1. PICK w : w = Redis!Working(idle, "detail")
    OBVIOUS
  <2>2. IsScreen(w) /\ SameView(w, idle)
    BY <1>2, <2>1, ScreenFlags DEF SameButFlags
  <2>3. PICK d : d = Redis!DetailOf(c.at, c.clears)
    OBVIOUS
  <2>4. CallAs(d, "detail", c.at, 0, Done, c.clears \cup {"detail"}, <<>>)
    BY <2>3, DetailIs
  <2>5. IsCall(d)
    <3>1. <<>> \in Seq(RedisProfiles)
      OBVIOUS
    <3> QED
      BY <2>4, <3>1, DoneIs, HandlerStarted
  <2>6. ~strayed => Holds(d, w)
    <3>1. ~strayed => c.at = Redis!Here(w) /\ c.at[1] # Redis!Nobody
      BY <1>2, <1>4, <1>8, <2>2 DEF Holds, GoesOnHere, SameView
    <3> QED
      BY <2>4, <3>1, DoneIs DEF CallAs, Holds, SeesTabs
  <2> QED
    BY <1>3, <1>8, <2>1, <2>2, <2>3, <2>5, <2>6
<1> QED
  BY <1>1, <1>6, <1>7, <1>8, Zenon DEF Redis!AfterScan, Done

LEMMA ScanAnswers ==
  ASSUME RedisInv, NEW c \in redisCalls, NEW r \in Redis!Outcomes(c), profiles' = r.profiles,
         Redis!ScanAnswer(c, r)
  PROVE  RedisInv'
<1>1. c.op = "scan" /\ DOMAIN profiles \subseteq DOMAIN profiles' /\ r.got \subseteq {c.at}
  BY OutcomeIs DEF Redis!ScanAnswer
<1>2. IsScreen(redis) /\ IsCall(c) /\ (~strayed => InPlace(redis, DOMAIN profiles) /\ Holds(c, redis))
  BY DEF RedisInv
<1>3. PICK shown : shown = [redis EXCEPT !.keys = redis.keys \cup r.got]
  OBVIOUS
<1>4. /\ IsScreen(shown) /\ shown.scan = redis.scan /\ shown.open = redis.open
      /\ shown.active = redis.active /\ shown.db = redis.db /\ shown.detail = redis.detail
      /\ shown.keys = redis.keys \cup r.got /\ Redis!Here(shown) = Redis!Here(redis)
  BY <1>2, <1>3 DEF IsScreen, Redis!Here
<1>5. ~strayed => InPlace(redis, DOMAIN profiles')
  BY <1>1, <1>2 DEF InPlace
<1>6. Redis!IsLatest(redis, c) /\ ~strayed => InPlace(shown, DOMAIN profiles')
  <2> SUFFICES ASSUME Redis!IsLatest(redis, c), ~strayed PROVE InPlace(shown, DOMAIN profiles')
    OBVIOUS
  <2>1. c.at = Redis!Here(redis) /\ c.at[1] # Redis!Nobody
    BY <1>1, <1>2 DEF Holds, Redis!IsLatest
  <2>2. redis.active # Redis!Nobody
    BY <2>1 DEF Redis!Here
  <2> QED
    BY <1>1, <1>4, <1>5, <2>1, <2>2 DEF InPlace
<1>7. CASE Redis!AfterScan(c, redis)
  BY <1>1, <1>2, <1>5, <1>7, ScanEnds
<1>8. CASE Redis!IsLatest(redis, c) /\ Redis!AfterScan(c, shown)
  BY <1>1, <1>4, <1>6, <1>8, ScanEnds
<1>9. CASE Redis!IsLatest(redis, c) /\ Redis!GoOn(c, shown, {c})
  <2>1. ~strayed => Holds(c, shown)
    BY <1>2, <1>4 DEF Holds
  <2>2. shown.scan >= redis.scan
    BY <1>4 DEF IsScreen
  <2>3. strayed' = (strayed \/ Redis!Strays(shown, redisCalls \ {c}))
    BY <1>9 DEF Redis!GoOn
  <2> QED
    BY <1>2, <1>4, <1>6, <1>9, <2>1, <2>2, <2>3, RedisGoesOn
<1>10. [redis EXCEPT !.keys = @ \cup r.got] = shown
  BY <1>3
<1> QED
  BY <1>7, <1>8, <1>9, <1>10, Zenon DEF Redis!ScanAnswer

\* The list of profiles arrives, and the tabs of those that are gone close.
LEMMA ProfilesAnswers ==
  ASSUME RedisInv, NEW c \in redisCalls, NEW r \in Redis!Outcomes(c), profiles' = r.profiles,
         Redis!ProfilesAnswer(c, r)
  PROVE  RedisInv'
<1>1. /\ c.op = "profiles" /\ DOMAIN profiles \subseteq DOMAIN profiles'
      /\ r.ok => r.got = DOMAIN profiles'
  BY OutcomeIs DEF Redis!ProfilesAnswer
<1>2. /\ IsScreen(redis) /\ redis.open \in Seq(RedisProfiles) /\ IsCall(c)
      /\ ~strayed => InPlace(redis, DOMAIN profiles) /\ Holds(c, redis)
  BY DEF RedisInv, IsScreen
<1>3. PICK tabs : tabs = Redis!Among(redis.open, r.got)
  OBVIOUS
<1>4. tabs \in Seq(RedisProfiles) /\ Redis!SeqSet(tabs) = Redis!SeqSet(redis.open) \cap r.got
  BY <1>2, <1>3, AmongIs
<1>5. PICK kept : kept = [redis EXCEPT !.known = r.got, !.open = tabs]
  OBVIOUS
<1>6. /\ IsScreen(kept) /\ kept.scan = redis.scan /\ kept.open = tabs /\ kept.active = redis.active
      /\ kept.db = redis.db /\ kept.keys = redis.keys /\ kept.detail = redis.detail
      /\ Redis!Here(kept) = Redis!Here(redis)
  BY <1>2, <1>4, <1>5 DEF IsScreen, Redis!Here
<1>7. PICK gone : gone = Redis!Fronted(kept, Redis!Nobody, 0)
  OBVIOUS
<1>8. /\ IsScreen(gone) /\ gone.scan = redis.scan + 1 /\ gone.open = tabs /\ gone.active = Redis!Nobody
      /\ gone.keys = {} /\ gone.detail = Redis!Nowhere
  BY <1>6, <1>7, ScreenFronts
<1>9. PICK v : v = IF ~r.ok THEN redis ELSE IF c.active \in r.got THEN kept ELSE gone
  OBVIOUS
<1>10. /\ IsScreen(v) /\ v.scan >= redis.scan
       /\ Redis!Here(v) = Redis!Here(redis) \/ v.scan > redis.scan
       /\ ~strayed => InPlace(v, DOMAIN profiles') /\ Redis!SeqSet(v.open) = Redis!SeqSet(redis.open)
  <2>1. redis.scan \in Nat
    BY <1>2 DEF IsScreen
  <2>2. CASE ~r.ok
    BY <1>1, <1>2, <1>9, <2>1, <2>2 DEF InPlace
  <2>3. CASE r.ok
    <3>1. ~strayed => Redis!SeqSet(tabs) = Redis!SeqSet(redis.open)
      BY <1>1, <1>2, <1>4, <2>3 DEF InPlace
    <3>2. CASE c.active \in r.got
      BY <1>1, <1>2, <1>6, <1>9, <2>1, <2>3, <3>1, <3>2 DEF InPlace
    <3>3. CASE c.active \notin r.got
      <4>1. v = gone /\ v.scan > redis.scan
        BY <1>8, <1>9, <2>1, <2>3, <3>3
      <4>2. ~strayed => InPlace(v, DOMAIN profiles')
        BY <1>1, <1>2, <1>8, <3>1, <4>1 DEF InPlace
      <4> QED
        BY <1>8, <2>1, <3>1, <4>1, <4>2
    <3> QED
      BY <3>2, <3>3
  <2> QED
    BY <2>2, <2>3
<1>11. PICK idle : idle = Redis!Idle(v, {"connection"})
  OBVIOUS
<1>12. IsScreen(idle) /\ SameButFlags(idle, v)
  BY <1>10, <1>11, ScreenFlags
<1>13. ASSUME NEW w, IsScreen(w), SameView(w, idle), NEW calls, Redis!GoOn(c, w, calls),
              \A d \in calls : IsCall(d) /\ (~strayed => Holds(d, w))
       PROVE  RedisInv'
  <2>1. strayed' = (strayed \/ Redis!Strays(w, redisCalls \ {c}))
    BY <1>13 DEF Redis!GoOn
  <2>2. w.scan = v.scan /\ Redis!Here(w) = Redis!Here(v)
    BY <1>12, <1>13 DEF SameView, SameButFlags
  <2>3. ~strayed' => InPlace(w, DOMAIN profiles')
    BY <1>10, <1>12, <1>13, <2>1 DEF InPlace, SameView, SameButFlags
  <2> QED
    BY <1>10, <1>13, <2>1, <2>2, <2>3, RedisGoesOn
<1>14. CASE Redis!Ends(c, idle)
  <2>1. PICK w : w = Redis!Idle(idle, c.clears)
    OBVIOUS
  <2>2. IsScreen(w) /\ SameView(w, idle)
    BY <1>12, <2>1, ScreenFlags DEF SameButFlags
  <2>3. Redis!GoOn(c, w, {})
    BY <1>14, <2>1 DEF Redis!Ends
  <2> QED
    BY <1>13, <2>2, <2>3
<1>15. PICK p, d : p = c.at[1] /\ d = c.at[2]
  OBVIOUS
<1>16. c.next = "saved" => p \in RedisProfiles /\ c.at = <<p, d>> /\ p # Redis!Nobody
  BY <1>1, <1>2, <1>15, RedisNobody DEF IsCall
<1>17. ASSUME c.next = "saved", p \in Redis!SeqSet(c.open),
              Redis!GoOnScanning(c, [Redis!Fronted(idle, p, d) EXCEPT !.window = "none", !.form = Redis!Nobody,
                !.dbOf = [q \in DOMAIN @ \cup {p} |-> IF q = p THEN d ELSE @[q]]], c.at, Done, {"form"})
       PROVE  RedisInv'
  <2>1. PICK f : f = Redis!Fronted(idle, p, d)
    OBVIOUS
  <2>2. /\ IsScreen(f) /\ f.scan = idle.scan + 1 /\ f.open = idle.open /\ f.active = p /\ f.db = d
        /\ Redis!Here(f) = <<p, d>>
    BY <1>12, <2>1, ScreenFronts
  <2>3. PICK of : of = [q \in DOMAIN f.dbOf \cup {p} |-> IF q = p THEN d ELSE f.dbOf[q]]
    OBVIOUS
  <2>4. PICK w : w = [f EXCEPT !.window = "none", !.form = Redis!Nobody, !.dbOf = of]
    OBVIOUS
  <2>5. /\ IsScreen(w) /\ w.scan = f.scan /\ w.open = f.open /\ w.active = p
        /\ Redis!Here(w) = <<p, d>>
    BY <2>2, <2>4 DEF IsScreen, Redis!Here
  <2>6. w = [Redis!Fronted(idle, p, d) EXCEPT !.window = "none", !.form = Redis!Nobody,
               !.dbOf = [q \in DOMAIN @ \cup {p} |-> IF q = p THEN d ELSE @[q]]]
    BY <2>1, <2>2, <2>3, <2>4 DEF IsScreen
  <2>7. w.scan >= redis.scan
    BY <1>2, <1>10, <1>12, <2>2, <2>5 DEF SameButFlags, SameView, IsScreen
  <2>8. ~strayed => Redis!SeqSet(w.open) \subseteq DOMAIN profiles' /\ p \in Redis!SeqSet(w.open)
    <3>1. ~strayed => c.open = redis.open
      BY <1>1, <1>2, <1>17 DEF Holds, SeesTabs
    <3>2. w.open = v.open
      BY <1>12, <2>2, <2>5 DEF SameButFlags, SameView
    <3> QED
      BY <1>10, <1>17, <3>1, <3>2 DEF InPlace
  <2>9. c.at = Redis!Here(w) /\ c.at[1] # Redis!Nobody
    BY <1>15, <1>16, <1>17, <2>5
  <2> QED
    BY <1>17, <2>5, <2>6, <2>7, <2>8, <2>9, RedisRescans
<1>18. ASSUME c.next = "saved",
              Redis!GoOn(c, [Redis!Working(idle, "connection") EXCEPT !.window = "none", !.form = Redis!Nobody],
                         {[Redis!Call("connect", c.at) EXCEPT !.clears = {"connection", "form"}]})
       PROVE  RedisInv'
  <2>1. PICK f : f = Redis!Working(idle, "connection")
    OBVIOUS
  <2>2. IsScreen(f) /\ SameView(f, idle)
    BY <1>12, <2>1, ScreenFlags DEF SameButFlags
  <2>3. PICK w : w = [f EXCEPT !.window = "none", !.form = Redis!Nobody]
    OBVIOUS
  <2>4. IsScreen(w) /\ SameView(w, idle)
    BY <2>2, <2>3 DEF IsScreen, SameView, Redis!Here
  <2>5. PICK b : b = Redis!Call("connect", c.at)
    OBVIOUS
  <2>6. PICK e : e = [b EXCEPT !.clears = {"connection", "form"}]
    OBVIOUS
  <2>7. CallAs(b, "connect", c.at, 0, Done, {}, <<>>)
    BY <2>5, CallIs
  <2>8. CallAs(e, "connect", c.at, 0, Done, {"connection", "form"}, <<>>)
    BY <2>6, <2>7 DEF CallAs, CallShape
  <2>9. IsCall(e)
    <3>1. <<>> \in Seq(RedisProfiles)
      OBVIOUS
    <3>2. c.at = <<c.at[1], c.at[2]>> /\ c.at[1] \in RedisProfiles
      BY <1>15, <1>16, <1>18
    <3> QED
      BY <2>8, <3>1, <3>2, DoneIs, HandlerStarted
  <2>10. Holds(e, w)
    BY <2>8, DoneIs, UnboundHolds DEF CallAs
  <2>11. Redis!GoOn(c, w, {e})
    BY <1>18, <2>1, <2>3, <2>5, <2>6
  <2> QED
    BY <1>13, <2>4, <2>9, <2>10, <2>11
<1>19. \/ Redis!Ends(c, idle)
       \/ /\ c.next = "saved" /\ p \in Redis!SeqSet(c.open)
          /\ Redis!GoOnScanning(c, [Redis!Fronted(idle, p, d) EXCEPT !.window = "none", !.form = Redis!Nobody,
               !.dbOf = [q \in DOMAIN @ \cup {p} |-> IF q = p THEN d ELSE @[q]]], c.at, Done, {"form"})
       \/ /\ c.next = "saved"
          /\ Redis!GoOn(c, [Redis!Working(idle, "connection") EXCEPT !.window = "none", !.form = Redis!Nobody],
                        {[Redis!Call("connect", c.at) EXCEPT !.clears = {"connection", "form"}]})
  <2>1. [redis EXCEPT !.known = r.got, !.open = Redis!Among(@, r.got)] = kept
    BY <1>3, <1>5
  <2> QED
    BY <1>7, <1>9, <1>11, <1>15, <2>1, Zenon DEF Redis!ProfilesAnswer, Done
<1> QED
  BY <1>14, <1>17, <1>18, <1>19

\* A handler ends, and shows it.
LEMMA JustEnds ==
  ASSUME RedisInv, NEW c, NEW v, IsScreen(v), SameView(v, redis), Redis!Ends(c, v),
         ~strayed => Redis!SeqSet(redis.open) \subseteq DOMAIN profiles'
  PROVE  RedisInv'
<1>1. PICK w : w = Redis!Idle(v, c.clears)
  OBVIOUS
<1>2. IsScreen(w) /\ SameView(w, v)
  BY <1>1, ScreenFlags DEF SameButFlags
<1>3. SameView(w, redis)
  BY <1>2 DEF SameView
<1>4. Redis!GoOn(c, w, {})
  BY <1>1 DEF Redis!Ends
<1> QED
  BY <1>2, <1>3, <1>4, SameHere
\* It shows something else under way, or no longer, and goes on with another request or ends.
LEMMA FlagsGoOn ==
  ASSUME RedisInv, NEW c, NEW flag, NEW v, v \in {redis, Redis!Idle(redis, flag), Redis!Working(redis, flag)},
         NEW calls, Redis!GoOn(c, v, calls),
         ~strayed => Redis!SeqSet(redis.open) \subseteq DOMAIN profiles',
         \A d \in calls : IsCall(d) /\ (~strayed => \A w : SameView(w, redis) => Holds(d, w))
  PROVE  RedisInv'
<1>1. IsScreen(redis) /\ SameView(redis, redis)
  BY DEF RedisInv, SameView
<1>2. IsScreen(v) /\ SameView(v, redis)
  BY <1>1, ScreenFlags DEF SameButFlags
<1> QED
  BY <1>2, SameHere

LEMMA ConnectAnswers ==
  ASSUME RedisInv, NEW c \in redisCalls, NEW r \in Redis!Outcomes(c), profiles' = r.profiles,
         Redis!ConnectAnswer(c, r)
  PROVE  RedisInv'
<1>1. /\ c.op = "connect" /\ DOMAIN profiles \subseteq DOMAIN profiles'
      /\ r.ok => c.at[1] \in DOMAIN profiles'
  BY OutcomeIs DEF Redis!ConnectAnswer
<1>2. /\ IsScreen(redis) /\ redis.open \in Seq(RedisProfiles) /\ IsCall(c)
      /\ ~strayed => Redis!SeqSet(redis.open) \subseteq DOMAIN profiles'
  BY <1>1 DEF RedisInv, IsScreen, InPlace
<1>3. PICK p : p = c.at[1]
  OBVIOUS
<1>4. p \in RedisProfiles /\ p # Redis!Nobody
  BY <1>1, <1>2, <1>3, RedisNobody DEF IsCall
<1>5. CASE ~r.ok /\ Redis!Ends(c, redis)
  <2>1. SameView(redis, redis)
    BY DEF SameView
  <2> QED
    BY <1>2, <1>5, <2>1, JustEnds
<1>6. ASSUME r.ok, NEW d,
             Redis!GoOnScanning(c, [redis EXCEPT !.active = p, !.db = d,
               !.open = IF p \in Redis!SeqSet(@) THEN @ ELSE Append(@, p),
               !.dbOf = [q \in DOMAIN @ \cup {p} |-> IF q = p THEN d ELSE @[q]],
               !.window = IF @ = "picker" THEN "none" ELSE @], <<p, d>>, Done, c.clears)
      PROVE  RedisInv'
  <2>1. PICK tabs : tabs = IF p \in Redis!SeqSet(redis.open) THEN redis.open ELSE Append(redis.open, p)
    OBVIOUS
  <2>2. tabs \in Seq(RedisProfiles) /\ Redis!SeqSet(tabs) = Redis!SeqSet(redis.open) \cup {p}
    <3>1. CASE p \in Redis!SeqSet(redis.open)
      BY <1>2, <2>1, <3>1
    <3>2. CASE p \notin Redis!SeqSet(redis.open)
      <4>1. /\ tabs \in Seq(RedisProfiles) /\ Len(tabs) = Len(redis.open) + 1
            /\ \A i \in 1..Len(tabs) : tabs[i] = IF i = Len(redis.open) + 1 THEN p ELSE redis.open[i]
        BY <1>2, <1>4, <2>1, <3>2
      <4>2. Len(redis.open) \in Nat /\ DOMAIN tabs = 1..(Len(redis.open) + 1) /\ DOMAIN redis.open = 1..Len(redis.open)
        BY <1>2, <4>1
      <4>3. ASSUME NEW i \in DOMAIN tabs PROVE tabs[i] \in Redis!SeqSet(redis.open) \cup {p}
        BY <4>1, <4>2, <4>3 DEF Redis!SeqSet
      <4>4. ASSUME NEW i \in DOMAIN redis.open PROVE i \in DOMAIN tabs /\ tabs[i] = redis.open[i]
        BY <4>1, <4>2, <4>4
      <4>5. Len(redis.open) + 1 \in DOMAIN tabs /\ tabs[Len(redis.open) + 1] = p
        BY <4>1, <4>2
      <4> QED
        BY <4>1, <4>3, <4>4, <4>5 DEF Redis!SeqSet
    <3> QED
      BY <3>1, <3>2
  <2>3. PICK of, win : of = [q \in DOMAIN redis.dbOf \cup {p} |-> IF q = p THEN d ELSE redis.dbOf[q]]
                      /\ win = IF redis.window = "picker" THEN "none" ELSE redis.window
    OBVIOUS
  <2>4. PICK v : v = [redis EXCEPT !.active = p, !.db = d, !.open = tabs, !.dbOf = of, !.window = win]
    OBVIOUS
  <2>5. /\ IsScreen(v) /\ v.scan = redis.scan /\ v.open = tabs /\ v.active = p /\ Redis!Here(v) = <<p, d>>
    BY <1>2, <2>2, <2>3, <2>4 DEF IsScreen, Redis!Here
  <2>6. PICK at : at = <<p, d>>
    OBVIOUS
  <2>7. Redis!GoOnScanning(c, v, at, Done, c.clears)
    <3>1. v = [redis EXCEPT !.active = p, !.db = d,
               !.open = IF p \in Redis!SeqSet(@) THEN @ ELSE Append(@, p),
               !.dbOf = [q \in DOMAIN @ \cup {p} |-> IF q = p THEN d ELSE @[q]],
               !.window = IF @ = "picker" THEN "none" ELSE @]
      BY <1>2, <2>1, <2>3, <2>4 DEF IsScreen
    <3> QED
      BY <1>6, <2>6, <3>1
  <2>8. v.scan >= redis.scan
    BY <1>2, <2>5 DEF IsScreen
  <2>9. at = Redis!Here(v) /\ at[1] # Redis!Nobody /\ v.active \in Redis!SeqSet(v.open)
    BY <1>4, <2>2, <2>5, <2>6
  <2>10. ~strayed => Redis!SeqSet(v.open) \subseteq DOMAIN profiles'
    BY <1>1, <1>2, <1>3, <1>6, <2>2, <2>5
  <2> QED
    BY <2>5, <2>7, <2>8, <2>9, <2>10, DoneIs, RedisRescans
<1>7. \/ ~r.ok /\ Redis!Ends(c, redis)
      \/ /\ r.ok
         /\ \E d \in r.got :
             Redis!GoOnScanning(c, [redis EXCEPT !.active = p, !.db = d,
               !.open = IF p \in Redis!SeqSet(@) THEN @ ELSE Append(@, p),
               !.dbOf = [q \in DOMAIN @ \cup {p} |-> IF q = p THEN d ELSE @[q]],
               !.window = IF @ = "picker" THEN "none" ELSE @], <<p, d>>, Done, c.clears)
  BY <1>3, Zenon DEF Redis!ConnectAnswer, Done
<1> QED
  BY <1>5, <1>6, <1>7

LEMMA SimpleAnswers ==
  ASSUME RedisInv, NEW c \in redisCalls, NEW r \in Redis!Outcomes(c), profiles' = r.profiles,
         Redis!Simple(c, r)
  PROVE  RedisInv'
<1>1. /\ c.op \in {"test", "save", "group", "delete"}
      /\ c.op # "delete" => DOMAIN profiles \subseteq DOMAIN profiles'
      /\ DOMAIN profiles \ {c.at[1]} \subseteq DOMAIN profiles'
  BY OutcomeIs DEF Redis!Simple
<1>2. /\ IsScreen(redis) /\ redis.open \in Seq(RedisProfiles) /\ IsCall(c)
      /\ ~strayed => InPlace(redis, DOMAIN profiles) /\ Holds(c, redis)
  BY DEF RedisInv, IsScreen
<1>3. ~strayed => Redis!SeqSet(redis.open) \subseteq DOMAIN profiles'
  BY <1>1, <1>2 DEF InPlace, Holds
<1>4. CASE Redis!Ends(c, redis)
  <2>1. SameView(redis, redis)
    BY DEF SameView
  <2> QED
    BY <1>2, <1>3, <1>4, <2>1, JustEnds
<1>5. ASSUME NEW flag, Redis!GoOn(c, Redis!Idle(redis, flag), {})
      PROVE  RedisInv'
  BY <1>3, <1>5, FlagsGoOn
<1>6. ASSUME c.op \in {"save", "group", "delete"},
             Redis!GoOn(c, Redis!Working(redis, "connection"),
               {[c EXCEPT !.op = "profiles", !.next = IF c.op = "save" THEN "saved" ELSE Done,
                          !.clears = IF c.op = "group" THEN {"group"} ELSE {}]})
      PROVE  RedisInv'
  <2>1. PICK next : next = IF c.op = "save" THEN "saved" ELSE Done
    OBVIOUS
  <2>2. PICK e : e = [c EXCEPT !.op = "profiles", !.next = IF c.op = "save" THEN "saved" ELSE Done,
                               !.clears = IF c.op = "group" THEN {"group"} ELSE {}]
    OBVIOUS
  <2>3. CallShape(e) /\ e.op = "profiles" /\ e.at = c.at /\ e.scan = c.scan /\ e.next = next /\ e.open = c.open
    BY <1>2, <2>1, <2>2 DEF IsCall, CallShape
  <2>4. IsCall(e)
    BY <1>2, <1>6, <2>1, <2>3, DoneIs DEF IsCall
  <2>5. ~strayed => \A w : SameView(w, redis) => Holds(e, w)
    <3>1. CASE c.op = "save"
      <4>1. ~strayed => e.open = redis.open
        BY <1>2, <2>3, <3>1 DEF Holds, SeesTabs
      <4>2. e.next = "saved" /\ ~GoesOnHere(e)
        BY <2>1, <2>3, <3>1 DEF GoesOnHere
      <4> QED
        BY <2>3, <4>1, <4>2 DEF Holds, SameView
    <3>2. CASE c.op # "save"
      BY <2>1, <2>3, <3>2, DoneIs, UnboundHolds
    <3> QED
      BY <3>1, <3>2
  <2>6. Redis!GoOn(c, Redis!Working(redis, "connection"), {e})
    BY <1>6, <2>2
  <2> QED
    BY <1>3, <2>4, <2>5, <2>6, FlagsGoOn
<1> QED
  BY <1>4, <1>5, <1>6, Zenon DEF Redis!Simple, Done

\* What is done to a key is done to the one on the screen.
LEMMA KeyAnswers ==
  ASSUME RedisInv, NEW c \in redisCalls, NEW r \in Redis!Outcomes(c), profiles' = r.profiles,
         Redis!DetailAnswer(c, r) \/ Redis!MutationAnswer(c, r) \/ Redis!CreateAnswer(c, r)
  PROVE  RedisInv'
<1>1. c.op \in {"detail", "edit", "rename", "remove", "create"} /\ DOMAIN profiles \subseteq DOMAIN profiles'
  BY OutcomeIs DEF Redis!DetailAnswer, Redis!MutationAnswer, Redis!CreateAnswer
<1>2. /\ IsScreen(redis) /\ IsCall(c)
      /\ ~strayed => /\ InPlace(redis, DOMAIN profiles') /\ c.at = Redis!Here(redis) /\ c.at[1] # Redis!Nobody
                     /\ redis.active # Redis!Nobody
  <2>1. ~strayed => c.at = Redis!Here(redis) /\ c.at[1] # Redis!Nobody
    BY <1>1 DEF RedisInv, Holds, GoesOnHere
  <2>2. ~strayed => redis.active # Redis!Nobody
    BY <2>1 DEF Redis!Here
  <2> QED
    BY <1>1, <2>1, <2>2 DEF RedisInv, InPlace
<1>3. ~strayed => Redis!SeqSet(redis.open) \subseteq DOMAIN profiles' /\ redis.active \in Redis!SeqSet(redis.open)
  BY <1>2 DEF InPlace
<1>4. SameView(redis, redis)
  BY DEF SameView
<1>5. CASE Redis!Ends(c, redis)
  BY <1>2, <1>3, <1>4, <1>5, JustEnds
<1>6. CASE Redis!Ends(c, [redis EXCEPT !.detail = c.at])
  <2>1. PICK v : v = [redis EXCEPT !.detail = c.at]
    OBVIOUS
  <2>2. /\ IsScreen(v) /\ v.scan = redis.scan /\ v.keys = redis.keys /\ v.detail = c.at
        /\ v.open = redis.open /\ v.active = redis.active /\ v.db = redis.db
    BY <1>2, <2>1 DEF IsScreen
  <2>3. PICK w : w = Redis!Idle(v, c.clears)
    OBVIOUS
  <2>4. IsScreen(w) /\ SameView(w, v)
    BY <2>2, <2>3, ScreenFlags DEF SameButFlags
  <2>5. Redis!GoOn(c, w, {})
    BY <1>6, <2>1, <2>3 DEF Redis!Ends
  <2>6. Redis!Here(w) = Redis!Here(redis) /\ w.scan >= redis.scan
    BY <1>2, <2>2, <2>4 DEF SameView, Redis!Here, IsScreen
  <2>7. strayed' = (strayed \/ Redis!Strays(w, redisCalls \ {c}))
    BY <2>5 DEF Redis!GoOn
  <2>8. ~strayed' => InPlace(w, DOMAIN profiles')
    <3>1. ~strayed => InPlace(w, DOMAIN profiles')
      BY <1>2, <2>2, <2>4, <2>6 DEF InPlace, SameView
    <3> QED
      BY <2>7, <3>1
  <2> QED
    BY <2>4, <2>5, <2>6, <2>8, RedisGoesOn
<1>7. ASSUME NEW flag, Redis!GoOn(c, Redis!Idle(redis, flag), {})
      PROVE  RedisInv'
  BY <1>3, <1>7, FlagsGoOn
<1>8. CASE c.op = "edit" /\ Redis!GoOn(c, Redis!Working(redis, "detail"), {Redis!DetailOf(c.at, {})})
  <2>1. PICK d : d = Redis!DetailOf(c.at, {})
    OBVIOUS
  <2>2. CallAs(d, "detail", c.at, 0, Done, {} \cup {"detail"}, <<>>)
    BY <2>1, DetailIs
  <2>3. IsCall(d)
    <3>1. <<>> \in Seq(RedisProfiles)
      OBVIOUS
    <3> QED
      BY <2>2, <3>1, DoneIs, HandlerStarted
  <2>4. ~strayed => \A w : SameView(w, redis) => Holds(d, w)
    BY <1>2, <2>2, DoneIs DEF CallAs, Holds, SeesTabs, SameView
  <2> QED
    BY <1>3, <1>8, <2>1, <2>3, <2>4, FlagsGoOn
<1>9. ASSUME NEW win, win \in {redis.window, "none"}, NEW v, v = [redis EXCEPT !.window = win],
             NEW next, next \in {Done, "detail"}, NEW clears, Redis!GoOnScanning(c, v, c.at, next, clears)
      PROVE  RedisInv'
  <2>1. /\ IsScreen(v) /\ v.scan = redis.scan /\ v.open = redis.open /\ v.active = redis.active
        /\ Redis!Here(v) = Redis!Here(redis)
    BY <1>2, <1>9 DEF IsScreen, Redis!Here
  <2>2. v.scan >= redis.scan
    BY <2>1 DEF IsScreen
  <2> QED
    BY <1>2, <1>3, <1>9, <2>1, <2>2, RedisRescans
<1>10. CASE Redis!GoOnScanning(c, redis, c.at, Done, {"detail"})
  <2>1. redis = [redis EXCEPT !.window = redis.window]
    BY <1>2 DEF IsScreen
  <2> QED
    BY <1>9, <1>10, <2>1
<1>11. CASE Redis!GoOnScanning(c, [redis EXCEPT !.window = "none"], c.at, "detail", {"newKey"})
  BY <1>9, <1>11
<1>12. CASE c.op = "create" /\ Redis!GoOn(c, redis, {[c EXCEPT !.next = Done]})
  <2>1. PICK d : d = [c EXCEPT !.next = Done]
    OBVIOUS
  <2>2. CallShape(d) /\ d.op = "create" /\ d.at = c.at /\ d.scan = c.scan /\ d.next = Done /\ d.open = c.open
    BY <1>2, <1>12, <2>1 DEF IsCall, CallShape
  <2>3. IsCall(d)
    BY <1>2, <2>2, DoneIs DEF IsCall
  <2>4. ~strayed => \A w : SameView(w, redis) => Holds(d, w)
    BY <1>2, <2>2, DoneIs DEF Holds, SeesTabs, SameView
  <2> QED
    BY <1>3, <1>12, <2>1, <2>3, <2>4, FlagsGoOn
<1>13. CASE Redis!DetailAnswer(c, r)
  BY <1>5, <1>6, <1>13, Zenon DEF Redis!DetailAnswer
<1>14. CASE Redis!MutationAnswer(c, r)
  BY <1>7, <1>8, <1>10, <1>14, Zenon DEF Redis!MutationAnswer, Done
<1>15. CASE Redis!CreateAnswer(c, r)
  BY <1>7, <1>11, <1>12, <1>15, Zenon DEF Redis!CreateAnswer, Done
<1> QED
  BY <1>13, <1>14, <1>15

\* A tab closes, and if it was in front its neighbour takes its place.
LEMMA DisconnectAnswers ==
  ASSUME RedisInv, NEW c \in redisCalls, NEW r \in Redis!Outcomes(c), profiles' = r.profiles,
         Redis!DisconnectAnswer(c, r)
  PROVE  RedisInv'
<1> DEFINE p == c.at[1]
           rest == Redis!Among(c.open, Redis!SeqSet(c.open) \ {p})
           v == [redis EXCEPT !.open = rest]
           turn == CHOOSE k \in DOMAIN c.open : c.open[k] = p
           i == IF c.next = "delete" THEN 1 ELSE IF turn > Len(rest) THEN Len(rest) ELSE turn
           home == c.dbOf[rest[i]]
           shown == IF c.active = p THEN Redis!Fronted(v, Redis!Nobody, 0) ELSE v
           front == Redis!Scanning(Redis!Fronted(v, rest[i], home))
           scan == [Redis!ScanOf(front, <<rest[i], home>>, c.next, c.clears) EXCEPT !.open = <<p>>, !.active = c.active]
           then == [Redis!Handler("delete", c.at, v) EXCEPT !.active = c.active]
<1>1. \/ ~r.ok /\ Redis!Ends(c, Redis!Idle(redis, {"connection"}))
      \/ r.ok /\ c.active = p /\ rest # <<>> /\ Redis!GoOn(c, front, {scan})
      \/ /\ r.ok /\ (c.active # p \/ rest = <<>>)
         /\ IF c.next = "delete" THEN Redis!GoOn(c, shown, {then}) ELSE Redis!Ends(c, shown)
  BY DEF Redis!DisconnectAnswer
<1>2. /\ p = c.at[1] /\ rest = Redis!Among(c.open, Redis!SeqSet(c.open) \ {p})
      /\ v = [redis EXCEPT !.open = rest]
  OBVIOUS
<1>3. (\E k \in DOMAIN c.open : c.open[k] = p) => turn \in DOMAIN c.open
  OBVIOUS
<1>4. i = IF c.next = "delete" THEN 1 ELSE IF turn > Len(rest) THEN Len(rest) ELSE turn
  OBVIOUS
<1>5. shown = IF c.active = p THEN Redis!Fronted(v, Redis!Nobody, 0) ELSE v
  OBVIOUS
<1>6. /\ front = Redis!Scanning(Redis!Fronted(v, rest[i], home))
      /\ scan = [Redis!ScanOf(front, <<rest[i], home>>, c.next, c.clears) EXCEPT !.open = <<p>>, !.active = c.active]
      /\ then = [Redis!Handler("delete", c.at, v) EXCEPT !.active = c.active]
  OBVIOUS
<1> HIDE DEF p, rest, v, turn, i, home, shown, front, scan, then
<1>7. c.op = "disconnect" /\ DOMAIN profiles \subseteq DOMAIN profiles'
  BY OutcomeIs DEF Redis!DisconnectAnswer
<1>8. /\ IsScreen(redis) /\ redis.scan \in Nat /\ IsCall(c) /\ c.open \in Seq(RedisProfiles)
      /\ c.at = <<c.at[1], c.at[2]>> /\ c.at[1] \in RedisProfiles
      /\ ~strayed => /\ InPlace(redis, DOMAIN profiles') /\ c.open = redis.open
                     /\ c.active = redis.active /\ c.at[1] \in Redis!SeqSet(redis.open)
  BY <1>7 DEF RedisInv, IsScreen, IsCall, InPlace, Holds, SeesTabs
<1>9. ~strayed => turn \in DOMAIN c.open
  BY <1>8, <1>2, <1>3 DEF Redis!SeqSet
<1>10. rest \in Seq(RedisProfiles) /\ Redis!SeqSet(rest) = Redis!SeqSet(c.open) \ {p}
  BY <1>8, <1>2, AmongIs
<1>11. /\ IsScreen(v) /\ v.scan = redis.scan /\ v.open = rest /\ v.active = redis.active
      /\ v.db = redis.db /\ v.keys = redis.keys /\ v.detail = redis.detail /\ Redis!Here(v) = Redis!Here(redis)
  BY <1>8, <1>10, <1>2 DEF IsScreen, Redis!Here
<1>12. ~strayed => Redis!SeqSet(rest) \subseteq DOMAIN profiles'
  BY <1>8, <1>10 DEF InPlace
<1>13. CASE ~r.ok /\ Redis!Ends(c, Redis!Idle(redis, {"connection"}))
  <2>1. PICK w : w = Redis!Idle(redis, {"connection"})
    OBVIOUS
  <2>2. IsScreen(w) /\ SameView(w, redis)
    BY <1>8, <2>1, ScreenFlags DEF SameButFlags
  <2>3. ~strayed => Redis!SeqSet(redis.open) \subseteq DOMAIN profiles'
    BY <1>8 DEF InPlace
  <2> QED
    BY <1>13, <2>1, <2>2, <2>3, JustEnds
<1>14. ASSUME c.active = p, rest # <<>>, Redis!GoOn(c, front, {scan})
       PROVE  RedisInv'
  <2>1. PICK next : next = rest[i]
    OBVIOUS
  <2>2. ~strayed => next \in Redis!SeqSet(rest) /\ next # Redis!Nobody
    <3>1. SUFFICES ASSUME ~strayed PROVE i \in DOMAIN rest
      <4>1. i \in DOMAIN rest => rest[i] \in RedisProfiles
        BY <1>10
      <4> QED
        BY <2>1, <3>1, <4>1, RedisNobody DEF Redis!SeqSet
    <3>2. Len(c.open) \in Nat /\ DOMAIN c.open = 1..Len(c.open)
      BY <1>8
    <3>3. turn \in Nat /\ turn >= 1
      BY <1>9, <3>1, <3>2
    <3>4. Len(rest) \in Nat /\ DOMAIN rest = 1..Len(rest) /\ Len(rest) # 0
      BY <1>10, <1>14, EmptySeq
    <3>5. PICK n : n = Len(rest)
      OBVIOUS
    <3>6. i = 1 \/ i = n \/ (i = turn /\ ~(turn > n))
      BY <1>4, <3>5
    <3>7. n \in Nat /\ n # 0 /\ DOMAIN rest = 1..n
      BY <3>4, <3>5
    <3> QED
      BY <3>3, <3>6, <3>7
  <2>3. PICK f : f = Redis!Fronted(v, next, home)
    OBVIOUS
  <2>4. /\ IsScreen(f) /\ f.scan = redis.scan + 1 /\ f.open = rest /\ f.active = next
        /\ Redis!Here(f) = <<next, home>>
    BY <1>11, <2>3, ScreenFronts
  <2>5. PICK w : w = Redis!Scanning(f)
    OBVIOUS
  <2>6. /\ IsScreen(w) /\ w.scan = f.scan + 1 /\ w.open = rest /\ w.active = next
        /\ w.keys = {} /\ w.detail = Redis!Nowhere /\ Redis!Here(w) = <<next, home>>
    BY <2>4, <2>5, ScreenScans
  <2>7. PICK at : at = <<next, home>>
    OBVIOUS
  <2>8. PICK b : b = Redis!ScanOf(w, at, c.next, c.clears)
    OBVIOUS
  <2>9. PICK d : d = [b EXCEPT !.open = <<p>>, !.active = c.active]
    OBVIOUS
  <2>10. Redis!GoOn(c, w, {d})
    BY <1>14, <1>6, <2>1, <2>3, <2>5, <2>7, <2>8, <2>9
  <2>11. CallAs(b, "scan", at, w.scan, c.next, c.clears, <<>>)
    BY <2>8, ScanIs
  <2>12. CallAs(d, "scan", at, w.scan, c.next, c.clears, <<p>>)
    BY <2>9, <2>11 DEF CallAs, CallShape
  <2>13. w.scan \in Nat /\ w.scan <= w.scan /\ w.scan >= redis.scan /\ w.scan > redis.scan
    BY <1>8, <2>4, <2>6
  <2>14. IsCall(d)
    <3>1. <<p>> \in Seq(RedisProfiles)
      BY <1>8, <1>2
    <3> QED
      BY <2>12, <2>13, <3>1 DEF CallAs, IsCall
  <2>15. ~strayed => Holds(d, w)
    <3>1. d.open[1] = p
      BY <2>12 DEF CallAs
    <3>2. p \notin Redis!SeqSet(w.open)
      BY <1>10, <2>6
    <3>3. ~strayed => at = Redis!Here(w) /\ at[1] # Redis!Nobody
      BY <2>2, <2>6, <2>7
    <3> QED
      BY <2>12, <2>13, <3>1, <3>2, <3>3 DEF CallAs, Holds, GoesOnHere, SeesTabs
  <2>16. strayed' = (strayed \/ Redis!Strays(w, redisCalls \ {c}))
    BY <2>10 DEF Redis!GoOn
  <2>17. ~strayed' => InPlace(w, DOMAIN profiles')
    BY <1>12, <2>2, <2>6, <2>16 DEF InPlace
  <2> QED
    BY <2>6, <2>10, <2>13, <2>14, <2>15, <2>16, <2>17, RedisGoesOn
<1>15. /\ IsScreen(shown) /\ shown.open = rest /\ shown.scan >= redis.scan
       /\ Redis!Here(shown) = Redis!Here(redis) \/ shown.scan > redis.scan
       /\ ~strayed => InPlace(shown, DOMAIN profiles')
  <2>1. CASE c.active = p
    <3>1. /\ IsScreen(shown) /\ shown.scan = redis.scan + 1 /\ shown.open = rest /\ shown.active = Redis!Nobody
          /\ shown.keys = {} /\ shown.detail = Redis!Nowhere
      BY <1>11, <1>5, <2>1, ScreenFronts
    <3>2. shown.scan >= redis.scan /\ shown.scan > redis.scan
      BY <1>8, <3>1
    <3> QED
      BY <1>12, <3>1, <3>2 DEF InPlace
  <2>2. CASE c.active # p
    <3>1. shown = v /\ shown.scan >= redis.scan
      BY <1>8, <1>11, <1>5, <2>2
    <3>2. ~strayed => redis.active \in Redis!SeqSet(rest) \cup {Redis!Nobody}
      BY <1>8, <1>10, <2>2 DEF InPlace
    <3>3. ~strayed => InPlace(shown, DOMAIN profiles')
      BY <1>8, <1>11, <1>12, <3>1, <3>2 DEF InPlace
    <3> QED
      BY <1>11, <3>1, <3>3
  <2> QED
    BY <2>1, <2>2
<1>16. CASE Redis!Ends(c, shown)
  <2>1. PICK w : w = Redis!Idle(shown, c.clears)
    OBVIOUS
  <2>2. IsScreen(w) /\ SameView(w, shown)
    BY <1>15, <2>1, ScreenFlags DEF SameButFlags
  <2>3. Redis!GoOn(c, w, {})
    BY <1>16, <2>1 DEF Redis!Ends
  <2>4. strayed' = (strayed \/ Redis!Strays(w, redisCalls \ {c}))
    BY <2>3 DEF Redis!GoOn
  <2>5. ~strayed' => InPlace(w, DOMAIN profiles')
    BY <1>15, <2>2, <2>4 DEF InPlace, SameView
  <2> QED
    BY <1>15, <2>2, <2>3, <2>4, <2>5, RedisGoesOn DEF SameView
<1>17. CASE Redis!GoOn(c, shown, {then})
  <2>1. PICK b : b = Redis!Handler("delete", c.at, v)
    OBVIOUS
  <2>2. PICK d : d = [b EXCEPT !.active = c.active]
    OBVIOUS
  <2>3. CallAs(b, "delete", c.at, 0, Done, {}, rest)
    BY <1>11, <2>1, HandlerIs
  <2>4. CallAs(d, "delete", c.at, 0, Done, {}, rest)
    BY <2>2, <2>3 DEF CallAs, CallShape
  <2>5. IsCall(d)
    BY <1>10, <2>4, DoneIs, HandlerStarted
  <2>6. Holds(d, shown)
    BY <1>10, <1>15, <1>2, <2>4, DoneIs DEF CallAs, Holds, GoesOnHere, SeesTabs
  <2>7. Redis!GoOn(c, shown, {d})
    BY <1>17, <1>6, <2>1, <2>2
  <2>8. strayed' = (strayed \/ Redis!Strays(shown, redisCalls \ {c}))
    BY <2>7 DEF Redis!GoOn
  <2> QED
    BY <1>15, <2>5, <2>6, <2>7, <2>8, RedisGoesOn
<1> QED
  BY <1>13, <1>14, <1>16, <1>17, <1>1

LEMMA RedisNext ==
  ASSUME RedisInv, RedisStep \/ UNCHANGED redisVars
  PROVE  RedisInv'
<1>1. CASE UNCHANGED redisVars
  BY <1>1 DEF redisVars, RedisInv, IsScreen, InPlace, Holds
<1>2. ASSUME NEW c \in redisCalls, Redis!Answer(c) PROVE RedisInv'
  <2>1. PICK r \in Redis!Outcomes(c) :
          /\ profiles' = r.profiles
          /\ \/ Redis!ScanAnswer(c, r) \/ Redis!ProfilesAnswer(c, r) \/ Redis!ConnectAnswer(c, r)
             \/ Redis!DisconnectAnswer(c, r) \/ Redis!Simple(c, r) \/ Redis!DetailAnswer(c, r)
             \/ Redis!MutationAnswer(c, r) \/ Redis!CreateAnswer(c, r)
    BY <1>2 DEF Redis!Answer
  <2> QED
    BY <2>1, ScanAnswers, ProfilesAnswers, ConnectAnswers, DisconnectAnswers, SimpleAnswers, KeyAnswers
<1>3. ASSUME NEW p \in RedisProfiles,
             \/ Redis!openForm(p) \/ Redis!ActivateTab(p) \/ Redis!handleOpenProfileTab(p)
             \/ Redis!handleCloseProfileTab(p) \/ Redis!handleDeleteConnection(p)
      PROVE  RedisInv'
  BY <1>3, RedisWindows, RedisActivates, RedisOpens, RedisRemoves
<1>4. ASSUME NEW d \in Indexes, Redis!SelectDb(d) \/ Redis!handleSaveConnection(d) PROVE RedisInv'
  BY <1>4, RedisSelects, FormHandlers
<1>5. CASE \/ Redis!toggleProfilePicker \/ Redis!openCreateKeyForm \/ Redis!CloseWindow
           \/ Redis!handleTestConnection \/ Redis!ChangeGroups \/ Redis!RefreshKeys
  BY <1>5, RedisWindows, FormHandlers, RedisRefreshes
<1>6. CASE \/ Redis!loadDetail \/ Redis!handleCreateStringKey
           \/ \E op \in {"edit", "rename", "remove"} : Redis!Mutate(op)
  BY <1>6, KeyHandlers
<1> QED
  BY <1>1, <1>2, <1>3, <1>4, <1>5, <1>6 DEF RedisStep, Redis!Next

LEMMA RedisHolds == RedisInv => KeysAreOfTheTab
BY DEF RedisInv, InPlace, KeysAreOfTheTab, Redis!KeysAreOfTheTab

\* The invariant of the Redis workspace holds in the window throughout.
LEMMA RedisAlways == Spec => []RedisInv
<1>1. Init => RedisInv
  BY RedisInit DEF Init
<1>2. RedisInv /\ [Next]_vars => RedisInv'
  BY RedisNext, Interleaves
<1> QED
  BY <1>1, <1>2, PTL DEF Spec

\* The keys listed, and the key that can be edited and removed, are of the database of the tab
\* in front, whatever scans are under way and whichever requests fail (KeysAreOfTheTab).
THEOREM KeysFollowTheTab == Spec => []KeysAreOfTheTab
<1>1. RedisInv => KeysAreOfTheTab
  BY RedisHolds
<1> QED
  BY <1>1, RedisAlways, PTL

----------------------------------------------------------------------------
(* The plugin host. *)

HostProofs == INSTANCE PluginHost_proofs

HostAll == HostProofs!HostInv /\ HostProofs!RunInv /\ HostProofs!WindowInv

\* The window opens as the host does.
LEMMA HostInit == Init => HostAll
<1>1. Init => HostProofs!Init
  BY DEF Init, Host!Init, HostProofs!Init, Host!Nobody, HostProofs!Nobody, Host!Process,
    HostProofs!Process, Host!Blank, HostProofs!Blank
<1> QED
  BY <1>1, HostProofs!Init_Inv, HostProofs!InitRuns, HostProofs!InitShows, WorkbenchAssumption
    DEF HostAll

\* The host's actions are those the proofs are about.
LEMMA SameHost == Host!Next => HostProofs!Next
<1>1. \A c : Host!Register(c) => HostProofs!Register(c)
  BY DEF Host!Register, HostProofs!Register, Host!Registered, HostProofs!Registered, Host!Moved,
     HostProofs!Moved, Host!At, HostProofs!At, Host!Dropped, HostProofs!Dropped, Host!Held,
     HostProofs!Held, Host!Nobody, HostProofs!Nobody, Host!Process, HostProofs!Process,
     Host!Stopping, HostProofs!Stopping
<1>2. \A c : Host!Ask(c) => HostProofs!Ask(c)
  BY DEF Host!Ask, HostProofs!Ask, Host!Lockable, HostProofs!Lockable, Host!Locked,
     HostProofs!Locked, Host!Gone, HostProofs!Gone, Host!Dropped, HostProofs!Dropped, Host!Held,
     HostProofs!Held, Host!Nobody, HostProofs!Nobody, Host!Process, HostProofs!Process,
     Host!Moved, HostProofs!Moved, Host!At, HostProofs!At, Host!Becomes, HostProofs!Becomes
<1>3. \A c : Host!ReadAnswer(c) => HostProofs!ReadAnswer(c)
  BY DEF Host!ReadAnswer, HostProofs!ReadAnswer, Host!Dropped, HostProofs!Dropped, Host!Held,
     HostProofs!Held, Host!Nobody, HostProofs!Nobody, Host!Process, HostProofs!Process,
     Host!Becomes, HostProofs!Becomes
<1>4. \A c : Host!ReadEnd(c) => HostProofs!ReadEnd(c)
  BY DEF Host!ReadEnd, HostProofs!ReadEnd, Host!Dropped, HostProofs!Dropped, Host!Held,
     HostProofs!Held, Host!Nobody, HostProofs!Nobody, Host!Process, HostProofs!Process
<1>5. \A n : Host!BackendAnswers(n) => HostProofs!BackendAnswers(n)
  BY DEF Host!BackendAnswers, HostProofs!BackendAnswers, Host!Becomes, HostProofs!Becomes,
     Host!Process, HostProofs!Process
<1>6. \A n : Host!BackendEnds(n) => HostProofs!BackendEnds(n)
  BY DEF Host!BackendEnds, HostProofs!BackendEnds, Host!Held, HostProofs!Held, Host!Exits,
     HostProofs!Exits, Host!Dropped, HostProofs!Dropped, Host!Nobody, HostProofs!Nobody,
     Host!Process, HostProofs!Process, Host!Becomes, HostProofs!Becomes
<1>7. \A n : Host!BackendCrashes(n) => HostProofs!BackendCrashes(n)
  BY DEF Host!BackendCrashes, HostProofs!BackendCrashes, Host!Happens, HostProofs!Happens,
     Host!Exits, HostProofs!Exits, Host!Dropped, HostProofs!Dropped, Host!Held, HostProofs!Held,
     Host!Nobody, HostProofs!Nobody, Host!Process, HostProofs!Process, Host!Becomes,
     HostProofs!Becomes
<1>8. Host!StopFirst => HostProofs!StopFirst
  BY DEF Host!StopFirst, HostProofs!StopFirst, Host!Stopped, HostProofs!Stopped, Host!Locked,
     HostProofs!Locked, Host!Dropped, HostProofs!Dropped, Host!Held, HostProofs!Held, Host!Nobody,
     HostProofs!Nobody, Host!Process, HostProofs!Process, Host!Becomes, HostProofs!Becomes
<1>9. Host!ChangeDisk => HostProofs!ChangeDisk
  BY DEF Host!ChangeDisk, HostProofs!ChangeDisk, Host!Ended, HostProofs!Ended, Host!Command,
     HostProofs!Command, Host!Failed, HostProofs!Failed, Host!Released, HostProofs!Released
<1>10. Host!NothingInstalled => HostProofs!NothingInstalled
  BY DEF Host!NothingInstalled, HostProofs!NothingInstalled, Host!Released, HostProofs!Released
<1>11. Host!refreshInstalledPluginState => HostProofs!refreshInstalledPluginState
  BY DEF Host!refreshInstalledPluginState, HostProofs!refreshInstalledPluginState, Host!Show,
     HostProofs!Show, Host!Front, HostProofs!Front, Host!Blank, HostProofs!Blank, Host!Forgotten,
     HostProofs!Forgotten, Host!Command, HostProofs!Command, Host!Released, HostProofs!Released
<1>12. Host!PageArrives => HostProofs!PageArrives
  BY DEF Host!PageArrives, HostProofs!PageArrives, Host!Blank, HostProofs!Blank
<1>13. \A f : Host!handleSelectWorkspace(f) => HostProofs!handleSelectWorkspace(f)
  BY DEF Host!handleSelectWorkspace, HostProofs!handleSelectWorkspace, Host!Happens,
     HostProofs!Happens, Host!workspaceOptions, HostProofs!workspaceOptions, Host!Show,
     HostProofs!Show, Host!Front, HostProofs!Front, Host!Blank, HostProofs!Blank, Host!Forgotten,
     HostProofs!Forgotten, Host!Command, HostProofs!Command
<1>14. \A p : Host!handleInstallPlugin(p) => HostProofs!handleInstallPlugin(p)
  BY DEF Host!handleInstallPlugin, HostProofs!handleInstallPlugin, Host!Happens,
     HostProofs!Happens, Host!Installable, HostProofs!Installable, Host!Command,
     HostProofs!Command
<1>15. \A p : Host!handleUninstallPlugin(p) => HostProofs!handleUninstallPlugin(p)
  BY DEF Host!handleUninstallPlugin, HostProofs!handleUninstallPlugin, Host!Happens,
     HostProofs!Happens, Host!Removable, HostProofs!Removable, Host!workspaceOptions,
     HostProofs!workspaceOptions, Host!Command, HostProofs!Command
<1>16. \A c : Host!ensure_runtime(c) => HostProofs!ensure_runtime(c)
  BY DEF Host!ensure_runtime, HostProofs!ensure_runtime, Host!At, HostProofs!At, Host!Nobody,
     HostProofs!Nobody, Host!Process, HostProofs!Process
<1>17. Host!rpc_request => HostProofs!rpc_request
  <2>1. \A S : Host!Cardinality(S) = HostProofs!Cardinality(S)
    BY DEF Host!Cardinality, HostProofs!Cardinality
  <2> QED
    BY <1>16, <2>1 DEF Host!rpc_request, HostProofs!rpc_request, Host!Happens, HostProofs!Happens,
     Host!Blank, HostProofs!Blank
<1> QED
  BY <1>1, <1>2, <1>3, <1>4, <1>5, <1>6, <1>7, <1>8, <1>9, <1>10, <1>11, <1>12, <1>13, <1>14, <1>15,
    <1>16, <1>17 DEF Host!Next, HostProofs!Next, Host!HostWorks, HostProofs!HostWorks

\* The host goes on as proved, and every step beside it leaves it alone.
LEMMA HostNext == HostAll /\ [Next]_vars => HostAll'
<1> SUFFICES ASSUME HostAll, [Next]_vars PROVE HostAll'
  OBVIOUS
<1>1. [HostProofs!Next]_(HostProofs!hostVars)
  BY Interleaves, SameHost DEF HostStep, hostVars, HostProofs!hostVars
<1>2. 0 \notin Plugins /\ Packages \subseteq Plugins
  BY WorkbenchAssumption
<1>3. HostProofs!HostInv'
  BY <1>1, <1>2, HostProofs!Next_Inv DEF HostAll
<1>4. HostProofs!RunInv'
  BY <1>1, <1>2, <1>3, HostProofs!NextRuns DEF HostAll
<1>5. HostProofs!WindowInv'
  BY <1>1, <1>2, <1>3, HostProofs!NextShows DEF HostAll
<1> QED
  BY <1>3, <1>4, <1>5 DEF HostAll

\* A call of a plugin's backend reads its own answer (AnswersInStep).
THEOREM BackendsAnswerInStep == Spec => []AnswersInStep
<1>1. HostAll => AnswersInStep
  <2>1. HostProofs!HostInv => HostProofs!AnswersInStep
    BY HostProofs!HostInvImplies
  <2> QED
    BY <2>1 DEF HostAll, AnswersInStep, Host!AnswersInStep, HostProofs!AnswersInStep, Host!Locked,
      HostProofs!Locked
<1> QED
  BY <1>1, HostInit, HostNext, PTL DEF Spec

\* Plugins run and are shown as they are installed (PluginsRunAsInstalled).
THEOREM PluginsFollowTheInstallation == Spec => []PluginsRunAsInstalled
<1>1. HostAll => PluginsRunAsInstalled
  <2>1. HostAll => HostProofs!PluginsRunAsInstalled
    BY HostProofs!HostShown DEF HostAll
  <2> QED
    BY <2>1 DEF PluginsRunAsInstalled, Host!PluginsRunAsInstalled, HostProofs!PluginsRunAsInstalled,
      Host!RunsWhatIsInstalled, HostProofs!RunsWhatIsInstalled, Host!Stopping, HostProofs!Stopping,
      Host!WindowFollowsDisk, HostProofs!WindowFollowsDisk, Host!Blank, HostProofs!Blank
<1> QED
  BY <1>1, HostInit, HostNext, PTL DEF Spec

----------------------------------------------------------------------------
(* The comparison screens. *)

CompareProofs == INSTANCE CompareScreen_proofs

LEMMA SameNumbers ==
  /\ \A S : Compare!Cardinality(S) = CompareProofs!Cardinality(S) /\ Compare!First(S) = CompareProofs!First(S)
  /\ Compare!Keys = CompareProofs!Keys
BY DEF Compare!Cardinality, CompareProofs!Cardinality, Compare!First, CompareProofs!First, Compare!Keys,
  CompareProofs!Keys

\* Both count what is selected alike.
LEMMA SameSelections ==
  /\ \A t, ty : Compare!Rows(t, ty) = CompareProofs!Rows(t, ty)
  /\ \A t, ty : Compare!ActionEnabled(t, ty) <=> CompareProofs!ActionEnabled(t, ty)
  /\ \A t, ty : Compare!Selected(t, ty) = CompareProofs!Selected(t, ty)
  /\ \A row : Compare!Signature(row) = CompareProofs!Signature(row)
  /\ \A t, item : Compare!UpdateSelection(t, item) <=> CompareProofs!UpdateSelection(t, item)
<1>1. \A t, ty : Compare!Rows(t, ty) = CompareProofs!Rows(t, ty)
  BY DEF Compare!Rows, CompareProofs!Rows
<1>2. \A t, ty : Compare!ActionEnabled(t, ty) <=> CompareProofs!ActionEnabled(t, ty)
  BY DEF Compare!ActionEnabled, CompareProofs!ActionEnabled
<1>3. \A t, ty : Compare!Selected(t, ty) = CompareProofs!Selected(t, ty)
  BY SameNumbers DEF Compare!Selected, CompareProofs!Selected, Compare!Rows, CompareProofs!Rows,
    Compare!ActionEnabled, CompareProofs!ActionEnabled
<1>4. \A row : Compare!Signature(row) = CompareProofs!Signature(row)
  BY SameNumbers DEF Compare!Signature, CompareProofs!Signature
<1>5. \A t, item : Compare!UpdateSelection(t, item) <=> CompareProofs!UpdateSelection(t, item)
  BY DEF Compare!UpdateSelection, CompareProofs!UpdateSelection, Compare!ResultShown,
    CompareProofs!ResultShown, Compare!DataGesture, CompareProofs!DataGesture, Compare!Gesture,
    CompareProofs!Gesture
<1> QED
  BY <1>1, <1>2, <1>3, <1>4, <1>5

\* The screens' actions are those the proofs are about.
LEMMA SameCompare == Compare!Next => CompareProofs!Next
<1>1. \A p : Compare!Choose(p) => CompareProofs!Choose(p)
  BY SameNumbers DEF Compare!Choose, CompareProofs!Choose, Compare!defaultDataCompareState,
    CompareProofs!defaultDataCompareState, Compare!NoResult, CompareProofs!NoResult,
    Compare!NoPair, CompareProofs!NoPair, Compare!AllSelected, CompareProofs!AllSelected,
    Compare!NoTable, CompareProofs!NoTable, Compare!NoPages, CompareProofs!NoPages,
    Compare!EmptyPage, CompareProofs!EmptyPage, Compare!defaultStructureCompareState,
    CompareProofs!defaultStructureCompareState, Compare!NoStructure, CompareProofs!NoStructure,
    Compare!Categories, CompareProofs!Categories, Compare!NoDetail, CompareProofs!NoDetail,
    Compare!Noting, CompareProofs!Noting
<1>2. Compare!discoverCompareTables => CompareProofs!discoverCompareTables
  BY SameNumbers DEF Compare!discoverCompareTables, CompareProofs!discoverCompareTables,
    Compare!DiscoverOffered, CompareProofs!DiscoverOffered, Compare!NoPair, CompareProofs!NoPair,
    Compare!Send, CompareProofs!Send, Compare!Call, CompareProofs!Call, Compare!DataGesture,
    CompareProofs!DataGesture, Compare!Gesture, CompareProofs!Gesture
<1>3. Compare!setDataCompareStep => CompareProofs!setDataCompareStep
  BY SameNumbers DEF Compare!setDataCompareStep, CompareProofs!setDataCompareStep,
    Compare!DataGesture, CompareProofs!DataGesture, Compare!Gesture, CompareProofs!Gesture
<1>4. \A S : Compare!SelectTables(S) => CompareProofs!SelectTables(S)
  BY SameNumbers DEF Compare!SelectTables, CompareProofs!SelectTables, Compare!TablesOffered,
    CompareProofs!TablesOffered, Compare!DataGesture, CompareProofs!DataGesture, Compare!Gesture,
    CompareProofs!Gesture, Compare!resetDataCompareResultState,
    CompareProofs!resetDataCompareResultState, Compare!NoResult, CompareProofs!NoResult,
    Compare!NoPair, CompareProofs!NoPair, Compare!AllSelected, CompareProofs!AllSelected,
    Compare!NoTable, CompareProofs!NoTable, Compare!NoPages, CompareProofs!NoPages,
    Compare!EmptyPage, CompareProofs!EmptyPage
<1>5. Compare!runDataCompareFlow => CompareProofs!runDataCompareFlow
  BY SameNumbers DEF Compare!runDataCompareFlow, CompareProofs!runDataCompareFlow,
    Compare!RunOffered, CompareProofs!RunOffered, Compare!Refused, CompareProofs!Refused,
    Compare!NoPair, CompareProofs!NoPair, Compare!RequestedTables, CompareProofs!RequestedTables,
    Compare!Send, CompareProofs!Send, Compare!Call, CompareProofs!Call,
    Compare!resetDataCompareResultState, CompareProofs!resetDataCompareResultState,
    Compare!NoResult, CompareProofs!NoResult, Compare!AllSelected, CompareProofs!AllSelected,
    Compare!NoTable, CompareProofs!NoTable, Compare!NoPages, CompareProofs!NoPages,
    Compare!EmptyPage, CompareProofs!EmptyPage
<1>6. Compare!RunRefused => CompareProofs!RunRefused
  BY SameNumbers DEF Compare!RunRefused, CompareProofs!RunRefused, Compare!RunOffered,
    CompareProofs!RunOffered, Compare!Refused, CompareProofs!Refused, Compare!NoPair,
    CompareProofs!NoPair, Compare!RequestedTables, CompareProofs!RequestedTables,
    Compare!RunFailed, CompareProofs!RunFailed, Compare!DataGesture, CompareProofs!DataGesture,
    Compare!Gesture, CompareProofs!Gesture
<1>7. Compare!cancelRunningDataCompare => CompareProofs!cancelRunningDataCompare
  BY SameNumbers DEF Compare!cancelRunningDataCompare, CompareProofs!cancelRunningDataCompare,
    Compare!CancelOffered, CompareProofs!CancelOffered, Compare!Call, CompareProofs!Call
<1>8. Compare!LoadMore => CompareProofs!LoadMore
  BY SameNumbers DEF Compare!LoadMore, CompareProofs!LoadMore, Compare!ResultShown,
    CompareProofs!ResultShown, Compare!NoTable, CompareProofs!NoTable, Compare!DataGesture,
    CompareProofs!DataGesture, Compare!Gesture, CompareProofs!Gesture,
    Compare!ensureDataCompareDetailLoaded, CompareProofs!ensureDataCompareDetailLoaded,
    Compare!Rows, CompareProofs!Rows, Compare!PageAsked, CompareProofs!PageAsked,
    Compare!EmptyPage, CompareProofs!EmptyPage, Compare!Send, CompareProofs!Send,
    Compare!PageCall, CompareProofs!PageCall, Compare!Call, CompareProofs!Call
<1>9. \A t : Compare!selectDataCompareResultTable(t) => CompareProofs!selectDataCompareResultTable(t)
  BY SameNumbers DEF Compare!selectDataCompareResultTable,
    CompareProofs!selectDataCompareResultTable, Compare!ResultShown, CompareProofs!ResultShown,
    Compare!DataGesture, CompareProofs!DataGesture, Compare!Gesture, CompareProofs!Gesture,
    Compare!ensureDataCompareDetailLoaded, CompareProofs!ensureDataCompareDetailLoaded,
    Compare!Rows, CompareProofs!Rows, Compare!PageAsked, CompareProofs!PageAsked,
    Compare!EmptyPage, CompareProofs!EmptyPage, Compare!Send, CompareProofs!Send,
    Compare!PageCall, CompareProofs!PageCall, Compare!Call, CompareProofs!Call
<1>10. \A t : Compare!toggleDataCompareResultTableSelection(t) => CompareProofs!toggleDataCompareResultTableSelection(t)
  <2>1. \A t : Compare!TableChecked(t) <=> CompareProofs!TableChecked(t)
    BY SameNumbers, SameSelections DEF Compare!TableChecked, CompareProofs!TableChecked
  <2> QED
    BY <2>1, SameSelections DEF Compare!toggleDataCompareResultTableSelection,
      CompareProofs!toggleDataCompareResultTableSelection
<1>11. \A ty : Compare!switchDataCompareDetailType(ty) => CompareProofs!switchDataCompareDetailType(ty)
  BY SameNumbers DEF Compare!switchDataCompareDetailType,
    CompareProofs!switchDataCompareDetailType, Compare!ResultShown, CompareProofs!ResultShown,
    Compare!NoTable, CompareProofs!NoTable, Compare!DataGesture, CompareProofs!DataGesture,
    Compare!Gesture, CompareProofs!Gesture, Compare!ensureDataCompareDetailLoaded,
    CompareProofs!ensureDataCompareDetailLoaded, Compare!Rows, CompareProofs!Rows,
    Compare!PageAsked, CompareProofs!PageAsked, Compare!EmptyPage, CompareProofs!EmptyPage,
    Compare!Send, CompareProofs!Send, Compare!PageCall, CompareProofs!PageCall, Compare!Call,
    CompareProofs!Call
<1>12. \A t, ty : Compare!toggleDataCompareResultActionSelection(t, ty) => CompareProofs!toggleDataCompareResultActionSelection(t, ty)
  <2>1. \A t, ty : Compare!ActionChecked(t, ty) <=> CompareProofs!ActionChecked(t, ty)
    BY SameNumbers, SameSelections DEF Compare!ActionChecked, CompareProofs!ActionChecked
  <2> QED
    BY <2>1, SameSelections DEF Compare!toggleDataCompareResultActionSelection,
      CompareProofs!toggleDataCompareResultActionSelection
<1>13. \A row : Compare!toggleDataCompareDetailSelection(row) => CompareProofs!toggleDataCompareDetailSelection(row)
  BY SameNumbers DEF Compare!toggleDataCompareDetailSelection,
    CompareProofs!toggleDataCompareDetailSelection, Compare!ListedRows, CompareProofs!ListedRows,
    Compare!NoTable, CompareProofs!NoTable, Compare!UpdateSelection,
    CompareProofs!UpdateSelection, Compare!ResultShown, CompareProofs!ResultShown,
    Compare!DataGesture, CompareProofs!DataGesture, Compare!Gesture, CompareProofs!Gesture,
    Compare!isDataCompareDetailSelected, CompareProofs!isDataCompareDetailSelected,
    Compare!ActionEnabled, CompareProofs!ActionEnabled, Compare!Signature,
    CompareProofs!Signature
<1>14. Compare!runStructureCompareFlow => CompareProofs!runStructureCompareFlow
  BY SameNumbers DEF Compare!runStructureCompareFlow, CompareProofs!runStructureCompareFlow,
    Compare!StructureOffered, CompareProofs!StructureOffered, Compare!NoPair,
    CompareProofs!NoPair, Compare!Send, CompareProofs!Send, Compare!Call, CompareProofs!Call
<1>15. Compare!cancelRunningStructureCompare => CompareProofs!cancelRunningStructureCompare
  BY SameNumbers DEF Compare!cancelRunningStructureCompare,
    CompareProofs!cancelRunningStructureCompare, Compare!Call, CompareProofs!Call
<1>16. \A step : Compare!setStructureCompareStep(step) => CompareProofs!setStructureCompareStep(step)
  BY SameNumbers DEF Compare!setStructureCompareStep, CompareProofs!setStructureCompareStep,
    Compare!Categories, CompareProofs!Categories, Compare!StructureGesture,
    CompareProofs!StructureGesture, Compare!Gesture, CompareProofs!Gesture
<1>17. \A k, items : Compare!SelectItems(k, items) => CompareProofs!SelectItems(k, items)
  BY SameNumbers DEF Compare!SelectItems, CompareProofs!SelectItems, Compare!ItemsOffered,
    CompareProofs!ItemsOffered, Compare!StructureGesture, CompareProofs!StructureGesture,
    Compare!Gesture, CompareProofs!Gesture
<1>18. \A k, t, forceReload : Compare!toggleStructureDetail(k, t, forceReload) => CompareProofs!toggleStructureDetail(k, t, forceReload)
  BY SameNumbers DEF Compare!toggleStructureDetail, CompareProofs!toggleStructureDetail,
    Compare!StructureGesture, CompareProofs!StructureGesture, Compare!Gesture,
    CompareProofs!Gesture, Compare!Send, CompareProofs!Send, Compare!Call, CompareProofs!Call
<1>19. \A c : Compare!TaskProgress(c) => CompareProofs!TaskProgress(c)
  BY SameNumbers DEF Compare!TaskProgress, CompareProofs!TaskProgress, Compare!DataAnswer,
    CompareProofs!DataAnswer
<1>20. \A c : Compare!StructureProgress(c) => CompareProofs!StructureProgress(c)
  BY SameNumbers DEF Compare!StructureProgress, CompareProofs!StructureProgress,
    Compare!StructureAnswer, CompareProofs!StructureAnswer
<1>21. \A c : Compare!DiscoverAnswer(c) => CompareProofs!DiscoverAnswer(c)
  BY SameNumbers DEF Compare!DiscoverAnswer, CompareProofs!DiscoverAnswer, Compare!Returned,
    CompareProofs!Returned, Compare!DataAnswer, CompareProofs!DataAnswer,
    Compare!resetDataCompareResultState, CompareProofs!resetDataCompareResultState,
    Compare!NoResult, CompareProofs!NoResult, Compare!NoPair, CompareProofs!NoPair,
    Compare!AllSelected, CompareProofs!AllSelected, Compare!NoTable, CompareProofs!NoTable,
    Compare!NoPages, CompareProofs!NoPages, Compare!EmptyPage, CompareProofs!EmptyPage
<1>22. \A c : Compare!PageArrives(c) => CompareProofs!PageArrives(c)
  BY SameNumbers DEF Compare!PageArrives, CompareProofs!PageArrives, Compare!Returned,
    CompareProofs!Returned, Compare!DataAnswer, CompareProofs!DataAnswer, Compare!PageMishap,
    CompareProofs!PageMishap, Compare!KeyOf, CompareProofs!KeyOf,
    Compare!buildPrunedDataCompareDetailPages, CompareProofs!buildPrunedDataCompareDetailPages,
    Compare!PageOf, CompareProofs!PageOf, Compare!EmptyPage, CompareProofs!EmptyPage,
    Compare!NoPages, CompareProofs!NoPages
<1>23. \A c : Compare!PageFails(c) => CompareProofs!PageFails(c)
  BY SameNumbers DEF Compare!PageFails, CompareProofs!PageFails, Compare!Returned,
    CompareProofs!Returned, Compare!DataAnswer, CompareProofs!DataAnswer, Compare!PageMishap,
    CompareProofs!PageMishap, Compare!KeyOf, CompareProofs!KeyOf
<1>24. \A c : Compare!TaskCompletes(c) => CompareProofs!TaskCompletes(c)
  <2>1. \A c, S : Compare!ResultsOf(c, S) = CompareProofs!ResultsOf(c, S)
    BY SameNumbers DEF Compare!ResultsOf, CompareProofs!ResultsOf
  <2>2. Compare!NoPages = CompareProofs!NoPages /\ Compare!AllSelected = CompareProofs!AllSelected
    BY SameNumbers DEF Compare!NoPages, CompareProofs!NoPages, Compare!EmptyPage,
      CompareProofs!EmptyPage, Compare!AllSelected, CompareProofs!AllSelected
  <2> QED
    BY SameNumbers, <2>1, <2>2 DEF Compare!TaskCompletes, CompareProofs!TaskCompletes,
      Compare!DataAnswer, CompareProofs!DataAnswer, Compare!Call, CompareProofs!Call,
      Compare!NoTable, CompareProofs!NoTable
<1>25. \A c : Compare!TaskFails(c) => CompareProofs!TaskFails(c)
  BY SameNumbers DEF Compare!TaskFails, CompareProofs!TaskFails, Compare!Returned,
    CompareProofs!Returned, Compare!RunFailed, CompareProofs!RunFailed, Compare!DataAnswer,
    CompareProofs!DataAnswer
<1>26. \A c : Compare!HistoryAnswer(c) => CompareProofs!HistoryAnswer(c)
  BY SameNumbers DEF Compare!HistoryAnswer, CompareProofs!HistoryAnswer, Compare!DataAnswer,
    CompareProofs!DataAnswer, Compare!Returned, CompareProofs!Returned, Compare!PageAsked,
    CompareProofs!PageAsked, Compare!EmptyPage, CompareProofs!EmptyPage, Compare!PageCall,
    CompareProofs!PageCall, Compare!Call, CompareProofs!Call, Compare!Noting,
    CompareProofs!Noting
<1>27. \A c : Compare!HistoryFails(c) => CompareProofs!HistoryFails(c)
  BY SameNumbers DEF Compare!HistoryFails, CompareProofs!HistoryFails, Compare!Returned,
    CompareProofs!Returned, Compare!RunFailed, CompareProofs!RunFailed, Compare!DataAnswer,
    CompareProofs!DataAnswer, Compare!Noting, CompareProofs!Noting
<1>28. \A c : Compare!StructureCompletes(c) => CompareProofs!StructureCompletes(c)
  BY SameNumbers DEF Compare!StructureCompletes, CompareProofs!StructureCompletes,
    Compare!StructureAnswer, CompareProofs!StructureAnswer, Compare!Categories,
    CompareProofs!Categories, Compare!defaultStructureCompareState,
    CompareProofs!defaultStructureCompareState, Compare!NoStructure, CompareProofs!NoStructure,
    Compare!NoPair, CompareProofs!NoPair, Compare!NoDetail, CompareProofs!NoDetail, Compare!Call,
    CompareProofs!Call
<1>29. \A c : Compare!StructureFails(c) => CompareProofs!StructureFails(c)
  BY SameNumbers DEF Compare!StructureFails, CompareProofs!StructureFails, Compare!Returned,
    CompareProofs!Returned, Compare!StructureAnswer, CompareProofs!StructureAnswer
<1>30. \A c : Compare!StructureRecorded(c) => CompareProofs!StructureRecorded(c)
  BY SameNumbers DEF Compare!StructureRecorded, CompareProofs!StructureRecorded,
    Compare!Returned, CompareProofs!Returned, Compare!StructureAnswer,
    CompareProofs!StructureAnswer
<1>31. \A c : Compare!DetailAnswer(c) => CompareProofs!DetailAnswer(c)
  BY SameNumbers DEF Compare!DetailAnswer, CompareProofs!DetailAnswer, Compare!Returned,
    CompareProofs!Returned, Compare!StructureAnswer, CompareProofs!StructureAnswer,
    Compare!Noting, CompareProofs!Noting, Compare!NoDetail, CompareProofs!NoDetail
<1> QED
  BY <1>1, <1>2, <1>3, <1>4, <1>5, <1>6, <1>7, <1>8, <1>9, <1>10, <1>11, <1>12, <1>13, <1>14,
    <1>15, <1>16, <1>17, <1>18, <1>19, <1>20, <1>21, <1>22, <1>23, <1>24, <1>25, <1>26, <1>27,
    <1>28, <1>29, <1>30, <1>31 DEF Compare!Next, CompareProofs!Next, Compare!Answer,
    CompareProofs!Answer, Compare!Categories, CompareProofs!Categories, Compare!NoPair,
    CompareProofs!NoPair

\* The screens open, and go on, as proved.
LEMMA CompareGiven == CompareProofs!CompareAssumption
<1>1. CompareProofs!IsFiniteSet(CompareTables \cup Differences)
  BY WorkbenchAssumption DEF CompareProofs!IsFiniteSet, IsFiniteSet
<1> QED
  BY <1>1, WorkbenchAssumption DEF CompareProofs!CompareAssumption
LEMMA CompareInit == Init => CompareProofs!CompareInv
<1>1. Compare!Init => CompareProofs!Init
  BY SameNumbers DEF Compare!Init, CompareProofs!Init, Compare!defaultDataCompareState,
    CompareProofs!defaultDataCompareState, Compare!defaultStructureCompareState,
    CompareProofs!defaultStructureCompareState, Compare!NoResult, CompareProofs!NoResult,
    Compare!AllSelected, CompareProofs!AllSelected, Compare!NoPages, CompareProofs!NoPages,
    Compare!EmptyPage, CompareProofs!EmptyPage, Compare!NoStructure, CompareProofs!NoStructure,
    Compare!NoDetail, CompareProofs!NoDetail, Compare!Categories, CompareProofs!Categories,
    Compare!NoPair, CompareProofs!NoPair, Compare!NoTable, CompareProofs!NoTable
<1> QED
  BY <1>1, CompareGiven, CompareProofs!CompareInit DEF Init
LEMMA CompareNext == CompareProofs!CompareInv /\ [Next]_vars => CompareProofs!CompareInv'
<1> SUFFICES ASSUME CompareProofs!CompareInv, [Next]_vars PROVE CompareProofs!CompareInv'
  OBVIOUS
<1>1. [CompareProofs!Next]_(CompareProofs!compareVars)
  BY Interleaves, SameCompare DEF CompareStep, compareVars, CompareProofs!compareVars
<1> QED
  BY <1>1, CompareGiven, CompareProofs!CompareNext

\* A result is of the databases the form names, and what is listed is its own
\* (ResultIsOfTheForm).
THEOREM ResultsAreOfTheForm == Spec => []ResultIsOfTheForm
<1>1. CompareProofs!CompareInv => ResultIsOfTheForm
  <2>1. CompareProofs!CompareInv => CompareProofs!ResultIsOfTheForm /\ CompareProofs!ListedIsTheResult
    BY CompareProofs!ResultsOfTheForm, CompareProofs!ResultsListed
  <2>2. CompareProofs!ResultIsOfTheForm => Compare!ResultIsOfTheForm
    BY DEF Compare!ResultIsOfTheForm, CompareProofs!ResultIsOfTheForm
  <2>3. CompareProofs!ListedIsTheResult => Compare!ListedIsTheResult
    BY SameNumbers DEF Compare!ListedIsTheResult, CompareProofs!ListedIsTheResult, Compare!Categories,
      CompareProofs!Categories, Compare!ResultShown, CompareProofs!ResultShown, Compare!NoTable,
      CompareProofs!NoTable, Compare!Rows, CompareProofs!Rows, Compare!InFlight, CompareProofs!InFlight
  <2> QED
    BY <2>1, <2>2, <2>3 DEF ResultIsOfTheForm
<1> QED
  BY <1>1, CompareInit, CompareNext, PTL DEF Spec

\* An export holds what the screen shows as checked, and the counters say how much
\* (ExportsWhatIsChecked).
THEOREM ExportsAreWhatIsChecked == Spec => []ExportsWhatIsChecked
<1>1. CompareProofs!CompareInv => ExportsWhatIsChecked
  <2>1. CompareProofs!CompareInv => CompareProofs!ExportsWhatIsChecked
    BY CompareGiven, CompareProofs!Exports
  <2>2. Compare!Exported = CompareProofs!Exported
    BY SameSelections DEF Compare!Exported, CompareProofs!Exported
  <2>3. \A t, ty, row : Compare!isDataCompareDetailSelected(t, ty, row) <=>
                        CompareProofs!isDataCompareDetailSelected(t, ty, row)
    BY SameSelections DEF Compare!isDataCompareDetailSelected, CompareProofs!isDataCompareDetailSelected
  <2>4. CompareProofs!ExportsWhatIsChecked => Compare!ExportsWhatIsChecked
    BY SameNumbers, SameSelections, <2>2, <2>3
      DEF Compare!ExportsWhatIsChecked, CompareProofs!ExportsWhatIsChecked
  <2> QED
    BY <2>1, <2>4 DEF ExportsWhatIsChecked
<1> QED
  BY <1>1, CompareInit, CompareNext, PTL DEF Spec
==============================================================================
