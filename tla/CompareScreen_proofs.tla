-------------------------- MODULE CompareScreen_proofs --------------------------
(***************************************************************************)
(* What the comparison screens keep to.  Every comparison has an id of its *)
(* own, so a page on its way is of the result shown exactly when it bears  *)
(* its id; what is listed and what is left out is then of that result.     *)
(* Pages are the first differences in their order: their lemmas are about  *)
(* ranks in a finite set of numbers.                                       *)
(***************************************************************************)
EXTENDS CompareScreen, FiniteSetTheorems, TLAPS

\* a choice in the form, a table and a difference are numbers, and there are few of them
CompareAssumption ==
  /\ 0 \notin ComparePairs \cup CompareTables
  /\ CompareTables \cup Differences \subseteq Nat /\ IsFiniteSet(CompareTables \cup Differences)
  /\ "insert" \in DetailTypes

Signatures == Differences \cup {First(Differences)}
ResultForm == [id : Nat, pair : ComparePairs \cup {0}, tables : SUBSET CompareTables,
               keyed : BOOLEAN, rows : [Keys -> SUBSET Differences]]
PageForm == [loaded : BOOLEAN, loading : BOOLEAN, failed : BOOLEAN, fetched : Nat,
             items : SUBSET Differences, more : BOOLEAN]
ItemForm == [on : BOOLEAN, act : [DetailTypes -> BOOLEAN],
             excluded : [DetailTypes -> SUBSET Signatures]]
DataForm == [step : 1..3, common : SUBSET CompareTables, selected : SUBSET CompareTables,
             loadingTables : BOOLEAN, running : BOOLEAN, progress : Nat, result : ResultForm,
             selection : [CompareTables -> ItemForm], table : CompareTables \cup {0},
             type : DetailTypes, pages : [Keys -> PageForm]]
DetailKeys == Categories \X CompareTables
StructureForm == [step : 1..3, loading : BOOLEAN, progress : Nat,
                  result : [id : Nat, pair : ComparePairs \cup {0},
                            items : [Categories -> SUBSET CompareTables]],
                  selection : [Categories -> SUBSET CompareTables],
                  expanded : SUBSET DetailKeys,
                  details : [DetailKeys -> [loading : BOOLEAN, failed : BOOLEAN, of : Nat]]]

PageBody == [of : Nat \ {0}, rows : SUBSET Differences, table : CompareTables, type : DetailTypes,
             reset : BOOLEAN, offset : Nat]
TaskBody == [id : Nat \ {0}, pair : ComparePairs \cup {0}, tables : SUBSET CompareTables]
StructureOps == {"structure", "structureCanceled", "structureHistory"}
IsCompareCall(c) ==
  /\ c = [op |-> c.op, body |-> c.body]
  /\ c.op \in {"discover", "page", "task", "canceled", "history", "detail"} \cup StructureOps
  /\ c.op = "page" => c.body \in PageBody
  /\ c.op \in {"task", "canceled"} => c.body \in TaskBody
  /\ c.op = "history" => c.body \in [result : ResultForm] /\ c.body.result.id # 0
  /\ c.op \in StructureOps => c.body \in [id : Nat \ {0}, pair : ComparePairs \cup {0}]
  /\ c.op = "detail" => c.body \in [of : Nat, key : DetailKeys]

CompareTypes ==
  /\ pair \in ComparePairs \cup {0} /\ data \in DataForm /\ structure \in StructureForm
  /\ compareSteps \in [choices : Nat, compares : Nat, others : Nat]
  /\ \A c \in compareCalls : IsCompareCall(c)

CallsOf(op) == {c \in compareCalls : c.op = op}
\* a comparison has an id of its own, and what is asked about its result is of that result
IdsAreOwn ==
  /\ data.result.id <= compareSteps.compares
  /\ \A c \in CallsOf("page") :
       /\ c.body.of <= compareSteps.compares
       /\ c.body.of = data.result.id => c.body.rows = data.result.rows[KeyOf(c)]
  /\ \A c \in CallsOf("history") :
       /\ c.body.result.id <= compareSteps.compares
       /\ c.body.result.id = data.result.id => c.body.result = data.result
  /\ \A c \in CallsOf("task") :
       /\ c.body.id <= compareSteps.compares /\ c.body.id # data.result.id
       /\ \A d \in CallsOf("page") : d.body.of # c.body.id
       /\ \A d \in CallsOf("history") : d.body.result.id # c.body.id
       /\ \A d \in CallsOf("task") : d.body.id = c.body.id => d = c

FormFollows ==
  "switched" \notin mishaps =>
    /\ data.result.id # 0 => data.result.pair = pair
    /\ structure.result.id # 0 => structure.result.pair = pair
    /\ \A c \in CallsOf("task") \cup CallsOf("structure") : c.body.pair = pair
DetailsFollow ==
  "outdated" \notin mishaps =>
    \A k \in DetailKeys : structure.details[k].of \in {0, structure.result.id}

\* what is listed or left out is of the result
ExclusionsFollow ==
  "outdated" \notin mishaps =>
    /\ \A k \in Keys : data.pages[k].items \subseteq data.result.rows[k]
    /\ \A t \in CompareTables, ty \in DetailTypes :
         data.selection[t].excluded[ty] \subseteq
           IF data.result.keyed THEN data.result.rows[<<t, ty>>] ELSE {First(Differences)}

Clean == mishaps \cap {"outdated", "doubled", "pruned", "unrecorded"} = {}
Rank(r, S) == Cardinality({q \in S : q < r})
IsHead(items, S, n) == items = {r \in S : Rank(r, S) < n}
\* a page holds the first differences and knows whether there are more
IsPage(p, rows) ==
  /\ IsHead(p.items, rows, p.fetched)
  /\ p.loaded => p.more = (p.fetched < Cardinality(rows))
  /\ ~p.loaded => p.fetched = 0
  /\ rows # {} \/ ~p.loading
\* another request for the page of this one is on its way
Doubled(c) == \E d \in CallsOf("page") \ {c} : KeyOf(d) = KeyOf(c)
Shown(k) == k = <<data.table, data.type>>
\* a request goes on where its page ends, or its answer is for a page that is not shown
FitsPage(c) ==
  LET k == KeyOf(c)
      p == data.pages[k]
  IN /\ c.body.offset < Cardinality(c.body.rows) /\ (c.body.reset => c.body.offset = 0)
     /\ \/ Doubled(c)
        \/ p.loading /\ (c.body.reset \/ c.body.offset = p.fetched)
        \/ ~Shown(k) /\ ~p.loading /\ ~p.loaded
RecordsResult == \E h \in CallsOf("history") : h.body.result.id = data.result.id
PagesFollow ==
  Clean =>
    /\ \A k \in Keys :
         /\ IsPage(data.pages[k], data.result.rows[k])
         /\ data.pages[k].loading => \E c \in CallsOf("page") : KeyOf(c) = k
    /\ \A c \in CallsOf("page") :
         c.body.of = data.result.id => FitsPage(c) /\ (RecordsResult => ~c.body.reset)
    /\ data.table \in data.result.tables \cup {0}
    /\ data.table # 0 =>
         LET p == data.pages[<<data.table, data.type>>]
         IN \/ p.loaded \/ p.failed \/ data.result.rows[<<data.table, data.type>>] = {}
            \/ CallsOf("page") # {} \/ RecordsResult

CompareInv ==
  /\ CompareTypes /\ IdsAreOwn /\ FormFollows /\ DetailsFollow /\ ExclusionsFollow /\ PagesFollow

\* Each of the first ranks of a set is that of one element.
LEMMA Ranks ==
  ASSUME NEW S \in SUBSET Nat, IsFiniteSet(S)
  PROVE  /\ Cardinality(S) \in Nat
         /\ \A r \in S : Rank(r, S) \in 0..(Cardinality(S) - 1)
         /\ \A r, q \in S : Rank(r, S) = Rank(q, S) => r = q
         /\ \A n \in 0..(Cardinality(S) - 1) : \E r \in S : Rank(r, S) = n
<1> DEFINE Below(r) == {q \in S : q < r}
           f == [r \in S |-> Rank(r, S)]
           T == 0..(Cardinality(S) - 1)
<1>1. Cardinality(S) \in Nat
  BY FS_CardinalityType
<1>2. ASSUME NEW r \in S
      PROVE  Rank(r, S) \in T /\ IsFiniteSet(Below(r)) /\ Rank(r, S) = Cardinality(Below(r))
  <2>1. Below(r) \in SUBSET S /\ r \notin Below(r)
    OBVIOUS
  <2>2. /\ IsFiniteSet(Below(r)) /\ Cardinality(Below(r)) <= Cardinality(S)
        /\ Cardinality(S) = Cardinality(Below(r)) => S = Below(r)
    BY <2>1, FS_Subset
  <2>3. Cardinality(Below(r)) \in Nat
    BY <2>2, FS_CardinalityType
  <2> QED
    BY <1>1, <2>1, <2>2, <2>3 DEF Rank
<1>3. ASSUME NEW r \in S, NEW q \in S, r < q
      PROVE  Rank(r, S) < Rank(q, S)
  <2>1. Below(r) \in SUBSET Below(q) /\ r \in Below(q) /\ r \notin Below(r)
    <3>1. r \in Nat /\ q \in Nat
      OBVIOUS
    <3>2. ASSUME NEW x \in Below(r) PROVE x \in Below(q)
      <4>1. x \in S /\ x < r
        OBVIOUS
      <4>2. x < q
        BY <1>3, <3>1, <4>1
      <4> QED
        BY <4>1, <4>2
    <3>3. r \in Below(q)
      BY <1>3
    <3>4. ~(r < r)
      BY <3>1
    <3> QED
      BY <3>2, <3>3, <3>4
  <2>2. /\ Cardinality(Below(r)) <= Cardinality(Below(q))
        /\ Cardinality(Below(q)) = Cardinality(Below(r)) => Below(q) = Below(r)
    BY <1>2, <2>1, FS_Subset
  <2>3. Cardinality(Below(r)) \in Nat /\ Cardinality(Below(q)) \in Nat
    BY <1>2, FS_CardinalityType
  <2> QED
    BY <1>2, <2>1, <2>2, <2>3
<1>4. \A r, q \in S : Rank(r, S) = Rank(q, S) => r = q
  <2> SUFFICES ASSUME NEW r \in S, NEW q \in S, r # q PROVE Rank(r, S) # Rank(q, S)
    OBVIOUS
  <2>1. r < q \/ q < r
    <3>1. r \in Nat /\ q \in Nat
      OBVIOUS
    <3> QED
      BY <3>1
  <2>2. Rank(r, S) \in Nat /\ Rank(q, S) \in Nat
    <3>1. Rank(r, S) \in T /\ Rank(q, S) \in T
      BY <1>2
    <3> HIDE DEF Below, f
    <3> QED
      BY <1>1, <3>1
  <2>3. Rank(r, S) < Rank(q, S) \/ Rank(q, S) < Rank(r, S)
    BY <1>3, <2>1
  <2> QED
    BY <2>2, <2>3
<1>5. IsFiniteSet(T) /\ Cardinality(T) = Cardinality(S)
  <2>1. 0 \in Int /\ Cardinality(S) - 1 \in Int
    BY <1>1
  <2>2. /\ IsFiniteSet(T)
        /\ Cardinality(T) = IF 0 > Cardinality(S) - 1 THEN 0 ELSE (Cardinality(S) - 1) - 0 + 1
    BY <2>1, FS_Interval
  <2> QED
    BY <1>1, <2>2
<1>6. f \in Injection(S, T)
  BY <1>2, <1>4 DEF Injection, IsInjective
<1>7. f \in Surjection(S, T)
  <2> HIDE DEF f, T
  <2> QED
    BY <1>5, <1>6, FS_Injection
<1>8. \A n \in T : \E r \in S : f[r] = n
  BY <1>7 DEF Surjection
<1> QED
  BY <1>1, <1>2, <1>4, <1>8

\* The head of no difference is empty.
LEMMA NoHead ==
  ASSUME NEW S \in SUBSET Nat, IsFiniteSet(S)
  PROVE  IsHead({}, S, 0)
<1>1. \A r \in S : Rank(r, S) \in 0..(Cardinality(S) - 1)
  BY Ranks
<1>2. \A r \in S : ~(Rank(r, S) < 0)
  BY <1>1
<1> QED
  BY <1>2 DEF IsHead

\* The first of some numbers is one of them.
LEMMA FirstIs ==
  ASSUME NEW S \in SUBSET Nat, IsFiniteSet(S), S # {}
  PROVE  First(S) \in S
<1>1. Cardinality(S) \in Nat /\ Cardinality(S) # 0
  BY FS_CardinalityType, FS_EmptySet
<1>2. PICK r \in S : Rank(r, S) = 0
  BY <1>1, Ranks
<1>3. {q \in S : q < r} = {}
  <2>1. IsFiniteSet({q \in S : q < r})
    BY FS_Subset
  <2> QED
    BY <1>2, <2>1, FS_EmptySet DEF Rank
<1>4. \A q \in S : r <= q
  BY <1>3
<1> QED
  BY <1>4 DEF First

\* A page holds the one difference at its offset, and lengthens the head by it.
LEMMA PageOfIs ==
  ASSUME NEW S \in SUBSET Nat, IsFiniteSet(S), NEW n \in Nat, n < Cardinality(S)
  PROVE  /\ PageOf(S, n) \subseteq S /\ Cardinality(PageOf(S, n)) = 1
         /\ \A items : IsHead(items, S, n) => IsHead(items \cup PageOf(S, n), S, n + 1)
<1>1. PageOf(S, n) = {r \in S : Rank(r, S) = n}
  BY DEF PageOf, Rank
<1>2. PICK r \in S : Rank(r, S) = n
  BY Ranks
<1>3. PageOf(S, n) = {r}
  <2>1. \A q \in S : Rank(q, S) = n => q = r
    BY <1>2, Ranks
  <2> QED
    BY <1>1, <1>2, <2>1
<1>4. Cardinality(PageOf(S, n)) = 1
  BY <1>3, FS_Singleton
<1>5. \A q \in S : Rank(q, S) \in Nat
  BY Ranks
<1>6. ASSUME NEW items, IsHead(items, S, n)
      PROVE  IsHead(items \cup PageOf(S, n), S, n + 1)
  <2>1. \A q \in S : Rank(q, S) < n + 1 <=> Rank(q, S) < n \/ Rank(q, S) = n
    BY <1>5
  <2>2. items = {q \in S : Rank(q, S) < n}
    BY <1>6 DEF IsHead
  <2>3. items \cup PageOf(S, n) = {q \in S : Rank(q, S) < n + 1}
    BY <1>1, <2>1, <2>2
  <2> QED
    BY <2>3 DEF IsHead
<1> QED
  BY <1>1, <1>4, <1>6

\* What the assumptions say of differences and of tables.
LEMMA FewDifferences ==
  ASSUME CompareAssumption
  PROVE  /\ \A S \in SUBSET Differences : S \in SUBSET Nat /\ IsFiniteSet(S) /\ Cardinality(S) \in Nat
         /\ \A S \in SUBSET CompareTables : S # {} => First(S) \in S
<1>1. /\ Differences \subseteq Nat /\ CompareTables \subseteq Nat
      /\ IsFiniteSet(Differences \cup CompareTables)
  BY DEF CompareAssumption
<1>2. \A S \in SUBSET (Differences \cup CompareTables) : IsFiniteSet(S) /\ Cardinality(S) \in Nat
  BY <1>1, FS_Subset, FS_CardinalityType
<1> QED
  BY <1>1, <1>2, FirstIs

\* What the screens start from is of its type.
LEMMA Defaults ==
  ASSUME CompareAssumption
  PROVE  /\ EmptyPage \in PageForm /\ NoPages \in [Keys -> PageForm]
         /\ NoResult \in ResultForm /\ AllSelected \in [CompareTables -> ItemForm]
         /\ defaultDataCompareState \in DataForm
         /\ defaultStructureCompareState \in StructureForm
<1>1. EmptyPage \in PageForm
  BY DEF EmptyPage, PageForm
<1>2. NoPages \in [Keys -> PageForm]
  BY <1>1 DEF NoPages
<1>3. NoResult \in ResultForm
  BY DEF NoResult, ResultForm, NoPair
<1>4. AllSelected \in [CompareTables -> ItemForm]
  BY DEF AllSelected, ItemForm
<1>5. defaultDataCompareState \in DataForm
  BY <1>2, <1>3, <1>4 DEF CompareAssumption, defaultDataCompareState, DataForm, NoTable
<1>6. NoStructure \in [id : Nat, pair : ComparePairs \cup {0},
                              items : [Categories -> SUBSET CompareTables]]
  BY DEF NoStructure, NoPair
<1>7. defaultStructureCompareState \in StructureForm
  BY <1>6 DEF defaultStructureCompareState, StructureForm, NoDetail, DetailKeys
<1> QED
  BY <1>1, <1>2, <1>3, <1>4, <1>5, <1>7

\* A result is dropped with everything that was about it.
LEMMA Dropped ==
  ASSUME CompareAssumption, NEW d \in DataForm
  PROVE  LET e == resetDataCompareResultState(d)
         IN /\ e \in DataForm /\ e.result = NoResult /\ e.selection = AllSelected
            /\ e.table = 0 /\ e.type = "insert" /\ e.pages = NoPages
            /\ e.step = d.step /\ e.running = d.running /\ e.progress = d.progress
<1> DEFINE e == resetDataCompareResultState(d)
<1>1. e = [d EXCEPT !.result = NoResult, !.selection = AllSelected, !.table = 0,
                    !.type = "insert", !.pages = NoPages]
  BY DEF resetDataCompareResultState, NoTable
<1>2. /\ e.result = NoResult /\ e.selection = AllSelected
      /\ e.table = 0 /\ e.type = "insert" /\ e.pages = NoPages
      /\ e.step = d.step /\ e.running = d.running /\ e.progress = d.progress
  BY <1>1 DEF DataForm
<1>3. e \in DataForm
  BY <1>1, Defaults DEF CompareAssumption, DataForm
<1> QED
  BY <1>2, <1>3

\* The screens open with nothing compared.
LEMMA CompareInit ==
  ASSUME CompareAssumption, Init
  PROVE  CompareInv
<1>1. /\ pair = 0 /\ data = defaultDataCompareState /\ compareCalls = {}
      /\ structure = defaultStructureCompareState
      /\ compareSteps = [choices |-> 0, compares |-> 0, others |-> 0]
  BY DEF Init, NoPair
<1>2. /\ data.result = NoResult /\ data.table = 0 /\ data.pages = NoPages
      /\ data.selection = AllSelected
      /\ structure.result.id = 0 /\ \A k \in DetailKeys : structure.details[k].of = 0
  BY <1>1 DEF defaultDataCompareState, defaultStructureCompareState, NoTable,
    NoStructure, NoDetail, DetailKeys
<1>3. CompareTypes
  BY <1>1, Defaults DEF CompareTypes
<1>4. IdsAreOwn /\ FormFollows /\ DetailsFollow
  BY <1>1, <1>2 DEF IdsAreOwn, FormFollows, DetailsFollow, CallsOf, NoResult
<1>5. ExclusionsFollow
  BY <1>2 DEF ExclusionsFollow, NoPages, EmptyPage, AllSelected
<1>6. PagesFollow
  <2>1. \A k \in Keys : IsPage(data.pages[k], data.result.rows[k]) /\ ~data.pages[k].loading
    BY <1>2 DEF IsPage, IsHead, NoPages, EmptyPage, NoResult
  <2> QED
    BY <1>1, <1>2, <2>1 DEF PagesFollow, CallsOf
<1> QED
  BY <1>3, <1>4, <1>5, <1>6 DEF CompareInv

SameCalls(op) == CallsOf(op)' = CallsOf(op)
\* The data comparison shows what it showed, and no request about it comes or goes.
LEMMA DataStays ==
  ASSUME CompareAssumption, CompareInv,
         compareSteps'.compares \in Nat, compareSteps'.compares >= compareSteps.compares,
         data'.result = data.result, data'.pages = data.pages, data'.table = data.table,
         data'.type = data.type,
         SameCalls("page"), SameCalls("history"), CallsOf("task")' \subseteq CallsOf("task"),
         mishaps \subseteq mishaps'
  PROVE  /\ IdsAreOwn' /\ PagesFollow'
         /\ data'.selection = data.selection => ExclusionsFollow'
<1>1. /\ data.result.id \in Nat /\ compareSteps.compares \in Nat
      /\ \A c \in CallsOf("page") : c.body.of \in Nat
      /\ \A c \in CallsOf("history") : c.body.result.id \in Nat
      /\ \A c \in CallsOf("task") : c.body.id \in Nat
  BY DEF CompareInv, CompareTypes, CallsOf, IsCompareCall, PageBody, TaskBody, DataForm, ResultForm
<1>3. IdsAreOwn'
  <2>1. data'.result.id <= compareSteps'.compares
    BY <1>1 DEF CompareInv, IdsAreOwn
  <2>2. \A c \in CallsOf("page") :
          /\ c.body.of <= compareSteps'.compares
          /\ c.body.of = data'.result.id => c.body.rows = data'.result.rows[KeyOf(c)]
    BY <1>1 DEF CompareInv, IdsAreOwn
  <2>3. \A c \in CallsOf("history") :
          /\ c.body.result.id <= compareSteps'.compares
          /\ c.body.result.id = data'.result.id => c.body.result = data'.result
    BY <1>1 DEF CompareInv, IdsAreOwn
  <2>4. \A c \in CallsOf("task") :
          /\ c.body.id <= compareSteps'.compares /\ c.body.id # data'.result.id
          /\ \A d \in CallsOf("page") : d.body.of # c.body.id
          /\ \A d \in CallsOf("history") : d.body.result.id # c.body.id
          /\ \A d \in CallsOf("task") : d.body.id = c.body.id => d = c
    BY <1>1 DEF CompareInv, IdsAreOwn
  <2> QED
    BY <2>1, <2>2, <2>3, <2>4 DEF IdsAreOwn, SameCalls, KeyOf
<1>4. data'.selection = data.selection => ExclusionsFollow'
  BY DEF CompareInv, ExclusionsFollow
<1>5. PagesFollow'
  <2>1. Clean' => Clean
    BY DEF Clean
  <2>2. ASSUME Clean', NEW c \in CallsOf("page"), c.body.of = data.result.id
        PROVE  FitsPage(c)' /\ (RecordsResult' => ~c.body.reset)
    <3>1. FitsPage(c) /\ (RecordsResult => ~c.body.reset)
      BY <2>1, <2>2 DEF CompareInv, PagesFollow
    <3>2. Doubled(c) => Doubled(c)'
      BY DEF Doubled, SameCalls, KeyOf
    <3>3. RecordsResult' => RecordsResult
      BY DEF RecordsResult, SameCalls
    <3>4. Shown(KeyOf(c))' => Shown(KeyOf(c))
      BY DEF Shown, KeyOf
    <3> QED
      BY <3>1, <3>2, <3>3, <3>4 DEF FitsPage, KeyOf
  <2>3. Clean' => \A k \in Keys :
          /\ IsPage(data'.pages[k], data'.result.rows[k])
          /\ data'.pages[k].loading => \E c \in CallsOf("page") : KeyOf(c) = k
    BY <2>1 DEF CompareInv, PagesFollow
  <2>4. Clean' /\ data'.table # 0 =>
          LET p == data'.pages[<<data'.table, data'.type>>]
          IN \/ p.loaded \/ p.failed \/ data'.result.rows[<<data'.table, data'.type>>] = {}
             \/ CallsOf("page") # {} \/ RecordsResult
    BY <2>1 DEF CompareInv, PagesFollow
  <2>5. RecordsResult => RecordsResult'
    BY DEF RecordsResult, SameCalls
  <2>6. Clean' => data'.table \in data'.result.tables \cup {0}
    BY <2>1 DEF CompareInv, PagesFollow
  <2> QED
    BY <2>2, <2>3, <2>4, <2>5, <2>6 DEF PagesFollow, SameCalls, KeyOf
<1> QED
  BY <1>3, <1>4, <1>5

\* The data comparison drops its result; a comparison started has an id of its own.
LEMMA DataResets ==
  ASSUME CompareAssumption, CompareInv,
         compareSteps'.compares \in Nat, compareSteps'.compares >= compareSteps.compares,
         data'.result = NoResult, data'.pages = NoPages, data'.table = 0,
         data'.selection = AllSelected,
         SameCalls("page"), SameCalls("history"),
         \A c \in CallsOf("task")' \ CallsOf("task") :
           /\ c.body.id \in Nat /\ c.body.id > compareSteps.compares
           /\ c.body.id <= compareSteps'.compares
           /\ \A d \in CallsOf("task")' \ CallsOf("task") : d = c
  PROVE  IdsAreOwn' /\ ExclusionsFollow' /\ PagesFollow'
<1>1. /\ data.result.id \in Nat /\ compareSteps.compares \in Nat
      /\ \A c \in CallsOf("page") : c.body.of \in Nat \ {0}
      /\ \A c \in CallsOf("history") : c.body.result.id \in Nat \ {0}
      /\ \A c \in CallsOf("task") : c.body.id \in Nat \ {0}
  BY DEF CompareInv, CompareTypes, CallsOf, IsCompareCall, PageBody, TaskBody, DataForm, ResultForm
<1>2. data'.result.id = 0
  BY DEF NoResult
<1>3. IdsAreOwn'
  <2>1. data'.result.id <= compareSteps'.compares
    BY <1>2
  <2>2. \A c \in CallsOf("page") : c.body.of <= compareSteps'.compares /\ c.body.of # data'.result.id
    BY <1>1, <1>2 DEF CompareInv, IdsAreOwn
  <2>3. \A c \in CallsOf("history") :
          c.body.result.id <= compareSteps'.compares /\ c.body.result.id # data'.result.id
    BY <1>1, <1>2 DEF CompareInv, IdsAreOwn
  <2>4. ASSUME NEW c \in CallsOf("task")'
        PROVE  /\ c.body.id <= compareSteps'.compares /\ c.body.id # data'.result.id
               /\ \A d \in CallsOf("page") : d.body.of # c.body.id
               /\ \A d \in CallsOf("history") : d.body.result.id # c.body.id
               /\ \A d \in CallsOf("task")' : d.body.id = c.body.id => d = c
    <3>1. /\ \A d \in CallsOf("page") : d.body.of <= compareSteps.compares
          /\ \A d \in CallsOf("history") : d.body.result.id <= compareSteps.compares
          /\ \A d \in CallsOf("task") : d.body.id <= compareSteps.compares
      BY DEF CompareInv, IdsAreOwn
    <3>2. CASE c \in CallsOf("task")
      <4>1. /\ c.body.id <= compareSteps.compares
            /\ \A d \in CallsOf("page") : d.body.of # c.body.id
            /\ \A d \in CallsOf("history") : d.body.result.id # c.body.id
            /\ \A d \in CallsOf("task") : d.body.id = c.body.id => d = c
        BY <3>2 DEF CompareInv, IdsAreOwn
      <4> QED
        BY <1>1, <1>2, <3>2, <4>1
    <3>3. CASE c \notin CallsOf("task")
      BY <1>1, <1>2, <3>1, <3>3
    <3> QED
      BY <3>2, <3>3
  <2> QED
    BY <2>1, <2>2, <2>3, <2>4 DEF IdsAreOwn, SameCalls, KeyOf
<1>4. ExclusionsFollow'
  BY DEF ExclusionsFollow, NoPages, EmptyPage, AllSelected
<1>5. PagesFollow'
  <2>1. \A k \in Keys :
          IsPage(data'.pages[k], data'.result.rows[k]) /\ ~data'.pages[k].loading
    BY DEF IsPage, IsHead, NoPages, EmptyPage, NoResult
  <2>2. \A c \in CallsOf("page") : c.body.of # data'.result.id
    BY <1>1, <1>2
  <2> QED
    BY <2>1, <2>2 DEF PagesFollow, SameCalls
<1> QED
  BY <1>3, <1>4, <1>5

\* The databases compared: the form stays, results stay or go, and tasks are of the form.
LEMMA FormStays ==
  ASSUME CompareAssumption, CompareInv, pair' = pair, mishaps \subseteq mishaps',
         data'.result = data.result \/ data'.result.id = 0 \/ data'.result.pair = pair,
         structure'.result = structure.result,
         \A c \in (CallsOf("task") \cup CallsOf("structure"))' :
           c \in CallsOf("task") \cup CallsOf("structure") \/ c.body.pair = pair
  PROVE  FormFollows'
BY DEF CompareInv, FormFollows

\* The structure comparison and its form are left alone.
LEMMA DataActs ==
  ASSUME CompareAssumption, CompareInv, CompareTypes', IdsAreOwn' /\ ExclusionsFollow' /\ PagesFollow',
         UNCHANGED <<pair, structure>>, mishaps \subseteq mishaps',
         data'.result = data.result \/ data'.result.id = 0,
         CallsOf("structure")' = CallsOf("structure"),
         \A c \in CallsOf("task")' : c \in CallsOf("task") \/ c.body.pair = pair
  PROVE  CompareInv'
<1>1. FormFollows'
  BY FormStays
<1>2. DetailsFollow'
  BY DEF CompareInv, DetailsFollow
<1> QED
  BY <1>1, <1>2 DEF CompareInv

\* A request is sent or answered, and those of other kinds stay.
LEMMA Sent ==
  ASSUME NEW c, compareCalls' = compareCalls \cup {c}
  PROVE  \A op : CallsOf(op)' = IF op = c.op THEN CallsOf(op) \cup {c} ELSE CallsOf(op)
BY DEF CallsOf
LEMMA Taken ==
  ASSUME NEW c, compareCalls' = compareCalls \ {c}
  PROVE  \A op : CallsOf(op)' = IF op = c.op THEN CallsOf(op) \ {c} ELSE CallsOf(op)
BY DEF CallsOf

\* Tables are discovered and chosen, and the first step is shown again.
LEMMA ComparesTables ==
  ASSUME CompareAssumption, CompareInv,
         \/ discoverCompareTables \/ setDataCompareStep \/ RunRefused
         \/ \E tables0 \in SUBSET CompareTables : SelectTables(tables0)
         \/ \E c \in compareCalls : DiscoverAnswer(c)
  PROVE  CompareInv'
<1>1. data \in DataForm /\ CompareTypes
  BY DEF CompareInv, CompareTypes
<1>2. UNCHANGED <<pair, structure, mishaps>>
  BY DEF discoverCompareTables, setDataCompareStep, RunRefused,
    SelectTables, DiscoverAnswer, DataGesture, DataAnswer
<1>3. /\ compareSteps' \in [choices : Nat, compares : Nat, others : Nat]
      /\ compareSteps'.compares = compareSteps.compares
  <2>1. compareSteps' = compareSteps \/ compareSteps' = [compareSteps EXCEPT !.others = @ + 1]
    BY DEF discoverCompareTables, setDataCompareStep, RunRefused,
      SelectTables, DiscoverAnswer, DataGesture, DataAnswer,
      Gesture
  <2> QED
    BY <1>1, <2>1 DEF CompareTypes
<1>4. compareSteps'.compares \in Nat /\ compareSteps'.compares >= compareSteps.compares
  BY <1>3
<1>5. /\ SameCalls("page") /\ SameCalls("history") /\ SameCalls("task") /\ SameCalls("structure")
      /\ \A c \in compareCalls' : IsCompareCall(c)
  <2>1. CASE UNCHANGED compareCalls
    BY <1>1, <2>1 DEF CallsOf, SameCalls, CompareTypes
  <2>2. CASE discoverCompareTables
    <3> DEFINE c == Call("discover", [pair |-> pair])
    <3>1. compareCalls' = compareCalls \cup {c} /\ c.op = "discover" /\ c = [op |-> c.op, body |-> c.body]
      BY <2>2 DEF discoverCompareTables, Send, Call
    <3> HIDE DEF c
    <3>2. IsCompareCall(c)
      BY <3>1 DEF IsCompareCall, StructureOps
    <3> QED
      BY <1>1, <3>1, <3>2, Sent DEF SameCalls, CompareTypes
  <2>3. ASSUME NEW c \in compareCalls, DiscoverAnswer(c)
        PROVE  /\ SameCalls("page") /\ SameCalls("history") /\ SameCalls("task") /\ SameCalls("structure")
               /\ \A d \in compareCalls' : IsCompareCall(d)
    <3>1. compareCalls' = compareCalls \ {c} /\ c.op = "discover"
      BY <2>3 DEF DiscoverAnswer, Returned
    <3> QED
      BY <1>1, <3>1, Taken DEF SameCalls, CompareTypes
  <2> QED
    BY <2>1, <2>2, <2>3 DEF setDataCompareStep, RunRefused, SelectTables
<1> DEFINE Stays == /\ data' \in DataForm /\ data'.result = data.result /\ data'.pages = data.pages
                    /\ data'.table = data.table /\ data'.type = data.type
                    /\ data'.selection = data.selection
           Resets == /\ data' \in DataForm /\ data'.result = NoResult
                     /\ data'.pages = NoPages /\ data'.table = 0
                     /\ data'.selection = AllSelected
<1>6. Stays \/ Resets
  <2>1. CASE discoverCompareTables
    BY <1>1, <2>1 DEF discoverCompareTables, DataForm
  <2>2. CASE setDataCompareStep
    BY <1>1, <2>2 DEF setDataCompareStep, DataForm
  <2>3. CASE RunRefused
    BY <1>1, <2>3 DEF RunRefused, RunFailed, DataForm
  <2>4. ASSUME NEW S \in SUBSET CompareTables, SelectTables(S) PROVE Resets
    <3> DEFINE d == [data EXCEPT !.selected = S]
    <3>1. d \in DataForm /\ data' = resetDataCompareResultState(d)
      BY <1>1, <2>4 DEF SelectTables, DataForm
    <3> QED
      BY <3>1, Dropped
  <2>5. ASSUME NEW c \in compareCalls, DiscoverAnswer(c) PROVE Stays \/ Resets
    <3>1. CASE data' = [data EXCEPT !.loadingTables = FALSE]
      BY <1>1, <3>1 DEF DataForm
    <3>2. ASSUME NEW S \in SUBSET CompareTables,
                 data' = resetDataCompareResultState(
                           [data EXCEPT !.common = S, !.step = 2, !.selected = S, !.loadingTables = FALSE])
          PROVE  Resets
      <4> DEFINE d == [data EXCEPT !.common = S, !.step = 2, !.selected = S, !.loadingTables = FALSE]
                 b == [data EXCEPT !.common = S]
                 e == [b EXCEPT !.step = 2]
      <4>1. e \in DataForm
        <5>1. b \in DataForm
          BY <1>1 DEF DataForm
        <5> HIDE DEF b
        <5> QED
          BY <5>1 DEF DataForm
      <4>2. d = [e EXCEPT !.selected = S, !.loadingTables = FALSE]
        OBVIOUS
      <4>3. d \in DataForm
        <5> HIDE DEF e
        <5> QED
          BY <4>1, <4>2 DEF DataForm
      <4> QED
        BY <3>2, <4>3, Dropped
    <3> QED
      BY <2>5, <3>1, <3>2 DEF DiscoverAnswer
  <2> QED
    BY <2>1, <2>2, <2>3, <2>4, <2>5
<1>7. IdsAreOwn' /\ ExclusionsFollow' /\ PagesFollow'
  <2>1. CASE Stays
    BY <1>2, <1>4, <1>5, <2>1, DataStays DEF SameCalls
  <2>2. CASE Resets
    BY <1>4, <1>5, <2>2, DataResets DEF SameCalls
  <2> QED
    BY <1>6, <2>1, <2>2
<1>8. CompareTypes'
  BY <1>1, <1>2, <1>3, <1>5, <1>6 DEF CompareTypes
<1>9. data'.result = data.result \/ data'.result.id = 0
  BY <1>6 DEF NoResult
<1> QED
  BY <1>2, <1>5, <1>7, <1>8, <1>9, DataActs DEF SameCalls

\* A comparison is started, goes on, is cancelled or fails.
LEMMA ComparisonRuns ==
  ASSUME CompareAssumption, CompareInv,
         \/ runDataCompareFlow \/ cancelRunningDataCompare
         \/ \E c \in compareCalls : TaskProgress(c) \/ TaskFails(c)
  PROVE  CompareInv'
<1>1. data \in DataForm /\ CompareTypes
  BY DEF CompareInv, CompareTypes
<1>2. UNCHANGED <<pair, structure, mishaps>>
  BY DEF runDataCompareFlow, cancelRunningDataCompare, TaskProgress,
    TaskFails, DataAnswer
<1>3. CASE runDataCompareFlow
  <2> DEFINE body == [id |-> compareSteps.compares + 1, pair |-> pair, tables |-> RequestedTables]
             c == Call("task", body)
             d == resetDataCompareResultState(data)
  <2>1. /\ compareCalls' = compareCalls \cup {c} /\ data' = [d EXCEPT !.running = TRUE, !.progress = 0]
        /\ compareSteps' = [compareSteps EXCEPT !.compares = @ + 1] /\ pair # 0
    BY <1>3 DEF runDataCompareFlow, Send, Refused, NoPair
  <2>2. compareSteps.compares \in Nat /\ compareSteps' \in [choices : Nat, compares : Nat, others : Nat]
    BY <1>1, <2>1 DEF CompareTypes
  <2>3. compareSteps'.compares = compareSteps.compares + 1
    BY <1>1, <2>1 DEF CompareTypes
  <2>4. c.op = "task" /\ c.body = body /\ c = [op |-> c.op, body |-> c.body] /\ body \in TaskBody
    BY <1>1, <2>1, <2>2 DEF Call, TaskBody, CompareTypes, RequestedTables, DataForm
  <2>5. body.id = compareSteps.compares + 1 /\ body.pair = pair
    OBVIOUS
  <2>6. /\ data' \in DataForm /\ data'.result = NoResult /\ data'.pages = NoPages
        /\ data'.table = 0 /\ data'.selection = AllSelected
    <3>1. /\ d \in DataForm /\ d.result = NoResult /\ d.pages = NoPages
          /\ d.table = 0 /\ d.selection = AllSelected
      BY <1>1, Dropped
    <3> HIDE DEF d
    <3> QED
      BY <2>1, <3>1 DEF DataForm
  <2> HIDE DEF c, body
  <2>7. IsCompareCall(c)
    BY <2>4 DEF IsCompareCall, StructureOps
  <2>8. /\ SameCalls("page") /\ SameCalls("history") /\ SameCalls("structure")
        /\ CallsOf("task")' = CallsOf("task") \cup {c}
    BY <2>1, <2>4, Sent DEF SameCalls
  <2>9. \A e \in CallsOf("task")' \ CallsOf("task") :
          /\ e.body.id \in Nat /\ e.body.id > compareSteps.compares
          /\ e.body.id <= compareSteps'.compares
          /\ \A f \in CallsOf("task")' \ CallsOf("task") : f = e
    BY <2>2, <2>3, <2>4, <2>5, <2>8
  <2>10. compareSteps'.compares \in Nat /\ compareSteps'.compares >= compareSteps.compares
    BY <2>2, <2>3
  <2>11. IdsAreOwn' /\ ExclusionsFollow' /\ PagesFollow'
    BY <2>6, <2>8, <2>9, <2>10, DataResets
  <2>12. CompareTypes'
    BY <1>1, <1>2, <2>1, <2>2, <2>6, <2>7 DEF CompareTypes
  <2>13. data'.result.id = 0 /\ \A e \in CallsOf("task")' : e \in CallsOf("task") \/ e.body.pair = pair
    BY <2>4, <2>5, <2>6, <2>8 DEF NoResult
  <2> QED
    BY <1>2, <2>8, <2>11, <2>12, <2>13, DataActs DEF SameCalls
<1>4. ASSUME compareSteps' = compareSteps, data' \in DataForm, data'.result = data.result,
             data'.pages = data.pages, data'.table = data.table, data'.type = data.type,
             data'.selection = data.selection, SameCalls("page"), SameCalls("history"),
             SameCalls("structure"), CallsOf("task")' \subseteq CallsOf("task"),
             \A c \in compareCalls' : IsCompareCall(c)
      PROVE  CompareInv'
  <2>1. compareSteps'.compares \in Nat /\ compareSteps'.compares >= compareSteps.compares
    BY <1>1, <1>4 DEF CompareTypes
  <2>2. IdsAreOwn' /\ ExclusionsFollow' /\ PagesFollow'
    BY <1>2, <1>4, <2>1, DataStays
  <2>3. CompareTypes'
    BY <1>1, <1>2, <1>4 DEF CompareTypes
  <2> QED
    BY <1>2, <1>4, <2>2, <2>3, DataActs DEF SameCalls
<1>5. CASE cancelRunningDataCompare
  <2> DEFINE Told(c) == c.op = "task" /\ c.body.id = data.progress
             G(c) == IF Told(c) THEN Call("canceled", c.body) ELSE c
  <2>1. compareCalls' = {G(c) : c \in compareCalls} /\ UNCHANGED <<data, compareSteps>>
    BY <1>5 DEF cancelRunningDataCompare
  <2>2. ASSUME NEW c \in compareCalls
        PROVE  /\ IsCompareCall(G(c)) /\ (~Told(c) => G(c) = c) /\ (Told(c) => G(c).op = "canceled")
    <3>1. IsCompareCall(c)
      BY <1>1 DEF CompareTypes
    <3>2. CASE Told(c)
      <4>1. c.body \in TaskBody /\ G(c) = Call("canceled", c.body)
        BY <3>1, <3>2 DEF IsCompareCall
      <4>2. G(c) = [op |-> "canceled", body |-> c.body]
        BY <4>1 DEF Call
      <4> HIDE DEF G
      <4>3. G(c).op = "canceled" /\ G(c).body = c.body
        BY <4>2
      <4> QED
        BY <3>2, <4>1, <4>2, <4>3 DEF IsCompareCall, StructureOps
    <3> QED
      BY <3>1, <3>2
  <2> HIDE DEF G, Told
  <2>3. \A c \in compareCalls' : IsCompareCall(c)
    BY <2>1, <2>2
  <2>4. \A op \in {"page", "history", "structure"} : SameCalls(op)
    <3> SUFFICES ASSUME NEW op \in {"page", "history", "structure"} PROVE CallsOf(op)' = CallsOf(op)
      BY DEF SameCalls
    <3>1. \A c \in CallsOf(op) : c \in compareCalls'
      BY <2>1, <2>2 DEF CallsOf, Told
    <3>2. \A c \in compareCalls' : c.op = op => c \in compareCalls
      BY <2>1, <2>2 DEF Told
    <3> QED
      BY <3>1, <3>2 DEF CallsOf
  <2>5. CallsOf("task")' \subseteq CallsOf("task")
    BY <2>1, <2>2 DEF CallsOf
  <2> QED
    BY <1>1, <1>4, <2>1, <2>3, <2>4, <2>5
<1>6. ASSUME NEW c \in compareCalls, TaskProgress(c)
      PROVE  CompareInv'
  <2>1. /\ data' = [data EXCEPT !.progress = c.body.id] /\ c.op = "task"
        /\ UNCHANGED <<compareCalls, compareSteps>>
    BY <1>6 DEF TaskProgress, DataAnswer
  <2>2. c.body.id \in Nat
    BY <1>1, <2>1 DEF CompareTypes, IsCompareCall, TaskBody
  <2>3. /\ data' \in DataForm /\ data'.result = data.result /\ data'.pages = data.pages
        /\ data'.table = data.table /\ data'.type = data.type /\ data'.selection = data.selection
    BY <1>1, <2>1, <2>2 DEF DataForm
  <2> QED
    BY <1>1, <1>4, <2>1, <2>3 DEF SameCalls, CallsOf, CompareTypes
<1>7. ASSUME NEW c \in compareCalls, TaskFails(c)
      PROVE  CompareInv'
  <2>1. /\ data' = [data EXCEPT !.running = FALSE, !.progress = 0] /\ c.op \in {"task", "canceled"}
        /\ compareCalls' = compareCalls \ {c} /\ UNCHANGED compareSteps
    BY <1>7 DEF TaskFails, RunFailed, Returned, DataAnswer
  <2>2. /\ data' \in DataForm /\ data'.result = data.result /\ data'.pages = data.pages
        /\ data'.table = data.table /\ data'.type = data.type /\ data'.selection = data.selection
    BY <1>1, <2>1 DEF DataForm
  <2>3. /\ SameCalls("page") /\ SameCalls("history") /\ SameCalls("structure")
        /\ CallsOf("task")' \subseteq CallsOf("task")
    BY <2>1, Taken DEF SameCalls
  <2> QED
    BY <1>1, <1>4, <2>1, <2>2, <2>3 DEF CompareTypes
<1> QED
  BY <1>3, <1>5, <1>6, <1>7

\* A request about a page is of this form.
LEMMA PageCalls ==
  ASSUME CompareTypes, NEW c \in CallsOf("page")
  PROVE  /\ c \in compareCalls /\ c.body \in PageBody /\ KeyOf(c) \in Keys
         /\ c.body.of \in Nat \ {0} /\ c.body.rows \in SUBSET Differences /\ c.body.offset \in Nat
         /\ c.body.reset \in BOOLEAN /\ KeyOf(c) = <<c.body.table, c.body.type>>
BY DEF CompareTypes, CallsOf, IsCompareCall, PageBody, KeyOf, Keys

\* An answer about a page: the mishaps it notes, and what is left to come.
LEMMA PageAnswers ==
  ASSUME CompareAssumption, CompareInv, NEW c \in compareCalls, c.op = "page", PageMishap(c),
         compareCalls' = compareCalls \ {c},
         data'.result = data.result, data'.table = data.table, data'.type = data.type,
         data'.selection = data.selection, UNCHANGED compareSteps
  PROVE  /\ c \in CallsOf("page") /\ CallsOf("page")' = CallsOf("page") \ {c} /\ mishaps \subseteq mishaps'
         /\ SameCalls("history") /\ SameCalls("task") /\ SameCalls("structure")
         /\ IdsAreOwn'
         /\ "outdated" \notin mishaps' => "outdated" \notin mishaps /\ c.body.of = data.result.id
         /\ Clean' => /\ Clean /\ Shown(KeyOf(c)) /\ ~Doubled(c) /\ c.body.of = data.result.id
                      /\ \A d \in CallsOf("page")' : KeyOf(d) # KeyOf(c)
         /\ \A d \in CallsOf("page")' : KeyOf(d) # KeyOf(c) => (Doubled(d) => Doubled(d)')
<1>1. /\ c \in CallsOf("page") /\ CallsOf("page")' = CallsOf("page") \ {c}
      /\ SameCalls("history") /\ SameCalls("task") /\ SameCalls("structure")
  BY Taken DEF SameCalls, CallsOf
<1>2. mishaps \subseteq mishaps'
  BY DEF PageMishap
<1>3. "outdated" \notin mishaps' => "outdated" \notin mishaps /\ c.body.of = data.result.id
  BY DEF PageMishap
<1>4. "pruned" \notin mishaps' => Shown(KeyOf(c))
  BY DEF PageMishap, Shown
<1>5. "doubled" \notin mishaps' => ~Doubled(c)
  BY DEF PageMishap, Doubled, CallsOf
<1>6. Clean' => /\ Clean /\ Shown(KeyOf(c)) /\ ~Doubled(c) /\ c.body.of = data.result.id
  BY <1>2, <1>3, <1>4, <1>5 DEF Clean
<1>7. ~Doubled(c) => \A d \in CallsOf("page")' : KeyOf(d) # KeyOf(c)
  BY <1>1 DEF Doubled
<1>8. IdsAreOwn'
  BY <1>1 DEF CompareInv, IdsAreOwn, SameCalls, KeyOf
<1>9. ASSUME NEW d \in CallsOf("page")', KeyOf(d) # KeyOf(c), Doubled(d)
      PROVE  Doubled(d)'
  <2>1. PICK e \in CallsOf("page") \ {d} : KeyOf(e) = KeyOf(d)
    BY <1>9 DEF Doubled
  <2>2. e \in CallsOf("page")' \ {d}
    BY <1>1, <1>9, <2>1
  <2> QED
    BY <2>1, <2>2 DEF Doubled, KeyOf
<1> QED
  BY <1>1, <1>2, <1>3, <1>6, <1>7, <1>8, <1>9

\* A page cannot be read.
LEMMA PagesFail ==
  ASSUME CompareAssumption, CompareInv, NEW c \in compareCalls, PageFails(c)
  PROVE  CompareInv'
<1> DEFINE k == KeyOf(c)
           p == [data.pages[k] EXCEPT !.loading = FALSE, !.failed = TRUE]
<1>1. /\ data' = [data EXCEPT !.pages[k] = p] /\ c.op = "page" /\ compareCalls' = compareCalls \ {c}
      /\ UNCHANGED <<pair, structure, compareSteps>> /\ PageMishap(c)
  BY DEF PageFails, KeyOf, Returned, DataAnswer
<1>2. data \in DataForm /\ CompareTypes /\ c \in CallsOf("page")
  BY <1>1 DEF CompareInv, CompareTypes, CallsOf
<1>3. k \in Keys
  BY <1>2, PageCalls
<1> HIDE DEF k
<1>4. /\ p \in PageForm /\ p.items = data.pages[k].items /\ p.fetched = data.pages[k].fetched
      /\ p.loaded = data.pages[k].loaded /\ p.more = data.pages[k].more /\ ~p.loading /\ p.failed
  BY <1>2, <1>3 DEF DataForm, PageForm
<1> HIDE DEF p
<1>5. /\ data' \in DataForm /\ data'.result = data.result /\ data'.table = data.table
      /\ data'.type = data.type /\ data'.selection = data.selection
      /\ data'.pages = [data.pages EXCEPT ![k] = p]
  BY <1>1, <1>2, <1>3, <1>4 DEF DataForm
<1>6. /\ data'.pages[k] = p
      /\ \A j \in Keys : j # k => data'.pages[j] = data.pages[j]
  BY <1>2, <1>3, <1>5 DEF DataForm
<1>7. /\ c \in CallsOf("page") /\ CallsOf("page")' = CallsOf("page") \ {c} /\ mishaps \subseteq mishaps'
      /\ SameCalls("history") /\ SameCalls("task") /\ SameCalls("structure")
      /\ IdsAreOwn'
      /\ "outdated" \notin mishaps' => "outdated" \notin mishaps /\ c.body.of = data.result.id
      /\ Clean' => /\ Clean /\ Shown(k) /\ ~Doubled(c) /\ c.body.of = data.result.id
                   /\ \A d \in CallsOf("page")' : KeyOf(d) # k
      /\ \A d \in CallsOf("page")' : KeyOf(d) # k => (Doubled(d) => Doubled(d)')
  BY <1>1, <1>5, PageAnswers DEF k
<1>8. ExclusionsFollow'
  <2>1. \A j \in Keys : data'.pages[j].items = data.pages[j].items
    BY <1>4, <1>6
  <2> QED
    BY <1>5, <1>7, <2>1 DEF CompareInv, ExclusionsFollow
<1>9. PagesFollow'
  <2> SUFFICES ASSUME Clean' PROVE PagesFollow'
    BY DEF PagesFollow
  <2>1. Clean /\ Shown(k) /\ \A d \in CallsOf("page")' : KeyOf(d) # k
    BY <1>7
  <2>2. ASSUME NEW j \in Keys
        PROVE  /\ IsPage(data'.pages[j], data'.result.rows[j])
               /\ data'.pages[j].loading => \E d \in CallsOf("page")' : KeyOf(d) = j
    <3>1. /\ IsPage(data.pages[j], data.result.rows[j])
          /\ data.pages[j].loading => \E d \in CallsOf("page") : KeyOf(d) = j
      BY <2>1 DEF CompareInv, PagesFollow
    <3>2. CASE j = k
      BY <1>4, <1>5, <1>6, <3>1, <3>2 DEF IsPage
    <3>3. CASE j # k
      BY <1>5, <1>6, <1>7, <3>1, <3>3 DEF k
    <3> QED
      BY <3>2, <3>3
  <2>3. ASSUME NEW d \in CallsOf("page")', d.body.of = data'.result.id
        PROVE  FitsPage(d)' /\ (RecordsResult' => ~d.body.reset)
    <3>1. d \in CallsOf("page") /\ KeyOf(d) # k /\ KeyOf(d) \in Keys
      BY <1>2, <1>7, <2>1, PageCalls
    <3>2. FitsPage(d) /\ (RecordsResult => ~d.body.reset)
      BY <1>5, <2>1, <2>3, <3>1 DEF CompareInv, PagesFollow
    <3>3. RecordsResult' => RecordsResult
      BY <1>5, <1>7 DEF RecordsResult, SameCalls
    <3>4. Doubled(d) => Doubled(d)'
      BY <1>7, <2>3, <3>1
    <3>5. data'.pages[KeyOf(d)] = data.pages[KeyOf(d)]
      BY <1>6, <3>1
    <3>6. Shown(KeyOf(d))' => Shown(KeyOf(d))
      BY <1>5 DEF Shown, KeyOf
    <3> QED
      BY <3>2, <3>3, <3>4, <3>5, <3>6 DEF FitsPage, KeyOf
  <2>4. data'.pages[<<data'.table, data'.type>>].failed
    BY <1>4, <1>5, <1>6, <2>1 DEF Shown
  <2>5. data'.table \in data'.result.tables \cup {0}
    BY <1>5, <2>1 DEF CompareInv, PagesFollow
  <2> QED
    BY <2>2, <2>3, <2>4, <2>5 DEF PagesFollow, KeyOf
<1>10. CompareTypes'
  BY <1>1, <1>2, <1>5 DEF CompareTypes
<1> QED
  BY <1>1, <1>5, <1>7, <1>8, <1>9, <1>10, DataActs DEF SameCalls

\* A page arrives, and is the only one kept.
LEMMA PagesArrive ==
  ASSUME CompareAssumption, CompareInv, NEW c \in compareCalls, PageArrives(c)
  PROVE  CompareInv'
<1> DEFINE k == KeyOf(c)
           rows == c.body.rows
           n == c.body.offset
           new == PageOf(rows, n)
           kept == IF c.body.reset THEN EmptyPage ELSE data.pages[k]
           p == [loaded |-> TRUE, loading |-> FALSE, failed |-> FALSE,
                 fetched |-> kept.fetched + Cardinality(new), items |-> kept.items \cup new,
                 more |-> n + 1 < Cardinality(rows)]
<1>1. /\ data' = [data EXCEPT !.pages = [NoPages EXCEPT ![k] = p]]
      /\ c.op = "page" /\ compareCalls' = compareCalls \ {c}
      /\ UNCHANGED <<pair, structure, compareSteps>> /\ PageMishap(c)
  BY DEF PageArrives, buildPrunedDataCompareDetailPages, Returned,
    DataAnswer
<1>2. data \in DataForm /\ CompareTypes /\ c \in CallsOf("page")
  BY <1>1 DEF CompareInv, CompareTypes, CallsOf
<1>3. /\ k \in Keys /\ rows \in SUBSET Differences /\ n \in Nat /\ c.body.reset \in BOOLEAN
  BY <1>2, PageCalls
<1>4. kept \in PageForm
  BY <1>2, <1>3, Defaults DEF DataForm
<1>5. /\ new \in SUBSET rows /\ IsFiniteSet(new) /\ Cardinality(new) \in Nat /\ Cardinality(rows) \in Nat
      /\ rows \in SUBSET Nat /\ IsFiniteSet(rows)
  <2>1. new \in SUBSET rows
    BY DEF PageOf
  <2> HIDE DEF new
  <2> QED
    BY <1>3, <2>1, FewDifferences
<1> HIDE DEF k, rows, n, new, kept
<1>7. /\ p \in PageForm /\ p.loaded /\ ~p.loading /\ p.fetched = kept.fetched + Cardinality(new)
      /\ p.items = kept.items \cup new /\ p.more = (n + 1 < Cardinality(rows))
  <2>1. kept.fetched \in Nat /\ kept.items \in SUBSET Differences
    BY <1>4 DEF PageForm
  <2>2. kept.fetched + Cardinality(new) \in Nat /\ kept.items \cup new \in SUBSET Differences
    <3>1. new \in SUBSET Differences
      BY <1>3, <1>5
    <3>2. kept.items \cup new \in SUBSET Differences
      BY <2>1, <3>1
    <3> QED
      BY <1>5, <2>1, <3>2
  <2>3. (n + 1 < Cardinality(rows)) \in BOOLEAN
    OBVIOUS
  <2>4. p \in PageForm
    BY <2>2, <2>3 DEF PageForm
  <2> QED
    BY <2>4
<1> HIDE DEF p
<1>8. /\ data' \in DataForm /\ data'.result = data.result /\ data'.table = data.table
      /\ data'.type = data.type /\ data'.selection = data.selection
      /\ data'.pages = [NoPages EXCEPT ![k] = p]
  <2>1. [NoPages EXCEPT ![k] = p] \in [Keys -> PageForm]
    BY <1>3, <1>7, Defaults
  <2> QED
    BY <1>1, <1>2, <2>1 DEF DataForm
<1>9. /\ data'.pages[k] = p
      /\ \A j \in Keys : j # k => data'.pages[j] = EmptyPage
  BY <1>3, <1>8 DEF NoPages
<1>10. /\ CallsOf("page")' = CallsOf("page") \ {c} /\ mishaps \subseteq mishaps'
       /\ SameCalls("history") /\ SameCalls("task") /\ SameCalls("structure")
       /\ IdsAreOwn'
       /\ "outdated" \notin mishaps' => "outdated" \notin mishaps /\ c.body.of = data.result.id
       /\ Clean' => /\ Clean /\ Shown(k) /\ ~Doubled(c) /\ c.body.of = data.result.id
                    /\ \A d \in CallsOf("page")' : KeyOf(d) # k
       /\ \A d \in CallsOf("page")' : KeyOf(d) # k => (Doubled(d) => Doubled(d)')
  BY <1>1, <1>8, PageAnswers DEF k
<1>11. c.body.of = data.result.id => rows = data.result.rows[k]
  BY <1>2 DEF CompareInv, IdsAreOwn, k, rows
<1>12. ExclusionsFollow'
  <2> SUFFICES ASSUME "outdated" \notin mishaps' PROVE ExclusionsFollow'
    BY DEF ExclusionsFollow
  <2>1. rows = data.result.rows[k] /\ ExclusionsFollow /\ "outdated" \notin mishaps
    BY <1>10, <1>11 DEF CompareInv
  <2>2. kept.items \subseteq data.result.rows[k]
    <3>1. data.pages[k].items \subseteq data.result.rows[k]
      BY <1>3, <2>1 DEF ExclusionsFollow
    <3> QED
      BY <3>1 DEF kept, EmptyPage
  <2>3. ASSUME NEW j \in Keys PROVE data'.pages[j].items \subseteq data'.result.rows[j]
    <3>1. CASE j = k
      BY <1>5, <1>7, <1>8, <1>9, <2>1, <2>2, <3>1
    <3>2. CASE j # k
      BY <1>9, <3>2 DEF EmptyPage
    <3> QED
      BY <3>1, <3>2
  <2> QED
    BY <1>8, <2>1, <2>3 DEF ExclusionsFollow
<1>13. PagesFollow'
  <2> SUFFICES ASSUME Clean' PROVE PagesFollow'
    BY DEF PagesFollow
  <2>1. /\ Clean /\ Shown(k) /\ ~Doubled(c) /\ c.body.of = data.result.id
        /\ \A d \in CallsOf("page")' : KeyOf(d) # k
    BY <1>10
  <2>2. rows = data.result.rows[k] /\ FitsPage(c)
    BY <1>2, <1>11, <2>1 DEF CompareInv, PagesFollow
  <2>3. /\ n < Cardinality(rows) /\ (c.body.reset => n = 0)
        /\ c.body.reset \/ n = data.pages[k].fetched
    BY <2>1, <2>2 DEF FitsPage, k, rows, n
  <2>4. IsHead(kept.items, rows, n) /\ kept.fetched = n
    <3>1. CASE c.body.reset
      <4>1. IsHead({}, rows, 0)
        BY <1>5, NoHead
      <4> QED
        BY <2>3, <3>1, <4>1 DEF kept, EmptyPage
    <3>2. CASE ~c.body.reset
      <4>1. IsPage(data.pages[k], data.result.rows[k])
        BY <1>3, <2>1 DEF CompareInv, PagesFollow
      <4> QED
        BY <2>2, <2>3, <3>2, <4>1 DEF kept, IsPage
    <3> QED
      BY <3>1, <3>2
  <2>5. IsHead(kept.items \cup new, rows, n + 1) /\ Cardinality(new) = 1
    BY <1>3, <1>5, <2>3, <2>4, PageOfIs DEF new
  <2>6. IsPage(p, rows)
    <3>1. p.fetched = n + 1
      BY <1>7, <2>4, <2>5
    <3> QED
      BY <1>7, <2>5, <3>1 DEF IsPage
  <2>7. ASSUME NEW j \in Keys
        PROVE  IsPage(data'.pages[j], data'.result.rows[j]) /\ ~data'.pages[j].loading
    <3>1. CASE j = k
      BY <1>7, <1>8, <1>9, <2>2, <2>6, <3>1
    <3>2. CASE j # k
      <4>1. data'.result.rows[j] \in SUBSET Differences
        BY <1>8 DEF DataForm, ResultForm
      <4>2. IsHead({}, data'.result.rows[j], 0)
        BY <4>1, FewDifferences, NoHead
      <4> QED
        BY <1>9, <3>2, <4>2 DEF IsPage, EmptyPage
    <3> QED
      BY <3>1, <3>2
  <2>8. ASSUME NEW d \in CallsOf("page")', d.body.of = data'.result.id
        PROVE  FitsPage(d)' /\ (RecordsResult' => ~d.body.reset)
    <3>1. d \in CallsOf("page") /\ KeyOf(d) # k /\ KeyOf(d) \in Keys
      BY <1>2, <1>10, <2>1, PageCalls
    <3>2. FitsPage(d) /\ (RecordsResult => ~d.body.reset)
      BY <1>8, <2>1, <2>8, <3>1 DEF CompareInv, PagesFollow
    <3>3. RecordsResult' => RecordsResult
      BY <1>8, <1>10 DEF RecordsResult, SameCalls
    <3>4. Doubled(d) => Doubled(d)'
      BY <1>10, <2>8, <3>1
    <3>5. data'.pages[KeyOf(d)] = EmptyPage
      BY <1>9, <3>1
    <3>6. ~Shown(KeyOf(d))'
      BY <1>8, <2>1, <3>1 DEF Shown, KeyOf
    <3> QED
      BY <3>2, <3>3, <3>4, <3>5, <3>6 DEF FitsPage, KeyOf, EmptyPage
  <2>9. data'.pages[<<data'.table, data'.type>>].loaded
    BY <1>7, <1>8, <1>9, <2>1 DEF Shown
  <2>10. data'.table \in data'.result.tables \cup {0}
    BY <1>8, <2>1 DEF CompareInv, PagesFollow
  <2> QED
    BY <2>7, <2>8, <2>9, <2>10 DEF PagesFollow, KeyOf
<1>14. CompareTypes'
  BY <1>1, <1>2, <1>8 DEF CompareTypes
<1> QED
  BY <1>1, <1>8, <1>10, <1>12, <1>13, <1>14, DataActs DEF SameCalls

\* What a request for a page makes of the screen.
IsAsked(e, d, r, t, ty, reset) ==
  LET k == <<t, ty>>
      b == IF reset THEN EmptyPage ELSE d.pages[k]
      p == e.pages[k]
  IN /\ e \in DataForm /\ e.result = d.result /\ e.selection = d.selection
     /\ e.table = t /\ e.type = ty
     /\ \A j \in Keys : j # k => e.pages[j] = d.pages[j]
     /\ p.items = b.items /\ p.fetched = b.fetched
     /\ p.loading <=> r.rows[k] # {}
     /\ p.loaded <=> b.loaded \/ r.rows[k] = {}
     /\ p.more <=> (IF reset THEN r.rows[k] # {} ELSE b.more)
     /\ ~p.failed
LEMMA AskedIs ==
  ASSUME CompareAssumption, NEW d \in DataForm, NEW r \in ResultForm, NEW t \in CompareTables, NEW ty \in DetailTypes,
         NEW reset \in BOOLEAN
  PROVE  IsAsked(PageAsked(d, r, t, ty, reset), d, r, t, ty, reset)
<1> DEFINE k == <<t, ty>>
           some == (r.rows[k] # {})
           b == IF reset THEN EmptyPage ELSE d.pages[k]
           a == IF reset THEN [EmptyPage EXCEPT !.more = some] ELSE d.pages[k]
           p == [a EXCEPT !.loading = some, !.loaded = @ \/ ~some, !.failed = FALSE]
           e == PageAsked(d, r, t, ty, reset)
           g == [d EXCEPT !.table = t, !.type = ty]
<1>1. k \in Keys
  BY DEF Keys
<1>2. /\ e = [g EXCEPT !.pages = [d.pages EXCEPT ![k] = p]]
      /\ g \in DataForm /\ g.result = d.result /\ g.selection = d.selection
      /\ g.table = t /\ g.type = ty
  <2>1. /\ g \in DataForm /\ g.result = d.result /\ g.selection = d.selection
        /\ g.table = t /\ g.type = ty /\ g.pages = d.pages
    BY DEF DataForm
  <2>2. e = [g EXCEPT !.pages = [g.pages EXCEPT ![k] = p]]
    BY DEF PageAsked
  <2> HIDE DEF g, e, p
  <2> QED
    BY <2>1, <2>2
<1> HIDE DEF k, g
<1>3. b \in PageForm /\ a \in PageForm
  <2>1. d.pages[k] \in PageForm
    BY <1>1 DEF DataForm
  <2>2. [EmptyPage EXCEPT !.more = some] \in PageForm
    BY Defaults DEF PageForm
  <2> QED
    BY <2>1, <2>2, Defaults
<1>4. a.items = b.items /\ a.fetched = b.fetched /\ (a.loaded <=> b.loaded)
      /\ (a.more <=> (IF reset THEN some ELSE b.more))
  BY Defaults DEF PageForm
<1> HIDE DEF a, b
<1>5. /\ p \in PageForm /\ p.items = a.items /\ p.fetched = a.fetched /\ p.loading = some
      /\ p.loaded = (a.loaded \/ ~some) /\ p.more = a.more /\ ~p.failed
  BY <1>3 DEF PageForm
<1> HIDE DEF p
<1>6. /\ e \in DataForm /\ e.result = d.result /\ e.selection = d.selection
      /\ e.table = t /\ e.type = ty /\ e.pages = [d.pages EXCEPT ![k] = p]
  BY <1>1, <1>2, <1>5 DEF DataForm
<1> HIDE DEF e
<1>7. e.pages[k] = p /\ \A j \in Keys : j # k => e.pages[j] = d.pages[j]
  BY <1>1, <1>6 DEF DataForm
<1> QED
  BY <1>4, <1>5, <1>6, <1>7 DEF e, b, k, IsAsked

\* The page of a table and a type is shown, and asked for when there is more of it.
LEMMA PagesAsked ==
  ASSUME CompareAssumption, CompareInv, NEW t \in CompareTables, NEW ty \in DetailTypes,
         data.result.id # 0,
         Clean => t \in data.result.tables,
         ensureDataCompareDetailLoaded(t, ty), DataGesture
  PROVE  CompareInv'
<1> DEFINE k == <<t, ty>>
           page == data.pages[k]
           c == PageCall(data.result, t, ty, FALSE, page.fetched)
<1>1. data \in DataForm /\ CompareTypes /\ k \in Keys
  BY DEF CompareInv, CompareTypes, Keys
<1>2. UNCHANGED <<pair, structure, mishaps>>
  BY DEF DataGesture
<1>3. /\ compareSteps' \in [choices : Nat, compares : Nat, others : Nat]
      /\ compareSteps'.compares = compareSteps.compares
  BY <1>1 DEF CompareTypes, DataGesture, Gesture
<1>4. page \in PageForm /\ data.result \in ResultForm /\ data.result.rows[k] \in SUBSET Differences
  BY <1>1 DEF DataForm, ResultForm
<1>5. /\ c.op = "page" /\ c = [op |-> c.op, body |-> c.body] /\ KeyOf(c) = k
      /\ c.body \in PageBody /\ c.body.of = data.result.id /\ c.body.rows = data.result.rows[k]
      /\ ~c.body.reset /\ c.body.offset = page.fetched
  BY <1>4 DEF PageCall, Call, KeyOf, PageBody, PageForm, ResultForm
<1> HIDE DEF c
<1> DEFINE Asks == ~(page.loading \/ (page.loaded /\ ~page.more) \/ data.result.rows[k] = {})
<1>6. /\ data' \in DataForm /\ data'.result = data.result /\ data'.selection = data.selection
      /\ data'.table = t /\ data'.type = ty
      /\ \A j \in Keys : j # k => data'.pages[j] = data.pages[j]
      /\ data'.pages[k].items = page.items /\ data'.pages[k].fetched = page.fetched
      /\ ~Asks => data'.pages = data.pages /\ UNCHANGED compareCalls
      /\ Asks => /\ data'.pages[k].loading /\ (data'.pages[k].loaded <=> page.loaded)
                 /\ (data'.pages[k].more <=> page.more)
                 /\ compareCalls' = compareCalls \cup {c} /\ c \notin compareCalls
  <2>1. CASE ~Asks
    <3>1. data' = [data EXCEPT !.table = t, !.type = ty] /\ UNCHANGED compareCalls
      BY <2>1 DEF ensureDataCompareDetailLoaded, Rows
    <3> QED
      BY <1>1, <2>1, <3>1 DEF DataForm
  <2>2. CASE Asks
    <3>1. /\ data' = PageAsked(data, data.result, t, ty, FALSE)
          /\ compareCalls' = compareCalls \cup {c} /\ c \notin compareCalls
      BY <2>2 DEF ensureDataCompareDetailLoaded, Rows, Send, c
    <3>2. IsAsked(data', data, data.result, t, ty, FALSE)
      <4>1. \A reset \in BOOLEAN :
              IsAsked(PageAsked(data, data.result, t, ty, reset), data, data.result, t, ty, reset)
        BY <1>1, <1>4, AskedIs
      <4> QED
        BY <3>1, <4>1, Zenon
    <3> QED
      BY <2>2, <3>1, <3>2 DEF IsAsked
  <2> QED
    BY <2>1, <2>2
<1>7. IsCompareCall(c)
  BY <1>5 DEF IsCompareCall, StructureOps
<1> HIDE DEF Asks
<1>8. /\ SameCalls("history") /\ SameCalls("task") /\ SameCalls("structure")
      /\ CallsOf("page")' = IF Asks THEN CallsOf("page") \cup {c} ELSE CallsOf("page")
      /\ Asks => c \notin CallsOf("page")
      /\ \A d \in compareCalls' : IsCompareCall(d)
  <2>1. CASE ~Asks
    BY <1>1, <1>6, <2>1 DEF SameCalls, CallsOf, CompareTypes
  <2>2. CASE Asks
    BY <1>1, <1>5, <1>6, <1>7, <2>2, Sent DEF SameCalls, CompareTypes, CallsOf
  <2> QED
    BY <2>1, <2>2
<1>9. CompareTypes'
  BY <1>1, <1>2, <1>3, <1>6, <1>8 DEF CompareTypes
<1>10. IdsAreOwn'
  <2>1. /\ data.result.id <= compareSteps.compares
        /\ \A d \in CallsOf("page") :
             /\ d.body.of <= compareSteps.compares
             /\ d.body.of = data.result.id => d.body.rows = data.result.rows[KeyOf(d)]
        /\ \A d \in CallsOf("task") : /\ d.body.id # data.result.id
                                       /\ \A f \in CallsOf("page") : f.body.of # d.body.id
    BY DEF CompareInv, IdsAreOwn
  <2>2. \A d \in CallsOf("page")' :
             /\ d.body.of <= compareSteps'.compares
             /\ d.body.of = data'.result.id => d.body.rows = data'.result.rows[KeyOf(d)]
    BY <1>3, <1>5, <1>6, <1>8, <2>1
  <2>3. \A d \in CallsOf("task")' : \A f \in CallsOf("page")' : f.body.of # d.body.id
    BY <1>5, <1>8, <2>1 DEF SameCalls
  <2> QED
    BY <1>3, <1>6, <1>8, <2>2, <2>3 DEF CompareInv, IdsAreOwn, SameCalls, KeyOf
<1>11. ExclusionsFollow'
  <2>1. \A j \in Keys : data'.pages[j].items = data.pages[j].items
    BY <1>6
  <2> QED
    BY <1>2, <1>6, <2>1 DEF CompareInv, ExclusionsFollow
<1>12. PagesFollow'
  <2> SUFFICES ASSUME Clean' PROVE PagesFollow'
    BY DEF PagesFollow
  <2>1. Clean
    BY <1>2 DEF Clean
  <2>2. ASSUME NEW j \in Keys
        PROVE  /\ IsPage(data.pages[j], data.result.rows[j])
               /\ data.pages[j].loading => \E d \in CallsOf("page") : KeyOf(d) = j
    BY <2>1 DEF CompareInv, PagesFollow
  <2>3. ASSUME NEW j \in Keys
        PROVE  /\ IsPage(data'.pages[j], data'.result.rows[j])
               /\ data'.pages[j].loading => \E d \in CallsOf("page")' : KeyOf(d) = j
    <3>1. CASE j = k /\ Asks
      <4>1. data'.result.rows[k] # {} /\ IsPage(page, data.result.rows[k])
        BY <1>1, <1>6, <2>2, <3>1 DEF Asks
      <4>2. IsPage(data'.pages[k], data'.result.rows[k])
        <5>1. page.more \in BOOLEAN /\ data'.pages[k].more \in BOOLEAN
          BY <1>1, <1>4, <1>6 DEF DataForm, PageForm
        <5> QED
          BY <1>6, <3>1, <4>1, <5>1 DEF IsPage
      <4> QED
        BY <1>5, <1>8, <3>1, <4>2
    <3>2. CASE j # k \/ ~Asks
      BY <1>6, <1>8, <2>2, <3>2
    <3> QED
      BY <3>1, <3>2
  <2>4. ASSUME NEW d \in CallsOf("page")', d.body.of = data'.result.id
        PROVE  FitsPage(d)' /\ (RecordsResult' => ~d.body.reset)
    <3>1. RecordsResult' => RecordsResult
      BY <1>6, <1>8 DEF RecordsResult, SameCalls
    <3>2. CASE d = c /\ Asks
      <4>1. page.fetched < Cardinality(data.result.rows[k])
        <5>1. IsPage(page, data.result.rows[k])
          BY <1>1, <2>2
        <5>2. CASE page.loaded
          BY <3>2, <5>1, <5>2 DEF IsPage, Asks
        <5>3. CASE ~page.loaded
          <6>1. page.fetched = 0 /\ data.result.rows[k] # {}
            BY <3>2, <5>1, <5>3 DEF IsPage, Asks
          <6>2. Cardinality(data.result.rows[k]) \in Nat /\ Cardinality(data.result.rows[k]) # 0
            BY <1>4, <6>1, FewDifferences, FS_EmptySet
          <6> QED
            BY <6>1, <6>2
        <5> QED
          BY <5>2, <5>3
      <4> QED
        BY <1>5, <1>6, <3>2, <4>1 DEF FitsPage, KeyOf
    <3>3. CASE ~(d = c /\ Asks)
      <4>1. d \in CallsOf("page") /\ KeyOf(d) \in Keys
        BY <1>1, <1>8, <3>3, PageCalls
      <4>2. FitsPage(d) /\ (RecordsResult => ~d.body.reset)
        BY <1>6, <2>1, <2>4, <4>1 DEF CompareInv, PagesFollow
      <4>3. Doubled(d) => Doubled(d)'
        BY <1>8 DEF Doubled, KeyOf
      <4>4. CASE KeyOf(d) # k
        <5>1. data'.pages[KeyOf(d)] = data.pages[KeyOf(d)] /\ ~Shown(KeyOf(d))'
          BY <1>6, <4>1, <4>4 DEF Shown, KeyOf
        <5> QED
          BY <3>1, <4>2, <4>3, <5>1 DEF FitsPage, KeyOf
      <4>5. CASE KeyOf(d) = k /\ Asks
        <5>1. Doubled(d)'
          BY <1>5, <1>8, <4>1, <4>5 DEF Doubled, KeyOf
        <5> QED
          BY <3>1, <4>2, <5>1 DEF FitsPage
      <4>6. CASE KeyOf(d) = k /\ ~Asks
        <5>1. d.body.rows = data.result.rows[k] /\ d.body.offset < Cardinality(d.body.rows)
          BY <1>6, <2>4, <4>1, <4>2, <4>6 DEF CompareInv, IdsAreOwn, FitsPage
        <5>2. data.result.rows[k] # {}
          <6>1. d.body.offset \in Nat
            BY <1>1, <4>1, PageCalls
          <6>2. ASSUME data.result.rows[k] = {} PROVE FALSE
            <7>1. Cardinality(d.body.rows) = 0
              BY <5>1, <6>2, FS_EmptySet
            <7> QED
              BY <5>1, <6>1, <7>1
          <6> QED
            BY <6>2
        <5>3. page.loading \/ page.loaded
          BY <4>6, <5>2 DEF Asks
        <5>4. data'.pages[k] = page
          BY <1>6, <4>6
        <5> QED
          BY <3>1, <4>2, <4>3, <4>6, <5>3, <5>4 DEF FitsPage, KeyOf
      <4> QED
        BY <4>4, <4>5, <4>6
    <3> QED
      BY <3>2, <3>3
  <2>5. \/ data'.pages[k].loaded \/ data'.result.rows[k] = {} \/ CallsOf("page")' # {}
    <3>1. CASE Asks
      BY <1>8, <3>1
    <3>2. CASE ~Asks
      BY <1>1, <1>6, <1>8, <2>2, <3>2 DEF Asks
    <3> QED
      BY <3>1, <3>2
  <2>6. data'.table \in data'.result.tables \cup {0}
    BY <1>6, <2>1
  <2> QED
    BY <1>6, <2>3, <2>4, <2>5, <2>6 DEF PagesFollow, KeyOf
<1> QED
  BY <1>2, <1>6, <1>8, <1>9, <1>10, <1>11, <1>12, DataActs DEF SameCalls

\* A comparison ends: its result is shown and goes into the history.
LEMMA ComparisonCompletes ==
  ASSUME CompareAssumption, CompareInv, NEW c \in compareCalls, TaskCompletes(c)
  PROVE  CompareInv'
<1>1. data \in DataForm /\ CompareTypes /\ c \in CallsOf("task") /\ c.op = "task"
  BY DEF CompareInv, CompareTypes, CallsOf, TaskCompletes
<1>2. UNCHANGED <<pair, structure, compareSteps, mishaps>>
  BY DEF TaskCompletes, DataAnswer
<1>3. c.body.id \in Nat \ {0} /\ c.body.pair \in ComparePairs \cup {0} /\ c.body.tables \in SUBSET CompareTables
  BY <1>1 DEF CompareTypes, IsCompareCall, TaskBody
<1>4. PICK tables0 \in SUBSET c.body.tables : \E r \in ResultsOf(c, tables0) :
        /\ data' = [data EXCEPT !.step = 3, !.running = FALSE, !.progress = 0, !.result = r,
                       !.selection = AllSelected, !.pages = NoPages,
                       !.table = IF tables0 = {} THEN 0 ELSE First(tables0), !.type = "insert"]
        /\ compareCalls' = (compareCalls \ {c}) \cup {Call("history", [result |-> r])}
  BY DEF TaskCompletes, NoTable
<1>5. PICK r \in ResultsOf(c, tables0) :
        /\ data' = [data EXCEPT !.step = 3, !.running = FALSE, !.progress = 0, !.result = r,
                       !.selection = AllSelected, !.pages = NoPages,
                       !.table = IF tables0 = {} THEN 0 ELSE First(tables0), !.type = "insert"]
        /\ compareCalls' = (compareCalls \ {c}) \cup {Call("history", [result |-> r])}
  BY <1>4
<1>6. r \in ResultForm /\ r.id = c.body.id /\ r.pair = c.body.pair /\ r.tables = tables0
  <2>1. PICK keyed \in BOOLEAN, rows \in [Keys -> SUBSET Differences] :
          r = [id |-> c.body.id, pair |-> c.body.pair, tables |-> tables0, keyed |-> keyed, rows |-> rows]
    BY DEF ResultsOf
  <2>2. tables0 \in SUBSET CompareTables
    BY <1>3
  <2> QED
    BY <1>3, <2>1, <2>2 DEF ResultForm
<1> DEFINE first == IF tables0 = {} THEN 0 ELSE First(tables0)
           h == Call("history", [result |-> r])
<1>7. first \in tables0 \cup {0} /\ first \in CompareTables \cup {0}
  BY <1>3, FewDifferences
<1> HIDE DEF first
<1>8. h.op = "history" /\ h.body.result = r /\ IsCompareCall(h)
  BY <1>3, <1>6 DEF Call, IsCompareCall, StructureOps
<1>9. compareCalls' = (compareCalls \ {c}) \cup {h}
  BY <1>5
<1> HIDE DEF h
<1>10. /\ data' \in DataForm /\ data'.result = r /\ data'.selection = AllSelected
       /\ data'.pages = NoPages /\ data'.table = first
  <2> DEFINE a == [data EXCEPT !.step = 3]
             b == [a EXCEPT !.running = FALSE, !.progress = 0]
             d == [b EXCEPT !.result = r, !.selection = AllSelected, !.pages = NoPages]
  <2>1. b \in DataForm
    <3>1. a \in DataForm
      BY <1>1 DEF DataForm
    <3> HIDE DEF a
    <3> QED
      BY <3>1 DEF DataForm
  <2>2. data' = [d EXCEPT !.table = first, !.type = "insert"]
    BY <1>5 DEF first
  <2> HIDE DEF b
  <2>3. /\ d \in DataForm /\ d.result = r /\ d.selection = AllSelected
        /\ d.pages = NoPages
    BY <1>6, <2>1, Defaults DEF DataForm
  <2> HIDE DEF d
  <2> QED
    BY <1>7, <2>2, <2>3 DEF CompareAssumption, DataForm
<1>11. /\ SameCalls("page") /\ SameCalls("structure")
       /\ CallsOf("history")' = CallsOf("history") \cup {h}
       /\ CallsOf("task")' = CallsOf("task") \ {c}
  BY <1>1, <1>8, <1>9 DEF SameCalls, CallsOf
<1>12. /\ c.body.id <= compareSteps.compares /\ c.body.id # data.result.id
       /\ \A d \in CallsOf("page") : d.body.of # c.body.id
       /\ \A d \in CallsOf("history") : d.body.result.id # c.body.id
       /\ \A d \in CallsOf("task") : d.body.id = c.body.id => d = c
  BY <1>1 DEF CompareInv, IdsAreOwn
<1>13. IdsAreOwn'
  <2>1. \A d \in CallsOf("page") : d.body.of <= compareSteps'.compares /\ d.body.of # data'.result.id
    BY <1>2, <1>6, <1>10, <1>12 DEF CompareInv, IdsAreOwn
  <2>2. (\A d \in CallsOf("history") :
           /\ d.body.result.id <= compareSteps.compares
           /\ d.body.result.id = data.result.id => d.body.result = data.result)'
    BY <1>2, <1>6, <1>8, <1>10, <1>11, <1>12 DEF CompareInv, IdsAreOwn
  <2>3. ASSUME NEW d \in CallsOf("task")'
        PROVE  /\ d.body.id <= compareSteps'.compares /\ d.body.id # data'.result.id
               /\ \A e \in CallsOf("page") : e.body.of # d.body.id
               /\ \A e \in CallsOf("history")' : e.body.result.id # d.body.id
               /\ \A e \in CallsOf("task")' : e.body.id = d.body.id => e = d
    <3>1. d \in CallsOf("task") /\ d # c
      BY <1>11
    <3>2. /\ d.body.id <= compareSteps.compares
          /\ \A e \in CallsOf("page") : e.body.of # d.body.id
          /\ \A e \in CallsOf("history") : e.body.result.id # d.body.id
          /\ \A e \in CallsOf("task") : e.body.id = d.body.id => e = d
      BY <3>1 DEF CompareInv, IdsAreOwn
    <3>3. d.body.id # c.body.id
      BY <1>12, <3>1
    <3> QED
      BY <1>2, <1>6, <1>8, <1>10, <1>11, <3>2, <3>3
  <2>4. data'.result.id <= compareSteps'.compares
    BY <1>2, <1>6, <1>10, <1>12
  <2>5. \A d \in CallsOf("page")' :
          /\ d.body.of <= compareSteps'.compares
          /\ d.body.of = data'.result.id => d.body.rows = data'.result.rows[KeyOf(d)]
    BY <1>11, <2>1 DEF SameCalls
  <2>6. \A d \in CallsOf("task")' : \A e \in CallsOf("page")' : e.body.of # d.body.id
    BY <1>11, <2>3 DEF SameCalls
  <2>7. (\A d \in CallsOf("page") :
           /\ d.body.of <= compareSteps.compares
           /\ d.body.of = data.result.id => d.body.rows = data.result.rows[KeyOf(d)])'
    BY <2>5 DEF KeyOf
  <2>8. (\A d \in CallsOf("task") :
           /\ d.body.id <= compareSteps.compares /\ d.body.id # data.result.id
           /\ \A e \in CallsOf("page") : e.body.of # d.body.id
           /\ \A e \in CallsOf("history") : e.body.result.id # d.body.id
           /\ \A e \in CallsOf("task") : e.body.id = d.body.id => e = d)'
    BY <2>3, <2>6
  <2>9. (data.result.id <= compareSteps.compares)'
    BY <2>4
  <2> QED
    BY <2>2, <2>7, <2>8, <2>9, Zenon DEF IdsAreOwn
<1>14. ExclusionsFollow'
  BY <1>10 DEF ExclusionsFollow, NoPages, EmptyPage, AllSelected
<1>15. PagesFollow'
  <2>1. ASSUME NEW j \in Keys
        PROVE  IsPage(data'.pages[j], data'.result.rows[j]) /\ ~data'.pages[j].loading
    <3>1. data'.result.rows[j] \in SUBSET Differences
      BY <1>10 DEF DataForm, ResultForm
    <3>2. IsHead({}, data'.result.rows[j], 0)
      BY <3>1, FewDifferences, NoHead
    <3>3. data'.pages[j] = EmptyPage
      BY <1>10 DEF NoPages
    <3> QED
      BY <3>2, <3>3 DEF IsPage, EmptyPage
  <2>2. \A d \in CallsOf("page") : d.body.of # data'.result.id
    BY <1>6, <1>10, <1>12
  <2>3. RecordsResult'
    BY <1>8, <1>10, <1>11 DEF RecordsResult
  <2>4. data'.table \in data'.result.tables \cup {0}
    BY <1>6, <1>7, <1>10
  <2> QED
    BY <1>11, <2>1, <2>2, <2>3, <2>4 DEF PagesFollow, SameCalls
<1>16. FormFollows'
  <2>1. "switched" \notin mishaps => c.body.pair = pair
    BY <1>1 DEF CompareInv, FormFollows
  <2> QED
    BY <1>2, <1>6, <1>10, <1>11, <2>1 DEF CompareInv, FormFollows, SameCalls
<1>17. CompareTypes'
  BY <1>1, <1>2, <1>8, <1>9, <1>10 DEF CompareTypes
<1>18. DetailsFollow'
  BY <1>2 DEF CompareInv, DetailsFollow
<1> QED
  BY <1>13, <1>14, <1>15, <1>16, <1>17, <1>18 DEF CompareInv

\* The history cannot be written.
LEMMA HistoriesFail ==
  ASSUME CompareAssumption, CompareInv, NEW c \in compareCalls, HistoryFails(c)
  PROVE  CompareInv'
<1>1. /\ data' = [data EXCEPT !.running = FALSE, !.progress = 0] /\ c.op = "history"
      /\ compareCalls' = compareCalls \ {c} /\ UNCHANGED <<pair, structure, compareSteps>>
      /\ mishaps' = mishaps \cup {"unrecorded"}
  BY DEF HistoryFails, RunFailed, Returned, DataAnswer, Noting
<1>2. data \in DataForm /\ CompareTypes
  BY DEF CompareInv, CompareTypes
<1>3. /\ data' \in DataForm /\ data'.result = data.result /\ data'.pages = data.pages
      /\ data'.selection = data.selection
  BY <1>1, <1>2 DEF DataForm
<1>4. /\ SameCalls("page") /\ SameCalls("task") /\ SameCalls("structure")
      /\ CallsOf("history")' = CallsOf("history") \ {c}
  BY <1>1, Taken DEF SameCalls
<1>5. IdsAreOwn'
  BY <1>1, <1>3, <1>4 DEF CompareInv, IdsAreOwn, SameCalls, KeyOf
<1>6. ExclusionsFollow' /\ PagesFollow'
  BY <1>1, <1>3 DEF CompareInv, ExclusionsFollow, PagesFollow, Clean
<1>7. CompareTypes'
  BY <1>1, <1>2, <1>3 DEF CompareTypes
<1> QED
  BY <1>1, <1>3, <1>4, <1>5, <1>6, <1>7, DataActs DEF SameCalls

\* The history is written, and the first page of what was recorded is asked for.
LEMMA HistoryAnswers ==
  ASSUME CompareAssumption, CompareInv, NEW c \in compareCalls, HistoryAnswer(c)
  PROVE  CompareInv'
<1> DEFINE r == c.body.result
           t == First(r.tables)
           k == <<t, "insert">>
           pc == PageCall(r, t, "insert", TRUE, 0)
<1>1. data \in DataForm /\ CompareTypes /\ c \in CallsOf("history") /\ c.op = "history"
  BY DEF CompareInv, CompareTypes, CallsOf, HistoryAnswer
<1>2. UNCHANGED <<pair, structure, compareSteps>>
  BY DEF HistoryAnswer, DataAnswer
<1>3. /\ \A d \in CallsOf("history") : d = [op |-> "history", body |-> d.body] /\ d.body \in [result : ResultForm]
      /\ r \in ResultForm /\ r.id # 0
  BY <1>1 DEF CompareTypes, IsCompareCall, CallsOf
<1>4. /\ r.id <= compareSteps.compares /\ (r.id = data.result.id => r = data.result)
      /\ \A d \in CallsOf("task") : d.body.id # r.id
  BY <1>1 DEF CompareInv, IdsAreOwn
<1>5. CASE r.tables = {}
  <2>1. compareCalls' = compareCalls \ {c} /\ UNCHANGED <<data, mishaps>>
    BY <1>5 DEF HistoryAnswer, Returned
  <2>2. /\ SameCalls("page") /\ SameCalls("task") /\ SameCalls("structure")
        /\ CallsOf("history")' = CallsOf("history") \ {c}
    BY <1>1, <2>1, Taken DEF SameCalls
  <2>3. IdsAreOwn'
    BY <1>2, <2>1, <2>2 DEF CompareInv, IdsAreOwn, SameCalls, KeyOf
  <2>4. ExclusionsFollow' /\ (Clean' <=> Clean)
    BY <2>1 DEF CompareInv, ExclusionsFollow, Clean
  <2>5. ASSUME Clean PROVE PagesFollow'
    <3>1. RecordsResult' => RecordsResult
      BY <2>1, <2>2 DEF RecordsResult
    <3>2. data.table # 0 => (RecordsResult => RecordsResult')
      <4>1. data.table \in data.result.tables \cup {0}
        BY <2>5 DEF CompareInv, PagesFollow
      <4>2. data.table # 0 => r.id # data.result.id
        BY <1>4, <1>5, <4>1
      <4> QED
        BY <2>1, <2>2, <4>2 DEF RecordsResult
    <3>3. \A d \in CallsOf("page") : d.body.of = data.result.id => FitsPage(d)' /\ (RecordsResult => ~d.body.reset)
      <4>1. \A d \in CallsOf("page") : d.body.of = data.result.id => FitsPage(d) /\ (RecordsResult => ~d.body.reset)
        BY <2>5 DEF CompareInv, PagesFollow
      <4>2. \A d \in CallsOf("page") : FitsPage(d) => FitsPage(d)'
        BY <2>1, <2>2 DEF FitsPage, Doubled, Shown, SameCalls, KeyOf
      <4> QED
        BY <4>1, <4>2
    <3> QED
      BY <2>1, <2>2, <2>5, <3>1, <3>2, <3>3 DEF CompareInv, PagesFollow, SameCalls, KeyOf
  <2>6. PagesFollow'
    BY <2>4, <2>5 DEF PagesFollow
  <2>7. CompareTypes'
    BY <1>1, <1>2, <2>1 DEF CompareTypes
  <2> QED
    BY <1>2, <2>1, <2>2, <2>3, <2>4, <2>6, <2>7, DataActs DEF SameCalls
<1>6. CASE r.tables # {}
  <2> DEFINE Sends == r.rows[k] # {}
  <2>1. /\ data' = PageAsked(data, r, t, "insert", TRUE)
        /\ compareCalls' = (compareCalls \ {c}) \cup (IF Sends THEN {pc} ELSE {})
        /\ mishaps' = IF r.id # data.result.id THEN mishaps \cup {"outdated"} ELSE mishaps
    BY <1>6 DEF HistoryAnswer, Noting
  <2>2. /\ t \in r.tables /\ t \in CompareTables /\ k \in Keys
        /\ r.rows[k] \in SUBSET Differences
    BY <1>3, <1>6, FewDifferences DEF CompareAssumption, ResultForm, Keys
  <2>3. /\ pc.op = "page" /\ pc = [op |-> pc.op, body |-> pc.body] /\ KeyOf(pc) = k
        /\ pc.body \in PageBody /\ pc.body.of = r.id /\ pc.body.rows = r.rows[k]
        /\ pc.body.reset /\ pc.body.offset = 0
    BY <1>3, <2>2
      DEF CompareAssumption, PageCall, Call, KeyOf, PageBody, ResultForm
  <2>4. /\ data' \in DataForm /\ data'.result = data.result /\ data'.selection = data.selection
        /\ data'.table = t /\ data'.type = "insert"
        /\ \A j \in Keys : j # k => data'.pages[j] = data.pages[j]
        /\ data'.pages[k].items = {} /\ data'.pages[k].fetched = 0
        /\ data'.pages[k].loading <=> Sends
        /\ data'.pages[k].loaded <=> ~Sends
        /\ data'.pages[k].more <=> Sends
    <3>1. IsAsked(data', data, r, t, "insert", TRUE)
      <4>1. \A reset \in BOOLEAN :
              IsAsked(PageAsked(data, r, t, "insert", reset), data, r, t, "insert", reset)
        BY <1>1, <1>3, <2>2, AskedIs DEF CompareAssumption
      <4> QED
        BY <2>1, <4>1, Zenon
    <3>2. EmptyPage.items = {} /\ EmptyPage.fetched = 0 /\ ~EmptyPage.loaded
      BY DEF EmptyPage
    <3> QED
      BY <3>1, <3>2 DEF IsAsked
  <2>5. IsCompareCall(pc)
    BY <2>3 DEF IsCompareCall, StructureOps
  <2> HIDE DEF pc, t, k, Sends
  <2>6. /\ SameCalls("task") /\ SameCalls("structure")
        /\ CallsOf("history")' = CallsOf("history") \ {c}
        /\ CallsOf("page")' = CallsOf("page") \cup (IF Sends THEN {pc} ELSE {})
        /\ \A d \in compareCalls' : IsCompareCall(d)
    <3>1. \A d \in compareCalls : d # c => d \in compareCalls'
      BY <2>1
    <3>2. \A d \in compareCalls' : (d \in compareCalls /\ d # c) \/ (d = pc /\ Sends)
      BY <2>1
    <3>3. Sends => pc \in compareCalls'
      BY <2>1
    <3> QED
      BY <1>1, <2>3, <2>5, <3>1, <3>2, <3>3 DEF SameCalls, CallsOf, CompareTypes
  <2>7. CompareTypes'
    BY <1>1, <1>2, <2>4, <2>6 DEF CompareTypes
  <2>8. IdsAreOwn'
    <3>1. (data.result.id <= compareSteps.compares)'
      BY <1>2, <2>4 DEF CompareInv, IdsAreOwn
    <3>2. (\A d \in CallsOf("page") :
             /\ d.body.of <= compareSteps.compares
             /\ d.body.of = data.result.id => d.body.rows = data.result.rows[KeyOf(d)])'
      <4>1. \A d \in CallsOf("page") :
             /\ d.body.of <= compareSteps.compares
             /\ d.body.of = data.result.id => d.body.rows = data.result.rows[KeyOf(d)]
        BY DEF CompareInv, IdsAreOwn
      <4>2. ASSUME NEW d \in CallsOf("page")'
            PROVE  /\ d.body.of <= compareSteps'.compares
                   /\ d.body.of = data'.result.id => d.body.rows = data'.result.rows[KeyOf(d)]
        <5>1. CASE d = pc
          BY <1>2, <1>4, <2>3, <2>4, <5>1
        <5>2. CASE d # pc
          BY <1>2, <2>4, <2>6, <4>1, <5>2
        <5> QED
          BY <5>1, <5>2
      <4> QED
        BY <4>2 DEF KeyOf
    <3>3. (\A d \in CallsOf("history") :
             /\ d.body.result.id <= compareSteps.compares
             /\ d.body.result.id = data.result.id => d.body.result = data.result)'
      BY <1>2, <2>4, <2>6 DEF CompareInv, IdsAreOwn
    <3>4. (\A d \in CallsOf("task") :
             /\ d.body.id <= compareSteps.compares /\ d.body.id # data.result.id
             /\ \A e \in CallsOf("page") : e.body.of # d.body.id
             /\ \A e \in CallsOf("history") : e.body.result.id # d.body.id
             /\ \A e \in CallsOf("task") : e.body.id = d.body.id => e = d)'
      <4>1. ASSUME NEW d \in CallsOf("task")
            PROVE  /\ d.body.id <= compareSteps'.compares /\ d.body.id # data'.result.id
                   /\ \A e \in CallsOf("page")' : e.body.of # d.body.id
                   /\ \A e \in CallsOf("history")' : e.body.result.id # d.body.id
                   /\ \A e \in CallsOf("task") : e.body.id = d.body.id => e = d
        <5>1. /\ d.body.id <= compareSteps.compares /\ d.body.id # data.result.id
              /\ \A e \in CallsOf("page") : e.body.of # d.body.id
              /\ \A e \in CallsOf("history") : e.body.result.id # d.body.id
              /\ \A e \in CallsOf("task") : e.body.id = d.body.id => e = d
          BY DEF CompareInv, IdsAreOwn
        <5> HIDE DEF r
        <5> QED
          BY <1>2, <1>4, <2>3, <2>4, <2>6, <5>1
      <4> QED
        BY <2>6, <4>1 DEF SameCalls
    <3> QED
      BY <3>1, <3>2, <3>3, <3>4, Zenon DEF IdsAreOwn
  <2>9. ExclusionsFollow'
    <3>1. "outdated" \notin mishaps' => "outdated" \notin mishaps
      BY <2>1
    <3>2. \A j \in Keys : data'.pages[j].items \subseteq data.pages[j].items
      BY <2>4
    <3> QED
      BY <2>4, <3>1, <3>2 DEF CompareInv, ExclusionsFollow
  <2>10. PagesFollow'
    <3> SUFFICES ASSUME Clean' PROVE PagesFollow'
      BY DEF PagesFollow
    <3>1. Clean /\ r = data.result
      BY <1>4, <2>1 DEF Clean
    <3>2. ASSUME NEW d \in CallsOf("history")', d.body.result.id = data'.result.id
          PROVE  FALSE
      <4>1. d \in CallsOf("history") /\ d # c
        BY <2>6
      <4>2. d.body.result = c.body.result
        BY <2>4, <3>1, <3>2, <4>1 DEF CompareInv, IdsAreOwn
      <4>3. d.body = c.body
        BY <1>1, <1>3, <4>1, <4>2
      <4> QED
        BY <1>1, <1>3, <4>1, <4>3
    <3>3. ~RecordsResult' /\ RecordsResult
      BY <1>1, <3>1, <3>2 DEF RecordsResult
    <3>4. Cardinality(r.rows[k]) \in Nat /\ (Sends <=> Cardinality(r.rows[k]) # 0)
      BY <2>2, FewDifferences, FS_EmptySet DEF Sends
    <3>5. ASSUME NEW j \in Keys
          PROVE  /\ IsPage(data'.pages[j], data'.result.rows[j])
                 /\ data'.pages[j].loading => \E d \in CallsOf("page")' : KeyOf(d) = j
      <4>1. CASE j = k
        <5>1. IsHead({}, r.rows[k], 0)
          BY <2>2, FewDifferences, NoHead
        <5>2. data'.pages[k].more \in BOOLEAN
          BY <2>2, <2>4 DEF DataForm, PageForm
        <5>3. IsPage(data'.pages[k], r.rows[k])
          BY <2>4, <3>4, <5>1, <5>2 DEF IsPage, Sends
        <5> QED
          BY <2>3, <2>4, <2>6, <3>1, <4>1, <5>3
      <4>2. CASE j # k
        <5>1. /\ IsPage(data.pages[j], data.result.rows[j])
              /\ data.pages[j].loading => \E d \in CallsOf("page") : KeyOf(d) = j
          BY <3>1 DEF CompareInv, PagesFollow
        <5> QED
          BY <2>4, <2>6, <4>2, <5>1
      <4> QED
        BY <4>1, <4>2
    <3>6. ASSUME NEW d \in CallsOf("page")', d.body.of = data'.result.id
          PROVE  FitsPage(d)'
      <4>1. CASE d = pc /\ Sends
        <5>1. 0 < Cardinality(d.body.rows)
          BY <2>3, <3>4, <4>1
        <5> QED
          BY <2>3, <2>4, <4>1, <5>1 DEF FitsPage, KeyOf
      <4>2. CASE ~(d = pc /\ Sends)
        <5>1. d \in CallsOf("page") /\ KeyOf(d) \in Keys
          BY <1>1, <2>6, <4>2, PageCalls
        <5>2. FitsPage(d) /\ ~d.body.reset
          BY <2>4, <3>1, <3>3, <3>6, <5>1 DEF CompareInv, PagesFollow
        <5>3. Doubled(d) => Doubled(d)'
          BY <2>6 DEF Doubled, KeyOf
        <5>4. CASE KeyOf(d) # k
          <6>1. data'.pages[KeyOf(d)] = data.pages[KeyOf(d)] /\ ~Shown(KeyOf(d))'
            BY <2>4, <5>1, <5>4 DEF Shown, KeyOf, k
          <6> QED
            BY <5>2, <5>3, <6>1 DEF FitsPage, KeyOf
        <5>5. CASE KeyOf(d) = k
          <6>1. d.body.rows = r.rows[k]
            BY <2>4, <3>1, <3>6, <5>1, <5>5 DEF CompareInv, IdsAreOwn
          <6>2. d.body.offset \in Nat /\ d.body.offset < Cardinality(r.rows[k])
            BY <1>1, <5>1, <5>2, <6>1, PageCalls DEF FitsPage
          <6>3. Sends
            BY <3>4, <6>2
          <6>4. pc # d /\ pc \in CallsOf("page")'
            BY <2>3, <2>6, <5>2, <6>3
          <6>5. Doubled(d)'
            BY <2>3, <5>5, <6>4 DEF Doubled, KeyOf
          <6> QED
            BY <5>2, <6>5 DEF FitsPage
        <5> QED
          BY <5>4, <5>5
      <4> QED
        BY <4>1, <4>2
    <3>7. data'.table \in data'.result.tables \cup {0}
      BY <2>2, <2>4, <3>1
    <3>8. \/ data'.result.rows[<<data'.table, data'.type>>] = {}
          \/ CallsOf("page")' # {}
      BY <2>4, <2>6, <3>1 DEF Sends, k
    <3> QED
      BY <3>3, <3>5, <3>6, <3>7, <3>8 DEF PagesFollow, KeyOf
  <2> QED
    BY <1>2, <2>1, <2>4, <2>6, <2>7, <2>8, <2>9, <2>10, DataActs DEF SameCalls
<1> QED
  BY <1>5, <1>6

\* A box is checked or unchecked, and what is left out is of the result.
LEMMA SelectionChanges ==
  ASSUME CompareAssumption, CompareInv, NEW t \in CompareTables, NEW item \in ItemForm,
         UpdateSelection(t, item),
         "outdated" \notin mishaps =>
           \A ty \in DetailTypes : item.excluded[ty] \subseteq
             IF data.result.keyed THEN data.result.rows[<<t, ty>>] ELSE {First(Differences)}
  PROVE  CompareInv'
<1>1. data \in DataForm /\ CompareTypes
  BY DEF CompareInv, CompareTypes
<1>2. /\ data' = [data EXCEPT !.selection = [data.selection EXCEPT ![t] = item]]
      /\ UNCHANGED <<pair, structure, mishaps, compareCalls>>
      /\ compareSteps' = [compareSteps EXCEPT !.others = @ + 1]
  BY DEF UpdateSelection, DataGesture, Gesture
<1>3. /\ data' \in DataForm /\ data'.result = data.result /\ data'.pages = data.pages
      /\ data'.table = data.table /\ data'.type = data.type
      /\ data'.selection = [data.selection EXCEPT ![t] = item]
  BY <1>1, <1>2 DEF DataForm
<1>4. /\ compareSteps' \in [choices : Nat, compares : Nat, others : Nat]
      /\ compareSteps'.compares = compareSteps.compares /\ compareSteps.compares \in Nat
  BY <1>1, <1>2 DEF CompareTypes
<1>5. /\ SameCalls("page") /\ SameCalls("history") /\ SameCalls("structure") /\ SameCalls("task")
  BY <1>2 DEF SameCalls, CallsOf
<1>6. IdsAreOwn' /\ PagesFollow'
  BY <1>2, <1>3, <1>4, <1>5, DataStays DEF SameCalls
<1>7. ExclusionsFollow'
  <2> SUFFICES ASSUME "outdated" \notin mishaps' PROVE ExclusionsFollow'
    BY DEF ExclusionsFollow
  <2>1. "outdated" \notin mishaps /\ ExclusionsFollow
    BY <1>2 DEF CompareInv
  <2>2. ASSUME NEW u \in CompareTables, NEW ty \in DetailTypes
        PROVE  data'.selection[u].excluded[ty] \subseteq
                 IF data'.result.keyed THEN data'.result.rows[<<u, ty>>] ELSE {First(Differences)}
    <3>1. data'.selection[u] = IF u = t THEN item ELSE data.selection[u]
      BY <1>1, <1>3 DEF DataForm
    <3> QED
      BY <1>3, <2>1, <3>1 DEF ExclusionsFollow
  <2> QED
    BY <1>3, <2>1, <2>2 DEF ExclusionsFollow
<1>8. CompareTypes'
  BY <1>1, <1>2, <1>3, <1>4 DEF CompareTypes
<1> QED
  BY <1>2, <1>3, <1>5, <1>6, <1>7, <1>8, DataActs DEF SameCalls

LEMMA Selections ==
  ASSUME CompareAssumption, CompareInv,
         \/ \E t \in CompareTables : toggleDataCompareResultTableSelection(t)
         \/ \E t \in CompareTables, ty \in DetailTypes : toggleDataCompareResultActionSelection(t, ty)
         \/ \E row \in Differences : toggleDataCompareDetailSelection(row)
  PROVE  CompareInv'
<1> DEFINE Bound(t, ty) ==
      IF data.result.keyed THEN data.result.rows[<<t, ty>>] ELSE {First(Differences)}
<1>1. data \in DataForm /\ CompareTypes
  BY DEF CompareInv, CompareTypes
<1>2. "outdated" \notin mishaps =>
        \A t \in CompareTables, ty \in DetailTypes : data.selection[t].excluded[ty] \subseteq Bound(t, ty)
  BY DEF CompareInv, ExclusionsFollow
<1>3. \A t \in CompareTables : data.selection[t] \in ItemForm
  BY <1>1 DEF DataForm
<1>4. ASSUME NEW t \in CompareTables, toggleDataCompareResultTableSelection(t)
      PROVE  CompareInv'
  <2> DEFINE b == ~TableChecked(t)
             ex == IF b THEN [ty \in DetailTypes |-> {}] ELSE data.selection[t].excluded
             item == [on |-> b, act |-> [ty \in DetailTypes |-> b], excluded |-> ex]
  <2>1. UpdateSelection(t, item)
    BY <1>4 DEF toggleDataCompareResultTableSelection
  <2>2. b \in BOOLEAN
    OBVIOUS
  <2> HIDE DEF b
  <2>3. item \in ItemForm /\ item.excluded = ex
    BY <1>3, <2>2 DEF ItemForm
  <2>4. "outdated" \notin mishaps => \A ty \in DetailTypes : ex[ty] \subseteq Bound(t, ty)
    BY <1>2
  <2> HIDE DEF item, ex
  <2> QED
    BY <2>1, <2>3, <2>4, SelectionChanges
<1>5. ASSUME NEW t \in CompareTables, NEW ty \in DetailTypes,
             toggleDataCompareResultActionSelection(t, ty)
      PROVE  CompareInv'
  <2> DEFINE b == ~ActionChecked(t, ty)
             old == data.selection[t]
             act == [old.act EXCEPT ![ty] = b]
             ex == IF b THEN [old.excluded EXCEPT ![ty] = {}] ELSE old.excluded
             on == (b \/ old.on) /\ \E u \in DetailTypes : act[u]
             item == [on |-> on, act |-> act, excluded |-> ex]
  <2>1. UpdateSelection(t, item)
    BY <1>5 DEF toggleDataCompareResultActionSelection
  <2>2. b \in BOOLEAN /\ on \in BOOLEAN
    OBVIOUS
  <2> HIDE DEF b, on
  <2>3. act \in [DetailTypes -> BOOLEAN] /\ ex \in [DetailTypes -> SUBSET Signatures]
    BY <1>3, <2>2 DEF ItemForm
  <2>4. \A u \in DetailTypes : ex[u] \subseteq old.excluded[u]
    BY <1>3 DEF ItemForm
  <2> HIDE DEF act, ex
  <2>5. item \in ItemForm /\ item.excluded = ex
    BY <2>2, <2>3 DEF ItemForm
  <2>6. "outdated" \notin mishaps => \A u \in DetailTypes : item.excluded[u] \subseteq Bound(t, u)
    BY <1>2, <2>4, <2>5
  <2> HIDE DEF item
  <2> QED
    BY <2>1, <2>5, <2>6, SelectionChanges
<1>6. ASSUME NEW row \in Differences, toggleDataCompareDetailSelection(row)
      PROVE  CompareInv'
  <2> DEFINE t == data.table
             ty == data.type
             sig == Signature(row)
             old == data.selection[t]
             left == IF isDataCompareDetailSelected(t, ty, row)
                     THEN old.excluded[ty] \cup {sig} ELSE old.excluded[ty] \ {sig}
             item == [old EXCEPT !.excluded = [old.excluded EXCEPT ![ty] = left]]
  <2>1. UpdateSelection(t, item) /\ row \in ListedRows
    BY <1>6 DEF toggleDataCompareDetailSelection
  <2>2. /\ t \in CompareTables /\ ty \in DetailTypes /\ <<t, ty>> \in Keys
        /\ row \in data.pages[<<t, ty>>].items
    BY <1>1, <2>1 DEF ListedRows, NoTable, DataForm, Keys
  <2>3. sig \in Signatures
    BY DEF Signature, Signatures
  <2>4. "outdated" \notin mishaps => sig \in Bound(t, ty)
    BY <2>2 DEF CompareInv, ExclusionsFollow, Signature
  <2>5. left \in SUBSET Signatures /\ left \subseteq old.excluded[ty] \cup {sig}
    BY <1>3, <2>2, <2>3 DEF ItemForm
  <2> HIDE DEF t, ty, sig, left
  <2>6. item \in ItemForm /\ item.excluded = [old.excluded EXCEPT ![ty] = left]
    BY <1>3, <2>2, <2>5 DEF ItemForm
  <2>7. \A u \in DetailTypes : item.excluded[u] = IF u = ty THEN left ELSE old.excluded[u]
    BY <1>3, <2>2, <2>6 DEF ItemForm
  <2>8. "outdated" \notin mishaps => \A u \in DetailTypes : item.excluded[u] \subseteq Bound(t, u)
    BY <1>2, <2>2, <2>4, <2>5, <2>7
  <2> HIDE DEF item
  <2> QED
    BY <2>1, <2>2, <2>6, <2>8, SelectionChanges
<1> QED
  BY <1>4, <1>5, <1>6

\* Tables, types and pages of the result are looked at.
LEMMA PagesShown ==
  ASSUME CompareAssumption, CompareInv,
         \/ LoadMore
         \/ \E t \in CompareTables : selectDataCompareResultTable(t)
         \/ \E ty \in DetailTypes : switchDataCompareDetailType(ty)
  PROVE  CompareInv'
<1>1. data \in DataForm /\ (Clean => data.table \in data.result.tables \cup {0})
  BY DEF CompareInv, CompareTypes, PagesFollow
<1>2. data.type \in DetailTypes /\ data.table \in CompareTables \cup {0}
  BY <1>1 DEF DataForm
<1>3. CASE LoadMore
  <2>1. /\ data.result.id # 0 /\ data.table # 0 /\ DataGesture
        /\ ensureDataCompareDetailLoaded(data.table, data.type)
    BY <1>3 DEF LoadMore, ResultShown, NoTable
  <2> QED
    BY <1>1, <1>2, <2>1, PagesAsked
<1>4. ASSUME NEW t \in CompareTables, selectDataCompareResultTable(t)
      PROVE  CompareInv'
  <2>1. /\ data.result.id # 0 /\ t \in data.result.tables /\ DataGesture
        /\ ensureDataCompareDetailLoaded(t, data.type)
    BY <1>4 DEF selectDataCompareResultTable, ResultShown
  <2> QED
    BY <1>2, <2>1, PagesAsked
<1>5. ASSUME NEW ty \in DetailTypes, switchDataCompareDetailType(ty)
      PROVE  CompareInv'
  <2>1. /\ data.result.id # 0 /\ data.table # 0 /\ DataGesture
        /\ ensureDataCompareDetailLoaded(data.table, ty)
    BY <1>5 DEF switchDataCompareDetailType, ResultShown, NoTable
  <2> QED
    BY <1>1, <1>2, <2>1, PagesAsked
<1> QED
  BY <1>3, <1>4, <1>5

\* The data comparison and its form are left alone.
LEMMA StructureActs ==
  ASSUME CompareAssumption, CompareInv,
         UNCHANGED <<pair, data>>, structure' \in StructureForm, mishaps \subseteq mishaps',
         compareSteps' \in [choices : Nat, compares : Nat, others : Nat],
         compareSteps'.compares >= compareSteps.compares, \A c \in compareCalls' : IsCompareCall(c),
         SameCalls("page"), SameCalls("history"), SameCalls("task"),
         \A c \in CallsOf("structure")' : c \in CallsOf("structure") \/ c.body.pair = pair,
         \/ structure'.result = structure.result
         \/ "switched" \notin mishaps' => structure'.result.pair = pair,
         DetailsFollow'
  PROVE  CompareInv'
<1>1. compareSteps'.compares \in Nat
  OBVIOUS
<1>2. IdsAreOwn' /\ PagesFollow' /\ ExclusionsFollow'
  BY <1>1, DataStays DEF SameCalls
<1>3. CompareTypes'
  BY DEF CompareInv, CompareTypes
<1>4. FormFollows'
  BY DEF CompareInv, FormFollows, SameCalls
<1> QED
  BY <1>2, <1>3, <1>4 DEF CompareInv

\* The structure comparison goes on showing its result.
LEMMA StructureKeeps ==
  ASSUME CompareAssumption, CompareInv,
         UNCHANGED <<pair, data>>, structure' \in StructureForm, mishaps \subseteq mishaps',
         compareSteps' = compareSteps \/ Gesture, \A c \in compareCalls' : IsCompareCall(c),
         SameCalls("page"), SameCalls("history"), SameCalls("task"),
         CallsOf("structure")' \subseteq CallsOf("structure"),
         structure'.result = structure.result,
         \A k \in DetailKeys : structure'.details[k].of = structure.details[k].of
  PROVE  CompareInv'
<1>1. /\ compareSteps' \in [choices : Nat, compares : Nat, others : Nat]
      /\ compareSteps'.compares = compareSteps.compares /\ compareSteps.compares \in Nat
  BY DEF CompareInv, CompareTypes, Gesture
<1>2. DetailsFollow'
  BY DEF CompareInv, DetailsFollow
<1>3. compareSteps'.compares >= compareSteps.compares
  BY <1>1
<1> QED
  BY <1>1, <1>2, <1>3, StructureActs

\* The structure comparison is started, goes on, is cancelled, ends or is recorded.
LEMMA StructureRuns ==
  ASSUME CompareAssumption, CompareInv,
         \/ runStructureCompareFlow \/ cancelRunningStructureCompare
         \/ \E c \in compareCalls : \/ StructureProgress(c) \/ StructureFails(c)
                                     \/ StructureRecorded(c)
  PROVE  CompareInv'
<1>1. structure \in StructureForm /\ CompareTypes
  BY DEF CompareInv, CompareTypes
<1>2. UNCHANGED <<pair, data, mishaps>>
  BY DEF runStructureCompareFlow, cancelRunningStructureCompare,
    StructureProgress, StructureFails, StructureRecorded, StructureAnswer
<1>3. CASE runStructureCompareFlow
  <2> DEFINE body == [id |-> compareSteps.compares + 1, pair |-> pair]
             c == Call("structure", body)
  <2>1. /\ compareCalls' = compareCalls \cup {c}
        /\ structure' = [structure EXCEPT !.loading = TRUE, !.progress = 0]
        /\ compareSteps' = [compareSteps EXCEPT !.compares = @ + 1]
    BY <1>3 DEF runStructureCompareFlow, Send
  <2>2. compareSteps.compares \in Nat /\ compareSteps' \in [choices : Nat, compares : Nat, others : Nat]
    BY <1>1, <2>1 DEF CompareTypes
  <2>3. compareSteps'.compares >= compareSteps.compares
    BY <1>1, <2>1, <2>2 DEF CompareTypes
  <2>4. /\ c.op = "structure" /\ c.body.pair = pair /\ c = [op |-> c.op, body |-> c.body]
        /\ c.body \in [id : Nat \ {0}, pair : ComparePairs \cup {0}]
    BY <1>1, <2>2 DEF Call, CompareTypes
  <2> HIDE DEF c
  <2>5. IsCompareCall(c)
    BY <2>4 DEF IsCompareCall, StructureOps
  <2>6. /\ SameCalls("page") /\ SameCalls("history") /\ SameCalls("task")
        /\ CallsOf("structure")' = CallsOf("structure") \cup {c}
    BY <2>1, <2>4, Sent DEF SameCalls
  <2>7. structure' \in StructureForm /\ structure'.result = structure.result /\ structure'.details = structure.details
    BY <1>1, <2>1 DEF StructureForm
  <2>8. DetailsFollow'
    BY <1>2, <2>7 DEF CompareInv, DetailsFollow
  <2>9. \A d \in compareCalls' : IsCompareCall(d)
    BY <1>1, <2>1, <2>5 DEF CompareTypes
  <2> QED
    BY <1>2, <2>2, <2>3, <2>4, <2>6, <2>7, <2>8, <2>9, StructureActs
<1>4. CASE cancelRunningStructureCompare
  <2> DEFINE Told(c) == c.op = "structure" /\ c.body.id = structure.progress
             G(c) == IF Told(c) THEN Call("structureCanceled", c.body) ELSE c
  <2>1. compareCalls' = {G(c) : c \in compareCalls} /\ UNCHANGED <<structure, compareSteps>>
    BY <1>4 DEF cancelRunningStructureCompare
  <2>2. ASSUME NEW c \in compareCalls
        PROVE  /\ IsCompareCall(G(c)) /\ (~Told(c) => G(c) = c)
               /\ (Told(c) => G(c).op = "structureCanceled")
    <3>1. IsCompareCall(c)
      BY <1>1 DEF CompareTypes
    <3>2. CASE Told(c)
      <4>1. /\ c.body \in [id : Nat \ {0}, pair : ComparePairs \cup {0}]
            /\ G(c) = Call("structureCanceled", c.body)
        BY <3>1, <3>2 DEF IsCompareCall, StructureOps
      <4>2. G(c) = [op |-> "structureCanceled", body |-> c.body]
        BY <4>1 DEF Call
      <4> HIDE DEF G
      <4>3. G(c).op = "structureCanceled" /\ G(c).body = c.body
        BY <4>2
      <4> QED
        BY <3>2, <4>1, <4>2, <4>3 DEF IsCompareCall, StructureOps
    <3> QED
      BY <3>1, <3>2
  <2> HIDE DEF G, Told
  <2>3. \A c \in compareCalls' : IsCompareCall(c)
    BY <2>1, <2>2
  <2>4. \A op \in {"page", "history", "task"} : SameCalls(op)
    <3> SUFFICES ASSUME NEW op \in {"page", "history", "task"} PROVE CallsOf(op)' = CallsOf(op)
      BY DEF SameCalls
    <3>1. \A c \in CallsOf(op) : c \in compareCalls'
      BY <2>1, <2>2 DEF CallsOf, Told
    <3>2. \A c \in compareCalls' : c.op = op => c \in compareCalls
      BY <2>1, <2>2 DEF Told
    <3> QED
      BY <3>1, <3>2 DEF CallsOf
  <2>5. CallsOf("structure")' \subseteq CallsOf("structure")
    BY <2>1, <2>2 DEF CallsOf
  <2> QED
    BY <1>1, <1>2, <2>1, <2>3, <2>4, <2>5, StructureKeeps
<1>5. ASSUME NEW c \in compareCalls, StructureProgress(c)
      PROVE  CompareInv'
  <2>1. /\ structure' = [structure EXCEPT !.progress = c.body.id] /\ c.op = "structure"
        /\ UNCHANGED <<compareCalls, compareSteps>>
    BY <1>5 DEF StructureProgress, StructureAnswer
  <2>2. c.body.id \in Nat
    BY <1>1, <2>1 DEF CompareTypes, IsCompareCall, StructureOps
  <2>3. structure' \in StructureForm /\ structure'.result = structure.result /\ structure'.details = structure.details
    BY <1>1, <2>1, <2>2 DEF StructureForm
  <2> QED
    BY <1>1, <1>2, <2>1, <2>3, StructureKeeps DEF SameCalls, CallsOf, CompareTypes
<1>6. ASSUME NEW c \in compareCalls, StructureFails(c) \/ StructureRecorded(c)
      PROVE  CompareInv'
  <2>1. /\ structure' = [structure EXCEPT !.loading = FALSE, !.progress = 0] \/ structure' = structure
        /\ c.op \in {"structure", "structureCanceled", "structureHistory"}
        /\ compareCalls' = compareCalls \ {c} /\ UNCHANGED compareSteps
    BY <1>6 DEF StructureFails, StructureRecorded, Returned, StructureAnswer
  <2>2. structure' \in StructureForm /\ structure'.result = structure.result /\ structure'.details = structure.details
    <3>1. CASE structure' = [structure EXCEPT !.loading = FALSE, !.progress = 0]
      BY <1>1, <3>1 DEF StructureForm
    <3> QED
      BY <1>1, <2>1, <3>1
  <2>3. /\ SameCalls("page") /\ SameCalls("history") /\ SameCalls("task")
        /\ CallsOf("structure")' \subseteq CallsOf("structure")
    BY <2>1, Taken DEF SameCalls
  <2> QED
    BY <1>1, <1>2, <2>1, <2>2, <2>3, StructureKeeps DEF CompareTypes
<1> QED
  BY <1>3, <1>4, <1>5, <1>6

\* A structure comparison ends: its result replaces all that was shown.
LEMMA StructuresComplete ==
  ASSUME CompareAssumption, CompareInv, NEW c \in compareCalls, StructureCompletes(c)
  PROVE  CompareInv'
<1> DEFINE h == Call("structureHistory", c.body)
<1>1. structure \in StructureForm /\ CompareTypes /\ c \in CallsOf("structure") /\ c.op = "structure"
  BY DEF CompareInv, CompareTypes, CallsOf, StructureCompletes
<1>2. UNCHANGED <<pair, data, mishaps, compareSteps>> /\ compareCalls' = (compareCalls \ {c}) \cup {h}
  BY DEF StructureCompletes, StructureAnswer
<1>3. PICK differs \in [CompareTables -> Categories \cup {"same"}] :
        LET items == [k \in Categories |-> {t \in CompareTables : differs[t] = k}]
        IN structure' = [defaultStructureCompareState EXCEPT !.step = 2, !.selection = items,
                           !.result = [id |-> c.body.id, pair |-> c.body.pair, items |-> items]]
  BY DEF StructureCompletes
<1> DEFINE items == [k \in Categories |-> {t \in CompareTables : differs[t] = k}]
           r == [id |-> c.body.id, pair |-> c.body.pair, items |-> items]
           d == defaultStructureCompareState
<1>4. structure' = [d EXCEPT !.step = 2, !.selection = items, !.result = r]
  BY <1>3
<1>5. items \in [Categories -> SUBSET CompareTables]
  OBVIOUS
<1> HIDE DEF items
<1>6. c.body \in [id : Nat \ {0}, pair : ComparePairs \cup {0}]
  BY <1>1 DEF CompareTypes, IsCompareCall, StructureOps
<1>7. /\ r \in [id : Nat, pair : ComparePairs \cup {0}, items : [Categories -> SUBSET CompareTables]]
      /\ r.pair = c.body.pair
  BY <1>5, <1>6
<1>8. d \in StructureForm /\ \A k \in DetailKeys : d.details[k].of = 0
  BY Defaults DEF defaultStructureCompareState, NoDetail, DetailKeys
<1> HIDE DEF r, d
<1>9. structure' \in StructureForm /\ structure'.result = r /\ structure'.details = d.details
  <2> DEFINE a == [d EXCEPT !.step = 2]
             b == [a EXCEPT !.selection = items]
  <2>1. a \in StructureForm /\ a.details = d.details
    BY <1>8 DEF StructureForm
  <2>2. structure' = [b EXCEPT !.result = r]
    BY <1>4
  <2> HIDE DEF a
  <2>3. b \in StructureForm /\ b.details = d.details
    BY <1>5, <2>1 DEF StructureForm
  <2> HIDE DEF b
  <2> QED
    BY <1>7, <2>2, <2>3 DEF StructureForm
<1>10. h.op = "structureHistory" /\ h.body = c.body /\ h = [op |-> h.op, body |-> h.body]
  BY DEF Call
<1> HIDE DEF h
<1>11. IsCompareCall(h)
  BY <1>6, <1>10 DEF IsCompareCall, StructureOps
<1>12. /\ SameCalls("page") /\ SameCalls("history") /\ SameCalls("task")
       /\ CallsOf("structure")' \subseteq CallsOf("structure")
       /\ \A e \in compareCalls' : IsCompareCall(e)
  BY <1>1, <1>2, <1>10, <1>11 DEF SameCalls, CallsOf, CompareTypes
<1>13. "switched" \notin mishaps' => structure'.result.pair = pair
  BY <1>1, <1>2, <1>7, <1>9 DEF CompareInv, FormFollows
<1>14. DetailsFollow'
  BY <1>8, <1>9 DEF DetailsFollow
<1>15. /\ compareSteps' \in [choices : Nat, compares : Nat, others : Nat]
       /\ compareSteps'.compares >= compareSteps.compares
  BY <1>1, <1>2 DEF CompareTypes
<1> QED
  BY <1>2, <1>9, <1>12, <1>13, <1>14, <1>15, StructureActs

\* The result of the structure comparison is looked at.
LEMMA StructureShown ==
  ASSUME CompareAssumption, CompareInv,
         \/ \E step \in 1..3 : setStructureCompareStep(step)
         \/ \E k \in Categories, items \in SUBSET CompareTables : SelectItems(k, items)
         \/ \E k \in Categories, t \in CompareTables, force \in BOOLEAN :
              toggleStructureDetail(k, t, force)
  PROVE  CompareInv'
<1>1. structure \in StructureForm /\ CompareTypes
  BY DEF CompareInv, CompareTypes
<1>2. UNCHANGED <<pair, data, mishaps>> /\ Gesture
  BY DEF setStructureCompareStep, SelectItems, toggleStructureDetail,
    StructureGesture
<1>3. ASSUME NEW step \in 1..3, setStructureCompareStep(step)
      PROVE  CompareInv'
  <2>1. structure' = [structure EXCEPT !.step = step] /\ UNCHANGED compareCalls
    BY <1>3 DEF setStructureCompareStep
  <2>2. structure' \in StructureForm /\ structure'.result = structure.result /\ structure'.details = structure.details
    BY <1>1, <2>1 DEF StructureForm
  <2> QED
    BY <1>1, <1>2, <2>1, <2>2, StructureKeeps DEF SameCalls, CallsOf, CompareTypes
<1>4. ASSUME NEW k \in Categories, NEW items \in SUBSET CompareTables, SelectItems(k, items)
      PROVE  CompareInv'
  <2>1. /\ structure' = [structure EXCEPT !.selection = [structure.selection EXCEPT ![k] = items]]
        /\ UNCHANGED compareCalls
    BY <1>4 DEF SelectItems
  <2>2. structure' \in StructureForm /\ structure'.result = structure.result /\ structure'.details = structure.details
    BY <1>1, <2>1 DEF StructureForm
  <2> QED
    BY <1>1, <1>2, <2>1, <2>2, StructureKeeps DEF SameCalls, CallsOf, CompareTypes
<1>5. ASSUME NEW k \in Categories, NEW t \in CompareTables, NEW force \in BOOLEAN,
             toggleStructureDetail(k, t, force)
      PROVE  CompareInv'
  <2> DEFINE key == <<k, t>>
             shut == [structure EXCEPT !.expanded = structure.expanded \ {key}]
             detail == [structure.details[key] EXCEPT !.loading = TRUE, !.failed = FALSE]
             open == [structure EXCEPT !.expanded = structure.expanded \cup {key},
                                       !.details = [structure.details EXCEPT ![key] = detail]]
             c == Call("detail", [of |-> structure.result.id, key |-> key])
  <2>1. \/ structure' = shut /\ UNCHANGED compareCalls
        \/ structure' = open /\ compareCalls' = compareCalls \cup {c}
    BY <1>5 DEF toggleStructureDetail, Send
  <2>2. key \in DetailKeys
    BY DEF DetailKeys
  <2>3. CASE structure' = shut /\ UNCHANGED compareCalls
    <3>1. structure' \in StructureForm /\ structure'.result = structure.result /\ structure'.details = structure.details
      BY <1>1, <2>3 DEF StructureForm
    <3> QED
      BY <1>1, <1>2, <2>3, <3>1, StructureKeeps DEF SameCalls, CallsOf, CompareTypes
  <2>4. CASE structure' = open /\ compareCalls' = compareCalls \cup {c}
    <3>1. /\ c.op = "detail" /\ c = [op |-> c.op, body |-> c.body] /\ c.body \in [of : Nat, key : DetailKeys]
      BY <1>1, <2>2 DEF Call, StructureForm
    <3> HIDE DEF c, key
    <3>2. IsCompareCall(c)
      BY <3>1 DEF IsCompareCall, StructureOps
    <3>3. /\ detail \in [loading : BOOLEAN, failed : BOOLEAN, of : Nat]
          /\ detail.of = structure.details[key].of
      BY <1>1, <2>2 DEF StructureForm
    <3> HIDE DEF detail
    <3>4. /\ structure' \in StructureForm /\ structure'.result = structure.result
          /\ structure'.details = [structure.details EXCEPT ![key] = detail]
      BY <1>1, <2>2, <2>4, <3>3 DEF StructureForm
    <3>5. \A j \in DetailKeys : structure'.details[j].of = structure.details[j].of
      BY <1>1, <3>3, <3>4 DEF StructureForm
    <3>6. /\ SameCalls("page") /\ SameCalls("history") /\ SameCalls("task") /\ SameCalls("structure")
          /\ \A d \in compareCalls' : IsCompareCall(d)
      BY <1>1, <2>4, <3>1, <3>2, Sent DEF SameCalls, CompareTypes
    <3> QED
      BY <1>2, <3>4, <3>5, <3>6, StructureKeeps DEF SameCalls
  <2> QED
    BY <2>1, <2>3, <2>4
<1> QED
  BY <1>3, <1>4, <1>5

\* The detail of a structural difference arrives, or cannot be read.
LEMMA DetailsArrive ==
  ASSUME CompareAssumption, CompareInv, NEW c \in compareCalls, DetailAnswer(c)
  PROVE  CompareInv'
<1> DEFINE key == c.body.key
           Is(detail) == structure' = [structure EXCEPT !.details = [structure.details EXCEPT ![key] = detail]]
<1>1. structure \in StructureForm /\ CompareTypes /\ c.op = "detail"
  BY DEF CompareInv, CompareTypes, DetailAnswer
<1>2. /\ UNCHANGED <<pair, data, compareSteps>> /\ compareCalls' = compareCalls \ {c}
      /\ mishaps' = IF c.body.of # structure.result.id THEN mishaps \cup {"outdated"} ELSE mishaps
  BY DEF DetailAnswer, StructureAnswer, Returned, Noting
<1>3. c.body.of \in Nat /\ key \in DetailKeys
  BY <1>1 DEF CompareTypes, IsCompareCall
<1>4. PICK detail : /\ Is(detail) /\ detail \in [loading : BOOLEAN, failed : BOOLEAN, of : Nat]
                    /\ detail.of \in {c.body.of, structure.details[key].of}
  <2>1. \/ Is([NoDetail EXCEPT !.of = c.body.of])
        \/ Is([structure.details[key] EXCEPT !.loading = FALSE, !.failed = TRUE])
    BY DEF DetailAnswer
  <2>2. /\ [NoDetail EXCEPT !.of = c.body.of] \in [loading : BOOLEAN, failed : BOOLEAN, of : Nat]
        /\ [NoDetail EXCEPT !.of = c.body.of].of = c.body.of
    BY <1>3 DEF NoDetail
  <2> HIDE DEF key
  <2>3. /\ [structure.details[key] EXCEPT !.loading = FALSE, !.failed = TRUE]
             \in [loading : BOOLEAN, failed : BOOLEAN, of : Nat]
        /\ [structure.details[key] EXCEPT !.loading = FALSE, !.failed = TRUE].of = structure.details[key].of
    BY <1>1, <1>3 DEF StructureForm
  <2> HIDE DEF Is
  <2> QED
    BY <2>1, <2>2, <2>3
<1> HIDE DEF key
<1>5. /\ structure' \in StructureForm /\ structure'.result = structure.result
      /\ structure'.details = [structure.details EXCEPT ![key] = detail]
  BY <1>1, <1>3, <1>4 DEF StructureForm
<1>6. \A j \in DetailKeys : structure'.details[j].of = IF j = key THEN detail.of ELSE structure.details[j].of
  BY <1>1, <1>5 DEF StructureForm
<1>7. DetailsFollow'
  BY <1>2, <1>3, <1>4, <1>5, <1>6 DEF CompareInv, DetailsFollow
<1>8. /\ SameCalls("page") /\ SameCalls("history") /\ SameCalls("task") /\ SameCalls("structure")
      /\ \A d \in compareCalls' : IsCompareCall(d)
  BY <1>1, <1>2, Taken DEF SameCalls, CompareTypes
<1>9. /\ compareSteps' \in [choices : Nat, compares : Nat, others : Nat]
      /\ compareSteps'.compares >= compareSteps.compares
  BY <1>1, <1>2 DEF CompareTypes
<1> QED
  BY <1>2, <1>5, <1>7, <1>8, <1>9, StructureActs DEF SameCalls

\* The form is changed, which empties both screens.
LEMMA Chooses ==
  ASSUME CompareAssumption, CompareInv, NEW p \in ComparePairs \cup {0}, Choose(p)
  PROVE  CompareInv'
<1>1. CompareTypes
  BY DEF CompareInv
<1>2. /\ compareSteps' = [compareSteps EXCEPT !.choices = @ + 1] /\ pair' = p /\ UNCHANGED compareCalls
      /\ data' = defaultDataCompareState /\ structure' = defaultStructureCompareState
      /\ mishaps' = IF compareCalls # {} THEN mishaps \cup {"switched"} ELSE mishaps
  BY DEF Choose, Noting
<1>3. /\ compareSteps' \in [choices : Nat, compares : Nat, others : Nat]
      /\ compareSteps'.compares = compareSteps.compares /\ compareSteps.compares \in Nat
  BY <1>1, <1>2 DEF CompareTypes
<1>4. compareSteps'.compares >= compareSteps.compares
  BY <1>3
<1>5. /\ data'.result = NoResult /\ data'.pages = NoPages /\ data'.table = 0
      /\ data'.selection = AllSelected
      /\ structure'.result.id = 0 /\ \A k \in DetailKeys : structure'.details[k].of = 0
  BY <1>2 DEF defaultDataCompareState, defaultStructureCompareState, NoTable,
    NoStructure, NoDetail, DetailKeys
<1>6. SameCalls("page") /\ SameCalls("history") /\ SameCalls("task") /\ SameCalls("structure")
  BY <1>2 DEF SameCalls, CallsOf
<1>7. IdsAreOwn' /\ ExclusionsFollow' /\ PagesFollow'
  BY <1>3, <1>4, <1>5, <1>6, DataResets DEF SameCalls
<1>8. FormFollows'
  <2>1. "switched" \notin mishaps' => compareCalls' = {}
    BY <1>2
  <2> QED
    BY <1>5, <2>1 DEF FormFollows, CallsOf, NoResult
<1>9. DetailsFollow'
  BY <1>5 DEF DetailsFollow
<1>10. CompareTypes'
  BY <1>1, <1>2, <1>3, Defaults DEF CompareTypes
<1> QED
  BY <1>7, <1>8, <1>9, <1>10 DEF CompareInv

\* Every step keeps what the comparison screens rest on.
LEMMA CompareNext ==
  ASSUME CompareAssumption, CompareInv, [Next]_compareVars
  PROVE  CompareInv'
<1>1. CASE Next
  BY <1>1, ComparesTables, ComparisonRuns, PagesFail, PagesArrive, ComparisonCompletes, HistoriesFail,
    HistoryAnswers, Selections, PagesShown, StructureRuns, StructuresComplete, StructureShown,
    DetailsArrive, Chooses DEF Next, Answer, NoPair
<1>2. CASE UNCHANGED compareVars
  <2> USE <1>2 DEF compareVars
  <2>1. \A op : CallsOf(op)' = CallsOf(op)
    BY DEF CallsOf
  <2>2. CompareTypes' /\ FormFollows' /\ DetailsFollow' /\ ExclusionsFollow'
    BY <2>1 DEF CompareInv, CompareTypes, FormFollows, DetailsFollow, ExclusionsFollow
  <2>3. IdsAreOwn' /\ PagesFollow'
    <3>1. compareSteps'.compares \in Nat /\ compareSteps'.compares >= compareSteps.compares
      BY DEF CompareInv, CompareTypes
    <3> QED
      BY <2>1, <3>1, DataStays DEF SameCalls
  <2> QED
    BY <2>2, <2>3 DEF CompareInv
<1> QED
  BY <1>1, <1>2

----------------------------------------------------------------------------
\* A result is of the databases the form names (ResultIsOfTheForm).
LEMMA ResultsOfTheForm ==
  ASSUME CompareInv
  PROVE  ResultIsOfTheForm
BY DEF CompareInv, FormFollows, ResultIsOfTheForm

\* What is listed is the head of the result (ListedIsTheResult).
LEMMA ResultsListed ==
  ASSUME CompareInv
  PROVE  ListedIsTheResult
<1>1. "outdated" \notin mishaps =>
        \A k \in Categories \X CompareTables : structure.details[k].of \in {0, structure.result.id}
  BY DEF CompareInv, DetailsFollow, DetailKeys
<1> DEFINE rows == Rows(data.table, data.type)
           page == data.pages[<<data.table, data.type>>]
<1>2. ASSUME data.table # 0, Clean
      PROVE  /\ page.items = {r \in rows : Cardinality({q \in rows : q < r}) < page.fetched}
             /\ page.loaded => page.more = (page.fetched < Cardinality(rows))
             /\ page.loaded \/ page.failed \/ rows = {} \/ InFlight("page") \/ InFlight("history")
  <2>1. <<data.table, data.type>> \in Keys
    BY <1>2 DEF CompareInv, CompareTypes, DataForm, Keys
  <2>2. IsPage(page, rows)
    BY <1>2, <2>1 DEF CompareInv, PagesFollow, Rows
  <2>3. page.loaded \/ page.failed \/ rows = {} \/ CallsOf("page") # {} \/ RecordsResult
    BY <1>2 DEF CompareInv, PagesFollow, Rows
  <2> HIDE DEF rows, page
  <2> QED
    BY <2>2, <2>3 DEF IsPage, IsHead, Rank, CallsOf, RecordsResult, InFlight
<1> QED
  BY <1>1, <1>2 DEF ListedIsTheResult, Clean, NoTable

\* What a type of a table counts, and what its boxes leave in.
Kept(t, ty) == {row \in Rows(t, ty) :
                  Signature(row) \notin data.selection[t].excluded[ty]}
LEMMA Counts ==
  ASSUME CompareAssumption, CompareInv, "outdated" \notin mishaps,
         NEW t \in CompareTables, NEW ty \in DetailTypes
  PROVE  /\ Selected(t, ty) \in Nat
         /\ Kept(t, ty) # {} => (Selected(t, ty) > 0 <=> ActionEnabled(t, ty))
         /\ IsFiniteSet(Kept(t, ty)) /\ Cardinality(Kept(t, ty)) \in Nat
         /\ Selected(t, ty) > 0 =>
              /\ Selected(t, ty) >= Cardinality(Kept(t, ty))
              /\ data.result.keyed => Selected(t, ty) = Cardinality(Kept(t, ty))
<1> DEFINE rows == Rows(t, ty)
           ex == data.selection[t].excluded[ty]
           kept == Kept(t, ty)
           enabled == ActionEnabled(t, ty)
           left == Cardinality(rows) - Cardinality(ex)
           first == First(Differences)
<1>1. data \in DataForm /\ <<t, ty>> \in Keys
  BY DEF CompareInv, CompareTypes, Keys
<1>2. rows \in SUBSET Differences /\ IsFiniteSet(rows) /\ Cardinality(rows) \in Nat
  <2>1. rows \in SUBSET Differences
    BY <1>1 DEF DataForm, ResultForm, Rows
  <2> QED
    BY <2>1, FewDifferences
<1>3. ex \subseteq IF data.result.keyed THEN rows ELSE {first}
  BY DEF CompareInv, ExclusionsFollow, Rows
<1>4. Selected(t, ty) = IF enabled /\ left > 0 THEN left ELSE 0
  BY DEF Selected
<1>5. kept = {row \in rows : (IF data.result.keyed THEN row ELSE first) \notin ex}
  BY DEF Kept, Signature
<1> HIDE DEF rows, ex, kept, enabled, first
<1>6. IsFiniteSet(kept) /\ Cardinality(kept) \in Nat
  <2>1. kept \in SUBSET rows
    BY <1>5
  <2> QED
    BY <1>2, <2>1, FS_Subset, FS_CardinalityType
<1>7. CASE data.result.keyed
  <2>1. kept = rows \ ex /\ ex \in SUBSET rows
    BY <1>3, <1>5, <1>7
  <2>2. Cardinality(rows \ ex) = Cardinality(rows) - Cardinality(rows \cap ex)
    BY <1>2, FS_Difference
  <2>3. rows \cap ex = ex
    BY <2>1
  <2>4. IsFiniteSet(ex) /\ Cardinality(ex) \in Nat
    BY <1>2, <2>1, FS_Subset, FS_CardinalityType
  <2>5. Cardinality(kept) = left
    BY <2>1, <2>2, <2>3
  <2>6. kept # {} => Cardinality(kept) # 0
    BY <1>6, FS_EmptySet
  <2> QED
    BY <1>4, <1>6, <2>4, <2>5, <2>6, <1>2 DEF kept, enabled
<1>8. CASE ~data.result.keyed
  <2>1. ex = {} \/ ex = {first}
    BY <1>3, <1>8
  <2>2. CASE ex = {}
    <3>1. kept = rows /\ Cardinality(ex) = 0
      BY <1>5, <2>2, FS_EmptySet
    <3>2. left = Cardinality(kept)
      BY <1>2, <3>1
    <3>3. kept # {} => Cardinality(kept) # 0
      BY <1>6, FS_EmptySet
    <3> QED
      BY <1>4, <1>6, <3>2, <3>3 DEF kept, enabled
  <2>3. CASE ex = {first}
    <3>1. kept = {} /\ Cardinality(kept) = 0 /\ Cardinality(ex) = 1
      <4>1. kept = {}
        BY <1>5, <1>8, <2>3
      <4> QED
        BY <4>1, <2>3, FS_EmptySet, FS_Singleton
    <3>2. left \in Int
      BY <1>2, <3>1
    <3> QED
      BY <1>4, <1>6, <1>8, <3>1, <3>2 DEF kept, enabled
  <2> QED
    BY <2>1, <2>2, <2>3
<1> QED
  BY <1>7, <1>8

\* An export holds what the screen shows as checked, and the counters say how much
\* (ExportsWhatIsChecked).
LEMMA Exports ==
  ASSUME CompareAssumption, CompareInv
  PROVE  ExportsWhatIsChecked
<1> SUFFICES ASSUME "outdated" \notin mishaps PROVE ExportsWhatIsChecked
  BY DEF ExportsWhatIsChecked
<1>1. /\ data.result.tables \subseteq CompareTables
      /\ \A t \in CompareTables, ty \in DetailTypes : Rows(t, ty) \in SUBSET Differences
  BY DEF CompareInv, CompareTypes, DataForm, ResultForm, Rows, Keys
<1> DEFINE All == data.result.tables \X DetailTypes \X Differences
<1>2. Exported = {d \in All : d[3] \in Kept(d[1], d[2]) /\ Selected(d[1], d[2]) > 0}
  BY DEF Exported, Kept
<1>3. \A t \in CompareTables, ty \in DetailTypes :
        Kept(t, ty) # {} => (Selected(t, ty) > 0 <=> ActionEnabled(t, ty))
  BY Counts
<1>4. \A d \in All : d[3] \in Kept(d[1], d[2]) =>
        (Selected(d[1], d[2]) > 0 <=> ActionEnabled(d[1], d[2]))
  BY <1>1, <1>3
<1>5. Exported = {d \in All : d[3] \in Rows(d[1], d[2]) /\ isDataCompareDetailSelected(d[1], d[2], d[3])}
  BY <1>2, <1>4 DEF isDataCompareDetailSelected, Kept
<1>6. ASSUME NEW t \in data.result.tables, NEW ty \in DetailTypes
      PROVE  LET count == Cardinality({x \in Exported : x[1] = t /\ x[2] = ty})
             IN Selected(t, ty) >= count /\ (data.result.keyed => Selected(t, ty) = count)
  <2> DEFINE S == {x \in Exported : x[1] = t /\ x[2] = ty}
             f == [row \in Kept(t, ty) |-> <<t, ty, row>>]
  <2>1. /\ Selected(t, ty) \in Nat /\ IsFiniteSet(Kept(t, ty)) /\ Cardinality(Kept(t, ty)) \in Nat
        /\ Selected(t, ty) > 0 =>
             /\ Selected(t, ty) >= Cardinality(Kept(t, ty))
             /\ data.result.keyed => Selected(t, ty) = Cardinality(Kept(t, ty))
    BY <1>1, Counts
  <2>2. CASE Selected(t, ty) > 0
    <3>1. Kept(t, ty) \subseteq Differences
      BY <1>1 DEF Kept
    <3>2. S = {<<t, ty, row>> : row \in Kept(t, ty)}
      BY <1>2, <2>2, <3>1
    <3>3. f \in Injection(Kept(t, ty), S)
      BY <3>2 DEF Injection, IsInjective
    <3>4. f \in Surjection(Kept(t, ty), S)
      BY <3>2 DEF Surjection
    <3>5. ExistsBijection(Kept(t, ty), S)
      BY <3>3, <3>4 DEF ExistsBijection, Bijection
    <3>6. Cardinality(S) = Cardinality(Kept(t, ty))
      BY <2>1, <3>5, FS_Bijection
    <3> HIDE DEF S
    <3> QED
      BY <2>1, <2>2, <3>6 DEF S
  <2>3. CASE ~(Selected(t, ty) > 0)
    <3>1. S = {}
      BY <1>2, <2>3
    <3>2. Cardinality(S) = 0
      BY <3>1, FS_EmptySet
    <3>3. Selected(t, ty) = 0
      BY <2>1, <2>3
    <3> HIDE DEF S
    <3> QED
      BY <3>2, <3>3 DEF S
  <2> QED
    BY <2>2, <2>3
<1> QED
  BY <1>5, <1>6 DEF ExportsWhatIsChecked
================================================================================
