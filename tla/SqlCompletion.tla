------------------------------ MODULE SqlCompletion ------------------------------
(***************************************************************************)
(* What the console's editor offers while the user writes a query          *)
(* (SqlEditor.tsx): completion reads the statement around the cursor,      *)
(* loads the schemas the text before the cursor names, and offers tables   *)
(* or columns by the analysis of SqlAnalysis.                              *)
(*                                                                         *)
(* The user means a query, which is written as tokens; what is offered can *)
(* then be compared with what was meant.  The cursor is behind a blank or  *)
(* a dot.  Keywords and the order of what is offered are left out.         *)
(***************************************************************************)
EXTENDS SqlAnalysis

CONSTANTS MaxParts,    \* bound: table expressions and relations of the query
          MaxAsks      \* bound: completions asked for

VARIABLES query,       \* the query the user is writing
          cached,      \* databases whose completion metadata the window has; the console's at first
          context,     \* databases in the schema_catalog of the editor's context
          ask,         \* the completion that waits for schemas, or NoAsk
          offer,       \* what the last completion of this query offered; ghost: `known`, the
                       \* schemas it could have known
          answersWanted

\* the bodies of table expressions and subqueries, with the columns they make
Bodies == {[items |-> <<"*">>, path |-> <<"t">>, columns |-> {"a", "b"}],
           [items |-> <<"t", ".", "a", "as", "z", ",", "b">>, path |-> <<"t">>, columns |-> {"z", "b"}],
           [items |-> <<"count", "(", "*", ")", "n", ",", "u", ".", "*">>, path |-> <<"e", "u">>,
            columns |-> {"n", "c", "f"}]}
Paths == {<<"t">>, <<"u">>, <<"e", "u">>}
TableNames == {"t", "u", "v", "x"}

NoAsk == [kind |-> "none", name |-> "", waiting |-> {}, got |-> {}, known |-> {}, same |-> FALSE]
NoOffer == [kind |-> "none", name |-> "", known |-> {}, relations |-> {}, columns |-> {}, qualified |-> {}]

----------------------------------------------------------------------------
(* The query as it is written. *)

Dotted(path) == FoldLeft(LAMBDA s, n : IF s = <<>> THEN <<n>> ELSE s \o <<".", n>>, <<>>, path)
BodyTokens(b) == <<"(", "select">> \o b.items \o <<"from">> \o Dotted(b.path) \o <<")">>
CteTokens(c) == <<c.name>> \o (IF c.renamed THEN <<"(", "p", ")">> ELSE <<>>) \o <<"as">> \o BodyTokens(c.body)
RelationTokens(r) ==
  (IF r.path = <<>> THEN BodyTokens(r.body) ELSE Dotted(r.path))
    \o (IF r.alias = "" THEN <<>> ELSE <<r.alias>>)

WithTokens(q) ==
  FlattenSeq([i \in DOMAIN q.ctes |-> <<IF i = 1 THEN "with" ELSE ",">> \o CteTokens(q.ctes[i])])
FromTokens(q) ==
  FlattenSeq([i \in DOMAIN q.from |-> <<IF i = 1 THEN "from" ELSE q.from[i].by>> \o RelationTokens(q.from[i])])

\* the tokens before the cursor and behind it
Before(q, kind, name) ==
  WithTokens(q) \o
    CASE kind = "select" -> <<"select", name, ".">>
      [] kind = "where" -> <<"select", "*">> \o FromTokens(q) \o <<"where", name, ".">>
      [] kind = "hover" -> <<"select", "*">> \o FromTokens(q) \o <<"where", name>>
      [] kind = "on" -> <<"select", "*">> \o FromTokens(q) \o <<"on">>
      [] kind = "join" -> <<"select", "*">> \o FromTokens(q) \o <<"join">>
      [] kind = "schema" -> <<"select", "*">> \o FromTokens(q) \o <<"join", name, ".">>
Behind(q, kind) == IF kind = "select" THEN FromTokens(q) ELSE <<>>

----------------------------------------------------------------------------
(* What is offered. *)

\* databases the text names, or that names of relations are taken for
extractReferencedDatabaseNames(B) ==
  DatabaseNames \cap {B[i] : i \in {j \in DOMAIN B : isIdentifierToken(B, j) /\ Tok(B, j + 1) = "."}}

\* the path a dot at the end of the text continues
readQualifiedAccess(B) ==
  LET n == Max({k \in 0..Len(B) : \A j \in 1..k : /\ Tok(B, Len(B) - 2 * j + 2) = "."
                                                  /\ isIdentifierToken(B, Len(B) - 2 * j + 1)})
  IN [k \in 1..n |-> B[Len(B) - 2 * (n - k) - 1]]

detectClauseContext(B) ==
  CASE Tok(B, Len(B) - 2 * Len(readQualifiedAccess(B))) \in {"from", "join"} -> "relation"
    [] \E i \in DOMAIN B : B[i] = "on" -> "join_on"
    [] OTHER -> "column"

\* the columns of the relation, table expression or table a path stands for; none or one
resolveQualifiedNamespace(path, analysis, known) ==
  LET scope == IF Len(path) = 1 THEN Lookup(analysis.relations \o analysis.ctes, path[1]) ELSE {}
  IN IF scope # {} THEN scope ELSE resolveCatalogTable(path, known)

\* columns that need no qualifier
Bare(rs) == {c \in ColumnsOf(Range(rs)) : Cardinality({i \in DOMAIN rs : c \in rs[i].columns}) = 1}

collectScopedColumns(analysis, clause) ==
  LET rs == IF analysis.relations # <<>> THEN analysis.relations ELSE analysis.ctes
      Base(r) == IF r.alias # "" THEN r.alias ELSE r.name
  IN [bare |-> Bare(rs),
      qualified |-> IF Len(rs) > 1 \/ clause = "join_on"
                    THEN UNION {{<<Base(r), c>> : c \in r.columns} : r \in Range(rs)} ELSE {}]

\* what the pointer over a word shows: the columns of the first relation of that name, or
\* else the first relation that has such a column
findHoverColumnMatch(word, analysis) ==
  LET all == analysis.relations \o analysis.ctes
      owners == {i \in DOMAIN all : word \in all[i].columns}
      owner == all[Min(owners)]
  IN IF owners = {} THEN {} ELSE {<<IF owner.alias # "" THEN owner.alias ELSE owner.name, word>>}
buildConsoleHover(analysis, word) ==
  LET rs == analysis.ctes \o analysis.relations
      named == {i \in DOMAIN rs : word \in {rs[i].name, rs[i].alias}}
  IN [relations |-> {},
      columns |-> IF named # {} THEN rs[Min(named)].columns ELSE {},
      qualified |-> IF named # {} THEN {} ELSE findHoverColumnMatch(word, analysis)]

\* the relations offered; the databases, always offered with them, are left out
TablesOf(db, known) == IF db \in known THEN DOMAIN SchemaOf[db] ELSE {}
buildRelationSuggestions(analysis, known) ==
  {<<c.name>> : c \in Range(analysis.ctes)} \cup {<<n>> : n \in TablesOf(Current, known)}
buildNamespaceTableSuggestions(access, known) ==
  {<<access[1], n>> : n \in TablesOf(access[1], known)}
buildQualifiedColumnSuggestions(access, analysis, known) ==
  ColumnsOf(resolveQualifiedNamespace(access, analysis, known))

Suggestions(analysis, clause, access, known) ==
  LET Relations(names) == [relations |-> names, columns |-> {}, qualified |-> {}]
      Columns(bare, qualified) == [relations |-> {}, columns |-> bare, qualified |-> qualified]
      Scoped(columns) == Columns(columns.bare, columns.qualified)
  IN CASE clause = "relation" /\ access # <<>> -> Relations(buildNamespaceTableSuggestions(access, known))
       [] clause = "relation" /\ access = <<>> -> Relations(buildRelationSuggestions(analysis, known))
       [] clause # "relation" /\ access # <<>> ->
            Columns(buildQualifiedColumnSuggestions(access, analysis, known), {})
       [] OTHER -> Scoped(collectScopedColumns(analysis, clause))

\* what is offered, or shown under the pointer
buildConsoleSuggestions(q, asked, known) ==
  LET before == Before(q, asked.kind, asked.name)
      Offer(analysis) == IF asked.kind = "hover" THEN buildConsoleHover(analysis, asked.name)
                         ELSE Suggestions(analysis, detectClauseContext(before), readQualifiedAccess(before), known)
  IN [kind |-> asked.kind, name |-> asked.name, known |-> known]
       @@ Offer(analyzeSqlTokens(before \o Behind(q, asked.kind), known, 0))

----------------------------------------------------------------------------
(* The user writes and asks, schemas arrive, the window draws itself. *)

Init ==
  /\ query = [ctes |-> <<>>, from |-> <<>>]
  /\ cached = {Current} /\ context = cached
  /\ ask = NoAsk /\ offer = NoOffer /\ answersWanted = 0

\* the name a relation goes by, and the names the user may write before a dot or point at
NameOf(r) == IF r.alias # "" THEN r.alias ELSE r.path[Len(r.path)]
NamesIn(q) == {NameOf(r) : r \in Range(q.from)} \cup {c.name : c \in Range(q.ctes)}

Parts(q) == Len(q.ctes) + Len(q.from)
Writes(q) == /\ ask = NoAsk /\ Parts(q) <= MaxParts
             /\ query' = q /\ offer' = NoOffer /\ UNCHANGED <<cached, context, ask, answersWanted>>

WriteExpression(name, body, renamed) ==
  /\ query.from = <<>> /\ \A c \in Range(query.ctes) : c.name # name
  /\ Writes([query EXCEPT !.ctes = Append(@, [name |-> name, body |-> body, renamed |-> renamed])])

\* stands for the body of what is no subquery
NoBody == CHOOSE b \in Bodies : b.items = <<"*">>
WriteTable(by, path, alias) ==
  Writes([query EXCEPT !.from = Append(@, [by |-> by, path |-> path, body |-> NoBody, alias |-> alias])])
WriteSubquery(by, body, alias) ==
  Writes([query EXCEPT !.from = Append(@, [by |-> by, path |-> <<>>, body |-> body, alias |-> alias])])

\* provideCompletionItems and provideHover, up to the await of ensureReferencedSchemasLoaded
AskCompletion(asked) ==
  LET missing == extractReferencedDatabaseNames(Before(query, asked.kind, asked.name)) \ context
  IN /\ ask = NoAsk /\ answersWanted < MaxAsks /\ query.from # <<>> /\ answersWanted' = answersWanted + 1
     /\ IF missing = {}
        THEN offer' = buildConsoleSuggestions(query, asked, context) /\ UNCHANGED ask
        ELSE /\ ask' = [kind |-> asked.kind, name |-> asked.name, waiting |-> missing, got |-> {},
                        known |-> context, same |-> TRUE]
             /\ UNCHANGED offer
     /\ UNCHANGED <<query, cached, context>>

\* onResolveSchema answers, with null if the load failed; after the last answer the schemas
\* enter the catalog of the context the completion began with, and the suggestions are built
SchemaAnswer(db, ok) ==
  LET got == IF ok THEN ask.got \cup {db} ELSE ask.got
      served == ask.known \cup got
      named == extractReferencedDatabaseNames(Before(query, ask.kind, ask.name))
  IN /\ db \in ask.waiting /\ (db \in cached => ok)
     /\ cached' = IF ok THEN cached \cup {db} ELSE cached
     /\ IF ask.waiting = {db}
        THEN /\ offer' = [buildConsoleSuggestions(query, ask, served)
                            EXCEPT !.known = ask.known \cup (cached' \cap named)]
             /\ context' = IF ask.same THEN context \cup got ELSE context
             /\ ask' = NoAsk
        ELSE ask' = [ask EXCEPT !.waiting = @ \ {db}, !.got = got] /\ UNCHANGED <<offer, context>>
     /\ UNCHANGED <<query, answersWanted>>

\* drawing the window gives the editor a context of its own with what the window has
Draw == /\ context # cached \/ ask.same
        /\ context' = cached /\ ask' = [ask EXCEPT !.same = FALSE]
        /\ UNCHANGED <<query, cached, offer, answersWanted>>

\* where the cursor or the pointer may be
Places(q) == [kind : {"select", "where"}, name : NamesIn(q)] \cup [kind : {"on", "join"}, name : {""}]
               \cup [kind : {"hover"}, name : NamesIn(q) \cup {"b", "c"}]
               \cup [kind : {"schema"}, name : DatabaseNames]

Next ==
  \/ \E n \in {"t", "v"}, b \in Bodies, r \in BOOLEAN :
       (r => b = NoBody) /\ WriteExpression(n, b, r)
  \/ \E by \in {",", "join"}, p \in Paths \cup {<<c.name>> : c \in Range(query.ctes)}, a \in {"", "x", "u"} :
       WriteTable(by, p, a)
  \/ \E by \in {",", "join"}, b \in Bodies : WriteSubquery(by, b, "x")
  \/ \E asked \in Places(query) : AskCompletion(asked)
  \/ \E db \in DatabaseNames, ok \in BOOLEAN : SchemaAnswer(db, ok)
  \/ Draw

----------------------------------------------------------------------------
(* What was meant. *)

\* Type invariant.
CompletionTypeOK ==
  /\ context \subseteq DatabaseNames /\ cached \subseteq DatabaseNames
  /\ ask.waiting \subseteq DatabaseNames /\ (ask.waiting = {}) = (ask = NoAsk)
  /\ offer.qualified \subseteq (TableNames \cup {"subquery"}) \X {"a", "b", "c", "f", "n", "p", "u", "z"}

MeantByCte(c) == IF c.renamed THEN {"p"} ELSE c.body.columns
CtesNamed(q, path) == {c \in Range(q.ctes) : path = <<c.name>>}

\* the columns the relation has on the server
Meant(q, r) ==
  CASE r.path = <<>> -> r.body.columns
    [] r.path # <<>> /\ CtesNamed(q, r.path) # {} -> UNION {MeantByCte(c) : c \in CtesNamed(q, r.path)}
    [] OTHER -> SchemaOf[IF Len(r.path) = 1 THEN Current ELSE r.path[1]][r.path[Len(r.path)]]
Named(q, n) == {i \in DOMAIN q.from : NameOf(q.from[i]) = n}

\* every schema the query needs is known, and each of its relations has a name of its own
Readable(q, known) ==
  /\ \A b \in {r.body : r \in {s \in Range(q.from) : s.path = <<>>}} \cup {c.body : c \in Range(q.ctes)} :
       {IF Len(b.path) = 1 THEN Current ELSE b.path[1]} \subseteq known
  /\ \A r \in Range(q.from) : \/ Len(r.path) = 1 /\ (CtesNamed(q, r.path) # {} \/ Current \in known)
                              \/ Len(r.path) # 1 /\ (r.path = <<>> \/ r.path[1] \in known)
  /\ \A i, j \in DOMAIN q.from : i # j => NameOf(q.from[i]) # NameOf(q.from[j])

\* inside a subquery or a later table expression, a table expression hides a table: analysis of
\* the inner query does not know the expressions of the outer one
HiddenInside(q) ==
  \/ \E r \in Range(q.from) : r.path = <<>> /\ CtesNamed(q, r.body.path) # {}
  \/ \E i, j \in DOMAIN q.ctes : i < j /\ q.ctes[j].body.path = <<q.ctes[i].name>>

\* the name of a relation is also the table name of an aliased one, or of a table expression it
\* is not: the lookup of names prefers the later of them and table expressions
Ambiguous(q, n) ==
  \/ \E r \in Range(q.from) : r.path # <<>> /\ r.path[Len(r.path)] = n /\ r.alias \notin {"", n}
  \/ \E c \in Range(q.ctes), i \in Named(q, n) : c.name = n /\ q.from[i].path # <<n>>

\* Behind the name of a relation the columns of that relation are offered: of its alias, of the
\* table expression that hides a table, of what a subquery selects.
AccessIsOfTheRelation(q) ==
  offer.kind \in {"select", "where", "hover"} /\ ~Ambiguous(q, offer.name) =>
    \A i \in Named(q, offer.name) : offer.columns = Meant(q, q.from[i])

\* In a condition, a column is offered bare if it is the column of one relation only, and
\* qualified with the name of a relation that has it.
ScopeIsUnambiguous(q) ==
  offer.kind = "on" =>
    LET Owners(c) == {i \in DOMAIN q.from : c \in Meant(q, q.from[i])}
    IN /\ \A c \in offer.columns : Cardinality(Owners(c)) = 1
       /\ \A i \in DOMAIN q.from : \A c \in Meant(q, q.from[i]) :
            /\ Cardinality(Owners(c)) = 1 => c \in offer.columns
            /\ <<NameOf(q.from[i]), c>> \in offer.qualified
       /\ \A p \in offer.qualified : \E i \in Named(q, p[1]) : p[2] \in Meant(q, q.from[i])

\* A column under the pointer is shown as one of a relation that has it; only if there is none,
\* as one of a table expression.
HoverIsOfAnOwner(q) ==
  offer.kind = "hover" =>
    LET owners == {i \in DOMAIN q.from : offer.name \in Meant(q, q.from[i])}
    IN \A p \in offer.qualified :
         p[1] \in IF owners # {} THEN {NameOf(q.from[i]) : i \in owners}
                  ELSE {c.name : c \in {d \in Range(q.ctes) : offer.name \in MeantByCte(d)}}

\* The editor offers what is in scope: for every query it can read and whose names are not
\* ambiguous, what it offers is what the query means.
OffersWhatIsInScope ==
  Readable(query, offer.known) /\ ~HiddenInside(query) =>
    AccessIsOfTheRelation(query) /\ ScopeIsUnambiguous(query) /\ HoverIsOfAnOwner(query)
=============================================================================
