------------------------------ MODULE SqlAnalysis ------------------------------
(***************************************************************************)
(* How the console's editor analyses the tokens of a statement             *)
(* (SqlEditor.tsx): the common table expressions and relations in scope    *)
(* and the columns each of them has.                                       *)
(*                                                                         *)
(* A token is its text, a column its name, a table the set of its columns; *)
(* names are lower case and need no quoting, parentheses are balanced.     *)
(* `known` are the databases whose schema the editor has.                  *)
(***************************************************************************)
EXTENDS Integers, Sequences, FiniteSets, SequencesExt, FiniteSetsExt

\* the server's schemas; the console is of database d
Current == "d"
SchemaOf == [d |-> [t |-> {"a", "b"}, u |-> {"b", "c"}], e |-> [u |-> {"c", "f"}]]
DatabaseNames == DOMAIN SchemaOf

----------------------------------------------------------------------------
(* Tokens. *)

Marks == {"(", ")", ",", ".", "*", "="}
joinStopKeywords == {"where", "group", "order", "limit", "union"}
aliasStopKeywords == joinStopKeywords \cup {"join", "left", "on", "using"}

Tok(T, i) == IF i \in DOMAIN T THEN T[i] ELSE ""
isIdentifierToken(T, i) == i \in DOMAIN T /\ T[i] \notin Marks

\* parentheses open after each token, counted from token i on
Nesting(T, i, j) == Cardinality({k \in i..j : T[k] = "("}) - Cardinality({k \in i..j : T[k] = ")"})
\* the token behind the parenthesis that closes the one at i, and what is between them
AfterClose(T, i) == Min({Len(T) + 1} \cup {j + 1 : j \in {k \in i..Len(T) : Nesting(T, i, k) = 0}})
readParenthesizedTokens(T, i) ==
  LET next == AfterClose(T, i)
  IN [inner |-> SubSeq(T, i + 1, IF next - 1 > i /\ T[next - 1] = ")" THEN next - 2 ELSE next - 1),
      next |-> next]
readIdentifierList(T, i) ==
  [identifiers |-> {T[k] : k \in {j \in i + 1..AfterClose(T, i) - 1 : isIdentifierToken(T, j)}},
   next |-> AfterClose(T, i)]

\* the alias written at i, "" if there is none
readAliasToken(T, i) ==
  CASE Tok(T, i) = "as" /\ isIdentifierToken(T, i + 1) -> [name |-> T[i + 1], next |-> i + 2]
    [] isIdentifierToken(T, i) /\ T[i] \notin aliasStopKeywords /\ ~(T[i] = "as" /\ isIdentifierToken(T, i + 1))
         -> [name |-> T[i], next |-> i + 1]
    [] OTHER -> [name |-> "", next |-> i]

\* a.b.c at i, as far as it goes
readQualifiedIdentifier(T, i) ==
  LET n == Max({k \in 0..Len(T) : \A j \in 1..k : Tok(T, i + 2 * j - 1) = "." /\ isIdentifierToken(T, i + 2 * j)})
  IN IF isIdentifierToken(T, i)
     THEN [identifiers |-> [k \in 1..n + 1 |-> T[i + 2 * k - 2]], next |-> i + 2 * n + 1]
     ELSE [identifiers |-> <<>>, next |-> i]

\* the positions of a token outside parentheses, in tokens i and on
AtTopLevel(T, i, words) == {k \in i..Len(T) : T[k] \in words /\ Nesting(T, i, k) = 0}

----------------------------------------------------------------------------
(* Relations in scope: [name, alias, columns]. *)

\* the table of a path, of the databases that are known; none or one
resolveCatalogTable(path, known) ==
  LET n == Len(path)
      db == IF n = 1 THEN Current ELSE path[n - 1]
  IN IF n > 0 /\ db \in known /\ path[n] \in DOMAIN SchemaOf[db]
     THEN {[name |-> path[n], alias |-> "", columns |-> SchemaOf[db][path[n]]]} ELSE {}

\* Slip: a name is looked up in the schemas before the table expressions
ResolveTablesFirst(path, alias, known, ctes) ==
  LET expressions == {r \in Range(ctes) : path = <<r.name>>}
      tables == resolveCatalogTable(path, known)
  IN {[r EXCEPT !.alias = alias] : r \in IF tables # {} THEN tables ELSE expressions}

resolveRelationFromPath(path, alias, known, ctes) ==
  LET expressions == {r \in Range(ctes) : path = <<r.name>>}
      tables == resolveCatalogTable(path, known)
  IN {[r EXCEPT !.alias = alias] : r \in IF expressions # {} THEN expressions ELSE tables}

\* the relation a name stands for: of those with this name or alias the last one; none or one
Lookup(rs, name) ==
  LET named == {i \in DOMAIN rs : name \in {rs[i].name, rs[i].alias}}
  IN IF name # "" /\ named # {} THEN {rs[Max(named)]} ELSE {}
ColumnsOf(rs) == UNION {r.columns : r \in rs}

\* the column alias of a select item, "" if it has none
readProjectionAlias(item) ==
  LET n == Len(item)
      as == {i \in 1..n - 1 : item[i] = "as" /\ isIdentifierToken(item, i + 1)}
  IN CASE as # {} -> item[Max(as) + 1]
       [] as = {} /\ n > 1 /\ isIdentifierToken(item, n) /\ item[n - 1] \notin {".", "as"} -> item[n]
       [] OTHER -> ""

\* the columns of * or path.*, if the item is one
readWildcardProjection(item, rs) ==
  LET path == readQualifiedIdentifier(item, 1)
      scope == path.identifiers
  IN CASE item = <<"*">> -> ColumnsOf(UNION {Lookup(rs, n) : n \in UNION {{r.name, r.alias} : r \in Range(rs)}})
       [] scope # <<>> /\ Tok(item, path.next) = "." /\ Tok(item, path.next + 1) = "*" ->
            ColumnsOf(Lookup(rs, scope[Len(scope)]))
       [] OTHER -> {}

\* the names of the columns one select item makes: its alias, or its last identifier
ItemColumns(item, rs) ==
  LET words == {i \in DOMAIN item : isIdentifierToken(item, i)}
      Named(alias) == CASE alias # "" -> {alias}
                        [] alias = "" /\ words # {} -> {item[Max(words)]}
                        [] OTHER -> {}
      OrNamed(wildcard) == IF wildcard # {} THEN wildcard ELSE Named(readProjectionAlias(item))
  IN OrNamed(readWildcardProjection(item, rs))

\* the commas outside parentheses split the tokens between select and from
parseProjectionColumns(T, start, rs) ==
  LET selects == AtTopLevel(T, start, {"select"})
      first == Min(selects) + 1
      last == Min({Len(T) + 1} \cup AtTopLevel(T, first, {"from"})) - 1
      items == SubSeq(T, first, last)
      commas == AtTopLevel(items, 1, {","})
      Item(i) == SubSeq(items, i + 1, Min({Len(items) + 1} \cup {c \in commas : c > i}) - 1)
  IN IF selects = {} THEN {} ELSE UNION {ItemColumns(Item(i), rs) : i \in commas \cup {0}}

\* the relation written at i, and the token behind it and its alias; none or one.  Subquery
\* gives the columns that the tokens of a subquery make.
readRelation(T, i, known, ctes, Subquery) ==
  IF Tok(T, i) = "("
  THEN LET sub == readParenthesizedTokens(T, i)
           alias == readAliasToken(T, sub.next)
       IN {[relation |-> [name |-> IF alias.name = "" THEN "subquery" ELSE alias.name, alias |-> alias.name,
                          columns |-> Subquery[sub.inner]],
            next |-> alias.next]}
  ELSE LET path == readQualifiedIdentifier(T, i)
           alias == readAliasToken(T, path.next)
       IN {[relation |-> r, next |-> alias.next] :
             r \in resolveRelationFromPath(path.identifiers, alias.name, known, ctes)}

\* the relations separated by commas at i
RelationList(T, i, known, ctes, Subquery) ==
  LET list[k \in Nat] ==
        LET lists == {IF Tok(T, one.next) # "," THEN [relations |-> <<one.relation>>, next |-> one.next]
                      ELSE [list[one.next + 1] EXCEPT !.relations = <<one.relation>> \o @] :
                        one \in readRelation(T, k, known, ctes, Subquery)}
        IN IF lists = {} THEN [relations |-> <<>>, next |-> k] ELSE CHOOSE l \in lists : TRUE
  IN list[i]

\* every from and join outside parentheses, up to the first keyword that ends the from clause
parseRelations(T, start, known, ctes, Subquery) ==
  LET from[k \in Nat] ==
        LET stops == AtTopLevel(T, k, joinStopKeywords)
            begins == {b \in AtTopLevel(T, k, {"from", "join"}) : \A s \in stops : b < s}
            AndBehind(l) == l.relations \o from[l.next]
        IN IF begins = {} THEN <<>> ELSE AndBehind(RelationList(T, Min(begins) + 1, known, ctes, Subquery))
  IN from[start]

\* the table expressions from token i on, and the token behind them
CteList(T, i, Subquery) ==
  LET list[k \in Nat] ==
        LET columns == IF Tok(T, k + 1) = "(" THEN readIdentifierList(T, k + 1)
                       ELSE [identifiers |-> {}, next |-> k + 1]
            sub == readParenthesizedTokens(T, columns.next + 1)
            cte == [name |-> T[k], alias |-> "",
                    columns |-> IF columns.identifiers # {} THEN columns.identifiers
                                ELSE Subquery[sub.inner]]
        IN CASE ~isIdentifierToken(T, k) \/ Tok(T, columns.next) # "as" \/ Tok(T, columns.next + 1) # "(" ->
                  [ctes |-> <<>>, next |-> k]
             [] Tok(T, sub.next) = "," -> [list[sub.next + 1] EXCEPT !.ctes = <<cte>> \o @]
             [] OTHER -> [ctes |-> <<cte>>, next |-> sub.next]
  IN list[i]
parseCtes(T, Subquery) ==
  IF Tok(T, 1) = "with" THEN CteList(T, 2, Subquery) ELSE [ctes |-> <<>>, next |-> 1]

analyzeSqlTokens(tokens, known, depth) ==
  LET analysis[T \in Seq(STRING), d \in Nat] ==
        LET Subquery == [S \in Seq(STRING) |-> analysis[S, d + 1].projection]
            Selected(with, rs) == [ctes |-> with.ctes, relations |-> rs,
                                   projection |-> parseProjectionColumns(T, with.next, rs)]
            Rest(with) == Selected(with, parseRelations(T, with.next, known, with.ctes, Subquery))
        IN IF d > 4 \/ T = <<>> THEN [ctes |-> <<>>, relations |-> <<>>, projection |-> {}]
           ELSE Rest(parseCtes(T, Subquery))
  IN analysis[tokens, depth]
=============================================================================
