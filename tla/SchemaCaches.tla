------------------------------ MODULE SchemaCaches ------------------------------
(***************************************************************************)
(* The table lists and completion metadata the navigation tree and the SQL *)
(* consoles of one data source cache, their loads, and what a console's    *)
(* own DDL does to them (useWorkspaceNavigationState.ts and the metadata   *)
(* refresh of useTableWorkspaceDomain.ts).                                 *)
(*                                                                         *)
(* What a load reads is the version of the database's schema at the time   *)
(* the server executes it.  A call that only joins a registered load, or   *)
(* is answered from a cache, changes nothing and is no action.             *)
(***************************************************************************)
EXTENDS Integers, FiniteSets, FiniteSetsExt

CONSTANTS Databases,    \* the databases of the data source, numbered in tree order
          MaxDdl,       \* bound: statements that change a schema
          MaxLoads,     \* bound: loads on their way at a time
          MaxRequests   \* bound: what the user asks of tree, search and consoles

VARIABLES schema,         \* the server: database -> version of its tables
          listed,         \* the database list of the data source is loaded
          tables,         \* tablesByDatabase: a version, or Absent
          completion,     \* sqlAutocompleteCacheByDatabase: likewise
          expired,        \* databases whose completion entry is older than its TTL
          tableRef,       \* tableLoadRequestsRef: the registered load, or NoLoad
          completionRef,  \* sqlAutocompleteRequestsRef
          nodeLoading,    \* databases the tree shows as loading
          loads,          \* loads on their way
          statements,     \* console DDL on its way
          warm,           \* the effect that loads table lists for the search
          asks,           \* user requests spent
          own,            \* ghost: version the last answered own DDL made
          overtaken,      \* ghost: an answer read before an own DDL came after it
          failed          \* ghost: databases whose last table load failed

cacheVars == <<schema, listed, tables, completion, expired, tableRef, completionRef,
               nodeLoading, loads, statements, warm, asks, own, overtaken, failed>>

Absent == -1
NoLoad == 0
NotRead == -1
Ask == asks < MaxRequests /\ asks' = asks + 1

\* buildDatabaseKey never confuses two databases, so a database stands for its key
FreshLoads == {n \in 1..MaxLoads : \A l \in loads : l.n # n}
Load(n, kind, d) == [n |-> n, kind |-> kind, db |-> d, read |-> NotRead]

Init ==
  /\ schema = [d \in Databases |-> 0] /\ listed = FALSE
  /\ tables = [d \in Databases |-> Absent] /\ completion = [d \in Databases |-> Absent]
  /\ expired = {} /\ nodeLoading = {} /\ loads = {} /\ statements = {}
  /\ tableRef = [d \in Databases |-> NoLoad] /\ completionRef = [d \in Databases |-> NoLoad]
  /\ warm = [on |-> FALSE, due |-> FALSE, todo |-> {}, waiting |-> NoLoad]
  /\ asks = 0 /\ own = [d \in Databases |-> 0] /\ overtaken = {} /\ failed = {}

----------------------------------------------------------------------------
(* Loads. *)

\* the load of a table list: the node shows it, and it takes the registered one's place
RequestTables(d, n) ==
  /\ n \in FreshLoads
  /\ loads' = loads \cup {Load(n, "tables", d)}
  /\ tableRef' = [tableRef EXCEPT ![d] = n] /\ nodeLoading' = nodeLoading \cup {d}

\* expanding a database, or opening one of its tables, without force
ensureTablesLoaded(d) ==
  /\ listed /\ tables[d] = Absent /\ tableRef[d] = NoLoad /\ Ask
  /\ \E n \in FreshLoads : RequestTables(d, n)
  /\ UNCHANGED <<schema, listed, tables, completion, expired, completionRef, statements, warm,
                 own, overtaken, failed>>

\* the refresh button on a database or table: force ignores cache and registered load
RefreshTables(d) ==
  /\ listed /\ Ask
  /\ \E n \in FreshLoads : RequestTables(d, n)
  /\ UNCHANGED <<schema, listed, tables, completion, expired, completionRef, statements, warm,
                 own, overtaken, failed>>

\* without force: an absent entry is loaded, an expired one is used and loaded anew
ensureSqlAutocompleteLoaded(d) ==
  /\ completionRef[d] = NoLoad /\ (completion[d] = Absent \/ d \in expired) /\ Ask
  /\ \E n \in FreshLoads : /\ loads' = loads \cup {Load(n, "completion", d)}
                           /\ completionRef' = [completionRef EXCEPT ![d] = n]
  /\ UNCHANGED <<schema, listed, tables, completion, expired, tableRef, nodeLoading, statements,
                 warm, own, overtaken, failed>>

\* the server executes a load
ServeLoad(l) ==
  /\ l.read = NotRead
  /\ loads' = (loads \ {l}) \cup {[l EXCEPT !.read = schema[l.db]]}
  /\ UNCHANGED <<schema, listed, tables, completion, expired, tableRef, completionRef, nodeLoading,
                 statements, warm, asks, own, overtaken, failed>>

\* Slip: only the load that is registered is unregistered, and only if it succeeds
TablesAnswerKeepsFailed(l, ok) ==
  /\ l.kind = "tables" /\ l.read # NotRead
  /\ loads' = loads \ {l} /\ nodeLoading' = nodeLoading \ {l.db}
  /\ tableRef' = IF ok THEN [tableRef EXCEPT ![l.db] = NoLoad] ELSE tableRef
  /\ IF ok THEN /\ tables' = [tables EXCEPT ![l.db] = l.read]
                /\ warm' = [warm EXCEPT !.due = TRUE] /\ failed' = failed \ {l.db}
           ELSE failed' = failed \cup {l.db} /\ UNCHANGED <<tables, warm>>
  /\ UNCHANGED <<schema, listed, completion, expired, completionRef, statements, asks, own, overtaken>>

\* the answer of listDatabaseTables: whatever is registered for the database is unregistered
TablesAnswer(l, ok) ==
  /\ l.kind = "tables" /\ l.read # NotRead
  /\ loads' = loads \ {l} /\ nodeLoading' = nodeLoading \ {l.db}
  /\ tableRef' = [tableRef EXCEPT ![l.db] = NoLoad]
  /\ IF ok THEN /\ tables' = [tables EXCEPT ![l.db] = l.read]
                /\ warm' = [warm EXCEPT !.due = TRUE] /\ failed' = failed \ {l.db}
           ELSE failed' = failed \cup {l.db} /\ UNCHANGED <<tables, warm>>
  /\ UNCHANGED <<schema, listed, completion, expired, completionRef, statements, asks, own, overtaken>>

\* the answer of loadSqlAutocomplete; the entry is as old as its arrival
CompletionAnswer(l, ok) ==
  /\ l.kind = "completion" /\ l.read # NotRead
  /\ loads' = loads \ {l} /\ completionRef' = [completionRef EXCEPT ![l.db] = NoLoad]
  /\ IF ok THEN completion' = [completion EXCEPT ![l.db] = l.read] /\ expired' = expired \ {l.db}
           ELSE UNCHANGED <<completion, expired>>
  /\ UNCHANGED <<schema, listed, tables, tableRef, nodeLoading, statements, warm, asks, own,
                 overtaken, failed>>

\* five minutes pass for an entry, and the interval that drops what has expired
Expire(d) ==
  /\ completion[d] # Absent /\ d \notin expired /\ Ask /\ expired' = expired \cup {d}
  /\ UNCHANGED <<schema, listed, tables, completion, tableRef, completionRef, nodeLoading, loads,
                 statements, warm, own, overtaken, failed>>
DropExpired ==
  /\ expired # {} /\ expired' = {}
  /\ completion' = [d \in Databases |-> IF d \in expired THEN Absent ELSE completion[d]]
  /\ UNCHANGED <<schema, listed, tables, tableRef, completionRef, nodeLoading, loads, statements,
                 warm, asks, own, overtaken, failed>>

----------------------------------------------------------------------------
(* Invalidation. *)

\* clearTablesCache and clearSqlAutocompleteCache: entries and registrations go, loads go on
clearTablesCache(S) ==
  /\ tables' = [d \in Databases |-> IF d \in S THEN Absent ELSE tables[d]]
  /\ warm' = [warm EXCEPT !.due = TRUE]
clearSqlAutocompleteCache(S) ==
  /\ completion' = [d \in Databases |-> IF d \in S THEN Absent ELSE completion[d]]
  /\ expired' = expired \ S
Unregistered(ref, S) == [d \in Databases |-> IF d \in S THEN NoLoad ELSE ref[d]]

\* clearProfileCaches, as saving or deleting the data source does; the database list goes too
clearProfileCaches ==
  /\ clearTablesCache(Databases) /\ clearSqlAutocompleteCache(Databases) /\ listed' = FALSE
  /\ tableRef' = Unregistered(tableRef, Databases)
  /\ completionRef' = Unregistered(completionRef, Databases)
  /\ UNCHANGED <<nodeLoading, loads>>

ProfileSaved ==
  /\ listed /\ Ask /\ clearProfileCaches
  /\ UNCHANGED <<schema, statements, own, overtaken, failed>>

\* the list of databases arrives
ListLoaded ==
  /\ ~listed /\ listed' = TRUE /\ warm' = [warm EXCEPT !.due = TRUE]
  /\ UNCHANGED <<schema, tables, completion, expired, tableRef, completionRef, nodeLoading, loads,
                 statements, asks, own, overtaken, failed>>

\* a console runs DDL on a database's tables, or on the database itself
RunDdl(d, kind) ==
  /\ Ask /\ statements' = statements \cup {[db |-> d, kind |-> kind, version |-> NotRead]}
  /\ \A s \in statements : s.db # d
  /\ UNCHANGED <<schema, listed, tables, completion, expired, tableRef, completionRef, nodeLoading,
                 loads, warm, own, overtaken, failed>>
ServeDdl(s) ==
  /\ s.version = NotRead /\ schema[s.db] < MaxDdl
  /\ schema' = [schema EXCEPT ![s.db] = @ + 1]
  /\ statements' = (statements \ {s}) \cup {[s EXCEPT !.version = schema[s.db] + 1]}
  /\ UNCHANGED <<listed, tables, completion, expired, tableRef, completionRef, nodeLoading, loads,
                 warm, asks, own, overtaken, failed>>

\* what the answer of a statement makes of the ghosts
Remembered(s) ==
  /\ own' = [own EXCEPT ![s.db] = s.version]
  /\ overtaken' = IF \E l \in loads : l.db = s.db /\ l.read \in 0..(s.version - 1)
                  THEN overtaken \cup {s.db} ELSE overtaken

\* Slip: the completion metadata is left to its TTL
DdlAnswerTablesOnly(s) ==
  /\ s.version # NotRead /\ statements' = statements \ {s} /\ Remembered(s)
  /\ IF s.kind = "database" THEN clearProfileCaches
     ELSE \E n \in FreshLoads : /\ clearTablesCache({s.db}) /\ RequestTables(s.db, n)
                                /\ UNCHANGED <<listed, completion, expired, completionRef>>
  /\ UNCHANGED <<schema, asks, failed>>

\* refreshMetadataCachesAfterSqlMutation: what the statement affects is forgotten and,
\* by force, loaded again
DdlAnswer(s) ==
  /\ s.version # NotRead /\ statements' = statements \ {s} /\ Remembered(s)
  /\ IF s.kind = "database" THEN clearProfileCaches
     ELSE \E m, n \in FreshLoads :
            /\ m # n /\ clearTablesCache({s.db}) /\ clearSqlAutocompleteCache({s.db})
            /\ loads' = loads \cup {Load(m, "tables", s.db), Load(n, "completion", s.db)}
            /\ tableRef' = [tableRef EXCEPT ![s.db] = m] /\ nodeLoading' = nodeLoading \cup {s.db}
            /\ completionRef' = [completionRef EXCEPT ![s.db] = n]
            /\ UNCHANGED listed
  /\ UNCHANGED <<schema, asks, failed>>

----------------------------------------------------------------------------
(* The navigation search loads the table lists of every database, one after *)
(* the other; a change of what it depends on cancels it and starts it anew. *)

SetSearch(on) ==
  /\ on # warm.on /\ Ask /\ warm' = [warm EXCEPT !.on = on, !.due = TRUE]
  /\ UNCHANGED <<schema, listed, tables, completion, expired, tableRef, completionRef, nodeLoading,
                 loads, statements, own, overtaken, failed>>

WarmStart ==
  /\ warm.due
  /\ warm' = [warm EXCEPT !.due = FALSE, !.waiting = NoLoad,
                          !.todo = IF warm.on /\ listed THEN Databases ELSE {}]
  /\ UNCHANGED <<schema, listed, tables, completion, expired, tableRef, completionRef, nodeLoading,
                 loads, statements, asks, own, overtaken, failed>>

\* Slip: the loop gives up at a database that is being loaded
WarmNextStops ==
  /\ ~warm.due /\ warm.todo # {} /\ \A l \in loads : l.n # warm.waiting
  /\ LET d == Min(warm.todo) IN
       IF tables[d] # Absent \/ tableRef[d] # NoLoad
       THEN warm' = [warm EXCEPT !.todo = {}, !.waiting = NoLoad]
            /\ UNCHANGED <<loads, tableRef, nodeLoading>>
       ELSE \E n \in FreshLoads : /\ RequestTables(d, n)
                                  /\ warm' = [warm EXCEPT !.todo = @ \ {d}, !.waiting = n]
  /\ UNCHANGED <<schema, listed, tables, completion, expired, completionRef, statements, asks, own,
                 overtaken, failed>>

\* one turn of the loop: databases loaded or being loaded are passed over
WarmNext ==
  /\ ~warm.due /\ warm.todo # {} /\ \A l \in loads : l.n # warm.waiting
  /\ LET d == Min(warm.todo) IN
       IF tables[d] # Absent \/ tableRef[d] # NoLoad
       THEN warm' = [warm EXCEPT !.todo = @ \ {d}, !.waiting = NoLoad]
            /\ UNCHANGED <<loads, tableRef, nodeLoading>>
       ELSE \E n \in FreshLoads : /\ RequestTables(d, n)
                                  /\ warm' = [warm EXCEPT !.todo = @ \ {d}, !.waiting = n]
  /\ UNCHANGED <<schema, listed, tables, completion, expired, completionRef, statements, asks, own,
                 overtaken, failed>>

----------------------------------------------------------------------------
LoadStep(n) == \E l \in loads : l.n = n /\ (ServeLoad(l) \/ \E ok \in BOOLEAN : TablesAnswer(l, ok)
                                                                          \/ CompletionAnswer(l, ok))
WarmStep == WarmStart \/ WarmNext

Next ==
  \/ \E d \in Databases : \/ ensureTablesLoaded(d) \/ RefreshTables(d) \/ Expire(d)
                          \/ ensureSqlAutocompleteLoaded(d)
                          \/ \E kind \in {"table", "database"} : RunDdl(d, kind)
  \/ \E s \in statements : ServeDdl(s) \/ DdlAnswer(s)
  \/ ProfileSaved \/ ListLoaded \/ DropExpired
  \/ \E on \in BOOLEAN : SetSearch(on)
  \/ \E n \in 1..MaxLoads : LoadStep(n)
  \/ WarmStep

\* loads are executed and answered, and effects run
Fairness == WF_cacheVars((\E n \in 1..MaxLoads : LoadStep(n)) \/ WarmStep)
Spec == Init /\ [][Next]_cacheVars /\ Fairness

----------------------------------------------------------------------------
Versions == 0..MaxDdl

\* Type invariant: caches hold versions the server has had.
CacheTypeOK ==
  /\ schema \in [Databases -> Versions] /\ own \in [Databases -> Versions]
  /\ tables \in [Databases -> Versions \cup {Absent}]
  /\ completion \in [Databases -> Versions \cup {Absent}]
  /\ \A l \in loads : l.n \in 1..MaxLoads /\ l.read <= schema[l.db]

\* A registered load is on its way (a caller that joins it gets an answer, and the
\* database can be loaded again): every end of a load and every clearing unregisters.
RegisteredIsOnItsWay ==
  \A d \in Databases :
    /\ tableRef[d] # NoLoad =>
         \E l \in loads : l.n = tableRef[d] /\ l.kind = "tables" /\ l.db = d
    /\ completionRef[d] # NoLoad =>
         \E l \in loads : l.n = completionRef[d] /\ l.kind = "completion" /\ l.db = d

ReadSince(d) == /\ tables[d] # Absent => tables[d] >= own[d]
                /\ completion[d] # Absent => completion[d] >= own[d]

\* Once its DDL has been answered and its loads are done, the tree and the completion
\* do not show the schema from before it: the comment at useTableWorkspaceDomain.ts:1653.
\* A load read before the statement and answered after its refresh breaks it.
CachesFollowOwnDdl == loads = {} => \A d \in Databases : ReadSince(d)

\* The same where no older answer is on its way when the statement is answered: then no
\* later interleaving of loads, clearings, expiry and search brings the old schema back.
CachesFollowUnlessOvertaken ==
  \A d \in Databases \ overtaken :
    ReadSince(d) /\ \A l \in loads : l.db = d /\ l.read # NotRead => l.read >= own[d]

\* When the search's loop has ended and nothing is loading, every database's tables are
\* there to be searched or their load failed: cancelled loops leave none out.
SearchSeesEveryDatabase ==
  (warm.on /\ listed /\ ~warm.due /\ warm.todo = {} /\ loads = {}) =>
     \A d \in Databases : tables[d] # Absent \/ d \in failed

\* A node shows it is loading, or the search is about to load or loading.
CachesBusy == nodeLoading # {} \/ warm.due \/ warm.todo # {}
=============================================================================
