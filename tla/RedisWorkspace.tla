---------------------------- MODULE RedisWorkspace ----------------------------
(***************************************************************************)
(* The Redis workspace (features/redis/RedisWorkspace.tsx): connections in *)
(* tabs, the keys of the database the active tab shows, the detail of one  *)
(* key and what can be done to it.  A handler goes on after an answer with *)
(* the profile, database and key of the moment it was started; only the    *)
(* scan of the keys looks whether it is still the latest.  Which keys a    *)
(* database has is of no concern here, only which database they are of;    *)
(* a call is executed and answered in one step, for nothing on the screen  *)
(* depends on what lies between.                                           *)
(***************************************************************************)
EXTENDS Integers, Sequences, FiniteSets, Ordered

CONSTANTS RedisProfiles,  \* connections that can be saved
          Indexes,        \* databases of a server
          MaxRedisSteps,  \* bound: gestures, windows opened and closed
          MaxRedisCalls   \* bound: handlers waiting at a time

Nobody == 0
Places == RedisProfiles \X Indexes
Nowhere == <<Nobody, 0>>

VARIABLES profiles,    \* the store: profiles and the database each opens
          redis,       \* the screen
          redisCalls,  \* handlers that wait for an answer
          redisSteps,  \* gestures spent
          strayed      \* ghost: tabs, database or key changed under a handler bound to another

redisVars == <<profiles, redis, redisCalls, redisSteps, strayed>>

SeqSet(s) == {s[i] : i \in DOMAIN s}
\* the tabs that are of some profiles
Among(tabs, S) == At(tabs, {i \in DOMAIN tabs : tabs[i] \in S})
Home(p) == profiles[p]
activeProfile(v) == IF v.active \in v.known THEN v.active ELSE Nobody
Here(v) == <<v.active, v.db>>

----------------------------------------------------------------------------
(* The screen. *)

Idle(v, flags) == [v EXCEPT !.busy = @ \ flags]
Working(v, flag) == [v EXCEPT !.busy = @ \cup {flag}]
resetKeyState(v, d) ==
  [v EXCEPT !.scan = @ + 1, !.db = d, !.keys = {}, !.detail = Nowhere,
            !.busy = @ \ {"keys"}]
\* a handler: what it was started for, what it does next and what it releases at its end;
\* some also look at the tabs as they were when it started
Call(op, at) ==
  [op |-> op, at |-> at, scan |-> 0, next |-> "", clears |-> {}, active |-> Nobody, open |-> <<>>,
   dbOf |-> [p \in {} |-> 0]]
Handler(op, at, v) ==
  [Call(op, at) EXCEPT !.active = v.active, !.open = v.open, !.dbOf = v.dbOf]
\* handleScanKeys(true): the list is emptied and its request gets a number of its own
Scanning(v) == [v EXCEPT !.scan = @ + 1, !.busy = @ \cup {"keys"}, !.keys = {},
                         !.detail = Nowhere]
ScanOf(v, at, next, clears) ==
  [Call("scan", at) EXCEPT !.scan = v.scan, !.next = next, !.clears = clears]
\* another tab comes to the front
Fronted(v, p, d) == resetKeyState([v EXCEPT !.active = p], d)

\* handlers that go on with the profile, the database or the key they were started for
Bound(calls) == \E c \in calls : c.op # "scan" \/ c.next # "" \/ "detail" \in c.clears
\* the screen moves away from what such a handler is bound to, or from the keys of a
\* connection that is in front without being in the list, or tabs open or close that such
\* a handler goes on to see as they were
Moves(v) == Here(v) # Here(redis) \/ v.scan # redis.scan
Strays(v, calls) ==
  \/ Bound(calls) /\ (Moves(v) \/ v.open # redis.open)
  \/ v.active # Nobody /\ activeProfile(v) = Nobody /\ Moves(v)

Init ==
  /\ profiles = [p \in RedisProfiles |-> 0]
  /\ redis = [known |-> {}, open |-> <<>>, active |-> Nobody, db |-> 0, dbOf |-> [p \in {} |-> 0],
              scan |-> 0, keys |-> {}, detail |-> Nowhere,
              window |-> "none", form |-> Nobody, busy |-> {"connection"}]
  /\ redisCalls = {[Handler("profiles", Nowhere, redis) EXCEPT !.clears = {"connection"}]}
  /\ redisSteps = 0 /\ strayed = FALSE

----------------------------------------------------------------------------
(* The user.  A dialog covers the rest.                                    *)

Pressed == redisSteps < MaxRedisSteps /\ redisSteps' = redisSteps + 1
Start(v, calls) ==
  /\ Pressed /\ Cardinality(redisCalls \cup calls) <= MaxRedisCalls
  /\ redis' = v /\ redisCalls' = redisCalls \cup calls
  /\ strayed' = (strayed \/ Strays(v, redisCalls))
  /\ UNCHANGED profiles
StartScan(v) == Start(Scanning(v), {ScanOf(Scanning(v), Here(v), "", {})})
Window(from, to) ==
  /\ redis.window \in from /\ Start([redis EXCEPT !.window = to, !.form = Nobody], {})

toggleProfilePicker == "connection" \notin redis.busy /\ Window({"none"}, "picker")
openCreateKeyForm ==
  activeProfile(redis) # Nobody /\ "keys" \notin redis.busy /\ Window({"none"}, "newKey")
CloseWindow == Window({"picker", "form", "newKey"}, "none")
\* 新增连接 and 编辑
openForm(p) ==
  /\ redis.window = "picker" /\ p \in redis.known \cup (RedisProfiles \ DOMAIN profiles)
  /\ Start([redis EXCEPT !.window = "form", !.form = p], {})
handleTestConnection ==
  /\ redis.window = "form" /\ "form" \notin redis.busy
  /\ Start(Working(redis, "form"),
           {[Call("test", <<redis.form, 0>>) EXCEPT !.clears = {"form"}]})
handleSaveConnection(d) ==
  /\ redis.window = "form" /\ "form" \notin redis.busy
  /\ Start(Working(redis, "form"), {Handler("save", <<redis.form, d>>, redis)})
\* a group is added, renamed or removed
ChangeGroups ==
  /\ redis.window = "picker" /\ "group" \notin redis.busy
  /\ Start(Working(redis, "group"), {Handler("group", Here(redis), redis)})

\* an open tab remembers its database
handleActivateProfileTab(v, p) == Fronted(v, p, v.dbOf[p])
ActivateTab(p) ==
  /\ redis.window = "none" /\ p \in SeqSet(redis.open) \ {redis.active} /\ p \in redis.known
  /\ StartScan(handleActivateProfileTab(redis, p))
handleOpenProfileTab(p) ==
  /\ redis.window = "picker" /\ p \in redis.known /\ "connection" \notin redis.busy
  /\ IF p \notin SeqSet(redis.open)
     THEN Start(Working(redis, "connection"),
                {[Call("connect", <<p, 0>>) EXCEPT !.clears = {"connection"}]})
     ELSE /\ p # redis.active
          /\ StartScan([handleActivateProfileTab(redis, p) EXCEPT !.window = "none"])
handleCloseProfileTab(p) ==
  /\ redis.window = "none" /\ p \in SeqSet(redis.open) /\ "connection" \notin redis.busy
  /\ Start(Working(redis, "connection"),
           {[Handler("disconnect", <<p, 0>>, redis) EXCEPT !.clears = {"connection"}]})
handleDeleteConnection(p) ==
  /\ redis.window = "picker" /\ p \in redis.known /\ "connection" \notin redis.busy
  /\ Start(Working(redis, "connection"),
           {IF p \in SeqSet(redis.open)
            THEN [Handler("disconnect", <<p, 0>>, redis) EXCEPT !.next = "delete"]
            ELSE Handler("delete", <<p, 0>>, redis)})

RefreshKeys ==
  /\ redis.window = "none" /\ activeProfile(redis) # Nobody /\ "keys" \notin redis.busy
  /\ StartScan(redis)
SelectDb(d) ==
  /\ redis.window = "none" /\ d # redis.db
  /\ IF activeProfile(redis) = Nobody THEN Start([redis EXCEPT !.db = d], {})
     ELSE StartScan([redis EXCEPT !.db = d, !.dbOf = [@ EXCEPT ![redis.active] = d]])
DetailOf(at, clears) ==
  [Call("detail", at) EXCEPT !.clears = clears \cup {"detail"}]
loadDetail ==
  /\ redis.window = "none" /\ activeProfile(redis) # Nobody /\ redis.keys # {}
  /\ Start(Working(redis, "detail"), {DetailOf(Here(redis), {})})
\* value, field and TTL ("edit"), name, or the key itself: always the key of the detail
Mutate(op) ==
  /\ redis.window = "none" /\ redis.detail # Nowhere /\ "detail" \notin redis.busy
  /\ activeProfile(redis) # Nobody
  /\ Start(Working(redis, "detail"), {Call(op, Here(redis))})
handleCreateStringKey ==
  /\ redis.window = "newKey" /\ "newKey" \notin redis.busy /\ activeProfile(redis) # Nobody
  /\ \E ttl \in {"", "ttl"} :
       Start(Working(redis, "newKey"), {[Call("create", Here(redis)) EXCEPT !.next = ttl]})

----------------------------------------------------------------------------
(* Calls and their answers. *)

\* what the service may answer: the profiles after it, whether it did what it was asked,
\* what it returns, and whether a scan has more to come
Outcome(saved, ok, got, more) == [profiles |-> saved, ok |-> ok, got |-> got, more |-> more]
Outcomes(c) ==
  LET p == c.at[1]
      Ok(got, more) == Outcome(profiles, TRUE, got, more)
  IN {Outcome(profiles, FALSE, {}, FALSE)} \cup
     CASE c.op = "save" -> {Outcome([q \in DOMAIN profiles \cup {p} |-> IF q = p THEN c.at[2] ELSE profiles[q]],
                                    TRUE, {}, FALSE)}
       [] c.op = "delete" -> {Outcome([q \in DOMAIN profiles \ {p} |-> profiles[q]], TRUE, {}, FALSE)}
       [] c.op \in {"profiles", "test", "group", "disconnect"} -> {Ok(DOMAIN profiles, FALSE)}
       [] OTHER -> IF p \notin DOMAIN profiles THEN {}
                   ELSE IF c.op = "scan" THEN {Ok({}, FALSE), Ok({c.at}, FALSE), Ok({c.at}, TRUE)}
                   ELSE {Ok({Home(p)}, FALSE)}

\* the screen becomes v, and the handler goes on with other calls or ends
GoOn(c, v, calls) ==
  /\ redis' = v /\ redisCalls' = (redisCalls \ {c}) \cup calls
  /\ strayed' = (strayed \/ Strays(v, redisCalls \ {c}))
  /\ UNCHANGED redisSteps
GoOnScanning(c, v, at, next, clears) ==
  GoOn(c, Scanning(v), {ScanOf(Scanning(v), at, next, clears)})
Ends(c, v) == GoOn(c, Idle(v, c.clears), {})

\* Slip: every scan believes to be the latest
IsLatestAlways(v, c) == TRUE
IsLatest(v, c) == v.scan = c.scan

\* the scan is over: finished, failed, or overtaken by another
AfterScan(c, v) ==
  LET idle == IF IsLatest(v, c) THEN Idle(v, {"keys"}) ELSE v
  IN \/ c.next = "" /\ Ends(c, idle)
     \/ c.next = "delete" /\ GoOn(c, idle, {[Handler("delete", <<c.open[1], 0>>, idle) EXCEPT !.active = c.active]})
     \/ /\ c.next = "detail"
        /\ GoOn(c, Working(idle, "detail"), {DetailOf(c.at, c.clears)})
ScanAnswer(c, r) ==
  /\ c.op = "scan"
  /\ LET shown == [redis EXCEPT !.keys = @ \cup r.got]
     IN IF ~IsLatest(redis, c) \/ ~r.ok THEN AfterScan(c, redis)
        ELSE IF r.more THEN GoOn(c, shown, {c}) ELSE AfterScan(c, shown)

\* the list of profiles: tabs of profiles that are gone close
ProfilesAnswer(c, r) ==
  /\ c.op = "profiles"
  /\ LET taken == [redis EXCEPT !.known = r.got, !.open = Among(@, r.got)]
         v == IF ~r.ok THEN redis
              ELSE IF c.active \in r.got THEN taken ELSE Fronted(taken, Nobody, 0)
         idle == Idle(v, {"connection"})
         p == c.at[1]
     IN \/ c.next = "" /\ Ends(c, idle)
        \/ /\ c.next = "saved" /\ p \in SeqSet(c.open)
           /\ GoOnScanning(c, [Fronted(idle, p, c.at[2]) EXCEPT !.window = "none", !.form = Nobody,
                !.dbOf = [q \in DOMAIN @ \cup {p} |-> IF q = p THEN c.at[2] ELSE @[q]]], c.at, "", {"form"})
        \/ /\ c.next = "saved" /\ p \notin SeqSet(c.open)
           /\ GoOn(c, [Working(idle, "connection") EXCEPT !.window = "none", !.form = Nobody],
                   {[Call("connect", c.at) EXCEPT !.clears = {"connection", "form"}]})

ConnectAnswer(c, r) ==
  /\ c.op = "connect"
  /\ \/ ~r.ok /\ Ends(c, redis)
     \/ /\ r.ok
        /\ \E d \in r.got :
             GoOnScanning(c, [redis EXCEPT !.active = c.at[1], !.db = d,
               !.open = IF c.at[1] \in SeqSet(@) THEN @ ELSE Append(@, c.at[1]),
               !.dbOf = [q \in DOMAIN @ \cup {c.at[1]} |-> IF q = c.at[1] THEN d ELSE @[q]],
               !.window = IF @ = "picker" THEN "none" ELSE @], <<c.at[1], d>>, "", c.clears)

\* the tab closes; if it was in front, its neighbour takes its place
DisconnectAnswer(c, r) ==
  /\ c.op = "disconnect"
  /\ LET p == c.at[1]
         rest == Among(c.open, SeqSet(c.open) \ {p})
         v == [redis EXCEPT !.open = rest]
         \* closed: the tab that moves up; deleted: the first one
         at == CHOOSE i \in DOMAIN c.open : c.open[i] = p
         next == rest[IF c.next = "delete" THEN 1 ELSE IF at > Len(rest) THEN Len(rest) ELSE at]
         home == c.dbOf[next]
         then == [Handler("delete", c.at, v) EXCEPT !.active = c.active]
     IN \/ ~r.ok /\ Ends(c, Idle(redis, {"connection"}))
        \/ /\ r.ok /\ c.active = p /\ rest # <<>>
           /\ GoOn(c, Scanning(Fronted(v, next, home)),
                   {[ScanOf(Scanning(Fronted(v, next, home)), <<next, home>>, c.next, c.clears)
                     EXCEPT !.open = <<p>>, !.active = c.active]})
        \/ /\ r.ok /\ (c.active # p \/ rest = <<>>)
           /\ LET shown == IF c.active = p THEN Fronted(v, Nobody, 0) ELSE v
              IN IF c.next = "delete" THEN GoOn(c, shown, {then}) ELSE Ends(c, shown)

Simple(c, r) ==
  \/ c.op = "test" /\ Ends(c, redis)
  \/ /\ c.op \in {"save", "group", "delete"} /\ ~r.ok
     /\ GoOn(c, Idle(redis, {IF c.op = "save" THEN "form" ELSE IF c.op = "group" THEN "group" ELSE "connection"}), {})
  \/ /\ c.op \in {"save", "group", "delete"} /\ r.ok
     /\ GoOn(c, Working(redis, "connection"),
             {[c EXCEPT !.op = "profiles", !.next = IF c.op = "save" THEN "saved" ELSE "",
                        !.clears = IF c.op = "group" THEN {"group"} ELSE {}]})

DetailAnswer(c, r) ==
  /\ c.op = "detail"
  /\ Ends(c, IF r.ok THEN [redis EXCEPT !.detail = c.at] ELSE redis)
\* edited: the detail is read again; renamed or removed: the keys are
MutationAnswer(c, r) ==
  /\ c.op \in {"edit", "rename", "remove"}
  /\ \/ ~r.ok /\ GoOn(c, Idle(redis, {"detail"}), {})
     \/ r.ok /\ c.op = "edit" /\ GoOn(c, Working(redis, "detail"), {DetailOf(c.at, {})})
     \/ r.ok /\ c.op # "edit" /\ GoOnScanning(c, redis, c.at, "", {"detail"})
\* a time to live is a call of its own: when it fails the key is there, and not listed
CreateAnswer(c, r) ==
  /\ c.op = "create"
  /\ \/ ~r.ok /\ GoOn(c, Idle(redis, {"newKey"}), {})
     \/ r.ok /\ c.next = "ttl" /\ GoOn(c, redis, {[c EXCEPT !.next = ""]})
     \/ /\ r.ok /\ c.next = ""
        /\ GoOnScanning(c, [redis EXCEPT !.window = "none"], c.at, "detail", {"newKey"})

Answer(c) ==
  \E r \in Outcomes(c) :
  /\ profiles' = r.profiles
  /\ \/ ScanAnswer(c, r) \/ ProfilesAnswer(c, r) \/ ConnectAnswer(c, r) \/ DisconnectAnswer(c, r)
     \/ Simple(c, r) \/ DetailAnswer(c, r) \/ MutationAnswer(c, r) \/ CreateAnswer(c, r)

Next ==
  \/ toggleProfilePicker \/ openCreateKeyForm \/ CloseWindow
  \/ handleTestConnection \/ ChangeGroups \/ RefreshKeys
  \/ \E p \in RedisProfiles : \/ openForm(p) \/ ActivateTab(p) \/ handleOpenProfileTab(p)
                              \/ handleCloseProfileTab(p) \/ handleDeleteConnection(p)
  \/ \E d \in Indexes : SelectDb(d) \/ handleSaveConnection(d)
  \/ loadDetail \/ handleCreateStringKey
  \/ \E op \in {"edit", "rename", "remove"} : Mutate(op)
  \/ \E c \in redisCalls : Answer(c)

\* requests are executed or refused, and answers are handled
Fairness == WF_redisVars(\E c \in redisCalls : Answer(c))

Spec == Init /\ [][Next]_redisVars /\ Fairness

----------------------------------------------------------------------------
\* Type invariant: tabs, keys and detail are of profiles and databases there can be.
RedisTypeOK ==
  /\ DOMAIN profiles \subseteq RedisProfiles /\ SeqSet(redis.open) \subseteq RedisProfiles
  /\ redis.keys \subseteq Places /\ redis.detail \in Places \cup {Nowhere}
  /\ redis.busy \subseteq {"connection", "keys", "detail", "form", "newKey", "group"}

\* The keys listed, and the key whose detail can be edited and removed, are of the database
\* of the tab in front, which is open, whatever scans are still under way, however tabs and
\* databases follow each other, and whichever requests fail.  Left out is what happens once
\* the user has gone to another tab or database, or opened or closed a tab, while another
\* handler than a scan was waiting (they go on without a look at where the user is), or has
\* chosen a database for a connection that the list of connections lacks.
KeysAreOfTheTab ==
  ~strayed =>
    /\ redis.active \in SeqSet(redis.open) \cup {Nobody}
    /\ redis.keys \subseteq {Here(redis)} /\ redis.detail \in {Nowhere, Here(redis)}

\* Something of the workspace is loading, saving or connecting.
RedisBusy == redis.busy # {}
=============================================================================
