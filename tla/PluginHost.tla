----------------------------- MODULE PluginHost -----------------------------
(***************************************************************************)
(* Plugins: the host in the desktop process (plugin_host.rs) with the      *)
(* backends it starts, and the part of the window that installs, lists and *)
(* opens plugins (App.tsx, PluginManagerModal.tsx, PluginWorkspace.tsx).   *)
(*                                                                         *)
(* plugins_install_from_disk, plugins_uninstall, plugins_list_installed    *)
(* and plugins_read_frontend_entry are synchronous commands: they run one  *)
(* after the other on the main thread.  plugins_backend_rpc is             *)
(* asynchronous and runs between and during them.  A backend answers each  *)
(* line of its input by one line, may exit at any time, and exits when its *)
(* input is closed, which happens when nothing holds its runtime any more. *)
(*                                                                         *)
(* Every plugin has two versions: 1, and 2 that its package installs.      *)
(***************************************************************************)
EXTENDS Integers, Sequences, FiniteSets

CONSTANTS Plugins,           \* plugin ids, positive integers
          Packages,          \* plugins the user has a package of
          MaxProcesses,      \* bound: backends at a time
          MaxRpcs,           \* bound: calls of backends under way
          MaxHostEvents      \* bound: gestures of the user, requests of pages, crashes of backends

VARIABLES disk,              \* plugin -> version installed, 0: none
          processes,         \* backends, as the host knows them and with their pipes
          registry,          \* plugin -> its registered backend, 0: none
          rpcs,              \* calls of backend_rpc under way
          shell,             \* the window: plugins listed, workspace in front and its page
          commands,          \* synchronous commands, in the order they were invoked
          hostEvents,
          lateStarts         \* ghost: plugins whose backend was started while it was stopped

hostVars == <<disk, processes, registry, rpcs, shell, commands, hostEvents, lateStarts>>

Versions == 0..2
Process(p, v, state, input, output) ==
  [plugin |-> p, version |-> v, state |-> state, input |-> input, output |-> output]
Nobody == Process(0, 0, "none", <<>>, <<>>)
Blank == [plugin |-> 0, version |-> 0]

\* a gesture of the user, a request of a plugin's page or the crash of a backend
Happens == hostEvents < MaxHostEvents /\ hostEvents' = hostEvents + 1

----------------------------------------------------------------------------
(* Calls of a backend. *)

Held(n, reg, calls) == (\E p \in Plugins : reg[p] = n) \/ (\E c \in calls : c.process = n)

\* a runtime that nothing holds is dropped; nobody asks for the status of its process again
Dropped(procs, reg, calls) ==
  [n \in DOMAIN procs |-> IF procs[n].state = "exited" /\ ~Held(n, reg, calls) THEN Nobody
                          ELSE procs[n]]

Gone(c) == /\ rpcs' = rpcs \ {c}
           /\ processes' = Dropped(processes, registry, rpcs \ {c})
At(c, pc, n) == [id |-> c.id, plugin |-> c.plugin, pc |-> pc, process |-> n]
Moved(c, pc, n) == rpcs' = (rpcs \ {c}) \cup {At(c, pc, n)}

\* a backend's state and pipes change
Becomes(n, state, input, output) ==
  [processes EXCEPT ![n] = Process(@.plugin, @.version, state, input, output)]

\* The registered backend serves the call, or else one is started, if there is a manifest and
\* the process can be started.
ensure_runtime(c) ==
  \/ /\ registry[c.plugin] # 0
     /\ rpcs' = rpcs \cup {At(c, "queued", registry[c.plugin])}
     /\ UNCHANGED processes
  \/ /\ registry[c.plugin] = 0 /\ disk[c.plugin] # 0
     /\ \E n \in DOMAIN processes :
          /\ processes[n] = Nobody
          /\ processes' = [processes EXCEPT ![n] =
               Process(c.plugin, disk[c.plugin], "running", <<>>, <<>>)]
          /\ rpcs' = rpcs \cup {At(c, "registering", n)}
  \/ registry[c.plugin] = 0 /\ UNCHANGED <<rpcs, processes>>

\* Two calls may both have started a backend: the first that is registered serves both.
Registered(p, n) == IF registry[p] = 0 THEN n ELSE registry[p]

Stopping(p) == \E i \in DOMAIN commands : commands[i].plugin = p /\ commands[i].state = "stopped"

Register(c) ==
  LET n == Registered(c.plugin, c.process)
  IN /\ c.pc = "registering"
     /\ registry' = [registry EXCEPT ![c.plugin] = n]
     /\ Moved(c, "queued", n)
     /\ processes' = Dropped(processes, registry', rpcs')
     /\ lateStarts' = IF Stopping(c.plugin) THEN lateStarts \cup {c.plugin} ELSE lateStarts
     /\ UNCHANGED <<disk, shell, commands, hostEvents>>

\* The runtime is locked from the check of the process to the end of the answer.
Locked(n) == \E c \in rpcs : c.process = n /\ c.pc = "reading"
LockableAnyTime(n) == TRUE
Lockable(n) == ~Locked(n)

\* A backend found to have exited stays registered: the call fails, and those after it.  One
\* that is exiting may still take the line.
Ask(c) ==
  LET b == processes[c.process]
  IN /\ c.pc = "queued" /\ Lockable(c.process)
     /\ \/ b.state # "running" /\ Gone(c)
        \/ /\ b.state # "exited"
           /\ Moved(c, "reading", c.process)
           /\ processes' = Becomes(c.process, b.state, Append(b.input, c.id), b.output)
     /\ UNCHANGED <<disk, registry, shell, commands, hostEvents, lateStarts>>

\* The answer is read; an answer to another call makes this one fail.
ReadAnswer(c) ==
  /\ c.pc = "reading" /\ processes[c.process].output # <<>>
  /\ rpcs' = rpcs \ {c}
  /\ LET b == processes[c.process]
     IN processes' = Dropped(Becomes(c.process, b.state, b.input, Tail(b.output)), registry, rpcs')
  /\ UNCHANGED <<disk, registry, shell, commands, hostEvents, lateStarts>>

\* The backend has exited without an answer: whatever is registered for the plugin is dropped.
ReadEnd(c) ==
  /\ c.pc = "reading" /\ processes[c.process].state = "exited"
  /\ processes[c.process].output = <<>>
  /\ rpcs' = rpcs \ {c}
  /\ registry' = [registry EXCEPT ![c.plugin] = 0]
  /\ processes' = Dropped(processes, registry', rpcs')
  /\ UNCHANGED <<disk, shell, commands, hostEvents, lateStarts>>

BackendAnswers(n) ==
  /\ processes[n].state = "running" /\ processes[n].input # <<>>
  /\ LET b == processes[n]
     IN processes' = Becomes(n, b.state, Tail(b.input), Append(b.output, Head(b.input)))
  /\ UNCHANGED <<disk, registry, rpcs, shell, commands, hostEvents, lateStarts>>

Exits(n) ==
  /\ processes' = Dropped(Becomes(n, "exited", <<>>, processes[n].output), registry, rpcs)
  /\ UNCHANGED <<disk, registry, rpcs, shell, commands, lateStarts>>
BackendCrashes(n) == Happens /\ processes[n].state = "running" /\ Exits(n)
\* it was killed, or its input was closed
BackendEnds(n) ==
  /\ \/ processes[n].state = "killed"
     \/ processes[n].state = "running" /\ ~Held(n, registry, rpcs)
  /\ Exits(n) /\ UNCHANGED hostEvents

----------------------------------------------------------------------------
(* The synchronous commands. *)

Command(kind, p, f, purpose) ==
  [kind |-> kind, plugin |-> p, front |-> f, purpose |-> purpose,
   live |-> TRUE, state |-> "asked"]

\* an update that leaves the old backend alone
StoppedOnlyUninstalled(p) ==
  IF Head(commands).kind = "install" THEN UNCHANGED <<registry, processes, lateStarts>>
  ELSE /\ registry' = [registry EXCEPT ![p] = 0]
       /\ processes' = Dropped(processes, registry', rpcs)
       /\ lateStarts' = lateStarts \ {p}
\* stop_runtime: forgotten, and killed unless a call holds its lock
Stopped(p) ==
  LET n == registry[p]
      killed == n # 0 /\ ~Locked(n) /\ processes[n].state = "running"
  IN /\ registry' = [registry EXCEPT ![p] = 0]
     /\ processes' = Dropped(IF killed THEN Becomes(n, "killed", <<>>, <<>>) ELSE processes,
                             registry', rpcs)
     /\ lateStarts' = lateStarts \ {p}

\* The backend is stopped before its directory is touched.
StopFirst ==
  /\ commands # <<>> /\ Head(commands).state = "asked"
  /\ Head(commands).kind \in {"install", "uninstall"}
  /\ IF Head(commands).kind = "uninstall" \/ disk[Head(commands).plugin] # 0
     THEN Stopped(Head(commands).plugin) ELSE UNCHANGED <<registry, processes, lateStarts>>
  /\ commands' = [commands EXCEPT ![1].state = "stopped"]
  /\ UNCHANGED <<disk, rpcs, shell, hostEvents>>

----------------------------------------------------------------------------
(* The window. *)

\* the workspace in front, once the effect has looked whether its plugin is listed
Front(f, plugins) == IF f # 0 /\ plugins[f] = 0 THEN 0 ELSE f

Forgotten(queue) == [i \in DOMAIN queue |-> [queue[i] EXCEPT !.live = FALSE]]

\* A list and a workspace to show: PluginWorkspace is mounted, kept or unmounted, and loads its
\* page when the plugin in front is another; the page of the one before stays until then.
Show(plugins, wanted, flags, queue) ==
  LET f == Front(wanted, plugins)
      mounted == f # 0 /\ shell.front # 0
  IN /\ shell' = [flags EXCEPT !.list = plugins, !.front = f,
                    !.page = IF mounted THEN @ ELSE Blank,
                    !.outdated = mounted /\ f = shell.front
                                 /\ (@ \/ plugins[f] # shell.list[f])]
     /\ commands' = IF f = shell.front THEN queue
                    ELSE IF f = 0 THEN Forgotten(queue)
                    ELSE Append(Forgotten(queue), Command("read", f, f, "page"))

\* the menu of workspaces; 0 is one of the other workspaces
workspaceOptions == {0} \cup {p \in Plugins : shell.list[p] # 0}

handleSelectWorkspace(f) ==
  /\ Happens /\ f # shell.front /\ f \in workspaceOptions
  /\ Show(shell.list, f, shell, commands)
  /\ UNCHANGED <<disk, processes, registry, rpcs, lateStarts>>

\* what the buttons of the plugin manager allow
Installable == ~shell.busy
Removable(p) == p \in workspaceOptions /\ ~shell.busy /\ shell.removing # p

handleInstallPlugin(p) ==
  /\ Happens /\ Installable
  /\ shell' = [shell EXCEPT !.busy = TRUE]
  /\ commands' = Append(commands, Command("install", p, shell.front, "none"))
  /\ UNCHANGED <<disk, processes, registry, rpcs, lateStarts>>

handleUninstallPlugin(p) ==
  /\ Happens /\ Removable(p)
  /\ shell' = [shell EXCEPT !.removing = p]
  /\ commands' = Append(commands, Command("uninstall", p, shell.front, "none"))
  /\ UNCHANGED <<disk, processes, registry, rpcs, lateStarts>>

\* A page asks its backend: the request goes to the plugin in front, whosever page it is.
rpc_request ==
  /\ Happens /\ shell.front # 0 /\ shell.page # Blank /\ Cardinality(rpcs) < MaxRpcs
  /\ \E id \in 1..MaxRpcs :
       /\ {c.id : c \in rpcs} \cap 1..id = 1..(id - 1)
       /\ ensure_runtime([id |-> id, plugin |-> shell.front, pc |-> "registering", process |-> 0])
  /\ UNCHANGED <<disk, registry, shell, commands, lateStarts>>

Released(c) == IF c.kind = "install" \/ c.purpose = "install" THEN [shell EXCEPT !.busy = FALSE]
               ELSE [shell EXCEPT !.removing = 0]

Failed(c, now) == shell' = [Released(c) EXCEPT !.stale = @ \/ now # shell.list]

\* After an installation or a removal the list is asked for again.
Ended(c) == /\ commands' = Append(Tail(commands), Command("list", c.plugin, c.front, c.kind))
            /\ UNCHANGED shell

\* Then the directory is replaced or removed; when that fails the old one may be gone.
ChangeDisk ==
  LET c == Head(commands)
      starting == \E r \in rpcs : r.plugin = c.plugin /\ r.pc = "registering"
  IN /\ commands # <<>> /\ c.state = "stopped"
     /\ \/ /\ disk' = [disk EXCEPT ![c.plugin] = IF c.kind = "install" THEN 2 ELSE 0]
           /\ Ended(c)
        \/ \E v \in {disk[c.plugin], 0} :
             /\ disk' = [disk EXCEPT ![c.plugin] = v]
             /\ Failed(c, disk') /\ commands' = Tail(commands)
     /\ lateStarts' = IF starting THEN lateStarts \cup {c.plugin} ELSE lateStarts
     /\ UNCHANGED <<processes, registry, rpcs, hostEvents>>

\* Nothing was picked, or the package was refused.
NothingInstalled ==
  /\ commands # <<>> /\ Head(commands).kind = "install" /\ Head(commands).state = "asked"
  /\ shell' = Released(Head(commands)) /\ commands' = Tail(commands)
  /\ UNCHANGED <<disk, processes, registry, rpcs, hostEvents, lateStarts>>

\* What was installed is opened; what was removed is left, if it was in front at the click.
refreshInstalledPluginState ==
  /\ commands # <<>> /\ Head(commands).kind = "list"
  /\ LET c == Head(commands)
         wanted == IF c.purpose = "install" THEN c.plugin
                   ELSE IF c.front = c.plugin THEN 0 ELSE shell.front
     IN \/ Show(disk, wanted, [Released(c) EXCEPT !.stale = FALSE], Tail(commands))
        \/ /\ shell' = [Released(c) EXCEPT !.stale = TRUE]
           /\ commands' = Tail(commands)
  /\ UNCHANGED <<disk, processes, registry, rpcs, hostEvents, lateStarts>>

\* The page is shown unless another was asked for meanwhile (its effect was cleaned up).
PageArrives ==
  /\ commands # <<>> /\ Head(commands).kind = "read"
  /\ LET c == Head(commands)
         read == {Blank} \cup {[plugin |-> c.plugin, version |-> v] : v \in {disk[c.plugin]} \ {0}}
     IN IF c.live
        THEN \E page \in read : shell' = [shell EXCEPT !.page = page, !.outdated = FALSE]
        ELSE UNCHANGED shell
  /\ commands' = Tail(commands)
  /\ UNCHANGED <<disk, processes, registry, rpcs, hostEvents, lateStarts>>

----------------------------------------------------------------------------

\* A plugin is open with its page, if there is one, and its backend not asked yet.
Init ==
  /\ disk \in [Plugins -> {0, 1}]
  /\ processes = [n \in 1..MaxProcesses |-> Nobody]
  /\ registry = [p \in Plugins |-> 0]
  /\ rpcs = {}
  /\ \E f \in {0} \cup Plugins :
       /\ IF f = 0 THEN \A p \in Plugins : disk[p] = 0 ELSE disk[f] # 0
       /\ shell = [list |-> disk, front |-> f, busy |-> FALSE, removing |-> 0,
                   page |-> IF f = 0 THEN Blank ELSE [plugin |-> f, version |-> disk[f]],
                   outdated |-> FALSE, stale |-> FALSE]
  /\ commands = <<>> /\ hostEvents = 0 /\ lateStarts = {}

HostWorks ==
  \/ \E c \in rpcs : Register(c) \/ Ask(c) \/ ReadAnswer(c) \/ ReadEnd(c)
  \/ \E n \in DOMAIN processes : BackendAnswers(n) \/ BackendEnds(n)
  \/ StopFirst \/ ChangeDisk \/ NothingInstalled
  \/ refreshInstalledPluginState \/ PageArrives

Next ==
  \/ \E f \in Plugins \cup {0} : handleSelectWorkspace(f)
  \/ \E p \in Packages : handleInstallPlugin(p)
  \/ \E p \in Plugins : handleUninstallPlugin(p)
  \/ rpc_request
  \/ \E n \in DOMAIN processes : BackendCrashes(n)
  \/ HostWorks

Fairness == WF_hostVars(HostWorks)

Spec == Init /\ [][Next]_hostVars /\ Fairness

----------------------------------------------------------------------------

\* Type invariant.
Lines == Seq(1..MaxRpcs)
Backend == [plugin : Plugins \cup {0}, version : Versions,
            state : {"none", "running", "killed", "exited"},
            input : Lines, output : Lines]
Rpc == [id : 1..MaxRpcs, plugin : Plugins, process : 1..MaxProcesses,
        pc : {"registering", "queued", "reading"}]
Shell == [list : [Plugins -> Versions], front : Plugins \cup {0}, busy : BOOLEAN,
          removing : Plugins \cup {0}, outdated : BOOLEAN, stale : BOOLEAN,
          page : [plugin : Plugins \cup {0}, version : Versions]]
Kinds == {"install", "uninstall", "list", "read"}
Commands == [kind : Kinds, plugin : Plugins, front : Plugins \cup {0},
             purpose : Kinds \cup {"none", "page"}, live : BOOLEAN, state : {"asked", "stopped"}]
HostTypeOK ==
  /\ disk \in [Plugins -> Versions]
  /\ processes \in [1..MaxProcesses -> Backend]
  /\ registry \in [Plugins -> {0} \cup 1..MaxProcesses]
  /\ rpcs \subseteq Rpc
  /\ shell \in Shell
  /\ commands \in Seq(Commands)
  /\ lateStarts \subseteq Plugins

\* The backend that serves a plugin's calls is the one of the version installed, and of a
\* plugin that is installed at all, unless a call started it while the plugin was stopped.
RunsWhatIsInstalled ==
  \A p \in Plugins \ lateStarts :
    registry[p] # 0 /\ ~Stopping(p) =>
      processes[registry[p]].plugin = p /\ processes[registry[p]].version = disk[p]

\* A call reads its own answer: the pipes of a backend hold nothing but what belongs to the
\* call that has locked it, whatever calls failed, were stopped or met an exit before.
AnswersInStep ==
  \A n \in DOMAIN processes :
    /\ \A c \in rpcs : c.process = n /\ c.pc = "reading" =>
         <<processes[n].input, processes[n].output>> \in
           {<< <<>>, <<>> >>, << <<c.id>>, <<>> >>, << <<>>, <<c.id>> >>}
    /\ ~Locked(n) => processes[n].input = <<>> /\ processes[n].output = <<>>

\* When nothing is under way the plugins listed are those installed, none is greyed out, and the
\* page shown is of the plugin in front and of the version listed, but for a change that
\* failed half-way and for an update of the plugin that is open.
WindowFollowsDisk ==
  /\ shell.page.plugin \in {0, shell.front}
     \/ \E i \in DOMAIN commands : commands[i].kind = "read" /\ commands[i].live
  /\ commands = <<>> =>
       /\ ~shell.busy /\ shell.removing = 0
       /\ shell.stale \/ shell.list = disk
       /\ shell.page # Blank =>
            /\ shell.page.plugin = shell.front
            /\ shell.outdated \/ shell.stale \/ shell.page.version = shell.list[shell.front]

\* Plugins run and are shown as they are installed.
PluginsRunAsInstalled == RunsWhatIsInstalled /\ WindowFollowsDisk

\* Calls and commands under way, and backends that nothing holds but that still run.
HostBusy ==
  \/ rpcs # {} \/ commands # <<>>
  \/ \E n \in DOMAIN processes :
       /\ processes[n].state \in {"running", "killed"} /\ ~Held(n, registry, rpcs)

=============================================================================
