-------------------------- MODULE PluginHost_proofs --------------------------
(***************************************************************************)
(* A call of a plugin's backend reads its own answer: for any number of    *)
(* plugins, backends and calls, whatever is installed, removed, stopped or *)
(* exits meanwhile.                                                        *)
(*                                                                         *)
(* AnswersInStep alone is not inductive.  That a call starts with empty    *)
(* pipes needs that at most one call reads from a backend (OneReader);     *)
(* that no call is given a backend of somebody else needs that whatever a  *)
(* call or the registry refers to is there (Alive).  The three are stated  *)
(* of any backends, registry and calls (Orderly), so that an action can be *)
(* followed through the changes it makes one after the other.              *)
(***************************************************************************)
EXTENDS PluginHost, TLAPS

OneReader(calls) ==
  \A c, d \in calls : c.pc = "reading" /\ d.pc = "reading" /\ c.process = d.process => c = d

Alive(procs, reg, calls) ==
  /\ \A c \in calls : procs[c.process].state # "none"
  /\ \A p \in Plugins : reg[p] # 0 => procs[reg[p]].state # "none"

\* the pipes of a backend while call id reads from it
InStepWith(b, id) == \/ b.input = <<>> /\ b.output = <<>>
                     \/ b.input = <<id>> /\ b.output = <<>>
                     \/ b.input = <<>> /\ b.output = <<id>>
Empty(b) == b.input = <<>> /\ b.output = <<>>
Reads(calls, n) == \E c \in calls : c.process = n /\ c.pc = "reading"

InStep(procs, calls) ==
  /\ \A c \in calls : c.pc = "reading" => InStepWith(procs[c.process], c.id)
  /\ \A n \in 1..MaxProcesses : ~Reads(calls, n) => Empty(procs[n])

\* the input of a backend that has exited is closed
Closed(procs) == \A n \in 1..MaxProcesses : procs[n].state = "exited" => procs[n].input = <<>>

Orderly(procs, reg, calls) ==
  /\ procs \in [1..MaxProcesses -> Backend]
  /\ reg \in [Plugins -> {0} \cup 1..MaxProcesses]
  /\ calls \subseteq Rpc
  /\ OneReader(calls) /\ Alive(procs, reg, calls) /\ InStep(procs, calls) /\ Closed(procs)

HostInv == HostTypeOK /\ Orderly(processes, registry, rpcs)

\* The inductive invariant is stronger than what is claimed.
LEMMA HostInvImplies == HostInv => AnswersInStep
<1> SUFFICES ASSUME HostInv PROVE AnswersInStep
  OBVIOUS
<1>1. ASSUME NEW n \in 1..MaxProcesses, NEW c \in rpcs, c.process = n, c.pc = "reading"
      PROVE  <<processes[n].input, processes[n].output>> \in
               {<< <<>>, <<>> >>, << <<c.id>>, <<>> >>, << <<>>, <<c.id>> >>}
  BY <1>1 DEF HostInv, Orderly, InStep, InStepWith
<1>2. ASSUME NEW n \in 1..MaxProcesses, ~Locked(n)
      PROVE  processes[n].input = <<>> /\ processes[n].output = <<>>
  BY <1>2 DEF HostInv, Orderly, InStep, Reads, Locked, Empty
<1>3. DOMAIN processes = 1..MaxProcesses
  BY DEF HostInv, HostTypeOK
<1> QED
  BY <1>1, <1>2, <1>3 DEF AnswersInStep

----------------------------------------------------------------------------
(* What the steps are made of. *)

\* A call that waits no longer, or whose answer has left the pipe, may end.
LEMMA CallLeaves ==
  ASSUME NEW procs, NEW reg, NEW calls, Orderly(procs, reg, calls), NEW c \in calls,
         c.pc # "reading" \/ Empty(procs[c.process])
  PROVE  Orderly(procs, reg, calls \ {c})
<1>1. ASSUME NEW n \in 1..MaxProcesses, ~Reads(calls \ {c}, n) PROVE Empty(procs[n])
  <2>1. CASE Reads(calls, n)
    BY <1>1, <2>1 DEF Reads
  <2>2. CASE ~Reads(calls, n)
    BY <2>2 DEF Orderly, InStep
  <2> QED
    BY <2>1, <2>2
<1> QED
  BY <1>1 DEF Orderly, OneReader, Alive, InStep

\* A call that does not read may come, or take the place of another that does not.
LEMMA CallComes ==
  ASSUME NEW procs, NEW reg, NEW calls, Orderly(procs, reg, calls), NEW c \in Rpc,
         c.pc # "reading", procs[c.process].state # "none"
  PROVE  Orderly(procs, reg, calls \cup {c})
<1>1. ASSUME NEW n \in 1..MaxProcesses, ~Reads(calls \cup {c}, n) PROVE Empty(procs[n])
  BY <1>1 DEF Orderly, InStep, Reads
<1> QED
  BY <1>1 DEF Orderly, OneReader, Alive, InStep

\* A plugin may be registered with a backend that is there, and be forgotten.
LEMMA RegistryChanges ==
  ASSUME NEW procs, NEW reg, NEW calls, Orderly(procs, reg, calls), NEW p,
         NEW n \in {0} \cup 1..MaxProcesses, n # 0 => procs[n].state # "none"
  PROVE  Orderly(procs, [reg EXCEPT ![p] = n], calls)
BY DEF Orderly, Alive

\* A backend that nothing holds is nobody's: it may be dropped, and another take its place.
LEMMA UnheldChanges ==
  ASSUME NEW procs, NEW reg, NEW calls, Orderly(procs, reg, calls),
         NEW new \in [1..MaxProcesses -> Backend],
         \A n \in 1..MaxProcesses :
           \/ new[n] = procs[n]
           \/ ~Held(n, reg, calls) /\ Empty(new[n])
  PROVE  Orderly(new, reg, calls)
<1>1. \A c \in calls : new[c.process] = procs[c.process]
  BY DEF Orderly, Rpc, Held
<1>2. \A p \in Plugins : reg[p] # 0 => new[reg[p]] = procs[reg[p]]
  BY DEF Orderly, Held
<1>3. InStep(new, calls)
  BY <1>1 DEF Orderly, InStep
<1>4. Closed(new)
  BY DEF Orderly, Closed, Empty
<1> QED
  BY <1>1, <1>2, <1>3, <1>4 DEF Orderly, Alive

LEMMA NobodyOK == Nobody \in Backend /\ Empty(Nobody) /\ Nobody.state = "none"
BY DEF Nobody, Process, Backend, Lines, Versions, Empty

LEMMA DroppedKeeps ==
  ASSUME NEW procs, NEW reg, NEW calls, Orderly(procs, reg, calls)
  PROVE  Orderly(Dropped(procs, reg, calls), reg, calls)
<1>1. Dropped(procs, reg, calls) \in [1..MaxProcesses -> Backend]
  BY NobodyOK DEF Dropped, Orderly
<1>2. \A n \in 1..MaxProcesses :
        \/ Dropped(procs, reg, calls)[n] = procs[n]
        \/ ~Held(n, reg, calls) /\ Dropped(procs, reg, calls)[n] = Nobody
  BY DEF Dropped, Orderly
<1> QED
  BY <1>1, <1>2, NobodyOK, UnheldChanges

\* A backend changes its state and its pipes, and stays in step with the call that reads from it.
LEMMA BackendChanges ==
  ASSUME NEW procs, NEW reg, NEW calls, Orderly(procs, reg, calls), NEW n \in 1..MaxProcesses,
         NEW b \in Backend, b.state # "none", b.state = "exited" => b.input = <<>>,
         Reads(calls, n) \/ Empty(b),
         \A c \in calls : c.process = n /\ c.pc = "reading" => InStepWith(b, c.id)
  PROVE  Orderly([procs EXCEPT ![n] = b], reg, calls)
<1> DEFINE new == [procs EXCEPT ![n] = b]
<1>1. /\ new \in [1..MaxProcesses -> Backend] /\ new[n] = b
      /\ \A m \in 1..MaxProcesses \ {n} : new[m] = procs[m]
  BY DEF Orderly
<1>2. Alive(new, reg, calls)
  BY <1>1 DEF Orderly, Alive, Rpc
<1>3. InStep(new, calls)
  BY <1>1 DEF Orderly, InStep, Rpc
<1>4. Closed(new)
  BY <1>1 DEF Orderly, Closed
<1> QED
  BY <1>1, <1>2, <1>3, <1>4 DEF Orderly

----------------------------------------------------------------------------
(* The steps of calls and of backends. *)

\* What is left to show of a step of the host: backends, registry and calls stay orderly.
LEMMA CallsKeepTheRest ==
  ASSUME HostInv, Orderly(processes', registry', rpcs'), UNCHANGED <<disk, shell>>,
         commands' \in Seq(Commands), lateStarts' \subseteq Plugins
  PROVE  HostInv'
BY DEF HostInv, HostTypeOK, Orderly

\* What a backend becomes is one.
Now(n, state, input, output) ==
  Process(processes[n].plugin, processes[n].version, state, input, output)

LEMMA BecomesOK ==
  ASSUME HostInv, NEW n \in 1..MaxProcesses, NEW state \in {"running", "killed", "exited"},
         NEW input \in Lines, NEW output \in Lines
  PROVE  /\ Now(n, state, input, output) \in Backend
         /\ Now(n, state, input, output).state = state
         /\ Now(n, state, input, output).input = input
         /\ Now(n, state, input, output).output = output
         /\ Becomes(n, state, input, output) =
              [processes EXCEPT ![n] = Now(n, state, input, output)]
<1>1. Now(n, state, input, output) \in Backend
  BY DEF HostInv, HostTypeOK, Backend, Process, Now
<1>2. Becomes(n, state, input, output) = [processes EXCEPT ![n] = Now(n, state, input, output)]
  BY DEF HostInv, HostTypeOK, Becomes, Now
<1> QED
  BY <1>1, <1>2 DEF Process, Now

LEMMA CallOK ==
  ASSUME HostInv, NEW c \in rpcs, NEW pc \in {"registering", "queued", "reading"},
         NEW n \in 1..MaxProcesses
  PROVE  /\ At(c, pc, n) \in Rpc /\ At(c, pc, n).pc = pc /\ At(c, pc, n).process = n
         /\ At(c, pc, n).id = c.id
         /\ c \in Rpc /\ processes[c.process] \in Backend
BY DEF HostInv, HostTypeOK, At, Rpc

LEMMA Register_Inv ==
  ASSUME HostInv, NEW c \in rpcs, Register(c)
  PROVE  HostInv'
<1> DEFINE n == Registered(c.plugin, c.process)
           left == rpcs \ {c}
           served == left \cup {At(c, "queued", n)}
<1>1. /\ c.pc = "registering" /\ c \in Rpc
      /\ registry' = [registry EXCEPT ![c.plugin] = n]
      /\ rpcs' = served
      /\ processes' = Dropped(processes, registry', rpcs')
      /\ UNCHANGED <<disk, shell, commands>>
      /\ lateStarts' \subseteq Plugins
  BY DEF Register, Moved, HostInv, HostTypeOK, Rpc
<1>2. n \in 1..MaxProcesses /\ processes[n].state # "none"
  BY <1>1 DEF Registered, HostInv, Orderly, Alive, Rpc
<1>3. Orderly(processes, registry, left)
  BY <1>1, CallLeaves DEF HostInv
<1>4. Orderly(processes, registry', left)
  BY <1>1, <1>2, <1>3, RegistryChanges
<1>5. Orderly(processes, registry', served)
  BY <1>2, <1>4, CallOK, CallComes
<1>6. Orderly(processes', registry', rpcs')
  BY <1>1, <1>5, DroppedKeeps
<1> QED
  BY <1>1, <1>6, CallsKeepTheRest DEF HostInv, HostTypeOK

LEMMA Ask_Inv ==
  ASSUME HostInv, NEW c \in rpcs, Ask(c)
  PROVE  HostInv'
<1> DEFINE n == c.process
           b == processes[n]
           left == rpcs \ {c}
<1>1. /\ c.pc = "queued" /\ ~Locked(n) /\ c \in Rpc /\ n \in 1..MaxProcesses /\ b \in Backend
      /\ UNCHANGED <<disk, registry, shell, commands, lateStarts>>
  BY DEF Ask, Lockable, HostInv, HostTypeOK, Rpc
<1>2. Orderly(processes, registry, left)
  BY <1>1, CallLeaves DEF HostInv
<1>3. CASE Gone(c)
  <2>1. Orderly(processes', registry', rpcs')
    BY <1>1, <1>2, <1>3, DroppedKeeps DEF Gone
  <2> QED
    BY <1>1, <2>1, CallsKeepTheRest DEF HostInv, HostTypeOK
<1>4. CASE /\ b.state # "exited" /\ Moved(c, "reading", n)
           /\ processes' = Becomes(n, b.state, Append(b.input, c.id), b.output)
  <2> DEFINE r == At(c, "reading", n)
  <2>1. r \in Rpc /\ r.pc = "reading" /\ r.process = n /\ r.id = c.id /\ c.id \in 1..MaxRpcs
    BY <1>1, CallOK DEF Rpc
  <2>2. b.input = <<>> /\ b.output = <<>> /\ b.state \in {"running", "killed"}
    BY <1>1, <1>4 DEF HostInv, Orderly, Alive, InStep, Reads, Locked, Empty, Backend
  <2> DEFINE new == Now(n, b.state, <<c.id>>, b.output)
  <2>3. /\ new \in Backend
        /\ new.state = b.state /\ new.input = <<c.id>> /\ new.output = <<>>
        /\ processes' = [processes EXCEPT ![n] = new]
    <3>1. /\ Append(b.input, c.id) = <<c.id>>
          /\ <<c.id>> \in Lines /\ b.output \in Lines
      BY <1>1, <2>1, <2>2 DEF Backend, Lines
    <3> QED
      BY <1>1, <1>4, <2>2, <3>1, BecomesOK
  <2>4. /\ processes' \in [1..MaxProcesses -> Backend] /\ processes'[n] = new
        /\ \A m \in 1..MaxProcesses \ {n} : processes'[m] = processes[m]
    BY <1>1, <2>3 DEF HostInv, HostTypeOK
  <2>5. rpcs' = left \cup {r}
    BY <1>4 DEF Moved
  <2>6. OneReader(rpcs')
    BY <1>1, <1>2, <2>1, <2>5 DEF Orderly, OneReader, Locked
  <2>7. Alive(processes', registry', rpcs')
    BY <1>1, <1>2, <2>1, <2>2, <2>3, <2>4, <2>5 DEF Orderly, Alive, Rpc
  <2>8. InStep(processes', rpcs')
    <3>1. ASSUME NEW d \in rpcs', d.pc = "reading" PROVE InStepWith(processes'[d.process], d.id)
      BY <1>1, <1>2, <2>1, <2>3, <2>4, <2>5, <3>1
      DEF Orderly, InStep, InStepWith, Locked, Rpc
    <3>2. ASSUME NEW m \in 1..MaxProcesses, ~Reads(rpcs', m) PROVE Empty(processes'[m])
      BY <1>2, <2>1, <2>4, <2>5, <3>2 DEF Orderly, InStep, Reads
    <3> QED
      BY <3>1, <3>2 DEF InStep
  <2>9. Closed(processes')
    BY <1>2, <2>2, <2>3, <2>4 DEF Orderly, Closed
  <2>10. Orderly(processes', registry', rpcs')
    BY <1>1, <1>2, <2>1, <2>4, <2>5, <2>6, <2>7, <2>8, <2>9 DEF Orderly
  <2> QED
    BY <1>1, <2>10, CallsKeepTheRest DEF HostInv, HostTypeOK
<1> QED
  BY <1>3, <1>4 DEF Ask

LEMMA ReadAnswer_Inv ==
  ASSUME HostInv, NEW c \in rpcs, ReadAnswer(c)
  PROVE  HostInv'
<1> DEFINE n == c.process
           b == processes[n]
           read == Becomes(n, b.state, b.input, Tail(b.output))
<1>1. /\ c.pc = "reading" /\ b.output # <<>> /\ c \in Rpc /\ n \in 1..MaxProcesses
      /\ b \in Backend /\ rpcs' = rpcs \ {c} /\ processes' = Dropped(read, registry, rpcs')
      /\ UNCHANGED <<disk, registry, shell, commands, lateStarts>>
  BY DEF ReadAnswer, HostInv, HostTypeOK, Rpc
<1>2. /\ b.input = <<>> /\ Tail(b.output) = <<>> /\ b.state \in {"running", "killed", "exited"}
      /\ b.input \in Lines /\ Tail(b.output) \in Lines
  <2>1. b.input = <<>> /\ b.output = <<c.id>> /\ b.state # "none"
    BY <1>1 DEF HostInv, Orderly, Alive, InStep, InStepWith
  <2> QED
    BY <1>1, <2>1 DEF Backend, Lines
<1> DEFINE new == Now(n, b.state, b.input, Tail(b.output))
<1>3. /\ new \in Backend
      /\ new.state = b.state /\ new.input = b.input /\ new.output = Tail(b.output)
      /\ read = [processes EXCEPT ![n] = new]
  BY <1>1, <1>2, BecomesOK
<1>4. new.state # "none" /\ Empty(new)
  BY <1>2, <1>3 DEF Empty
<1>5. Orderly(read, registry, rpcs)
  BY <1>1, <1>3, <1>4, BackendChanges DEF HostInv, InStepWith, Empty
<1>6. read[n] = new
  BY <1>1, <1>3 DEF HostInv, HostTypeOK
<1>7. Orderly(processes', registry', rpcs')
  BY <1>1, <1>4, <1>5, <1>6, CallLeaves, DroppedKeeps
<1> QED
  BY <1>1, <1>7, CallsKeepTheRest DEF HostInv, HostTypeOK

LEMMA ReadEnd_Inv ==
  ASSUME HostInv, NEW c \in rpcs, ReadEnd(c)
  PROVE  HostInv'
<1>1. /\ processes[c.process].output = <<>> /\ rpcs' = rpcs \ {c}
      /\ registry' = [registry EXCEPT ![c.plugin] = 0]
      /\ processes' = Dropped(processes, registry', rpcs')
      /\ UNCHANGED <<disk, shell, commands, lateStarts>>
  BY DEF ReadEnd
<1>2. processes[c.process].input = <<>>
  BY CallOK DEF ReadEnd, HostInv, Orderly, Closed, Rpc
<1>3. Orderly(processes, registry, rpcs')
  BY <1>1, <1>2, CallLeaves DEF HostInv, Empty
<1>4. Orderly(processes', registry', rpcs')
  BY <1>1, <1>3, RegistryChanges, DroppedKeeps
<1> QED
  BY <1>1, <1>4, CallsKeepTheRest DEF HostInv, HostTypeOK

LEMMA BackendAnswers_Inv ==
  ASSUME HostInv, NEW n \in 1..MaxProcesses, BackendAnswers(n)
  PROVE  HostInv'
<1> DEFINE b == processes[n]
           out == Append(b.output, Head(b.input))
<1>1. /\ b.state = "running" /\ b.input # <<>> /\ b \in Backend
      /\ processes' = Becomes(n, b.state, Tail(b.input), out)
      /\ UNCHANGED <<disk, registry, rpcs, shell, commands, lateStarts>>
  BY DEF BackendAnswers, HostInv, HostTypeOK
<1>2. PICK c \in rpcs : c.process = n /\ c.pc = "reading" /\ b.input = <<c.id>> /\ b.output = <<>>
  BY <1>1 DEF HostInv, Orderly, InStep, InStepWith, Reads, Empty
<1>3. processes' = Becomes(n, "running", <<>>, <<c.id>>)
  <2>1. Tail(b.input) = <<>> /\ out = <<c.id>>
    BY <1>2 DEF HostInv, HostTypeOK, Rpc
  <2> QED
    BY <1>1, <2>1
<1> DEFINE new == Now(n, "running", <<>>, <<c.id>>)
<1>4. /\ new \in Backend /\ new.state = "running" /\ new.input = <<>> /\ new.output = <<c.id>>
      /\ processes' = [processes EXCEPT ![n] = new]
  <2>1. <<>> \in Lines /\ <<c.id>> \in Lines
    BY DEF HostInv, HostTypeOK, Rpc, Lines
  <2> HIDE DEF b, out
  <2>2. /\ new \in Backend /\ new.state = "running" /\ new.input = <<>> /\ new.output = <<c.id>>
        /\ Becomes(n, "running", <<>>, <<c.id>>) = [processes EXCEPT ![n] = new]
    BY <2>1, BecomesOK
  <2> QED
    BY <1>3, <2>2
<1>5. \A d \in rpcs : d.process = n /\ d.pc = "reading" => InStepWith(new, d.id)
  BY <1>2, <1>4 DEF HostInv, Orderly, OneReader, InStepWith
<1>6. Orderly(processes', registry', rpcs')
  BY <1>1, <1>2, <1>4, <1>5, BackendChanges DEF HostInv, Reads
<1> QED
  BY <1>1, <1>6, CallsKeepTheRest DEF HostInv, HostTypeOK

\* A backend that exits, or is killed while nobody reads from it, leaves no line to come.
LEMMA StaysInStep ==
  ASSUME HostInv, NEW n \in 1..MaxProcesses, processes[n].state # "none",
         NEW state \in {"killed", "exited"}, NEW output \in {<<>>, processes[n].output}
  PROVE  Orderly(Becomes(n, state, <<>>, output), registry, rpcs)
<1> DEFINE b == processes[n]
           new == Now(n, state, <<>>, output)
<1>1. <<>> \in Lines /\ output \in Lines /\ state \in {"running", "killed", "exited"}
  <2>1. <<>> \in Lines
    BY DEF Lines
  <2>2. processes[n].output \in Lines
    BY DEF HostInv, HostTypeOK, Backend
  <2> QED
    BY <2>1, <2>2
<1>2. /\ new \in Backend /\ new.state = state /\ new.input = <<>> /\ new.output = output
      /\ Becomes(n, state, <<>>, output) = [processes EXCEPT ![n] = new]
  BY <1>1, BecomesOK
<1>3. Reads(rpcs, n) \/ Empty(new)
  BY <1>2 DEF HostInv, Orderly, InStep, Empty
<1>4. \A d \in rpcs : d.process = n /\ d.pc = "reading" => InStepWith(new, d.id)
  BY <1>2 DEF HostInv, Orderly, InStep, InStepWith
<1> QED
  BY <1>2, <1>3, <1>4, BackendChanges DEF HostInv

LEMMA Exits_Inv ==
  ASSUME HostInv, NEW n \in 1..MaxProcesses, processes[n].state # "none", Exits(n)
  PROVE  HostInv'
<1>1. Orderly(Becomes(n, "exited", <<>>, processes[n].output), registry, rpcs)
  BY StaysInStep
<1>2. Orderly(processes', registry', rpcs')
  BY <1>1, DroppedKeeps DEF Exits
<1> QED
  BY <1>2, CallsKeepTheRest DEF Exits, HostInv, HostTypeOK

\* The command to run next is one, and so are those behind it.
LEMMA QueueOK ==
  ASSUME HostInv, commands # <<>>
  PROVE  /\ Head(commands) \in Commands /\ Head(commands) = commands[1]
         /\ 1 \in DOMAIN commands /\ Tail(commands) \in Seq(Commands)
BY DEF HostInv, HostTypeOK

LEMMA CommandStops ==
  ASSUME NEW c \in Commands
  PROVE  [c EXCEPT !.state = "stopped"] \in Commands
BY DEF Commands

LEMMA StopFirst_Inv ==
  ASSUME HostInv, StopFirst
  PROVE  HostInv'
<1> DEFINE p == Head(commands).plugin
<1>1. /\ commands # <<>> /\ UNCHANGED <<disk, rpcs, shell>>
      /\ commands' = [commands EXCEPT ![1].state = "stopped"]
  BY DEF StopFirst
<1>2. /\ 1 \in DOMAIN commands /\ commands[1] \in Commands /\ p \in Plugins
      /\ [commands[1] EXCEPT !.state = "stopped"] \in Commands
  BY <1>1, QueueOK, CommandStops DEF Commands
<1>3. commands' \in Seq(Commands)
  <2>1. commands' = [commands EXCEPT ![1] = [commands[1] EXCEPT !.state = "stopped"]]
    BY <1>1, <1>2
  <2> QED
    BY <1>2, <2>1 DEF HostInv, HostTypeOK
<1>4. CASE Stopped(p)
  <2> DEFINE n == registry[p]
             killed == n # 0 /\ ~Locked(n) /\ processes[n].state = "running"
             procs == IF killed THEN Becomes(n, "killed", <<>>, <<>>) ELSE processes
  <2>1. /\ registry' = [registry EXCEPT ![p] = 0] /\ processes' = Dropped(procs, registry', rpcs)
        /\ lateStarts' \subseteq Plugins
    BY <1>4 DEF Stopped, HostInv, HostTypeOK
  <2>2. n \in {0} \cup 1..MaxProcesses
    BY <1>2 DEF HostInv, HostTypeOK
  <2>3. Orderly(procs, registry, rpcs)
    <3>1. CASE killed
      BY <2>2, <3>1, StaysInStep
    <3>2. CASE ~killed
      BY <3>2 DEF HostInv
    <3> QED
      BY <3>1, <3>2
  <2>4. Orderly(processes', registry', rpcs')
    BY <1>1, <2>1, <2>3, RegistryChanges, DroppedKeeps
  <2> QED
    BY <1>1, <1>3, <2>1, <2>4, CallsKeepTheRest
<1>5. CASE UNCHANGED <<registry, processes, lateStarts>>
  BY <1>1, <1>3, <1>5, CallsKeepTheRest DEF HostInv, HostTypeOK
<1> QED
  BY <1>4, <1>5 DEF StopFirst

LEMMA rpc_request_Inv ==
  ASSUME HostInv, rpc_request
  PROVE  HostInv'
<1>1. /\ shell.front \in Plugins /\ UNCHANGED <<disk, registry, shell, commands, lateStarts>>
      /\ \E id \in 1..MaxRpcs :
           ensure_runtime([id |-> id, plugin |-> shell.front, pc |-> "registering", process |-> 0])
  BY DEF rpc_request, HostInv, HostTypeOK, Shell
<1>2. PICK id \in 1..MaxRpcs :
        ensure_runtime([id |-> id, plugin |-> shell.front, pc |-> "registering", process |-> 0])
  BY <1>1
<1> DEFINE c == [id |-> id, plugin |-> shell.front, pc |-> "registering", process |-> 0]
           p == shell.front
<1>3. ASSUME NEW pc \in {"queued", "registering"}, NEW n \in 1..MaxProcesses
      PROVE  At(c, pc, n) \in Rpc /\ At(c, pc, n).pc = pc /\ At(c, pc, n).process = n
  BY <1>1, <1>2 DEF At, Rpc
<1>4. CASE registry[p] # 0 /\ rpcs' = rpcs \cup {At(c, "queued", registry[p])} /\ UNCHANGED processes
  <2>1. registry[p] \in 1..MaxProcesses /\ processes[registry[p]].state # "none"
    BY <1>1, <1>4 DEF HostInv, Orderly, Alive
  <2>2. Orderly(processes', registry', rpcs')
    BY <1>1, <1>3, <1>4, <2>1, CallComes DEF HostInv
  <2> QED
    BY <1>1, <2>2, CallsKeepTheRest DEF HostInv, HostTypeOK
<1>5. CASE /\ registry[p] = 0 /\ disk[p] # 0
           /\ \E n \in DOMAIN processes :
                /\ processes[n] = Nobody
                /\ processes' = [processes EXCEPT ![n] = Process(p, disk[p], "running", <<>>, <<>>)]
                /\ rpcs' = rpcs \cup {At(c, "registering", n)}
  <2>1. PICK n \in 1..MaxProcesses :
          /\ processes[n] = Nobody
          /\ processes' = [processes EXCEPT ![n] = Process(p, disk[p], "running", <<>>, <<>>)]
          /\ rpcs' = rpcs \cup {At(c, "registering", n)}
    BY <1>5 DEF HostInv, HostTypeOK
  <2> DEFINE b == Process(p, disk[p], "running", <<>>, <<>>)
  <2>2. b \in Backend /\ Empty(b) /\ b.state = "running"
    BY <1>1 DEF HostInv, HostTypeOK, Process, Backend, Lines, Empty
  <2>3. ~Held(n, registry, rpcs)
    BY <2>1, NobodyOK DEF HostInv, Orderly, Alive, Held
  <2>4. /\ processes' \in [1..MaxProcesses -> Backend] /\ processes'[n] = b
        /\ \A m \in 1..MaxProcesses \ {n} : processes'[m] = processes[m]
    BY <2>1, <2>2 DEF HostInv, HostTypeOK
  <2>5. Orderly(processes', registry, rpcs)
    BY <2>2, <2>3, <2>4, UnheldChanges DEF HostInv
  <2>6. Orderly(processes', registry', rpcs')
    BY <1>1, <1>3, <2>1, <2>2, <2>4, <2>5, CallComes
  <2> QED
    BY <1>1, <2>6, CallsKeepTheRest DEF HostInv, HostTypeOK
<1>6. CASE registry[p] = 0 /\ UNCHANGED <<rpcs, processes>>
  BY <1>1, <1>6, CallsKeepTheRest DEF HostInv, HostTypeOK
<1>7. c.plugin = p
  OBVIOUS
<1> QED
  BY <1>2, <1>4, <1>5, <1>6, <1>7 DEF ensure_runtime

----------------------------------------------------------------------------
(* The steps of the window and of the commands: they leave calls alone, so only their types *)
(* are at stake.                                                                             *)

LEMMA OthersKeepCalls ==
  ASSUME HostInv, UNCHANGED <<processes, registry, rpcs>>, disk' \in [Plugins -> Versions],
         shell' \in Shell, commands' \in Seq(Commands), lateStarts' \subseteq Plugins
  PROVE  HostInv'
BY DEF HostInv, HostTypeOK

LEMMA FlagsOK ==
  ASSUME HostInv, NEW c \in Commands
  PROVE  /\ Released(c) \in Shell
         /\ \A b \in BOOLEAN : [Released(c) EXCEPT !.stale = b] \in Shell
<1>1. shell \in Shell /\ TRUE \in BOOLEAN /\ FALSE \in BOOLEAN /\ 0 \in Plugins \cup {0}
  BY DEF HostInv, HostTypeOK
<1>2. [shell EXCEPT !.busy = FALSE] \in Shell /\ [shell EXCEPT !.removing = 0] \in Shell
  BY <1>1 DEF Shell
<1>3. Released(c) \in Shell
  BY <1>2 DEF Released
<1> QED
  BY <1>3 DEF Shell

LEMMA CommandOK ==
  ASSUME NEW kind \in Kinds, NEW p \in Plugins, NEW f \in Plugins \cup {0},
         NEW purpose \in Kinds \cup {"none", "page"}
  PROVE  Command(kind, p, f, purpose) \in Commands
BY DEF Command, Commands, Kinds

LEMMA ForgottenOK ==
  ASSUME NEW queue \in Seq(Commands)
  PROVE  Forgotten(queue) \in Seq(Commands)
<1>1. \A c \in Commands : [c EXCEPT !.live = FALSE] \in Commands
  BY DEF Commands
<1>2. /\ Len(queue) \in Nat /\ DOMAIN queue = 1..Len(queue)
      /\ \A i \in DOMAIN queue : queue[i] \in Commands
  OBVIOUS
<1>3. \A i \in DOMAIN queue : [queue[i] EXCEPT !.live = FALSE] \in Commands
  BY <1>1, <1>2
<1> DEFINE forgotten == [i \in 1..Len(queue) |-> [queue[i] EXCEPT !.live = FALSE]]
<1>4. forgotten \in Seq(Commands)
  BY <1>2, <1>3
<1> QED
  BY <1>2, <1>4 DEF Forgotten

LEMMA ShowOK ==
  ASSUME HostInv, NEW plugins \in [Plugins -> Versions], NEW wanted \in Plugins \cup {0},
         NEW flags \in Shell, flags.page = shell.page, NEW queue \in Seq(Commands),
         Show(plugins, wanted, flags, queue)
  PROVE  shell' \in Shell /\ commands' \in Seq(Commands)
<1> DEFINE f == Front(wanted, plugins)
           mounted == f # 0 /\ shell.front # 0
           page == IF mounted THEN flags.page ELSE Blank
           outdated == mounted /\ f = shell.front
                       /\ (flags.outdated \/ plugins[f] # shell.list[f])
<1>1. f \in Plugins \cup {0}
  BY DEF Front
<1>2. page \in [plugin : Plugins \cup {0}, version : Versions] /\ outdated \in BOOLEAN
  BY DEF Blank, Shell, Versions
<1>3. shell' = [flags EXCEPT !.list = plugins, !.front = f, !.page = page, !.outdated = outdated]
  BY DEF Show, Shell
<1>4. shell' \in Shell
  <2>1. [flags EXCEPT !.list = plugins] \in Shell
    BY DEF Shell
  <2>2. [flags EXCEPT !.list = plugins, !.front = f] \in Shell
    BY <1>1 DEF Shell
  <2> QED
    BY <1>1, <1>2, <1>3 DEF Shell
<1>5. commands' \in Seq(Commands)
  <2>1. CASE f = shell.front
    BY <2>1 DEF Show
  <2>2. CASE f # shell.front /\ f = 0
    BY <2>2, ForgottenOK DEF Show
  <2>3. CASE f # shell.front /\ f # 0
    <3>1. Command("read", f, f, "page") \in Commands
      BY <1>1, <2>3, CommandOK DEF Kinds
    <3>2. commands' = Append(Forgotten(queue), Command("read", f, f, "page"))
      BY <2>3 DEF Show
    <3> QED
      BY <3>1, <3>2, ForgottenOK
  <2> QED
    BY <2>1, <2>2, <2>3
<1> QED
  BY <1>4, <1>5

LEMMA Gestures_Inv ==
  ASSUME HostInv,
         \/ \E f \in Plugins \cup {0} : handleSelectWorkspace(f)
         \/ \E p \in Packages : handleInstallPlugin(p)
         \/ \E p \in Plugins : handleUninstallPlugin(p),
         Packages \subseteq Plugins
  PROVE  HostInv'
<1>1. shell \in Shell /\ commands \in Seq(Commands) /\ shell.list \in [Plugins -> Versions]
      /\ shell.front \in Plugins \cup {0} /\ disk \in [Plugins -> Versions] /\ lateStarts \subseteq Plugins
  BY DEF HostInv, HostTypeOK, Shell
<1>2. ASSUME NEW f \in Plugins \cup {0}, handleSelectWorkspace(f) PROVE HostInv'
  <2>1. shell' \in Shell /\ commands' \in Seq(Commands)
    BY <1>1, <1>2, ShowOK DEF handleSelectWorkspace
  <2> QED
    BY <1>1, <1>2, <2>1, OthersKeepCalls DEF handleSelectWorkspace
<1>3. ASSUME NEW p \in Plugins, handleInstallPlugin(p) PROVE HostInv'
  <2>1. Command("install", p, shell.front, "none") \in Commands
    BY <1>1, CommandOK DEF Kinds
  <2>2. [shell EXCEPT !.busy = TRUE] \in Shell
    BY <1>1 DEF Shell
  <2> QED
    BY <1>1, <1>3, <2>1, <2>2, OthersKeepCalls DEF handleInstallPlugin
<1>4. ASSUME NEW p \in Plugins, handleUninstallPlugin(p) PROVE HostInv'
  <2>1. Command("uninstall", p, shell.front, "none") \in Commands
    BY <1>1, CommandOK DEF Kinds
  <2>2. [shell EXCEPT !.removing = p] \in Shell
    BY <1>1 DEF Shell
  <2> QED
    BY <1>1, <1>4, <2>1, <2>2, OthersKeepCalls DEF handleUninstallPlugin
<1> QED
  BY <1>2, <1>3, <1>4

LEMMA ChangeDisk_Inv ==
  ASSUME HostInv, ChangeDisk
  PROVE  HostInv'
<1> DEFINE c == Head(commands)
<1>1. /\ c \in Commands /\ c.plugin \in Plugins /\ c.front \in Plugins \cup {0}
      /\ c.kind \in Kinds /\ Tail(commands) \in Seq(Commands) /\ c.state = "stopped"
  BY QueueOK DEF ChangeDisk, Commands
<1>2. /\ UNCHANGED <<processes, registry, rpcs>> /\ lateStarts' \subseteq Plugins
      /\ disk \in [Plugins -> Versions] /\ shell \in Shell
  BY <1>1 DEF ChangeDisk, HostInv, HostTypeOK
<1>3. CASE disk' = [disk EXCEPT ![c.plugin] = IF c.kind = "install" THEN 2 ELSE 0] /\ Ended(c)
  <2>1. disk' \in [Plugins -> Versions]
    <3>1. (IF c.kind = "install" THEN 2 ELSE 0) \in Versions
      BY DEF Versions
    <3> QED
      BY <1>2, <1>3, <3>1
  <2>2. commands' \in Seq(Commands) /\ shell' \in Shell
    <3>1. Command("list", c.plugin, c.front, c.kind) \in Commands
      BY <1>1, CommandOK DEF Kinds
    <3> QED
      BY <1>1, <1>2, <1>3, <3>1 DEF Ended
  <2> QED
    BY <1>2, <2>1, <2>2, OthersKeepCalls
<1>4. CASE \E v \in {disk[c.plugin], 0} :
             /\ disk' = [disk EXCEPT ![c.plugin] = v]
             /\ Failed(c, disk') /\ commands' = Tail(commands)
  <2>1. disk' \in [Plugins -> Versions]
    BY <1>1, <1>2, <1>4 DEF Versions
  <2>2. shell' \in Shell
    BY <1>1, <1>4, FlagsOK, Zenon DEF Failed
  <2> QED
    BY <1>1, <1>2, <1>4, <2>1, <2>2, OthersKeepCalls
<1> QED
  BY <1>3, <1>4 DEF ChangeDisk

LEMMA NothingInstalled_Inv ==
  ASSUME HostInv, NothingInstalled
  PROVE  HostInv'
<1>1. Head(commands) \in Commands /\ Tail(commands) \in Seq(Commands)
  BY QueueOK DEF NothingInstalled
<1>2. shell' \in Shell
  BY <1>1, FlagsOK DEF NothingInstalled
<1> QED
  BY <1>1, <1>2, OthersKeepCalls DEF NothingInstalled, HostInv, HostTypeOK

LEMMA refreshInstalledPluginState_Inv ==
  ASSUME HostInv, refreshInstalledPluginState
  PROVE  HostInv'
<1> DEFINE c == Head(commands)
           wanted == IF c.purpose = "install" THEN c.plugin
                     ELSE IF c.front = c.plugin THEN 0 ELSE shell.front
           flags == [Released(c) EXCEPT !.stale = FALSE]
<1>1. /\ c \in Commands /\ wanted \in Plugins \cup {0} /\ Tail(commands) \in Seq(Commands)
      /\ disk \in [Plugins -> Versions]
  BY QueueOK DEF refreshInstalledPluginState, Commands, HostInv, HostTypeOK, Shell
<1>2. flags \in Shell /\ [Released(c) EXCEPT !.stale = TRUE] \in Shell
  BY <1>1, FlagsOK
<1>3. flags.page = shell.page
  BY DEF Released, HostInv, HostTypeOK, Shell
<1>4. CASE Show(disk, wanted, flags, Tail(commands))
  <2>1. shell' \in Shell /\ commands' \in Seq(Commands)
    BY <1>1, <1>2, <1>3, <1>4, ShowOK
  <2> QED
    BY <2>1, OthersKeepCalls DEF refreshInstalledPluginState, HostInv, HostTypeOK
<1>5. CASE shell' = [Released(c) EXCEPT !.stale = TRUE] /\ commands' = Tail(commands)
  BY <1>1, <1>2, <1>5, OthersKeepCalls DEF refreshInstalledPluginState, HostInv, HostTypeOK
<1> QED
  BY <1>4, <1>5 DEF refreshInstalledPluginState

LEMMA PageArrives_Inv ==
  ASSUME HostInv, PageArrives
  PROVE  HostInv'
<1> DEFINE c == Head(commands)
           Pages == [plugin : Plugins \cup {0}, version : Versions]
           read == {Blank} \cup {[plugin |-> c.plugin, version |-> v] : v \in {disk[c.plugin]} \ {0}}
<1>1. c \in Commands /\ c.plugin \in Plugins /\ Tail(commands) \in Seq(Commands)
  BY QueueOK DEF PageArrives, Commands
<1>2. read \subseteq Pages
  BY <1>1 DEF Blank, Versions, HostInv, HostTypeOK
<1>3. shell' \in Shell
  <2>1. \A page \in Pages : [shell EXCEPT !.page = page, !.outdated = FALSE] \in Shell
    BY DEF Shell, HostInv, HostTypeOK
  <2> QED
    BY <1>2, <2>1 DEF PageArrives, HostInv, HostTypeOK
<1> QED
  BY <1>1, <1>3, OthersKeepCalls DEF PageArrives, HostInv, HostTypeOK

----------------------------------------------------------------------------

LEMMA Init_Inv == Init => HostInv
<1> SUFFICES ASSUME Init PROVE HostInv
  OBVIOUS
<1>1. /\ processes = [n \in 1..MaxProcesses |-> Nobody] /\ registry = [p \in Plugins |-> 0]
      /\ rpcs = {} /\ commands = <<>> /\ lateStarts = {}
  BY DEF Init
<1>2. Orderly(processes, registry, rpcs)
  BY <1>1, NobodyOK DEF Orderly, OneReader, Alive, InStep, Closed
<1>3. disk \in [Plugins -> Versions]
  BY DEF Init, Versions
<1>4. shell \in Shell
  <2>1. PICK f \in {0} \cup Plugins :
          /\ f # 0 => f \in Plugins
          /\ shell = [list |-> disk, front |-> f, busy |-> FALSE, removing |-> 0,
                      page |-> IF f = 0 THEN Blank ELSE [plugin |-> f, version |-> disk[f]],
                      outdated |-> FALSE, stale |-> FALSE]
    BY DEF Init
  <2>2. (IF f = 0 THEN Blank ELSE [plugin |-> f, version |-> disk[f]])
          \in [plugin : Plugins \cup {0}, version : Versions]
    BY <1>3, <2>1 DEF Blank, Versions
  <2> QED
    BY <1>3, <2>1, <2>2 DEF Shell
<1> QED
  BY <1>1, <1>2, <1>3, <1>4 DEF HostInv, HostTypeOK, Orderly

\* The user has packages of plugins.
LEMMA Next_Inv ==
  ASSUME Packages \subseteq Plugins, HostInv, [Next]_hostVars
  PROVE  HostInv'
<1>1. CASE \E c \in rpcs : Register(c) \/ Ask(c) \/ ReadAnswer(c) \/ ReadEnd(c)
  BY <1>1, Register_Inv, Ask_Inv, ReadAnswer_Inv, ReadEnd_Inv
<1>2. DOMAIN processes = 1..MaxProcesses
  BY DEF HostInv, HostTypeOK
<1>3. CASE \E n \in DOMAIN processes :
             BackendAnswers(n) \/ BackendEnds(n) \/ BackendCrashes(n)
  <2>1. ASSUME NEW n \in 1..MaxProcesses, BackendEnds(n) \/ BackendCrashes(n)
        PROVE  processes[n].state # "none" /\ Exits(n)
    BY <2>1 DEF BackendEnds, BackendCrashes
  <2> QED
    BY <1>2, <1>3, <2>1, BackendAnswers_Inv, Exits_Inv
<1>4. CASE StopFirst \/ ChangeDisk \/ NothingInstalled \/ refreshInstalledPluginState \/ PageArrives
  BY <1>4, StopFirst_Inv, ChangeDisk_Inv, NothingInstalled_Inv, refreshInstalledPluginState_Inv,
     PageArrives_Inv
<1>5. CASE rpc_request
  BY <1>5, rpc_request_Inv
<1>6. CASE \/ \E f \in Plugins \cup {0} : handleSelectWorkspace(f)
           \/ \E p \in Packages : handleInstallPlugin(p)
           \/ \E p \in Plugins : handleUninstallPlugin(p)
  BY <1>6, Gestures_Inv
<1>7. CASE UNCHANGED hostVars
  BY <1>7, OthersKeepCalls DEF hostVars, HostInv, HostTypeOK
<1> QED
  BY <1>1, <1>3, <1>4, <1>5, <1>6, <1>7 DEF Next, HostWorks

\* The host's and the window's state have their types, for any plugins and bounds.
THEOREM HostTypes ==
  ASSUME Packages \subseteq Plugins
  PROVE  Spec => []HostTypeOK
<1>1. Init => HostInv
  BY Init_Inv
<1>2. HostInv /\ [Next]_hostVars => HostInv'
  BY Next_Inv
<1>3. HostInv => HostTypeOK
  BY DEF HostInv
<1> QED
  BY <1>1, <1>2, <1>3, PTL DEF Spec

\* A call reads its own answer (AnswersInStep), for any plugins, backends and calls.
THEOREM CallsReadTheirAnswers ==
  ASSUME Packages \subseteq Plugins
  PROVE  Spec => []AnswersInStep
<1>1. Init => HostInv
  BY Init_Inv
<1>2. HostInv /\ [Next]_hostVars => HostInv'
  BY Next_Inv
<1>3. HostInv => AnswersInStep
  BY HostInvImplies
<1> QED
  BY <1>1, <1>2, <1>3, PTL DEF Spec

----------------------------------------------------------------------------
(***************************************************************************)
(* Plugins run and are shown as they are installed: for any number of      *)
(* plugins, backends, calls and gestures.                                  *)
(*                                                                         *)
(* RunInv is about the host: no backend but one of the version installed   *)
(* is registered, or about to be, while its plugin is not being stopped.   *)
(* WindowInv is about the window: whatever the list, the buttons or the    *)
(* page show that is not so on disk, a command is pending that will put it *)
(* right.  It is stated of any list on disk, window and pending commands,  *)
(* since only what is pending matters to it and never in which order.      *)
(***************************************************************************)

\* only the command to run next may have stopped its plugin
OneStopped ==
  \A i \in DOMAIN commands :
    commands[i].state = "stopped" => i = 1 /\ commands[i].kind \in {"install", "uninstall"}

Serves(b, p) == b.plugin = p /\ b.version = disk[p]

\* What is registered, or about to be, is of the version installed; while a plugin is stopped
\* nothing is registered for it.  Plugins whose backend was started meanwhile are left out.
RegistryInv ==
  \A p \in Plugins \ lateStarts :
    /\ Stopping(p) => registry[p] = 0
    /\ ~Stopping(p) /\ registry[p] # 0 => Serves(processes[registry[p]], p)
    /\ ~Stopping(p) =>
         \A c \in rpcs : c.plugin = p /\ c.pc = "registering" => Serves(processes[c.process], p)

\* a backend is of a plugin that was installed when it was started
VersionsInv == \A n \in 1..MaxProcesses : processes[n].state # "none" => processes[n].version # 0

RunInv == OneStopped /\ RegistryInv /\ VersionsInv

----------------------------------------------------------------------------
(* Backends. *)

\* each is still there, of the same plugin and version, or nobody is
Keeps(new) ==
  \A n \in 1..MaxProcesses :
    \/ new[n] = Nobody
    \/ /\ new[n].plugin = processes[n].plugin /\ new[n].version = processes[n].version
       /\ processes[n].state = "none" => new[n].state = "none"

\* A backend's state and pipes change.
LEMMA BecomesKeeps ==
  ASSUME HostInv, NEW n \in 1..MaxProcesses, processes[n].state # "none",
         NEW state, NEW input, NEW output
  PROVE  Keeps(Becomes(n, state, input, output))
BY DEF HostInv, HostTypeOK, Becomes, Process, Keeps

\* Those that nothing holds are dropped.
LEMMA DropsKeep ==
  ASSUME NEW procs, DOMAIN procs = 1..MaxProcesses, Keeps(procs), NEW reg, NEW calls
  PROVE  Keeps(Dropped(procs, reg, calls))
BY DEF Dropped, Keeps

\* While backends are kept and nothing new is registered, RunInv remains.
LEMMA RunRemains ==
  ASSUME HostInv, HostInv', RunInv, Keeps(processes'), UNCHANGED <<disk, commands, lateStarts>>,
         \A p \in Plugins : registry'[p] \in {0, registry[p]},
         \A c \in rpcs' : c.pc = "registering" => c \in rpcs
  PROVE  RunInv'
<1>1. OneStopped' /\ \A p \in Plugins : Stopping(p)' <=> Stopping(p)
  BY DEF RunInv, OneStopped, Stopping
<1>2. VersionsInv'
  BY DEF RunInv, VersionsInv, Keeps, Nobody, Process
<1>3. ASSUME NEW n \in 1..MaxProcesses, processes'[n].state # "none"
      PROVE  processes'[n].plugin = processes[n].plugin /\ processes'[n].version = processes[n].version
  BY <1>3 DEF Keeps, Nobody, Process
<1>4. RegistryInv'
  <2> SUFFICES ASSUME NEW p \in Plugins \ lateStarts
               PROVE  /\ Stopping(p) => registry'[p] = 0
                      /\ ~Stopping(p) /\ registry'[p] # 0 => Serves(processes'[registry'[p]], p)
                      /\ ~Stopping(p) =>
                           \A c \in rpcs' : c.plugin = p /\ c.pc = "registering" => Serves(processes'[c.process], p)
    BY <1>1 DEF RegistryInv, Serves
  <2>1. registry'[p] # 0 =>
          registry'[p] = registry[p] /\ registry[p] \in 1..MaxProcesses /\ processes'[registry[p]].state # "none"
    BY DEF HostInv, HostTypeOK, Orderly, Alive
  <2>2. \A c \in rpcs' : c.pc = "registering" =>
          c \in rpcs /\ c.process \in 1..MaxProcesses /\ processes'[c.process].state # "none"
    BY DEF HostInv, HostTypeOK, Orderly, Alive, Rpc
  <2> QED
    BY <1>3, <2>1, <2>2 DEF RunInv, RegistryInv, Serves
<1> QED
  BY <1>1, <1>2, <1>4 DEF RunInv

----------------------------------------------------------------------------
(* The host's steps. *)

\* A call asks, its answer or its end is read, a backend answers or exits.
LEMMA CallsRemain ==
  ASSUME HostInv, HostInv', RunInv, NEW c \in rpcs, Ask(c) \/ ReadAnswer(c) \/ ReadEnd(c)
  PROVE  RunInv'
<1>1. /\ c.process \in 1..MaxProcesses /\ processes[c.process].state # "none"
      /\ processes \in [1..MaxProcesses -> Backend]
  BY DEF HostInv, HostTypeOK, Orderly, Alive, Rpc
<1>2. Keeps(processes)
  BY DEF Keeps
<1>3. CASE Ask(c)
  <2>1. /\ UNCHANGED <<disk, registry, commands, lateStarts>>
        /\ rpcs' \subseteq rpcs \cup {At(c, "reading", c.process)}
    BY <1>3 DEF Ask, Gone, Moved
  <2>2. \A d \in rpcs' : d.pc = "registering" => d \in rpcs
    BY <2>1 DEF At
  <2>3. Keeps(processes')
    BY <1>1, <1>2, <1>3, BecomesKeeps, DropsKeep DEF Ask, Gone
  <2> QED
    BY <2>1, <2>2, <2>3, RunRemains
<1>4. CASE ReadAnswer(c)
  <2>1. UNCHANGED <<disk, registry, commands, lateStarts>> /\ rpcs' \subseteq rpcs
    BY <1>4 DEF ReadAnswer
  <2>2. Keeps(processes')
    <3> DEFINE b == processes[c.process]
               procs == Becomes(c.process, b.state, b.input, Tail(b.output))
    <3>1. processes' = Dropped(procs, registry, rpcs')
      BY <1>4 DEF ReadAnswer
    <3>2. Keeps(procs) /\ DOMAIN procs = 1..MaxProcesses
      BY <1>1, BecomesKeeps DEF Becomes
    <3> HIDE DEF procs
    <3> QED
      BY <3>1, <3>2, DropsKeep
  <2> QED
    BY <2>1, <2>2, RunRemains
<1>5. CASE ReadEnd(c)
  <2>1. /\ UNCHANGED <<disk, commands, lateStarts>> /\ rpcs' \subseteq rpcs
        /\ registry' = [registry EXCEPT ![c.plugin] = 0]
        /\ processes' = Dropped(processes, registry', rpcs')
    BY <1>5 DEF ReadEnd
  <2>2. \A p \in Plugins : registry'[p] \in {0, registry[p]}
    BY <2>1 DEF HostInv, HostTypeOK
  <2>3. Keeps(processes')
    BY <1>1, <1>2, <2>1, DropsKeep
  <2> QED
    BY <2>1, <2>2, <2>3, RunRemains
<1> QED
  BY <1>3, <1>4, <1>5

LEMMA BackendsRemain ==
  ASSUME HostInv, HostInv', RunInv, NEW n \in 1..MaxProcesses,
         BackendAnswers(n) \/ (processes[n].state # "none" /\ Exits(n))
  PROVE  RunInv'
<1>1. UNCHANGED <<disk, registry, rpcs, commands, lateStarts>> /\ processes[n].state # "none"
  BY DEF BackendAnswers, Exits
<1>2. Keeps(processes')
  <2>1. CASE BackendAnswers(n)
    BY <1>1, <2>1, BecomesKeeps DEF BackendAnswers
  <2>2. CASE Exits(n)
    <3> DEFINE procs == Becomes(n, "exited", <<>>, processes[n].output)
    <3>1. processes' = Dropped(procs, registry, rpcs)
      BY <2>2 DEF Exits
    <3>2. Keeps(procs) /\ DOMAIN procs = 1..MaxProcesses
      BY <1>1, BecomesKeeps DEF Becomes, HostInv, HostTypeOK
    <3> HIDE DEF procs
    <3> QED
      BY <3>1, <3>2, DropsKeep
  <2> QED
    BY <2>1, <2>2
<1> QED
  BY <1>1, <1>2, RunRemains

\* The first backend registered serves the call, of the version it was started with.
LEMMA RegisterRemains ==
  ASSUME HostInv, HostInv', RunInv, NEW c \in rpcs, Register(c)
  PROVE  RunInv'
<1> DEFINE n == Registered(c.plugin, c.process)
<1>1. /\ c.pc = "registering" /\ registry' = [registry EXCEPT ![c.plugin] = n]
      /\ rpcs' = (rpcs \ {c}) \cup {At(c, "queued", n)}
      /\ processes' = Dropped(processes, registry', rpcs')
      /\ lateStarts' = IF Stopping(c.plugin) THEN lateStarts \cup {c.plugin} ELSE lateStarts
      /\ UNCHANGED <<disk, commands>>
  BY DEF Register, Moved
<1>2. /\ c.plugin \in Plugins /\ c.process \in 1..MaxProcesses
      /\ processes \in [1..MaxProcesses -> Backend] /\ registry \in [Plugins -> {0} \cup 1..MaxProcesses]
  BY DEF HostInv, HostTypeOK, Rpc
<1>3. OneStopped' /\ \A p \in Plugins : Stopping(p)' <=> Stopping(p)
  BY <1>1 DEF RunInv, OneStopped, Stopping
<1>4. Keeps(processes')
  <2>1. Keeps(processes)
    BY DEF Keeps
  <2> QED
    BY <1>1, <1>2, <2>1, DropsKeep
<1>5. VersionsInv'
  BY <1>4 DEF RunInv, VersionsInv, Keeps, Nobody, Process
<1>6. ASSUME NEW m \in 1..MaxProcesses, processes'[m].state # "none"
      PROVE  processes'[m].plugin = processes[m].plugin /\ processes'[m].version = processes[m].version
  BY <1>4, <1>6 DEF Keeps, Nobody, Process
<1>7. RegistryInv'
  <2> SUFFICES ASSUME NEW p \in Plugins \ lateStarts'
               PROVE  /\ Stopping(p) => registry'[p] = 0
                      /\ ~Stopping(p) /\ registry'[p] # 0 => Serves(processes'[registry'[p]], p)
                      /\ ~Stopping(p) =>
                           \A d \in rpcs' : d.plugin = p /\ d.pc = "registering" => Serves(processes'[d.process], p)
    <3>1. UNCHANGED disk
      BY <1>1
    <3> QED
      BY <1>3, <3>1 DEF RegistryInv, Serves
  <2>1. p \in Plugins \ lateStarts /\ (p = c.plugin => ~Stopping(p))
    BY <1>1
  <2>2. \A d \in rpcs' : d.pc = "registering" =>
          d \in rpcs /\ d.process \in 1..MaxProcesses /\ processes'[d.process].state # "none"
    BY <1>1 DEF HostInv, HostTypeOK, Orderly, Alive, Rpc, At
  <2>3. registry'[p] # 0 => registry'[p] \in 1..MaxProcesses /\ processes'[registry'[p]].state # "none"
    BY DEF HostInv, HostTypeOK, Orderly, Alive
  <2>4. registry'[p] = registry[p]
        \/ (p = c.plugin /\ registry'[p] = c.process /\ Serves(processes[c.process], p))
    BY <1>1, <1>2, <2>1 DEF Registered, RunInv, RegistryInv
  <2>5. \A d \in rpcs' : ~Stopping(p) /\ d.plugin = p /\ d.pc = "registering" =>
          Serves(processes'[d.process], p)
    BY <1>6, <2>1, <2>2 DEF RunInv, RegistryInv, Serves
  <2>6. ~Stopping(p) /\ registry'[p] # 0 => Serves(processes'[registry'[p]], p)
    BY <1>6, <2>1, <2>3, <2>4 DEF RunInv, RegistryInv, Serves
  <2>7. Stopping(p) => registry'[p] = 0
    BY <2>1, <2>4 DEF RunInv, RegistryInv
  <2> QED
    BY <2>5, <2>6, <2>7
<1> QED
  BY <1>3, <1>5, <1>7 DEF RunInv

\* A call finds its backend registered, or one is started of the version installed.
LEMMA RequestRemains ==
  ASSUME HostInv, HostInv', RunInv, rpc_request
  PROVE  RunInv'
<1>1. PICK id \in 1..MaxRpcs :
        ensure_runtime([id |-> id, plugin |-> shell.front, pc |-> "registering", process |-> 0])
  BY DEF rpc_request
<1> DEFINE c == [id |-> id, plugin |-> shell.front, pc |-> "registering", process |-> 0]
           p == shell.front
<1>2. UNCHANGED <<disk, registry, commands, lateStarts>> /\ p \in Plugins /\ disk[p] \in Versions
  BY DEF rpc_request, HostInv, HostTypeOK, Shell
<1>3. CASE registry[p] # 0 /\ rpcs' = rpcs \cup {At(c, "queued", registry[p])} /\ UNCHANGED processes
  <2>1. Keeps(processes') /\ \A d \in rpcs' : d.pc = "registering" => d \in rpcs
    BY <1>3 DEF Keeps, At
  <2> QED
    BY <1>2, <2>1, RunRemains
<1>4. CASE UNCHANGED <<rpcs, processes>>
  <2>1. Keeps(processes')
    BY <1>4 DEF Keeps
  <2> QED
    BY <1>2, <1>4, <2>1, RunRemains
<1>5. ASSUME registry[p] = 0, disk[p] # 0, NEW n \in DOMAIN processes, processes[n] = Nobody,
             processes' = [processes EXCEPT ![n] = Process(p, disk[p], "running", <<>>, <<>>)],
             rpcs' = rpcs \cup {At(c, "registering", n)}
      PROVE  RunInv'
  <2>1. n \in 1..MaxProcesses /\ processes \in [1..MaxProcesses -> Backend]
    BY <1>5 DEF HostInv, HostTypeOK
  <2>2. /\ processes'[n].plugin = p /\ processes'[n].version = disk[p] /\ processes[n].state = "none"
        /\ \A m \in 1..MaxProcesses : m # n => processes'[m] = processes[m]
    BY <1>5, <2>1 DEF Process, Nobody
  <2>3. OneStopped' /\ \A q \in Plugins : Stopping(q)' <=> Stopping(q)
    BY <1>2 DEF RunInv, OneStopped, Stopping
  <2>4. VersionsInv'
    BY <1>5, <2>2 DEF RunInv, VersionsInv
  <2>5. RegistryInv'
    <3> SUFFICES ASSUME NEW q \in Plugins \ lateStarts
                 PROVE  /\ Stopping(q) => registry[q] = 0
                        /\ ~Stopping(q) /\ registry[q] # 0 => Serves(processes'[registry[q]], q)
                        /\ ~Stopping(q) =>
                             \A d \in rpcs' : d.plugin = q /\ d.pc = "registering" => Serves(processes'[d.process], q)
      BY <1>2, <2>3 DEF RegistryInv, Serves
    <3>1. registry[q] # 0 => registry[q] \in 1..MaxProcesses /\ registry[q] # n
      BY <2>2 DEF HostInv, HostTypeOK, Orderly, Alive
    <3>2. \A d \in rpcs : d.process \in 1..MaxProcesses /\ d.process # n
      BY <2>2 DEF HostInv, HostTypeOK, Orderly, Alive, Rpc
    <3>3. At(c, "registering", n).plugin = p /\ At(c, "registering", n).process = n
      BY DEF At
    <3> QED
      BY <1>5, <2>2, <3>1, <3>2, <3>3 DEF RunInv, RegistryInv, Serves
  <2> QED
    BY <2>3, <2>4, <2>5 DEF RunInv
<1> QED
  BY <1>1, <1>3, <1>4, <1>5 DEF ensure_runtime

----------------------------------------------------------------------------
(* The queue of commands, and what it says of plugins that are stopped. *)

\* nothing in the queue has stopped its plugin yet
Asked(q) == \A i \in DOMAIN q : q[i].state = "asked"

LEMMA QueueHolds ==
  ASSUME NEW q \in Seq(Commands)
  PROVE  /\ DOMAIN q = 1..Len(q) /\ Len(q) \in Nat
         /\ \A i \in DOMAIN q : q[i].state \in {"asked", "stopped"}
         /\ DOMAIN Forgotten(q) = DOMAIN q
         /\ \A i \in DOMAIN q :
              /\ Forgotten(q)[i].plugin = q[i].plugin /\ Forgotten(q)[i].kind = q[i].kind
              /\ Forgotten(q)[i].state = q[i].state
<1>1. DOMAIN q = 1..Len(q) /\ Len(q) \in Nat /\ \A i \in DOMAIN q : q[i] \in Commands
  OBVIOUS
<1>2. ASSUME NEW c \in Commands
      PROVE  /\ c.state \in {"asked", "stopped"}
             /\ [c EXCEPT !.live = FALSE].plugin = c.plugin /\ [c EXCEPT !.live = FALSE].kind = c.kind
             /\ [c EXCEPT !.live = FALSE].state = c.state
  BY DEF Commands
<1>3. DOMAIN Forgotten(q) = DOMAIN q /\ \A i \in DOMAIN q : Forgotten(q)[i] = [q[i] EXCEPT !.live = FALSE]
  BY DEF Forgotten
<1> QED
  BY <1>1, <1>2, <1>3

LEMMA AskedQueues ==
  ASSUME NEW q \in Seq(Commands), Asked(q)
  PROVE  /\ Asked(Forgotten(q))
         /\ \A c \in Commands : c.state = "asked" => Asked(Append(q, c)) /\ Asked(Append(Forgotten(q), c))
<1>1. DOMAIN Forgotten(q) = DOMAIN q /\ \A i \in DOMAIN q : Forgotten(q)[i].state = q[i].state
  BY QueueHolds
<1>2. Asked(Forgotten(q))
  BY <1>1 DEF Asked
<1>3. ASSUME NEW s \in Seq(Commands), Asked(s), NEW c \in Commands, c.state = "asked"
      PROVE  Asked(Append(s, c))
  BY <1>3 DEF Asked
<1> QED
  BY <1>2, <1>3, ForgottenOK

\* Behind the first command none has stopped its plugin.
LEMMA TailAsked ==
  ASSUME HostInv, OneStopped, commands # <<>>
  PROVE  Asked(Tail(commands))
<1>0. commands \in Seq(Commands)
  BY DEF HostInv, HostTypeOK
<1>1. /\ Len(commands) \in Nat /\ DOMAIN commands = 1..Len(commands)
      /\ \A i \in DOMAIN commands : commands[i].state \in {"asked", "stopped"}
      /\ DOMAIN Tail(commands) = 1..(Len(commands) - 1)
      /\ \A i \in 1..(Len(commands) - 1) : Tail(commands)[i] = commands[i + 1]
  <2>1. /\ DOMAIN Tail(commands) = 1..(Len(commands) - 1)
        /\ \A i \in 1..(Len(commands) - 1) : Tail(commands)[i] = commands[i + 1]
    BY <1>0
  <2> QED
    BY <1>0, <2>1, QueueHolds
<1>2. \A i \in 1..(Len(commands) - 1) : i + 1 \in DOMAIN commands /\ i + 1 # 1
  BY <1>1
<1> QED
  BY <1>1, <1>2 DEF OneStopped, Asked

LEMMA AskedStopsNone ==
  ASSUME Asked(commands)
  PROVE  OneStopped /\ \A p \in Plugins : ~Stopping(p)
BY DEF Asked, OneStopped, Stopping

\* A queue whose first command is still asked has stopped no plugin.
LEMMA HeadAsked ==
  ASSUME HostInv, OneStopped, commands # <<>>, Head(commands).state = "asked"
  PROVE  Asked(commands)
BY QueueOK, QueueHolds DEF OneStopped, Asked, HostInv, HostTypeOK

\* commands that come stop nothing by themselves, and pages that are no longer wanted neither
SameStops(q) ==
  /\ DOMAIN commands \subseteq DOMAIN q
  /\ \A i \in DOMAIN q :
       IF i \in DOMAIN commands
       THEN /\ q[i].plugin = commands[i].plugin /\ q[i].kind = commands[i].kind
            /\ q[i].state = commands[i].state
       ELSE q[i].state = "asked"

LEMMA CommandsCome ==
  ASSUME HostInv
  PROVE  /\ SameStops(commands) /\ SameStops(Forgotten(commands))
         /\ \A c \in Commands : c.state = "asked" =>
              SameStops(Append(commands, c)) /\ SameStops(Append(Forgotten(commands), c))
<1>1. /\ DOMAIN Forgotten(commands) = DOMAIN commands
      /\ \A i \in DOMAIN commands :
           /\ Forgotten(commands)[i].plugin = commands[i].plugin
           /\ Forgotten(commands)[i].kind = commands[i].kind
           /\ Forgotten(commands)[i].state = commands[i].state
  BY QueueHolds DEF HostInv, HostTypeOK
<1>2. Forgotten(commands) \in Seq(Commands) /\ commands \in Seq(Commands)
  BY ForgottenOK DEF HostInv, HostTypeOK
<1>3. ASSUME NEW q \in Seq(Commands), SameStops(q), DOMAIN q = DOMAIN commands,
             NEW c \in Commands, c.state = "asked"
      PROVE  SameStops(Append(q, c))
  <2>1. /\ DOMAIN q = 1..Len(q) /\ Len(q) \in Nat /\ DOMAIN Append(q, c) = 1..(Len(q) + 1)
        /\ \A i \in DOMAIN q : Append(q, c)[i] = q[i]
        /\ Append(q, c)[Len(q) + 1] = c
    OBVIOUS
  <2> QED
    BY <1>3, <2>1 DEF SameStops
<1>4. SameStops(commands) /\ SameStops(Forgotten(commands))
  BY <1>1 DEF SameStops
<1> QED
  BY <1>1, <1>2, <1>3, <1>4

LEMMA SameStopped ==
  ASSUME OneStopped, SameStops(commands')
  PROVE  OneStopped' /\ \A p \in Plugins : Stopping(p)' <=> Stopping(p)
BY DEF OneStopped, Stopping, SameStops

\* The window leaves the host alone.
LEMMA HostUntouched ==
  ASSUME RunInv, UNCHANGED <<disk, processes, registry, rpcs, lateStarts>>, OneStopped',
         \A p \in Plugins : Stopping(p)' <=> Stopping(p)
  PROVE  RunInv'
BY DEF RunInv, RegistryInv, VersionsInv, Serves

----------------------------------------------------------------------------
(* The commands' steps and the window's. *)

\* An uninstalled plugin has no backend; one that is installed has none once it was stopped.
LEMMA StopFirstRemains ==
  ASSUME HostInv, HostInv', RunInv, StopFirst
  PROVE  RunInv'
<1> DEFINE k == Head(commands)
           p == k.plugin
<1>1. /\ commands # <<>> /\ k.state = "asked" /\ k.kind \in {"install", "uninstall"}
      /\ UNCHANGED <<disk, rpcs>> /\ commands' = [commands EXCEPT ![1].state = "stopped"]
  BY DEF StopFirst
<1>2. /\ k \in Commands /\ k = commands[1] /\ 1 \in DOMAIN commands /\ p \in Plugins
  BY <1>1, QueueOK DEF Commands
<1>3. Asked(commands) /\ \A q \in Plugins : ~Stopping(q)
  BY <1>1, HeadAsked, AskedStopsNone DEF RunInv
<1>4. /\ DOMAIN commands' = DOMAIN commands
      /\ commands'[1].state = "stopped" /\ commands'[1].plugin = p /\ commands'[1].kind = k.kind
      /\ \A i \in DOMAIN commands : i # 1 => commands'[i] = commands[i]
  BY <1>1, <1>2 DEF HostInv, HostTypeOK, Commands
<1>5. OneStopped' /\ \A q \in Plugins : Stopping(q)' <=> q = p
  BY <1>1, <1>2, <1>3, <1>4 DEF Asked, OneStopped, Stopping
<1>6. Keeps(processes') /\ \A q \in Plugins : q # p => registry'[q] = registry[q]
  <2>1. Keeps(processes) /\ DOMAIN processes = 1..MaxProcesses
    BY DEF Keeps, HostInv, HostTypeOK
  <2>2. CASE Stopped(p)
    <3> DEFINE n == registry[p]
               killed == n # 0 /\ ~Locked(n) /\ processes[n].state = "running"
               procs == IF killed THEN Becomes(n, "killed", <<>>, <<>>) ELSE processes
    <3>1. processes' = Dropped(procs, registry', rpcs) /\ registry' = [registry EXCEPT ![p] = 0]
      BY <2>2 DEF Stopped
    <3>2. Keeps(procs) /\ DOMAIN procs = 1..MaxProcesses
      <4>1. CASE killed
        <5>1. n \in 1..MaxProcesses /\ processes[n].state # "none"
          BY <1>2, <4>1 DEF HostInv, HostTypeOK
        <5>2. Keeps(Becomes(n, "killed", <<>>, <<>>)) /\ DOMAIN Becomes(n, "killed", <<>>, <<>>) = 1..MaxProcesses
          BY <2>1, <5>1, BecomesKeeps DEF Becomes
        <5> QED
          BY <4>1, <5>2
      <4>2. CASE ~killed
        BY <2>1, <4>2
      <4> QED
        BY <4>1, <4>2
    <3> HIDE DEF procs
    <3>3. Keeps(processes')
      BY <3>1, <3>2, DropsKeep
    <3> QED
      BY <3>1, <3>3 DEF HostInv, HostTypeOK
  <2>3. CASE UNCHANGED <<registry, processes, lateStarts>>
    BY <2>1, <2>3
  <2> QED
    BY <2>2, <2>3 DEF StopFirst
<1>7. VersionsInv'
  BY <1>6 DEF RunInv, VersionsInv, Keeps, Nobody, Process
<1>8. ASSUME NEW m \in 1..MaxProcesses, processes'[m].state # "none"
      PROVE  processes'[m].plugin = processes[m].plugin /\ processes'[m].version = processes[m].version
  BY <1>6, <1>8 DEF Keeps, Nobody, Process
<1>9. p \notin lateStarts' => registry'[p] = 0
  <2>1. CASE Stopped(p)
    BY <1>2, <2>1 DEF Stopped, HostInv, HostTypeOK
  <2>2. CASE UNCHANGED <<registry, processes, lateStarts>> /\ disk[p] = 0
    <3>1. registry[p] # 0 => registry[p] \in 1..MaxProcesses /\ processes[registry[p]].state # "none"
      BY <1>2 DEF HostInv, HostTypeOK, Orderly, Alive
    <3> QED
      BY <1>2, <1>3, <2>2, <3>1 DEF RunInv, RegistryInv, Serves, VersionsInv
  <2> QED
    BY <2>1, <2>2 DEF StopFirst
<1>10. lateStarts' \ {p} = lateStarts \ {p}
  BY DEF StopFirst, Stopped
<1>11. RegistryInv'
  <2> SUFFICES ASSUME NEW q \in Plugins \ lateStarts'
               PROVE  /\ q = p => registry'[q] = 0
                      /\ q # p /\ registry'[q] # 0 => Serves(processes'[registry'[q]], q)
                      /\ q # p =>
                           \A d \in rpcs' : d.plugin = q /\ d.pc = "registering" => Serves(processes'[d.process], q)
    BY <1>1, <1>5 DEF RegistryInv, Serves
  <2>1. q # p => q \in Plugins \ lateStarts /\ ~Stopping(q)
    BY <1>3, <1>10
  <2>2. registry'[q] # 0 => registry'[q] \in 1..MaxProcesses /\ processes'[registry'[q]].state # "none"
    BY DEF HostInv, HostTypeOK, Orderly, Alive
  <2>3. \A d \in rpcs' : d \in rpcs /\ d.process \in 1..MaxProcesses /\ processes'[d.process].state # "none"
    BY <1>1 DEF HostInv, HostTypeOK, Orderly, Alive, Rpc
  <2> QED
    BY <1>6, <1>8, <1>9, <2>1, <2>2, <2>3 DEF RunInv, RegistryInv, Serves
<1> QED
  BY <1>5, <1>7, <1>11 DEF RunInv

\* The version installed changes while nothing is registered, or the plugin counts as late.
LEMMA ChangeDiskRemains ==
  ASSUME HostInv, HostInv', RunInv, ChangeDisk
  PROVE  RunInv'
<1> DEFINE k == Head(commands)
           p == k.plugin
           starting == \E r \in rpcs : r.plugin = p /\ r.pc = "registering"
<1>1. /\ commands # <<>> /\ k.state = "stopped" /\ UNCHANGED <<processes, registry, rpcs>>
      /\ lateStarts' = IF starting THEN lateStarts \cup {p} ELSE lateStarts
      /\ \E v : disk' = [disk EXCEPT ![p] = v]
  BY DEF ChangeDisk
<1>2. /\ k \in Commands /\ k = commands[1] /\ 1 \in DOMAIN commands /\ p \in Plugins
      /\ Tail(commands) \in Seq(Commands)
  BY <1>1, QueueOK DEF Commands
<1>3. \A q \in Plugins : q # p => disk'[q] = disk[q]
  BY <1>1, <1>2 DEF HostInv, HostTypeOK
<1>4. \A q \in Plugins : Stopping(q) <=> q = p
  BY <1>1, <1>2 DEF RunInv, OneStopped, Stopping
<1>5. Asked(Tail(commands))
  BY <1>1, TailAsked DEF RunInv
<1>6. Asked(commands')
  <2>1. CASE commands' = Tail(commands)
    BY <1>5, <2>1
  <2>2. CASE Ended(k)
    <3>1. Command("list", p, k.front, k.kind) \in Commands /\ Command("list", p, k.front, k.kind).state = "asked"
      BY <1>2, CommandOK DEF Kinds, Command, Commands
    <3>2. commands' = Append(Tail(commands), Command("list", p, k.front, k.kind))
      BY <2>2 DEF Ended
    <3> QED
      BY <1>2, <1>5, <3>1, <3>2, AskedQueues
  <2> QED
    BY <2>1, <2>2 DEF ChangeDisk
<1>7. OneStopped' /\ \A q \in Plugins : ~Stopping(q)'
  BY <1>6 DEF Asked, OneStopped, Stopping
<1>8. VersionsInv'
  BY <1>1 DEF RunInv, VersionsInv
<1>9. RegistryInv'
  <2> SUFFICES ASSUME NEW q \in Plugins \ lateStarts'
               PROVE  /\ registry[q] # 0 => Serves(processes[registry[q]], q)'
                      /\ \A d \in rpcs : d.plugin = q /\ d.pc = "registering" => Serves(processes[d.process], q)'
    BY <1>1, <1>7 DEF RegistryInv, Serves
  <2>1. q \in Plugins \ lateStarts /\ (q = p => ~starting)
    BY <1>1
  <2>2. CASE q = p
    BY <1>4, <2>1, <2>2 DEF RunInv, RegistryInv
  <2>3. CASE q # p
    BY <1>1, <1>3, <1>4, <2>1, <2>3 DEF RunInv, RegistryInv, Serves
  <2> QED
    BY <2>2, <2>3
<1> QED
  BY <1>7, <1>8, <1>9 DEF RunInv

\* The window's steps: gestures add commands, answers take the first one.
LEMMA WindowRemains ==
  ASSUME HostInv, HostInv', RunInv, Packages \subseteq Plugins,
         \/ \E f \in Plugins \cup {0} : handleSelectWorkspace(f)
         \/ \E p \in Packages : handleInstallPlugin(p)
         \/ \E p \in Plugins : handleUninstallPlugin(p)
         \/ NothingInstalled \/ refreshInstalledPluginState \/ PageArrives
  PROVE  RunInv'
<1>1. UNCHANGED <<disk, processes, registry, rpcs, lateStarts>>
  BY DEF handleSelectWorkspace, handleInstallPlugin, handleUninstallPlugin, NothingInstalled,
         refreshInstalledPluginState, PageArrives
<1>2. /\ shell.front \in Plugins \cup {0} /\ commands \in Seq(Commands)
      /\ commands # <<>> => Tail(commands) \in Seq(Commands)
      /\ \A f \in Plugins, p \in Plugins :
           /\ Command("read", f, f, "page") \in Commands
           /\ Command("read", f, f, "page").state = "asked"
      /\ \A p \in Plugins, kind \in {"install", "uninstall"} :
           /\ Command(kind, p, shell.front, "none") \in Commands
           /\ Command(kind, p, shell.front, "none").state = "asked"
  <2>1. shell.front \in Plugins \cup {0} /\ commands \in Seq(Commands)
    BY DEF HostInv, HostTypeOK, Shell
  <2>2. commands # <<>> => Tail(commands) \in Seq(Commands)
    BY QueueOK
  <2>3. \A f \in Plugins : Command("read", f, f, "page") \in Commands
    BY CommandOK DEF Kinds
  <2>4. \A p \in Plugins, kind \in {"install", "uninstall"} : Command(kind, p, shell.front, "none") \in Commands
    BY <2>1, CommandOK DEF Kinds
  <2> QED
    BY <2>1, <2>2, <2>3, <2>4 DEF Command
<1>3. CASE SameStops(commands')
  BY <1>1, <1>3, SameStopped, HostUntouched DEF RunInv
<1>4. CASE commands # <<>> /\ Head(commands).state = "asked" /\ Asked(commands')
  <2>1. \A p \in Plugins : ~Stopping(p) /\ ~Stopping(p)'
    BY <1>4, HeadAsked, AskedStopsNone DEF RunInv, Asked, Stopping
  <2>2. OneStopped'
    BY <1>4 DEF Asked, OneStopped
  <2> QED
    BY <1>1, <2>1, <2>2, HostUntouched
<1>5. ASSUME NEW f \in Plugins \cup {0}, handleSelectWorkspace(f) PROVE SameStops(commands')
  <2> DEFINE g == Front(f, shell.list)
  <2>1. /\ g \in Plugins \cup {0}
        /\ commands' = IF g = shell.front THEN commands
                       ELSE IF g = 0 THEN Forgotten(commands)
                       ELSE Append(Forgotten(commands), Command("read", g, g, "page"))
    BY <1>5 DEF handleSelectWorkspace, Show, Front
  <2> QED
    BY <1>2, <2>1, CommandsCome
<1>6. ASSUME NEW p \in Plugins, handleInstallPlugin(p) \/ handleUninstallPlugin(p)
      PROVE  SameStops(commands')
  BY <1>2, <1>6, CommandsCome DEF handleInstallPlugin, handleUninstallPlugin
<1>7. ASSUME commands # <<>>, Head(commands).kind \in {"list", "read"} PROVE Head(commands).state = "asked"
  BY <1>7, QueueOK DEF RunInv, OneStopped, Commands
<1>8. ASSUME NothingInstalled \/ PageArrives
      PROVE  commands # <<>> /\ Head(commands).state = "asked" /\ Asked(commands')
  <2>1. commands # <<>> /\ Head(commands).state = "asked" /\ commands' = Tail(commands)
    BY <1>7, <1>8 DEF NothingInstalled, PageArrives
  <2> QED
    BY <2>1, TailAsked DEF RunInv
<1>9. ASSUME refreshInstalledPluginState
      PROVE  commands # <<>> /\ Head(commands).state = "asked" /\ Asked(commands')
  <2> DEFINE c == Head(commands)
             wanted == IF c.purpose = "install" THEN c.plugin
                       ELSE IF c.front = c.plugin THEN 0 ELSE shell.front
             g == Front(wanted, disk)
             q == Tail(commands)
  <2>1. commands # <<>> /\ c.kind = "list"
    BY <1>9 DEF refreshInstalledPluginState
  <2>2. c.state = "asked" /\ q \in Seq(Commands) /\ Asked(q) /\ c \in Commands
    BY <1>2, <1>7, <2>1, TailAsked, QueueOK DEF RunInv
  <2>3. wanted \in Plugins \cup {0} /\ g \in Plugins \cup {0}
    BY <1>2, <2>2 DEF Front, Commands
  <2>4. \/ commands' = q
        \/ commands' = Forgotten(q)
        \/ g # 0 /\ commands' = Append(Forgotten(q), Command("read", g, g, "page"))
    <3>1. CASE Show(disk, wanted, [Released(c) EXCEPT !.stale = FALSE], q)
      BY <3>1 DEF Show
    <3>2. CASE commands' = q
      BY <3>2
    <3> QED
      BY <1>9, <3>1, <3>2 DEF refreshInstalledPluginState
  <2>5. Asked(Forgotten(q)) /\ (g # 0 => Asked(Append(Forgotten(q), Command("read", g, g, "page"))))
    BY <1>2, <2>2, <2>3, AskedQueues
  <2> QED
    BY <2>1, <2>2, <2>4, <2>5
<1> QED
  BY <1>3, <1>4, <1>5, <1>6, <1>8, <1>9

----------------------------------------------------------------------------

LEMMA InitRuns == Init => RunInv
<1> SUFFICES ASSUME Init PROVE RunInv
  OBVIOUS
<1>1. /\ processes = [n \in 1..MaxProcesses |-> Nobody] /\ registry = [p \in Plugins |-> 0]
      /\ rpcs = {} /\ commands = <<>>
  BY DEF Init
<1>2. OneStopped
  BY <1>1 DEF OneStopped
<1>3. VersionsInv
  BY <1>1 DEF VersionsInv, Nobody, Process
<1>4. RegistryInv
  BY <1>1 DEF RegistryInv
<1> QED
  BY <1>2, <1>3, <1>4 DEF RunInv

LEMMA NextRuns ==
  ASSUME Packages \subseteq Plugins, HostInv, HostInv', RunInv, [Next]_hostVars
  PROVE  RunInv'
<1>1. CASE \E c \in rpcs : Register(c) \/ Ask(c) \/ ReadAnswer(c) \/ ReadEnd(c)
  BY <1>1, RegisterRemains, CallsRemain
<1>2. CASE \E n \in DOMAIN processes : BackendAnswers(n) \/ BackendEnds(n) \/ BackendCrashes(n)
  <2>1. DOMAIN processes = 1..MaxProcesses
    BY DEF HostInv, HostTypeOK
  <2>2. ASSUME NEW n \in 1..MaxProcesses, BackendEnds(n) \/ BackendCrashes(n)
        PROVE  processes[n].state # "none" /\ Exits(n)
    BY <2>2 DEF BackendEnds, BackendCrashes
  <2> QED
    BY <1>2, <2>1, <2>2, BackendsRemain
<1>3. CASE StopFirst \/ ChangeDisk \/ rpc_request
  BY <1>3, StopFirstRemains, ChangeDiskRemains, RequestRemains
<1>4. CASE \/ \E f \in Plugins \cup {0} : handleSelectWorkspace(f)
           \/ \E p \in Packages : handleInstallPlugin(p)
           \/ \E p \in Plugins : handleUninstallPlugin(p)
           \/ NothingInstalled \/ refreshInstalledPluginState \/ PageArrives
  BY <1>4, WindowRemains
<1>5. CASE UNCHANGED hostVars
  BY <1>5, HostUntouched DEF hostVars, RunInv, OneStopped, Stopping
<1> QED
  BY <1>1, <1>2, <1>3, <1>4, <1>5 DEF Next, HostWorks

----------------------------------------------------------------------------
(* The window. *)

\* what is asked for, whatever its place in the queue
Request(c) == [kind |-> c.kind, plugin |-> c.plugin, purpose |-> c.purpose, live |-> c.live]
Pending(q) == {Request(q[i]) : i \in DOMAIN q}

Installing(c) == c.kind = "install" \/ c.purpose = "install"
Removing(c) == c.kind = "uninstall" \/ c.purpose = "uninstall"
Reading(c) == c.kind = "read" /\ c.live

\* a button is greyed out while the command it gave, or the list asked for after it, is pending
FlagsInv(window, pending) ==
  /\ window.busy => \E c \in pending : Installing(c)
  /\ window.removing # 0 => \E c \in pending : Removing(c)

\* a list is asked for unless the one shown is right; only what is listed is in front
ListInv(installed, window, pending) ==
  /\ window.stale \/ window.list = installed \/ \E c \in pending : c.kind = "list"
  /\ \A p \in Plugins : installed[p] = 1 => window.list[p] = 1
  /\ window.front # 0 => window.list[window.front] # 0

\* a page is asked for unless the one shown is that of the plugin in front
PageInv(installed, window, pending) ==
  /\ \A c \in pending : Reading(c) => c.plugin = window.front
  /\ window.page.plugin \in {0, window.front} \/ \E c \in pending : Reading(c)
  /\ \/ window.page = Blank \/ window.outdated
     \/ \E c \in pending : Reading(c)
     \/ window.page.version = window.list[window.front]
     \/ window.list[window.front] = 1 /\ installed[window.front] # 1
  /\ window.page # Blank => window.page.plugin # 0 /\ window.front # 0

PendingInv(pending) ==
  \A c \in pending :
    /\ c.plugin \in Plugins
    /\ c.kind = "list" => c.purpose \in {"install", "uninstall"}
    /\ c.kind \in {"install", "uninstall"} => c.purpose = "none"
    /\ c.kind = "read" => c.purpose = "page"

WindowOK(installed, window, pending) ==
  /\ PendingInv(pending) /\ FlagsInv(window, pending)
  /\ ListInv(installed, window, pending) /\ PageInv(installed, window, pending)
WindowInv == WindowOK(disk, shell, Pending(commands))

NoLonger(c) == [kind |-> c.kind, plugin |-> c.plugin, purpose |-> c.purpose, live |-> FALSE]

LEMMA PendingIs ==
  ASSUME NEW q \in Seq(Commands)
  PROVE  /\ \A c \in Commands : Pending(Append(q, c)) = Pending(q) \cup {Request(c)}
         /\ q # <<>> => Pending(q) = Pending(Tail(q)) \cup {Request(Head(q))}
         /\ q = <<>> => Pending(q) = {}
         /\ Pending(Forgotten(q)) = {NoLonger(c) : c \in Pending(q)}
<1>1. ASSUME NEW c \in Commands PROVE Pending(Append(q, c)) = Pending(q) \cup {Request(c)}
  <2>1. /\ DOMAIN Append(q, c) = 1..(Len(q) + 1) /\ DOMAIN q = 1..Len(q) /\ Len(q) \in Nat
        /\ \A i \in 1..Len(q) : Append(q, c)[i] = q[i]
        /\ Append(q, c)[Len(q) + 1] = c
    OBVIOUS
  <2>2. 1..(Len(q) + 1) = (1..Len(q)) \cup {Len(q) + 1}
    BY <2>1
  <2> QED
    BY <2>1, <2>2 DEF Pending
<1>2. ASSUME q # <<>> PROVE Pending(q) = Pending(Tail(q)) \cup {Request(Head(q))}
  <2>1. /\ DOMAIN q = 1..Len(q) /\ Len(q) \in Nat /\ Len(q) >= 1 /\ Head(q) = q[1]
        /\ DOMAIN Tail(q) = 1..(Len(q) - 1)
        /\ \A i \in 1..(Len(q) - 1) : Tail(q)[i] = q[i + 1]
    BY <1>2
  <2>2. ASSUME NEW i \in 1..Len(q) PROVE Request(q[i]) = Request(q[1]) \/ Request(q[i]) \in Pending(Tail(q))
    <3>1. CASE i = 1
      BY <3>1
    <3>2. CASE i # 1
      <4>1. i - 1 \in 1..(Len(q) - 1) /\ Tail(q)[i - 1] = q[(i - 1) + 1] /\ (i - 1) + 1 = i
        BY <2>1, <3>2
      <4> QED
        BY <2>1, <4>1 DEF Pending
    <3> QED
      BY <3>1, <3>2
  <2>3. ASSUME NEW i \in 1..(Len(q) - 1) PROVE Request(Tail(q)[i]) \in Pending(q)
    <3>1. i + 1 \in 1..Len(q)
      BY <2>1
    <3> QED
      BY <2>1, <3>1 DEF Pending
  <2>4. Pending(q) \subseteq Pending(Tail(q)) \cup {Request(Head(q))}
    BY <2>1, <2>2 DEF Pending
  <2>5. Pending(Tail(q)) \subseteq Pending(q) /\ Request(Head(q)) \in Pending(q)
    BY <2>1, <2>3 DEF Pending
  <2> QED
    BY <2>4, <2>5
<1>3. q = <<>> => Pending(q) = {}
  BY DEF Pending
<1>4. Pending(Forgotten(q)) = {NoLonger(c) : c \in Pending(q)}
  <2>1. DOMAIN q = 1..Len(q) /\ \A i \in DOMAIN q : q[i] \in Commands
    OBVIOUS
  <2>2. ASSUME NEW c \in Commands PROVE Request([c EXCEPT !.live = FALSE]) = NoLonger(Request(c))
    BY DEF Commands, Request, NoLonger
  <2>3. /\ DOMAIN Forgotten(q) = DOMAIN q
        /\ \A i \in DOMAIN q : Forgotten(q)[i] = [q[i] EXCEPT !.live = FALSE]
    BY DEF Forgotten
  <2>4. \A i \in DOMAIN q : Request(Forgotten(q)[i]) = NoLonger(Request(q[i]))
    BY <2>1, <2>2, <2>3
  <2> QED
    BY <2>3, <2>4 DEF Pending
<1> QED
  BY <1>1, <1>2, <1>3, <1>4

\* Pages no longer wanted: nothing is read, everything else is still pending.
LEMMA ForgottenPending ==
  ASSUME NEW pending, PendingInv(pending), NEW none, none = {NoLonger(c) : c \in pending}
  PROVE  /\ PendingInv(none) /\ \A c \in none : ~Reading(c)
         /\ (\E c \in pending : Installing(c)) => \E c \in none : Installing(c)
         /\ (\E c \in pending : Removing(c)) => \E c \in none : Removing(c)
         /\ (\E c \in pending : c.kind = "list") => \E c \in none : c.kind = "list"
<1>1. \A c : /\ NoLonger(c).kind = c.kind /\ NoLonger(c).plugin = c.plugin
            /\ NoLonger(c).purpose = c.purpose /\ NoLonger(c).live = FALSE
  BY DEF NoLonger
<1>2. \A c \in pending : NoLonger(c) \in none
  OBVIOUS
<1>3. \A d \in none : \E c \in pending : d = NoLonger(c)
  OBVIOUS
<1>4. PendingInv(none)
  BY <1>1, <1>3 DEF PendingInv
<1>5. \A c \in none : ~Reading(c)
  BY <1>1, <1>3 DEF Reading
<1> QED
  BY <1>1, <1>2, <1>4, <1>5 DEF Installing, Removing

LEMMA ReleasedIs ==
  ASSUME HostInv, NEW c \in Commands
  PROVE  /\ Released(c).list = shell.list /\ Released(c).front = shell.front
         /\ Released(c).page = shell.page /\ Released(c).outdated = shell.outdated
         /\ Released(c).stale = shell.stale
         /\ Installing(c) => ~Released(c).busy /\ Released(c).removing = shell.removing
         /\ ~Installing(c) => Released(c).removing = 0 /\ (Released(c).busy <=> shell.busy)
<1>1. shell \in Shell
  BY DEF HostInv, HostTypeOK
<1>2. CASE Installing(c)
  <2>1. Released(c) = [shell EXCEPT !.busy = FALSE]
    BY <1>2 DEF Released, Installing
  <2> QED
    BY <1>1, <1>2, <2>1 DEF Shell
<1>3. CASE ~Installing(c)
  <2>1. Released(c) = [shell EXCEPT !.removing = 0]
    BY <1>3 DEF Released, Installing
  <2> QED
    BY <1>1, <1>3, <2>1 DEF Shell
<1> QED
  BY <1>2, <1>3

\* The first command leaves the queue and releases its button: the other's is still pending.
LEMMA TakenFlags ==
  ASSUME HostInv, WindowInv, commands # <<>>
  PROVE  FlagsInv(Released(Head(commands)), Pending(Tail(commands)))
<1> DEFINE c == Head(commands)
<1>1. /\ c \in Commands /\ Pending(commands) = Pending(Tail(commands)) \cup {Request(c)}
      /\ Request(c).kind = c.kind /\ Request(c).purpose = c.purpose
  BY QueueOK, PendingIs DEF HostInv, HostTypeOK, Request
<1>2. Request(c) \in Pending(commands) /\ PendingInv(Pending(commands)) /\ FlagsInv(shell, Pending(commands))
  BY <1>1 DEF WindowInv, WindowOK
<1>3. ~(Installing(c) /\ Removing(c)) /\ (Installing(Request(c)) <=> Installing(c))
      /\ (Removing(Request(c)) <=> Removing(c))
  BY <1>1, <1>2 DEF PendingInv, Installing, Removing
<1>4. CASE Installing(c)
  BY <1>1, <1>2, <1>3, <1>4, ReleasedIs DEF FlagsInv
<1>5. CASE ~Installing(c)
  BY <1>1, <1>2, <1>3, <1>5, ReleasedIs DEF FlagsInv
<1> QED
  BY <1>4, <1>5

\* What Show changes.
LEMMA ShowIs ==
  ASSUME HostInv, NEW plugins \in [Plugins -> Versions], NEW wanted \in Plugins \cup {0},
         NEW flags \in Shell, flags.page = shell.page, flags.outdated = shell.outdated,
         NEW queue \in Seq(Commands), Show(plugins, wanted, flags, queue),
         NEW f, f = Front(wanted, plugins)
  PROVE  /\ f \in Plugins \cup {0} /\ (f # 0 => plugins[f] # 0)
         /\ shell'.list = plugins /\ shell'.front = f
         /\ (shell'.busy <=> flags.busy) /\ shell'.removing = flags.removing
         /\ (shell'.stale <=> flags.stale)
         /\ shell'.page = IF f # 0 /\ shell.front # 0 THEN shell.page ELSE Blank
         /\ f # 0 /\ f = shell.front =>
              (shell'.outdated <=> shell.outdated \/ plugins[f] # shell.list[f])
         /\ commands' = IF f = shell.front THEN queue
                        ELSE IF f = 0 THEN Forgotten(queue)
                        ELSE Append(Forgotten(queue), Command("read", f, f, "page"))
<1> DEFINE mounted == f # 0 /\ shell.front # 0
           page == IF mounted THEN flags.page ELSE Blank
           outdated == mounted /\ f = shell.front
                       /\ (flags.outdated \/ plugins[f] # shell.list[f])
<1>1. shell' = [flags EXCEPT !.list = plugins, !.front = f, !.page = page, !.outdated = outdated]
  BY DEF Show, Shell
<1>2. /\ shell'.list = plugins /\ shell'.front = f /\ shell'.page = page
      /\ shell'.busy = flags.busy /\ shell'.removing = flags.removing /\ shell'.stale = flags.stale
      /\ shell'.outdated = outdated
  BY <1>1, Zenon DEF Shell
<1>3. f \in Plugins \cup {0} /\ (f # 0 => plugins[f] # 0)
  BY DEF Front
<1>4. commands' = IF f = shell.front THEN queue
                  ELSE IF f = 0 THEN Forgotten(queue)
                  ELSE Append(Forgotten(queue), Command("read", f, f, "page"))
  BY DEF Show
<1> QED
  BY <1>2, <1>3, <1>4

\* Showing a list keeps the window in order: either it is the list installed, or the one shown.
LEMMA ShowFollows ==
  ASSUME HostInv, 0 \notin Plugins, NEW plugins \in [Plugins -> Versions],
         NEW wanted \in Plugins \cup {0},
         NEW flags \in Shell, flags.page = shell.page, flags.outdated = shell.outdated,
         NEW queue \in Seq(Commands), Show(plugins, wanted, flags, queue),
         PendingInv(Pending(queue)), FlagsInv(flags, Pending(queue)),
         PageInv(disk, shell, Pending(queue)),
         \/ plugins = disk
         \/ plugins = shell.list /\ flags.stale = shell.stale /\ ListInv(disk, shell, Pending(queue))
  PROVE  WindowOK(disk, shell', Pending(commands'))
<1> DEFINE f == Front(wanted, plugins)
           P == Pending(queue)
           none == Pending(Forgotten(queue))
           read == Request(Command("read", f, f, "page"))
<1>1. /\ f \in Plugins \cup {0} /\ (f # 0 => plugins[f] # 0)
      /\ shell'.list = plugins /\ shell'.front = f
      /\ (shell'.busy <=> flags.busy) /\ shell'.removing = flags.removing
      /\ (shell'.stale <=> flags.stale)
      /\ shell'.page = IF f # 0 /\ shell.front # 0 THEN shell.page ELSE Blank
      /\ f # 0 /\ f = shell.front =>
           (shell'.outdated <=> shell.outdated \/ plugins[f] # shell.list[f])
      /\ commands' = IF f = shell.front THEN queue
                     ELSE IF f = 0 THEN Forgotten(queue)
                     ELSE Append(Forgotten(queue), Command("read", f, f, "page"))
  BY ShowIs
<1>2. none = {NoLonger(c) : c \in P}
  BY PendingIs
<1>3. /\ PendingInv(none) /\ \A c \in none : ~Reading(c)
      /\ (\E c \in P : Installing(c)) => \E c \in none : Installing(c)
      /\ (\E c \in P : Removing(c)) => \E c \in none : Removing(c)
      /\ (\E c \in P : c.kind = "list") => \E c \in none : c.kind = "list"
  BY <1>2, ForgottenPending
<1>4. f # 0 => Pending(Append(Forgotten(queue), Command("read", f, f, "page"))) = none \cup {read}
  <2>1. \A p \in Plugins : Command("read", p, p, "page") \in Commands
    BY CommandOK DEF Kinds
  <2>2. f # 0 => f \in Plugins
    BY <1>1
  <2> HIDE DEF f
  <2> QED
    BY <2>1, <2>2, ForgottenOK, PendingIs
<1>5. read.kind = "read" /\ read.live = TRUE /\ read.plugin = f /\ read.purpose = "page"
  BY DEF Request, Command
<1>6. ASSUME NEW Q, PendingInv(Q),
             (\E c \in P : Installing(c)) => \E c \in Q : Installing(c),
             (\E c \in P : Removing(c)) => \E c \in Q : Removing(c),
             (\E c \in P : c.kind = "list") => \E c \in Q : c.kind = "list"
      PROVE  FlagsInv(shell', Q) /\ ListInv(disk, shell', Q)
  <2>1. FlagsInv(shell', Q)
    BY <1>1, <1>6 DEF FlagsInv
  <2>2. ListInv(disk, shell', Q)
    <3>1. CASE plugins = disk
      BY <1>1, <3>1 DEF ListInv
    <3>2. CASE plugins = shell.list /\ flags.stale = shell.stale /\ ListInv(disk, shell, P)
      BY <1>1, <1>6, <3>2 DEF ListInv
    <3> QED
      BY <3>1, <3>2
  <2> QED
    BY <2>1, <2>2
<1>7. Blank.plugin = 0
  BY DEF Blank
<1> HIDE DEF f, P, none, read
<1>8. CASE f = shell.front
  <2>1. Pending(commands') = P
    BY <1>1, <1>8 DEF P
  <2>2. PageInv(disk, shell', P)
    <3>1. CASE f = 0
      <4>1. \A c \in P : ~Reading(c)
        BY <1>8, <3>1 DEF PageInv, PendingInv, P
      <4> QED
        BY <1>1, <1>7, <1>8, <3>1, <4>1 DEF PageInv
    <3>2. CASE f # 0
      <4>1. PageInv(disk, shell, P)
        BY DEF P
      <4>2. shell'.page = shell.page /\ shell'.front = shell.front
        BY <1>1, <1>8, <3>2
      <4>3. ~shell'.outdated => ~shell.outdated /\ shell'.list[f] = shell.list[f]
        BY <1>1, <1>8, <3>2
      <4> QED
        BY <1>8, <3>2, <4>1, <4>2, <4>3 DEF PageInv
    <3> QED
      BY <3>1, <3>2
  <2>3. PendingInv(P)
    BY DEF P
  <2> QED
    BY <1>6, <2>1, <2>2, <2>3 DEF WindowOK
<1>9. CASE f # shell.front /\ f = 0
  <2>1. Pending(commands') = none
    BY <1>1, <1>9 DEF none
  <2>2. PageInv(disk, shell', none)
    BY <1>1, <1>3, <1>7, <1>9 DEF PageInv
  <2> QED
    BY <1>3, <1>6, <2>1, <2>2 DEF WindowOK
<1>10. CASE f # shell.front /\ f # 0
  <2>1. Pending(commands') = none \cup {read}
    BY <1>1, <1>4, <1>10
  <2>2. PendingInv(none \cup {read})
    <3>1. f \in Plugins
      BY <1>1, <1>10
    <3> QED
      BY <1>3, <1>5, <3>1 DEF PendingInv
  <2>3. Reading(read) /\ shell'.front = f
    BY <1>1, <1>5 DEF Reading
  <2>4. shell'.page # Blank => shell'.page.plugin # 0
    BY <1>1 DEF PageInv
  <2>5. PageInv(disk, shell', none \cup {read})
    BY <1>3, <1>5, <1>10, <2>3, <2>4 DEF PageInv
  <2>6. FlagsInv(shell', none \cup {read}) /\ ListInv(disk, shell', none \cup {read})
    BY <1>3, <1>6, <2>2
  <2> QED
    BY <2>1, <2>2, <2>5, <2>6 DEF WindowOK
<1> QED
  BY <1>8, <1>9, <1>10

\* Stopping a plugin changes no command but for its state.
LEMMA StopFirstWindow ==
  ASSUME HostInv, WindowInv, StopFirst
  PROVE  WindowInv'
<1>1. /\ commands # <<>> /\ UNCHANGED <<disk, shell>>
      /\ commands' = [commands EXCEPT ![1].state = "stopped"]
  BY DEF StopFirst
<1>2. 1 \in DOMAIN commands /\ commands[1] \in Commands
  BY <1>1, QueueOK
<1>3. ASSUME NEW c \in Commands PROVE Request([c EXCEPT !.state = "stopped"]) = Request(c)
  BY DEF Commands, Request
<1>4. commands' = [commands EXCEPT ![1] = [commands[1] EXCEPT !.state = "stopped"]]
  BY <1>1, <1>2
<1>5. DOMAIN commands' = DOMAIN commands /\ \A i \in DOMAIN commands : Request(commands'[i]) = Request(commands[i])
  BY <1>2, <1>3, <1>4 DEF HostInv, HostTypeOK
<1>6. Pending(commands') = Pending(commands)
  BY <1>5 DEF Pending
<1> QED
  BY <1>1, <1>6 DEF WindowInv

LEMMA SelectWindow ==
  ASSUME HostInv, WindowInv, 0 \notin Plugins, NEW f \in Plugins \cup {0}, handleSelectWorkspace(f)
  PROVE  WindowInv'
<1>1. Show(shell.list, f, shell, commands) /\ UNCHANGED disk
  BY DEF handleSelectWorkspace
<1>2. shell \in Shell /\ shell.list \in [Plugins -> Versions] /\ commands \in Seq(Commands)
  BY DEF HostInv, HostTypeOK, Shell
<1>3. /\ PendingInv(Pending(commands)) /\ FlagsInv(shell, Pending(commands))
      /\ ListInv(disk, shell, Pending(commands)) /\ PageInv(disk, shell, Pending(commands))
  BY DEF WindowInv, WindowOK
<1>4. WindowOK(disk, shell', Pending(commands'))
  BY <1>1, <1>2, <1>3, ShowFollows
<1> QED
  BY <1>1, <1>4 DEF WindowInv

\* A button is greyed out and its command is asked for.
LEMMA ManagerWindow ==
  ASSUME HostInv, WindowInv, NEW p \in Plugins, handleInstallPlugin(p) \/ handleUninstallPlugin(p)
  PROVE  WindowInv'
<1>1. PICK kind \in {"install", "uninstall"} :
        /\ commands' = Append(commands, Command(kind, p, shell.front, "none")) /\ UNCHANGED disk
        /\ kind = "install" => shell' = [shell EXCEPT !.busy = TRUE]
        /\ kind = "uninstall" => shell' = [shell EXCEPT !.removing = p]
  BY DEF handleInstallPlugin, handleUninstallPlugin
<1> DEFINE c == Request(Command(kind, p, shell.front, "none"))
           P == Pending(commands)
<1>2. shell \in Shell /\ shell.front \in Plugins \cup {0} /\ commands \in Seq(Commands)
  BY DEF HostInv, HostTypeOK, Shell
<1>3. Pending(commands') = P \cup {c}
  <2>1. Command(kind, p, shell.front, "none") \in Commands
    BY <1>2, CommandOK DEF Kinds
  <2> QED
    BY <1>1, <1>2, <2>1, PendingIs
<1>4. c.kind = kind /\ c.plugin = p /\ c.purpose = "none"
  BY DEF Request, Command
<1>5. /\ shell'.list = shell.list /\ shell'.front = shell.front /\ shell'.page = shell.page
      /\ shell'.outdated = shell.outdated /\ shell'.stale = shell.stale
      /\ kind = "install" => shell'.removing = shell.removing
      /\ kind = "uninstall" => shell'.busy = shell.busy
  BY <1>1, <1>2 DEF Shell
<1>6. PendingInv(P) /\ FlagsInv(shell, P) /\ ListInv(disk, shell, P) /\ PageInv(disk, shell, P)
  BY DEF WindowInv, WindowOK
<1> HIDE DEF c, P
<1>7. PendingInv(P \cup {c})
  BY <1>4, <1>6 DEF PendingInv
<1>8. FlagsInv(shell', P \cup {c})
  BY <1>4, <1>5, <1>6 DEF FlagsInv, Installing, Removing
<1>9. ListInv(disk, shell', P \cup {c})
  BY <1>5, <1>6 DEF ListInv
<1>10. PageInv(disk, shell', P \cup {c})
  <2>1. ~Reading(c)
    BY <1>4 DEF Reading
  <2> QED
    BY <1>5, <1>6, <2>1 DEF PageInv
<1> QED
  BY <1>1, <1>3, <1>7, <1>8, <1>9, <1>10 DEF WindowInv, WindowOK

\* The first command, when it is not a read, leaves what is shown to be decided by the rest.
LEMMA FirstLeaves ==
  ASSUME HostInv, WindowInv, commands # <<>>
  PROVE  /\ Head(commands) \in Commands /\ Tail(commands) \in Seq(Commands)
         /\ Pending(commands) = Pending(Tail(commands)) \cup {Request(Head(commands))}
         /\ PendingInv(Pending(Tail(commands)))
         /\ Head(commands).kind # "list" => ListInv(disk, shell, Pending(Tail(commands)))
         /\ Head(commands).kind # "read" \/ ~Head(commands).live =>
              PageInv(disk, shell, Pending(Tail(commands)))
<1> DEFINE c == Head(commands)
           P == Pending(Tail(commands))
<1>1. c \in Commands /\ Tail(commands) \in Seq(Commands) /\ Pending(commands) = P \cup {Request(c)}
  BY QueueOK, PendingIs DEF HostInv, HostTypeOK
<1>2. Request(c).kind = c.kind /\ Request(c).live = c.live
  BY DEF Request
<1>3. PendingInv(Pending(commands)) /\ ListInv(disk, shell, Pending(commands))
      /\ PageInv(disk, shell, Pending(commands))
  BY DEF WindowInv, WindowOK
<1> HIDE DEF c, P
<1>4. PendingInv(P)
  BY <1>1, <1>3 DEF PendingInv
<1>5. c.kind # "list" => ListInv(disk, shell, P)
  BY <1>1, <1>2, <1>3 DEF ListInv
<1>6. c.kind # "read" \/ ~c.live => PageInv(disk, shell, P)
  BY <1>1, <1>2, <1>3 DEF PageInv, Reading
<1> QED
  BY <1>1, <1>4, <1>5, <1>6 DEF c, P

\* The list and the page are read off the fields that a released button does not touch.
LEMMA SameShown ==
  ASSUME NEW old, NEW new, NEW pending, new.list = old.list, new.front = old.front,
         new.page = old.page, new.outdated = old.outdated
  PROVE  /\ PageInv(disk, old, pending) => PageInv(disk, new, pending)
         /\ new.stale = old.stale => (ListInv(disk, old, pending) => ListInv(disk, new, pending))
BY DEF PageInv, ListInv

LEMMA NothingInstalledWindow ==
  ASSUME HostInv, WindowInv, NothingInstalled
  PROVE  WindowInv'
<1> DEFINE c == Head(commands)
           P == Pending(Tail(commands))
<1>1. /\ commands # <<>> /\ c.kind = "install" /\ UNCHANGED disk
      /\ shell' = Released(c) /\ commands' = Tail(commands)
  BY DEF NothingInstalled
<1>2. c \in Commands /\ PendingInv(P) /\ ListInv(disk, shell, P) /\ PageInv(disk, shell, P)
  BY <1>1, FirstLeaves
<1>3. FlagsInv(shell', P)
  BY <1>1, TakenFlags
<1>4. ListInv(disk, shell', P) /\ PageInv(disk, shell', P)
  BY <1>1, <1>2, ReleasedIs, SameShown
<1> QED
  BY <1>1, <1>2, <1>3, <1>4 DEF WindowInv, WindowOK

LEMMA refreshWindow ==
  ASSUME HostInv, WindowInv, 0 \notin Plugins, refreshInstalledPluginState
  PROVE  WindowInv'
<1> DEFINE c == Head(commands)
           wanted == IF c.purpose = "install" THEN c.plugin
                     ELSE IF c.front = c.plugin THEN 0 ELSE shell.front
           flags == [Released(c) EXCEPT !.stale = FALSE]
           failed == [Released(c) EXCEPT !.stale = TRUE]
           P == Pending(Tail(commands))
<1>1. /\ commands # <<>> /\ c.kind = "list" /\ UNCHANGED disk
      /\ \/ Show(disk, wanted, flags, Tail(commands))
         \/ shell' = failed /\ commands' = Tail(commands)
  BY DEF refreshInstalledPluginState
<1>2. /\ c \in Commands /\ Tail(commands) \in Seq(Commands)
      /\ PendingInv(P) /\ PageInv(disk, shell, P) /\ FlagsInv(Released(c), P)
  BY <1>1, FirstLeaves, TakenFlags
<1>3. /\ wanted \in Plugins \cup {0} /\ disk \in [Plugins -> Versions]
      /\ Released(c) \in Shell /\ flags \in Shell /\ failed \in Shell
  BY <1>2, FlagsOK DEF Commands, HostInv, HostTypeOK, Shell
<1>4. ASSUME NEW b \in BOOLEAN, NEW s, s = [Released(c) EXCEPT !.stale = b]
      PROVE  /\ s.list = shell.list /\ s.front = shell.front /\ s.page = shell.page
             /\ s.outdated = shell.outdated /\ s.stale = b
             /\ s.busy = Released(c).busy /\ s.removing = Released(c).removing
  BY <1>2, <1>3, <1>4, ReleasedIs DEF Shell
<1>5. CASE Show(disk, wanted, flags, Tail(commands))
  <2>1. flags.page = shell.page /\ flags.outdated = shell.outdated /\ FlagsInv(flags, P)
    BY <1>2, <1>4 DEF FlagsInv
  <2>2. WindowOK(disk, shell', Pending(commands'))
    BY <1>2, <1>3, <1>5, <2>1, ShowFollows
  <2> QED
    BY <1>1, <2>2 DEF WindowInv
<1>6. CASE shell' = failed /\ commands' = Tail(commands)
  <2>1. /\ failed.list = shell.list /\ failed.front = shell.front /\ failed.page = shell.page
        /\ failed.outdated = shell.outdated /\ failed.stale = TRUE
        /\ failed.busy = Released(c).busy /\ failed.removing = Released(c).removing
    BY <1>4
  <2>2. PageInv(disk, failed, P)
    BY <1>2, <2>1, SameShown
  <2>3. ListInv(disk, failed, P)
    BY <2>1 DEF ListInv, WindowInv, WindowOK
  <2>4. FlagsInv(failed, P)
    BY <1>2, <2>1 DEF FlagsInv
  <2> QED
    BY <1>1, <1>2, <1>6, <2>2, <2>3, <2>4 DEF WindowInv, WindowOK
<1> QED
  BY <1>1, <1>5, <1>6

\* What is asked of the list and the page of a version that was never 1 holds of any that is not.
LEMMA OtherVersion ==
  ASSUME HostInv, NEW window \in Shell, NEW pending, NEW installed \in [Plugins -> Versions],
         \A p \in Plugins : installed[p] = 1 => disk[p] = 1, PageInv(disk, window, pending)
  PROVE  PageInv(installed, window, pending)
<1>1. window.page = Blank \/ window.front \in Plugins
  BY DEF PageInv, Shell
<1> QED
  BY <1>1 DEF PageInv

\* After the change the list is asked for; when it failed, the list shown is known to be stale.
LEMMA ChangeDiskWindow ==
  ASSUME HostInv, HostInv', RunInv, WindowInv, ChangeDisk
  PROVE  WindowInv'
<1> DEFINE c == Head(commands)
           p == c.plugin
           l == Request(Command("list", p, c.front, c.kind))
           P == Pending(Tail(commands))
<1>1. commands # <<>> /\ c.state = "stopped"
  BY DEF ChangeDisk
<1>2. c.kind \in {"install", "uninstall"}
  BY <1>1, QueueOK DEF RunInv, OneStopped
<1>3. /\ c \in Commands /\ Tail(commands) \in Seq(Commands) /\ PendingInv(P)
      /\ ListInv(disk, shell, P) /\ PageInv(disk, shell, P)
      /\ Pending(commands) = P \cup {Request(c)} /\ FlagsInv(Released(c), P)
  BY <1>1, <1>2, FirstLeaves, TakenFlags
<1>4. /\ p \in Plugins /\ c.front \in Plugins \cup {0} /\ shell \in Shell /\ shell' \in Shell
      /\ disk \in [Plugins -> Versions] /\ disk' \in [Plugins -> Versions]
  BY <1>3 DEF Commands, HostInv, HostTypeOK
<1>5. CASE disk' = [disk EXCEPT ![p] = IF c.kind = "install" THEN 2 ELSE 0] /\ Ended(c)
  <2>1. \A q \in Plugins : disk'[q] = 1 => disk[q] = 1
    BY <1>4, <1>5
  <2>2. UNCHANGED shell /\ Pending(commands') = P \cup {l}
    <3>1. Command("list", p, c.front, c.kind) \in Commands
      BY <1>2, <1>4, CommandOK DEF Kinds
    <3>2. UNCHANGED shell /\ commands' = Append(Tail(commands), Command("list", p, c.front, c.kind))
      BY <1>5 DEF Ended
    <3>3. \A x \in Commands : Pending(Append(Tail(commands), x)) = P \cup {Request(x)}
      BY <1>3, PendingIs
    <3> QED
      BY <3>1, <3>2, <3>3, Zenon
  <2>3. l.kind = "list" /\ l.plugin = p /\ l.purpose = c.kind
    BY DEF Request, Command
  <2>4. /\ Request(c).kind = c.kind /\ Request(c).purpose = c.purpose
        /\ Request(c) \in Pending(commands) /\ PendingInv(Pending(commands)) /\ FlagsInv(shell, Pending(commands))
    BY <1>3 DEF Request, WindowInv, WindowOK
  <2> HIDE DEF c, p, l, P
  <2>5. PendingInv(P \cup {l})
    BY <1>2, <1>3, <1>4, <2>3 DEF PendingInv
  <2>6. FlagsInv(shell, P \cup {l})
    BY <1>2, <1>3, <2>3, <2>4 DEF FlagsInv, PendingInv, Installing, Removing
  <2>7. ListInv(disk', shell, P \cup {l})
    BY <1>3, <1>4, <2>1, <2>3 DEF ListInv
  <2>8. PageInv(disk', shell, P \cup {l})
    <3>1. PageInv(disk', shell, P)
      BY <1>3, <1>4, <2>1, OtherVersion
    <3>2. ~Reading(l)
      BY <2>3 DEF Reading
    <3> QED
      BY <3>1, <3>2 DEF PageInv
  <2> QED
    BY <2>2, <2>5, <2>6, <2>7, <2>8 DEF WindowInv, WindowOK
<1>6. ASSUME NEW v \in {disk[p], 0}, disk' = [disk EXCEPT ![p] = v], Failed(c, disk'),
             commands' = Tail(commands)
      PROVE  WindowInv'
  <2>1. \A q \in Plugins : disk'[q] = 1 => disk[q] = 1
    BY <1>4, <1>6
  <2>2. Released(c) \in Shell /\ Released(c).stale \in BOOLEAN
    BY <1>3, FlagsOK DEF Shell
  <2>3. /\ shell'.list = shell.list /\ shell'.front = shell.front /\ shell'.page = shell.page
        /\ shell'.outdated = shell.outdated
        /\ shell'.busy = Released(c).busy /\ shell'.removing = Released(c).removing
    BY <1>3, <1>6, <2>2, ReleasedIs DEF Failed, Shell
  <2>4. disk' # shell.list => shell'.stale
    BY <1>6, <2>2, Zenon DEF Failed, Shell
  <2>5. FlagsInv(shell', P)
    BY <1>3, <2>3 DEF FlagsInv
  <2>6. ListInv(disk', shell', P)
    BY <1>3, <1>4, <2>1, <2>3, <2>4 DEF ListInv
  <2>7. PageInv(disk', shell', P)
    BY <1>3, <1>4, <2>1, <2>3, SameShown, OtherVersion
  <2> QED
    BY <1>3, <1>6, <2>5, <2>6, <2>7 DEF WindowInv, WindowOK
<1> QED
  BY <1>5, <1>6 DEF ChangeDisk

\* The page that arrives is of the plugin in front, and of the version installed.
LEMMA PageArrivesWindow ==
  ASSUME HostInv, WindowInv, 0 \notin Plugins, PageArrives
  PROVE  WindowInv'
<1> DEFINE c == Head(commands)
           P == Pending(Tail(commands))
<1>1. /\ commands # <<>> /\ c.kind = "read" /\ UNCHANGED disk /\ commands' = Tail(commands)
  BY DEF PageArrives
<1>2. /\ c \in Commands /\ c.plugin \in Plugins /\ PendingInv(P) /\ ListInv(disk, shell, P)
      /\ Pending(commands) = P \cup {Request(c)}
  BY <1>1, FirstLeaves DEF Commands
<1>3. shell \in Shell /\ disk \in [Plugins -> Versions] /\ shell.list \in [Plugins -> Versions]
  BY DEF HostInv, HostTypeOK, Shell
<1>4. PageInv(disk, shell, Pending(commands)) /\ FlagsInv(shell, Pending(commands))
      /\ PendingInv(Pending(commands))
  BY DEF WindowInv, WindowOK
<1>5. /\ Request(c).kind = "read" /\ Request(c).plugin = c.plugin /\ Request(c).live = c.live
      /\ Request(c).purpose = "page"
  <2>1. Request(c).kind = c.kind /\ Request(c).plugin = c.plugin /\ Request(c).live = c.live
    BY DEF Request
  <2>2. Request(c) \in Pending(commands)
    BY <1>2
  <2> QED
    BY <1>1, <1>4, <2>1, <2>2 DEF PendingInv
<1>6. FlagsInv(shell, P)
  BY <1>2, <1>4, <1>5 DEF FlagsInv, Installing, Removing
<1>7. CASE ~c.live
  <2>1. UNCHANGED shell /\ PageInv(disk, shell, P)
    BY <1>1, <1>7, FirstLeaves DEF PageArrives
  <2> QED
    BY <1>1, <1>2, <1>6, <2>1 DEF WindowInv, WindowOK
<1>8. CASE c.live
  <2>1. PICK page \in {Blank} \cup {[plugin |-> c.plugin, version |-> v] : v \in {disk[c.plugin]} \ {0}} :
          shell' = [shell EXCEPT !.page = page, !.outdated = FALSE]
    BY <1>8 DEF PageArrives
  <2>2. /\ shell'.list = shell.list /\ shell'.front = shell.front /\ shell'.page = page
        /\ shell'.stale = shell.stale /\ shell'.busy = shell.busy /\ shell'.removing = shell.removing
    BY <1>3, <2>1 DEF Shell
  <2>3. page = Blank \/ (page.plugin = c.plugin /\ page.version = disk[c.plugin] /\ disk[c.plugin] # 0)
    BY <2>1
  <2>4. shell.front = c.plugin
    BY <1>2, <1>4, <1>5, <1>8 DEF PageInv, Reading
  <2>5. disk[c.plugin] \in Versions /\ shell.list[c.plugin] \in Versions /\ shell.list[c.plugin] # 0
    BY <1>2, <1>3, <2>4 DEF ListInv
  <2>6. \/ disk[c.plugin] = shell.list[c.plugin] \/ disk[c.plugin] = 0
        \/ shell.list[c.plugin] = 1 /\ disk[c.plugin] # 1
    BY <1>2, <2>5 DEF ListInv, Versions
  <2>7. PageInv(disk, shell', P)
    <3>1. \A d \in P : Reading(d) => d.plugin = shell'.front
      BY <1>2, <1>4, <2>2 DEF PageInv
    <3>2. Blank.plugin = 0
      BY DEF Blank
    <3> QED
      BY <1>2, <2>2, <2>3, <2>4, <2>6, <3>1, <3>2 DEF PageInv
  <2>8. FlagsInv(shell', P) /\ ListInv(disk, shell', P)
    BY <1>2, <1>6, <2>2 DEF FlagsInv, ListInv
  <2> QED
    BY <1>1, <1>2, <2>7, <2>8 DEF WindowInv, WindowOK
<1> QED
  BY <1>7, <1>8

----------------------------------------------------------------------------

LEMMA InitShows == Init => WindowInv
<1> SUFFICES ASSUME Init PROVE WindowInv
  OBVIOUS
<1>1. disk \in [Plugins -> {0, 1}] /\ commands = <<>>
  BY DEF Init
<1>2. PICK f \in {0} \cup Plugins :
        /\ f # 0 => disk[f] # 0
        /\ shell = [list |-> disk, front |-> f, busy |-> FALSE, removing |-> 0,
                    page |-> IF f = 0 THEN Blank ELSE [plugin |-> f, version |-> disk[f]],
                    outdated |-> FALSE, stale |-> FALSE]
  BY DEF Init
<1>3. Pending(commands) = {}
  BY <1>1 DEF Pending
<1>4. ListInv(disk, shell, {}) /\ FlagsInv(shell, {}) /\ PendingInv({})
  BY <1>2 DEF ListInv, FlagsInv, PendingInv
<1>5. PageInv(disk, shell, {})
  BY <1>2 DEF PageInv, Blank
<1> QED
  BY <1>3, <1>4, <1>5 DEF WindowInv, WindowOK

LEMMA NextShows ==
  ASSUME 0 \notin Plugins, Packages \subseteq Plugins, HostInv, HostInv', RunInv, WindowInv,
         [Next]_hostVars
  PROVE  WindowInv'
<1>1. CASE UNCHANGED <<disk, shell, commands>>
  BY <1>1 DEF WindowInv
<1>2. CASE \/ \E c \in rpcs : Register(c) \/ Ask(c) \/ ReadAnswer(c) \/ ReadEnd(c)
           \/ \E n \in DOMAIN processes : BackendAnswers(n) \/ BackendEnds(n) \/ BackendCrashes(n)
           \/ rpc_request \/ UNCHANGED hostVars
  <2>1. UNCHANGED <<disk, shell, commands>>
    BY <1>2 DEF Register, Ask, ReadAnswer, ReadEnd, BackendAnswers, BackendEnds, BackendCrashes,
                Exits, rpc_request, hostVars
  <2> QED
    BY <1>1, <2>1
<1>3. CASE StopFirst \/ ChangeDisk \/ NothingInstalled \/ refreshInstalledPluginState \/ PageArrives
  BY <1>3, StopFirstWindow, ChangeDiskWindow, NothingInstalledWindow, refreshWindow, PageArrivesWindow
<1>4. CASE \/ \E f \in Plugins \cup {0} : handleSelectWorkspace(f)
           \/ \E p \in Packages : handleInstallPlugin(p)
           \/ \E p \in Plugins : handleUninstallPlugin(p)
  BY <1>4, SelectWindow, ManagerWindow
<1> QED
  BY <1>2, <1>3, <1>4 DEF Next, HostWorks

\* When nothing is pending the window is what WindowFollowsDisk says.
LEMMA WindowShown ==
  ASSUME HostInv, WindowInv
  PROVE  WindowFollowsDisk
<1>1. PageInv(disk, shell, Pending(commands)) /\ FlagsInv(shell, Pending(commands))
      /\ ListInv(disk, shell, Pending(commands))
  BY DEF WindowInv, WindowOK
<1>2. \/ shell.page.plugin \in {0, shell.front}
      \/ \E i \in DOMAIN commands : commands[i].kind = "read" /\ commands[i].live
  <2>1. ASSUME NEW c \in Pending(commands), Reading(c)
        PROVE  \E i \in DOMAIN commands : commands[i].kind = "read" /\ commands[i].live
    BY <2>1 DEF Pending, Request, Reading
  <2> QED
    BY <1>1, <2>1 DEF PageInv
<1>3. ASSUME commands = <<>>
      PROVE  /\ ~shell.busy /\ shell.removing = 0
             /\ shell.stale \/ shell.list = disk
             /\ shell.page # Blank =>
                  /\ shell.page.plugin = shell.front
                  /\ shell.outdated \/ shell.stale \/ shell.page.version = shell.list[shell.front]
  <2>1. Pending(commands) = {}
    BY <1>3 DEF Pending
  <2>2. ~shell.busy /\ shell.removing = 0 /\ (shell.stale \/ shell.list = disk)
    BY <1>1, <2>1 DEF FlagsInv, ListInv
  <2> QED
    BY <1>1, <2>1, <2>2 DEF PageInv
<1> QED
  BY <1>2, <1>3 DEF WindowFollowsDisk

\* The invariants say that plugins run and are shown as they are installed.
LEMMA HostShown == HostInv /\ RunInv /\ WindowInv => PluginsRunAsInstalled
BY WindowShown DEF RunInv, RegistryInv, Serves, RunsWhatIsInstalled, PluginsRunAsInstalled

\* Plugins run and are shown as they are installed (PluginsRunAsInstalled): whatever is installed,
\* removed, opened and asked for meanwhile, a plugin's calls are served by a backend of the
\* version installed, unless a call started it while the plugin was being stopped; and
\* when nothing is pending the window lists what is installed and shows the page in front.
THEOREM PluginsFollowTheDisk ==
  ASSUME 0 \notin Plugins, Packages \subseteq Plugins
  PROVE  Spec => []PluginsRunAsInstalled
<1>1. Init => HostInv /\ RunInv /\ WindowInv
  BY Init_Inv, InitRuns, InitShows
<1>2. HostInv /\ RunInv /\ WindowInv /\ [Next]_hostVars => HostInv' /\ RunInv' /\ WindowInv'
  BY Next_Inv, NextRuns, NextShows
<1> QED
  BY <1>1, <1>2, HostShown, PTL DEF Spec
=============================================================================
