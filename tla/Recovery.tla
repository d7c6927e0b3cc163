------------------------------ MODULE Recovery ------------------------------
(***************************************************************************)
(* Children across the life of the manager: PIDs and their reuse, the      *)
(* signals the manager sends, status.json, the crash of the manager, the   *)
(* recovery of what it left behind and the backoff it restores             *)
(* (process.go, state.go, supervisor.go, service_runtime.go, linux.go).    *)
(*                                                                         *)
(* A pass is seen here one configuration at a time, because a crash, an    *)
(* exit or a new process may come between two of them; what decides        *)
(* whether a configuration may run, sessions and devices included, is in   *)
(* Supervisor and is a free choice here.  A launch gets a snapshot of its  *)
(* own, so the start of a child stands for its path too.  Time is reduced  *)
(* to whether a configuration is still "delayed".  The files of snapshots  *)
(* and the descendants of a child are left out.                            *)
(*                                                                         *)
(* A stop is not atomic: the manager looks at the PID, sends TERM to the   *)
(* group of that number, waits and sends KILL to the number, while the     *)
(* goroutine in Wait may reap the child and its PID go to another process. *)
(***************************************************************************)
EXTENDS Naturals, FiniteSets

CONSTANTS
  Last,        \* configurations are 1 .. Last, in the order of a pass
  Editable,    \* those whose files change
  Pids,        \* process identifiers
  None,
  MaxStarts,   \* bound: processes started
  MaxEdits,    \* bound: changes of files
  MaxManagers  \* bound: times the manager is started

ASSUME RecoveryAssumption ==
  /\ Last \in Nat \ {0} /\ Editable \subseteq 1 .. Last /\ None \notin Pids
  /\ MaxStarts \in Nat /\ MaxEdits \in Nat /\ MaxManagers \in Nat \ {0}

Configs == 1 .. Last
Starts == 0 .. MaxStarts
Contents == 0 .. 2       \* what a file holds: 0 when there is none

VARIABLES
  life,     \* the manager: "down", "recovering", "up" or "leaving"
  manager,  \* which one it is
  cgroups,  \* is cgroupRoot set?
  file,     \* the configuration files
  edits,    \* bounded counter
  proc,     \* the processes of the system, by PID
  starts,   \* the last start time given
  states,   \* m.states
  status,   \* status.json
  at,       \* the configuration in hand; 0 between two passes
  step,     \* what is next for it
  stop,     \* the stop or the recovery of a child that is under way
  struck    \* history: has a signal reached a process it was not meant for,
            \* although that very process was there when the manager looked?

vars == <<life, manager, cgroups, file, edits, proc, starts, states, status, at, step, stop, struck>>

\* A process that is no child has no configuration.  "doomed": a SIGKILL is
\* pending.  "replaced": its executable was, so that its command line and
\* that of the manager's KMonad differ.  "listed": history, does status.json
\* name it?  "new" before a pass has ended, "no" when that write could not.
Processes == [start: Starts, config: Configs \cup {None}, manager: 0 .. MaxManagers,
              doomed: BOOLEAN, replaced: BOOLEAN, listed: {"new", "yes", "no"}]

Handles == [pid: Pids, start: Starts]      \* processState
NoBlame == [sig |-> 0, manager |-> 0]

\* configState.  "blame": history, the content whose failure delays it.
States == [sig: Contents, pending: Contents, delayed: BOOLEAN,
           process: Handles \cup {None}, blame: [sig: Contents, manager: 0 .. MaxManagers]]

Fresh == [sig |-> 0, pending |-> 0, delayed |-> FALSE,
          process |-> None, blame |-> NoBlame]

\* statusConfig: the PID, the start time that PID has when the file is
\* written, the launch path and the backoff.
Entries == [pid: Pids \cup {None}, start: Starts, path: Starts, delayed: BOOLEAN]

\* The child with "start" is to end.  "seen": history, the start time of the
\* process its PID had when the manager last looked.  "term" and "kill" come
\* next, or the end of the child is awaited.
Stops == [who: {"stop", "recover"}, config: Configs, pid: Pids, start: Starts, seen: Starts,
          next: {"term", "wait", "kill"}]

\* None is none of these.
ASSUME NoneAssumption ==
  None \notin Configs \cup Handles \cup Processes \cup States \cup Entries \cup Stops
                \cup [Configs -> Entries \cup {None}]

TypeOK ==
  /\ life \in {"down", "recovering", "up", "leaving"}
  /\ manager \in 0 .. MaxManagers
  /\ cgroups \in BOOLEAN
  /\ file \in [Configs -> Contents] /\ edits \in 0 .. MaxEdits
  /\ proc \in [Pids -> Processes \cup {None}]
  /\ starts \in Starts
  /\ states \in [Configs -> States \cup {None}]
  /\ status = None \/ status \in [Configs -> Entries \cup {None}]
  /\ at \in 0 .. Last + 1
  /\ step \in {"check", "launch", "prepared"}
  /\ stop \in Stops \cup {None}
  /\ struck \in BOOLEAN

-----------------------------------------------------------------------------
(* Processes.                                                              *)

ProcessStartTime(pid) == IF proc[pid] = None THEN 0 ELSE proc[pid].start

\* Only a child runs the manager's KMonad on the path of its launch.
ProcessMatchesCommand(pid, path) ==
  /\ proc[pid] # None
  /\ proc[pid].config # None /\ proc[pid].start = path /\ ~proc[pid].replaced

Running(c) == states[c] # None /\ states[c].process # None
Handle(c) == states[c].process

OwnsProcess(c) ==
  /\ ProcessStartTime(Handle(c).pid) = Handle(c).start
  /\ ProcessMatchesCommand(Handle(c).pid, Handle(c).start)

\* The goroutine in Wait has seen the child go.
Exited(c) == ProcessStartTime(Handle(c).pid) # Handle(c).start

\* What a signal to these processes can leave: each dies, or will.
Killed(pids) ==
  {[p \in Pids |-> IF p \in dead THEN None
                   ELSE IF p \in pids THEN [proc[p] EXCEPT !.doomed = TRUE]
                   ELSE proc[p]] : dead \in SUBSET pids}

\* cgroup.kill reaches all that the configuration's group holds.
CleanupCgroup(c) ==
  IF cgroups THEN {p \in Pids : proc[p] # None /\ proc[p].config = c} ELSE {}

\* A signal for c by number: a new process with this PID leads its group and
\* gets it.  Was it there when the manager looked?
SignalGroup(c, pid, seen) ==
  struck' = (struck \/ (/\ proc[pid] # None
                        /\ proc[pid].config # c
                        /\ proc[pid].start <= seen))

Numbered(pid) == {p \in {pid} : proc[p] # None}

\* stopProcess up to its first signal: a child that is owned will get it, one
\* that is not is forgotten and only its cgroup is emptied.
StopProcess(c) ==
  IF Running(c) /\ OwnsProcess(c)
  THEN /\ stop' = [who |-> "stop", config |-> c, pid |-> Handle(c).pid,
                   start |-> Handle(c).start,
                   seen |-> ProcessStartTime(Handle(c).pid), next |-> "term"]
       /\ UNCHANGED <<proc, struck>>
  ELSE /\ proc' \in Killed(IF Running(c) THEN CleanupCgroup(c) ELSE {})
       /\ UNCHANGED <<stop, struck>>

-----------------------------------------------------------------------------
(* What changes a state.                                                   *)

\* "sig" is the content that failed.
ScheduleRetry(s, sig) ==
  [s EXCEPT !.delayed = TRUE, !.blame = [sig |-> sig, manager |-> manager]]

\* Tried again in a second, with no failure counted.
TryAgain(s) ==
  [s EXCEPT !.delayed = TRUE, !.blame = [sig |-> s.sig, manager |-> manager]]

WithoutProcess(s) == [s EXCEPT !.process = None]

State(c) == IF states[c] = None THEN Fresh ELSE states[c]

Changed(c) == State(c).sig # file[c]

Update(c, s) == states' = [states EXCEPT ![c] = s]

NextConfiguration == at' = at + 1 /\ step' = "check"

-----------------------------------------------------------------------------
(* The pass.                                                               *)

Checking(c) == life = "up" /\ stop = None /\ at = c /\ step = "check"

BeginPass ==
  /\ life = "up" /\ stop = None /\ at = 0
  /\ at' = 1 /\ step' = "check"
  /\ UNCHANGED <<life, manager, cgroups, file, edits, proc, starts, states, status, stop, struck>>

\* No file, or one that may not run: stopAndDelete.  Here and below the state
\* is what it will be after the stop, which nothing of the manager overtakes.
Refuse(c) ==
  /\ Checking(c)
  /\ StopProcess(c)
  /\ Update(c, None)
  /\ NextConfiguration
  /\ UNCHANGED <<life, manager, cgroups, file, edits, starts, status>>

\* A session holds its device: stopped, and its state kept.
Hold(c) ==
  /\ Checking(c) /\ file[c] # 0 /\ states[c] # None
  /\ StopProcess(c)
  /\ Update(c, WithoutProcess(states[c]))
  /\ NextConfiguration
  /\ UNCHANGED <<life, manager, cgroups, file, edits, starts, status>>

\* The file changes while it is read, or while its update is validated.
Skip(c) ==
  /\ Checking(c) /\ file[c] # 0
  /\ NextConfiguration
  /\ UNCHANGED <<life, manager, cgroups, file, edits, proc, starts, states, status, stop, struck>>

\* The update of a running configuration fails its dry run, unless this very
\* content did and its retry is not due.
RejectUpdate(c) ==
  /\ Checking(c) /\ file[c] # 0 /\ Running(c) /\ Changed(c)
  /\ IF states[c].pending = file[c] /\ states[c].delayed THEN UNCHANGED states
     ELSE Update(c, ScheduleRetry([states[c] EXCEPT !.pending = file[c]], file[c]))
  /\ NextConfiguration
  /\ UNCHANGED <<life, manager, cgroups, file, edits, proc, starts, status, stop, struck>>

Adopt_KeepsBackoff(c) ==  \* mutation: the failures of the old content count
  /\ Checking(c) /\ file[c] # 0 /\ Changed(c)
  /\ Running(c) => ~(states[c].pending = file[c] /\ states[c].delayed)
  /\ StopProcess(c)
  /\ Update(c, [State(c) EXCEPT !.process = None, !.sig = file[c]])
  /\ step' \in (IF Running(c) THEN {} ELSE {"launch"}) \cup {"prepared"}
  /\ UNCHANGED <<life, manager, cgroups, file, edits, starts, status, at>>

\* New content: the old child is stopped and the failures of the old content
\* are forgotten.  An update has been validated by now, and so has what a
\* mutation prepared.
Adopt(c) ==
  /\ Checking(c) /\ file[c] # 0 /\ Changed(c)
  /\ Running(c) => ~(states[c].pending = file[c] /\ states[c].delayed)
  /\ StopProcess(c)
  /\ Update(c, [Fresh EXCEPT !.sig = file[c]])
  /\ step' \in (IF Running(c) THEN {} ELSE {"launch"}) \cup {"prepared"}
  /\ UNCHANGED <<life, manager, cgroups, file, edits, starts, status, at>>

\* The child was not owned, or in state D, for as long as the watchdog waits.
Watchdog(c) ==
  /\ Checking(c) /\ file[c] # 0 /\ Running(c) /\ ~Changed(c)
  /\ StopProcess(c)
  /\ Update(c, ScheduleRetry(WithoutProcess(states[c]), file[c]))
  /\ NextConfiguration
  /\ UNCHANGED <<life, manager, cgroups, file, edits, starts, status>>

\* The group of a child that has exited is killed by its number, unseen.
ProcessExited(c) ==
  /\ Checking(c) /\ file[c] # 0 /\ Running(c) /\ ~Changed(c) /\ Exited(c)
  /\ SignalGroup(c, Handle(c).pid, Handle(c).start)
  /\ proc' \in Killed(Numbered(Handle(c).pid) \cup CleanupCgroup(c))
  /\ Update(c, ScheduleRetry(WithoutProcess(states[c]), file[c]))
  /\ NextConfiguration
  /\ UNCHANGED <<life, manager, cgroups, file, edits, starts, status, stop>>

\* A child that has run for 30 seconds has its failures forgiven.
KeepRunning(c) ==
  /\ Checking(c) /\ file[c] # 0 /\ Running(c) /\ ~Changed(c) /\ ~Exited(c)
  /\ \/ UNCHANGED states
     \/ Update(c, [states[c] EXCEPT !.delayed = FALSE, !.blame = NoBlame])
  /\ NextConfiguration
  /\ UNCHANGED <<life, manager, cgroups, file, edits, proc, starts, status, stop, struck>>

Ready(c) == Checking(c) /\ file[c] # 0 /\ states[c] # None /\ ~Running(c) /\ ~Changed(c)

Wait(c) ==
  /\ Ready(c) /\ states[c].delayed
  /\ NextConfiguration
  /\ UNCHANGED <<life, manager, cgroups, file, edits, proc, starts, states, status, stop, struck>>

Due(c) ==
  /\ Ready(c) /\ ~states[c].delayed
  /\ step' \in {"launch", "prepared"}
  /\ UNCHANGED <<life, manager, cgroups, file, edits, proc, starts, states, status, at, stop, struck>>

Launching(c) == life = "up" /\ stop = None /\ at = c /\ step \in {"launch", "prepared"}

\* startConfig without a child: the file is not the one of this pass any
\* more, its dry run fails, the device has gone, KMonad does not start or
\* cannot be put into its cgroup and is killed and waited for.
FailToStart(c) ==
  /\ Launching(c)
  /\ \/ step = "launch" /\ file[c] # states[c].sig /\ Update(c, TryAgain(states[c]))
     \/ (step = "launch" => file[c] = states[c].sig) /\ Update(c, ScheduleRetry(states[c], states[c].sig))
     \/ UNCHANGED states
  /\ NextConfiguration
  /\ UNCHANGED <<life, manager, cgroups, file, edits, proc, starts, status, stop, struck>>

StartConfig(c) ==
  /\ Launching(c) /\ (step = "launch" => file[c] = states[c].sig)
  /\ starts < MaxStarts
  /\ starts' = starts + 1
  /\ \E p \in Pids :
       /\ proc[p] = None
       /\ proc' = [proc EXCEPT ![p] = [start |-> starts', config |-> c, manager |-> manager,
                     doomed |-> FALSE, replaced |-> FALSE, listed |-> "new"]]
       /\ Update(c, [states[c] EXCEPT !.process = [pid |-> p, start |-> starts']])
  /\ NextConfiguration
  /\ UNCHANGED <<life, manager, cgroups, file, edits, status, stop, struck>>

\* Written from the files there are now; the start time is read again.
Entry(c) ==
  LET s == State(c) IN
  IF file[c] = 0 THEN None
  ELSE [pid |-> IF s.process = None THEN None ELSE s.process.pid,
        start |-> IF s.process = None THEN 0 ELSE ProcessStartTime(s.process.pid),
        path |-> IF s.process = None THEN 0 ELSE s.process.start,
        delayed |-> s.delayed]

Names(table, p) ==
  /\ table # None
  /\ \E c \in Configs : /\ table[c] # None /\ table[c].pid = p
                        /\ table[c].start = proc[p].start /\ table[c].path = proc[p].start

\* What the end of a pass leaves on record of a child.
Recorded(p) ==
  IF Names(status', p) THEN "yes"
  ELSE IF status' # [c \in Configs |-> Entry(c)] \/ file[proc[p].config] = 0 THEN "no"
  ELSE proc[p].listed

WriteStatus ==
  /\ life = "up" /\ stop = None /\ at = Last + 1
  /\ status' \in {[c \in Configs |-> Entry(c)], status}
  /\ proc' = [p \in Pids |-> IF proc[p] = None \/ proc[p].config = None \/ proc[p].manager # manager
                             THEN proc[p] ELSE [proc[p] EXCEPT !.listed = Recorded(p)]]
  /\ at' = 0 /\ step' = "check"
  /\ UNCHANGED <<life, manager, cgroups, file, edits, starts, states, stop, struck>>

\* A delay ends.
Elapse(c) ==
  /\ life = "up" /\ states[c] # None /\ states[c].delayed
  /\ Update(c, [states[c] EXCEPT !.delayed = FALSE, !.blame = NoBlame])
  /\ UNCHANGED <<life, manager, cgroups, file, edits, proc, starts, status, at, step, stop, struck>>

-----------------------------------------------------------------------------
(* The rest of a stop.                                                     *)

\* TERM: what gets it may die of it (Exit) or not.
Terminate ==
  /\ stop # None /\ stop.next = "term"
  /\ SignalGroup(stop.config, stop.pid, stop.seen)
  /\ stop' = [stop EXCEPT !.next = "wait"]
  /\ UNCHANGED <<life, manager, cgroups, file, edits, proc, starts, states, status, at, step>>

\* The cgroup of a configuration that is stopped is emptied; a recovery knows none.
StoppedCgroup == IF stop.who = "stop" THEN CleanupCgroup(stop.config) ELSE {}

\* The child has gone.
Stopped ==
  /\ stop # None /\ stop.next = "wait" /\ ProcessStartTime(stop.pid) # stop.start
  /\ proc' \in Killed(StoppedCgroup)
  /\ stop' = None
  /\ UNCHANGED <<life, manager, cgroups, file, edits, starts, states, status, at, step, struck>>

\* The deadline passes.  A recovery looks at the PID again; a stop does not,
\* and may take this way although the child has gone.
Deadline ==
  /\ stop # None /\ stop.next = "wait"
  /\ stop.who = "recover" => ProcessStartTime(stop.pid) = stop.start
  /\ stop' = [stop EXCEPT !.next = "kill",
                          !.seen = IF stop.who = "recover" THEN ProcessStartTime(stop.pid) ELSE @]
  /\ UNCHANGED <<life, manager, cgroups, file, edits, proc, starts, states, status, at, step, struck>>

\* KILL, and an end to the stop whether or not it was seen to work.
Kill ==
  /\ stop # None /\ stop.next = "kill"
  /\ SignalGroup(stop.config, stop.pid, stop.seen)
  /\ proc' \in Killed(Numbered(stop.pid) \cup StoppedCgroup)
  /\ stop' = None
  /\ UNCHANGED <<life, manager, cgroups, file, edits, starts, states, status, at, step>>

-----------------------------------------------------------------------------
(* The end of a manager and the start of the next.                         *)

\* cleanup: the children are stopped one after the other, and the file goes.
Cleanup ==
  /\ life = "up" /\ stop = None /\ at = 0
  /\ life' = "leaving"
  /\ UNCHANGED <<manager, cgroups, file, edits, proc, starts, states, status, at, step, stop, struck>>

StopStates(c) ==
  /\ life = "leaving" /\ stop = None /\ states[c] # None
  /\ StopProcess(c)
  /\ Update(c, None)
  /\ UNCHANGED <<life, manager, cgroups, file, edits, starts, status, at, step>>

CleanupDone ==
  /\ life = "leaving" /\ stop = None /\ \A c \in Configs : states[c] = None
  /\ status' = None
  /\ life' = "down"
  /\ UNCHANGED <<manager, cgroups, file, edits, proc, starts, states, at, step, stop, struck>>

\* The kernel sends TERM to the children the manager had: any of them may
\* outlive it.
Crash ==
  /\ life # "down"
  /\ \E dead \in SUBSET {p \in Pids : /\ proc[p] # None /\ proc[p].config # None
                                      /\ proc[p].manager = manager} :
       proc' = [p \in Pids |-> IF p \in dead THEN None ELSE proc[p]]
  /\ states' = [c \in Configs |-> None]
  /\ life' = "down" /\ at' = 0 /\ step' = "check" /\ stop' = None
  /\ UNCHANGED <<manager, cgroups, file, edits, starts, status, struck>>

Restart_RemovesStatus ==  \* mutation: the file goes before recovery is done
  /\ life = "down" /\ manager < MaxManagers
  /\ manager' = manager + 1 /\ status' = None
  /\ life' = "recovering" /\ at' = 1 /\ step' = "check"
  /\ UNCHANGED <<cgroups, file, edits, proc, starts, states, stop, struck>>

Restart ==
  /\ life = "down" /\ manager < MaxManagers
  /\ manager' = manager + 1
  /\ life' = "recovering" /\ at' = 1 /\ step' = "check"
  /\ UNCHANGED <<cgroups, file, edits, proc, starts, states, status, stop, struck>>

Recovering(c) == life = "recovering" /\ stop = None /\ at = c /\ status # None

Left_AnyCommand(c) ==  \* mutation: the start time alone is compared
  /\ status[c] # None /\ status[c].pid # None /\ status[c].start # 0
  /\ ProcessStartTime(status[c].pid) = status[c].start

\* A child of this entry: it has the start time and the command line.
Left(c) ==
  /\ status[c] # None /\ status[c].pid # None /\ status[c].start # 0
  /\ ProcessStartTime(status[c].pid) = status[c].start
  /\ ProcessMatchesCommand(status[c].pid, status[c].path)

RecoverNothing(c) ==
  /\ Recovering(c) /\ ~Left(c)
  /\ NextConfiguration
  /\ UNCHANGED <<life, manager, cgroups, file, edits, proc, starts, states, status, stop, struck>>

\* The start time is compared again just before the signal; had the child
\* gone by then, nothing would be sent, as if it had gone before.
RecoverChild(c) ==
  /\ Recovering(c) /\ Left(c)
  /\ stop' = [who |-> "recover", config |-> c, pid |-> status[c].pid, start |-> status[c].start,
              seen |-> ProcessStartTime(status[c].pid), next |-> "term"]
  /\ NextConfiguration
  /\ UNCHANGED <<life, manager, cgroups, file, edits, proc, starts, states, status, struck>>

\* restoreBackoff: failures and delay, without the content they are for.
RestoreBackoff ==
  IF status = None THEN [c \in Configs |-> None]
  ELSE [c \in Configs |->
          IF status[c] = None \/ ~status[c].delayed THEN None
          ELSE [Fresh EXCEPT !.delayed = TRUE]]

Recovered ==
  /\ life = "recovering" /\ stop = None /\ (status = None \/ at = Last + 1)
  /\ states' = RestoreBackoff
  /\ status' = None
  /\ life' = "up" /\ at' = 0 /\ step' = "check"
  /\ UNCHANGED <<manager, cgroups, file, edits, proc, starts, stop, struck>>

-----------------------------------------------------------------------------
(* The rest of the system.                                                 *)

Edit(c) ==
  /\ edits < MaxEdits /\ edits' = edits + 1
  /\ \E content \in Contents \ {file[c]} : file' = [file EXCEPT ![c] = content]
  /\ UNCHANGED <<life, manager, cgroups, proc, starts, states, status, at, step, stop, struck>>

Exit(p) ==
  /\ proc[p] # None
  /\ proc' = [proc EXCEPT ![p] = None]
  /\ UNCHANGED <<life, manager, cgroups, file, edits, starts, states, status, at, step, stop, struck>>

\* Another program gets a PID that is free.
Foreign(p) ==
  /\ proc[p] = None /\ starts < MaxStarts
  /\ starts' = starts + 1
  /\ proc' = [proc EXCEPT ![p] = [start |-> starts', config |-> None, manager |-> 0,
                doomed |-> FALSE, replaced |-> FALSE, listed |-> "no"]]
  /\ UNCHANGED <<life, manager, cgroups, file, edits, states, status, at, step, stop, struck>>

\* KMonad is upgraded while children of the old one run.
Upgrade ==
  /\ \E p \in Pids : proc[p] # None /\ proc[p].config # None /\ ~proc[p].replaced
  /\ proc' = [p \in Pids |-> IF proc[p] = None \/ proc[p].config = None THEN proc[p]
                             ELSE [proc[p] EXCEPT !.replaced = TRUE]]
  /\ UNCHANGED <<life, manager, cgroups, file, edits, starts, states, status, at, step, stop, struck>>

-----------------------------------------------------------------------------
Init ==
  /\ life = "down" /\ manager = 0
  /\ cgroups \in BOOLEAN
  /\ file = [c \in Configs |-> 1] /\ edits = 0
  /\ proc = [p \in Pids |-> None]
  /\ starts = 0
  /\ states = [c \in Configs |-> None]
  /\ status = None
  /\ at = 0 /\ step = "check"
  /\ stop = None /\ struck = FALSE

Pass ==
  \/ BeginPass
  \/ WriteStatus
  \/ \E c \in Configs :
       \/ Refuse(c) \/ Hold(c) \/ Skip(c) \/ RejectUpdate(c) \/ Adopt(c)
       \/ Watchdog(c) \/ ProcessExited(c) \/ KeepRunning(c)
       \/ Wait(c) \/ Due(c) \/ FailToStart(c) \/ StartConfig(c)

StopOne == Terminate \/ Stopped \/ Deadline \/ Kill

Leave == Cleanup \/ CleanupDone \/ \E c \in Configs : StopStates(c)

Recover ==
  \/ Recovered
  \/ \E c \in Configs : RecoverNothing(c) \/ RecoverChild(c)

Environment ==
  \/ Crash \/ Restart \/ Upgrade
  \/ \E c \in Configs : Elapse(c) \/ (c \in Editable /\ Edit(c))
  \/ \E p \in Pids : Exit(p) \/ Foreign(p)

Next == Pass \/ StopOne \/ Leave \/ Recover \/ Environment

Spec == Init /\ [][Next]_vars

-----------------------------------------------------------------------------
(* Properties.                                                             *)

\* The signals of the manager go by number and PIDs are reused.  A process
\* that is not the child they are for can be hit only in the time between the
\* last look at the PID (ownsProcess for TERM and for the KILL after it, the
\* start time read again for either signal of a recovery) and the signal: no
\* process that was there at that look, or, for the kill of the group of a
\* child that has exited, when the child was launched, gets one, whatever PIDs
\* are reused and whenever status.json was written.  Within that time the code
\* does not exclude it, and the runs reach it.
SignalsOwned == struck = FALSE

Serving == life \in {"up", "leaving"}

Sound(p) ==
  /\ proc[p] # None /\ proc[p].config # None
  /\ ~proc[p].doomed /\ ~proc[p].replaced

Stopping(p) == stop # None /\ stop.pid = p /\ stop.start = proc[p].start

Tracked(p) ==
  \/ Stopping(p)
  \/ \E c \in Configs : Running(c) /\ Handle(c) = [pid |-> p, start |-> proc[p].start]

\* No child is lost: one that could still be stopped is in the table of the
\* manager, being stopped, or in the status.json the next manager reads.  The exceptions: a
\* SIGKILL that was not confirmed, an executable that was replaced (signals
\* are refused and the child is forgotten), and a crash before a status.json
\* named the child (the first pass is not over, the write failed, or the file
\* of the configuration had gone by then).
NoChildLost ==
  /\ TypeOK
  /\ \A p \in Pids : Sound(p) =>
       \/ Serving /\ Tracked(p)
       \/ ~Serving /\ Names(status, p)
       \/ proc[p].listed # "yes" /\ (~Serving \/ proc[p].manager # manager)
  /\ life = "up" /\ at = 0 => \A p \in Pids : Sound(p) /\ proc[p].manager = manager =>
       proc[p].listed # "new"

\* A configuration waits only for failures that this manager saw, of the
\* content it waits with or of an update of it that was rejected: the backoff
\* of an earlier manager or of other content delays nothing (the reset of
\* reconcile at a change, and restoreBackoff).
BackoffFresh ==
  \A c \in Configs : Ready(c) /\ states[c].delayed =>
    /\ states[c].blame.manager = manager
    /\ states[c].blame.sig \in {states[c].sig, states[c].pending}

=============================================================================
