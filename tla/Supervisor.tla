----------------------------- MODULE Supervisor -----------------------------
(***************************************************************************)
(* The reconciliation owner of kmonad-device-manager: one goroutine that   *)
(* repeatedly walks the watched configuration files in name order, decides *)
(* which of them may drive which keyboard, validates them in a snapshot    *)
(* file, and starts, keeps, replaces or stops one KMonad child each        *)
(* (internal/manager/supervisor.go, identify.go, inputscan.go).            *)
(*                                                                         *)
(* A pass is not atomic: the directory listing, the inspection of a file   *)
(* and its device, the snapshot, the dry-run and the launch are separate   *)
(* steps, and files, device nodes, permissions, the kmonad executable and  *)
(* the children may change between any two of them.                        *)
(*                                                                         *)
(* Configurations are numbers in file-name order.  Times are countdowns in *)
(* ticks, which pass while the owner waits between two passes.             *)
(***************************************************************************)
EXTENDS Integers, FiniteSets

CONSTANTS
  NConfigs,         \* number of watched configuration files
  MaxConfigs,       \* KMONAD_MAX_CONFIGS
  Contents,         \* the byte strings a file may hold, named by their SHA-256
  PathOf,           \* the device-file path each content names
  Good,             \* the contents KMonad's dry-run accepts
  Paths,            \* device-file paths (stable symlinks)
  Idents,           \* kernel identities a path may resolve to
  None,             \* no content, no identity
  RetryCap,         \* failures from which the retry delay is constant
  RetryDelay,       \* the delay after each number of failures
  WatchdogTimeout,  \* KMONAD_WATCHDOG_TIMEOUT
  StableUptime,     \* uptime after which failures are forgotten
  MaxEvents         \* bound: environment events in a behaviour

Configs  == 1 .. NConfigs
SessionKinds == {"identify", "probe"}

ASSUME ConstantsAssumption ==
  /\ NConfigs \in Nat \ {0}
  /\ MaxConfigs \in Nat
  /\ PathOf \in [Contents -> Paths]
  /\ Good \subseteq Contents
  /\ None \notin Contents
  /\ None \notin Idents
  /\ RetryCap \in Nat \ {0}
  /\ RetryDelay \in [1 .. RetryCap -> Nat \ {0}]
  /\ WatchdogTimeout \in Nat
  /\ StableUptime \in Nat
  /\ MaxEvents \in Nat

VARIABLES
  \* the world around the manager
  file,        \* content of each configuration file, None when absent
  exposed,     \* files writable by other users
  dirExposed,  \* the configuration directory is writable by other users
  node,        \* identity each device path resolves to, None when unplugged
  hostOK,      \* KMonad can be executed and isolated
  events,      \* environment events so far
  \* the manager's memory
  states,      \* m.states
  duplicates,  \* m.duplicates: the device another configuration holds
  sessions,    \* m.identification and m.probe: the device each one reads
  \* snapshot files in the configuration directory
  snaps,
  \* the pass in progress
  pass,        \* where the owner stands
  listed,      \* activeConfigs: the files of this pass's listing
  todo,        \* listed files not inspected yet
  claims,      \* activeDevices: the configuration that claimed each device
  kept         \* history: processes this pass kept for a file it did not accept

env   == <<file, exposed, dirExposed, node, hostOK, events>>
vars  == <<file, exposed, dirExposed, node, hostOK, events, states, duplicates,
           sessions, snaps, pass, listed, todo, claims, kept>>

-----------------------------------------------------------------------------
(* The per-configuration state.  proc is the child as the kernel sees it:  *)
(* none, run, hung (uninterruptible sleep) or exited; from is what it was  *)
(* started on: the bytes of its snapshot file and the device their path    *)
(* then named, where dev is the device the inspection checked.  sick       *)
(* counts the ticks since the first failed health check (-1: healthy).     *)

Phases == {"none", "discovered", "validating", "waiting", "running",
           "failed", "duplicate", "stopped"}

FailureCounts == 0 .. RetryCap
SickTimes     == -1 .. WatchdogTimeout
Uptimes       == 0 .. StableUptime
Launches      == (Contents \X (Idents \cup {None})) \cup {None}

State == [phase: Phases, sig: Contents \cup {None}, dev: Idents \cup {None},
          fails: FailureCounts, wait: Nat, pend: Contents \cup {None},
          proc: {"none", "run", "hung", "exited"}, from: Launches,
          sick: SickTimes, up: Uptimes]

NoState == [phase |-> "none", sig |-> None, dev |-> None, fails |-> 0,
            wait |-> 0, pend |-> None, proc |-> "none", from |-> None, sick |-> -1,
            up |-> 0]

Fresh == [NoState EXCEPT !.phase = "discovered"]

HasProcess(s) == s.proc # "none"

ValidPhaseTransitions ==
  {"discovered"} \X {"validating", "duplicate", "stopped"} \cup
  {"validating"} \X {"running", "failed", "waiting", "stopped"} \cup
  {"waiting"}    \X {"validating", "stopped"} \cup
  {"running"}    \X {"failed", "stopped"} \cup
  {"failed"}     \X {"waiting", "validating", "stopped"} \cup
  {"duplicate"}  \X {"stopped", "validating"} \cup
  {"stopped"}    \X {"validating"}

\* An invalid transition is ignored; every caller ignores the result.
Transition(s, next) ==
  IF <<s.phase, next>> \in ValidPhaseTransitions
  THEN [s EXCEPT !.phase = next] ELSE s

ScheduleRetry(s) ==
  LET f == IF s.fails < RetryCap THEN s.fails + 1 ELSE RetryCap
  IN  Transition([s EXCEPT !.fails = f, !.wait = RetryDelay[f]], "failed")

Dropped(s) == [s EXCEPT !.proc = "none", !.from = None, !.sick = -1, !.up = 0]

\* What stopProcess may leave.  A child that ends before the deadline leaves
\* the phase alone; one that was killed, or is no longer ours, ends "stopped".
StopResults(s) ==
  IF s.proc \in {"run", "hung"}
  THEN {Dropped(s), Transition(Dropped(s), "stopped")}
  ELSE {Transition(Dropped(s), "stopped")}

\* The state after a validated change of content or device.
Reset(s, i, x) ==
  [s EXCEPT !.fails = 0, !.wait = 0, !.dev = i, !.sig = x, !.pend = None]

\* Snapshot files a state's child runs from.
SnapshotsOf(s) == IF HasProcess(s) THEN 1 ELSE 0

-----------------------------------------------------------------------------
(* copy is what the snapshot file of the validation in progress holds.     *)

At(where) == [at |-> where, cfg |-> 0, sig |-> None, dev |-> None, why |-> "none",
              copy |-> None]

Validating(c, x, i, why) ==
  [at |-> "snapshot", cfg |-> c, sig |-> x, dev |-> i, why |-> why, copy |-> None]

TypeOK ==
  /\ file \in [Configs -> Contents \cup {None}]
  /\ exposed \subseteq Configs
  /\ dirExposed \in BOOLEAN
  /\ node \in [Paths -> Idents \cup {None}]
  /\ hostOK \in BOOLEAN
  /\ events \in Nat
  /\ states \in [Configs -> State]
  /\ duplicates \in [Configs -> Idents \cup {None}]
  /\ sessions \in [SessionKinds -> Idents \cup {None}]
  /\ snaps \in [Configs -> Nat]
  /\ pass \in [at: {"down", "idle", "inspect", "snapshot", "dryrun", "launch"},
               cfg: Configs \cup {0}, sig: Contents \cup {None},
               dev: Idents \cup {None}, why: {"none", "update", "start"},
               copy: Contents \cup {None}]
  /\ listed \subseteq Configs
  /\ todo \subseteq listed
  /\ claims \in [Idents -> Configs \cup {0}]
  /\ kept \subseteq Configs

\* A newly started manager: any files and devices, no children.
Init ==
  /\ file \in [Configs -> Contents \cup {None}]
  /\ exposed = {}
  /\ dirExposed = FALSE
  /\ node \in [Paths -> Idents \cup {None}]
  /\ hostOK = TRUE
  /\ events = 0
  /\ states = [c \in Configs |-> NoState]
  /\ duplicates = [c \in Configs |-> None]
  /\ sessions = [k \in SessionKinds |-> None]
  /\ snaps = [c \in Configs |-> 0]
  /\ pass = At("idle")
  /\ listed = {}
  /\ todo = {}
  /\ claims = [i \in Idents |-> 0]
  /\ kept = {}

-----------------------------------------------------------------------------
(* Stopping several configurations at once: stopAll, the purge that ends a *)
(* pass, and cleanup.  Their states are deleted, so the phases do not      *)
(* matter.                                                                 *)
StopAndDelete(S) ==
  /\ states' = [c \in Configs |-> IF c \in S THEN NoState ELSE states[c]]
  /\ snaps' = [c \in Configs |->
                 IF c \in S THEN snaps[c] - SnapshotsOf(states[c]) ELSE snaps[c]]

\* The first part of reconcile: refuse an unsafe directory, else list it.
StartPass ==
  /\ kept' = {}
  /\ claims' = [i \in Idents |-> 0]
  /\ IF dirExposed
     THEN /\ StopAndDelete(Configs)
          /\ listed' = {}
          /\ todo' = {}
          /\ pass' = At("idle")
     ELSE /\ listed' = {c \in Configs : file[c] # None}
          /\ todo' = listed'
          /\ pass' = At("inspect")
          /\ UNCHANGED <<states, snaps>>
  /\ UNCHANGED <<env, duplicates>>

BeginPass == pass.at = "idle" /\ StartPass /\ UNCHANGED sessions

Current(c) == pass.at = "inspect" /\ c \in todo /\ \A d \in todo : c <= d

OverLimit_OffByOne(c) ==  \* mutation: compares before counting the file
  Cardinality({d \in listed : d < c}) > MaxConfigs

OverLimit(c) == Cardinality({d \in listed : d <= c}) > MaxConfigs

Ident(c) == node[PathOf[file[c]]]

\* worldWritable, readConfigWithLimit, deviceReady and deviceID all succeed.
Usable(c) == c \notin exposed /\ file[c] # None /\ Ident(c) # None

InSession_IdentifyOnly(i) == sessions["identify"] = i  \* mutation: forgets probes

InSession(i) == \E k \in SessionKinds : sessions[k] = i

NextFile(c) ==
  /\ todo' = todo \ {c}
  /\ pass' = At("inspect")

\* The configuration limit, an unsafe or unreadable file, an absent device.
Refuse(c) ==
  /\ Current(c)
  /\ OverLimit(c) \/ ~Usable(c)
  /\ StopAndDelete({c})
  /\ NextFile(c)
  /\ UNCHANGED <<env, duplicates, sessions, listed, claims, kept>>

\* The file is rewritten between the two stats of one read (errConfigChanged):
\* the configuration is skipped and its device is not claimed.
ReadRaces(c, x) ==
  /\ Current(c)
  /\ ~OverLimit(c)
  /\ c \notin exposed
  /\ file[c] # None
  /\ x # file[c]
  /\ events < MaxEvents
  /\ events' = events + 1
  /\ file' = [file EXCEPT ![c] = x]
  /\ kept' = IF HasProcess(states[c]) THEN kept \cup {c} ELSE kept
  /\ NextFile(c)
  /\ UNCHANGED <<exposed, dirExposed, node, hostOK, states, duplicates,
                 sessions, snaps, listed, claims>>

Inspected(c) == Current(c) /\ ~OverLimit(c) /\ Usable(c)

\* The device is held by an identification or probe session.
SkipForSession(c) ==
  /\ Inspected(c)
  /\ InSession(Ident(c))
  /\ states' = [states EXCEPT ![c] = Transition(Dropped(@), "stopped")]
  /\ snaps' = [snaps EXCEPT ![c] = @ - SnapshotsOf(states[c])]
  /\ NextFile(c)
  /\ UNCHANGED <<env, duplicates, sessions, listed, claims, kept>>

\* An earlier file of this pass claimed the device.
SkipDuplicate(c) ==
  /\ Inspected(c)
  /\ ~InSession(Ident(c))
  /\ claims[Ident(c)] # 0
  /\ duplicates' = [duplicates EXCEPT ![c] = Ident(c)]
  /\ StopAndDelete({c})
  /\ NextFile(c)
  /\ UNCHANGED <<env, sessions, listed, claims, kept>>

Claims_Unchecked(c) ==  \* mutation: overwrites an earlier claim
  /\ Inspected(c)
  /\ ~InSession(Ident(c))
  /\ claims' = [claims EXCEPT ![Ident(c)] = c]
  /\ duplicates' = [duplicates EXCEPT ![c] = None]
  /\ todo' = todo \ {c}
  /\ UNCHANGED <<env, sessions, listed>>

\* From here on the file is the one that may drive its device.
Claims(c) ==
  /\ Inspected(c)
  /\ ~InSession(Ident(c))
  /\ claims[Ident(c)] = 0
  /\ claims' = [claims EXCEPT ![Ident(c)] = c]
  /\ duplicates' = [duplicates EXCEPT ![c] = None]
  /\ todo' = todo \ {c}
  /\ UNCHANGED <<env, sessions, listed>>

StateOf(c) == IF states[c].phase = "none" THEN Fresh ELSE states[c]

Changed(c) == states[c].dev # Ident(c) \/ states[c].sig # file[c]

UpdateRejectedBefore(c) == states[c].pend = file[c] /\ states[c].wait > 0

\* A rejected update whose retry is not due: the old process is kept.
HoldUpdate(c) ==
  /\ Claims(c)
  /\ Changed(c)
  /\ HasProcess(states[c])
  /\ UpdateRejectedBefore(c)
  /\ kept' = kept \cup {c}
  /\ pass' = At("inspect")
  /\ UNCHANGED <<states, snaps>>

ValidateUpdate_StopsFirst(c) ==  \* mutation: stops the child before validating
  /\ Claims(c)
  /\ Changed(c)
  /\ HasProcess(states[c])
  /\ ~UpdateRejectedBefore(c)
  /\ pass' = Validating(c, file[c], Ident(c), "update")
  /\ states' = [states EXCEPT ![c] = Dropped(@)]
  /\ snaps' = [snaps EXCEPT ![c] = @ - 1]
  /\ UNCHANGED kept

\* An update of a running configuration is validated before anything stops.
ValidateUpdate(c) ==
  /\ Claims(c)
  /\ Changed(c)
  /\ HasProcess(states[c])
  /\ ~UpdateRejectedBefore(c)
  /\ pass' = Validating(c, file[c], Ident(c), "update")
  /\ UNCHANGED <<states, snaps, kept>>

\* New or changed content without a process: startConfig begins.
StartChanged(c) ==
  /\ Claims(c)
  /\ Changed(c)
  /\ ~HasProcess(states[c])
  /\ states' = [states EXCEPT ![c] =
       Transition(Reset(Transition(StateOf(c), "stopped"), Ident(c), file[c]),
                  "validating")]
  /\ pass' = Validating(c, file[c], Ident(c), "start")
  /\ UNCHANGED <<snaps, kept>>

Expired(s) == s.proc \in {"hung", "exited"} /\ s.sick >= WatchdogTimeout

WatchdogStops(c) ==
  /\ Claims(c)
  /\ ~Changed(c)
  /\ HasProcess(states[c])
  /\ Expired(states[c])
  /\ \E s \in StopResults(states[c]) :
       states' = [states EXCEPT ![c] = ScheduleRetry(s)]
  /\ snaps' = [snaps EXCEPT ![c] = @ - 1]
  /\ pass' = At("inspect")
  /\ UNCHANGED kept

ReapExited(c) ==
  /\ Claims(c)
  /\ ~Changed(c)
  /\ states[c].proc = "exited"
  /\ ~Expired(states[c])
  /\ states' = [states EXCEPT ![c] =
                  Transition(ScheduleRetry(Dropped(@)), "waiting")]
  /\ snaps' = [snaps EXCEPT ![c] = @ - 1]
  /\ pass' = At("inspect")
  /\ UNCHANGED kept

HealthChecked_NoStamp(s) ==  \* mutation: does not note since when a child is sick
  [s EXCEPT !.sick = IF s.proc = "run" THEN -1 ELSE @,
            !.fails = IF s.up >= StableUptime THEN 0 ELSE @,
            !.wait = IF s.up >= StableUptime THEN 0 ELSE @]

HealthChecked(s) ==
  [s EXCEPT !.sick = IF s.proc = "run" THEN -1 ELSE IF @ = -1 THEN 0 ELSE @,
            !.fails = IF s.up >= StableUptime THEN 0 ELSE @,
            !.wait = IF s.up >= StableUptime THEN 0 ELSE @]

KeepRunning(c) ==
  /\ Claims(c)
  /\ ~Changed(c)
  /\ states[c].proc \in {"run", "hung"}
  /\ ~Expired(states[c])
  /\ states' = [states EXCEPT ![c] = HealthChecked(@)]
  /\ pass' = At("inspect")
  /\ UNCHANGED <<snaps, kept>>

WaitForRetry(c) ==
  /\ Claims(c)
  /\ ~Changed(c)
  /\ ~HasProcess(states[c])
  /\ states[c].wait > 0
  /\ states' = [states EXCEPT ![c] = Transition(@, "waiting")]
  /\ pass' = At("inspect")
  /\ UNCHANGED <<snaps, kept>>

StartAgain(c) ==
  /\ Claims(c)
  /\ ~Changed(c)
  /\ ~HasProcess(states[c])
  /\ states[c].wait = 0
  /\ states' = [states EXCEPT ![c] = Transition(@, "validating")]
  /\ pass' = Validating(c, file[c], Ident(c), "start")
  /\ UNCHANGED <<snaps, kept>>

-----------------------------------------------------------------------------
(* validateConfigSnapshot and startConfig, step by step.                   *)

\* The validation error's effect: an update leaves the old process alone, a
\* start waits one tick after a race and backs off after a rejection.
ValidationFails(c, why) ==
  /\ states' = [states EXCEPT ![c] =
       CASE pass.why = "update" /\ why = "changed" -> @
         [] pass.why = "update" /\ why # "changed" ->
              ScheduleRetry([@ EXCEPT !.pend = pass.sig])
         [] pass.why = "start" /\ why = "rejected" ->
              ScheduleRetry(Transition(@, "failed"))
         [] OTHER -> Transition([@ EXCEPT !.wait = 1], "waiting")]
  /\ kept' = IF pass.why = "update" THEN kept \cup {c} ELSE kept
  /\ pass' = At("inspect")

ReadError(c) == IF file[c] = None THEN "missing" ELSE "changed"

SnapshotFails(c) ==
  /\ pass.at = "snapshot" /\ pass.cfg = c
  /\ file[c] # pass.sig
  /\ ValidationFails(c, ReadError(c))
  /\ UNCHANGED <<env, duplicates, sessions, snaps, listed, todo, claims>>

TakeSnapshot(c) ==
  /\ pass.at = "snapshot" /\ pass.cfg = c
  /\ file[c] = pass.sig
  /\ snaps' = [snaps EXCEPT ![c] = @ + 1]
  /\ pass' = [pass EXCEPT !.at = "dryrun", !.copy = file[c]]
  /\ UNCHANGED <<env, states, duplicates, sessions, listed, todo, claims, kept>>

DryRunAccepts == pass.copy \in Good /\ hostOK

DryRunFails_Leaks(c) ==  \* mutation: forgets the snapshot when the file changed
  /\ pass.at = "dryrun" /\ pass.cfg = c
  /\ ~DryRunAccepts \/ file[c] # pass.sig
  /\ ValidationFails(c, IF DryRunAccepts THEN ReadError(c) ELSE "rejected")
  /\ snaps' = [snaps EXCEPT ![c] = IF DryRunAccepts THEN @ ELSE @ - 1]
  /\ UNCHANGED <<env, duplicates, sessions, listed, todo, claims>>

\* KMonad rejects the snapshot, or the file changed while it was checked.
DryRunFails(c) ==
  /\ pass.at = "dryrun" /\ pass.cfg = c
  /\ ~DryRunAccepts \/ file[c] # pass.sig
  /\ ValidationFails(c, IF DryRunAccepts THEN ReadError(c) ELSE "rejected")
  /\ snaps' = [snaps EXCEPT ![c] = @ - 1]
  /\ UNCHANGED <<env, duplicates, sessions, listed, todo, claims>>

\* For an update, only now is the old process stopped.
DryRunPasses(c) ==
  /\ pass.at = "dryrun" /\ pass.cfg = c
  /\ DryRunAccepts
  /\ file[c] = pass.sig
  /\ IF pass.why = "update"
     THEN \E s \in StopResults(states[c]) :
            states' = [states EXCEPT ![c] =
                         Transition(Reset(s, pass.dev, pass.sig), "validating")]
     ELSE UNCHANGED states
  /\ snaps' = [snaps EXCEPT ![c] = @ - SnapshotsOf(states[c])]
  /\ pass' = [pass EXCEPT !.at = "launch"]
  /\ UNCHANGED <<env, duplicates, sessions, listed, todo, claims, kept>>

SameDevice_Unchecked(c) ==  \* mutation: looks only whether a device is there
  node[PathOf[pass.copy]] # None

\* The device is checked once more right before the launch.
SameDevice(c) == node[PathOf[pass.copy]] = states[c].dev

LaunchAborts(c) ==
  /\ pass.at = "launch" /\ pass.cfg = c
  /\ ~SameDevice(c)
  /\ states' = [states EXCEPT ![c] = Transition([@ EXCEPT !.wait = 0], "waiting")]
  /\ snaps' = [snaps EXCEPT ![c] = @ - 1]
  /\ pass' = At("inspect")
  /\ UNCHANGED <<env, duplicates, sessions, listed, todo, claims, kept>>

\* The executable cannot be started or its cgroup cannot be joined.
LaunchFails(c) ==
  /\ pass.at = "launch" /\ pass.cfg = c
  /\ SameDevice(c)
  /\ ~hostOK
  /\ states' = [states EXCEPT ![c] = ScheduleRetry(@)]
  /\ snaps' = [snaps EXCEPT ![c] = @ - 1]
  /\ pass' = At("inspect")
  /\ UNCHANGED <<env, duplicates, sessions, listed, todo, claims, kept>>

LaunchSucceeds(c) ==
  /\ pass.at = "launch" /\ pass.cfg = c
  /\ SameDevice(c)
  /\ hostOK
  /\ states' = [states EXCEPT ![c] = Transition(
       [@ EXCEPT !.proc = "run", !.from = <<pass.copy, node[PathOf[pass.copy]]>>],
       "running")]
  /\ pass' = At("inspect")
  /\ UNCHANGED <<env, duplicates, sessions, snaps, listed, todo, claims, kept>>

EndPass_NoPurge ==  \* mutation: keeps the states of removed files
  /\ pass.at = "inspect"
  /\ todo = {}
  /\ pass' = At("idle")
  /\ UNCHANGED <<env, states, duplicates, sessions, snaps, listed, todo, claims, kept>>

\* States and duplicate marks of files that were not listed are dropped.
EndPass ==
  /\ pass.at = "inspect"
  /\ todo = {}
  /\ StopAndDelete(Configs \ listed)
  /\ duplicates' = [c \in Configs |-> IF c \in listed THEN duplicates[c] ELSE None]
  /\ pass' = At("idle")
  /\ UNCHANGED <<env, sessions, listed, todo, claims, kept>>

-----------------------------------------------------------------------------
(* Commands of the owner's mailbox, executed between two passes.           *)

\* startIdentification and startProbe: pauseDeviceConfigurations.
StartSession(k, i) ==
  /\ pass.at = "idle"
  /\ sessions[k] = None
  /\ \E p \in Paths : node[p] = i
  /\ events < MaxEvents
  /\ events' = events + 1
  /\ sessions' = [sessions EXCEPT ![k] = i]
  /\ states' = [c \in Configs |->
       IF states[c].dev = i THEN Transition(Dropped(states[c]), "stopped")
                            ELSE states[c]]
  /\ snaps' = [c \in Configs |->
       IF states[c].dev = i THEN snaps[c] - SnapshotsOf(states[c]) ELSE snaps[c]]
  /\ UNCHANGED <<file, exposed, dirExposed, node, hostOK, duplicates, pass,
                 listed, todo, claims, kept>>

\* finishIdentification, finishProbe and the cancel handlers reconcile at once.
EndSession(k) ==
  /\ pass.at = "idle"
  /\ sessions[k] # None
  /\ sessions' = [sessions EXCEPT ![k] = None]
  /\ StartPass

\* cleanup, when the run loop sees its context cancelled.
Shutdown ==
  /\ pass.at = "idle"
  /\ events < MaxEvents
  /\ events' = events + 1
  /\ StopAndDelete(Configs)
  /\ sessions' = [k \in SessionKinds |-> None]
  /\ pass' = At("down")
  /\ UNCHANGED <<file, exposed, dirExposed, node, hostOK, duplicates, listed,
                 todo, claims, kept>>

\* The next manager process starts with empty memory.
Restart ==
  /\ pass.at = "down"
  /\ duplicates' = [c \in Configs |-> None]
  /\ pass' = At("idle")
  /\ listed' = {}
  /\ claims' = [i \in Idents |-> 0]
  /\ kept' = {}
  /\ UNCHANGED <<env, states, sessions, snaps, todo>>

Aged(s) ==
  [s EXCEPT !.wait = IF @ > 0 THEN @ - 1 ELSE 0,
            !.sick = IF @ \in 0 .. (WatchdogTimeout - 1) THEN @ + 1 ELSE @,
            !.up = IF HasProcess(s) /\ @ < StableUptime THEN @ + 1 ELSE @]

\* Time passes while the owner waits in its select.
Tick ==
  /\ pass.at = "idle"
  /\ \E c \in Configs : Aged(states[c]) # states[c]
  /\ states' = [c \in Configs |-> Aged(states[c])]
  /\ UNCHANGED <<env, duplicates, sessions, snaps, pass, listed, todo, claims, kept>>

-----------------------------------------------------------------------------
(* The environment.                                                        *)

EnvStep ==
  /\ events < MaxEvents
  /\ events' = events + 1
  /\ UNCHANGED <<duplicates, sessions, snaps, pass, listed, todo, claims, kept>>

WriteFile(c, x) ==
  /\ EnvStep
  /\ x # file[c]
  /\ file' = [file EXCEPT ![c] = x]
  /\ UNCHANGED <<exposed, dirExposed, node, hostOK, states>>

ChangeMode(c) ==
  /\ EnvStep
  /\ file[c] # None
  /\ exposed' = IF c \in exposed THEN exposed \ {c} ELSE exposed \cup {c}
  /\ UNCHANGED <<file, dirExposed, node, hostOK, states>>

ChangeDirMode ==
  /\ EnvStep
  /\ dirExposed' = ~dirExposed
  /\ UNCHANGED <<file, exposed, node, hostOK, states>>

\* Plug, unplug, or a stable symlink that now names another device.
Rebind(p, i) ==
  /\ EnvStep
  /\ i # node[p]
  /\ node' = [node EXCEPT ![p] = i]
  /\ UNCHANGED <<file, exposed, dirExposed, hostOK, states>>

ChangeHost ==
  /\ EnvStep
  /\ hostOK' = ~hostOK
  /\ UNCHANGED <<file, exposed, dirExposed, node, states>>

\* A child exits, falls into uninterruptible sleep, or recovers from it.
ChildChanges(c, s) ==
  /\ EnvStep
  /\ <<states[c].proc, s>> \in {<<"run", "exited">>, <<"run", "hung">>,
                               <<"hung", "run">>, <<"hung", "exited">>}
  /\ states' = [states EXCEPT ![c].proc = s]
  /\ UNCHANGED <<file, exposed, dirExposed, node, hostOK>>

-----------------------------------------------------------------------------
PassStep(c) ==
  \/ Refuse(c)
  \/ SkipForSession(c)
  \/ SkipDuplicate(c)
  \/ HoldUpdate(c)
  \/ ValidateUpdate(c)
  \/ StartChanged(c)
  \/ WatchdogStops(c)
  \/ ReapExited(c)
  \/ KeepRunning(c)
  \/ WaitForRetry(c)
  \/ StartAgain(c)
  \/ SnapshotFails(c)
  \/ TakeSnapshot(c)
  \/ DryRunFails(c)
  \/ DryRunPasses(c)
  \/ LaunchAborts(c)
  \/ LaunchFails(c)
  \/ LaunchSucceeds(c)

Owner == BeginPass \/ EndPass \/ \E c \in Configs : PassStep(c)

Environment ==
  \/ \E c \in Configs, x \in Contents \cup {None} : WriteFile(c, x)
  \/ \E c \in Configs, x \in Contents : ReadRaces(c, x)
  \/ \E c \in Configs : ChangeMode(c)
  \/ ChangeDirMode
  \/ \E p \in Paths, i \in Idents \cup {None} : Rebind(p, i)
  \/ ChangeHost
  \/ \E c \in Configs, s \in {"run", "hung", "exited"} : ChildChanges(c, s)

Next ==
  \/ Owner
  \/ \E k \in SessionKinds, i \in Idents : StartSession(k, i)
  \/ \E k \in SessionKinds : EndSession(k)
  \/ Shutdown
  \/ Restart
  \/ Tick
  \/ Environment

Spec == Init /\ [][Next]_vars

(* The owner's loop always reaches its next pass (poll ticker), clocks run, *)
(* sessions end by their own timeout.  Tick and EndSession happen between   *)
(* passes, hence strong fairness.  Nothing is assumed of the environment.   *)
Fairness ==
  /\ WF_vars(Owner)
  /\ WF_vars(Restart)
  /\ SF_vars(Tick)
  /\ \A k \in SessionKinds : SF_vars(EndSession(k))

FairSpec == Spec /\ Fairness

-----------------------------------------------------------------------------
(* Properties.                                                             *)

\* Every snapshot file in the configuration directory belongs to a tracked
\* child or to the validation in progress, and each of those still has its
\* file: validateConfigSnapshot, startConfig, stopProcess and the reaping code
\* neither leak a snapshot nor remove one in use, whatever fails in between.
SnapshotAccounting ==
  \A c \in Configs :
    snaps[c] = SnapshotsOf(states[c])
               + (IF pass.cfg = c /\ pass.at \in {"dryrun", "launch"} THEN 1 ELSE 0)

\* A tracked child was started on bytes that passed KMonad's dry run and are the
\* ones the state records, while their path named the very device that the
\* inspection found free and claimed for them, although file and symlink may
\* change between inspection, snapshot, dry run and launch (startConfig,
\* validateConfigSnapshot).  KMonad opens the path itself after the manager's
\* last look at it: which device it then gets is outside the manager's hands.
RunsValidated ==
  \A c \in Configs :
    HasProcess(states[c]) =>
      /\ states[c].from = <<states[c].sig, states[c].dev>>
      /\ states[c].sig \in Good
      /\ states[c].dev # None

\* While an identification or probe session reads a device, no tracked child
\* drives it: neither a child from before the session, nor one that a pass
\* starts, nor a last-good child kept for a rejected edit.
SessionExclusive ==
  \A k \in SessionKinds, c \in Configs :
    sessions[k] # None /\ HasProcess(states[c]) => states[c].dev # sessions[k]

\* Between two passes, two children share a device only if one of them was kept
\* for a file the pass did not accept (a rejected or racing edit): among the
\* accepted configurations the claims of a pass are exclusive.
SharedOnlyWhenKept ==
  pass.at = "idle" =>
    \A c, d \in Configs :
      /\ c # d
      /\ HasProcess(states[c]) /\ HasProcess(states[d])
      /\ states[c].dev = states[d].dev
      => c \in kept \/ d \in kept

\* Between two passes at most KMONAD_MAX_CONFIGS children are tracked, although
\* files appear and disappear while a pass walks its listing.
LimitRespected ==
  pass.at = "idle" => Cardinality({c \in Configs : HasProcess(states[c])}) <= MaxConfigs

\* The file is listed, safe, within the limit, its device plugged, not in a
\* session and not claimed by another file of this pass.
Entitled(c) ==
  /\ ~dirExposed
  /\ c \in listed
  /\ ~OverLimit(c)
  /\ Usable(c)
  /\ ~InSession(Ident(c))
  /\ claims[Ident(c)] \in {0, c}

\* A pass stops the healthy child of an entitled file only to replace it, and
\* only after the dry-run accepted the new content and the file still holds it.
UpdateReplacesOnlyWhenValid ==
  [][\A c \in Configs :
       /\ pass.at \notin {"idle", "down"}
       /\ Entitled(c)
       /\ states[c].proc = "run"
       /\ ~HasProcess(states'[c])
       => /\ pass.at = "dryrun" /\ pass.cfg = c
          /\ pass.sig \in Good
          /\ file[c] = pass.sig]_vars

\* The file may run: safe, within the limit, valid, its device plugged, not in
\* a session, and no usable earlier file names the same device.
Wanted(c) ==
  /\ ~dirExposed
  /\ hostOK
  /\ Usable(c)
  /\ file[c] \in Good
  /\ Cardinality({d \in Configs : d <= c /\ file[d] # None}) <= MaxConfigs
  /\ ~InSession(Ident(c))
  /\ \A d \in Configs : d < c /\ Usable(d) => Ident(d) # Ident(c)

Driven(c) ==
  states[c].proc = "run" /\ states[c].sig = file[c] /\ states[c].dev = Ident(c)

\* A configuration that stays runnable is eventually driven for good by a
\* healthy child with its current content: backoff, rejected edits, duplicate
\* takeover, watchdog stops and aborted launches never leave it stuck.
Converges == \A c \in Configs : <>[]Wanted(c) => <>[]Driven(c)

Unwanted(c) == dirExposed \/ c \in exposed \/ file[c] = None \/ Ident(c) = None

\* A configuration that stays unsafe, removed or without its device loses its
\* child for good.
RefusedStops ==
  \A c \in Configs : <>[]Unwanted(c) => <>[]~HasProcess(states[c])

(* The inductive invariant behind the theorems of SupervisorProofs.        *)

Working == pass.at \in {"snapshot", "dryrun", "launch"}

\* Where the owner stands determines what is known of the file in its hands.
PassInv ==
  /\ pass.at \in {"idle", "down"} => todo = {}
  /\ pass.at = "down" => \A c \in Configs : ~HasProcess(states[c])
  /\ ~Working => pass.cfg = 0
  /\ Working =>
       /\ pass.cfg \in listed \ todo
       /\ pass.sig \in Contents
       /\ pass.dev \in Idents
       /\ pass.why # "none"
       /\ claims[pass.dev] = pass.cfg
       /\ ~InSession(pass.dev)
  /\ Working /\ (pass.why = "start" \/ pass.at = "launch") =>
       /\ ~HasProcess(states[pass.cfg])
       /\ states[pass.cfg].dev = pass.dev
       /\ states[pass.cfg].sig = pass.sig
  /\ pass.at \in {"dryrun", "launch"} => pass.copy = pass.sig
  /\ pass.at = "launch" => pass.copy \in Good

\* A child whose file this pass has dealt with is the claimant of its device,
\* unless it was kept.
ClaimInv ==
  \A c \in Configs :
    /\ HasProcess(states[c])
    /\ c \notin kept
    /\ c \notin todo
    /\ c # pass.cfg
    => \/ claims[states[c].dev] = c
       \/ pass.at # "idle" /\ c \notin listed

IInv == TypeOK /\ PassInv /\ ClaimInv /\ SnapshotAccounting /\ RunsValidated
        /\ SessionExclusive
=============================================================================
