---------------------------- MODULE RecoveryProofs ----------------------------
(***************************************************************************)
(* Proofs about Recovery, for any number of configurations and PIDs and    *)
(* any bounds on the processes, the changes of files and the managers.     *)
(***************************************************************************)
EXTENDS Recovery, TLAPS

-----------------------------------------------------------------------------
(* The inductive invariant.                                                *)

\* A start time was given, once; a manager that recovers has no child yet.
ProcInv ==
  \A p \in Pids : proc[p] # None =>
    /\ proc[p].start \in 1 .. starts
    /\ proc[p].manager <= manager
    /\ life = "recovering" /\ proc[p].config # None => proc[p].manager # manager

\* A process with this start time is the child of c, whatever its PID.
Identifies(start, c) ==
  /\ start <= starts
  /\ \A p \in Pids : proc[p] # None /\ proc[p].start = start => proc[p].config = c

\* No process with this PID is older than the start.
Follows(pid, start) == proc[pid] # None => start <= proc[pid].start

\* The table is that of a manager at work, and its handles are of children of
\* their configuration; a configuration that is being launched has none.
HandleInv ==
  /\ ~Serving => \A c \in Configs : states[c] = None
  /\ \A c \in Configs : Running(c) =>
       Identifies(Handle(c).start, c) /\ Follows(Handle(c).pid, Handle(c).start)
  /\ \A c \in Configs : life = "up" /\ at = c /\ step \in {"launch", "prepared"} =>
       states[c] # None /\ ~Running(c)

\* The launch path of an entry identifies its child, though PID and start
\* time may be those of another process.
StatusInv ==
  status # None => \A c \in Configs : status[c] # None => Identifies(status[c].path, c)

\* What is being stopped is a child of its configuration, and was when the
\* manager looked; what has its PID by now is that child or came later.
StopInv ==
  stop # None =>
    /\ Identifies(stop.start, stop.config) /\ Follows(stop.pid, stop.start)
    /\ stop.seen = stop.start
    /\ IF stop.who = "stop" THEN Serving ELSE life = "recovering"

NamedBy(c, p) ==
  /\ status[c] # None /\ status[c].pid = p
  /\ status[c].start = proc[p].start /\ status[c].path = proc[p].start

\* A child on record is in status.json; a manager at work tracks its own
\* children and has recovered those on record; a recovery leaves none behind
\* but the one it is ending.
ChildInv ==
  /\ \A p \in Pids : Sound(p) /\ proc[p].listed = "yes" => Names(status, p)
  /\ Serving => \A p \in Pids : Sound(p) =>
       IF proc[p].manager = manager THEN Tracked(p) ELSE proc[p].listed # "yes"
  /\ life = "up" /\ at = 0 => \A p \in Pids : Sound(p) /\ proc[p].manager = manager =>
       proc[p].listed # "new"
  /\ life = "recovering" /\ status # None =>
       \A c \in Configs : c < at => \A p \in Pids : Sound(p) /\ NamedBy(c, p) => Stopping(p)

\* What delays this state was seen by this manager, unless it was restored.
FreshDelay(s) ==
  s # None /\ s.delayed =>
    \/ s.sig = 0
    \/ s.blame.manager = manager /\ s.blame.sig \in {s.sig, s.pending}

BackoffInv == \A c \in Configs : FreshDelay(states[c])

IInv ==
  /\ TypeOK /\ ProcInv /\ HandleInv /\ StatusInv /\ StopInv /\ ChildInv /\ BackoffInv
  /\ SignalsOwned

-----------------------------------------------------------------------------
(* Processes.                                                              *)

\* A step that starts no process and keeps what the remaining ones are.
Dwindle ==
  /\ proc' \in [Pids -> Processes \cup {None}]
  /\ \A p \in Pids : proc'[p] # None =>
       /\ proc[p] # None
       /\ proc'[p].start = proc[p].start /\ proc'[p].config = proc[p].config
       /\ proc'[p].manager = proc[p].manager /\ proc'[p].listed = proc[p].listed
       /\ Sound(p)' => Sound(p)

LEMMA UnchangedDwindles ==
  ASSUME TypeOK, UNCHANGED proc
  PROVE  Dwindle
  BY DEF TypeOK, Dwindle, Sound

\* A process that is signalled is gone, or will be.
LEMMA KilledFacts ==
  ASSUME TypeOK, NEW pids \in SUBSET Pids, \A p \in pids : proc[p] # None,
         proc' \in Killed(pids)
  PROVE  Dwindle /\ \A p \in pids : ~Sound(p)'
<1>1. PICK dead \in SUBSET pids :
        proc' = [p \in Pids |-> IF p \in dead THEN None
                                ELSE IF p \in pids THEN [proc[p] EXCEPT !.doomed = TRUE]
                                ELSE proc[p]]
  BY DEF Killed
<1>2. ASSUME NEW p \in pids, p \notin dead
      PROVE  /\ proc'[p] \in Processes /\ proc'[p].doomed
             /\ proc'[p].start = proc[p].start /\ proc'[p].config = proc[p].config
             /\ proc'[p].manager = proc[p].manager /\ proc'[p].listed = proc[p].listed
  <2>1. proc[p] \in Processes
    BY DEF TypeOK
  <2>2. proc'[p] = [proc[p] EXCEPT !.doomed = TRUE]
    BY <1>1, <1>2
  <2> QED
    BY <2>1, <2>2 DEF Processes
<1>3. \A p \in Pids \ pids : proc'[p] = proc[p]
  BY <1>1
<1>4. \A p \in dead : proc'[p] = None
  BY <1>1
<1>5. \A p \in pids : ~Sound(p)'
  BY <1>2, <1>4 DEF Sound
<1>6. proc' \in [Pids -> Processes \cup {None}]
  <2>1. \A p \in Pids : proc'[p] \in Processes \cup {None}
    BY <1>2, <1>3, <1>4 DEF TypeOK
  <2> QED
    BY <1>1, <2>1
<1>7. \A p \in Pids : proc'[p] # None =>
        /\ proc[p] # None
        /\ proc'[p].start = proc[p].start /\ proc'[p].config = proc[p].config
        /\ proc'[p].manager = proc[p].manager /\ proc'[p].listed = proc[p].listed
  BY <1>2, <1>3, <1>4
<1>8. \A p \in Pids : Sound(p)' => Sound(p)
  BY <1>3, <1>5 DEF Sound
<1> QED
  BY <1>5, <1>6, <1>7, <1>8 DEF Dwindle

\* A start time that identifies a child goes on to do so.
LEMMA IdentifiesKept ==
  ASSUME Dwindle, UNCHANGED starts, NEW start, NEW c, Identifies(start, c)
  PROVE  Identifies(start, c)'
  BY DEF Dwindle, Identifies

LEMMA FollowsKept ==
  ASSUME Dwindle, NEW pid \in Pids, NEW start, Follows(pid, start)
  PROVE  Follows(pid, start)'
  BY DEF Dwindle, Follows

\* A stop that goes on is for the child it was begun for.
LEMMA StopKept ==
  ASSUME TypeOK, StopInv, Dwindle, UNCHANGED life, UNCHANGED starts, stop # None,
         stop'.who = stop.who, stop'.config = stop.config, stop'.pid = stop.pid,
         stop'.start = stop.start, stop'.seen = stop.start
  PROVE  StopInv'
<1>1. stop.pid \in Pids
  BY DEF TypeOK, Stops
<1>2. PICK pid, start, c : pid = stop.pid /\ start = stop.start /\ c = stop.config
  OBVIOUS
<1>3. Identifies(start, c)' /\ Follows(pid, start)'
  BY <1>1, <1>2, IdentifiesKept, FollowsKept DEF StopInv
<1>4. Identifies(stop.start, stop.config)' /\ Follows(stop.pid, stop.start)'
  BY <1>2, <1>3
<1> QED
  BY <1>4 DEF StopInv, Serving

\* A number is signalled for a child: what is hit came after the last look.
LEMMA SignalFacts ==
  ASSUME SignalsOwned, NEW c, NEW pid \in Pids, NEW start \in Starts, TypeOK,
         Identifies(start, c), Follows(pid, start), SignalGroup(c, pid, start)
  PROVE  SignalsOwned'
<1>1. proc[pid] # None /\ proc[pid].start <= start => proc[pid].config = c
  <2> SUFFICES ASSUME proc[pid] # None, proc[pid].start <= start
               PROVE  proc[pid].config = c
    OBVIOUS
  <2>1. proc[pid].start \in Starts /\ start <= proc[pid].start
    BY DEF TypeOK, Processes, Follows
  <2>2. proc[pid].start = start
    BY <2>1 DEF Starts
  <2> QED
    BY <2>2 DEF Identifies
<1> QED
  BY <1>1 DEF SignalGroup, SignalsOwned

LEMMA ProcKept ==
  ASSUME ProcInv, Dwindle, UNCHANGED <<life, manager, starts>>
  PROVE  ProcInv'
<1>1. UNCHANGED life /\ UNCHANGED manager /\ UNCHANGED starts
  OBVIOUS
<1> QED
  BY <1>1 DEF ProcInv, Dwindle

\* What the table names is a handle; what a stop signals is a child of c.
LEMMA HandleFacts ==
  ASSUME TypeOK, NEW c \in Configs, Running(c)
  PROVE  /\ states[c] \in States /\ Handle(c) \in Handles
         /\ Handle(c).pid \in Pids /\ Handle(c).start \in Starts
  BY DEF TypeOK, Running, Handle, States, Handles

LEMMA CgroupFacts ==
  ASSUME NEW c
  PROVE  /\ CleanupCgroup(c) \in SUBSET Pids
         /\ \A p \in CleanupCgroup(c) : proc[p] # None
  BY DEF CleanupCgroup

\* A stop that begins is for a child of c; without one c has no child left.
LEMMA StopFacts ==
  ASSUME IInv, NEW c \in Configs, stop = None, Serving, UNCHANGED life, UNCHANGED starts,
         StopProcess(c)
  PROVE  /\ Dwindle /\ stop' \in Stops \cup {None} /\ StopInv' /\ SignalsOwned'
         /\ \A p \in Pids : Sound(p)' /\ Running(c)
                             /\ Handle(c) = [pid |-> p, start |-> proc[p].start] =>
              Stopping(p)'
<1> USE DEF IInv
<1>1. CASE Running(c) /\ OwnsProcess(c)
  <2>1. /\ stop' = [who |-> "stop", config |-> c, pid |-> Handle(c).pid,
                     start |-> Handle(c).start,
                     seen |-> ProcessStartTime(Handle(c).pid), next |-> "term"]
        /\ UNCHANGED proc /\ UNCHANGED struck
    BY <1>1 DEF StopProcess
  <2>2. /\ Handle(c).pid \in Pids /\ Handle(c).start \in Starts
        /\ ProcessStartTime(Handle(c).pid) = Handle(c).start
    BY <1>1, HandleFacts DEF OwnsProcess
  <2>3. stop' \in Stops /\ stop' # None
    <3>1. stop' \in Stops
      BY <2>1, <2>2 DEF Stops
    <3> QED
      BY <3>1, NoneAssumption DEF NoneAssumption
  <2>4. Identifies(Handle(c).start, c) /\ Follows(Handle(c).pid, Handle(c).start)
    BY <1>1 DEF HandleInv
  <2>5. StopInv'
    BY <2>1, <2>2, <2>4 DEF StopInv, Identifies, Follows, Serving
  <2>6. Dwindle /\ SignalsOwned'
    BY <2>1, UnchangedDwindles DEF SignalsOwned
  <2>7. ASSUME NEW p \in Pids, Sound(p)', Handle(c) = [pid |-> p, start |-> proc[p].start]
        PROVE  Stopping(p)'
    <3>1. stop'.pid = p /\ stop'.start = proc'[p].start
      BY <2>1, <2>7
    <3> QED
      BY <2>3, <3>1 DEF Stopping
  <2> QED
    BY <2>3, <2>5, <2>6, <2>7
<1>2. CASE ~(Running(c) /\ OwnsProcess(c))
  <2> DEFINE pids == IF Running(c) THEN CleanupCgroup(c) ELSE {}
  <2>1. proc' \in Killed(pids) /\ UNCHANGED stop /\ UNCHANGED struck
    BY <1>2 DEF StopProcess
  <2>2. pids \in SUBSET Pids /\ \A p \in pids : proc[p] # None
    BY CgroupFacts
  <2> HIDE DEF pids
  <2>3. Dwindle
    BY <2>1, <2>2, KilledFacts
  <2>4. StopInv' /\ SignalsOwned' /\ stop' = None
    BY <2>1 DEF StopInv, SignalsOwned
  <2>5. ASSUME NEW p \in Pids, Sound(p), Handle(c) = [pid |-> p, start |-> proc[p].start]
        PROVE  OwnsProcess(c)
    BY <2>5 DEF OwnsProcess, ProcessStartTime, ProcessMatchesCommand, Sound
  <2>6. \A p \in Pids : Sound(p)' => Sound(p)
    BY <2>3 DEF Dwindle, Sound
  <2> QED
    BY <1>2, <2>3, <2>4, <2>5, <2>6
<1> QED
  BY <1>1, <1>2

-----------------------------------------------------------------------------
(* A pass.                                                                 *)

\* What a pass, or the end of the manager, does with one configuration, short
\* of starting it.
LEMMA PassStep ==
  ASSUME IInv, NEW c \in Configs, stop = None, Dwindle,
         NEW s \in States \cup {None},
         states' = [states EXCEPT ![c] = s],
         s # None => s.process = None \/ (states[c] # None /\ s.process = states[c].process),
         stop' \in Stops \cup {None}, StopInv', SignalsOwned',
         \A p \in Pids : Sound(p)' /\ Running(c) /\ Handle(c) = [pid |-> p, start |-> proc[p].start]
            => Stopping(p)' \/ (s # None /\ s.process = Handle(c)),
         FreshDelay(s),
         \/ /\ life = "up" /\ at = c
            /\ at' = at /\ step' \in {"launch", "prepared"} /\ s # None /\ s.process = None
         \/ /\ life = "up" /\ at = c
            /\ at' = at + 1 /\ step' = "check"
         \/ /\ life = "leaving"
            /\ UNCHANGED <<at, step>>,
         UNCHANGED <<life, manager, cgroups, file, edits, starts, status>>
  PROVE  IInv'
<1> USE DEF IInv
<1>1. /\ UNCHANGED life /\ UNCHANGED manager /\ UNCHANGED cgroups /\ UNCHANGED file
      /\ UNCHANGED edits /\ UNCHANGED starts /\ UNCHANGED status
  OBVIOUS
<1>2. /\ states'[c] = s
      /\ \A d \in Configs : d # c => states'[d] = states[d]
  BY DEF TypeOK
<1>3. c \in 1 .. Last /\ Last \in Nat
  BY RecoveryAssumption DEF Configs, RecoveryAssumption
<1>4. TypeOK'
  <2>1. states' \in [Configs -> States \cup {None}]
    BY DEF TypeOK
  <2>2. at' \in 0 .. Last + 1
    BY <1>3 DEF TypeOK
  <2>3. step' \in {"check", "launch", "prepared"}
    BY DEF TypeOK
  <2>4. proc' \in [Pids -> Processes \cup {None}]
    BY DEF Dwindle
  <2>5. struck' \in BOOLEAN
    BY DEF SignalsOwned
  <2> QED
    BY <1>1, <2>1, <2>2, <2>3, <2>4, <2>5 DEF TypeOK
<1>5. ProcInv'
  BY <1>1, ProcKept
<1>6. ASSUME NEW d \in Configs, Running(d)'
      PROVE  Running(d) /\ Handle(d)' = Handle(d)
  BY <1>2, <1>6 DEF Running, Handle
<1>7. HandleInv'
  <2>1. ASSUME NEW d \in Configs, Running(d)'
        PROVE  Identifies(Handle(d).start, d)' /\ Follows(Handle(d).pid, Handle(d).start)'
    <3>1. PICK start, pid : start = Handle(d).start /\ pid = Handle(d).pid
      OBVIOUS
    <3>2. start = Handle(d)'.start /\ pid = Handle(d)'.pid
      BY <1>6, <2>1, <3>1
    <3>3. Identifies(start, d) /\ Follows(pid, start) /\ pid \in Pids
      BY <1>6, <2>1, <3>1, HandleFacts DEF HandleInv
    <3>4. Identifies(start, d)' /\ Follows(pid, start)'
      BY <1>1, <3>3, IdentifiesKept, FollowsKept
    <3> QED
      BY <3>2, <3>4
  <2>2. ASSUME NEW d \in Configs, life' = "up", at' = d, step' \in {"launch", "prepared"}
        PROVE  states'[d] # None /\ ~Running(d)'
    <3>1. d = c
      BY <1>1, <2>2
    <3> QED
      BY <1>1, <1>2, <2>2, <3>1 DEF Running
  <2>3. Serving'
    BY <1>1 DEF Serving
  <2> QED
    BY <2>1, <2>2, <2>3 DEF HandleInv
<1>8. StatusInv'
  <2>1. ASSUME NEW d \in Configs, status # None, status[d] # None
        PROVE  Identifies(status[d].path, d)'
    <3>1. PICK start : start = status[d].path
      OBVIOUS
    <3>2. Identifies(start, d)'
      BY <1>1, <2>1, <3>1, IdentifiesKept DEF StatusInv
    <3> QED
      BY <1>1, <3>1, <3>2
  <2> QED
    BY <1>1, <2>1 DEF StatusInv
<1>9. ChildInv'
  <2>1. \A p \in Pids : Sound(p)' =>
          /\ Sound(p) /\ proc'[p].listed = proc[p].listed
          /\ proc'[p].manager = proc[p].manager /\ proc'[p].start = proc[p].start
    BY DEF Dwindle, Sound
  <2>2. \A p \in Pids : Sound(p)' /\ proc'[p].listed = "yes" => Names(status, p)'
    BY <1>1, <2>1 DEF ChildInv, Names
  <2>3. ASSUME NEW p \in Pids, Sound(p)', proc'[p].manager = manager
        PROVE  Tracked(p)'
    <3>1. PICK d \in Configs : Running(d) /\ Handle(d) = [pid |-> p, start |-> proc[p].start]
      BY <2>1, <2>3 DEF ChildInv, Tracked, Stopping, Serving
    <3>2. CASE Stopping(p)'
      BY <3>2 DEF Tracked
    <3>3. CASE ~Stopping(p)'
      <4>1. Running(d)' /\ Handle(d)' = Handle(d)
        <5>1. CASE d = c
          BY <1>2, <2>3, <3>1, <3>3, <5>1 DEF Running, Handle
        <5>2. CASE d # c
          BY <1>2, <3>1, <5>2 DEF Running, Handle
        <5> QED
          BY <5>1, <5>2
      <4> QED
        BY <2>1, <2>3, <3>1, <4>1 DEF Tracked
    <3> QED
      BY <3>2, <3>3
  <2>4. \A p \in Pids : Sound(p)' /\ proc'[p].manager # manager => proc'[p].listed # "yes"
    BY <2>1 DEF ChildInv, Serving
  <2>5. ~(life' = "up" /\ at' = 0)
    BY <1>1, <1>3
  <2>6. life' # "recovering"
    BY <1>1
  <2> QED
    BY <1>1, <2>2, <2>3, <2>4, <2>5, <2>6 DEF ChildInv
<1>10. BackoffInv'
  BY <1>1, <1>2 DEF BackoffInv, FreshDelay
<1> QED
  BY <1>4, <1>5, <1>7, <1>8, <1>9, <1>10

\* A step that leaves the processes and the state of c alone.
LEMMA PassOver ==
  ASSUME IInv, NEW c \in Configs, life = "up", stop = None, at = c, step = "check",
         NextConfiguration,
         UNCHANGED <<life, manager, cgroups, file, edits, proc, starts, states, status, stop, struck>>
  PROVE  IInv'
<1>1. states' = [states EXCEPT ![c] = states[c]] /\ states[c] \in States \cup {None}
  BY DEF IInv, TypeOK
<1>2. Dwindle
  BY UnchangedDwindles DEF IInv
<1>3. FreshDelay(states[c])
  BY DEF IInv, BackoffInv
<1>4. stop' \in Stops \cup {None} /\ StopInv' /\ SignalsOwned'
  BY DEF IInv, SignalsOwned, StopInv
<1>5. at' = at + 1 /\ step' = "check"
  BY DEF NextConfiguration
<1>6. Running(c) => states[c] # None /\ states[c].process = Handle(c)
  BY DEF Running, Handle
<1> QED
  BY <1>1, <1>2, <1>3, <1>4, <1>5, <1>6, PassStep

\* The child of c, if any, is stopped, and s is what is left of its state.
LEMMA StopStep ==
  ASSUME IInv, NEW c \in Configs, stop = None, StopProcess(c),
         NEW s \in States \cup {None}, Update(c, s),
         s # None => s.process = None, FreshDelay(s),
         \/ /\ life = "up" /\ at = c
            /\ \/ at' = at /\ step' \in {"launch", "prepared"} /\ s # None
               \/ NextConfiguration
         \/ life = "leaving" /\ UNCHANGED <<at, step>>,
         UNCHANGED <<life, manager, cgroups, file, edits, starts, status>>
  PROVE  IInv'
<1>1. Serving /\ UNCHANGED life /\ UNCHANGED starts
  BY DEF Serving
<1>2. /\ Dwindle /\ stop' \in Stops \cup {None} /\ StopInv' /\ SignalsOwned'
      /\ \A p \in Pids : Sound(p)' /\ Running(c)
                          /\ Handle(c) = [pid |-> p, start |-> proc[p].start] =>
           Stopping(p)'
  BY <1>1, StopFacts
<1>3. states' = [states EXCEPT ![c] = s]
  BY DEF Update
<1>4. \/ /\ life = "up" /\ at = c
         /\ at' = at /\ step' \in {"launch", "prepared"} /\ s # None /\ s.process = None
      \/ /\ life = "up" /\ at = c
         /\ at' = at + 1 /\ step' = "check"
      \/ /\ life = "leaving"
         /\ UNCHANGED <<at, step>>
  BY DEF NextConfiguration
<1> QED
  BY <1>2, <1>3, <1>4, PassStep

\* States stay states; NoBlame and what is scheduled are well formed.
LEMMA StateFacts ==
  ASSUME NEW st \in States, NEW sig \in Contents, manager \in 0 .. MaxManagers
  PROVE  /\ WithoutProcess(st) \in States /\ WithoutProcess(st).process = None
         /\ WithoutProcess(st).sig = st.sig /\ WithoutProcess(st).pending = st.pending
         /\ WithoutProcess(st).delayed = st.delayed /\ WithoutProcess(st).blame = st.blame
         /\ ScheduleRetry(st, sig) \in States
         /\ ScheduleRetry(st, sig).process = st.process
         /\ sig \in {st.sig, st.pending} => FreshDelay(ScheduleRetry(st, sig))
<1>1. [sig |-> sig, manager |-> manager] \in [sig: Contents, manager: 0 .. MaxManagers]
  OBVIOUS
<1>2. /\ WithoutProcess(st) \in States /\ WithoutProcess(st).process = None
      /\ WithoutProcess(st).sig = st.sig /\ WithoutProcess(st).pending = st.pending
      /\ WithoutProcess(st).delayed = st.delayed /\ WithoutProcess(st).blame = st.blame
  BY DEF WithoutProcess, States
<1> DEFINE b == [sig |-> sig, manager |-> manager]
           sr == [st EXCEPT !.delayed = TRUE, !.blame = b]
<1>3. b.sig = sig /\ b.manager = manager
  OBVIOUS
<1>4. ScheduleRetry(st, sig) = sr
  BY DEF ScheduleRetry
<1> HIDE DEF b
<1>5. sr \in States /\ sr.process = st.process /\ sr.blame = b /\ sr.sig = st.sig
      /\ sr.pending = st.pending
  BY <1>1 DEF States, b
<1> HIDE DEF sr
<1> QED
  BY <1>2, <1>3, <1>4, <1>5 DEF FreshDelay

LEMMA FreshFacts ==
  /\ NoBlame \in [sig: Contents, manager: 0 .. MaxManagers]
  /\ Fresh \in States /\ Fresh.process = None /\ ~Fresh.delayed /\ Fresh.sig = 0
  /\ Fresh.pending = 0
<1>1. NoBlame \in [sig: Contents, manager: 0 .. MaxManagers]
  BY RecoveryAssumption DEF NoBlame, Contents, RecoveryAssumption
<1> QED
  BY <1>1 DEF Fresh, States, Contents

LEMMA RefuseInv ==
  ASSUME IInv, NEW c \in Configs, Refuse(c)
  PROVE  IInv'
<1>1. FreshDelay(None)
  BY DEF FreshDelay
<1> QED
  BY <1>1, StopStep DEF Refuse, Checking

LEMMA HoldInv ==
  ASSUME IInv, NEW c \in Configs, Hold(c)
  PROVE  IInv'
<1>1. states[c] \in States /\ manager \in 0 .. MaxManagers /\ 0 \in Contents
      /\ FreshDelay(states[c])
  BY DEF Hold, IInv, TypeOK, BackoffInv, Contents
<1> DEFINE s == WithoutProcess(states[c])
<1>2. s \in States /\ s.process = None /\ FreshDelay(s)
  BY <1>1, StateFacts, NoneAssumption DEF FreshDelay, NoneAssumption
<1>3. Update(c, s)
  BY DEF Hold
<1> HIDE DEF s
<1> QED
  BY <1>2, <1>3, StopStep DEF Hold, Checking

LEMMA RejectUpdateInv ==
  ASSUME IInv, NEW c \in Configs, RejectUpdate(c)
  PROVE  IInv'
<1>1. /\ Checking(c) /\ Running(c) /\ NextConfiguration /\ states[c] \in States
      /\ file[c] \in Contents /\ manager \in 0 .. MaxManagers
      /\ UNCHANGED <<life, manager, cgroups, file, edits, proc, starts, status, stop, struck>>
  BY DEF RejectUpdate, Running, IInv, TypeOK
<1>2. CASE UNCHANGED states
  BY <1>1, <1>2, PassOver DEF Checking
<1>3. CASE Update(c, ScheduleRetry([states[c] EXCEPT !.pending = file[c]], file[c]))
  <2> DEFINE st == [states[c] EXCEPT !.pending = file[c]]
             s == ScheduleRetry(st, file[c])
  <2>1. st \in States /\ st.pending = file[c] /\ st.process = states[c].process
    BY <1>1 DEF States
  <2> HIDE DEF st
  <2>2. s \in States /\ s.process = states[c].process /\ FreshDelay(s)
    BY <1>1, <2>1, StateFacts
  <2>3. states' = [states EXCEPT ![c] = s]
    BY <1>3 DEF Update, st
  <2> HIDE DEF s
  <2>4. /\ Dwindle /\ stop = None /\ stop' \in Stops \cup {None}
        /\ StopInv' /\ SignalsOwned'
    BY <1>1, UnchangedDwindles DEF IInv, SignalsOwned, StopInv, Checking
  <2>5. s # None /\ s.process = Handle(c) /\ states[c] # None
    BY <1>1, <2>2, NoneAssumption DEF Handle, Running, NoneAssumption
  <2> QED
    BY <1>1, <2>2, <2>3, <2>4, <2>5, PassStep DEF Checking, NextConfiguration
<1> QED
  BY <1>2, <1>3 DEF RejectUpdate

LEMMA AdoptInv ==
  ASSUME IInv, NEW c \in Configs, Adopt(c)
  PROVE  IInv'
<1> DEFINE s == [Fresh EXCEPT !.sig = file[c]]
<1>1. file[c] \in Contents
  BY DEF IInv, TypeOK
<1>2. s \in States /\ s.process = None /\ ~s.delayed
  BY <1>1, FreshFacts DEF States
<1>3. Update(c, s)
  BY DEF Adopt
<1> HIDE DEF s
<1>4. FreshDelay(s) /\ s # None
  BY <1>2, NoneAssumption DEF FreshDelay, NoneAssumption
<1>5. at' = at /\ step' \in {"launch", "prepared"}
  BY DEF Adopt
<1> QED
  BY <1>2, <1>3, <1>4, <1>5, StopStep DEF Adopt, Checking

LEMMA RetryFacts ==
  ASSUME IInv, NEW c \in Configs, Running(c), ~Changed(c)
  PROVE  LET s == ScheduleRetry(WithoutProcess(states[c]), file[c]) IN
         s \in States /\ s # None /\ s.process = None /\ FreshDelay(s)
<1>1. states[c] \in States /\ manager \in 0 .. MaxManagers /\ file[c] \in Contents
      /\ states[c].sig = file[c]
  BY DEF Running, Changed, State, IInv, TypeOK
<1>2. /\ WithoutProcess(states[c]) \in States /\ WithoutProcess(states[c]).process = None
      /\ WithoutProcess(states[c]).sig = file[c]
  BY <1>1, StateFacts
<1> QED
  BY <1>1, <1>2, StateFacts, NoneAssumption DEF NoneAssumption

LEMMA WatchdogInv ==
  ASSUME IInv, NEW c \in Configs, Watchdog(c)
  PROVE  IInv'
<1> DEFINE s == ScheduleRetry(WithoutProcess(states[c]), file[c])
<1>1. s \in States /\ s # None /\ s.process = None /\ FreshDelay(s)
  BY RetryFacts DEF Watchdog
<1>2. Update(c, s)
  BY DEF Watchdog
<1> HIDE DEF s
<1> QED
  BY <1>1, <1>2, StopStep DEF Watchdog, Checking

LEMMA ProcessExitedInv ==
  ASSUME IInv, NEW c \in Configs, ProcessExited(c)
  PROVE  IInv'
<1> DEFINE s == ScheduleRetry(WithoutProcess(states[c]), file[c])
<1>1. s \in States /\ s # None /\ s.process = None /\ FreshDelay(s)
  BY RetryFacts DEF ProcessExited
<1>2. states' = [states EXCEPT ![c] = s]
  BY DEF ProcessExited, Update
<1> DEFINE pids == Numbered(Handle(c).pid) \cup CleanupCgroup(c)
<1>3. /\ SignalGroup(c, Handle(c).pid, Handle(c).start) /\ proc' \in Killed(pids)
      /\ stop = None /\ UNCHANGED stop /\ Running(c)
  BY DEF ProcessExited, Checking
<1>4. pids \in SUBSET Pids /\ \A p \in pids : proc[p] # None
  BY <1>3, HandleFacts, CgroupFacts DEF Numbered, IInv
<1> HIDE DEF pids
<1>5. Dwindle /\ stop' \in Stops \cup {None} /\ StopInv' /\ SignalsOwned'
  <2>1. Dwindle
    BY <1>3, <1>4, KilledFacts DEF IInv
  <2>2. SignalsOwned'
    BY <1>3, HandleFacts, SignalFacts DEF IInv, HandleInv
  <2> QED
    BY <1>3, <2>1, <2>2 DEF StopInv
<1>6. \A p \in Pids : Sound(p)' => ~(Handle(c) = [pid |-> p, start |-> proc[p].start])
  BY <1>5 DEF Dwindle, Sound, ProcessExited, Exited, ProcessStartTime
<1> HIDE DEF s
<1> QED
  BY <1>1, <1>2, <1>3, <1>5, <1>6, PassStep DEF ProcessExited, Checking, NextConfiguration

\* The delay of a state ends.
LEMMA ForgivenFacts ==
  ASSUME NEW st \in States
  PROVE  LET s == [st EXCEPT !.delayed = FALSE, !.blame = NoBlame] IN
         /\ s \in States /\ s # None /\ s.process = st.process /\ ~s.delayed
         /\ FreshDelay(s)
<1> DEFINE s == [st EXCEPT !.delayed = FALSE, !.blame = NoBlame]
<1>1. s \in States /\ s.process = st.process /\ ~s.delayed
  BY FreshFacts DEF States
<1> HIDE DEF s
<1>2. FreshDelay(s) /\ s # None
  BY <1>1, NoneAssumption DEF FreshDelay, NoneAssumption
<1> QED
  BY <1>1, <1>2 DEF s

LEMMA KeepRunningInv ==
  ASSUME IInv, NEW c \in Configs, KeepRunning(c)
  PROVE  IInv'
<1>1. /\ Checking(c) /\ Running(c) /\ NextConfiguration /\ states[c] \in States
      /\ UNCHANGED <<life, manager, cgroups, file, edits, proc, starts, status, stop, struck>>
  BY DEF KeepRunning, Running, IInv, TypeOK
<1>2. CASE UNCHANGED states
  BY <1>1, <1>2, PassOver DEF Checking
<1>3. CASE Update(c, [states[c] EXCEPT !.delayed = FALSE, !.blame = NoBlame])
  <2> DEFINE s == [states[c] EXCEPT !.delayed = FALSE, !.blame = NoBlame]
  <2>1. s \in States /\ s # None /\ s.process = states[c].process /\ FreshDelay(s)
    BY <1>1, ForgivenFacts
  <2>2. states' = [states EXCEPT ![c] = s]
    BY <1>3 DEF Update
  <2> HIDE DEF s
  <2>3. /\ Dwindle /\ stop = None /\ stop' \in Stops \cup {None}
        /\ StopInv' /\ SignalsOwned'
    BY <1>1, UnchangedDwindles DEF IInv, SignalsOwned, StopInv, Checking
  <2>4. s.process = Handle(c) /\ states[c] # None
    BY <1>1, <2>1 DEF Handle, Running
  <2> QED
    BY <1>1, <2>1, <2>2, <2>3, <2>4, PassStep DEF Checking, NextConfiguration
<1> QED
  BY <1>2, <1>3 DEF KeepRunning

\* The retry is due: the state is that of a configuration without a child.
LEMMA DueInv ==
  ASSUME IInv, NEW c \in Configs, Due(c)
  PROVE  IInv'
<1>1. /\ life = "up" /\ stop = None /\ at = c /\ states[c] # None /\ ~Running(c)
      /\ UNCHANGED <<life, manager, cgroups, file, edits, proc, starts, states, status, at, stop, struck>>
      /\ step' \in {"launch", "prepared"}
  BY DEF Due, Ready, Checking
<1>2. states[c] \in States \cup {None} /\ states' = [states EXCEPT ![c] = states[c]]
      /\ states[c].process = None
  BY <1>1 DEF IInv, TypeOK, Running
<1>3. /\ Dwindle /\ stop' \in Stops \cup {None} /\ StopInv' /\ SignalsOwned'
      /\ FreshDelay(states[c])
  BY <1>1, UnchangedDwindles DEF IInv, SignalsOwned, StopInv, BackoffInv
<1> QED
  BY <1>1, <1>2, <1>3, PassStep

LEMMA FailToStartInv ==
  ASSUME IInv, NEW c \in Configs, FailToStart(c)
  PROVE  IInv'
<1>1. /\ Launching(c) /\ NextConfiguration
      /\ UNCHANGED <<life, manager, cgroups, file, edits, proc, starts, status, stop, struck>>
  BY DEF FailToStart
<1>2. /\ life = "up" /\ stop = None /\ at = c /\ states[c] \in States /\ states[c].process = None
      /\ manager \in 0 .. MaxManagers /\ states[c].sig \in Contents
  BY <1>1 DEF Launching, IInv, TypeOK, HandleInv, Running, States
<1>3. PICK s \in States : /\ states' = [states EXCEPT ![c] = s]
                          /\ s.process = None /\ FreshDelay(s)
  <2>1. FreshDelay(states[c])
    BY DEF IInv, BackoffInv
  <2>2. CASE UNCHANGED states
    BY <1>2, <2>1, <2>2 DEF IInv, TypeOK
  <2>3. CASE Update(c, ScheduleRetry(states[c], states[c].sig))
    BY <1>2, <2>3, StateFacts DEF Update
  <2>4. CASE Update(c, TryAgain(states[c]))
    BY <1>2, <2>4, StateFacts DEF Update, TryAgain, ScheduleRetry
  <2> QED
    BY <2>2, <2>3, <2>4 DEF FailToStart
<1>4. Dwindle /\ stop' \in Stops \cup {None} /\ StopInv' /\ SignalsOwned'
  BY <1>1, <1>2, UnchangedDwindles DEF IInv, SignalsOwned, StopInv
<1>5. ~Running(c)
  BY <1>2 DEF Running
<1> QED
  BY <1>1, <1>2, <1>3, <1>4, <1>5, PassStep DEF NextConfiguration

-----------------------------------------------------------------------------
(* A process starts.                                                       *)

\* A new start time is none that identifies a child already.
LEMMA BornFacts ==
  ASSUME TypeOK, ProcInv, NEW p \in Pids, proc[p] = None, starts < MaxStarts,
         NEW r \in Processes, r.start = starts', starts' = starts + 1,
         proc' = [proc EXCEPT ![p] = r]
  PROVE  /\ starts' \in Starts /\ starts \in Nat
         /\ proc' \in [Pids -> Processes \cup {None}]
         /\ proc'[p] = r /\ \A q \in Pids : q # p => proc'[q] = proc[q]
         /\ \A q \in Pids : proc'[q] # None => proc'[q].start \in 1 .. starts'
         /\ \A start \in Starts : \A c : Identifies(start, c) => Identifies(start, c)'
         /\ \A c : r.config = c => Identifies(r.start, c)'
         /\ \A start \in Starts, q \in Pids :
              start <= starts /\ Follows(q, start) => Follows(q, start)'
         /\ Follows(p, r.start)'
<1>1. starts' \in Starts /\ starts \in Nat
  BY RecoveryAssumption DEF TypeOK, Starts, RecoveryAssumption
<1>2. /\ proc' \in [Pids -> Processes \cup {None}]
      /\ proc'[p] = r /\ \A q \in Pids : q # p => proc'[q] = proc[q]
  BY DEF TypeOK
<1>3. \A q \in Pids : q # p /\ proc'[q] # None => proc'[q].start \in 1 .. starts
  BY <1>2 DEF ProcInv
<1>4. \A q \in Pids : proc'[q] # None => proc'[q].start \in 1 .. starts'
  BY <1>1, <1>2, <1>3
<1>5. ASSUME NEW start \in Starts, NEW c, Identifies(start, c)
      PROVE  Identifies(start, c)'
  <2>1. start <= starts /\ start \in Nat
    BY <1>5 DEF Identifies, Starts
  <2>2. start # r.start /\ start <= starts'
    BY <1>1, <2>1
  <2>3. \A q \in Pids : proc'[q] # None /\ proc'[q].start = start => proc'[q].config = c
    BY <1>2, <1>5, <2>2 DEF Identifies
  <2> QED
    BY <2>2, <2>3 DEF Identifies
<1>6. Identifies(r.start, r.config)'
  <2>1. \A q \in Pids : proc'[q] # None /\ proc'[q].start = r.start => q = p
    BY <1>1, <1>2, <1>3
  <2>2. \A q \in Pids : proc'[q] # None /\ proc'[q].start = r.start => proc'[q].config = r.config
    BY <1>2, <2>1
  <2>3. r.start <= starts'
    BY <1>1
  <2> QED
    BY <2>2, <2>3 DEF Identifies
<1>7. ASSUME NEW start \in Starts, NEW q \in Pids, start <= starts, Follows(q, start)
      PROVE  Follows(q, start)'
  <2>1. start <= starts'
    BY <1>1, <1>7 DEF Starts
  <2> QED
    BY <1>2, <1>7, <2>1 DEF Follows
<1>8. Follows(p, r.start)'
  BY <1>1, <1>2 DEF Follows, Starts
<1> QED
  BY <1>1, <1>2, <1>4, <1>5, <1>6, <1>7, <1>8

\* A birth leaves the stop that is under way as it is.
LEMMA BirthStop ==
  ASSUME TypeOK, StopInv, UNCHANGED stop, UNCHANGED life,
         \A start \in Starts : \A c : Identifies(start, c) => Identifies(start, c)',
         \A start \in Starts, q \in Pids :
           start <= starts /\ Follows(q, start) => Follows(q, start)'
  PROVE  StopInv'
<1> SUFFICES ASSUME stop # None
             PROVE  StopInv'
  BY DEF StopInv
<1>1. PICK pid \in Pids, start \in Starts, c \in Configs :
        pid = stop.pid /\ start = stop.start /\ c = stop.config
  BY DEF TypeOK, Stops
<1>2. Identifies(start, c) /\ Follows(pid, start) /\ start <= starts
  BY <1>1 DEF StopInv, Identifies
<1>3. Identifies(start, c)' /\ Follows(pid, start)'
  BY <1>2
<1>4. Identifies(stop.start, stop.config)' /\ Follows(stop.pid, stop.start)'
  BY <1>1, <1>3
<1> QED
  BY <1>4 DEF StopInv, Serving

LEMMA StartConfigInv ==
  ASSUME IInv, NEW c \in Configs, StartConfig(c)
  PROVE  IInv'
<1> USE DEF IInv
<1>1. /\ Launching(c) /\ starts < MaxStarts /\ starts' = starts + 1
      /\ NextConfiguration /\ life = "up" /\ at = c /\ stop = None /\ UNCHANGED stop
      /\ UNCHANGED life /\ UNCHANGED manager /\ UNCHANGED cgroups /\ UNCHANGED file
      /\ UNCHANGED edits /\ UNCHANGED status /\ UNCHANGED struck
  BY DEF StartConfig, Launching
<1>2. PICK p, r :
        /\ p \in Pids /\ proc[p] = None
        /\ r = [start |-> starts', config |-> c, manager |-> manager,
                doomed |-> FALSE, replaced |-> FALSE, listed |-> "new"]
        /\ proc' = [proc EXCEPT ![p] = r]
        /\ states' = [states EXCEPT ![c] =
                        [states[c] EXCEPT !.process = [pid |-> p, start |-> starts']]]
  BY DEF StartConfig, Update
<1>3. starts' \in Starts /\ manager \in 0 .. MaxManagers /\ c # None /\ c \in Configs
      /\ c \in 1 .. Last /\ Last \in Nat
  BY <1>1, RecoveryAssumption, NoneAssumption
     DEF TypeOK, Starts, RecoveryAssumption, NoneAssumption, Configs
<1>4. /\ r \in Processes /\ r.start = starts' /\ r.config = c /\ r.manager = manager
      /\ r.listed = "new" /\ r # None
  <2>1. /\ r \in Processes /\ r.start = starts' /\ r.config = c /\ r.manager = manager
        /\ r.listed = "new"
    BY <1>2, <1>3 DEF Processes
  <2> QED
    BY <2>1, NoneAssumption DEF NoneAssumption
<1>5. PICK h : h = [pid |-> p, start |-> starts']
  OBVIOUS
<1>6. h \in Handles /\ h # None /\ h.pid = p /\ h.start = starts'
  BY <1>2, <1>3, <1>5, NoneAssumption DEF Handles, NoneAssumption
<1>7. states[c] \in States /\ ~Running(c)
  BY <1>1 DEF TypeOK, HandleInv, Launching
<1>8. PICK s : s = [states[c] EXCEPT !.process = h]
  OBVIOUS
<1>9. /\ s \in States /\ s # None /\ s.process = h
      /\ s.sig = states[c].sig /\ s.pending = states[c].pending
      /\ s.delayed = states[c].delayed /\ s.blame = states[c].blame
  <2>1. /\ s \in States /\ s.process = h
        /\ s.sig = states[c].sig /\ s.pending = states[c].pending
        /\ s.delayed = states[c].delayed /\ s.blame = states[c].blame
    BY <1>6, <1>7, <1>8 DEF States
  <2> QED
    BY <2>1, NoneAssumption DEF NoneAssumption
<1>10. /\ states'[c] = s
       /\ \A d \in Configs : d # c => states'[d] = states[d]
       /\ states' \in [Configs -> States \cup {None}]
  BY <1>2, <1>5, <1>8, <1>9 DEF TypeOK
<1>11. /\ starts \in Nat
       /\ proc' \in [Pids -> Processes \cup {None}]
       /\ proc'[p] = r /\ \A q \in Pids : q # p => proc'[q] = proc[q]
       /\ \A q \in Pids : proc'[q] # None => proc'[q].start \in 1 .. starts'
       /\ \A start \in Starts : \A d : Identifies(start, d) => Identifies(start, d)'
       /\ Identifies(r.start, c)'
       /\ \A start \in Starts, q \in Pids :
            start <= starts /\ Follows(q, start) => Follows(q, start)'
       /\ Follows(p, r.start)'
  BY <1>1, <1>2, <1>4, BornFacts
<1>12. at' \in 2 .. Last + 1 /\ step' = "check"
  BY <1>1, <1>3 DEF NextConfiguration
<1>13. TypeOK'
  BY <1>1, <1>3, <1>10, <1>11, <1>12 DEF TypeOK
<1>14. ProcInv'
  <2>1. \A q \in Pids : proc'[q] # None => proc'[q].manager <= manager
    BY <1>3, <1>4, <1>11 DEF ProcInv
  <2> QED
    BY <1>1, <1>11, <2>1 DEF ProcInv
<1>15. HandleInv'
  <2>1. ASSUME NEW d \in Configs, Running(d)'
        PROVE  Identifies(Handle(d).start, d)' /\ Follows(Handle(d).pid, Handle(d).start)'
    <3>1. CASE d = c
      <4>1. Handle(d)' = h
        BY <1>9, <1>10, <3>1 DEF Handle
      <4> QED
        BY <1>4, <1>6, <1>11, <3>1, <4>1 DEF Identifies, Follows
    <3>2. CASE d # c
      <4>1. Running(d) /\ Handle(d)' = Handle(d)
        BY <1>10, <2>1, <3>2 DEF Running, Handle
      <4>2. PICK start \in Starts, pid \in Pids : start = Handle(d).start /\ pid = Handle(d).pid
        BY <4>1, HandleFacts
      <4>3. Identifies(start, d) /\ Follows(pid, start)
        BY <4>1, <4>2 DEF HandleInv
      <4>4. start <= starts
        BY <4>3 DEF Identifies
      <4>5. Identifies(start, d)' /\ Follows(pid, start)'
        BY <1>11, <4>3, <4>4
      <4> QED
        BY <4>1, <4>2, <4>5
    <3> QED
      BY <3>1, <3>2
  <2>2. ~(step' \in {"launch", "prepared"})
    BY <1>12
  <2> QED
    BY <1>1, <2>1, <2>2 DEF HandleInv, Serving
<1>16. StatusInv'
  <2>1. ASSUME NEW d \in Configs, status # None, status[d] # None
        PROVE  Identifies(status[d].path, d)'
    <3>1. PICK start \in Starts : start = status[d].path
      BY <2>1 DEF TypeOK, Entries
    <3>2. Identifies(start, d)'
      BY <1>11, <2>1, <3>1 DEF StatusInv
    <3> QED
      BY <1>1, <3>1, <3>2
  <2> QED
    BY <1>1, <1>12, <2>1 DEF StatusInv
<1>17. ChildInv'
  <2>1. \A q \in Pids : q # p /\ Sound(q)' => Sound(q) /\ proc'[q] = proc[q]
    BY <1>11 DEF Sound
  <2>2. \A q \in Pids : Sound(q)' /\ proc'[q].listed = "yes" => Names(status, q)'
    BY <1>1, <1>4, <1>11, <2>1 DEF ChildInv, Names
  <2>3. ASSUME NEW q \in Pids, Sound(q)', proc'[q].manager = manager
        PROVE  Tracked(q)'
    <3>1. CASE q = p
      <4>1. Running(c)' /\ Handle(c)' = [pid |-> p, start |-> proc'[p].start]
        BY <1>4, <1>5, <1>6, <1>9, <1>10, <1>11 DEF Running, Handle
      <4> QED
        BY <3>1, <4>1 DEF Tracked
    <3>2. CASE q # p
      <4>1. PICK d \in Configs : Running(d) /\ Handle(d) = [pid |-> q, start |-> proc[q].start]
        BY <1>1, <2>1, <2>3, <3>2 DEF ChildInv, Tracked, Stopping, Serving
      <4>2. Running(d)' /\ Handle(d)' = Handle(d)
        BY <1>7, <1>10, <4>1 DEF Running, Handle
      <4> QED
        BY <2>1, <2>3, <3>2, <4>1, <4>2 DEF Tracked
    <3> QED
      BY <3>1, <3>2
  <2>4. \A q \in Pids : Sound(q)' /\ proc'[q].manager # manager => proc'[q].listed # "yes"
    BY <1>1, <1>4, <1>11, <2>1 DEF ChildInv, Serving
  <2> QED
    BY <1>1, <1>12, <2>2, <2>3, <2>4 DEF ChildInv
<1>18. BackoffInv'
  <2>1. FreshDelay(s)'
    BY <1>1, <1>7, <1>9, NoneAssumption DEF BackoffInv, FreshDelay, NoneAssumption
  <2> QED
    BY <1>1, <1>10, <2>1 DEF BackoffInv, FreshDelay
<1>19. StopInv'
  BY <1>1 DEF StopInv
<1> QED
  BY <1>1, <1>13, <1>14, <1>15, <1>16, <1>17, <1>18, <1>19 DEF SignalsOwned

\* A process that is no child is never one the manager can lose.
LEMMA ForeignInv ==
  ASSUME IInv, NEW p \in Pids, Foreign(p)
  PROVE  IInv'
<1> USE DEF IInv
<1>1. /\ proc[p] = None /\ starts < MaxStarts /\ starts' = starts + 1
      /\ UNCHANGED life /\ UNCHANGED manager /\ UNCHANGED cgroups /\ UNCHANGED file
      /\ UNCHANGED edits /\ UNCHANGED states /\ UNCHANGED status /\ UNCHANGED at
      /\ UNCHANGED step /\ UNCHANGED stop /\ UNCHANGED struck
  BY DEF Foreign
<1>2. PICK r :
        /\ r = [start |-> starts', config |-> None, manager |-> 0,
                doomed |-> FALSE, replaced |-> FALSE, listed |-> "no"]
        /\ proc' = [proc EXCEPT ![p] = r]
  BY DEF Foreign
<1>3. starts' \in Starts /\ 0 \in 0 .. MaxManagers /\ manager \in Nat
  BY <1>1, RecoveryAssumption DEF TypeOK, Starts, RecoveryAssumption
<1>4. r \in Processes /\ r.start = starts' /\ r.config = None /\ r.manager = 0
  BY <1>2, <1>3 DEF Processes
<1>5. /\ starts \in Nat
      /\ proc' \in [Pids -> Processes \cup {None}]
      /\ proc'[p] = r /\ \A q \in Pids : q # p => proc'[q] = proc[q]
      /\ \A q \in Pids : proc'[q] # None => proc'[q].start \in 1 .. starts'
      /\ \A start \in Starts : \A d : Identifies(start, d) => Identifies(start, d)'
      /\ \A start \in Starts, q \in Pids :
           start <= starts /\ Follows(q, start) => Follows(q, start)'
  BY <1>1, <1>2, <1>4, BornFacts
<1>6. TypeOK'
  BY <1>1, <1>3, <1>5 DEF TypeOK
<1>7. ProcInv'
  <2>1. \A q \in Pids : proc'[q] # None => proc'[q].manager <= manager
    BY <1>3, <1>4, <1>5 DEF ProcInv
  <2> QED
    BY <1>1, <1>4, <1>5, <2>1 DEF ProcInv
<1>8. HandleInv'
  <2>1. ASSUME NEW d \in Configs, Running(d)
        PROVE  Identifies(Handle(d).start, d)' /\ Follows(Handle(d).pid, Handle(d).start)'
    <3>1. PICK start \in Starts, pid \in Pids : start = Handle(d).start /\ pid = Handle(d).pid
      BY <2>1, HandleFacts
    <3>2. Identifies(start, d)' /\ Follows(pid, start)'
      BY <1>5, <2>1, <3>1 DEF HandleInv, Identifies
    <3>3. Handle(d)' = Handle(d)
      BY <1>1 DEF Handle
    <3> QED
      BY <3>1, <3>2, <3>3
  <2>2. \A d \in Configs : Running(d)' = Running(d)
    BY <1>1 DEF Running
  <2> QED
    BY <1>1, <2>1, <2>2 DEF HandleInv, Serving
<1>9. StatusInv'
  <2>1. ASSUME NEW d \in Configs, status # None, status[d] # None
        PROVE  Identifies(status[d].path, d)'
    <3>1. PICK start \in Starts : start = status[d].path
      BY <2>1 DEF TypeOK, Entries
    <3>2. Identifies(start, d)'
      BY <1>5, <2>1, <3>1 DEF StatusInv
    <3> QED
      BY <1>1, <3>1, <3>2
  <2> QED
    BY <1>1, <2>1 DEF StatusInv
<1>10. ChildInv'
  <2>1. \A q \in Pids : Sound(q)' => Sound(q) /\ proc'[q] = proc[q]
    BY <1>4, <1>5 DEF Sound
  <2>2. \A q \in Pids : Sound(q)' => /\ Tracked(q)' = Tracked(q)
                                     /\ Names(status, q)' = Names(status, q)
                                     /\ Stopping(q)' = Stopping(q)
                                     /\ \A d \in Configs : NamedBy(d, q)' = NamedBy(d, q)
    BY <1>1, <2>1 DEF Tracked, Stopping, Names, NamedBy, Running, Handle
  <2> QED
    BY <1>1, <2>1, <2>2 DEF ChildInv, Serving
<1>11. BackoffInv'
  BY <1>1 DEF BackoffInv, FreshDelay
<1>12. StopInv'
  BY <1>1, <1>5, BirthStop
<1> QED
  BY <1>1, <1>6, <1>7, <1>8, <1>9, <1>10, <1>11, <1>12 DEF SignalsOwned

-----------------------------------------------------------------------------
(* Between two passes.                                                     *)

\* The entry of a configuration names its handle, by path and by PID.
LEMMA EntryFacts ==
  ASSUME IInv, NEW c \in Configs
  PROVE  /\ Entry(c) \in Entries \cup {None}
         /\ Entry(c) # None => Identifies(Entry(c).path, c)
         /\ file[c] # 0 /\ Running(c) =>
              /\ Entry(c) # None
              /\ Entry(c).pid = Handle(c).pid /\ Entry(c).path = Handle(c).start
              /\ Entry(c).start = ProcessStartTime(Handle(c).pid)
<1> USE DEF IInv
<1>1. 0 \in Starts /\ starts \in Nat
  BY RecoveryAssumption DEF TypeOK, Starts, RecoveryAssumption
<1>2. CASE file[c] = 0
  BY <1>2 DEF Entry
<1>3. CASE file[c] # 0 /\ ~Running(c)
  <2>1. State(c).process = None
    BY <1>3, FreshFacts DEF State, Running
  <2>2. State(c).delayed \in BOOLEAN
    <3>1. State(c) \in States
      BY FreshFacts DEF State, TypeOK
    <3> QED
      BY <3>1 DEF States
  <2>3. Entry(c) = [pid |-> None, start |-> 0, path |-> 0, delayed |-> State(c).delayed]
    BY <1>3, <2>1 DEF Entry
  <2>4. Entry(c) \in Entries /\ Entry(c).path = 0
    BY <1>1, <2>2, <2>3 DEF Entries
  <2>5. Identifies(0, c)
    BY <1>1 DEF Identifies, ProcInv
  <2> QED
    BY <1>3, <2>4, <2>5
<1>4. CASE file[c] # 0 /\ Running(c)
  <2>1. /\ State(c) = states[c] /\ State(c).process = Handle(c) /\ Handle(c) # None
        /\ State(c).delayed \in BOOLEAN
    BY <1>4 DEF State, Running, Handle, TypeOK, States
  <2>2. Handle(c).pid \in Pids /\ Handle(c).start \in Starts
    BY <1>4, HandleFacts
  <2>3. ProcessStartTime(Handle(c).pid) \in Starts
    BY <1>1, <2>2 DEF ProcessStartTime, TypeOK, Processes
  <2>4. Entry(c) = [pid |-> Handle(c).pid, start |-> ProcessStartTime(Handle(c).pid),
                    path |-> Handle(c).start, delayed |-> State(c).delayed]
    BY <1>4, <2>1 DEF Entry
  <2>5. /\ Entry(c) \in Entries
        /\ Entry(c).pid = Handle(c).pid /\ Entry(c).path = Handle(c).start
        /\ Entry(c).start = ProcessStartTime(Handle(c).pid)
    BY <2>1, <2>2, <2>3, <2>4 DEF Entries
  <2>6. Identifies(Entry(c).path, c)
    BY <1>4, <2>5 DEF HandleInv
  <2> QED
    BY <2>5, <2>6, NoneAssumption DEF NoneAssumption
<1> QED
  BY <1>2, <1>3, <1>4

\* status.json, once written with the file of its configuration there, names
\* every child of this manager.
LEMMA TableNames ==
  ASSUME IInv, life = "up", stop = None, NEW p \in Pids, Sound(p), proc[p].manager = manager,
         file[proc[p].config] # 0, NEW table, table = [c \in Configs |-> Entry(c)]
  PROVE  Names(table, p)
<1>1. PICK c \in Configs : Running(c) /\ Handle(c) = [pid |-> p, start |-> proc[p].start]
  BY DEF IInv, ChildInv, Tracked, Stopping, Serving
<1>2. proc[p] # None /\ Handle(c).pid = p /\ Handle(c).start = proc[p].start
  BY <1>1 DEF Sound
<1>3. proc[p].config = c
  BY <1>1, <1>2 DEF IInv, HandleInv, Identifies
<1>4. table[c] = Entry(c) /\ ProcessStartTime(p) = proc[p].start
  BY <1>2 DEF ProcessStartTime
<1>5. table # None
  <2>1. table \in [Configs -> Entries \cup {None}]
    BY EntryFacts
  <2> QED
    BY <2>1, NoneAssumption DEF NoneAssumption
<1> QED
  BY <1>1, <1>2, <1>3, <1>4, <1>5, EntryFacts DEF Names

LEMMA BeginPassInv ==
  ASSUME IInv, BeginPass
  PROVE  IInv'
<1> USE DEF IInv
<1>1. /\ life = "up" /\ at' = 1 /\ step' = "check"
      /\ UNCHANGED life /\ UNCHANGED manager /\ UNCHANGED cgroups /\ UNCHANGED file
      /\ UNCHANGED edits /\ UNCHANGED proc /\ UNCHANGED starts /\ UNCHANGED states
      /\ UNCHANGED status /\ stop = None /\ UNCHANGED stop /\ UNCHANGED struck
  BY DEF BeginPass
<1>2. 1 \in 0 .. Last + 1
  BY RecoveryAssumption DEF RecoveryAssumption
<1>3. TypeOK' /\ SignalsOwned'
  BY <1>1, <1>2 DEF TypeOK, SignalsOwned
<1>4. ProcInv' /\ StatusInv' /\ StopInv'
  BY <1>1 DEF ProcInv, StatusInv, StopInv, Identifies
<1>5. HandleInv'
  BY <1>1 DEF HandleInv, Identifies, Follows, Running, Handle, Serving
<1>6. ChildInv'
  BY <1>1 DEF ChildInv, Sound, Names, Tracked, Stopping, Running, Handle, Serving
<1>7. BackoffInv'
  BY <1>1 DEF BackoffInv, FreshDelay
<1> QED
  BY <1>3, <1>4, <1>5, <1>6, <1>7

LEMMA WriteStatusInv ==
  ASSUME IInv, WriteStatus
  PROVE  IInv'
<1> USE DEF IInv
<1> DEFINE entries == [c \in Configs |-> Entry(c)]
<1>1. /\ life = "up" /\ at' = 0 /\ step' = "check" /\ status' \in {entries, status}
      /\ UNCHANGED life /\ UNCHANGED manager /\ UNCHANGED cgroups /\ UNCHANGED file
      /\ UNCHANGED edits /\ UNCHANGED starts /\ UNCHANGED states /\ UNCHANGED struck
      /\ stop = None /\ UNCHANGED stop
  BY DEF WriteStatus
<1>2. proc' = [p \in Pids |-> IF proc[p] = None \/ proc[p].config = None \/ proc[p].manager # manager
                              THEN proc[p] ELSE [proc[p] EXCEPT !.listed = Recorded(p)]]
  BY DEF WriteStatus
<1>3. ASSUME NEW p \in Pids, proc[p] # None
      PROVE  /\ proc'[p] \in Processes /\ proc'[p].start = proc[p].start
             /\ proc'[p].config = proc[p].config /\ proc'[p].manager = proc[p].manager
             /\ proc'[p].doomed = proc[p].doomed /\ proc'[p].replaced = proc[p].replaced
             /\ IF proc[p].config = None \/ proc[p].manager # manager
                THEN proc'[p] = proc[p] ELSE proc'[p].listed = Recorded(p)
  <2>1. proc[p] \in Processes
    BY <1>3 DEF TypeOK
  <2>2. Recorded(p) \in {"new", "yes", "no"}
    BY <2>1 DEF Recorded, Processes
  <2>3. PICK l \in {"new", "yes", "no"} : l = Recorded(p)
    BY <2>2
  <2>4. CASE proc[p].config = None \/ proc[p].manager # manager
    <3>1. proc'[p] = proc[p]
      BY <1>2, <2>4
    <3> QED
      BY <2>1, <2>4, <3>1
  <2>5. CASE ~(proc[p].config = None \/ proc[p].manager # manager)
    <3>1. proc'[p] = [proc[p] EXCEPT !.listed = l]
      BY <1>2, <1>3, <2>3, <2>5
    <3> QED
      BY <2>1, <2>3, <2>5, <3>1 DEF Processes
  <2> QED
    BY <2>4, <2>5
<1>4. \A p \in Pids : proc[p] = None => proc'[p] = None
  BY <1>2
<1>5. \A p \in Pids : proc'[p] # None => proc[p] # None
  BY <1>4
<1>6. entries \in [Configs -> Entries \cup {None}]
  BY EntryFacts
<1>7. TypeOK'
  <2>1. proc' \in [Pids -> Processes \cup {None}]
    <3>1. \A p \in Pids : proc'[p] \in Processes \cup {None}
      BY <1>3, <1>4
    <3> QED
      BY <1>2, <3>1
  <2>2. 0 \in 0 .. Last + 1
    BY RecoveryAssumption DEF RecoveryAssumption
  <2> QED
    BY <1>1, <1>6, <2>1, <2>2 DEF TypeOK
<1>8. ProcInv'
  BY <1>1, <1>3, <1>5 DEF ProcInv
<1>9. \A start, c : Identifies(start, c) =>
        start <= starts' /\ \A p \in Pids : proc'[p] # None /\ proc'[p].start = start => proc'[p].config = c
  BY <1>1, <1>3, <1>5 DEF Identifies
<1>10. HandleInv'
  <2>1. \A pid \in Pids : \A start : Follows(pid, start) =>
          (proc'[pid] # None => start <= proc'[pid].start)
    BY <1>3, <1>5 DEF Follows
  <2>2. \A c \in Configs : Running(c) =>
          /\ Handle(c).pid \in Pids
          /\ Identifies(Handle(c).start, c) /\ Follows(Handle(c).pid, Handle(c).start)
    BY HandleFacts DEF HandleInv
  <2> QED
    BY <1>1, <1>9, <2>1, <2>2 DEF HandleInv, Running, Handle, Serving, Identifies, Follows
<1>11. StatusInv'
  <2>1. ASSUME NEW c \in Configs, status' # None, status'[c] # None
        PROVE  Identifies(status'[c].path, c)
    <3>1. CASE status' = entries
      BY <2>1, <3>1, EntryFacts
    <3>2. CASE status' = status
      BY <2>1, <3>2 DEF StatusInv
    <3> QED
      BY <1>1, <3>1, <3>2
  <2> QED
    BY <1>1, <1>9, <2>1 DEF StatusInv, Identifies
<1>12. \A p \in Pids : Sound(p)' => Sound(p)
  BY <1>3, <1>5 DEF Sound
<1>13. ASSUME NEW p \in Pids, Sound(p), proc[p].manager = manager
       PROVE  proc'[p].listed = IF Names(status', p) THEN "yes" ELSE "no"
  <2>1. proc'[p].listed = Recorded(p)
    BY <1>3, <1>13 DEF Sound
  <2>2. status' = entries /\ file[proc[p].config] # 0 => Names(status', p)
    BY <1>1, <1>13, TableNames
  <2> QED
    BY <2>1, <2>2 DEF Recorded
<1>14. ChildInv'
  <2>1. ASSUME NEW p \in Pids, Sound(p)', proc'[p].listed = "yes"
        PROVE  Names(status, p)'
    <3>1. Sound(p) /\ proc'[p].start = proc[p].start /\ proc[p] # None
      BY <1>3, <1>12, <2>1 DEF Sound
    <3>2. CASE proc[p].manager = manager
      <4>1. Names(status', p)
        BY <1>13, <2>1, <3>1, <3>2
      <4> QED
        BY <3>1, <4>1 DEF Names
    <3>3. CASE proc[p].manager # manager
      <4>1. proc'[p] = proc[p]
        BY <1>3, <3>1, <3>3
      <4>2. FALSE
        BY <1>1, <2>1, <3>1, <3>3, <4>1 DEF ChildInv, Serving
      <4> QED
        BY <4>2
    <3> QED
      BY <3>2, <3>3
  <2>2. ASSUME NEW p \in Pids, Sound(p)'
        PROVE  IF proc'[p].manager = manager THEN Tracked(p)' ELSE proc'[p].listed # "yes"
    <3>1. Sound(p) /\ proc'[p].start = proc[p].start /\ proc[p] # None
          /\ proc'[p].manager = proc[p].manager
      BY <1>3, <1>12, <2>2 DEF Sound
    <3>2. CASE proc[p].manager = manager
      <4>1. Tracked(p)
        BY <1>1, <3>1, <3>2 DEF ChildInv, Serving
      <4> QED
        BY <1>1, <3>1, <3>2, <4>1 DEF Tracked, Stopping, Running, Handle
    <3>3. CASE proc[p].manager # manager
      BY <1>1, <1>3, <3>1, <3>3 DEF ChildInv, Serving
    <3> QED
      BY <3>2, <3>3
  <2>3. \A p \in Pids : Sound(p)' /\ proc'[p].manager = manager => proc'[p].listed # "new"
    BY <1>3, <1>12, <1>13 DEF Sound
  <2> QED
    BY <1>1, <2>1, <2>2, <2>3 DEF ChildInv
<1>15. BackoffInv' /\ SignalsOwned' /\ StopInv'
  BY <1>1 DEF BackoffInv, FreshDelay, SignalsOwned, StopInv
<1> QED
  BY <1>7, <1>8, <1>10, <1>11, <1>14, <1>15

LEMMA ElapseInv ==
  ASSUME IInv, NEW c \in Configs, Elapse(c)
  PROVE  IInv'
<1> USE DEF IInv
<1>1. /\ states[c] # None /\ states[c] \in States
      /\ UNCHANGED life /\ UNCHANGED manager /\ UNCHANGED cgroups /\ UNCHANGED file
      /\ UNCHANGED edits /\ UNCHANGED proc /\ UNCHANGED starts /\ UNCHANGED status
      /\ UNCHANGED at /\ UNCHANGED step /\ UNCHANGED stop /\ UNCHANGED struck
  BY DEF Elapse, TypeOK
<1>2. PICK s : /\ s \in States /\ s # None /\ s.process = states[c].process /\ ~s.delayed
               /\ states' = [states EXCEPT ![c] = s]
  BY <1>1, ForgivenFacts DEF Elapse, Update
<1>3. /\ states'[c] = s /\ \A d \in Configs : d # c => states'[d] = states[d]
      /\ states' \in [Configs -> States \cup {None}]
  BY <1>2 DEF TypeOK
<1>4. \A d \in Configs : /\ Running(d)' <=> Running(d)
                         /\ Running(d) => Handle(d)' = Handle(d)
                         /\ states'[d] = None <=> states[d] = None
  BY <1>1, <1>2, <1>3 DEF Running, Handle
<1>5. TypeOK'
  BY <1>1, <1>3 DEF TypeOK
<1>6. ProcInv' /\ StatusInv' /\ StopInv' /\ SignalsOwned'
  BY <1>1 DEF ProcInv, StatusInv, StopInv, Identifies, Follows, Serving, SignalsOwned
<1>7. HandleInv'
  <2>1. \A d \in Configs : Running(d)' =>
          Identifies(Handle(d).start, d)' /\ Follows(Handle(d).pid, Handle(d).start)'
    BY <1>1, <1>4 DEF HandleInv, Identifies, Follows
  <2> QED
    BY <1>1, <1>4, <2>1 DEF HandleInv, Serving
<1>8. ChildInv'
  <2>1. \A p \in Pids : Tracked(p) => Tracked(p)'
    BY <1>1, <1>4 DEF Tracked, Stopping
  <2>2. \A p \in Pids : /\ Sound(p)' <=> Sound(p)
                        /\ Names(status, p)' <=> Names(status, p)
                        /\ Stopping(p)' <=> Stopping(p)
                        /\ \A d \in Configs : NamedBy(d, p)' <=> NamedBy(d, p)
    BY <1>1 DEF Sound, Names, NamedBy, Stopping
  <2> QED
    BY <1>1, <2>1, <2>2 DEF ChildInv, Serving
<1>9. BackoffInv'
  BY <1>1, <1>2, <1>3 DEF BackoffInv, FreshDelay
<1> QED
  BY <1>5, <1>6, <1>7, <1>8, <1>9

-----------------------------------------------------------------------------
(* Processes come to an end, files change.                                 *)

\* What holds while processes dwindle and the tables stay.
LEMMA TableStep ==
  ASSUME IInv, Dwindle, UNCHANGED <<life, manager, starts, states, status>>,
         \A p \in Pids : Sound(p)' /\ Stopping(p) => Stopping(p)'
  PROVE  /\ ProcInv' /\ BackoffInv'
         /\ \A c \in Configs : Running(c)' =>
              Identifies(Handle(c).start, c)' /\ Follows(Handle(c).pid, Handle(c).start)'
         /\ status # None => \A c \in Configs : status[c] # None => Identifies(status[c].path, c)'
         /\ \A p \in Pids : Sound(p)' =>
              /\ Sound(p) /\ proc'[p].listed = proc[p].listed
              /\ proc'[p].manager = proc[p].manager
              /\ Tracked(p) => Tracked(p)'
              /\ Names(status, p)' <=> Names(status, p)
              /\ \A c \in Configs : NamedBy(c, p)' <=> NamedBy(c, p)
<1> USE DEF IInv
<1>1. /\ UNCHANGED life /\ UNCHANGED manager /\ UNCHANGED starts
      /\ UNCHANGED states /\ UNCHANGED status
  OBVIOUS
<1>2. ProcInv'
  BY ProcKept
<1>3. BackoffInv'
  BY <1>1 DEF BackoffInv, FreshDelay
<1>4. ASSUME NEW c \in Configs, Running(c)'
      PROVE  Identifies(Handle(c).start, c)' /\ Follows(Handle(c).pid, Handle(c).start)'
  <2>1. Running(c) /\ Handle(c)' = Handle(c)
    BY <1>1, <1>4 DEF Running, Handle
  <2>2. PICK start \in Starts, pid \in Pids : start = Handle(c).start /\ pid = Handle(c).pid
    BY <2>1, HandleFacts
  <2>3. Identifies(start, c)' /\ Follows(pid, start)'
    BY <1>1, <2>1, <2>2, IdentifiesKept, FollowsKept DEF HandleInv
  <2> QED
    BY <2>1, <2>2, <2>3
<1>5. ASSUME NEW c \in Configs, status # None, status[c] # None
      PROVE  Identifies(status[c].path, c)'
  <2>1. PICK start : start = status[c].path
    OBVIOUS
  <2>2. Identifies(start, c)'
    BY <1>1, <1>5, <2>1, IdentifiesKept DEF StatusInv
  <2> QED
    BY <1>1, <2>1, <2>2
<1>6. ASSUME NEW p \in Pids, Sound(p)'
      PROVE  /\ Sound(p) /\ proc'[p].listed = proc[p].listed
             /\ proc'[p].manager = proc[p].manager
             /\ Tracked(p) => Tracked(p)'
             /\ Names(status, p)' <=> Names(status, p)
             /\ \A c \in Configs : NamedBy(c, p)' <=> NamedBy(c, p)
  <2>1. /\ Sound(p) /\ proc'[p].listed = proc[p].listed
        /\ proc'[p].manager = proc[p].manager /\ proc'[p].start = proc[p].start
    BY <1>6 DEF Dwindle, Sound
  <2>2. Tracked(p) => Tracked(p)'
    BY <1>1, <1>6, <2>1 DEF Tracked, Running, Handle
  <2> QED
    BY <1>1, <2>1, <2>2 DEF Names, NamedBy
<1> QED
  BY <1>1, <1>2, <1>3, <1>4, <1>5, <1>6

LEMMA DwindleInv ==
  ASSUME IInv, Dwindle, file' \in [Configs -> Contents], edits' \in 0 .. MaxEdits,
         stop' \in Stops \cup {None}, StopInv', SignalsOwned',
         \A p \in Pids : Sound(p)' /\ Stopping(p) => Stopping(p)',
         UNCHANGED <<life, manager, cgroups, starts, states, status, at, step>>
  PROVE  IInv'
<1> USE DEF IInv
<1>1. /\ UNCHANGED life /\ UNCHANGED manager /\ UNCHANGED cgroups /\ UNCHANGED starts
      /\ UNCHANGED states /\ UNCHANGED status /\ UNCHANGED at /\ UNCHANGED step
  OBVIOUS
<1>2. TypeOK'
  BY <1>1 DEF TypeOK, Dwindle, SignalsOwned
<1>3. HandleInv'
  <2>1. \A d \in Configs : Running(d)' = Running(d)
    BY <1>1 DEF Running
  <2> QED
    BY <1>1, <2>1, TableStep DEF HandleInv, Serving
<1>4. StatusInv'
  BY <1>1, TableStep DEF StatusInv
<1>5. ChildInv'
  <2>1. \A p \in Pids : Sound(p)' => Sound(p)
    BY TableStep
  <2> QED
    BY <1>1, <2>1, TableStep DEF ChildInv, Serving
<1> QED
  BY <1>2, <1>3, <1>4, <1>5, TableStep

LEMMA QuietInv ==
  ASSUME IInv, Dwindle, file' \in [Configs -> Contents], edits' \in 0 .. MaxEdits,
         UNCHANGED <<life, manager, cgroups, starts, states, status, at, step, stop, struck>>
  PROVE  IInv'
<1>1. UNCHANGED stop /\ UNCHANGED struck /\ UNCHANGED life /\ UNCHANGED starts
  OBVIOUS
<1>2. stop' \in Stops \cup {None} /\ SignalsOwned'
  BY <1>1 DEF IInv, TypeOK, SignalsOwned
<1>3. StopInv'
  <2>1. CASE stop = None
    BY <1>1, <2>1 DEF StopInv
  <2>2. CASE stop # None
    <3>1. stop.seen = stop.start
      BY <2>2 DEF IInv, StopInv
    <3> QED
      BY <1>1, <2>2, <3>1, StopKept DEF IInv
  <2> QED
    BY <2>1, <2>2
<1>4. \A p \in Pids : Sound(p)' /\ Stopping(p) => Stopping(p)'
  BY <1>1 DEF Dwindle, Sound, Stopping
<1> QED
  BY <1>2, <1>3, <1>4, DwindleInv

LEMMA EditInv ==
  ASSUME IInv, NEW c \in Configs, Edit(c)
  PROVE  IInv'
<1>1. PICK content \in Contents : file' = [file EXCEPT ![c] = content]
  BY DEF Edit
<1>2. file' \in [Configs -> Contents] /\ edits' \in 0 .. MaxEdits
  BY <1>1, RecoveryAssumption DEF Edit, IInv, TypeOK, RecoveryAssumption
<1>3. Dwindle
  BY UnchangedDwindles DEF Edit, IInv
<1> QED
  BY <1>2, <1>3, QuietInv DEF Edit

LEMMA ExitInv ==
  ASSUME IInv, NEW p \in Pids, Exit(p)
  PROVE  IInv'
<1>1. proc' = [proc EXCEPT ![p] = None]
      /\ UNCHANGED <<life, manager, cgroups, file, edits, starts, states, status, at, step, stop, struck>>
  BY DEF Exit
<1>2. Dwindle
  BY <1>1 DEF Dwindle, Sound, IInv, TypeOK
<1>3. file' \in [Configs -> Contents] /\ edits' \in 0 .. MaxEdits
  BY <1>1 DEF IInv, TypeOK
<1> QED
  BY <1>1, <1>2, <1>3, QuietInv

LEMMA UpgradeInv ==
  ASSUME IInv, Upgrade
  PROVE  IInv'
<1>1. proc' = [p \in Pids |-> IF proc[p] = None \/ proc[p].config = None THEN proc[p]
                              ELSE [proc[p] EXCEPT !.replaced = TRUE]]
      /\ UNCHANGED <<life, manager, cgroups, file, edits, starts, states, status, at, step, stop, struck>>
  BY DEF Upgrade
<1>2. ASSUME NEW p \in Pids, proc[p] # None
      PROVE  /\ proc'[p] \in Processes /\ proc'[p].start = proc[p].start
             /\ proc'[p].config = proc[p].config /\ proc'[p].manager = proc[p].manager
             /\ proc'[p].listed = proc[p].listed
             /\ proc'[p].config = None \/ proc'[p].replaced
  <2>1. proc[p] \in Processes
    BY <1>2 DEF IInv, TypeOK
  <2>2. CASE proc[p].config = None
    <3>1. proc'[p] = proc[p]
      BY <1>1, <2>2
    <3> QED
      BY <2>1, <2>2, <3>1
  <2>3. CASE proc[p].config # None
    <3>1. proc'[p] = [proc[p] EXCEPT !.replaced = TRUE]
      BY <1>1, <1>2, <2>3
    <3> QED
      BY <2>1, <3>1 DEF Processes
  <2> QED
    BY <2>2, <2>3
<1>3. \A p \in Pids : proc[p] = None => proc'[p] = None
  BY <1>1
<1>4. Dwindle
  <2>1. proc' \in [Pids -> Processes \cup {None}]
    <3>1. \A p \in Pids : proc'[p] \in Processes \cup {None}
      BY <1>2, <1>3
    <3> QED
      BY <1>1, <3>1
  <2>2. \A p \in Pids : ~Sound(p)'
    BY <1>2, <1>3 DEF Sound
  <2> QED
    BY <1>2, <1>3, <2>1, <2>2 DEF Dwindle
<1>5. file' \in [Configs -> Contents] /\ edits' \in 0 .. MaxEdits
  BY <1>1 DEF IInv, TypeOK
<1> QED
  BY <1>1, <1>4, <1>5, QuietInv

-----------------------------------------------------------------------------
(* The rest of a stop.                                                     *)

\* A stop that is under way: what it signals, and what ends with it.
LEMMA StopTypes ==
  ASSUME IInv, stop # None
  PROVE  /\ stop \in Stops /\ stop.config \in Configs /\ stop.pid \in Pids
         /\ stop.start \in Starts /\ stop.seen = stop.start
         /\ Identifies(stop.start, stop.config) /\ Follows(stop.pid, stop.start)
         /\ file \in [Configs -> Contents] /\ edits \in 0 .. MaxEdits
  BY DEF IInv, TypeOK, Stops, StopInv

LEMMA TerminateInv ==
  ASSUME IInv, Terminate
  PROVE  IInv'
<1>1. /\ stop # None /\ SignalGroup(stop.config, stop.pid, stop.start)
      /\ stop' = [stop EXCEPT !.next = "wait"]
      /\ UNCHANGED <<life, manager, cgroups, file, edits, proc, starts, states, status, at, step>>
  BY StopTypes DEF Terminate
<1>2. /\ stop' \in Stops /\ stop'.who = stop.who /\ stop'.config = stop.config
      /\ stop'.pid = stop.pid /\ stop'.start = stop.start /\ stop'.seen = stop.seen
  BY <1>1, StopTypes DEF Stops
<1>3. Dwindle /\ UNCHANGED life /\ UNCHANGED starts
  BY <1>1, UnchangedDwindles DEF IInv
<1>4. StopInv'
  BY <1>1, <1>2, <1>3, StopTypes, StopKept DEF IInv
<1>5. SignalsOwned'
  BY <1>1, StopTypes, SignalFacts DEF IInv
<1>6. \A p \in Pids : Sound(p)' /\ Stopping(p) => Stopping(p)'
  <2>1. stop' # None
    BY <1>2, NoneAssumption DEF NoneAssumption
  <2> QED
    BY <1>1, <1>2, <2>1 DEF Stopping
<1>7. file' \in [Configs -> Contents] /\ edits' \in 0 .. MaxEdits
  BY <1>1, StopTypes
<1> QED
  BY <1>1, <1>2, <1>3, <1>4, <1>5, <1>6, <1>7, DwindleInv

LEMMA DeadlineInv ==
  ASSUME IInv, Deadline
  PROVE  IInv'
<1>1. /\ stop # None
      /\ stop' = [stop EXCEPT !.next = "kill",
                     !.seen = IF stop.who = "recover" THEN ProcessStartTime(stop.pid) ELSE @]
      /\ stop.who = "recover" => ProcessStartTime(stop.pid) = stop.start
      /\ UNCHANGED <<life, manager, cgroups, file, edits, proc, starts, states, status, at, step, struck>>
  BY DEF Deadline
<1>2. stop' = [stop EXCEPT !.next = "kill", !.seen = stop.start]
  BY <1>1, StopTypes
<1>3. /\ stop' \in Stops /\ stop'.who = stop.who /\ stop'.config = stop.config
      /\ stop'.pid = stop.pid /\ stop'.start = stop.start /\ stop'.seen = stop.start
  BY <1>1, <1>2, StopTypes DEF Stops
<1>4. Dwindle /\ UNCHANGED life /\ UNCHANGED starts
  BY <1>1, UnchangedDwindles DEF IInv
<1>5. StopInv'
  BY <1>1, <1>3, <1>4, StopKept DEF IInv
<1>6. SignalsOwned'
  BY <1>1 DEF IInv, SignalsOwned
<1>7. \A p \in Pids : Sound(p)' /\ Stopping(p) => Stopping(p)'
  <2>1. stop' # None
    BY <1>3, NoneAssumption DEF NoneAssumption
  <2> QED
    BY <1>1, <1>3, <2>1 DEF Stopping
<1>8. file' \in [Configs -> Contents] /\ edits' \in 0 .. MaxEdits
  BY <1>1, StopTypes
<1> QED
  BY <1>1, <1>3, <1>4, <1>5, <1>6, <1>7, <1>8, DwindleInv

\* Processes are killed and the stop is over: its child is not sound any more.
LEMMA StopEnds ==
  ASSUME IInv, stop # None, stop' = None, SignalsOwned',
         NEW pids \in SUBSET Pids, \A p \in pids : proc[p] # None, proc' \in Killed(pids),
         \A p \in Pids : Sound(p) /\ Stopping(p) => p \in pids,
         UNCHANGED <<life, manager, cgroups, file, edits, starts, states, status, at, step>>
  PROVE  IInv'
<1>1. Dwindle /\ \A p \in pids : ~Sound(p)'
  BY KilledFacts DEF IInv
<1>2. StopInv'
  BY DEF StopInv
<1>3. \A p \in Pids : ~(Sound(p)' /\ Stopping(p))
  BY <1>1 DEF Dwindle, Sound
<1>4. file' \in [Configs -> Contents] /\ edits' \in 0 .. MaxEdits
  BY StopTypes
<1> QED
  BY <1>1, <1>2, <1>3, <1>4, DwindleInv

LEMMA StoppedCgroupFacts ==
  /\ StoppedCgroup \in SUBSET Pids
  /\ \A p \in StoppedCgroup : proc[p] # None
  BY CgroupFacts DEF StoppedCgroup

LEMMA StoppedInv ==
  ASSUME IInv, Stopped
  PROVE  IInv'
<1>1. /\ stop # None /\ stop' = None /\ proc' \in Killed(StoppedCgroup)
      /\ ProcessStartTime(stop.pid) # stop.start
      /\ UNCHANGED <<life, manager, cgroups, file, edits, starts, states, status, at, step, struck>>
  BY DEF Stopped
<1>2. \A p \in Pids : ~(Sound(p) /\ Stopping(p))
  BY <1>1 DEF Sound, Stopping, ProcessStartTime
<1>3. SignalsOwned'
  BY <1>1 DEF IInv, SignalsOwned
<1> QED
  BY <1>1, <1>2, <1>3, StoppedCgroupFacts, StopEnds

LEMMA KillInv ==
  ASSUME IInv, Kill
  PROVE  IInv'
<1> DEFINE pids == Numbered(stop.pid) \cup StoppedCgroup
<1>1. /\ stop # None /\ stop' = None /\ proc' \in Killed(pids)
      /\ SignalGroup(stop.config, stop.pid, stop.start)
      /\ UNCHANGED <<life, manager, cgroups, file, edits, starts, states, status, at, step>>
  BY StopTypes DEF Kill
<1>2. pids \in SUBSET Pids /\ \A p \in pids : proc[p] # None
  BY <1>1, StopTypes, StoppedCgroupFacts DEF Numbered
<1>3. \A p \in Pids : Sound(p) /\ Stopping(p) => p \in pids
  BY DEF Sound, Stopping, Numbered
<1>4. SignalsOwned'
  BY <1>1, StopTypes, SignalFacts DEF IInv
<1> HIDE DEF pids
<1> QED
  BY <1>1, <1>2, <1>3, <1>4, StopEnds

-----------------------------------------------------------------------------
(* The end of a manager and the start of the next.                         *)

LEMMA CleanupInv ==
  ASSUME IInv, Cleanup
  PROVE  IInv'
<1> USE DEF IInv
<1>1. /\ life = "up" /\ life' = "leaving" /\ stop = None
      /\ UNCHANGED manager /\ UNCHANGED cgroups /\ UNCHANGED file /\ UNCHANGED edits
      /\ UNCHANGED proc /\ UNCHANGED starts /\ UNCHANGED states /\ UNCHANGED status
      /\ UNCHANGED at /\ UNCHANGED step /\ UNCHANGED stop /\ UNCHANGED struck
  BY DEF Cleanup
<1>2. TypeOK' /\ ProcInv' /\ StatusInv' /\ StopInv' /\ BackoffInv' /\ SignalsOwned'
  BY <1>1 DEF TypeOK, ProcInv, StatusInv, StopInv, Identifies, BackoffInv, FreshDelay,
              SignalsOwned
<1>3. HandleInv'
  BY <1>1 DEF HandleInv, Identifies, Follows, Running, Handle, Serving
<1>4. ChildInv'
  BY <1>1 DEF ChildInv, Sound, Names, Tracked, Stopping, Running, Handle, Serving
<1> QED
  BY <1>2, <1>3, <1>4

LEMMA StopStatesInv ==
  ASSUME IInv, NEW c \in Configs, StopStates(c)
  PROVE  IInv'
<1>1. FreshDelay(None)
  BY DEF FreshDelay
<1> QED
  BY <1>1, StopStep DEF StopStates

\* All of its children have been stopped when the file goes.
LEMMA CleanupDoneInv ==
  ASSUME IInv, CleanupDone
  PROVE  IInv'
<1> USE DEF IInv
<1>1. /\ life = "leaving" /\ life' = "down" /\ status' = None /\ stop = None
      /\ \A c \in Configs : states[c] = None
      /\ UNCHANGED manager /\ UNCHANGED cgroups /\ UNCHANGED file /\ UNCHANGED edits
      /\ UNCHANGED proc /\ UNCHANGED starts /\ UNCHANGED states
      /\ UNCHANGED at /\ UNCHANGED step /\ UNCHANGED stop /\ UNCHANGED struck
  BY DEF CleanupDone
<1>2. TypeOK' /\ ProcInv' /\ StatusInv' /\ StopInv' /\ BackoffInv' /\ SignalsOwned'
  BY <1>1 DEF TypeOK, ProcInv, StatusInv, StopInv, BackoffInv, FreshDelay, SignalsOwned
<1>3. HandleInv'
  BY <1>1 DEF HandleInv, Running
<1>4. ChildInv'
  <2>1. \A p \in Pids : ~Tracked(p)
    BY <1>1 DEF Tracked, Stopping, Running
  <2>2. \A p \in Pids : Sound(p) => proc[p].listed # "yes"
    BY <1>1, <2>1 DEF ChildInv, Serving
  <2> QED
    BY <1>1, <2>2 DEF ChildInv, Sound, Serving
<1> QED
  BY <1>2, <1>3, <1>4

LEMMA CrashInv ==
  ASSUME IInv, Crash
  PROVE  IInv'
<1> USE DEF IInv
<1>1. /\ life' = "down" /\ at' = 0 /\ step' = "check" /\ states' = [c \in Configs |-> None]
      /\ stop' = None
      /\ UNCHANGED manager /\ UNCHANGED cgroups /\ UNCHANGED file /\ UNCHANGED edits
      /\ UNCHANGED starts /\ UNCHANGED status /\ UNCHANGED struck
  BY DEF Crash
<1>2. PICK dead \in SUBSET Pids : proc' = [p \in Pids |-> IF p \in dead THEN None ELSE proc[p]]
  BY DEF Crash
<1>3. \A p \in Pids : proc'[p] \in {proc[p], None}
  BY <1>2
<1>4. Dwindle
  BY <1>2, <1>3 DEF Dwindle, Sound, TypeOK
<1>5. 0 \in 0 .. Last + 1
  BY RecoveryAssumption DEF RecoveryAssumption
<1>6. TypeOK'
  BY <1>1, <1>4, <1>5 DEF TypeOK, Dwindle
<1>7. ProcInv'
  BY <1>1, <1>3 DEF ProcInv
<1>8. HandleInv' /\ BackoffInv' /\ StopInv'
  BY <1>1 DEF HandleInv, Running, BackoffInv, FreshDelay, StopInv
<1>9. StatusInv'
  BY <1>1, <1>3 DEF StatusInv, Identifies
<1>10. ChildInv'
  <2>1. \A p \in Pids : Sound(p)' => Sound(p) /\ proc'[p] = proc[p]
    BY <1>3 DEF Sound
  <2> QED
    BY <1>1, <2>1 DEF ChildInv, Names, Serving
<1> QED
  BY <1>1, <1>6, <1>7, <1>8, <1>9, <1>10 DEF SignalsOwned

LEMMA RestartInv ==
  ASSUME IInv, Restart
  PROVE  IInv'
<1> USE DEF IInv
<1>1. /\ life = "down" /\ life' = "recovering" /\ at' = 1 /\ step' = "check"
      /\ manager < MaxManagers /\ manager' = manager + 1
      /\ UNCHANGED cgroups /\ UNCHANGED file /\ UNCHANGED edits /\ UNCHANGED proc
      /\ UNCHANGED starts /\ UNCHANGED states /\ UNCHANGED status /\ UNCHANGED struck
      /\ UNCHANGED stop
  BY DEF Restart
<1>2. manager \in Nat /\ manager' \in 0 .. MaxManagers /\ 1 \in 0 .. Last + 1
  BY <1>1, RecoveryAssumption DEF TypeOK, RecoveryAssumption
<1>3. TypeOK'
  BY <1>1, <1>2 DEF TypeOK
<1>4. ProcInv'
  <2>1. \A p \in Pids : proc[p] # None => proc[p].manager \in Nat /\ proc[p].manager <= manager
    BY DEF ProcInv, TypeOK, Processes
  <2>2. \A p \in Pids : proc[p] # None => proc[p].manager <= manager' /\ proc[p].manager # manager'
    BY <1>1, <1>2, <2>1
  <2> QED
    BY <1>1, <2>2 DEF ProcInv
<1>5. HandleInv' /\ BackoffInv' /\ StatusInv' /\ StopInv'
  BY <1>1 DEF HandleInv, Running, BackoffInv, FreshDelay, StatusInv, StopInv, Serving,
              Identifies
<1>6. ChildInv'
  <2>1. \A c \in Configs : ~(c < 1)
    BY RecoveryAssumption DEF Configs, RecoveryAssumption
  <2> QED
    BY <1>1, <2>1 DEF ChildInv, Sound, Names, Serving
<1> QED
  BY <1>1, <1>3, <1>4, <1>5, <1>6 DEF SignalsOwned

\* A step of the recovery: what has been passed over has no sound child of
\* that entry, unless it is the one to be ended now.
LEMMA RecoverStep ==
  ASSUME IInv, NEW c \in Configs, Recovering(c), NextConfiguration, SignalsOwned',
         stop' \in Stops \cup {None}, StopInv',
         \A p \in Pids : Sound(p) /\ NamedBy(c, p) => Stopping(p)',
         UNCHANGED <<life, manager, cgroups, file, edits, proc, starts, states, status>>
  PROVE  IInv'
<1> USE DEF IInv
<1>1. /\ life = "recovering" /\ at = c /\ status # None /\ stop = None
      /\ UNCHANGED life /\ UNCHANGED manager /\ UNCHANGED cgroups /\ UNCHANGED file
      /\ UNCHANGED edits /\ UNCHANGED proc /\ UNCHANGED starts /\ UNCHANGED states
      /\ UNCHANGED status
  BY DEF Recovering
<1>2. c \in 1 .. Last /\ Last \in Nat
  BY RecoveryAssumption DEF Configs, RecoveryAssumption
<1>3. at' \in 0 .. Last + 1 /\ step' = "check"
  BY <1>1, <1>2 DEF NextConfiguration
<1>4. TypeOK'
  BY <1>1, <1>3 DEF TypeOK, SignalsOwned
<1>5. ProcInv' /\ StatusInv' /\ BackoffInv'
  BY <1>1 DEF ProcInv, StatusInv, Identifies, BackoffInv, FreshDelay
<1>6. HandleInv'
  <2>1. \A d \in Configs : states'[d] = None
    BY <1>1 DEF HandleInv, Serving
  <2> QED
    BY <1>1, <2>1 DEF HandleInv, Running
<1>7. ChildInv'
  <2>1. \A p \in Pids : /\ Sound(p)' <=> Sound(p)
                        /\ Names(status, p)' <=> Names(status, p)
                        /\ \A d \in Configs : NamedBy(d, p)' <=> NamedBy(d, p)
    BY <1>1 DEF Sound, Names, NamedBy
  <2>2. ASSUME NEW d \in Configs, d < at', NEW p \in Pids, Sound(p), NamedBy(d, p)
        PROVE  Stopping(p)'
    <3>1. CASE d < at
      BY <1>1, <2>2, <3>1 DEF ChildInv, Stopping
    <3>2. CASE ~(d < at)
      <4>1. d = c
        BY <1>1, <1>2, <2>2, <3>2 DEF NextConfiguration, Configs
      <4> QED
        BY <2>2, <4>1
    <3> QED
      BY <3>1, <3>2
  <2> QED
    BY <1>1, <2>1, <2>2 DEF ChildInv, Serving
<1> QED
  BY <1>4, <1>5, <1>6, <1>7

\* What an entry names, and can be signalled, is a child of its configuration.
LEMMA LeftFacts ==
  ASSUME IInv, NEW c \in Configs, Recovering(c)
  PROVE  /\ Left(c) => /\ status[c].pid \in Pids /\ status[c].start \in Starts
                       /\ Identifies(status[c].start, c)
                       /\ Follows(status[c].pid, status[c].start)
                       /\ ProcessStartTime(status[c].pid) = status[c].start
         /\ \A p \in Pids : Sound(p) /\ NamedBy(c, p) => Left(c)
<1> USE DEF IInv
<1>1. status # None /\ status[c] # None => status[c].pid \in Pids \cup {None}
  BY DEF TypeOK, Entries
<1>2. ASSUME Left(c)
      PROVE  /\ status[c].pid \in Pids /\ status[c].start \in Starts
             /\ Identifies(status[c].start, c)
             /\ Follows(status[c].pid, status[c].start)
             /\ ProcessStartTime(status[c].pid) = status[c].start
  <2>1. status[c] # None /\ status[c].pid \in Pids /\ status # None
    BY <1>1, <1>2 DEF Left, Recovering
  <2>2. /\ proc[status[c].pid] # None /\ proc[status[c].pid].start = status[c].path
        /\ status[c].start = status[c].path
        /\ ProcessStartTime(status[c].pid) = status[c].start
    BY <1>2 DEF Left, ProcessMatchesCommand, ProcessStartTime
  <2>3. Identifies(status[c].path, c) /\ status[c].start \in Starts
    BY <2>1 DEF StatusInv, TypeOK, Entries
  <2>4. Follows(status[c].pid, status[c].start)
    BY <2>2, <2>3 DEF Follows, Starts
  <2> QED
    BY <2>1, <2>2, <2>3, <2>4
<1>3. ASSUME NEW p \in Pids, Sound(p), NamedBy(c, p)
      PROVE  Left(c)
  <2>1. proc[p] # None /\ proc[p].start # 0 /\ p # None
    BY <1>3, RecoveryAssumption DEF Sound, ProcInv, TypeOK, Processes, Starts, RecoveryAssumption
  <2> QED
    BY <1>3, <2>1 DEF Left, NamedBy, Sound, ProcessMatchesCommand, ProcessStartTime
<1> QED
  BY <1>2, <1>3

LEMMA RecoverNothingInv ==
  ASSUME IInv, NEW c \in Configs, RecoverNothing(c)
  PROVE  IInv'
<1>1. /\ Recovering(c) /\ ~Left(c) /\ NextConfiguration /\ stop = None
      /\ UNCHANGED <<life, manager, cgroups, file, edits, proc, starts, states, status, stop, struck>>
  BY DEF RecoverNothing, Recovering
<1>2. stop' \in Stops \cup {None} /\ StopInv' /\ SignalsOwned'
  BY <1>1 DEF IInv, SignalsOwned, StopInv
<1>3. \A p \in Pids : Sound(p) => ~NamedBy(c, p)
  BY <1>1, LeftFacts
<1> QED
  BY <1>1, <1>2, <1>3, RecoverStep

LEMMA RecoverChildInv ==
  ASSUME IInv, NEW c \in Configs, RecoverChild(c)
  PROVE  IInv'
<1>1. /\ Recovering(c) /\ Left(c) /\ NextConfiguration /\ life = "recovering"
      /\ stop' = [who |-> "recover", config |-> c, pid |-> status[c].pid,
                  start |-> status[c].start,
                  seen |-> ProcessStartTime(status[c].pid), next |-> "term"]
      /\ UNCHANGED <<life, manager, cgroups, file, edits, proc, starts, states, status, struck>>
  BY DEF RecoverChild, Recovering
<1>2. /\ status[c].pid \in Pids /\ status[c].start \in Starts
      /\ Identifies(status[c].start, c) /\ Follows(status[c].pid, status[c].start)
      /\ ProcessStartTime(status[c].pid) = status[c].start
  BY <1>1, LeftFacts
<1>3. stop' \in Stops /\ stop' # None
  <2>1. stop' \in Stops
    BY <1>1, <1>2 DEF Stops
  <2> QED
    BY <2>1, NoneAssumption DEF NoneAssumption
<1>4. StopInv'
  BY <1>1, <1>2 DEF StopInv, Identifies, Follows
<1>5. \A p \in Pids : Sound(p) /\ NamedBy(c, p) => Stopping(p)'
  BY <1>1, <1>3 DEF NamedBy, Stopping
<1>6. SignalsOwned'
  BY <1>1 DEF IInv, SignalsOwned
<1> QED
  BY <1>1, <1>3, <1>4, <1>5, <1>6, RecoverStep

LEMMA RecoveredInv ==
  ASSUME IInv, Recovered
  PROVE  IInv'
<1> USE DEF IInv
<1>1. /\ life = "recovering" /\ stop = None /\ UNCHANGED stop /\ (status = None \/ at = Last + 1)
      /\ states' = RestoreBackoff /\ status' = None /\ life' = "up" /\ at' = 0
      /\ step' = "check"
      /\ UNCHANGED manager /\ UNCHANGED cgroups /\ UNCHANGED file /\ UNCHANGED edits
      /\ UNCHANGED proc /\ UNCHANGED starts /\ UNCHANGED struck
  BY DEF Recovered
<1> DEFINE s == [Fresh EXCEPT !.delayed = TRUE]
<1>2. s \in States /\ s.process = None /\ s.sig = 0
  BY FreshFacts DEF States
<1>3. /\ states' \in [Configs -> States \cup {None}]
      /\ \A c \in Configs : states'[c] # None => states'[c] = s
  <2> HIDE DEF s
  <2>1. CASE status = None
    BY <1>1, <2>1 DEF RestoreBackoff
  <2>2. CASE status # None
    <3>1. states' = [c \in Configs |->
                       IF status[c] = None \/ ~status[c].delayed THEN None ELSE s]
      BY <1>1, <2>2 DEF RestoreBackoff, s
    <3> QED
      BY <1>2, <3>1
  <2> QED
    BY <2>1, <2>2
<1> HIDE DEF s
<1>4. TypeOK'
  <2>1. 0 \in 0 .. Last + 1
    BY RecoveryAssumption DEF RecoveryAssumption
  <2> QED
    BY <1>1, <1>3, <2>1 DEF TypeOK
<1>5. ProcInv'
  BY <1>1 DEF ProcInv
<1>6. HandleInv'
  BY <1>1, <1>2, <1>3 DEF HandleInv, Running, Serving
<1>7. StatusInv' /\ BackoffInv' /\ StopInv'
  BY <1>1, <1>2, <1>3 DEF StatusInv, StopInv, BackoffInv, FreshDelay
<1>8. ChildInv'
  <2>1. \A p \in Pids : Sound(p)' <=> Sound(p)
    BY <1>1 DEF Sound
  <2>2. \A p \in Pids : Sound(p) => proc[p].manager # manager
    BY <1>1 DEF Sound, ProcInv
  <2>3. \A c \in Configs : c < Last + 1
    BY RecoveryAssumption DEF Configs, RecoveryAssumption
  <2>4. ASSUME NEW p \in Pids, Sound(p)
        PROVE  proc[p].listed # "yes"
    <3>1. ~Names(status, p)
      BY <1>1, <2>3, <2>4 DEF ChildInv, Names, NamedBy, Stopping
    <3> QED
      BY <2>4, <3>1 DEF ChildInv
  <2> QED
    BY <1>1, <2>1, <2>2, <2>4 DEF ChildInv, Serving
<1> QED
  BY <1>1, <1>4, <1>5, <1>6, <1>7, <1>8 DEF SignalsOwned

-----------------------------------------------------------------------------
(* The theorems.                                                           *)

LEMMA InitIInv == Init => IInv
<1> SUFFICES ASSUME Init PROVE IInv
  OBVIOUS
<1>1. TypeOK
  <2>1. /\ file \in [Configs -> Contents] /\ edits \in 0 .. MaxEdits /\ starts \in Starts
        /\ manager \in 0 .. MaxManagers /\ at \in 0 .. Last + 1
    BY RecoveryAssumption DEF Init, Contents, Starts, RecoveryAssumption
  <2>2. proc \in [Pids -> Processes \cup {None}] /\ states \in [Configs -> States \cup {None}]
    BY DEF Init
  <2> QED
    BY <2>1, <2>2 DEF Init, TypeOK
<1>2. ProcInv
  BY DEF Init, ProcInv
<1>3. HandleInv /\ BackoffInv /\ StatusInv /\ StopInv
  BY DEF Init, HandleInv, Running, BackoffInv, FreshDelay, StatusInv, StopInv
<1>4. ChildInv
  BY DEF Init, ChildInv, Sound
<1> QED
  BY <1>1, <1>2, <1>3, <1>4 DEF Init, IInv, SignalsOwned

LEMMA PassInv ==
  ASSUME IInv, Pass
  PROVE  IInv'
<1>1. ASSUME NEW c \in Configs, Skip(c) \/ Wait(c)
      PROVE  IInv'
  BY <1>1, PassOver DEF Skip, Wait, Ready, Checking
<1>2. CASE BeginPass \/ WriteStatus
  BY <1>2, BeginPassInv, WriteStatusInv
<1>3. ASSUME NEW c \in Configs,
             \/ Refuse(c) \/ Hold(c) \/ RejectUpdate(c) \/ Adopt(c)
             \/ Watchdog(c) \/ ProcessExited(c) \/ KeepRunning(c)
             \/ Due(c) \/ FailToStart(c) \/ StartConfig(c)
      PROVE  IInv'
  BY <1>3, RefuseInv, HoldInv, RejectUpdateInv, AdoptInv, WatchdogInv, ProcessExitedInv,
     KeepRunningInv, DueInv, FailToStartInv, StartConfigInv
<1> QED
  BY <1>1, <1>2, <1>3 DEF Pass

LEMMA NextIInv == IInv /\ [Next]_vars => IInv'
<1> SUFFICES ASSUME IInv, [Next]_vars PROVE IInv'
  OBVIOUS
<1>1. CASE UNCHANGED vars
  <2>1. Dwindle /\ file' \in [Configs -> Contents] /\ edits' \in 0 .. MaxEdits
    BY <1>1, UnchangedDwindles DEF vars, IInv, TypeOK
  <2> QED
    BY <1>1, <2>1, QuietInv DEF vars
<1>2. CASE Pass
  BY <1>2, PassInv
<1>3. CASE StopOne
  BY <1>3, TerminateInv, StoppedInv, DeadlineInv, KillInv DEF StopOne
<1>4. CASE Leave
  BY <1>4, CleanupInv, CleanupDoneInv, StopStatesInv DEF Leave
<1>5. CASE Recover
  BY <1>5, RecoveredInv, RecoverNothingInv, RecoverChildInv DEF Recover
<1>6. CASE Environment
  BY <1>6, CrashInv, RestartInv, UpgradeInv, ElapseInv, EditInv, ExitInv, ForeignInv
     DEF Environment
<1> QED
  BY <1>1, <1>2, <1>3, <1>4, <1>5, <1>6 DEF Next

\* The inductive invariant holds of every life of the manager.
THEOREM Invariance == Spec => []IInv
  BY InitIInv, NextIInv, PTL DEF Spec

\* A signal that a stop, a shutdown or a recovery sends by number never reaches
\* a process of another that was there when the manager last looked at the PID,
\* nor the kill of a group one that was there when the child was launched,
\* however many steps of other processes come between the look and the signal
\* (ownsProcess, stopProcess, recoverOwnedProcesses).
THEOREM SignalsAreOwned == Spec => []SignalsOwned
<1>1. IInv => SignalsOwned
  BY DEF IInv
<1> QED
  BY <1>1, Invariance, PTL

\* A child that could still be stopped is in the table of the manager, or in
\* the status.json that the next manager reads, wherever the manager crashes
\* (writeStatus at the end of a pass, recoverOwnedProcesses before it is removed).
THEOREM NoChildIsLost == Spec => []NoChildLost
<1>1. IInv => NoChildLost
  BY DEF IInv, NoChildLost, ChildInv
<1> QED
  BY <1>1, Invariance, PTL

\* What delays a configuration that could run is a failure this manager saw of
\* the content at hand (restoreBackoff, the reset of reconcile at a change).
THEOREM BackoffIsFresh == Spec => []BackoffFresh
<1>1. IInv => BackoffFresh
  <2> SUFFICES ASSUME IInv, NEW c \in Configs, Ready(c), states[c].delayed
               PROVE  /\ states[c].blame.manager = manager
                      /\ states[c].blame.sig \in {states[c].sig, states[c].pending}
    BY DEF BackoffFresh
  <2>1. states[c] # None /\ states[c].sig = file[c] /\ file[c] # 0
    BY DEF Ready, Changed, State
  <2> QED
    BY <2>1 DEF IInv, BackoffInv, FreshDelay
<1> QED
  BY <1>1, Invariance, PTL

=============================================================================
