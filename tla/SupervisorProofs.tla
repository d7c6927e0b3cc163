-------------------------- MODULE SupervisorProofs --------------------------
(***************************************************************************)
(* Invariance proofs for Supervisor, for any number of files, devices,     *)
(* contents, sessions and environment events.                              *)
(***************************************************************************)
EXTENDS Supervisor, TLAPS, FiniteSetTheorems, WellFoundedInduction

(* What the helpers of the model keep and change in a state record.        *)

\* The initial counter values are in range for all timeouts and caps.
LEMMA RangeFacts ==
  /\ 0 \in FailureCounts
  /\ -1 \in SickTimes
  /\ 0 \in SickTimes
  /\ 0 \in Uptimes
  /\ None \in Launches
  BY ConstantsAssumption
     DEF ConstantsAssumption, FailureCounts, SickTimes, Uptimes, Launches

\* transitionPhase touches the phase only, whether or not it is allowed.
LEMMA TransitionFacts ==
  ASSUME NEW s \in State, NEW p \in Phases
  PROVE  /\ Transition(s, p) \in State
         /\ Transition(s, p).sig = s.sig
         /\ Transition(s, p).dev = s.dev
         /\ Transition(s, p).proc = s.proc
         /\ Transition(s, p).from = s.from
  BY DEF Transition, State

\* Dropping a child leaves content and device of the state in place.
LEMMA DroppedFacts ==
  ASSUME NEW s \in State
  PROVE  /\ Dropped(s) \in State
         /\ Dropped(s).sig = s.sig
         /\ Dropped(s).dev = s.dev
         /\ Dropped(s).proc = "none"
  BY RangeFacts DEF Dropped, State

\* scheduleRetry changes neither content, device nor child.
LEMMA ScheduleRetryFacts ==
  ASSUME NEW s \in State
  PROVE  /\ ScheduleRetry(s) \in State
         /\ ScheduleRetry(s).sig = s.sig
         /\ ScheduleRetry(s).dev = s.dev
         /\ ScheduleRetry(s).proc = s.proc
         /\ ScheduleRetry(s).from = s.from
<1> DEFINE f == IF s.fails < RetryCap THEN s.fails + 1 ELSE RetryCap
           t == [s EXCEPT !.fails = f, !.wait = RetryDelay[f]]
<1>1. s.fails \in 0 .. RetryCap
  BY DEF State, FailureCounts
<1>2. f \in 1 .. RetryCap
  BY <1>1, ConstantsAssumption DEF ConstantsAssumption
<1>3. RetryDelay[f] \in Nat
  BY <1>2, ConstantsAssumption DEF ConstantsAssumption
<1>4. f \in FailureCounts
  BY <1>2, ConstantsAssumption DEF ConstantsAssumption, FailureCounts
<1> HIDE DEF f
<1>5. t \in State /\ t.sig = s.sig /\ t.dev = s.dev /\ t.proc = s.proc /\ t.from = s.from
  BY <1>3, <1>4 DEF State
<1>6. ScheduleRetry(s) = Transition(t, "failed")
  BY DEF ScheduleRetry, f
<1> QED
  BY <1>5, <1>6, TransitionFacts, ZenonT(60) DEF Phases

\* Whatever way stopProcess ends, the child is gone and the rest stays.
LEMMA StopFacts ==
  ASSUME NEW s \in State, NEW t \in StopResults(s)
  PROVE  /\ t \in State
         /\ t.sig = s.sig
         /\ t.dev = s.dev
         /\ t.proc = "none"
<1>1. t = Dropped(s) \/ t = Transition(Dropped(s), "stopped")
  BY DEF StopResults
<1>2. "stopped" \in Phases
  BY DEF Phases
<1> QED
  BY <1>1, <1>2, DroppedFacts, TransitionFacts

\* A reset records exactly the inspected device and content.
LEMMA ResetFacts ==
  ASSUME NEW s \in State, NEW i \in Idents, NEW x \in Contents
  PROVE  /\ Reset(s, i, x) \in State
         /\ Reset(s, i, x).sig = x
         /\ Reset(s, i, x).dev = i
         /\ Reset(s, i, x).proc = s.proc
  BY RangeFacts DEF Reset, State

\* Health checks and the clock leave content, device and child alone.
LEMMA HealthCheckedFacts ==
  ASSUME NEW s \in State
  PROVE  /\ HealthChecked(s) \in State
         /\ HealthChecked(s).sig = s.sig
         /\ HealthChecked(s).dev = s.dev
         /\ HealthChecked(s).proc = s.proc
         /\ HealthChecked(s).from = s.from
  BY RangeFacts DEF HealthChecked, State

\* A tick changes counters only, and keeps them within their caps.
LEMMA AgedFacts ==
  ASSUME NEW s \in State
  PROVE  /\ Aged(s) \in State
         /\ Aged(s).sig = s.sig
         /\ Aged(s).dev = s.dev
         /\ Aged(s).proc = s.proc
         /\ Aged(s).from = s.from
<1> DEFINE w == IF s.wait > 0 THEN s.wait - 1 ELSE 0
           k == IF s.sick \in 0 .. (WatchdogTimeout - 1) THEN s.sick + 1 ELSE s.sick
           u == IF HasProcess(s) /\ s.up < StableUptime THEN s.up + 1 ELSE s.up
<1>1. s.wait \in Nat /\ s.sick \in SickTimes /\ s.up \in Uptimes
  BY DEF State
<1>2. w \in Nat
  BY <1>1
<1>3. k \in SickTimes
  BY <1>1, ConstantsAssumption DEF ConstantsAssumption, SickTimes
<1>4. u \in Uptimes
  BY <1>1, ConstantsAssumption DEF ConstantsAssumption, Uptimes
<1>5. Aged(s) = [s EXCEPT !.wait = w, !.sick = k, !.up = u]
  BY DEF Aged
<1> HIDE DEF w, k, u
<1> QED
  BY <1>2, <1>3, <1>4, <1>5 DEF State

\* A configuration without a state entry has no child.
LEMMA NoStateFacts ==
  /\ NoState \in State
  /\ NoState.proc = "none"
  /\ Fresh \in State
  /\ Fresh.proc = "none"
  BY RangeFacts DEF NoState, Fresh, State, Phases

-----------------------------------------------------------------------------
(* The initial states satisfy the invariant.                               *)

\* A newly started manager satisfies the invariant.
LEMMA InitIInv == Init => IInv
<1> SUFFICES ASSUME Init PROVE IInv
  OBVIOUS
<1>1. TypeOK
  BY NoStateFacts DEF Init, TypeOK, At, Configs
<1>2. PassInv
  BY DEF Init, PassInv, Working, At, HasProcess, NoState
<1>3. ClaimInv /\ RunsValidated /\ SessionExclusive
  BY NoStateFacts DEF Init, ClaimInv, RunsValidated, SessionExclusive, HasProcess
<1>4. SnapshotAccounting
  BY NoStateFacts DEF Init, SnapshotAccounting, SnapshotsOf, HasProcess, At
<1> QED
  BY <1>1, <1>2, <1>3, <1>4 DEF IInv

-----------------------------------------------------------------------------
(* Inspections that settle a file at once: its state becomes t, a child    *)
(* survives only unchanged, and then as claimant of its device or as kept. *)

\* An inspection that settles a file at once keeps the invariant.
LEMMA SettleInv ==
  ASSUME IInv, NEW c \in Configs, NEW t \in State,
         pass.at = "inspect", c \in todo,
         pass' = At("inspect"), todo' = todo \ {c},
         states' = [states EXCEPT ![c] = t],
         snaps' = [snaps EXCEPT ![c] = @ - SnapshotsOf(states[c]) + SnapshotsOf(t)],
         HasProcess(t) => /\ HasProcess(states[c])
                          /\ t.sig = states[c].sig
                          /\ t.dev = states[c].dev
                          /\ t.from = states[c].from
                          /\ claims'[t.dev] = c \/ c \in kept',
         claims' \in [Idents -> Configs \cup {0}],
         \A i \in Idents : claims[i] # 0 => claims'[i] = claims[i],
         kept \subseteq kept', kept' \subseteq Configs,
         duplicates' \in [Configs -> Idents \cup {None}],
         file' \in [Configs -> Contents \cup {None}], events' \in Nat,
         UNCHANGED <<exposed, dirExposed, node, hostOK, sessions, listed>>
  PROVE  IInv'
<1> USE DEF IInv, HasProcess
<1>1. TypeOK'
  <2>1. snaps' \in [Configs -> Nat]
    BY DEF TypeOK, SnapshotAccounting, PassInv, Working, SnapshotsOf
  <2> QED
    BY <2>1 DEF TypeOK, At
<1>2. PassInv'
  BY DEF PassInv, Working, At
<1>3. ClaimInv'
  <2> SUFFICES ASSUME NEW d \in Configs, (HasProcess(states[d]))', d \notin kept',
                      d \notin todo', d # pass.cfg'
               PROVE  (claims[states[d].dev] = d)' \/ (pass.at # "idle" /\ d \notin listed)'
    BY DEF ClaimInv
  <2>1. CASE d = c
    BY <2>1 DEF TypeOK
  <2>2. CASE d # c
    <3>1. states'[d] = states[d] /\ d \notin todo /\ d \notin kept
      BY <2>2 DEF TypeOK
    <3>2. d # pass.cfg
      BY DEF PassInv, Working, Configs
    <3>3. states[d].dev \in Idents
      BY <3>1 DEF RunsValidated, TypeOK, State
    <3>4. claims[states[d].dev] = d \/ d \notin listed
      BY <3>1, <3>2 DEF ClaimInv
    <3> QED
      BY <3>1, <3>3, <3>4 DEF At, Configs
  <2> QED
    BY <2>1, <2>2
<1>4. SnapshotAccounting'
  BY DEF SnapshotAccounting, SnapshotsOf, PassInv, Working, At, TypeOK
<1>5. RunsValidated'
  BY DEF RunsValidated, TypeOK
<1>6. SessionExclusive'
  BY DEF SessionExclusive, TypeOK
<1> QED
  BY <1>1, <1>2, <1>3, <1>4, <1>5, <1>6

\* A state without a child has no snapshot, one with a child has one.
LEMMA SnapshotFacts ==
  ASSUME NEW s, NEW n \in Nat
  PROVE  /\ s.proc = "none" => SnapshotsOf(s) = 0 /\ n + SnapshotsOf(s) = n
         /\ s.proc # "none" => SnapshotsOf(s) = 1
         /\ n - SnapshotsOf(s) \in Int
         /\ n - SnapshotsOf(s) + SnapshotsOf(s) = n
         /\ n - SnapshotsOf(s) + 0 = n - SnapshotsOf(s)
  BY DEF SnapshotsOf, HasProcess

\* Stopping and deleting a single configuration.
LEMMA StopAndDeleteOne ==
  ASSUME TypeOK, NEW c \in Configs, StopAndDelete({c})
  PROVE  /\ states' = [states EXCEPT ![c] = NoState]
         /\ snaps' = [snaps EXCEPT ![c] = @ - SnapshotsOf(states[c]) + SnapshotsOf(NoState)]
<1>1. states' = [states EXCEPT ![c] = NoState]
  BY DEF StopAndDelete, TypeOK
<1>2. snaps' = [snaps EXCEPT ![c] = @ - SnapshotsOf(states[c])]
  BY DEF StopAndDelete, TypeOK
<1>3. snaps[c] - SnapshotsOf(states[c])
        = snaps[c] - SnapshotsOf(states[c]) + SnapshotsOf(NoState)
  <2>1. snaps[c] \in Nat
    BY DEF TypeOK
  <2> QED
    BY <2>1, SnapshotFacts, NoStateFacts
<1> QED
  BY <1>1, <1>2, <1>3

\* Claiming takes a free device only.
LEMMA ClaimsFacts ==
  ASSUME TypeOK, NEW c \in Configs, Claims(c)
  PROVE  /\ pass.at = "inspect" /\ c \in todo /\ todo' = todo \ {c}
         /\ file[c] \in Contents
         /\ Ident(c) \in Idents
         /\ ~InSession(Ident(c))
         /\ claims' \in [Idents -> Configs \cup {0}]
         /\ \A i \in Idents : claims[i] # 0 => claims'[i] = claims[i]
         /\ claims'[Ident(c)] = c
         /\ duplicates' \in [Configs -> Idents \cup {None}]
         /\ UNCHANGED <<file, exposed, dirExposed, node, hostOK, events, sessions, listed>>
<1>1. file[c] \in Contents /\ Ident(c) \in Idents
  BY ConstantsAssumption
     DEF ConstantsAssumption, TypeOK, Claims, Inspected, Usable, Ident
<1> QED
  BY <1>1 DEF TypeOK, Claims, Inspected, Current, env

\* Every inspection that ends in the same step keeps the invariant.
LEMMA InspectionInv ==
  ASSUME IInv, NEW c \in Configs,
         \/ Refuse(c)
         \/ \E x \in Contents : ReadRaces(c, x)
         \/ SkipForSession(c)
         \/ SkipDuplicate(c)
         \/ HoldUpdate(c)
         \/ WatchdogStops(c)
         \/ ReapExited(c)
         \/ KeepRunning(c)
         \/ WaitForRetry(c)
  PROVE  IInv'
<1> USE DEF HasProcess
<1>0. TypeOK /\ states[c] \in State /\ snaps[c] \in Nat
  BY DEF IInv, TypeOK
<1>1. CASE Refuse(c)
  <2>1. /\ states' = [states EXCEPT ![c] = NoState]
        /\ snaps' = [snaps EXCEPT ![c] = @ - SnapshotsOf(states[c]) + SnapshotsOf(NoState)]
    BY <1>0, <1>1, StopAndDeleteOne DEF Refuse
  <2>2. /\ pass.at = "inspect" /\ c \in todo /\ pass' = At("inspect") /\ todo' = todo \ {c}
        /\ UNCHANGED <<file, exposed, dirExposed, node, hostOK, events, duplicates,
                       sessions, listed, claims, kept>>
    BY <1>1 DEF Refuse, Current, NextFile, env
  <2> QED
    BY <1>0, <2>1, <2>2, NoStateFacts, SettleInv DEF TypeOK
<1>2. CASE \E x \in Contents : ReadRaces(c, x)
  <2>1. PICK x \in Contents : ReadRaces(c, x)
    BY <1>2
  <2>2. /\ states' = [states EXCEPT ![c] = states[c]]
        /\ snaps' = [snaps EXCEPT ![c] = @ - SnapshotsOf(states[c]) + SnapshotsOf(states[c])]
        /\ kept' = IF HasProcess(states[c]) THEN kept \cup {c} ELSE kept
        /\ file' \in [Configs -> Contents \cup {None}]
        /\ events' \in Nat
    BY <1>0, <2>1, SnapshotFacts DEF ReadRaces, TypeOK
  <2>3. /\ pass.at = "inspect" /\ c \in todo /\ pass' = At("inspect") /\ todo' = todo \ {c}
        /\ UNCHANGED <<exposed, dirExposed, node, hostOK, duplicates, sessions, listed, claims>>
    BY <2>1 DEF ReadRaces, Current, NextFile
  <2> QED
    BY <1>0, <2>2, <2>3, SettleInv DEF TypeOK
<1>3. CASE SkipForSession(c)
  <2> DEFINE t == Transition(Dropped(states[c]), "stopped")
  <2>1. t \in State /\ t.proc = "none"
    BY <1>0, DroppedFacts, TransitionFacts DEF Phases
  <2>2. /\ states' = [states EXCEPT ![c] = t]
        /\ snaps' = [snaps EXCEPT ![c] = @ - SnapshotsOf(states[c]) + SnapshotsOf(t)]
    BY <1>0, <1>3, <2>1, SnapshotFacts, ZenonT(60) DEF SkipForSession, TypeOK
  <2>3. /\ pass.at = "inspect" /\ c \in todo /\ pass' = At("inspect") /\ todo' = todo \ {c}
        /\ UNCHANGED <<file, exposed, dirExposed, node, hostOK, events, duplicates,
                       sessions, listed, claims, kept>>
    BY <1>3 DEF SkipForSession, Inspected, Current, NextFile, env
  <2> HIDE DEF t
  <2> QED
    BY <1>0, <2>1, <2>2, <2>3, SettleInv DEF TypeOK
<1>4. CASE SkipDuplicate(c)
  <2>1. /\ states' = [states EXCEPT ![c] = NoState]
        /\ snaps' = [snaps EXCEPT ![c] = @ - SnapshotsOf(states[c]) + SnapshotsOf(NoState)]
    BY <1>0, <1>4, StopAndDeleteOne DEF SkipDuplicate
  <2>2. /\ pass.at = "inspect" /\ c \in todo /\ pass' = At("inspect") /\ todo' = todo \ {c}
        /\ UNCHANGED <<file, exposed, dirExposed, node, hostOK, events,
                       sessions, listed, claims, kept>>
    BY <1>4 DEF SkipDuplicate, Inspected, Current, NextFile, env
  <2>3. duplicates' \in [Configs -> Idents \cup {None}]
    <3>1. Ident(c) \in Idents
      BY <1>0, <1>4, ConstantsAssumption
         DEF ConstantsAssumption, SkipDuplicate, Inspected, Usable, Ident, TypeOK
    <3> QED
      BY <1>0, <1>4, <3>1 DEF SkipDuplicate, TypeOK
  <2> QED
    BY <1>0, <2>1, <2>2, <2>3, NoStateFacts, SettleInv DEF TypeOK
<1>5. CASE HoldUpdate(c)
  <2>1. /\ states' = [states EXCEPT ![c] = states[c]]
        /\ snaps' = [snaps EXCEPT ![c] = @ - SnapshotsOf(states[c]) + SnapshotsOf(states[c])]
        /\ kept' = kept \cup {c}
        /\ pass' = At("inspect")
        /\ Claims(c)
    BY <1>0, <1>5, SnapshotFacts DEF HoldUpdate, TypeOK
  <2> QED
    BY <1>0, <2>1, ClaimsFacts, SettleInv DEF TypeOK
<1>6. CASE WatchdogStops(c)
  <2>1. PICK s \in StopResults(states[c]) :
          states' = [states EXCEPT ![c] = ScheduleRetry(s)]
    BY <1>6 DEF WatchdogStops
  <2>2. ScheduleRetry(s) \in State /\ ScheduleRetry(s).proc = "none"
    BY <1>0, <2>1, StopFacts, ScheduleRetryFacts
  <2>3. /\ snaps' = [snaps EXCEPT ![c] = @ - SnapshotsOf(states[c])
                                           + SnapshotsOf(ScheduleRetry(s))]
        /\ pass' = At("inspect")
        /\ kept' = kept
        /\ Claims(c)
    <3>1. snaps[c] - 1 = snaps[c] - SnapshotsOf(states[c]) + SnapshotsOf(ScheduleRetry(s))
      BY <1>0, <1>6, <2>2, SnapshotFacts DEF WatchdogStops
    <3> QED
      BY <1>6, <3>1 DEF WatchdogStops
  <2> QED
    BY <1>0, <2>1, <2>2, <2>3, ClaimsFacts, SettleInv DEF TypeOK
<1>7. CASE ReapExited(c)
  <2> DEFINE t == Transition(ScheduleRetry(Dropped(states[c])), "waiting")
  <2>1. t \in State /\ t.proc = "none"
    BY <1>0, DroppedFacts, ScheduleRetryFacts, TransitionFacts DEF Phases
  <2>2. /\ states' = [states EXCEPT ![c] = t]
        /\ snaps' = [snaps EXCEPT ![c] = @ - SnapshotsOf(states[c]) + SnapshotsOf(t)]
        /\ pass' = At("inspect")
        /\ kept' = kept
        /\ Claims(c)
    BY <1>0, <1>7, <2>1, SnapshotFacts, ZenonT(60) DEF ReapExited, TypeOK
  <2> HIDE DEF t
  <2> QED
    BY <1>0, <2>1, <2>2, ClaimsFacts, SettleInv DEF TypeOK
<1>8. CASE KeepRunning(c)
  <2> DEFINE t == HealthChecked(states[c])
  <2>1. /\ t \in State /\ t.sig = states[c].sig /\ t.dev = states[c].dev
        /\ t.proc = states[c].proc /\ t.from = states[c].from
    BY <1>0, HealthCheckedFacts
  <2>2. /\ states' = [states EXCEPT ![c] = t]
        /\ snaps' = [snaps EXCEPT ![c] = @ - SnapshotsOf(states[c]) + SnapshotsOf(t)]
        /\ pass' = At("inspect")
        /\ kept' = kept
        /\ Claims(c)
        /\ states[c].dev = Ident(c)
    BY <1>0, <1>8, <2>1, SnapshotFacts DEF KeepRunning, Changed, TypeOK
  <2> HIDE DEF t
  <2>3. claims'[t.dev] = c
    BY <1>0, <2>1, <2>2, ClaimsFacts
  <2>4. HasProcess(t) => HasProcess(states[c])
    BY <2>1
  <2>5. kept \subseteq kept' /\ kept' \subseteq Configs
    BY <1>0, <2>2 DEF TypeOK
  <2>6. file' \in [Configs -> Contents \cup {None}] /\ events' \in Nat
    BY <1>0, <2>2, ClaimsFacts DEF TypeOK
  <2> QED
    BY <1>0, <2>1, <2>2, <2>3, <2>4, <2>5, <2>6, ClaimsFacts, SettleInv
<1>9. CASE WaitForRetry(c)
  <2> DEFINE t == Transition(states[c], "waiting")
  <2>1. t \in State /\ t.proc = states[c].proc
    BY <1>0, TransitionFacts DEF Phases
  <2>2. /\ states' = [states EXCEPT ![c] = t]
        /\ snaps' = [snaps EXCEPT ![c] = @ - SnapshotsOf(states[c]) + SnapshotsOf(t)]
        /\ pass' = At("inspect")
        /\ kept' = kept
        /\ Claims(c)
        /\ t.proc = "none"
    BY <1>0, <1>9, <2>1, SnapshotFacts DEF WaitForRetry, TypeOK
  <2> HIDE DEF t
  <2> QED
    BY <1>0, <2>1, <2>2, ClaimsFacts, SettleInv DEF TypeOK
<1> QED
  BY <1>1, <1>2, <1>3, <1>4, <1>5, <1>6, <1>7, <1>8, <1>9

-----------------------------------------------------------------------------
(* Inspections that go on to validate the file: it claimed its device, and *)
(* either its old child stays in place (update) or it has none (start).    *)

\* The file of a claim becomes the one in the owner's hands.
LEMMA HandOverInv ==
  ASSUME IInv, NEW c \in Configs, NEW t \in State, NEW why \in {"update", "start"},
         Claims(c),
         pass' = Validating(c, file[c], Ident(c), why),
         states' = [states EXCEPT ![c] = t],
         t.proc = states[c].proc,
         HasProcess(t) => /\ t.sig = states[c].sig /\ t.dev = states[c].dev
                          /\ t.from = states[c].from,
         why = "start" => ~HasProcess(t) /\ t.sig = file[c] /\ t.dev = Ident(c),
         snaps' = snaps, kept' = kept
  PROVE  IInv'
<1> USE DEF IInv, HasProcess
<1>0. /\ TypeOK
      /\ pass.at = "inspect" /\ c \in todo /\ todo' = todo \ {c}
      /\ file[c] \in Contents /\ Ident(c) \in Idents /\ ~InSession(Ident(c))
      /\ claims' \in [Idents -> Configs \cup {0}]
      /\ \A i \in Idents : claims[i] # 0 => claims'[i] = claims[i]
      /\ claims'[Ident(c)] = c
      /\ duplicates' \in [Configs -> Idents \cup {None}]
      /\ UNCHANGED <<file, exposed, dirExposed, node, hostOK, events, sessions, listed>>
  BY ClaimsFacts
<1>1. /\ pass'.at = "snapshot" /\ pass'.cfg = c /\ pass'.sig = file[c]
      /\ pass'.dev = Ident(c) /\ pass'.why = why
  BY DEF Validating
<1>2. TypeOK'
  BY <1>0 DEF TypeOK, Validating
<1>3. PassInv'
  BY <1>0, <1>1 DEF PassInv, Working, TypeOK, InSession
<1>4. ClaimInv'
  <2> SUFFICES ASSUME NEW d \in Configs, (HasProcess(states[d]))', d \notin kept',
                      d \notin todo', d # pass.cfg'
               PROVE  (claims[states[d].dev] = d)' \/ (pass.at # "idle" /\ d \notin listed)'
    BY DEF ClaimInv
  <2>1. states'[d] = states[d] /\ d \notin todo /\ d \notin kept
    BY <1>0, <1>1 DEF TypeOK
  <2>2. d # pass.cfg
    BY <1>0 DEF PassInv, Working, Configs
  <2>3. states[d].dev \in Idents
    BY <2>1 DEF RunsValidated, TypeOK, State
  <2>4. claims[states[d].dev] = d \/ d \notin listed
    BY <1>0, <2>1, <2>2 DEF ClaimInv
  <2> QED
    BY <1>0, <1>1, <2>1, <2>3, <2>4 DEF Configs
<1>5. SnapshotAccounting'
  BY <1>0, <1>1 DEF SnapshotAccounting, SnapshotsOf, PassInv, Working, TypeOK
<1>6. RunsValidated'
  BY <1>0 DEF RunsValidated, TypeOK
<1>7. SessionExclusive'
  BY <1>0 DEF SessionExclusive, TypeOK
<1> QED
  BY <1>2, <1>3, <1>4, <1>5, <1>6, <1>7

\* Claiming a device and entering validation keeps the invariant.
LEMMA BeginValidationInv ==
  ASSUME IInv, NEW c \in Configs,
         ValidateUpdate(c) \/ StartChanged(c) \/ StartAgain(c)
  PROVE  IInv'
<1> USE DEF HasProcess
<1>0. TypeOK /\ states[c] \in State
  BY DEF IInv, TypeOK
<1>1. CASE ValidateUpdate(c)
  <2>1. states' = [states EXCEPT ![c] = states[c]]
    BY <1>0, <1>1 DEF ValidateUpdate, TypeOK
  <2> QED
    BY <1>0, <1>1, <2>1, HandOverInv DEF ValidateUpdate
<1>2. CASE StartChanged(c)
  <2> DEFINE r == Reset(Transition(StateOf(c), "stopped"), Ident(c), file[c])
             t == Transition(r, "validating")
  <2>1. file[c] \in Contents /\ Ident(c) \in Idents
    BY <1>0, <1>2, ClaimsFacts DEF StartChanged
  <2>2. StateOf(c) \in State /\ StateOf(c).proc = "none"
    BY <1>0, <1>2, NoStateFacts DEF StateOf, StartChanged
  <2>3. /\ Transition(StateOf(c), "stopped") \in State
        /\ Transition(StateOf(c), "stopped").proc = "none"
    BY <2>2, TransitionFacts DEF Phases
  <2>4. r \in State /\ r.sig = file[c] /\ r.dev = Ident(c) /\ r.proc = "none"
    BY <2>1, <2>3, ResetFacts
  <2> HIDE DEF r
  <2>5. t \in State /\ t.sig = file[c] /\ t.dev = Ident(c) /\ t.proc = "none"
    BY <2>4, TransitionFacts DEF Phases
  <2>6. states' = [states EXCEPT ![c] = t]
    BY <1>2 DEF StartChanged, r
  <2> HIDE DEF t
  <2> QED
    BY <1>2, <2>5, <2>6, HandOverInv DEF StartChanged
<1>3. CASE StartAgain(c)
  <2> DEFINE t == Transition(states[c], "validating")
  <2>1. /\ t \in State /\ t.sig = states[c].sig /\ t.dev = states[c].dev
        /\ t.proc = states[c].proc /\ t.from = states[c].from
    BY <1>0, TransitionFacts DEF Phases
  <2>2. states[c].sig = file[c] /\ states[c].dev = Ident(c)
    BY <1>3 DEF StartAgain, Changed
  <2>3. states' = [states EXCEPT ![c] = t]
    BY <1>3 DEF StartAgain
  <2> HIDE DEF t
  <2> QED
    BY <1>3, <2>1, <2>2, <2>3, HandOverInv DEF StartAgain
<1> QED
  BY <1>1, <1>2, <1>3

-----------------------------------------------------------------------------
(* The end of a validation or launch: the owner returns to inspecting.     *)
(* held says whether the validation had its snapshot file.                 *)

\* Returning from a validation or launch keeps the invariant.
LEMMA ReturnInv ==
  ASSUME IInv, NEW c \in Configs, NEW t \in State,
         Working, pass.cfg = c, pass' = At("inspect"),
         states' = [states EXCEPT ![c] = t],
         snaps' \in [Configs -> Nat],
         \A d \in Configs \ {c} : snaps'[d] = snaps[d],
         snaps'[c] = SnapshotsOf(t),
         HasProcess(t) => /\ t.sig \in Good
                          /\ t.from = <<t.sig, t.dev>>
                          /\ t.dev # None
                          /\ \A k \in SessionKinds : sessions[k] # t.dev
                          /\ claims[t.dev] = c \/ c \in kept',
         kept \subseteq kept', kept' \subseteq Configs,
         UNCHANGED <<file, exposed, dirExposed, node, hostOK, events, duplicates,
                     sessions, listed, todo, claims>>
  PROVE  IInv'
<1> USE DEF IInv, HasProcess
<1>1. TypeOK'
  BY DEF TypeOK, At
<1>2. PassInv'
  BY DEF PassInv, Working, At
<1>3. ClaimInv'
  <2> SUFFICES ASSUME NEW d \in Configs, (HasProcess(states[d]))', d \notin kept',
                      d \notin todo', d # pass.cfg'
               PROVE  (claims[states[d].dev] = d)' \/ (pass.at # "idle" /\ d \notin listed)'
    BY DEF ClaimInv
  <2>1. CASE d = c
    BY <2>1 DEF TypeOK
  <2>2. CASE d # c
    BY <2>2 DEF TypeOK, ClaimInv, At, Working
  <2> QED
    BY <2>1, <2>2
<1>4. SnapshotAccounting'
  <2> SUFFICES ASSUME NEW d \in Configs
               PROVE  snaps'[d] = SnapshotsOf(states'[d])
    BY DEF SnapshotAccounting, At, SnapshotsOf
  <2>1. CASE d = c
    BY <2>1 DEF TypeOK
  <2>2. CASE d # c
    <3>1. snaps[d] = SnapshotsOf(states[d])
      BY <2>2 DEF SnapshotAccounting, SnapshotsOf
    <3> QED
      BY <2>2, <3>1 DEF TypeOK
  <2> QED
    BY <2>1, <2>2
<1>5. RunsValidated'
  BY DEF RunsValidated, TypeOK
<1>6. SessionExclusive'
  BY DEF SessionExclusive, TypeOK
<1> QED
  BY <1>1, <1>2, <1>3, <1>4, <1>5, <1>6

\* What is known of a file under validation.
LEMMA WorkingFacts ==
  ASSUME IInv, NEW c \in Configs, Working, pass.cfg = c
  PROVE  /\ states[c] \in State /\ snaps[c] \in Nat
         /\ pass.sig \in Contents /\ pass.dev \in Idents
         /\ pass.why \in {"update", "start"}
         /\ pass.why = "start" => states[c].proc = "none"
         /\ pass.at = "launch" =>
              /\ states[c].proc = "none" /\ states[c].sig = pass.sig
              /\ states[c].dev = pass.dev /\ pass.sig \in Good
              /\ pass.copy = pass.sig
         /\ pass.at = "snapshot" => snaps[c] = SnapshotsOf(states[c])
         /\ pass.at # "snapshot" => snaps[c] = SnapshotsOf(states[c]) + 1
         /\ claims[pass.dev] = c
         /\ \A k \in SessionKinds : sessions[k] # pass.dev
<1>1. states[c] \in State /\ snaps[c] \in Nat
  BY DEF IInv, TypeOK
<1>2. SnapshotsOf(states[c]) \in Nat
  BY DEF SnapshotsOf
<1> QED
  BY <1>1, <1>2 DEF IInv, PassInv, Working, HasProcess, InSession, TypeOK, SnapshotAccounting

\* A failed validation keeps the child an update found, with its content.
LEMMA ValidationFailsFacts ==
  ASSUME IInv, NEW c \in Configs, NEW why, Working, pass.cfg = c, pass.at # "launch",
         ValidationFails(c, why)
  PROVE  \E t \in State :
           /\ states' = [states EXCEPT ![c] = t]
           /\ t.sig = states[c].sig /\ t.dev = states[c].dev /\ t.proc = states[c].proc
           /\ t.from = states[c].from
           /\ HasProcess(t) => c \in kept'
<1> DEFINE a == states[c]
           b == ScheduleRetry([a EXCEPT !.pend = pass.sig])
           e == ScheduleRetry(Transition(a, "failed"))
           g == Transition([a EXCEPT !.wait = 1], "waiting")
           t == CASE pass.why = "update" /\ why = "changed" -> a
                  [] pass.why = "update" /\ why # "changed" -> b
                  [] pass.why = "start" /\ why = "rejected" -> e
                  [] OTHER -> g
<1>1. a \in State /\ pass.sig \in Contents /\ pass.why \in {"update", "start"}
  BY WorkingFacts
<1>2. b \in State /\ b.sig = a.sig /\ b.dev = a.dev /\ b.proc = a.proc /\ b.from = a.from
  <2>1. /\ [a EXCEPT !.pend = pass.sig] \in State
        /\ [a EXCEPT !.pend = pass.sig].sig = a.sig
        /\ [a EXCEPT !.pend = pass.sig].dev = a.dev
        /\ [a EXCEPT !.pend = pass.sig].proc = a.proc
        /\ [a EXCEPT !.pend = pass.sig].from = a.from
    BY <1>1 DEF State
  <2> QED
    BY <2>1, ScheduleRetryFacts
<1>3. e \in State /\ e.sig = a.sig /\ e.dev = a.dev /\ e.proc = a.proc /\ e.from = a.from
  BY <1>1, TransitionFacts, ScheduleRetryFacts DEF Phases
<1>4. g \in State /\ g.sig = a.sig /\ g.dev = a.dev /\ g.proc = a.proc /\ g.from = a.from
  <2>1. /\ [a EXCEPT !.wait = 1] \in State
        /\ [a EXCEPT !.wait = 1].sig = a.sig
        /\ [a EXCEPT !.wait = 1].dev = a.dev
        /\ [a EXCEPT !.wait = 1].proc = a.proc
        /\ [a EXCEPT !.wait = 1].from = a.from
    BY <1>1 DEF State
  <2> QED
    BY <2>1, TransitionFacts DEF Phases
<1>5. states' = [states EXCEPT ![c] = t]
  BY DEF ValidationFails
<1> HIDE DEF a, b, e, g
<1>6. t \in State /\ t.sig = a.sig /\ t.dev = a.dev /\ t.proc = a.proc /\ t.from = a.from
  BY <1>1, <1>2, <1>3, <1>4
<1>7. HasProcess(a) => c \in kept'
  <2>1. pass.why = "start" => ~HasProcess(a)
    BY WorkingFacts DEF HasProcess, a
  <2> QED
    BY <1>1, <2>1 DEF ValidationFails
<1> HIDE DEF t
<1> QED
  BY <1>5, <1>6, <1>7 DEF a, HasProcess

\* Snapshot and dry-run, passed or failed, keep the invariant.
LEMMA ValidationInv ==
  ASSUME IInv, NEW c \in Configs,
         \/ SnapshotFails(c)
         \/ TakeSnapshot(c)
         \/ DryRunFails(c)
         \/ DryRunPasses(c)
  PROVE  IInv'
<1> USE DEF HasProcess
<1>0. Working /\ pass.cfg = c /\ pass.at # "launch" /\ TypeOK
  BY DEF SnapshotFails, TakeSnapshot, DryRunFails, DryRunPasses, Working, IInv
<1>w. /\ states[c] \in State /\ snaps[c] \in Nat
      /\ pass.sig \in Contents /\ pass.dev \in Idents
      /\ pass.why \in {"update", "start"}
      /\ pass.at = "snapshot" => snaps[c] = SnapshotsOf(states[c])
      /\ pass.at # "snapshot" => snaps[c] = SnapshotsOf(states[c]) + 1
      /\ claims[pass.dev] = c
      /\ \A k \in SessionKinds : sessions[k] # pass.dev
  BY <1>0, WorkingFacts
<1>s. SnapshotsOf(states[c]) \in Nat
  BY DEF SnapshotsOf
<1>1. CASE SnapshotFails(c) \/ DryRunFails(c)
  <2>1. PICK why : ValidationFails(c, why)
    BY <1>1 DEF SnapshotFails, DryRunFails
  <2>2. PICK t \in State :
           /\ states' = [states EXCEPT ![c] = t]
           /\ t.sig = states[c].sig /\ t.dev = states[c].dev /\ t.proc = states[c].proc
           /\ t.from = states[c].from
           /\ HasProcess(t) => c \in kept'
    BY <1>0, <2>1, ValidationFailsFacts
  <2>3. SnapshotsOf(t) = SnapshotsOf(states[c])
    BY <2>2 DEF SnapshotsOf
  <2>4. /\ snaps' \in [Configs -> Nat]
        /\ \A d \in Configs \ {c} : snaps'[d] = snaps[d]
        /\ snaps'[c] = SnapshotsOf(t)
    BY <1>0, <1>1, <1>w, <1>s, <2>3 DEF SnapshotFails, DryRunFails, TypeOK
  <2>5. /\ pass' = At("inspect") /\ kept \subseteq kept' /\ kept' \subseteq Configs
        /\ UNCHANGED <<file, exposed, dirExposed, node, hostOK, events, duplicates,
                       sessions, listed, todo, claims>>
    BY <1>0, <1>1, <2>1 DEF SnapshotFails, DryRunFails, ValidationFails, env, TypeOK
  <2>6. HasProcess(t) => /\ t.sig \in Good /\ t.dev # None
                         /\ t.from = <<t.sig, t.dev>>
                         /\ \A k \in SessionKinds : sessions[k] # t.dev
    BY <2>2 DEF IInv, RunsValidated, SessionExclusive
  <2> QED
    BY <1>0, <2>2, <2>4, <2>5, <2>6, ReturnInv
<1>2. CASE TakeSnapshot(c)
  <2>1. /\ snaps' = [snaps EXCEPT ![c] = @ + 1] /\ pass.at = "snapshot"
        /\ pass' = [pass EXCEPT !.at = "dryrun", !.copy = pass.sig]
        /\ UNCHANGED <<file, exposed, dirExposed, node, hostOK, events, states, duplicates,
                       sessions, listed, todo, claims, kept>>
    BY <1>2 DEF TakeSnapshot, env
  <2>2. /\ pass'.at = "dryrun" /\ pass'.cfg = pass.cfg /\ pass'.sig = pass.sig
        /\ pass'.dev = pass.dev /\ pass'.why = pass.why /\ pass'.copy = pass.sig
    BY <1>0, <2>1 DEF TypeOK
  <2>3. TypeOK'
    <3>1. snaps' \in [Configs -> Nat]
      BY <1>0, <1>w, <2>1 DEF TypeOK
    <3>2. pass.sig \in Contents \cup {None}
      BY <1>w
    <3> QED
      BY <1>0, <2>1, <3>1, <3>2 DEF TypeOK
  <2>4. PassInv'
    BY <2>1, <2>2 DEF IInv, PassInv, Working, InSession
  <2>5. ClaimInv'
    BY <1>0, <2>1, <2>2 DEF IInv, ClaimInv, Working
  <2>6. SnapshotAccounting'
    BY <1>0, <1>w, <1>s, <2>1, <2>2 DEF IInv, SnapshotAccounting, SnapshotsOf, TypeOK
  <2>7. RunsValidated' /\ SessionExclusive'
    BY <2>1 DEF IInv, RunsValidated, SessionExclusive
  <2> QED
    BY <2>3, <2>4, <2>5, <2>6, <2>7 DEF IInv
<1>3. CASE DryRunPasses(c)
  <2>1. PICK t \in State :
          /\ states' = [states EXCEPT ![c] = t]
          /\ t.proc = "none" /\ t.sig = pass.sig /\ t.dev = pass.dev
    <3>1. CASE pass.why = "update"
      <4>1. PICK s \in StopResults(states[c]) :
              states' = [states EXCEPT ![c] =
                           Transition(Reset(s, pass.dev, pass.sig), "validating")]
        BY <1>3, <3>1 DEF DryRunPasses
      <4>2. s \in State /\ s.proc = "none"
        BY <1>w, StopFacts
      <4>3. /\ Reset(s, pass.dev, pass.sig) \in State
            /\ Reset(s, pass.dev, pass.sig).sig = pass.sig
            /\ Reset(s, pass.dev, pass.sig).dev = pass.dev
            /\ Reset(s, pass.dev, pass.sig).proc = "none"
        BY <1>w, <4>2, ResetFacts
      <4> DEFINE r == Reset(s, pass.dev, pass.sig)
                 u == Transition(r, "validating")
      <4>4. r \in State /\ r.sig = pass.sig /\ r.dev = pass.dev /\ r.proc = "none"
        BY <4>3
      <4>5. states' = [states EXCEPT ![c] = u]
        BY <4>1
      <4> HIDE DEF r
      <4>6. u \in State /\ u.sig = pass.sig /\ u.dev = pass.dev /\ u.proc = "none"
        BY <4>4, TransitionFacts DEF Phases
      <4> HIDE DEF u
      <4> QED
        BY <4>5, <4>6
    <3>2. CASE pass.why = "start"
      <4>1. states[c].proc = "none" /\ states[c].sig = pass.sig /\ states[c].dev = pass.dev
        BY <1>0, <3>2 DEF IInv, PassInv
      <4>2. states' = states
        BY <1>3, <3>2 DEF DryRunPasses
      <4>3. states' = [states EXCEPT ![c] = states[c]]
        BY <1>0, <4>2 DEF TypeOK
      <4> QED
        BY <1>w, <4>1, <4>3
    <3> QED
      BY <1>w, <3>1, <3>2
  <2>2. /\ snaps' = [snaps EXCEPT ![c] = @ - SnapshotsOf(states[c])]
        /\ pass' = [pass EXCEPT !.at = "launch"]
        /\ pass.at = "dryrun" /\ pass.copy \in Good /\ pass.copy = pass.sig
        /\ UNCHANGED <<file, exposed, dirExposed, node, hostOK, events, duplicates,
                       sessions, listed, todo, claims, kept>>
    BY <1>3 DEF DryRunPasses, DryRunAccepts, IInv, PassInv, env
  <2>3. /\ pass'.at = "launch" /\ pass'.cfg = pass.cfg /\ pass'.sig = pass.sig
        /\ pass'.dev = pass.dev /\ pass'.why = pass.why /\ pass'.copy = pass.copy
    BY <1>0, <2>2 DEF TypeOK
  <2>4. snaps'[c] = 1 /\ snaps' \in [Configs -> Nat]
    BY <1>0, <1>w, <1>s, <2>2 DEF TypeOK
  <2>5. TypeOK'
    BY <1>0, <2>1, <2>2, <2>4 DEF TypeOK
  <2>6. PassInv'
    BY <1>0, <2>1, <2>2, <2>3 DEF IInv, PassInv, Working, InSession, TypeOK
  <2>7. ClaimInv'
    BY <1>0, <2>1, <2>2, <2>3 DEF IInv, ClaimInv, Working, TypeOK
  <2>8. SnapshotAccounting'
    BY <1>0, <2>1, <2>2, <2>3, <2>4 DEF IInv, SnapshotAccounting, SnapshotsOf, TypeOK
  <2>9. RunsValidated' /\ SessionExclusive'
    BY <1>0, <2>1, <2>2 DEF IInv, RunsValidated, SessionExclusive, TypeOK
  <2> QED
    BY <2>5, <2>6, <2>7, <2>8, <2>9 DEF IInv
<1> QED
  BY <1>1, <1>2, <1>3

\* A launch, aborted, failed or successful, keeps the invariant.
LEMMA LaunchInv ==
  ASSUME IInv, NEW c \in Configs,
         LaunchAborts(c) \/ LaunchFails(c) \/ LaunchSucceeds(c)
  PROVE  IInv'
<1> USE DEF HasProcess
<1>0. Working /\ pass.cfg = c /\ pass.at = "launch" /\ TypeOK
  BY DEF LaunchAborts, LaunchFails, LaunchSucceeds, Working, IInv
<1>1. /\ states[c] \in State /\ snaps[c] = 1
      /\ states[c].proc = "none" /\ states[c].sig = pass.sig /\ states[c].dev = pass.dev
      /\ pass.sig \in Good /\ pass.sig \in Contents /\ pass.copy = pass.sig
      /\ pass.dev \in Idents
      /\ claims[pass.dev] = c /\ \A k \in SessionKinds : sessions[k] # pass.dev
  BY <1>0, WorkingFacts DEF SnapshotsOf
<1>2. /\ pass' = At("inspect") /\ kept' = kept
      /\ UNCHANGED <<file, exposed, dirExposed, node, hostOK, events, duplicates,
                     sessions, listed, todo, claims>>
  BY DEF LaunchAborts, LaunchFails, LaunchSucceeds, env
<1>3. kept \subseteq kept' /\ kept' \subseteq Configs
  BY <1>0, <1>2 DEF TypeOK
<1>4. CASE LaunchAborts(c)
  <2> DEFINE t == Transition([states[c] EXCEPT !.wait = 0], "waiting")
  <2>1. [states[c] EXCEPT !.wait = 0] \in State /\ [states[c] EXCEPT !.wait = 0].proc = "none"
    BY <1>1 DEF State
  <2>2. t \in State /\ t.proc = "none"
    BY <2>1, TransitionFacts DEF Phases
  <2>3. /\ states' = [states EXCEPT ![c] = t] /\ snaps' = [snaps EXCEPT ![c] = @ - 1]
    BY <1>4 DEF LaunchAborts
  <2> HIDE DEF t
  <2>4. /\ snaps' \in [Configs -> Nat] /\ snaps'[c] = SnapshotsOf(t)
        /\ \A d \in Configs \ {c} : snaps'[d] = snaps[d]
    BY <1>0, <1>1, <2>2, <2>3 DEF SnapshotsOf, TypeOK
  <2> QED
    BY <1>0, <1>2, <1>3, <2>2, <2>3, <2>4, ReturnInv
<1>5. CASE LaunchFails(c)
  <2> DEFINE t == ScheduleRetry(states[c])
  <2>1. t \in State /\ t.proc = "none"
    BY <1>1, ScheduleRetryFacts
  <2>2. /\ states' = [states EXCEPT ![c] = t] /\ snaps' = [snaps EXCEPT ![c] = @ - 1]
    BY <1>5 DEF LaunchFails
  <2> HIDE DEF t
  <2>3. /\ snaps' \in [Configs -> Nat] /\ snaps'[c] = SnapshotsOf(t)
        /\ \A d \in Configs \ {c} : snaps'[d] = snaps[d]
    BY <1>0, <1>1, <2>1, <2>2 DEF SnapshotsOf, TypeOK
  <2> QED
    BY <1>0, <1>2, <1>3, <2>1, <2>2, <2>3, ReturnInv
<1>6. CASE LaunchSucceeds(c)
  <2> DEFINE r == [states[c] EXCEPT !.proc = "run", !.from = <<pass.sig, pass.dev>>]
             t == Transition(r, "running")
  <2>1. /\ r \in State /\ r.proc = "run" /\ r.sig = pass.sig /\ r.dev = pass.dev
        /\ r.from = <<pass.sig, pass.dev>>
    <3>1. <<pass.sig, pass.dev>> \in Launches
      BY <1>1 DEF Launches
    <3> QED
      BY <1>1, <3>1 DEF State
  <2> HIDE DEF r
  <2>2. /\ t \in State /\ t.proc = "run" /\ t.sig = pass.sig /\ t.dev = pass.dev
        /\ t.from = <<pass.sig, pass.dev>>
    BY <2>1, TransitionFacts DEF Phases
  <2>3. states' = [states EXCEPT ![c] = t] /\ snaps' = snaps
    BY <1>1, <1>6 DEF LaunchSucceeds, SameDevice, r
  <2> HIDE DEF t
  <2>4. /\ snaps' \in [Configs -> Nat] /\ snaps'[c] = SnapshotsOf(t)
        /\ \A d \in Configs \ {c} : snaps'[d] = snaps[d]
    BY <1>0, <1>1, <2>2, <2>3 DEF SnapshotsOf, TypeOK
  <2>5. t.dev # None
    BY <1>1, <2>2, ConstantsAssumption DEF ConstantsAssumption
  <2> QED
    BY <1>0, <1>1, <1>2, <1>3, <2>2, <2>3, <2>4, <2>5, ReturnInv
<1> QED
  BY <1>4, <1>5, <1>6

-----------------------------------------------------------------------------
(* The boundaries of a pass, and the commands between passes.              *)

\* Deleting the states of S leaves no child and no snapshot of S.
LEMMA StopAndDeleteFacts ==
  ASSUME TypeOK, SnapshotAccounting, NEW S \in SUBSET Configs, pass.cfg = 0,
         StopAndDelete(S)
  PROVE  /\ states' \in [Configs -> State]
         /\ snaps' \in [Configs -> Nat]
         /\ \A c \in S : states'[c] = NoState
         /\ \A c \in Configs \ S : states'[c] = states[c]
         /\ \A c \in Configs : snaps'[c] = SnapshotsOf(states'[c])
<1>1. states' \in [Configs -> State]
  BY NoStateFacts DEF StopAndDelete, TypeOK
<1>2. /\ \A c \in S : states'[c] = NoState
      /\ \A c \in Configs \ S : states'[c] = states[c]
  BY DEF StopAndDelete
<1>3. \A c \in Configs : snaps[c] = SnapshotsOf(states[c]) /\ snaps[c] \in Nat
  BY DEF SnapshotAccounting, SnapshotsOf, TypeOK, Configs
<1>4. SnapshotsOf(NoState) = 0
  BY NoStateFacts DEF SnapshotsOf, HasProcess
<1>5. \A c \in Configs : snaps'[c] = SnapshotsOf(states'[c]) /\ snaps'[c] \in Nat
  BY <1>2, <1>3, <1>4 DEF StopAndDelete
<1>6. snaps' \in [Configs -> Nat]
  BY <1>5 DEF StopAndDelete
<1> QED
  BY <1>1, <1>2, <1>5, <1>6

\* When no file is in the owner's hands, the snapshots are those of the children.
LEMMA StartPassInv ==
  ASSUME IInv, pass.at = "idle", StartPass,
         sessions' \in [SessionKinds -> Idents \cup {None}],
         \A k \in SessionKinds : sessions'[k] \in {sessions[k], None}
  PROVE  IInv'
<1> USE DEF IInv, HasProcess
<1>0. pass.cfg = 0
  BY DEF PassInv, Working
<1>1. CASE dirExposed
  <2>1. /\ StopAndDelete(Configs) /\ listed' = {} /\ todo' = {} /\ pass' = At("idle")
        /\ kept' = {} /\ claims' = [i \in Idents |-> 0]
        /\ UNCHANGED <<file, exposed, dirExposed, node, hostOK, events, duplicates>>
    BY <1>1 DEF StartPass, env
  <2>2. /\ states' \in [Configs -> State] /\ snaps' \in [Configs -> Nat]
        /\ \A c \in Configs : states'[c] = NoState
        /\ \A c \in Configs : snaps'[c] = SnapshotsOf(states'[c])
    BY <1>0, <2>1, StopAndDeleteFacts
  <2>3. TypeOK'
    BY <2>1, <2>2 DEF TypeOK, At
  <2>4. PassInv'
    BY <2>1 DEF PassInv, Working, At
  <2>5. ClaimInv' /\ RunsValidated' /\ SessionExclusive'
    BY <2>2, NoStateFacts DEF ClaimInv, RunsValidated, SessionExclusive
  <2>6. SnapshotAccounting'
    BY <2>1, <2>2 DEF SnapshotAccounting, At, SnapshotsOf
  <2> QED
    BY <2>3, <2>4, <2>5, <2>6
<1>2. CASE ~dirExposed
  <2>1. /\ listed' \subseteq Configs /\ todo' = listed' /\ pass' = At("inspect")
        /\ kept' = {} /\ claims' = [i \in Idents |-> 0]
        /\ UNCHANGED <<file, exposed, dirExposed, node, hostOK, events, states, snaps,
                       duplicates>>
    BY <1>2 DEF StartPass, env
  <2>2. TypeOK'
    BY <2>1 DEF TypeOK, At
  <2>3. PassInv'
    BY <2>1 DEF PassInv, Working, At
  <2>4. ClaimInv'
    BY <2>1 DEF ClaimInv, At
  <2>5. SnapshotAccounting'
    BY <1>0, <2>1 DEF SnapshotAccounting, At, SnapshotsOf
  <2>6. RunsValidated' /\ SessionExclusive'
    BY <2>1 DEF RunsValidated, SessionExclusive
  <2> QED
    BY <2>2, <2>3, <2>4, <2>5, <2>6
<1> QED
  BY <1>1, <1>2

\* BeginPass and EndSession are both a first part of reconcile.
LEMMA PassBeginsInv ==
  ASSUME IInv, BeginPass \/ \E k \in SessionKinds : EndSession(k)
  PROVE  IInv'
<1>0. TypeOK
  BY DEF IInv
<1>1. CASE BeginPass
  BY <1>0, <1>1, StartPassInv DEF BeginPass, TypeOK
<1>2. CASE \E k \in SessionKinds : EndSession(k)
  <2>1. PICK k \in SessionKinds : EndSession(k)
    BY <1>2
  <2>2. /\ sessions' \in [SessionKinds -> Idents \cup {None}]
        /\ \A l \in SessionKinds : sessions'[l] \in {sessions[l], None}
    BY <1>0, <2>1 DEF EndSession, TypeOK
  <2> QED
    BY <2>1, <2>2, StartPassInv DEF EndSession
<1> QED
  BY <1>1, <1>2

\* The purge turns "not listed" into "no child": the claims are complete.
LEMMA EndPassInv ==
  ASSUME IInv, EndPass
  PROVE  IInv'
<1> USE DEF IInv, HasProcess
<1>0. pass.cfg = 0 /\ pass.at = "inspect" /\ todo = {}
  BY DEF EndPass, PassInv, Working
<1>1. /\ StopAndDelete(Configs \ listed) /\ pass' = At("idle")
      /\ duplicates' \in [Configs -> Idents \cup {None}]
      /\ UNCHANGED <<file, exposed, dirExposed, node, hostOK, events, sessions,
                     listed, todo, claims, kept>>
  BY DEF EndPass, TypeOK, env
<1>2. /\ states' \in [Configs -> State] /\ snaps' \in [Configs -> Nat]
      /\ \A c \in Configs \ listed : states'[c] = NoState
      /\ \A c \in listed : states'[c] = states[c]
      /\ \A c \in Configs : snaps'[c] = SnapshotsOf(states'[c])
  BY <1>0, <1>1, StopAndDeleteFacts DEF TypeOK
<1>3. TypeOK'
  BY <1>1, <1>2 DEF TypeOK, At
<1>4. PassInv'
  BY <1>0, <1>1 DEF PassInv, Working, At
<1>5. ClaimInv'
  <2> SUFFICES ASSUME NEW c \in Configs, (HasProcess(states[c]))', c \notin kept'
               PROVE  (claims[states[c].dev] = c)'
    BY DEF ClaimInv
  <2>1. c \in listed /\ states'[c] = states[c]
    BY <1>2, NoStateFacts
  <2> QED
    BY <1>0, <1>1, <2>1 DEF ClaimInv, Configs
<1>6. SnapshotAccounting'
  BY <1>1, <1>2 DEF SnapshotAccounting, At, SnapshotsOf
<1>7. RunsValidated' /\ SessionExclusive'
  BY <1>1, <1>2, NoStateFacts DEF RunsValidated, SessionExclusive
<1> QED
  BY <1>3, <1>4, <1>5, <1>6, <1>7

\* pauseDeviceConfigurations leaves no child on the session's device.
LEMMA StartSessionInv ==
  ASSUME IInv, NEW k \in SessionKinds, NEW i \in Idents, StartSession(k, i)
  PROVE  IInv'
<1> USE DEF IInv, HasProcess
<1>0. pass.cfg = 0 /\ pass.at = "idle"
  BY DEF StartSession, PassInv, Working
<1>1. /\ sessions' = [sessions EXCEPT ![k] = i] /\ events' \in Nat
      /\ UNCHANGED <<file, exposed, dirExposed, node, hostOK, duplicates, pass,
                     listed, todo, claims, kept>>
  BY DEF StartSession, TypeOK
<1>2. \A c \in Configs :
        IF states[c].dev = i
        THEN states'[c] = Transition(Dropped(states[c]), "stopped")
        ELSE states'[c] = states[c]
  BY DEF StartSession
<1>3. \A c \in Configs :
        /\ states'[c] \in State
        /\ states'[c].proc # "none" => states'[c] = states[c] /\ states[c].dev # i
        /\ snaps'[c] = SnapshotsOf(states'[c]) /\ snaps'[c] \in Nat
  <2> SUFFICES ASSUME NEW c \in Configs
               PROVE  /\ states'[c] \in State
                      /\ states'[c].proc # "none" => states'[c] = states[c] /\ states[c].dev # i
                      /\ snaps'[c] = SnapshotsOf(states'[c]) /\ snaps'[c] \in Nat
    OBVIOUS
  <2>1. states[c] \in State /\ snaps[c] \in Nat
    BY DEF TypeOK
  <2>2. snaps[c] = SnapshotsOf(states[c])
    BY <1>0 DEF SnapshotAccounting, SnapshotsOf, Configs
  <2>3. CASE states[c].dev = i
    <3>1. states'[c] = Transition(Dropped(states[c]), "stopped")
      BY <1>2, <2>3
    <3>2. states'[c] \in State /\ states'[c].proc = "none"
      BY <2>1, <3>1, DroppedFacts, TransitionFacts DEF Phases
    <3>3. snaps'[c] = 0
      BY <2>1, <2>2, <2>3 DEF StartSession
    <3> QED
      BY <3>2, <3>3 DEF SnapshotsOf
  <2>4. CASE states[c].dev # i
    BY <1>2, <2>1, <2>2, <2>4 DEF StartSession
  <2> QED
    BY <2>3, <2>4
<1>4. TypeOK'
  <2>1. states' \in [Configs -> State] /\ snaps' \in [Configs -> Nat]
    BY <1>3 DEF StartSession
  <2> QED
    BY <1>1, <2>1 DEF TypeOK
<1>5. PassInv'
  BY <1>0, <1>1 DEF PassInv, Working
<1>6. ClaimInv'
  BY <1>1, <1>3 DEF ClaimInv
<1>7. SnapshotAccounting'
  BY <1>0, <1>1, <1>3 DEF SnapshotAccounting, SnapshotsOf
<1>8. RunsValidated'
  BY <1>1, <1>3 DEF RunsValidated
<1>9. SessionExclusive'
  <2> SUFFICES ASSUME NEW l \in SessionKinds, NEW c \in Configs,
                      sessions'[l] # None, states'[c].proc # "none"
               PROVE  states'[c].dev # sessions'[l]
    BY DEF SessionExclusive
  <2>1. states'[c] = states[c] /\ states[c].dev # i
    BY <1>3
  <2>2. CASE l = k
    BY <1>1, <2>1, <2>2 DEF TypeOK
  <2>3. CASE l # k
    BY <1>1, <2>1, <2>3 DEF TypeOK, SessionExclusive
  <2> QED
    BY <2>2, <2>3
<1> QED
  BY <1>4, <1>5, <1>6, <1>7, <1>8, <1>9

\* cleanup stops every child; the next manager finds none.
LEMMA ShutdownRestartInv ==
  ASSUME IInv, Shutdown \/ Restart
  PROVE  IInv'
<1> USE DEF IInv, HasProcess
<1>0. pass.cfg = 0 /\ todo = {}
  BY DEF Shutdown, Restart, PassInv, Working
<1>1. CASE Shutdown
  <2>1. /\ StopAndDelete(Configs) /\ pass' = At("down") /\ events' \in Nat
        /\ sessions' = [k \in SessionKinds |-> None]
        /\ UNCHANGED <<file, exposed, dirExposed, node, hostOK, duplicates, listed,
                       todo, claims, kept>>
    BY <1>1 DEF Shutdown, TypeOK
  <2>2. /\ states' \in [Configs -> State] /\ snaps' \in [Configs -> Nat]
        /\ \A c \in Configs : states'[c] = NoState
        /\ \A c \in Configs : snaps'[c] = SnapshotsOf(states'[c])
    BY <1>0, <2>1, StopAndDeleteFacts
  <2>3. TypeOK'
    BY <2>1, <2>2 DEF TypeOK, At
  <2>4. PassInv'
    BY <1>0, <2>1, <2>2, NoStateFacts DEF PassInv, Working, At
  <2>5. ClaimInv' /\ RunsValidated' /\ SessionExclusive'
    BY <2>2, NoStateFacts DEF ClaimInv, RunsValidated, SessionExclusive
  <2>6. SnapshotAccounting'
    BY <2>1, <2>2 DEF SnapshotAccounting, At, SnapshotsOf
  <2> QED
    BY <2>3, <2>4, <2>5, <2>6
<1>2. CASE Restart
  <2>1. /\ pass.at = "down" /\ pass' = At("idle") /\ listed' = {} /\ kept' = {}
        /\ duplicates' = [c \in Configs |-> None] /\ claims' = [i \in Idents |-> 0]
        /\ UNCHANGED <<file, exposed, dirExposed, node, hostOK, events, states, sessions,
                       snaps, todo>>
    BY <1>2 DEF Restart, env
  <2>2. \A c \in Configs : states[c].proc = "none"
    BY <2>1 DEF PassInv
  <2>3. TypeOK'
    BY <1>0, <2>1 DEF TypeOK, At
  <2>4. PassInv'
    BY <1>0, <2>1 DEF PassInv, Working, At
  <2>5. ClaimInv' /\ RunsValidated' /\ SessionExclusive'
    BY <2>1, <2>2 DEF ClaimInv, RunsValidated, SessionExclusive
  <2>6. SnapshotAccounting'
    BY <1>0, <2>1 DEF SnapshotAccounting, At, SnapshotsOf
  <2> QED
    BY <2>3, <2>4, <2>5, <2>6
<1> QED
  BY <1>1, <1>2

-----------------------------------------------------------------------------
(* The clock and the environment.                                          *)

\* Steps that leave the manager's memory alone except for a child's vital signs.
LEMMA FrameInv ==
  ASSUME IInv,
         file' \in [Configs -> Contents \cup {None}],
         exposed' \subseteq Configs,
         dirExposed' \in BOOLEAN,
         node' \in [Paths -> Idents \cup {None}],
         hostOK' \in BOOLEAN,
         events' \in Nat,
         states' \in [Configs -> State],
         \A c \in Configs : /\ states'[c].sig = states[c].sig
                            /\ states'[c].dev = states[c].dev
                            /\ states'[c].from = states[c].from
                            /\ HasProcess(states'[c]) <=> HasProcess(states[c]),
         UNCHANGED <<duplicates, sessions, snaps, pass, listed, todo, claims, kept>>
  PROVE  IInv'
<1> USE DEF IInv
<1>1. TypeOK'
  BY DEF TypeOK
<1>2. PassInv'
  BY DEF PassInv, Working, InSession, TypeOK
<1>3. ClaimInv'
  BY DEF ClaimInv
<1>4. SnapshotAccounting'
  BY DEF SnapshotAccounting, SnapshotsOf
<1>5. RunsValidated' /\ SessionExclusive'
  BY DEF RunsValidated, SessionExclusive
<1> QED
  BY <1>1, <1>2, <1>3, <1>4, <1>5

\* Time changes counters only.
LEMMA TickInv ==
  ASSUME IInv, Tick
  PROVE  IInv'
<1>1. TypeOK
  BY DEF IInv
<1>2. \A c \in Configs : states'[c] = Aged(states[c]) /\ states[c] \in State
  BY <1>1 DEF Tick, TypeOK
<1>3. \A c \in Configs : /\ states'[c] \in State
                         /\ states'[c].sig = states[c].sig
                         /\ states'[c].dev = states[c].dev
                         /\ states'[c].from = states[c].from
                         /\ HasProcess(states'[c]) <=> HasProcess(states[c])
  BY <1>2, AgedFacts DEF HasProcess
<1>4. states' \in [Configs -> State]
  BY <1>3 DEF Tick
<1> QED
  BY <1>1, <1>3, <1>4, FrameInv DEF Tick, env, TypeOK

\* Whatever users, hardware and children do between two steps of the owner.
LEMMA EnvironmentInv ==
  ASSUME IInv, Environment
  PROVE  IInv'
<1>0. TypeOK
  BY DEF IInv
<1>1. CASE \E c \in Configs, x \in Contents : ReadRaces(c, x)
  BY <1>1, InspectionInv
<1>2. CASE \E c \in Configs, x \in Contents \cup {None} : WriteFile(c, x)
  BY <1>0, <1>2, FrameInv DEF WriteFile, EnvStep, TypeOK
<1>3. CASE \E c \in Configs : ChangeMode(c)
  BY <1>0, <1>3, FrameInv DEF ChangeMode, EnvStep, TypeOK
<1>4. CASE ChangeDirMode
  BY <1>0, <1>4, FrameInv DEF ChangeDirMode, EnvStep, TypeOK
<1>5. CASE \E p \in Paths, i \in Idents \cup {None} : Rebind(p, i)
  BY <1>0, <1>5, FrameInv DEF Rebind, EnvStep, TypeOK
<1>6. CASE ChangeHost
  BY <1>0, <1>6, FrameInv DEF ChangeHost, EnvStep, TypeOK
<1>7. CASE \E c \in Configs, s \in {"run", "hung", "exited"} : ChildChanges(c, s)
  <2>1. PICK c \in Configs, s \in {"run", "hung", "exited"} : ChildChanges(c, s)
    BY <1>7
  <2>2. states[c] \in State /\ states[c].proc # "none"
    BY <1>0, <2>1 DEF ChildChanges, TypeOK
  <2> DEFINE t == [states[c] EXCEPT !.proc = s]
  <2>3. /\ t \in State /\ t.sig = states[c].sig /\ t.dev = states[c].dev
        /\ t.proc = s /\ t.from = states[c].from
    BY <2>2 DEF State
  <2>4. states' = [states EXCEPT ![c] = t]
    BY <1>0, <2>1 DEF ChildChanges, TypeOK
  <2> HIDE DEF t
  <2>5. /\ states' \in [Configs -> State]
        /\ \A d \in Configs : /\ states'[d].sig = states[d].sig
                              /\ states'[d].dev = states[d].dev
                              /\ states'[d].from = states[d].from
                              /\ HasProcess(states'[d]) <=> HasProcess(states[d])
    BY <1>0, <2>1, <2>2, <2>3, <2>4 DEF HasProcess, TypeOK
  <2>6. /\ events' \in Nat
        /\ UNCHANGED <<file, exposed, dirExposed, node, hostOK, duplicates, sessions,
                       snaps, pass, listed, todo, claims, kept>>
    BY <1>0, <2>1 DEF ChildChanges, EnvStep, TypeOK
  <2>7. /\ file' \in [Configs -> Contents \cup {None}] /\ exposed' \subseteq Configs
        /\ dirExposed' \in BOOLEAN /\ hostOK' \in BOOLEAN
        /\ node' \in [Paths -> Idents \cup {None}]
    BY <1>0, <2>6 DEF TypeOK
  <2> QED
    BY <2>5, <2>6, <2>7, FrameInv
<1> QED
  BY <1>1, <1>2, <1>3, <1>4, <1>5, <1>6, <1>7 DEF Environment

\* Every step of the owner and of its environment keeps the invariant.
LEMMA NextIInv == IInv /\ [Next]_vars => IInv'
<1> SUFFICES ASSUME IInv, [Next]_vars PROVE IInv'
  OBVIOUS
<1>1. CASE UNCHANGED vars
  BY <1>1, FrameInv DEF vars, IInv, TypeOK
<1>2. CASE Owner
  <2>1. CASE BeginPass
    BY <2>1, PassBeginsInv
  <2>2. CASE EndPass
    BY <2>2, EndPassInv
  <2>3. ASSUME NEW c \in Configs, PassStep(c) PROVE IInv'
    <3>1. \/ \/ Refuse(c) \/ SkipForSession(c) \/ SkipDuplicate(c) \/ HoldUpdate(c)
             \/ WatchdogStops(c) \/ ReapExited(c) \/ KeepRunning(c) \/ WaitForRetry(c)
          \/ ValidateUpdate(c) \/ StartChanged(c) \/ StartAgain(c)
          \/ SnapshotFails(c) \/ TakeSnapshot(c) \/ DryRunFails(c) \/ DryRunPasses(c)
          \/ LaunchAborts(c) \/ LaunchFails(c) \/ LaunchSucceeds(c)
      BY <2>3, Zenon DEF PassStep
    <3> QED
      BY <3>1, InspectionInv, BeginValidationInv, ValidationInv, LaunchInv, Zenon
  <2> QED
    BY <1>2, <2>1, <2>2, <2>3 DEF Owner
<1>3. CASE \E k \in SessionKinds, i \in Idents : StartSession(k, i)
  BY <1>3, StartSessionInv
<1>4. CASE \E k \in SessionKinds : EndSession(k)
  BY <1>4, PassBeginsInv
<1>5. CASE Shutdown \/ Restart
  BY <1>5, ShutdownRestartInv
<1>6. CASE Tick
  BY <1>6, TickInv
<1>7. CASE Environment
  BY <1>7, EnvironmentInv
<1> QED
  BY <1>1, <1>2, <1>3, <1>4, <1>5, <1>6, <1>7 DEF Next

-----------------------------------------------------------------------------
(* The theorems.                                                           *)

\* The strengthened invariant holds in every reachable state of the owner.
THEOREM Invariance == Spec => []IInv
  BY InitIInv, NextIInv, PTL DEF Spec

\* Every variable keeps its type, whatever the files, devices and children do.
THEOREM TypeCorrect == Spec => []TypeOK
<1>1. IInv => TypeOK
  BY DEF IInv
<1> QED
  BY <1>1, Invariance, PTL

\* No snapshot file is leaked or removed in use, however validations, launches
\* and stops interleave with changes of files, devices and the kmonad binary.
THEOREM SnapshotsAccounted == Spec => []SnapshotAccounting
<1>1. IInv => SnapshotAccounting
  BY DEF IInv
<1> QED
  BY <1>1, Invariance, PTL

\* Every tracked child was started on the bytes its dry run accepted, while
\* their path named the device that was inspected and claimed for them.
THEOREM ChildrenValidated == Spec => []RunsValidated
<1>1. IInv => RunsValidated
  BY DEF IInv
<1> QED
  BY <1>1, Invariance, PTL

\* No tracked child drives a device an identification or probe session reads.
THEOREM SessionsExclusive == Spec => []SessionExclusive
<1>1. IInv => SessionExclusive
  BY DEF IInv
<1> QED
  BY <1>1, Invariance, PTL

\* Between passes two children share a device only if one of them was kept for
\* a file its pass did not accept.
THEOREM ClaimsExclusive == Spec => []SharedOnlyWhenKept
<1>1. IInv => SharedOnlyWhenKept
  <2> SUFFICES ASSUME IInv, pass.at = "idle", NEW c \in Configs, NEW d \in Configs,
                      c # d, HasProcess(states[c]), HasProcess(states[d]),
                      states[c].dev = states[d].dev, c \notin kept, d \notin kept
               PROVE  FALSE
    BY DEF SharedOnlyWhenKept
  <2>1. todo = {} /\ pass.cfg = 0
    BY DEF IInv, PassInv, Working
  <2>2. claims[states[c].dev] = c /\ claims[states[d].dev] = d
    BY <2>1 DEF IInv, ClaimInv, Configs
  <2> QED
    BY <2>2
<1> QED
  BY <1>1, Invariance, PTL
-----------------------------------------------------------------------------
(* The limit on configurations, and what a pass may stop.  Within a pass,  *)
(* claims belong to files dealt with, and so do the children that count.   *)

Underway == pass.at \notin {"idle", "down"}

OrderInv ==
  Underway =>
    /\ \A i \in Idents : claims[i] \in {0} \cup (listed \ todo)
    /\ \A c \in listed \ todo : HasProcess(states[c]) \/ c = pass.cfg => ~OverLimit(c)

LimitInv == OrderInv /\ LimitRespected

\* A non-empty set of numbers up to n has a greatest element.
LEMMA GreatestElement ==
  ASSUME NEW n \in Nat, NEW S \in SUBSET (1 .. n), S # {}
  PROVE  \E m \in S : \A c \in S : c <= m
<1> DEFINE B == {b \in Nat : \A c \in S : c <= b}
<1>1. B \subseteq Nat /\ B # {}
  <2>1. n \in B
    OBVIOUS
  <2> QED
    BY <2>1
<1>2. PICK m \in B : \A b \in B : ~ (<<b, m>> \in OpToRel(<, Nat))
  BY <1>1, WFMin, NatLessThanWellFounded
<1>3. \A b \in B : ~ (b < m)
  BY <1>2 DEF OpToRel
<1>4. m \in Nat /\ \A c \in S : c <= m
  OBVIOUS
<1>5. m \in S
  <2> SUFFICES ASSUME m \notin S
               PROVE  FALSE
    OBVIOUS
  <2>1. \A c \in S : c \in Nat /\ c >= 1 /\ c < m
    BY <1>4
  <2>2. PICK c \in S : TRUE
    OBVIOUS
  <2>3. m - 1 \in Nat /\ m - 1 < m
    BY <1>4, <2>1, <2>2
  <2>4. \A d \in S : d <= m - 1
    BY <1>4, <2>1
  <2> QED
    BY <1>3, <2>3, <2>4
<1> QED
  BY <1>4, <1>5

\* If none of S is over the limit there are not more of them than the limit.
LEMMA WithinLimit ==
  ASSUME NEW L \in SUBSET Configs, NEW S \in SUBSET L,
         \A c \in S : ~(Cardinality({d \in L : d <= c}) > MaxConfigs)
  PROVE  Cardinality(S) <= MaxConfigs
<1>1. NConfigs \in Nat /\ MaxConfigs \in Nat
  BY ConstantsAssumption DEF ConstantsAssumption
<1>2. IsFiniteSet(Configs)
  BY <1>1, FS_Interval DEF Configs
<1>3. CASE S = {}
  BY <1>1, <1>3, FS_EmptySet
<1>4. CASE S # {}
  <2>1. S \in SUBSET (1 .. NConfigs)
    BY DEF Configs
  <2>2. PICK m \in S : \A c \in S : c <= m
    BY <1>1, <1>4, <2>1, GreatestElement
  <2>3. PICK U : U = {d \in L : d <= m}
    OBVIOUS
  <2>4. U \in SUBSET Configs /\ S \in SUBSET U
    BY <2>2, <2>3
  <2>5. IsFiniteSet(U) /\ IsFiniteSet(S)
    BY <1>2, <2>4, FS_Subset
  <2>6. Cardinality(S) <= Cardinality(U) /\ Cardinality(S) \in Nat /\ Cardinality(U) \in Nat
    BY <2>4, <2>5, FS_Subset, FS_CardinalityType
  <2>7. ~(Cardinality(U) > MaxConfigs)
    BY <2>2, <2>3
  <2> QED
    BY <1>1, <2>6, <2>7
<1> QED
  BY <1>3, <1>4

\* Fewer children, nothing else.
LEMMA FewerChildren ==
  ASSUME TypeOK, LimitInv, UNCHANGED <<pass, listed, todo, claims>>,
         \A c \in Configs : HasProcess(states'[c]) => HasProcess(states[c])
  PROVE  LimitInv'
<1>1. OrderInv'
  BY DEF LimitInv, OrderInv, Underway, OverLimit, TypeOK
<1>2. LimitRespected'
  <2> SUFFICES ASSUME pass.at = "idle"
               PROVE  Cardinality({c \in Configs : HasProcess(states'[c])}) <= MaxConfigs
    BY DEF LimitRespected, HasProcess
  <2>1. PICK A : A = {c \in Configs : HasProcess(states[c])}
    OBVIOUS
  <2>2. PICK B : B = {c \in Configs : HasProcess(states'[c])}
    OBVIOUS
  <2>3. B \in SUBSET A /\ A \in SUBSET Configs
    BY <2>1, <2>2
  <2>4. NConfigs \in Nat /\ MaxConfigs \in Nat
    BY ConstantsAssumption DEF ConstantsAssumption
  <2>5. IsFiniteSet(Configs)
    BY <2>4, FS_Interval DEF Configs
  <2>6. IsFiniteSet(A)
    BY <2>3, <2>5, FS_Subset
  <2>7. Cardinality(B) <= Cardinality(A) /\ Cardinality(A) \in Nat /\ Cardinality(B) \in Nat
    BY <2>3, <2>6, FS_Subset, FS_CardinalityType
  <2>8. Cardinality(A) <= MaxConfigs
    BY <2>1 DEF LimitInv, LimitRespected
  <2> QED
    BY <2>2, <2>4, <2>7, <2>8
<1> QED
  BY <1>1, <1>2 DEF LimitInv

\* No children at all, and no pass.
LEMMA NoChildren ==
  ASSUME pass'.at \in {"idle", "down"}, \A c \in Configs : ~HasProcess(states'[c])
  PROVE  LimitInv'
<1>1. {c \in Configs : HasProcess(states'[c])} = {}
  OBVIOUS
<1>2. Cardinality({c \in Configs : HasProcess(states'[c])}) <= MaxConfigs
  BY <1>1, FS_EmptySet, ConstantsAssumption DEF ConstantsAssumption
<1>3. LimitRespected'
  BY <1>2 DEF LimitRespected, HasProcess
<1>4. OrderInv'
  BY DEF OrderInv, Underway
<1> QED
  BY <1>3, <1>4 DEF LimitInv

\* A step of the pass that deals with file c.
LEMMA DealtWith ==
  ASSUME TypeOK, LimitInv, Underway, Underway', NEW c \in Configs,
         listed' = listed, c \in listed, c \notin todo',
         \A d \in listed \ todo' : d = c \/ d \notin todo,
         todo' \subseteq todo,
         \A i \in Idents : claims'[i] \in {claims[i], c},
         \A d \in Configs : d # c /\ HasProcess(states'[d]) => HasProcess(states[d]),
         pass'.cfg \in {0, c},
         HasProcess(states'[c]) \/ pass'.cfg = c => ~OverLimit(c)
  PROVE  LimitInv'
<1>1. \A i \in Idents : claims'[i] \in {0} \cup (listed' \ todo')
  BY DEF LimitInv, OrderInv
<1>2. ASSUME NEW d \in listed' \ todo', HasProcess(states'[d]) \/ d = pass'.cfg
      PROVE  ~OverLimit(d)'
  <2>1. d \in Configs /\ d # 0
    BY DEF TypeOK, Configs
  <2>2. OverLimit(d)' <=> OverLimit(d)
    BY DEF OverLimit
  <2>3. CASE d = c
    BY <1>2, <2>2, <2>3
  <2>4. CASE d # c
    <3>1. HasProcess(states[d]) /\ d \in listed \ todo
      BY <1>2, <2>1, <2>4
    <3> QED
      BY <2>2, <3>1 DEF LimitInv, OrderInv
  <2> QED
    BY <2>3, <2>4
<1>3. OrderInv'
  BY <1>1, <1>2 DEF OrderInv, HasProcess
<1>4. LimitRespected'
  BY DEF LimitRespected, Underway
<1> QED
  BY <1>3, <1>4 DEF LimitInv

\* A file that is refused or skipped has no child and does not count; one that
\* is kept or validated is within the limit.
LEMMA InspectionOrder ==
  ASSUME IInv, LimitInv, NEW c \in Configs,
         \/ Refuse(c) \/ SkipForSession(c) \/ SkipDuplicate(c) \/ HoldUpdate(c)
         \/ WatchdogStops(c) \/ ReapExited(c) \/ KeepRunning(c) \/ WaitForRetry(c)
         \/ ValidateUpdate(c) \/ StartChanged(c) \/ StartAgain(c)
         \/ \E x \in Contents : ReadRaces(c, x)
  PROVE  LimitInv'
<1> DEFINE Single == /\ listed' = listed /\ todo' = todo \ {c}
                     /\ \A i \in Idents : claims'[i] \in {claims[i], c}
                     /\ \A d \in Configs : d # c => states'[d] = states[d]
                     /\ pass' = At("inspect") \/ (pass'.at = "snapshot" /\ pass'.cfg = c)
           Within == ~OverLimit(c) \/ (~HasProcess(states'[c]) /\ pass' = At("inspect"))
<1>1. /\ TypeOK /\ c \in todo /\ todo \subseteq listed /\ pass.at = "inspect"
      /\ states[c] \in State /\ states \in [Configs -> State]
      /\ claims \in [Idents -> Configs \cup {0}]
  BY DEF IInv, TypeOK, Refuse, SkipForSession, SkipDuplicate, HoldUpdate, WatchdogStops,
         ReapExited, KeepRunning, WaitForRetry, ValidateUpdate, StartChanged, StartAgain,
         ReadRaces, Current, Inspected, Claims
<1>2. At("inspect").cfg = 0 /\ At("inspect").at = "inspect"
  BY DEF At
<1>3. ASSUME Single, Within
      PROVE  LimitInv'
  <2>1. /\ c \in listed /\ c \notin todo' /\ listed' = listed /\ todo' \subseteq todo
        /\ \A d \in listed \ todo' : d = c \/ d \notin todo
        /\ Underway /\ Underway'
    BY <1>1, <1>2, <1>3 DEF Underway
  <2>2. /\ \A i \in Idents : claims'[i] \in {claims[i], c}
        /\ \A d \in Configs : d # c /\ HasProcess(states'[d]) => HasProcess(states[d])
        /\ pass'.cfg \in {0, c}
    BY <1>2, <1>3
  <2>3. HasProcess(states'[c]) \/ pass'.cfg = c => ~OverLimit(c)
    BY <1>2, <1>3 DEF Configs
  <2> QED
    BY <1>1, <2>1, <2>2, <2>3, DealtWith
<1>4. CASE \/ Refuse(c) \/ SkipForSession(c) \/ SkipDuplicate(c)
           \/ \E x \in Contents : ReadRaces(c, x)
  <2>1. Single
    <3>1. listed' = listed /\ todo' = todo \ {c} /\ claims' = claims /\ pass' = At("inspect")
      BY <1>4 DEF Refuse, SkipForSession, SkipDuplicate, ReadRaces, NextFile
    <3>2. \A d \in Configs : d # c => states'[d] = states[d]
      BY <1>1, <1>4 DEF Refuse, SkipForSession, SkipDuplicate, ReadRaces, StopAndDelete
    <3> QED
      BY <3>1, <3>2
  <2>2. Within
    <3>1. CASE Refuse(c)
      BY <1>1, <3>1, NoStateFacts DEF Refuse, StopAndDelete, NextFile, HasProcess
    <3>2. CASE \/ SkipForSession(c) \/ SkipDuplicate(c)
               \/ \E x \in Contents : ReadRaces(c, x)
      BY <3>2 DEF SkipForSession, SkipDuplicate, ReadRaces, Inspected
    <3> QED
      BY <1>4, <3>1, <3>2
  <2> QED
    BY <1>3, <2>1, <2>2
<1>5. CASE \/ HoldUpdate(c) \/ WatchdogStops(c) \/ ReapExited(c) \/ KeepRunning(c)
           \/ WaitForRetry(c) \/ ValidateUpdate(c) \/ StartChanged(c) \/ StartAgain(c)
  <2>1. Claims(c)
    BY <1>5 DEF HoldUpdate, WatchdogStops, ReapExited, KeepRunning, WaitForRetry,
                ValidateUpdate, StartChanged, StartAgain
  <2>2. \A d \in Configs : d # c => states'[d] = states[d]
    BY <1>1, <1>5 DEF HoldUpdate, WatchdogStops, ReapExited, KeepRunning, WaitForRetry,
                      ValidateUpdate, StartChanged, StartAgain
  <2>3. pass' = At("inspect") \/ (pass'.at = "snapshot" /\ pass'.cfg = c)
    BY <1>5 DEF HoldUpdate, WatchdogStops, ReapExited, KeepRunning, WaitForRetry,
                ValidateUpdate, StartChanged, StartAgain, Validating
  <2>4. Single /\ Within
    BY <1>1, <2>1, <2>2, <2>3 DEF Claims, Inspected
  <2> QED
    BY <1>3, <2>4
<1> QED
  BY <1>4, <1>5

\* The rest of a validation and the launch concern the same file.
LEMMA ValidationOrder ==
  ASSUME IInv, LimitInv, NEW c \in Configs,
         \/ SnapshotFails(c) \/ TakeSnapshot(c) \/ DryRunFails(c) \/ DryRunPasses(c)
         \/ LaunchAborts(c) \/ LaunchFails(c) \/ LaunchSucceeds(c)
  PROVE  LimitInv'
<1>1. TypeOK /\ PassInv /\ states \in [Configs -> State]
  BY DEF IInv, TypeOK
<1>2. /\ Working /\ pass.cfg = c
      /\ listed' = listed /\ todo' = todo /\ claims' = claims
  BY DEF SnapshotFails, TakeSnapshot, DryRunFails, DryRunPasses, LaunchAborts, LaunchFails,
         LaunchSucceeds, Working
<1>3. Underway /\ c \in listed \ todo /\ ~OverLimit(c)
  BY <1>1, <1>2 DEF Working, Underway, PassInv, LimitInv, OrderInv
<1>4. At("inspect").cfg = 0 /\ At("inspect").at = "inspect"
  BY DEF At
<1>5. /\ pass'.cfg \in {0, c} /\ Underway'
      /\ \A d \in Configs : d # c => states'[d] = states[d]
  <2>1. CASE SnapshotFails(c) \/ DryRunFails(c)
    BY <1>1, <1>4, <2>1 DEF SnapshotFails, DryRunFails, ValidationFails, Underway
  <2>2. CASE TakeSnapshot(c)
    BY <1>1, <1>2, <2>2 DEF TakeSnapshot, Underway, TypeOK
  <2>3. CASE DryRunPasses(c)
    <3>1. pass'.cfg = c /\ pass'.at = "launch"
      BY <1>1, <1>2, <2>3 DEF DryRunPasses, TypeOK
    <3>2. \A d \in Configs : d # c => states'[d] = states[d]
      BY <1>1, <2>3 DEF DryRunPasses
    <3> QED
      BY <3>1, <3>2 DEF Underway
  <2>4. CASE LaunchAborts(c) \/ LaunchFails(c) \/ LaunchSucceeds(c)
    BY <1>1, <1>4, <2>4 DEF LaunchAborts, LaunchFails, LaunchSucceeds, Underway
  <2> QED
    BY <2>1, <2>2, <2>3, <2>4
<1> QED
  BY <1>1, <1>2, <1>3, <1>5, DealtWith

\* At the end of the pass only children of listed files within the limit are left.
LEMMA EndPassOrder ==
  ASSUME IInv, LimitInv, EndPass
  PROVE  LimitInv'
<1>1. TypeOK /\ Underway /\ listed \in SUBSET Configs
  BY DEF IInv, TypeOK, EndPass, Underway
<1>2. PICK S : S = {c \in Configs : HasProcess(states'[c])}
  OBVIOUS
<1>3. \A c \in S : c \in listed /\ HasProcess(states[c])
  BY <1>2, NoStateFacts DEF EndPass, StopAndDelete, HasProcess
<1>4. \A c \in S : ~OverLimit(c)
  BY <1>1, <1>3 DEF LimitInv, OrderInv, EndPass
<1>5. Cardinality(S) <= MaxConfigs
  BY <1>1, <1>3, <1>4, WithinLimit DEF OverLimit
<1>6. pass'.at = "idle"
  BY DEF EndPass, At
<1> QED
  BY <1>2, <1>5, <1>6 DEF LimitInv, LimitRespected, OrderInv, Underway, HasProcess

\* A new pass has dealt with no file yet.
LEMMA StartPassOrder ==
  ASSUME StartPass
  PROVE  LimitInv'
<1>1. CASE dirExposed
  <2>1. pass'.at = "idle" /\ \A c \in Configs : ~HasProcess(states'[c])
    BY <1>1, NoStateFacts DEF StartPass, StopAndDelete, At, HasProcess
  <2> QED
    BY <2>1, NoChildren
<1>2. CASE ~dirExposed
  <2>1. /\ pass'.at = "inspect" /\ todo' = listed'
        /\ \A i \in Idents : claims'[i] = 0
    BY <1>2 DEF StartPass, At
  <2> QED
    BY <2>1 DEF LimitInv, OrderInv, LimitRespected
<1> QED
  BY <1>1, <1>2

LEMMA InitLimit == Init => LimitInv
<1> SUFFICES ASSUME Init
             PROVE  LimitInv
  OBVIOUS
<1>1. {c \in Configs : HasProcess(states[c])} = {}
  BY NoStateFacts DEF Init, HasProcess
<1>2. pass.at = "idle"
  BY DEF Init, At
<1> QED
  BY <1>1, <1>2, FS_EmptySet, ConstantsAssumption
     DEF LimitInv, LimitRespected, OrderInv, Underway, ConstantsAssumption

LEMMA NextLimit == IInv /\ LimitInv /\ [Next]_vars => LimitInv'
<1> SUFFICES ASSUME IInv, LimitInv, [Next]_vars
             PROVE  LimitInv'
  OBVIOUS
<1>1. TypeOK /\ states \in [Configs -> State]
  BY DEF IInv, TypeOK
<1>2. CASE UNCHANGED vars
  BY <1>1, <1>2, FewerChildren DEF vars
<1>3. CASE Owner
  <2>1. CASE BeginPass
    BY <2>1, StartPassOrder DEF BeginPass
  <2>2. CASE EndPass
    BY <2>2, EndPassOrder
  <2>3. ASSUME NEW c \in Configs, PassStep(c)
        PROVE  LimitInv'
    BY <2>3, InspectionOrder, ValidationOrder DEF PassStep
  <2> QED
    BY <1>3, <2>1, <2>2, <2>3 DEF Owner
<1>4. CASE \E k \in SessionKinds, i \in Idents : StartSession(k, i)
  <2>1. PICK k \in SessionKinds, i \in Idents : StartSession(k, i)
    BY <1>4
  <2>2. \A c \in Configs : HasProcess(states'[c]) => HasProcess(states[c])
    <3>1. ASSUME NEW c \in Configs
          PROVE  states'[c] = states[c] \/ states'[c] = Transition(Dropped(states[c]), "stopped")
      BY <2>1 DEF StartSession
    <3>2. ASSUME NEW c \in Configs
          PROVE  ~HasProcess(Transition(Dropped(states[c]), "stopped"))
      BY <1>1, DroppedFacts, TransitionFacts DEF Phases, HasProcess
    <3> QED
      BY <3>1, <3>2
  <2> QED
    BY <1>1, <2>1, <2>2, FewerChildren DEF StartSession
<1>5. CASE \E k \in SessionKinds : EndSession(k)
  BY <1>5, StartPassOrder DEF EndSession
<1>6. CASE Shutdown
  <2>1. pass'.at = "down" /\ \A c \in Configs : ~HasProcess(states'[c])
    BY <1>6, NoStateFacts DEF Shutdown, StopAndDelete, At, HasProcess
  <2> QED
    BY <2>1, NoChildren
<1>7. CASE Restart
  <2>1. pass'.at = "idle" /\ \A c \in Configs : ~HasProcess(states'[c])
    BY <1>7 DEF Restart, At, IInv, PassInv
  <2> QED
    BY <2>1, NoChildren
<1>8. CASE Tick
  <2>1. \A c \in Configs : HasProcess(states'[c]) => HasProcess(states[c])
    BY <1>1, <1>8, AgedFacts DEF Tick, HasProcess
  <2> QED
    BY <1>1, <1>8, <2>1, FewerChildren DEF Tick
<1>9. CASE Environment
  <2>1. CASE \E c \in Configs, x \in Contents : ReadRaces(c, x)
    BY <2>1, InspectionOrder
  <2>2. CASE \/ \E c \in Configs, x \in Contents \cup {None} : WriteFile(c, x)
             \/ \E c \in Configs : ChangeMode(c)
             \/ ChangeDirMode
             \/ \E p \in Paths, i \in Idents \cup {None} : Rebind(p, i)
             \/ ChangeHost
    <3>1. UNCHANGED <<pass, listed, todo, claims>> /\ states' = states
      BY <2>2 DEF WriteFile, ChangeMode, ChangeDirMode, Rebind, ChangeHost, EnvStep
    <3> QED
      BY <1>1, <3>1, FewerChildren
  <2>3. CASE \E c \in Configs, s \in {"run", "hung", "exited"} : ChildChanges(c, s)
    <3>1. PICK c \in Configs, s \in {"run", "hung", "exited"} : ChildChanges(c, s)
      BY <2>3
    <3>2. UNCHANGED <<pass, listed, todo, claims>> /\ HasProcess(states[c])
      BY <3>1 DEF ChildChanges, EnvStep, HasProcess
    <3>3. \A d \in Configs : d # c => states'[d] = states[d]
      BY <1>1, <3>1 DEF ChildChanges
    <3> QED
      BY <1>1, <3>2, <3>3, FewerChildren
  <2> QED
    BY <1>9, <2>1, <2>2, <2>3 DEF Environment
<1> QED
  BY <1>2, <1>3, <1>4, <1>5, <1>6, <1>7, <1>8, <1>9 DEF Next

LEMMA LimitInvariance == Spec => [](IInv /\ LimitInv)
  BY InitIInv, InitLimit, NextIInv, NextLimit, PTL DEF Spec

\* Between two passes there are never more children than the limit, although
\* files appear and disappear while a pass walks the listing it has taken.
THEOREM LimitIsRespected == Spec => []LimitRespected
<1>1. IInv /\ LimitInv => LimitRespected
  BY DEF LimitInv
<1> QED
  BY <1>1, LimitInvariance, PTL

\* In a pass, the running child of a file that may run is only stopped by the
\* step that replaces it after its dry run.
LEMMA ReplaceStep ==
  ASSUME IInv, LimitInv, Next, Underway, NEW c \in Configs, Entitled(c),
         states[c].proc = "run", ~HasProcess(states'[c])
  PROVE  DryRunPasses(c) /\ pass.why = "update"
<1>1. /\ TypeOK /\ PassInv /\ HasProcess(states[c]) /\ states'[c] # states[c]
      /\ states \in [Configs -> State] /\ states[c] \in State
  BY DEF IInv, TypeOK, HasProcess
<1>2. pass.at # "idle" /\ pass.at # "down"
  BY DEF Underway
<1>3. /\ c \in listed /\ ~OverLimit(c) /\ Usable(c) /\ ~InSession(Ident(c))
      /\ claims[Ident(c)] \in {0, c} /\ Ident(c) \in Idents
  <2>1. c \in listed /\ ~OverLimit(c) /\ Usable(c) /\ ~InSession(Ident(c))
        /\ claims[Ident(c)] \in {0, c}
    BY DEF Entitled
  <2>2. file[c] \in Contents /\ Ident(c) # None
    BY <1>1, <2>1 DEF Usable, TypeOK
  <2>3. PathOf[file[c]] \in Paths
    BY <2>2, ConstantsAssumption DEF ConstantsAssumption
  <2>4. Ident(c) \in Idents
    BY <1>1, <2>2, <2>3 DEF Ident, TypeOK
  <2> QED
    BY <2>1, <2>4
<1>4. claims[Ident(c)] = c => c \notin todo
  BY <1>3 DEF LimitInv, OrderInv, Configs
<1>5. PICK d \in Configs : PassStep(d)
  <2>1. ~BeginPass /\ ~Shutdown /\ ~Restart /\ ~Tick
    BY <1>2 DEF BeginPass, Shutdown, Restart, Tick
  <2>2. ~EndPass
    BY <1>1, <1>3 DEF EndPass, StopAndDelete
  <2>3. \A k \in SessionKinds : ~EndSession(k) /\ \A i \in Idents : ~StartSession(k, i)
    BY <1>2 DEF EndSession, StartSession
  <2>4. ~Environment
    <3>1. ASSUME NEW d \in Configs, NEW s \in {"run", "hung", "exited"}, ChildChanges(d, s)
          PROVE  FALSE
      <4>1. states' = [states EXCEPT ![d].proc = s]
        BY <3>1 DEF ChildChanges
      <4>2. states'[c].proc = s \/ states'[c] = states[c]
        BY <1>1, <4>1 DEF State
      <4> QED
        BY <1>1, <4>2 DEF HasProcess
    <3>2. ASSUME states' = states
          PROVE  FALSE
      BY <1>1, <3>2
    <3> QED
      BY <3>1, <3>2 DEF Environment, WriteFile, ReadRaces, ChangeMode, ChangeDirMode, Rebind,
                        ChangeHost
  <2> QED
    BY <2>1, <2>2, <2>3, <2>4 DEF Next, Owner
<1>6. d = c
  <2> SUFFICES ASSUME d # c
               PROVE  states'[c] = states[c]
    BY <1>1
  <2>1. CASE Refuse(d) \/ SkipForSession(d) \/ SkipDuplicate(d)
    BY <1>1, <2>1 DEF Refuse, SkipForSession, SkipDuplicate, StopAndDelete
  <2>2. CASE \/ HoldUpdate(d) \/ ValidateUpdate(d) \/ StartChanged(d) \/ WatchdogStops(d)
             \/ ReapExited(d) \/ KeepRunning(d) \/ WaitForRetry(d) \/ StartAgain(d)
    BY <1>1, <2>2 DEF HoldUpdate, ValidateUpdate, StartChanged, WatchdogStops, ReapExited,
                      KeepRunning, WaitForRetry, StartAgain
  <2>3. CASE \/ SnapshotFails(d) \/ TakeSnapshot(d) \/ DryRunFails(d) \/ DryRunPasses(d)
             \/ LaunchAborts(d) \/ LaunchFails(d) \/ LaunchSucceeds(d)
    BY <1>1, <2>3 DEF SnapshotFails, TakeSnapshot, DryRunFails, DryRunPasses, LaunchAborts,
                      LaunchFails, LaunchSucceeds, ValidationFails
  <2> QED
    BY <1>5, <2>1, <2>2, <2>3 DEF PassStep
<1>7. ~Refuse(c) /\ ~SkipForSession(c)
  BY <1>3 DEF Refuse, SkipForSession
<1>8. ~SkipDuplicate(c)
  BY <1>3, <1>4 DEF SkipDuplicate, Inspected, Current
<1>9. ~HoldUpdate(c) /\ ~ValidateUpdate(c) /\ ~TakeSnapshot(c)
  BY <1>1 DEF HoldUpdate, ValidateUpdate, TakeSnapshot
<1>10. ~StartChanged(c) /\ ~WaitForRetry(c) /\ ~StartAgain(c)
  BY <1>1 DEF StartChanged, WaitForRetry, StartAgain
<1>11. ~WatchdogStops(c) /\ ~ReapExited(c)
  BY DEF WatchdogStops, ReapExited, Expired
<1>12. ~KeepRunning(c)
  BY <1>1, HealthCheckedFacts DEF KeepRunning, HasProcess
<1>13. ~SnapshotFails(c) /\ ~DryRunFails(c)
  <2>1. ASSUME NEW why \in {"missing", "changed", "rejected"}, ValidationFails(c, why),
               pass.cfg = c, Working
        PROVE  FALSE
    <3>1. pass.why = "update"
      BY <1>1, <2>1 DEF PassInv, TypeOK
    <3>2. states'[c] = IF why = "changed" THEN states[c]
                       ELSE ScheduleRetry([states[c] EXCEPT !.pend = pass.sig])
      BY <1>1, <2>1, <3>1 DEF ValidationFails
    <3>3. PICK t : t = [states[c] EXCEPT !.pend = pass.sig]
      OBVIOUS
    <3>4. t \in State /\ t.proc = states[c].proc
      BY <1>1, <3>3 DEF State, TypeOK
    <3>5. ScheduleRetry(t).proc = states[c].proc
      BY <3>4, ScheduleRetryFacts
    <3> QED
      BY <1>1, <3>2, <3>3, <3>5 DEF HasProcess
  <2>2. ReadError(c) \in {"missing", "changed"}
    BY DEF ReadError
  <2> QED
    BY <2>1, <2>2 DEF SnapshotFails, DryRunFails, Working
<1>14. ~LaunchAborts(c) /\ ~LaunchFails(c) /\ ~LaunchSucceeds(c)
  BY <1>1 DEF LaunchAborts, LaunchFails, LaunchSucceeds, PassInv, Working
<1>15. DryRunPasses(c)
  BY <1>5, <1>6, <1>7, <1>8, <1>9, <1>10, <1>11, <1>12, <1>13, <1>14 DEF PassStep
<1>16. pass.why = "update"
  BY <1>1, <1>15 DEF DryRunPasses
<1> QED
  BY <1>15, <1>16

\* A pass stops the running child of a file that may run only to replace it,
\* after the dry run accepted the new content, and while the file still holds
\* it (startConfig, validateConfigSnapshot).
THEOREM UpdatesReplaceWhenValid == Spec => UpdateReplacesOnlyWhenValid
<1>1. IInv /\ LimitInv /\ [Next]_vars =>
        [\A c \in Configs :
           /\ pass.at \notin {"idle", "down"}
           /\ Entitled(c)
           /\ states[c].proc = "run"
           /\ ~HasProcess(states'[c])
           => /\ pass.at = "dryrun" /\ pass.cfg = c
              /\ pass.sig \in Good
              /\ file[c] = pass.sig]_vars
  <2>1. ASSUME IInv, LimitInv, Next, NEW c \in Configs,
               pass.at \notin {"idle", "down"}, Entitled(c),
               states[c].proc = "run", ~HasProcess(states'[c])
        PROVE  /\ pass.at = "dryrun" /\ pass.cfg = c
               /\ pass.sig \in Good
               /\ file[c] = pass.sig
    BY <2>1, ReplaceStep DEF Underway, DryRunPasses, DryRunAccepts, IInv, PassInv
  <2> QED
    BY <2>1
<1> QED
  BY <1>1, LimitInvariance, PTL DEF Spec, UpdateReplacesOnlyWhenValid
=============================================================================
