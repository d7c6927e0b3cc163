------------------------------- MODULE Broker -------------------------------
(***************************************************************************)
(* The privileged broker: BrokerAuthorizer (broker.go), its snapshot store *)
(* (broker_snapshot.go) and the wire handler (broker_wire.go).             *)
(*                                                                         *)
(* The broker stages a private copy of a snapshot, registers a grant for   *)
(* it, authorises one start with that grant over the wire, and hands the   *)
(* copy to the launcher.  Every call of the authorizer holds its mutex;    *)
(* between two calls of one start any other transport may run.  A failed   *)
(* hand-off is therefore two steps: OpenAuthorization, then AbortStart.    *)
(*                                                                         *)
(* The daemon around these calls is not part of the repository.  It is     *)
(* assumed to do what their comments ask of it: stage before registering,  *)
(* register each staged copy once, and launch through PrepareBrokerLaunch. *)
(***************************************************************************)
EXTENDS Integers, Sequences

CONSTANTS
  Users,           \* identities the transport authenticates
  Configurations,
  Snapshots,       \* opaque snapshot identifiers
  Requests,        \* wire requests, each handled once
  None,            \* no grant, no reservation, no snapshot
  MaxTime,         \* bound on the clock
  MaxAudit         \* maxBrokerAuditEntries

ASSUME BrokerAssumption ==
  /\ None \notin Snapshots
  /\ MaxTime \in Nat
  /\ MaxAudit \in Nat \ {0}

VARIABLES
  now,      \* the injected clock
  stage,    \* the Stage call and the file of each copy; its grant's expiry
  grants,   \* a.grants, by user and snapshot
  active,   \* a.active, by user and configuration
  audit,    \* a.audit, oldest first
  start     \* what each wire request has become

vars == <<now, stage, grants, active, audit, start>>

Time   == 0 .. MaxTime
Pairs  == Users \X Configurations
Copies == Users \X Configurations \X Snapshots

\* "stop" stands for cancel too: validation and authorisation treat them alike.
Operations == {"start", "stop", "other"}

Frames ==
  [op : Operations, user : Users, cfg : Configurations, snap : Snapshots \cup {None}]

Codes ==
  {"authorized", "launch_aborted", "already_active", "not_found", "expired",
   "unauthorized"}

Entries == [op : Operations, user : Users, cfg : Configurations,
            snap : Snapshots \cup {None}, code : Codes]

Stages == {"none", "copying", "staged", "registered", "refused"}

\* A request is unread, answered, or follows its start: authorised, handed to
\* the launcher, failing (before AbortStart), failed.
Phases == {"new", "answered", "authorized", "launched", "failing", "failed"}

Init ==
  /\ now = 0
  /\ stage = [k \in Copies |-> [at |-> "none", exp |-> 0]]
  /\ grants = [g \in Users \X Snapshots |-> None]
  /\ active = [p \in Pairs |-> None]
  /\ audit = << >>
  /\ start = [r \in Requests |-> [at |-> "new", copy |-> None]]

-----------------------------------------------------------------------------
(* Staging and registration.                                               *)

\* validateGrant and the exclusive creation of the file.
StageBegins(u, c, s, exp) ==
  /\ exp > now
  /\ stage[<<u, c, s>>].at = "none"
  /\ stage' = [stage EXCEPT ![<<u, c, s>>] = [at |-> "copying", exp |-> exp]]
  /\ UNCHANGED <<now, grants, active, audit, start>>

\* Too large, or the copy cannot be written: the file is removed.
StageFails(u, c, s) ==
  /\ stage[<<u, c, s>>].at = "copying"
  /\ stage' = [stage EXCEPT ![<<u, c, s>>].at = "none"]
  /\ UNCHANGED <<now, grants, active, audit, start>>

StageEnds(u, c, s) ==
  /\ stage[<<u, c, s>>].at = "copying"
  /\ stage' = [stage EXCEPT ![<<u, c, s>>].at = "staged"]
  /\ UNCHANGED <<now, grants, active, audit, start>>

Registrable(u, c, s) == stage[<<u, c, s>>].exp > now /\ grants[<<u, s>>] = None

RegisterGrant(u, c, s) ==
  /\ stage[<<u, c, s>>].at = "staged"
  /\ Registrable(u, c, s)
  /\ grants' = [grants EXCEPT ![<<u, s>>] = [cfg |-> c, exp |-> stage[<<u, c, s>>].exp]]
  /\ stage' = [stage EXCEPT ![<<u, c, s>>].at = "registered"]
  /\ UNCHANGED <<now, active, audit, start>>

\* The expiry has passed meanwhile, or the identifier has a grant already.
RegisterRefused(u, c, s) ==
  /\ stage[<<u, c, s>>].at = "staged"
  /\ ~Registrable(u, c, s)
  /\ stage' = [stage EXCEPT ![<<u, c, s>>].at = "refused"]
  /\ UNCHANGED <<now, grants, active, audit, start>>

-----------------------------------------------------------------------------
(* The audit ring.                                                         *)

Entry(q, code) ==
  [op |-> q.op, user |-> q.user, cfg |-> q.cfg, snap |-> q.snap, code |-> code]

Recorded_DropsNewest(e) ==  \* mutation: a full ring keeps its oldest entries
  IF Len(audit) = MaxAudit THEN audit ELSE Append(audit, e)

\* recordAudit and recordAbort.
Recorded(e) ==
  IF Len(audit) = MaxAudit THEN Append(Tail(audit), e) ELSE Append(audit, e)

-----------------------------------------------------------------------------
(* HandleBrokerWireRequest: validation, then Authorize under the mutex.    *)

Valid(q) ==
  \/ q.op = "start" /\ q.snap # None
  \/ q.op = "stop" /\ q.snap = None

Answered(r) == start' = [start EXCEPT ![r].at = "answered"]

\* A malformed or unsupported frame closes the connection and is not audited.
CloseConnection(r, q) ==
  /\ ~Valid(q)
  /\ start[r].at = "new"
  /\ Answered(r)
  /\ UNCHANGED <<now, stage, grants, active, audit>>

Grant(q) == grants[<<q.user, q.snap>>]

Expired(q) == Grant(q) # None /\ Grant(q).exp <= now

\* Why Authorize refuses a start, in the order of its checks.
Refusal(q) ==
  IF active[<<q.user, q.cfg>>] # None THEN "already_active"
  ELSE IF Grant(q) = None THEN "not_found"
  ELSE IF Expired(q) THEN "expired"
  ELSE IF Grant(q).cfg # q.cfg THEN "unauthorized"
  ELSE "authorized"

\* An expired grant is dropped when it is met.
StartRefused(r, q) ==
  /\ Valid(q) /\ q.op = "start"
  /\ start[r].at = "new"
  /\ Refusal(q) # "authorized"
  /\ grants' = IF Refusal(q) = "expired"
               THEN [grants EXCEPT ![<<q.user, q.snap>>] = None] ELSE grants
  /\ audit' = Recorded(Entry(q, Refusal(q)))
  /\ Answered(r)
  /\ UNCHANGED <<now, stage, active>>

StartAuthorized_KeepsGrant(r, q) ==  \* mutation: the grant is not consumed
  /\ Valid(q) /\ q.op = "start"
  /\ start[r].at = "new"
  /\ Refusal(q) = "authorized"
  /\ active' = [active EXCEPT ![<<q.user, q.cfg>>] = q.snap]
  /\ audit' = Recorded(Entry(q, "authorized"))
  /\ start' = [start EXCEPT ![r] =
                 [at |-> "authorized", copy |-> <<q.user, q.cfg, q.snap>>]]
  /\ UNCHANGED <<now, stage, grants>>

StartAuthorized(r, q) ==
  /\ Valid(q) /\ q.op = "start"
  /\ start[r].at = "new"
  /\ Refusal(q) = "authorized"
  /\ grants' = [grants EXCEPT ![<<q.user, q.snap>>] = None]
  /\ active' = [active EXCEPT ![<<q.user, q.cfg>>] = q.snap]
  /\ audit' = Recorded(Entry(q, "authorized"))
  /\ start' = [start EXCEPT ![r] =
                 [at |-> "authorized", copy |-> <<q.user, q.cfg, q.snap>>]]
  /\ UNCHANGED <<now, stage>>

\* stop and cancel release the caller's own reservation.
StopAuthorized(r, q) ==
  /\ Valid(q) /\ q.op = "stop"
  /\ start[r].at = "new"
  /\ active[<<q.user, q.cfg>>] # None
  /\ active' = [active EXCEPT ![<<q.user, q.cfg>>] = None]
  /\ audit' = Recorded(Entry(q, "authorized"))
  /\ Answered(r)
  /\ UNCHANGED <<now, stage, grants>>

StopRefused(r, q) ==
  /\ Valid(q) /\ q.op = "stop"
  /\ start[r].at = "new"
  /\ active[<<q.user, q.cfg>>] = None
  /\ audit' = Recorded(Entry(q, "not_found"))
  /\ Answered(r)
  /\ UNCHANGED <<now, stage, grants, active>>

-----------------------------------------------------------------------------
(* PrepareBrokerLaunch, outside the mutex until AbortStart takes it.       *)

HandedOver(r) ==
  /\ start[r].at = "authorized"
  /\ start' = [start EXCEPT ![r].at = "launched"]
  /\ UNCHANGED <<now, stage, grants, active, audit>>

HandoffFails_NoAbort(r) ==  \* mutation: returns the error without aborting
  /\ start[r].at = "authorized"
  /\ start' = [start EXCEPT ![r].at = "failed"]
  /\ UNCHANGED <<now, stage, grants, active, audit>>

\* The copy is missing, altered, too large or unreadable.
HandoffFails(r) ==
  /\ start[r].at = "authorized"
  /\ start' = [start EXCEPT ![r].at = "failing"]
  /\ UNCHANGED <<now, stage, grants, active, audit>>

PairOf(r) == <<start[r].copy[1], start[r].copy[2]>>

Holds_Pair(r) == active[PairOf(r)] # None  \* mutation: any reservation of the pair

Holds(r) == active[PairOf(r)] = start[r].copy[3]

AbortEntry(r) ==
  [op |-> "start", user |-> start[r].copy[1], cfg |-> start[r].copy[2],
   snap |-> start[r].copy[3], code |-> "launch_aborted"]

AbortStart(r) ==
  /\ start[r].at = "failing"
  /\ Holds(r)
  /\ active' = [active EXCEPT ![PairOf(r)] = None]
  /\ audit' = Recorded(AbortEntry(r))
  /\ start' = [start EXCEPT ![r].at = "failed"]
  /\ UNCHANGED <<now, stage, grants>>

\* The reservation was released meanwhile, and perhaps taken again.
AbortFindsNothing(r) ==
  /\ start[r].at = "failing"
  /\ ~Holds(r)
  /\ start' = [start EXCEPT ![r].at = "failed"]
  /\ UNCHANGED <<now, stage, grants, active, audit>>

Tick ==
  /\ now < MaxTime
  /\ now' = now + 1
  /\ UNCHANGED <<stage, grants, active, audit, start>>

-----------------------------------------------------------------------------

Staging ==
  \E u \in Users, c \in Configurations, s \in Snapshots :
    \/ \E exp \in Time : StageBegins(u, c, s, exp)
    \/ StageFails(u, c, s)
    \/ StageEnds(u, c, s)
    \/ RegisterGrant(u, c, s)
    \/ RegisterRefused(u, c, s)

Handle ==
  \E r \in Requests, q \in Frames :
    \/ CloseConnection(r, q)
    \/ StartRefused(r, q)
    \/ StartAuthorized(r, q)
    \/ StopAuthorized(r, q)
    \/ StopRefused(r, q)

Launch ==
  \E r \in Requests :
    \/ HandedOver(r)
    \/ HandoffFails(r)
    \/ AbortStart(r)
    \/ AbortFindsNothing(r)

Next == Staging \/ Handle \/ Launch \/ Tick

Spec == Init /\ [][Next]_vars

-----------------------------------------------------------------------------
(* Properties.                                                             *)

\* Shape of the state; the audit ring stays within its limit.
TypeOK ==
  /\ now \in Time
  /\ stage \in [Copies -> [at : Stages, exp : Time]]
  /\ grants \in [Users \X Snapshots -> {None} \cup [cfg : Configurations, exp : Time]]
  /\ active \in [Pairs -> Snapshots \cup {None}]
  /\ audit \in Seq(Entries) /\ Len(audit) <= MaxAudit
  /\ start \in [Requests -> [at : Phases, copy : Copies \cup {None}]]

Started(r) == start[r].at \in {"authorized", "launched", "failing", "failed"}

\* One staged copy authorises at most one start, ever: not a second one after
\* its first was stopped or aborted, nor one of another configuration.
SingleUse ==
  \A r, t \in Requests :
    Started(r) /\ Started(t) /\ start[r].copy = start[t].copy => r = t

\* A reservation in active belongs to a start that is under way or was handed
\* to the launcher.  A start whose hand-off failed never keeps one, so it does
\* not block a later revision of its configuration.
ReservationOwned ==
  \A p \in Pairs :
    active[p] # None =>
      \E r \in Requests :
        /\ start[r].at \in {"authorized", "launched", "failing"}
        /\ start[r].copy = <<p[1], p[2], active[p]>>

\* Request r ends as the abort of exactly the start that reserved p.
AbortsOwn(r, p) ==
  /\ start[r].at = "failing" /\ start'[r].at = "failed"
  /\ start[r].copy = <<p[1], p[2], active[p]>>

\* A reservation disappears only through an answered stop, or through the abort
\* of the start that made it: a late AbortStart never releases the reservation
\* of a newer start of the same configuration.
ReleasedByOwner ==
  [][\A p \in Pairs :
       active[p] # None /\ active'[p] # active[p] =>
         \E r \in Requests :
           \/ AbortsOwn(r, p)
           \/ start[r].at = "new" /\ start'[r].at = "answered"]_vars

Settles(e, p) ==
  <<e.user, e.cfg>> = p /\ e.code \in {"authorized", "launch_aborted"}

Newest(i, p) ==
  Settles(audit[i], p) /\ \A j \in DOMAIN audit : j > i => ~Settles(audit[j], p)

Outcome(e) == IF e.op = "start" /\ e.code = "authorized" THEN e.snap ELSE None

\* The newest entry of the trail that concerns a user and configuration tells
\* whether it is active and with which snapshot, however often the ring wrapped.
AuditAgrees ==
  \A p \in Pairs : \A i \in DOMAIN audit : Newest(i, p) => active[p] = Outcome(audit[i])

-----------------------------------------------------------------------------
(* The inductive invariant behind the theorems of BrokerProofs.            *)

\* A registered copy is either still granted or has been used: an outstanding
\* grant was never used, and a start used a copy that was registered.
GrantInv ==
  /\ \A u \in Users, c \in Configurations, s \in Snapshots :
       grants[<<u, s>>] # None /\ grants[<<u, s>>].cfg = c =>
         /\ stage[<<u, c, s>>].at = "registered"
         /\ \A r \in Requests : Started(r) => start[r].copy # <<u, c, s>>
  /\ \A r \in Requests : Started(r) =>
       start[r].copy \in Copies /\ stage[start[r].copy].at = "registered"

IInv == TypeOK /\ GrantInv /\ SingleUse /\ ReservationOwned /\ AuditAgrees
=============================================================================
