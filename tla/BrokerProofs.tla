---------------------------- MODULE BrokerProofs ----------------------------
(***************************************************************************)
(* Proofs for Broker: any number of users, configurations, snapshots and   *)
(* concurrent requests, any clock bound and any size of the audit ring.    *)
(***************************************************************************)
EXTENDS Broker, SequenceTheorems, TLAPS

(* The audit ring.                                                         *)

\* recordAudit and recordAbort drop at most the oldest entry, keep the others
\* in order and put the new one last.
LEMMA RecordedFacts ==
  ASSUME NEW e \in Entries, audit \in Seq(Entries), Len(audit) <= MaxAudit
  PROVE  /\ Recorded(e) \in Seq(Entries)
         /\ Len(Recorded(e)) <= MaxAudit
         /\ Len(Recorded(e)) \in Nat \ {0}
         /\ Recorded(e)[Len(Recorded(e))] = e
         /\ \E d \in {0, 1} :
              /\ Len(Recorded(e)) = Len(audit) + 1 - d
              /\ \A i \in 1 .. (Len(Recorded(e)) - 1) :
                   i + d \in 1 .. Len(audit) /\ Recorded(e)[i] = audit[i + d]
<1>1. MaxAudit \in Nat \ {0} /\ Len(audit) \in Nat
  BY BrokerAssumption DEF BrokerAssumption
<1>2. CASE Len(audit) = MaxAudit
  <2>1. audit # << >>
    BY <1>1, <1>2
  <2>2. /\ Tail(audit) \in Seq(Entries)
        /\ Len(Tail(audit)) = Len(audit) - 1
        /\ \A i \in 1 .. (Len(audit) - 1) : Tail(audit)[i] = audit[i + 1]
    BY <2>1, <1>1
  <2>3. /\ Recorded(e) = Append(Tail(audit), e)
        /\ Recorded(e) \in Seq(Entries)
        /\ Len(Recorded(e)) = Len(audit)
        /\ Recorded(e)[Len(audit)] = e
        /\ \A i \in 1 .. (Len(audit) - 1) : Recorded(e)[i] = Tail(audit)[i]
    BY <1>1, <1>2, <2>2 DEF Recorded
  <2>4. \A i \in 1 .. (Len(Recorded(e)) - 1) :
          i + 1 \in 1 .. Len(audit) /\ Recorded(e)[i] = audit[i + 1]
    BY <1>1, <2>2, <2>3
  <2> QED
    BY <1>1, <1>2, <2>3, <2>4
<1>3. CASE Len(audit) # MaxAudit
  <2>1. /\ Recorded(e) = Append(audit, e)
        /\ Recorded(e) \in Seq(Entries)
        /\ Len(Recorded(e)) = Len(audit) + 1
        /\ Recorded(e)[Len(audit) + 1] = e
        /\ \A i \in 1 .. Len(audit) : Recorded(e)[i] = audit[i]
    BY <1>1, <1>3 DEF Recorded
  <2>2. \A i \in 1 .. (Len(Recorded(e)) - 1) :
          i + 0 \in 1 .. Len(audit) /\ Recorded(e)[i] = audit[i + 0]
    BY <1>1, <2>1
  <2> QED
    BY <1>1, <1>3, <2>1, <2>2
<1> QED
  BY <1>2, <1>3

\* A step that records e and changes active as e tells keeps the trail honest.
LEMMA AuditStep ==
  ASSUME TypeOK, AuditAgrees, NEW e \in Entries,
         audit' = Recorded(e),
         \A p \in Pairs : active'[p] = IF Settles(e, p) THEN Outcome(e) ELSE active[p]
  PROVE  AuditAgrees'
<1> DEFINE n == Len(audit')
<1>1. /\ audit' \in Seq(Entries)
      /\ n \in Nat \ {0}
      /\ audit'[n] = e
      /\ Len(audit) \in Nat
  BY RecordedFacts DEF TypeOK
<1>0. \E d \in {0, 1} :
        /\ Len(Recorded(e)) = Len(audit) + 1 - d
        /\ \A i \in 1 .. (Len(Recorded(e)) - 1) :
             i + d \in 1 .. Len(audit) /\ Recorded(e)[i] = audit[i + d]
  BY RecordedFacts DEF TypeOK
<1>2. PICK d \in {0, 1} :
        /\ n = Len(audit) + 1 - d
        /\ \A i \in 1 .. (n - 1) : i + d \in 1 .. Len(audit) /\ audit'[i] = audit[i + d]
  BY <1>0, Zenon
<1>3. DOMAIN audit' = 1 .. n /\ DOMAIN audit = 1 .. Len(audit)
  BY <1>1 DEF TypeOK
<1> HIDE DEF n
<1> SUFFICES ASSUME NEW p \in Pairs, NEW i \in 1 .. n,
                    Settles(audit'[i], p),
                    \A j \in 1 .. n : j > i => ~Settles(audit'[j], p)
             PROVE  active'[p] = Outcome(audit'[i])
  BY <1>3 DEF AuditAgrees, Newest, Settles, Outcome
<1>4. CASE Settles(e, p)
  <2>1. i = n
    BY <1>1, <1>4
  <2> QED
    BY <1>1, <1>4, <2>1
<1>5. CASE ~Settles(e, p)
  <2>1. i \in 1 .. (n - 1)
    BY <1>1, <1>5
  <2>2. i + d \in 1 .. Len(audit) /\ audit'[i] = audit[i + d]
    BY <1>2, <2>1
  <2>3. ASSUME NEW j \in 1 .. Len(audit), j > i + d
        PROVE  ~Settles(audit[j], p)
    <3>1. j - d \in 1 .. (n - 1) /\ j - d > i /\ (j - d) + d = j
      BY <1>1, <1>2, <2>1, <2>3
    <3>2. audit'[j - d] = audit[j]
      BY <1>2, <3>1
    <3> QED
      BY <1>1, <3>1, <3>2
  <2>4. Newest(i + d, p)
    BY <1>3, <2>2, <2>3 DEF Newest
  <2>5. active[p] = Outcome(audit[i + d])
    BY <1>3, <2>2, <2>4 DEF AuditAgrees
  <2> QED
    BY <1>5, <2>2, <2>5
<1> QED
  BY <1>4, <1>5

-----------------------------------------------------------------------------
(* One lemma per conjunct of IInv that needs the actions one by one.       *)

\* The pair, and the trail's entry, of a start that is under way.
LEMMA CopyFacts ==
  ASSUME TypeOK, GrantInv, NEW r \in Requests, Started(r)
  PROVE  /\ PairOf(r) \in Pairs
         /\ start[r].copy[3] \in Snapshots
         /\ start[r].copy = <<PairOf(r)[1], PairOf(r)[2], start[r].copy[3]>>
         /\ AbortEntry(r) \in Entries
<1>1. start[r].copy \in Users \X Configurations \X Snapshots
  BY DEF GrantInv, Copies
<1> QED
  BY <1>1 DEF PairOf, Pairs, AbortEntry, Entries, Operations, Codes

\* A step of one request leaves its copy and all other requests alone.
LEMMA Moved ==
  ASSUME TypeOK, NEW r \in Requests, NEW a \in Phases,
         start' = [start EXCEPT ![r].at = a]
  PROVE  /\ start' \in [Requests -> [at : Phases, copy : Copies \cup {None}]]
         /\ start'[r].at = a
         /\ start'[r].copy = start[r].copy
         /\ \A t \in Requests : t # r => start'[t] = start[t]
  BY DEF TypeOK

\* A step of one Stage call leaves all other copies alone.
LEMMA StageMoved ==
  ASSUME TypeOK, NEW k \in Copies, NEW a \in Stages,
         stage' = [stage EXCEPT ![k].at = a]
  PROVE  /\ stage' \in [Copies -> [at : Stages, exp : Time]]
         /\ stage'[k].at = a
         /\ \A l \in Copies : l # k => stage'[l] = stage[l]
  BY DEF TypeOK

\* Every action keeps the types.
LEMMA TypeStep == TypeOK /\ GrantInv /\ [Next]_vars => TypeOK'
<1> SUFFICES ASSUME TypeOK, GrantInv, [Next]_vars
             PROVE  TypeOK'
  OBVIOUS
<1> USE DEF TypeOK
<1>1. ASSUME NEW u \in Users, NEW c \in Configurations, NEW s \in Snapshots,
             \/ \E exp \in Time : StageBegins(u, c, s, exp)
             \/ StageFails(u, c, s)
             \/ StageEnds(u, c, s)
             \/ RegisterGrant(u, c, s)
             \/ RegisterRefused(u, c, s)
      PROVE  TypeOK'
  <2>1. <<u, c, s>> \in Copies /\ <<u, s>> \in Users \X Snapshots
    BY DEF Copies
  <2>2. CASE \E exp \in Time : StageBegins(u, c, s, exp)
    BY <2>1, <2>2 DEF StageBegins, Stages
  <2>3. CASE StageFails(u, c, s) \/ StageEnds(u, c, s) \/ RegisterRefused(u, c, s)
    <3>1. /\ UNCHANGED <<now, grants, active, audit, start>>
          /\ \E a \in Stages : stage' = [stage EXCEPT ![<<u, c, s>>].at = a]
      BY <2>3 DEF StageFails, StageEnds, RegisterRefused, Stages
    <3> QED
      BY <2>1, <3>1, StageMoved
  <2>4. CASE RegisterGrant(u, c, s)
    <3>1. /\ UNCHANGED <<now, active, audit, start>>
          /\ stage' = [stage EXCEPT ![<<u, c, s>>].at = "registered"]
      BY <2>4 DEF RegisterGrant
    <3>2. stage' \in [Copies -> [at : Stages, exp : Time]]
      BY <2>1, <3>1, StageMoved DEF Stages
    <3>3. [cfg |-> c, exp |-> stage[<<u, c, s>>].exp] \in [cfg : Configurations, exp : Time]
      BY <2>1
    <3>4. grants' = [grants EXCEPT ![<<u, s>>] = [cfg |-> c, exp |-> stage[<<u, c, s>>].exp]]
      BY <2>4 DEF RegisterGrant
    <3>5. grants' \in [Users \X Snapshots -> {None} \cup [cfg : Configurations, exp : Time]]
      BY <3>3, <3>4
    <3> QED
      BY <3>1, <3>2, <3>5
  <2> QED
    BY <1>1, <2>2, <2>3, <2>4
<1>2. ASSUME NEW r \in Requests, NEW q \in Frames,
             \/ CloseConnection(r, q)
             \/ StartRefused(r, q)
             \/ StartAuthorized(r, q)
             \/ StopAuthorized(r, q)
             \/ StopRefused(r, q)
      PROVE  TypeOK'
  <2>1. /\ <<q.user, q.cfg>> \in Pairs
        /\ q.op = "start" /\ Valid(q) => <<q.user, q.cfg, q.snap>> \in Copies
        /\ q.op = "start" /\ Valid(q) => q.snap \in Snapshots
    BY DEF Frames, Pairs, Copies, Valid
  <2>2. /\ Entry(q, "authorized") \in Entries
        /\ Entry(q, "not_found") \in Entries
        /\ Entry(q, Refusal(q)) \in Entries
    BY DEF Entry, Entries, Frames, Codes, Refusal
  <2>3. UNCHANGED <<now, stage>>
    BY <1>2 DEF CloseConnection, StartRefused, StartAuthorized, StopAuthorized, StopRefused
  <2>4. grants' \in [Users \X Snapshots -> {None} \cup [cfg : Configurations, exp : Time]]
    BY <1>2 DEF CloseConnection, StartRefused, StartAuthorized, StopAuthorized, StopRefused
  <2>5. active' \in [Pairs -> Snapshots \cup {None}]
    BY <1>2, <2>1 DEF CloseConnection, StartRefused, StartAuthorized, StopAuthorized,
                      StopRefused
  <2>6. audit' \in Seq(Entries) /\ Len(audit') <= MaxAudit
    <3>1. UNCHANGED audit \/ \E e \in Entries : audit' = Recorded(e)
      BY <1>2, <2>2
         DEF CloseConnection, StartRefused, StartAuthorized, StopAuthorized, StopRefused
    <3> QED
      BY <3>1, RecordedFacts
  <2>7. start' \in [Requests -> [at : Phases, copy : Copies \cup {None}]]
    <3>1. CASE StartAuthorized(r, q)
      BY <2>1, <3>1 DEF StartAuthorized, Phases
    <3>2. CASE ~StartAuthorized(r, q)
      <4>1. start' = [start EXCEPT ![r].at = "answered"]
        BY <1>2, <3>2 DEF CloseConnection, StartRefused, StopAuthorized, StopRefused, Answered
      <4> QED
        BY <4>1, Moved DEF Phases
    <3> QED
      BY <3>1, <3>2
  <2> QED
    BY <2>3, <2>4, <2>5, <2>6, <2>7
<1>3. ASSUME NEW r \in Requests,
             HandedOver(r) \/ HandoffFails(r) \/ AbortFindsNothing(r)
      PROVE  TypeOK'
  <2>1. /\ UNCHANGED <<now, stage, grants, active, audit>>
        /\ \E a \in Phases : start' = [start EXCEPT ![r].at = a]
    BY <1>3 DEF HandedOver, HandoffFails, AbortFindsNothing, Phases
  <2> QED
    BY <2>1, Moved
<1>4. ASSUME NEW r \in Requests, AbortStart(r)
      PROVE  TypeOK'
  <2>1. AbortEntry(r) \in Entries
    BY <1>4, CopyFacts DEF AbortStart, Started
  <2>2. audit' \in Seq(Entries) /\ Len(audit') <= MaxAudit
    BY <1>4, <2>1, RecordedFacts DEF AbortStart
  <2>3. start' \in [Requests -> [at : Phases, copy : Copies \cup {None}]]
    BY <1>4, Moved DEF AbortStart, Phases
  <2> QED
    BY <1>4, <2>2, <2>3 DEF AbortStart
<1>5. ASSUME Tick
      PROVE  TypeOK'
  BY <1>5, BrokerAssumption DEF Tick, Time, BrokerAssumption
<1>6. ASSUME UNCHANGED vars
      PROVE  TypeOK'
  BY <1>6 DEF vars
<1> QED
  BY <1>1, <1>2, <1>3, <1>4, <1>5, <1>6 DEF Next, Staging, Handle, Launch

\* A copy is staged, registered, granted and used in this order, once.
LEMMA GrantStep == TypeOK /\ GrantInv /\ [Next]_vars => GrantInv'
<1> SUFFICES ASSUME TypeOK, GrantInv, [Next]_vars
             PROVE  GrantInv'
  OBVIOUS
<1> USE DEF TypeOK
<1>1. ASSUME NEW u \in Users, NEW c \in Configurations, NEW s \in Snapshots,
             \/ \E exp \in Time : StageBegins(u, c, s, exp)
             \/ StageFails(u, c, s)
             \/ StageEnds(u, c, s)
             \/ RegisterRefused(u, c, s)
      PROVE  GrantInv'
  <2>1. /\ <<u, c, s>> \in Copies
        /\ UNCHANGED <<grants, start>>
        /\ stage[<<u, c, s>>].at # "registered"
        /\ \A k \in Copies : k # <<u, c, s>> => stage'[k] = stage[k]
    BY <1>1 DEF StageBegins, StageFails, StageEnds, RegisterRefused, Copies
  <2>2. \A k \in Copies : stage[k].at = "registered" => stage'[k].at = "registered"
    BY <2>1
  <2> QED
    BY <2>1, <2>2 DEF GrantInv, Started, Copies
<1>2. ASSUME NEW u \in Users, NEW c \in Configurations, NEW s \in Snapshots,
             RegisterGrant(u, c, s)
      PROVE  GrantInv'
  <2>1. /\ <<u, c, s>> \in Copies
        /\ <<u, s>> \in Users \X Snapshots
        /\ UNCHANGED start
        /\ stage[<<u, c, s>>].at = "staged"
        /\ \A k \in Copies : stage[k].at = "registered" => stage'[k].at = "registered"
        /\ stage'[<<u, c, s>>].at = "registered"
    BY <1>2 DEF RegisterGrant, Copies
  <2>2. \A r \in Requests : Started(r) => start[r].copy # <<u, c, s>>
    BY <2>1 DEF GrantInv
  <2>3. /\ grants'[<<u, s>>].cfg = c
        /\ \A g \in Users \X Snapshots : g # <<u, s>> => grants'[g] = grants[g]
    BY <1>2, <2>1 DEF RegisterGrant
  <2>4. ASSUME NEW v \in Users, NEW d \in Configurations, NEW t \in Snapshots,
               grants'[<<v, t>>] # None, grants'[<<v, t>>].cfg = d
        PROVE  /\ stage'[<<v, d, t>>].at = "registered"
               /\ \A r \in Requests : Started(r) => start[r].copy # <<v, d, t>>
    <3>1. CASE <<v, t>> = <<u, s>>
      BY <2>1, <2>2, <2>3, <2>4, <3>1
    <3>2. CASE <<v, t>> # <<u, s>>
      BY <2>1, <2>3, <2>4, <3>2 DEF GrantInv, Copies
    <3> QED
      BY <3>1, <3>2
  <2> QED
    BY <2>1, <2>4 DEF GrantInv, Started
<1>3. ASSUME NEW r \in Requests, NEW q \in Frames, StartAuthorized(r, q)
      PROVE  GrantInv'
  <2> DEFINE k == <<q.user, q.cfg, q.snap>>
  <2>1. /\ q.user \in Users /\ q.cfg \in Configurations /\ q.snap \in Snapshots
        /\ k \in Copies
    BY <1>3 DEF StartAuthorized, Valid, Frames, Copies
  <2>2. grants[<<q.user, q.snap>>] # None /\ grants[<<q.user, q.snap>>].cfg = q.cfg
    BY <1>3 DEF StartAuthorized, Refusal, Grant
  <2>3. stage[k].at = "registered"
    BY <2>1, <2>2 DEF GrantInv
  <2>4. /\ UNCHANGED stage
        /\ start'[r] = [at |-> "authorized", copy |-> k]
        /\ \A t \in Requests : t # r => start'[t] = start[t]
        /\ \A g \in Users \X Snapshots :
             grants'[g] = IF g = <<q.user, q.snap>> THEN None ELSE grants[g]
    BY <1>3 DEF StartAuthorized
  <2>5. ASSUME NEW v \in Users, NEW d \in Configurations, NEW t \in Snapshots,
               grants'[<<v, t>>] # None, grants'[<<v, t>>].cfg = d
        PROVE  /\ stage[<<v, d, t>>].at = "registered"
               /\ \A x \in Requests : Started(x)' => start'[x].copy # <<v, d, t>>
    <3>1. <<v, t>> # <<q.user, q.snap>> /\ grants'[<<v, t>>] = grants[<<v, t>>]
      BY <2>4, <2>5
    <3>2. k # <<v, d, t>>
      BY <3>1
    <3> QED
      <4>1. /\ stage[<<v, d, t>>].at = "registered"
            /\ \A x \in Requests : Started(x) => start[x].copy # <<v, d, t>>
        BY <2>5, <3>1 DEF GrantInv
      <4>2. ASSUME NEW x \in Requests, Started(x)'
            PROVE  start'[x].copy # <<v, d, t>>
        <5>1. CASE x = r
          BY <2>4, <3>2, <5>1
        <5>2. CASE x # r
          BY <2>4, <4>1, <4>2, <5>2 DEF Started
        <5> QED
          BY <5>1, <5>2
      <4> QED
        BY <4>1, <4>2
  <2>6. \A x \in Requests : Started(x)' =>
          start'[x].copy \in Copies /\ stage[start'[x].copy].at = "registered"
    <3>1. ASSUME NEW x \in Requests, Started(x)', x # r
          PROVE  start'[x].copy \in Copies /\ stage[start'[x].copy].at = "registered"
      BY <2>4, <3>1 DEF GrantInv, Started
    <3>2. start'[r].copy = k
      BY <2>4
    <3> HIDE DEF k
    <3> QED
      BY <2>1, <2>3, <3>1, <3>2
  <2> QED
    BY <2>4, <2>5, <2>6 DEF GrantInv
<1>4. ASSUME UNCHANGED stage,
             \A g \in Users \X Snapshots : grants'[g] \in {None, grants[g]},
             \A x \in Requests : start'[x].copy = start[x].copy /\ (Started(x)' => Started(x))
      PROVE  GrantInv'
  <2>1. ASSUME NEW v \in Users, NEW d \in Configurations, NEW t \in Snapshots,
               grants'[<<v, t>>] # None, grants'[<<v, t>>].cfg = d
        PROVE  /\ stage[<<v, d, t>>].at = "registered"
               /\ \A x \in Requests : Started(x)' => start'[x].copy # <<v, d, t>>
    <3>1. grants'[<<v, t>>] = grants[<<v, t>>]
      BY <1>4, <2>1
    <3> QED
      BY <1>4, <2>1, <3>1 DEF GrantInv
  <2> QED
    BY <1>4, <2>1 DEF GrantInv
<1>5. ASSUME NEW r \in Requests, NEW q \in Frames,
             \/ CloseConnection(r, q)
             \/ StartRefused(r, q)
             \/ StopAuthorized(r, q)
             \/ StopRefused(r, q)
      PROVE  GrantInv'
  <2>1. UNCHANGED stage /\ \A g \in Users \X Snapshots : grants'[g] \in {None, grants[g]}
    BY <1>5 DEF CloseConnection, StartRefused, StopAuthorized, StopRefused
  <2>2. start' = [start EXCEPT ![r].at = "answered"]
    BY <1>5 DEF CloseConnection, StartRefused, StopAuthorized, StopRefused, Answered
  <2> QED
    BY <1>4, <2>1, <2>2 DEF Started
<1>6. ASSUME NEW r \in Requests,
             HandedOver(r) \/ HandoffFails(r) \/ AbortStart(r) \/ AbortFindsNothing(r)
      PROVE  GrantInv'
  <2>1. UNCHANGED <<stage, grants>> /\ Started(r)
    BY <1>6 DEF HandedOver, HandoffFails, AbortStart, AbortFindsNothing, Started
  <2>2. \A x \in Requests : start'[x].copy = start[x].copy /\ (Started(x)' => Started(x))
    BY <1>6, <2>1 DEF HandedOver, HandoffFails, AbortStart, AbortFindsNothing, Started
  <2> QED
    BY <1>4, <2>1, <2>2
<1>7. ASSUME Tick \/ UNCHANGED vars
      PROVE  GrantInv'
  BY <1>4, <1>7 DEF Tick, vars, Started
<1> QED
  BY <1>1, <1>2, <1>3, <1>5, <1>6, <1>7 DEF Next, Staging, Handle, Launch

\* Staging and registration touch neither the authorizer's reservations nor
\* its trail, nor a request.
LEMMA StagingFrame == Staging => UNCHANGED <<now, active, audit, start>>
<1> SUFFICES ASSUME NEW u \in Users, NEW c \in Configurations, NEW s \in Snapshots,
                    \/ \E exp \in Time : StageBegins(u, c, s, exp)
                    \/ StageFails(u, c, s)
                    \/ StageEnds(u, c, s)
                    \/ RegisterGrant(u, c, s)
                    \/ RegisterRefused(u, c, s)
             PROVE  UNCHANGED <<now, active, audit, start>>
  BY DEF Staging
<1> QED
  BY DEF StageBegins, StageFails, StageEnds, RegisterGrant, RegisterRefused

\* Only StartAuthorized starts a request, and no earlier one has its copy.
LEMMA SingleUseStep == TypeOK /\ GrantInv /\ SingleUse /\ [Next]_vars => SingleUse'
<1> SUFFICES ASSUME TypeOK, GrantInv, SingleUse, [Next]_vars
             PROVE  SingleUse'
  OBVIOUS
<1>1. ASSUME \A x \in Requests : start'[x].copy = start[x].copy /\ (Started(x)' => Started(x))
      PROVE  SingleUse'
  BY <1>1 DEF SingleUse
<1>2. ASSUME NEW r \in Requests, NEW q \in Frames, StartAuthorized(r, q)
      PROVE  SingleUse'
  <2> DEFINE k == <<q.user, q.cfg, q.snap>>
  <2>1. q.user \in Users /\ q.cfg \in Configurations /\ q.snap \in Snapshots
    BY <1>2 DEF StartAuthorized, Valid, Frames
  <2>2. grants[<<q.user, q.snap>>] # None /\ grants[<<q.user, q.snap>>].cfg = q.cfg
    BY <1>2 DEF StartAuthorized, Refusal, Grant
  <2>3. \A x \in Requests : Started(x) => start[x].copy # k
    BY <2>1, <2>2 DEF GrantInv
  <2>4. /\ start'[r].copy = k
        /\ \A x \in Requests : x # r => start'[x] = start[x]
    BY <1>2 DEF StartAuthorized, TypeOK
  <2> HIDE DEF k
  <2> QED
    BY <2>3, <2>4 DEF SingleUse, Started
<1>3. ASSUME NEW r \in Requests, NEW a \in Phases,
             start' = [start EXCEPT ![r].at = a], Started(r) \/ a = "answered"
      PROVE  SingleUse'
  BY <1>1, <1>3, Moved DEF Started
<1>4. ASSUME UNCHANGED start
      PROVE  SingleUse'
  BY <1>1, <1>4 DEF Started
<1>5. CASE Staging
  BY <1>4, <1>5, StagingFrame
<1>6. CASE Handle
  BY <1>2, <1>3, <1>6 DEF Handle, CloseConnection, StartRefused, StopAuthorized,
                          StopRefused, Answered, Phases
<1>7. CASE Launch
  BY <1>3, <1>7 DEF Launch, HandedOver, HandoffFails, AbortStart, AbortFindsNothing,
                    Started, Phases
<1>8. CASE Tick \/ UNCHANGED vars
  BY <1>4, <1>8 DEF Tick, vars
<1> QED
  BY <1>5, <1>6, <1>7, <1>8 DEF Next

\* A request that stands behind a reservation.
Owns(r, p) ==
  /\ start[r].at \in {"authorized", "launched", "failing"}
  /\ start[r].copy = <<p[1], p[2], active[p]>>

\* The owner of a reservation lets go of it only together with it.
LEMMA ReservationStep ==
  TypeOK /\ GrantInv /\ ReservationOwned /\ [Next]_vars => ReservationOwned'
<1> SUFFICES ASSUME TypeOK, GrantInv, ReservationOwned, [Next]_vars
             PROVE  ReservationOwned'
  OBVIOUS
<1>1. \A p \in Pairs : active[p] # None => \E r \in Requests : Owns(r, p)
  BY DEF ReservationOwned, Owns
<1>2. ASSUME NEW r \in Requests, NEW a \in Phases,
             start' = [start EXCEPT ![r].at = a],
             \A p \in Pairs : active'[p] # None =>
               active'[p] = active[p] /\ (Owns(r, p) => a \in {"launched", "failing"})
      PROVE  ReservationOwned'
  <2>1. ASSUME NEW p \in Pairs, active'[p] # None
        PROVE  \E x \in Requests : Owns(x, p)'
    <3>1. PICK x \in Requests : Owns(x, p)
      BY <1>1, <1>2, <2>1
    <3>2. start'[x].copy = start[x].copy /\ active'[p] = active[p]
      BY <1>2, <2>1, Moved
    <3>3. start'[x].at \in {"authorized", "launched", "failing"}
      BY <1>2, <2>1, <3>1, Moved DEF Owns
    <3> QED
      BY <3>1, <3>2, <3>3 DEF Owns
  <2> QED
    BY <2>1 DEF ReservationOwned, Owns
<1>3. ASSUME UNCHANGED <<start, active>>
      PROVE  ReservationOwned'
  BY <1>3 DEF ReservationOwned
<1>4. ASSUME NEW r \in Requests, NEW q \in Frames, StartAuthorized(r, q)
      PROVE  ReservationOwned'
  <2> DEFINE o == <<q.user, q.cfg>>
  <2>1. o \in Pairs /\ active'[o] = q.snap /\ o[1] = q.user /\ o[2] = q.cfg
    BY <1>4 DEF StartAuthorized, Frames, Pairs, TypeOK
  <2>2. /\ start'[r] = [at |-> "authorized", copy |-> <<q.user, q.cfg, q.snap>>]
        /\ \A x \in Requests : x # r => start'[x] = start[x]
        /\ start[r].at = "new"
        /\ \A p \in Pairs : p # o => active'[p] = active[p]
    BY <1>4 DEF StartAuthorized, TypeOK
  <2>3. Owns(r, o)'
    BY <2>1, <2>2 DEF Owns
  <2>4. ASSUME NEW p \in Pairs, p # o, active'[p] # None
        PROVE  \E x \in Requests : Owns(x, p)'
    <3>1. PICK x \in Requests : Owns(x, p)
      BY <1>1, <2>2, <2>4
    <3>2. x # r
      BY <2>2, <3>1 DEF Owns
    <3> QED
      BY <2>2, <2>4, <3>1, <3>2 DEF Owns
  <2> QED
    BY <2>3, <2>4 DEF ReservationOwned, Owns
<1>5. ASSUME NEW r \in Requests, NEW q \in Frames,
             \/ CloseConnection(r, q)
             \/ StartRefused(r, q)
             \/ StopAuthorized(r, q)
             \/ StopRefused(r, q)
      PROVE  ReservationOwned'
  <2>1. /\ start' = [start EXCEPT ![r].at = "answered"]
        /\ start[r].at = "new"
        /\ \A p \in Pairs : active'[p] # None => active'[p] = active[p]
    BY <1>5 DEF CloseConnection, StartRefused, StopAuthorized, StopRefused, Answered, TypeOK
  <2>2. \A p \in Pairs : ~Owns(r, p)
    BY <2>1 DEF Owns
  <2> QED
    BY <1>2, <2>1, <2>2 DEF Phases
<1>6. ASSUME NEW r \in Requests, HandedOver(r) \/ HandoffFails(r)
      PROVE  ReservationOwned'
  BY <1>2, <1>6 DEF HandedOver, HandoffFails, Phases
<1>7. ASSUME NEW r \in Requests, AbortStart(r) \/ AbortFindsNothing(r)
      PROVE  ReservationOwned'
  <2>1. Started(r) /\ start' = [start EXCEPT ![r].at = "failed"]
    BY <1>7 DEF AbortStart, AbortFindsNothing, Started
  <2>2. ASSUME NEW p \in Pairs, Owns(r, p)
        PROVE  p = PairOf(r) /\ active[p] = start[r].copy[3]
    BY <2>2 DEF Owns, PairOf, Pairs
  <2>3. PairOf(r) \in Pairs
    BY <2>1, CopyFacts
  <2>4. \A p \in Pairs : active'[p] # None => active'[p] = active[p] /\ ~Owns(r, p)
    BY <1>7, <2>2, <2>3 DEF AbortStart, AbortFindsNothing, Holds, TypeOK
  <2> QED
    BY <1>2, <2>1, <2>4 DEF Phases
<1>8. CASE Staging
  BY <1>3, <1>8, StagingFrame
<1>9. CASE Tick \/ UNCHANGED vars
  BY <1>3, <1>9 DEF Tick, vars
<1> QED
  BY <1>4, <1>5, <1>6, <1>7, <1>8, <1>9 DEF Next, Handle, Launch

\* Every action that changes active records it, and the others record only
\* refusals.
LEMMA AuditAgreesStep == TypeOK /\ GrantInv /\ AuditAgrees /\ [Next]_vars => AuditAgrees'
<1> SUFFICES ASSUME TypeOK, GrantInv, AuditAgrees, [Next]_vars
             PROVE  AuditAgrees'
  OBVIOUS
<1>1. ASSUME UNCHANGED <<active, audit>>
      PROVE  AuditAgrees'
  BY <1>1 DEF AuditAgrees, Newest
<1>2. ASSUME NEW r \in Requests, NEW q \in Frames, StartRefused(r, q) \/ StopRefused(r, q)
      PROVE  AuditAgrees'
  <2>1. PICK code \in Codes \ {"authorized", "launch_aborted"} :
          audit' = Recorded(Entry(q, code))
    BY <1>2 DEF StartRefused, StopRefused, Refusal, Codes
  <2>2. Entry(q, code) \in Entries
    BY DEF Entry, Entries, Frames
  <2>3. \A p \in Pairs : ~Settles(Entry(q, code), p)
    BY DEF Entry, Settles
  <2>4. UNCHANGED active
    BY <1>2 DEF StartRefused, StopRefused
  <2> QED
    BY <2>1, <2>2, <2>3, <2>4, AuditStep
<1>3. ASSUME NEW r \in Requests, NEW q \in Frames, StartAuthorized(r, q) \/ StopAuthorized(r, q)
      PROVE  AuditAgrees'
  <2> DEFINE e == Entry(q, "authorized")
  <2>1. e \in Entries /\ audit' = Recorded(e)
    BY <1>3 DEF StartAuthorized, StopAuthorized, Entry, Entries, Frames, Codes
  <2>2. active' = [active EXCEPT ![<<q.user, q.cfg>>] = Outcome(e)]
    BY <1>3 DEF StartAuthorized, StopAuthorized, Entry, Outcome
  <2>3. \A p \in Pairs : Settles(e, p) <=> p = <<q.user, q.cfg>>
    BY DEF Settles, Entry
  <2>4. \A p \in Pairs : active'[p] = IF Settles(e, p) THEN Outcome(e) ELSE active[p]
    BY <2>2, <2>3 DEF TypeOK
  <2> QED
    BY <2>1, <2>4, AuditStep
<1>4. ASSUME NEW r \in Requests, AbortStart(r)
      PROVE  AuditAgrees'
  <2> DEFINE e == AbortEntry(r)
  <2>1. e \in Entries /\ audit' = Recorded(e)
    BY <1>4, CopyFacts DEF AbortStart, Started
  <2>2. active' = [active EXCEPT ![PairOf(r)] = Outcome(e)]
    BY <1>4 DEF AbortStart, AbortEntry, Outcome
  <2>3. \A p \in Pairs : Settles(e, p) <=> p = PairOf(r)
    BY DEF Settles, AbortEntry, PairOf
  <2>4. \A p \in Pairs : active'[p] = IF Settles(e, p) THEN Outcome(e) ELSE active[p]
    BY <2>2, <2>3 DEF TypeOK
  <2> QED
    BY <2>1, <2>4, AuditStep
<1>5. ASSUME NEW r \in Requests,
             HandedOver(r) \/ HandoffFails(r) \/ AbortFindsNothing(r)
      PROVE  AuditAgrees'
  BY <1>1, <1>5 DEF HandedOver, HandoffFails, AbortFindsNothing
<1>6. ASSUME NEW r \in Requests, NEW q \in Frames, CloseConnection(r, q)
      PROVE  AuditAgrees'
  BY <1>1, <1>6 DEF CloseConnection
<1>7. CASE Staging \/ Tick \/ UNCHANGED vars
  BY <1>1, <1>7, StagingFrame DEF Tick, vars
<1> QED
  BY <1>2, <1>3, <1>4, <1>5, <1>6, <1>7 DEF Next, Handle, Launch

-----------------------------------------------------------------------------
(* The theorems.                                                           *)

\* IInv is inductive: what is known of grants, copies, reservations and the
\* trail holds from NewBrokerAuthorizer on, whatever the transports do.
THEOREM Invariance == Spec => []IInv
<1>1. Init => IInv
  <2> SUFFICES ASSUME Init
               PROVE  IInv
    OBVIOUS
  <2>1. TypeOK
    BY BrokerAssumption DEF Init, TypeOK, Time, Stages, Phases, BrokerAssumption
  <2>2. \A r \in Requests : ~Started(r)
    BY DEF Init, Started
  <2>3. /\ \A p \in Pairs : active[p] = None
        /\ \A g \in Users \X Snapshots : grants[g] = None
        /\ audit = << >>
    BY DEF Init
  <2>4. GrantInv
    BY <2>2, <2>3 DEF GrantInv
  <2>5. SingleUse /\ ReservationOwned
    BY <2>2, <2>3 DEF SingleUse, ReservationOwned
  <2>6. AuditAgrees
    BY <2>3 DEF AuditAgrees
  <2> QED
    BY <2>1, <2>4, <2>5, <2>6 DEF IInv
<1>2. IInv /\ [Next]_vars => IInv'
  BY TypeStep, GrantStep, SingleUseStep, ReservationStep, AuditAgreesStep DEF IInv
<1> QED
  BY <1>1, <1>2, PTL DEF Spec

\* Types, and the bound of the audit ring, for every ring size.
THEOREM TypeCorrect == Spec => []TypeOK
<1>1. IInv => TypeOK
  BY DEF IInv
<1> QED
  BY <1>1, Invariance, PTL

\* One staged copy authorises at most one start (broker.go, Authorize).
THEOREM CopiesSingleUse == Spec => []SingleUse
<1>1. IInv => SingleUse
  BY DEF IInv
<1> QED
  BY <1>1, Invariance, PTL

\* No failed start keeps a reservation (PrepareBrokerLaunch, AbortStart).
THEOREM ReservationsOwned == Spec => []ReservationOwned
<1>1. IInv => ReservationOwned
  BY DEF IInv
<1> QED
  BY <1>1, Invariance, PTL

\* The bounded trail tells the state of the reservations (recordAudit,
\* recordAbort).
THEOREM TrailAgrees == Spec => []AuditAgrees
<1>1. IInv => AuditAgrees
  BY DEF IInv
<1> QED
  BY <1>1, Invariance, PTL

\* A reservation is released by a stop or by the abort of its own start, never
\* by the late abort of an older one (AbortStart).
THEOREM ReleasesOwned == Spec => ReleasedByOwner
<1> DEFINE Release ==
      \A p \in Pairs :
        active[p] # None /\ active'[p] # active[p] =>
          \E r \in Requests :
            \/ AbortsOwn(r, p)
            \/ start[r].at = "new" /\ start'[r].at = "answered"
<1>1. IInv /\ [Next]_vars => [Release]_vars
  <2> SUFFICES ASSUME IInv, Next, NEW p \in Pairs, active[p] # None, active'[p] # active[p]
               PROVE  \E r \in Requests :
                        \/ AbortsOwn(r, p)
                        \/ start[r].at = "new" /\ start'[r].at = "answered"
    OBVIOUS
  <2>1. TypeOK /\ GrantInv
    BY DEF IInv
  <2>2. ASSUME NEW r \in Requests, NEW q \in Frames, StartAuthorized(r, q)
        PROVE  FALSE
    BY <2>1, <2>2 DEF StartAuthorized, Refusal, TypeOK
  <2>3. ASSUME NEW r \in Requests, NEW q \in Frames, StopAuthorized(r, q)
        PROVE  start[r].at = "new" /\ start'[r].at = "answered"
    BY <2>1, <2>3, Moved DEF StopAuthorized, Answered, Phases
  <2>4. ASSUME NEW r \in Requests, AbortStart(r)
        PROVE  AbortsOwn(r, p)
    <3>1. Started(r) /\ start[r].at = "failing" /\ start'[r].at = "failed"
      BY <2>1, <2>4, Moved DEF AbortStart, Started, Phases
    <3>2. p = PairOf(r)
      BY <2>1, <2>4 DEF AbortStart, TypeOK
    <3> QED
      BY <2>1, <2>4, <3>1, <3>2, CopyFacts DEF AbortStart, Holds, AbortsOwn
  <2>5. ASSUME NEW r \in Requests, NEW q \in Frames,
               CloseConnection(r, q) \/ StartRefused(r, q) \/ StopRefused(r, q)
        PROVE  FALSE
    BY <2>5 DEF CloseConnection, StartRefused, StopRefused
  <2>6. ASSUME NEW r \in Requests,
               HandedOver(r) \/ HandoffFails(r) \/ AbortFindsNothing(r)
        PROVE  FALSE
    BY <2>6 DEF HandedOver, HandoffFails, AbortFindsNothing
  <2>7. ~Staging /\ ~Tick
    BY StagingFrame DEF Tick
  <2> QED
    BY <2>2, <2>3, <2>4, <2>5, <2>6, <2>7 DEF Next, Handle, Launch
<1>2. Spec => [][Release]_vars
  BY <1>1, Invariance, PTL DEF Spec
<1> QED
  BY <1>2 DEF ReleasedByOwner
=============================================================================
