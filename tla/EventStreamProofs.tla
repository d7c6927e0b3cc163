-------------------------- MODULE EventStreamProofs --------------------------
(***************************************************************************)
(* Proofs about EventStream, for any number of clients and any sizes of    *)
(* the ring and of the channels: nothing a client misses goes unnoticed,   *)
(* and the stream implements EventLog.                                     *)
(***************************************************************************)
EXTENDS EventStream, TLAPS, SequenceTheorems, WellFoundedInduction

(* What the operators of the model compute.                                *)

\* A set of naturals that is not empty has a smallest element.
LEMMA LeastElement ==
  ASSUME NEW T, T \subseteq Nat, T # {}
  PROVE  \E x \in T : \A y \in T : x <= y
<1>1. PICK x \in T : \A y \in T : ~ (<<y, x>> \in OpToRel(<, Nat))
  BY WFMin, NatLessThanWellFounded
<1>2. \A y \in T : ~ (y < x)
  BY <1>1 DEF OpToRel
<1> QED
  BY <1>2

\* The replay loop, over consecutive events none of which is missing after the
\* cursor, returns exactly the events after the cursor.
LEMMA ReplayConsecutive ==
  ASSUME NEW retained \in Seq(Nat), NEW first \in Nat, NEW after \in Nat,
         \A i \in 1 .. Len(retained) : retained[i] = first + i,
         first <= after, after <= first + Len(retained)
  PROVE  NewerThan(after, retained)
           = [j \in 1 .. first + Len(retained) - after |-> after + j]
<1> DEFINE n == Len(retained)
           Step(g, i) == IF i = 0 THEN << >>
                         ELSE IF retained[i] > after
                         THEN Append(g[i - 1], retained[i])
                         ELSE g[i - 1]
           replay == CHOOSE g : g = [i \in 0 .. n |-> Step(g, i)]
           run == [i \in 0 .. n |->
                     IF first + i <= after THEN << >>
                     ELSE [j \in 1 .. first + i - after |-> after + j]]
<1>1. NewerThan(after, retained) = replay[n]
  BY DEF NewerThan
<1>2. run = [i \in 0 .. n |-> Step(run, i)]
  <2> SUFFICES ASSUME NEW i \in 0 .. n
               PROVE  run[i] = Step(run, i)
    OBVIOUS
  <2>1. CASE i = 0
    BY <2>1
  <2>2. CASE i > 0 /\ first + i <= after
    BY <2>2
  <2>3. CASE i > 0 /\ first + i > after
    <3> DEFINE before == run[i - 1]
    <3>1. before \in Seq(Nat) /\ Len(before) = first + i - after - 1
      BY <2>3
    <3>2. \A j \in 1 .. first + i - after - 1 : before[j] = after + j
      BY <2>3
    <3>3. run[i] \in Seq(Nat) /\ Len(run[i]) = first + i - after
      BY <2>3
    <3>4. \A j \in 1 .. first + i - after : run[i][j] = after + j
      BY <2>3
    <3>5. Step(run, i) = Append(before, first + i)
      <4>1. retained[i] = first + i /\ i # 0 /\ retained[i] > after
        BY <2>3
      <4> QED
        BY ONLY <4>1
    <3> HIDE DEF before, run, Step
    <3>6. Append(before, first + i) \in Seq(Nat)
      BY <3>1
    <3>7. Len(Append(before, first + i)) = first + i - after
      BY <3>1, <2>3
    <3>8. \A j \in 1 .. first + i - after : Append(before, first + i)[j] = after + j
      <4>1. /\ \A j \in 1 .. Len(before) : Append(before, first + i)[j] = before[j]
            /\ Append(before, first + i)[Len(before) + 1] = first + i
        BY <3>1, AppendProperties
      <4> SUFFICES ASSUME NEW j \in 1 .. first + i - after
                   PROVE  Append(before, first + i)[j] = after + j
        OBVIOUS
      <4>2. CASE j \in 1 .. Len(before)
        BY <4>1, <4>2, <3>1, <3>2
      <4>3. CASE j = Len(before) + 1
        BY <4>1, <4>3, <3>1
      <4>4. j \in 1 .. Len(before) \/ j = Len(before) + 1
        BY <3>1
      <4> QED
        BY <4>2, <4>3, <4>4
    <3>9. run[i] = Append(before, first + i)
      <4> DEFINE x == run[i]
                 y == Append(before, first + i)
      <4>1. x \in Seq(Nat) /\ y \in Seq(Nat) /\ Len(x) = Len(y)
        BY <3>3, <3>6, <3>7
      <4>2. \A j \in 1 .. Len(x) : x[j] = y[j]
        BY <3>3, <3>4, <3>8
      <4> HIDE DEF x, y
      <4>3. x = y
        BY <4>1, <4>2, SeqEqual
      <4> QED
        BY <4>3 DEF x, y
    <3> QED
      BY <3>5, <3>9
  <2> QED
    BY <2>1, <2>2, <2>3
<1>3. replay = [i \in 0 .. n |-> Step(replay, i)]
  BY <1>2
<1> HIDE DEF run, replay
<1>4. ASSUME NEW i \in 0 .. n, replay[i] # run[i]
      PROVE  FALSE
  <2> DEFINE T == {k \in 0 .. n : replay[k] # run[k]}
  <2>1. T \subseteq Nat /\ i \in T
    BY <1>4
  <2> HIDE DEF T
  <2>2. PICK k \in T : \A y \in T : k <= y
    BY <2>1, LeastElement
  <2>3. k \in 0 .. n /\ replay[k] # run[k]
    BY <2>2 DEF T
  <2>4. k > 0 => replay[k - 1] = run[k - 1]
    <3>1. k > 0 => k - 1 \in 0 .. n /\ k - 1 \notin T
      BY <2>1, <2>2, <2>3
    <3> QED
      BY <3>1 DEF T
  <2>5. k = 0 \/ k > 0
    BY <2>3
  <2>6. Step(replay, k) = Step(run, k)
    BY <2>4, <2>5
  <2>7. replay[k] = Step(replay, k) /\ run[k] = Step(run, k)
    <3> HIDE DEF Step
    <3> QED
      BY <1>2, <1>3, <2>3
  <2> QED
    BY <2>3, <2>6, <2>7
<1>5. n \in 0 .. n
  OBVIOUS
<1>6. run[n] = [j \in 1 .. first + n - after |-> after + j]
  <2>1. CASE first + n > after
    BY <2>1, <1>5 DEF run
  <2>2. CASE first + n = after
    <3>1. run[n] = << >>
      BY <2>2, <1>5 DEF run
    <3>2. [j \in 1 .. first + n - after |-> after + j] = << >>
      BY <2>2
    <3> QED
      BY <3>1, <3>2
  <2> QED
    BY <2>1, <2>2
<1> QED
  BY <1>1, <1>4, <1>5, <1>6

-----------------------------------------------------------------------------
(* The inductive invariant.                                                *)

\* The ring holds the last events, consecutive from the oldest at eventStart.
RingInv ==
  /\ Len(events) = IF nextEventID <= Ring THEN nextEventID ELSE Ring
  /\ Len(events) < Ring => eventStart = 0
  /\ \A j \in 1 .. Len(events) :
       events[j] = IF j > eventStart
                   THEN nextEventID - Len(events) + j - eventStart
                   ELSE nextEventID + j - eventStart

\* A subscriber's number is new to every part of the owner's state.
FreshInv ==
  \A s \in SubIDs :
    s > nextSubscriberID => channel[s] = << >> /\ s \notin resync /\ s \notin leaving

\* Nobody knows an event of this manager that was not published.
CursorInv ==
  \A c \in Clients :
    /\ client[c].server <= serverID
    /\ client[c].server = serverID => client[c].cursor <= nextEventID
    /\ client[c].at # "stream" => client[c].replay = << >>

\* What is on its way to a client continues its cursor without a gap, and
\* reaches the present unless the forwarder holds the resync event.
RunInv(k) ==
  /\ k.server = serverID
  /\ k.sub \in 1 .. nextSubscriberID
  /\ k.sub \notin leaving
  /\ \A i \in 1 .. Len(k.replay) : k.replay[i] = k.cursor + i
  /\ \A i \in 1 .. Len(channel[k.sub]) :
       channel[k.sub][i] = k.cursor + Len(k.replay) + i
  /\ k.cursor + Len(k.replay) + Len(channel[k.sub]) <= nextEventID
  /\ k.sub \in eventSubscribers =>
       k.cursor + Len(k.replay) + Len(channel[k.sub]) = nextEventID
  /\ k.sub \notin eventSubscribers => k.sub \in resync

StreamInv ==
  \A c \in Clients : client[c].at = "stream" => RunInv(client[c])

\* No two forwarders serve the same subscriber.
OwnInv ==
  \A c, d \in Clients :
    client[c].at = "stream" /\ client[d].at = "stream" /\ c # d =>
      client[c].sub # client[d].sub

IInv == TypeOK /\ RingInv /\ FreshInv /\ CursorInv /\ StreamInv /\ OwnInv

-----------------------------------------------------------------------------
(* What the ring returns.                                                  *)

\* The oldest retained event is at eventStart, and its number is known.
LEMMA OldestFacts ==
  ASSUME TypeOK, RingInv, events # << >>
  PROVE  /\ eventStart + 1 \in 1 .. Len(events)
         /\ OldestEventID = nextEventID - Len(events) + 1
<1>1. Len(events) \in Nat \ {0} /\ Ring \in Nat \ {0}
  BY StreamAssumption DEF TypeOK, StreamAssumption
<1>2. eventStart + 1 \in 1 .. Len(events)
  BY <1>1 DEF TypeOK, RingInv
<1> QED
  BY <1>1, <1>2 DEF TypeOK, RingInv, OldestEventID

\* retainedEvents unwinds the ring into consecutive numbers that end with the
\* last published one.
LEMMA RetainedFacts ==
  ASSUME TypeOK, RingInv
  PROVE  /\ RetainedEvents \in Seq(Nat)
         /\ Len(RetainedEvents) = Len(events)
         /\ \A i \in 1 .. Len(events) :
              RetainedEvents[i] = nextEventID - Len(events) + i
<1>1. Len(events) \in Nat /\ nextEventID \in Nat /\ eventStart \in Nat
  BY DEF TypeOK
<1>0. \A j \in 1 .. Len(events) : events[j] \in Nat
  BY StreamAssumption DEF TypeOK, EventIDs, StreamAssumption
<1>2. ASSUME NEW i \in 1 .. Len(events)
      PROVE  /\ RetainedEvents[i] = nextEventID - Len(events) + i
             /\ RetainedEvents[i] \in Nat
  <2>1. events # << >>
    BY <1>1
  <2>2. eventStart < Len(events)
    BY <2>1, <1>1, OldestFacts
  <2> DEFINE j == ((eventStart + i - 1) % Len(events)) + 1
  <2>3. RetainedEvents[i] = events[j]
    BY DEF RetainedEvents
  <2>4. CASE eventStart + i <= Len(events)
    <3>1. j = eventStart + i
      BY <1>1, <2>2, <2>4
    <3> HIDE DEF j
    <3>2. j \in 1 .. Len(events) /\ j > eventStart
      BY <1>1, <2>2, <2>4, <3>1
    <3>3. events[j] = nextEventID - Len(events) + j - eventStart
      BY <3>2 DEF RingInv
    <3>4. events[j] \in Nat
      BY <3>2, <1>0
    <3> QED
      BY <1>1, <2>3, <3>1, <3>3, <3>4
  <2>5. CASE eventStart + i > Len(events)
    <3>1. j = eventStart + i - Len(events)
      BY <1>1, <2>2, <2>5
    <3> HIDE DEF j
    <3>2. j \in 1 .. Len(events) /\ ~(j > eventStart)
      BY <1>1, <2>2, <2>5, <3>1
    <3>3. events[j] = nextEventID + j - eventStart
      BY <3>2 DEF RingInv
    <3>4. events[j] \in Nat
      BY <3>2, <1>0
    <3> QED
      BY <1>1, <2>3, <3>1, <3>3, <3>4
  <2> QED
    BY <1>1, <2>4, <2>5
<1>3. RetainedEvents \in Seq(Nat) /\ Len(RetainedEvents) = Len(events)
  BY <1>1, <1>2 DEF RetainedEvents
<1> QED
  BY <1>2, <1>3

\* A cursor that subscribeEvents accepts is replayed without a gap.
LEMMA ReplayFacts ==
  ASSUME TypeOK, RingInv, NEW after \in Nat, NEW server, ~NeedsResync(after, server)
  PROVE  /\ after <= nextEventID
         /\ server = serverID
         /\ Replay(after) \in Seq(EventIDs)
         /\ Len(Replay(after)) = nextEventID - after
         /\ \A i \in 1 .. Len(Replay(after)) : Replay(after)[i] = after + i
<1>1. after <= nextEventID /\ server = serverID
  BY DEF NeedsResync, TypeOK
<1>2. Len(events) \in Nat /\ nextEventID \in 0 .. MaxPublished /\ MaxPublished \in Nat
  BY StreamAssumption DEF TypeOK, StreamAssumption
<1> DEFINE first == nextEventID - Len(events)
<1>3. first \in Nat /\ first <= after
  <2>1. CASE events = << >>
    BY <2>1, <1>1, <1>2 DEF RingInv, TypeOK
  <2>2. CASE events # << >>
    <3>1. OldestEventID = first + 1
      BY <2>2, OldestFacts
    <3>2. first \in Nat
      BY <1>2, StreamAssumption DEF RingInv, StreamAssumption
    <3> QED
      BY <3>1, <3>2, <1>2 DEF NeedsResync
  <2> QED
    BY <2>1, <2>2
<1>4. after <= first + Len(RetainedEvents)
  BY <1>1, <1>2, RetainedFacts
<1>5. \A i \in 1 .. Len(RetainedEvents) : RetainedEvents[i] = first + i
  BY RetainedFacts
<1>6. RetainedEvents \in Seq(Nat) /\ first + Len(RetainedEvents) = nextEventID
  BY <1>2, RetainedFacts
<1> HIDE DEF first
<1>7. Replay(after) = [j \in 1 .. nextEventID - after |-> after + j]
  BY <1>3, <1>4, <1>5, <1>6, ReplayConsecutive DEF Replay
<1>8. \A j \in 1 .. nextEventID - after : after + j \in EventIDs
  BY <1>1, <1>2 DEF EventIDs
<1> QED
  BY <1>1, <1>2, <1>7, <1>8

-----------------------------------------------------------------------------
(* The initial state, and the owner's publication.                         *)

LEMMA InitIInv ==
  ASSUME Init
  PROVE  IInv
<1> USE StreamAssumption DEF StreamAssumption, Init
<1>1. \A c \in Clients : client[c] = NewClient
  OBVIOUS
<1>2. TypeOK
  <2>1. NewClient \in ClientState
    BY DEF NewClient, ClientState
  <2>2. channel \in [SubIDs -> Seq(EventIDs)] /\ \A s \in SubIDs : Len(channel[s]) <= Buffer
    OBVIOUS
  <2> QED
    BY <2>1, <2>2 DEF TypeOK
<1>3. RingInv /\ FreshInv
  BY DEF RingInv, FreshInv
<1>4. CursorInv /\ StreamInv /\ OwnInv
  BY <1>1 DEF CursorInv, StreamInv, OwnInv, NewClient
<1> QED
  BY <1>2, <1>3, <1>4 DEF IInv

\* A published event replaces the oldest of a full ring and joins the others.
LEMMA PublishRing ==
  ASSUME TypeOK, RingInv, PublishEvent
  PROVE  /\ RingInv'
         /\ events' \in Seq(EventIDs)
         /\ Len(events') <= Ring
         /\ eventStart' \in 0 .. (Ring - 1)
         /\ nextEventID' = nextEventID + 1
         /\ nextEventID' \in EventIDs
<1> USE StreamAssumption DEF StreamAssumption
<1>1. /\ nextEventID \in Nat /\ eventStart \in 0 .. (Ring - 1) /\ Ring \in Nat \ {0}
      /\ Len(events) \in Nat /\ events \in Seq(EventIDs)
  BY DEF TypeOK
<1>2. nextEventID' = nextEventID + 1 /\ nextEventID' \in EventIDs
  BY <1>1 DEF PublishEvent, EventIDs, TypeOK
<1>3. CASE Len(events) < Ring
  <2>1. events' = Append(events, nextEventID') /\ eventStart' = eventStart
    BY <1>3 DEF PublishEvent, Retain
  <2>2. eventStart = 0 /\ Len(events) = nextEventID
    BY <1>1, <1>3 DEF RingInv
  <2>3. /\ events' \in Seq(EventIDs)
        /\ Len(events') = Len(events) + 1
        /\ \A j \in 1 .. Len(events) : events'[j] = events[j]
        /\ events'[Len(events) + 1] = nextEventID + 1
    BY <1>1, <1>2, <2>1, AppendProperties
  <2>4. ASSUME NEW j \in 1 .. Len(events')
        PROVE  events'[j] = j
    <3>1. CASE j \in 1 .. Len(events)
      BY <3>1, <2>2, <2>3, <1>1 DEF RingInv
    <3>2. CASE j = Len(events) + 1
      BY <3>2, <2>2, <2>3
    <3>3. j \in 1 .. Len(events) \/ j = Len(events) + 1
      BY <2>3, <1>1
    <3> QED
      BY <3>1, <3>2, <3>3
  <2>5. Len(events') = nextEventID' /\ nextEventID' <= Ring
    BY <1>1, <1>2, <1>3, <2>2, <2>3
  <2>6. RingInv'
    BY <1>1, <1>2, <2>1, <2>2, <2>4, <2>5 DEF RingInv
  <2> QED
    BY <1>1, <1>2, <2>1, <2>2, <2>3, <2>5, <2>6
<1>4. CASE Len(events) = Ring
  <2>1. /\ events' = [events EXCEPT ![eventStart + 1] = nextEventID']
        /\ eventStart' = (eventStart + 1) % Ring
    BY <1>1, <1>4 DEF PublishEvent, Retain
  <2>2. eventStart + 1 \in 1 .. Len(events)
    BY <1>1, <1>4
  <2>3. /\ events' \in Seq(EventIDs)
        /\ Len(events') = Ring
        /\ \A j \in 1 .. Ring :
             events'[j] = IF j = eventStart + 1 THEN nextEventID + 1 ELSE events[j]
    BY <1>1, <1>2, <1>4, <2>1, <2>2, ExceptSeq
  <2>4. eventStart' = IF eventStart + 1 = Ring THEN 0 ELSE eventStart + 1
    BY <1>1, <2>1
  <2>5. nextEventID >= Ring
    BY <1>1, <1>4 DEF RingInv
  <2>6. ASSUME NEW j \in 1 .. Ring
        PROVE  events'[j] = IF j > eventStart'
                            THEN nextEventID' - Ring + j - eventStart'
                            ELSE nextEventID' + j - eventStart'
    <3>1. events[j] = IF j > eventStart
                      THEN nextEventID - Ring + j - eventStart
                      ELSE nextEventID + j - eventStart
      BY <1>4 DEF RingInv
    <3> QED
      BY <3>1, <1>1, <1>2, <2>3, <2>4
  <2>7. RingInv'
    BY <1>1, <1>2, <2>3, <2>5, <2>6 DEF RingInv
  <2> QED
    BY <1>1, <1>2, <2>3, <2>4, <2>7
<1> QED
  BY <1>1, <1>3, <1>4 DEF TypeOK

\* Every channel gets the event or keeps what it holds; a full one sends its
\* subscriber to the resync channel.
LEMMA PublishChannels ==
  ASSUME TypeOK, FreshInv, PublishEvent
  PROVE  /\ channel' \in [SubIDs -> Seq(EventIDs)]
         /\ \A s \in SubIDs : Len(channel'[s]) <= Buffer
         /\ eventSubscribers' \subseteq 1 .. nextSubscriberID'
         /\ resync' \subseteq SubIDs
         /\ FreshInv'
<1> USE StreamAssumption DEF StreamAssumption
<1>1. nextEventID' \in EventIDs
  BY DEF PublishEvent, TypeOK, EventIDs
<1>2. eventSubscribers \subseteq SubIDs
  BY DEF TypeOK, SubIDs
<1>3. ASSUME NEW s \in SubIDs
      PROVE  channel'[s] \in Seq(EventIDs) /\ Len(channel'[s]) <= Buffer
  <2>1. channel[s] \in Seq(EventIDs) /\ Len(channel[s]) <= Buffer
    BY DEF TypeOK
  <2>2. channel'[s] = IF s \in eventSubscribers /\ ~Full(s)
                      THEN Append(channel[s], nextEventID') ELSE channel[s]
    BY DEF PublishEvent, Offer
  <2> QED
    BY <1>1, <2>1, <2>2 DEF Full
<1>4. channel' \in [SubIDs -> Seq(EventIDs)]
  BY <1>3 DEF PublishEvent, Offer
<1>5. eventSubscribers' \subseteq 1 .. nextSubscriberID' /\ resync' \subseteq SubIDs
  BY <1>2 DEF PublishEvent, Offer, TypeOK
<1>6. FreshInv'
  <2> SUFFICES ASSUME NEW s \in SubIDs, s > nextSubscriberID
               PROVE  channel'[s] = << >> /\ s \notin resync' /\ s \notin leaving'
    BY DEF FreshInv, PublishEvent
  <2>1. s \notin eventSubscribers
    BY DEF TypeOK, SubIDs
  <2> QED
    BY <2>1 DEF FreshInv, PublishEvent, Offer
<1> QED
  BY <1>3, <1>4, <1>5, <1>6

\* A published event continues the run of every subscriber that stays, and a
\* subscriber that is dropped has the resync event.
LEMMA PublishRun ==
  ASSUME TypeOK, StreamInv, PublishEvent,
         NEW c \in Clients, client[c].at = "stream", client'[c] = client[c]
  PROVE  RunInv(client[c])'
<1> DEFINE k == client[c]
           s == k.sub
           ahead == k.cursor + Len(k.replay)
<1>1. RunInv(k)
  BY DEF StreamInv
<1>2. /\ s \in SubIDs /\ s \in 1 .. nextSubscriberID /\ k.cursor \in Nat
      /\ ahead \in Nat
  BY <1>1 DEF RunInv, TypeOK, ClientState, SubIDs
<1>3. /\ nextEventID' = nextEventID + 1 /\ nextEventID \in Nat
      /\ nextEventID' \in EventIDs
      /\ UNCHANGED <<serverID, nextSubscriberID, leaving>>
  BY StreamAssumption DEF PublishEvent, TypeOK, EventIDs, StreamAssumption
<1>4. channel[s] \in Seq(EventIDs) /\ Len(channel[s]) \in Nat
  BY <1>2 DEF TypeOK
<1>5. /\ \A i \in 1 .. Len(channel'[s]) : channel'[s][i] = ahead + i
      /\ ahead + Len(channel'[s]) <= nextEventID'
      /\ s \in eventSubscribers' => ahead + Len(channel'[s]) = nextEventID'
      /\ s \notin eventSubscribers' => s \in resync'
  <2>1. CASE s \in eventSubscribers /\ ~Full(s)
    <3>1. /\ channel'[s] = Append(channel[s], nextEventID')
          /\ s \in eventSubscribers'
      BY <1>2, <2>1 DEF PublishEvent, Offer
    <3>2. ahead + Len(channel[s]) = nextEventID
      BY <1>1, <2>1 DEF RunInv
    <3>3. /\ Len(channel'[s]) = Len(channel[s]) + 1
          /\ \A i \in 1 .. Len(channel[s]) : channel'[s][i] = channel[s][i]
          /\ channel'[s][Len(channel[s]) + 1] = nextEventID + 1
      BY <1>3, <1>4, <3>1, AppendProperties
    <3>4. \A i \in 1 .. Len(channel[s]) : channel[s][i] = ahead + i
      BY <1>1 DEF RunInv
    <3>5. ASSUME NEW i \in 1 .. Len(channel'[s])
          PROVE  channel'[s][i] = ahead + i
      <4> HIDE DEF ahead
      <4>1. CASE i \in 1 .. Len(channel[s])
        BY <4>1, <3>3, <3>4
      <4>2. CASE i = Len(channel[s]) + 1
        BY <4>2, <1>2, <1>4, <3>2, <3>3
      <4>3. i \in 1 .. Len(channel[s]) \/ i = Len(channel[s]) + 1
        BY <1>4, <3>3
      <4> QED
        BY <4>1, <4>2, <4>3
    <3> HIDE DEF ahead
    <3>6. ahead + Len(channel'[s]) = nextEventID'
      <4>1. \A a, l, n \in Int : a + l = n => a + (l + 1) = n + 1
        OBVIOUS
      <4>2. ahead \in Int /\ Len(channel[s]) \in Int /\ nextEventID \in Int
        BY <1>2, <1>3, <1>4
      <4>3. ahead + (Len(channel[s]) + 1) = nextEventID + 1
        BY <3>2, <4>1, <4>2
      <4>4. Len(channel'[s]) = Len(channel[s]) + 1 /\ nextEventID' = nextEventID + 1
        BY <1>3, <3>3
      <4> QED
        BY <4>3, <4>4
    <3>7. nextEventID' <= nextEventID'
      BY <1>3
    <3> QED
      BY <3>1, <3>5, <3>6, <3>7
  <2>2. CASE ~(s \in eventSubscribers /\ ~Full(s))
    <3>1. /\ channel'[s] = channel[s]
          /\ s \notin eventSubscribers'
          /\ s \in resync'
      BY <1>1, <1>2, <2>2 DEF PublishEvent, Offer, RunInv
    <3> QED
      BY <1>1, <1>2, <1>3, <1>4, <3>1 DEF RunInv
  <2> QED
    BY <2>1, <2>2
<1> QED
  BY <1>1, <1>3, <1>5 DEF RunInv

-----------------------------------------------------------------------------
(* Preservation, one action at a time.                                     *)

LEMMA PublishInv ==
  ASSUME IInv, Publish
  PROVE  IInv'
<1> USE DEF IInv, Publish
<1>1. RingInv' /\ FreshInv'
  BY PublishRing, PublishChannels
<1>2. TypeOK'
  <2>1. serverID' \in 1 .. MaxServers /\ nextSubscriberID' \in 0 .. MaxSubs /\ leaving' \subseteq SubIDs
    BY DEF TypeOK, PublishEvent
  <2>2. nextEventID' \in 0 .. MaxPublished
    BY PublishRing DEF EventIDs
  <2> QED
    BY <2>1, <2>2, PublishRing, PublishChannels DEF TypeOK
<1>3. CursorInv'
  BY PublishRing DEF CursorInv, PublishEvent, TypeOK, ClientState
<1>4. StreamInv'
  BY PublishRun DEF StreamInv
<1>5. OwnInv'
  BY DEF OwnInv
<1> QED
  BY <1>1, <1>2, <1>3, <1>4, <1>5

\* What an action that leaves the owner alone has to show.
LEMMA ClientOnly ==
  ASSUME IInv, UNCHANGED owner,
         client' \in [Clients -> ClientState],
         NEW c \in Clients,
         \A d \in Clients : d # c => client'[d] = client[d],
         client'[c].server <= serverID,
         client'[c].server = serverID => client'[c].cursor <= nextEventID,
         client'[c].at # "stream" => client'[c].replay = << >>,
         client'[c].at = "stream" =>
           client[c].at = "stream" /\ client'[c].sub = client[c].sub /\ RunInv(client[c])'
  PROVE  IInv'
<1> USE DEF IInv
<1>1. /\ UNCHANGED serverID /\ UNCHANGED nextEventID /\ UNCHANGED events
      /\ UNCHANGED eventStart /\ UNCHANGED nextSubscriberID
      /\ UNCHANGED eventSubscribers /\ UNCHANGED channel /\ UNCHANGED resync
      /\ UNCHANGED leaving
  BY DEF owner
<1>2. TypeOK'
  BY <1>1 DEF TypeOK
<1>3. RingInv' /\ FreshInv'
  BY <1>1 DEF RingInv, FreshInv
<1>4. CursorInv'
  BY <1>1 DEF CursorInv
<1>5. \A d \in Clients : client'[d].at = "stream" =>
        client[d].at = "stream" /\ client'[d].sub = client[d].sub
  OBVIOUS
<1>6. StreamInv'
  <2> SUFFICES ASSUME NEW d \in Clients, client'[d].at = "stream"
               PROVE  RunInv(client[d])'
    BY DEF StreamInv
  <2>1. CASE d = c
    BY <2>1
  <2>2. CASE d # c
    <3>1. client'[d] = client[d] /\ RunInv(client[d])
      BY <2>2, <1>5 DEF StreamInv
    <3> QED
      BY <1>1, <3>1 DEF RunInv
  <2> QED
    BY <2>1, <2>2
<1>7. OwnInv'
  BY <1>5 DEF OwnInv
<1> QED
  BY <1>2, <1>3, <1>4, <1>6, <1>7

LEMMA SnapshotGetInv ==
  ASSUME IInv, NEW c \in Clients, SnapshotGet(c)
  PROVE  IInv'
<1> USE DEF IInv
<1> DEFINE k == [client[c] EXCEPT !.at = "off", !.cursor = nextEventID', !.server = serverID]
<1>1. client' = [client EXCEPT ![c] = k]
  BY DEF SnapshotGet, Jumped
<1>2. client[c].at # "stream" /\ client[c].replay = << >>
  BY DEF SnapshotGet, CursorInv
<1>3. nextEventID' \in 0 .. MaxPublished
  BY PublishRing DEF SnapshotGet, EventIDs, owner, TypeOK
<1>4. client' \in [Clients -> ClientState]
  <2>1. client[c] \in ClientState /\ serverID \in 0 .. MaxServers
    BY StreamAssumption DEF TypeOK, StreamAssumption
  <2>2. k \in ClientState
    BY <1>3, <2>1 DEF ClientState
  <2> QED
    BY <1>1, <2>2 DEF TypeOK
<1>5. client'[c] = k /\ \A d \in Clients : d # c => client'[d] = client[d]
  BY <1>1 DEF TypeOK
<1>6. k.at = "off" /\ k.replay = << >> /\ k.server = serverID /\ k.cursor = nextEventID'
  BY <1>2 DEF TypeOK, ClientState
<1> HIDE DEF k
<1>7. CASE UNCHANGED owner
  <2>1. serverID \in Nat /\ nextEventID \in Nat
    BY DEF TypeOK
  <2>2. nextEventID' = nextEventID
    BY <1>7 DEF owner
  <2>3. /\ client'[c].at # "stream" /\ client'[c].replay = << >>
        /\ client'[c].server = serverID /\ client'[c].cursor = nextEventID
    BY <1>5, <1>6, <2>2
  <2>4. serverID <= serverID /\ nextEventID <= nextEventID
    BY <2>1
  <2> QED
    BY <1>4, <1>5, <1>7, <2>3, <2>4, ClientOnly
<1>8. CASE PublishEvent
  <2>1. RingInv' /\ FreshInv'
    BY <1>8, PublishRing, PublishChannels
  <2>2. TypeOK'
    <3>1. /\ serverID' \in 1 .. MaxServers /\ nextSubscriberID' \in 0 .. MaxSubs
          /\ leaving' \subseteq SubIDs
      BY <1>8 DEF TypeOK, PublishEvent
    <3> QED
      BY <1>3, <1>4, <1>8, <3>1, PublishRing, PublishChannels DEF TypeOK
  <2>3. serverID' = serverID /\ nextEventID' = nextEventID + 1
    BY <1>8 DEF PublishEvent
  <2>4. CursorInv'
    <3> SUFFICES ASSUME NEW d \in Clients
                 PROVE  /\ client'[d].server <= serverID'
                        /\ client'[d].server = serverID' => client'[d].cursor <= nextEventID'
                        /\ client'[d].at # "stream" => client'[d].replay = << >>
      BY DEF CursorInv
    <3>1. serverID \in Nat /\ nextEventID \in Nat
      BY DEF TypeOK
    <3>2. CASE d = c
      BY <3>1, <3>2, <1>5, <1>6, <2>3
    <3>3. CASE d # c
      <4>1. client[d].cursor \in Nat
        BY DEF TypeOK, ClientState
      <4> QED
        BY <3>1, <3>3, <4>1, <1>5, <2>3 DEF CursorInv
    <3> QED
      BY <3>2, <3>3
  <2>5. StreamInv'
    BY <1>5, <1>6, <1>8, PublishRun DEF StreamInv
  <2>6. OwnInv'
    BY <1>5, <1>6 DEF OwnInv
  <2> QED
    BY <2>1, <2>2, <2>4, <2>5, <2>6
<1> QED
  BY <1>7, <1>8 DEF SnapshotGet

LEMMA ResumeRefusedInv ==
  ASSUME IInv, NEW c \in Clients, ResumeRefused(c)
  PROVE  IInv'
<1> DEFINE k == [client[c] EXCEPT !.at = "resync"]
<1>1. client' = [client EXCEPT ![c] = k] /\ UNCHANGED owner /\ client[c].at = "off"
  BY DEF ResumeRefused
<1>2. client' \in [Clients -> ClientState]
  <2>1. k \in ClientState
    BY DEF IInv, TypeOK, ClientState
  <2> QED
    BY <1>1, <2>1 DEF IInv, TypeOK
<1>3. client'[c] = k /\ \A d \in Clients : d # c => client'[d] = client[d]
  BY <1>1 DEF IInv, TypeOK
<1>4. /\ k.at = "resync" /\ k.replay = client[c].replay
      /\ k.server = client[c].server /\ k.cursor = client[c].cursor
  BY DEF IInv, TypeOK, ClientState
<1> HIDE DEF k
<1> QED
  BY <1>1, <1>2, <1>3, <1>4, ClientOnly DEF IInv, CursorInv

\* A new subscriber takes a fresh number and an empty channel, and disturbs
\* neither the ring nor anybody else's run.
LEMMA RegisterFacts ==
  ASSUME IInv, Register
  PROVE  /\ UNCHANGED serverID /\ UNCHANGED nextEventID /\ UNCHANGED events
         /\ UNCHANGED eventStart /\ UNCHANGED channel /\ UNCHANGED resync
         /\ UNCHANGED leaving
         /\ nextSubscriberID' = nextSubscriberID + 1
         /\ nextSubscriberID' \in SubIDs
         /\ channel[nextSubscriberID'] = << >>
         /\ nextSubscriberID' \notin leaving
         /\ nextSubscriberID' \in eventSubscribers'
         /\ nextSubscriberID \in 0 .. MaxSubs
         /\ nextSubscriberID' \in 0 .. MaxSubs
         /\ eventSubscribers' \subseteq 1 .. nextSubscriberID'
         /\ RingInv'
         /\ FreshInv'
<1> USE StreamAssumption DEF StreamAssumption, IInv
<1>1. /\ UNCHANGED serverID /\ UNCHANGED nextEventID /\ UNCHANGED events
      /\ UNCHANGED eventStart /\ UNCHANGED channel /\ UNCHANGED resync
      /\ UNCHANGED leaving
      /\ nextSubscriberID' = nextSubscriberID + 1
      /\ nextSubscriberID < MaxSubs
      /\ eventSubscribers' = eventSubscribers \cup {nextSubscriberID'}
  BY DEF Register
<1>2. nextSubscriberID \in 0 .. MaxSubs /\ eventSubscribers \subseteq 1 .. nextSubscriberID
  BY DEF TypeOK
<1>3. nextSubscriberID' \in SubIDs /\ nextSubscriberID' > nextSubscriberID
  BY <1>1, <1>2 DEF SubIDs
<1>4. channel[nextSubscriberID'] = << >> /\ nextSubscriberID' \notin leaving
  BY <1>3 DEF FreshInv
<1>5. nextSubscriberID' \in 0 .. MaxSubs
  BY <1>1, <1>2
<1>6. eventSubscribers' \subseteq 1 .. nextSubscriberID'
  BY <1>1, <1>2
<1>7. RingInv'
  BY <1>1 DEF RingInv
<1>8. FreshInv'
  BY <1>1, <1>2 DEF FreshInv, SubIDs
<1> QED
  BY <1>1, <1>2, <1>3, <1>4, <1>5, <1>6, <1>7, <1>8

LEMMA RegisterRun ==
  ASSUME IInv, Register,
         NEW c \in Clients, client[c].at = "stream", client'[c] = client[c]
  PROVE  RunInv(client[c])'
<1>1. RunInv(client[c])
  BY DEF IInv, StreamInv
<1>2. client[c].sub \in 1 .. nextSubscriberID'
  BY <1>1, RegisterFacts DEF RunInv
<1>3. client[c].sub # nextSubscriberID'
  BY <1>1, RegisterFacts DEF RunInv
<1>4. client[c].sub \in eventSubscribers' <=> client[c].sub \in eventSubscribers
  BY <1>3 DEF Register
<1> QED
  BY <1>1, <1>2, <1>4, RegisterFacts DEF RunInv

\* What a subscription has to show: the new client's run is complete.
LEMMA SubscribeInv ==
  ASSUME IInv, Register, NEW c \in Clients, NEW k \in ClientState,
         client' = [client EXCEPT ![c] = k],
         k.at = "stream", k.server = serverID, k.sub = nextSubscriberID',
         k.cursor <= nextEventID,
         k.cursor + Len(k.replay) = nextEventID,
         \A i \in 1 .. Len(k.replay) : k.replay[i] = k.cursor + i
  PROVE  IInv'
<1>1. client'[c] = k /\ \A d \in Clients : d # c => client'[d] = client[d]
  BY DEF IInv, TypeOK
<1>2. TypeOK'
  BY RegisterFacts DEF IInv, TypeOK
<1>3. CursorInv'
  <2>1. serverID <= serverID
    BY DEF IInv, TypeOK
  <2> QED
    BY <1>1, <2>1, RegisterFacts DEF IInv, CursorInv
<1>4. RunInv(client[c])'
  <2>1. Len(<< >>) = 0
    OBVIOUS
  <2>2. k.cursor + Len(k.replay) + 0 = nextEventID /\ nextEventID <= nextEventID
    BY DEF IInv, TypeOK, ClientState
  <2>3. nextSubscriberID' \in 1 .. nextSubscriberID'
    BY RegisterFacts DEF SubIDs
  <2>4. \A i \in 1 .. 0 : FALSE
    OBVIOUS
  <2> QED
    BY <1>1, <2>1, <2>2, <2>3, <2>4, RegisterFacts DEF RunInv
<1>5. StreamInv'
  BY <1>1, <1>4, RegisterRun DEF StreamInv
<1>6. OwnInv'
  <2>1. \A d \in Clients : client[d].at = "stream" => client[d].sub # nextSubscriberID'
    BY RegisterFacts DEF IInv, StreamInv, RunInv
  <2> QED
    BY <1>1, <2>1 DEF IInv, OwnInv
<1> QED
  BY <1>2, <1>3, <1>5, <1>6, RegisterFacts DEF IInv

LEMMA ResumeInv ==
  ASSUME IInv, NEW c \in Clients, Resume(c)
  PROVE  IInv'
<1> DEFINE k == [client[c] EXCEPT !.at = "stream", !.sub = nextSubscriberID',
                                  !.replay = Replay(client[c].cursor)]
<1>1. client[c] \in ClientState /\ client[c].cursor \in Nat /\ TypeOK /\ RingInv
  BY DEF IInv, TypeOK, ClientState
<1>2. Register /\ ~NeedsResync(client[c].cursor, client[c].server)
  BY DEF Resume
<1>3. client' = [client EXCEPT ![c] = k]
  BY DEF Resume, IInv, TypeOK, ClientState
<1> DEFINE r == Replay(client[c].cursor)
<1>4. /\ client[c].cursor <= nextEventID
      /\ client[c].server = serverID
      /\ r \in Seq(EventIDs)
      /\ Len(r) = nextEventID - client[c].cursor
      /\ \A i \in 1 .. Len(r) : r[i] = client[c].cursor + i
  BY <1>1, <1>2, ReplayFacts
<1> HIDE DEF r
<1>5. k = [client[c] EXCEPT !.at = "stream", !.sub = nextSubscriberID', !.replay = r]
  BY DEF r
<1> HIDE DEF k
<1>6. k \in ClientState
  BY <1>1, <1>2, <1>4, <1>5, RegisterFacts DEF ClientState
<1>7. /\ k.at = "stream" /\ k.server = client[c].server /\ k.sub = nextSubscriberID'
      /\ k.cursor = client[c].cursor /\ k.replay = r
  BY <1>1, <1>5 DEF ClientState
<1>8. k.cursor + Len(k.replay) = nextEventID
  BY <1>1, <1>4, <1>7 DEF TypeOK
<1> QED
  BY <1>2, <1>3, <1>4, <1>6, <1>7, <1>8, SubscribeInv

LEMMA FollowInv ==
  ASSUME IInv, NEW c \in Clients, Follow(c)
  PROVE  IInv'
<1> DEFINE k == [client[c] EXCEPT !.at = "stream", !.sub = nextSubscriberID',
                                  !.cursor = nextEventID', !.server = serverID]
<1>1. client[c] \in ClientState /\ client[c].replay = << >>
  BY DEF IInv, TypeOK, CursorInv, Follow
<1>2. Register /\ client' = [client EXCEPT ![c] = k]
  BY DEF Follow, Jumped
<1>3. nextEventID \in 0 .. MaxPublished /\ serverID \in 0 .. MaxServers
  BY StreamAssumption DEF IInv, TypeOK, StreamAssumption
<1>4. k \in ClientState
  BY <1>1, <1>2, <1>3, RegisterFacts DEF ClientState
<1>5. /\ k.at = "stream" /\ k.server = serverID /\ k.sub = nextSubscriberID'
      /\ k.cursor = nextEventID /\ k.replay = << >>
  BY <1>1, <1>2, RegisterFacts DEF ClientState
<1> HIDE DEF k
<1>6. /\ k.cursor <= nextEventID /\ k.cursor + Len(k.replay) = nextEventID
      /\ \A i \in 1 .. Len(k.replay) : k.replay[i] = k.cursor + i
  BY <1>3, <1>5
<1> QED
  BY <1>2, <1>4, <1>5, <1>6, SubscribeInv

LEMMA SubscribeAbandonedInv ==
  ASSUME IInv, NEW c \in Clients, SubscribeAbandoned(c)
  PROVE  IInv'
<1>1. Register /\ UNCHANGED client
  BY DEF SubscribeAbandoned
<1>2. TypeOK'
  BY <1>1, RegisterFacts DEF IInv, TypeOK
<1>3. CursorInv'
  BY <1>1, RegisterFacts DEF IInv, CursorInv
<1>4. StreamInv'
  BY <1>1, RegisterRun DEF StreamInv
<1>5. OwnInv'
  BY <1>1 DEF IInv, OwnInv
<1> QED
  BY <1>1, <1>2, <1>3, <1>4, <1>5, RegisterFacts DEF IInv

\* The next event of a replay is the one after the cursor.
LEMMA ForwardReplayFacts ==
  ASSUME IInv, NEW c \in Clients, ForwardReplay(c)
  PROVE  /\ UNCHANGED owner
         /\ client[c].cursor < nextEventID
         /\ client' = [client EXCEPT ![c] =
              [@ EXCEPT !.cursor = client[c].cursor + 1, !.replay = Tail(client[c].replay)]]
<1>1. client[c] \in ClientState /\ client[c].replay \in Seq(EventIDs)
  BY DEF IInv, TypeOK, ClientState
<1>2. client[c].replay # << >> /\ RunInv(client[c])
  BY DEF ForwardReplay, IInv, StreamInv
<1>3. Head(client[c].replay) = client[c].cursor + 1
  BY <1>1, <1>2 DEF RunInv
<1>4. client[c].cursor < nextEventID
  <2>1. /\ client[c].cursor \in Nat /\ nextEventID \in Nat
        /\ Len(client[c].replay) \in Nat \ {0} /\ Len(channel[client[c].sub]) \in Nat
    BY <1>1, <1>2 DEF IInv, TypeOK, ClientState, RunInv, SubIDs
  <2> QED
    BY <1>2, <2>1, SMTT(30) DEF RunInv
<1> QED
  BY <1>2, <1>3, <1>4 DEF ForwardReplay, Receive, IInv, TypeOK

LEMMA ForwardReplayInv ==
  ASSUME IInv, NEW c \in Clients, ForwardReplay(c)
  PROVE  IInv'
<1> DEFINE r == client[c].replay
           k == [client[c] EXCEPT !.cursor = client[c].cursor + 1, !.replay = Tail(r)]
           s == client[c].sub
<1>1. /\ client[c] \in ClientState /\ r \in Seq(EventIDs) /\ r # << >>
      /\ client[c].cursor \in Nat /\ nextEventID \in 0 .. MaxPublished
      /\ MaxPublished \in Nat
  BY StreamAssumption DEF IInv, TypeOK, ClientState, ForwardReplay, StreamAssumption
<1>2. RunInv(client[c]) /\ client[c].at = "stream"
  BY DEF ForwardReplay, IInv, StreamInv
<1>3. /\ UNCHANGED owner /\ client[c].cursor < nextEventID
      /\ client' = [client EXCEPT ![c] = k]
  BY ForwardReplayFacts
<1>4. /\ Tail(r) \in Seq(EventIDs) /\ Len(Tail(r)) = Len(r) - 1
      /\ \A i \in 1 .. Len(Tail(r)) : Tail(r)[i] = r[i + 1]
  BY <1>1
<1>5. k \in ClientState
  <2>1. client[c].cursor + 1 \in 0 .. MaxPublished
    BY <1>1, <1>3
  <2> HIDE DEF r
  <2> QED
    BY <1>1, <1>4, <2>1 DEF ClientState
<1>6. /\ k.at = "stream" /\ k.server = client[c].server /\ k.sub = s
      /\ k.cursor = client[c].cursor + 1 /\ k.replay = Tail(r)
  BY <1>1, <1>2 DEF ClientState
<1> HIDE DEF k
<1>7. client'[c] = k /\ (\A d \in Clients : d # c => client'[d] = client[d])
  BY <1>3 DEF IInv, TypeOK
<1>8. client' \in [Clients -> ClientState]
  BY <1>3, <1>5 DEF IInv, TypeOK
<1>9. RunInv(client[c])'
  <2>1. \A i \in 1 .. Len(Tail(r)) : Tail(r)[i] = client[c].cursor + 1 + i
    <3> SUFFICES ASSUME NEW i \in 1 .. Len(Tail(r))
                 PROVE  Tail(r)[i] = client[c].cursor + 1 + i
      OBVIOUS
    <3>1. i + 1 \in 1 .. Len(r) /\ Tail(r)[i] = r[i + 1]
      BY <1>1, <1>4
    <3>2. r[i + 1] = client[c].cursor + (i + 1)
      BY <1>2, <3>1 DEF RunInv
    <3> QED
      BY <1>1, <3>1, <3>2
  <2>2. /\ client[c].cursor + 1 + Len(Tail(r)) = client[c].cursor + Len(r)
    BY <1>1, <1>4
  <2>3. /\ UNCHANGED serverID /\ UNCHANGED nextEventID /\ UNCHANGED nextSubscriberID
        /\ UNCHANGED eventSubscribers /\ UNCHANGED channel /\ UNCHANGED resync
        /\ UNCHANGED leaving
    BY <1>3 DEF owner
  <2>4. k.cursor + Len(k.replay) = client[c].cursor + Len(r)
    BY <1>6, <2>2
  <2>5. RunInv(client[c])
    BY <1>2
  <2>6. client'[c] = k /\ k.sub = s /\ k.server = client[c].server
    BY <1>6, <1>7
  <2>7. \A i \in 1 .. Len(k.replay) : k.replay[i] = k.cursor + i
    BY <1>6, <2>1
  <2> QED
    BY <2>3, <2>4, <2>5, <2>6, <2>7 DEF RunInv
<1>10. client'[c].server <= serverID /\ client'[c].cursor <= nextEventID
  BY <1>1, <1>2, <1>3, <1>6, <1>7 DEF RunInv, IInv, TypeOK
<1> QED
  BY <1>2, <1>3, <1>6, <1>7, <1>8, <1>9, <1>10, ClientOnly

\* When the replay is done the channel continues it.
LEMMA ForwardLiveFacts ==
  ASSUME IInv, NEW c \in Clients, ForwardLive(c)
  PROVE  /\ client[c].cursor < nextEventID
         /\ client' = [client EXCEPT ![c] = [@ EXCEPT !.cursor = client[c].cursor + 1]]
<1> DEFINE s == client[c].sub
<1>1. /\ client[c] \in ClientState /\ client[c].replay = << >>
      /\ client[c].cursor \in Nat /\ nextEventID \in Nat
  BY DEF IInv, TypeOK, ClientState, ForwardLive
<1>2. channel[s] # << >> /\ RunInv(client[c]) /\ Len(client[c].replay) = 0
  BY <1>1 DEF ForwardLive, IInv, StreamInv
<1>3. channel[s] \in Seq(EventIDs)
  BY <1>1, <1>2 DEF IInv, TypeOK, ClientState, RunInv, SubIDs
<1>4. Head(channel[s]) = client[c].cursor + 1
  BY <1>1, <1>2, <1>3 DEF RunInv
<1>5. client[c].cursor < nextEventID
  BY <1>1, <1>2, <1>3 DEF RunInv
<1>6. client' = [client EXCEPT ![c].cursor = client[c].cursor + 1, ![c].replay = @]
  BY <1>1, <1>4 DEF ForwardLive, Receive
<1>7. [client EXCEPT ![c].cursor = client[c].cursor + 1, ![c].replay = @]
        = [client EXCEPT ![c] = [@ EXCEPT !.cursor = client[c].cursor + 1]]
  BY DEF IInv, TypeOK, ClientState
<1> QED
  BY <1>5, <1>6, <1>7

LEMMA ForwardLiveInv ==
  ASSUME IInv, NEW c \in Clients, ForwardLive(c)
  PROVE  IInv'
<1> DEFINE s == client[c].sub
           k == [client[c] EXCEPT !.cursor = client[c].cursor + 1]
           q == channel[s]
<1>1. /\ client[c] \in ClientState /\ client[c].replay = << >>
      /\ client[c].cursor \in Nat /\ nextEventID \in 0 .. MaxPublished
      /\ MaxPublished \in Nat /\ client[c].at = "stream"
  BY StreamAssumption DEF IInv, TypeOK, ClientState, ForwardLive, StreamAssumption
<1>2. RunInv(client[c]) /\ q # << >>
  BY DEF ForwardLive, IInv, StreamInv
<1>3. s \in SubIDs /\ q \in Seq(EventIDs) /\ Len(q) <= Buffer
  BY <1>1, <1>2 DEF IInv, TypeOK, ClientState, RunInv, SubIDs
<1>4. /\ UNCHANGED serverID /\ UNCHANGED nextEventID /\ UNCHANGED events
      /\ UNCHANGED eventStart /\ UNCHANGED nextSubscriberID
      /\ UNCHANGED eventSubscribers /\ UNCHANGED resync /\ UNCHANGED leaving
      /\ channel' = [channel EXCEPT ![s] = Tail(q)]
  BY DEF ForwardLive
<1>5. client[c].cursor < nextEventID /\ client' = [client EXCEPT ![c] = k]
  BY ForwardLiveFacts
<1>6. /\ Tail(q) \in Seq(EventIDs) /\ Len(Tail(q)) = Len(q) - 1
      /\ \A i \in 1 .. Len(Tail(q)) : Tail(q)[i] = q[i + 1]
  BY <1>2, <1>3
<1>7. k \in ClientState
  <2>1. client[c].cursor + 1 \in 0 .. MaxPublished
    BY <1>1, <1>5
  <2> QED
    BY <1>1, <2>1 DEF ClientState
<1>8. /\ k.at = "stream" /\ k.server = client[c].server /\ k.sub = s
      /\ k.cursor = client[c].cursor + 1 /\ k.replay = << >>
  BY <1>1 DEF ClientState
<1> HIDE DEF k
<1>9. client'[c] = k /\ (\A d \in Clients : d # c => client'[d] = client[d])
  BY <1>5 DEF IInv, TypeOK
<1>10. /\ channel'[s] = Tail(q)
       /\ \A t \in SubIDs : t # s => channel'[t] = channel[t]
       /\ channel' \in [SubIDs -> Seq(EventIDs)]
  BY <1>3, <1>4, <1>6 DEF IInv, TypeOK
<1>11. TypeOK'
  <2>1. \A t \in SubIDs : Len(channel'[t]) <= Buffer
    <3>1. Len(q) \in Nat /\ Buffer \in Nat
      BY <1>3, StreamAssumption DEF StreamAssumption
    <3>2. Len(Tail(q)) <= Buffer
      BY <1>3, <1>6, <3>1
    <3> QED
      BY <1>10, <3>2 DEF IInv, TypeOK
  <2>2. client' \in [Clients -> ClientState]
    BY <1>5, <1>7 DEF IInv, TypeOK
  <2> QED
    BY <1>4, <1>10, <2>1, <2>2 DEF IInv, TypeOK
<1>12. RingInv'
  BY <1>4 DEF IInv, RingInv
<1>13. FreshInv'
  <2>1. s \in 1 .. nextSubscriberID /\ nextSubscriberID \in Nat
    BY <1>2 DEF RunInv, IInv, TypeOK
  <2>2. \A t \in SubIDs : t > nextSubscriberID => t # s
    BY <2>1 DEF SubIDs
  <2> QED
    BY <1>4, <1>10, <2>2 DEF IInv, FreshInv
<1>14. CursorInv'
  <2>1. k.server <= serverID /\ k.cursor <= nextEventID
    BY <1>1, <1>2, <1>5, <1>8 DEF RunInv, IInv, TypeOK
  <2> QED
    BY <1>4, <1>8, <1>9, <2>1 DEF IInv, CursorInv
<1>15. RunInv(client[c])'
  <2>1. Len(client[c].replay) = 0 /\ Len(k.replay) = 0 /\ Len(q) \in Nat
    BY <1>1, <1>3, <1>8
  <2>2. ASSUME NEW i \in 1 .. Len(Tail(q))
        PROVE  Tail(q)[i] = k.cursor + Len(k.replay) + i
    <3>1. i + 1 \in 1 .. Len(q) /\ Tail(q)[i] = q[i + 1]
      BY <1>3, <1>6
    <3>2. q[i + 1] = client[c].cursor + 0 + (i + 1)
      BY <1>2, <2>1, <3>1 DEF RunInv
    <3> QED
      BY <1>1, <1>8, <2>1, <3>1, <3>2
  <2>3. k.cursor + Len(k.replay) + Len(Tail(q)) = client[c].cursor + Len(client[c].replay) + Len(q)
    BY <1>1, <1>6, <1>8, <2>1
  <2>4. \A i \in 1 .. Len(k.replay) : k.replay[i] = k.cursor + i
    BY <2>1
  <2>5. RunInv(client[c])
    BY <1>2
  <2> HIDE DEF q
  <2>6. channel[s] = q
    BY DEF q
  <2> QED
    BY <1>4, <1>8, <1>9, <1>10, <2>2, <2>3, <2>4, <2>5, <2>6 DEF RunInv
<1>16. StreamInv'
  <2> SUFFICES ASSUME NEW d \in Clients, client'[d].at = "stream", d # c
               PROVE  RunInv(client[d])'
    BY <1>15 DEF StreamInv
  <2>1. client'[d] = client[d] /\ RunInv(client[d]) /\ client[d].sub # s
    BY <1>1, <1>9 DEF IInv, StreamInv, OwnInv
  <2>2. client[d].sub \in SubIDs
    BY <2>1, StreamAssumption DEF RunInv, IInv, TypeOK, SubIDs, StreamAssumption
  <2>3. channel'[client[d].sub] = channel[client[d].sub]
    BY <1>10, <2>1, <2>2
  <2> QED
    BY <1>4, <2>1, <2>3 DEF RunInv
<1>17. OwnInv'
  BY <1>1, <1>8, <1>9 DEF IInv, OwnInv
<1> QED
  BY <1>11, <1>12, <1>13, <1>14, <1>16, <1>17 DEF IInv

\* The end of a forwarder: its subscriber is on the way out, and no other
\* client's run mentions it.
LEMMA EndInv ==
  ASSUME IInv, NEW c \in Clients, client[c].at = "stream",
         NEW a \in {"off", "resync"},
         client' = [client EXCEPT ![c] = [@ EXCEPT !.at = a, !.sub = 0, !.replay = << >>]],
         leaving' = leaving \cup {client[c].sub},
         resync' = resync \/ resync' = resync \ {client[c].sub},
         UNCHANGED <<serverID, nextEventID, events, eventStart, nextSubscriberID,
                     eventSubscribers, channel>>
  PROVE  IInv'
<1> DEFINE s == client[c].sub
           k == [client[c] EXCEPT !.at = a, !.sub = 0, !.replay = << >>]
<1>1. client[c] \in ClientState /\ RunInv(client[c])
  BY DEF IInv, TypeOK, StreamInv
<1>2. s \in SubIDs /\ s \in 1 .. nextSubscriberID /\ nextSubscriberID \in Nat
  BY <1>1, StreamAssumption DEF RunInv, IInv, TypeOK, SubIDs, StreamAssumption
<1>3. /\ UNCHANGED serverID /\ UNCHANGED nextEventID /\ UNCHANGED events
      /\ UNCHANGED eventStart /\ UNCHANGED nextSubscriberID
      /\ UNCHANGED eventSubscribers /\ UNCHANGED channel
  OBVIOUS
<1>4. k \in ClientState
  <2>1. 0 \in 0 .. MaxSubs /\ << >> \in Seq(EventIDs) /\ a \in {"off", "stream", "resync"}
    BY StreamAssumption DEF StreamAssumption
  <2> QED
    BY <1>1, <2>1 DEF ClientState
<1>5. /\ k.at # "stream" /\ k.replay = << >>
      /\ k.cursor = client[c].cursor /\ k.server = client[c].server
  BY <1>1 DEF ClientState
<1>6. client' = [client EXCEPT ![c] = k]
  OBVIOUS
<1> HIDE DEF k
<1>7. client'[c] = k /\ (\A d \in Clients : d # c => client'[d] = client[d])
  BY <1>6 DEF IInv, TypeOK
<1>8. TypeOK'
  <2>1. client' \in [Clients -> ClientState]
    BY <1>4, <1>6 DEF IInv, TypeOK
  <2>2. leaving' \subseteq SubIDs /\ resync' \subseteq SubIDs
    BY <1>2 DEF IInv, TypeOK
  <2> QED
    BY <1>3, <2>1, <2>2 DEF IInv, TypeOK
<1>9. RingInv'
  BY <1>3 DEF IInv, RingInv
<1>10. FreshInv'
  <2>1. \A t \in SubIDs : t > nextSubscriberID => t # s
    BY <1>2 DEF SubIDs
  <2> QED
    BY <1>3, <2>1 DEF IInv, FreshInv
<1>11. CursorInv'
  BY <1>3, <1>5, <1>7 DEF IInv, CursorInv
<1>12. StreamInv'
  <2> SUFFICES ASSUME NEW d \in Clients, client'[d].at = "stream"
               PROVE  RunInv(client[d])'
    BY DEF StreamInv
  <2>1. client'[d] = client[d] /\ RunInv(client[d]) /\ client[d].sub # s
    BY <1>5, <1>7 DEF IInv, StreamInv, OwnInv
  <2> QED
    BY <1>3, <2>1 DEF RunInv
<1>13. OwnInv'
  BY <1>5, <1>7 DEF IInv, OwnInv
<1> QED
  BY <1>8, <1>9, <1>10, <1>11, <1>12, <1>13 DEF IInv

LEMMA ForwardResyncInv ==
  ASSUME IInv, NEW c \in Clients, ForwardResync(c)
  PROVE  IInv'
<1>1. client[c] \in ClientState /\ client[c].replay = << >> /\ client[c].at = "stream"
  BY DEF IInv, TypeOK, ForwardResync
<1>2. client' = [client EXCEPT ![c] = [@ EXCEPT !.at = "resync", !.sub = 0, !.replay = << >>]]
  BY <1>1 DEF ForwardResync, ClientState, IInv, TypeOK
<1>3. /\ leaving' = leaving \cup {client[c].sub}
      /\ resync' = resync \ {client[c].sub}
      /\ UNCHANGED <<serverID, nextEventID, events, eventStart, nextSubscriberID,
                     eventSubscribers, channel>>
  BY DEF ForwardResync
<1> QED
  BY <1>1, <1>2, <1>3, EndInv

LEMMA DisconnectInv ==
  ASSUME IInv, NEW c \in Clients, Disconnect(c)
  PROVE  IInv'
<1>1. client' = [client EXCEPT ![c] = [@ EXCEPT !.at = "off", !.sub = 0, !.replay = << >>]]
  BY DEF Disconnect, IInv, TypeOK
<1>2. /\ leaving' = leaving \cup {client[c].sub}
      /\ resync' = resync /\ client[c].at = "stream"
      /\ UNCHANGED <<serverID, nextEventID, events, eventStart, nextSubscriberID,
                     eventSubscribers, channel>>
  BY DEF Disconnect
<1> QED
  BY <1>1, <1>2, EndInv

LEMMA UnsubscribeInv ==
  ASSUME IInv, NEW s \in SubIDs, Unsubscribe(s)
  PROVE  IInv'
<1>1. /\ UNCHANGED serverID /\ UNCHANGED nextEventID /\ UNCHANGED events
      /\ UNCHANGED eventStart /\ UNCHANGED nextSubscriberID
      /\ UNCHANGED channel /\ UNCHANGED resync /\ UNCHANGED client
      /\ s \in leaving /\ leaving' = leaving \ {s}
      /\ eventSubscribers' = eventSubscribers \ {s}
  BY DEF Unsubscribe
<1>2. TypeOK'
  BY <1>1 DEF IInv, TypeOK
<1>3. RingInv' /\ FreshInv'
  BY <1>1 DEF IInv, RingInv, FreshInv
<1>4. CursorInv' /\ OwnInv'
  BY <1>1 DEF IInv, CursorInv, OwnInv
<1>5. StreamInv'
  <2> SUFFICES ASSUME NEW c \in Clients, client[c].at = "stream"
               PROVE  RunInv(client[c])'
    BY <1>1 DEF StreamInv
  <2>1. RunInv(client[c]) /\ client[c].sub # s
    BY <1>1 DEF IInv, StreamInv, RunInv
  <2> QED
    BY <1>1, <2>1 DEF RunInv
<1> QED
  BY <1>2, <1>3, <1>4, <1>5 DEF IInv

LEMMA NewServerInv ==
  ASSUME IInv, NewServer
  PROVE  IInv'
<1> USE StreamAssumption DEF StreamAssumption
<1>1. /\ serverID' = serverID + 1 /\ serverID < MaxServers
      /\ nextEventID' = 0 /\ events' = << >> /\ eventStart' = 0
      /\ nextSubscriberID' = 0 /\ eventSubscribers' = {}
      /\ channel' = [s \in SubIDs |-> << >>] /\ resync' = {} /\ leaving' = {}
  BY DEF NewServer
<1>2. ASSUME NEW c \in Clients
      PROVE  /\ client'[c] \in ClientState
             /\ client'[c].at # "stream" /\ client'[c].replay = << >>
             /\ client'[c].server = client[c].server
  <2>1. client[c] \in ClientState
    BY DEF IInv, TypeOK
  <2>2. client'[c] = [client[c] EXCEPT !.at = IF @ = "stream" THEN "off" ELSE @,
                                       !.sub = 0, !.replay = << >>]
    BY DEF NewServer
  <2>3. 0 \in 0 .. MaxSubs /\ << >> \in Seq(EventIDs)
    OBVIOUS
  <2>4. CASE client[c].at = "stream"
    BY <2>1, <2>2, <2>3, <2>4 DEF ClientState
  <2>5. CASE client[c].at # "stream"
    BY <2>1, <2>2, <2>3, <2>5 DEF ClientState
  <2> QED
    BY <2>4, <2>5
<1>3. client' \in [Clients -> ClientState]
  BY <1>2 DEF NewServer
<1>4. TypeOK'
  <2>1. channel' \in [SubIDs -> Seq(EventIDs)] /\ \A s \in SubIDs : Len(channel'[s]) <= Buffer
    BY <1>1
  <2>2. serverID' \in 1 .. MaxServers
    BY <1>1 DEF IInv, TypeOK
  <2> QED
    BY <1>1, <1>3, <2>1, <2>2 DEF TypeOK
<1>5. RingInv' /\ FreshInv'
  BY <1>1 DEF RingInv, FreshInv
<1>6. CursorInv'
  <2> SUFFICES ASSUME NEW c \in Clients
               PROVE  client'[c].server <= serverID' /\ client'[c].server # serverID'
    BY <1>2 DEF CursorInv
  <2>1. client[c].server <= serverID /\ client[c].server \in Nat /\ serverID \in Nat
    BY DEF IInv, TypeOK, CursorInv, ClientState
  <2> QED
    BY <1>1, <1>2, <2>1
<1>7. StreamInv' /\ OwnInv'
  BY <1>2 DEF StreamInv, OwnInv
<1> QED
  BY <1>4, <1>5, <1>6, <1>7 DEF IInv

LEMMA NextIInv == IInv /\ [Next]_vars => IInv'
<1> SUFFICES ASSUME IInv, [Next]_vars
             PROVE  IInv'
  OBVIOUS
<1>1. CASE Publish
  BY <1>1, PublishInv
<1>2. ASSUME NEW c \in Clients,
             \/ SnapshotGet(c) \/ Resume(c) \/ ResumeRefused(c) \/ Follow(c)
             \/ SubscribeAbandoned(c) \/ Disconnect(c)
      PROVE  IInv'
  BY <1>2, SnapshotGetInv, ResumeInv, ResumeRefusedInv, FollowInv,
     SubscribeAbandonedInv, DisconnectInv
<1>3. ASSUME NEW c \in Clients, Forward(c)
      PROVE  IInv'
  BY <1>3, ForwardReplayInv, ForwardLiveInv, ForwardResyncInv DEF Forward
<1>4. ASSUME NEW s \in SubIDs, Unsubscribe(s)
      PROVE  IInv'
  BY <1>4, UnsubscribeInv
<1>5. CASE NewServer
  BY <1>5, NewServerInv
<1>6. CASE UNCHANGED vars
  <2> USE <1>6 DEF vars, owner
  <2>1. TypeOK' /\ RingInv' /\ FreshInv'
    BY DEF IInv, TypeOK, RingInv, FreshInv
  <2>2. CursorInv' /\ OwnInv'
    BY DEF IInv, CursorInv, OwnInv
  <2>3. StreamInv'
    BY DEF IInv, StreamInv, RunInv
  <2> QED
    BY <2>1, <2>2, <2>3 DEF IInv
<1> QED
  BY <1>1, <1>2, <1>3, <1>4, <1>5, <1>6 DEF Next

-----------------------------------------------------------------------------
(* The theorems.                                                           *)

\* The strengthened invariant holds in every reachable state of the stream.
THEOREM Invariance == Spec => []IInv
<1>1. Init => IInv
  BY InitIInv
<1> QED
  BY <1>1, NextIInv, PTL DEF Spec

\* Whatever publication, replay, overflow and disconnects interleave, what a
\* streaming client has not received is on its way without a gap, or its
\* forwarder holds the resync event.
THEOREM NothingIsLost == Spec => []NothingLost
<1>1. IInv => NothingLost
  BY DEF IInv, NothingLost, StreamInv, RunInv
<1> QED
  BY <1>1, Invariance, PTL

-----------------------------------------------------------------------------
(* Refinement of EventLog.                                                 *)

LEMMA LogVars == UNCHANGED vars => UNCHANGED Log!logVars
  BY DEF vars, owner, Log!logVars

\* An action that moves neither the owner's log nor a cursor is a stutter.
LEMMA LogStutter ==
  ASSUME TypeOK, serverID' = serverID, nextEventID' = nextEventID,
         \A c \in Clients : /\ client'[c].cursor = client[c].cursor
                            /\ client'[c].server = client[c].server
  PROVE  UNCHANGED Log!logVars
  BY DEF Log!logVars

\* Reading one entry of the log.
LEMMA LogRead ==
  ASSUME TypeOK, NEW c \in Clients,
         serverID' = serverID, nextEventID' = nextEventID,
         client[c].server = serverID, client[c].cursor < nextEventID,
         client'[c].cursor = client[c].cursor + 1,
         client'[c].server = client[c].server,
         \A d \in Clients : d # c => client'[d] = client[d]
  PROVE  Log!Read(c)
  BY DEF Log!Read

\* Jumping to the end of the log.
LEMMA LogJump ==
  ASSUME TypeOK, NEW c \in Clients,
         serverID' = serverID, nextEventID' \in {nextEventID, nextEventID + 1},
         client'[c].cursor = nextEventID', client'[c].server = serverID,
         \A d \in Clients : d # c => client'[d] = client[d]
  PROVE  Log!Jump(c)
  BY DEF Log!Jump

LEMMA NextImplementsLog == IInv /\ [Next]_vars => [Log!Next]_(Log!logVars)
<1> SUFFICES ASSUME IInv, [Next]_vars
             PROVE  Log!Next \/ UNCHANGED Log!logVars
  OBVIOUS
<1>0. /\ TypeOK
      /\ client \in [Clients -> ClientState]
  BY DEF IInv, TypeOK
<1>1. CASE Publish
  BY <1>1 DEF Publish, PublishEvent, Log!Next, Log!Append
<1>2. ASSUME NEW c \in Clients, SnapshotGet(c)
      PROVE  Log!Next
  <2>1. serverID' = serverID /\ nextEventID' \in {nextEventID, nextEventID + 1}
    BY <1>2 DEF SnapshotGet, PublishEvent, owner
  <2>2. /\ client'[c].cursor = nextEventID' /\ client'[c].server = serverID
        /\ \A d \in Clients : d # c => client'[d] = client[d]
    BY <1>0, <1>2 DEF SnapshotGet, Jumped, ClientState
  <2> QED
    BY <1>0, <2>1, <2>2, LogJump DEF Log!Next
<1>3. ASSUME NEW c \in Clients, Follow(c)
      PROVE  Log!Next
  <2>1. serverID' = serverID /\ nextEventID' = nextEventID
    BY <1>3 DEF Follow, Register
  <2>2. /\ client'[c].cursor = nextEventID' /\ client'[c].server = serverID
        /\ \A d \in Clients : d # c => client'[d] = client[d]
    BY <1>0, <1>3 DEF Follow, Jumped, ClientState
  <2> QED
    BY <1>0, <2>1, <2>2, LogJump DEF Log!Next
<1>4. ASSUME NEW c \in Clients,
             \/ Resume(c) \/ ResumeRefused(c) \/ SubscribeAbandoned(c)
             \/ Disconnect(c) \/ ForwardResync(c)
      PROVE  UNCHANGED Log!logVars
  <2>1. serverID' = serverID /\ nextEventID' = nextEventID
    BY <1>4 DEF Resume, ResumeRefused, SubscribeAbandoned, Disconnect,
                ForwardResync, Register, owner
  <2>2. \A d \in Clients : /\ client'[d].cursor = client[d].cursor
                           /\ client'[d].server = client[d].server
    <3>1. CASE Resume(c)
      BY <1>0, <3>1 DEF Resume, ClientState
    <3>2. CASE ResumeRefused(c)
      BY <1>0, <3>2 DEF ResumeRefused, ClientState
    <3>3. CASE SubscribeAbandoned(c)
      BY <3>3 DEF SubscribeAbandoned
    <3>4. CASE Disconnect(c)
      BY <1>0, <3>4 DEF Disconnect, ClientState
    <3>5. CASE ForwardResync(c)
      BY <1>0, <3>5 DEF ForwardResync, ClientState
    <3> QED
      BY <1>4, <3>1, <3>2, <3>3, <3>4, <3>5
  <2> QED
    BY <1>0, <2>1, <2>2, LogStutter
<1>5. ASSUME NEW c \in Clients, ForwardReplay(c)
      PROVE  Log!Next
  <2>1. client[c].server = serverID
    BY <1>5 DEF ForwardReplay, IInv, StreamInv, RunInv
  <2>2. serverID' = serverID /\ nextEventID' = nextEventID
    BY <1>5 DEF ForwardReplay, owner
  <2>3. /\ client'[c].cursor = client[c].cursor + 1
        /\ client'[c].server = client[c].server
        /\ \A d \in Clients : d # c => client'[d] = client[d]
    <3> DEFINE r == Tail(client[c].replay)
    <3>1. client' = [client EXCEPT ![c] =
                       [@ EXCEPT !.cursor = client[c].cursor + 1, !.replay = r]]
      BY <1>5, ForwardReplayFacts
    <3> HIDE DEF r
    <3> QED
      BY <1>0, <3>1 DEF ClientState
  <2> QED
    BY <1>0, <1>5, <2>1, <2>2, <2>3, ForwardReplayFacts, LogRead DEF Log!Next
<1>6. ASSUME NEW c \in Clients, ForwardLive(c)
      PROVE  Log!Next
  <2>1. client[c].server = serverID
    BY <1>6 DEF ForwardLive, IInv, StreamInv, RunInv
  <2>2. serverID' = serverID /\ nextEventID' = nextEventID
    BY <1>6 DEF ForwardLive
  <2>3. /\ client'[c].cursor = client[c].cursor + 1
        /\ client'[c].server = client[c].server
        /\ \A d \in Clients : d # c => client'[d] = client[d]
    BY <1>0, <1>6, ForwardLiveFacts DEF ClientState
  <2> QED
    BY <1>0, <1>6, <2>1, <2>2, <2>3, ForwardLiveFacts, LogRead DEF Log!Next
<1>7. ASSUME NEW s \in SubIDs, Unsubscribe(s)
      PROVE  UNCHANGED Log!logVars
  BY <1>0, <1>7, LogStutter DEF Unsubscribe
<1>8. CASE NewServer
  <2>1. \A c \in Clients : /\ client'[c].cursor = client[c].cursor
                           /\ client'[c].server = client[c].server
    BY <1>0, <1>8 DEF NewServer, ClientState
  <2> QED
    BY <1>8, <2>1 DEF NewServer, Log!Next, Log!NewServer
<1>9. CASE UNCHANGED vars
  BY <1>9, LogVars
<1> QED
  BY <1>1, <1>2, <1>3, <1>4, <1>5, <1>6, <1>7, <1>8, <1>9 DEF Next, Forward

\* The ring, the channels and the forwarders together are one numbered log per
\* manager, which every client reads in order, each entry once.
THEOREM StreamImplementsLog == Spec => LogSpec
<1>1. Init => Log!Init
  BY DEF Init, NewClient, Log!Init
<1> QED
  BY <1>1, Invariance, NextImplementsLog, PTL DEF Spec, LogSpec, Log!Spec
=============================================================================
