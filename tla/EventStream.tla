----------------------------- MODULE EventStream -----------------------------
(***************************************************************************)
(* Event publication and subscription (internal/manager/events.go) and the *)
(* goroutine that forwards a subscription to its connection                *)
(* (forwardEventSubscription in api_transport.go).                         *)
(*                                                                         *)
(* The owner numbers events, retains the last Ring of them in a circular   *)
(* buffer and offers each to every subscriber's channel without blocking.  *)
(* A subscriber whose channel is full is dropped and told to resync.       *)
(* Clients follow the documented protocol: they resume with the identity   *)
(* of the manager and the number of the last event they saw, and fetch a   *)
(* snapshot after manager.resync_required.                                 *)
(*                                                                         *)
(* An event is its number.  A connection ends at any time; a subscriber    *)
(* may be left without a forwarder when the request's deadline expires or  *)
(* the response cannot be written.                                         *)
(***************************************************************************)
EXTENDS Naturals, Sequences

CONSTANTS
  Clients,
  Ring,           \* maxRetainedEvents
  Buffer,         \* eventSubscriberBuffer
  MaxPublished,   \* bound: events per manager instance
  MaxSubs,        \* bound: subscriptions per manager instance
  MaxServers      \* bound: manager instances

ASSUME StreamAssumption ==
  /\ Ring \in Nat \ {0}
  /\ Buffer \in Nat \ {0}
  /\ MaxPublished \in Nat
  /\ MaxSubs \in Nat
  /\ MaxServers \in Nat \ {0}

VARIABLES
  serverID,
  nextEventID,
  events,            \* m.events: the circular buffer
  eventStart,        \* m.eventStart: index of the oldest, from 0
  nextSubscriberID,
  eventSubscribers,  \* ids in m.eventSubscribers
  channel,           \* the events channel of each subscriber
  resync,            \* subscribers with an event in their resync channel
  leaving,           \* subscribers whose forwarder ended: unsubscribe submitted
  client             \* each client, and the forwarder that serves it

owner == <<serverID, nextEventID, events, eventStart, nextSubscriberID,
           eventSubscribers, channel, resync, leaving>>
vars  == <<owner, client>>

SubIDs == 1 .. MaxSubs
EventIDs == 1 .. MaxPublished

\* at: not subscribed, streaming, or told to resynchronize.
NewClient == [at |-> "off", sub |-> 0, replay |-> << >>,
              cursor |-> 0, server |-> 0]

ClientState == [at: {"off", "stream", "resync"}, sub: 0 .. MaxSubs,
                replay: Seq(EventIDs), cursor: 0 .. MaxPublished,
                server: 0 .. MaxServers]

\* Shape of the state; channels stay within their capacity.
TypeOK ==
  /\ serverID \in 1 .. MaxServers
  /\ nextEventID \in 0 .. MaxPublished
  /\ events \in Seq(EventIDs) /\ Len(events) <= Ring
  /\ eventStart \in 0 .. (Ring - 1)
  /\ nextSubscriberID \in 0 .. MaxSubs
  /\ eventSubscribers \subseteq 1 .. nextSubscriberID
  /\ channel \in [SubIDs -> Seq(EventIDs)]
  /\ \A s \in SubIDs : Len(channel[s]) <= Buffer
  /\ resync \subseteq SubIDs
  /\ leaving \subseteq SubIDs
  /\ client \in [Clients -> ClientState]

Init ==
  /\ serverID = 1
  /\ nextEventID = 0
  /\ events = << >>
  /\ eventStart = 0
  /\ nextSubscriberID = 0
  /\ eventSubscribers = {}
  /\ channel = [s \in SubIDs |-> << >>]
  /\ resync = {}
  /\ leaving = {}
  /\ client = [c \in Clients |-> NewClient]

-----------------------------------------------------------------------------
Retain(e) ==
  IF Len(events) < Ring
  THEN /\ events' = Append(events, e)
       /\ UNCHANGED eventStart
  ELSE /\ events' = [events EXCEPT ![eventStart + 1] = e]
       /\ eventStart' = (eventStart + 1) % Ring

Full(s) == Len(channel[s]) >= Buffer

Offer_SkipsFull(e) ==  \* mutation: a full channel misses the event, no more
  /\ channel' = [s \in SubIDs |-> IF s \in eventSubscribers /\ ~Full(s)
                                  THEN Append(channel[s], e) ELSE channel[s]]
  /\ UNCHANGED <<eventSubscribers, resync>>

Offer_Silent(e) ==  \* mutation: drops a slow subscriber without telling it
  /\ channel' = [s \in SubIDs |-> IF s \in eventSubscribers /\ ~Full(s)
                                  THEN Append(channel[s], e) ELSE channel[s]]
  /\ eventSubscribers' = {s \in eventSubscribers : ~Full(s)}
  /\ UNCHANGED resync

Offer(e) ==
  /\ channel' = [s \in SubIDs |-> IF s \in eventSubscribers /\ ~Full(s)
                                  THEN Append(channel[s], e) ELSE channel[s]]
  /\ eventSubscribers' = {s \in eventSubscribers : ~Full(s)}
  /\ resync' = resync \cup {s \in eventSubscribers : Full(s)}

PublishEvent ==
  /\ nextEventID < MaxPublished
  /\ nextEventID' = nextEventID + 1
  /\ Retain(nextEventID')
  /\ Offer(nextEventID')
  /\ UNCHANGED <<serverID, nextSubscriberID, leaving>>

Publish == PublishEvent /\ UNCHANGED client

RetainedEvents ==
  [i \in 1 .. Len(events) |-> events[((eventStart + i - 1) % Len(events)) + 1]]

OldestEventID == IF events = << >> THEN 0 ELSE events[eventStart + 1]

NeedsResync_OffByOne(after, server) ==  \* mutation: accepts one lost event
  \/ server # serverID
  \/ after > nextEventID
  \/ OldestEventID > 0 /\ after + 2 < OldestEventID

\* A cursor of another instance, from the future, or older than retention.
NeedsResync(after, server) ==
  \/ server # serverID
  \/ after > nextEventID
  \/ OldestEventID > 0 /\ after + 1 < OldestEventID

\* The loop of subscribeEvents: the retained events after a cursor, in order.
NewerThan(after, retained) ==
  LET replay[i \in 0 .. Len(retained)] ==
        IF i = 0 THEN << >>
        ELSE IF retained[i] > after THEN Append(replay[i - 1], retained[i])
        ELSE replay[i - 1]
  IN replay[Len(retained)]

Replay(after) == NewerThan(after, RetainedEvents)

Register ==
  /\ nextSubscriberID < MaxSubs
  /\ nextSubscriberID' = nextSubscriberID + 1
  /\ eventSubscribers' = eventSubscribers \cup {nextSubscriberID'}
  /\ UNCHANGED <<serverID, nextEventID, events, eventStart, channel, resync, leaving>>

\* The client's picture of the manager becomes current.
Jumped(c, k) ==
  [k EXCEPT !.cursor = nextEventID', !.server = serverID]

-----------------------------------------------------------------------------
\* snapshot.get publishes what its refresh discovered and returns the cursor.
SnapshotGet(c) ==
  /\ client[c].at # "stream"
  /\ PublishEvent \/ UNCHANGED owner
  /\ client' = [client EXCEPT ![c] = Jumped(c, [@ EXCEPT !.at = "off"])]

\* events.subscribe with the cursor of the last event seen.
Resume(c) ==
  /\ client[c].at = "off"
  /\ client[c].server # 0
  /\ ~NeedsResync(client[c].cursor, client[c].server)
  /\ Register
  /\ client' = [client EXCEPT ![c].at = "stream", ![c].sub = nextSubscriberID',
                              ![c].replay = Replay(client[c].cursor)]

ResumeRefused(c) ==
  /\ client[c].at = "off"
  /\ client[c].server # 0
  /\ NeedsResync(client[c].cursor, client[c].server)
  /\ client' = [client EXCEPT ![c].at = "resync"]
  /\ UNCHANGED owner

\* events.subscribe without a cursor: new events only.
Follow(c) ==
  /\ client[c].at = "off"
  /\ Register
  /\ client' = [client EXCEPT ![c] =
       Jumped(c, [@ EXCEPT !.at = "stream", !.sub = nextSubscriberID'])]

\* The owner registers a subscriber nobody forwards: the deadline expired, or
\* the response could not be written.
SubscribeAbandoned(c) ==
  /\ client[c].at = "off"
  /\ Register
  /\ UNCHANGED client

Receive(c, e) ==
  /\ client' = [client EXCEPT
       ![c].cursor = e,
       ![c].replay = IF @ # << >> THEN Tail(@) ELSE @]

ForwardReplay(c) ==
  /\ client[c].at = "stream"
  /\ client[c].replay # << >>
  /\ Receive(c, Head(client[c].replay))
  /\ UNCHANGED owner

ForwardLive(c) ==
  LET s == client[c].sub IN
  /\ client[c].at = "stream"
  /\ client[c].replay = << >>
  /\ channel[s] # << >>
  /\ channel' = [channel EXCEPT ![s] = Tail(@)]
  /\ Receive(c, Head(channel[s]))
  /\ UNCHANGED <<serverID, nextEventID, events, eventStart, nextSubscriberID,
                 eventSubscribers, resync, leaving>>

\* The select may take the resync event before the remaining live ones.
ForwardResync(c) ==
  LET s == client[c].sub IN
  /\ client[c].at = "stream"
  /\ client[c].replay = << >>
  /\ s \in resync
  /\ resync' = resync \ {s}
  /\ leaving' = leaving \cup {s}
  /\ client' = [client EXCEPT ![c].at = "resync", ![c].sub = 0]
  /\ UNCHANGED <<serverID, nextEventID, events, eventStart, nextSubscriberID,
                 eventSubscribers, channel>>

\* The connection ends: context cancelled or write failed.
Disconnect(c) ==
  /\ client[c].at = "stream"
  /\ leaving' = leaving \cup {client[c].sub}
  /\ client' = [client EXCEPT ![c].at = "off", ![c].sub = 0, ![c].replay = << >>]
  /\ UNCHANGED <<serverID, nextEventID, events, eventStart, nextSubscriberID,
                 eventSubscribers, channel, resync>>

\* The deferred unsubscribe command; it is lost when the mailbox is full.
Unsubscribe(s) ==
  /\ s \in leaving
  /\ leaving' = leaving \ {s}
  /\ eventSubscribers' = eventSubscribers \ {s}
  /\ UNCHANGED <<serverID, nextEventID, events, eventStart, nextSubscriberID,
                 channel, resync, client>>

\* A new manager instance: new identity, empty memory, closed connections.
NewServer ==
  /\ serverID < MaxServers
  /\ serverID' = serverID + 1
  /\ nextEventID' = 0
  /\ events' = << >>
  /\ eventStart' = 0
  /\ nextSubscriberID' = 0
  /\ eventSubscribers' = {}
  /\ channel' = [s \in SubIDs |-> << >>]
  /\ resync' = {}
  /\ leaving' = {}
  /\ client' = [c \in Clients |->
       [client[c] EXCEPT !.at = IF @ = "stream" THEN "off" ELSE @,
                         !.sub = 0, !.replay = << >>]]

Forward(c) == ForwardReplay(c) \/ ForwardLive(c) \/ ForwardResync(c)

Next ==
  \/ Publish
  \/ \E c \in Clients :
       \/ SnapshotGet(c)
       \/ Resume(c)
       \/ ResumeRefused(c)
       \/ Follow(c)
       \/ SubscribeAbandoned(c)
       \/ Forward(c)
       \/ Disconnect(c)
  \/ \E s \in SubIDs : Unsubscribe(s)
  \/ NewServer

Spec == Init /\ [][Next]_vars

\* A forwarder goroutine keeps running while its client reads.
FairSpec == Spec /\ \A c \in Clients : WF_vars(Forward(c))

-----------------------------------------------------------------------------
\* What a streaming client has not received yet is still on its way in full, or
\* its forwarder holds the resync event: publishEvent and subscribeEvents leave
\* no third possibility.
NothingLost ==
  /\ TypeOK
  /\ \A c \in Clients :
       client[c].at = "stream" =>
         IF client[c].sub \in eventSubscribers
         THEN client[c].cursor + Len(client[c].replay) + Len(channel[client[c].sub])
                = nextEventID
         ELSE client[c].sub \in resync

\* The stream implements the abstract log: exactly once, in order.
Log == INSTANCE EventLog WITH
  server   <- serverID,
  length   <- nextEventID,
  position <- [c \in Clients |-> client[c].cursor],
  follows  <- [c \in Clients |-> client[c].server]

LogSpec == Log!Spec

\* A client that keeps streaming receives every published event, or is told to
\* resynchronize: it never waits for ever behind the manager.
CatchesUp ==
  \A c \in Clients : \A n \in EventIDs :
    client[c].at = "stream" /\ nextEventID = n ~>
      client[c].at # "stream" \/ client[c].cursor >= n
=============================================================================
