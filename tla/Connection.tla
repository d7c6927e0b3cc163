----------------------------- MODULE Connection -----------------------------
(***************************************************************************)
(* The API socket: accepting and closing connections, the read loop of a   *)
(* connection, one goroutine per request, the goroutines that push events, *)
(* and the command-line tools at the other end (api_transport.go,          *)
(* api_client.go).                                                         *)
(*                                                                         *)
(* A write blocks while the socket is full and fails once either side has  *)
(* closed it; the writer's mutex makes it atomic.  A request is reduced to *)
(* one owner command: Idempotency has the three a mutation takes.  What a  *)
(* subscription delivers is the subject of EventStream; here it is a       *)
(* goroutine that shares the connection.                                   *)
(***************************************************************************)
EXTENDS Naturals, Sequences, FiniteSets

CONSTANTS
  Conns,        \* connections, each dialled at most once
  Tools,        \* those dialled by this program's own command line
  HelloId,      \* the identifier a tool gives its offer
  ToolId,       \* and its request
  OtherIds,     \* the identifiers other clients use
  OtherKinds,   \* the kinds of frames they send
  MayLeave,     \* they may hang up
  MayStop,      \* the server may be closed
  None,
  MaxClients,   \* apiMaxClients
  MaxInFlight,  \* apiMaxInFlight
  MailboxSize,  \* managerCommandQueueSize
  SocketSize,   \* frames the socket holds in each direction
  MaxFrames,    \* bound: frames a client sends
  MaxEvents     \* bound: events pushed to a connection

ASSUME ConnectionAssumption ==
  /\ Tools \subseteq Conns
  /\ HelloId # ToolId
  /\ None \notin Conns
  /\ MayLeave \in BOOLEAN /\ MayStop \in BOOLEAN
  /\ {MaxClients, MaxInFlight, MailboxSize, SocketSize} \subseteq Nat \ {0}
  /\ MaxFrames \in Nat /\ MaxFrames >= 2
  /\ MaxEvents \in Nat

VARIABLES
  server,     \* the apiServer: [up, closed, listening, stopping]
  accepting,  \* the connection Accept returned, before addClient
  clients,    \* server.clients
  toClose,    \* connections Close has still to close
  sock,       \* the manager's end of a connection
  peer,       \* the client's end is open
  inq, out,   \* frames towards the manager and towards the client
  loop,       \* where serveAPIClient is
  owed,       \* the request it has refused and not yet answered
  hello,      \* helloComplete
  inFlight,   \* identifiers in flight
  sem,        \* slots of the semaphore in use
  workers,    \* request goroutines
  forwards,   \* forwardEventSubscription goroutines
  mailbox,    \* m.commands
  tool,       \* where a client is: tools follow a script
  sent,       \* frames a client has sent
  pushed      \* events pushed to a connection

serverVars == <<server, accepting, clients, toClose>>
wire       == <<sock, peer, inq, out>>
loopVars   == <<loop, owed, hello>>
workVars   == <<inFlight, sem, workers, forwards, mailbox>>
clientVars == <<tool, sent, pushed>>
vars == <<serverVars, wire, loopVars, workVars, clientVars>>

\* Requests by what the server makes of them: too long or empty, not parsed, an
\* offer of version 1, an owner command, a subscription, and what is refused
\* in every state (another offer, an unknown method).
Kinds == {"overlong", "junk", "hello", "call", "subscribe", "other"}
Ids == OtherIds \cup {HelloId, ToolId}

ASSUME KindsAssumption == OtherKinds \subseteq Kinds

Requests == [n: 1 .. MaxFrames, id: Ids, kind: Kinds]
Response(id, ok) == [type |-> "response", id |-> id, ok |-> ok]
Event(event)     == [type |-> "event", event |-> event]
Frames == {Response(id, ok) : id \in Ids, ok \in BOOLEAN}
          \cup {Event(event) : event \in {"next", "last"}}

\* The goroutine of request n: what it is to do, then what it is to answer.
Commands == {"call", "subscribe"}
Answers  == {"result", "subscribed", "error"}
Workers  == [c: Conns, n: 1 .. MaxFrames, id: Ids,
             at: {"start", "wait", "answer", "written", "release"},
             job: Commands \cup Answers \cup {"other", "none"}]

\* The forwarding goroutine of a subscription, and the event in its hands.
Forwarders == [c: Conns, n: 1 .. MaxFrames, event: {"none", "next", "last"}]

Servers == [up: BOOLEAN, closed: BOOLEAN, listening: BOOLEAN, stopping: BOOLEAN]

WorkersOf(c) == {w \in workers : w.c = c}

TypeOK ==
  /\ server \in Servers
  /\ accepting \in Conns \cup {None}
  /\ clients \subseteq Conns /\ toClose \subseteq Conns
  /\ sock \in [Conns -> {"new", "backlog", "open", "shut"}]
  /\ peer \in [Conns -> BOOLEAN]
  /\ inq \in [Conns -> Seq(Requests)] /\ out \in [Conns -> Seq(Frames)]
  /\ \A c \in Conns : Len(inq[c]) <= SocketSize /\ Len(out[c]) <= SocketSize
  /\ loop \in [Conns -> {"none", "read", "closed", "gone"}]
  /\ owed \in [Conns -> Ids \cup {None}]
  /\ hello \in [Conns -> BOOLEAN]
  /\ inFlight \in [Conns -> SUBSET Ids]
  /\ sem \in [Conns -> 0 .. MaxInFlight]
  /\ workers \subseteq Workers
  /\ forwards \subseteq Forwarders
  /\ mailbox \in Seq(Conns \X (1 .. MaxFrames)) /\ Len(mailbox) <= MailboxSize
  /\ tool \in [Conns -> {"idle", "dialled", "greeted", "ready", "asked", "subscribing",
                         "stream", "done", "failed"}]
  /\ sent \in [Conns -> 0 .. MaxFrames]
  /\ pushed \in [Conns -> 0 .. MaxEvents]

Init ==
  /\ server = [up |-> TRUE, closed |-> FALSE, listening |-> TRUE, stopping |-> FALSE]
  /\ accepting = None /\ clients = {} /\ toClose = {}
  /\ sock = [c \in Conns |-> "new"]
  /\ peer = [c \in Conns |-> FALSE]
  /\ inq = [c \in Conns |-> <<>>] /\ out = [c \in Conns |-> <<>>]
  /\ loop = [c \in Conns |-> "none"]
  /\ owed = [c \in Conns |-> None]
  /\ hello = [c \in Conns |-> FALSE]
  /\ inFlight = [c \in Conns |-> {}] /\ sem = [c \in Conns |-> 0]
  /\ workers = {} /\ forwards = {} /\ mailbox = <<>>
  /\ tool = [c \in Conns |-> "idle"]
  /\ sent = [c \in Conns |-> 0] /\ pushed = [c \in Conns |-> 0]

-----------------------------------------------------------------------------
(* The server: run, addClient, removeClient, Close.                        *)

\* Accept returns a connection.
Accept(c) ==
  /\ server.up /\ server.listening /\ accepting = None
  /\ sock[c] = "backlog"
  /\ sock' = [sock EXCEPT ![c] = "open"]
  /\ accepting' = c
  /\ UNCHANGED <<server, clients, toClose, peer, inq, out, loopVars, workVars, clientVars>>

AddClient_IgnoresClose ==  \* mutation: a connection accepted during Close is served
  /\ accepting # None
  /\ accepting' = None
  /\ IF Cardinality(clients) >= MaxClients
       THEN /\ sock' = [sock EXCEPT ![accepting] = "shut"]
            /\ UNCHANGED <<clients, loop>>
       ELSE /\ clients' = clients \cup {accepting}
            /\ loop' = [loop EXCEPT ![accepting] = "read"]
            /\ UNCHANGED sock
  /\ UNCHANGED <<server, toClose, peer, inq, out, owed, hello, workVars, clientVars>>

\* addClient under the server's mutex, and what run does with its answer.
AddClient ==
  /\ accepting # None
  /\ accepting' = None
  /\ IF server.closed \/ Cardinality(clients) >= MaxClients
       THEN /\ sock' = [sock EXCEPT ![accepting] = "shut"]
            /\ UNCHANGED <<clients, loop>>
       ELSE /\ clients' = clients \cup {accepting}
            /\ loop' = [loop EXCEPT ![accepting] = "read"]
            /\ UNCHANGED sock
  /\ UNCHANGED <<server, toClose, peer, inq, out, owed, hello, workVars, clientVars>>

\* Accept fails for reasons of the system: run returns, and its deferred Close
\* begins.
AcceptFails ==
  /\ MayStop /\ server.up /\ ~server.closed /\ accepting = None
  /\ server' = [server EXCEPT !.up = FALSE, !.closed = TRUE]
  /\ toClose' = clients /\ clients' = {}
  /\ UNCHANGED <<accepting, wire, loopVars, workVars, clientVars>>

Stop_KeepsClients ==  \* mutation: Close forgets the connections
  /\ MayStop /\ ~server.stopping
  /\ server' = [server EXCEPT !.stopping = TRUE, !.closed = TRUE]
  /\ clients' = {}
  /\ UNCHANGED <<accepting, toClose, wire, loopVars, workVars, clientVars>>

\* The manager's context ends, and the goroutine that waits for it calls Close.
\* Its locked part happens once.
Stop ==
  /\ MayStop /\ ~server.stopping
  /\ server' = [server EXCEPT !.stopping = TRUE, !.closed = TRUE]
  /\ toClose' = toClose \cup clients /\ clients' = {}
  /\ UNCHANGED <<accepting, wire, loopVars, workVars, clientVars>>

CloseConnection(c) ==
  /\ c \in toClose
  /\ toClose' = toClose \ {c}
  /\ sock' = [sock EXCEPT ![c] = "shut"]
  /\ UNCHANGED <<server, accepting, clients, peer, inq, out, loopVars, workVars, clientVars>>

\* Closing the listener also drops what nobody has accepted.
CloseListener ==
  /\ server.closed /\ server.listening /\ toClose = {}
  /\ server' = [server EXCEPT !.listening = FALSE]
  /\ sock' = [c \in Conns |-> IF sock[c] = "backlog" THEN "shut" ELSE sock[c]]
  /\ UNCHANGED <<accepting, clients, toClose, peer, inq, out, loopVars, workVars, clientVars>>

-----------------------------------------------------------------------------
(* Writing to a connection (apiResponseWriter).                            *)

Alive(c) == sock[c] = "open" /\ peer[c]

\* Blocks while the socket is full; fails, without effect, once it is closed.
CanWrite(c)     == Alive(c) => Len(out[c]) < SocketSize
Written(c, f)   == out' = [out EXCEPT ![c] = IF Alive(c) THEN Append(@, f) ELSE @]

\* clientContext: cancelled by the read loop's return or with the manager's.
ContextDone(c) == server.stopping \/ loop[c] \in {"closed", "gone"}

-----------------------------------------------------------------------------
(* The read loop of a connection (serveAPIClient).                         *)

\* readAPIFrame returned the next frame, f.
Reads(c, f) ==
  /\ loop[c] = "read" /\ owed[c] = None
  /\ f.kind # "overlong"
  /\ inq' = [inq EXCEPT ![c] = Tail(@)]
  /\ UNCHANGED <<serverVars, peer, clientVars>>

\* The read loop returns: cancel and Close; removeClient comes later, in run's
\* goroutine.
Returns(c) ==
  /\ loop' = [loop EXCEPT ![c] = "closed"]
  /\ sock' = [sock EXCEPT ![c] = "shut"]

\* Before negotiation anything but an offer of version 1 ends the connection,
\* and so does failing to write the answer to the offer.  Nothing else has been
\* written, so the socket has room.
ReadFirst(c, f) ==
  /\ Reads(c, f)
  /\ ~hello[c]
  /\ Written(c, Response(f.id, f.kind = "hello"))
  /\ IF f.kind = "hello" /\ Alive(c)
       THEN hello' = [hello EXCEPT ![c] = TRUE] /\ UNCHANGED <<loop, sock>>
       ELSE Returns(c) /\ UNCHANGED hello
  /\ UNCHANGED <<owed, workVars>>

Exhausted(c)    == sem[c] = MaxInFlight
Duplicate_Unchecked(c, f) == FALSE  \* mutation: identifiers are not compared
Duplicate(c, f) == f.id \in inFlight[c]

ReadRefused_LeaksSlot(c, f) ==  \* mutation: a repeated request keeps its slot
  /\ Reads(c, f)
  /\ hello[c]
  /\ f.kind = "junk" \/ Exhausted(c) \/ Duplicate(c, f)
  /\ owed' = [owed EXCEPT ![c] = f.id]
  /\ sem' = [sem EXCEPT ![c] = IF f.kind = "junk" \/ Exhausted(c) THEN @ ELSE @ + 1]
  /\ UNCHANGED <<sock, out, loop, hello, inFlight, workers, forwards, mailbox>>

\* A malformed request, one too many, or an identifier in flight, whose slot
\* is given back at once.
ReadRefused(c, f) ==
  /\ Reads(c, f)
  /\ hello[c]
  /\ f.kind = "junk" \/ Exhausted(c) \/ Duplicate(c, f)
  /\ owed' = [owed EXCEPT ![c] = f.id]
  /\ UNCHANGED <<sock, out, loop, hello, workVars>>

\* The refusal is written, once the socket has room; failing to is ignored.
Refuse(c) ==
  /\ owed[c] # None
  /\ CanWrite(c)
  /\ Written(c, Response(owed[c], FALSE))
  /\ owed' = [owed EXCEPT ![c] = None]
  /\ UNCHANGED <<serverVars, sock, peer, inq, loop, hello, workVars, clientVars>>

\* A request gets its slot and its goroutine.
ReadRequest(c, f) ==
  /\ Reads(c, f)
  /\ hello[c]
  /\ f.kind # "junk" /\ ~Exhausted(c) /\ ~Duplicate(c, f)
  /\ sem' = [sem EXCEPT ![c] = @ + 1]
  /\ inFlight' = [inFlight EXCEPT ![c] = @ \cup {f.id}]
  /\ workers' = workers \cup
       {[c |-> c, n |-> f.n, id |-> f.id, at |-> "start",
         job |-> IF f.kind \in Commands THEN f.kind ELSE "other"]}
  /\ UNCHANGED <<sock, out, loopVars, forwards, mailbox>>

\* readAPIFrame failed: the end of the stream, a socket Close has closed, an
\* overlong or empty frame.
ReadFails(c) ==
  /\ loop[c] = "read" /\ owed[c] = None
  /\ \/ sock[c] = "shut"
     \/ ~peer[c] /\ inq[c] = <<>>
     \/ inq[c] # <<>> /\ Head(inq[c]).kind = "overlong"
  /\ Returns(c)
  /\ inq' = [inq EXCEPT ![c] = <<>>]
  /\ UNCHANGED <<serverVars, peer, out, owed, hello, workVars, clientVars>>

RemoveClient(c) ==
  /\ loop[c] = "closed"
  /\ loop' = [loop EXCEPT ![c] = "gone"]
  /\ clients' = clients \ {c}
  /\ UNCHANGED <<server, accepting, toClose, wire, owed, hello, workVars, clientVars>>

-----------------------------------------------------------------------------
(* The goroutine of a request.                                             *)

\* Worker w becomes v.
Becomes(w, v) == workers' = (workers \ {w}) \cup {v}

\* submitCommand, or the answer that needs no owner: a second offer, an unknown
\* method, a context that is done, a full mailbox.
Submit(w) ==
  /\ w.at = "start"
  /\ IF w.job \in Commands /\ ~ContextDone(w.c) /\ Len(mailbox) < MailboxSize
       THEN /\ Becomes(w, [w EXCEPT !.at = "wait"])
            /\ mailbox' = Append(mailbox, <<w.c, w.n>>)
       ELSE /\ Becomes(w, [w EXCEPT !.at = "answer", !.job = "error"])
            /\ UNCHANGED mailbox
  /\ UNCHANGED <<serverVars, wire, loopVars, inFlight, sem, forwards, clientVars>>

\* submitCommand gives up: the connection's or the manager's context is done.
GiveUp(w) ==
  /\ w.at = "wait"
  /\ ContextDone(w.c)
  /\ Becomes(w, [w EXCEPT !.at = "answer", !.job = "error"])
  /\ UNCHANGED <<serverVars, wire, loopVars, inFlight, sem, forwards, mailbox, clientVars>>

\* The request's own deadline passes.
Expire(w) ==
  /\ w.at = "wait"
  /\ Becomes(w, [w EXCEPT !.at = "answer", !.job = "error"])
  /\ UNCHANGED <<serverVars, wire, loopVars, inFlight, sem, forwards, mailbox, clientVars>>

\* The forwarding goroutine of a subscription, with no event in its hands.
Forwarder(w) == [c |-> w.c, n |-> w.n, event |-> "none"]

WriteAnswer_ForwardsFirst(w) ==  \* mutation: events may precede the answer
  /\ w.at = "answer"
  /\ \/ /\ w.job = "subscribed" /\ Forwarder(w) \notin forwards
        /\ forwards' = forwards \cup {Forwarder(w)}
        /\ UNCHANGED <<workers, out>>
     \/ /\ w.job = "subscribed" => \E g \in forwards : g.c = w.c /\ g.n = w.n
        /\ CanWrite(w.c)
        /\ Written(w.c, Response(w.id, w.job # "error"))
        /\ Becomes(w, [w EXCEPT !.at = "written", !.job = "none"])
        /\ UNCHANGED forwards
  /\ UNCHANGED <<serverVars, sock, peer, inq, loopVars, inFlight, sem, mailbox, clientVars>>

\* The one answer of a request.  A subscription starts its forwarding goroutine
\* once its answer is written.
WriteAnswer(w) ==
  /\ w.at = "answer"
  /\ CanWrite(w.c)
  /\ Written(w.c, Response(w.id, w.job # "error"))
  /\ Becomes(w, [w EXCEPT !.at = "written", !.job = "none"])
  /\ forwards' = IF w.job = "subscribed" /\ Alive(w.c)
                  THEN forwards \cup {Forwarder(w)} ELSE forwards
  /\ UNCHANGED <<serverVars, sock, peer, inq, loopVars, inFlight, sem, mailbox, clientVars>>

\* The deferred function: the identifier, then the slot.
Finish(w) ==
  /\ \/ /\ w.at = "written"
        /\ inFlight' = [inFlight EXCEPT ![w.c] = @ \ {w.id}]
        /\ Becomes(w, [w EXCEPT !.at = "release"])
        /\ UNCHANGED sem
     \/ /\ w.at = "release"
        /\ sem' = [sem EXCEPT ![w.c] = @ - 1]
        /\ workers' = workers \ {w}
        /\ UNCHANGED inFlight
  /\ UNCHANGED <<serverVars, wire, loopVars, forwards, mailbox, clientVars>>

Work(c) ==
  \E w \in WorkersOf(c) : Submit(w) \/ GiveUp(w) \/ WriteAnswer(w) \/ Finish(w)

\* What executeCommand may reply; the method decides whether a call succeeds.
Results(w) == CASE ContextDone(w.c)     -> {"error"}
                [] w.job = "subscribe"  -> {"subscribed"}
                [] OTHER                -> {"result", "error"}

\* The goroutine that waits for the first command, unless it has given up.
Submitter == {w \in workers : w.at = "wait" /\ <<w.c, w.n>> = Head(mailbox)}

Execute_WritesItself ==  \* mutation: the owner waits for the client to read
  /\ mailbox # <<>>
  /\ CanWrite(Head(mailbox)[1])
  /\ mailbox' = Tail(mailbox)
  /\ \/ \E w \in Submitter : \E r \in Results(w) :
          Becomes(w, [w EXCEPT !.at = "answer", !.job = r])
     \/ Submitter = {} /\ UNCHANGED workers
  /\ UNCHANGED <<serverVars, wire, loopVars, inFlight, sem, forwards, clientVars>>

\* executeCommand: the reply channel has room, so the owner never waits for the
\* client.  A command whose submitter has given up is only dropped.
Execute ==
  /\ mailbox # <<>>
  /\ mailbox' = Tail(mailbox)
  /\ \/ \E w \in Submitter : \E r \in Results(w) :
          Becomes(w, [w EXCEPT !.at = "answer", !.job = r])
     \/ Submitter = {} /\ UNCHANGED workers
  /\ UNCHANGED <<serverVars, wire, loopVars, inFlight, sem, forwards, clientVars>>

-----------------------------------------------------------------------------
(* The goroutine of a subscription.                                        *)

\* The goroutine takes an event of the replay, of its channel, or the one that
\* asks to resynchronise.
TakeEvent(g, event) ==
  /\ g.event = "none"
  /\ pushed[g.c] < MaxEvents
  /\ pushed' = [pushed EXCEPT ![g.c] = @ + 1]
  /\ forwards' = (forwards \ {g}) \cup {[g EXCEPT !.event = event]}
  /\ UNCHANGED <<serverVars, wire, loopVars, inFlight, sem, workers, mailbox, tool, sent>>

\* It writes the event; after the last one, or a failed write, it returns.
Push(g) ==
  /\ g.event # "none"
  /\ CanWrite(g.c)
  /\ Written(g.c, Event(g.event))
  /\ forwards' = (forwards \ {g}) \cup
       {[h EXCEPT !.event = "none"] : h \in {h \in {g} : g.event = "next" /\ Alive(g.c)}}
  /\ UNCHANGED <<serverVars, sock, peer, inq, loopVars, inFlight, sem, workers, mailbox, clientVars>>

\* Between two events it notices that the context is done.
ForwardEnds(g) ==
  /\ g.event = "none"
  /\ ContextDone(g.c)
  /\ forwards' = forwards \ {g}
  /\ UNCHANGED <<serverVars, wire, loopVars, inFlight, sem, workers, mailbox, clientVars>>

Forward(c) == \E g \in forwards : g.c = c /\ (Push(g) \/ ForwardEnds(g))

-----------------------------------------------------------------------------
(* Clients.  A tool follows requestManagerAPIWithKey or eventsCLI; what     *)
(* other clients do is external: they send what they like and need not     *)
(* read.                                                                   *)

Dial(c) ==
  /\ tool[c] = "idle"
  /\ server.listening
  /\ sock' = [sock EXCEPT ![c] = "backlog"]
  /\ peer' = [peer EXCEPT ![c] = TRUE]
  /\ tool' = [tool EXCEPT ![c] = "dialled"]
  /\ UNCHANGED <<serverVars, inq, out, loopVars, workVars, sent, pushed>>

\* A frame on its way; lost when the manager has closed the connection.
Sends(c, id, kind) ==
  /\ peer[c]
  /\ sock[c] # "shut"
  /\ Len(inq[c]) < SocketSize
  /\ sent[c] < MaxFrames
  /\ sent' = [sent EXCEPT ![c] = @ + 1]
  /\ inq' = [inq EXCEPT ![c] = Append(@, [n |-> sent[c] + 1, id |-> id, kind |-> kind])]
  /\ UNCHANGED <<serverVars, sock, peer, out, loopVars, workVars, pushed>>

ToolSends(c) ==
  \/ tool[c] = "dialled" /\ Sends(c, HelloId, "hello") /\ tool' = [tool EXCEPT ![c] = "greeted"]
  \/ tool[c] = "ready" /\ Sends(c, ToolId, "call") /\ tool' = [tool EXCEPT ![c] = "asked"]
  \/ tool[c] = "ready" /\ Sends(c, ToolId, "subscribe")
     /\ tool' = [tool EXCEPT ![c] = "subscribing"]

\* The client reads a frame and goes on.
Takes(c) ==
  /\ out' = [out EXCEPT ![c] = Tail(@)]
  /\ UNCHANGED peer

\* The client ends, well or not, and what it has not read is lost.
Ends(c, how) ==
  /\ tool' = [tool EXCEPT ![c] = how]
  /\ peer' = [peer EXCEPT ![c] = FALSE]
  /\ out' = [out EXCEPT ![c] = <<>>]

\* readAPIClientResponse: any response is taken for the awaited one.
ToolReadsResponse(c) ==
  LET f == Head(out[c]) IN
  /\ tool[c] \in {"greeted", "asked", "subscribing"}
  /\ out[c] # <<>>
  /\ IF f.type # "response" \/ ~f.ok THEN Ends(c, "failed")
       ELSE IF tool[c] = "asked" THEN Ends(c, "done")
       ELSE /\ tool' = [tool EXCEPT ![c] = IF @ = "greeted" THEN "ready" ELSE "stream"]
            /\ Takes(c)
  /\ UNCHANGED <<serverVars, sock, inq, loopVars, workVars, sent, pushed>>

\* eventsCLI prints events until it is told to resynchronise.
ToolReadsEvent(c) ==
  LET f == Head(out[c]) IN
  /\ tool[c] = "stream"
  /\ out[c] # <<>>
  /\ IF f.type # "event" THEN Ends(c, "failed")
       ELSE IF f.event = "last" THEN Ends(c, "done")
       ELSE Takes(c) /\ UNCHANGED tool
  /\ UNCHANGED <<serverVars, sock, inq, loopVars, workVars, sent, pushed>>

\* The end of the stream, or a write that fails.
ToolFails(c) ==
  /\ tool[c] \in {"dialled", "greeted", "ready", "asked", "subscribing", "stream"}
  /\ sock[c] = "shut" /\ out[c] = <<>>
  /\ Ends(c, IF tool[c] = "stream" THEN "done" ELSE "failed")
  /\ UNCHANGED <<serverVars, sock, inq, loopVars, workVars, sent, pushed>>

ToolStep(c) ==
  c \in Tools /\ (ToolSends(c) \/ ToolReadsResponse(c) \/ ToolReadsEvent(c) \/ ToolFails(c))

ClientSends(c, id, kind) ==
  /\ c \notin Tools
  /\ Sends(c, id, kind)
  /\ UNCHANGED tool

ClientReads(c) ==
  /\ c \notin Tools /\ peer[c] /\ out[c] # <<>> /\ Takes(c)
  /\ UNCHANGED <<serverVars, sock, inq, loopVars, workVars, clientVars>>

HangUp(c) ==
  /\ MayLeave /\ c \notin Tools /\ peer[c]
  /\ Ends(c, "failed")
  /\ UNCHANGED <<serverVars, sock, inq, loopVars, workVars, sent, pushed>>

-----------------------------------------------------------------------------
ReadStep(c) ==
  \/ /\ inq[c] # <<>>
     /\ LET f == Head(inq[c]) IN ReadFirst(c, f) \/ ReadRefused(c, f) \/ ReadRequest(c, f)
  \/ Refuse(c)
  \/ ReadFails(c)
  \/ RemoveClient(c)

AcceptStep == AddClient \/ \E c \in Conns : Accept(c)
CloseStep  == CloseListener \/ \E c \in Conns : CloseConnection(c)

\* What the manager's goroutines do by themselves.
ManagerStep ==
  \/ AcceptStep
  \/ CloseStep
  \/ Execute
  \/ \E c \in Conns : ReadStep(c) \/ Work(c) \/ Forward(c)

Next ==
  \/ ManagerStep
  \/ AcceptFails
  \/ Stop
  \/ \E w \in workers : Expire(w)
  \/ \E g \in forwards, event \in {"next", "last"} : TakeEvent(g, event)
  \/ \E c \in Conns : Dial(c) \/ ToolStep(c) \/ ClientReads(c) \/ HangUp(c)
  \/ \E c \in Conns, id \in OtherIds, kind \in OtherKinds : ClientSends(c, id, kind)

Spec == Init /\ [][Next]_vars

\* As long as a goroutine of the manager can run one does, and the tools keep
\* reading.  Nothing is assumed of other clients, and no deadline has to pass.
Fairness == WF_vars(ManagerStep) /\ \A c \in Tools : WF_vars(ToolStep(c))

FairSpec == Spec /\ Fairness

-----------------------------------------------------------------------------
Served == {c \in Conns : loop[c] \notin {"none", "gone"}}

\* The semaphore of a connection counts its request goroutines, whatever mix of
\* accepted, refused and repeated requests it has seen: no slot is lost and
\* none is given back before its goroutine ends (the two deferred steps).
SlotsAccounted ==
  /\ TypeOK
  /\ \A c \in Conns : sem[c] = Cardinality(WorkersOf(c))

\* An answer can belong to only one request: the identifiers of a connection's
\* unanswered requests differ and are the ones the read loop refuses.
Unambiguous ==
  \A c \in Conns :
    LET busy == {w \in WorkersOf(c) : w.at # "release"} IN
    /\ inFlight[c] = {w.id : w \in busy}
    /\ \A w, v \in busy : w.id = v.id => w = v

\* While the server is open its table holds exactly the connections served, at
\* most apiMaxClients; once it is closed every socket still open is one that
\* Close is about to close, also one accepted while Close ran.
ClientsAccounted ==
  /\ Cardinality(Served) <= MaxClients
  /\ ~server.closed => clients = Served
  /\ server.closed => {c \in Served : sock[c] = "open"} \subseteq toClose

\* A tool takes the next frame for the answer it awaits, without comparing
\* identifiers, and a stream for events only.  It is right to: the offer is
\* answered before anything else is read, and a subscription's events follow
\* its answer.
ReplyMatches ==
  \A c \in Tools :
    out[c] # <<>> =>
      LET f == Head(out[c]) IN
      /\ tool[c] # "ready"
      /\ tool[c] \in {"greeted", "asked", "subscribing"} =>
           f.type = "response" /\ f.id = (IF tool[c] = "greeted" THEN HelloId ELSE ToolId)
      /\ tool[c] = "stream" => f.type = "event"

\* "Slow clients never block": a tool that reads is answered or told that the
\* manager is gone, although another client's socket stays full for ever.
NotHeldUp ==
  \A c \in Tools : tool[c] = "dialled" ~> tool[c] \in {"stream", "done", "failed"}

\* Closing the server ends every goroutine of every connection, those blocked
\* writing to a client that never reads included.
Drains == server.closed ~> Served = {} /\ workers = {} /\ forwards = {}
=============================================================================
