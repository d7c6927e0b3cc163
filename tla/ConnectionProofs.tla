--------------------------- MODULE ConnectionProofs ---------------------------
(***************************************************************************)
(* Proofs about Connection, for any number of connections and tools, any   *)
(* identifiers, and any limits on clients, requests, mailbox and sockets.  *)
(***************************************************************************)
EXTENDS Connection, TLAPS, FiniteSetTheorems, SequenceTheorems

-----------------------------------------------------------------------------
(* The inductive invariant: one conjunct about the server, the others about *)
(* one connection each.                                                    *)

ForwardsOf(c) == {g \in forwards : g.c = c}

\* Frames are read in the order they were sent, and each by one goroutine.
FrameInv(c) ==
  /\ Len(inq[c]) <= sent[c]
  /\ \A i \in 1 .. Len(inq[c]) : inq[c][i].n = sent[c] - Len(inq[c]) + i
  /\ \A w \in WorkersOf(c) : w.n <= sent[c] - Len(inq[c])
  /\ \A w, v \in WorkersOf(c) : w.n = v.n => w = v

SlotInv(c) == IsFiniteSet(WorkersOf(c)) /\ sem[c] = Cardinality(WorkersOf(c))

\* Unambiguous, of one connection.
Busy(c)  == {w \in WorkersOf(c) : w.at # "release"}
IdInv(c) ==
  /\ inFlight[c] = {w.id : w \in Busy(c)}
  /\ \A w, v \in Busy(c) : w.id = v.id => w = v

\* A connection is served after it was accepted, which is after it was dialled.
PhaseInv(c) ==
  /\ tool[c] = "idle" => sock[c] = "new"
  /\ sock[c] \in {"new", "backlog"} =>
       loop[c] = "none" /\ c \notin clients \cup toClose /\ accepting # c
  /\ accepting = c => loop[c] = "none"

ServerInv ==
  IsFiniteSet(Served) /\ ClientsAccounted /\ \A c \in Conns : PhaseInv(c)

\* No goroutine but the read loop, which has refused nothing, may write to c.
Quiet(c) == WorkersOf(c) = {} /\ ForwardsOf(c) = {} /\ owed[c] = None

\* Before negotiation nothing is written but what ends the connection.
HelloInv(c) ==
  ~hello[c] => Quiet(c) /\ (loop[c] \in {"none", "read"} => out[c] = << >>)

\* The request of a tool is not answered yet.
Pending(c) ==
  inq[c] # << >> \/ owed[c] # None \/ \E w \in WorkersOf(c) : w.at \in {"start", "wait", "answer"}

\* The request is at one place: unread, refused, or with its only goroutine;
\* then it is answered, and events follow the answer.
AskedInv(c) ==
  /\ sent[c] = 2 /\ hello[c] /\ Len(inq[c]) <= 1
  /\ \A i \in 1 .. Len(inq[c]) : inq[c][i].id = ToolId
  /\ inq[c] # << >> => Quiet(c)
  /\ owed[c] # None => owed[c] = ToolId /\ WorkersOf(c) = {}
  /\ \A w \in WorkersOf(c) : w.n = 2 /\ w.id = ToolId
  /\ Pending(c) => out[c] = << >>
  /\ out[c] = << >> => ForwardsOf(c) = {}
  /\ \A i \in 1 .. Len(out[c]) :
       IF i = 1 THEN out[c][i].type = "response" /\ out[c][i].id = ToolId
                ELSE out[c][i].type = "event"

\* The offer is unread, lost or answered.
GreetedInv(c) ==
  /\ sent[c] = 1 /\ Quiet(c) /\ Len(inq[c]) <= 1
  /\ \A i \in 1 .. Len(inq[c]) : inq[c][i].id = HelloId /\ inq[c][i].kind = "hello"
  /\ IF hello[c] THEN inq[c] = << >> /\ out[c] = <<Response(HelloId, TRUE)>>
                 ELSE out[c] = << >>

\* What is under way between a tool and the manager.
ToolInv(c) ==
  /\ tool[c] \in {"idle", "dialled"} =>
       sent[c] = 0 /\ ~hello[c] /\ out[c] = << >> /\ inq[c] = << >>
  /\ tool[c] = "greeted" => GreetedInv(c)
  /\ tool[c] = "ready" =>
       sent[c] = 1 /\ hello[c] /\ Quiet(c) /\ inq[c] = << >> /\ out[c] = << >>
  /\ tool[c] \in {"asked", "subscribing"} => AskedInv(c)
  /\ tool[c] = "stream" =>
       /\ sent[c] = 2 /\ hello[c] /\ ~Pending(c)
       /\ \A i \in 1 .. Len(out[c]) : out[c][i].type = "event"

ConnInv(c) ==
  FrameInv(c) /\ SlotInv(c) /\ IdInv(c) /\ HelloInv(c) /\ (c \in Tools => ToolInv(c))

IInv == TypeOK /\ ServerInv /\ \A c \in Conns : ConnInv(c)

-----------------------------------------------------------------------------
(* Writing to a connection.                                                *)

\* A write puts one frame behind those that wait, if the socket has room.
LEMMA WrittenFacts ==
  ASSUME TypeOK, NEW c \in Conns, NEW f \in Frames, Written(c, f),
         Alive(c) => Len(out[c]) < SocketSize
  PROVE  /\ out' \in [Conns -> Seq(Frames)] /\ \A d \in Conns : Len(out'[d]) <= SocketSize
         /\ out'[c] = IF Alive(c) THEN Append(out[c], f) ELSE out[c]
         /\ \A d \in Conns \ {c} : out'[d] = out[d]
<1>1. out'[c] = IF Alive(c) THEN Append(out[c], f) ELSE out[c]
  BY DEF TypeOK, Written
<1>2. \A d \in Conns \ {c} : out'[d] = out[d]
  BY DEF TypeOK, Written
<1>3. out[c] \in Seq(Frames) /\ Len(out[c]) \in Nat
  BY DEF TypeOK
<1>4. out'[c] \in Seq(Frames) /\ Len(out'[c]) <= SocketSize
  BY <1>1, <1>3, AppendProperties, ConnectionAssumption DEF TypeOK
<1>5. out' \in [Conns -> Seq(Frames)]
  BY <1>2, <1>4 DEF TypeOK, Written
<1> QED
  BY <1>1, <1>2, <1>4, <1>5 DEF TypeOK

-----------------------------------------------------------------------------
(* Type correctness, one lemma per action that does more than assign.      *)

LEMMA FrameFacts ==
  /\ \A id \in Ids, ok \in BOOLEAN : Response(id, ok) \in Frames
  /\ \A event \in {"next", "last"} : Event(event) \in Frames
<1>1. ASSUME NEW id \in Ids, NEW ok \in BOOLEAN
      PROVE  Response(id, ok) \in Frames
  <2>1. Response(id, ok) \in {Response(i, b) : i \in Ids, b \in BOOLEAN}
    OBVIOUS
  <2> QED
    BY <2>1 DEF Frames
<1>2. ASSUME NEW event \in {"next", "last"}
      PROVE  Event(event) \in Frames
  <2>1. Event(event) \in {Event(e) : e \in {"next", "last"}}
    BY <1>2
  <2> QED
    BY <2>1 DEF Frames
<1> QED
  BY <1>1, <1>2

LEMMA HeadFacts ==
  ASSUME TypeOK, NEW c \in Conns, inq[c] # << >>
  PROVE  /\ Head(inq[c]) \in Requests /\ Head(inq[c]) = inq[c][1]
         /\ Tail(inq[c]) \in Seq(Requests) /\ Len(Tail(inq[c])) = Len(inq[c]) - 1
         /\ Len(inq[c]) \in Nat \ {0}
         /\ \A i \in 1 .. Len(Tail(inq[c])) : Tail(inq[c])[i] = inq[c][i + 1]
<1>1. inq[c] \in Seq(Requests)
  BY DEF TypeOK
<1> QED
  BY <1>1, EmptySeq, HeadTailProperties

LEMMA ServerTypes ==
  ASSUME TypeOK,
         AddClient \/ AcceptFails \/ Stop \/ CloseListener
           \/ \E c \in Conns : Accept(c) \/ CloseConnection(c) \/ RemoveClient(c) \/ Dial(c)
  PROVE  TypeOK'
<1>1. CASE AddClient
  <2>1. PICK c \in Conns : c = accepting
    BY <1>1 DEF AddClient, TypeOK
  <2>2. /\ accepting' = None /\ clients' \subseteq Conns
        /\ sock' \in [Conns -> {"new", "backlog", "open", "shut"}]
        /\ loop' \in [Conns -> {"none", "read", "closed", "gone"}]
    <3>1. CASE server.closed \/ Cardinality(clients) >= MaxClients
      BY <1>1, <2>1, <3>1 DEF AddClient, TypeOK
    <3>2. CASE ~(server.closed \/ Cardinality(clients) >= MaxClients)
      <4>1. /\ clients' = clients \cup {c} /\ loop' = [loop EXCEPT ![c] = "read"]
            /\ sock' = sock /\ accepting' = None
        BY <1>1, <2>1, <3>2, Zenon DEF AddClient
      <4> QED
        BY <4>1 DEF TypeOK
    <3> QED
      BY <3>1, <3>2
  <2> QED
    BY <1>1, <2>2 DEF AddClient, TypeOK, loopVars, workVars, clientVars
<1>2. CASE AcceptFails
  BY <1>2 DEF AcceptFails, TypeOK, Servers, wire, loopVars, workVars, clientVars
<1>3. CASE Stop
  BY <1>3 DEF Stop, TypeOK, Servers, wire, loopVars, workVars, clientVars
<1>4. CASE CloseListener
  BY <1>4 DEF CloseListener, TypeOK, Servers, wire, loopVars, workVars, clientVars
<1>5. ASSUME NEW c \in Conns, Accept(c)
      PROVE  TypeOK'
  BY <1>5 DEF Accept, TypeOK, loopVars, workVars, clientVars
<1>6. ASSUME NEW c \in Conns, CloseConnection(c)
      PROVE  TypeOK'
  BY <1>6 DEF CloseConnection, TypeOK, loopVars, workVars, clientVars
<1>7. ASSUME NEW c \in Conns, RemoveClient(c)
      PROVE  TypeOK'
  BY <1>7 DEF RemoveClient, TypeOK, wire, workVars, clientVars
<1>8. ASSUME NEW c \in Conns, Dial(c)
      PROVE  TypeOK'
  BY <1>8 DEF Dial, TypeOK, serverVars, loopVars, workVars
<1> QED
  BY <1>1, <1>2, <1>3, <1>4, <1>5, <1>6, <1>7, <1>8

LEMMA ReadTypes ==
  ASSUME IInv, NEW c \in Conns, ReadStep(c)
  PROVE  TypeOK'
<1>1. TypeOK /\ ConnInv(c)
  BY DEF IInv
<1>2. ASSUME inq[c] # << >>
      PROVE  /\ [inq EXCEPT ![c] = Tail(@)] \in [Conns -> Seq(Requests)]
             /\ \A d \in Conns : Len([inq EXCEPT ![c] = Tail(@)][d]) <= SocketSize
  <2>1. Tail(inq[c]) \in Seq(Requests) /\ Len(Tail(inq[c])) = Len(inq[c]) - 1
    BY <1>1, <1>2, HeadFacts
  <2>2. Len(inq[c]) \in Nat /\ Len(inq[c]) <= SocketSize /\ SocketSize \in Nat
    BY <1>1, ConnectionAssumption DEF TypeOK
  <2> QED
    BY <1>1, <2>1, <2>2 DEF TypeOK
<1>3. ASSUME NEW f, f = Head(inq[c]), inq[c] # << >>, ReadFirst(c, f)
      PROVE  TypeOK'
  <2>1. f \in Requests
    BY <1>1, <1>3, HeadFacts
  <2>2. Response(f.id, f.kind = "hello") \in Frames
    <3>1. f.id \in Ids /\ (f.kind = "hello") \in BOOLEAN
      BY <2>1 DEF Requests
    <3> QED
      BY <3>1, FrameFacts, Zenon
  <2>3. out[c] = << >>
    BY <1>1, <1>3 DEF ConnInv, HelloInv, ReadFirst, Reads
  <2>4. Len(out[c]) < SocketSize
    BY <2>3, ConnectionAssumption
  <2>5. out' \in [Conns -> Seq(Frames)] /\ \A d \in Conns : Len(out'[d]) <= SocketSize
    BY <1>1, <1>3, <2>2, <2>4, WrittenFacts DEF ReadFirst
  <2>6. /\ inq' \in [Conns -> Seq(Requests)] /\ \A d \in Conns : Len(inq'[d]) <= SocketSize
        /\ hello' \in [Conns -> BOOLEAN] /\ UNCHANGED <<serverVars, peer, clientVars, owed, workVars>>
        /\ loop' \in [Conns -> {"none", "read", "closed", "gone"}]
        /\ sock' \in [Conns -> {"new", "backlog", "open", "shut"}]
    BY <1>1, <1>2, <1>3, ZenonT(60) DEF ReadFirst, Reads, Returns, TypeOK
  <2> QED
    BY <1>1, <2>5, <2>6 DEF TypeOK, serverVars, clientVars, workVars
<1>4. ASSUME NEW f, f = Head(inq[c]), inq[c] # << >>, ReadRefused(c, f)
      PROVE  TypeOK'
  <2>1. f.id \in Ids
    BY <1>1, <1>4, HeadFacts DEF Requests
  <2>2. inq' \in [Conns -> Seq(Requests)] /\ \A d \in Conns : Len(inq'[d]) <= SocketSize
    BY <1>2, <1>4 DEF ReadRefused, Reads
  <2>3. owed' \in [Conns -> Ids \cup {None}]
    BY <1>1, <1>4, <2>1 DEF ReadRefused, TypeOK
  <2> QED
    BY <1>1, <1>4, <2>2, <2>3 DEF ReadRefused, Reads, TypeOK, serverVars, clientVars, workVars
<1>5. ASSUME NEW f, f = Head(inq[c]), inq[c] # << >>, ReadRequest(c, f)
      PROVE  TypeOK'
  <2>1. f \in Requests
    BY <1>1, <1>5, HeadFacts
  <2>2. inq' \in [Conns -> Seq(Requests)] /\ \A d \in Conns : Len(inq'[d]) <= SocketSize
    BY <1>2, <1>5 DEF ReadRequest, Reads
  <2>3. sem' \in [Conns -> 0 .. MaxInFlight]
    <3>1. sem[c] \in 0 .. MaxInFlight /\ sem[c] # MaxInFlight /\ MaxInFlight \in Nat
      BY <1>1, <1>5, ConnectionAssumption DEF TypeOK, ReadRequest, Exhausted
    <3>2. sem[c] + 1 \in 0 .. MaxInFlight
      BY <3>1
    <3> QED
      BY <1>1, <1>5, <3>2 DEF TypeOK, ReadRequest
  <2>4. inFlight' \in [Conns -> SUBSET Ids]
    BY <1>1, <1>5, <2>1 DEF TypeOK, ReadRequest, Requests
  <2>5. workers' \subseteq Workers
    <3>1. (IF f.kind \in Commands THEN f.kind ELSE "other")
             \in Commands \cup Answers \cup {"other", "none"}
      OBVIOUS
    <3>2. \A job \in Commands \cup Answers \cup {"other", "none"} :
            [c |-> c, n |-> f.n, id |-> f.id, at |-> "start", job |-> job] \in Workers
      BY <2>1 DEF Workers, Requests
    <3> QED
      BY <1>1, <1>5, <3>1, <3>2 DEF TypeOK, ReadRequest
  <2> QED
    BY <1>1, <1>5, <2>2, <2>3, <2>4, <2>5
       DEF ReadRequest, Reads, TypeOK, serverVars, clientVars, loopVars
<1>6. CASE Refuse(c)
  <2>1. Response(owed[c], FALSE) \in Frames
    <3>1. owed[c] \in Ids
      BY <1>1, <1>6 DEF Refuse, TypeOK
    <3> QED
      BY <3>1, FrameFacts, Zenon
  <2>2. out' \in [Conns -> Seq(Frames)] /\ \A d \in Conns : Len(out'[d]) <= SocketSize
    BY <1>1, <1>6, <2>1, WrittenFacts DEF Refuse, CanWrite
  <2> QED
    BY <1>1, <1>6, <2>2 DEF Refuse, TypeOK, serverVars, clientVars, workVars
<1>7. CASE ReadFails(c)
  <2>1. << >> \in Seq(Requests) /\ Len(<< >>) = 0
    BY EmptySeq
  <2>2. inq' \in [Conns -> Seq(Requests)] /\ \A d \in Conns : Len(inq'[d]) <= SocketSize
    <3>1. inq' \in [Conns -> Seq(Requests)]
      BY <1>1, <1>7, <2>1 DEF ReadFails, TypeOK
    <3>2. \A d \in Conns : inq'[d] \in {inq[d], << >>}
      BY <1>1, <1>7 DEF ReadFails, TypeOK
    <3>3. SocketSize \in Nat
      BY ConnectionAssumption
    <3> QED
      BY <1>1, <2>1, <3>1, <3>2, <3>3, SMTT(30) DEF TypeOK
  <2> QED
    BY <1>1, <1>7, <2>2 DEF ReadFails, Returns, TypeOK, serverVars, clientVars, workVars
<1>8. CASE RemoveClient(c)
  BY <1>1, <1>8, ServerTypes
<1> QED
  BY <1>3, <1>4, <1>5, <1>6, <1>7, <1>8 DEF ReadStep

\* The goroutine of a request that becomes v.
LEMMA BecomesTypes ==
  ASSUME TypeOK, NEW w \in workers, NEW v \in Workers, Becomes(w, v)
  PROVE  workers' \subseteq Workers
  BY DEF TypeOK, Becomes

LEMMA WorkerFacts ==
  ASSUME TypeOK, NEW w \in workers
  PROVE  /\ w \in Workers /\ w.c \in Conns /\ w.n \in 1 .. MaxFrames /\ w.id \in Ids
         /\ w \in WorkersOf(w.c)
         /\ [w EXCEPT !.at = "wait"] \in Workers
         /\ [w EXCEPT !.at = "written", !.job = "none"] \in Workers
         /\ [w EXCEPT !.at = "release"] \in Workers
         /\ \A r \in Answers : [w EXCEPT !.at = "answer", !.job = r] \in Workers
<1>1. w \in Workers
  BY DEF TypeOK
<1>2. w.c \in Conns /\ w.n \in 1 .. MaxFrames /\ w.id \in Ids /\ w \in WorkersOf(w.c)
  BY <1>1 DEF Workers, WorkersOf
<1>3. /\ [w EXCEPT !.at = "wait"] \in Workers
      /\ [w EXCEPT !.at = "written", !.job = "none"] \in Workers
      /\ [w EXCEPT !.at = "release"] \in Workers
  BY <1>1 DEF Workers
<1>4. ASSUME NEW r \in Answers
      PROVE  [w EXCEPT !.at = "answer", !.job = r] \in Workers
  BY <1>1, <1>4 DEF Workers
<1> QED
  BY <1>1, <1>2, <1>3, <1>4

LEMMA MailboxTypes ==
  ASSUME TypeOK
  PROVE  /\ \A w \in workers : Len(mailbox) < MailboxSize =>
              /\ Append(mailbox, <<w.c, w.n>>) \in Seq(Conns \X (1 .. MaxFrames))
              /\ Len(Append(mailbox, <<w.c, w.n>>)) <= MailboxSize
         /\ mailbox # << >> =>
              Tail(mailbox) \in Seq(Conns \X (1 .. MaxFrames)) /\ Len(Tail(mailbox)) <= MailboxSize
<1>1. /\ mailbox \in Seq(Conns \X (1 .. MaxFrames)) /\ Len(mailbox) <= MailboxSize
      /\ MailboxSize \in Nat /\ Len(mailbox) \in Nat
  BY ConnectionAssumption DEF TypeOK
<1>2. ASSUME NEW w \in workers, Len(mailbox) < MailboxSize
      PROVE  /\ Append(mailbox, <<w.c, w.n>>) \in Seq(Conns \X (1 .. MaxFrames))
             /\ Len(Append(mailbox, <<w.c, w.n>>)) <= MailboxSize
  <2>1. <<w.c, w.n>> \in Conns \X (1 .. MaxFrames)
    BY WorkerFacts
  <2> QED
    BY <1>1, <1>2, <2>1, AppendProperties
<1>3. ASSUME mailbox # << >>
      PROVE  Tail(mailbox) \in Seq(Conns \X (1 .. MaxFrames)) /\ Len(Tail(mailbox)) <= MailboxSize
  BY <1>1, <1>3, HeadTailProperties
<1> QED
  BY <1>2, <1>3

LEMMA WorkTypes ==
  ASSUME IInv, NEW w \in workers,
         Submit(w) \/ GiveUp(w) \/ Expire(w) \/ WriteAnswer(w) \/ Finish(w)
  PROVE  TypeOK'
<1>1. TypeOK /\ w.c \in Conns /\ ConnInv(w.c) /\ w \in WorkersOf(w.c)
  BY WorkerFacts DEF IInv
<1>2. \A v \in Workers : Becomes(w, v) => workers' \subseteq Workers
  BY <1>1, BecomesTypes
<1>3. [w EXCEPT !.at = "answer", !.job = "error"] \in Workers
  BY <1>1, WorkerFacts DEF Answers
<1>4. CASE Submit(w)
  <2>1. workers' \subseteq Workers
    BY <1>1, <1>2, <1>3, <1>4, WorkerFacts DEF Submit
  <2>2. mailbox' \in Seq(Conns \X (1 .. MaxFrames)) /\ Len(mailbox') <= MailboxSize
    BY <1>1, <1>4, MailboxTypes DEF Submit, TypeOK
  <2> QED
    BY <1>1, <1>4, <2>1, <2>2 DEF Submit, TypeOK, serverVars, wire, loopVars, clientVars
<1>5. CASE GiveUp(w) \/ Expire(w)
  <2>1. workers' \subseteq Workers
    BY <1>2, <1>3, <1>5 DEF GiveUp, Expire
  <2> QED
    BY <1>1, <1>5, <2>1 DEF GiveUp, Expire, TypeOK, serverVars, wire, loopVars, clientVars
<1>6. CASE WriteAnswer(w)
  <2>1. workers' \subseteq Workers
    BY <1>1, <1>2, <1>6, WorkerFacts DEF WriteAnswer
  <2>2. Response(w.id, w.job # "error") \in Frames
    <3>1. w.id \in Ids /\ (w.job # "error") \in BOOLEAN
      BY <1>1, WorkerFacts
    <3> QED
      BY <3>1, FrameFacts, Zenon
  <2>3. out' \in [Conns -> Seq(Frames)] /\ \A d \in Conns : Len(out'[d]) <= SocketSize
    BY <1>1, <1>6, <2>2, WrittenFacts DEF WriteAnswer, CanWrite
  <2>4. Forwarder(w) \in Forwarders
    BY <1>1, WorkerFacts DEF Forwarder, Forwarders
  <2>5. forwards' \subseteq Forwarders
    BY <1>1, <1>6, <2>4 DEF WriteAnswer, TypeOK
  <2> QED
    BY <1>1, <1>6, <2>1, <2>3, <2>5
       DEF WriteAnswer, TypeOK, serverVars, loopVars, clientVars
<1>7. CASE Finish(w)
  <2>1. workers' \subseteq Workers
    BY <1>1, <1>2, <1>7, WorkerFacts DEF Finish, TypeOK
  <2>2. inFlight' \in [Conns -> SUBSET Ids]
    <3>1. inFlight[w.c] \ {w.id} \in SUBSET Ids
      BY <1>1 DEF TypeOK
    <3>2. \/ inFlight' = inFlight
          \/ inFlight' = [inFlight EXCEPT ![w.c] = inFlight[w.c] \ {w.id}]
      BY <1>7 DEF Finish
    <3> QED
      BY <1>1, <3>1, <3>2 DEF TypeOK
  <2>3. sem[w.c] # 0
    <3>1. Cardinality(WorkersOf(w.c)) # 0
      BY <1>1, FS_EmptySet DEF ConnInv, SlotInv
    <3> QED
      BY <1>1, <3>1 DEF ConnInv, SlotInv
  <2>4. sem' \in [Conns -> 0 .. MaxInFlight]
    <3>1. sem[w.c] \in 0 .. MaxInFlight /\ MaxInFlight \in Nat
      BY <1>1, ConnectionAssumption DEF TypeOK
    <3>2. sem[w.c] - 1 \in 0 .. MaxInFlight
      BY <2>3, <3>1
    <3> QED
      BY <1>1, <1>7, <3>2 DEF Finish, TypeOK
  <2> QED
    BY <1>1, <1>7, <2>1, <2>2, <2>4 DEF Finish, TypeOK, serverVars, wire, loopVars, clientVars
<1> QED
  BY <1>4, <1>5, <1>6, <1>7

LEMMA ExecuteTypes ==
  ASSUME TypeOK, Execute
  PROVE  TypeOK'
<1>1. workers' \subseteq Workers
  <2>1. CASE UNCHANGED workers
    BY <2>1 DEF TypeOK
  <2>2. CASE ~UNCHANGED workers
    <3>1. PICK w \in Submitter : \E r \in Results(w) :
            Becomes(w, [w EXCEPT !.at = "answer", !.job = r])
      BY <2>2 DEF Execute
    <3>2. PICK r \in Results(w) : Becomes(w, [w EXCEPT !.at = "answer", !.job = r])
      BY <3>1
    <3>3. r \in Answers /\ w \in workers
      BY DEF Results, Answers, Submitter
    <3>4. [w EXCEPT !.at = "answer", !.job = r] \in Workers
      BY <3>3, WorkerFacts
    <3> QED
      BY <3>2, <3>3, <3>4, BecomesTypes
  <2> QED
    BY <2>1, <2>2
<1>2. mailbox' \in Seq(Conns \X (1 .. MaxFrames)) /\ Len(mailbox') <= MailboxSize
  BY MailboxTypes DEF Execute
<1> QED
  BY <1>1, <1>2 DEF Execute, TypeOK, serverVars, wire, loopVars, clientVars

LEMMA ForwarderFacts ==
  ASSUME TypeOK, NEW g \in forwards
  PROVE  /\ g \in Forwarders /\ g.c \in Conns /\ g.event \in {"none", "next", "last"}
         /\ \A event \in {"none", "next", "last"} :
              [g EXCEPT !.event = event] \in Forwarders /\ [g EXCEPT !.event = event].c = g.c
  BY DEF TypeOK, Forwarders

LEMMA ForwardTypes ==
  ASSUME TypeOK, NEW g \in forwards,
         Push(g) \/ ForwardEnds(g) \/ \E event \in {"next", "last"} : TakeEvent(g, event)
  PROVE  TypeOK'
<1>1. CASE Push(g)
  <2>1. g.event \in {"next", "last"} /\ g.c \in Conns
    BY <1>1, ForwarderFacts DEF Push
  <2>2. Event(g.event) \in Frames
    BY <2>1, FrameFacts
  <2>3. out' \in [Conns -> Seq(Frames)] /\ \A d \in Conns : Len(out'[d]) <= SocketSize
    BY <1>1, <2>1, <2>2, WrittenFacts DEF Push, CanWrite
  <2>4. forwards' \subseteq Forwarders
    <3>1. [g EXCEPT !.event = "none"] \in Forwarders
      BY ForwarderFacts
    <3>2. forwards' \subseteq forwards \cup {[g EXCEPT !.event = "none"]}
      BY <1>1 DEF Push
    <3> QED
      BY <3>1, <3>2 DEF TypeOK
  <2> QED
    BY <1>1, <2>3, <2>4 DEF Push, TypeOK, serverVars, loopVars, clientVars
<1>2. CASE ForwardEnds(g)
  BY <1>2 DEF ForwardEnds, TypeOK, serverVars, wire, loopVars, clientVars
<1>3. ASSUME NEW event \in {"next", "last"}, TakeEvent(g, event)
      PROVE  TypeOK'
  <2>1. forwards' \subseteq Forwarders
    <3>1. [g EXCEPT !.event = event] \in Forwarders
      BY ForwarderFacts
    <3> QED
      BY <1>3, <3>1 DEF TakeEvent, TypeOK
  <2>2. pushed' \in [Conns -> 0 .. MaxEvents]
    <3>1. g.c \in Conns /\ pushed[g.c] \in 0 .. MaxEvents /\ MaxEvents \in Nat
      BY ForwarderFacts, ConnectionAssumption DEF TypeOK
    <3>2. pushed[g.c] + 1 \in 0 .. MaxEvents
      BY <1>3, <3>1 DEF TakeEvent
    <3> QED
      BY <1>3, <3>1, <3>2 DEF TakeEvent, TypeOK
  <2> QED
    BY <1>3, <2>1, <2>2 DEF TakeEvent, TypeOK, serverVars, wire, loopVars
<1> QED
  BY <1>1, <1>2, <1>3

\* The frame a client sends, behind those that wait.
LEMMA SendsFacts ==
  ASSUME TypeOK, NEW c \in Conns, NEW id \in Ids, NEW kind \in Kinds, Sends(c, id, kind)
  PROVE  /\ inq' \in [Conns -> Seq(Requests)] /\ \A d \in Conns : Len(inq'[d]) <= SocketSize
         /\ sent' \in [Conns -> 0 .. MaxFrames]
         /\ sent'[c] = sent[c] + 1 /\ sent[c] \in Nat /\ Len(inq[c]) \in Nat
         /\ Len(inq'[c]) = Len(inq[c]) + 1
         /\ inq'[c][Len(inq[c]) + 1] = [n |-> sent[c] + 1, id |-> id, kind |-> kind]
         /\ \A i \in 1 .. Len(inq[c]) : inq'[c][i] = inq[c][i]
         /\ \A d \in Conns \ {c} : inq'[d] = inq[d] /\ sent'[d] = sent[d]
<1>1. /\ inq[c] \in Seq(Requests) /\ Len(inq[c]) \in Nat /\ SocketSize \in Nat
      /\ sent[c] \in 0 .. MaxFrames /\ MaxFrames \in Nat
  BY ConnectionAssumption DEF TypeOK
<1>2. PICK f : f = [n |-> sent[c] + 1, id |-> id, kind |-> kind]
  OBVIOUS
<1>3. f \in Requests
  <2>1. sent[c] + 1 \in 1 .. MaxFrames
    BY <1>1 DEF Sends
  <2> QED
    BY <1>2, <2>1 DEF Requests
<1>4. inq'[c] = Append(inq[c], f) /\ \A d \in Conns \ {c} : inq'[d] = inq[d]
  BY <1>2 DEF Sends, TypeOK
<1>5. /\ inq'[c] \in Seq(Requests) /\ Len(inq'[c]) = Len(inq[c]) + 1
      /\ inq'[c][Len(inq[c]) + 1] = f
      /\ \A i \in 1 .. Len(inq[c]) : inq'[c][i] = inq[c][i]
  BY <1>1, <1>3, <1>4, AppendProperties
<1>6. inq' \in [Conns -> Seq(Requests)]
  BY <1>4, <1>5 DEF Sends, TypeOK
<1>7. \A d \in Conns : Len(inq'[d]) <= SocketSize
  <2>1. Len(inq[c]) + 1 <= SocketSize
    BY <1>1 DEF Sends
  <2> QED
    BY <1>4, <1>5, <2>1 DEF TypeOK
<1>8. /\ sent' \in [Conns -> 0 .. MaxFrames]
      /\ sent'[c] = sent[c] + 1 /\ \A d \in Conns \ {c} : sent'[d] = sent[d]
  <2>1. sent[c] + 1 \in 0 .. MaxFrames
    BY <1>1 DEF Sends
  <2> QED
    BY <2>1 DEF Sends, TypeOK
<1> QED
  BY <1>1, <1>2, <1>4, <1>5, <1>6, <1>7, <1>8

\* The client of a connection that reads: what is left is what it has not read.
LEMMA OutFacts ==
  ASSUME TypeOK, NEW c \in Conns, out[c] # << >>
  PROVE  /\ Head(out[c]) = out[c][1] /\ Len(out[c]) \in Nat \ {0}
         /\ Tail(out[c]) \in Seq(Frames) /\ Len(Tail(out[c])) = Len(out[c]) - 1
         /\ \A i \in 1 .. Len(Tail(out[c])) : Tail(out[c])[i] = out[c][i + 1]
<1>1. out[c] \in Seq(Frames)
  BY DEF TypeOK
<1> QED
  BY <1>1, EmptySeq, HeadTailProperties

LEMMA ReaderTypes ==
  ASSUME TypeOK, NEW c \in Conns, (Takes(c) /\ out[c] # << >>) \/ \E how : Ends(c, how)
  PROVE  /\ out' \in [Conns -> Seq(Frames)] /\ \A d \in Conns : Len(out'[d]) <= SocketSize
         /\ peer' \in [Conns -> BOOLEAN]
<1>1. PICK s \in Seq(Frames) : Len(s) <= SocketSize /\ out' = [out EXCEPT ![c] = s]
  <2>1. CASE Takes(c) /\ out[c] # << >>
    <3>1. /\ Len(out[c]) \in Nat /\ Len(out[c]) <= SocketSize /\ SocketSize \in Nat
          /\ Tail(out[c]) \in Seq(Frames) /\ Len(Tail(out[c])) = Len(out[c]) - 1
      BY <2>1, OutFacts, ConnectionAssumption DEF TypeOK
    <3>2. Len(Tail(out[c])) <= SocketSize
      BY <3>1
    <3>3. out' = [out EXCEPT ![c] = Tail(out[c])]
      BY <2>1 DEF Takes
    <3> QED
      BY <3>1, <3>2, <3>3
  <2>2. CASE \E how : Ends(c, how)
    <3>1. << >> \in Seq(Frames) /\ Len(<< >>) = 0 /\ SocketSize \in Nat
      BY EmptySeq, ConnectionAssumption
    <3>2. out' = [out EXCEPT ![c] = << >>]
      BY <2>2 DEF Ends
    <3>3. Len(<< >>) <= SocketSize
      BY <3>1
    <3> QED
      BY <3>1, <3>2, <3>3
  <2> QED
    BY <2>1, <2>2
<1>2. peer' \in [Conns -> BOOLEAN]
  BY DEF Takes, Ends, TypeOK
<1> QED
  BY <1>1, <1>2 DEF TypeOK

LEMMA ToolKinds ==
  /\ HelloId \in Ids /\ ToolId \in Ids /\ OtherIds \subseteq Ids
  /\ {"hello", "call", "subscribe"} \subseteq Kinds /\ OtherKinds \subseteq Kinds
  BY KindsAssumption DEF Ids, Kinds

LEMMA ClientTypes ==
  ASSUME TypeOK, NEW c \in Conns,
         \/ ToolStep(c) \/ ClientReads(c) \/ HangUp(c)
         \/ \E id \in OtherIds, kind \in OtherKinds : ClientSends(c, id, kind)
  PROVE  TypeOK'
<1>1. ASSUME NEW id \in Ids, NEW kind \in Kinds, Sends(c, id, kind),
             tool' = tool \/ \E at \in {"greeted", "asked", "subscribing"} : tool' = [tool EXCEPT ![c] = at]
      PROVE  TypeOK'
  <2>1. /\ inq' \in [Conns -> Seq(Requests)] /\ \A d \in Conns : Len(inq'[d]) <= SocketSize
        /\ sent' \in [Conns -> 0 .. MaxFrames]
    BY <1>1, SendsFacts
  <2>2. UNCHANGED <<serverVars, sock, peer, out, loopVars, workVars, pushed>>
    BY <1>1 DEF Sends
  <2>3. tool' \in [Conns -> {"idle", "dialled", "greeted", "ready", "asked", "subscribing",
                             "stream", "done", "failed"}]
    BY <1>1 DEF TypeOK
  <2> QED
    BY <2>1, <2>2, <2>3 DEF TypeOK, serverVars, loopVars, workVars
<1>2. CASE ToolSends(c)
  BY <1>1, <1>2, ToolKinds DEF ToolSends
<1>3. ASSUME (Takes(c) /\ out[c] # << >>) \/ \E how : Ends(c, how),
             tool' = tool \/ \E at \in {"ready", "stream", "done", "failed"} : tool' = [tool EXCEPT ![c] = at],
             UNCHANGED <<serverVars, sock, inq, loopVars, workVars, sent, pushed>>
      PROVE  TypeOK'
  <2>1. /\ out' \in [Conns -> Seq(Frames)] /\ \A d \in Conns : Len(out'[d]) <= SocketSize
        /\ peer' \in [Conns -> BOOLEAN]
    BY <1>3, ReaderTypes
  <2>2. tool' \in [Conns -> {"idle", "dialled", "greeted", "ready", "asked", "subscribing",
                             "stream", "done", "failed"}]
    BY <1>3 DEF TypeOK
  <2> QED
    BY <1>3, <2>1, <2>2 DEF TypeOK, serverVars, loopVars, workVars
<1>4. CASE ToolReadsResponse(c)
  BY <1>3, <1>4 DEF ToolReadsResponse, Ends
<1>5. CASE ToolReadsEvent(c)
  BY <1>3, <1>5 DEF ToolReadsEvent, Ends
<1>6. CASE ToolFails(c)
  BY <1>3, <1>6 DEF ToolFails, Ends
<1>7. CASE ClientReads(c) \/ HangUp(c)
  BY <1>3, <1>7 DEF ClientReads, HangUp, Ends, clientVars
<1>8. CASE \E id \in OtherIds, kind \in OtherKinds : ClientSends(c, id, kind)
  BY <1>1, <1>8, ToolKinds DEF ClientSends
<1> QED
  BY <1>2, <1>4, <1>5, <1>6, <1>7, <1>8 DEF ToolStep

-----------------------------------------------------------------------------
(* The server's table of connections.                                      *)

LEMMA AccountedKept ==
  ASSUME ServerInv, Served' = Served,
         ~server'.closed => ~server.closed /\ clients' = clients,
         server'.closed => \A c \in Served : sock'[c] = "open" => c \in toClose'
  PROVE  ClientsAccounted' /\ IsFiniteSet(Served')
<1>1. Cardinality(Served') <= MaxClients /\ IsFiniteSet(Served')
  BY DEF ServerInv, ClientsAccounted
<1>2. ~server'.closed => clients' = Served'
  BY DEF ServerInv, ClientsAccounted
<1>3. server'.closed => {c \in Served : sock[c] = "open"}' \subseteq toClose'
  OBVIOUS
<1> QED
  BY <1>1, <1>2, <1>3 DEF ClientsAccounted

\* Of the connections served those still open are to be closed.
LEMMA OpenFacts ==
  ASSUME ServerInv
  PROVE  /\ Served \subseteq Conns
         /\ ~server.closed => clients = Served
         /\ server.closed => \A c \in Served : sock[c] = "open" => c \in toClose
<1>1. Served \subseteq Conns
  BY DEF Served
<1> QED
  BY <1>1 DEF ServerInv, ClientsAccounted

\* The steps that neither open nor close a connection.
LEMMA ServerKept ==
  ASSUME ServerInv, UNCHANGED <<serverVars, sock, loop>>,
         \A c \in Conns : tool'[c] = "idle" => tool[c] = "idle"
  PROVE  ServerInv'
<1>1. /\ server' = server /\ accepting' = accepting /\ clients' = clients
      /\ toClose' = toClose /\ sock' = sock /\ loop' = loop
  BY DEF serverVars
<1>2. Served' = Served
  BY <1>1 DEF Served
<1> QED
  BY <1>1, <1>2 DEF ServerInv, ClientsAccounted, PhaseInv

\* The return of a read loop closes its socket and leaves the table alone.
LEMMA ReturnKept ==
  ASSUME TypeOK, ServerInv, NEW c \in Conns, loop[c] = "read", Returns(c),
         UNCHANGED <<serverVars, tool>>
  PROVE  ServerInv'
<1>1. /\ server' = server /\ accepting' = accepting /\ clients' = clients
      /\ toClose' = toClose /\ tool' = tool
  BY DEF serverVars
<1>2. /\ loop'[c] = "closed" /\ sock'[c] = "shut"
      /\ \A d \in Conns \ {c} : loop'[d] = loop[d] /\ sock'[d] = sock[d]
  BY DEF Returns, TypeOK
<1>3. Served' = Served
  BY <1>2 DEF Served
<1>4. sock[c] # "new"
  BY DEF ServerInv, PhaseInv
<1>5. ClientsAccounted' /\ IsFiniteSet(Served')
  BY <1>1, <1>2, <1>3, OpenFacts, AccountedKept
<1>6. ASSUME NEW d \in Conns
      PROVE  PhaseInv(d)'
  BY <1>1, <1>2, <1>4, <1>6 DEF ServerInv, PhaseInv
<1> QED
  BY <1>5, <1>6 DEF ServerInv

LEMMA ServerSteps ==
  ASSUME TypeOK, ServerInv,
         AddClient \/ AcceptFails \/ Stop \/ CloseListener
           \/ \E c \in Conns : Accept(c) \/ CloseConnection(c) \/ RemoveClient(c) \/ Dial(c)
  PROVE  ServerInv'
<1>1. CASE AddClient
  <2>1. PICK c \in Conns : c = accepting
    BY <1>1 DEF AddClient, TypeOK
  <2>2. loop[c] = "none" /\ sock[c] \notin {"new", "backlog"}
    BY <2>1 DEF ServerInv, PhaseInv
  <2>3. accepting' = None /\ server' = server /\ toClose' = toClose /\ tool' = tool /\ None \notin Conns
    BY <1>1, ConnectionAssumption DEF AddClient, clientVars
  <2>4. CASE server.closed \/ Cardinality(clients) >= MaxClients
    <3>1. sock' = [sock EXCEPT ![c] = "shut"] /\ clients' = clients /\ loop' = loop
      BY <1>1, <2>1, <2>4, Zenon DEF AddClient
    <3>2. sock'[c] = "shut" /\ \A d \in Conns \ {c} : sock'[d] = sock[d]
      BY <3>1 DEF TypeOK
    <3>3. Served' = Served
      BY <3>1 DEF Served
    <3> QED
      BY <2>2, <2>3, <3>1, <3>2, <3>3 DEF ServerInv, ClientsAccounted, PhaseInv
  <2>5. CASE ~(server.closed \/ Cardinality(clients) >= MaxClients)
    <3>1. clients' = clients \cup {c} /\ loop' = [loop EXCEPT ![c] = "read"] /\ sock' = sock
      BY <1>1, <2>1, <2>5, Zenon DEF AddClient
    <3>2. loop'[c] = "read" /\ \A d \in Conns \ {c} : loop'[d] = loop[d]
      BY <3>1 DEF TypeOK
    <3>3. c \notin Served /\ Served' = Served \cup {c}
      BY <2>2, <3>2 DEF Served
    <3>4. clients = Served /\ IsFiniteSet(Served) /\ ~server.closed
      BY <2>5 DEF ServerInv, ClientsAccounted
    <3>5. IsFiniteSet(Served') /\ Cardinality(Served') = Cardinality(Served) + 1
      BY <3>3, <3>4, FS_AddElement
    <3>6. Cardinality(Served) \in Nat /\ MaxClients \in Nat
      BY <3>4, FS_CardinalityType, ConnectionAssumption
    <3>7. ~(Cardinality(Served) >= MaxClients)
      BY <2>5, <3>4
    <3>8. Cardinality(Served') <= MaxClients
      BY <3>5, <3>6, <3>7
    <3>9. ClientsAccounted'
      BY <2>3, <3>1, <3>3, <3>4, <3>8 DEF ClientsAccounted
    <3> QED
      BY <2>1, <2>2, <2>3, <3>1, <3>2, <3>5, <3>9 DEF ServerInv, PhaseInv
  <2> QED
    BY <2>4, <2>5
<1>2. CASE AcceptFails
  <2>1. /\ server'.closed /\ clients' = {} /\ toClose' = clients /\ ~server.closed
        /\ sock' = sock /\ loop' = loop /\ accepting' = accepting /\ tool' = tool
    BY <1>2 DEF AcceptFails, TypeOK, Servers, wire, loopVars, clientVars
  <2>2. Served' = Served /\ clients = Served
    BY <2>1 DEF Served, ServerInv, ClientsAccounted
  <2>3. ClientsAccounted' /\ IsFiniteSet(Served')
    BY <2>1, <2>2, OpenFacts, AccountedKept
  <2>4. ASSUME NEW d \in Conns
        PROVE  PhaseInv(d)'
    BY <2>1, <2>2, <2>4 DEF ServerInv, PhaseInv
  <2> QED
    BY <2>3, <2>4 DEF ServerInv
<1>3. CASE Stop
  <2>1. /\ server'.closed /\ clients' = {} /\ toClose' = toClose \cup clients
        /\ sock' = sock /\ loop' = loop /\ accepting' = accepting /\ tool' = tool
    BY <1>3 DEF Stop, TypeOK, Servers, wire, loopVars, clientVars
  <2>2. Served' = Served /\ (server.closed \/ clients = Served)
    BY <2>1 DEF Served, ServerInv, ClientsAccounted
  <2>3. ClientsAccounted' /\ IsFiniteSet(Served')
    BY <2>1, <2>2, OpenFacts, AccountedKept
  <2>4. ASSUME NEW d \in Conns
        PROVE  PhaseInv(d)'
    BY <2>1, <2>2, <2>4 DEF ServerInv, PhaseInv
  <2> QED
    BY <2>3, <2>4 DEF ServerInv
<1>4. CASE CloseListener
  <2>1. /\ server'.closed /\ server.closed /\ clients' = clients /\ toClose' = toClose
        /\ loop' = loop /\ accepting' = accepting /\ tool' = tool
        /\ \A c \in Conns : sock'[c] = IF sock[c] = "backlog" THEN "shut" ELSE sock[c]
    BY <1>4 DEF CloseListener, TypeOK, Servers, loopVars, clientVars
  <2>2. Served' = Served
    BY <2>1 DEF Served
  <2>3. ClientsAccounted' /\ IsFiniteSet(Served')
    BY <2>1, <2>2, OpenFacts, AccountedKept
  <2>4. ASSUME NEW d \in Conns
        PROVE  PhaseInv(d)'
    BY <2>1, <2>2, <2>4 DEF ServerInv, PhaseInv
  <2> QED
    BY <2>3, <2>4 DEF ServerInv
<1>5. ASSUME NEW c \in Conns, Accept(c)
      PROVE  ServerInv'
  <2>1. /\ server' = server /\ clients' = clients /\ toClose' = toClose
        /\ loop' = loop /\ accepting' = c /\ tool' = tool /\ sock[c] = "backlog"
        /\ sock'[c] = "open" /\ \A d \in Conns \ {c} : sock'[d] = sock[d]
    BY <1>5 DEF Accept, TypeOK, loopVars, clientVars
  <2>2. Served' = Served /\ loop[c] = "none" /\ c \notin Served
    BY <2>1 DEF Served, ServerInv, PhaseInv
  <2>3. ClientsAccounted' /\ IsFiniteSet(Served')
    BY <2>1, <2>2, OpenFacts, AccountedKept
  <2>4. ASSUME NEW d \in Conns
        PROVE  PhaseInv(d)'
    BY <2>1, <2>2, <2>4 DEF ServerInv, PhaseInv
  <2> QED
    BY <2>3, <2>4 DEF ServerInv
<1>6. ASSUME NEW c \in Conns, CloseConnection(c)
      PROVE  ServerInv'
  <2>1. /\ server' = server /\ clients' = clients /\ toClose' = toClose \ {c} /\ c \in toClose
        /\ loop' = loop /\ accepting' = accepting /\ tool' = tool
        /\ sock'[c] = "shut" /\ \A d \in Conns \ {c} : sock'[d] = sock[d]
    BY <1>6 DEF CloseConnection, TypeOK, loopVars, clientVars
  <2>2. Served' = Served /\ tool[c] # "idle"
    BY <2>1 DEF Served, ServerInv, PhaseInv
  <2>3. ClientsAccounted' /\ IsFiniteSet(Served')
    BY <2>1, <2>2, OpenFacts, AccountedKept
  <2>4. ASSUME NEW d \in Conns
        PROVE  PhaseInv(d)'
    BY <2>1, <2>2, <2>4 DEF ServerInv, PhaseInv
  <2> QED
    BY <2>3, <2>4 DEF ServerInv
<1>7. ASSUME NEW c \in Conns, RemoveClient(c)
      PROVE  ServerInv'
  <2>1. /\ server' = server /\ clients' = clients \ {c} /\ toClose' = toClose
        /\ accepting' = accepting /\ tool' = tool /\ sock' = sock /\ loop[c] = "closed"
        /\ loop'[c] = "gone" /\ \A d \in Conns \ {c} : loop'[d] = loop[d]
    BY <1>7 DEF RemoveClient, TypeOK, wire, clientVars
  <2>2. Served' = Served \ {c} /\ c \in Served
    BY <2>1 DEF Served
  <2>3. IsFiniteSet(Served') /\ Cardinality(Served') = Cardinality(Served) - 1
    BY <2>2, FS_RemoveElement DEF ServerInv
  <2>4. Cardinality(Served) \in Nat /\ Cardinality(Served) <= MaxClients /\ MaxClients \in Nat
    BY FS_CardinalityType, ConnectionAssumption DEF ServerInv, ClientsAccounted
  <2>5. Cardinality(Served') <= MaxClients
    BY <2>3, <2>4
  <2>6. sock[c] \notin {"new", "backlog"} /\ accepting # c
    BY <2>1 DEF ServerInv, PhaseInv
  <2>7. ClientsAccounted'
    BY <2>1, <2>2, <2>5 DEF ServerInv, ClientsAccounted
  <2> QED
    BY <2>1, <2>3, <2>6, <2>7 DEF ServerInv, PhaseInv
<1>8. ASSUME NEW c \in Conns, Dial(c)
      PROVE  ServerInv'
  <2>1. /\ server' = server /\ clients' = clients /\ toClose' = toClose
        /\ loop' = loop /\ accepting' = accepting /\ tool[c] = "idle"
        /\ sock'[c] = "backlog" /\ tool'[c] = "dialled"
        /\ \A d \in Conns \ {c} : sock'[d] = sock[d] /\ tool'[d] = tool[d]
    BY <1>8 DEF Dial, TypeOK, serverVars, loopVars
  <2>2. Served' = Served /\ sock[c] = "new"
    BY <2>1 DEF Served, ServerInv, PhaseInv
  <2>3. ClientsAccounted' /\ IsFiniteSet(Served')
    BY <2>1, <2>2, OpenFacts, AccountedKept
  <2>4. ASSUME NEW d \in Conns
        PROVE  PhaseInv(d)'
    BY <2>1, <2>2, <2>4 DEF ServerInv, PhaseInv
  <2> QED
    BY <2>3, <2>4 DEF ServerInv
<1> QED
  BY <1>1, <1>2, <1>3, <1>4, <1>5, <1>6, <1>7, <1>8

-----------------------------------------------------------------------------
(* The invariant of a connection.  A step concerns one of them at most.    *)

Same(d) ==
  /\ inq'[d] = inq[d] /\ out'[d] = out[d] /\ owed'[d] = owed[d] /\ hello'[d] = hello[d]
  /\ tool'[d] = tool[d] /\ sent'[d] = sent[d]
  /\ sem'[d] = sem[d] /\ inFlight'[d] = inFlight[d]
  /\ WorkersOf(d)' = WorkersOf(d) /\ ForwardsOf(d)' = ForwardsOf(d)
  /\ loop'[d] \in {"none", "read"} => loop[d] \in {"none", "read"}

LEMMA SameKept ==
  ASSUME NEW d \in Conns, ConnInv(d), Same(d)
  PROVE  ConnInv(d)'
<1>1. FrameInv(d)' /\ SlotInv(d)'
  BY DEF ConnInv, Same, FrameInv, SlotInv
<1>2. IdInv(d)'
  <2>1. Busy(d)' = Busy(d)
    BY DEF Same, Busy
  <2> QED
    BY <2>1 DEF ConnInv, Same, IdInv
<1>3. Quiet(d)' = Quiet(d) /\ Pending(d)' = Pending(d)
  BY DEF Same, Quiet, Pending
<1>4. HelloInv(d)'
  BY <1>3 DEF ConnInv, Same, HelloInv
<1>5. AskedInv(d)' = AskedInv(d)
  BY <1>3 DEF Same, AskedInv
<1>6. d \in Tools => ToolInv(d)'
  <2>1. GreetedInv(d)' = GreetedInv(d)
    BY <1>3 DEF Same, GreetedInv
  <2> QED
    BY <1>3, <1>5, <2>1 DEF ConnInv, Same, ToolInv
<1> QED
  BY <1>1, <1>2, <1>4, <1>6 DEF ConnInv

LEMMA AllSame ==
  ASSUME IInv, TypeOK', ServerInv', \A d \in Conns : Same(d)
  PROVE  IInv'
  BY SameKept DEF IInv

LEMMA OthersSame ==
  ASSUME IInv, TypeOK', ServerInv', NEW c \in Conns, ConnInv(c)',
         \A d \in Conns \ {c} : Same(d)
  PROVE  IInv'
<1>1. ASSUME NEW d \in Conns
      PROVE  ConnInv(d)'
  BY <1>1, SameKept DEF IInv
<1> QED
  BY <1>1 DEF IInv

\* A tool whose request has a goroutine has sent it; the offer was answered.
LEMMA WorkerMeansAsked ==
  ASSUME NEW c \in Conns, ConnInv(c), WorkersOf(c) # {} \/ ForwardsOf(c) # {} \/ owed[c] # None
  PROVE  /\ hello[c]
         /\ c \in Tools => tool[c] \notin {"idle", "dialled", "greeted", "ready"}
<1>1. ~Quiet(c)
  BY DEF Quiet
<1> QED
  BY <1>1 DEF ConnInv, HelloInv, ToolInv, GreetedInv

\* Worker w of connection c becomes v.
LEMMA BecomesFacts ==
  ASSUME TypeOK, NEW c \in Conns, NEW w \in WorkersOf(c), NEW v,
         v.c = c, v.n = w.n, Becomes(w, v), ConnInv(c)
  PROVE  /\ WorkersOf(c)' = (WorkersOf(c) \ {w}) \cup {v}
         /\ \A d \in Conns \ {c} : WorkersOf(d)' = WorkersOf(d)
         /\ sem'[c] = sem[c] => SlotInv(c)'
         /\ inq'[c] = inq[c] /\ sent'[c] = sent[c] => FrameInv(c)'
<1>1. WorkersOf(c)' = (WorkersOf(c) \ {w}) \cup {v}
  BY DEF WorkersOf, Becomes
<1>2. \A d \in Conns \ {c} : WorkersOf(d)' = WorkersOf(d)
  BY DEF WorkersOf, Becomes
<1>3. v \notin WorkersOf(c) \ {w}
  BY DEF ConnInv, FrameInv
<1>4. sem'[c] = sem[c] => SlotInv(c)'
  <2>1. IsFiniteSet(WorkersOf(c)) /\ sem[c] = Cardinality(WorkersOf(c))
    BY DEF ConnInv, SlotInv
  <2>2. /\ IsFiniteSet(WorkersOf(c) \ {w})
        /\ Cardinality(WorkersOf(c) \ {w}) = Cardinality(WorkersOf(c)) - 1
    BY <2>1, FS_RemoveElement
  <2>3. /\ IsFiniteSet(WorkersOf(c)')
        /\ Cardinality(WorkersOf(c)') = Cardinality(WorkersOf(c) \ {w}) + 1
    BY <1>1, <1>3, <2>2, FS_AddElement
  <2>4. Cardinality(WorkersOf(c)) \in Nat
    BY <2>1, FS_CardinalityType
  <2>5. Cardinality(WorkersOf(c)') = Cardinality(WorkersOf(c))
    BY <2>2, <2>3, <2>4
  <2> QED
    BY <2>1, <2>3, <2>5 DEF SlotInv
<1>5. inq'[c] = inq[c] /\ sent'[c] = sent[c] => FrameInv(c)'
  BY <1>1 DEF ConnInv, FrameInv
<1> QED
  BY <1>1, <1>2, <1>4, <1>5

LEMMA BusyKept ==
  ASSUME NEW c \in Conns, ConnInv(c), NEW w \in WorkersOf(c), NEW v,
         WorkersOf(c)' = (WorkersOf(c) \ {w}) \cup {v}, inFlight'[c] = inFlight[c],
         v.id = w.id, w.at # "release", v.at # "release"
  PROVE  IdInv(c)'
<1>1. Busy(c)' = (Busy(c) \ {w}) \cup {v} /\ w \in Busy(c)
  BY DEF Busy
<1>2. {u.id : u \in Busy(c)'} = {u.id : u \in Busy(c)}
  BY <1>1
<1>3. \A u, x \in Busy(c)' : u.id = x.id => u = x
  BY <1>1 DEF ConnInv, IdInv
<1> QED
  BY <1>2, <1>3 DEF ConnInv, IdInv

\* Nothing is written, and v, if it is still there, has no more to do than w.
LEMMA WorkerToolKept ==
  ASSUME NEW c \in Conns, ConnInv(c), NEW w \in WorkersOf(c), NEW v,
         WorkersOf(c)' \subseteq (WorkersOf(c) \ {w}) \cup {v}, v.id = w.id, v.n = w.n,
         v.at \in {"start", "wait", "answer"} => w.at \in {"start", "wait", "answer"},
         inq'[c] = inq[c], out'[c] = out[c], owed'[c] = owed[c], hello'[c] = hello[c],
         tool'[c] = tool[c], sent'[c] = sent[c], ForwardsOf(c)' = ForwardsOf(c)
  PROVE  HelloInv(c)' /\ (c \in Tools => ToolInv(c)')
<1>1. /\ hello[c]
      /\ c \in Tools => tool[c] \notin {"idle", "dialled", "greeted", "ready"}
  BY WorkerMeansAsked
<1>2. HelloInv(c)'
  BY <1>1 DEF HelloInv
<1>3. Pending(c)' => Pending(c)
  BY DEF Pending
<1>4. ~Quiet(c)
  BY DEF Quiet
<1>5. AskedInv(c) => AskedInv(c)'
  <2> SUFFICES ASSUME AskedInv(c) PROVE AskedInv(c)'
    OBVIOUS
  <2>1. inq[c] = << >>
    BY <1>4 DEF AskedInv
  <2>2. owed[c] = None
    BY DEF AskedInv
  <2>3. \A u \in WorkersOf(c)' : u.n = 2 /\ u.id = ToolId
    BY DEF AskedInv
  <2> QED
    BY <1>3, <2>1, <2>2, <2>3 DEF AskedInv
<1>6. c \in Tools => ToolInv(c)'
  BY <1>1, <1>3, <1>5 DEF ConnInv, ToolInv
<1> QED
  BY <1>2, <1>6

-----------------------------------------------------------------------------
(* The steps of the server.                                                *)

LEMMA ServerStepInv ==
  ASSUME IInv,
         AddClient \/ AcceptFails \/ Stop \/ CloseListener
           \/ \E c \in Conns : Accept(c) \/ CloseConnection(c) \/ RemoveClient(c)
  PROVE  IInv'
<1>1. TypeOK' /\ ServerInv'
  BY ServerTypes, ServerSteps DEF IInv
<1>2. /\ UNCHANGED <<inq, out, owed, hello, tool, sent, sem, inFlight, workers, forwards>>
      /\ \A d \in Conns : loop'[d] \in {"none", "read"} => loop[d] \in {"none", "read"}
  <2>1. CASE AddClient
    <3>1. PICK c \in Conns : c = accepting
      BY <2>1 DEF IInv, AddClient, TypeOK
    <3>2. loop[c] = "none"
      BY <3>1 DEF IInv, ServerInv, PhaseInv
    <3>3. loop' = loop \/ loop' = [loop EXCEPT ![c] = "read"]
      BY <2>1, <3>1, Zenon DEF AddClient
    <3>4. \A d \in Conns : loop'[d] \in {"none", "read"} => loop[d] \in {"none", "read"}
      BY <3>2, <3>3 DEF IInv, TypeOK
    <3> QED
      BY <2>1, <3>4 DEF AddClient, workVars, clientVars
  <2>2. CASE AcceptFails
    BY <2>2 DEF AcceptFails, wire, loopVars, workVars, clientVars
  <2>3. CASE Stop
    BY <2>3 DEF Stop, wire, loopVars, workVars, clientVars
  <2>4. CASE CloseListener
    BY <2>4 DEF CloseListener, loopVars, workVars, clientVars
  <2>5. ASSUME NEW c \in Conns, Accept(c) \/ CloseConnection(c)
        PROVE  UNCHANGED <<inq, out, loopVars, workVars, clientVars>>
    BY <2>5 DEF Accept, CloseConnection
  <2>6. ASSUME NEW c \in Conns, RemoveClient(c)
        PROVE  /\ UNCHANGED <<wire, owed, hello, workVars, clientVars>>
               /\ loop' = [loop EXCEPT ![c] = "gone"]
    BY <2>6 DEF RemoveClient
  <2> QED
    BY <2>1, <2>2, <2>3, <2>4, <2>5, <2>6 DEF IInv, TypeOK, wire, loopVars, workVars, clientVars
<1>3. \A d \in Conns : Same(d)
  BY <1>2 DEF Same, WorkersOf, ForwardsOf
<1> QED
  BY <1>1, <1>3, AllSame

-----------------------------------------------------------------------------
(* The steps of a request's goroutine.                                     *)

\* The goroutine goes on, and nothing but the mailbox notices.
LEMMA QuietWork ==
  ASSUME IInv, TypeOK', NEW w \in workers, NEW v,
         Becomes(w, v), v.c = w.c, v.n = w.n, v.id = w.id, w.at # "release", v.at # "release",
         v.at \in {"start", "wait", "answer"} => w.at \in {"start", "wait", "answer"},
         UNCHANGED <<serverVars, wire, loopVars, inFlight, sem, forwards, clientVars>>
  PROVE  IInv'
<1>1. PICK c \in Conns : c = w.c /\ w \in WorkersOf(c) /\ ConnInv(c)
  BY WorkerFacts DEF IInv
<1>2. /\ WorkersOf(c)' = (WorkersOf(c) \ {w}) \cup {v}
      /\ \A d \in Conns \ {c} : WorkersOf(d)' = WorkersOf(d)
      /\ SlotInv(c)' /\ FrameInv(c)'
  BY <1>1, BecomesFacts DEF IInv, wire, clientVars
<1>3. /\ IdInv(c)'
      /\ HelloInv(c)' /\ (c \in Tools => ToolInv(c)')
  <2>1. ForwardsOf(c)' = ForwardsOf(c)
    BY DEF ForwardsOf
  <2>2. IdInv(c)'
    BY <1>1, <1>2, BusyKept
  <2>3. HelloInv(c)' /\ (c \in Tools => ToolInv(c)')
    BY <1>1, <1>2, <2>1, WorkerToolKept DEF wire, loopVars, clientVars
  <2> QED
    BY <2>2, <2>3
<1>4. \A d \in Conns \ {c} : Same(d)
  BY <1>2 DEF Same, ForwardsOf, wire, loopVars, clientVars
<1>5. ServerInv'
  BY ServerKept DEF IInv, wire, loopVars, clientVars
<1> QED
  BY <1>2, <1>3, <1>4, <1>5, OthersSame DEF ConnInv

LEMMA SubmitInv ==
  ASSUME IInv, NEW w \in workers, Submit(w) \/ GiveUp(w) \/ Expire(w)
  PROVE  IInv'
<1>1. TypeOK' /\ w \in Workers
  BY WorkTypes, WorkerFacts DEF IInv
<1>2. \/ Becomes(w, [w EXCEPT !.at = "wait"])
      \/ Becomes(w, [w EXCEPT !.at = "answer", !.job = "error"])
  BY DEF Submit, GiveUp, Expire
<1>3. /\ w.at \in {"start", "wait"}
      /\ UNCHANGED <<serverVars, wire, loopVars, inFlight, sem, forwards, clientVars>>
  BY DEF Submit, GiveUp, Expire
<1>4. PICK v : /\ Becomes(w, v) /\ v.c = w.c /\ v.n = w.n /\ v.id = w.id
               /\ v.at \in {"wait", "answer"}
  <2>1. CASE Becomes(w, [w EXCEPT !.at = "wait"])
    <3>1. PICK v : v = [w EXCEPT !.at = "wait"]
      OBVIOUS
    <3>2. v.c = w.c /\ v.n = w.n /\ v.id = w.id /\ v.at = "wait"
      BY <1>1, <3>1 DEF Workers
    <3> QED
      BY <2>1, <3>1, <3>2
  <2>2. CASE Becomes(w, [w EXCEPT !.at = "answer", !.job = "error"])
    <3>1. PICK v : v = [w EXCEPT !.at = "answer", !.job = "error"]
      OBVIOUS
    <3>2. v.c = w.c /\ v.n = w.n /\ v.id = w.id /\ v.at = "answer"
      BY <1>1, <3>1 DEF Workers
    <3> QED
      BY <2>2, <3>1, <3>2
  <2> QED
    BY <1>2, <2>1, <2>2
<1> QED
  BY <1>1, <1>3, <1>4, QuietWork

LEMMA ExecuteInv ==
  ASSUME IInv, Execute
  PROVE  IInv'
<1>1. TypeOK'
  BY ExecuteTypes DEF IInv
<1>2. UNCHANGED <<serverVars, wire, loopVars, inFlight, sem, forwards, clientVars>>
  BY DEF Execute
<1>3. CASE UNCHANGED workers
  <2>1. \A d \in Conns : Same(d)
    BY <1>2, <1>3 DEF Same, WorkersOf, ForwardsOf, wire, loopVars, clientVars
  <2>2. ServerInv'
    BY <1>2, ServerKept DEF IInv, wire, loopVars, clientVars
  <2> QED
    BY <1>1, <2>1, <2>2, AllSame
<1>4. CASE ~UNCHANGED workers
  <2>1. PICK w \in Submitter : \E r \in Results(w) :
          Becomes(w, [w EXCEPT !.at = "answer", !.job = r])
    BY <1>4 DEF Execute
  <2>2. w \in workers /\ w.at = "wait" /\ w \in Workers
    BY WorkerFacts DEF Submitter, IInv, TypeOK
  <2>3. PICK v : Becomes(w, v) /\ \E r \in Results(w) : v = [w EXCEPT !.at = "answer", !.job = r]
    BY <2>1
  <2>4. v.c = w.c /\ v.n = w.n /\ v.id = w.id /\ v.at = "answer"
    BY <2>2, <2>3 DEF Workers
  <2> QED
    BY <1>1, <1>2, <2>2, <2>3, <2>4, QuietWork
<1> QED
  BY <1>3, <1>4

LEMMA FinishInv ==
  ASSUME IInv, NEW w \in workers, Finish(w)
  PROVE  IInv'
<1>1. TypeOK' /\ w \in Workers
  BY WorkTypes, WorkerFacts DEF IInv
<1>2. PICK c \in Conns : c = w.c /\ w \in WorkersOf(c) /\ ConnInv(c)
  BY WorkerFacts DEF IInv
<1>3. UNCHANGED <<serverVars, wire, loopVars, forwards, clientVars>> /\ \A d \in Conns : ForwardsOf(d)' = ForwardsOf(d)
  BY DEF Finish, ForwardsOf
<1>4. ServerInv'
  BY <1>3, ServerKept DEF IInv, wire, loopVars, clientVars
<1>5. CASE w.at = "written"
  <2>1. PICK v : /\ Becomes(w, v) /\ v.c = w.c /\ v.n = w.n /\ v.id = w.id
                 /\ v.at = "release"
    <3>1. PICK v : v = [w EXCEPT !.at = "release"]
      OBVIOUS
    <3>2. v.c = w.c /\ v.n = w.n /\ v.id = w.id /\ v.at = "release"
      BY <1>1, <3>1 DEF Workers
    <3> QED
      BY <1>5, <3>1, <3>2 DEF Finish
  <2>2. /\ inFlight'[c] = inFlight[c] \ {w.id} /\ \A d \in Conns \ {c} : inFlight'[d] = inFlight[d]
        /\ sem' = sem
    BY <1>2, <1>5 DEF Finish, IInv, TypeOK
  <2>3. /\ WorkersOf(c)' = (WorkersOf(c) \ {w}) \cup {v}
        /\ \A d \in Conns \ {c} : WorkersOf(d)' = WorkersOf(d)
        /\ SlotInv(c)' /\ FrameInv(c)'
    BY <1>2, <1>3, <2>1, <2>2, BecomesFacts DEF IInv, wire, clientVars
  <2>4. HelloInv(c)' /\ (c \in Tools => ToolInv(c)')
    BY <1>2, <1>3, <2>1, <2>3, WorkerToolKept DEF wire, loopVars, clientVars
  <2>5. IdInv(c)'
    <3>1. Busy(c)' = Busy(c) \ {w} /\ w \in Busy(c)
      BY <1>2, <1>5, <2>1, <2>3 DEF Busy
    <3>2. inFlight[c] = {u.id : u \in Busy(c)} /\ \A u, x \in Busy(c) : u.id = x.id => u = x
      BY <1>2 DEF ConnInv, IdInv
    <3>3. inFlight[c] \ {w.id} = {u.id : u \in Busy(c) \ {w}}
      BY <3>1, <3>2
    <3> QED
      BY <2>2, <3>1, <3>2, <3>3 DEF IdInv
  <2>6. \A d \in Conns \ {c} : Same(d)
    BY <1>3, <2>2, <2>3 DEF Same, wire, loopVars, clientVars
  <2> QED
    BY <1>1, <1>4, <2>3, <2>4, <2>5, <2>6, OthersSame DEF ConnInv
<1>6. CASE w.at = "release"
  <2>1. /\ workers' = workers \ {w} /\ inFlight' = inFlight
        /\ sem'[c] = sem[c] - 1 /\ \A d \in Conns \ {c} : sem'[d] = sem[d]
    BY <1>2, <1>6 DEF Finish, IInv, TypeOK
  <2>2. /\ WorkersOf(c)' = WorkersOf(c) \ {w}
        /\ \A d \in Conns \ {c} : WorkersOf(d)' = WorkersOf(d)
    BY <1>2, <2>1 DEF WorkersOf
  <2>3. SlotInv(c)'
    BY <1>2, <2>1, <2>2, FS_RemoveElement DEF ConnInv, SlotInv
  <2>4. FrameInv(c)'
    BY <1>2, <1>3, <2>2 DEF ConnInv, FrameInv, wire, clientVars
  <2>5. IdInv(c)'
    <3>1. Busy(c)' = Busy(c)
      BY <1>6, <2>2 DEF Busy
    <3> QED
      BY <1>2, <2>1, <3>1 DEF ConnInv, IdInv
  <2>6. HelloInv(c)' /\ (c \in Tools => ToolInv(c)')
    BY <1>2, <1>3, <2>2, WorkerToolKept DEF wire, loopVars, clientVars
  <2>7. \A d \in Conns \ {c} : Same(d)
    BY <1>3, <2>1, <2>2 DEF Same, wire, loopVars, clientVars
  <2> QED
    BY <1>1, <1>4, <2>3, <2>4, <2>5, <2>6, <2>7, OthersSame DEF ConnInv
<1> QED
  BY <1>5, <1>6 DEF Finish

\* What is written behind an empty queue is its only frame.
LEMMA FirstWritten ==
  ASSUME NEW f
  PROVE  /\ Append(<< >>, f) = <<f>> /\ Len(Append(<< >>, f)) = 1
         /\ Append(<< >>, f)[1] = f /\ Append(<< >>, f) # << >>
  OBVIOUS

LEMMA WriteAnswerInv ==
  ASSUME IInv, NEW w \in workers, WriteAnswer(w)
  PROVE  IInv'
<1>1. TypeOK /\ TypeOK' /\ w \in Workers
  BY WorkTypes, WorkerFacts DEF IInv
<1>2. PICK c \in Conns : c = w.c /\ w \in WorkersOf(c) /\ ConnInv(c)
  BY WorkerFacts DEF IInv
<1>3. UNCHANGED <<serverVars, sock, peer, inq, loopVars, inFlight, sem, clientVars>>
  BY DEF WriteAnswer
<1>4. PICK v : /\ Becomes(w, v) /\ v.c = c /\ v.n = w.n /\ v.id = w.id /\ v.at = "written"
  <2>1. PICK v : v = [w EXCEPT !.at = "written", !.job = "none"]
    OBVIOUS
  <2>2. v.c = w.c /\ v.n = w.n /\ v.id = w.id /\ v.at = "written"
    BY <1>1, <2>1 DEF Workers
  <2> QED
    BY <1>2, <2>1, <2>2 DEF WriteAnswer
<1>5. /\ WorkersOf(c)' = (WorkersOf(c) \ {w}) \cup {v}
      /\ \A d \in Conns \ {c} : WorkersOf(d)' = WorkersOf(d)
      /\ SlotInv(c)' /\ FrameInv(c)'
  BY <1>1, <1>2, <1>3, <1>4, BecomesFacts DEF clientVars
<1>6. w.at = "answer" /\ IdInv(c)'
  BY <1>2, <1>3, <1>4, <1>5, BusyKept DEF WriteAnswer
<1>7. PICK f : f = Response(w.id, w.job # "error")
  OBVIOUS
<1>8. f \in Frames /\ f.type = "response" /\ f.id = w.id
  <2>1. w.id \in Ids /\ (w.job # "error") \in BOOLEAN
    BY <1>1, WorkerFacts
  <2>2. f \in Frames
    BY <1>7, <2>1, FrameFacts, Zenon
  <2> QED
    BY <1>7, <2>2 DEF Response
<1>9. /\ out'[c] = IF Alive(c) THEN Append(out[c], f) ELSE out[c]
      /\ \A d \in Conns \ {c} : out'[d] = out[d]
  BY <1>1, <1>2, <1>7, <1>8, WrittenFacts DEF WriteAnswer, CanWrite
<1>10. /\ ~Alive(c) => ForwardsOf(c)' = ForwardsOf(c)
       /\ \A d \in Conns \ {c} : ForwardsOf(d)' = ForwardsOf(d)
  BY <1>2 DEF WriteAnswer, ForwardsOf, Forwarder
<1>11. hello[c] /\ hello'[c] = hello[c] /\ tool'[c] = tool[c]
       /\ (c \in Tools => tool[c] \notin {"idle", "dialled", "greeted", "ready"})
  BY <1>2, <1>3, WorkerMeansAsked DEF loopVars, clientVars
<1>12. Pending(c)
  BY <1>2, <1>6 DEF Pending
<1>13. ASSUME AskedInv(c)
       PROVE  AskedInv(c)'
  <2>1. ~Quiet(c)
    BY <1>2 DEF Quiet
  <2>2. /\ inq[c] = << >> /\ owed[c] = None /\ out[c] = << >> /\ ForwardsOf(c) = {}
        /\ f.id = ToolId /\ w.n = 2
    BY <1>2, <1>8, <1>12, <1>13, <2>1 DEF AskedInv
  <2>3. WorkersOf(c) = {w}
    BY <1>2, <1>13, <2>2 DEF AskedInv, ConnInv, FrameInv
  <2>4. WorkersOf(c)' = {v} /\ v.n = 2 /\ v.id = ToolId
    BY <1>2, <1>4, <1>5, <1>13, <2>2, <2>3 DEF AskedInv
  <2>5. inq'[c] = << >> /\ owed'[c] = None /\ sent'[c] = sent[c]
    BY <1>3, <2>2 DEF loopVars, clientVars
  <2>6. ~Pending(c)'
    BY <1>4, <2>4, <2>5 DEF Pending
  <2>7. IF Alive(c) THEN out'[c] = Append(<< >>, f) ELSE out'[c] = << >> /\ ForwardsOf(c)' = {}
    BY <1>9, <1>10, <2>2
  <2>8. /\ out'[c] = << >> => ForwardsOf(c)' = {}
        /\ \A i \in 1 .. Len(out'[c]) :
             IF i = 1 THEN out'[c][i].type = "response" /\ out'[c][i].id = ToolId
                      ELSE out'[c][i].type = "event"
    <3>1. CASE Alive(c)
      <4>1. out'[c] # << >> /\ Len(out'[c]) = 1 /\ out'[c][1] = f
        BY <2>7, <3>1, FirstWritten
      <4>2. \A i \in 1 .. Len(out'[c]) : i = 1
        BY <4>1
      <4> QED
        BY <1>8, <2>2, <4>1, <4>2
    <3>2. CASE ~Alive(c)
      BY <2>7, <3>2
    <3> QED
      BY <3>1, <3>2
  <2> QED
    BY <1>11, <1>13, <2>4, <2>5, <2>6, <2>8 DEF AskedInv
<1>14. c \in Tools => ToolInv(c)'
  BY <1>2, <1>11, <1>12, <1>13 DEF ConnInv, ToolInv
<1>15. HelloInv(c)'
  BY <1>11 DEF HelloInv
<1>16. \A d \in Conns \ {c} : Same(d)
  BY <1>3, <1>5, <1>9, <1>10 DEF Same, loopVars, clientVars
<1>17. ServerInv'
  BY <1>3, ServerKept DEF IInv, loopVars, clientVars
<1> QED
  BY <1>1, <1>5, <1>6, <1>14, <1>15, <1>16, <1>17, OthersSame DEF ConnInv

-----------------------------------------------------------------------------
(* The steps of a subscription's goroutine.                                *)

\* A subscription was answered before it has a goroutine: its events follow
\* the answer, or what the tool has left of it.
LEMMA ForwardInv ==
  ASSUME IInv, NEW g \in forwards,
         Push(g) \/ ForwardEnds(g) \/ \E event \in {"next", "last"} : TakeEvent(g, event)
  PROVE  IInv'
<1>1. TypeOK /\ TypeOK'
  BY ForwardTypes DEF IInv
<1>2. PICK c \in Conns : c = g.c /\ g \in ForwardsOf(c) /\ ConnInv(c)
  BY ForwarderFacts DEF IInv, ForwardsOf
<1>3. UNCHANGED <<serverVars, sock, inq, loopVars, inFlight, sem, workers, tool, sent>>
  BY DEF Push, ForwardEnds, TakeEvent, wire, clientVars
<1>4. /\ \A d \in Conns \ {c} : out'[d] = out[d]
      /\ \/ out'[c] = out[c]
         \/ \E f \in Frames : f.type = "event" /\ out'[c] = Append(out[c], f)
  <2>1. CASE Push(g)
    <3>1. g.event \in {"next", "last"}
      BY <1>1, <2>1, ForwarderFacts DEF Push
    <3>2. PICK f : f = Event(g.event)
      OBVIOUS
    <3>3. f \in Frames /\ f.type = "event"
      BY <3>1, <3>2, FrameFacts DEF Event
    <3>4. /\ out'[c] = IF Alive(c) THEN Append(out[c], f) ELSE out[c]
          /\ \A d \in Conns \ {c} : out'[d] = out[d]
      BY <1>1, <1>2, <2>1, <3>2, <3>3, WrittenFacts DEF Push, CanWrite
    <3> QED
      BY <3>3, <3>4
  <2>2. CASE ~Push(g)
    BY <2>2 DEF ForwardEnds, TakeEvent, wire
  <2> QED
    BY <2>1, <2>2
<1>5. \A d \in Conns \ {c} : ForwardsOf(d)' = ForwardsOf(d)
  <2>1. \A event \in {"none", "next", "last"} : [g EXCEPT !.event = event].c = c
    BY <1>1, <1>2, ForwarderFacts
  <2>2. forwards \ {g} \subseteq forwards' /\ \A h \in forwards' : h \in forwards \ {g} \/ h.c = c
    <3>1. CASE Push(g)
      BY <2>1, <3>1 DEF Push
    <3>2. CASE ForwardEnds(g)
      BY <3>2 DEF ForwardEnds
    <3>3. ASSUME NEW event \in {"next", "last"}, TakeEvent(g, event)
          PROVE  forwards' = (forwards \ {g}) \cup {[g EXCEPT !.event = event]}
      BY <3>3 DEF TakeEvent
    <3> QED
      BY <2>1, <3>1, <3>2, <3>3
  <2> QED
    BY <1>2, <2>2 DEF ForwardsOf
<1>6. /\ hello[c] /\ (c \in Tools => tool[c] \notin {"idle", "dialled", "greeted", "ready"})
      /\ hello'[c] = hello[c] /\ tool'[c] = tool[c] /\ inq'[c] = inq[c] /\ sent'[c] = sent[c]
      /\ owed'[c] = owed[c] /\ WorkersOf(c)' = WorkersOf(c) /\ sem'[c] = sem[c]
      /\ inFlight'[c] = inFlight[c]
  BY <1>2, <1>3, WorkerMeansAsked DEF loopVars, WorkersOf
<1>7. FrameInv(c)' /\ SlotInv(c)' /\ HelloInv(c)' /\ Pending(c)' = Pending(c)
  BY <1>2, <1>6 DEF ConnInv, FrameInv, SlotInv, HelloInv, Pending
<1>8. IdInv(c)'
  <2>1. Busy(c)' = Busy(c)
    BY <1>6 DEF Busy
  <2> QED
    BY <1>2, <1>6, <2>1 DEF ConnInv, IdInv
<1>9. /\ out[c] \in Seq(Frames) /\ Len(out[c]) \in Nat
      /\ \A i \in 1 .. Len(out[c]) : out'[c][i] = out[c][i]
      /\ \/ Len(out'[c]) = Len(out[c])
         \/ Len(out'[c]) = Len(out[c]) + 1 /\ out'[c][Len(out[c]) + 1].type = "event"
  <2>1. out[c] \in Seq(Frames) /\ Len(out[c]) \in Nat
    BY <1>1 DEF TypeOK
  <2> QED
    BY <1>4, <2>1, AppendProperties
<1>10. ASSUME AskedInv(c)
       PROVE  AskedInv(c)'
  <2>1. out[c] # << >> /\ ~Pending(c) /\ ~Quiet(c)
    BY <1>2, <1>10 DEF AskedInv, Quiet
  <2>2. Len(out[c]) # 0
    BY <1>9, <2>1, EmptySeq
  <2>3. inq[c] = << >> /\ owed[c] = None
    BY <2>1 DEF Pending
  <2>4. out'[c] # << >>
    BY <1>9, <2>2, EmptySeq
  <2>5. ASSUME NEW i \in 1 .. Len(out'[c])
        PROVE  IF i = 1 THEN out'[c][i].type = "response" /\ out'[c][i].id = ToolId
                        ELSE out'[c][i].type = "event"
    <3>1. i \in 1 .. Len(out[c]) \/ (i = Len(out[c]) + 1 /\ out'[c][i].type = "event")
      BY <1>9, <2>5
    <3>2. CASE i \in 1 .. Len(out[c])
      BY <1>9, <1>10, <3>2 DEF AskedInv
    <3>3. CASE i = Len(out[c]) + 1 /\ out'[c][i].type = "event"
      BY <1>9, <2>2, <3>3
    <3> QED
      BY <3>1, <3>2, <3>3
  <2> QED
    BY <1>6, <1>7, <1>10, <2>1, <2>3, <2>4, <2>5 DEF AskedInv
<1>11. ASSUME \A i \in 1 .. Len(out[c]) : out[c][i].type = "event"
       PROVE  \A i \in 1 .. Len(out'[c]) : out'[c][i].type = "event"
  BY <1>9, <1>11
<1>12. c \in Tools => ToolInv(c)'
  BY <1>2, <1>6, <1>7, <1>10, <1>11 DEF ConnInv, ToolInv
<1>13. \A d \in Conns \ {c} : Same(d)
  BY <1>3, <1>4, <1>5 DEF Same, loopVars, WorkersOf
<1>14. ServerInv'
  BY <1>3, ServerKept DEF IInv, loopVars
<1> QED
  BY <1>1, <1>7, <1>8, <1>12, <1>13, <1>14, OthersSame DEF ConnInv

-----------------------------------------------------------------------------
(* The steps of the read loop.                                             *)

\* A frame is read: the rest keep their numbers, and its own is new.
LEMMA ReadFacts ==
  ASSUME TypeOK, NEW c \in Conns, ConnInv(c), inq[c] # << >>, NEW f, f = Head(inq[c]),
         Reads(c, f)
  PROVE  /\ f \in Requests /\ f = inq[c][1] /\ Len(inq[c]) \in Nat \ {0}
         /\ sent[c] \in Nat /\ f.n = sent[c] - Len(inq[c]) + 1
         /\ inq'[c] = Tail(inq[c]) /\ Len(inq'[c]) = Len(inq[c]) - 1
         /\ Len(inq[c]) <= 1 => inq'[c] = << >>
         /\ \A d \in Conns \ {c} : inq'[d] = inq[d]
         /\ UNCHANGED <<serverVars, tool, sent>>
         /\ loop[c] = "read" /\ owed[c] = None
         /\ \A w \in WorkersOf(c) : w.n < f.n /\ w.n \in Nat
         /\ Len(inq'[c]) <= sent'[c]
         /\ \A i \in 1 .. Len(inq'[c]) : inq'[c][i].n = sent'[c] - Len(inq'[c]) + i
<1>1. /\ f \in Requests /\ f = inq[c][1] /\ Len(inq[c]) \in Nat \ {0}
      /\ Tail(inq[c]) \in Seq(Requests) /\ Len(Tail(inq[c])) = Len(inq[c]) - 1
      /\ \A i \in 1 .. Len(Tail(inq[c])) : Tail(inq[c])[i] = inq[c][i + 1]
  BY HeadFacts
<1>2. /\ sent[c] \in Nat /\ f.n = sent[c] - Len(inq[c]) + 1
      /\ Len(inq[c]) <= sent[c]
  BY <1>1, ConnectionAssumption DEF ConnInv, FrameInv, TypeOK
<1>3. /\ inq'[c] = Tail(inq[c]) /\ \A d \in Conns \ {c} : inq'[d] = inq[d]
      /\ UNCHANGED <<serverVars, tool, sent>> /\ loop[c] = "read" /\ owed[c] = None
  BY DEF Reads, TypeOK, clientVars
<1>4. \A w \in WorkersOf(c) : w.n < f.n /\ w.n \in Nat
  <2>1. ASSUME NEW w \in WorkersOf(c)
        PROVE  w.n < f.n /\ w.n \in Nat
    <3>1. w.n <= sent[c] - Len(inq[c])
      BY DEF ConnInv, FrameInv
    <3>2. w.n \in 1 .. MaxFrames
      BY WorkerFacts DEF WorkersOf
    <3>3. w.n \in Nat
      BY <3>2
    <3> QED
      BY <1>1, <1>2, <3>1, <3>3
  <2> QED
    BY <2>1
<1>5. Len(inq[c]) <= 1 => inq'[c] = << >>
  BY <1>1, <1>3, EmptySeq
<1>6. Len(inq'[c]) = Len(inq[c]) - 1 /\ sent'[c] = sent[c] /\ Len(inq'[c]) <= sent'[c]
  BY <1>1, <1>2, <1>3
<1>7. ASSUME NEW i \in 1 .. Len(inq'[c])
      PROVE  inq'[c][i].n = sent'[c] - Len(inq'[c]) + i
  <2>1. i + 1 \in 1 .. Len(inq[c]) /\ inq'[c][i] = inq[c][i + 1]
    BY <1>1, <1>3, <1>6, <1>7
  <2>2. inq[c][i + 1].n = sent[c] - Len(inq[c]) + (i + 1)
    BY <2>1 DEF ConnInv, FrameInv
  <2>3. inq'[c][i].n = sent[c] - Len(inq[c]) + (i + 1)
    BY <2>1, <2>2
  <2>4. sent[c] - Len(inq[c]) + (i + 1) = sent[c] - (Len(inq[c]) - 1) + i
    <3>1. \A a, b, k \in Int : a - b + (k + 1) = a - (b - 1) + k
      OBVIOUS
    <3>2. i \in Int /\ sent[c] \in Int /\ Len(inq[c]) \in Int
      BY <1>1, <1>2, <1>7
    <3> QED
      BY <3>1, <3>2
  <2> QED
    BY <1>6, <2>3, <2>4
<1> QED
  BY <1>1, <1>2, <1>3, <1>4, <1>5, <1>6, <1>7

\* The frames of a read that leaves the goroutines alone.
LEMMA ReadKeepsWork ==
  ASSUME TypeOK, NEW c \in Conns, ConnInv(c), inq[c] # << >>, NEW f, f = Head(inq[c]),
         Reads(c, f), UNCHANGED <<inFlight, sem, workers>>
  PROVE  FrameInv(c)' /\ SlotInv(c)' /\ IdInv(c)' /\ \A d \in Conns : WorkersOf(d)' = WorkersOf(d)
<1>1. \A d \in Conns : WorkersOf(d)' = WorkersOf(d)
  BY DEF WorkersOf
<1>2. SlotInv(c)'
  BY <1>1 DEF ConnInv, SlotInv
<1>3. IdInv(c)'
  <2>1. Busy(c)' = Busy(c)
    BY <1>1 DEF Busy
  <2> QED
    BY <2>1 DEF ConnInv, IdInv
<1>4. \A w \in WorkersOf(c) : w.n <= sent'[c] - Len(inq'[c])
  <2>1. /\ sent'[c] = sent[c] /\ sent[c] \in Nat /\ Len(inq[c]) \in Nat
        /\ Len(inq'[c]) = Len(inq[c]) - 1 /\ f.n = sent[c] - Len(inq[c]) + 1
        /\ \A w \in WorkersOf(c) : w.n < f.n /\ w.n \in Nat
    BY ReadFacts
  <2> QED
    BY <2>1
<1>5. /\ Len(inq'[c]) <= sent'[c]
      /\ \A i \in 1 .. Len(inq'[c]) : inq'[c][i].n = sent'[c] - Len(inq'[c]) + i
  BY ReadFacts
<1>6. FrameInv(c)'
  BY <1>1, <1>4, <1>5 DEF ConnInv, FrameInv
<1> QED
  BY <1>1, <1>2, <1>3, <1>6

LEMMA ReadFirstInv ==
  ASSUME IInv, NEW c \in Conns, inq[c] # << >>, NEW f, f = Head(inq[c]), ReadFirst(c, f)
  PROVE  IInv'
<1>1. TypeOK /\ TypeOK' /\ ConnInv(c) /\ ServerInv
  BY ReadTypes DEF IInv, ReadStep
<1>2. /\ Reads(c, f) /\ ~hello[c] /\ UNCHANGED <<owed, workVars>>
  BY DEF ReadFirst
<1>3. /\ FrameInv(c)' /\ SlotInv(c)' /\ IdInv(c)'
      /\ \A d \in Conns : WorkersOf(d)' = WorkersOf(d) /\ ForwardsOf(d)' = ForwardsOf(d)
  BY <1>1, <1>2, ReadKeepsWork DEF workVars, ForwardsOf
<1>4. /\ f = inq[c][1] /\ f \in Requests /\ Len(inq[c]) \in Nat \ {0}
      /\ Len(inq[c]) <= 1 => inq'[c] = << >>
      /\ \A d \in Conns \ {c} : inq'[d] = inq[d]
      /\ UNCHANGED <<serverVars, tool, sent>> /\ loop[c] = "read"
  BY <1>1, <1>2, ReadFacts
<1>5. Quiet(c) /\ out[c] = << >> /\ Quiet(c)'
  BY <1>1, <1>2, <1>3, <1>4 DEF ConnInv, HelloInv, Quiet
<1>6. PICK r : r = Response(f.id, f.kind = "hello")
  OBVIOUS
<1>7. r \in Frames
  <2>1. f.id \in Ids /\ (f.kind = "hello") \in BOOLEAN
    BY <1>4 DEF Requests
  <2> QED
    BY <1>6, <2>1, FrameFacts, Zenon
<1>8. /\ out'[c] = IF Alive(c) THEN Append(<< >>, r) ELSE << >>
      /\ \A d \in Conns \ {c} : out'[d] = out[d]
  <2>1. Len(out[c]) < SocketSize
    BY <1>5, ConnectionAssumption
  <2> QED
    BY <1>1, <1>5, <1>6, <1>7, <2>1, WrittenFacts DEF ReadFirst
<1>9. /\ IF f.kind = "hello" /\ Alive(c)
           THEN hello'[c] /\ loop' = loop /\ sock' = sock
           ELSE ~hello'[c] /\ loop'[c] = "closed" /\ Returns(c)
      /\ \A d \in Conns \ {c} : hello'[d] = hello[d] /\ loop'[d] = loop[d]
  <2>1. CASE f.kind = "hello" /\ Alive(c)
    <3>1. hello' = [hello EXCEPT ![c] = TRUE] /\ loop' = loop /\ sock' = sock
      BY <2>1, Zenon DEF ReadFirst
    <3> QED
      BY <1>1, <2>1, <3>1 DEF TypeOK
  <2>2. CASE ~(f.kind = "hello" /\ Alive(c))
    <3>1. hello' = hello /\ Returns(c)
      BY <2>2, Zenon DEF ReadFirst
    <3>2. loop' = [loop EXCEPT ![c] = "closed"]
      BY <3>1 DEF Returns
    <3> QED
      BY <1>1, <1>2, <2>2, <3>1, <3>2 DEF TypeOK
  <2> QED
    BY <2>1, <2>2
<1>10. HelloInv(c)'
  BY <1>5, <1>9 DEF HelloInv
<1>11. c \in Tools => ToolInv(c)'
  <2> SUFFICES ASSUME c \in Tools PROVE ToolInv(c)'
    OBVIOUS
  <2>1. ToolInv(c) /\ tool'[c] = tool[c] /\ sent'[c] = sent[c]
    BY <1>1, <1>4 DEF ConnInv
  <2>2. tool[c] \in {"greeted", "done", "failed"}
    BY <1>1, <1>2, <2>1 DEF ToolInv, AskedInv, TypeOK
  <2>3. CASE tool[c] = "greeted"
    <3>1. sent[c] = 1 /\ Len(inq[c]) <= 1 /\ f.id = HelloId /\ f.kind = "hello"
      BY <1>4, <2>1, <2>3 DEF ToolInv, GreetedInv
    <3>2. inq'[c] = << >>
      BY <1>4, <3>1
    <3>3. r = Response(HelloId, TRUE)
      BY <1>6, <3>1, Zenon
    <3>4. IF hello'[c] THEN out'[c] = <<r>> ELSE out'[c] = << >>
      BY <1>8, <1>9, <3>1, FirstWritten
    <3>5. \A i \in 1 .. Len(inq'[c]) : inq'[c][i].id = HelloId /\ inq'[c][i].kind = "hello"
      BY <3>2
    <3>6. IF hello'[c] THEN inq'[c] = << >> /\ out'[c] = <<Response(HelloId, TRUE)>>
                       ELSE out'[c] = << >>
      BY <3>2, <3>3, <3>4
    <3>7. Len(inq'[c]) <= 1
      BY <3>2
    <3>8. GreetedInv(c)'
      BY <1>5, <2>1, <3>1, <3>5, <3>6, <3>7 DEF GreetedInv
    <3> QED
      BY <2>1, <2>3, <3>8 DEF ToolInv
  <2>4. CASE tool[c] \in {"done", "failed"}
    BY <2>1, <2>4 DEF ToolInv
  <2> QED
    BY <2>2, <2>3, <2>4
<1>12. \A d \in Conns \ {c} : Same(d)
  BY <1>2, <1>3, <1>4, <1>8, <1>9 DEF Same, workVars
<1>13. ServerInv'
  <2>1. CASE f.kind = "hello" /\ Alive(c)
    BY <1>1, <1>4, <1>9, <2>1, ServerKept
  <2>2. CASE ~(f.kind = "hello" /\ Alive(c))
    BY <1>1, <1>4, <1>9, <2>2, ReturnKept
  <2> QED
    BY <2>1, <2>2
<1> QED
  BY <1>1, <1>3, <1>10, <1>11, <1>12, <1>13, OthersSame DEF ConnInv

\* A tool whose request is read by the negotiated loop awaits its answer.
LEMMA ReadByTool ==
  ASSUME TypeOK, NEW c \in Conns, ConnInv(c), hello[c], inq[c] # << >>, c \in Tools
  PROVE  tool[c] \in {"asked", "subscribing", "done", "failed"}
<1>1. Pending(c) /\ ToolInv(c)
  BY DEF Pending, ConnInv
<1> QED
  BY <1>1 DEF ToolInv, GreetedInv, TypeOK

LEMMA ReadRefusedInv ==
  ASSUME IInv, NEW c \in Conns, inq[c] # << >>, NEW f, f = Head(inq[c]), ReadRefused(c, f)
  PROVE  IInv'
<1>1. TypeOK /\ TypeOK' /\ ConnInv(c) /\ ServerInv
  BY ReadTypes DEF IInv, ReadStep
<1>2. Reads(c, f) /\ hello[c] /\ UNCHANGED <<sock, out, loop, hello, workVars>>
  BY DEF ReadRefused
<1>3. /\ FrameInv(c)' /\ SlotInv(c)' /\ IdInv(c)'
      /\ \A d \in Conns : WorkersOf(d)' = WorkersOf(d) /\ ForwardsOf(d)' = ForwardsOf(d)
  BY <1>1, <1>2, ReadKeepsWork DEF workVars, ForwardsOf
<1>4. /\ f = inq[c][1] /\ Len(inq[c]) \in Nat \ {0}
      /\ Len(inq[c]) <= 1 => inq'[c] = << >>
      /\ \A d \in Conns \ {c} : inq'[d] = inq[d]
      /\ UNCHANGED <<serverVars, tool, sent>>
  BY <1>1, <1>2, ReadFacts
<1>5. owed'[c] = f.id /\ \A d \in Conns \ {c} : owed'[d] = owed[d]
  BY <1>1 DEF ReadRefused, TypeOK
<1>6. HelloInv(c)'
  BY <1>2 DEF HelloInv
<1>7. ASSUME AskedInv(c)
      PROVE  AskedInv(c)'
  <2>1. /\ Quiet(c) /\ Len(inq[c]) <= 1 /\ f.id = ToolId /\ Pending(c) /\ out[c] = << >>
    BY <1>4, <1>7 DEF AskedInv, Pending
  <2>2. WorkersOf(c)' = {} /\ ForwardsOf(c)' = {} /\ inq'[c] = << >> /\ out'[c] = << >>
    BY <1>2, <1>3, <1>4, <2>1 DEF Quiet
  <2> QED
    BY <1>2, <1>4, <1>5, <1>7, <2>1, <2>2 DEF AskedInv
<1>8. c \in Tools => ToolInv(c)'
  BY <1>1, <1>2, <1>4, <1>7, ReadByTool DEF ConnInv, ToolInv
<1>9. \A d \in Conns \ {c} : Same(d)
  BY <1>2, <1>3, <1>4, <1>5 DEF Same, workVars
<1>10. ServerInv'
  BY <1>1, <1>2, <1>4, ServerKept
<1> QED
  BY <1>1, <1>3, <1>6, <1>8, <1>9, <1>10, OthersSame DEF ConnInv

LEMMA RefuseInv ==
  ASSUME IInv, NEW c \in Conns, Refuse(c)
  PROVE  IInv'
<1>1. TypeOK /\ TypeOK' /\ ConnInv(c) /\ ServerInv
  BY ReadTypes DEF IInv, ReadStep
<1>2. /\ owed[c] # None
      /\ UNCHANGED <<serverVars, sock, peer, inq, loop, hello, workVars, clientVars>>
      /\ owed'[c] = None /\ \A d \in Conns \ {c} : owed'[d] = owed[d]
  BY <1>1 DEF Refuse, TypeOK
<1>3. \A d \in Conns : WorkersOf(d)' = WorkersOf(d) /\ ForwardsOf(d)' = ForwardsOf(d)
  BY <1>2 DEF workVars, WorkersOf, ForwardsOf
<1>4. PICK f : f = Response(owed[c], FALSE)
  OBVIOUS
<1>5. f \in Frames /\ f.type = "response" /\ f.id = owed[c]
  <2>1. owed[c] \in Ids
    BY <1>1, <1>2 DEF TypeOK
  <2>2. f \in Frames
    BY <1>4, <2>1, FrameFacts, Zenon
  <2> QED
    BY <1>4, <2>2 DEF Response
<1>6. /\ out'[c] = IF Alive(c) THEN Append(out[c], f) ELSE out[c]
      /\ \A d \in Conns \ {c} : out'[d] = out[d]
  BY <1>1, <1>4, <1>5, WrittenFacts DEF Refuse, CanWrite
<1>7. hello[c] /\ (c \in Tools => tool[c] \notin {"idle", "dialled", "greeted", "ready"})
  BY <1>1, <1>2, WorkerMeansAsked
<1>8. HelloInv(c)'
  BY <1>2, <1>7 DEF HelloInv
<1>9. FrameInv(c)' /\ SlotInv(c)'
  BY <1>1, <1>2, <1>3 DEF ConnInv, FrameInv, SlotInv, workVars, clientVars
<1>10. IdInv(c)'
  <2>1. Busy(c)' = Busy(c)
    BY <1>3 DEF Busy
  <2> QED
    BY <1>1, <1>2, <2>1 DEF ConnInv, IdInv, workVars
<1>11. ASSUME AskedInv(c)
       PROVE  AskedInv(c)'
  <2>1. ~Quiet(c) /\ Pending(c)
    BY <1>2 DEF Quiet, Pending
  <2>2. /\ inq[c] = << >> /\ out[c] = << >> /\ ForwardsOf(c) = {} /\ WorkersOf(c) = {}
        /\ f.id = ToolId
    BY <1>2, <1>5, <1>11, <2>1 DEF AskedInv
  <2>3. ForwardsOf(c)' = {} /\ WorkersOf(c)' = {} /\ inq'[c] = << >>
    BY <1>2, <1>3, <2>2
  <2>4. ~Pending(c)'
    BY <1>2, <2>3 DEF Pending
  <2>5. \A i \in 1 .. Len(out'[c]) :
          IF i = 1 THEN out'[c][i].type = "response" /\ out'[c][i].id = ToolId
                   ELSE out'[c][i].type = "event"
    <3>1. CASE Alive(c)
      <4>1. Len(out'[c]) = 1 /\ out'[c][1] = f
        BY <1>6, <2>2, <3>1, FirstWritten
      <4>2. \A i \in 1 .. Len(out'[c]) : i = 1
        BY <4>1
      <4> QED
        BY <1>5, <2>2, <4>1, <4>2
    <3>2. CASE ~Alive(c)
      BY <1>6, <2>2, <3>2
    <3> QED
      BY <3>1, <3>2
  <2> QED
    BY <1>2, <1>7, <1>11, <2>3, <2>4, <2>5 DEF AskedInv, clientVars
<1>12. c \in Tools => ToolInv(c)'
  <2>1. Pending(c)
    BY <1>2 DEF Pending
  <2> QED
    BY <1>1, <1>2, <1>7, <1>11, <2>1 DEF ConnInv, ToolInv, clientVars
<1>13. \A d \in Conns \ {c} : Same(d)
  BY <1>2, <1>3, <1>6 DEF Same, workVars, clientVars
<1>14. ServerInv'
  BY <1>1, <1>2, ServerKept DEF clientVars
<1> QED
  BY <1>1, <1>8, <1>9, <1>10, <1>12, <1>13, <1>14, OthersSame DEF ConnInv

LEMMA ReadRequestInv ==
  ASSUME IInv, NEW c \in Conns, inq[c] # << >>, NEW f, f = Head(inq[c]), ReadRequest(c, f)
  PROVE  IInv'
<1>1. TypeOK /\ TypeOK' /\ ConnInv(c) /\ ServerInv
  BY ReadTypes DEF IInv, ReadStep
<1>2. /\ Reads(c, f) /\ hello[c] /\ f.id \notin inFlight[c]
      /\ UNCHANGED <<sock, out, loopVars, forwards>>
  BY DEF ReadRequest, Duplicate
<1>3. /\ f = inq[c][1] /\ Len(inq[c]) \in Nat \ {0} /\ f.n = sent[c] - Len(inq[c]) + 1
      /\ sent[c] \in Nat /\ Len(inq'[c]) = Len(inq[c]) - 1
      /\ Len(inq[c]) <= 1 => inq'[c] = << >>
      /\ \A d \in Conns \ {c} : inq'[d] = inq[d]
      /\ UNCHANGED <<serverVars, tool, sent>> /\ owed[c] = None
      /\ \A w \in WorkersOf(c) : w.n < f.n /\ w.n \in Nat
      /\ Len(inq'[c]) <= sent'[c]
      /\ \A i \in 1 .. Len(inq'[c]) : inq'[c][i].n = sent'[c] - Len(inq'[c]) + i
  BY <1>1, <1>2, ReadFacts
<1>4. PICK u : /\ workers' = workers \cup {u}
               /\ u.c = c /\ u.n = f.n /\ u.id = f.id /\ u.at = "start"
  <2>1. PICK u : u = [c |-> c, n |-> f.n, id |-> f.id, at |-> "start",
                      job |-> IF f.kind \in Commands THEN f.kind ELSE "other"]
    OBVIOUS
  <2>2. workers' = workers \cup {u}
    BY <2>1 DEF ReadRequest
  <2> QED
    BY <2>1, <2>2
<1>5. /\ WorkersOf(c)' = WorkersOf(c) \cup {u} /\ u \notin WorkersOf(c)
      /\ \A d \in Conns \ {c} : WorkersOf(d)' = WorkersOf(d)
      /\ \A d \in Conns : ForwardsOf(d)' = ForwardsOf(d)
  <2>1. u \notin WorkersOf(c)
    BY <1>3, <1>4
  <2> QED
    BY <1>2, <1>4, <2>1 DEF WorkersOf, ForwardsOf
<1>6. /\ sem'[c] = sem[c] + 1 /\ inFlight'[c] = inFlight[c] \cup {f.id}
      /\ \A d \in Conns \ {c} : sem'[d] = sem[d] /\ inFlight'[d] = inFlight[d]
  BY <1>1 DEF ReadRequest, TypeOK
<1>7. SlotInv(c)'
  BY <1>1, <1>5, <1>6, FS_AddElement DEF ConnInv, SlotInv
<1>8. IdInv(c)'
  <2>1. Busy(c)' = Busy(c) \cup {u}
    BY <1>4, <1>5 DEF Busy
  <2>2. inFlight[c] = {w.id : w \in Busy(c)} /\ \A w, v \in Busy(c) : w.id = v.id => w = v
    BY <1>1 DEF ConnInv, IdInv
  <2>3. inFlight[c] \cup {u.id} = {w.id : w \in Busy(c) \cup {u}}
    BY <2>2
  <2>4. \A w \in Busy(c) : w.id # u.id
    BY <1>2, <1>4, <2>2
  <2>5. \A w, v \in Busy(c) \cup {u} : w.id = v.id => w = v
    BY <2>2, <2>4
  <2> QED
    BY <1>4, <1>6, <2>1, <2>3, <2>5 DEF IdInv
<1>9. FrameInv(c)'
  <2>1. f.n = sent'[c] - Len(inq'[c]) /\ f.n \in Int
    <3>1. \A m, l \in Int : m - l + 1 = m - (l - 1) /\ m - l + 1 \in Int
      OBVIOUS
    <3>2. sent[c] \in Int /\ Len(inq[c]) \in Int /\ sent'[c] = sent[c]
      BY <1>3
    <3>3. f.n = sent[c] - Len(inq[c]) + 1 /\ Len(inq'[c]) = Len(inq[c]) - 1
      BY <1>3
    <3> QED
      BY <3>1, <3>2, <3>3
  <2>2. \A w \in WorkersOf(c)' : w.n <= sent'[c] - Len(inq'[c])
    BY <1>3, <1>4, <1>5, <2>1
  <2>3. \A w, v \in WorkersOf(c)' : w.n = v.n => w = v
    BY <1>1, <1>3, <1>4, <1>5, <2>1 DEF ConnInv, FrameInv
  <2> QED
    BY <1>3, <2>2, <2>3 DEF FrameInv
<1>10. HelloInv(c)'
  BY <1>2 DEF HelloInv, loopVars
<1>11. ASSUME AskedInv(c)
       PROVE  AskedInv(c)'
  <2>1. /\ Quiet(c) /\ Len(inq[c]) <= 1 /\ f.id = ToolId /\ out[c] = << >> /\ sent[c] = 2
    BY <1>3, <1>11 DEF AskedInv, Pending
  <2>2. f.n = 2 /\ inq'[c] = << >>
    BY <1>3, <2>1
  <2>3. /\ WorkersOf(c)' = {u} /\ ForwardsOf(c)' = {} /\ out'[c] = << >>
        /\ owed'[c] = None
    BY <1>2, <1>3, <1>5, <2>1 DEF Quiet, loopVars
  <2>4. \A w \in WorkersOf(c)' : w.n = 2 /\ w.id = ToolId
    BY <1>4, <2>1, <2>2, <2>3
  <2> QED
    BY <1>2, <1>3, <1>11, <2>1, <2>2, <2>3, <2>4 DEF AskedInv, loopVars
<1>12. c \in Tools => ToolInv(c)'
  BY <1>1, <1>2, <1>3, <1>11, ReadByTool DEF ConnInv, ToolInv
<1>13. \A d \in Conns \ {c} : Same(d)
  BY <1>2, <1>3, <1>5, <1>6 DEF Same, loopVars
<1>14. ServerInv'
  BY <1>1, <1>2, <1>3, ServerKept DEF loopVars
<1> QED
  BY <1>1, <1>7, <1>8, <1>9, <1>10, <1>12, <1>13, <1>14, OthersSame DEF ConnInv

LEMMA ReadFailsInv ==
  ASSUME IInv, NEW c \in Conns, ReadFails(c)
  PROVE  IInv'
<1>1. TypeOK /\ TypeOK' /\ ConnInv(c) /\ ServerInv
  BY ReadTypes DEF IInv, ReadStep
<1>2. /\ loop[c] = "read" /\ Returns(c) /\ UNCHANGED <<serverVars, peer, out, owed, hello, workVars, clientVars>>
      /\ inq'[c] = << >> /\ \A d \in Conns \ {c} : inq'[d] = inq[d]
      /\ loop'[c] = "closed" /\ \A d \in Conns \ {c} : loop'[d] = loop[d]
  BY <1>1 DEF ReadFails, Returns, TypeOK
<1>3. \A d \in Conns : WorkersOf(d)' = WorkersOf(d) /\ ForwardsOf(d)' = ForwardsOf(d)
  BY <1>2 DEF workVars, WorkersOf, ForwardsOf
<1>4. FrameInv(c)'
  <2>1. /\ Len(inq[c]) \in Nat /\ sent[c] \in Nat /\ sent'[c] = sent[c]
    BY <1>1, <1>2, ConnectionAssumption DEF TypeOK, clientVars
  <2>2. Len(inq'[c]) = 0
    BY <1>2
  <2>3. ASSUME NEW w \in WorkersOf(c)
        PROVE  w.n <= sent'[c] - Len(inq'[c])
    <3>1. w.n <= sent[c] - Len(inq[c])
      BY <1>1 DEF ConnInv, FrameInv
    <3>2. w.n \in 1 .. MaxFrames
      BY <1>1, WorkerFacts DEF WorkersOf
    <3>3. w.n \in Nat
      BY <3>2
    <3> QED
      BY <2>1, <2>2, <3>1, <3>3
  <2> QED
    BY <1>1, <1>3, <2>1, <2>2, <2>3 DEF ConnInv, FrameInv
<1>5. SlotInv(c)'
  BY <1>1, <1>2, <1>3 DEF ConnInv, SlotInv, workVars
<1>6. IdInv(c)'
  <2>1. Busy(c)' = Busy(c)
    BY <1>3 DEF Busy
  <2> QED
    BY <1>1, <1>2, <2>1 DEF ConnInv, IdInv, workVars
<1>7. Quiet(c)' = Quiet(c) /\ (Pending(c)' => Pending(c))
  BY <1>2, <1>3 DEF Quiet, Pending
<1>8. HelloInv(c)'
  BY <1>1, <1>2, <1>7 DEF ConnInv, HelloInv
<1>9. Len(inq'[c]) = 0
  BY <1>2
<1>10. AskedInv(c) => AskedInv(c)'
  BY <1>2, <1>3, <1>7, <1>9 DEF AskedInv, clientVars
<1>11. c \in Tools => ToolInv(c)'
  <2> SUFFICES ASSUME c \in Tools PROVE ToolInv(c)'
    OBVIOUS
  <2>1. ToolInv(c) /\ \A i \in 1 .. Len(inq'[c]) : FALSE
    BY <1>1, <1>9 DEF ConnInv
  <2>2. /\ tool'[c] = tool[c] /\ sent'[c] = sent[c] /\ hello'[c] = hello[c]
        /\ out'[c] = out[c] /\ inq'[c] = << >>
    BY <1>2 DEF clientVars
  <2>3. CASE tool[c] = "greeted"
    <3>1. GreetedInv(c)'
      <4>1. Len(inq'[c]) <= 1
        BY <1>9
      <4>2. GreetedInv(c)
        BY <2>1, <2>3 DEF ToolInv
      <4> QED
        BY <1>7, <2>1, <2>2, <4>1, <4>2 DEF GreetedInv
    <3> QED
      BY <2>2, <2>3, <3>1 DEF ToolInv
  <2>4. CASE tool[c] # "greeted"
    BY <1>7, <1>10, <2>1, <2>2, <2>4 DEF ToolInv
  <2> QED
    BY <2>3, <2>4
<1>12. \A d \in Conns \ {c} : Same(d)
  BY <1>2, <1>3 DEF Same, workVars, clientVars
<1>13. ServerInv'
  BY <1>1, <1>2, ReturnKept DEF clientVars
<1> QED
  BY <1>1, <1>4, <1>5, <1>6, <1>8, <1>11, <1>12, <1>13, OthersSame DEF ConnInv

-----------------------------------------------------------------------------
(* The steps of clients.                                                   *)

LEMMA DialInv ==
  ASSUME IInv, NEW c \in Conns, Dial(c)
  PROVE  IInv'
<1>1. TypeOK /\ TypeOK' /\ ServerInv' /\ ConnInv(c)
  BY ServerTypes, ServerSteps DEF IInv
<1>2. /\ UNCHANGED <<inq, out, loop, owed, hello, sent, sem, inFlight, workers, forwards>>
      /\ tool[c] = "idle" /\ tool'[c] = "dialled" /\ \A d \in Conns \ {c} : tool'[d] = tool[d]
  BY <1>1 DEF Dial, TypeOK, loopVars, workVars
<1>3. \A d \in Conns : WorkersOf(d)' = WorkersOf(d) /\ ForwardsOf(d)' = ForwardsOf(d)
  BY <1>2 DEF WorkersOf, ForwardsOf
<1>4. Quiet(c)' = Quiet(c) /\ Busy(c)' = Busy(c)
  BY <1>2, <1>3 DEF Quiet, Busy
<1>5. FrameInv(c)' /\ SlotInv(c)' /\ IdInv(c)' /\ HelloInv(c)'
  BY <1>1, <1>2, <1>3, <1>4 DEF ConnInv, FrameInv, SlotInv, IdInv, HelloInv
<1>6. c \in Tools => ToolInv(c)'
  BY <1>1, <1>2 DEF ConnInv, ToolInv
<1>7. \A d \in Conns \ {c} : Same(d)
  BY <1>2, <1>3 DEF Same
<1> QED
  BY <1>1, <1>5, <1>6, <1>7, OthersSame DEF ConnInv

\* A frame that is sent has the next number.
LEMMA SendKeeps ==
  ASSUME TypeOK, NEW c \in Conns, NEW id \in Ids, NEW kind \in Kinds, Sends(c, id, kind), ConnInv(c)
  PROVE  /\ FrameInv(c)' /\ SlotInv(c)' /\ IdInv(c)' /\ HelloInv(c)' /\ Quiet(c)' = Quiet(c)
         /\ UNCHANGED <<serverVars, sock, loop, owed, hello, out, sem, inFlight>>
         /\ \A d \in Conns : WorkersOf(d)' = WorkersOf(d) /\ ForwardsOf(d)' = ForwardsOf(d)
<1>1. /\ UNCHANGED <<serverVars, sock, loop, owed, hello, out, sem, inFlight>>
      /\ \A d \in Conns : WorkersOf(d)' = WorkersOf(d) /\ ForwardsOf(d)' = ForwardsOf(d)
  BY DEF Sends, loopVars, workVars, WorkersOf, ForwardsOf
<1>2. Quiet(c)' = Quiet(c) /\ Busy(c)' = Busy(c)
  BY <1>1 DEF Quiet, Busy
<1>3. SlotInv(c)' /\ IdInv(c)' /\ HelloInv(c)'
  BY <1>1, <1>2 DEF ConnInv, SlotInv, IdInv, HelloInv
<1>4. /\ sent'[c] = sent[c] + 1 /\ sent[c] \in Nat /\ Len(inq[c]) \in Nat
      /\ Len(inq'[c]) = Len(inq[c]) + 1
      /\ inq'[c][Len(inq[c]) + 1] = [n |-> sent[c] + 1, id |-> id, kind |-> kind]
      /\ \A i \in 1 .. Len(inq[c]) : inq'[c][i] = inq[c][i]
  BY SendsFacts
<1>5. sent'[c] - Len(inq'[c]) = sent[c] - Len(inq[c]) /\ Len(inq[c]) <= sent[c]
  <2>1. \A a, b \in Int : (a + 1) - (b + 1) = a - b
    OBVIOUS
  <2>2. sent[c] \in Int /\ Len(inq[c]) \in Int
    BY <1>4
  <2>3. sent'[c] - Len(inq'[c]) = sent[c] - Len(inq[c])
    BY <1>4, <2>1, <2>2
  <2> QED
    BY <2>3 DEF ConnInv, FrameInv
<1>6. Len(inq'[c]) <= sent'[c]
  BY <1>4, <1>5
<1>7. \A w \in WorkersOf(c)' : w.n <= sent'[c] - Len(inq'[c])
  BY <1>1, <1>5 DEF ConnInv, FrameInv
<1>8. ASSUME NEW i \in 1 .. Len(inq'[c])
      PROVE  inq'[c][i].n = sent'[c] - Len(inq'[c]) + i
  <2>1. i \in 1 .. Len(inq[c]) \/ i = Len(inq[c]) + 1
    BY <1>4, <1>8
  <2>2. CASE i \in 1 .. Len(inq[c])
    <3>1. inq[c][i].n = sent[c] - Len(inq[c]) + i
      BY <2>2 DEF ConnInv, FrameInv
    <3> QED
      BY <1>4, <1>5, <2>2, <3>1
  <2>3. CASE i = Len(inq[c]) + 1
    <3>1. inq'[c][i].n = sent[c] + 1
      BY <1>4, <2>3
    <3>2. sent[c] - Len(inq[c]) + (Len(inq[c]) + 1) = sent[c] + 1
      BY <1>4
    <3> QED
      BY <1>5, <2>3, <3>1, <3>2
  <2> QED
    BY <2>1, <2>2, <2>3
<1>9. FrameInv(c)'
  BY <1>1, <1>6, <1>7, <1>8 DEF ConnInv, FrameInv
<1> QED
  BY <1>1, <1>2, <1>3, <1>9

LEMMA ToolSendsInv ==
  ASSUME IInv, NEW c \in Tools, ToolSends(c)
  PROVE  IInv'
<1>1. TypeOK /\ c \in Conns /\ ConnInv(c) /\ ToolInv(c) /\ ServerInv
  BY ConnectionAssumption DEF IInv, ConnInv
<1>2. PICK id \in Ids, kind \in Kinds, at \in {"greeted", "asked", "subscribing"} :
        /\ Sends(c, id, kind) /\ tool' = [tool EXCEPT ![c] = at]
        /\ \/ tool[c] = "dialled" /\ id = HelloId /\ kind = "hello" /\ at = "greeted"
           \/ tool[c] = "ready" /\ id = ToolId /\ at # "greeted"
  BY ToolKinds DEF ToolSends
<1>3. TypeOK'
  BY <1>1, ClientTypes DEF ToolStep
<1>4. /\ FrameInv(c)' /\ SlotInv(c)' /\ IdInv(c)' /\ HelloInv(c)' /\ Quiet(c)' = Quiet(c)
      /\ UNCHANGED <<serverVars, sock, loop, owed, hello, out, sem, inFlight>>
      /\ \A d \in Conns : WorkersOf(d)' = WorkersOf(d) /\ ForwardsOf(d)' = ForwardsOf(d)
  BY <1>1, <1>2, SendKeeps
<1>5. /\ sent'[c] = sent[c] + 1 /\ Len(inq[c]) \in Nat /\ Len(inq'[c]) = Len(inq[c]) + 1
      /\ inq'[c][Len(inq[c]) + 1] = [n |-> sent[c] + 1, id |-> id, kind |-> kind]
      /\ \A d \in Conns \ {c} : inq'[d] = inq[d] /\ sent'[d] = sent[d]
  BY <1>1, <1>2, SendsFacts
<1>6. tool'[c] = at /\ \A d \in Conns \ {c} : tool'[d] = tool[d]
  BY <1>1, <1>2 DEF TypeOK
<1>7. inq[c] = << >> /\ out[c] = << >> /\ Quiet(c)
  BY <1>1, <1>2 DEF ConnInv, ToolInv, HelloInv
<1>8. Len(inq'[c]) = 1 /\ inq'[c][1].id = id /\ inq'[c][1].kind = kind
  <2>1. Len(inq[c]) = 0
    BY <1>7
  <2> QED
    BY <1>5, <2>1
<1>9. \A i \in 1 .. Len(inq'[c]) : inq'[c][i].id = id /\ inq'[c][i].kind = kind
  <2>1. \A i \in 1 .. Len(inq'[c]) : i = 1
    BY <1>8
  <2> QED
    BY <1>8, <2>1
<1>10. ASSUME tool[c] = "dialled"
       PROVE  ToolInv(c)'
  <2>1. sent'[c] = 1 /\ ~hello'[c] /\ out'[c] = << >> /\ at = "greeted" /\ id = HelloId /\ kind = "hello"
    BY <1>1, <1>2, <1>4, <1>5, <1>7, <1>10 DEF ToolInv
  <2>2. Len(inq'[c]) <= 1
    BY <1>8
  <2>3. GreetedInv(c)'
    BY <1>4, <1>7, <1>9, <2>1, <2>2 DEF GreetedInv
  <2> QED
    BY <1>6, <2>1, <2>3 DEF ToolInv
<1>11. ASSUME tool[c] = "ready"
       PROVE  ToolInv(c)'
  <2>1. /\ sent'[c] = 2 /\ hello'[c] /\ out'[c] = << >> /\ id = ToolId
        /\ at \in {"asked", "subscribing"}
    BY <1>1, <1>2, <1>4, <1>5, <1>7, <1>11 DEF ToolInv
  <2>2. WorkersOf(c)' = {} /\ ForwardsOf(c)' = {} /\ owed'[c] = None
    BY <1>4, <1>7 DEF Quiet
  <2>3. AskedInv(c)'
    BY <1>4, <1>7, <1>8, <1>9, <2>1, <2>2 DEF AskedInv
  <2> QED
    BY <1>6, <2>1, <2>3 DEF ToolInv
<1>12. \A d \in Conns \ {c} : Same(d)
  BY <1>4, <1>5, <1>6 DEF Same
<1>13. ServerInv'
  BY <1>1, <1>2, <1>4, <1>6, ServerKept
<1> QED
  BY <1>1, <1>2, <1>3, <1>4, <1>10, <1>11, <1>12, <1>13, OthersSame DEF ConnInv

LEMMA ClientSendsInv ==
  ASSUME IInv, NEW c \in Conns, NEW id \in OtherIds, NEW kind \in OtherKinds, ClientSends(c, id, kind)
  PROVE  IInv'
<1>1. TypeOK /\ TypeOK' /\ ConnInv(c) /\ ServerInv
  BY ClientTypes DEF IInv
<1>2. c \notin Tools /\ Sends(c, id, kind) /\ tool' = tool /\ id \in Ids /\ kind \in Kinds
  BY ToolKinds DEF ClientSends
<1>3. /\ FrameInv(c)' /\ SlotInv(c)' /\ IdInv(c)' /\ HelloInv(c)'
      /\ UNCHANGED <<serverVars, sock, loop, owed, hello, out, sem, inFlight>>
      /\ \A d \in Conns : WorkersOf(d)' = WorkersOf(d) /\ ForwardsOf(d)' = ForwardsOf(d)
  BY <1>1, <1>2, SendKeeps
<1>4. \A d \in Conns \ {c} : inq'[d] = inq[d] /\ sent'[d] = sent[d]
  BY <1>1, <1>2, SendsFacts
<1>5. \A d \in Conns \ {c} : Same(d)
  BY <1>2, <1>3, <1>4 DEF Same
<1>6. ServerInv'
  BY <1>1, <1>2, <1>3, ServerKept
<1> QED
  BY <1>1, <1>2, <1>3, <1>5, <1>6, OthersSame DEF ConnInv

\* A client that reads or ends leaves the manager's side alone.
LEMMA ReaderKeeps ==
  ASSUME TypeOK, ServerInv, NEW c \in Conns, ConnInv(c),
         UNCHANGED <<serverVars, sock, inq, loopVars, workVars, sent>>,
         out'[c] = << >> \/ out[c] # << >>
  PROVE  /\ FrameInv(c)' /\ SlotInv(c)' /\ IdInv(c)' /\ HelloInv(c)'
         /\ Quiet(c)' = Quiet(c) /\ Pending(c)' = Pending(c)
         /\ \A d \in Conns : WorkersOf(d)' = WorkersOf(d) /\ ForwardsOf(d)' = ForwardsOf(d)
<1>1. \A d \in Conns : WorkersOf(d)' = WorkersOf(d) /\ ForwardsOf(d)' = ForwardsOf(d)
  BY DEF workVars, WorkersOf, ForwardsOf
<1>2. Quiet(c)' = Quiet(c) /\ Busy(c)' = Busy(c) /\ Pending(c)' = Pending(c)
  BY <1>1 DEF Quiet, Busy, Pending, loopVars
<1>3. FrameInv(c)' /\ SlotInv(c)' /\ IdInv(c)'
  BY <1>1, <1>2 DEF ConnInv, FrameInv, SlotInv, IdInv, workVars
<1>4. HelloInv(c)'
  BY <1>2 DEF ConnInv, HelloInv, loopVars
<1> QED
  BY <1>1, <1>2, <1>3, <1>4

\* The client of c reads a frame or ends; what it is to be ready for is shown.
LEMMA ReaderInv ==
  ASSUME IInv, NEW c \in Conns, (Takes(c) /\ out[c] # << >>) \/ \E how : Ends(c, how),
         tool' = tool \/ \E at \in {"ready", "stream", "done", "failed"} : tool' = [tool EXCEPT ![c] = at],
         UNCHANGED <<serverVars, sock, inq, loopVars, workVars, sent>>, TypeOK',
         c \in Tools => ToolInv(c)'
  PROVE  IInv'
<1>1. TypeOK /\ ConnInv(c) /\ ServerInv
  BY DEF IInv
<1>2. /\ out'[c] = << >> \/ out[c] # << >>
      /\ \A d \in Conns \ {c} : out'[d] = out[d]
  BY <1>1, ZenonT(60) DEF Takes, Ends, TypeOK
<1>3. /\ \A d \in Conns \ {c} : tool'[d] = tool[d]
      /\ tool'[c] = "idle" => tool[c] = "idle"
  BY <1>1, ZenonT(60) DEF TypeOK
<1>4. /\ FrameInv(c)' /\ SlotInv(c)' /\ IdInv(c)' /\ HelloInv(c)'
      /\ \A d \in Conns : WorkersOf(d)' = WorkersOf(d) /\ ForwardsOf(d)' = ForwardsOf(d)
  BY <1>1, <1>2, ReaderKeeps
<1>5. \A d \in Conns \ {c} : Same(d)
  BY <1>2, <1>3, <1>4 DEF Same, loopVars, workVars
<1>6. ServerInv'
  BY <1>1, <1>3, ServerKept DEF loopVars
<1> QED
  BY <1>4, <1>5, <1>6, OthersSame DEF ConnInv

\* Nothing is expected of a client that has ended.
LEMMA EndedTool ==
  ASSUME NEW c \in Conns, tool'[c] \in {"done", "failed"}
  PROVE  ToolInv(c)'
  BY DEF ToolInv

LEMMA EndsTool ==
  ASSUME TypeOK, NEW c \in Conns, NEW how \in {"done", "failed"}, Ends(c, how)
  PROVE  ToolInv(c)'
<1>1. tool'[c] = how
  BY DEF Ends, TypeOK
<1> QED
  BY <1>1, EndedTool

LEMMA ToolReadsResponseInv ==
  ASSUME IInv, NEW c \in Tools, ToolReadsResponse(c)
  PROVE  IInv'
<1>1. TypeOK /\ TypeOK' /\ c \in Conns /\ ConnInv(c) /\ ToolInv(c) /\ ServerInv
  BY ConnectionAssumption, ClientTypes DEF IInv, ConnInv, ToolStep
<1>2. /\ tool[c] \in {"greeted", "asked", "subscribing"} /\ out[c] # << >>
      /\ UNCHANGED <<serverVars, sock, inq, loopVars, workVars, sent>>
  BY DEF ToolReadsResponse
<1>3. CASE \E how \in {"done", "failed"} : Ends(c, how)
  <2>1. tool' = tool \/ \E at \in {"ready", "stream", "done", "failed"} : tool' = [tool EXCEPT ![c] = at]
    BY <1>3 DEF Ends
  <2> QED
    BY <1>1, <1>2, <1>3, <2>1, EndsTool, ReaderInv
<1>4. CASE ~\E how \in {"done", "failed"} : Ends(c, how)
  <2>1. /\ tool[c] # "asked" /\ Takes(c)
        /\ tool' = [tool EXCEPT ![c] = IF tool[c] = "greeted" THEN "ready" ELSE "stream"]
    BY <1>4 DEF ToolReadsResponse
  <2>2. tool'[c] = (IF tool[c] = "greeted" THEN "ready" ELSE "stream")
    BY <1>1, <2>1 DEF TypeOK
  <2>3. out'[c] = Tail(out[c])
    BY <1>1, <2>1 DEF Takes, TypeOK
  <2>4. Quiet(c)' = Quiet(c) /\ Pending(c)' = Pending(c)
    BY <1>1, <1>2, ReaderKeeps
  <2>5. inq'[c] = inq[c] /\ sent'[c] = sent[c] /\ hello'[c] = hello[c]
    BY <1>2 DEF loopVars
  <2>6. CASE tool[c] = "greeted"
    <3>1. GreetedInv(c)
      BY <1>1, <2>6 DEF ToolInv
    <3>2. hello[c] /\ inq[c] = << >> /\ Quiet(c) /\ sent[c] = 1 /\ out[c] = <<Response(HelloId, TRUE)>>
      BY <1>2, <3>1 DEF GreetedInv
    <3>3. out'[c] = << >>
      BY <2>3, <3>2
    <3>4. ToolInv(c)'
      BY <2>2, <2>4, <2>5, <2>6, <3>2, <3>3 DEF ToolInv
    <3> QED
      BY <1>1, <1>2, <2>1, <2>6, <3>4, ReaderInv
  <2>7. CASE tool[c] = "subscribing"
    <3>1. AskedInv(c)
      BY <1>1, <2>7 DEF ToolInv
    <3>2. ~Pending(c) /\ sent[c] = 2 /\ hello[c]
      BY <1>2, <3>1 DEF AskedInv
    <3>3. ASSUME NEW i \in 1 .. Len(out'[c])
          PROVE  out'[c][i].type = "event"
      <4>1. /\ Len(out[c]) \in Nat \ {0} /\ Len(out'[c]) = Len(out[c]) - 1
            /\ \A k \in 1 .. Len(out'[c]) : out'[c][k] = out[c][k + 1]
        BY <1>1, <1>2, <2>3, OutFacts
      <4>2. i + 1 \in 1 .. Len(out[c]) /\ i + 1 # 1 /\ out'[c][i] = out[c][i + 1]
        BY <3>3, <4>1
      <4> QED
        BY <3>1, <4>2 DEF AskedInv
    <3>4. ToolInv(c)'
      BY <2>2, <2>4, <2>5, <2>7, <3>2, <3>3 DEF ToolInv
    <3> QED
      BY <1>1, <1>2, <2>1, <2>7, <3>4, ReaderInv
  <2> QED
    BY <1>2, <2>1, <2>6, <2>7
<1> QED
  BY <1>3, <1>4

LEMMA ToolReadsEventInv ==
  ASSUME IInv, NEW c \in Tools, ToolReadsEvent(c)
  PROVE  IInv'
<1>1. TypeOK /\ TypeOK' /\ c \in Conns /\ ConnInv(c) /\ ToolInv(c) /\ ServerInv
  BY ConnectionAssumption, ClientTypes DEF IInv, ConnInv, ToolStep
<1>2. /\ tool[c] = "stream" /\ out[c] # << >>
      /\ UNCHANGED <<serverVars, sock, inq, loopVars, workVars, sent>>
  BY DEF ToolReadsEvent
<1>3. CASE \E how \in {"done", "failed"} : Ends(c, how)
  <2>1. tool' = tool \/ \E at \in {"ready", "stream", "done", "failed"} : tool' = [tool EXCEPT ![c] = at]
    BY <1>3 DEF Ends
  <2> QED
    BY <1>1, <1>2, <1>3, <2>1, EndsTool, ReaderInv
<1>4. CASE ~\E how \in {"done", "failed"} : Ends(c, how)
  <2>1. Takes(c) /\ tool' = tool
    BY <1>4 DEF ToolReadsEvent
  <2>2. out'[c] = Tail(out[c]) /\ inq'[c] = inq[c] /\ sent'[c] = sent[c] /\ hello'[c] = hello[c]
    BY <1>1, <1>2, <2>1 DEF Takes, TypeOK, loopVars
  <2>3. Pending(c)' = Pending(c)
    BY <1>1, <1>2, ReaderKeeps
  <2>4. ASSUME NEW i \in 1 .. Len(out'[c])
        PROVE  out'[c][i].type = "event"
    <3>1. /\ Len(out[c]) \in Nat \ {0} /\ Len(out'[c]) = Len(out[c]) - 1
          /\ \A k \in 1 .. Len(out'[c]) : out'[c][k] = out[c][k + 1]
      BY <1>1, <1>2, <2>2, OutFacts
    <3>2. i + 1 \in 1 .. Len(out[c]) /\ out'[c][i] = out[c][i + 1]
      BY <2>4, <3>1
    <3> QED
      BY <1>1, <1>2, <3>2 DEF ToolInv
  <2>5. ToolInv(c)'
    BY <1>1, <1>2, <2>1, <2>2, <2>3, <2>4 DEF ToolInv
  <2> QED
    BY <1>1, <1>2, <2>1, <2>5, ReaderInv
<1> QED
  BY <1>3, <1>4

LEMMA ClientEndsInv ==
  ASSUME IInv, NEW c \in Conns, (c \in Tools /\ ToolFails(c)) \/ ClientReads(c) \/ HangUp(c)
  PROVE  IInv'
<1>1. TypeOK /\ TypeOK' /\ UNCHANGED <<serverVars, sock, inq, loopVars, workVars, sent>>
  BY ClientTypes DEF IInv, ToolStep, ToolFails, ClientReads, HangUp, clientVars
<1>2. CASE \E how \in {"done", "failed"} : Ends(c, how)
  <2>1. tool' = tool \/ \E at \in {"ready", "stream", "done", "failed"} : tool' = [tool EXCEPT ![c] = at]
    BY <1>2 DEF Ends
  <2> QED
    BY <1>1, <1>2, <2>1, EndsTool, ReaderInv
<1>3. CASE ClientReads(c)
  <2>1. c \notin Tools /\ out[c] # << >> /\ Takes(c) /\ tool' = tool
    BY <1>3 DEF ClientReads, clientVars
  <2> QED
    BY <1>1, <2>1, ReaderInv
<1> QED
  BY <1>2, <1>3 DEF ToolFails, HangUp

-----------------------------------------------------------------------------
LEMMA InitEstablishes ==
  ASSUME Init
  PROVE  IInv
<1>1. TypeOK
  <2>1. << >> \in Seq(Requests) /\ << >> \in Seq(Frames)
        /\ << >> \in Seq(Conns \X (1 .. MaxFrames)) /\ Len(<< >>) = 0
    BY EmptySeq
  <2>2. /\ server \in Servers /\ accepting \in Conns \cup {None} /\ clients \subseteq Conns
        /\ toClose \subseteq Conns
    BY DEF Init, Servers
  <2>3. /\ inq \in [Conns -> Seq(Requests)] /\ out \in [Conns -> Seq(Frames)]
        /\ \A c \in Conns : inq[c] = << >> /\ out[c] = << >>
    BY <2>1 DEF Init
  <2>4. \A c \in Conns : Len(inq[c]) <= SocketSize /\ Len(out[c]) <= SocketSize
    BY <2>1, <2>3, ConnectionAssumption
  <2>5. /\ sock \in [Conns -> {"new", "backlog", "open", "shut"}] /\ peer \in [Conns -> BOOLEAN]
        /\ loop \in [Conns -> {"none", "read", "closed", "gone"}]
        /\ owed \in [Conns -> Ids \cup {None}] /\ hello \in [Conns -> BOOLEAN]
        /\ inFlight \in [Conns -> SUBSET Ids]
        /\ tool \in [Conns -> {"idle", "dialled", "greeted", "ready", "asked", "subscribing",
                               "stream", "done", "failed"}]
    BY DEF Init
  <2>6. /\ sem \in [Conns -> 0 .. MaxInFlight] /\ sent \in [Conns -> 0 .. MaxFrames]
        /\ pushed \in [Conns -> 0 .. MaxEvents]
    BY ConnectionAssumption DEF Init
  <2>7. /\ workers \subseteq Workers /\ forwards \subseteq Forwarders
        /\ mailbox \in Seq(Conns \X (1 .. MaxFrames)) /\ Len(mailbox) <= MailboxSize
    BY <2>1, ConnectionAssumption DEF Init
  <2> QED
    BY <2>2, <2>3, <2>4, <2>5, <2>6, <2>7 DEF TypeOK
<1>2. ServerInv
  <2>1. Served = {} /\ ~server.closed /\ clients = {} /\ toClose = {}
    BY DEF Init, Served
  <2>2. IsFiniteSet({}) /\ Cardinality({}) = 0
    BY FS_EmptySet
  <2>3. ClientsAccounted
    BY <2>1, <2>2, ConnectionAssumption DEF ClientsAccounted
  <2>4. \A c \in Conns : PhaseInv(c)
    BY ConnectionAssumption DEF Init, PhaseInv
  <2> QED
    BY <2>1, <2>2, <2>3, <2>4 DEF ServerInv
<1>3. ASSUME NEW c \in Conns
      PROVE  ConnInv(c)
  <2>1. WorkersOf(c) = {} /\ ForwardsOf(c) = {} /\ Busy(c) = {}
    BY DEF Init, WorkersOf, ForwardsOf, Busy
  <2>2. /\ inq[c] = << >> /\ out[c] = << >> /\ sent[c] = 0 /\ sem[c] = 0 /\ inFlight[c] = {}
        /\ owed[c] = None /\ ~hello[c] /\ tool[c] = "idle"
    BY DEF Init
  <2>3. FrameInv(c)
    BY <2>1, <2>2 DEF FrameInv
  <2>4. SlotInv(c)
    BY <2>1, <2>2, FS_EmptySet DEF SlotInv
  <2>5. IdInv(c)
    BY <2>1, <2>2 DEF IdInv
  <2>6. HelloInv(c) /\ ToolInv(c)
    BY <2>1, <2>2 DEF HelloInv, ToolInv, Quiet
  <2> QED
    BY <2>3, <2>4, <2>5, <2>6 DEF ConnInv
<1> QED
  BY <1>1, <1>2, <1>3 DEF IInv

LEMMA NextPreserves ==
  ASSUME IInv, Next
  PROVE  IInv'
<1>1. CASE AcceptStep
  BY <1>1, ServerStepInv DEF AcceptStep
<1>2. CASE CloseStep
  BY <1>2, ServerStepInv DEF CloseStep
<1>3. CASE Execute
  BY <1>3, ExecuteInv
<1>4. ASSUME NEW c \in Conns, ReadStep(c)
      PROVE  IInv'
  BY <1>4, ReadFirstInv, ReadRefusedInv, ReadRequestInv, RefuseInv, ReadFailsInv, ServerStepInv
     DEF ReadStep
<1>5. ASSUME NEW c \in Conns, Work(c)
      PROVE  IInv'
  BY <1>5, SubmitInv, WriteAnswerInv, FinishInv DEF Work, WorkersOf
<1>6. ASSUME NEW c \in Conns, Forward(c)
      PROVE  IInv'
  BY <1>6, ForwardInv DEF Forward
<1>7. CASE AcceptFails \/ Stop
  BY <1>7, ServerStepInv
<1>8. CASE \E w \in workers : Expire(w)
  BY <1>8, SubmitInv
<1>9. CASE \E g \in forwards, event \in {"next", "last"} : TakeEvent(g, event)
  BY <1>9, ForwardInv
<1>10. ASSUME NEW c \in Conns, Dial(c) \/ ToolStep(c) \/ ClientReads(c) \/ HangUp(c)
       PROVE  IInv'
  <2>1. CASE Dial(c)
    BY <2>1, DialInv
  <2>2. CASE ToolStep(c)
    BY <2>2, ToolSendsInv, ToolReadsResponseInv, ToolReadsEventInv, ClientEndsInv DEF ToolStep
  <2>3. CASE ClientReads(c) \/ HangUp(c)
    BY <2>3, ClientEndsInv
  <2> QED
    BY <1>10, <2>1, <2>2, <2>3
<1>11. CASE \E c \in Conns, id \in OtherIds, kind \in OtherKinds : ClientSends(c, id, kind)
  BY <1>11, ClientSendsInv
<1> QED
  BY <1>1, <1>2, <1>3, <1>4, <1>5, <1>6, <1>7, <1>8, <1>9, <1>10, <1>11 DEF Next, ManagerStep

LEMMA StutterPreserves ==
  ASSUME IInv, UNCHANGED vars
  PROVE  IInv'
<1>1. UNCHANGED <<serverVars, wire, loopVars, workVars, clientVars>>
  BY DEF vars
<1>2. TypeOK'
  BY <1>1 DEF IInv, TypeOK, serverVars, wire, loopVars, workVars, clientVars
<1>3. ServerInv'
  BY <1>1, ServerKept DEF IInv, wire, loopVars, clientVars
<1>4. \A d \in Conns : Same(d)
  BY <1>1 DEF Same, WorkersOf, ForwardsOf, wire, loopVars, workVars, clientVars
<1> QED
  BY <1>2, <1>3, <1>4, AllSame

\* The inductive invariant holds in every state of every behaviour.
THEOREM Invariance == Spec => []IInv
<1>1. Init => IInv
  BY InitEstablishes
<1>2. IInv /\ [Next]_vars => IInv'
  BY NextPreserves, StutterPreserves
<1> QED
  BY <1>1, <1>2, PTL DEF Spec

\* The semaphore of serveAPIClient counts the request goroutines of its
\* connection, for every limit and every mix of accepted, refused and repeated
\* requests; the model is well typed.
THEOREM SlotsAreAccounted == Spec => []SlotsAccounted
<1>1. IInv => SlotsAccounted
  BY DEF IInv, ConnInv, SlotInv, SlotsAccounted
<1> QED
  BY <1>1, Invariance, PTL

\* The requests of a connection that are not answered yet have different
\* identifiers, the ones the read loop refuses.
THEOREM AnswersAreUnambiguous == Spec => []Unambiguous
<1>1. IInv => Unambiguous
  BY DEF IInv, ConnInv, IdInv, Busy, Unambiguous
<1> QED
  BY <1>1, Invariance, PTL

\* While the server is open server.clients is what it serves, and never more
\* than apiMaxClients; once it is closed every open socket is about to be
\* closed, whatever order Accept, addClient, removeClient and Close take.
THEOREM ClientsAreAccounted == Spec => []ClientsAccounted
<1>1. IInv => ClientsAccounted
  BY DEF IInv, ServerInv
<1> QED
  BY <1>1, Invariance, PTL

\* The next frame a tool finds is the answer it awaits, and a stream holds
\* events only, although readAPIClientResponse compares no identifiers.
THEOREM RepliesMatch == Spec => []ReplyMatches
<1>1. ASSUME IInv
      PROVE  ReplyMatches
  <2> SUFFICES ASSUME NEW c \in Tools, out[c] # << >>
               PROVE  LET f == Head(out[c]) IN
                      /\ tool[c] # "ready"
                      /\ tool[c] \in {"greeted", "asked", "subscribing"} =>
                           /\ f.type = "response"
                           /\ f.id = (IF tool[c] = "greeted" THEN HelloId ELSE ToolId)
                      /\ tool[c] = "stream" => f.type = "event"
    BY DEF ReplyMatches
  <2>1. c \in Conns /\ ToolInv(c) /\ TypeOK
    BY <1>1, ConnectionAssumption DEF IInv, ConnInv
  <2>2. Head(out[c]) = out[c][1] /\ 1 \in 1 .. Len(out[c])
    BY <2>1, OutFacts
  <2>3. tool[c] # "ready"
    BY <2>1 DEF ToolInv
  <2>4. ASSUME tool[c] = "greeted"
        PROVE  out[c][1].type = "response" /\ out[c][1].id = HelloId
    <3>1. out[c] = <<Response(HelloId, TRUE)>>
      BY <2>1, <2>4 DEF ToolInv, GreetedInv
    <3> QED
      BY <3>1 DEF Response
  <2>5. ASSUME tool[c] \in {"asked", "subscribing"}
        PROVE  out[c][1].type = "response" /\ out[c][1].id = ToolId
    BY <2>1, <2>2, <2>5 DEF ToolInv, AskedInv
  <2>6. ASSUME tool[c] = "stream"
        PROVE  out[c][1].type = "event"
    BY <2>1, <2>2, <2>6 DEF ToolInv
  <2> QED
    BY <2>2, <2>3, <2>4, <2>5, <2>6
<1>2. IInv => ReplyMatches
  BY <1>1
<1> QED
  BY <1>2, Invariance, PTL
=============================================================================
