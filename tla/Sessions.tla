------------------------------ MODULE Sessions ------------------------------
(***************************************************************************)
(* Identification and probe sessions: starting one on a discovered         *)
(* keyboard, the goroutine that waits for a key, the command that ends the *)
(* session, cancellation, and the table of operations that clients poll    *)
(* (identify.go, inputscan.go), with the discovery and the roles of        *)
(* devices they rest on (devices.go).                                      *)
(*                                                                         *)
(* The owner executes one command of the mailbox at a time.  A start reads *)
(* the devices several times; keyboards come and go between the reads.  A  *)
(* device's platform identity is that of its node, which a keyboard        *)
(* plugged in later may take over.  Supervision is reduced to the nodes    *)
(* that have a child, and a mutation to one step of the owner and the one  *)
(* operation it leaves in the table, without its commands in the mailbox:  *)
(* Supervisor and Idempotency have the details.                            *)
(***************************************************************************)
EXTENDS Naturals, Sequences, FiniteSets

CONSTANTS
  Boards,       \* keyboards, physical or virtual
  Nodes,        \* device nodes
  Identity,     \* [Boards -> Ids]: the identity of a board
  Topology,     \* [Boards -> Ids]: the identity of the place it is connected to
  Ids,          \* public device identifiers
  Asked,        \* those for which clients start sessions
  Virtual,      \* boards that are virtual devices
  Named,        \* boards whose name is the output of a managed configuration
  Configured,   \* nodes that a usable configuration names
  Movable,      \* boards that are plugged and unplugged
  Plugged,      \* [Boards -> Nodes \cup {None}]: the boards present at first
  None,
  MailboxSize,  \* managerCommandQueueSize
  MaxOps,       \* maxRetainedOperations
  MaxRecords,   \* maxIdempotencyRecords
  MaxSessions,  \* bound: sessions started
  MaxMutations, \* bound: mutations
  MaxHotplugs   \* bound: boards plugged or unplugged

ASSUME SessionsAssumption ==
  /\ Identity \in [Boards -> Ids] /\ Topology \in [Boards -> Ids]
  /\ \A a, b \in Boards : a # b => Topology[a] # Topology[b] /\ Topology[a] # Identity[b]
  /\ Asked \subseteq Ids
  /\ Virtual \subseteq Boards /\ Named \subseteq Boards /\ Configured \subseteq Nodes
  /\ Movable \subseteq Boards
  /\ Plugged \in [Boards -> Nodes \cup {None}]
  /\ \A a, b \in Boards : a # b /\ Plugged[a] = Plugged[b] => Plugged[a] = None
  /\ None \notin Boards \cup Nodes
  /\ {MailboxSize, MaxOps, MaxRecords} \subseteq Nat \ {0}
  /\ {MaxSessions, MaxMutations, MaxHotplugs} \subseteq Nat

VARIABLES
  life,      \* the manager: "up" or "down"
  node,      \* where each board is
  role,      \* m.devices: the role recorded for each identifier
  mailbox,   \* m.commands
  starting,  \* the start in the owner's hands
  session,   \* m.identification and m.probe
  ops,       \* m.operations, each with its place in the order of UpdatedAt
  nextOp,    \* the next operation identifier
  waiters,   \* goroutines of sessions
  running,   \* nodes with a child
  why,       \* history: what has happened to each session
  hotplugs   \* bounded counter

vars == <<life, node, role, mailbox, starting, session, ops, nextOp, waiters,
          running, why, hotplugs>>

Kinds == {"identify", "probe"}
OpIds == 1 .. MaxSessions + MaxMutations
Results == {"key", "timeout", "cancel", "error"}
Final == {"succeeded", "timed_out", "cancelled", "disconnected", "failed"}
Commands == [do: {"start"}, kind: Kinds, id: Ids]
            \cup [do: {"cancel"}, op: OpIds]
            \cup [do: {"finish"}, kind: Kinds, op: OpIds, result: Results]

ASSUME NoneAssumption == None \notin [op: OpIds, node: Nodes]

\* What happens to a session: its results, "lost" when the finish finds the
\* mailbox full, "wrong" when it reads another board than was asked for.
Happenings == Results \cup {"lost", "wrong", "mutation"}

TypeOK ==
  /\ life \in {"up", "down"}
  /\ node \in [Boards -> Nodes \cup {None}]
  /\ role \in [Ids -> {"unknown", "input", "output"}]
  /\ mailbox \in Seq(Commands) /\ Len(mailbox) <= MailboxSize
  /\ starting \in [kind: Kinds, id: Ids, want: Boards \cup {None}, moved: BOOLEAN,
                   node: Nodes \cup {None}] \cup {None}
  /\ session \in [Kinds -> [op: OpIds, node: Nodes] \cup {None}]
  /\ ops \subseteq [id: OpIds, kind: Kinds \cup {"keyed"}, state: Final \cup {"waiting"},
                     at: Nat]
  /\ nextOp \in 1 .. MaxSessions + MaxMutations + 1
  /\ waiters \subseteq [op: OpIds, kind: Kinds, board: Boards \cup {None},
                        result: Results \cup {None}]
  /\ running \subseteq Nodes
  /\ why \in [OpIds -> SUBSET Happenings]
  /\ hotplugs \in 0 .. MaxHotplugs

-----------------------------------------------------------------------------
(* Discovery and roles.                                                    *)

Present == {b \in Boards : node[b] # None}
Occupied(n) == \E b \in Present : node[b] = n

\* Equal identities that are present together fall back to where they are.
PublicId(b) ==
  IF \E a \in Present : a # b /\ Identity[a] = Identity[b] THEN Topology[b] ELSE Identity[b]

BoardsOf(id) == {b \in Present : PublicId(b) = id}

\* A virtual device is an output if it was one before or has the name of one;
\* a physical one never is.
ClassifyDeviceRole(b, previous) ==
  IF b \in Virtual /\ (previous = "output" \/ b \in Named) THEN "output" ELSE "input"

\* A record of a device that is not there is judged by its name alone.
RetainedRole(id, previous) ==
  IF previous = "input" /\ \E b \in Named : id \in {Identity[b], Topology[b]}
  THEN "output" ELSE previous

RefreshDevices(known) ==
  [id \in Ids |->
     IF BoardsOf(id) # {} THEN ClassifyDeviceRole(CHOOSE b \in BoardsOf(id) : TRUE, known[id])
     ELSE RetainedRole(id, known[id])]

-----------------------------------------------------------------------------
(* The table of operations.                                                *)

Records(table) == {o \in table : o.kind = "keyed"}
Current(sess) == {sess[k].op : k \in {k \in Kinds : sess[k] # None}}

\* Only the order of the times matters: the oldest operation has place 1.
Ranked(table) == {[o EXCEPT !.at = Cardinality({p \in table : p.at <= @})] : o \in table}

\* An operation of the table is replaced, or a new one is added, at a later time.
Updated(table, id, kind, state) ==
  {o \in table : o.id # id}
    \cup {[id |-> id, kind |-> kind, state |-> state, at |-> Cardinality(table) + 1]}

\* Of these operations, the oldest, as many as the table has too many.
Excess(table, free) ==
  {o \in free : Cardinality({p \in free : p.at < o.at}) + MaxOps < Cardinality(table)}

PruneOperations_Any(table, sess) ==  \* mutation: the operation of a session may go
  Ranked(table \ Excess(table, table \ Records(table)))

PruneOperations_Newest(table, sess) ==  \* mutation: sorted the wrong way
  LET free == {o \in table \ Records(table) : o.id \notin Current(sess)}
      drop == {o \in free :
                 Cardinality({p \in free : p.at > o.at}) + MaxOps < Cardinality(table)}
  IN Ranked(table \ drop)

\* The oldest operations go that neither a session nor the journal needs.
PruneOperations(table, sess) ==
  Ranked(table \ Excess(table, {o \in table \ Records(table) : o.id \notin Current(sess)}))

\* A mutation's operation as admission and completion leave it: the oldest
\* finished record gives way when the journal is full.
Journaled(table, id) ==
  LET oldest == CHOOSE o \in Records(table) : \A p \in Records(table) : o.at <= p.at
      evicted == IF Cardinality(Records(table)) >= MaxRecords THEN {oldest} ELSE {}
  IN Updated(table, id, "keyed", "succeeded") \ evicted

-----------------------------------------------------------------------------
Init ==
  /\ life = "up"
  /\ node = Plugged
  /\ role = RefreshDevices([id \in Ids |-> "unknown"])
  /\ mailbox = <<>> /\ starting = None
  /\ session = [k \in Kinds |-> None]
  /\ ops = {} /\ nextOp = 1
  /\ waiters = {}
  /\ running = {n \in Configured : Occupied(n)}
  /\ why = [o \in OpIds |-> {}]
  /\ hotplugs = 0

Mutations == {i \in 1 .. nextOp - 1 : "mutation" \in why[i]}
SessionsLeft == nextOp - Cardinality(Mutations) <= MaxSessions

(* Clients put commands into the mailbox when it has room, and goroutines   *)
(* of sessions likewise.                                                   *)

Submit(c) ==
  /\ life = "up" /\ Len(mailbox) < MailboxSize
  /\ mailbox' = Append(mailbox, c)

ClientCommands ==
  [do: {"start"}, kind: Kinds, id: Asked]
  \cup [do: {"cancel"}, op: (1 .. nextOp - 1) \ Mutations]

ClientSubmits ==
  /\ \E c \in ClientCommands : Submit(c)
  /\ UNCHANGED <<life, node, role, starting, session, ops, nextOp, waiters,
                 running, why, hotplugs>>

-----------------------------------------------------------------------------
(* Supervision: what the passes do to the children, by node.               *)

Held(sess) == {sess[k].node : k \in {k \in Kinds : sess[k] # None}}
Reconciled(sess) == {n \in Configured : Occupied(n)} \ Held(sess)

\* A pass of the poll ticker.
Pass ==
  /\ life = "up" /\ starting = None
  /\ role' = RefreshDevices(role)
  /\ running' = Reconciled(session)
  /\ UNCHANGED <<life, node, mailbox, starting, session, ops, nextOp, waiters, why,
                 hotplugs>>

-----------------------------------------------------------------------------
(* The owner.                                                              *)

\* The command at the head of the mailbox, whose client may have given up.
Takes(what) ==
  /\ life = "up" /\ starting = None
  /\ mailbox # <<>> /\ Head(mailbox).do = what
  /\ mailbox' = Tail(mailbox)

Expired ==
  /\ \E what \in {"start", "cancel"} : Takes(what)
  /\ UNCHANGED <<life, node, role, starting, session, ops, nextOp, waiters,
                 running, why, hotplugs>>

\* startIdentification, startProbe: one session of a kind at a time, none on an
\* output of the manager.
BeginStart ==
  /\ Takes("start")
  /\ LET c == Head(mailbox) IN
     IF session[c.kind] # None THEN UNCHANGED <<role, starting>>
     ELSE /\ role' = RefreshDevices(role)
          /\ starting' = IF role'[c.id] = "output" THEN None
                         ELSE [kind |-> c.kind, id |-> c.id, node |-> None, moved |-> FALSE,
                               want |-> IF BoardsOf(c.id) = {} THEN None
                                        ELSE CHOOSE b \in BoardsOf(c.id) : TRUE]
  /\ UNCHANGED <<life, node, session, ops, nextOp, waiters, running, why, hotplugs>>

\* Discovery finds the identifier's node, ...
Locate ==
  /\ starting # None /\ starting.node = None
  /\ \E b \in BoardsOf(starting.id) : starting' = [starting EXCEPT !.node = node[b]]
  /\ UNCHANGED <<life, node, role, mailbox, session, ops, nextOp, waiters, running,
                 why, hotplugs>>

\* ... or the start fails: no such device, not accessible, gone by now.
StartFails ==
  /\ starting # None
  /\ starting' = None
  /\ UNCHANGED <<life, node, role, mailbox, session, ops, nextOp, waiters, running,
                 why, hotplugs>>

\* The node is opened, whichever board is there now; the operation is recorded,
\* the device's configurations are stopped and the goroutine starts waiting.
OpenDevice ==
  /\ starting # None /\ starting.node # None /\ SessionsLeft
  /\ \E b \in Present :
       /\ node[b] = starting.node
       /\ session' = [session EXCEPT ![starting.kind] =
                        [op |-> nextOp, node |-> starting.node]]
       /\ ops' = Updated(ops, nextOp, starting.kind, "waiting")
       /\ waiters' = waiters \cup {[op |-> nextOp, kind |-> starting.kind, board |-> b,
                                    result |-> None]}
       /\ why' = [why EXCEPT ![nextOp] =
                    IF starting.moved \/ (b = starting.want /\ b \notin Virtual \cap Named)
                    THEN {} ELSE {"wrong"}]
  /\ nextOp' = nextOp + 1
  /\ running' = running \ {starting.node}
  /\ starting' = None
  /\ UNCHANGED <<life, node, role, mailbox, hotplugs>>

Outcome(k, result) ==
  CASE result = "key"     -> "succeeded"
    [] result = "timeout" -> "timed_out"
    [] result = "cancel"  -> "cancelled"
    [] result = "error"   -> IF Occupied(session[k].node) THEN "failed" ELSE "disconnected"

\* finishIdentification, finishProbe for the session that is current.
FinishSession(k, result) ==
  LET op == session[k].op
      sess == [session EXCEPT ![k] = None]
  IN /\ session' = sess
     /\ ops' = PruneOperations(Updated(ops, op, k, Outcome(k, result)), sess)
     /\ role' = RefreshDevices(role)
     /\ running' = Reconciled(sess)

Finish_AnySession ==  \* mutation: a finish ends whatever session is current
  /\ Takes("finish")
  /\ LET c == Head(mailbox) IN
     IF session[c.kind] # None
       THEN FinishSession(c.kind, c.result)
       ELSE UNCHANGED <<role, session, ops, running>>
  /\ UNCHANGED <<life, node, starting, nextOp, waiters, why, hotplugs>>

\* The finish of a session that is not current any more is ignored.
Finish ==
  /\ Takes("finish")
  /\ LET c == Head(mailbox) IN
     IF session[c.kind] # None /\ session[c.kind].op = c.op
       THEN FinishSession(c.kind, c.result)
       ELSE UNCHANGED <<role, session, ops, running>>
  /\ UNCHANGED <<life, node, starting, nextOp, waiters, why, hotplugs>>

\* cancelIdentificationOperation, cancelProbeOperation: only a current session
\* can be cancelled.
Cancel ==
  /\ Takes("cancel")
  /\ LET op == Head(mailbox).op IN
     IF op \in Current(session)
       THEN /\ \E k \in Kinds : session[k] # None /\ session[k].op = op
                                /\ FinishSession(k, "cancel")
            /\ why' = [why EXCEPT ![op] = @ \cup {"cancel"}]
       ELSE UNCHANGED <<role, session, ops, running, why>>
  /\ UNCHANGED <<life, node, starting, nextOp, waiters, hotplugs>>

\* A mutation is admitted and completed; Idempotency has its commands.
Mutation ==
  /\ life = "up" /\ starting = None
  /\ Cardinality(Mutations) < MaxMutations
  /\ ops' = PruneOperations(Journaled(ops, nextOp), session)
  /\ nextOp' = nextOp + 1
  /\ why' = [why EXCEPT ![nextOp] = {"mutation"}]
  /\ UNCHANGED <<life, node, role, mailbox, starting, session, waiters, running, hotplugs>>

-----------------------------------------------------------------------------
(* The goroutine of a session: WaitForKeypress returns, then the finish is *)
(* posted or lost.                                                         *)

Return(w, result) ==
  /\ w.result = None
  /\ waiters' = (waiters \ {w}) \cup {[w EXCEPT !.result = result]}
  /\ UNCHANGED <<life, node, role, mailbox, starting, session, ops, nextOp, running,
                 hotplugs>>

\* A child of KMonad on the board would have grabbed it.  An observer whose
\* board is gone cannot read it.
Observes(w) ==
  \E result \in {"key", "timeout", "error"} :
    /\ result = "key" => w.board # None /\ node[w.board] \notin running
    /\ result = "error" => w.board = None
    /\ Return(w, result)
    /\ why' = [why EXCEPT ![w.op] = @ \cup {result}]

ContextDone(w) ==
  /\ w.op \notin Current(session)
  /\ Return(w, "cancel")
  /\ UNCHANGED why

PostFinish_SilentTimeout(w) ==  \* mutation: returns when its deadline has passed
  /\ w.result # None
  /\ waiters' = waiters \ {w}
  /\ LET finish == [do |-> "finish", kind |-> w.kind, op |-> w.op, result |-> w.result] IN
     IF w.result = "timeout" THEN UNCHANGED <<mailbox, why>>
     ELSE IF Len(mailbox) < MailboxSize
       THEN Submit(finish) /\ UNCHANGED why
       ELSE /\ why' = [why EXCEPT ![w.op] = @ \cup {"lost"}]
            /\ UNCHANGED mailbox
  /\ UNCHANGED <<life, node, role, starting, session, ops, nextOp, running, hotplugs>>

\* waitForIdentification, waitForProbe: the answer of submitCommand is ignored.
PostFinish(w) ==
  /\ w.result # None
  /\ waiters' = waiters \ {w}
  /\ LET finish == [do |-> "finish", kind |-> w.kind, op |-> w.op, result |-> w.result] IN
     IF Len(mailbox) < MailboxSize
       THEN Submit(finish) /\ UNCHANGED why
       ELSE /\ why' = [why EXCEPT ![w.op] = @ \cup {"lost"}]
            /\ UNCHANGED mailbox
  /\ UNCHANGED <<life, node, role, starting, session, ops, nextOp, running, hotplugs>>

-----------------------------------------------------------------------------
(* Keyboards come and go; the manager stops.                               *)

Moved == starting' = IF starting = None THEN None ELSE [starting EXCEPT !.moved = TRUE]

Plug(b, n) ==
  /\ hotplugs < MaxHotplugs
  /\ node[b] = None /\ ~Occupied(n)
  /\ node' = [node EXCEPT ![b] = n]
  /\ hotplugs' = hotplugs + 1
  /\ Moved
  /\ UNCHANGED <<life, role, mailbox, session, ops, nextOp, waiters, running, why>>

\* The child of the node exits and open descriptors become useless.
Unplug(b) ==
  /\ hotplugs < MaxHotplugs
  /\ node[b] # None
  /\ node' = [node EXCEPT ![b] = None]
  /\ running' = running \ {node[b]}
  /\ waiters' = {IF w.board = b THEN [w EXCEPT !.board = None] ELSE w : w \in waiters}
  /\ hotplugs' = hotplugs + 1
  /\ Moved
  /\ UNCHANGED <<life, role, mailbox, session, ops, nextOp, why>>

\* The manager's context ends: cancelIdentification, cancelProbe, the end of all
\* children, and then of the process, its memory and its goroutines.
Stop ==
  /\ life = "up" /\ starting = None
  /\ life' = "down"
  /\ session' = [k \in Kinds |-> None]
  /\ running' = {} /\ mailbox' = <<>> /\ ops' = {} /\ waiters' = {} /\ nextOp' = 1
  /\ why' = [o \in OpIds |-> {}]
  /\ UNCHANGED <<node, role, starting, hotplugs>>

Owner == \/ Expired \/ BeginStart \/ Locate \/ StartFails \/ OpenDevice
         \/ Finish \/ Cancel
Waiter(o) == \E w \in {w \in waiters : w.op = o} :
               Observes(w) \/ ContextDone(w) \/ PostFinish(w)

Next ==
  \/ Owner \/ Mutation \/ Pass
  \/ ClientSubmits
  \/ \E o \in OpIds : Waiter(o)
  \/ \E b \in Movable : Unplug(b) \/ \E n \in Nodes : Plug(b, n)
  \/ Stop

Spec == Init /\ [][Next]_vars

\* The owner's loop always turns, and observers return at their deadlines.
FairSpec == Spec /\ WF_vars(Owner) /\ WF_vars(\E o \in OpIds : Waiter(o))

-----------------------------------------------------------------------------
(* Properties.                                                             *)

\* While the manager serves, the operations that clients see waiting are those
\* of the current sessions, whatever was cancelled, replaced or pruned, and no
\* child grabs a board that a session reads (pruneOperations,
\* pauseDeviceConfigurations, reconcile).
WaitingIsCurrent ==
  /\ TypeOK
  /\ life # "down" =>
       {o.id : o \in {o \in ops : o.state = "waiting"}} = Current(session)
  /\ running \cap Held(session) = {}

\* What a finished operation reports is what happened to its own session, also
\* when the finish of a cancelled session arrives while a newer one is
\* waiting (finishIdentification, finishProbe compare the session); and the
\* board read was the one the client named, an input, unless boards came or
\* went during the start (startIdentification, inputDeviceTarget).
OutcomeTrue ==
  \A o \in ops :
    o.kind # "keyed" =>
      /\ "wrong" \notin why[o.id]
      /\ o.state = "succeeded" => "key" \in why[o.id]
      /\ o.state = "timed_out" => "timeout" \in why[o.id]
      /\ o.state = "cancelled" => "cancel" \in why[o.id]
      /\ o.state \in {"disconnected", "failed"} => "error" \in why[o.id]

\* The operation of a session that ends stays for the client that polls it,
\* unless the journal's operations and the other session's fill the table
\* (pruneOperations drops the oldest, but nothing that those two need).
OutcomeKept ==
  [][\A o \in Current(session) \ Current(session') :
       life' # "down" =>
         \/ \E p \in ops' : p.id = o
         \/ Cardinality(Records(ops')) + Cardinality(Current(session')) >= MaxOps]_vars

\* The table as its clients see it (identificationOperation): an operation that
\* was issued and is not in it any more is gone.
AnswerIn(table, next, id) ==
  IF \E o \in table : o.id = id THEN (CHOOSE o \in table : o.id = id).state
  ELSE IF id < next THEN "gone" ELSE "unknown"

Answers == [id \in OpIds |-> AnswerIn(ops, nextOp, id)]

\* The table implements what clients are promised of operations: outcomes are
\* final, nothing that waits is forgotten, a kind has one session at a time
\* (startIdentification, finishIdentification, pruneOperations).
Promise == INSTANCE Operations WITH
  Issued   <- OpIds,
  Outcomes <- Final,
  AtOnce   <- Cardinality(Kinds),
  answer   <- Answers

OperationsSpec == Promise!Spec

\* Every session ends by its deadline and gives its device back, unless its
\* finish met a full mailbox (waitForIdentification and waitForProbe ignore the
\* answer of submitCommand).
SessionEnds ==
  \A o \in OpIds : o \in Current(session) ~> o \notin Current(session) \/ "lost" \in why[o]
=============================================================================
