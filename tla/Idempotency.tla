----------------------------- MODULE Idempotency -----------------------------
(***************************************************************************)
(* Durable, at-most-once execution of API mutations: the owner's command   *)
(* mailbox (internal/manager/commands.go) and the idempotency journal      *)
(* (internal/manager/idempotency.go).                                      *)
(*                                                                         *)
(* A request goroutine submits three commands to the owner, one after the  *)
(* other: admit the key, perform the mutation, complete the record.  The   *)
(* first one runs under the request's context, which ends with its         *)
(* deadline or its connection; the others under the manager's.  Writing    *)
(* the journal may fail before or after the new file is in place.  The     *)
(* manager may stop at any time and load its journal again.                *)
(*                                                                         *)
(* The mutation itself (apply, adopt, set_enabled, delete) is one command  *)
(* that succeeds or fails; its parts are the subject of other modules.     *)
(***************************************************************************)
EXTENDS Naturals, Sequences, FiniteSets

CONSTANTS
  Requests,      \* request goroutines; each serves one request
  Keys,          \* idempotency keys (their hashes)
  Fingerprints,  \* hashes of method and canonical parameters
  QueueSize,     \* managerCommandQueueSize
  MaxRecords,    \* maxIdempotencyRecords
  MaxFaults,     \* bound: journal writes that fail
  MaxCrashes     \* bound: stops of the manager

ASSUME JournalAssumption ==
  /\ QueueSize \in Nat \ {0}
  /\ MaxRecords \in Nat \ {0}
  /\ MaxFaults \in Nat
  /\ MaxCrashes \in Nat

VARIABLES
  up,        \* the manager is running
  available, \* m.idempotencyPath is set: the journal could be loaded
  queue,     \* m.commands: the request whose command is queued
  memory,    \* m.idempotencyRecords
  journal,   \* the file at idempotencyPath
  clock,     \* stamps and operation ids handed out
  req,       \* the request goroutines
  ran,       \* history: executions of each key since it was last forgotten
  answers,   \* history: final results sent to clients
  faults, crashes

vars == <<up, available, queue, memory, journal, clock, req, ran, answers, faults, crashes>>

\* A record: status pending or finished; outcome of the operation.
NoRecord == [status |-> "none", fp |-> "none", op |-> 0, outcome |-> "none", stamp |-> 0]

Recorded(k, records) == records[k].status # "none"

Idle == [at |-> "new", key |-> "none", fp |-> "none", op |-> 0,
         expired |-> FALSE, reply |-> "none", result |-> "none"]

\* What a reply to the admit command may be.
Refusals == {"conflict", "exhausted", "unavailable"}
Outcomes == {"ok", "error", "uncertain"}

Records == [status: {"none", "pending", "finished"}, fp: Fingerprints \cup {"none"},
            op: Nat, outcome: Outcomes \cup {"none"}, stamp: Nat]

RequestState ==
  [at: {"new", "admitting", "admitted", "mutating", "mutated", "completing", "done"},
   key: Keys \cup {"none"}, fp: Fingerprints \cup {"none"}, op: Nat,
   expired: BOOLEAN,
   reply: {"none", "admitted", "running"} \cup Refusals \cup Outcomes,
   result: {"none", "ok", "error"}]

\* Shape of the state; the mailbox and the journal stay within their limits.
TypeOK ==
  /\ up \in BOOLEAN
  /\ available \in BOOLEAN
  /\ queue \in Seq(Requests) /\ Len(queue) <= QueueSize
  /\ memory \in [Keys -> Records]
  /\ journal \in [Keys -> Records]
  /\ Cardinality({k \in Keys : Recorded(k, memory)}) <= MaxRecords
  /\ Cardinality({k \in Keys : Recorded(k, journal)}) <= MaxRecords
  /\ clock \in Nat
  /\ req \in [Requests -> RequestState]
  /\ ran \in [Keys -> Nat]
  /\ answers \subseteq [key: Keys, op: Nat, outcome: Outcomes]
  /\ faults \in 0 .. MaxFaults
  /\ crashes \in 0 .. MaxCrashes

Init ==
  /\ up = TRUE
  /\ available = TRUE
  /\ queue = << >>
  /\ memory = [k \in Keys |-> NoRecord]
  /\ journal = memory
  /\ clock = 0
  /\ req = [r \in Requests |-> Idle]
  /\ ran = [k \in Keys |-> 0]
  /\ answers = {}
  /\ faults = 0
  /\ crashes = 0

-----------------------------------------------------------------------------
(* submitCommand: a full mailbox answers resource_exhausted at once.       *)
MailboxFull == Len(queue) >= QueueSize

Enqueue(r, at) ==
  /\ queue' = Append(queue, r)
  /\ req' = [req EXCEPT ![r].at = at]

\* runIdempotentMutation begins.
Submit(r, k, f) ==
  /\ up
  /\ req[r].at = "new"
  /\ IF MailboxFull
     THEN /\ req' = [req EXCEPT ![r].at = "done"]
          /\ UNCHANGED queue
     ELSE /\ queue' = Append(queue, r)
          /\ req' = [req EXCEPT ![r].at = "admitting", ![r].key = k, ![r].fp = f]
  /\ UNCHANGED <<up, available, memory, journal, clock, ran, answers, faults, crashes>>

\* The request's deadline passes or its client disconnects.
Expire(r) ==
  /\ req[r].at = "admitting"
  /\ ~req[r].expired
  /\ req' = [req EXCEPT ![r].expired = TRUE]
  /\ UNCHANGED <<up, available, queue, memory, journal, clock, ran, answers, faults, crashes>>

\* The select takes the expired context, whether or not a reply is there.
GiveUp(r) ==
  /\ req[r].at = "admitting"
  /\ req[r].expired
  /\ req' = [req EXCEPT ![r].at = "done"]
  /\ UNCHANGED <<up, available, queue, memory, journal, clock, ran, answers, faults, crashes>>

Answer(r, op, outcome) ==
  answers' = answers \cup {[key |-> req[r].key, op |-> op, outcome |-> outcome]}

\* The goroutine reads the owner's reply to its admit command.
TakeReply(r) ==
  /\ req[r].at = "admitting"
  /\ req[r].reply # "none"
  /\ req' = [req EXCEPT ![r].at = IF req[r].reply = "admitted" THEN "admitted" ELSE "done"]
  /\ IF req[r].reply \in Outcomes THEN Answer(r, req[r].op, req[r].reply)
                                  ELSE UNCHANGED answers
  /\ UNCHANGED <<up, available, queue, memory, journal, clock, ran, faults, crashes>>

\* execute: the mutation's command, or its immediate failure.
SubmitMutation(r) ==
  /\ req[r].at = "admitted"
  /\ IF MailboxFull
     THEN /\ req' = [req EXCEPT ![r].at = "mutated", ![r].result = "error"]
          /\ UNCHANGED queue
     ELSE Enqueue(r, "mutating")
  /\ UNCHANGED <<up, available, memory, journal, clock, ran, answers, faults, crashes>>

\* The completion command; a full mailbox loses it.
SubmitCompletion(r) ==
  /\ req[r].at = "mutated"
  /\ IF MailboxFull
     THEN /\ req' = [req EXCEPT ![r].at = "done"]
          /\ UNCHANGED queue
     ELSE Enqueue(r, "completing")
  /\ UNCHANGED <<up, available, memory, journal, clock, ran, answers, faults, crashes>>

-----------------------------------------------------------------------------
(* The owner executes one command.                                         *)

Dequeue(r) == up /\ queue # << >> /\ r = Head(queue) /\ queue' = Tail(queue)

\* writeAtomicFile: written, failed before, or failed after the rename.
Persist(records, written) ==
  \/ written /\ journal' = records /\ UNCHANGED faults
  \/ /\ ~written
     /\ faults < MaxFaults
     /\ faults' = faults + 1
     /\ journal' \in {journal, records}

\* executeCommand skips a command whose context has ended.
SkipExpired(r) ==
  /\ Dequeue(r)
  /\ req[r].at \in {"admitting", "done"}
  /\ req[r].expired
  /\ UNCHANGED <<up, available, memory, journal, clock, req, ran, answers, faults, crashes>>

\* Without its journal the manager admits no keyed mutation.
AdmitUnavailable(r) ==
  /\ Dequeue(r)
  /\ ~req[r].expired /\ req[r].at = "admitting"
  /\ ~available
  /\ req' = [req EXCEPT ![r].reply = "unavailable"]
  /\ UNCHANGED <<up, available, memory, journal, clock, ran, answers, faults, crashes>>

Admitting(r) ==
  Dequeue(r) /\ available /\ ~req[r].expired /\ req[r].at = "admitting"

\* The key is known: conflict, or the record is replayed.
AdmitKnown(r) ==
  LET rec == memory[req[r].key] IN
  /\ Admitting(r)
  /\ Recorded(req[r].key, memory)
  /\ req' = [req EXCEPT
       ![r].op = rec.op,
       ![r].reply = IF rec.fp # req[r].fp THEN "conflict"
                    ELSE IF rec.status = "pending" THEN "running" ELSE rec.outcome]
  /\ UNCHANGED <<up, available, memory, journal, clock, ran, answers, faults, crashes>>

JournalFull == Cardinality({k \in Keys : Recorded(k, memory)}) >= MaxRecords

Evictable_Any ==  \* mutation: evicts the oldest record, finished or not
  {k \in Keys : Recorded(k, memory) /\
     \A j \in Keys : Recorded(j, memory) => memory[k].stamp <= memory[j].stamp}

\* The oldest finished record, if any.
Evictable ==
  LET finished == {k \in Keys : memory[k].status = "finished"}
  IN  {k \in finished : \A j \in finished : memory[k].stamp <= memory[j].stamp}

AdmitRefused(r) ==
  /\ Admitting(r)
  /\ ~Recorded(req[r].key, memory)
  /\ JournalFull
  /\ Evictable = {}
  /\ req' = [req EXCEPT ![r].reply = "exhausted"]
  /\ UNCHANGED <<up, available, memory, journal, clock, ran, answers, faults, crashes>>

\* A new record replaces the evicted one; memory follows the journal.
AdmitNew(r) ==
  /\ Admitting(r)
  /\ ~Recorded(req[r].key, memory)
  /\ JournalFull => Evictable # {}
  /\ clock' = clock + 1
  /\ LET k == req[r].key
         rec == [status |-> "pending", fp |-> req[r].fp, op |-> clock',
                 outcome |-> "none", stamp |-> clock']
         kept == IF JournalFull
                 THEN {[memory EXCEPT ![e] = NoRecord] : e \in Evictable} ELSE {memory}
     IN  \E records \in kept, written \in BOOLEAN :
           LET updated == [records EXCEPT ![k] = rec] IN
           /\ Persist(updated, written)
           /\ memory' = IF written THEN updated ELSE memory
           /\ ran' = [j \in Keys |-> IF Recorded(j, memory') \/ Recorded(j, journal')
                                     THEN ran[j] ELSE 0]
           /\ req' = [req EXCEPT ![r].op = clock',
                                 ![r].reply = IF written THEN "admitted" ELSE "unavailable"]
  /\ UNCHANGED <<up, available, answers, crashes>>

\* The mutation runs; a failure may come before or after its effects.
Mutate(r, result, effect) ==
  /\ Dequeue(r)
  /\ req[r].at = "mutating"
  /\ result = "ok" => effect
  /\ ran' = [ran EXCEPT ![req[r].key] = IF effect THEN @ + 1 ELSE @]
  /\ req' = [req EXCEPT ![r].at = "mutated", ![r].result = result]
  /\ UNCHANGED <<up, available, memory, journal, clock, answers, faults, crashes>>

Complete_MemoryFirst(r) ==  \* mutation: answers although the journal failed
  /\ Dequeue(r)
  /\ req[r].at = "completing"
  /\ clock' = clock + 1
  /\ LET k == req[r].key
         rec == [memory[k] EXCEPT !.status = "finished", !.outcome = req[r].result,
                                  !.stamp = clock']
         updated == [memory EXCEPT ![k] = rec]
     IN  \E written \in BOOLEAN :
           /\ Persist(updated, written)
           /\ memory' = updated
           /\ Answer(r, rec.op, rec.outcome)
  /\ req' = [req EXCEPT ![r].at = "done"]
  /\ UNCHANGED <<up, available, ran, crashes>>

Complete_NoReply(r) ==  \* mutation: no reply when the journal cannot be written
  /\ Dequeue(r)
  /\ req[r].at = "completing"
  /\ clock' = clock + 1
  /\ LET k == req[r].key
         rec == [memory[k] EXCEPT !.status = "finished", !.outcome = req[r].result,
                                  !.stamp = clock']
         updated == [memory EXCEPT ![k] = rec]
     IN  \E written \in BOOLEAN :
           /\ Persist(updated, written)
           /\ memory' = IF written THEN updated ELSE memory
           /\ IF written THEN Answer(r, rec.op, rec.outcome) ELSE UNCHANGED answers
           /\ req' = IF written THEN [req EXCEPT ![r].at = "done"] ELSE req
  /\ UNCHANGED <<up, available, ran, crashes>>

\* completeIdempotentMutation: the result is answered once it is durable.
Complete(r) ==
  /\ Dequeue(r)
  /\ req[r].at = "completing"
  /\ clock' = clock + 1
  /\ LET k == req[r].key
         rec == [memory[k] EXCEPT !.status = "finished", !.outcome = req[r].result,
                                  !.stamp = clock']
         updated == [memory EXCEPT ![k] = rec]
     IN  \E written \in BOOLEAN :
           /\ Persist(updated, written)
           /\ memory' = IF written THEN updated ELSE memory
           /\ IF written THEN Answer(r, rec.op, rec.outcome) ELSE UNCHANGED answers
  /\ req' = [req EXCEPT ![r].at = "done"]
  /\ UNCHANGED <<up, available, ran, crashes>>

Execute(r) ==
  \/ SkipExpired(r)
  \/ AdmitUnavailable(r)
  \/ AdmitKnown(r)
  \/ AdmitRefused(r)
  \/ AdmitNew(r)
  \/ \E result \in {"ok", "error"}, effect \in BOOLEAN : Mutate(r, result, effect)
  \/ Complete(r)

-----------------------------------------------------------------------------
\* The manager stops: mailbox, memory and request goroutines are gone.
Crash ==
  /\ up
  /\ crashes < MaxCrashes
  /\ crashes' = crashes + 1
  /\ up' = FALSE
  /\ queue' = << >>
  /\ memory' = [k \in Keys |-> NoRecord]
  /\ req' = [r \in Requests |-> IF req[r].at = "new" THEN req[r]
                                ELSE [req[r] EXCEPT !.at = "done"]]
  /\ ran' = [k \in Keys |-> IF Recorded(k, journal) THEN ran[k] ELSE 0]
  /\ UNCHANGED <<available, journal, clock, answers, faults>>

Loaded_Retries(rec) ==  \* mutation: forgets interrupted mutations
  IF rec.status = "pending" THEN NoRecord ELSE rec

\* An interrupted mutation ends failed with an uncertain outcome.
Loaded(rec) ==
  IF rec.status = "pending"
  THEN [rec EXCEPT !.status = "finished", !.outcome = "uncertain", !.stamp = clock + 1]
  ELSE rec

\* loadIdempotencyRecords and openManagedConfigurationStore: a journal that
\* cannot be rewritten is not used, and the manager serves without it.
Load ==
  LET loaded == [k \in Keys |-> Loaded(journal[k])] IN
  /\ ~up
  /\ up' = TRUE
  /\ clock' = clock + 1
  /\ \E written \in BOOLEAN :
       /\ Persist(loaded, written)
       /\ available' = written
       /\ memory' = IF written THEN loaded ELSE [k \in Keys |-> NoRecord]
  /\ UNCHANGED <<queue, req, ran, answers, crashes>>

Goroutine(r) == GiveUp(r) \/ TakeReply(r) \/ SubmitMutation(r) \/ SubmitCompletion(r)

Next ==
  \/ \E r \in Requests, k \in Keys, f \in Fingerprints : Submit(r, k, f)
  \/ \E r \in Requests : Expire(r) \/ Goroutine(r) \/ Execute(r)
  \/ Crash
  \/ Load

Spec == Init /\ [][Next]_vars

\* Goroutines and the owner's loop run; nothing is assumed of clients or disk.
FairSpec ==
  /\ Spec
  /\ \A r \in Requests : WF_vars(Goroutine(r))
  /\ WF_vars(\E r \in Requests : Execute(r))

-----------------------------------------------------------------------------
\* A mutation runs at most once until its key is evicted, whatever its client retries
\* and wherever the manager stops.
AtMostOnce == \A k \in Keys : ran[k] <= 1

\* A result a client received is final: as long as the operation is in the
\* journal it is recorded there with this result, so a retry after any restart
\* gets the same answer.
AnswersDurable ==
  \A a \in answers :
    journal[a.key].op = a.op =>
      journal[a.key].status = "finished" /\ journal[a.key].outcome = a.outcome

\* The goroutine of an admitted mutation, and the two ways it ends without a
\* result on record: its client left before the goroutine took the owner's reply,
\* so that nothing ran; or the mutation ran, and its completion found the mailbox
\* full or the journal could not be written.
Works(r) == req[r].at \in {"admitting", "admitted", "mutating", "mutated", "completing"}
GaveUp(r) == req[r].at = "done" /\ req[r].expired /\ req[r].result = "none"
Unwritten(r) == req[r].at = "done" /\ req[r].result # "none"

\* Pending records and the goroutines that complete them belong together.  A
\* mutation in progress still has its record when it completes: eviction never
\* takes it, and no other request of the key replaces it.  A pending record has a
\* goroutine, so that a retry that is told it is running is told the truth; only
\* the two ends above leave one that no one completes before a restart
\* (runIdempotentMutation, admitIdempotentMutation).
RecordsMatchWorkers ==
  /\ TypeOK
  /\ \A r \in Requests :
       req[r].at \in {"admitted", "mutating", "mutated", "completing"} =>
         /\ memory[req[r].key].op = req[r].op
         /\ memory[req[r].key].status = "pending"
  /\ \A k \in Keys : up /\ memory[k].status = "pending" =>
       \E r \in Requests : /\ req[r].op = memory[k].op /\ req[r].reply = "admitted"
                           /\ Works(r) \/ GaveUp(r) \/ Unwritten(r)

\* Every request is answered or its connection is lost with the manager.
Answered == \A r \in Requests : req[r].at # "new" ~> req[r].at = "done"
=============================================================================
