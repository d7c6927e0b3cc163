-------------------------- MODULE IdempotencyProofs --------------------------
(***************************************************************************)
(* Proofs about Idempotency, for any number of requests, keys and          *)
(* fingerprints, any mailbox and journal size, and any number of failing   *)
(* writes and stops of the manager.                                        *)
(***************************************************************************)
EXTENDS Idempotency, TLAPS, FiniteSetTheorems, SequenceTheorems

-----------------------------------------------------------------------------
(* The inductive invariant.                                                *)

KeysOf(records) == {k \in Keys : Recorded(k, records)}

\* A record is empty, or its operation was handed out; a finished one has an
\* outcome.
WellFormed(rec) ==
  /\ rec.status = "none" => rec = NoRecord
  /\ rec.status # "none" => rec.op \in 1 .. clock
  /\ rec.status = "finished" => rec.outcome \in Outcomes

RecordInv ==
  /\ IsFiniteSet(KeysOf(memory)) /\ IsFiniteSet(KeysOf(journal))
  /\ \A k \in Keys : WellFormed(memory[k]) /\ WellFormed(journal[k])
  /\ \A k \in Keys :
       memory[k].status = "finished" /\ journal[k].op = memory[k].op =>
         journal[k].status = "finished" /\ journal[k].outcome = memory[k].outcome
  /\ ~up \/ ~available => memory = [k \in Keys |-> NoRecord]

\* A request waits in the mailbox once, for the command its goroutine is at; a
\* command nobody waits for any more was never answered.
QueueInv ==
  /\ \A i, j \in 1 .. Len(queue) : queue[i] = queue[j] => i = j
  /\ \A i \in 1 .. Len(queue) :
       \/ req[queue[i]].at \in {"mutating", "completing"}
       \/ req[queue[i]].at \in {"admitting", "done"} /\ req[queue[i]].reply = "none"

\* What a goroutine knows at each point.
RequestInv ==
  \A r \in Requests :
    /\ ~up => req[r].at \in {"new", "done"}
    /\ req[r].at = "new" => req[r].reply = "none"
    /\ req[r].at \notin {"new", "done"} => req[r].key \in Keys /\ req[r].fp \in Fingerprints
    /\ req[r].at \in {"admitted", "mutating", "mutated", "completing"} =>
         req[r].reply = "admitted"
    /\ req[r].at \in {"new", "admitting", "admitted", "mutating"} => req[r].result = "none"
    /\ req[r].at \in {"mutated", "completing"} => req[r].result # "none"
    /\ req[r].op <= clock

\* An admitted request that its goroutine still follows.
Owns(r) == Works(r) /\ req[r].reply = "admitted"

\* Operations are admitted once; an admitted request has its pending record.
OwnerInv ==
  /\ \A r, s \in Requests :
       req[r].reply = "admitted" /\ req[s].reply = "admitted" /\ req[r].op = req[s].op => r = s
  /\ \A r \in Requests : Owns(r) =>
       memory[req[r].key].op = req[r].op /\ memory[req[r].key].status = "pending"
  /\ \A k \in Keys : memory[k].status = "pending" =>
       \E r \in Requests : /\ req[r].key = k /\ req[r].op = memory[k].op
                           /\ req[r].reply = "admitted"
                           /\ Works(r) \/ GaveUp(r) \/ Unwritten(r)

\* A key that can be admitted, and one whose mutation is still to come, has not run.
RanInv ==
  /\ \A k \in Keys : ran[k] <= 1
  /\ up /\ available => \A k \in Keys : ~Recorded(k, memory) => ran[k] = 0
  /\ ~up => \A k \in Keys : ~Recorded(k, journal) => ran[k] = 0
  /\ \A r \in Requests :
       Owns(r) /\ req[r].at \in {"admitting", "admitted", "mutating"} => ran[req[r].key] = 0

\* Wherever this operation of this key is on record, it has this outcome.
Durable(k, op, outcome) ==
  /\ op \in 1 .. clock
  /\ memory[k].op = op => memory[k].status = "finished" /\ memory[k].outcome = outcome
  /\ journal[k].op = op => journal[k].status = "finished" /\ journal[k].outcome = outcome

AnswerInv ==
  /\ \A a \in answers : Durable(a.key, a.op, a.outcome)
  /\ \A r \in Requests :
       req[r].at = "admitting" /\ req[r].reply \in Outcomes =>
         Durable(req[r].key, req[r].op, req[r].reply)

IInv ==
  TypeOK /\ RecordInv /\ QueueInv /\ RequestInv /\ OwnerInv /\ RanInv /\ AnswerInv

-----------------------------------------------------------------------------
(* The mailbox.                                                            *)

\* The owner takes a command of a request that waits for it, and no other
\* command of that request is left.
LEMMA DequeueFacts ==
  ASSUME TypeOK, QueueInv, NEW r \in Requests, Dequeue(r)
  PROVE  /\ up
         /\ queue' \in Seq(Requests) /\ Len(queue') <= QueueSize
         /\ \A i \in 1 .. Len(queue') : queue'[i] \in Requests /\ queue'[i] # r
         /\ \A i, j \in 1 .. Len(queue') : queue'[i] = queue'[j] => i = j
         /\ \A i \in 1 .. Len(queue') :
              \E j \in 1 .. Len(queue) : queue'[i] = queue[j]
         /\ \/ req[r].at \in {"mutating", "completing"}
            \/ req[r].at \in {"admitting", "done"} /\ req[r].reply = "none"
<1>1. /\ queue \in Seq(Requests) /\ queue # << >> /\ r = queue[1]
      /\ queue' = Tail(queue) /\ up /\ Len(queue) <= QueueSize
  BY DEF TypeOK, Dequeue
<1>2. /\ queue' \in Seq(Requests) /\ Len(queue') = Len(queue) - 1
      /\ Len(queue) \in Nat \ {0}
      /\ \A i \in 1 .. Len(queue') : queue'[i] = queue[i + 1] /\ i + 1 \in 1 .. Len(queue)
  BY <1>1
<1>3. Len(queue') <= QueueSize
  BY <1>1, <1>2, JournalAssumption DEF JournalAssumption
<1>4. \A i \in 1 .. Len(queue') : queue'[i] # r
  BY <1>1, <1>2 DEF QueueInv
<1>5. \A i, j \in 1 .. Len(queue') : queue'[i] = queue'[j] => i = j
  BY <1>2 DEF QueueInv
<1>6. 1 \in 1 .. Len(queue)
  BY <1>2
<1>7. \/ req[r].at \in {"mutating", "completing"}
      \/ req[r].at \in {"admitting", "done"} /\ req[r].reply = "none"
  BY <1>1, <1>6 DEF QueueInv
<1>8. \A i \in 1 .. Len(queue') : queue'[i] \in Requests
  BY <1>2
<1> QED
  BY <1>1, <1>2, <1>3, <1>4, <1>5, <1>7, <1>8

\* A step of one request keeps the mailbox in order: it leaves it, is taken
\* from it, or enters it when it was not there.
LEMMA QueueKept ==
  ASSUME TypeOK, QueueInv, NEW r \in Requests, NEW q,
         req' = [req EXCEPT ![r] = q],
         \/ /\ UNCHANGED queue
            /\ \/ q.at \in {"mutating", "completing"}
               \/ q.at \in {"admitting", "done"} /\ q.reply = "none"
               \/ \A i \in 1 .. Len(queue) : queue[i] # r
         \/ Dequeue(r)
         \/ /\ \A i \in 1 .. Len(queue) : queue[i] # r
            /\ ~MailboxFull
            /\ queue' = Append(queue, r)
            /\ q.at \in {"mutating", "completing"}
                 \/ (q.at \in {"admitting", "done"} /\ q.reply = "none")
  PROVE  queue' \in Seq(Requests) /\ Len(queue') <= QueueSize /\ QueueInv'
<1>1. /\ req'[r] = q
      /\ \A s \in Requests : s # r => req'[s] = req[s]
  BY DEF TypeOK
<1>2. queue \in Seq(Requests) /\ Len(queue) \in Nat /\ Len(queue) <= QueueSize
  BY DEF TypeOK
<1>3. \A i \in 1 .. Len(queue) : queue[i] \in Requests
  BY <1>2
<1>4. CASE /\ UNCHANGED queue
           /\ \/ q.at \in {"mutating", "completing"}
              \/ q.at \in {"admitting", "done"} /\ q.reply = "none"
              \/ \A i \in 1 .. Len(queue) : queue[i] # r
  <2>1. ASSUME NEW i \in 1 .. Len(queue)
        PROVE  \/ req'[queue[i]].at \in {"mutating", "completing"}
               \/ req'[queue[i]].at \in {"admitting", "done"} /\ req'[queue[i]].reply = "none"
    <3>1. CASE queue[i] = r
      BY <1>1, <1>4, <3>1
    <3>2. CASE queue[i] # r
      BY <1>1, <1>3, <3>2 DEF QueueInv
    <3> QED
      BY <3>1, <3>2
  <2> QED
    BY <1>2, <1>4, <2>1 DEF QueueInv
<1>5. CASE Dequeue(r)
  <2>1. ASSUME NEW i \in 1 .. Len(queue')
        PROVE  \/ req'[queue'[i]].at \in {"mutating", "completing"}
               \/ req'[queue'[i]].at \in {"admitting", "done"} /\ req'[queue'[i]].reply = "none"
    <3>1. PICK j \in 1 .. Len(queue) : queue'[i] = queue[j]
      BY <1>5, DequeueFacts
    <3>2. req'[queue'[i]] = req[queue[j]]
      BY <1>1, <1>5, <3>1, DequeueFacts
    <3> QED
      BY <3>2 DEF QueueInv
  <2> QED
    BY <1>5, <2>1, DequeueFacts DEF QueueInv
<1>6. CASE /\ \A i \in 1 .. Len(queue) : queue[i] # r
           /\ ~MailboxFull
           /\ queue' = Append(queue, r)
           /\ q.at \in {"mutating", "completing"}
                \/ (q.at \in {"admitting", "done"} /\ q.reply = "none")
  <2>1. /\ queue' \in Seq(Requests) /\ Len(queue') = Len(queue) + 1
        /\ \A i \in 1 .. Len(queue) : queue'[i] = queue[i]
        /\ queue'[Len(queue) + 1] = r
    BY <1>2, <1>6, AppendProperties
  <2>2. \A i \in 1 .. Len(queue') : i \in 1 .. Len(queue) \/ i = Len(queue) + 1
    BY <1>2, <2>1
  <2>3. Len(queue') <= QueueSize
    BY <1>2, <1>6, <2>1, JournalAssumption DEF MailboxFull, JournalAssumption
  <2>4. \A i, j \in 1 .. Len(queue') : queue'[i] = queue'[j] => i = j
    BY <1>6, <2>1, <2>2 DEF QueueInv
  <2>5. ASSUME NEW i \in 1 .. Len(queue')
        PROVE  \/ req'[queue'[i]].at \in {"mutating", "completing"}
               \/ req'[queue'[i]].at \in {"admitting", "done"} /\ req'[queue'[i]].reply = "none"
    <3>1. CASE i = Len(queue) + 1
      BY <1>1, <1>6, <2>1, <3>1
    <3>2. CASE i \in 1 .. Len(queue)
      <4>1. queue'[i] = queue[i] /\ req'[queue'[i]] = req[queue[i]]
        BY <1>1, <1>3, <1>6, <2>1, <3>2
      <4> QED
        BY <3>2, <4>1 DEF QueueInv
    <3> QED
      BY <2>2, <3>1, <3>2
  <2> QED
    BY <2>1, <2>3, <2>4, <2>5 DEF QueueInv
<1> QED
  BY <1>4, <1>5, <1>6

-----------------------------------------------------------------------------
(* Steps of a request that leave the journal alone.                        *)

\* Records are compared with the clock only, and with each other.
LEMMA RecordsKept ==
  ASSUME RecordInv, UNCHANGED <<up, available, memory, journal, clock>>
  PROVE  RecordInv'
<1>1. /\ UNCHANGED up /\ UNCHANGED available /\ UNCHANGED memory
      /\ UNCHANGED journal /\ UNCHANGED clock
  OBVIOUS
<1>2. KeysOf(memory)' = KeysOf(memory) /\ KeysOf(journal)' = KeysOf(journal)
  BY <1>1 DEF KeysOf, Recorded
<1> QED
  BY <1>1, <1>2 DEF RecordInv, WellFormed

Working == {"admitting", "admitted", "mutating", "mutated", "completing"}

\* How a goroutine that nobody waits for has left its record behind.
Left(q) ==
  q.at = "done" /\ ((q.expired /\ q.result = "none") \/ q.result # "none")

\* The goroutine of an admitted request stays with its record until it ends in
\* one of the two ways that leave it pending.
KeepsRecord(p, q) ==
  /\ q.reply = "admitted" <=> p.reply = "admitted"
  /\ p.reply = "admitted" =>
       /\ q.op = p.op /\ q.key = p.key
       /\ q.at \in Working => p.at \in Working
       /\ p.at \in Working => q.at \in Working \/ Left(q)
       /\ Left(p) => Left(q)

LEMMA OwnerKept ==
  ASSUME TypeOK, OwnerInv, UNCHANGED memory, NEW r \in Requests, NEW q,
         req' = [req EXCEPT ![r] = q], KeepsRecord(req[r], q)
  PROVE  OwnerInv'
<1>1. /\ req'[r] = q
      /\ \A s \in Requests : s # r => req'[s] = req[s]
  BY DEF TypeOK
<1>2. \A s \in Requests : KeepsRecord(req[s], req'[s])
  BY <1>1 DEF KeepsRecord
<1>3. \A s \in Requests : /\ Owns(s) <=> req[s].at \in Working /\ req[s].reply = "admitted"
                          /\ Owns(s)' <=> req'[s].at \in Working /\ req'[s].reply = "admitted"
                          /\ GaveUp(s) \/ Unwritten(s) <=> Left(req[s])
                          /\ (GaveUp(s) \/ Unwritten(s))' <=> Left(req'[s])
                          /\ Works(s) <=> req[s].at \in Working
                          /\ Works(s)' <=> req'[s].at \in Working
  BY DEF Owns, Works, Working, GaveUp, Unwritten, Left
<1>4. \A s, t \in Requests :
        req'[s].reply = "admitted" /\ req'[t].reply = "admitted" /\ req'[s].op = req'[t].op => s = t
  BY <1>2 DEF OwnerInv, KeepsRecord
<1>5. \A s \in Requests : Owns(s)' =>
        memory'[req'[s].key].op = req'[s].op /\ memory'[req'[s].key].status = "pending"
  BY <1>2, <1>3 DEF OwnerInv, KeepsRecord
<1>6. ASSUME NEW k \in Keys, memory'[k].status = "pending"
      PROVE  \E s \in Requests : /\ req'[s].key = k /\ req'[s].op = memory'[k].op
                                 /\ req'[s].reply = "admitted"
                                 /\ (Works(s) \/ GaveUp(s) \/ Unwritten(s))'
  <2>1. PICK s \in Requests : /\ req[s].key = k /\ req[s].op = memory[k].op
                              /\ req[s].reply = "admitted"
                              /\ Works(s) \/ GaveUp(s) \/ Unwritten(s)
    BY <1>6 DEF OwnerInv
  <2> QED
    BY <1>2, <1>3, <2>1 DEF KeepsRecord
<1> QED
  BY <1>4, <1>5, <1>6 DEF OwnerInv

Early == {"admitting", "admitted", "mutating"}

\* The mutation of an admitted request is still to come.
LEMMA RanKept ==
  ASSUME TypeOK, RanInv, UNCHANGED <<up, available, memory, journal, ran>>,
         NEW r \in Requests, NEW q,
         req' = [req EXCEPT ![r] = q], KeepsRecord(req[r], q),
         q.at \in Early /\ q.reply = "admitted" => req[r].at \in Early
  PROVE  RanInv'
<1>1. /\ UNCHANGED up /\ UNCHANGED available /\ UNCHANGED memory
      /\ UNCHANGED journal /\ UNCHANGED ran
  OBVIOUS
<1>2. /\ req'[r] = q
      /\ \A s \in Requests : s # r => req'[s] = req[s]
  BY DEF TypeOK
<1>3. \A s \in Requests : /\ Owns(s) <=> req[s].at \in Working /\ req[s].reply = "admitted"
                          /\ Owns(s)' <=> req'[s].at \in Working /\ req'[s].reply = "admitted"
  BY DEF Owns, Works, Working
<1>4. \A s \in Requests :
        Owns(s)' /\ req'[s].at \in Early => ran'[req'[s].key] = 0
  BY <1>1, <1>2, <1>3 DEF RanInv, KeepsRecord, Early
<1> QED
  BY <1>1, <1>4 DEF RanInv, Recorded, Early

LEMMA AnswersKept ==
  ASSUME TypeOK, AnswerInv, UNCHANGED <<memory, journal, clock>>,
         NEW r \in Requests, NEW q,
         req' = [req EXCEPT ![r] = q],
         q.at = "admitting" /\ q.reply \in Outcomes => Durable(q.key, q.op, q.reply),
         \A a \in answers' : a \in answers \/ Durable(a.key, a.op, a.outcome)
  PROVE  AnswerInv'
<1>1. UNCHANGED memory /\ UNCHANGED journal /\ UNCHANGED clock
  OBVIOUS
<1>2. /\ req'[r] = q
      /\ \A s \in Requests : s # r => req'[s] = req[s]
  BY DEF TypeOK
<1>3. \A a \in answers' : Durable(a.key, a.op, a.outcome)
  BY DEF AnswerInv
<1>4. \A s \in Requests :
        req'[s].at = "admitting" /\ req'[s].reply \in Outcomes =>
          Durable(req'[s].key, req'[s].op, req'[s].reply)
  BY <1>2 DEF AnswerInv
<1> QED
  BY <1>1, <1>3, <1>4 DEF AnswerInv, Durable

\* The conditions of RequestInv on one request, with the manager up.
Sound(q) ==
  /\ q.at = "new" => q.reply = "none"
  /\ q.at \notin {"new", "done"} => q.key \in Keys /\ q.fp \in Fingerprints
  /\ q.at \in {"admitted", "mutating", "mutated", "completing"} => q.reply = "admitted"
  /\ q.at \in {"new", "admitting", "admitted", "mutating"} => q.result = "none"
  /\ q.at \in {"mutated", "completing"} => q.result # "none"
  /\ q.op <= clock

\* A step of one request outside the records.
LEMMA RequestStep ==
  ASSUME IInv, UNCHANGED <<up, available, memory, journal, clock, ran, faults, crashes>>,
         NEW r \in Requests, NEW q \in RequestState,
         req' = [req EXCEPT ![r] = q],
         up \/ q.at \in {"new", "done"}, Sound(q), KeepsRecord(req[r], q),
         q.at \in Early /\ q.reply = "admitted" => req[r].at \in Early,
         queue' \in Seq(Requests) /\ Len(queue') <= QueueSize /\ QueueInv',
         answers' \subseteq [key: Keys, op: Nat, outcome: Outcomes],
         q.at = "admitting" /\ q.reply \in Outcomes => Durable(q.key, q.op, q.reply),
         \A a \in answers' : a \in answers \/ Durable(a.key, a.op, a.outcome)
  PROVE  IInv'
<1> USE DEF IInv
<1>1. /\ UNCHANGED up /\ UNCHANGED available /\ UNCHANGED memory
      /\ UNCHANGED journal /\ UNCHANGED clock /\ UNCHANGED ran
      /\ UNCHANGED faults /\ UNCHANGED crashes
  OBVIOUS
<1>2. TypeOK'
  <2>1. req' \in [Requests -> RequestState]
    BY DEF TypeOK
  <2> QED
    BY <1>1, <2>1 DEF TypeOK, Recorded
<1>3. RecordInv'
  BY RecordsKept
<1>4. OwnerInv' /\ RanInv' /\ AnswerInv'
  BY OwnerKept, RanKept, AnswersKept
<1>5. RequestInv'
  <2>1. /\ req'[r] = q
        /\ \A s \in Requests : s # r => req'[s] = req[s]
    BY DEF TypeOK
  <2> QED
    BY <1>1, <2>1 DEF RequestInv, Sound
<1> QED
  BY <1>2, <1>3, <1>4, <1>5

\* A goroutine that is not waiting for the owner has no command queued.
LEMMA NotQueued ==
  ASSUME TypeOK, QueueInv, NEW r \in Requests,
         \/ req[r].at \in {"new", "admitted", "mutated"}
         \/ req[r].at = "admitting" /\ req[r].reply # "none"
  PROVE  \A i \in 1 .. Len(queue) : queue[i] # r
  BY DEF QueueInv

LEMMA SubmitInv ==
  ASSUME IInv, NEW r \in Requests, NEW k \in Keys, NEW f \in Fingerprints, Submit(r, k, f)
  PROVE  IInv'
<1>1. /\ up /\ req[r].at = "new" /\ req[r] \in RequestState /\ Sound(req[r])
      /\ \A i \in 1 .. Len(queue) : queue[i] # r
  BY NotQueued DEF Submit, IInv, TypeOK, RequestInv, Sound
<1>2. UNCHANGED <<up, available, memory, journal, clock, ran, faults, crashes>> /\ UNCHANGED answers
  BY DEF Submit
<1>3. answers \subseteq [key: Keys, op: Nat, outcome: Outcomes]
  BY DEF IInv, TypeOK
<1>4. CASE MailboxFull
  <2> DEFINE q == [req[r] EXCEPT !.at = "done"]
  <2>1. req' = [req EXCEPT ![r] = q] /\ UNCHANGED queue
    BY <1>4 DEF Submit
  <2>2. /\ q \in RequestState /\ q.at = "done"
        /\ q.reply = req[r].reply /\ q.result = req[r].result /\ q.op = req[r].op
        /\ q.key = req[r].key /\ q.expired = req[r].expired
    BY <1>1 DEF RequestState
  <2> HIDE DEF q
  <2>3. Sound(q) /\ KeepsRecord(req[r], q)
    BY <1>1, <2>2 DEF Sound, KeepsRecord
  <2>4. queue' \in Seq(Requests) /\ Len(queue') <= QueueSize /\ QueueInv'
    BY <1>1, <2>1, QueueKept DEF IInv
  <2> QED
    BY <1>1, <1>2, <1>3, <2>1, <2>2, <2>3, <2>4, RequestStep DEF Early
<1>5. CASE ~MailboxFull
  <2> DEFINE q == [req[r] EXCEPT !.at = "admitting", !.key = k, !.fp = f]
  <2>1. req' = [req EXCEPT ![r] = q] /\ queue' = Append(queue, r)
    BY <1>5 DEF Submit, IInv, TypeOK
  <2>2. /\ q \in RequestState /\ q.at = "admitting"
        /\ q.reply = req[r].reply /\ q.result = req[r].result /\ q.op = req[r].op
        /\ q.key = k /\ q.fp = f
    BY <1>1 DEF RequestState
  <2> HIDE DEF q
  <2>3. Sound(q) /\ KeepsRecord(req[r], q) /\ q.reply = "none"
    BY <1>1, <2>2 DEF Sound, KeepsRecord
  <2>4. queue' \in Seq(Requests) /\ Len(queue') <= QueueSize /\ QueueInv'
    BY <1>1, <1>5, <2>1, <2>2, <2>3, QueueKept DEF IInv
  <2> QED
    BY <1>1, <1>2, <1>3, <2>1, <2>2, <2>3, <2>4, RequestStep DEF Early, Outcomes
<1> QED
  BY <1>4, <1>5

LEMMA ExpireInv ==
  ASSUME IInv, NEW r \in Requests, Expire(r)
  PROVE  IInv'
<1> DEFINE q == [req[r] EXCEPT !.expired = TRUE]
<1>1. /\ up /\ req[r].at = "admitting" /\ req[r] \in RequestState /\ Sound(req[r])
      /\ req[r].reply \in Outcomes => Durable(req[r].key, req[r].op, req[r].reply)
  BY DEF Expire, IInv, TypeOK, RequestInv, Sound, AnswerInv
<1>2. /\ UNCHANGED <<up, available, memory, journal, clock, ran, faults, crashes>>
      /\ UNCHANGED answers /\ UNCHANGED queue
      /\ answers \subseteq [key: Keys, op: Nat, outcome: Outcomes]
  BY DEF Expire, IInv, TypeOK
<1>3. req' = [req EXCEPT ![r] = q]
  BY DEF Expire
<1>4. /\ q \in RequestState /\ q.at = req[r].at /\ q.fp = req[r].fp
      /\ q.reply = req[r].reply /\ q.result = req[r].result /\ q.op = req[r].op
      /\ q.key = req[r].key /\ q.expired
  BY <1>1 DEF RequestState
<1> HIDE DEF q
<1>5. Sound(q) /\ KeepsRecord(req[r], q)
  BY <1>1, <1>4 DEF Sound, KeepsRecord, Left
<1>6. queue' \in Seq(Requests) /\ Len(queue') <= QueueSize /\ QueueInv'
  <2>1. CASE req[r].reply = "none"
    BY <1>1, <1>2, <1>3, <1>4, <2>1, QueueKept DEF IInv
  <2>2. CASE req[r].reply # "none"
    BY <1>1, <1>2, <1>3, <1>4, <2>2, NotQueued, QueueKept DEF IInv
  <2> QED
    BY <2>1, <2>2
<1> QED
  BY <1>1, <1>2, <1>3, <1>4, <1>5, <1>6, RequestStep

LEMMA GiveUpInv ==
  ASSUME IInv, NEW r \in Requests, GiveUp(r)
  PROVE  IInv'
<1> DEFINE q == [req[r] EXCEPT !.at = "done"]
<1>1. /\ req[r].at = "admitting" /\ req[r] \in RequestState /\ Sound(req[r])
      /\ req[r].expired
  BY DEF GiveUp, IInv, TypeOK, RequestInv, Sound
<1>2. /\ UNCHANGED <<up, available, memory, journal, clock, ran, faults, crashes>>
      /\ UNCHANGED answers /\ UNCHANGED queue
      /\ answers \subseteq [key: Keys, op: Nat, outcome: Outcomes]
  BY DEF GiveUp, IInv, TypeOK
<1>3. req' = [req EXCEPT ![r] = q]
  BY DEF GiveUp
<1>4. /\ q \in RequestState /\ q.at = "done"
      /\ q.reply = req[r].reply /\ q.result = req[r].result /\ q.op = req[r].op
      /\ q.key = req[r].key /\ q.expired
  BY <1>1 DEF RequestState
<1> HIDE DEF q
<1>5. Sound(q) /\ KeepsRecord(req[r], q)
  BY <1>1, <1>4 DEF Sound, KeepsRecord, Left, Working
<1>6. queue' \in Seq(Requests) /\ Len(queue') <= QueueSize /\ QueueInv'
  <2>1. CASE req[r].reply = "none"
    BY <1>1, <1>2, <1>3, <1>4, <2>1, QueueKept DEF IInv
  <2>2. CASE req[r].reply # "none"
    BY <1>1, <1>2, <1>3, <1>4, <2>2, NotQueued, QueueKept DEF IInv
  <2> QED
    BY <2>1, <2>2
<1> QED
  BY <1>1, <1>2, <1>3, <1>4, <1>5, <1>6, RequestStep DEF Early

\* A result that the owner put in its reply is on record as long as the
\* operation is.
LEMMA TakeReplyInv ==
  ASSUME IInv, NEW r \in Requests, TakeReply(r)
  PROVE  IInv'
<1> DEFINE a == IF req[r].reply = "admitted" THEN "admitted" ELSE "done"
           q == [req[r] EXCEPT !.at = a]
<1>1. /\ up /\ req[r].at = "admitting" /\ req[r] \in RequestState /\ Sound(req[r])
      /\ req[r].reply # "none"
      /\ req[r].reply \in Outcomes => Durable(req[r].key, req[r].op, req[r].reply)
  BY DEF TakeReply, IInv, TypeOK, RequestInv, Sound, AnswerInv
<1>2. /\ UNCHANGED <<up, available, memory, journal, clock, ran, faults, crashes>>
      /\ UNCHANGED queue
  BY DEF TakeReply
<1>3. req' = [req EXCEPT ![r] = q]
  BY DEF TakeReply
<1>4. a \in {"admitted", "done"} /\ (a = "admitted" <=> req[r].reply = "admitted")
  OBVIOUS
<1> HIDE DEF a
<1>5. /\ q \in RequestState /\ q.at = a /\ q.fp = req[r].fp
      /\ q.reply = req[r].reply /\ q.result = req[r].result /\ q.op = req[r].op
      /\ q.key = req[r].key
  BY <1>1, <1>4 DEF RequestState
<1> HIDE DEF q
<1>6. Sound(q) /\ KeepsRecord(req[r], q)
  BY <1>1, <1>4, <1>5 DEF Sound, KeepsRecord, Left, Working
<1>7. queue' \in Seq(Requests) /\ Len(queue') <= QueueSize /\ QueueInv'
  BY <1>1, <1>2, <1>3, NotQueued, QueueKept DEF IInv
<1>8. /\ answers' \subseteq [key: Keys, op: Nat, outcome: Outcomes]
      /\ \A x \in answers' : x \in answers \/ Durable(x.key, x.op, x.outcome)
  <2>1. answers \subseteq [key: Keys, op: Nat, outcome: Outcomes]
    BY DEF IInv, TypeOK
  <2>2. CASE req[r].reply \in Outcomes
    <3> DEFINE x == [key |-> req[r].key, op |-> req[r].op, outcome |-> req[r].reply]
    <3>1. answers' = answers \cup {x}
      BY <2>2 DEF TakeReply, Answer
    <3>2. x.key = req[r].key /\ x.op = req[r].op /\ x.outcome = req[r].reply
      OBVIOUS
    <3>3. x \in [key: Keys, op: Nat, outcome: Outcomes]
      BY <1>1, <2>2 DEF Sound, RequestState
    <3> HIDE DEF x
    <3> QED
      BY <1>1, <2>1, <2>2, <3>1, <3>2, <3>3
  <2>3. CASE req[r].reply \notin Outcomes
    BY <2>1, <2>3 DEF TakeReply
  <2> QED
    BY <2>2, <2>3
<1> QED
  BY <1>1, <1>2, <1>3, <1>4, <1>5, <1>6, <1>7, <1>8, RequestStep DEF Early

LEMMA SubmitMutationInv ==
  ASSUME IInv, NEW r \in Requests, SubmitMutation(r)
  PROVE  IInv'
<1>1. /\ req[r].at = "admitted" /\ req[r] \in RequestState /\ Sound(req[r]) /\ up
      /\ \A i \in 1 .. Len(queue) : queue[i] # r
  BY NotQueued DEF SubmitMutation, IInv, TypeOK, RequestInv, Sound
<1>2. /\ UNCHANGED <<up, available, memory, journal, clock, ran, faults, crashes>>
      /\ UNCHANGED answers
      /\ answers \subseteq [key: Keys, op: Nat, outcome: Outcomes]
  BY DEF SubmitMutation, IInv, TypeOK
<1>3. CASE MailboxFull
  <2> DEFINE q == [req[r] EXCEPT !.at = "mutated", !.result = "error"]
  <2>1. req' = [req EXCEPT ![r] = q] /\ UNCHANGED queue
    BY <1>3 DEF SubmitMutation, IInv, TypeOK
  <2>2. /\ q \in RequestState /\ q.at = "mutated" /\ q.fp = req[r].fp
        /\ q.reply = req[r].reply /\ q.result = "error" /\ q.op = req[r].op
        /\ q.key = req[r].key /\ q.expired = req[r].expired
    BY <1>1 DEF RequestState
  <2> HIDE DEF q
  <2>3. Sound(q) /\ KeepsRecord(req[r], q)
    BY <1>1, <2>2 DEF Sound, KeepsRecord, Working, Left
  <2>4. queue' \in Seq(Requests) /\ Len(queue') <= QueueSize /\ QueueInv'
    BY <1>1, <2>1, QueueKept DEF IInv
  <2> QED
    BY <1>1, <1>2, <2>1, <2>2, <2>3, <2>4, RequestStep DEF Early
<1>4. CASE ~MailboxFull
  <2> DEFINE q == [req[r] EXCEPT !.at = "mutating"]
  <2>1. req' = [req EXCEPT ![r] = q] /\ queue' = Append(queue, r)
    BY <1>4 DEF SubmitMutation, Enqueue, IInv, TypeOK
  <2>2. /\ q \in RequestState /\ q.at = "mutating" /\ q.fp = req[r].fp
        /\ q.reply = req[r].reply /\ q.result = req[r].result /\ q.op = req[r].op
        /\ q.key = req[r].key /\ q.expired = req[r].expired
    BY <1>1 DEF RequestState
  <2> HIDE DEF q
  <2>3. Sound(q) /\ KeepsRecord(req[r], q)
    BY <1>1, <2>2 DEF Sound, KeepsRecord, Working, Left
  <2>4. queue' \in Seq(Requests) /\ Len(queue') <= QueueSize /\ QueueInv'
    BY <1>1, <1>4, <2>1, <2>2, QueueKept DEF IInv
  <2> QED
    BY <1>1, <1>2, <2>1, <2>2, <2>3, <2>4, RequestStep DEF Early
<1> QED
  BY <1>3, <1>4

LEMMA SubmitCompletionInv ==
  ASSUME IInv, NEW r \in Requests, SubmitCompletion(r)
  PROVE  IInv'
<1>1. /\ req[r].at = "mutated" /\ req[r] \in RequestState /\ Sound(req[r]) /\ up
      /\ \A i \in 1 .. Len(queue) : queue[i] # r
  BY NotQueued DEF SubmitCompletion, IInv, TypeOK, RequestInv, Sound
<1>2. /\ UNCHANGED <<up, available, memory, journal, clock, ran, faults, crashes>>
      /\ UNCHANGED answers
      /\ answers \subseteq [key: Keys, op: Nat, outcome: Outcomes]
  BY DEF SubmitCompletion, IInv, TypeOK
<1>3. CASE MailboxFull
  <2> DEFINE q == [req[r] EXCEPT !.at = "done"]
  <2>1. req' = [req EXCEPT ![r] = q] /\ UNCHANGED queue
    BY <1>3 DEF SubmitCompletion, IInv, TypeOK
  <2>2. /\ q \in RequestState /\ q.at = "done" /\ q.fp = req[r].fp
        /\ q.reply = req[r].reply /\ q.result = req[r].result /\ q.op = req[r].op
        /\ q.key = req[r].key /\ q.expired = req[r].expired
    BY <1>1 DEF RequestState
  <2> HIDE DEF q
  <2>3. Sound(q) /\ KeepsRecord(req[r], q)
    BY <1>1, <2>2 DEF Sound, KeepsRecord, Working, Left
  <2>4. queue' \in Seq(Requests) /\ Len(queue') <= QueueSize /\ QueueInv'
    BY <1>1, <2>1, QueueKept DEF IInv
  <2> QED
    BY <1>1, <1>2, <2>1, <2>2, <2>3, <2>4, RequestStep DEF Early
<1>4. CASE ~MailboxFull
  <2> DEFINE q == [req[r] EXCEPT !.at = "completing"]
  <2>1. req' = [req EXCEPT ![r] = q] /\ queue' = Append(queue, r)
    BY <1>4 DEF SubmitCompletion, Enqueue, IInv, TypeOK
  <2>2. /\ q \in RequestState /\ q.at = "completing" /\ q.fp = req[r].fp
        /\ q.reply = req[r].reply /\ q.result = req[r].result /\ q.op = req[r].op
        /\ q.key = req[r].key /\ q.expired = req[r].expired
    BY <1>1 DEF RequestState
  <2> HIDE DEF q
  <2>3. Sound(q) /\ KeepsRecord(req[r], q)
    BY <1>1, <2>2 DEF Sound, KeepsRecord, Working, Left
  <2>4. queue' \in Seq(Requests) /\ Len(queue') <= QueueSize /\ QueueInv'
    BY <1>1, <1>4, <2>1, <2>2, QueueKept DEF IInv
  <2> QED
    BY <1>1, <1>2, <2>1, <2>2, <2>3, <2>4, RequestStep DEF Early
<1> QED
  BY <1>3, <1>4

-----------------------------------------------------------------------------
(* The owner's commands that leave the journal alone.                      *)

LEMMA SkipExpiredInv ==
  ASSUME IInv, NEW r \in Requests, SkipExpired(r)
  PROVE  IInv'
<1>1. Dequeue(r) /\ UNCHANGED <<up, available, memory, journal, clock, ran, faults, crashes>>
      /\ UNCHANGED req /\ UNCHANGED answers /\ req[r] \in RequestState
      /\ answers \subseteq [key: Keys, op: Nat, outcome: Outcomes]
      /\ up /\ Sound(req[r])
  BY DEF SkipExpired, Dequeue, IInv, TypeOK, RequestInv, Sound
<1>2. req' = [req EXCEPT ![r] = req[r]]
  BY <1>1 DEF IInv, TypeOK
<1>3. KeepsRecord(req[r], req[r])
  BY DEF KeepsRecord
<1>4. queue' \in Seq(Requests) /\ Len(queue') <= QueueSize /\ QueueInv'
  BY <1>1, <1>2, QueueKept DEF IInv
<1>5. req[r].at = "admitting" /\ req[r].reply \in Outcomes =>
        Durable(req[r].key, req[r].op, req[r].reply)
  BY DEF IInv, AnswerInv
<1> QED
  BY <1>1, <1>2, <1>3, <1>4, <1>5, RequestStep

\* A reply other than "admitted" to the command that admits a key.
LEMMA ReplyInv ==
  ASSUME IInv, NEW r \in Requests, Dequeue(r), req[r].at = "admitting",
         NEW q \in RequestState, req' = [req EXCEPT ![r] = q],
         q.at = "admitting", q.key = req[r].key, q.fp = req[r].fp,
         q.result = req[r].result, q.reply # "admitted", q.op <= clock,
         q.reply \in Outcomes => Durable(q.key, q.op, q.reply),
         UNCHANGED <<up, available, memory, journal, clock, ran, answers, faults, crashes>>
  PROVE  IInv'
<1>1. up /\ req[r].reply = "none" /\ Sound(req[r])
  BY DequeueFacts DEF IInv, RequestInv, Sound
<1>2. Sound(q) /\ KeepsRecord(req[r], q)
  BY <1>1 DEF Sound, KeepsRecord
<1>3. queue' \in Seq(Requests) /\ Len(queue') <= QueueSize /\ QueueInv'
  BY QueueKept DEF IInv
<1>4. answers \subseteq [key: Keys, op: Nat, outcome: Outcomes] /\ UNCHANGED answers
  BY DEF IInv, TypeOK
<1>5. UNCHANGED <<up, available, memory, journal, clock, ran, faults, crashes>>
  OBVIOUS
<1> QED
  BY <1>1, <1>2, <1>3, <1>4, <1>5, RequestStep

LEMMA AdmitUnavailableInv ==
  ASSUME IInv, NEW r \in Requests, AdmitUnavailable(r) \/ AdmitRefused(r)
  PROVE  IInv'
<1>1. PICK a \in {"unavailable", "exhausted"} : req' = [req EXCEPT ![r].reply = a]
  BY DEF AdmitUnavailable, AdmitRefused
<1> DEFINE q == [req[r] EXCEPT !.reply = a]
<1>2. /\ Dequeue(r) /\ req[r].at = "admitting" /\ req[r] \in RequestState
      /\ UNCHANGED <<up, available, memory, journal, clock, ran, answers, faults, crashes>>
      /\ req[r].op <= clock
  BY DEF AdmitUnavailable, AdmitRefused, Admitting, IInv, TypeOK, RequestInv
<1>3. req' = [req EXCEPT ![r] = q]
  BY <1>1
<1>4. /\ q \in RequestState /\ q.at = req[r].at /\ q.key = req[r].key /\ q.fp = req[r].fp
      /\ q.result = req[r].result /\ q.op = req[r].op /\ q.reply = a
  BY <1>2 DEF RequestState, Refusals
<1> HIDE DEF q
<1>5. q.reply # "admitted" /\ q.reply \notin Outcomes
  BY <1>4 DEF Outcomes
<1> QED
  BY <1>2, <1>3, <1>4, <1>5, ReplyInv

\* A replayed result is the recorded one, in memory and in the journal.
LEMMA AdmitKnownInv ==
  ASSUME IInv, NEW r \in Requests, AdmitKnown(r)
  PROVE  IInv'
<1> DEFINE k == req[r].key
           rec == memory[k]
           a == IF rec.fp # req[r].fp THEN "conflict"
                ELSE IF rec.status = "pending" THEN "running" ELSE rec.outcome
           q == [req[r] EXCEPT !.op = rec.op, !.reply = a]
<1>1. /\ Dequeue(r) /\ req[r].at = "admitting" /\ req[r] \in RequestState
      /\ UNCHANGED <<up, available, memory, journal, clock, ran, answers, faults, crashes>>
      /\ Recorded(k, memory) /\ k \in Keys
  BY DEF AdmitKnown, Admitting, IInv, TypeOK, RequestInv
<1>2. rec \in Records /\ WellFormed(rec) /\ rec.status # "none" /\ rec.op \in 1 .. clock
      /\ clock \in Nat
  BY <1>1 DEF IInv, TypeOK, RecordInv, WellFormed, Recorded
<1>3. /\ a \in {"conflict", "running"} \cup Outcomes
      /\ a \in Outcomes => rec.status = "finished" /\ rec.outcome = a
  <2>1. rec.status \in {"pending", "finished"}
    BY <1>2 DEF Records
  <2> QED
    BY <1>2, <2>1 DEF WellFormed, Outcomes
<1>4. req' = [req EXCEPT ![r] = q]
  BY DEF AdmitKnown, IInv, TypeOK
<1> HIDE DEF a
<1>5. /\ q \in RequestState /\ q.at = req[r].at /\ q.key = k /\ q.fp = req[r].fp
      /\ q.result = req[r].result /\ q.op = rec.op /\ q.reply = a
  BY <1>1, <1>2, <1>3 DEF RequestState, Refusals, Records
<1>6. q.reply # "admitted" /\ q.op <= clock
  BY <1>2, <1>3, <1>5 DEF Outcomes
<1>7. q.reply \in Outcomes => Durable(q.key, q.op, q.reply)
  BY <1>1, <1>2, <1>3, <1>5 DEF Durable, IInv, RecordInv
<1> HIDE DEF q
<1> QED
  BY <1>1, <1>4, <1>5, <1>6, <1>7, ReplyInv

\* The mutation runs once: before it, its key has not run.
LEMMA MutateInv ==
  ASSUME IInv, NEW r \in Requests, NEW result \in {"ok", "error"}, NEW effect \in BOOLEAN,
         Mutate(r, result, effect)
  PROVE  IInv'
<1> DEFINE k == req[r].key
           q == [req[r] EXCEPT !.at = "mutated", !.result = result]
<1>1. /\ Dequeue(r) /\ req[r].at = "mutating" /\ req[r] \in RequestState /\ up
      /\ Sound(req[r]) /\ k \in Keys /\ req[r].reply = "admitted"
  BY DEF Mutate, Dequeue, IInv, TypeOK, RequestInv, Sound
<1>2. /\ UNCHANGED up /\ UNCHANGED available /\ UNCHANGED memory /\ UNCHANGED journal
      /\ UNCHANGED clock /\ UNCHANGED answers /\ UNCHANGED faults /\ UNCHANGED crashes
  BY DEF Mutate
<1>3. req' = [req EXCEPT ![r] = q]
  BY DEF Mutate, IInv, TypeOK
<1>4. /\ q \in RequestState /\ q.at = "mutated" /\ q.fp = req[r].fp
      /\ q.reply = req[r].reply /\ q.result = result /\ q.op = req[r].op
      /\ q.key = k
  BY <1>1 DEF RequestState
<1> HIDE DEF q
<1>5. Sound(q) /\ KeepsRecord(req[r], q)
  BY <1>1, <1>4 DEF Sound, KeepsRecord, Working, Left
<1>6. queue' \in Seq(Requests) /\ Len(queue') <= QueueSize /\ QueueInv'
  BY <1>1, <1>3, QueueKept DEF IInv
<1>7. /\ req'[r] = q
      /\ \A s \in Requests : s # r => req'[s] = req[s]
  BY <1>3 DEF IInv, TypeOK
<1>8. Owns(r) /\ ran[k] = 0
  BY <1>1 DEF IInv, RanInv, Owns, Works
<1>9. ran' = [ran EXCEPT ![k] = IF effect THEN 1 ELSE 0]
  BY <1>1, <1>8 DEF Mutate, IInv, TypeOK
<1>10. TypeOK'
  <2>1. req' \in [Requests -> RequestState]
    BY <1>3, <1>4 DEF IInv, TypeOK
  <2>2. ran' \in [Keys -> Nat]
    BY <1>9 DEF IInv, TypeOK
  <2> QED
    BY <1>2, <1>6, <2>1, <2>2 DEF IInv, TypeOK, Recorded
<1>11. RecordInv'
  BY <1>2, RecordsKept DEF IInv
<1>12. OwnerInv'
  BY <1>2, <1>3, <1>5, OwnerKept DEF IInv
<1>13. AnswerInv'
  <2>1. ~(q.at = "admitting")
    BY <1>4
  <2> QED
    BY <1>2, <1>3, <2>1, AnswersKept DEF IInv
<1>14. RequestInv'
  BY <1>1, <1>2, <1>5, <1>7 DEF IInv, RequestInv, Sound
<1>15. RanInv'
  <2>1. \A j \in Keys : ran'[j] <= 1 /\ (j # k => ran'[j] = ran[j])
    BY <1>9 DEF IInv, TypeOK, RanInv
  <2>2. memory[k].status = "pending"
    BY <1>8 DEF IInv, OwnerInv
  <2>3. up /\ available => \A j \in Keys : ~Recorded(j, memory) => ran'[j] = 0
    BY <2>1, <2>2 DEF IInv, RanInv, Recorded
  <2>4. ASSUME NEW s \in Requests, Owns(s)', req'[s].at \in Early
        PROVE  ran'[req'[s].key] = 0
    <3>1. s # r /\ req'[s] = req[s]
      BY <1>4, <1>7, <2>4 DEF Early
    <3>2. Owns(s)
      BY <2>4, <3>1 DEF Owns, Works
    <3>3. req[s].key \in Keys /\ req[s].op # req[r].op /\ ran[req[s].key] = 0
      BY <1>1, <2>4, <3>1, <3>2 DEF IInv, RequestInv, OwnerInv, RanInv, Owns, Early
    <3>4. req[s].key # k
      BY <1>8, <3>2, <3>3 DEF IInv, OwnerInv
    <3> QED
      BY <2>1, <3>1, <3>3, <3>4
  <2> QED
    BY <1>1, <1>2, <2>1, <2>3, <2>4 DEF RanInv, Recorded, Early
<1> QED
  BY <1>6, <1>10, <1>11, <1>12, <1>13, <1>14, <1>15 DEF IInv

-----------------------------------------------------------------------------
(* The owner's commands that write the journal.                            *)

\* The records that AdmitNew keeps: all of them, or all but the evicted one.
Kept == IF JournalFull
        THEN {[memory EXCEPT ![e] = NoRecord] : e \in Evictable} ELSE {memory}

\* A kept record is the one in memory; the evicted one was finished.
LEMMA KeptFacts ==
  ASSUME TypeOK, RecordInv, NEW records \in Kept
  PROVE  /\ records \in [Keys -> Records]
         /\ \A k \in Keys : \/ records[k] = memory[k]
                            \/ records[k] = NoRecord /\ memory[k].status = "finished"
         /\ IsFiniteSet(KeysOf(records))
         /\ Cardinality(KeysOf(records)) < MaxRecords
<1>1. IsFiniteSet(KeysOf(memory)) /\ Cardinality(KeysOf(memory)) <= MaxRecords
  BY DEF TypeOK, RecordInv, KeysOf
<1>2. Cardinality(KeysOf(memory)) \in Nat /\ MaxRecords \in Nat
  BY <1>1, FS_CardinalityType, JournalAssumption DEF JournalAssumption
<1>3. CASE JournalFull
  <2>1. PICK e \in Evictable : records = [memory EXCEPT ![e] = NoRecord]
    BY <1>3 DEF Kept
  <2>2. e \in Keys /\ memory[e].status = "finished"
    BY <2>1 DEF Evictable
  <2>3. NoRecord \in Records /\ NoRecord.status = "none"
    BY DEF NoRecord, Records, Outcomes
  <2>4. records \in [Keys -> Records] /\ records[e] = NoRecord
        /\ \A k \in Keys : k # e => records[k] = memory[k]
    BY <2>1, <2>2, <2>3 DEF TypeOK
  <2>5. KeysOf(records) = KeysOf(memory) \ {e} /\ e \in KeysOf(memory)
    BY <2>2, <2>3, <2>4 DEF KeysOf, Recorded
  <2>6. /\ IsFiniteSet(KeysOf(memory) \ {e})
        /\ Cardinality(KeysOf(memory) \ {e}) = Cardinality(KeysOf(memory)) - 1
    BY <1>1, <2>5, FS_RemoveElement
  <2> QED
    BY <1>1, <1>2, <2>2, <2>4, <2>5, <2>6
<1>4. CASE ~JournalFull
  <2>1. records = memory
    BY <1>4 DEF Kept
  <2>2. ~(Cardinality(KeysOf(memory)) >= MaxRecords)
    BY <1>4 DEF JournalFull, KeysOf
  <2> QED
    BY <1>1, <1>2, <2>1, <2>2 DEF TypeOK
<1> QED
  BY <1>3, <1>4

\* The file holds what was written, or what it held before.
LEMMA PersistFacts ==
  ASSUME NEW records, NEW written \in BOOLEAN, Persist(records, written), faults \in 0 .. MaxFaults
  PROVE  /\ journal' \in {journal, records}
         /\ written => journal' = records
         /\ faults' \in 0 .. MaxFaults
  BY JournalAssumption DEF Persist, JournalAssumption

\* A newly admitted key: its record is new to memory and journal, its
\* operation to every request and answer.
LEMMA AdmitNewInv ==
  ASSUME IInv, NEW r \in Requests, AdmitNew(r)
  PROVE  IInv'
<1> DEFINE k == req[r].key
           rec == [status |-> "pending", fp |-> req[r].fp, op |-> clock',
                   outcome |-> "none", stamp |-> clock']
<1>1. /\ Dequeue(r) /\ req[r].at = "admitting" /\ req[r] \in RequestState
      /\ up /\ available /\ ~Recorded(k, memory) /\ k \in Keys
      /\ req[r].fp \in Fingerprints /\ Sound(req[r])
  BY DEF AdmitNew, Admitting, Dequeue, IInv, TypeOK, RequestInv, Sound
<1>2. clock' = clock + 1 /\ clock \in Nat
      /\ UNCHANGED up /\ UNCHANGED available /\ UNCHANGED answers /\ UNCHANGED crashes
  BY DEF AdmitNew, IInv, TypeOK
<1>3. PICK records \in Kept, written \in BOOLEAN :
        LET updated == [records EXCEPT ![k] = rec] IN
        /\ Persist(updated, written)
        /\ memory' = IF written THEN updated ELSE memory
        /\ ran' = [j \in Keys |-> IF Recorded(j, memory') \/ Recorded(j, journal')
                                  THEN ran[j] ELSE 0]
        /\ req' = [req EXCEPT ![r].op = clock',
                              ![r].reply = IF written THEN "admitted" ELSE "unavailable"]
  BY DEF AdmitNew, Kept
<1> DEFINE updated == [records EXCEPT ![k] = rec]
           a == IF written THEN "admitted" ELSE "unavailable"
           q == [req[r] EXCEPT !.op = clock', !.reply = a]
<1>4. /\ journal' \in {journal, updated} /\ (written => journal' = updated)
      /\ faults' \in 0 .. MaxFaults
      /\ memory' = IF written THEN updated ELSE memory
      /\ ran' = [j \in Keys |-> IF Recorded(j, memory') \/ Recorded(j, journal')
                                THEN ran[j] ELSE 0]
  BY <1>3, PersistFacts DEF IInv, TypeOK
<1>5. req' = [req EXCEPT ![r] = q]
  BY <1>3 DEF IInv, TypeOK
<1>6. a \in {"admitted", "unavailable"} /\ (a = "admitted" <=> written) /\ a \notin Outcomes
      /\ a # "none"
  BY DEF Outcomes
<1> HIDE DEF a
<1>7. /\ q \in RequestState /\ q.at = "admitting" /\ q.fp = req[r].fp /\ q.key = k
      /\ q.result = req[r].result /\ q.op = clock + 1 /\ q.reply = a
  <2>1. ASSUME NEW c \in Nat
        PROVE  /\ [req[r] EXCEPT !.op = c, !.reply = a] \in RequestState
               /\ [req[r] EXCEPT !.op = c, !.reply = a].at = req[r].at
               /\ [req[r] EXCEPT !.op = c, !.reply = a].fp = req[r].fp
               /\ [req[r] EXCEPT !.op = c, !.reply = a].key = req[r].key
               /\ [req[r] EXCEPT !.op = c, !.reply = a].result = req[r].result
               /\ [req[r] EXCEPT !.op = c, !.reply = a].op = c
               /\ [req[r] EXCEPT !.op = c, !.reply = a].reply = a
    BY <1>1, <1>6 DEF RequestState, Refusals
  <2>2. clock' \in Nat
    BY <1>2
  <2> QED
    BY <1>1, <1>2, <2>1, <2>2
<1>8. /\ rec \in Records /\ rec.status = "pending" /\ rec.op = clock + 1
  BY <1>1, <1>2 DEF Records
<1> HIDE DEF q, rec
<1>9. /\ records \in [Keys -> Records]
      /\ \A j \in Keys : \/ records[j] = memory[j]
                         \/ records[j] = NoRecord /\ memory[j].status = "finished"
      /\ IsFiniteSet(KeysOf(records))
      /\ Cardinality(KeysOf(records)) < MaxRecords
  BY KeptFacts DEF IInv
<1>10. /\ updated \in [Keys -> Records] /\ updated[k] = rec
       /\ \A j \in Keys : j # k => updated[j] = records[j]
  BY <1>1, <1>8, <1>9
<1>11. IsFiniteSet(KeysOf(updated)) /\ Cardinality(KeysOf(updated)) <= MaxRecords
  <2>1. KeysOf(updated) = KeysOf(records) \cup {k}
    BY <1>1, <1>8, <1>10 DEF KeysOf, Recorded
  <2>2. Cardinality(KeysOf(records)) \in Nat /\ MaxRecords \in Nat
    BY <1>9, FS_CardinalityType, JournalAssumption DEF JournalAssumption
  <2>3. /\ IsFiniteSet(KeysOf(records) \cup {k})
        /\ \/ Cardinality(KeysOf(records) \cup {k}) = Cardinality(KeysOf(records))
           \/ Cardinality(KeysOf(records) \cup {k}) = Cardinality(KeysOf(records)) + 1
    BY <1>9, FS_AddElement
  <2>4. Cardinality(KeysOf(records)) + 1 <= MaxRecords
    BY <1>9, <2>2
  <2>5. Cardinality(KeysOf(records) \cup {k}) <= MaxRecords
    BY <1>9, <2>2, <2>3, <2>4
  <2> QED
    BY <2>1, <2>3, <2>5
<1> HIDE DEF updated
<1>12. /\ req'[r] = q
       /\ \A s \in Requests : s # r => req'[s] = req[s]
  BY <1>5 DEF IInv, TypeOK
<1>13. queue' \in Seq(Requests) /\ Len(queue') <= QueueSize /\ QueueInv'
  BY <1>1, <1>5, QueueKept DEF IInv
<1>14. memory[k] = NoRecord /\ NoRecord.status = "none" /\ NoRecord.op = 0
  BY <1>1 DEF IInv, RecordInv, WellFormed, Recorded, NoRecord
<1>15. memory' \in {memory, updated} /\ journal' \in {journal, updated}
  BY <1>4
<1>16. \A j \in Keys : j # k => updated[j] \in {memory[j], NoRecord}
                              /\ (updated[j] = NoRecord => memory[j].status # "pending")
  BY <1>9, <1>10, <1>14
<1>17. req[r].reply = "none"
  BY <1>1, DequeueFacts DEF IInv
<1>18. TypeOK'
  <2>1. memory' \in [Keys -> Records] /\ journal' \in [Keys -> Records]
    BY <1>10, <1>15 DEF IInv, TypeOK
  <2>2. /\ Cardinality({j \in Keys : Recorded(j, memory')}) <= MaxRecords
        /\ Cardinality({j \in Keys : Recorded(j, journal')}) <= MaxRecords
    BY <1>11, <1>15 DEF IInv, TypeOK, KeysOf
  <2>3. ran' \in [Keys -> Nat]
    BY <1>4 DEF IInv, TypeOK
  <2>4. req' \in [Requests -> RequestState]
    BY <1>5, <1>7 DEF IInv, TypeOK
  <2>5. clock' \in Nat
    BY <1>2
  <2> QED
    BY <1>2, <1>4, <1>13, <2>1, <2>2, <2>3, <2>4, <2>5 DEF IInv, TypeOK
<1>19. RecordInv'
  <2>1. \A j \in Keys : WellFormed(memory[j]) /\ WellFormed(journal[j])
    BY DEF IInv, RecordInv
  <2>2. \A j \in Keys : WellFormed(updated[j]) \/ updated[j] = rec
    BY <1>10, <1>14, <1>16, <2>1 DEF WellFormed
  <2>3. clock + 1 \in 1 .. clock'
    BY <1>2
  <2>4. \A i \in 1 .. clock : i \in 1 .. clock'
    BY <1>2
  <2>5. \A j \in Keys : /\ WellFormed(memory[j])'
                        /\ WellFormed(journal[j])'
    BY <1>8, <1>15, <2>1, <2>2, <2>3, <2>4 DEF WellFormed
  <2>6. IsFiniteSet(KeysOf(memory)') /\ IsFiniteSet(KeysOf(journal)')
    BY <1>11, <1>15 DEF IInv, RecordInv, KeysOf
  <2>7. ASSUME NEW j \in Keys, memory'[j].status = "finished", journal'[j].op = memory'[j].op
        PROVE  journal'[j].status = "finished" /\ journal'[j].outcome = memory'[j].outcome
    <3>1. CASE written
      BY <1>4, <2>7, <3>1
    <3>2. CASE ~written /\ journal' = journal
      BY <1>4, <2>7, <3>2 DEF IInv, RecordInv
    <3>3. CASE ~written /\ journal' = updated
      <4>1. memory'[j] = memory[j] /\ j # k
        BY <1>4, <1>14, <2>7, <3>3
      <4>2. memory[j].op # 0
        BY <2>1, <2>7, <4>1, <1>2 DEF WellFormed
      <4>3. journal'[j] = memory[j]
        BY <1>14, <1>16, <2>7, <3>3, <4>1, <4>2
      <4> QED
        BY <2>7, <4>1, <4>3
    <3> QED
      BY <1>4, <3>1, <3>2, <3>3
  <2> QED
    BY <1>1, <1>2, <2>5, <2>6, <2>7 DEF RecordInv
<1>20. RequestInv'
  <2>1. \A s \in Requests : req[s].op <= clock /\ req[s].op \in Nat
    BY DEF IInv, TypeOK, RequestInv, RequestState
  <2>2. \A s \in Requests : s # r => req[s].op <= clock'
    BY <1>2, <2>1
  <2>3. q.op <= clock'
    BY <1>2, <1>7
  <2>4. \A s \in Requests : s # r =>
          /\ req'[s].at = "new" => req'[s].reply = "none"
          /\ req'[s].at \notin {"new", "done"} => req'[s].key \in Keys /\ req'[s].fp \in Fingerprints
          /\ req'[s].at \in {"admitted", "mutating", "mutated", "completing"} =>
               req'[s].reply = "admitted"
          /\ req'[s].at \in {"new", "admitting", "admitted", "mutating"} => req'[s].result = "none"
          /\ req'[s].at \in {"mutated", "completing"} => req'[s].result # "none"
          /\ req'[s].op <= clock'
    BY <1>12, <2>2 DEF IInv, RequestInv
  <2>5. q.result = "none"
    BY <1>1, <1>7 DEF Sound
  <2> QED
    BY <1>1, <1>2, <1>7, <1>12, <2>3, <2>4, <2>5 DEF RequestInv
<1>21. OwnerInv'
  <2>1. \A s \in Requests : req[s].op # q.op
    BY <1>2, <1>7 DEF IInv, TypeOK, RequestInv, RequestState
  <2>2. \A s, t \in Requests :
          req'[s].reply = "admitted" /\ req'[t].reply = "admitted" /\ req'[s].op = req'[t].op => s = t
    BY <1>12, <2>1 DEF IInv, OwnerInv
  <2>3. \A j \in Keys : memory[j].status = "pending" => memory'[j] = memory[j]
    BY <1>14, <1>15, <1>16
  <2>4. ASSUME NEW s \in Requests, Owns(s)'
        PROVE  memory'[req'[s].key].op = req'[s].op /\ memory'[req'[s].key].status = "pending"
    <3>1. CASE s = r
      BY <1>4, <1>7, <1>6, <1>8, <1>10, <1>12, <2>4, <3>1 DEF Owns
    <3>2. CASE s # r
      <4>1. Owns(s) /\ req'[s] = req[s] /\ req[s].key \in Keys
        BY <1>12, <2>4, <3>2 DEF Owns, Works, IInv, RequestInv
      <4> QED
        BY <2>3, <4>1 DEF IInv, OwnerInv
    <3> QED
      BY <3>1, <3>2
  <2>5. ASSUME NEW j \in Keys, memory'[j].status = "pending"
        PROVE  \E s \in Requests : /\ req'[s].key = j /\ req'[s].op = memory'[j].op
                                   /\ req'[s].reply = "admitted"
                                   /\ (Works(s) \/ GaveUp(s) \/ Unwritten(s))'
    <3>1. CASE j = k
      <4>1. written
        BY <1>4, <1>14, <2>5, <3>1
      <4>2. memory'[k] = rec
        BY <1>4, <1>10, <4>1
      <4>3. /\ req'[r].key = j /\ req'[r].op = memory'[j].op
            /\ req'[r].reply = "admitted" /\ Works(r)'
        BY <1>7, <1>6, <1>8, <1>12, <3>1, <4>1, <4>2 DEF Works
      <4> QED
        BY <4>3
    <3>2. CASE j # k
      <4>1. memory'[j] = memory[j]
        BY <1>14, <1>15, <1>16, <2>5, <3>2
      <4>2. PICK s \in Requests : /\ req[s].key = j /\ req[s].op = memory[j].op
                                  /\ req[s].reply = "admitted"
                                  /\ Works(s) \/ GaveUp(s) \/ Unwritten(s)
        BY <2>5, <4>1 DEF IInv, OwnerInv
      <4>3. req'[s] = req[s]
        BY <1>12, <1>17, <4>2
      <4>4. (Works(s) \/ GaveUp(s) \/ Unwritten(s))'
        BY <4>2, <4>3 DEF Works, GaveUp, Unwritten
      <4> QED
        BY <4>1, <4>2, <4>3, <4>4
    <3> QED
      BY <3>1, <3>2
  <2> QED
    BY <2>2, <2>4, <2>5 DEF OwnerInv
<1>22. RanInv'
  <2>1. \A j \in Keys : ran'[j] \in {0, ran[j]} /\ ran[j] <= 1 /\ ran[j] \in Nat
    BY <1>4 DEF IInv, RanInv, TypeOK
  <2>2. \A j \in Keys : ran'[j] <= 1
    BY <2>1
  <2>3. \A j \in Keys : ~Recorded(j, memory) => ran[j] = 0
    BY <1>1 DEF IInv, RanInv
  <2>4. ASSUME NEW j \in Keys, ~Recorded(j, memory')
        PROVE  ran'[j] = 0
    <3>1. CASE written
      BY <1>4, <2>4, <3>1
    <3>2. CASE ~written
      <4>1. ~Recorded(j, memory)
        BY <1>4, <2>4, <3>2
      <4> QED
        BY <2>1, <2>3, <4>1
    <3> QED
      BY <3>1, <3>2
  <2>5. ASSUME NEW s \in Requests, Owns(s)', req'[s].at \in Early
        PROVE  ran'[req'[s].key] = 0
    <3>1. CASE s = r
      BY <1>1, <1>7, <1>12, <2>1, <2>3, <3>1
    <3>2. CASE s # r
      <4>1. Owns(s) /\ req'[s] = req[s] /\ req[s].key \in Keys
        BY <1>12, <2>5, <3>2 DEF Owns, Works, IInv, RequestInv
      <4>2. ran[req[s].key] = 0
        BY <2>5, <4>1 DEF IInv, RanInv, Early
      <4> QED
        BY <2>1, <4>1, <4>2
    <3> QED
      BY <3>1, <3>2
  <2> QED
    BY <1>1, <1>2, <2>2, <2>4, <2>5 DEF RanInv, Recorded, Early
<1>23. AnswerInv'
  <2>1. ASSUME NEW j \in Keys, NEW op, NEW outcome, Durable(j, op, outcome)
        PROVE  Durable(j, op, outcome)'
    <3>1. op \in 1 .. clock' /\ op # 0 /\ op # rec.op
      BY <1>2, <1>8, <2>1 DEF Durable
    <3>2. \/ updated[j].op # op
          \/ updated[j] = memory[j]
      BY <1>10, <1>14, <1>16, <3>1
    <3>3. memory'[j].op = op => memory'[j].status = "finished" /\ memory'[j].outcome = outcome
      BY <1>15, <2>1, <3>2 DEF Durable
    <3>4. journal'[j].op = op => journal'[j].status = "finished" /\ journal'[j].outcome = outcome
      BY <1>15, <2>1, <3>2 DEF Durable
    <3> QED
      BY <3>1, <3>3, <3>4 DEF Durable
  <2>2. \A x \in answers : x.key \in Keys
    BY DEF IInv, TypeOK
  <2>3. \A x \in answers' : Durable(x.key, x.op, x.outcome)'
    BY <1>2, <2>1, <2>2 DEF IInv, AnswerInv
  <2>4. ASSUME NEW s \in Requests, req'[s].at = "admitting", req'[s].reply \in Outcomes
        PROVE  Durable(req[s].key, req[s].op, req[s].reply)'
    <3>1. s # r /\ req'[s] = req[s]
      BY <1>7, <1>6, <1>12, <2>4
    <3>2. Durable(req[s].key, req[s].op, req[s].reply) /\ req[s].key \in Keys
      BY <2>4, <3>1 DEF IInv, AnswerInv, RequestInv
    <3> QED
      BY <2>1, <3>1, <3>2
  <2> QED
    BY <2>3, <2>4 DEF AnswerInv
<1> QED
  BY <1>13, <1>18, <1>19, <1>20, <1>21, <1>22, <1>23 DEF IInv

\* A result is recorded where the operation was admitted, and nowhere else.
LEMMA CompleteInv ==
  ASSUME IInv, NEW r \in Requests, Complete(r)
  PROVE  IInv'
<1> DEFINE k == req[r].key
           rec == [memory[k] EXCEPT !.status = "finished", !.outcome = req[r].result,
                                    !.stamp = clock']
           updated == [memory EXCEPT ![k] = rec]
           q == [req[r] EXCEPT !.at = "done"]
<1>1. /\ Dequeue(r) /\ req[r].at = "completing" /\ req[r] \in RequestState /\ up
      /\ Sound(req[r]) /\ k \in Keys /\ req[r].reply = "admitted"
      /\ req[r].result \in {"ok", "error"}
  <2>1. Dequeue(r) /\ req[r].at = "completing" /\ req[r] \in RequestState /\ up
    BY DEF Complete, Dequeue, IInv, TypeOK
  <2>2. req[r].result \in {"none", "ok", "error"}
    BY <2>1 DEF RequestState
  <2> QED
    BY <2>1, <2>2 DEF IInv, RequestInv, Sound
<1>2. clock' = clock + 1 /\ clock \in Nat /\ clock' \in Nat
      /\ UNCHANGED up /\ UNCHANGED available /\ UNCHANGED ran /\ UNCHANGED crashes
  BY DEF Complete, IInv, TypeOK
<1>3. PICK written \in BOOLEAN :
        /\ Persist(updated, written)
        /\ memory' = IF written THEN updated ELSE memory
        /\ IF written THEN Answer(r, rec.op, rec.outcome) ELSE UNCHANGED answers
  BY DEF Complete
<1>4. /\ journal' \in {journal, updated} /\ (written => journal' = updated)
      /\ faults' \in 0 .. MaxFaults
      /\ memory' = IF written THEN updated ELSE memory
  BY <1>3, PersistFacts DEF IInv, TypeOK
<1>5. req' = [req EXCEPT ![r] = q]
  BY DEF Complete, IInv, TypeOK
<1>6. memory[k] \in Records /\ memory[k].op = req[r].op /\ memory[k].status = "pending"
      /\ memory[k].op \in 1 .. clock
  BY <1>1 DEF IInv, TypeOK, OwnerInv, Owns, Works, RecordInv, WellFormed
<1>7. /\ rec \in Records /\ rec.status = "finished" /\ rec.op = req[r].op
      /\ rec.outcome = req[r].result /\ rec.outcome \in Outcomes
  <2>1. ASSUME NEW c \in Nat, NEW m \in Records
        PROVE  /\ [m EXCEPT !.status = "finished", !.outcome = req[r].result, !.stamp = c]
                    \in Records
               /\ [m EXCEPT !.status = "finished", !.outcome = req[r].result, !.stamp = c].status
                    = "finished"
               /\ [m EXCEPT !.status = "finished", !.outcome = req[r].result, !.stamp = c].op
                    = m.op
               /\ [m EXCEPT !.status = "finished", !.outcome = req[r].result, !.stamp = c].outcome
                    = req[r].result
    BY <1>1 DEF Records, Outcomes
  <2>2. req[r].result \in Outcomes
    BY <1>1 DEF Outcomes
  <2> QED
    BY <1>2, <1>6, <2>1, <2>2
<1>8. /\ q \in RequestState /\ q.at = "done" /\ q.key = k /\ q.fp = req[r].fp
      /\ q.reply = "admitted" /\ q.result = req[r].result /\ q.op = req[r].op
  BY <1>1 DEF RequestState
<1>9. answers' = IF written THEN answers \cup {[key |-> k, op |-> req[r].op,
                                                outcome |-> req[r].result]} ELSE answers
  BY <1>3, <1>7 DEF Answer
<1> HIDE DEF q, rec
<1>10. /\ updated \in [Keys -> Records] /\ updated[k] = rec
       /\ \A j \in Keys : j # k => updated[j] = memory[j]
  BY <1>1, <1>7 DEF IInv, TypeOK
<1>11. KeysOf(updated) = KeysOf(memory)
  BY <1>1, <1>6, <1>7, <1>10 DEF KeysOf, Recorded
<1> HIDE DEF updated
<1>12. /\ req'[r] = q
       /\ \A s \in Requests : s # r => req'[s] = req[s]
  BY <1>5 DEF IInv, TypeOK
<1>13. queue' \in Seq(Requests) /\ Len(queue') <= QueueSize /\ QueueInv'
  BY <1>1, <1>5, QueueKept DEF IInv
<1>14. memory' \in {memory, updated} /\ journal' \in {journal, updated}
  BY <1>4
<1>15. up /\ available
  BY <1>1, <1>6 DEF IInv, RecordInv, NoRecord
<1>16. KeepsRecord(req[r], q)
  BY <1>1, <1>8 DEF KeepsRecord, Working, Left
<1>17. TypeOK'
  <2>1. memory' \in [Keys -> Records] /\ journal' \in [Keys -> Records]
    BY <1>10, <1>14 DEF IInv, TypeOK
  <2>2. /\ Cardinality({j \in Keys : Recorded(j, memory')}) <= MaxRecords
        /\ Cardinality({j \in Keys : Recorded(j, journal')}) <= MaxRecords
    BY <1>11, <1>14 DEF IInv, TypeOK, KeysOf
  <2>3. req' \in [Requests -> RequestState]
    BY <1>5, <1>8 DEF IInv, TypeOK
  <2>4. req[r].op \in Nat
    BY <1>1 DEF RequestState
  <2>5. answers' \subseteq [key: Keys, op: Nat, outcome: Outcomes]
    BY <1>1, <1>7, <1>9, <2>4 DEF IInv, TypeOK
  <2> QED
    BY <1>2, <1>4, <1>13, <2>1, <2>2, <2>3, <2>5 DEF IInv, TypeOK
<1>18. RecordInv'
  <2>1. \A j \in Keys : WellFormed(memory[j]) /\ WellFormed(journal[j])
    BY DEF IInv, RecordInv
  <2>2. \A j \in Keys : WellFormed(updated[j])
    BY <1>6, <1>7, <1>10, <2>1 DEF WellFormed
  <2>3. \A i \in 1 .. clock : i \in 1 .. clock'
    BY <1>2
  <2>4. \A j \in Keys : /\ WellFormed(memory[j])'
                        /\ WellFormed(journal[j])'
    BY <1>14, <2>1, <2>2, <2>3 DEF WellFormed
  <2>5. IsFiniteSet(KeysOf(memory)') /\ IsFiniteSet(KeysOf(journal)')
    BY <1>11, <1>14 DEF IInv, RecordInv, KeysOf
  <2>6. ASSUME NEW j \in Keys, memory'[j].status = "finished", journal'[j].op = memory'[j].op
        PROVE  journal'[j].status = "finished" /\ journal'[j].outcome = memory'[j].outcome
    <3>1. CASE written
      BY <1>4, <2>6, <3>1
    <3>2. CASE ~written /\ journal' = journal
      BY <1>4, <2>6, <3>2 DEF IInv, RecordInv
    <3>3. CASE ~written /\ journal' = updated
      <4>1. memory'[j] = memory[j] /\ j # k
        BY <1>4, <1>6, <2>6, <3>3
      <4> QED
        BY <1>10, <2>6, <3>3, <4>1
    <3> QED
      BY <1>4, <3>1, <3>2, <3>3
  <2> QED
    BY <1>2, <1>15, <2>4, <2>5, <2>6 DEF RecordInv
<1>19. RequestInv'
  <2>1. \A s \in Requests : req[s].op <= clock /\ req[s].op \in Nat
    BY DEF IInv, TypeOK, RequestInv, RequestState
  <2>2. \A s \in Requests : req'[s].op <= clock'
    BY <1>2, <1>8, <1>12, <2>1
  <2>3. \A s \in Requests : s # r =>
          /\ req'[s].at = "new" => req'[s].reply = "none"
          /\ req'[s].at \notin {"new", "done"} => req'[s].key \in Keys /\ req'[s].fp \in Fingerprints
          /\ req'[s].at \in {"admitted", "mutating", "mutated", "completing"} =>
               req'[s].reply = "admitted"
          /\ req'[s].at \in {"new", "admitting", "admitted", "mutating"} => req'[s].result = "none"
          /\ req'[s].at \in {"mutated", "completing"} => req'[s].result # "none"
    BY <1>12 DEF IInv, RequestInv
  <2> QED
    BY <1>1, <1>2, <1>8, <1>12, <2>2, <2>3 DEF RequestInv
<1>20. OwnerInv'
  <2>1. \A s, t \in Requests :
          req'[s].reply = "admitted" /\ req'[t].reply = "admitted" /\ req'[s].op = req'[t].op => s = t
    BY <1>1, <1>8, <1>12 DEF IInv, OwnerInv
  <2>2. ASSUME NEW s \in Requests, Owns(s)'
        PROVE  memory'[req'[s].key].op = req'[s].op /\ memory'[req'[s].key].status = "pending"
    <3>1. s # r /\ req'[s] = req[s]
      BY <1>8, <1>12, <2>2 DEF Owns, Works
    <3>2. Owns(s) /\ req[s].key \in Keys
      BY <2>2, <3>1 DEF Owns, Works, IInv, RequestInv
    <3>3. memory[req[s].key].op = req[s].op /\ memory[req[s].key].status = "pending"
      BY <3>2 DEF IInv, OwnerInv
    <3>4. req[s].op # req[r].op
      BY <1>1, <3>1, <3>2 DEF IInv, OwnerInv, Owns
    <3>5. req[s].key # k
      BY <1>6, <3>3, <3>4
    <3> QED
      BY <1>10, <1>14, <3>1, <3>2, <3>3, <3>5
  <2>3. ASSUME NEW j \in Keys, memory'[j].status = "pending"
        PROVE  \E s \in Requests : /\ req'[s].key = j /\ req'[s].op = memory'[j].op
                                   /\ req'[s].reply = "admitted"
                                   /\ (Works(s) \/ GaveUp(s) \/ Unwritten(s))'
    <3>1. memory'[j] = memory[j]
      BY <1>7, <1>10, <1>14, <2>3
    <3>2. PICK s \in Requests : /\ req[s].key = j /\ req[s].op = memory[j].op
                                /\ req[s].reply = "admitted"
                                /\ Works(s) \/ GaveUp(s) \/ Unwritten(s)
      BY <2>3, <3>1 DEF IInv, OwnerInv
    <3>3. CASE s = r
      <4>1. Unwritten(r)'
        BY <1>1, <1>8, <1>12 DEF Unwritten
      <4> QED
        BY <1>8, <1>12, <3>1, <3>2, <3>3, <4>1
    <3>4. CASE s # r
      <4>1. req'[s] = req[s]
        BY <1>12, <3>4
      <4>2. (Works(s) \/ GaveUp(s) \/ Unwritten(s))'
        BY <3>2, <4>1 DEF Works, GaveUp, Unwritten
      <4> QED
        BY <3>1, <3>2, <4>1, <4>2
    <3> QED
      BY <3>3, <3>4
  <2> QED
    BY <2>1, <2>2, <2>3 DEF OwnerInv
<1>21. RanInv'
  <2>1. \A j \in Keys : Recorded(j, memory') <=> Recorded(j, memory)
    BY <1>6, <1>7, <1>10, <1>14 DEF Recorded
  <2>2. ASSUME NEW s \in Requests, Owns(s)', req'[s].at \in Early
        PROVE  ran[req'[s].key] = 0
    <3>1. s # r /\ req'[s] = req[s]
      BY <1>8, <1>12, <2>2 DEF Owns, Works
    <3>2. Owns(s)
      BY <2>2, <3>1 DEF Owns, Works
    <3> QED
      BY <2>2, <3>1, <3>2 DEF IInv, RanInv, Early
  <2>3. up /\ available => \A j \in Keys : ~Recorded(j, memory') => ran[j] = 0
    BY <2>1 DEF IInv, RanInv
  <2> QED
    BY <1>1, <1>2, <2>2, <2>3 DEF IInv, RanInv, Recorded, Early
<1>22. AnswerInv'
  <2>1. ASSUME NEW j \in Keys, NEW op, NEW outcome, Durable(j, op, outcome)
        PROVE  Durable(j, op, outcome)'
    <3>1. op \in 1 .. clock'
      BY <1>2, <2>1 DEF Durable
    <3>2. \/ updated[j].op # op
          \/ updated[j] = memory[j]
      BY <1>6, <1>7, <1>10, <2>1 DEF Durable
    <3>3. memory'[j].op = op => memory'[j].status = "finished" /\ memory'[j].outcome = outcome
      BY <1>14, <2>1, <3>2 DEF Durable
    <3>4. journal'[j].op = op => journal'[j].status = "finished" /\ journal'[j].outcome = outcome
      BY <1>14, <2>1, <3>2 DEF Durable
    <3> QED
      BY <3>1, <3>3, <3>4 DEF Durable
  <2>2. \A x \in answers : x.key \in Keys
    BY DEF IInv, TypeOK
  <2>3. ASSUME written, NEW op, NEW outcome, NEW c \in Keys,
               c = k, op = req[r].op, outcome = req[r].result
        PROVE  Durable(c, op, outcome)'
    <3>1. op \in 1 .. clock'
      BY <1>2, <1>6, <2>3
    <3>2. memory' = updated /\ journal' = updated
      BY <1>4, <2>3
    <3>3. updated[c].status = "finished" /\ updated[c].outcome = outcome
      BY <1>7, <1>10, <2>3
    <3> QED
      BY <3>1, <3>2, <3>3 DEF Durable
  <2>4. \A x \in answers' : Durable(x.key, x.op, x.outcome)'
    <3> TAKE x \in answers'
    <3>1. CASE x \in answers
      BY <2>1, <2>2, <3>1 DEF IInv, AnswerInv
    <3>2. CASE written /\ x = [key |-> k, op |-> req[r].op, outcome |-> req[r].result]
      <4>1. x.key = k /\ x.op = req[r].op /\ x.outcome = req[r].result
        BY <3>2
      <4> QED
        BY <1>1, <2>3, <3>2, <4>1
    <3> QED
      BY <1>9, <3>1, <3>2
  <2>5. ASSUME NEW s \in Requests, req'[s].at = "admitting", req'[s].reply \in Outcomes
        PROVE  Durable(req[s].key, req[s].op, req[s].reply)' /\ req'[s] = req[s]
    <3>1. s # r /\ req'[s] = req[s]
      BY <1>8, <1>12, <2>5
    <3>2. Durable(req[s].key, req[s].op, req[s].reply) /\ req[s].key \in Keys
      BY <2>5, <3>1 DEF IInv, AnswerInv, RequestInv
    <3> QED
      BY <2>1, <3>1, <3>2
  <2> QED
    BY <2>4, <2>5 DEF AnswerInv
<1> QED
  BY <1>13, <1>17, <1>18, <1>19, <1>20, <1>21, <1>22 DEF IInv

-----------------------------------------------------------------------------
(* The manager stops and starts.                                           *)

Empty == [k \in Keys |-> NoRecord]

LEMMA EmptyFacts ==
  /\ Empty \in [Keys -> Records]
  /\ \A k \in Keys : Empty[k] = NoRecord /\ Empty[k].status = "none" /\ Empty[k].op = 0
  /\ KeysOf(Empty) = {}
  /\ IsFiniteSet(KeysOf(Empty)) /\ Cardinality(KeysOf(Empty)) <= MaxRecords
<1>1. NoRecord \in Records /\ NoRecord.status = "none" /\ NoRecord.op = 0
  BY DEF NoRecord, Records
<1>2. /\ Empty \in [Keys -> Records]
      /\ \A k \in Keys : Empty[k] = NoRecord
  BY <1>1 DEF Empty
<1>3. KeysOf(Empty) = {}
  BY <1>1, <1>2 DEF KeysOf, Recorded
<1>4. IsFiniteSet(KeysOf(Empty)) /\ Cardinality(KeysOf(Empty)) = 0
  BY <1>3, FS_EmptySet
<1> QED
  BY <1>1, <1>2, <1>3, <1>4, JournalAssumption DEF JournalAssumption

\* The journal alone survives; it has what was answered.
LEMMA CrashInv ==
  ASSUME IInv, Crash
  PROVE  IInv'
<1>1. /\ up' = FALSE /\ queue' = << >> /\ memory' = Empty /\ crashes' \in 0 .. MaxCrashes
      /\ UNCHANGED available /\ UNCHANGED journal /\ UNCHANGED clock /\ UNCHANGED answers
      /\ UNCHANGED faults
  BY JournalAssumption DEF Crash, Empty, IInv, TypeOK, JournalAssumption
<1>2. \A s \in Requests : req'[s] = IF req[s].at = "new" THEN req[s]
                                    ELSE [req[s] EXCEPT !.at = "done"]
  BY DEF Crash
<1>3. ASSUME NEW s \in Requests
      PROVE  /\ req'[s] \in RequestState /\ req'[s].at \in {"new", "done"}
             /\ req'[s].at = "new" => req'[s] = req[s]
             /\ req'[s].reply = req[s].reply /\ req'[s].op = req[s].op
  <2>1. req[s] \in RequestState
    BY DEF IInv, TypeOK
  <2>2. [req[s] EXCEPT !.at = "done"] \in RequestState
    BY <2>1 DEF RequestState
  <2>3. /\ [req[s] EXCEPT !.at = "done"].at = "done"
        /\ [req[s] EXCEPT !.at = "done"].reply = req[s].reply
        /\ [req[s] EXCEPT !.at = "done"].op = req[s].op
    BY <2>1 DEF RequestState
  <2> QED
    BY <1>2, <2>1, <2>2, <2>3
<1>4. ran' = [j \in Keys |-> IF Recorded(j, journal) THEN ran[j] ELSE 0]
  BY DEF Crash
<1>5. TypeOK'
  <2>1. req' \in [Requests -> RequestState]
    <3>1. req' = [s \in Requests |-> req'[s]]
      BY DEF Crash
    <3> QED
      BY <1>3, <3>1
  <2>2. ran' \in [Keys -> Nat]
    BY <1>4 DEF IInv, TypeOK
  <2>3. queue' \in Seq(Requests) /\ Len(queue') <= QueueSize
    BY <1>1, JournalAssumption DEF JournalAssumption
  <2>4. Cardinality({j \in Keys : Recorded(j, memory')}) <= MaxRecords
    BY <1>1, EmptyFacts DEF KeysOf
  <2>5. Cardinality({j \in Keys : Recorded(j, journal')}) <= MaxRecords
    BY <1>1 DEF IInv, TypeOK
  <2>6. memory' \in [Keys -> Records]
    BY <1>1, EmptyFacts
  <2> QED
    BY <1>1, <2>1, <2>2, <2>3, <2>4, <2>5, <2>6 DEF IInv, TypeOK
<1>6. RecordInv'
  <2>1. IsFiniteSet(KeysOf(memory)') /\ IsFiniteSet(KeysOf(journal)')
    BY <1>1, EmptyFacts DEF IInv, RecordInv, KeysOf
  <2>2. \A j \in Keys : WellFormed(memory[j])' /\ WellFormed(journal[j])'
    BY <1>1, EmptyFacts DEF IInv, RecordInv, WellFormed
  <2> QED
    BY <1>1, <2>1, <2>2, EmptyFacts DEF RecordInv, Empty
<1>7. QueueInv'
  BY <1>1 DEF QueueInv
<1>8. RequestInv'
  BY <1>1, <1>3 DEF IInv, RequestInv
<1>9. OwnerInv'
  BY <1>1, <1>3, EmptyFacts DEF IInv, OwnerInv, Owns, Works
<1>10. RanInv'
  <2>1. \A s \in Requests : ~Owns(s)'
    BY <1>3 DEF Owns, Works
  <2>2. \A j \in Keys : ran'[j] \in {0, ran[j]} /\ (~Recorded(j, journal) => ran'[j] = 0)
    BY <1>4
  <2>3. \A j \in Keys : ran'[j] <= 1
    BY <2>2 DEF IInv, RanInv
  <2> QED
    BY <1>1, <2>1, <2>2, <2>3 DEF RanInv, Recorded
<1>11. AnswerInv'
  <2>1. ASSUME NEW j \in Keys, NEW op, NEW outcome, Durable(j, op, outcome)
        PROVE  Durable(j, op, outcome)'
    BY <1>1, <2>1, EmptyFacts DEF Durable
  <2>2. \A x \in answers : x.key \in Keys
    BY DEF IInv, TypeOK
  <2> QED
    BY <1>1, <1>3, <2>1, <2>2 DEF IInv, AnswerInv
<1> QED
  BY <1>5, <1>6, <1>7, <1>8, <1>9, <1>10, <1>11 DEF IInv

\* Interrupted mutations end uncertain; what was answered stays as it was.
LEMMA LoadInv ==
  ASSUME IInv, Load
  PROVE  IInv'
<1> DEFINE loaded == [k \in Keys |-> Loaded(journal[k])]
<1>1. /\ ~up /\ up' = TRUE /\ clock' = clock + 1 /\ clock \in Nat
      /\ UNCHANGED queue /\ UNCHANGED req /\ UNCHANGED ran /\ UNCHANGED answers
      /\ UNCHANGED crashes
  BY DEF Load, IInv, TypeOK
<1>2. PICK written \in BOOLEAN :
        /\ Persist(loaded, written)
        /\ available' = written
        /\ memory' = IF written THEN loaded ELSE Empty
  BY DEF Load, Empty
<1>3. /\ journal' \in {journal, loaded} /\ (written => journal' = loaded)
      /\ faults' \in 0 .. MaxFaults
  BY <1>2, PersistFacts DEF IInv, TypeOK
<1>4. ASSUME NEW j \in Keys
      PROVE  /\ loaded[j] \in Records /\ loaded[j].op = journal[j].op
             /\ loaded[j].status # "pending"
             /\ loaded[j] = journal[j]
                  \/ (journal[j].status = "pending" /\ loaded[j].status = "finished"
                        /\ loaded[j].outcome = "uncertain")
  <2>1. journal[j] \in Records /\ clock + 1 \in Nat
    BY <1>1 DEF IInv, TypeOK
  <2>2. loaded[j] = Loaded(journal[j])
    OBVIOUS
  <2> HIDE DEF loaded
  <2>3. CASE journal[j].status = "pending"
    <3>1. loaded[j] = [journal[j] EXCEPT !.status = "finished", !.outcome = "uncertain",
                                         !.stamp = clock + 1]
      BY <2>2, <2>3 DEF Loaded
    <3> QED
      BY <2>1, <2>3, <3>1 DEF Records, Outcomes
  <2>4. CASE journal[j].status # "pending"
    <3>1. loaded[j] = journal[j]
      BY <2>2, <2>4 DEF Loaded
    <3> QED
      BY <2>1, <2>4, <3>1
  <2> QED
    BY <2>3, <2>4
<1>5. loaded \in [Keys -> Records]
  BY <1>4
<1>6. KeysOf(loaded) = KeysOf(journal)
  BY <1>4 DEF KeysOf, Recorded
<1> HIDE DEF loaded
<1>7. memory' \in {loaded, Empty} /\ journal' \in {journal, loaded}
  BY <1>2, <1>3
<1>8. \A s \in Requests : req[s].at \in {"new", "done"}
  BY <1>1 DEF IInv, RequestInv
<1>9. TypeOK'
  <2>1. memory' \in [Keys -> Records] /\ journal' \in [Keys -> Records]
    BY <1>5, <1>7, EmptyFacts DEF IInv, TypeOK
  <2>2. Cardinality(KeysOf(journal)) <= MaxRecords
    BY DEF IInv, TypeOK, KeysOf
  <2>3. /\ Cardinality({j \in Keys : Recorded(j, memory')}) <= MaxRecords
        /\ Cardinality({j \in Keys : Recorded(j, journal')}) <= MaxRecords
    BY <1>6, <1>7, <2>2, EmptyFacts DEF KeysOf
  <2>4. available' \in BOOLEAN /\ clock' \in Nat
    BY <1>1, <1>2
  <2> QED
    BY <1>1, <1>3, <2>1, <2>3, <2>4 DEF IInv, TypeOK
<1>10. RecordInv'
  <2>1. IsFiniteSet(KeysOf(memory)') /\ IsFiniteSet(KeysOf(journal)')
    BY <1>6, <1>7, EmptyFacts DEF IInv, RecordInv, KeysOf
  <2>2. \A i \in 1 .. clock : i \in 1 .. clock'
    BY <1>1
  <2>3. \A j \in Keys : WellFormed(journal[j])
    BY DEF IInv, RecordInv
  <2>4. \A j \in Keys : WellFormed(loaded[j])
    BY <1>4, <2>3 DEF WellFormed, Outcomes
  <2>5. \A j \in Keys : WellFormed(Empty[j])
    BY EmptyFacts DEF WellFormed
  <2>6. \A j \in Keys : WellFormed(memory[j])' /\ WellFormed(journal[j])'
    BY <1>7, <2>2, <2>3, <2>4, <2>5 DEF WellFormed
  <2>7. ASSUME NEW j \in Keys, memory'[j].status = "finished"
        PROVE  journal'[j] = memory'[j]
    BY <1>2, <1>3, <2>7, EmptyFacts
  <2> QED
    BY <1>1, <1>2, <2>1, <2>6, <2>7 DEF RecordInv, Empty
<1>11. QueueInv' /\ RequestInv'
  <2>1. \A s \in Requests : req[s].op <= clock'
    <3>1. \A s \in Requests : req[s].op \in Nat /\ req[s].op <= clock
      BY DEF IInv, TypeOK, RequestInv, RequestState
    <3> QED
      BY <1>1, <3>1
  <2> QED
    BY <1>1, <1>8, <2>1 DEF IInv, QueueInv, RequestInv
<1>12. \A s \in Requests : ~Owns(s)'
  BY <1>1, <1>8 DEF Owns, Works
<1>13. OwnerInv'
  <2>1. \A j \in Keys : memory'[j].status # "pending"
    BY <1>4, <1>7, EmptyFacts
  <2> QED
    BY <1>1, <1>12, <2>1 DEF IInv, OwnerInv
<1>14. RanInv'
  <2>1. \A j \in Keys : ~Recorded(j, journal) => ran[j] = 0
    BY <1>1 DEF IInv, RanInv
  <2>2. \A j \in Keys : Recorded(j, loaded) <=> Recorded(j, journal)
    BY <1>6 DEF KeysOf
  <2>3. written => \A j \in Keys : ~Recorded(j, memory') => ran[j] = 0
    BY <1>2, <2>1, <2>2
  <2> QED
    BY <1>1, <1>2, <1>12, <2>3 DEF IInv, RanInv, Recorded
<1>15. AnswerInv'
  <2>1. ASSUME NEW j \in Keys, NEW op, NEW outcome, Durable(j, op, outcome)
        PROVE  Durable(j, op, outcome)'
    <3>1. op \in 1 .. clock' /\ op # 0
      BY <1>1, <2>1 DEF Durable
    <3>2. loaded[j].op = op => loaded[j] = journal[j]
      BY <1>4, <2>1 DEF Durable
    <3> QED
      BY <1>7, <2>1, <3>1, <3>2, EmptyFacts DEF Durable
  <2>2. \A x \in answers : x.key \in Keys
    BY DEF IInv, TypeOK
  <2> QED
    BY <1>1, <1>8, <2>1, <2>2 DEF IInv, AnswerInv
<1> QED
  BY <1>9, <1>10, <1>11, <1>13, <1>14, <1>15 DEF IInv

-----------------------------------------------------------------------------
(* The theorems.                                                           *)

LEMMA InitIInv == Init => IInv
<1> SUFFICES ASSUME Init PROVE IInv
  OBVIOUS
<1>1. memory = Empty /\ journal = Empty
  BY DEF Init, Empty
<1>2. Idle \in RequestState
  BY DEF Idle, RequestState
<1>3. \A r \in Requests : req[r] = Idle /\ req[r].at = "new" /\ req[r].reply = "none"
        /\ req[r].result = "none" /\ req[r].op = 0
  BY DEF Init, Idle
<1>4. TypeOK
  <2>1. req \in [Requests -> RequestState]
    BY <1>2 DEF Init
  <2>2. queue \in Seq(Requests) /\ Len(queue) <= QueueSize
    BY JournalAssumption DEF Init, JournalAssumption
  <2>3. /\ Cardinality({j \in Keys : Recorded(j, memory)}) <= MaxRecords
        /\ Cardinality({j \in Keys : Recorded(j, journal)}) <= MaxRecords
    BY <1>1, EmptyFacts DEF KeysOf
  <2>4. faults \in 0 .. MaxFaults /\ crashes \in 0 .. MaxCrashes
    BY JournalAssumption DEF Init, JournalAssumption
  <2>5. memory \in [Keys -> Records] /\ journal \in [Keys -> Records]
    BY <1>1, EmptyFacts
  <2> QED
    BY <2>1, <2>2, <2>3, <2>4, <2>5 DEF Init, TypeOK
<1>5. RecordInv
  BY <1>1, EmptyFacts DEF RecordInv, WellFormed, Empty, Init
<1>6. QueueInv
  BY DEF Init, QueueInv
<1>7. RequestInv
  BY <1>3 DEF Init, RequestInv
<1>8. OwnerInv
  BY <1>1, <1>3, EmptyFacts DEF OwnerInv, Owns, Works
<1>9. RanInv
  BY <1>3 DEF Init, RanInv, Owns, Works
<1>10. AnswerInv
  BY <1>3 DEF Init, AnswerInv
<1> QED
  BY <1>4, <1>5, <1>6, <1>7, <1>8, <1>9, <1>10 DEF IInv

LEMMA NextIInv == IInv /\ [Next]_vars => IInv'
<1> SUFFICES ASSUME IInv, [Next]_vars PROVE IInv'
  OBVIOUS
<1>1. CASE UNCHANGED vars
  <2>1. KeysOf(memory)' = KeysOf(memory) /\ KeysOf(journal)' = KeysOf(journal)
    BY <1>1 DEF vars, KeysOf, Recorded
  <2>2. TypeOK' /\ QueueInv' /\ RequestInv'
    BY <1>1 DEF vars, IInv, TypeOK, QueueInv, RequestInv, Recorded
  <2>3. RecordInv'
    BY <1>1, RecordsKept DEF vars, IInv
  <2>4. OwnerInv' /\ RanInv'
    BY <1>1 DEF vars, IInv, OwnerInv, RanInv, Owns, Works, GaveUp, Unwritten, Recorded
  <2>5. AnswerInv'
    BY <1>1 DEF vars, IInv, AnswerInv, Durable
  <2> QED
    BY <2>2, <2>3, <2>4, <2>5 DEF IInv
<1>2. ASSUME NEW r \in Requests, NEW k \in Keys, NEW f \in Fingerprints, Submit(r, k, f)
      PROVE  IInv'
  BY <1>2, SubmitInv
<1>3. ASSUME NEW r \in Requests, Expire(r) PROVE IInv'
  BY <1>3, ExpireInv
<1>4. ASSUME NEW r \in Requests, Goroutine(r) PROVE IInv'
  BY <1>4, GiveUpInv, TakeReplyInv, SubmitMutationInv, SubmitCompletionInv DEF Goroutine
<1>5. ASSUME NEW r \in Requests, Execute(r) PROVE IInv'
  BY <1>5, SkipExpiredInv, AdmitUnavailableInv, AdmitKnownInv, AdmitNewInv, MutateInv,
     CompleteInv DEF Execute
<1>6. CASE Crash
  BY <1>6, CrashInv
<1>7. CASE Load
  BY <1>7, LoadInv
<1> QED
  BY <1>1, <1>2, <1>3, <1>4, <1>5, <1>6, <1>7 DEF Next

\* The inductive invariant holds of every run of the mailbox and its journal.
THEOREM Invariance == Spec => []IInv
  BY InitIInv, NextIInv, PTL DEF Spec

\* A key runs its mutation at most once while the journal remembers it, whatever
\* its clients retry, whichever writes fail and wherever the manager stops
\* (admitIdempotentMutation, completeIdempotentMutation, loadIdempotencyRecords).
THEOREM RunsAtMostOnce == Spec => []AtMostOnce
<1>1. IInv => AtMostOnce
  BY DEF IInv, RanInv, AtMostOnce
<1> QED
  BY <1>1, Invariance, PTL

\* A result a client received stays the recorded one: no later write, eviction or
\* restart changes it (completeIdempotentMutation replies after persistIdempotencyRecords).
THEOREM AnswersAreDurable == Spec => []AnswersDurable
<1>1. IInv => AnswersDurable
  BY DEF IInv, AnswerInv, Durable, AnswersDurable
<1> QED
  BY <1>1, Invariance, PTL

\* A mutation in progress keeps its pending record until it completes, and a
\* pending record has a goroutine, or one that ended in one of the two known ways
\* (runIdempotentMutation, admitIdempotentMutation).
THEOREM RecordsHaveWorkers == Spec => []RecordsMatchWorkers
<1>1. IInv => RecordsMatchWorkers
  <2> SUFFICES ASSUME IInv PROVE RecordsMatchWorkers
    OBVIOUS
  <2>1. \A r \in Requests :
          req[r].at \in {"admitted", "mutating", "mutated", "completing"} =>
            memory[req[r].key].op = req[r].op /\ memory[req[r].key].status = "pending"
    BY DEF IInv, RequestInv, OwnerInv, Owns, Works
  <2>2. \A k \in Keys : memory[k].status = "pending" =>
          \E r \in Requests : /\ req[r].op = memory[k].op /\ req[r].reply = "admitted"
                              /\ Works(r) \/ GaveUp(r) \/ Unwritten(r)
    BY DEF IInv, OwnerInv
  <2> QED
    BY <2>1, <2>2 DEF IInv, RecordsMatchWorkers
<1> QED
  BY <1>1, Invariance, PTL

=============================================================================
