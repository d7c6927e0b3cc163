---------------------------- MODULE SessionsProofs ----------------------------
(***************************************************************************)
(* Proofs about Sessions, for any boards, nodes and identifiers, any size  *)
(* of the mailbox, the table of operations and the journal, and any number *)
(* of sessions, mutations and keyboards that come and go.                  *)
(***************************************************************************)
EXTENDS Sessions, TLAPS, FiniteSetTheorems, SequenceTheorems,
        WellFoundedInduction

-----------------------------------------------------------------------------
(* The inductive invariant.                                                *)

\* No two operations of the table have one identifier, and no operation has a
\* later place than the table has operations.
TableInv ==
  /\ IsFiniteSet(ops)
  /\ \A o, p \in ops : o.id = p.id => o = p
  /\ \A o \in ops : o.at <= Cardinality(ops)

\* Every identifier in use was issued, to one operation.
IssuedInv ==
  /\ \A o \in ops : o.id < nextOp
  /\ \A k \in Kinds : session[k] # None => session[k].op < nextOp
  /\ \A j, k \in Kinds :
       session[j] # None /\ session[k] # None /\ session[j].op = session[k].op => j = k
  /\ \A w \in waiters : w.op < nextOp
  /\ \A i \in 1 .. Len(mailbox) : mailbox[i].do # "start" => mailbox[i].op < nextOp

CountInv ==
  /\ Cardinality(Mutations) <= MaxMutations
  /\ nextOp <= MaxSessions + Cardinality(Mutations) + 1

\* The operations of the table that wait are those of the current sessions.
WaitingInv ==
  /\ \A o \in ops : o.state = "waiting" => o.id \in Current(session) /\ o.kind # "keyed"
  /\ \A id \in Current(session) : \E o \in ops : o.id = id /\ o.state = "waiting"

\* No child has a board that a session reads.
HeldInv == running \cap Held(session) = {}

\* A result on its way to the owner happened to its session, or the session
\* was cancelled and is not current any more.
HappenedTo(op, result) ==
  result \in why[op] \/ (result = "cancel" /\ op \notin Current(session))

ResultInv ==
  /\ \A w \in waiters : w.result # None => HappenedTo(w.op, w.result)
  /\ \A i \in 1 .. Len(mailbox) :
       mailbox[i].do = "finish" => HappenedTo(mailbox[i].op, mailbox[i].result)

\* Two boards are never at one node.
NodeInv == \A a, b \in Boards : node[a] # None /\ node[a] = node[b] => a = b

\* A start is for a kind that has no session; while no board came or went, the
\* node it found is that of the only board with the identifier it was given.
Undisturbed(s) ==
  /\ s.want = None => BoardsOf(s.id) = {} /\ s.node = None
  /\ s.want # None =>
       /\ s.want \in BoardsOf(s.id) \ (Virtual \cap Named)
       /\ s.node # None => s.node = node[s.want]

StartInv ==
  starting # None =>
    session[starting.kind] = None /\ (starting.moved \/ Undisturbed(starting))

IInv ==
  /\ TypeOK /\ TableInv /\ IssuedInv /\ CountInv /\ WaitingInv /\ HeldInv /\ ResultInv
  /\ OutcomeTrue /\ NodeInv /\ StartInv

-----------------------------------------------------------------------------
(* The table of operations, as a set of rows.                              *)

Row == [id: OpIds, kind: Kinds \cup {"keyed"}, state: Final \cup {"waiting"}, at: Nat]

IsTable(T) ==
  T \subseteq Row /\ IsFiniteSet(T) /\ \A o, p \in T : o.id = p.id => o = p

Same(o, p) == o.id = p.id /\ o.kind = p.kind /\ o.state = p.state

\* Giving the operations their places anew changes nothing else, keeps all of
\* them, and leaves no place beyond their number.
LEMMA RankedFacts ==
  ASSUME NEW T, IsTable(T)
  PROVE  /\ IsTable(Ranked(T))
         /\ \A o \in Ranked(T) : o.at <= Cardinality(Ranked(T))
         /\ \A o \in Ranked(T) : \E p \in T : Same(o, p)
         /\ \A p \in T : \E o \in Ranked(T) : Same(o, p)
         /\ Cardinality(Records(T)) <= Cardinality(Records(Ranked(T)))
<1> DEFINE place(o) == Cardinality({p \in T : p.at <= o.at})
           f == [o \in T |-> [o EXCEPT !.at = place(o)]]
           R == Ranked(T)
<1>1. \A o \in T : place(o) \in Nat /\ place(o) <= Cardinality(T)
  <2> TAKE o \in T
  <2> DEFINE S == {p \in T : p.at <= o.at}
  <2>1. S \in SUBSET T /\ IsFiniteSet(T)
    BY DEF IsTable
  <2>2. IsFiniteSet(S) /\ Cardinality(S) <= Cardinality(T)
    <3> HIDE DEF S
    <3> QED
      BY <2>1, FS_Subset
  <2>3. Cardinality(S) \in Nat
    <3> HIDE DEF S
    <3> QED
      BY <2>2, FS_CardinalityType
  <2> QED
    BY <2>2, <2>3
<1>2. R = {f[o] : o \in T}
  BY DEF Ranked
<1> HIDE DEF R, place
<1>3. \A o \in T : f[o] \in Row /\ Same(f[o], o) /\ f[o].at = place(o)
  BY <1>1 DEF IsTable, Row, Same
<1> HIDE DEF f
<1>4. DOMAIN f = T /\ f \in [T -> R]
  BY <1>2 DEF f
<1>5. f \in Bijection(T, R)
  <2>1. \A a, b \in T : f[a] = f[b] => a = b
    BY <1>3 DEF Same, IsTable
  <2> QED
    BY <1>2, <1>4, <2>1 DEF Bijection, Injection, Surjection, IsInjective
<1>6. IsFiniteSet(R) /\ Cardinality(R) = Cardinality(T)
  BY <1>5, FS_Bijection DEF IsTable, ExistsBijection
<1>7. IsTable(R)
  BY <1>2, <1>3, <1>6 DEF IsTable, Same
<1>8. \A o \in R : o.at <= Cardinality(R)
  BY <1>1, <1>2, <1>3, <1>6
<1>9. (\A o \in R : \E p \in T : Same(o, p)) /\ (\A p \in T : \E o \in R : Same(o, p))
  BY <1>2, <1>3
<1>10. Cardinality(Records(T)) <= Cardinality(Records(R))
  <2> DEFINE g == [o \in Records(T) |-> f[o]]
  <2>1. \A o \in Records(T) : o \in T /\ f[o] \in Records(R)
    BY <1>2, <1>3 DEF Records, Same
  <2>2. g \in [Records(T) -> Records(R)]
    BY <2>1
  <2>3. \A a, b \in Records(T) : g[a] = g[b] => a = b
    BY <1>5, <2>1 DEF Bijection, Injection, IsInjective
  <2>4. g \in Injection(Records(T), Records(R))
    BY <2>2, <2>3 DEF Injection, IsInjective
  <2>5. IsFiniteSet(Records(R))
    BY <1>6, FS_Subset DEF Records
  <2> QED
    BY <2>4, <2>5, FS_Injection
<1> QED
  BY <1>7, <1>8, <1>9, <1>10 DEF R

\* The operation that is updated has the last place.
LEMMA UpdatedFacts ==
  ASSUME NEW T, IsTable(T), \A o \in T : o.at <= Cardinality(T),
         NEW id \in OpIds, NEW kind \in Kinds \cup {"keyed"},
         NEW state \in Final \cup {"waiting"}
  PROVE  LET U == Updated(T, id, kind, state)
             new == [id |-> id, kind |-> kind, state |-> state, at |-> Cardinality(T) + 1]
         IN /\ IsTable(U) /\ new \in U
            /\ \A o \in U : o = new \/ (o \in T /\ o.id # id /\ o.at < new.at)
            /\ \A o \in T : o.id # id => o \in U
<1> DEFINE new == [id |-> id, kind |-> kind, state |-> state, at |-> Cardinality(T) + 1]
           rest == {o \in T : o.id # id}
           U == Updated(T, id, kind, state)
<1>1. Cardinality(T) \in Nat
  BY FS_CardinalityType DEF IsTable
<1>2. new \in Row /\ new.id = id /\ new.at = Cardinality(T) + 1
  BY <1>1 DEF Row
<1>3. U = rest \cup {new}
  BY DEF Updated
<1>4. IsFiniteSet(rest)
  BY FS_Subset DEF IsTable
<1>5. IsFiniteSet(U)
  <2> HIDE DEF U, rest, new
  <2> QED
    BY <1>3, <1>4, FS_AddElement
<1>6. \A o \in U : o = new \/ (o \in T /\ o.id # id /\ o.at < new.at)
  <2>1. \A o \in T : o.at \in Nat
    BY DEF IsTable, Row
  <2> QED
    BY <1>1, <1>2, <1>3, <2>1
<1>7. IsTable(U)
  <2> HIDE DEF U, new
  <2> QED
    BY <1>2, <1>5, <1>6 DEF IsTable
<1> QED
  BY <1>3, <1>6, <1>7

\* A set of naturals that is not empty has a smallest element.
LEMMA LeastElement ==
  ASSUME NEW T, T \subseteq Nat, T # {}
  PROVE  \E x \in T : \A y \in T : x <= y
<1>1. PICK x \in T : \A y \in T : ~ (<<y, x>> \in OpToRel(<, Nat))
  BY WFMin, NatLessThanWellFounded
<1>2. \A y \in T : ~ (y < x)
  BY <1>1 DEF OpToRel
<1> QED
  BY <1>2

Free(T, sess) == {o \in T \ Records(T) : o.id \notin Current(sess)}

\* Pruning keeps the operations of the journal and of the current sessions, and
\* changes nothing of what it keeps.
LEMMA PruneFacts ==
  ASSUME NEW T, IsTable(T), NEW sess
  PROVE  LET P == PruneOperations(T, sess)
         IN /\ IsTable(P)
            /\ \A o \in P : o.at <= Cardinality(P)
            /\ \A o \in P : \E p \in T : Same(o, p)
            /\ \A p \in T : p.kind = "keyed" \/ p.id \in Current(sess)
                              => \E o \in P : Same(o, p)
            /\ \A p \in T \ Excess(T, Free(T, sess)) : \E o \in P : Same(o, p)
            /\ Cardinality(Records(T)) <= Cardinality(Records(P))
<1> DEFINE E == Excess(T, Free(T, sess))
           K == T \ E
           P == PruneOperations(T, sess)
<1>1. P = Ranked(K)
  BY DEF PruneOperations, Free
<1>2. E \subseteq Free(T, sess)
  BY DEF Excess
<1>3. K \subseteq T /\ Records(K) = Records(T)
  BY <1>2 DEF Free, Records
<1>4. IsTable(K)
  <2> HIDE DEF K
  <2>1. IsFiniteSet(K)
    BY <1>3, FS_Subset DEF IsTable
  <2> QED
    BY <1>3, <2>1 DEF IsTable
<1>5. \A p \in T : p.kind = "keyed" \/ p.id \in Current(sess) => p \in K
  BY <1>2 DEF Free, Records
<1>6. /\ IsTable(P)
      /\ \A o \in P : o.at <= Cardinality(P)
      /\ \A o \in P : \E p \in K : Same(o, p)
      /\ \A p \in K : \E o \in P : Same(o, p)
      /\ Cardinality(Records(K)) <= Cardinality(Records(P))
  <2> HIDE DEF K, P
  <2> QED
    BY <1>1, <1>4, RankedFacts
<1> HIDE DEF E, P
<1> QED
  BY <1>3, <1>5, <1>6 DEF E, P

LEMMA CurrentFinite ==
  ASSUME NEW sess
  PROVE  IsFiniteSet(Current(sess))
<1> DEFINE A == {sess["identify"].op} \cup {sess["probe"].op}
<1>1. Current(sess) \subseteq A
  BY DEF Current, Kinds
<1>2. IsFiniteSet(A)
  BY FS_Singleton, FS_AddElement
<1> HIDE DEF A
<1> QED
  BY <1>1, <1>2, FS_Subset

\* A session's operation that has just ended, which is the latest of all, is
\* dropped only when the journal and the other session fill the table.
LEMMA LatestKept ==
  ASSUME NEW T, IsTable(T), NEW sess, NEW new \in T,
         \A o \in T \ {new} : o.at < new.at,
         new.kind # "keyed", new.id \notin Current(sess),
         new \in Excess(T, Free(T, sess))
  PROVE  Cardinality(Records(T)) + Cardinality(Current(sess)) >= MaxOps
<1> DEFINE F == Free(T, sess)
           C == {o \in T \ Records(T) : o.id \in Current(sess)}
<1>1. MaxOps \in Nat
  BY SessionsAssumption
<1>2. F \subseteq T /\ C \subseteq T /\ Records(T) \subseteq T /\ T \ F = Records(T) \cup C
  BY DEF Free, Records
<1>3. new \in F
  BY DEF Free, Records
<1>4. {p \in F : p.at < new.at} = F \ {new}
  <2>1. new.at \in Nat
    BY DEF IsTable, Row
  <2> QED
    BY <1>2, <2>1
<1> DEFINE N == T \ F
<1>5. /\ IsFiniteSet(F) /\ IsFiniteSet(C) /\ IsFiniteSet(Records(T)) /\ IsFiniteSet(N)
      /\ IsFiniteSet(T)
  <2> HIDE DEF F, C
  <2>1. IsFiniteSet(T)
    BY DEF IsTable
  <2> QED
    BY <1>2, <2>1, FS_Subset
<1> HIDE DEF F, C
<1>6. Cardinality(F \ {new}) = Cardinality(F) - 1
  BY <1>3, <1>5, FS_RemoveElement
<1>7. Cardinality(F) - 1 + MaxOps < Cardinality(T)
  BY <1>4, <1>6 DEF Excess, F
<1>8. Cardinality(N) = Cardinality(T) - Cardinality(F)
  <2>1. T \cap F = F
    BY <1>2
  <2> QED
    BY <1>5, <2>1, FS_Difference
<1>9. Cardinality(N) <= Cardinality(Records(T)) + Cardinality(C)
  <2>1. IsFiniteSet(Records(T) \cap C)
    BY <1>5, FS_Subset
  <2>2. Cardinality(Records(T) \cap C) \in Nat
    BY <2>1, FS_CardinalityType
  <2>3. Cardinality(Records(T) \cup C)
          = Cardinality(Records(T)) + Cardinality(C) - Cardinality(Records(T) \cap C)
    BY <1>5, FS_Union
  <2>4. Cardinality(Records(T)) \in Nat /\ Cardinality(C) \in Nat
    BY <1>5, FS_CardinalityType
  <2>5. N = Records(T) \cup C
    BY <1>2
  <2>6. \A a, b, c \in Nat : a + b - c <= a + b
    OBVIOUS
  <2> HIDE DEF N
  <2> QED
    BY <2>2, <2>3, <2>4, <2>5, <2>6
<1>10. IsFiniteSet(Current(sess))
  BY CurrentFinite
<1>11. Cardinality(C) <= Cardinality(Current(sess))
  <2> DEFINE g == [o \in C |-> o.id]
  <2>1. \A o \in C : o \in T /\ o.id \in Current(sess)
    BY <1>2 DEF C
  <2>2. g \in [C -> Current(sess)] /\ \A a, b \in C : g[a] = g[b] => a = b
    BY <2>1 DEF IsTable
  <2>3. g \in Injection(C, Current(sess))
    <3> HIDE DEF g
    <3> QED
      BY <2>2 DEF Injection, IsInjective
  <2> QED
    BY <1>10, <2>3, FS_Injection
<1>12. /\ Cardinality(F) \in Nat /\ Cardinality(T) \in Nat /\ Cardinality(C) \in Nat
       /\ Cardinality(Records(T)) \in Nat /\ Cardinality(Current(sess)) \in Nat
       /\ Cardinality(N) \in Nat
  BY <1>5, <1>10, FS_CardinalityType
<1> HIDE DEF N
<1>13. Cardinality(N) >= MaxOps
  BY <1>1, <1>7, <1>8, <1>12
<1> QED
  BY <1>1, <1>9, <1>11, <1>12, <1>13

\* What a mutation leaves in the table before it is pruned: its own operation,
\* and all the others but perhaps a record.
LEMMA JournaledFacts ==
  ASSUME NEW T, IsTable(T), \A o \in T : o.at <= Cardinality(T), NEW id \in OpIds,
         \A o \in T : o.id # id
  PROVE  LET J == Journaled(T, id)
         IN /\ IsTable(J)
            /\ \A o \in J : o \in T \/ (o.id = id /\ o.kind = "keyed" /\ o.state = "succeeded")
            /\ \A o \in T : o.kind # "keyed" => o \in J
            /\ \E o \in J : o.id = id /\ o.kind = "keyed" /\ o.state = "succeeded"
<1> DEFINE U == Updated(T, id, "keyed", "succeeded")
           J == Journaled(T, id)
           new == [id |-> id, kind |-> "keyed", state |-> "succeeded",
                   at |-> Cardinality(T) + 1]
<1>1. /\ IsTable(U)
      /\ \A o \in U : o = new \/ o \in T
      /\ \A o \in T : o \in U
      /\ new \in U
  <2>1. "keyed" \in Kinds \cup {"keyed"} /\ "succeeded" \in Final \cup {"waiting"}
    BY DEF Final
  <2> QED
    BY <2>1, UpdatedFacts
<1>2. new.id = id /\ new.kind = "keyed" /\ new.state = "succeeded"
  OBVIOUS
<1> HIDE DEF U, new
<1>3. Cardinality(Records(T)) >= MaxRecords =>
        \E o \in Records(T) : \A p \in Records(T) : o.at <= p.at
  <2> SUFFICES ASSUME Cardinality(Records(T)) >= MaxRecords
               PROVE  \E o \in Records(T) : \A p \in Records(T) : o.at <= p.at
    OBVIOUS
  <2> DEFINE S == {o.at : o \in Records(T)}
  <2>1. Records(T) # {}
    <3>1. MaxRecords \in Nat \ {0} /\ Cardinality({}) = 0
      BY SessionsAssumption, FS_EmptySet
    <3> QED
      BY <3>1
  <2>2. S \subseteq Nat /\ S # {}
    BY <2>1 DEF IsTable, Row, Records
  <2>3. PICK t \in S : \A u \in S : t <= u
    <3> HIDE DEF S
    <3> QED
      BY <2>2, LeastElement
  <2> QED
    BY <2>3
<1> DEFINE oldest == CHOOSE o \in Records(T) : \A p \in Records(T) : o.at <= p.at
           gone == IF Cardinality(Records(T)) >= MaxRecords THEN {oldest} ELSE {}
<1>4. J = U \ gone
  BY DEF Journaled, U
<1>5. \A o \in gone : o \in Records(T)
  BY <1>3
<1> HIDE DEF gone, J
<1>6. IsTable(J)
  <2>1. IsFiniteSet(J) /\ J \subseteq U
    BY <1>1, <1>4, FS_Subset DEF IsTable
  <2> QED
    BY <1>1, <2>1 DEF IsTable
<1>7. \A o \in J : o \in T \/ (o.id = id /\ o.kind = "keyed" /\ o.state = "succeeded")
  BY <1>1, <1>2, <1>4
<1>8. \A o \in T : o.kind # "keyed" => o \in J
  BY <1>1, <1>4, <1>5 DEF Records
<1>9. new \in J
  BY <1>1, <1>2, <1>4, <1>5 DEF Records
<1> QED
  BY <1>2, <1>6, <1>7, <1>8, <1>9 DEF J

-----------------------------------------------------------------------------
(* The mailbox, the roles, and steps that leave the table alone.           *)

LEMMA DequeueFacts ==
  ASSUME TypeOK, NEW what, Takes(what)
  PROVE  /\ mailbox' \in Seq(Commands) /\ Len(mailbox') <= MailboxSize
         /\ \A i \in 1 .. Len(mailbox') : \E j \in 1 .. Len(mailbox) : mailbox'[i] = mailbox[j]
         /\ 1 \in 1 .. Len(mailbox) /\ Head(mailbox) = mailbox[1]
         /\ Head(mailbox) \in Commands /\ Head(mailbox).do = what
<1>1. mailbox \in Seq(Commands) /\ mailbox # << >> /\ mailbox' = Tail(mailbox)
  BY DEF TypeOK, Takes
<1>2. MailboxSize \in Nat /\ Len(mailbox) <= MailboxSize /\ Len(mailbox) \in Nat
  BY <1>1, SessionsAssumption DEF TypeOK
<1>3. Len(mailbox) >= 1 /\ Head(mailbox) = mailbox[1] /\ Head(mailbox) \in Commands
  BY <1>1
<1>4. mailbox' \in Seq(Commands) /\ Len(mailbox') = Len(mailbox) - 1
  BY <1>1
<1>5. ASSUME NEW i \in 1 .. Len(mailbox')
      PROVE  \E j \in 1 .. Len(mailbox) : mailbox'[i] = mailbox[j]
  <2>1. i + 1 \in 1 .. Len(mailbox)
    BY <1>2, <1>4
  <2>2. mailbox'[i] = mailbox[i + 1]
    BY <1>1, <1>4
  <2> QED
    BY <2>1, <2>2
<1> QED
  BY <1>2, <1>3, <1>4, <1>5 DEF Takes

LEMMA SubmitFacts ==
  ASSUME TypeOK, NEW c \in Commands, Submit(c)
  PROVE  /\ mailbox' \in Seq(Commands) /\ Len(mailbox') <= MailboxSize
         /\ \A i \in 1 .. Len(mailbox') :
              mailbox'[i] = c \/ \E j \in 1 .. Len(mailbox) : mailbox'[i] = mailbox[j]
<1>1. mailbox \in Seq(Commands) /\ mailbox' = Append(mailbox, c) /\ Len(mailbox) < MailboxSize
  BY DEF TypeOK, Submit
<1>2. MailboxSize \in Nat /\ Len(mailbox) \in Nat
  BY <1>1, SessionsAssumption
<1>3. mailbox' \in Seq(Commands) /\ Len(mailbox') = Len(mailbox) + 1
  BY <1>1
<1>4. ASSUME NEW i \in 1 .. Len(mailbox')
      PROVE  mailbox'[i] = c \/ \E j \in 1 .. Len(mailbox) : mailbox'[i] = mailbox[j]
  <2>1. CASE i = Len(mailbox) + 1
    BY <1>1, <1>2, <2>1
  <2>2. CASE i # Len(mailbox) + 1
    <3>1. i \in 1 .. Len(mailbox)
      BY <1>2, <1>3, <2>2
    <3> QED
      BY <1>1, <3>1
  <2> QED
    BY <2>1, <2>2
<1> QED
  BY <1>1, <1>2, <1>3, <1>4

LEMMA RolesTyped ==
  ASSUME NEW known \in [Ids -> {"unknown", "input", "output"}]
  PROVE  RefreshDevices(known) \in [Ids -> {"unknown", "input", "output"}]
BY DEF RefreshDevices, ClassifyDeviceRole, RetainedRole

LEMMA WhereTheyAre ==
  ASSUME node' = node
  PROVE  Present' = Present /\ \A id : BoardsOf(id)' = BoardsOf(id)
BY DEF BoardsOf, Present, PublicId

\* Boards that are present together have identifiers of their own.
LEMMA OneBoard ==
  ASSUME NEW id, NEW a \in BoardsOf(id), NEW b \in BoardsOf(id)
  PROVE  a = b
<1>1. a \in Boards /\ b \in Boards /\ a \in Present /\ b \in Present /\ PublicId(a) = PublicId(b)
  BY DEF BoardsOf, Present
<1>2. a # b => /\ Topology[a] # Topology[b] /\ Topology[a] # Identity[b]
               /\ Topology[b] # Identity[a]
  BY <1>1, SessionsAssumption
<1>3. a # b => PublicId(a) # PublicId(b)
  BY <1>1, <1>2 DEF PublicId
<1> QED
  BY <1>1, <1>3

\* What happened to a session stays so, and is not undone by a newer session.
LEMMA StillHappened ==
  ASSUME NEW op, NEW result, HappenedTo(op, result),
         why[op] \subseteq why'[op],
         op \in Current(session') => op \in Current(session)
  PROVE  HappenedTo(op, result)'
BY DEF HappenedTo

\* A step that adds to the history what a session did.
Adds(happened) ==
  /\ why' \in [OpIds -> SUBSET Happenings]
  /\ \A id \in OpIds : /\ why[id] \subseteq why'[id]
                       /\ why'[id] \subseteq why[id] \cup happened

LEMMA TableUntouched ==
  ASSUME IInv, UNCHANGED <<session, ops, nextOp>>,
         NEW happened, Adds(happened), {"mutation", "wrong"} \cap happened = {}
  PROVE  TableInv' /\ CountInv' /\ WaitingInv' /\ OutcomeTrue'
<1>1. TableInv' /\ WaitingInv'
  BY DEF IInv, TableInv, WaitingInv
<1>2. \A id \in OpIds : /\ why[id] \subseteq why'[id]
                        /\ "mutation" \in why'[id] <=> "mutation" \in why[id]
                        /\ "wrong" \in why'[id] <=> "wrong" \in why[id]
  BY DEF Adds
<1>3. CountInv'
  <2>1. nextOp - 1 <= MaxSessions + MaxMutations /\ nextOp \in Nat
    BY SessionsAssumption DEF IInv, TypeOK
  <2>2. 1 .. nextOp - 1 \subseteq OpIds
    BY <2>1, SessionsAssumption DEF OpIds
  <2>3. Mutations' = Mutations
    BY <1>2, <2>2 DEF Mutations
  <2> QED
    BY <2>3 DEF IInv, CountInv
<1>4. OutcomeTrue'
  <2>1. \A o \in ops : o.id \in OpIds
    BY DEF IInv, TypeOK
  <2> QED
    BY <1>2, <2>1 DEF IInv, OutcomeTrue
<1> QED
  BY <1>1, <1>3, <1>4

-----------------------------------------------------------------------------
(* Each step keeps the invariant.                                          *)

\* The owner takes a command and changes at most the roles and the start.
LEMMA MailboxInv ==
  ASSUME IInv, UNCHANGED <<session, ops, nextOp, waiters, running, why>>,
         \A i \in 1 .. Len(mailbox') : \E j \in 1 .. Len(mailbox) : mailbox'[i] = mailbox[j]
  PROVE  /\ TableInv' /\ IssuedInv' /\ CountInv' /\ WaitingInv' /\ HeldInv' /\ ResultInv'
         /\ OutcomeTrue'
<1>1. Adds({})
  BY DEF Adds, IInv, TypeOK
<1>2. TableInv' /\ CountInv' /\ WaitingInv' /\ OutcomeTrue'
  BY <1>1, TableUntouched
<1>3. IssuedInv'
  BY DEF IInv, IssuedInv
<1>4. HeldInv'
  BY DEF IInv, HeldInv, Held
<1>5. \A op, result : HappenedTo(op, result) => HappenedTo(op, result)'
  BY DEF HappenedTo
<1>6. ResultInv'
  <2>1. \A w \in waiters' : w.result # None => HappenedTo(w.op, w.result)'
    BY <1>5 DEF IInv, ResultInv
  <2>2. ASSUME NEW i \in 1 .. Len(mailbox')
        PROVE  \E c : mailbox'[i] = c /\ (c.do = "finish" => HappenedTo(c.op, c.result)')
    <3>1. PICK j \in 1 .. Len(mailbox) : mailbox'[i] = mailbox[j]
      OBVIOUS
    <3>2. PICK c : c = mailbox[j]
      OBVIOUS
    <3>3. c.do = "finish" => HappenedTo(c.op, c.result)
      BY <3>2 DEF IInv, ResultInv
    <3> QED
      BY <1>5, <3>1, <3>2, <3>3
  <2> QED
    BY <2>1, <2>2 DEF ResultInv, HappenedTo
<1> QED
  BY <1>2, <1>3, <1>4, <1>6

LEMMA ExpiredInv ==
  ASSUME IInv, Expired
  PROVE  IInv'
<1>1. PICK what : Takes(what)
  BY DEF Expired
<1>2. UNCHANGED <<life, node, role, starting, session, ops, nextOp, waiters, running, why,
                  hotplugs>>
  BY DEF Expired
<1>3. /\ mailbox' \in Seq(Commands) /\ Len(mailbox') <= MailboxSize
      /\ \A i \in 1 .. Len(mailbox') : \E j \in 1 .. Len(mailbox) : mailbox'[i] = mailbox[j]
  BY <1>1, DequeueFacts DEF IInv
<1>4. TypeOK'
  BY <1>2, <1>3 DEF IInv, TypeOK
<1>5. NodeInv'
  BY <1>2 DEF IInv, NodeInv
<1>6. StartInv'
  BY <1>2, WhereTheyAre DEF IInv, StartInv, Undisturbed
<1> QED
  BY <1>2, <1>3, <1>4, <1>5, <1>6, MailboxInv DEF IInv

LEMMA BeginStartInv ==
  ASSUME IInv, BeginStart
  PROVE  IInv'
<1>1. PICK c : c = Head(mailbox)
  OBVIOUS
<1>2. /\ Takes("start")
      /\ UNCHANGED <<life, node, session, ops, nextOp, waiters, running, why, hotplugs>>
  BY DEF BeginStart
<1>3. /\ mailbox' \in Seq(Commands) /\ Len(mailbox') <= MailboxSize
      /\ \A i \in 1 .. Len(mailbox') : \E j \in 1 .. Len(mailbox) : mailbox'[i] = mailbox[j]
      /\ c \in Commands /\ c.do = "start"
  BY <1>1, <1>2, DequeueFacts DEF IInv
<1>4. c.kind \in Kinds /\ c.id \in Ids
  BY <1>3 DEF Commands
<1>5. starting = None
  BY <1>2 DEF Takes
<1> DEFINE want == IF BoardsOf(c.id) = {} THEN None ELSE CHOOSE b \in BoardsOf(c.id) : TRUE
           start == [kind |-> c.kind, id |-> c.id, node |-> None, moved |-> FALSE,
                     want |-> want]
<1>6. \/ UNCHANGED <<role, starting>>
      \/ /\ session[c.kind] = None
         /\ role' = RefreshDevices(role)
         /\ starting' = IF role'[c.id] = "output" THEN None ELSE start
  BY <1>1 DEF BeginStart
<1>7. want # None => want \in BoardsOf(c.id)
  OBVIOUS
<1>8. want = None => BoardsOf(c.id) = {}
  BY SessionsAssumption DEF BoardsOf, Present
<1>9. want \in Boards \cup {None}
  BY <1>7 DEF BoardsOf, Present
<1>10. start.kind = c.kind /\ start.id = c.id /\ start.node = None /\ start.moved = FALSE
       /\ start.want = want
  OBVIOUS
<1>11. start \in [kind: Kinds, id: Ids, want: Boards \cup {None}, moved: BOOLEAN,
                  node: Nodes \cup {None}]
  BY <1>4, <1>9
<1>12. TypeOK'
  <2>1. role' \in [Ids -> {"unknown", "input", "output"}]
    BY <1>6, RolesTyped DEF IInv, TypeOK
  <2>2. starting' = None \/ starting' = start
    BY <1>5, <1>6
  <2> QED
    BY <1>2, <1>3, <1>11, <2>1, <2>2 DEF IInv, TypeOK
<1>13. NodeInv'
  BY <1>2 DEF IInv, NodeInv
<1>14. StartInv'
  <2> SUFFICES ASSUME starting' # None, NEW s, s = starting'
               PROVE  session'[s.kind] = None /\ Undisturbed(s)'
    BY DEF StartInv, Undisturbed
  <2>1. /\ session[c.kind] = None /\ starting' = start /\ role' = RefreshDevices(role)
        /\ role'[c.id] # "output"
    BY <1>5, <1>6
  <2>2. want # None => want \notin Virtual \cap Named
    <3> SUFFICES ASSUME want # None, want \in Virtual, want \in Named PROVE FALSE
      OBVIOUS
    <3>1. BoardsOf(c.id) # {} /\ want = (CHOOSE b \in BoardsOf(c.id) : TRUE)
      OBVIOUS
    <3>2. role'[c.id] = ClassifyDeviceRole(want, role[c.id])
      <4> HIDE DEF want
      <4> QED
        BY <1>4, <2>1, <3>1 DEF RefreshDevices
    <3> QED
      BY <2>1, <3>2 DEF ClassifyDeviceRole
  <2>3. BoardsOf(c.id)' = BoardsOf(c.id)
    BY <1>2, WhereTheyAre
  <2> HIDE DEF want, start
  <2>4. s.kind = c.kind /\ s.id = c.id /\ s.want = want /\ s.node = None
    BY <1>10, <2>1
  <2>5. /\ want = None => BoardsOf(c.id)' = {}
        /\ want # None => want \in BoardsOf(c.id)' \ (Virtual \cap Named)
    BY <1>7, <1>8, <2>2, <2>3
  <2> QED
    BY <1>2, <2>1, <2>4, <2>5 DEF Undisturbed
<1> QED
  BY <1>2, <1>3, <1>12, <1>13, <1>14, MailboxInv DEF IInv

LEMMA LocateInv ==
  ASSUME IInv, Locate
  PROVE  IInv'
<1>1. PICK b \in BoardsOf(starting.id) : starting' = [starting EXCEPT !.node = node[b]]
  BY DEF Locate
<1>2. starting # None /\ starting.node = None
  BY DEF Locate
<1>3. UNCHANGED <<life, node, role, mailbox, session, ops, nextOp, waiters, running, why,
                  hotplugs>>
  BY DEF Locate
<1>4. starting \in [kind: Kinds, id: Ids, want: Boards \cup {None}, moved: BOOLEAN,
                    node: Nodes \cup {None}]
  BY <1>2 DEF IInv, TypeOK
<1>5. b \in Boards /\ node[b] \in Nodes \cup {None}
  BY DEF BoardsOf, Present, IInv, TypeOK
<1>6. PICK s : s = [starting EXCEPT !.node = node[b]]
  OBVIOUS
<1>7. /\ s.kind = starting.kind /\ s.id = starting.id /\ s.want = starting.want
      /\ s.moved = starting.moved /\ s.node = node[b]
      /\ s \in [kind: Kinds, id: Ids, want: Boards \cup {None}, moved: BOOLEAN,
                node: Nodes \cup {None}]
  BY <1>4, <1>5, <1>6
<1>8. starting' = s
  BY <1>1, <1>6
<1>9. TypeOK'
  BY <1>3, <1>7, <1>8 DEF IInv, TypeOK
<1>10. NodeInv'
  BY <1>3 DEF IInv, NodeInv
<1>11. StartInv'
  <2>1. session[starting.kind] = None /\ (starting.moved \/ Undisturbed(starting))
    BY <1>2 DEF IInv, StartInv
  <2>2. BoardsOf(s.id)' = BoardsOf(starting.id)
    BY <1>3, <1>7, WhereTheyAre
  <2>3. ~starting.moved => starting.want # None /\ starting.want = b
    BY <1>1, <2>1, OneBoard DEF Undisturbed
  <2>4. ~s.moved => Undisturbed(s)'
    BY <1>3, <1>7, <2>1, <2>2, <2>3 DEF Undisturbed
  <2> QED
    BY <1>3, <1>7, <1>8, <2>1, <2>4 DEF StartInv, Undisturbed
<1>12. mailbox \in Seq(Commands)
  BY DEF IInv, TypeOK
<1>13. \A i \in 1 .. Len(mailbox') : \E j \in 1 .. Len(mailbox) : mailbox'[i] = mailbox[j]
  BY <1>3
<1> QED
  BY <1>3, <1>9, <1>10, <1>11, <1>13, MailboxInv DEF IInv

LEMMA StartFailsInv ==
  ASSUME IInv, StartFails
  PROVE  IInv'
<1>1. UNCHANGED <<life, node, role, mailbox, session, ops, nextOp, waiters, running, why,
                  hotplugs>> /\ starting' = None
  BY DEF StartFails
<1>2. TypeOK' /\ NodeInv' /\ StartInv'
  BY <1>1 DEF IInv, TypeOK, NodeInv, StartInv
<1>3. \A i \in 1 .. Len(mailbox') : \E j \in 1 .. Len(mailbox) : mailbox'[i] = mailbox[j]
  BY <1>1
<1> QED
  BY <1>1, <1>2, <1>3, MailboxInv DEF IInv

\* A pass takes the boards of the sessions from the children.
LEMMA PassInv ==
  ASSUME IInv, Pass
  PROVE  IInv'
<1>1. UNCHANGED <<life, node, mailbox, starting, session, ops, nextOp, waiters, why, hotplugs>>
      /\ role' = RefreshDevices(role) /\ running' = Reconciled(session)
  BY DEF Pass
<1>2. TypeOK'
  <2>1. role' \in [Ids -> {"unknown", "input", "output"}]
    BY <1>1, RolesTyped DEF IInv, TypeOK
  <2>2. running' \subseteq Nodes
    BY <1>1, SessionsAssumption DEF Reconciled
  <2> QED
    BY <1>1, <2>1, <2>2 DEF IInv, TypeOK
<1>3. HeldInv'
  BY <1>1 DEF HeldInv, Held, Reconciled
<1>4. Adds({})
  BY <1>1 DEF Adds, IInv, TypeOK
<1>5. TableInv' /\ CountInv' /\ WaitingInv' /\ OutcomeTrue'
  BY <1>1, <1>4, TableUntouched
<1>6. IssuedInv' /\ NodeInv'
  BY <1>1 DEF IInv, IssuedInv, NodeInv
<1>7. ResultInv'
  BY <1>1 DEF IInv, ResultInv, HappenedTo
<1>8. StartInv'
  BY <1>1, WhereTheyAre DEF IInv, StartInv, Undisturbed
<1> QED
  BY <1>2, <1>3, <1>5, <1>6, <1>7, <1>8 DEF IInv

LEMMA OldResults ==
  ASSUME IInv, session' = session, NEW happened, Adds(happened)
  PROVE  /\ \A w \in waiters : w.result # None => HappenedTo(w.op, w.result)'
         /\ \A i \in 1 .. Len(mailbox) : \A c :
              c = mailbox[i] /\ c.do = "finish" => HappenedTo(c.op, c.result)'
<1>1. ASSUME NEW op \in OpIds, NEW result, HappenedTo(op, result)
      PROVE  HappenedTo(op, result)'
  <2>1. why[op] \subseteq why'[op]
    BY DEF Adds
  <2> QED
    BY <1>1, <2>1, StillHappened
<1>2. \A w \in waiters : w.op \in OpIds
  BY DEF IInv, TypeOK
<1>3. \A i \in 1 .. Len(mailbox) : mailbox[i].do = "finish" => mailbox[i].op \in OpIds
  <2>1. \A i \in 1 .. Len(mailbox) : mailbox[i] \in Commands
    BY DEF IInv, TypeOK
  <2> QED
    BY <2>1 DEF Commands
<1>4. \A w \in waiters : w.result # None => HappenedTo(w.op, w.result)'
  BY <1>1, <1>2 DEF IInv, ResultInv
<1>5. \A i \in 1 .. Len(mailbox) : \A c :
        c = mailbox[i] /\ c.do = "finish" => HappenedTo(c.op, c.result)'
  BY <1>1, <1>3 DEF IInv, ResultInv
<1> QED
  BY <1>4, <1>5

LEMMA ClientSubmitsInv ==
  ASSUME IInv, ClientSubmits
  PROVE  IInv'
<1>1. UNCHANGED <<life, node, role, starting, session, ops, nextOp, waiters, running, why,
                  hotplugs>>
  BY DEF ClientSubmits
<1>2. PICK c \in ClientCommands : Submit(c)
  BY DEF ClientSubmits
<1>3. nextOp \in 1 .. MaxSessions + MaxMutations + 1
  BY DEF IInv, TypeOK
<1>4. c \in Commands /\ c.do # "finish" /\ (c.do = "cancel" => c.op < nextOp)
  <2>1. Asked \subseteq Ids /\ MaxSessions \in Nat /\ MaxMutations \in Nat
    BY SessionsAssumption
  <2>2. 1 .. nextOp - 1 \subseteq OpIds /\ \A i \in 1 .. nextOp - 1 : i < nextOp
    BY <1>3, <2>1 DEF OpIds
  <2>3. CASE c \in [do: {"start"}, kind: Kinds, id: Asked]
    BY <2>1, <2>3 DEF Commands
  <2>4. CASE c \in [do: {"cancel"}, op: (1 .. nextOp - 1) \ Mutations]
    BY <2>2, <2>4 DEF Commands
  <2> QED
    BY <2>3, <2>4 DEF ClientCommands
<1>5. /\ mailbox' \in Seq(Commands) /\ Len(mailbox') <= MailboxSize
      /\ \A i \in 1 .. Len(mailbox') :
           mailbox'[i] = c \/ \E j \in 1 .. Len(mailbox) : mailbox'[i] = mailbox[j]
  BY <1>2, <1>4, SubmitFacts DEF IInv
<1>6. TypeOK'
  BY <1>1, <1>5 DEF IInv, TypeOK
<1>7. Adds({})
  BY <1>1 DEF Adds, IInv, TypeOK
<1>8. TableInv' /\ CountInv' /\ WaitingInv' /\ OutcomeTrue'
  BY <1>1, <1>7, TableUntouched
<1>9. NodeInv' /\ HeldInv'
  BY <1>1 DEF IInv, NodeInv, HeldInv, Held
<1>10. StartInv'
  BY <1>1, WhereTheyAre DEF IInv, StartInv, Undisturbed
<1>11. IssuedInv'
  <2>1. \A i \in 1 .. Len(mailbox') : mailbox'[i].do # "start" => mailbox'[i].op < nextOp'
    <3>1. c.do # "start" => c.op < nextOp
      BY <1>2, <1>4 DEF ClientCommands
    <3> QED
      BY <1>1, <1>5, <3>1 DEF IInv, IssuedInv
  <2> QED
    BY <1>1, <2>1 DEF IInv, IssuedInv
<1>12. ResultInv'
  <2>1. \A i \in 1 .. Len(mailbox') : mailbox'[i].do = "finish" =>
          \E j \in 1 .. Len(mailbox) : mailbox'[i] = mailbox[j]
    BY <1>4, <1>5
  <2>2. \A i \in 1 .. Len(mailbox') : \A d :
          d = mailbox'[i] /\ d.do = "finish" => HappenedTo(d.op, d.result)'
    BY <1>1, <1>7, <2>1, OldResults
  <2> QED
    BY <1>1, <1>7, <2>2, OldResults DEF ResultInv, HappenedTo
<1> QED
  BY <1>6, <1>8, <1>9, <1>10, <1>11, <1>12 DEF IInv

\* WaitForKeypress returns what happened.
LEMMA ReturnInv ==
  ASSUME IInv, NEW w \in waiters, NEW result \in Results, Return(w, result),
         NEW happened \in SUBSET Results, Adds(happened),
         HappenedTo(w.op, result)'
  PROVE  IInv'
<1>1. UNCHANGED <<life, node, role, mailbox, starting, session, ops, nextOp, running, hotplugs>>
  BY DEF Return
<1>2. PICK v : v = [w EXCEPT !.result = result]
  OBVIOUS
<1>3. w \in [op: OpIds, kind: Kinds, board: Boards \cup {None}, result: Results \cup {None}]
  BY DEF IInv, TypeOK
<1>4. /\ v \in [op: OpIds, kind: Kinds, board: Boards \cup {None}, result: Results \cup {None}]
      /\ v.op = w.op /\ v.result = result
  BY <1>2, <1>3
<1>5. \A u \in waiters' : u = v \/ u \in waiters
  BY <1>2 DEF Return
<1>6. TypeOK'
  <2>1. waiters' \subseteq [op: OpIds, kind: Kinds, board: Boards \cup {None},
                            result: Results \cup {None}]
    BY <1>4, <1>5 DEF IInv, TypeOK
  <2> QED
    BY <1>1, <2>1 DEF IInv, TypeOK, Adds
<1>7. TableInv' /\ CountInv' /\ WaitingInv' /\ OutcomeTrue'
  <2>1. {"mutation", "wrong"} \cap happened = {}
    BY DEF Results
  <2> QED
    BY <1>1, <2>1, TableUntouched
<1>8. IssuedInv'
  BY <1>1, <1>4, <1>5 DEF IInv, IssuedInv
<1>9. NodeInv' /\ HeldInv'
  BY <1>1 DEF IInv, NodeInv, HeldInv, Held
<1>10. StartInv'
  BY <1>1, WhereTheyAre DEF IInv, StartInv, Undisturbed
<1>11. ResultInv'
  <2>1. \A u \in waiters' : u.result # None => HappenedTo(u.op, u.result)'
    BY <1>1, <1>4, <1>5, OldResults
  <2>2. \A i \in 1 .. Len(mailbox') : \A c :
          c = mailbox'[i] /\ c.do = "finish" => HappenedTo(c.op, c.result)'
    BY <1>1, OldResults
  <2> QED
    BY <2>1, <2>2 DEF ResultInv, HappenedTo
<1> QED
  BY <1>6, <1>7, <1>8, <1>9, <1>10, <1>11 DEF IInv

LEMMA AddsOne ==
  ASSUME TypeOK, NEW op \in OpIds, NEW result \in Happenings,
         why' = [why EXCEPT ![op] = @ \cup {result}]
  PROVE  Adds({result}) /\ result \in why'[op]
BY DEF TypeOK, Adds

LEMMA ObservesInv ==
  ASSUME IInv, NEW w \in waiters, Observes(w)
  PROVE  IInv'
<1>1. PICK result \in {"key", "timeout", "error"} :
        Return(w, result) /\ why' = [why EXCEPT ![w.op] = @ \cup {result}]
  BY DEF Observes
<1>2. result \in Results /\ result \in Happenings /\ w.op \in OpIds
  BY DEF Results, Happenings, IInv, TypeOK
<1>3. Adds({result}) /\ result \in why'[w.op]
  BY <1>1, <1>2, AddsOne DEF IInv
<1>4. HappenedTo(w.op, result)'
  BY <1>3 DEF HappenedTo
<1> QED
  BY <1>1, <1>2, <1>3, <1>4, ReturnInv

LEMMA ContextDoneInv ==
  ASSUME IInv, NEW w \in waiters, ContextDone(w)
  PROVE  IInv'
<1>1. Return(w, "cancel") /\ why' = why /\ w.op \notin Current(session)
  BY DEF ContextDone
<1>2. Adds({})
  BY <1>1 DEF Adds, IInv, TypeOK
<1>3. session' = session
  BY <1>1 DEF Return
<1>4. HappenedTo(w.op, "cancel")'
  BY <1>1, <1>3 DEF HappenedTo
<1>5. "cancel" \in Results /\ {} \in SUBSET Results
  BY DEF Results
<1> QED
  BY <1>1, <1>2, <1>4, <1>5, ReturnInv

LEMMA PostFinishInv ==
  ASSUME IInv, NEW w \in waiters, PostFinish(w)
  PROVE  IInv'
<1>1. /\ UNCHANGED <<life, node, role, starting, session, ops, nextOp, running, hotplugs>>
      /\ waiters' = waiters \ {w} /\ w.result # None
  BY DEF PostFinish
<1>2. PICK c : c = [do |-> "finish", kind |-> w.kind, op |-> w.op, result |-> w.result]
  OBVIOUS
<1>3. \/ Submit(c) /\ why' = why
      \/ why' = [why EXCEPT ![w.op] = @ \cup {"lost"}] /\ mailbox' = mailbox
  BY <1>2 DEF PostFinish
<1>4. w \in [op: OpIds, kind: Kinds, board: Boards \cup {None}, result: Results \cup {None}]
  BY DEF IInv, TypeOK
<1>5. c \in Commands /\ c.do = "finish" /\ c.op = w.op /\ c.result = w.result
  BY <1>1, <1>2, <1>4 DEF Commands
<1>6. Adds({"lost"})
  <2>1. CASE why' = why
    BY <2>1 DEF Adds, IInv, TypeOK
  <2>2. CASE why' = [why EXCEPT ![w.op] = @ \cup {"lost"}]
    <3>1. "lost" \in Happenings
      BY DEF Happenings
    <3> QED
      BY <1>4, <2>2, <3>1, AddsOne DEF IInv
  <2> QED
    BY <1>3, <2>1, <2>2
<1>7. /\ mailbox' \in Seq(Commands) /\ Len(mailbox') <= MailboxSize
      /\ \A i \in 1 .. Len(mailbox') :
           mailbox'[i] = c \/ \E j \in 1 .. Len(mailbox) : mailbox'[i] = mailbox[j]
  <2>1. CASE Submit(c)
    BY <1>5, <2>1, SubmitFacts DEF IInv
  <2>2. CASE mailbox' = mailbox
    BY <2>2 DEF IInv, TypeOK
  <2> QED
    BY <1>3, <2>1, <2>2
<1>8. TypeOK'
  BY <1>1, <1>6, <1>7 DEF IInv, TypeOK, Adds
<1>9. TableInv' /\ CountInv' /\ WaitingInv' /\ OutcomeTrue'
  <2>1. {"mutation", "wrong"} \cap {"lost"} = {}
    OBVIOUS
  <2> QED
    BY <1>1, <1>6, <2>1, TableUntouched
<1>10. NodeInv' /\ HeldInv'
  BY <1>1 DEF IInv, NodeInv, HeldInv, Held
<1>11. StartInv'
  BY <1>1, WhereTheyAre DEF IInv, StartInv, Undisturbed
<1>12. IssuedInv'
  <2>1. w.op < nextOp
    BY DEF IInv, IssuedInv
  <2>2. \A i \in 1 .. Len(mailbox') : mailbox'[i].do # "start" => mailbox'[i].op < nextOp'
    BY <1>1, <1>5, <1>7, <2>1 DEF IInv, IssuedInv
  <2> QED
    BY <1>1, <2>2 DEF IInv, IssuedInv
<1>13. ResultInv'
  <2>1. HappenedTo(c.op, c.result)'
    BY <1>1, <1>5, <1>6, OldResults
  <2>2. \A i \in 1 .. Len(mailbox') : \A d :
          d = mailbox'[i] /\ d.do = "finish" => HappenedTo(d.op, d.result)'
    BY <1>1, <1>6, <1>7, <2>1, OldResults
  <2>3. \A u \in waiters' : u.result # None => HappenedTo(u.op, u.result)'
    BY <1>1, <1>6, OldResults
  <2> QED
    BY <2>2, <2>3 DEF ResultInv, HappenedTo
<1> QED
  BY <1>8, <1>9, <1>10, <1>11, <1>12, <1>13 DEF IInv

\* A start that boards disturb is no longer bound to the board it named.
LEMMA MovedFacts ==
  ASSUME IInv, Moved
  PROVE  /\ starting' \in [kind: Kinds, id: Ids, want: Boards \cup {None}, moved: BOOLEAN,
                           node: Nodes \cup {None}] \cup {None}
         /\ starting' # None =>
              starting # None /\ starting'.kind = starting.kind /\ starting'.moved
<1>1. CASE starting = None
  BY <1>1 DEF Moved
<1>2. CASE starting # None
  <2>1. starting \in [kind: Kinds, id: Ids, want: Boards \cup {None}, moved: BOOLEAN,
                      node: Nodes \cup {None}]
    BY <1>2 DEF IInv, TypeOK
  <2>2. starting' = [starting EXCEPT !.moved = TRUE]
    BY <1>2 DEF Moved
  <2> QED
    BY <1>2, <2>1, <2>2
<1> QED
  BY <1>1, <1>2

LEMMA PlugInv ==
  ASSUME IInv, NEW b \in Movable, NEW n \in Nodes, Plug(b, n)
  PROVE  IInv'
<1>1. /\ UNCHANGED <<life, role, mailbox, session, ops, nextOp, waiters, running, why>>
      /\ hotplugs < MaxHotplugs /\ hotplugs' = hotplugs + 1
      /\ node[b] = None /\ ~Occupied(n) /\ node' = [node EXCEPT ![b] = n]
      /\ Moved
  BY DEF Plug
<1>2. b \in Boards
  BY SessionsAssumption
<1>3. TypeOK'
  <2>1. node' \in [Boards -> Nodes \cup {None}]
    BY <1>1 DEF IInv, TypeOK
  <2>2. hotplugs' \in 0 .. MaxHotplugs
    BY <1>1, SessionsAssumption DEF IInv, TypeOK
  <2> QED
    BY <1>1, <2>1, <2>2, MovedFacts DEF IInv, TypeOK
<1>4. NodeInv'
  <2>1. \A a \in Boards : node[a] # None => node[a] # n
    BY <1>1 DEF Occupied, Present
  <2>2. \A a \in Boards : node'[a] = IF a = b THEN n ELSE node[a]
    BY <1>1, <1>2 DEF IInv, TypeOK
  <2> QED
    BY <1>1, <2>1, <2>2 DEF IInv, NodeInv
<1>5. StartInv'
  BY <1>1, MovedFacts DEF IInv, StartInv
<1>6. Adds({})
  BY <1>1 DEF Adds, IInv, TypeOK
<1>7. TableInv' /\ CountInv' /\ WaitingInv' /\ OutcomeTrue'
  BY <1>1, <1>6, TableUntouched
<1>8. IssuedInv' /\ HeldInv' /\ ResultInv'
  BY <1>1 DEF IInv, IssuedInv, HeldInv, Held, ResultInv, HappenedTo
<1> QED
  BY <1>3, <1>4, <1>5, <1>7, <1>8 DEF IInv

LEMMA UnplugInv ==
  ASSUME IInv, NEW b \in Movable, Unplug(b)
  PROVE  IInv'
<1>1. /\ UNCHANGED <<life, role, mailbox, session, ops, nextOp, why>>
      /\ hotplugs < MaxHotplugs /\ hotplugs' = hotplugs + 1
      /\ node' = [node EXCEPT ![b] = None]
      /\ running' = running \ {node[b]}
      /\ waiters' = {IF w.board = b THEN [w EXCEPT !.board = None] ELSE w : w \in waiters}
      /\ Moved
  BY DEF Unplug
<1>2. waiters \subseteq [op: OpIds, kind: Kinds, board: Boards \cup {None},
                         result: Results \cup {None}]
  BY DEF IInv, TypeOK
<1>3. \A v \in waiters' : \E w \in waiters :
        /\ v.op = w.op /\ v.result = w.result
        /\ v \in [op: OpIds, kind: Kinds, board: Boards \cup {None}, result: Results \cup {None}]
  <2> TAKE v \in waiters'
  <2>1. PICK w \in waiters : v = IF w.board = b THEN [w EXCEPT !.board = None] ELSE w
    BY <1>1
  <2>2. w \in [op: OpIds, kind: Kinds, board: Boards \cup {None}, result: Results \cup {None}]
    BY <1>2
  <2> QED
    BY <2>1, <2>2
<1>4. TypeOK'
  <2>1. node' \in [Boards -> Nodes \cup {None}]
    BY <1>1 DEF IInv, TypeOK
  <2>2. hotplugs' \in 0 .. MaxHotplugs
    BY <1>1, SessionsAssumption DEF IInv, TypeOK
  <2>3. running' \subseteq Nodes
    BY <1>1 DEF IInv, TypeOK
  <2>4. waiters' \subseteq [op: OpIds, kind: Kinds, board: Boards \cup {None},
                            result: Results \cup {None}]
    BY <1>3
  <2> QED
    BY <1>1, <2>1, <2>2, <2>3, <2>4, MovedFacts DEF IInv, TypeOK
<1>5. NodeInv'
  <2>1. \A a \in Boards : node'[a] = IF a = b THEN None ELSE node[a]
    BY <1>1 DEF IInv, TypeOK
  <2> QED
    BY <2>1 DEF IInv, NodeInv
<1>6. StartInv'
  BY <1>1, MovedFacts DEF IInv, StartInv
<1>7. Adds({})
  BY <1>1 DEF Adds, IInv, TypeOK
<1>8. TableInv' /\ CountInv' /\ WaitingInv' /\ OutcomeTrue'
  BY <1>1, <1>7, TableUntouched
<1>9. HeldInv'
  BY <1>1 DEF IInv, HeldInv, Held
<1>10. IssuedInv'
  BY <1>1, <1>3 DEF IInv, IssuedInv
<1>11. ResultInv'
  <2>1. \A v \in waiters' : v.result # None => HappenedTo(v.op, v.result)'
    BY <1>1, <1>3, <1>7, OldResults
  <2>2. \A i \in 1 .. Len(mailbox') : \A d :
          d = mailbox'[i] /\ d.do = "finish" => HappenedTo(d.op, d.result)'
    BY <1>1, <1>7, OldResults
  <2> QED
    BY <2>1, <2>2 DEF ResultInv, HappenedTo
<1> QED
  BY <1>4, <1>5, <1>6, <1>8, <1>9, <1>10, <1>11 DEF IInv

LEMMA NoSessions ==
  LET none == [k \in Kinds |-> None] IN Current(none) = {} /\ Held(none) = {}
BY DEF Current, Held

\* Nothing of a session is left when the manager is down.
LEMMA StopInv ==
  ASSUME IInv, Stop
  PROVE  IInv'
<1>1. /\ session' = [k \in Kinds |-> None] /\ why' = [o \in OpIds |-> {}]
      /\ running' = {} /\ mailbox' = << >> /\ ops' = {} /\ waiters' = {} /\ nextOp' = 1
      /\ life' = "down" /\ starting = None
      /\ UNCHANGED <<node, role, starting, hotplugs>>
  BY DEF Stop
<1>2. /\ MaxSessions \in Nat /\ MaxMutations \in Nat /\ MailboxSize \in Nat
  BY SessionsAssumption
<1>3. /\ Current(session') = {} /\ Held(session') = {} /\ \A k \in Kinds : session'[k] = None
      /\ Len(mailbox') = 0
  BY <1>1, NoSessions
<1>4. Cardinality({}) = 0 /\ IsFiniteSet({})
  BY FS_EmptySet
<1>5. TypeOK'
  <2>1. mailbox' \in Seq(Commands) /\ Len(mailbox') <= MailboxSize
    BY <1>1, <1>2
  <2>2. session' \in [Kinds -> [op: OpIds, node: Nodes] \cup {None}]
    BY <1>1
  <2>3. why' \in [OpIds -> SUBSET Happenings]
    BY <1>1
  <2>4. nextOp' \in 1 .. MaxSessions + MaxMutations + 1
    BY <1>1, <1>2
  <2> QED
    BY <1>1, <2>1, <2>2, <2>3, <2>4 DEF IInv, TypeOK
<1>6. CountInv'
  <2>1. Mutations' = {}
    BY <1>1 DEF Mutations
  <2> QED
    BY <1>1, <1>2, <1>4, <2>1 DEF CountInv
<1>7. TableInv' /\ IssuedInv' /\ WaitingInv' /\ HeldInv' /\ ResultInv' /\ OutcomeTrue'
  BY <1>1, <1>3, <1>4 DEF TableInv, IssuedInv, WaitingInv, HeldInv, ResultInv, OutcomeTrue
<1>8. NodeInv' /\ StartInv'
  BY <1>1 DEF IInv, NodeInv, StartInv
<1> QED
  BY <1>5, <1>6, <1>7, <1>8 DEF IInv

LEMMA InitIInv == Init => IInv
<1> SUFFICES ASSUME Init PROVE IInv
  OBVIOUS
<1>1. /\ session = [k \in Kinds |-> None] /\ why = [o \in OpIds |-> {}]
      /\ running = {n \in Configured : Occupied(n)} /\ mailbox = << >> /\ ops = {}
      /\ waiters = {} /\ nextOp = 1 /\ life = "up" /\ starting = None /\ hotplugs = 0
      /\ node = Plugged /\ role = RefreshDevices([id \in Ids |-> "unknown"])
  BY DEF Init
<1>2. /\ MaxSessions \in Nat /\ MaxMutations \in Nat /\ MailboxSize \in Nat
      /\ MaxHotplugs \in Nat /\ Configured \subseteq Nodes
      /\ Plugged \in [Boards -> Nodes \cup {None}]
      /\ \A a, b \in Boards : a # b /\ Plugged[a] = Plugged[b] => Plugged[a] = None
  BY SessionsAssumption
<1>3. /\ Current(session) = {} /\ Held(session) = {} /\ \A k \in Kinds : session[k] = None
      /\ Len(mailbox) = 0
  BY <1>1, NoSessions
<1>4. Cardinality({}) = 0 /\ IsFiniteSet({})
  BY FS_EmptySet
<1>5. TypeOK
  <2>1. mailbox \in Seq(Commands) /\ Len(mailbox) <= MailboxSize
    BY <1>1, <1>2
  <2>2. session \in [Kinds -> [op: OpIds, node: Nodes] \cup {None}]
    BY <1>1
  <2>3. why \in [OpIds -> SUBSET Happenings]
    BY <1>1
  <2>4. nextOp \in 1 .. MaxSessions + MaxMutations + 1 /\ hotplugs \in 0 .. MaxHotplugs
    BY <1>1, <1>2
  <2>5. role \in [Ids -> {"unknown", "input", "output"}]
    <3>1. [id \in Ids |-> "unknown"] \in [Ids -> {"unknown", "input", "output"}]
      OBVIOUS
    <3> QED
      BY <1>1, <3>1, RolesTyped
  <2> QED
    BY <1>1, <1>2, <2>1, <2>2, <2>3, <2>4, <2>5 DEF TypeOK
<1>6. CountInv
  <2>1. Mutations = {}
    BY <1>1 DEF Mutations
  <2> QED
    BY <1>1, <1>2, <1>4, <2>1 DEF CountInv
<1>7. TableInv /\ IssuedInv /\ WaitingInv /\ HeldInv /\ ResultInv /\ OutcomeTrue
  BY <1>1, <1>3, <1>4 DEF TableInv, IssuedInv, WaitingInv, HeldInv, ResultInv, OutcomeTrue
<1>8. NodeInv /\ StartInv
  BY <1>1, <1>2 DEF NodeInv, StartInv
<1> QED
  BY <1>5, <1>6, <1>7, <1>8 DEF IInv

\* Opening the device: the session and its operation are new, and the board
\* read is the one the start named, unless boards came or went.
LEMMA OpenDeviceInv ==
  ASSUME IInv, OpenDevice
  PROVE  IInv'
<1>1. PICK b \in Present :
        /\ node[b] = starting.node
        /\ session' = [session EXCEPT ![starting.kind] =
                         [op |-> nextOp, node |-> starting.node]]
        /\ ops' = Updated(ops, nextOp, starting.kind, "waiting")
        /\ waiters' = waiters \cup {[op |-> nextOp, kind |-> starting.kind, board |-> b,
                                     result |-> None]}
        /\ why' = [why EXCEPT ![nextOp] =
                     IF starting.moved \/ (b = starting.want /\ b \notin Virtual \cap Named)
                     THEN {} ELSE {"wrong"}]
  BY DEF OpenDevice
<1>2. /\ starting # None /\ starting.node # None /\ SessionsLeft
      /\ nextOp' = nextOp + 1 /\ running' = running \ {starting.node} /\ starting' = None
      /\ UNCHANGED <<life, node, role, mailbox, hotplugs>>
  BY DEF OpenDevice
<1>3. starting \in [kind: Kinds, id: Ids, want: Boards \cup {None}, moved: BOOLEAN,
                    node: Nodes \cup {None}]
  BY <1>2 DEF IInv, TypeOK
<1>4. PICK k \in Kinds : k = starting.kind
  BY <1>3
<1>5. PICK n \in Nodes : n = starting.node
  BY <1>2, <1>3
<1>6. session[k] = None /\ (starting.moved \/ Undisturbed(starting))
  BY <1>2, <1>4 DEF IInv, StartInv
<1>7. nextOp \in OpIds /\ nextOp \in Nat
      /\ nextOp + 1 \in 1 .. MaxSessions + MaxMutations + 1
      /\ \A i \in OpIds : i < nextOp => i # nextOp /\ i < nextOp + 1
  <2>1. nextOp \in 1 .. MaxSessions + MaxMutations + 1 /\ MaxSessions \in Nat
        /\ MaxMutations \in Nat
    BY SessionsAssumption DEF IInv, TypeOK
  <2>2. Cardinality(Mutations) \in Nat
    <3>1. IsFiniteSet(1 .. nextOp - 1) /\ Mutations \subseteq 1 .. nextOp - 1
      BY <2>1, FS_Interval DEF Mutations
    <3>2. IsFiniteSet(Mutations)
      BY <3>1, FS_Subset
    <3> QED
      BY <3>2, FS_CardinalityType
  <2>3. nextOp <= MaxSessions + MaxMutations
    BY <1>2, <2>1, <2>2 DEF SessionsLeft, IInv, CountInv
  <2> QED
    BY <2>1, <2>3 DEF OpIds
<1> DEFINE sess == [op |-> nextOp, node |-> n]
<1>8. /\ session' \in [Kinds -> [op: OpIds, node: Nodes] \cup {None}]
      /\ session'[k] = sess /\ sess # None /\ sess.op = nextOp /\ sess.node = n
      /\ \A j \in Kinds : j # k => session'[j] = session[j]
  <2>1. sess \in [op: OpIds, node: Nodes]
    BY <1>7
  <2>2. session' = [session EXCEPT ![k] = sess]
    BY <1>1, <1>4, <1>5
  <2> HIDE DEF sess
  <2>3. session' \in [Kinds -> [op: OpIds, node: Nodes] \cup {None}]
        /\ session'[k] = sess
        /\ \A j \in Kinds : j # k => session'[j] = session[j]
    BY <2>1, <2>2 DEF IInv, TypeOK
  <2> QED
    BY <2>1, <2>3, NoneAssumption DEF sess
<1> HIDE DEF sess
<1>9. Current(session') = Current(session) \cup {nextOp}
      /\ Held(session') = Held(session) \cup {n}
  <2>1. \A j \in Kinds : session[j] # None => j # k /\ session'[j] = session[j]
    BY <1>6, <1>8
  <2>2. \A j \in Kinds : session'[j] # None =>
          (j = k /\ session'[j].op = nextOp /\ session'[j].node = n)
          \/ (session[j] # None /\ session'[j] = session[j])
    BY <1>8
  <2>3. Current(session') = Current(session) \cup {nextOp}
    BY <1>8, <2>1, <2>2 DEF Current
  <2>4. Held(session') = Held(session) \cup {n}
    BY <1>8, <2>1, <2>2 DEF Held
  <2> QED
    BY <2>3, <2>4
<1>10. IsTable(ops) /\ \A o \in ops : o.at <= Cardinality(ops) /\ o.id < nextOp
  BY DEF IInv, TypeOK, TableInv, IssuedInv, IsTable, Row
<1>11. PICK new : new = [id |-> nextOp, kind |-> k, state |-> "waiting",
                         at |-> Cardinality(ops) + 1]
  OBVIOUS
<1>12. /\ new.id = nextOp /\ new.kind = k /\ new.state = "waiting"
       /\ new.at = Cardinality(ops) + 1
  BY <1>11
<1>13. /\ IsTable(ops') /\ new \in ops'
       /\ \A o \in ops' : o = new \/ (o \in ops /\ o.id # nextOp /\ o.at < new.at)
       /\ \A o \in ops : o.id # nextOp => o \in ops'
  <2>1. ops' = Updated(ops, nextOp, k, "waiting")
    BY <1>1, <1>4
  <2>2. k \in Kinds \cup {"keyed"} /\ "waiting" \in Final \cup {"waiting"}
    OBVIOUS
  <2> QED
    BY <1>7, <1>10, <1>11, <2>1, <2>2, UpdatedFacts
<1>14. ops' = ops \cup {new} /\ new \notin ops
  BY <1>7, <1>10, <1>12, <1>13 DEF IsTable, Row
<1>15. TableInv'
  <2>1. IsFiniteSet(ops) /\ Cardinality(ops) \in Nat
    BY <1>10, FS_CardinalityType DEF IsTable
  <2>2. Cardinality(ops') = Cardinality(ops) + 1
    BY <1>14, <2>1, FS_AddElement
  <2>3. \A o \in ops : o.at \in Nat
    BY <1>10 DEF IsTable, Row
  <2>4. \A o \in ops' : o.at <= Cardinality(ops')
    BY <1>10, <1>12, <1>14, <2>1, <2>2, <2>3
  <2> QED
    BY <1>13, <2>4 DEF TableInv, IsTable
<1>16. PICK w : w = [op |-> nextOp, kind |-> k, board |-> b, result |-> None]
  OBVIOUS
<1>17. /\ w.op = nextOp /\ w.result = None
       /\ w \in [op: OpIds, kind: Kinds, board: Boards \cup {None}, result: Results \cup {None}]
       /\ waiters' = waiters \cup {w}
  <2>1. b \in Boards
    BY DEF Present
  <2> QED
    BY <1>1, <1>4, <1>7, <1>16, <2>1
<1>18. /\ why' \in [OpIds -> SUBSET Happenings]
       /\ \A i \in OpIds : i # nextOp => why'[i] = why[i]
       /\ "mutation" \notin why'[nextOp] /\ "wrong" \notin why'[nextOp]
  <2>1. starting.moved \/ (b = starting.want /\ b \notin Virtual \cap Named)
    <3> SUFFICES ASSUME ~starting.moved
                 PROVE  b = starting.want /\ b \notin Virtual \cap Named
      OBVIOUS
    <3>1. Undisturbed(starting)
      BY <1>6
    <3>2. /\ starting.want \in BoardsOf(starting.id) \ (Virtual \cap Named)
          /\ starting.node = node[starting.want]
      BY <1>2, <3>1 DEF Undisturbed
    <3>3. starting.want \in Boards /\ b \in Boards /\ node[b] # None
      BY <3>2 DEF BoardsOf, Present
    <3>4. b = starting.want
      BY <1>1, <3>2, <3>3 DEF IInv, NodeInv
    <3> QED
      BY <3>2, <3>4
  <2>2. why' = [why EXCEPT ![nextOp] = {}]
    BY <1>1, <2>1
  <2> QED
    BY <1>7, <2>2 DEF IInv, TypeOK
<1>19. TypeOK'
  <2>1. ops' \subseteq Row
    BY <1>13 DEF IsTable
  <2>2. waiters' \subseteq [op: OpIds, kind: Kinds, board: Boards \cup {None},
                            result: Results \cup {None}]
    BY <1>17 DEF IInv, TypeOK
  <2>3. running' \subseteq Nodes
    BY <1>2 DEF IInv, TypeOK
  <2>4. nextOp' \in 1 .. MaxSessions + MaxMutations + 1
    BY <1>2, <1>7
  <2> QED
    BY <1>2, <1>8, <1>18, <2>1, <2>2, <2>3, <2>4 DEF IInv, TypeOK, Row
<1>20. IssuedInv'
  <2>1. \A o \in ops' : o.id < nextOp'
    <3>1. \A o \in ops : o.id \in OpIds /\ o.id < nextOp
      BY <1>10 DEF IsTable, Row
    <3>2. \A o \in ops : o.id < nextOp + 1
      BY <1>7, <3>1
    <3>3. new.id < nextOp + 1
      BY <1>7, <1>12
    <3> QED
      BY <1>2, <1>14, <3>2, <3>3
  <2>2. \A j \in Kinds : session[j] # None => session[j].op \in OpIds /\ session[j].op < nextOp
    BY DEF IInv, TypeOK, IssuedInv
  <2>3. \A j \in Kinds : session'[j] # None => session'[j].op < nextOp'
    BY <1>2, <1>7, <1>8, <2>2
  <2>4. \A i, j \in Kinds :
          session'[i] # None /\ session'[j] # None /\ session'[i].op = session'[j].op => i = j
    BY <1>7, <1>8, <2>2 DEF IInv, IssuedInv
  <2>5. \A v \in waiters' : v.op < nextOp'
    <3>1. \A v \in waiters : v.op \in OpIds /\ v.op < nextOp
      BY DEF IInv, TypeOK, IssuedInv
    <3> QED
      BY <1>2, <1>7, <1>17, <3>1
  <2>6. \A i \in 1 .. Len(mailbox') : mailbox'[i].do # "start" => mailbox'[i].op < nextOp'
    <3>1. \A i \in 1 .. Len(mailbox) : mailbox[i] \in Commands
      BY DEF IInv, TypeOK
    <3>2. \A i \in 1 .. Len(mailbox) : mailbox[i].do # "start" =>
            mailbox[i].op \in OpIds /\ mailbox[i].op < nextOp
      BY <3>1 DEF Commands, IInv, IssuedInv
    <3> QED
      BY <1>2, <1>7, <3>2
  <2> QED
    BY <2>1, <2>3, <2>4, <2>5, <2>6 DEF IssuedInv
<1>21. CountInv'
  <2>1. nextOp \in 1 .. MaxSessions + MaxMutations + 1 /\ MaxSessions \in Nat
        /\ MaxMutations \in Nat
    BY SessionsAssumption DEF IInv, TypeOK
  <2>2. \A i \in 1 .. nextOp - 1 : i \in OpIds /\ i # nextOp
    BY <2>1 DEF OpIds
  <2>3. 1 .. nextOp' - 1 = (1 .. nextOp - 1) \cup {nextOp}
    BY <1>2, <2>1
  <2>4. Mutations' = Mutations
    BY <1>18, <2>2, <2>3 DEF Mutations
  <2>5. Cardinality(Mutations) \in Nat
    <3>1. IsFiniteSet(1 .. nextOp - 1) /\ Mutations \subseteq 1 .. nextOp - 1
      BY <2>1, FS_Interval DEF Mutations
    <3>2. IsFiniteSet(Mutations)
      BY <3>1, FS_Subset
    <3> QED
      BY <3>2, FS_CardinalityType
  <2> QED
    BY <1>2, <2>1, <2>4, <2>5 DEF SessionsLeft, IInv, CountInv
<1>22. WaitingInv'
  <2>1. "keyed" \notin Kinds
    BY DEF Kinds
  <2> QED
    BY <1>9, <1>12, <1>14, <2>1 DEF IInv, WaitingInv
<1>23. HeldInv'
  BY <1>2, <1>5, <1>9 DEF IInv, HeldInv
<1>24. NodeInv' /\ StartInv'
  BY <1>2 DEF IInv, NodeInv, StartInv
<1>25. OutcomeTrue'
  <2>1. \A o \in ops : o.id \in OpIds /\ why'[o.id] = why[o.id]
    BY <1>7, <1>10, <1>18 DEF IsTable, Row
  <2>2. \A o \in ops : o.kind # "keyed" =>
          /\ "wrong" \notin why'[o.id]
          /\ o.state = "succeeded" => "key" \in why'[o.id]
          /\ o.state = "timed_out" => "timeout" \in why'[o.id]
          /\ o.state = "cancelled" => "cancel" \in why'[o.id]
          /\ o.state \in {"disconnected", "failed"} => "error" \in why'[o.id]
    BY <2>1 DEF IInv, OutcomeTrue
  <2> QED
    BY <1>12, <1>14, <1>18, <2>2 DEF OutcomeTrue
<1>26. ResultInv'
  <2>1. ASSUME NEW op \in OpIds, op < nextOp, NEW result, HappenedTo(op, result)
        PROVE  HappenedTo(op, result)'
    <3>1. op # nextOp /\ why[op] \subseteq why'[op]
      BY <1>7, <1>18, <2>1
    <3>2. op \in Current(session') => op \in Current(session)
      BY <1>9, <3>1
    <3> QED
      BY <2>1, <3>1, <3>2, StillHappened
  <2>2. \A v \in waiters : v.op \in OpIds /\ v.op < nextOp
    BY DEF IInv, TypeOK, IssuedInv
  <2>3. \A v \in waiters' : v.result # None => HappenedTo(v.op, v.result)'
    BY <1>17, <2>1, <2>2 DEF IInv, ResultInv
  <2>4. \A i \in 1 .. Len(mailbox) : mailbox[i].do = "finish" =>
          mailbox[i].op \in OpIds /\ mailbox[i].op < nextOp
    <3>1. \A i \in 1 .. Len(mailbox) : mailbox[i] \in Commands
      BY DEF IInv, TypeOK
    <3> QED
      BY <3>1 DEF Commands, IInv, IssuedInv
  <2>5. \A i \in 1 .. Len(mailbox') : \A d :
          d = mailbox'[i] /\ d.do = "finish" => HappenedTo(d.op, d.result)'
    BY <1>2, <2>1, <2>4 DEF IInv, ResultInv
  <2> QED
    BY <2>3, <2>5 DEF ResultInv, HappenedTo
<1> QED
  BY <1>15, <1>19, <1>20, <1>21, <1>22, <1>23, <1>24, <1>25, <1>26 DEF IInv

-----------------------------------------------------------------------------
(* The end of a session.                                                   *)

LEMMA OutcomeFacts ==
  ASSUME NEW k, NEW result \in Results
  PROVE  LET state == Outcome(k, result) IN
         /\ state \in Final /\ state # "waiting"
         /\ state = "succeeded" => result = "key"
         /\ state = "timed_out" => result = "timeout"
         /\ state = "cancelled" => result = "cancel"
         /\ state \in {"disconnected", "failed"} => result = "error"
BY DEF Outcome, Results, Final

LEMMA CountKept ==
  ASSUME IInv, nextOp' = nextOp, NEW happened, Adds(happened), "mutation" \notin happened
  PROVE  CountInv'
<1>1. \A id \in OpIds : "mutation" \in why'[id] <=> "mutation" \in why[id]
  BY DEF Adds
<1>2. nextOp - 1 <= MaxSessions + MaxMutations /\ nextOp \in Nat
  BY SessionsAssumption DEF IInv, TypeOK
<1>3. 1 .. nextOp - 1 \subseteq OpIds
  BY <1>2, SessionsAssumption DEF OpIds
<1>4. Mutations' = Mutations
  BY <1>1, <1>3 DEF Mutations
<1> QED
  BY <1>4 DEF IInv, CountInv

\* The session is gone and nothing else of the sessions.
LEMMA SessionEnded ==
  ASSUME IInv, NEW k \in Kinds, session[k] # None, session' = [session EXCEPT ![k] = None]
  PROVE  /\ session' \in [Kinds -> [op: OpIds, node: Nodes] \cup {None}]
         /\ \A j \in Kinds : session'[j] # None => session'[j] = session[j] /\ j # k
         /\ session[k].op \in OpIds /\ session[k].op < nextOp
         /\ session[k].op \in Current(session)
         /\ Current(session') = Current(session) \ {session[k].op}
<1>1. session \in [Kinds -> [op: OpIds, node: Nodes] \cup {None}]
  BY DEF IInv, TypeOK
<1>2. session' \in [Kinds -> [op: OpIds, node: Nodes] \cup {None}]
  BY <1>1
<1>3. \A j \in Kinds : session'[j] = IF j = k THEN None ELSE session[j]
  BY <1>1
<1>4. session[k].op \in OpIds /\ session[k].op < nextOp
  BY <1>1 DEF IInv, IssuedInv
<1>5. \A j \in Kinds : j # k /\ session[j] # None => session[j].op # session[k].op
  BY DEF IInv, IssuedInv
<1>6. session[k].op \in Current(session)
  BY DEF Current
<1>7. Current(session') = Current(session) \ {session[k].op}
  BY <1>3, <1>5 DEF Current
<1> QED
  BY <1>2, <1>3, <1>4, <1>6, <1>7

\* What the table holds after a session has ended.
LEMMA FinishTable ==
  ASSUME IInv, NEW k \in Kinds, session[k] # None, NEW result \in Results,
         FinishSession(k, result)
  PROVE  /\ IsTable(ops') /\ \A o \in ops' : o.at <= Cardinality(ops')
         /\ \A o \in ops' :
              \/ /\ o.id = session[k].op /\ o.kind = k /\ o.state = Outcome(k, result)
              \/ o.id # session[k].op /\ \E p \in ops : Same(o, p)
         /\ \A p \in ops : p.id \in Current(session') => \E o \in ops' : Same(o, p)
         /\ \/ \E o \in ops' : o.id = session[k].op
            \/ Cardinality(Records(ops')) + Cardinality(Current(session')) >= MaxOps
<1>1. PICK op : op = session[k].op
  OBVIOUS
<1>2. PICK state : state = Outcome(k, result)
  OBVIOUS
<1>3. PICK sess : sess = [session EXCEPT ![k] = None]
  OBVIOUS
<1>4. PICK T : T = Updated(ops, op, k, state)
  OBVIOUS
<1>5. session' = sess /\ ops' = PruneOperations(T, sess)
  BY <1>1, <1>2, <1>3, <1>4 DEF FinishSession
<1>6. op \in OpIds /\ Current(sess) = Current(session) \ {op}
  BY <1>1, <1>3, <1>5, SessionEnded
<1>7. state \in Final
  BY <1>2, OutcomeFacts
<1>8. IsTable(ops) /\ \A o \in ops : o.at <= Cardinality(ops)
  BY DEF IInv, TypeOK, TableInv, IsTable, Row
<1>9. PICK new : new = [id |-> op, kind |-> k, state |-> state, at |-> Cardinality(ops) + 1]
  OBVIOUS
<1>10. new.id = op /\ new.kind = k /\ new.state = state
  BY <1>9
<1>11. /\ IsTable(T) /\ new \in T
       /\ \A o \in T : o = new \/ (o \in ops /\ o.id # op /\ o.at < new.at)
       /\ \A o \in ops : o.id # op => o \in T
  <2>1. k \in Kinds \cup {"keyed"} /\ state \in Final \cup {"waiting"}
    BY <1>7
  <2> QED
    BY <1>4, <1>6, <1>8, <1>9, <2>1, UpdatedFacts
<1>12. /\ IsTable(ops')
       /\ \A o \in ops' : o.at <= Cardinality(ops')
       /\ \A o \in ops' : \E p \in T : Same(o, p)
       /\ \A p \in T : p.kind = "keyed" \/ p.id \in Current(sess)
                         => \E o \in ops' : Same(o, p)
       /\ \A p \in T \ Excess(T, Free(T, sess)) : \E o \in ops' : Same(o, p)
       /\ Cardinality(Records(T)) <= Cardinality(Records(ops'))
  BY <1>5, <1>11, PruneFacts
<1>13. \A o \in ops' :
         \/ o.id = op /\ o.kind = k /\ o.state = state
         \/ o.id # op /\ \E p \in ops : Same(o, p)
  BY <1>10, <1>11, <1>12 DEF Same
<1>14. \A p \in ops : p.id \in Current(sess) => \E o \in ops' : Same(o, p)
  BY <1>6, <1>11, <1>12
<1>15. \/ \E o \in ops' : o.id = op
       \/ Cardinality(Records(ops')) + Cardinality(Current(sess)) >= MaxOps
  <2>1. CASE new \notin Excess(T, Free(T, sess))
    BY <1>10, <1>11, <1>12, <2>1 DEF Same
  <2>2. CASE new \in Excess(T, Free(T, sess))
    <3>1. "keyed" \notin Kinds
      BY DEF Kinds
    <3>2. \A o \in T \ {new} : o.at < new.at
      BY <1>11
    <3>3. new.kind # "keyed" /\ new.id \notin Current(sess)
      BY <1>6, <1>10, <3>1
    <3>4. Cardinality(Records(T)) + Cardinality(Current(sess)) >= MaxOps
      BY <1>11, <2>2, <3>2, <3>3, LatestKept
    <3>5. /\ Cardinality(Records(T)) \in Nat /\ Cardinality(Records(ops')) \in Nat
          /\ Cardinality(Current(sess)) \in Nat /\ MaxOps \in Nat
      <4>1. IsFiniteSet(Records(T)) /\ IsFiniteSet(Records(ops'))
        BY <1>11, <1>12, FS_Subset DEF Records, IsTable
      <4>2. IsFiniteSet(Current(sess))
        BY CurrentFinite
      <4> QED
        BY <4>1, <4>2, FS_CardinalityType, SessionsAssumption
    <3> QED
      BY <1>12, <3>4, <3>5
  <2> QED
    BY <2>1, <2>2
<1> QED
  BY <1>1, <1>2, <1>5, <1>12, <1>13, <1>14, <1>15

\* A session ends, by its own result or because it is cancelled.
LEMMA FinishInv ==
  ASSUME IInv, NEW k \in Kinds, session[k] # None, NEW result \in Results,
         FinishSession(k, result), NEW what, Takes(what),
         NEW happened \in SUBSET Results, Adds(happened), result \in why'[session[k].op],
         UNCHANGED <<life, node, starting, nextOp, waiters, hotplugs>>
  PROVE  IInv'
<1>1. PICK op : op = session[k].op
  OBVIOUS
<1>2. /\ session' = [session EXCEPT ![k] = None]
      /\ role' = RefreshDevices(role) /\ running' = Reconciled(session')
  BY DEF FinishSession
<1>3. /\ session' \in [Kinds -> [op: OpIds, node: Nodes] \cup {None}]
      /\ \A j \in Kinds : session'[j] # None => session'[j] = session[j] /\ j # k
      /\ op \in OpIds /\ op < nextOp /\ op \in Current(session)
      /\ Current(session') = Current(session) \ {op}
  BY <1>1, <1>2, SessionEnded
<1>4. /\ IsTable(ops') /\ \A o \in ops' : o.at <= Cardinality(ops')
      /\ \A o \in ops' :
           \/ o.id = op /\ o.kind = k /\ o.state = Outcome(k, result)
           \/ o.id # op /\ \E p \in ops : Same(o, p)
      /\ \A p \in ops : p.id \in Current(session') => \E o \in ops' : Same(o, p)
  BY <1>1, FinishTable
<1>5. /\ mailbox' \in Seq(Commands) /\ Len(mailbox') <= MailboxSize
      /\ \A i \in 1 .. Len(mailbox') : \E j \in 1 .. Len(mailbox) : mailbox'[i] = mailbox[j]
  BY DequeueFacts DEF IInv
<1>6. starting = None
  BY DEF Takes
<1>7. TypeOK'
  <2>1. role' \in [Ids -> {"unknown", "input", "output"}]
    BY <1>2, RolesTyped DEF IInv, TypeOK
  <2>2. running' \subseteq Nodes
    BY <1>2, SessionsAssumption DEF Reconciled
  <2>3. ops' \subseteq Row /\ why' \in [OpIds -> SUBSET Happenings]
    BY <1>4 DEF IsTable, Adds
  <2> QED
    BY <1>3, <1>5, <2>1, <2>2, <2>3 DEF IInv, TypeOK, Row
<1>8. TableInv'
  BY <1>4 DEF TableInv, IsTable
<1>9. IssuedInv'
  <2>1. \A o \in ops' : o.id < nextOp'
    BY <1>3, <1>4 DEF IInv, IssuedInv, Same
  <2>2. \A i \in 1 .. Len(mailbox') : mailbox'[i].do # "start" => mailbox'[i].op < nextOp'
    BY <1>5 DEF IInv, IssuedInv
  <2> QED
    BY <1>3, <2>1, <2>2 DEF IInv, IssuedInv
<1>10. CountInv'
  <2>1. "mutation" \notin happened
    BY DEF Results
  <2> QED
    BY <2>1, CountKept
<1>11. Outcome(k, result) # "waiting"
  BY OutcomeFacts
<1>12. WaitingInv'
  <2>1. \A o \in ops' : o.state = "waiting" => o.id \in Current(session') /\ o.kind # "keyed"
    BY <1>3, <1>4, <1>11 DEF IInv, WaitingInv, Same
  <2>2. \A id \in Current(session') : \E o \in ops' : o.id = id /\ o.state = "waiting"
    BY <1>3, <1>4 DEF IInv, WaitingInv, Same
  <2> QED
    BY <2>1, <2>2 DEF WaitingInv
<1>13. HeldInv'
  BY <1>2 DEF HeldInv, Reconciled
<1>14. NodeInv' /\ StartInv'
  BY <1>6 DEF IInv, NodeInv, StartInv
<1>15. ASSUME NEW i \in OpIds, NEW r, HappenedTo(i, r)
       PROVE  HappenedTo(i, r)'
  <2>1. why[i] \subseteq why'[i] /\ (i \in Current(session') => i \in Current(session))
    BY <1>3 DEF Adds
  <2> QED
    BY <1>15, <2>1, StillHappened
<1>16. ResultInv'
  <2>1. \A v \in waiters' : v.result # None => HappenedTo(v.op, v.result)'
    BY <1>15 DEF IInv, TypeOK, ResultInv
  <2>2. \A i \in 1 .. Len(mailbox) : mailbox[i].do = "finish" => mailbox[i].op \in OpIds
    <3>1. \A i \in 1 .. Len(mailbox) : mailbox[i] \in Commands
      BY DEF IInv, TypeOK
    <3> QED
      BY <3>1 DEF Commands
  <2>3. \A i \in 1 .. Len(mailbox') : \A d :
          d = mailbox'[i] /\ d.do = "finish" => HappenedTo(d.op, d.result)'
    BY <1>5, <1>15, <2>2 DEF IInv, ResultInv
  <2> QED
    BY <2>1, <2>3 DEF ResultInv, HappenedTo
<1>17. OutcomeTrue'
  <2>1. \A i \in OpIds : why[i] \subseteq why'[i] /\ ("wrong" \in why'[i] => "wrong" \in why[i])
    BY DEF Adds, Results
  <2>2. "wrong" \notin why'[op]
    <3>1. PICK o \in ops : o.id = op /\ o.state = "waiting"
      BY <1>3 DEF IInv, WaitingInv
    <3>2. "wrong" \notin why[op]
      BY <3>1 DEF IInv, WaitingInv, OutcomeTrue
    <3> QED
      BY <1>3, <2>1, <3>2
  <2>3. ASSUME NEW o \in ops', o.kind # "keyed"
        PROVE  /\ "wrong" \notin why'[o.id]
               /\ o.state = "succeeded" => "key" \in why'[o.id]
               /\ o.state = "timed_out" => "timeout" \in why'[o.id]
               /\ o.state = "cancelled" => "cancel" \in why'[o.id]
               /\ o.state \in {"disconnected", "failed"} => "error" \in why'[o.id]
    <3>1. CASE o.id = op /\ o.state = Outcome(k, result)
      <4>1. result \in why'[op]
        BY <1>1
      <4> QED
        BY <2>2, <3>1, <4>1, OutcomeFacts
    <3>2. CASE \E p \in ops : Same(o, p)
      <4>1. PICK p \in ops : Same(o, p)
        BY <3>2
      <4>2. p.id \in OpIds /\ p.kind # "keyed" /\ o.id = p.id /\ o.state = p.state
        BY <2>3, <4>1 DEF Same, IInv, TypeOK
      <4>3. /\ "wrong" \notin why[p.id]
            /\ p.state = "succeeded" => "key" \in why[p.id]
            /\ p.state = "timed_out" => "timeout" \in why[p.id]
            /\ p.state = "cancelled" => "cancel" \in why[p.id]
            /\ p.state \in {"disconnected", "failed"} => "error" \in why[p.id]
        BY <4>2 DEF IInv, OutcomeTrue
      <4> QED
        BY <2>1, <4>2, <4>3
    <3> QED
      BY <1>4, <3>1, <3>2
  <2> QED
    BY <2>3 DEF OutcomeTrue
<1> QED
  BY <1>7, <1>8, <1>9, <1>10, <1>12, <1>13, <1>14, <1>16, <1>17 DEF IInv

LEMMA FinishStepInv ==
  ASSUME IInv, Finish
  PROVE  IInv'
<1>1. PICK c : c = Head(mailbox)
  OBVIOUS
<1>2. Takes("finish") /\ UNCHANGED <<life, node, starting, nextOp, waiters, why, hotplugs>>
  BY DEF Finish
<1>3. /\ mailbox' \in Seq(Commands) /\ Len(mailbox') <= MailboxSize
      /\ \A i \in 1 .. Len(mailbox') : \E j \in 1 .. Len(mailbox) : mailbox'[i] = mailbox[j]
      /\ 1 \in 1 .. Len(mailbox) /\ c = mailbox[1] /\ c \in Commands /\ c.do = "finish"
  BY <1>1, <1>2, DequeueFacts DEF IInv
<1>4. c.kind \in Kinds /\ c.op \in OpIds /\ c.result \in Results
  BY <1>3 DEF Commands
<1>5. CASE session[c.kind] # None /\ session[c.kind].op = c.op
  <2>1. FinishSession(c.kind, c.result)
    BY <1>1, <1>5 DEF Finish
  <2>2. HappenedTo(c.op, c.result)
    BY <1>3 DEF IInv, ResultInv
  <2>3. c.op \in Current(session)
    BY <1>4, <1>5 DEF Current
  <2>4. c.result \in why'[session[c.kind].op]
    BY <1>2, <1>5, <2>2, <2>3 DEF HappenedTo
  <2>5. Adds({}) /\ {} \in SUBSET Results
    BY <1>2 DEF Adds, IInv, TypeOK
  <2> QED
    BY <1>2, <1>4, <1>5, <2>1, <2>4, <2>5, FinishInv
<1>6. CASE ~(session[c.kind] # None /\ session[c.kind].op = c.op)
  <2>1. UNCHANGED <<role, session, ops, running>>
    BY <1>1, <1>6 DEF Finish
  <2>2. TypeOK'
    BY <1>2, <1>3, <2>1 DEF IInv, TypeOK
  <2>3. NodeInv' /\ StartInv'
    BY <1>2, <2>1, WhereTheyAre DEF IInv, NodeInv, StartInv, Undisturbed
  <2> QED
    BY <1>2, <1>3, <2>1, <2>2, <2>3, MailboxInv DEF IInv
<1> QED
  BY <1>5, <1>6

LEMMA CancelInv ==
  ASSUME IInv, Cancel
  PROVE  IInv'
<1>1. PICK op : op = Head(mailbox).op
  OBVIOUS
<1>2. Takes("cancel") /\ UNCHANGED <<life, node, starting, nextOp, waiters, hotplugs>>
  BY DEF Cancel
<1>3. /\ mailbox' \in Seq(Commands) /\ Len(mailbox') <= MailboxSize
      /\ \A i \in 1 .. Len(mailbox') : \E j \in 1 .. Len(mailbox) : mailbox'[i] = mailbox[j]
      /\ Head(mailbox) \in Commands /\ Head(mailbox).do = "cancel"
  BY <1>2, DequeueFacts DEF IInv
<1>4. op \in OpIds
  BY <1>1, <1>3 DEF Commands
<1>5. CASE op \in Current(session)
  <2>1. PICK k \in Kinds : session[k] # None /\ session[k].op = op /\ FinishSession(k, "cancel")
    BY <1>1, <1>5 DEF Cancel
  <2>2. why' = [why EXCEPT ![op] = @ \cup {"cancel"}]
    BY <1>1, <1>5 DEF Cancel
  <2>3. "cancel" \in Happenings /\ "cancel" \in Results
    BY DEF Happenings, Results
  <2>4. Adds({"cancel"}) /\ "cancel" \in why'[op]
    BY <1>4, <2>2, <2>3, AddsOne DEF IInv
  <2>5. {"cancel"} \in SUBSET Results
    BY <2>3
  <2> QED
    BY <1>2, <2>1, <2>3, <2>4, <2>5, FinishInv
<1>6. CASE op \notin Current(session)
  <2>1. UNCHANGED <<role, session, ops, running, why>>
    BY <1>1, <1>6 DEF Cancel
  <2>2. TypeOK'
    BY <1>2, <1>3, <2>1 DEF IInv, TypeOK
  <2>3. NodeInv' /\ StartInv'
    BY <1>2, <2>1, WhereTheyAre DEF IInv, NodeInv, StartInv, Undisturbed
  <2> QED
    BY <1>2, <1>3, <2>1, <2>2, <2>3, MailboxInv DEF IInv
<1> QED
  BY <1>5, <1>6

\* A mutation leaves its operation, and those of the sessions stay.
LEMMA MutationInv ==
  ASSUME IInv, Mutation
  PROVE  IInv'
<1>1. /\ starting = None /\ Cardinality(Mutations) < MaxMutations
      /\ ops' = PruneOperations(Journaled(ops, nextOp), session)
      /\ nextOp' = nextOp + 1
      /\ why' = [why EXCEPT ![nextOp] = {"mutation"}]
      /\ UNCHANGED <<life, node, role, mailbox, starting, session, waiters, running, hotplugs>>
  BY DEF Mutation
<1>2. nextOp \in 1 .. MaxSessions + MaxMutations + 1 /\ MaxSessions \in Nat
      /\ MaxMutations \in Nat
  BY SessionsAssumption DEF IInv, TypeOK
<1>3. IsFiniteSet(Mutations) /\ Cardinality(Mutations) \in Nat
  <2>1. IsFiniteSet(1 .. nextOp - 1) /\ Mutations \subseteq 1 .. nextOp - 1
    BY <1>2, FS_Interval DEF Mutations
  <2>2. IsFiniteSet(Mutations)
    BY <2>1, FS_Subset
  <2> QED
    BY <2>2, FS_CardinalityType
<1>4. nextOp <= MaxSessions + MaxMutations
  BY <1>1, <1>2, <1>3 DEF IInv, CountInv
<1>5. nextOp \in OpIds /\ nextOp + 1 \in 1 .. MaxSessions + MaxMutations + 1
      /\ \A i \in OpIds : i < nextOp => i # nextOp /\ i < nextOp + 1
  BY <1>2, <1>4 DEF OpIds
<1>6. /\ why' \in [OpIds -> SUBSET Happenings]
      /\ \A i \in OpIds : i # nextOp => why'[i] = why[i]
      /\ why'[nextOp] = {"mutation"}
  <2>1. "mutation" \in Happenings
    BY DEF Happenings
  <2> QED
    BY <1>1, <1>5, <2>1 DEF IInv, TypeOK
<1>7. /\ IsTable(ops)
      /\ \A o \in ops : /\ o.at <= Cardinality(ops)
                        /\ o.id \in OpIds /\ o.id < nextOp /\ o.id # nextOp
  <2>1. IsTable(ops) /\ \A o \in ops : o.at <= Cardinality(ops) /\ o.id \in OpIds
    BY DEF IInv, TypeOK, TableInv, IsTable, Row
  <2> QED
    BY <1>5, <2>1 DEF IInv, IssuedInv
<1>8. PICK J : J = Journaled(ops, nextOp)
  OBVIOUS
<1>9. /\ IsTable(J)
      /\ \A o \in J : \/ o \in ops
                      \/ o.id = nextOp /\ o.kind = "keyed" /\ o.state = "succeeded"
      /\ \A o \in ops : o.kind # "keyed" => o \in J
  BY <1>5, <1>7, <1>8, JournaledFacts
<1>10. /\ IsTable(ops')
       /\ \A o \in ops' : o.at <= Cardinality(ops')
       /\ \A o \in ops' : \E p \in J : Same(o, p)
       /\ \A p \in J : p.kind = "keyed" \/ p.id \in Current(session)
                         => \E o \in ops' : Same(o, p)
  BY <1>1, <1>8, <1>9, PruneFacts
<1>11. \A o \in ops' : \/ \E p \in ops : Same(o, p)
                       \/ o.id = nextOp /\ o.kind = "keyed" /\ o.state = "succeeded"
  BY <1>9, <1>10 DEF Same
<1>12. TypeOK'
  <2>1. ops' \subseteq Row
    BY <1>10 DEF IsTable
  <2>2. nextOp' \in 1 .. MaxSessions + MaxMutations + 1
    BY <1>1, <1>5
  <2> QED
    BY <1>1, <1>6, <2>1, <2>2 DEF IInv, TypeOK, Row
<1>13. TableInv'
  BY <1>10 DEF TableInv, IsTable
<1>14. IssuedInv'
  <2>1. \A o \in ops' : o.id < nextOp'
    <3>1. \A o \in ops : o.id < nextOp + 1
      BY <1>5, <1>7
    <3>2. nextOp < nextOp + 1
      BY <1>2
    <3> QED
      BY <1>1, <1>11, <3>1, <3>2 DEF Same
  <2>2. \A j \in Kinds : session[j] # None => session[j].op < nextOp + 1
    <3>1. \A j \in Kinds : session[j] # None => session[j].op \in OpIds /\ session[j].op < nextOp
      BY DEF IInv, TypeOK, IssuedInv
    <3> QED
      BY <1>5, <3>1
  <2>3. \A v \in waiters : v.op < nextOp + 1
    <3>1. \A v \in waiters : v.op \in OpIds /\ v.op < nextOp
      BY DEF IInv, TypeOK, IssuedInv
    <3> QED
      BY <1>5, <3>1
  <2>4. \A i \in 1 .. Len(mailbox) : mailbox[i].do # "start" => mailbox[i].op < nextOp + 1
    <3>1. \A i \in 1 .. Len(mailbox) : mailbox[i] \in Commands
      BY DEF IInv, TypeOK
    <3>2. \A i \in 1 .. Len(mailbox) : mailbox[i].do # "start" =>
            mailbox[i].op \in OpIds /\ mailbox[i].op < nextOp
      BY <3>1 DEF Commands, IInv, IssuedInv
    <3> QED
      BY <1>5, <3>2
  <2> QED
    BY <1>1, <2>1, <2>2, <2>3, <2>4 DEF IInv, IssuedInv
<1>15. CountInv'
  <2>1. \A i \in 1 .. nextOp - 1 : i \in OpIds /\ i # nextOp
    BY <1>2, <1>4 DEF OpIds
  <2>2. 1 .. nextOp' - 1 = (1 .. nextOp - 1) \cup {nextOp} /\ nextOp \notin 1 .. nextOp - 1
    BY <1>1, <1>2
  <2>3. Mutations' = Mutations \cup {nextOp} /\ nextOp \notin Mutations
    BY <1>6, <2>1, <2>2 DEF Mutations
  <2>4. Cardinality(Mutations') = Cardinality(Mutations) + 1
    BY <1>3, <2>3, FS_AddElement
  <2> QED
    BY <1>1, <1>2, <1>3, <2>4 DEF IInv, CountInv
<1>16. WaitingInv'
  <2>1. \A o \in ops' : o.state = "waiting" => o.id \in Current(session) /\ o.kind # "keyed"
    BY <1>11 DEF IInv, WaitingInv, Same
  <2>2. \A id \in Current(session) : \E o \in ops' : o.id = id /\ o.state = "waiting"
    BY <1>9, <1>10 DEF IInv, WaitingInv, Same
  <2> QED
    BY <1>1, <2>1, <2>2 DEF WaitingInv
<1>17. HeldInv' /\ NodeInv' /\ StartInv'
  BY <1>1 DEF IInv, HeldInv, Held, NodeInv, StartInv
<1>18. ResultInv'
  <2>1. ASSUME NEW op \in OpIds, op < nextOp, NEW result, HappenedTo(op, result)
        PROVE  HappenedTo(op, result)'
    <3>1. why[op] \subseteq why'[op]
      BY <1>5, <1>6, <2>1
    <3> QED
      BY <1>1, <2>1, <3>1, StillHappened
  <2>2. \A v \in waiters' : v.result # None => HappenedTo(v.op, v.result)'
    <3>1. \A v \in waiters : v.op \in OpIds /\ v.op < nextOp
      BY DEF IInv, TypeOK, IssuedInv
    <3> QED
      BY <1>1, <2>1, <3>1 DEF IInv, ResultInv
  <2>3. \A i \in 1 .. Len(mailbox) : mailbox[i].do = "finish" =>
          mailbox[i].op \in OpIds /\ mailbox[i].op < nextOp
    <3>1. \A i \in 1 .. Len(mailbox) : mailbox[i] \in Commands
      BY DEF IInv, TypeOK
    <3> QED
      BY <3>1 DEF Commands, IInv, IssuedInv
  <2>4. \A i \in 1 .. Len(mailbox') : \A d :
          d = mailbox'[i] /\ d.do = "finish" => HappenedTo(d.op, d.result)'
    BY <1>1, <2>1, <2>3 DEF IInv, ResultInv
  <2> QED
    BY <2>2, <2>4 DEF ResultInv, HappenedTo
<1>19. OutcomeTrue'
  <2>1. ASSUME NEW o \in ops', o.kind # "keyed"
        PROVE  /\ "wrong" \notin why'[o.id]
               /\ o.state = "succeeded" => "key" \in why'[o.id]
               /\ o.state = "timed_out" => "timeout" \in why'[o.id]
               /\ o.state = "cancelled" => "cancel" \in why'[o.id]
               /\ o.state \in {"disconnected", "failed"} => "error" \in why'[o.id]
    <3>1. PICK p \in ops : Same(o, p)
      BY <1>11, <2>1
    <3>2. p.kind # "keyed" /\ o.id = p.id /\ o.state = p.state /\ why'[p.id] = why[p.id]
      BY <1>6, <1>7, <2>1, <3>1 DEF Same
    <3> QED
      BY <3>2 DEF IInv, OutcomeTrue
  <2> QED
    BY <2>1 DEF OutcomeTrue
<1> QED
  BY <1>12, <1>13, <1>14, <1>15, <1>16, <1>17, <1>18, <1>19 DEF IInv

LEMMA NextIInv == IInv /\ [Next]_vars => IInv'
<1> SUFFICES ASSUME IInv, [Next]_vars PROVE IInv'
  OBVIOUS
<1>1. CASE UNCHANGED vars
  <2>1. TypeOK' /\ NodeInv'
    BY <1>1 DEF vars, IInv, TypeOK, NodeInv
  <2>2. StartInv'
    BY <1>1, WhereTheyAre DEF vars, IInv, StartInv, Undisturbed
  <2>3. \A i \in 1 .. Len(mailbox') : \E j \in 1 .. Len(mailbox) : mailbox'[i] = mailbox[j]
    BY <1>1 DEF vars
  <2> QED
    BY <1>1, <2>1, <2>2, <2>3, MailboxInv DEF vars, IInv
<1>2. CASE Owner
  BY <1>2, ExpiredInv, BeginStartInv, LocateInv, StartFailsInv, OpenDeviceInv, FinishStepInv,
     CancelInv DEF Owner
<1>3. CASE Mutation \/ Pass \/ ClientSubmits \/ Stop
  BY <1>3, MutationInv, PassInv, ClientSubmitsInv, StopInv
<1>4. ASSUME NEW o \in OpIds, Waiter(o) PROVE IInv'
  BY <1>4, ObservesInv, ContextDoneInv, PostFinishInv DEF Waiter
<1>5. ASSUME NEW b \in Movable, Unplug(b) PROVE IInv'
  BY <1>5, UnplugInv
<1>6. ASSUME NEW b \in Movable, NEW n \in Nodes, Plug(b, n) PROVE IInv'
  BY <1>6, PlugInv
<1> QED
  BY <1>1, <1>2, <1>3, <1>4, <1>5, <1>6 DEF Next

-----------------------------------------------------------------------------
(* The theorems.                                                           *)

\* The inductive invariant holds of every run of the sessions.
THEOREM Invariance == Spec => []IInv
  BY InitIInv, NextIInv, PTL DEF Spec

\* The operations clients see waiting are those of the current sessions, and no
\* child has a board that a session reads (pruneOperations, reconcile,
\* pauseDeviceConfigurations, admitIdempotentMutation).
THEOREM WaitingMatchesSessions == Spec => []WaitingIsCurrent
<1>1. IInv => WaitingIsCurrent
  BY DEF IInv, WaitingInv, HeldInv, WaitingIsCurrent
<1> QED
  BY <1>1, Invariance, PTL

\* A finished operation reports what happened to its own session, and the board
\* read was the one the client named unless boards came or went
\* (finishIdentification, finishProbe, startIdentification, inputDeviceTarget).
THEOREM OutcomesAreTrue == Spec => []OutcomeTrue
<1>1. IInv => OutcomeTrue
  BY DEF IInv
<1> QED
  BY <1>1, Invariance, PTL

\* Only the end of a session, a new one and the end of the manager change the
\* current sessions.
LEMMA EndsOnlyHere ==
  ASSUME IInv, [Next]_vars, life' # "down",
         NEW o \in Current(session), o \notin Current(session')
  PROVE  \E k \in Kinds, result \in Results :
           session[k] # None /\ session[k].op = o /\ FinishSession(k, result)
<1>1. session' # session
  OBVIOUS
<1>2. ~Stop
  BY DEF Stop
<1>3. ~OpenDevice
  <2> SUFFICES ASSUME OpenDevice PROVE FALSE
    OBVIOUS
  <2>1. PICK s : session' = [session EXCEPT ![starting.kind] = [op |-> nextOp, node |-> s]]
    BY DEF OpenDevice
  <2>2. session[starting.kind] = None
    BY DEF OpenDevice, IInv, StartInv
  <2>3. PICK k \in Kinds : session[k] # None /\ session[k].op = o
    BY DEF Current
  <2>4. session'[k] = session[k]
    BY <2>1, <2>2, <2>3 DEF IInv, TypeOK
  <2> QED
    BY <2>3, <2>4 DEF Current
<1>4. Finish \/ Cancel
  BY <1>1, <1>2, <1>3
     DEF Next, vars, Owner, Expired, BeginStart, Locate, StartFails, Mutation, Pass,
         ClientSubmits, Waiter, Observes, ContextDone, Return, PostFinish, Plug, Unplug
<1>5. CASE Finish
  <2>1. PICK c : c = Head(mailbox)
    OBVIOUS
  <2>2. FinishSession(c.kind, c.result) /\ session[c.kind] # None
    BY <1>1, <1>5, <2>1 DEF Finish
  <2>3. c \in Commands /\ c.do = "finish"
    BY <1>5, <2>1, DequeueFacts DEF Finish, IInv
  <2>4. c.kind \in Kinds /\ c.result \in Results
    BY <2>3 DEF Commands
  <2>5. Current(session') = Current(session) \ {session[c.kind].op}
    BY <2>2, <2>4, SessionEnded DEF FinishSession
  <2> QED
    BY <2>2, <2>4, <2>5
<1>6. CASE Cancel
  <2>1. PICK k \in Kinds : session[k] # None /\ FinishSession(k, "cancel")
    BY <1>1, <1>6 DEF Cancel
  <2>2. Current(session') = Current(session) \ {session[k].op}
    BY <2>1, SessionEnded DEF FinishSession
  <2>3. "cancel" \in Results
    BY DEF Results
  <2> QED
    BY <2>1, <2>2, <2>3
<1> QED
  BY <1>4, <1>5, <1>6

\* The operation of a session that ends stays in the table, unless the journal
\* and the other session fill it (pruneOperations).
THEOREM EndedOperationsStay == Spec => OutcomeKept
<1> DEFINE Kept(o) ==
             life' # "down" =>
               \/ \E p \in ops' : p.id = o
               \/ Cardinality(Records(ops')) + Cardinality(Current(session')) >= MaxOps
<1>1. IInv /\ [Next]_vars => [\A o \in Current(session) \ Current(session') : Kept(o)]_vars
  <2> SUFFICES ASSUME IInv, [Next]_vars, NEW o \in Current(session) \ Current(session'),
                      life' # "down"
               PROVE  \/ \E p \in ops' : p.id = o
                      \/ Cardinality(Records(ops')) + Cardinality(Current(session')) >= MaxOps
    OBVIOUS
  <2>1. PICK k \in Kinds, result \in Results :
          session[k] # None /\ session[k].op = o /\ FinishSession(k, result)
    BY EndsOnlyHere
  <2> QED
    BY <2>1, FinishTable
<1> QED
  BY <1>1, Invariance, PTL DEF Spec, OutcomeKept

-----------------------------------------------------------------------------
(* The table implements what clients are promised of operations.           *)

\* An operation that is in the table answers its state; one that is not is
\* gone, or was never issued.
LEMMA AnswerFacts ==
  ASSUME NEW T, IsTable(T), NEW next, NEW id
  PROVE  /\ \A o \in T : o.id = id => AnswerIn(T, next, id) = o.state
         /\ (\A o \in T : o.id # id) =>
              AnswerIn(T, next, id) = IF id < next THEN "gone" ELSE "unknown"
         /\ AnswerIn(T, next, id) \in Final \cup {"unknown", "waiting", "gone"}
<1>1. ASSUME NEW o \in T, o.id = id PROVE AnswerIn(T, next, id) = o.state
  <2> DEFINE p == CHOOSE p \in T : p.id = id
  <2>1. p \in T /\ p.id = id
    BY <1>1
  <2>2. p = o
    BY <1>1, <2>1 DEF IsTable
  <2> QED
    BY <1>1, <2>2 DEF AnswerIn
<1>2. \A o \in T : o.state \in Final \cup {"waiting"}
  BY DEF IsTable, Row
<1>3. (\A o \in T : o.id # id) =>
        AnswerIn(T, next, id) = IF id < next THEN "gone" ELSE "unknown"
  BY DEF AnswerIn
<1>4. AnswerIn(T, next, id) \in Final \cup {"unknown", "waiting", "gone"}
  BY <1>1, <1>2, <1>3
<1> QED
  BY <1>1, <1>3, <1>4

\* What the table answers, in terms of the inductive invariant.
LEMMA AnswersNow ==
  ASSUME IInv
  PROVE  /\ IsTable(ops)
         /\ \A id \in OpIds : Answers[id] = "waiting" <=> id \in Current(session)
         /\ \A id \in OpIds : Answers[id] # "unknown" <=> id < nextOp
<1>1. IsTable(ops) /\ \A o \in ops : o.id \in OpIds /\ o.id < nextOp
  BY DEF IInv, TypeOK, TableInv, IssuedInv, IsTable, Row
<1>2. \A id \in OpIds : Answers[id] = AnswerIn(ops, nextOp, id)
  BY DEF Answers
<1>3. ASSUME NEW id \in OpIds
      PROVE  /\ Answers[id] = "waiting" <=> id \in Current(session)
             /\ Answers[id] # "unknown" <=> id < nextOp
  <2>1. CASE \E o \in ops : o.id = id
    <3>1. PICK o \in ops : o.id = id
      BY <2>1
    <3>2. Answers[id] = o.state
      BY <1>1, <1>2, <3>1, AnswerFacts
    <3>3. o.state # "unknown"
      BY <1>1 DEF IsTable, Row, Final
    <3>4. id \in Current(session) => o.state = "waiting"
      BY <1>1, <3>1 DEF IInv, WaitingInv, IsTable
    <3>5. o.state = "waiting" => id \in Current(session)
      BY <3>1 DEF IInv, WaitingInv
    <3> QED
      BY <1>1, <3>1, <3>2, <3>3, <3>4, <3>5
  <2>2. CASE \A o \in ops : o.id # id
    <3>1. Answers[id] = IF id < nextOp THEN "gone" ELSE "unknown"
      BY <1>1, <1>2, <2>2, AnswerFacts
    <3>2. id \notin Current(session)
      BY <2>2 DEF IInv, WaitingInv
    <3> QED
      BY <3>1, <3>2
  <2> QED
    BY <2>1, <2>2
<1> QED
  BY <1>1, <1>3

\* An operation whose row a step keeps, or drops when it does not wait, answers
\* what it did, or is gone with its outcome.
LEMMA KeepOrFade ==
  ASSUME IInv, IsTable(ops'), nextOp \in Nat, nextOp' \in Nat, nextOp <= nextOp',
         NEW id \in OpIds, id < nextOp' => id < nextOp,
         \A o \in ops' : o.id = id => \E p \in ops : Same(o, p),
         id \in Current(session) => \E o \in ops' : o.id = id
  PROVE  \/ Answers'[id] = Answers[id]
         \/ Answers[id] \in Final /\ Answers'[id] = "gone"
<1>1. IsTable(ops) /\ (Answers[id] = "waiting" <=> id \in Current(session))
  BY AnswersNow
<1>2. Answers[id] = AnswerIn(ops, nextOp, id) /\ Answers'[id] = AnswerIn(ops', nextOp', id)
  BY DEF Answers
<1>3. id \in Nat
  BY SessionsAssumption DEF OpIds
<1>4. CASE \E o \in ops' : o.id = id
  <2>1. PICK o \in ops' : o.id = id
    BY <1>4
  <2>2. PICK p \in ops : Same(o, p)
    BY <2>1
  <2>3. p.id = id /\ p.state = o.state
    BY <2>1, <2>2 DEF Same
  <2>4. Answers[id] = p.state
    BY <1>1, <1>2, <2>3, AnswerFacts
  <2>5. Answers'[id] = o.state
    BY <1>2, <2>1, AnswerFacts
  <2> QED
    BY <2>3, <2>4, <2>5
<1>5. CASE \A o \in ops' : o.id # id
  <2>1. Answers'[id] = IF id < nextOp' THEN "gone" ELSE "unknown"
    BY <1>2, <1>5, AnswerFacts
  <2>2. id < nextOp' <=> id < nextOp
    BY <1>3
  <2>3. Answers[id] # "waiting"
    BY <1>1, <1>5
  <2>4. Answers[id] \in Final \cup {"unknown", "waiting", "gone"}
    BY <1>1, <1>2, AnswerFacts
  <2>5. Answers[id] # "unknown" <=> id < nextOp
    BY AnswersNow
  <2> QED
    BY <2>1, <2>2, <2>3, <2>4, <2>5
<1> QED
  BY <1>4, <1>5

LEMMA AnswersTyped ==
  ASSUME NEW T, IsTable(T), NEW next
  PROVE  [id \in OpIds |-> AnswerIn(T, next, id)]
           \in [OpIds -> Final \cup {"unknown", "waiting", "gone"}]
<1>1. \A id \in OpIds : AnswerIn(T, next, id) \in Final \cup {"unknown", "waiting", "gone"}
  BY AnswerFacts
<1> QED
  BY <1>1

\* An identifier that is issued is the next one.
LEMMA NextIssued ==
  ASSUME IInv, nextOp \in OpIds
  PROVE  Promise!IsNext(nextOp)
<1>1. nextOp \in Nat /\ OpIds \subseteq Nat
  BY SessionsAssumption DEF IInv, TypeOK, OpIds
<1>2. Answers[nextOp] = "unknown"
  BY <1>1, AnswersNow
<1>3. \A j \in OpIds : j < nextOp => Answers[j] # "unknown"
  BY AnswersNow
<1> QED
  BY <1>2, <1>3 DEF Promise!IsNext

LEMMA FinishImplements ==
  ASSUME IInv, NEW k \in Kinds, session[k] # None, NEW result \in Results,
         FinishSession(k, result), nextOp' = nextOp
  PROVE  \E id \in OpIds : Promise!End(id)
<1>1. PICK id : id = session[k].op
  OBVIOUS
<1>2. PICK state : state = Outcome(k, result)
  OBVIOUS
<1>3. /\ IsTable(ops')
      /\ \A o \in ops' :
           \/ o.id = id /\ o.kind = k /\ o.state = state
           \/ o.id # id /\ \E p \in ops : Same(o, p)
      /\ \A p \in ops : p.id \in Current(session') => \E o \in ops' : Same(o, p)
  BY <1>1, <1>2, FinishTable
<1>4. /\ id \in OpIds /\ id < nextOp /\ id \in Current(session)
      /\ Current(session') = Current(session) \ {id}
  BY <1>1, SessionEnded DEF FinishSession
<1>5. state \in Final
  BY <1>2, OutcomeFacts
<1>6. nextOp \in Nat
  BY SessionsAssumption DEF IInv, TypeOK
<1>7. Answers[id] = "waiting"
  BY <1>4, AnswersNow
<1>8. Answers' \in [OpIds -> Final \cup {"unknown", "waiting", "gone"}]
  BY <1>3, AnswersTyped DEF Answers
<1>9. Answers'[id] \in Final \cup {"gone"}
  <2>1. Answers'[id] = AnswerIn(ops', nextOp', id)
    BY <1>4 DEF Answers
  <2>2. CASE \E o \in ops' : o.id = id
    <3>1. PICK o \in ops' : o.id = id
      BY <2>2
    <3>2. AnswerIn(ops', nextOp', id) = o.state
      BY <1>3, <3>1, AnswerFacts
    <3> QED
      BY <1>3, <1>5, <2>1, <3>1, <3>2
  <2>3. CASE \A o \in ops' : o.id # id
    BY <1>3, <1>4, <2>1, <2>3, AnswerFacts
  <2> QED
    BY <2>2, <2>3
<1>10. ASSUME NEW j \in OpIds \ {id}
       PROVE  \/ Answers'[j] = Answers[j]
              \/ Answers[j] \in Final /\ Answers'[j] = "gone"
  <2>1. \A o \in ops' : o.id = j => \E p \in ops : Same(o, p)
    BY <1>3
  <2>2. ASSUME j \in Current(session) PROVE \E o \in ops' : o.id = j
    <3>1. PICK p \in ops : p.id = j
      BY <2>2 DEF IInv, WaitingInv
    <3>2. PICK o \in ops' : Same(o, p)
      BY <1>3, <1>4, <2>2, <3>1
    <3> QED
      BY <3>1, <3>2 DEF Same
  <2> QED
    BY <1>3, <1>6, <2>1, <2>2, KeepOrFade
<1>11. Promise!End(id)
  BY <1>7, <1>8, <1>9, <1>10 DEF Promise!End, Promise!OthersKeepOrFade
<1> QED
  BY <1>4, <1>11

LEMMA MutationImplements ==
  ASSUME IInv, Mutation
  PROVE  \E id \in OpIds : Promise!Execute(id)
<1>1. /\ ops' = PruneOperations(Journaled(ops, nextOp), session)
      /\ nextOp' = nextOp + 1 /\ session' = session
  BY DEF Mutation
<1>2. nextOp \in OpIds /\ nextOp \in Nat /\ OpIds \subseteq Nat
  <2>1. IInv'
    BY MutationInv
  <2>2. nextOp \in 1 .. MaxSessions + MaxMutations + 1
        /\ nextOp + 1 \in 1 .. MaxSessions + MaxMutations + 1
        /\ MaxSessions \in Nat /\ MaxMutations \in Nat
    BY <1>1, <2>1, SessionsAssumption DEF IInv, TypeOK
  <2> QED
    BY <2>2 DEF OpIds
<1>3. IsTable(ops) /\ \A o \in ops : o.at <= Cardinality(ops) /\ o.id < nextOp
  BY DEF IInv, TypeOK, TableInv, IssuedInv, IsTable, Row
<1>4. \A o \in ops : o.id # nextOp
  BY <1>2, <1>3
<1>5. PICK J : J = Journaled(ops, nextOp)
  OBVIOUS
<1>6. /\ IsTable(J)
      /\ \A o \in J : \/ o \in ops
                      \/ o.id = nextOp /\ o.kind = "keyed" /\ o.state = "succeeded"
      /\ \A o \in ops : o.kind # "keyed" => o \in J
      /\ \E o \in J : o.id = nextOp /\ o.kind = "keyed" /\ o.state = "succeeded"
  BY <1>2, <1>3, <1>4, <1>5, JournaledFacts
<1>7. /\ IsTable(ops')
      /\ \A o \in ops' : \E p \in J : Same(o, p)
      /\ \A p \in J : p.kind = "keyed" \/ p.id \in Current(session)
                        => \E o \in ops' : Same(o, p)
  BY <1>1, <1>5, <1>6, PruneFacts
<1>8. Promise!IsNext(nextOp)
  BY <1>2, NextIssued
<1>9. Answers' \in [OpIds -> Final \cup {"unknown", "waiting", "gone"}]
  BY <1>7, AnswersTyped DEF Answers
<1>10. Answers'[nextOp] \in Final
  <2>1. PICK p \in J : p.id = nextOp /\ p.kind = "keyed" /\ p.state = "succeeded"
    BY <1>6
  <2>2. PICK o \in ops' : Same(o, p)
    BY <1>7, <2>1
  <2>3. o.id = nextOp /\ o.state = "succeeded"
    BY <2>1, <2>2 DEF Same
  <2>4. AnswerIn(ops', nextOp', nextOp) = "succeeded"
    BY <1>7, <2>3, AnswerFacts
  <2> QED
    BY <1>2, <2>4 DEF Answers, Final
<1>11. ASSUME NEW j \in OpIds \ {nextOp}
       PROVE  \/ Answers'[j] = Answers[j]
              \/ Answers[j] \in Final /\ Answers'[j] = "gone"
  <2>1. \A o \in ops' : o.id = j => \E p \in ops : Same(o, p)
    BY <1>6, <1>7 DEF Same
  <2>2. ASSUME j \in Current(session) PROVE \E o \in ops' : o.id = j
    <3>1. PICK p \in ops : p.id = j /\ p.state = "waiting"
      BY <2>2 DEF IInv, WaitingInv
    <3>2. p \in J
      BY <1>6, <3>1 DEF IInv, WaitingInv
    <3>3. PICK o \in ops' : Same(o, p)
      BY <1>7, <2>2, <3>1, <3>2
    <3> QED
      BY <3>1, <3>3 DEF Same
  <2>3. nextOp <= nextOp' /\ nextOp' \in Nat /\ (j < nextOp' => j < nextOp)
    BY <1>1, <1>2
  <2> QED
    BY <1>2, <1>7, <2>1, <2>2, <2>3, KeepOrFade
<1>12. Promise!Execute(nextOp)
  BY <1>8, <1>9, <1>10, <1>11 DEF Promise!Execute, Promise!OthersKeepOrFade
<1> QED
  BY <1>2, <1>12

\* A session that starts takes the place of none: at most the other kind's waits.
LEMMA OpenDeviceImplements ==
  ASSUME IInv, OpenDevice
  PROVE  \E id \in OpIds : Promise!Begin(id)
<1>1. /\ starting # None /\ nextOp' = nextOp + 1
      /\ ops' = Updated(ops, nextOp, starting.kind, "waiting")
  BY DEF OpenDevice
<1>2. PICK k \in Kinds : k = starting.kind /\ session[k] = None
  BY <1>1 DEF IInv, TypeOK, StartInv
<1>3. nextOp \in OpIds /\ nextOp \in Nat /\ OpIds \subseteq Nat
  <2>1. IInv'
    BY OpenDeviceInv
  <2>2. nextOp \in 1 .. MaxSessions + MaxMutations + 1
        /\ nextOp + 1 \in 1 .. MaxSessions + MaxMutations + 1
        /\ MaxSessions \in Nat /\ MaxMutations \in Nat
    BY <1>1, <2>1, SessionsAssumption DEF IInv, TypeOK
  <2> QED
    BY <2>2 DEF OpIds
<1>4. IsTable(ops) /\ \A o \in ops : o.at <= Cardinality(ops) /\ o.id < nextOp
  BY DEF IInv, TypeOK, TableInv, IssuedInv, IsTable, Row
<1>5. PICK new : new = [id |-> nextOp, kind |-> k, state |-> "waiting",
                        at |-> Cardinality(ops) + 1]
  OBVIOUS
<1>6. new.id = nextOp /\ new.state = "waiting"
  BY <1>5
<1>7. /\ IsTable(ops') /\ new \in ops'
      /\ \A o \in ops' : o = new \/ o \in ops
      /\ \A o \in ops : o.id # nextOp => o \in ops'
  <2>1. k \in Kinds \cup {"keyed"} /\ "waiting" \in Final \cup {"waiting"}
    OBVIOUS
  <2> QED
    BY <1>1, <1>2, <1>3, <1>4, <1>5, <2>1, UpdatedFacts
<1>8. Promise!IsNext(nextOp)
  BY <1>3, NextIssued
<1>9. Cardinality(Promise!Waiting) < Cardinality(Kinds)
  <2>1. PICK other \in Kinds : other # k /\ Kinds = {k, other}
    BY DEF Kinds
  <2>2. Cardinality(Kinds) = 2
    <3>1. IsFiniteSet({k}) /\ Cardinality({k}) = 1 /\ other \notin {k}
          /\ Kinds = {k} \cup {other}
      BY <2>1, FS_Singleton
    <3> QED
      BY <3>1, FS_AddElement
  <2>3. Promise!Waiting \subseteq {session[other].op}
    <3>1. Current(session) \subseteq {session[other].op}
      BY <1>2, <2>1 DEF Current
    <3> QED
      BY <3>1, AnswersNow DEF Promise!Waiting
  <2>4. Cardinality(Promise!Waiting) <= 1
    <3>1. IsFiniteSet({session[other].op}) /\ Cardinality({session[other].op}) = 1
      BY FS_Singleton
    <3> QED
      BY <2>3, <3>1, FS_Subset
  <2>5. Cardinality(Promise!Waiting) \in Nat
    <3>1. IsFiniteSet({session[other].op})
      BY FS_Singleton
    <3>2. IsFiniteSet(Promise!Waiting)
      BY <2>3, <3>1, FS_Subset
    <3> QED
      BY <3>2, FS_CardinalityType
  <2> QED
    BY <2>2, <2>4, <2>5
<1>10. Answers'[nextOp] = "waiting"
  <2>1. AnswerIn(ops', nextOp', nextOp) = "waiting"
    BY <1>6, <1>7, AnswerFacts
  <2> QED
    BY <1>3, <2>1 DEF Answers
<1>11. ASSUME NEW j \in OpIds, j # nextOp
       PROVE  Answers'[j] = Answers[j]
  <2>1. Answers[j] = AnswerIn(ops, nextOp, j) /\ Answers'[j] = AnswerIn(ops', nextOp', j)
    BY DEF Answers
  <2>2. CASE \E o \in ops : o.id = j
    <3>1. PICK o \in ops : o.id = j
      BY <2>2
    <3>2. o \in ops'
      BY <1>7, <1>11, <3>1
    <3> QED
      BY <1>4, <1>7, <2>1, <3>1, <3>2, AnswerFacts
  <2>3. CASE \A o \in ops : o.id # j
    <3>1. \A o \in ops' : o.id # j
      BY <1>6, <1>7, <1>11, <2>3
    <3>2. j < nextOp' <=> j < nextOp
      BY <1>1, <1>3, <1>11
    <3> QED
      BY <1>4, <1>7, <2>1, <2>3, <3>1, <3>2, AnswerFacts
  <2> QED
    BY <2>2, <2>3
<1>12. Answers' = [Answers EXCEPT ![nextOp] = "waiting"]
  <2>1. DOMAIN Answers = OpIds /\ DOMAIN Answers' = OpIds
        /\ Answers = [j \in OpIds |-> Answers[j]] /\ Answers' = [j \in OpIds |-> Answers'[j]]
    BY DEF Answers
  <2> QED
    BY <1>3, <1>10, <1>11, <2>1
<1>13. Promise!Cardinality(Promise!Waiting) = Cardinality(Promise!Waiting)
  BY DEF Promise!Cardinality, Cardinality
<1> QED
  BY <1>3, <1>8, <1>9, <1>12, <1>13 DEF Promise!Begin

LEMMA NextImplements == IInv /\ [Next]_vars => [Promise!Next]_Answers
<1> SUFFICES ASSUME IInv, [Next]_vars
             PROVE  Promise!Next \/ UNCHANGED Answers
  OBVIOUS
<1>1. ASSUME UNCHANGED <<ops, nextOp>> PROVE UNCHANGED Answers
  BY <1>1 DEF Answers
<1>2. CASE OpenDevice
  BY <1>2, OpenDeviceImplements DEF Promise!Next
<1>3. CASE Mutation
  BY <1>3, MutationImplements DEF Promise!Next
<1>4. CASE Finish
  <2>1. PICK c : c = Head(mailbox)
    OBVIOUS
  <2>2. nextOp' = nextOp
    BY <1>4 DEF Finish
  <2>3. CASE session[c.kind] # None /\ session[c.kind].op = c.op
    <3>1. c \in Commands /\ c.do = "finish"
      BY <1>4, <2>1, DequeueFacts DEF Finish, IInv
    <3>2. c.kind \in Kinds /\ c.result \in Results
      BY <3>1 DEF Commands
    <3>3. FinishSession(c.kind, c.result)
      BY <1>4, <2>1, <2>3 DEF Finish
    <3>4. \E id \in OpIds : Promise!End(id)
      BY <2>2, <2>3, <3>2, <3>3, FinishImplements
    <3> QED
      BY <3>4 DEF Promise!Next
  <2>4. CASE ~(session[c.kind] # None /\ session[c.kind].op = c.op)
    BY <1>1, <1>4, <2>1, <2>2, <2>4 DEF Finish
  <2> QED
    BY <2>3, <2>4
<1>5. CASE Cancel
  <2>1. nextOp' = nextOp
    BY <1>5 DEF Cancel
  <2>2. CASE Head(mailbox).op \in Current(session)
    <3>1. PICK k \in Kinds : session[k] # None /\ FinishSession(k, "cancel")
      BY <1>5, <2>2 DEF Cancel
    <3>2. "cancel" \in Results
      BY DEF Results
    <3>3. \E id \in OpIds : Promise!End(id)
      BY <2>1, <3>1, <3>2, FinishImplements
    <3> QED
      BY <3>3 DEF Promise!Next
  <2>3. CASE Head(mailbox).op \notin Current(session)
    BY <1>1, <1>5, <2>1, <2>3 DEF Cancel
  <2> QED
    BY <2>2, <2>3
<1>6. CASE Stop
  <2>1. IsTable({}) /\ ops' = {} /\ nextOp' = 1
    BY <1>6, FS_EmptySet DEF Stop, IsTable
  <2>2. \A id \in OpIds : AnswerIn({}, 1, id) = "unknown"
    <3>1. \A id \in OpIds : ~(id < 1)
      BY SessionsAssumption DEF OpIds
    <3> QED
      BY <3>1 DEF AnswerIn
  <2>3. Answers' = [id \in OpIds |-> "unknown"]
    BY <2>1, <2>2 DEF Answers
  <2> QED
    BY <2>3 DEF Promise!Next, Promise!Stop
<1>7. CASE \/ Expired \/ BeginStart \/ Locate \/ StartFails \/ Pass \/ ClientSubmits
           \/ (\E id \in OpIds : Waiter(id))
           \/ (\E b \in Movable : Unplug(b) \/ \E n \in Nodes : Plug(b, n))
           \/ UNCHANGED vars
  <2>1. UNCHANGED <<ops, nextOp>>
    BY <1>7 DEF Expired, BeginStart, Locate, StartFails, Pass, ClientSubmits, Waiter,
         Observes, ContextDone, Return, PostFinish, Unplug, Plug, vars
  <2> QED
    BY <1>1, <2>1
<1> QED
  BY <1>2, <1>3, <1>4, <1>5, <1>6, <1>7 DEF Next, Owner

\* To its clients the table of operations is the abstract one: identifiers in
\* order, one session of a kind at a time, one outcome that never changes, and
\* nothing that waits forgotten (startIdentification, finishIdentification,
\* cancelIdentificationOperation, pruneOperations).
THEOREM TableImplementsOperations == Spec => OperationsSpec
<1>1. Init => Promise!Init
  <2>1. \A id \in OpIds : ~(id < 1)
    BY SessionsAssumption DEF OpIds
  <2> QED
    BY <2>1 DEF Init, Promise!Init, Answers, AnswerIn
<1> QED
  BY <1>1, Invariance, NextImplements, PTL DEF Spec, OperationsSpec, Promise!Spec
=============================================================================
