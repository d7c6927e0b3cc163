------------------------------ MODULE EventLog ------------------------------
(***************************************************************************)
(* What the event stream of the Manager API promises its clients: one      *)
(* numbered log per manager instance, of which every client reads each     *)
(* entry after its position exactly once and in order, unless it jumps to  *)
(* the end (a snapshot, a new subscription) or is told to resynchronize.   *)
(***************************************************************************)
EXTENDS Naturals

CONSTANT Clients

VARIABLES
  server,      \* instance of the manager
  length,      \* entries in its log
  position,    \* entries each client knows
  follows      \* the instance each client's position belongs to

logVars == <<server, length, position, follows>>

Init ==
  /\ server = 1
  /\ length = 0
  /\ position = [c \in Clients |-> 0]
  /\ follows = [c \in Clients |-> 0]

Append ==
  /\ length' = length + 1
  /\ UNCHANGED <<server, position, follows>>

Read(c) ==
  /\ follows[c] = server
  /\ position[c] < length
  /\ position' = [position EXCEPT ![c] = @ + 1]
  /\ UNCHANGED <<server, length, follows>>

\* A snapshot may first append the change it discovers.
Jump(c) ==
  /\ length' \in {length, length + 1}
  /\ position' = [position EXCEPT ![c] = length']
  /\ follows' = [follows EXCEPT ![c] = server]
  /\ UNCHANGED server

NewServer ==
  /\ server' = server + 1
  /\ length' = 0
  /\ UNCHANGED <<position, follows>>

Next ==
  \/ Append
  \/ \E c \in Clients : Read(c) \/ Jump(c)
  \/ NewServer

Spec == Init /\ [][Next]_logVars
=============================================================================
