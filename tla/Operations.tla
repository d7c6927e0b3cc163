----------------------------- MODULE Operations -----------------------------
(***************************************************************************)
(* What operation.get promises the clients of the manager: identifiers are *)
(* issued in order and never twice; an operation answers "waiting" and     *)
(* then one outcome, which never changes, until the manager forgets it; an *)
(* operation that waits is not forgotten; and so many wait at once.  Both  *)
(* "unknown" and "gone" answer that the operation does not exist; only one *)
(* that is unknown may still come to exist.                                *)
(***************************************************************************)
EXTENDS Naturals, FiniteSets

CONSTANTS
  Issued,     \* identifiers, natural numbers
  Outcomes,
  AtOnce      \* operations that may wait at the same time

VARIABLE answer  \* what a client that asks for each operation is told

Waiting == {i \in Issued : answer[i] = "waiting"}

Init == answer = [i \in Issued |-> "unknown"]

IsNext(i) ==
  /\ answer[i] = "unknown"
  /\ \A j \in Issued : j < i => answer[j] # "unknown"

\* Old outcomes may be forgotten when another operation changes.
OthersKeepOrFade(i) ==
  \A j \in Issued \ {i} :
    \/ answer'[j] = answer[j]
    \/ answer[j] \in Outcomes /\ answer'[j] = "gone"

Begin(i) ==
  /\ IsNext(i) /\ Cardinality(Waiting) < AtOnce
  /\ answer' = [answer EXCEPT ![i] = "waiting"]

\* An operation that is done when its client hears of it.
Execute(i) ==
  /\ IsNext(i)
  /\ answer' \in [Issued -> Outcomes \cup {"unknown", "waiting", "gone"}]
  /\ answer'[i] \in Outcomes
  /\ OthersKeepOrFade(i)

\* The outcome itself may already be too much to keep.
End(i) ==
  /\ answer[i] = "waiting"
  /\ answer' \in [Issued -> Outcomes \cup {"unknown", "waiting", "gone"}]
  /\ answer'[i] \in Outcomes \cup {"gone"}
  /\ OthersKeepOrFade(i)

\* The manager is gone, and its identifiers with it.
Stop == answer' = [i \in Issued |-> "unknown"]

Next == (\E i \in Issued : Begin(i) \/ Execute(i) \/ End(i)) \/ Stop

Spec == Init /\ [][Next]_answer
=============================================================================
