---------------------------- MODULE MCSupervisor ----------------------------
(***************************************************************************)
(* Small instances of Supervisor.  Content names: the letter is the device *)
(* path the content names, "x" marks one that KMonad rejects.              *)
(***************************************************************************)
EXTENDS Supervisor, TLC

\* The identities are interchangeable.
IdentSymmetry == Permutations(Idents)

\* The code's doubling delays with a ceiling, scaled down.
MCRetryDelay == [f \in 1 .. RetryCap |-> IF f < RetryCap THEN 2 ^ f ELSE 3]

\* One path, one device: the update and watchdog cases of a single file.
OneContents == {"p1", "p2", "px"}
OnePathOf   == [x \in OneContents |-> "p"]
OneGood     == {"p1", "p2"}

\* Two devices, a rejected content on the second.
TwoContents == {"p1", "q1", "qx"}
TwoPathOf   == [x \in TwoContents |-> IF x = "p1" THEN "p" ELSE "q"]
TwoGood     == {"p1", "q1"}
=============================================================================
