------------------------------ MODULE Preview ------------------------------
(***************************************************************************)
(* validation.preview: the owner renders and checks a candidate and writes *)
(* its snapshot, the goroutine of the request runs KMonad on it outside    *)
(* the owner, and answers with a verdict that may name a place of the      *)
(* submitted text (validation_api.go, validation.go, render.go,            *)
(* supervisor.go, commands.go, and linux.go for what is rendered).         *)
(*                                                                         *)
(* One request, which shares no state with another but the mailbox.        *)
(* It gives one of a model and a content.  Devices, roles and claims are a *)
(* free choice here (Sessions, Supervisor).                                *)
(***************************************************************************)
EXTENDS ConfigText, SequencesExt

CONSTANTS
  Pieces,    \* what submitted texts are put together from
  MaxPieces  \* bound: pieces in a text

ASSUME PreviewAssumption == Pieces \subseteq Seq(STRING) /\ MaxPieces \in Nat

VARIABLES
  text,      \* the model's behaviour, or the content
  isModel,
  ctx,       \* the request's: "live" or "ended"
  client,    \* its goroutine: "new", "waiting", "running", "answered"
  owner,     \* the command: "none", "queued", "checked", "written", "replied"
  reply,     \* what the owner answers: none, a verdict or "prepared"
  snapshot,  \* is its file there?
  kmonad,    \* the dry run: "none", "running", "passed", "failed", "killed", "stuck"
  range,     \* the positions KMonad reports
  answer     \* what the client gets

vars == <<text, isModel, ctx, client, owner, reply, snapshot, kmonad, range, answer>>

Verdicts == {"valid", "rejected", "blocked"}
None == [outcome |-> "none", location |-> << >>]
Error == [outcome |-> "error", location |-> << >>]
Prepared == [outcome |-> "prepared", location |-> << >>]
Verdict(v) == [outcome |-> v, location |-> << >>]

TypeOK ==
  /\ isModel \in BOOLEAN /\ snapshot \in BOOLEAN
  /\ ctx \in {"live", "ended"}
  /\ client \in {"new", "waiting", "running", "answered"}
  /\ owner \in {"none", "queued", "checked", "written", "replied"}
  /\ kmonad \in {"none", "running", "passed", "failed", "killed", "stuck"}
  /\ reply \in {None, Error, Prepared} \cup {Verdict(v) : v \in Verdicts \ {"valid"}}
  /\ answer \in {None, Error} \cup [outcome: Verdicts, location: {answer.location}]

-----------------------------------------------------------------------------
(* Rendering.                                                              *)

RenderKMonadInput == <<"input", " ", "(", "device-file", " ", Quote, "node", Quote, ")">>

RenderKMonadDefcfg ==
  <<"(", "defcfg", Newline, " ">> \o RenderKMonadInput
    \o <<Newline, " ", "output", " ", "(", "uinput-sink", " ", Quote, "name", Quote, ")", Newline, ")">>

BehaviorStart == Len(RenderKMonadDefcfg) + 1

Candidate ==
  IF ~isModel THEN text
  ELSE RenderKMonadDefcfg \o <<Newline>> \o (IF text = << >> THEN << >> ELSE Append(text, Newline))

-----------------------------------------------------------------------------
(* The owner.                                                              *)

Submit ==
  /\ client = "new"
  /\ \/ client' = "answered" /\ answer' = Error /\ UNCHANGED owner    \* ended, or mailbox full
     \/ ctx = "live" /\ client' = "waiting" /\ owner' = "queued" /\ UNCHANGED answer
  /\ UNCHANGED <<text, isModel, ctx, reply, snapshot, kmonad, range>>

Reply(r) == owner' = "replied" /\ reply' = r

\* renderManagedConfiguration and checkCandidateInput.
Check ==
  /\ owner = "queued"
  /\ \/ ctx = "ended" /\ Reply(Error)
     \/ ctx = "live" /\ isModel /\ ContainsManagerOwnedConfiguration(text) /\ Reply(Verdict("rejected"))
     \/ ctx = "live" /\ Malformed(TokenizeConfig(Candidate)) /\ Reply(Verdict("rejected"))
     \/ ctx = "live" /\ \E v \in {"rejected", "blocked"} : Reply(Verdict(v))    \* its size or device
     \/ /\ ctx = "live" /\ ~(isModel /\ ContainsManagerOwnedConfiguration(text))
        /\ DeviceFileFromData(Candidate) # << >>
        /\ owner' = "checked" /\ UNCHANGED reply
  /\ UNCHANGED <<text, isModel, ctx, client, snapshot, kmonad, range, answer>>

CreateSnapshot ==
  /\ owner = "checked"
  /\ \/ ctx = "ended" /\ Reply(Error) /\ UNCHANGED snapshot
     \/ ctx = "live" /\ Reply(Verdict("blocked")) /\ UNCHANGED snapshot
     \/ ctx = "live" /\ owner' = "written" /\ snapshot' = TRUE /\ UNCHANGED reply
  /\ UNCHANGED <<text, isModel, ctx, client, kmonad, range, answer>>

FinishPreparation_KeepsFile ==  \* mutation: the file stays when the request has ended
  /\ owner = "written"
  /\ (IF ctx = "ended" THEN Reply(Error) ELSE Reply(Prepared))
  /\ UNCHANGED <<text, isModel, ctx, client, snapshot, kmonad, range, answer>>

FinishPreparation ==
  /\ owner = "written"
  /\ IF ctx = "ended" THEN Reply(Error) /\ snapshot' = FALSE
     ELSE Reply(Prepared) /\ UNCHANGED snapshot
  /\ UNCHANGED <<text, isModel, ctx, client, kmonad, range, answer>>

-----------------------------------------------------------------------------
(* What KMonad reports.                                                    *)

\* The line and the column of an offset, as the validator counts them.
PlaceOf(d, o) ==
  LET breaks == {i \in 1 .. o : d[i] = Newline}
  IN [line |-> 1 + Cardinality(breaks),
      column |-> 1 + Cardinality({i \in Max(breaks \cup {0}) + 1 .. o : d[i] # "w2"})]

Boundaries(d) == {o \in 0 .. Len(d) : o = Len(d) \/ At(d, o) # "w2"}

\* From shortly before the submitted text on: one position, or a range of at
\* most three bytes.
Reports ==
  LET places == {o \in Boundaries(Candidate) : o >= BehaviorStart - 2} IN
  UNION {{[start |-> PlaceOf(Candidate, o), end |-> e] :
            e \in {NoEnd} \cup {PlaceOf(Candidate, x) : x \in {x \in places : o <= x /\ x <= o + 3}}} :
         o \in places}

\* What KMonad prints when it fails: nothing known, a position of its own, or
\* two, which are ambiguous.
Printed ==
  {{}, {[start |-> p, end |-> NoEnd] : p \in {Start, PlaceOf(Candidate, Len(Candidate))}}}
  \cup (IF isModel THEN {{r} : r \in Reports} ELSE {})

-----------------------------------------------------------------------------
(* The goroutine of the request.                                           *)

\* Whichever is ready: the reply, or the end of the context.
GiveUp ==
  /\ client = "waiting" /\ ctx = "ended"
  /\ client' = "answered" /\ answer' = Error
  /\ UNCHANGED <<text, isModel, ctx, owner, reply, snapshot, kmonad, range>>

Return(a) == client' = "answered" /\ answer' = a /\ snapshot' = FALSE

\* A preparation goes on to the dry run, which may not start.
Receive ==
  /\ client = "waiting" /\ owner = "replied"
  /\ IF reply # Prepared
     THEN client' = "answered" /\ answer' = reply /\ UNCHANGED <<snapshot, kmonad>>
     ELSE \/ client' = "running" /\ kmonad' = "running" /\ UNCHANGED <<snapshot, answer>>
          \/ \E v \in {"rejected", "blocked"} : Return(Verdict(v)) /\ UNCHANGED kmonad
  /\ UNCHANGED <<text, isModel, ctx, owner, reply, range>>

\* Exactly one reported position can be a location.
Diagnosis(reported) ==
  [outcome |-> "rejected",
   location |-> IF Cardinality(reported) = 1 /\ isModel
                THEN CandidateDiagnosticLocation(text, BehaviorStart, Candidate,
                                                 CHOOSE r \in reported : TRUE)
                ELSE << >>]

Finish ==
  /\ client = "running" /\ kmonad \in {"passed", "failed"}
  /\ Return(IF kmonad = "passed" THEN Verdict("valid") ELSE Diagnosis(range))
  /\ UNCHANGED <<text, isModel, ctx, owner, reply, kmonad, range>>

\* The timer, or the end of the context: SIGKILL, and a second to exit in.
Interrupt ==
  /\ client = "running"
  /\ \/ /\ kmonad' \in (IF kmonad = "running" THEN {"killed", "stuck"} ELSE {kmonad})
        /\ Return(Verdict("blocked")) /\ UNCHANGED range
     \* "did not exit after cancellation" is neither a timeout nor ctx.Err().
     \/ /\ kmonad = "running" /\ ctx = "ended" /\ kmonad' = "stuck"
        /\ range' \in Printed /\ Return(Diagnosis(range'))
  /\ UNCHANGED <<text, isModel, ctx, owner, reply>>

-----------------------------------------------------------------------------
(* The rest of the system.                                                 *)

ContextEnds ==
  /\ ctx = "live" /\ client # "answered"
  /\ ctx' = "ended"
  /\ UNCHANGED <<text, isModel, client, owner, reply, snapshot, kmonad, range, answer>>

Exit ==
  /\ kmonad = "running"
  /\ \/ kmonad' = "passed" /\ UNCHANGED range
     \/ kmonad' = "failed" /\ range' \in Printed
  /\ UNCHANGED <<text, isModel, ctx, client, owner, reply, snapshot, answer>>

-----------------------------------------------------------------------------
Texts == {FlattenSeq(s) : s \in UNION {[1 .. n -> Pieces] : n \in 0 .. MaxPieces}}

Init ==
  /\ text \in Texts /\ isModel \in BOOLEAN
  /\ ctx = "live" /\ client = "new" /\ owner = "none" /\ reply = None
  /\ snapshot = FALSE /\ kmonad = "none" /\ range = {} /\ answer = None

Next ==
  \/ Submit \/ Check \/ CreateSnapshot \/ FinishPreparation
  \/ GiveUp \/ Receive \/ Finish \/ Interrupt
  \/ ContextEnds \/ Exit

Spec == Init /\ [][Next]_vars

-----------------------------------------------------------------------------
(* Properties.                                                             *)

\* A verdict is what KMonad said of this candidate: valid when it passed, and
\* rejected after a dry run when it failed; the snapshot is there for as long
\* as the dry run needs it and goes with the answer.  Two exceptions: a KMonad
\* that outlives the SIGKILL of a request that has ended is reported as a
\* rejection, and a request that ends after the owner's last look at its
\* context leaves the snapshot behind (runPreparedValidation, submitCommand).
PreviewHonest ==
  /\ TypeOK
  /\ answer.outcome = "valid" => kmonad = "passed"
  /\ answer.outcome = "rejected" /\ kmonad # "none" =>
       kmonad = "failed" \/ (kmonad = "stuck" /\ ctx = "ended")
  /\ client = "running" => snapshot
  /\ client = "answered" /\ owner \in {"none", "replied"} /\ snapshot =>
       ctx = "ended" /\ reply = Prepared /\ answer = Error

Words(d, w) ==
  LET tokens == TokenizeConfig(d) IN {i \in DOMAIN tokens : IsWord(tokens[i], w)}

\* KMonad is run on a model's candidate only if it declares the device the
\* manager resolved and has one defcfg, one input and one output, whatever the
\* submitted behaviour holds: words in strings, in comments, or a string that
\* never ends (containsManagerOwnedConfiguration, deviceFileFromData).
DeviceChosen ==
  isModel /\ kmonad = "running" =>
    /\ DeviceFileFromData(Candidate) = <<Quote, "node", Quote>>
    /\ \A w \in Owned : Cardinality(Words(Candidate, w)) = 1

\* The elements of the lists of a text, found by its tokens.
InAssignment(d, start, end) ==
  LET tokens == TokenizeConfig(d)
      Count(kind, i) == Cardinality({j \in 1 .. i - 1 : tokens[j].kind = kind})
      Depth(i) == Count("(", i) - Count(")", i)
  IN \E list, first, last \in DOMAIN tokens :
       /\ list < first /\ first <= last
       /\ tokens[list].kind = "(" /\ Depth(list) = 0 /\ IsWord(tokens[list + 1], "deflayer")
       /\ \A i \in list + 1 .. last : Depth(i) >= 1
       /\ Depth(first) = 1 /\ tokens[first].kind # ")"
       /\ Cardinality({i \in list + 1 .. first - 1 : Depth(i) = 1 /\ tokens[i].kind # ")"}) >= 2
       /\ IF tokens[first].kind = "("
          THEN tokens[last].kind = ")" /\ Depth(last) = 2 /\ \A i \in first + 1 .. last : Depth(i) >= 2
          ELSE last = first
       /\ tokens[first].start <= start /\ end <= tokens[last].end

\* A location names, in the submitted text, the very bytes the validator
\* reported in the candidate, and they lie in one assignment of a deflayer;
\* only a rejection has one, and only for a single reported position.
LocationFaithful ==
  answer.location # << >> =>
    /\ answer.outcome = "rejected" /\ isModel
    /\ \E r \in range, start, end \in Boundaries(text) :
         /\ range = {r}
         /\ answer.location = <<PlaceOf(text, start), PlaceOf(text, end)>>
         /\ PlaceOf(Candidate, BehaviorStart + start) = r.start
         /\ r.end # NoEnd => PlaceOf(Candidate, BehaviorStart + end) = r.end
         /\ r.end = NoEnd => {o \in Boundaries(text) : start < o /\ o < end} = {}
         /\ start < end
         /\ InAssignment(text, start, end)

=============================================================================
