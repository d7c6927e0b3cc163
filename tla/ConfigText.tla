----------------------------- MODULE ConfigText -----------------------------
(***************************************************************************)
(* The two scanners of KMonad text: tokenizeConfig, which decides what a   *)
(* configuration declares (state.go, render.go), and parseBehaviorForms,   *)
(* which finds the assignments of a submitted behaviour, with the          *)
(* conversions between offsets and line:column positions                   *)
(* (validation_location.go).                                               *)
(*                                                                         *)
(* A text is a sequence of bytes and an offset counts them from 0.  A word *)
(* that matters is one byte; "w1" "w2" are the bytes of one rune.          *)
(***************************************************************************)
EXTENDS Naturals, Sequences, FiniteSets, FiniteSetsExt

Quote == "quote"
Escape == "escape"
Newline == "newline"

Spaces == {" ", Newline}
Delimiters == Spaces \cup {"(", ")", ";"}
Owned == {"defcfg", "device-file", "uinput-sink"}   \* words of the manager alone

At(d, i) == d[i + 1]
Slice(d, start, end) == SubSeq(d, start + 1, end)

\* The first offset from i on that holds one of these bytes.
Find(d, i, bytes) == Min({j \in i .. Len(d) - 1 : At(d, j) \in bytes} \cup {Len(d)})

\* The offset after the quote that ends a string, 0 when nothing ends it.
RECURSIVE EndOfString(_, _)
EndOfString(d, i) ==
  IF i >= Len(d) THEN 0
  ELSE IF At(d, i) = Quote THEN i + 1
  ELSE EndOfString(d, i + (IF At(d, i) = Escape THEN 2 ELSE 1))

\* strconv.Unquote has no strings over two lines, and few escapes.
Unquotable(s) ==
  \A i \in DOMAIN s : /\ s[i] # Newline
                      /\ s[i] = Escape => s[i + 1] \in {Quote, Escape} \/ s[i - 1] = Escape

-----------------------------------------------------------------------------
(* tokenizeConfig.                                                         *)

Token(d, kind, start, end) ==
  [kind |-> kind, value |-> Slice(d, start, end), start |-> start, end |-> end]

RECURSIVE TokensFrom(_, _)
TokensFrom(d, i) ==
  IF i >= Len(d) THEN << >>
  ELSE LET byte == At(d, i)
           bad == <<Token(d, "error", i, Len(d))>>
           close == EndOfString(d, i + 1)
           word == Find(d, i, Delimiters)
       IN CASE byte = ";" -> TokensFrom(d, Find(d, i, {Newline}))
            [] byte \in Spaces -> TokensFrom(d, i + 1)
            [] byte \in {"(", ")"} -> <<Token(d, byte, i, i + 1)>> \o TokensFrom(d, i + 1)
            [] byte = Quote ->
                 IF close = 0 \/ ~Unquotable(Slice(d, i, close)) THEN bad
                 ELSE <<Token(d, "string", i, close)>> \o TokensFrom(d, close)
            [] OTHER -> <<Token(d, "word", i, word)>> \o TokensFrom(d, word)

TokenizeConfig(d) == TokensFrom(d, 0)
Malformed(tokens) == \E i \in DOMAIN tokens : tokens[i].kind = "error"
IsWord(token, w) == token.kind = "word" /\ token.value = <<w>>

\* The string after the first "input (device-file".
DeviceFileFromData(d) ==
  LET tokens == TokenizeConfig(d)
      found == {i \in 1 .. Len(tokens) - 3 :
                  /\ IsWord(tokens[i], "input") /\ tokens[i + 1].kind = "("
                  /\ IsWord(tokens[i + 2], "device-file") /\ tokens[i + 3].kind = "string"}
  IN IF Malformed(tokens) \/ found = {} THEN << >> ELSE tokens[Min(found) + 3].value

ContainsManagerOwnedConfiguration_Heads(d) ==  \* mutation: heads of forms only
  LET tokens == TokenizeConfig(d) IN
  \E i \in DOMAIN tokens, w \in Owned : /\ IsWord(tokens[i], w)
                                       /\ i > 1 /\ tokens[i - 1].kind = "("

\* A text that has no tokens is searched for the words as they stand.
ContainsManagerOwnedConfiguration(d) ==
  LET tokens == TokenizeConfig(d) IN
  IF Malformed(tokens)
  THEN \E i \in DOMAIN d : \/ d[i] \in Owned \ {"defcfg"}
                           \/ d[i] = "defcfg" /\ i > 1 /\ d[i - 1] = "("
  ELSE \E i \in DOMAIN tokens, w \in Owned : IsWord(tokens[i], w)

-----------------------------------------------------------------------------
(* parseBehaviorForms.                                                     *)

NoForm == [ok |-> FALSE, start |-> 0, end |-> 0, atom |-> << >>, children |-> << >>]

Form(start, end, atom, children) ==
  [ok |-> TRUE, start |-> start, end |-> end, atom |-> atom, children |-> children]

RECURSIVE SkipBehaviorSpace(_, _)
SkipBehaviorSpace(d, i) ==
  IF i >= Len(d) THEN i
  ELSE IF At(d, i) \in Spaces THEN SkipBehaviorSpace(d, i + 1)
  ELSE IF At(d, i) = ";" THEN SkipBehaviorSpace(d, Find(d, i, {Newline}))
  ELSE i

RECURSIVE ParseBehaviorForm(_, _), ParseList(_, _, _, _), ParseFrom(_, _, _)

ParseBehaviorForm(d, i) ==
  LET close == EndOfString(d, i + 1)
      word == Find(d, i, Delimiters)
  IN CASE At(d, i) = ")" -> NoForm
       [] At(d, i) = "(" -> ParseList(d, i, SkipBehaviorSpace(d, i + 1), << >>)
       [] At(d, i) = Quote -> IF close = 0 THEN NoForm ELSE Form(i, close, << >>, << >>)
       [] OTHER -> Form(i, word, Slice(d, i, word), << >>)

ParseList(d, start, i, children) ==
  IF i >= Len(d) THEN NoForm
  ELSE IF At(d, i) = ")" THEN Form(start, i + 1, << >>, children)
  ELSE LET child == ParseBehaviorForm(d, i) IN
       IF ~child.ok THEN NoForm
       ELSE ParseList(d, start, SkipBehaviorSpace(d, child.end), Append(children, child))

\* All or none: a text that is not a sequence of forms has no map.
ParseFrom(d, i, forms) ==
  IF i >= Len(d) THEN forms
  ELSE LET form == ParseBehaviorForm(d, i) IN
       IF ~form.ok THEN << >>
       ELSE ParseFrom(d, SkipBehaviorSpace(d, form.end), Append(forms, form))

ParseBehaviorForms(d) == ParseFrom(d, SkipBehaviorSpace(d, 0), << >>)

\* What a deflayer lists after its name.
Assignments(d) ==
  LET forms == ParseBehaviorForms(d)
      layers == {i \in DOMAIN forms : /\ Len(forms[i].children) >= 3
                                      /\ forms[i].children[1].atom = <<"deflayer">>}
  IN UNION {{[start |-> forms[i].children[j].start, end |-> forms[i].children[j].end] :
                j \in 3 .. Len(forms[i].children)} : i \in layers}

-----------------------------------------------------------------------------
(* Positions.                                                              *)

RuneSize(d, i) == IF At(d, i) = "w1" THEN 2 ELSE 1

Advance(d, i, at) ==
  IF At(d, i) = Newline THEN [line |-> at.line + 1, column |-> 1]
  ELSE [at EXCEPT !.column = @ + 1]

Start == [line |-> 1, column |-> 1]
NoEnd == [line |-> 0, column |-> 0]
NoOffset == 999     \* beyond every text

RECURSIVE SeekPosition(_, _, _, _), SeekOffset(_, _, _, _)

SeekPosition(d, place, i, at) ==
  IF at = place /\ i <= Len(d) THEN i
  ELSE IF i >= Len(d) THEN NoOffset
  ELSE SeekPosition(d, place, i + RuneSize(d, i), Advance(d, i, at))

LineColumnOffset(d, place) == SeekPosition(d, place, 0, Start)

SeekOffset(d, target, i, at) ==
  IF i >= target THEN at
  ELSE SeekOffset(d, target, i + RuneSize(d, i), Advance(d, i, at))

OffsetLineColumn(d, target) == SeekOffset(d, target, 0, Start)

\* mutation: it is enough that the range starts in an assignment
CandidateDiagnosticLocation_Start(behavior, candidateStart, candidate, range) ==
  LET start == LineColumnOffset(candidate, range.start)
      end == IF range.end = NoEnd THEN start + 1 ELSE LineColumnOffset(candidate, range.end)
      inside == {a \in Assignments(behavior) : /\ start - candidateStart >= a.start
                                               /\ start - candidateStart < a.end}
  IN IF NoOffset \in {start, end} \/ start >= end \/ start < candidateStart \/ inside = {}
     THEN << >>
     ELSE <<OffsetLineColumn(behavior, start - candidateStart),
            OffsetLineColumn(behavior, end - candidateStart)>>

\* The place of a range of the candidate in the behaviour, when one assignment
\* holds all of it.  A range without an end is one rune.
CandidateDiagnosticLocation(behavior, candidateStart, candidate, range) ==
  LET start == LineColumnOffset(candidate, range.start)
      next == IF start < Len(candidate) THEN start + RuneSize(candidate, start) ELSE NoOffset
      end == IF range.end # NoEnd THEN LineColumnOffset(candidate, range.end)
             ELSE IF next = NoOffset THEN NoOffset
             ELSE LineColumnOffset(candidate, OffsetLineColumn(candidate, next))
      inside == {a \in Assignments(behavior) : /\ start - candidateStart >= a.start
                                               /\ end - candidateStart <= a.end}
  IN IF NoOffset \in {start, end} \/ start >= end \/ start < candidateStart \/ inside = {}
     THEN << >>
     ELSE <<OffsetLineColumn(behavior, start - candidateStart),
            OffsetLineColumn(behavior, end - candidateStart)>>

=============================================================================
