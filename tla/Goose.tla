------------------------------- MODULE Goose -------------------------------
(***************************************************************************)
(* The parser of one goose migration file (sandbox/migrations/goose.py     *)
(* parse_migration_file): a scan for the header and the Up section, then   *)
(* the split of that section into statements.  A line is a record of the   *)
(* annotation it holds and its text; a text is a sequence of the classes   *)
(* of characters the parser tells apart.                                   *)
(***************************************************************************)
EXTENDS Naturals, SequencesExt

CONSTANT Inputs      \* the files to parse, as their authors wrote them

Chars == {"x",    \* any character without a meaning
          "'", ";", "--", "{{",
          "ff"}   \* a character only str.splitlines takes for a line end
Marks == {"none", "Up", "Down", "Begin", "End", "NoTransaction", "unknown"}
NL == "newline"

FileLine == [mark : Marks, text : Seq(Chars)]

(* An annotation of the subset is a comment of fixed words, and no          *)
(* annotation holds a separator.                                            *)
ASSUME GooseAssumption ==
  /\ Inputs \subseteq Seq(FileLine)
  /\ \A f \in Inputs : \A i \in DOMAIN f :
       /\ f[i].mark # "none" => ~Contains(f[i].text, "ff")
       /\ f[i].mark \notin {"none", "unknown"} => ~Contains(f[i].text, "{{")

VARIABLES
  written,     \* the lines as the author wrote them; never changes
  pass,        \* "header", "up", "split", "check", then "parsed" or "error"
  rest,        \* the lines the pass has not read
  noTransaction, header, up,          \* what _scan_sections collects
  statements, fragments, body         \* what _split_up_statements collects

parserVars == <<written, pass, rest, noTransaction, header, up, statements, fragments, body>>
scanned == <<noTransaction, header, up>>
split   == <<statements, fragments, body>>

Texts == Seq(Chars \cup {NL})
NoBody == [open |-> FALSE, text |-> <<>>]

ParserTypeOK ==
  /\ written \in Seq(FileLine)
  /\ pass \in {"header", "up", "split", "check", "parsed", "error"}
  /\ rest \in Seq(FileLine) /\ up \in Seq(FileLine)
  /\ noTransaction \in BOOLEAN
  /\ header \in Seq(Seq(Chars)) /\ fragments \in Seq(Seq(Chars))
  /\ statements \in Seq(Texts)
  /\ body \in [open : BOOLEAN, text : Texts]
  /\ pass = "header" => up = <<>>

-----------------------------------------------------------------------------
(* str.splitlines: the lines of the author, and more.                       *)
Pieces(line) ==
  LET cut[i \in 0..Len(line.text)] ==
        IF i = 0 THEN <<[line EXCEPT !.text = <<>>]>>
        ELSE LET was == cut[i - 1] IN
             IF line.text[i] = "ff" THEN Append(was, [line EXCEPT !.text = <<>>])
             ELSE [was EXCEPT ![Len(was)].text = Append(@, line.text[i])]
  IN  cut[Len(line.text)]

SplitLines(lines) ==
  LET upto[i \in 0..Len(lines)] == IF i = 0 THEN <<>> ELSE upto[i - 1] \o Pieces(lines[i])
  IN  upto[Len(lines)]

(* strip: newlines are the only white space here. *)
Strip(text) ==
  LET I == {i \in DOMAIN text : text[i] # NL}
  IN  IF I = {} THEN <<>> ELSE SubSeq(text, Min(I), Max(I))

(* _is_comment_only: empty, or every line of it begins with a comment. *)
CommentOnly(text) ==
  \A i \in DOMAIN text : (i = 1 \/ text[i - 1] = NL) => text[i] = "--"

(* The end of a statement: kept unless it is comment-only. *)
Flush(acc) == [acc EXCEPT !.text = <<>>,
                          !.out = IF CommentOnly(Strip(acc.text)) THEN @
                                  ELSE Append(@, Strip(acc.text))]

(* One character of a line: _statement_endings and the cut at each ending. *)
Read(acc, c) ==
  IF c = ";" /\ ~acc.quoted /\ ~acc.comment THEN Flush(acc)
  ELSE [acc EXCEPT !.text = Append(@, c),
                   !.quoted = IF c = "'" /\ ~acc.comment THEN ~@ ELSE @,
                   !.comment = @ \/ (c = "--" /\ ~acc.quoted)]

ReadLine(acc, text) ==
  LET after[i \in 0..Len(text)] == IF i = 0 THEN acc ELSE Read(after[i - 1], text[i])
  IN  after[Len(text)]

(* Bug: every line starts outside a literal. *)
ReadFragmentFresh(acc, text) ==
  [ReadLine(acc, text) EXCEPT !.text = Append(@, NL), !.comment = FALSE, !.quoted = FALSE]

(* One line: an open literal goes on in the next one, a comment does not. *)
ReadFragment(acc, text) ==
  [ReadLine(acc, text) EXCEPT !.text = Append(@, NL), !.comment = FALSE]

(* The loop of _split_fragments over a run of plain lines. *)
Gather(texts) ==
  LET after[i \in 0..Len(texts)] ==
        IF i = 0 THEN [text |-> <<>>, quoted |-> FALSE, comment |-> FALSE, out |-> <<>>]
        ELSE ReadFragment(after[i - 1], texts[i])
  IN  after[Len(texts)]

(* _split_fragments *)
SplitFragments(texts) == Flush(Gather(texts)).out

-----------------------------------------------------------------------------
ParserInit ==
  /\ written \in Inputs
  /\ pass = "header" /\ rest = SplitLines(written)
  /\ noTransaction = FALSE /\ header = <<>> /\ up = <<>>
  /\ statements = <<>> /\ fragments = <<>> /\ body = NoBody

Line == Head(rest)
AtLine(p, marks) == pass = p /\ rest # <<>> /\ Line.mark \in marks
Consume == rest' = Tail(rest) /\ UNCHANGED written

(* _scan_sections *)
HeaderLine ==
  /\ AtLine("header", {"none"}) /\ Consume
  /\ header' = Append(header, Line.text)
  /\ UNCHANGED <<pass, noTransaction, up, split>>

HeaderNoTransaction ==
  /\ AtLine("header", {"NoTransaction"}) /\ Consume
  /\ noTransaction' = TRUE
  /\ UNCHANGED <<pass, header, up, split>>

HeaderUp ==
  /\ AtLine("header", {"Up"}) /\ Consume
  /\ pass' = "up"
  /\ UNCHANGED <<scanned, split>>

HeaderFails ==
  /\ \/ AtLine("header", {"Down", "Begin", "End", "unknown"})
     \/ pass = "header" /\ rest = <<>>
  /\ pass' = "error"
  /\ UNCHANGED <<written, rest, scanned, split>>

UpLine ==
  /\ AtLine("up", Marks \ {"Down"}) /\ Consume
  /\ up' = Append(up, Line)
  /\ UNCHANGED <<pass, noTransaction, header, split>>

(* Down, or the end of the file: the second pass reads the Up section. *)
UpEnds ==
  /\ pass = "up" /\ (rest = <<>> \/ AtLine("up", {"Down"}))
  /\ pass' = "split" /\ rest' = up
  /\ UNCHANGED <<written, scanned, split>>

(* _split_up_statements *)
BodyLine ==
  /\ AtLine("split", Marks \ {"End"}) /\ body.open /\ Consume
  /\ body' = [body EXCEPT !.text = @ \o Append(Line.text, NL)]
  /\ UNCHANGED <<pass, scanned, statements, fragments>>

BodyEnds ==
  /\ AtLine("split", {"End"}) /\ body.open /\ Consume
  /\ statements' = Append(statements, Strip(body.text))
  /\ body' = NoBody
  /\ UNCHANGED <<pass, scanned, fragments>>

Fragment ==
  /\ AtLine("split", {"none"}) /\ ~body.open /\ Consume
  /\ fragments' = Append(fragments, Line.text)
  /\ UNCHANGED <<pass, scanned, statements, body>>

BodyBegins ==
  /\ AtLine("split", {"Begin"}) /\ ~body.open /\ Consume
  /\ statements' = statements \o SplitFragments(fragments)
  /\ fragments' = <<>>
  /\ body' = [body EXCEPT !.open = TRUE]
  /\ UNCHANGED <<pass, scanned>>

SplitFails ==
  /\ \/ AtLine("split", {"End", "Up", "NoTransaction", "unknown"}) /\ ~body.open
     \/ pass = "split" /\ rest = <<>> /\ body.open
  /\ pass' = "error"
  /\ UNCHANGED <<written, rest, scanned, split>>

(* Bug: a body still open at the end is closed there. *)
SplitEndsOpen ==
  /\ pass = "split" /\ rest = <<>>
  /\ statements' = IF body.open THEN Append(statements, Strip(body.text))
                   ELSE statements \o SplitFragments(fragments)
  /\ pass' = "check"
  /\ UNCHANGED <<written, rest, scanned, fragments, body>>

SplitEnds ==
  /\ pass = "split" /\ rest = <<>> /\ ~body.open
  /\ statements' = statements \o SplitFragments(fragments)
  /\ pass' = "check"
  /\ UNCHANGED <<written, rest, scanned, fragments, body>>

(* _reject_interpolation *)
Check ==
  /\ pass = "check"
  /\ pass' = IF \E text \in Range(header) \cup {up[i].text : i \in DOMAIN up} :
                   Contains(text, "{{")
           THEN "error" ELSE "parsed"
  /\ UNCHANGED <<written, rest, scanned, split>>

ParserNext == \/ HeaderLine \/ HeaderNoTransaction \/ HeaderUp \/ HeaderFails
        \/ UpLine \/ UpEnds
        \/ BodyLine \/ BodyEnds \/ Fragment \/ BodyBegins
        \/ SplitFails \/ SplitEnds \/ Check

ParserSpec == ParserInit /\ [][ParserNext]_parserVars

-----------------------------------------------------------------------------
(* The format as .goga/usages/cooks/goose-sql.md describes it, of a whole   *)
(* file at once: the Up section runs from the first Up to the first Down    *)
(* behind it.                                                               *)
FirstUp   == SelectInSeq(written, LAMBDA l : l.mark = "Up")
FirstDown == LET d == SelectInSubSeq(written, FirstUp + 1, Len(written), LAMBDA l : l.mark = "Down")
             IN  IF d = 0 THEN Len(written) + 1 ELSE d
Section   == SubSeq(written, FirstUp + 1, FirstDown - 1)
Preamble  == SubSeq(written, 1, FirstUp - 1)

(* InBody[i]: line i of the section or the one before it is inside a body. *)
InBody ==
  LET lines == Section
      open[i \in 0..Len(lines)] ==
        i > 0 /\ (IF open[i - 1] THEN lines[i].mark # "End" ELSE lines[i].mark = "Begin")
  IN  open

(* The form of everything but the lines of the bodies. *)
FormOutsideBodies ==
  /\ FirstUp > 0
  /\ \A i \in DOMAIN Preamble : Preamble[i].mark \in {"none", "NoTransaction"}
  /\ \A i \in DOMAIN Section : InBody[i - 1] \/ Section[i].mark \in {"none", "Begin"}
  /\ ~InBody[Len(Section)]
  /\ \A l \in Range(Preamble) \cup Range(Section) : ~Contains(l.text, "{{")

(* The documented form: each body is closed by the next annotation, so that *)
(* every StatementBegin has a StatementEnd of its own, and no annotation    *)
(* outside the subset, no second Up and no late NO TRANSACTION stands       *)
(* anywhere before Down, whose section is skipped.                          *)
WellFormed ==
  /\ FormOutsideBodies
  /\ \A i \in DOMAIN Section : InBody[i - 1] => Section[i].mark \in {"none", "End"}

(* The characters of a line; a line that opens or closes a body is one.      *)
Token(line, inside) ==
  IF ~inside /\ line.mark = "Begin" THEN <<"Begin">>
  ELSE IF inside /\ line.mark = "End" THEN <<"End">>
  ELSE Append(line.text, NL)

(* The characters of the section up to each line, one after the other.       *)
Text ==
  LET lines == Section
      inside == InBody
      upto[i \in 0..Len(lines)] ==
        IF i = 0 THEN <<>> ELSE upto[i - 1] \o Token(lines[i], inside[i - 1])
  IN  upto
Stream == Text[Len(Section)]

(* What the reader of s is in after s[i]. *)
After(was, c) ==
  IF was = "body"         THEN IF c = "End" THEN "code" ELSE "body"
  ELSE IF c = "Begin"     THEN "body"
  ELSE IF was = "literal" THEN IF c = "'" THEN "code" ELSE "literal"
  ELSE IF was = "comment" THEN IF c = NL THEN "code" ELSE "comment"
  ELSE IF c = "'"         THEN "literal"
  ELSE IF c = "--"        THEN "comment" ELSE "code"
Within(s) ==
  LET in[i \in 0..Len(s)] == IF i = 0 THEN "code" ELSE After(in[i - 1], s[i]) IN in

(* Something to execute: neither comments nor empty. *)
Executable(s) ==
  LET w == Within(s) IN \E i \in DOMAIN s : w[i] # "comment" /\ s[i] \notin {NL, "--"}

Executables(texts) ==
  LET kept[i \in 0..Len(texts)] ==
        IF i = 0 THEN <<>>
        ELSE IF Executable(texts[i]) THEN Append(kept[i - 1], texts[i]) ELSE kept[i - 1]
  IN  kept[Len(texts)]

(* Where a statement of s ends, and the text between such a place and the    *)
(* one before it.                                                            *)
EndsOf(s) ==
  LET w == Within(s)
  IN  {Len(s) + 1} \cup
      {i \in DOMAIN s : s[i] \in {"Begin", "End"} \/ (s[i] = ";" /\ w[i] = "code")}
PieceAt(s, ends, i) == Strip(SubSeq(s, Max({0} \cup {e \in ends : e < i}) + 1, i - 1))

(* What there is to execute in s, in its order: up to each place of s. *)
KeptUpTo(s) ==
  LET ends == EndsOf(s)
      kept[i \in 0..(Len(s) + 1)] ==
        IF i = 0 THEN <<>>
        ELSE IF i \in ends /\ Executable(PieceAt(s, ends, i))
             THEN Append(kept[i - 1], PieceAt(s, ends, i)) ELSE kept[i - 1]
  IN  kept
StatementsOf(s) == KeptUpTo(s)[Len(s) + 1]

(* The parser fails for a file without an Up section, with an annotation    *)
(* before it that may not be there, with a second Up, a late NO TRANSACTION *)
(* or an unknown annotation between two bodies, with a body that is closed  *)
(* and not opened or opened and not closed, and with an interpolation; and  *)
(* for no other, so for none of the documented form.  It takes as text      *)
(* every annotation within a body but its end, which the documents do not   *)
(* allow (AcceptsOnlyTheForm).                                              *)
DecidesForm ==
  /\ pass = "parsed" => FormOutsideBodies
  /\ pass = "error" => ~FormOutsideBodies

(* What the parser accepts has the documented form: "any +goose annotation  *)
(* outside the supported subset" and "a StatementBegin without a matching   *)
(* StatementEnd" fail with the file named.  The code does not keep to this: *)
(* see the README, section 6.                                               *)
AcceptsOnlyTheForm == pass = "parsed" => WellFormed

(* What is executed is the Up section and nothing else, cut at the          *)
(* semicolons outside literals, comments and bodies, in the order of the    *)
(* file; and a file is run without a transaction when its header says so.   *)
StatementsAreTheText ==
  pass = "parsed" =>
    /\ Executables(statements) = StatementsOf(Stream)
    /\ noTransaction <=> \E i \in DOMAIN Preamble : Preamble[i].mark = "NoTransaction"
=============================================================================
