------------------------------- MODULE Streams ------------------------------
(* What the program reads from other processes arrives in chunks cut where  *)
(* the reader happened to return: the frames of a language server           *)
(* (crates/lsp/src/framing.rs), the lines of a task's output                *)
(* (crates/tasks/src/output.rs and text_problems.rs) with the problems the  *)
(* model keeps of them (crates/app/src/model.rs), and the text retained of  *)
(* a terminal (crates/terminal/src/capture.rs).  A stream is a sequence of  *)
(* tokens; a chunk ends between any two.                                    *)
EXTENDS Integers, Sequences, SequencesExt

CONSTANTS
  FrameStreams,   \* streams a language server may write
  CargoStreams,   \* outputs of a Cargo task
  TextStreams,    \* outputs of any other task
  ByteStreams,    \* outputs of a process the agent started
  ProblemLimit,   \* problems kept of a run (500 in the code)
  CaptureLimit    \* bytes of output kept

VARIABLES
  stream,   \* [kind, tokens]: what the process writes
  taken,    \* how much of it has arrived
  over,    \* the process is gone, and the reader has been told
  reader    \* [held, out, problems, truncated]: what the reader holds back,
            \* what it has made of the stream, the problems kept of the run,
            \* and whether output was dropped
streamVars == <<stream, taken, over, reader>>

Upto(s, n) == SubSeq(s, 1, n)
From(s, n) == SubSeq(s, n, Len(s))
\* Positions of a token, and the parts between them.
At(s, t) == {i \in DOMAIN s : s[i] = t}
Least(S) == CHOOSE i \in S : \A j \in S : i <= j
Most(S) == CHOOSE i \in S : \A j \in S : i >= j
Result(rest, made) == [rest |-> rest, made |-> made]

-----------------------------------------------------------------------------
(* Frames.  "crlf" ends a header line, two of them the headers; a number is *)
(* a Content-Length line of that value; any other token is another header   *)
(* line or a byte of a body, "bad" one that no JSON text has.  "huge" is a  *)
(* Content-Length that overflows when the place of the body is added to it. *)
HeaderEnds(b) == {i \in 1..(Len(b) - 1) : b[i] = "crlf" /\ b[i + 1] = "crlf"}
Lengths(headers) == SelectSeq(headers, LAMBDA t : t \in {"1", "2", "huge"})
LengthOf(t) == IF t = "1" THEN 1 ELSE 2
IsJson(body) == At(body, "bad") = {}

\* One pass of next_frame's loop over a buffer with complete headers: headers
\* without a length are dropped; a length that overflows clears the buffer, whatever
\* follows in it; an incomplete body is waited for; a body that is not JSON is dropped
\* with its headers.
FramePass(b) ==
  LET headerEnd == Least(HeaderEnds(b))
      lengths   == Lengths(Upto(b, headerEnd - 1))
      bodyStart == headerEnd + 2
      frameEnd  == bodyStart + LengthOf(lengths[1]) - 1
      body      == SubSeq(b, bodyStart, frameEnd)
  IN  IF lengths = <<>> THEN Result(From(b, bodyStart), <<>>)
      ELSE IF lengths[1] = "huge" THEN Result(<<>>, <<>>)
      ELSE IF Len(b) < frameEnd THEN Result(b, <<>>)
      ELSE Result(From(b, frameEnd + 1), IF IsJson(body) THEN <<body>> ELSE <<>>)

\* The reader takes frames until none is complete.
NextFrames(buffer) ==
  LET drain[b \in {From(buffer, n) : n \in 1..(Len(buffer) + 1)}] ==
        IF HeaderEnds(b) = {} THEN Result(b, <<>>)
        ELSE LET pass == FramePass(b)
             IN  IF pass.rest = b THEN pass
                 ELSE Result(drain[pass.rest].rest, pass.made \o drain[pass.rest].made)
  IN  drain[buffer]

-----------------------------------------------------------------------------
(* Lines of a task's output, ended by "nl".  A line decodes to what is      *)
(* displayed and to the problem it states, if any: a sequence of none or    *)
(* one.                                                                     *)
Problem(path, line, column, severity, message) ==
  [path |-> path, line |-> line, column |-> column, severity |-> severity, message |-> message]
Decoded(display, probs) == [display |-> display, probs |-> probs]

IsNumber(part) == Len(part) = 1 /\ part[1] \in {"7", "12"}
\* The path must stay inside: none that goes up is taken.  The severity is
\* the message's leading word.
BuildProblem(path, line, column, message) ==
  IF path = <<>> \/ message = <<>> \/ At(path, "../") # {} THEN <<>>
  ELSE <<Problem(path, line, column, IF message[1] = "warning" THEN "warning" ELSE "error", message)>>

\* path(line,column): message
TscProblem(t) ==
  LET ends == {i \in 1..(Len(t) - 1) : t[i] = ")" /\ t[i + 1] = ":"}
      close == Most(ends)
      opens == At(Upto(t, close - 1), "(")
      open  == Most(opens)
      parts == SubSeq(t, open + 1, close - 1)
  IN  IF ends = {} \/ opens = {} THEN <<>>
      ELSE IF ~(Len(parts) = 3 /\ IsNumber(<<parts[1]>>) /\ parts[2] = "," /\ IsNumber(<<parts[3]>>))
      THEN <<>>
      ELSE BuildProblem(Upto(t, open - 1), parts[1], parts[3], From(t, close + 2))

\* The parts of t after the separator at i: up to each of the next separators.
NextColon(t, i) == LET later == {j \in At(t, ":") : j > i} IN IF later = {} THEN 0 ELSE Least(later)
NumberAfter(t, i) == NextColon(t, i) # 0 /\ IsNumber(SubSeq(t, i + 1, NextColon(t, i) - 1))

\* path:line:column: message, at the first colon the two numbers follow
GccProblem(t) ==
  LET at == {i \in At(t, ":") : NumberAfter(t, i) /\ NumberAfter(t, NextColon(t, i))}
      i  == Least(at)
      j  == NextColon(t, i)
  IN  IF at = {} THEN <<>>
      ELSE BuildProblem(Upto(t, i - 1), t[i + 1], t[j + 1], From(t, NextColon(t, j) + 1))

\* path:line: message, where the path has an extension
JavacProblem(t) ==
  LET at == {i \in At(t, ":") : NumberAfter(t, i) /\ At(Upto(t, i - 1), "a.c") # {}}
      i  == Least(at)
  IN  IF at = {} THEN <<>>
      ELSE BuildProblem(Upto(t, i - 1), t[i + 1], "1", From(t, NextColon(t, i) + 1))

\*   File "path", line n
PythonProblem(t) ==
  LET marks == At(t, "line")
  IN  IF t = <<>> \/ t[1] # "File" \/ marks = {} \/ ~IsNumber(SubSeq(t, Least(marks) + 1, Least(marks) + 1))
      THEN <<>>
      ELSE BuildProblem(SubSeq(t, 2, Least(marks) - 1), t[Least(marks) + 1], "1", t)

Unended(line) == IF line # <<>> /\ Last(line) = "nl" THEN Front(line) ELSE line
MavenPrefixes == {"[ERROR]", "[WARNING]"}
FirstOf(found) == LET some == SelectSeq(found, LAMBDA p : p # <<>>) IN IF some = <<>> THEN <<>> ELSE some[1]
\* The shapes in order; a Maven prefix is stripped and decides the severity.
TextProblem(line) ==
  LET text == Unended(line)
      prefixed == text # <<>> /\ text[1] \in MavenPrefixes
      t == IF prefixed THEN Tail(text) ELSE text
      found == FirstOf(<<TscProblem(t), GccProblem(t), JavacProblem(t), PythonProblem(t)>>)
  IN  IF At(line, "badutf8") # {} THEN <<>>
      ELSE IF prefixed /\ found # <<>>
      THEN <<[found[1] EXCEPT !.severity = IF text[1] = "[ERROR]" THEN "error" ELSE "warning"]>>
      ELSE found

\* Cargo's JSON messages; a line that is none may tell of a panic.
PanicProblem(line) ==
  LET at == At(line, "panicked at")
      t  == SubSeq(line, Least(at) + 1, Least(at) + 5)
  IN  IF at = {} \/ Len(t) < 5 \/ At(t, ":") # {2, 4} \/ ~IsNumber(<<t[3]>>) \/ ~IsNumber(<<t[5]>>)
      THEN <<>>
      ELSE <<Problem(<<t[1]>>, t[3], t[5], "error", line)>>
CargoLine(line) ==
  CASE At(line, "badutf8") # {}         -> Decoded(line, <<>>)
    [] Unended(line) = <<"{message", "}">> ->
         Decoded(<<"rendered">>, <<Problem(<<"a.c">>, "7", "12", "error", <<"msg">>)>>)
    [] Unended(line) = <<"{artifact", "}">> -> Decoded(<<>>, <<>>)
    [] OTHER                            -> Decoded(line, PanicProblem(Unended(line)))

\* The complete lines of a buffer, with their ends, and what follows them.
Ends(b) == SetToSortSeq(At(b, "nl"), <)
CutAfter(b, ends) ==
  [k \in DOMAIN ends |-> SubSeq(b, IF k = 1 THEN 1 ELSE ends[k - 1] + 1, ends[k])]
\* Mutant: a line the chunk does not end is given up.
LinesOfThisChunk(b) == Result(<<>>, CutAfter(b, Ends(b)))
Lines(b) ==
  LET ends == Ends(b)
  IN  Result(From(b, IF ends = <<>> THEN 1 ELSE Last(ends) + 1),
             CutAfter(b, ends))

\* The model keeps a problem that is inside, new, and within the limit.
SameProblem(p, q) ==
  <<p.path, p.line, p.column, p.message>> = <<q.path, q.line, q.column, q.message>>
KeepProblem(kept, p) ==
  IF \/ At(p.path, "../") # {}
     \/ \E i \in DOMAIN kept : SameProblem(kept[i], p)
     \/ Len(kept) >= ProblemLimit
  THEN kept ELSE Append(kept, p)
KeepProblems(kept, found) == FoldLeft(KeepProblem, kept, found)

-----------------------------------------------------------------------------
(* Retained output: bytes to characters.  "a" is a character of one byte,   *)
(* "l2" and "l3" begin one of two and three, "c" continues one, "x" is no   *)
(* byte of UTF-8; "?" is the replacement character.                         *)
Char(ch, n) == [char |-> ch, bytes |-> n]
Incomplete == Char("", 0)
\* The character or the fault at the front of the bytes: its length in bytes,
\* none for a character whose end is still to come.
FirstChar(p) ==
  CASE p[1] = "a" -> Char("a", 1)
    [] p[1] = "l2" -> IF Len(p) = 1 THEN Incomplete
                      ELSE IF p[2] = "c" THEN Char("e", 2) ELSE Char("?", 1)
    [] p[1] = "l3" -> IF Len(p) = 1 THEN Incomplete
                      ELSE IF p[2] # "c" THEN Char("?", 1)
                      ELSE IF Len(p) = 2 THEN Incomplete
                      ELSE IF p[3] = "c" THEN Char("E", 3) ELSE Char("?", 2)
    [] OTHER -> Char("?", 1)

DecodeCompletePrefix(pending, finish) ==
  LET decode[p \in {From(pending, n) : n \in 1..(Len(pending) + 1)}] ==
        IF p = <<>> THEN Result(p, <<>>)
        ELSE IF FirstChar(p) = Incomplete
        THEN IF finish THEN Result(<<>>, <<"?">>) ELSE Result(p, <<>>)
        ELSE LET ch == FirstChar(p)
                 more == decode[From(p, ch.bytes + 1)]
             IN  Result(more.rest, <<ch.char>> \o more.made)
  IN  decode[pending]

BytesOf(ch) == CASE ch = "a" -> 1 [] ch = "e" -> 2 [] OTHER -> 3
ByteLength(text) == FoldLeft(LAMBDA n, ch : n + BytesOf(ch), 0, text)
\* The newest text within the limit, cut between characters.
EnforceLimit(text) ==
  From(text, Least({n \in 1..(Len(text) + 1) : ByteLength(From(text, n)) <= CaptureLimit}))

-----------------------------------------------------------------------------
(* Each reader's push and finish. *)
Fresh == [held |-> <<>>, out |-> <<>>, problems |-> <<>>, truncated |-> FALSE]

Captured(r, bytes, finish) ==
  LET d == DecodeCompletePrefix(r.held \o bytes, finish)
      text == r.out \o d.made
  IN  [r EXCEPT !.held = d.rest, !.out = EnforceLimit(text),
                !.truncated = @ \/ ByteLength(text) > CaptureLimit]

CargoLines(r, lines) ==
  LET decoded == [k \in DOMAIN lines |-> CargoLine(lines[k])]
  IN  [r EXCEPT !.out = @ \o FlattenSeq([k \in DOMAIN lines |-> decoded[k].display]),
                !.problems = KeepProblems(@, FlattenSeq([k \in DOMAIN lines |-> decoded[k].probs]))]
TextLines(r, lines) ==
  [r EXCEPT !.problems = KeepProblems(@, FlattenSeq([k \in DOMAIN lines |-> TextProblem(lines[k])]))]

Push(kind, r, chunk) ==
  LET b == r.held \o chunk
      lines == Lines(b)
      frames == NextFrames(b)
  IN  CASE kind = "frames" -> [r EXCEPT !.held = frames.rest, !.out = @ \o frames.made]
        [] kind = "cargo"  -> CargoLines([r EXCEPT !.held = lines.rest], lines.made)
        [] kind = "text"   -> TextLines([r EXCEPT !.held = lines.rest, !.out = @ \o chunk], lines.made)
        [] kind = "bytes"  -> Captured(r, chunk, FALSE)

Finish(kind, r) ==
  CASE kind = "frames" -> r
    [] kind = "cargo"  -> CargoLines([r EXCEPT !.held = <<>>], IF r.held = <<>> THEN <<>> ELSE <<r.held>>)
    [] kind = "text"   -> TextLines([r EXCEPT !.held = <<>>], <<r.held>>)
    [] kind = "bytes"  -> Captured(r, <<>>, TRUE)

-----------------------------------------------------------------------------
Arrive(n) ==
  /\ ~over /\ taken + n <= Len(stream.tokens)
  /\ reader' = Push(stream.kind, reader, SubSeq(stream.tokens, taken + 1, taken + n))
  /\ taken' = taken + n
  /\ UNCHANGED <<stream, over>>

\* The process ends; the exit is reported after its output.
Exit ==
  /\ ~over /\ taken = Len(stream.tokens)
  /\ reader' = Finish(stream.kind, reader)
  /\ over' = TRUE
  /\ UNCHANGED <<stream, taken>>

Of(kind, S) == {[kind |-> kind, tokens |-> s] : s \in S}
StreamInit ==
  /\ stream \in Of("frames", FrameStreams) \cup Of("cargo", CargoStreams)
                  \cup Of("text", TextStreams) \cup Of("bytes", ByteStreams)
  /\ taken = 0 /\ over = FALSE /\ reader = Fresh
StreamNext == Exit \/ \E n \in 1..Len(stream.tokens) : Arrive(n)

Whole == Push(stream.kind, Fresh, Upto(stream.tokens, taken))
AsInOnePiece == reader = IF over THEN Finish(stream.kind, Whole) ELSE Whole

\* A length that overflows may have cleared a reader's buffer.
Overflowed == stream.kind = "frames" /\ At(Upto(stream.tokens, taken), "huge") # {}

\* However the reads cut it, a stream is understood as if it had arrived in one
\* piece: the frames, the displayed output, the problems (each once, in order,
\* up to the limit) and the retained tail are those of a single push, before
\* and after the end (FrameReader, the TaskOutputDecoders, CapturedOutput).  Behind a
\* length that overflows the cut decides which later frames are cleared with it; those
\* that one piece gives are given, first, by every cut.
ChunkingIsInvisible ==
  IF Overflowed THEN IsPrefix(Whole.out, reader.out) ELSE AsInOnePiece

\* "Reads are arbitrary byte chunks" (framing.rs), without the exception: not so of the
\* code, which clears with an overflowing length what the same read brought after it.
CutsNeverMatter == AsInOnePiece
=============================================================================
