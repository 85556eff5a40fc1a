----------------------------- MODULE Segmenter -----------------------------
(***************************************************************************)
(* From recognised words to timed subtitle lines (internal/subtitle): the  *)
(* splitter walks the stream of words, fragments too brief to read are     *)
(* merged, and after the translation the timing of every line is           *)
(* corrected.                                                              *)
(*                                                                         *)
(* A word is its timing, the characters a viewer reads, and what its text  *)
(* ends: nothing, a clause, a sentence; or it is a lone particle.  Times   *)
(* are whole units.  Each iteration of the code's loops is a step.         *)
(***************************************************************************)
EXTENDS Integers, SequencesExt

CONSTANTS
  Spoken,      \* the words that may be heard: length, chars and mark
  Gaps,        \* silences before a word
  MaxWords,    \* bound on the words of a stream
  MinDuration, MaxDuration, MaxCPS, MaxChars, Pause, \* subtitle.Options
  MinGap,      \* subtitle.ReflowOptions
  TranslatedLengths \* lengths a translation may have

ASSUME SegmenterAssumption ==
  /\ {MaxWords, MinDuration, Pause, MinGap} \subseteq Nat
  /\ {MaxDuration, MaxCPS, MaxChars} \subseteq Nat \ {0}
  /\ Spoken \subseteq [length : Nat \ {0}, chars : Nat, mark : STRING]
  /\ Gaps \subseteq Nat /\ TranslatedLengths \subseteq Nat \ {0}

VARIABLES
  segAt,   \* split, merge, reflow or done
  stream,  \* the words, as flatten gives them
  pending, \* the line that is accumulating
  cut,     \* the lines of the splitter; while merging, those still to look at
  head,    \* a short first line that waits for the next, or no line
  timed,   \* the lines that are kept, then timed
  ordinal  \* the line Reflow looks at

segmenterVars == <<segAt, stream, pending, cut, head, timed, ordinal>>

SegmenterInit ==
  /\ segAt = "split"
  /\ stream = <<>> /\ pending = <<>> /\ cut = <<>> /\ head = <<>> /\ timed = <<>>
  /\ ordinal = 1

Chars(ws) == FoldSeq(LAMBDA w, n : n + w.chars, 0, ws)

\* buildLine.  The characters of a line are those of its translation, later.
BuildLine(ws) == [words |-> ws, start |-> ws[1].start, end |-> Last(ws).end, chars |-> 0, review |-> FALSE]

LineDuration(l) == l.end - l.start

\* lastClauseBoundary: the last index both of whose sides are worth showing, or 0.
LastClauseBoundary(ws) ==
  LET usable == {i \in 2 .. Len(ws) :
                   /\ ws[i - 1].mark = "clause"
                   /\ ws[i - 1].end - ws[1].start >= MinDuration
                   /\ Last(ws).end - ws[i].start >= MinDuration}
  IN IF usable = {} THEN 0 ELSE Max(usable) - 1

SplitAtClauseDropping(ws) ==
  LET k == LastClauseBoundary(ws)
  IN IF k > 0 THEN [done |-> <<BuildLine(SubSeq(ws, 1, k))>>, rest |-> SubSeq(ws, k + 2, Len(ws))]
     ELSE [done |-> <<BuildLine(ws)>>, rest |-> <<>>]

\* splitAtClause: what is cut off, and what stays.
SplitAtClause(ws) ==
  LET k == LastClauseBoundary(ws)
  IN IF k > 0 THEN [done |-> <<BuildLine(SubSeq(ws, 1, k))>>, rest |-> SubSeq(ws, k + 1, Len(ws))]
     ELSE [done |-> <<BuildLine(ws)>>, rest |-> <<>>]

\* exceedsCPS
ExceedsCPS(ws, w) == Chars(ws) + w.chars > MaxCPS * (w.end - ws[1].start)

\* The switch of split: what becomes of the pending words when w arrives.
Boundary(ws, w) ==
  LET flushed == [done |-> <<BuildLine(ws)>>, rest |-> <<>>]
  IN CASE w.start - Last(ws).end >= Pause -> flushed
       [] Last(ws).mark = "sentence" /\ Last(ws).end - ws[1].start >= MinDuration -> flushed
       [] w.end - ws[1].start > MaxDuration -> SplitAtClause(ws)
       [] Chars(ws) + w.chars > MaxChars -> SplitAtClause(ws)
       [] ExceedsCPS(ws, w) -> flushed
       [] OTHER -> [done |-> <<>>, rest |-> ws]

Extended(l, w) == [l EXCEPT !.words = Append(@, w), !.end = w.end]

\* One iteration of split: a particle that would begin a line joins the line before it.
HearWord(w) ==
  LET b == IF pending = <<>> THEN [done |-> <<>>, rest |-> <<>>] ELSE Boundary(pending, w)
      lines == cut \o b.done
  IN \/ /\ b.rest = <<>> /\ lines # <<>> /\ w.mark = "particle"
        /\ cut' = Front(lines) \o <<Extended(Last(lines), w)>>
        /\ pending' = <<>>
     \/ /\ ~(b.rest = <<>> /\ lines # <<>> /\ w.mark = "particle")
        /\ cut' = lines
        /\ pending' = Append(b.rest, w)

Hear(s, gap) ==
  /\ segAt = "split" /\ Len(stream) < MaxWords
  /\ LET from == (IF stream = <<>> THEN 0 ELSE Last(stream).end) + gap
         w == [start |-> from, end |-> from + s.length, chars |-> s.chars, mark |-> s.mark]
     IN HearWord(w) /\ stream' = Append(stream, w)
  /\ UNCHANGED <<segAt, head, timed, ordinal>>

\* The last flush.  mergeShort leaves a single line alone.
Flush ==
  /\ segAt = "split" /\ stream # <<>>
  /\ LET lines == IF pending = <<>> THEN cut ELSE Append(cut, BuildLine(pending)) IN
       \/ /\ Len(lines) < 2 \/ MinDuration = 0
          /\ timed' = lines /\ cut' = <<>> /\ segAt' = "reflow"
       \/ /\ Len(lines) >= 2 /\ MinDuration > 0
          /\ cut' = lines /\ segAt' = "merge" /\ UNCHANGED timed
  /\ pending' = <<>>
  /\ UNCHANGED <<stream, head, ordinal>>

JoinedLines(a, b) == [b EXCEPT !.words = a.words \o @, !.start = a.start]

\* One iteration of mergeShort: a short line joins the line before it; the
\* first one waits for the line after it.
MergeLine ==
  /\ segAt = "merge" /\ cut # <<>>
  /\ LET l == IF head = <<>> THEN Head(cut) ELSE JoinedLines(head[1], Head(cut)) IN
       \/ /\ LineDuration(l) < MinDuration
          /\ timed = <<>>
          /\ head' = <<l>> /\ UNCHANGED timed
       \/ /\ LineDuration(l) < MinDuration /\ timed # <<>>
          /\ timed' = Front(timed) \o <<JoinedLines(Last(timed), l)>> /\ head' = <<>>
       \/ /\ LineDuration(l) >= MinDuration
          /\ timed' = Append(timed, l) /\ head' = <<>>
  /\ cut' = Tail(cut)
  /\ UNCHANGED <<segAt, stream, pending, ordinal>>

MergeEnds ==
  /\ segAt = "merge" /\ cut = <<>>
  /\ segAt' = "reflow"
  /\ UNCHANGED <<stream, pending, cut, head, timed, ordinal>>

TooFast(l, duration) == l.chars > MaxCPS * duration

ReflowedIntoNext(k, l) ==
  LET end == IF k = Len(timed) THEN l.start + MaxDuration ELSE Min({timed[k + 1].start + MinGap, l.start + MaxDuration})
  IN [l EXCEPT !.end = end, !.review = @ \/ TooFast(l, end - l.start)]

ReflowedStale(k, l) ==
  LET room == IF k = Len(timed) THEN MaxDuration ELSE timed[k + 1].start - MinGap - l.end
      end == IF room > 0 THEN Min({l.end + room, l.start + MaxDuration}) ELSE l.end
      before == IF k = 1 THEN l.start ELSE l.start - timed[k - 1].end - MinGap
      start == IF TooFast(l, end - l.start) /\ before > 0
               THEN Max({l.start - before, end - MaxDuration}) ELSE l.start
  IN [l EXCEPT !.start = start, !.end = end,
               !.review = @ \/ (start = l.start /\ end = l.end)]

ReflowedUnbounded(k, l) ==
  LET room == IF k = Len(timed) THEN MaxDuration ELSE timed[k + 1].start - MinGap - l.end
      end == IF room > 0 THEN Min({l.end + room, l.start + MaxDuration}) ELSE l.end
      start == IF k = 1 THEN end - MaxDuration ELSE l.start
  IN [l EXCEPT !.start = start, !.end = end, !.review = @ \/ TooFast(l, end - start)]

\* The body of Reflow for a line that is too fast: the silence after it, then
\* the silence before it, within MaxDuration; a line that is still too fast is
\* marked.
Reflowed(k, l) ==
  LET room == IF k = Len(timed) THEN MaxDuration ELSE timed[k + 1].start - MinGap - l.end
      end == IF room > 0 THEN Min({l.end + room, l.start + MaxDuration}) ELSE l.end
      before == IF k = 1 THEN l.start ELSE l.start - timed[k - 1].end - MinGap
      start == IF TooFast(l, end - l.start) /\ before > 0
               THEN Max({l.start - before, end - MaxDuration}) ELSE l.start
  IN [l EXCEPT !.start = start, !.end = end, !.review = @ \/ TooFast(l, end - start)]

\* One iteration of Reflow.  The length of the text is the translation's.
ReflowLine(length) ==
  /\ segAt = "reflow" /\ ordinal <= Len(timed)
  /\ LET l == [timed[ordinal] EXCEPT !.chars = length]
     IN timed' = [timed EXCEPT ![ordinal] = IF TooFast(l, LineDuration(l)) THEN Reflowed(ordinal, l) ELSE l]
  /\ ordinal' = ordinal + 1
  /\ UNCHANGED <<segAt, stream, pending, cut, head>>

Timed ==
  /\ segAt = "reflow" /\ ordinal > Len(timed)
  /\ segAt' = "done"
  /\ UNCHANGED <<stream, pending, cut, head, timed, ordinal>>

SegmenterNext ==
  \/ \E s \in Spoken, gap \in Gaps : Hear(s, gap)
  \/ Flush \/ MergeLine \/ MergeEnds
  \/ \E length \in TranslatedLengths : ReflowLine(length)
  \/ Timed

SegmenterSpec == SegmenterInit /\ [][SegmenterNext]_segmenterVars

(***************************************************************************)
(* Properties                                                              *)
(***************************************************************************)
WordsOf(ls) == FlattenSeq([k \in 1 .. Len(ls) |-> ls[k].words])
Kept == WordsOf(timed) \o (IF head = <<>> THEN <<>> ELSE head[1].words) \o WordsOf(cut) \o pending

\* Every variable has its type, and no line is empty.
SegmenterTypeOK ==
  /\ segAt \in {"split", "merge", "reflow", "done"}
  /\ Len(stream) \in 0 .. MaxWords /\ ordinal \in 1 .. Len(timed) + 1
  /\ \A k \in 1 .. Len(timed) : timed[k].words # <<>> /\ timed[k].start >= 0 /\ timed[k].end > timed[k].start

\* No word is lost, repeated or moved by split and mergeShort: at every step the
\* lines, the line that waits, the lines still to merge and the pending words
\* are the stream.
WordsAreKept == Kept = stream

\* Build returns every word in a line, but for a recording that lasts less than
\* MinDuration as a whole: then mergeShort may end with all of it in the line
\* that waits, and returns nothing.
OnlyBriefIsLost ==
  segAt \in {"reflow", "done"} =>
    \/ WordsOf(timed) = stream
    \/ timed = <<>> /\ Last(stream).end - stream[1].start < MinDuration

\* What ValidateSet requires holds by the time it is asked: lines are in order
\* and do not overlap, through splitting, merging and the correction of the
\* timing, which moves both ends of a line into the silences around it.
LinesDoNotOverlap ==
  \A k \in 1 .. Len(timed) - 1 : timed[k].end <= timed[k + 1].start

\* After Reflow a line that cannot be read in its time is marked for review,
\* whatever its neighbours took of the silence between them.
UnreadableIsMarked ==
  segAt = "done" => \A k \in 1 .. Len(timed) : TooFast(timed[k], LineDuration(timed[k])) => timed[k].review

\* The lines hold the words that were heard, one after the other, and what
\* cannot be read is marked.
LinesAreSound == WordsAreKept /\ OnlyBriefIsLost /\ LinesDoNotOverlap /\ UnreadableIsMarked
=============================================================================
