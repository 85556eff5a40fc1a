-------------------------- MODULE TranslatorProofs --------------------------
(***************************************************************************)
(* What a translation promises for any number of lines, workers, attempts, *)
(* any size of a batch and any ceiling: every line is accounted for and    *)
(* gets its own answer, and what is spent beyond the ceiling is bounded.   *)
(***************************************************************************)
EXTENDS Translator, Sequences, FiniteSetTheorems, WellFoundedInduction, TLAPS

-----------------------------------------------------------------------------
(* The batches are a partition of the lines that are asked for. *)

Below == {p \in Nat \X Nat : p[1] < p[2]}

LEMMA LeastNumber ==
  ASSUME NEW T \in SUBSET Nat, T # {}
  PROVE  \E x \in T : \A y \in T : x <= y
<1>1. IsWellFoundedOn(Below, Nat)
  BY NatLessThanWellFounded DEF OpToRel, Below
<1>2. PICK x \in T : \A y \in T : ~(<<y, x>> \in Below)
  BY <1>1, WFMin
<1>3. ASSUME NEW y \in T PROVE x <= y
  <2>1. x \in Nat /\ y \in Nat /\ ~(<<y, x>> \in Below)
    BY <1>2
  <2>2. ~(y < x)
    BY <2>1 DEF Below
  <2> QED BY <2>1, <2>2
<1> QED
  BY <1>2, <1>3

LEMMA Multiples ==
  ASSUME NEW B \in Nat \ {0}, NEW k \in Nat, NEW l \in Nat, k < l
  PROVE  k * B + B <= l * B /\ k * B \in Nat /\ l * B \in Nat /\ k <= k * B
<1>1. PICK m \in Nat : l = k + 1 + m
  <2>1. l - k - 1 \in Nat /\ l = k + 1 + (l - k - 1)
    OBVIOUS
  <2> QED BY <2>1
<1>2. l * B = k * B + B + m * B
  BY <1>1
<1>3. k * B \in Nat /\ m * B \in Nat /\ l * B \in Nat
  OBVIOUS
<1>4. k <= k * B
  OBVIOUS
<1> QED
  BY <1>2, <1>3, <1>4

\* Where the run of a pending line begins.
LEMMA RunBegins ==
  ASSUME NEW P \in SUBSET Lines, NEW i \in P
  PROVE  \E s \in P : s <= i /\ s - 1 \notin P /\ s..i \subseteq P
<1>1. P \subseteq Nat \ {0} /\ \A j \in P : j \in Nat
  BY DEF Lines
<1> DEFINE T == {s \in Nat : s \in P /\ s <= i /\ s..i \subseteq P}
<1>2. i \in T
  BY <1>1
<1>3. PICK s \in T : \A y \in T : s <= y
  BY <1>2, LeastNumber
<1>4. s - 1 \notin P
  <2> SUFFICES ASSUME s - 1 \in P PROVE FALSE
    OBVIOUS
  <2>1. s - 1 \in Nat /\ s - 1 <= i /\ \A j \in (s - 1)..i : j = s - 1 \/ j \in s..i
    BY <1>1, <1>3
  <2>2. s - 1 \in T
    BY <1>3, <2>1
  <2> QED
    BY <1>1, <1>3, <2>2
<1> QED
  BY <1>3, <1>4

\* The last cut of the run at or before a line.
LEMMA CutBefore ==
  ASSUME NEW P \in SUBSET Lines, NEW i \in P
  PROVE  \E h \in Cuts(P) : i \in BatchFrom(P, h)
<1>1. PICK s \in P : s <= i /\ s - 1 \notin P /\ s..i \subseteq P
  BY RunBegins
<1>2. s \in Nat /\ i \in Nat /\ s >= 1 /\ i <= NumLines /\ NumLines \in Nat /\ BatchSize \in Nat \ {0}
  BY TranslatorAssumption DEF Lines
<1> DEFINE T == {k \in Nat : i < s + k * BatchSize}
<1>3. i + 1 \in T
  <2>1. i + 1 <= (i + 1) * BatchSize /\ (i + 1) * BatchSize \in Nat
    <3>1. i + 1 < i + 2 /\ i + 1 \in Nat /\ i + 2 \in Nat
      BY <1>2
    <3> QED BY <1>2, <3>1, Multiples
  <2> QED BY <1>2, <2>1
<1>4. PICK l \in T : \A y \in T : l <= y
  <2>1. T \in SUBSET Nat /\ T # {}
    BY <1>3
  <2> QED BY <2>1, LeastNumber
<1>5. l # 0
  BY <1>1, <1>2, <1>4
<1>6. PICK k \in Nat : l = k + 1
  BY <1>4, <1>5
<1>7. s + k * BatchSize <= i
  <2>1. k \notin T
    BY <1>4, <1>6
  <2>2. k * BatchSize \in Nat
    BY <1>2
  <2> QED BY <1>2, <2>1, <2>2
<1>8. PICK h \in Nat : h = s + k * BatchSize
  BY <1>2
<1>9. h <= i /\ h \in s..i /\ i \in h..(h + BatchSize - 1)
  <2>1. l * BatchSize = k * BatchSize + BatchSize /\ k * BatchSize \in Nat /\ l * BatchSize \in Nat
    BY <1>2, <1>6
  <2>2. i < s + l * BatchSize
    BY <1>4
  <2> QED BY <1>2, <1>7, <1>8, <2>1, <2>2
<1>10. k \in 0..NumLines
  <2>1. k <= k * BatchSize /\ k * BatchSize \in Nat
    <3>1. k < k + 1 /\ k + 1 \in Nat
      OBVIOUS
    <3> QED BY <1>2, <3>1, Multiples
  <2> QED BY <1>2, <1>7, <2>1
<1>11. h \in P /\ s..h \subseteq P /\ h..i \subseteq P
  <2>1. s..h \subseteq s..i /\ h..i \subseteq s..i
    BY <1>2, <1>8, <1>9
  <2> QED BY <1>1, <1>9, <2>1
<1>12. h \in Cuts(P)
  BY <1>1, <1>8, <1>10, <1>11 DEF Cuts
<1> QED
  BY <1>9, <1>11, <1>12 DEF BatchFrom

\* Two cuts whose batches share a line are the same.
LEMMA CutsDiffer ==
  ASSUME NEW P \in SUBSET Lines, NEW g \in Cuts(P), NEW h \in Cuts(P), g < h, NEW i,
         i \in BatchFrom(P, g), i \in BatchFrom(P, h)
  PROVE  FALSE
<1>1. PICK s \in P, k \in 0..NumLines : s - 1 \notin P /\ s..g \subseteq P /\ g = s + k * BatchSize
  BY DEF Cuts
<1>2. PICK t \in P, l \in 0..NumLines : t - 1 \notin P /\ t..h \subseteq P /\ h = t + l * BatchSize
  BY DEF Cuts
<1>3. /\ s \in Nat \ {0} /\ t \in Nat \ {0} /\ k \in Nat /\ l \in Nat
      /\ k * BatchSize \in Nat /\ l * BatchSize \in Nat /\ BatchSize \in Nat \ {0}
  BY <1>1, <1>2, TranslatorAssumption DEF Lines
<1>4. g \in Nat /\ h \in Nat /\ s <= g /\ t <= h
  BY <1>1, <1>2, <1>3
<1>5. i \in g..(g + BatchSize - 1) /\ g..i \subseteq P /\ i \in h..(h + BatchSize - 1)
  BY DEF BatchFrom
<1>6. s..h \subseteq P
  <2>1. \A j \in s..h : j \in s..g \/ j \in g..i
    BY <1>3, <1>4, <1>5
  <2> QED BY <1>1, <1>5, <2>1
<1>7. s = t
  <2>1. CASE s < t
    <3>1. t - 1 \in s..h
      BY <1>3, <1>4, <2>1
    <3> QED BY <1>2, <1>6, <3>1
  <2>2. CASE t < s
    <3>1. s - 1 \in t..h
      BY <1>3, <1>4, <2>2
    <3> QED BY <1>1, <1>2, <3>1
  <2> QED BY <1>3, <2>1, <2>2
<1>8. k < l
  <2> SUFFICES ASSUME l <= k PROVE FALSE
    BY <1>3
  <2>1. l = k \/ l < k
    BY <1>3
  <2>2. l < k => l * BatchSize + BatchSize <= k * BatchSize
    BY <1>3, Multiples
  <2> QED BY <1>1, <1>2, <1>3, <1>7, <2>1, <2>2
<1>9. k * BatchSize + BatchSize <= l * BatchSize
  BY <1>3, <1>8, Multiples
<1> QED
  BY <1>1, <1>2, <1>3, <1>4, <1>5, <1>7, <1>9

LEMMA LinesAreFinite ==
  ASSUME NEW P \in SUBSET Lines
  PROVE  IsFiniteSet(P) /\ Cardinality(P) \in Nat
<1>1. IsFiniteSet(Lines)
  BY TranslatorAssumption, FS_Interval DEF Lines
<1> QED
  BY <1>1, FS_Subset, FS_CardinalityType

LEMMA GroupsPartition ==
  ASSUME NEW P \in SUBSET Lines
  PROVE  /\ \A b \in Grouped(P) : b \subseteq P /\ Cardinality(b) <= BatchSize
         /\ \A i \in P : \E b \in Grouped(P) : i \in b
         /\ \A b, o \in Grouped(P) : \A i \in b : i \in o => b = o
<1>1. ASSUME NEW h \in Cuts(P)
      PROVE  BatchFrom(P, h) \subseteq P /\ Cardinality(BatchFrom(P, h)) <= BatchSize
  <2>1. h \in P /\ h \in Nat /\ BatchSize \in Nat \ {0}
    BY TranslatorAssumption DEF Cuts, Lines
  <2>2. BatchFrom(P, h) \subseteq P
    BY <2>1 DEF BatchFrom
  <2>3. BatchFrom(P, h) \subseteq h..(h + BatchSize - 1)
    BY DEF BatchFrom
  <2>4. IsFiniteSet(h..(h + BatchSize - 1)) /\ Cardinality(h..(h + BatchSize - 1)) = BatchSize
    <3>1. h \in Int /\ h + BatchSize - 1 \in Int /\ ~(h > h + BatchSize - 1)
          /\ (h + BatchSize - 1) - h + 1 = BatchSize
      BY <2>1
    <3> QED BY <3>1, FS_Interval
  <2> QED BY <2>2, <2>3, <2>4, FS_Subset
<1>2. \A i \in P : \E b \in Grouped(P) : i \in b
  BY CutBefore DEF Grouped
<1>3. ASSUME NEW g \in Cuts(P), NEW h \in Cuts(P), NEW i, i \in BatchFrom(P, g), i \in BatchFrom(P, h)
      PROVE  g = h
  <2>1. g \in Nat /\ h \in Nat
    BY DEF Cuts, Lines
  <2> QED BY <1>3, <2>1, CutsDiffer
<1> QED
  BY <1>1, <1>2, <1>3 DEF Grouped

-----------------------------------------------------------------------------
(* What the steps of a worker make of its state. *)

Depths == 1..MaxSplitDepth

LEMMA DepthsAre == Depths = {1, 2, 3} /\ MaxSplitDepth = 3 /\ 0..MaxSplitDepth = {0, 1, 2, 3}
BY DEF Depths, MaxSplitDepth

\* Two states of a worker that differ in where it is and its attempt at most.
SameBatch(n, c) ==
  /\ n.pending = c.pending /\ n.parts = c.parts /\ n.all = c.all /\ n.missing = c.missing
  /\ n.got = c.got /\ n.depth = c.depth /\ n.err = c.err

LEMMA AtChanges ==
  ASSUME NEW c \in Worker, NEW a \in WorkerStates
  PROVE  /\ [c EXCEPT !.at = a] \in Worker
         /\ [c EXCEPT !.at = a].at = a /\ [c EXCEPT !.at = a].attempt = c.attempt
         /\ SameBatch([c EXCEPT !.at = a], c)
BY DEF Worker, SameBatch

LEMMA IdleIs ==
  /\ Idle \in Worker /\ NoParts \in [Depths -> SUBSET Lines] /\ \A d \in Depths : NoParts[d] = {}
  /\ Idle.at = "receive" /\ Idle.pending = {} /\ Idle.depth = 0 /\ Idle.attempt = 1
  /\ Idle.parts = NoParts /\ Idle.got = {} /\ Idle.all = {} /\ Idle.missing = {} /\ Idle.err = "none"
<1>1. NoParts \in [Depths -> SUBSET Lines] /\ \A d \in Depths : NoParts[d] = {}
  BY DEF NoParts, Depths
<1>2. 0 \in 0..MaxSplitDepth /\ 1 \in 1..(MaxAttempts + 1)
  BY TranslatorAssumption DEF MaxSplitDepth
<1> QED
  BY <1>1, <1>2 DEF Idle, Worker, WorkerStates, Depths

LEMMA ReturnedIs ==
  ASSUME NEW c \in Worker, NEW n, n = Returned(c, "request")
  PROVE  /\ n \in Worker /\ n.at = "report" /\ n.err = "request" /\ n.pending = {}
         /\ n.missing = c.missing \cup c.pending
         /\ n.parts = c.parts /\ n.all = c.all /\ n.got = c.got /\ n.depth = c.depth
BY DEF Worker, Returned, WorkerStates

LEMMA RepliedIs ==
  ASSUME NEW c \in Worker, c.attempt <= MaxAttempts, NEW usable \in SUBSET c.pending,
         NEW n, n = Replied(c, usable)
  PROVE  /\ n \in Worker /\ n.at = "loop" /\ n.attempt = c.attempt + 1
         /\ n.pending = c.pending \ usable /\ n.got = c.got \cup usable /\ n.all = c.all \cup usable
         /\ n.missing = c.missing /\ n.parts = c.parts /\ n.depth = c.depth /\ n.err = c.err
<1>1. c.attempt + 1 \in 1..(MaxAttempts + 1)
  BY TranslatorAssumption DEF Worker
<1>2. "loop" \in WorkerStates /\ usable \in SUBSET Lines
  BY DEF Worker, WorkerStates
<1> QED
  BY <1>1, <1>2 DEF Worker, Replied

LEMMA SplitIs ==
  ASSUME NEW c \in Worker, c.depth < MaxSplitDepth, NEW low \in SUBSET c.pending,
         NEW n, n = Split(c, low)
  PROVE  /\ n \in Worker /\ n.at = "loop" /\ n.attempt = 1 /\ n.pending = low
         /\ n.depth = c.depth + 1 /\ n.got = {} /\ n.all = c.all /\ n.missing = c.missing
         /\ n.err = c.err /\ c.depth + 1 \in Depths /\ n.parts[c.depth + 1] = c.pending \ low
         /\ \A d \in Depths : d # c.depth + 1 => n.parts[d] = c.parts[d]
<1>1. c.depth + 1 \in Depths /\ c.depth + 1 \in 0..MaxSplitDepth /\ 1 \in 1..(MaxAttempts + 1)
  BY TranslatorAssumption DEF Worker, Depths, MaxSplitDepth
<1>2. PICK p : p = [c.parts EXCEPT ![c.depth + 1] = c.pending \ low]
  OBVIOUS
<1>3. c.parts \in [Depths -> SUBSET Lines] /\ c.pending \in SUBSET Lines /\ low \in SUBSET Lines
  BY DEF Worker, Depths
<1>4. /\ p \in [Depths -> SUBSET Lines] /\ p[c.depth + 1] = c.pending \ low
      /\ \A d \in Depths : d # c.depth + 1 => p[d] = c.parts[d]
  BY <1>1, <1>2, <1>3
<1>5. n = [c EXCEPT !.at = "loop", !.pending = low, !.depth = c.depth + 1, !.attempt = 1, !.got = {},
                    !.parts = p]
  BY <1>2 DEF Split
<1>6. "loop" \in WorkerStates
  BY DEF WorkerStates
<1>7. /\ n \in Worker /\ n.at = "loop" /\ n.attempt = 1 /\ n.pending = low
      /\ n.depth = c.depth + 1 /\ n.got = {} /\ n.all = c.all /\ n.missing = c.missing
      /\ n.err = c.err /\ n.parts = p
  BY <1>1, <1>3, <1>4, <1>5, <1>6 DEF Worker, Depths
<1> QED
  BY <1>1, <1>4, <1>7

LEMMA DeepestIs ==
  ASSUME NEW c \in Worker, Waiting(c) # {}
  PROVE  /\ Max(Waiting(c)) \in Depths /\ c.parts[Max(Waiting(c))] # {}
         /\ \A d \in Depths : d > Max(Waiting(c)) => c.parts[d] = {}
<1>1. \A d \in Depths : d \in Waiting(c) <=> c.parts[d] # {}
  BY DEF Waiting, Depths
<1>2. Waiting(c) \subseteq {1, 2, 3}
  BY DepthsAre DEF Waiting, Depths
<1>3. \E d \in Waiting(c) : \A e \in Waiting(c) : d >= e
  <2>1. CASE 3 \in Waiting(c)
    BY <1>2, <2>1
  <2>2. CASE 3 \notin Waiting(c) /\ 2 \in Waiting(c)
    BY <1>2, <2>2
  <2>3. CASE 3 \notin Waiting(c) /\ 2 \notin Waiting(c)
    BY <1>2, <2>3
  <2> QED BY <2>1, <2>2, <2>3
<1>4. Max(Waiting(c)) \in Waiting(c) /\ \A e \in Waiting(c) : Max(Waiting(c)) >= e
  BY <1>3 DEF Max
<1>5. \A d \in Depths : d > Max(Waiting(c)) => d \notin Waiting(c)
  BY <1>2, <1>4, DepthsAre
<1> QED
  BY <1>1, <1>2, <1>4, <1>5, DepthsAre

LEMMA NextPartIs ==
  ASSUME NEW c \in Worker, NEW n, n = NextPart(c)
  PROVE  /\ n \in Worker /\ n.all = c.all /\ n.missing = c.missing \cup c.pending /\ n.err = c.err
         /\ Waiting(c) = {} =>
              n.at = "report" /\ n.pending = {} /\ n.parts = c.parts /\ n.got = c.got /\ n.depth = c.depth
         /\ Waiting(c) # {} => \E d \in Depths :
              /\ c.parts[d] # {} /\ n.at = "loop" /\ n.pending = c.parts[d] /\ n.depth = d
              /\ n.attempt = 1 /\ n.got = {} /\ n.parts[d] = {}
              /\ \A e \in Depths : (e # d => n.parts[e] = c.parts[e]) /\ (e > d => c.parts[e] = {})
<1>1. PICK m : m = [c EXCEPT !.missing = c.missing \cup c.pending, !.pending = {}]
  OBVIOUS
<1>2. /\ m \in Worker /\ m.at = c.at /\ m.all = c.all /\ m.missing = c.missing \cup c.pending
      /\ m.err = c.err /\ m.pending = {} /\ m.parts = c.parts /\ m.got = c.got /\ m.depth = c.depth
  BY <1>1 DEF Worker
<1>3. "report" \in WorkerStates /\ "loop" \in WorkerStates /\ 1 \in 1..(MaxAttempts + 1)
  BY TranslatorAssumption DEF WorkerStates
<1>4. CASE Waiting(c) = {}
  <2>1. n = [m EXCEPT !.at = "report"]
    BY <1>1, <1>4 DEF NextPart
  <2> QED BY <1>2, <1>3, <1>4, <2>1, AtChanges DEF SameBatch
<1>5. CASE Waiting(c) # {}
  <2>1. PICK d \in Depths : /\ d = Max(Waiting(c)) /\ c.parts[d] # {}
                            /\ \A e \in Depths : e > d => c.parts[e] = {}
    BY <1>5, DeepestIs
  <2>2. n = Resumed(m, d)
    BY <1>1, <1>5, <2>1 DEF NextPart
  <2>3. c.parts \in [Depths -> SUBSET Lines] /\ d \in 0..MaxSplitDepth
    BY DepthsAre DEF Worker, Depths
  <2>4. PICK p : p = [c.parts EXCEPT ![d] = {}]
    OBVIOUS
  <2>5. p \in [Depths -> SUBSET Lines] /\ p[d] = {} /\ \A e \in Depths : e # d => p[e] = c.parts[e]
    BY <2>3, <2>4
  <2>6. n = [m EXCEPT !.at = "loop", !.pending = c.parts[d], !.depth = d, !.parts = p,
                      !.attempt = 1, !.got = {}]
    BY <1>2, <2>2, <2>4 DEF Resumed
  <2>7. c.parts[d] \in SUBSET Lines
    BY <2>3
  <2>8. /\ n \in Worker /\ n.at = "loop" /\ n.pending = c.parts[d] /\ n.depth = d /\ n.parts = p
        /\ n.attempt = 1 /\ n.got = {} /\ n.all = m.all /\ n.missing = m.missing /\ n.err = m.err
    BY <1>2, <1>3, <2>3, <2>5, <2>6, <2>7 DEF Worker, Depths
  <2> QED BY <1>2, <1>5, <2>1, <2>5, <2>8
<1> QED
  BY <1>4, <1>5

-----------------------------------------------------------------------------
(* Every line is in one place. *)

\* The lines of the batch a worker has, until it has reported them.
Holds(c, i) ==
  i \in c.pending \/ i \in c.all \/ i \in c.missing \/ \E d \in Depths : i \in c.parts[d]

\* No line of a batch is both obtained and missing, or in two of its parts.
Apart(c) ==
  \A i \in Lines :
    /\ i \in c.pending => i \notin c.all /\ i \notin c.missing
    /\ i \in c.all => i \notin c.missing
    /\ \A d \in Depths : i \in c.parts[d] =>
         /\ i \notin c.pending /\ i \notin c.all /\ i \notin c.missing
         /\ \A e \in Depths : i \in c.parts[e] => e = d

\* A batch that is reported without an error has no line left, second halves
\* wait at the depths of the splits that made them, and attempts are counted.
WorkerInv(c) ==
  /\ Apart(c)
  /\ c.at = "receive" => \A i \in Lines : ~Holds(c, i)
  /\ c.err # "none" => c.at = "report"
  /\ c.at = "report" /\ c.err = "none" => c.pending = {} /\ \A d \in Depths : c.parts[d] = {}
  /\ \A d \in Depths : d > c.depth => c.parts[d] = {}
  /\ c.at = "chat" => c.pending # {} /\ c.attempt <= MaxAttempts
  /\ c.at = "backoff" => c.attempt < MaxAttempts
  /\ c.got \subseteq c.all

Open(i) == (\E b \in batches : i \in b) \/ (\E w \in Workers : Holds(crew[w], i))

OneOwner ==
  /\ \A b, o \in batches : \A i \in b : i \in o => b = o
  /\ \A b \in batches : \A w \in Workers : \A i \in b : ~Holds(crew[w], i)
  /\ \A w, v \in Workers : \A i \in Lines : Holds(crew[w], i) /\ Holds(crew[v], i) => w = v

\* A line that is still open, or was given up, has the text it came with.
OpenLines == \A i \in Lines : Open(i) => i \in Planned /\ text[i] = original[i] /\ i \notin failed
FailedLines == \A i \in failed : text[i] = original[i]

\* Unless something went wrong, nobody has dropped a line.
Complete ==
  progress \in {"run", "ok"} /\ fatal = "none" /\ ~external =>
    /\ ~stopped
    /\ \A i \in Planned : text[i] = Answer(i) \/ i \in failed \/ Open(i)
    /\ \A w \in Workers : /\ crew[w].at # "cancel"
                          /\ crew[w].at = "gone" => \A i \in Lines : ~Holds(crew[w], i)
    /\ feeder = "closed" => batches = {}

Ended ==
  progress = "ok" => /\ fatal = "none"
                     /\ \A w \in Workers : crew[w].at = "gone"
                     /\ ~external => batches = {}

Marked ==
  /\ revise => \A i \in Lines : original[i] = NoText => i \in review
  /\ ~revise => \A i \in Lines : original[i] = NoText
  /\ ~revise /\ progress = "ok" => failed \subseteq review

Untouched ==
  progress = "plan" =>
    /\ text = original /\ failed = {} /\ batches = {} /\ crew = [w \in Workers |-> Idle]
    /\ feeder = "send" /\ fatal = "none" /\ ~external /\ ~stopped

LinesInv ==
  /\ TranslatorTypeOK /\ AnswersStayWithTheirRequest
  /\ \A w \in Workers : WorkerInv(crew[w])
  /\ OneOwner /\ OpenLines /\ FailedLines /\ Complete /\ Ended /\ Marked /\ Untouched

LEMMA AnswerIs ==
  ASSUME NEW i \in Lines, TranslatorTypeOK
  PROVE  /\ KeyOf(i) \in Keys /\ Answer(i) = AnswerTo(KeyOf(i)) /\ Answer(i) \in Texts
         /\ Answer(i) # original[i] /\ Answer(i) # NoText
<1>1. KeyOf(i) \in Keys
  BY DEF KeyOf, Keys
<1>2. \A a, b : <<"answer", a, b>> # << >> /\ <<"answer", a, b>> # <<"old">>
  <2>1. \A a, b : Len(<<"answer", a, b>>) = 3
    OBVIOUS
  <2>2. Len(<< >>) = 0 /\ Len(<<"old">>) = 1
    OBVIOUS
  <2> QED BY <2>1, <2>2
<1>3. original[i] \in {NoText, OldText}
  BY DEF TranslatorTypeOK
<1>4. Answer(i) # NoText /\ Answer(i) # OldText
  BY <1>2 DEF Answer, AnswerTo, NoText, OldText
<1> QED
  BY <1>1, <1>3, <1>4 DEF Answer, Texts

LEMMA RunIsFixed ==
  ASSUME UNCHANGED <<revise, original>>
  PROVE  Planned' = Planned /\ \A i \in Lines : KeyOf(i)' = KeyOf(i) /\ Answer(i)' = Answer(i)
BY DEF Planned, KeyOf, Answer

LEMMA IdleHoldsNothing == WorkerInv(Idle) /\ \A i : ~Holds(Idle, i)
<1>1. \A i : ~Holds(Idle, i)
  BY IdleIs DEF Holds
<1> QED
  BY <1>1, IdleIs DEF WorkerInv, Apart

LEMMA LinesBegin == TranslatorInit => LinesInv
<1> SUFFICES ASSUME TranslatorInit PROVE LinesInv
  OBVIOUS
<1>1. crew = [w \in Workers |-> Idle] /\ \A w \in Workers : crew[w] = Idle
  BY DEF TranslatorInit
<1>2. original \in [Lines -> {NoText, OldText}] /\ text = original
  BY DEF TranslatorInit
<1>3. /\ \A k \in Keys : cache[k] \in {NoText, AnswerTo(k)}
      /\ cache \in [Keys -> Texts]
  <2>1. PICK known : cache = [k \in Keys |-> IF k[1] \in known THEN AnswerTo(k) ELSE NoText]
    BY DEF TranslatorInit
  <2> QED BY <2>1 DEF Texts
<1>4. TranslatorTypeOK
  <2>1. crew \in [Workers -> Worker]
    BY <1>1, IdleIs
  <2>2. review \subseteq Lines
    BY DEF TranslatorInit
  <2>3. text \in [Lines -> Texts]
    BY <1>2 DEF Texts
  <2> QED BY <1>2, <1>3, <2>1, <2>2, <2>3 DEF TranslatorInit, TranslatorTypeOK
<1>5. \A w \in Workers : WorkerInv(crew[w])
  BY <1>1, IdleHoldsNothing
<1>6. batches = {} /\ failed = {} /\ progress = "plan" /\ feeder = "send" /\ fatal = "none" /\ ~external /\ ~stopped
  BY DEF TranslatorInit
<1>7. OneOwner /\ \A i \in Lines : ~Open(i)
  BY <1>1, <1>6, IdleHoldsNothing DEF OneOwner, Open
<1>8. Marked
  <2>1. revise => \A i \in Lines : original[i] = NoText => i \in review
    BY DEF TranslatorInit
  <2>2. ~revise => \A i \in Lines : original[i] = NoText
    BY DEF TranslatorInit
  <2> QED BY <1>6, <2>1, <2>2 DEF Marked
<1>9. AnswersStayWithTheirRequest
  BY <1>2, <1>3 DEF AnswersStayWithTheirRequest
<1> QED
  BY <1>1, <1>2, <1>4, <1>5, <1>6, <1>7, <1>8, <1>9
     DEF LinesInv, OpenLines, FailedLines, Complete, Ended, Untouched

\* A worker goes on with its batch, or leaves it; nothing else changes but the
\* cache, the error and what is spent.
LEMMA CrewMoves ==
  ASSUME LinesInv, NEW w \in Workers, NEW n \in Worker, crew' = [crew EXCEPT ![w] = n],
         UNCHANGED <<concurrency, revise, original, review, progress, external, feeder, text, failed, batches>>,
         cache' \in [Keys -> Texts], \A k \in Keys : cache'[k] \in {NoText, AnswerTo(k)},
         spent' \in Nat, stopped' \in BOOLEAN, fatal' \in {"none", "budget", "request"},
         WorkerInv(n), \A i \in Lines : Holds(n, i) <=> Holds(crew[w], i),
         progress \notin {"plan", "ok"}, fatal' = "none" => fatal = "none",
         progress = "run" /\ fatal' = "none" /\ ~external =>
           /\ ~stopped' /\ n.at # "cancel"
           /\ n.at = "gone" => \A i \in Lines : ~Holds(n, i)
  PROVE  LinesInv'
<1>1. crew \in [Workers -> Worker] /\ crew'[w] = n /\ \A v \in Workers : v # w => crew'[v] = crew[v]
  BY DEF LinesInv, TranslatorTypeOK
<1>2. \A v \in Workers : \A i \in Lines : Holds(crew'[v], i) <=> Holds(crew[v], i)
  BY <1>1
<1>3. \A b \in batches : b \subseteq Lines
  BY DEF LinesInv, TranslatorTypeOK
<1>4. \A i \in Lines : Open(i)' <=> Open(i)
  BY <1>2 DEF Open
<1>5. Planned' = Planned /\ Planned \subseteq Lines /\ \A i \in Lines : Answer(i)' = Answer(i)
  BY RunIsFixed DEF Planned
<1>6. TranslatorTypeOK'
  <2>1. crew' \in [Workers -> Worker]
    BY <1>1
  <2> QED BY <2>1 DEF LinesInv, TranslatorTypeOK
<1>7. AnswersStayWithTheirRequest'
  BY <1>5 DEF LinesInv, AnswersStayWithTheirRequest
<1>8. \A v \in Workers : WorkerInv(crew'[v])
  BY <1>1 DEF LinesInv
<1>9. OneOwner'
  BY <1>2, <1>3 DEF LinesInv, OneOwner
<1>10. OpenLines' /\ FailedLines'
  BY <1>4, <1>5 DEF LinesInv, OpenLines, FailedLines
<1>11. Complete'
  <2> SUFFICES ASSUME progress = "run", fatal' = "none", ~external PROVE Complete'
    BY DEF Complete
  <2>1. Complete /\ fatal = "none"
    BY DEF LinesInv
  <2>2. \A v \in Workers : /\ crew'[v].at # "cancel"
                           /\ crew'[v].at = "gone" => \A i \in Lines : ~Holds(crew'[v], i)
    BY <1>1, <2>1 DEF Complete
  <2>3. \A i \in Planned : text[i] = Answer(i) \/ i \in failed \/ Open(i)
    BY <2>1 DEF Complete
  <2>4. feeder = "closed" => batches = {}
    BY <2>1 DEF Complete
  <2> QED BY <1>4, <1>5, <2>2, <2>3, <2>4 DEF Complete
<1>12. Ended' /\ Marked' /\ Untouched'
  BY DEF LinesInv, Ended, Marked, Untouched
<1> QED
  BY <1>6, <1>7, <1>8, <1>9, <1>10, <1>11, <1>12 DEF LinesInv

\* A worker that has a batch is one of a run under way.
LEMMA WorkerIsOfRun ==
  ASSUME LinesInv, NEW w \in Workers,
         crew[w].at \notin {"receive", "gone"} \/ (crew[w].at = "receive" /\ feeder = "closed")
  PROVE  /\ progress \notin {"plan", "ok"} /\ crew[w] \in Worker /\ WorkerInv(crew[w])
         /\ cache \in [Keys -> Texts] /\ \A k \in Keys : cache[k] \in {NoText, AnswerTo(k)}
         /\ spent \in Nat /\ stopped \in BOOLEAN /\ fatal \in {"none", "budget", "request"}
<1>1. progress # "plan"
  BY IdleIs DEF LinesInv, Untouched
<1>2. progress # "ok"
  BY DEF LinesInv, Ended
<1> QED
  BY <1>1, <1>2 DEF LinesInv, TranslatorTypeOK, AnswersStayWithTheirRequest

\* A state that differs in where the worker is holds the same.
LEMMA SameBatchHolds ==
  ASSUME NEW c, NEW n, SameBatch(n, c)
  PROVE  (\A i : Holds(n, i) <=> Holds(c, i)) /\ (Apart(c) => Apart(n))
BY DEF SameBatch, Holds, Apart

\* A worker that moves within its batch.
LEMMA GoesOn ==
  ASSUME LinesInv, NEW w \in Workers, NEW n \in Worker, crew' = [crew EXCEPT ![w] = n],
         crew[w].at \notin {"receive", "gone", "cancel"}, n.at \notin {"gone", "cancel"},
         UNCHANGED <<concurrency, revise, original, review, progress, external, feeder, text, failed, batches,
                     stopped, fatal>>,
         cache' \in [Keys -> Texts], \A k \in Keys : cache'[k] \in {NoText, AnswerTo(k)}, spent' \in Nat,
         WorkerInv(n), \A i \in Lines : Holds(n, i) <=> Holds(crew[w], i)
  PROVE  LinesInv'
<1>1. progress \notin {"plan", "ok"} /\ stopped \in BOOLEAN /\ fatal \in {"none", "budget", "request"}
  BY WorkerIsOfRun
<1>2. progress = "run" /\ fatal = "none" /\ ~external => ~stopped
  BY DEF LinesInv, Complete
<1> QED
  BY <1>1, <1>2, CrewMoves

LEMMA ReturnedKeeps ==
  ASSUME LinesInv, NEW w \in Workers, crew' = [crew EXCEPT ![w] = Returned(crew[w], "request")],
         crew[w].at \notin {"receive", "gone", "cancel"},
         UNCHANGED <<concurrency, revise, original, review, progress, external, feeder, text, failed, batches,
                     stopped, fatal, cache, spent>>
  PROVE  LinesInv'
<1>1. PICK n : n = Returned(crew[w], "request")
  OBVIOUS
<1>2. crew[w] \in Worker /\ WorkerInv(crew[w])
  BY WorkerIsOfRun
<1>3. /\ n \in Worker /\ n.at = "report" /\ n.err = "request" /\ n.pending = {}
      /\ n.missing = crew[w].missing \cup crew[w].pending
      /\ n.parts = crew[w].parts /\ n.all = crew[w].all /\ n.got = crew[w].got /\ n.depth = crew[w].depth
  BY <1>1, <1>2, ReturnedIs
<1>4. \A i \in Lines : Holds(n, i) <=> Holds(crew[w], i)
  BY <1>3 DEF Holds
<1>5. Apart(n)
  BY <1>2, <1>3 DEF WorkerInv, Apart
<1>6. WorkerInv(n)
  BY <1>2, <1>3, <1>5 DEF WorkerInv
<1> QED
  BY <1>1, <1>3, <1>4, <1>6, GoesOn, WorkerIsOfRun

LEMMA BeginsKeeps ==
  ASSUME LinesInv, NEW w \in Workers, WorkerBegins(w)
  PROVE  LinesInv'
<1>1. /\ crew[w] \in Worker /\ WorkerInv(crew[w]) /\ progress \notin {"plan", "ok"}
      /\ cache \in [Keys -> Texts] /\ (\A k \in Keys : cache[k] \in {NoText, AnswerTo(k)})
      /\ spent \in Nat /\ stopped \in BOOLEAN /\ fatal \in {"none", "budget", "request"}
  BY WorkerIsOfRun DEF WorkerBegins
<1>2. PICK a \in WorkerStates : a = IF stopped THEN "gone" ELSE IF Exhausted THEN "cancel" ELSE "loop"
  BY DEF WorkerStates
<1>3. PICK n : n = [crew[w] EXCEPT !.at = a]
  OBVIOUS
<1>4. crew' = [crew EXCEPT ![w] = n]
  BY <1>2, <1>3 DEF WorkerBegins
<1>5. n \in Worker /\ n.at = a /\ n.attempt = crew[w].attempt /\ SameBatch(n, crew[w])
  BY <1>1, <1>3, AtChanges
<1>6. (\A i \in Lines : Holds(n, i) <=> Holds(crew[w], i)) /\ Apart(n)
  BY <1>1, <1>5, SameBatchHolds DEF WorkerInv
<1>7. crew[w].at = "taken"
  BY DEF WorkerBegins
<1>8. WorkerInv(n)
  BY <1>1, <1>2, <1>5, <1>6, <1>7 DEF WorkerInv, SameBatch
<1>9. progress = "run" /\ fatal = "none" /\ ~external => ~stopped
  BY DEF LinesInv, Complete
<1>10. /\ fatal' = IF ~stopped /\ Exhausted /\ fatal = "none" THEN "budget" ELSE fatal
       /\ UNCHANGED <<concurrency, revise, original, review, progress, external, feeder, text, failed, batches,
                      stopped, cache, spent>>
  BY DEF WorkerBegins, runConst
<1>11. fatal' \in {"none", "budget", "request"} /\ (fatal' = "none" => fatal = "none")
  BY <1>1, <1>10
<1>12. progress = "run" /\ fatal' = "none" /\ ~external => ~stopped /\ n.at = "loop"
  BY <1>2, <1>5, <1>9, <1>10, <1>11
<1> QED
  BY <1>1, <1>4, <1>5, <1>6, <1>8, <1>10, <1>11, <1>12, CrewMoves

LEMMA EndsKeeps ==
  ASSUME LinesInv, NEW w \in Workers, WorkerEnds(w) \/ WorkerCancels(w)
  PROVE  LinesInv'
<1>1. /\ crew[w] \in Worker /\ WorkerInv(crew[w]) /\ progress \notin {"plan", "ok"}
      /\ cache \in [Keys -> Texts] /\ (\A k \in Keys : cache[k] \in {NoText, AnswerTo(k)})
      /\ spent \in Nat /\ stopped \in BOOLEAN /\ fatal \in {"none", "budget", "request"}
  BY WorkerIsOfRun DEF WorkerEnds, WorkerCancels
<1>2. PICK n : n = [crew[w] EXCEPT !.at = "gone"]
  OBVIOUS
<1>3. "gone" \in WorkerStates
  BY DEF WorkerStates
<1>4. n \in Worker /\ n.at = "gone" /\ n.attempt = crew[w].attempt /\ SameBatch(n, crew[w])
  BY <1>1, <1>2, <1>3, AtChanges
<1>5. (\A i \in Lines : Holds(n, i) <=> Holds(crew[w], i)) /\ Apart(n)
  BY <1>1, <1>4, SameBatchHolds DEF WorkerInv
<1>6. crew[w].at \in {"receive", "cancel"}
  BY DEF WorkerEnds, WorkerCancels
<1>7. WorkerInv(n)
  BY <1>1, <1>4, <1>5, <1>6 DEF WorkerInv, SameBatch
<1>8. crew' = [crew EXCEPT ![w] = n]
  BY <1>2 DEF WorkerEnds, WorkerCancels
<1>9. /\ UNCHANGED <<concurrency, revise, original, review, progress, external, feeder, text, failed, batches,
                      cache, spent, fatal>>
      /\ stopped' \in BOOLEAN
  BY <1>1 DEF WorkerEnds, WorkerCancels, runConst
<1>10. ASSUME progress = "run", fatal = "none", ~external
       PROVE  ~stopped' /\ \A i \in Lines : ~Holds(n, i)
  <2>1. ~stopped /\ crew[w].at # "cancel"
    BY <1>10 DEF LinesInv, Complete
  <2>2. WorkerEnds(w)
    BY <2>1 DEF WorkerCancels
  <2>3. \A i \in Lines : ~Holds(crew[w], i)
    BY <1>1, <1>6, <2>1 DEF WorkerInv
  <2> QED BY <1>5, <2>1, <2>2, <2>3 DEF WorkerEnds
<1> QED
  BY <1>1, <1>4, <1>5, <1>7, <1>8, <1>9, <1>10, CrewMoves

\* A step to another place in the same batch, with the same lines.
LEMMA PlaceKeeps ==
  ASSUME LinesInv, NEW w \in Workers, NEW a \in WorkerStates, NEW t \in 1..(MaxAttempts + 1),
         crew' = [crew EXCEPT ![w] = [crew[w] EXCEPT !.at = a, !.attempt = t]],
         crew[w].at \in {"loop", "chat", "backoff"}, a \in {"loop", "chat", "backoff", "store"},
         a = "chat" => crew[w].pending # {} /\ t <= MaxAttempts, a = "backoff" => t < MaxAttempts,
         UNCHANGED <<concurrency, revise, original, review, progress, external, feeder, text, failed, batches,
                     stopped, fatal, cache, spent>>
  PROVE  LinesInv'
<1>1. /\ crew[w] \in Worker /\ WorkerInv(crew[w])
      /\ cache \in [Keys -> Texts] /\ (\A k \in Keys : cache[k] \in {NoText, AnswerTo(k)}) /\ spent \in Nat
  BY WorkerIsOfRun
<1>2. PICK n : n = [crew[w] EXCEPT !.at = a, !.attempt = t]
  OBVIOUS
<1>3. n \in Worker /\ n.at = a /\ n.attempt = t /\ SameBatch(n, crew[w])
  BY <1>1, <1>2 DEF Worker, SameBatch
<1>4. (\A i \in Lines : Holds(n, i) <=> Holds(crew[w], i)) /\ Apart(n)
  BY <1>1, <1>3, SameBatchHolds DEF WorkerInv
<1>5. WorkerInv(n)
  BY <1>1, <1>3, <1>4 DEF WorkerInv, SameBatch
<1> QED
  BY <1>1, <1>2, <1>3, <1>4, <1>5, GoesOn

LEMMA AttemptKeeps ==
  ASSUME LinesInv, NEW w \in Workers, AttemptBegins(w)
  PROVE  LinesInv'
<1>1. crew[w] \in Worker /\ crew[w].at = "loop" /\ crew[w].attempt \in 1..(MaxAttempts + 1)
  BY WorkerIsOfRun DEF AttemptBegins, Worker
<1>2. UNCHANGED <<concurrency, revise, original, review, progress, external, feeder, text, failed, batches,
                  stopped, fatal, cache, spent>>
  BY DEF AttemptBegins, runConst
<1>3. \A a : [crew[w] EXCEPT !.at = a] = [crew[w] EXCEPT !.at = a, !.attempt = crew[w].attempt]
  BY <1>1 DEF Worker
<1>4. CASE crew[w].pending = {} \/ crew[w].attempt > MaxAttempts
  <2>1. crew' = [crew EXCEPT ![w] = [crew[w] EXCEPT !.at = "store"]]
    BY <1>4 DEF AttemptBegins
  <2>2. "store" \in WorkerStates
    BY DEF WorkerStates
  <2> QED BY <1>1, <1>2, <1>3, <2>1, <2>2, PlaceKeeps
<1>5. CASE ~(crew[w].pending = {} \/ crew[w].attempt > MaxAttempts) /\ stopped
  <2>1. crew' = [crew EXCEPT ![w] = Returned(crew[w], "request")]
    BY <1>5 DEF AttemptBegins
  <2> QED BY <1>1, <1>2, <2>1, ReturnedKeeps
<1>6. CASE ~(crew[w].pending = {} \/ crew[w].attempt > MaxAttempts) /\ ~stopped
  <2>1. crew' = [crew EXCEPT ![w] = [crew[w] EXCEPT !.at = "chat"]]
    BY <1>6 DEF AttemptBegins
  <2>2. "chat" \in WorkerStates /\ crew[w].attempt <= MaxAttempts
    BY <1>1, <1>6, TranslatorAssumption DEF WorkerStates
  <2> QED BY <1>1, <1>2, <1>3, <1>6, <2>1, <2>2, PlaceKeeps
<1> QED
  BY <1>4, <1>5, <1>6

LEMMA FailsKeeps ==
  ASSUME LinesInv, NEW w \in Workers, ChatFails(w) \/ BackoffEnds(w)
  PROVE  LinesInv'
<1>1. /\ crew[w] \in Worker /\ crew[w].at \in {"chat", "backoff"} /\ crew[w].attempt \in 1..(MaxAttempts + 1)
      /\ (crew[w].at = "backoff" => crew[w].attempt < MaxAttempts)
  BY WorkerIsOfRun DEF ChatFails, BackoffEnds, Worker, WorkerInv
<1>2. UNCHANGED <<concurrency, revise, original, review, progress, external, feeder, text, failed, batches,
                  stopped, fatal, cache, spent>>
  BY DEF ChatFails, BackoffEnds, runConst
<1>3. CASE crew' = [crew EXCEPT ![w] = Returned(crew[w], "request")]
  BY <1>1, <1>2, <1>3, ReturnedKeeps
<1>4. CASE crew[w].attempt < MaxAttempts /\ crew' = [crew EXCEPT ![w] = [crew[w] EXCEPT !.at = "backoff"]]
  <2>1. [crew[w] EXCEPT !.at = "backoff"] = [crew[w] EXCEPT !.at = "backoff", !.attempt = crew[w].attempt]
    BY <1>1 DEF Worker
  <2>2. "backoff" \in WorkerStates
    BY DEF WorkerStates
  <2> QED BY <1>1, <1>2, <1>4, <2>1, <2>2, PlaceKeeps
<1>5. CASE /\ crew[w].at = "backoff"
           /\ crew' = [crew EXCEPT ![w] = [crew[w] EXCEPT !.at = "loop", !.attempt = crew[w].attempt + 1]]
  <2>1. "loop" \in WorkerStates /\ crew[w].attempt + 1 \in 1..(MaxAttempts + 1)
    BY <1>1, <1>5, TranslatorAssumption DEF WorkerStates
  <2> QED BY <1>1, <1>2, <1>5, <2>1, PlaceKeeps
<1>6. CASE ChatFails(w)
  BY <1>3, <1>4, <1>6 DEF ChatFails
<1>7. CASE BackoffEnds(w)
  <2>1. CASE stopped
    BY <1>3, <1>7, <2>1 DEF BackoffEnds
  <2>2. CASE ~stopped
    <3>1. crew[w].at = "backoff" /\ crew' = [crew EXCEPT ![w] = Retried(crew[w])]
      BY <1>7, <2>2 DEF BackoffEnds
    <3>2. Retried(crew[w]) = [crew[w] EXCEPT !.at = "loop", !.attempt = crew[w].attempt + 1]
      BY DEF Retried
    <3> QED BY <1>5, <3>1, <3>2
  <2> QED BY <2>1, <2>2
<1> QED
  BY <1>6, <1>7

LEMMA RepliesKeeps ==
  ASSUME LinesInv, NEW w \in Workers, ChatReplies(w)
  PROVE  LinesInv'
<1>1. /\ crew[w] \in Worker /\ WorkerInv(crew[w]) /\ crew[w].at = "chat"
      /\ cache \in [Keys -> Texts] /\ (\A k \in Keys : cache[k] \in {NoText, AnswerTo(k)}) /\ spent \in Nat
  BY WorkerIsOfRun DEF ChatReplies
<1>2. PICK usable \in SUBSET crew[w].pending : crew' = [crew EXCEPT ![w] = Replied(crew[w], usable)]
  BY DEF ChatReplies, Usable
<1>3. PICK n : n = Replied(crew[w], usable)
  OBVIOUS
<1>4. crew[w].attempt <= MaxAttempts
  BY <1>1 DEF WorkerInv
<1>5. /\ n \in Worker /\ n.at = "loop"
      /\ n.pending = crew[w].pending \ usable /\ n.got = crew[w].got \cup usable /\ n.all = crew[w].all \cup usable
      /\ n.missing = crew[w].missing /\ n.parts = crew[w].parts /\ n.depth = crew[w].depth /\ n.err = crew[w].err
  BY <1>1, <1>3, <1>4, RepliedIs
<1>6. \A i \in Lines : Holds(n, i) <=> Holds(crew[w], i)
  BY <1>5 DEF Holds
<1>7. Apart(n)
  <2>1. Apart(crew[w])
    BY <1>1 DEF WorkerInv
  <2> QED BY <1>5, <2>1 DEF Apart
<1>8. WorkerInv(n)
  BY <1>1, <1>5, <1>7 DEF WorkerInv
<1>9. /\ UNCHANGED <<concurrency, revise, original, review, progress, external, feeder, text, failed, batches,
                      stopped, fatal, cache>>
      /\ spent' \in Nat
  BY <1>1 DEF ChatReplies, runConst
<1> QED
  BY <1>1, <1>2, <1>3, <1>5, <1>6, <1>8, <1>9, GoesOn

LEMMA TruncatedKeeps ==
  ASSUME LinesInv, NEW w \in Workers, ChatTruncated(w)
  PROVE  LinesInv'
<1>1. /\ crew[w] \in Worker /\ WorkerInv(crew[w]) /\ crew[w].at = "chat"
      /\ cache \in [Keys -> Texts] /\ (\A k \in Keys : cache[k] \in {NoText, AnswerTo(k)}) /\ spent \in Nat
  BY WorkerIsOfRun DEF ChatTruncated
<1>2. UNCHANGED <<concurrency, revise, original, review, progress, external, feeder, text, failed, batches,
                  stopped, fatal, cache, spent>>
  BY DEF ChatTruncated, runConst
<1>3. CASE crew' = [crew EXCEPT ![w] = Returned(crew[w], "request")]
  BY <1>1, <1>2, <1>3, ReturnedKeeps
<1>4. ASSUME crew[w].depth < MaxSplitDepth, NEW low \in SUBSET crew[w].pending,
             crew' = [crew EXCEPT ![w] = Split(crew[w], low)]
      PROVE  LinesInv'
  <2>1. PICK n : n = Split(crew[w], low)
    OBVIOUS
  <2>2. PICK e : e = crew[w].depth + 1
    OBVIOUS
  <2>3. /\ n \in Worker /\ n.at = "loop" /\ n.pending = low /\ n.depth = e
        /\ n.got = {} /\ n.all = crew[w].all /\ n.missing = crew[w].missing
        /\ n.err = crew[w].err /\ e \in Depths /\ n.parts[e] = crew[w].pending \ low
        /\ \A d \in Depths : d # e => n.parts[d] = crew[w].parts[d]
    BY <1>1, <1>4, <2>1, <2>2, SplitIs
  <2>4. crew[w].parts[e] = {} /\ \A d \in Depths : d > e => crew[w].parts[d] = {}
    <3>1. \A d \in Depths : d > crew[w].depth => crew[w].parts[d] = {}
      BY <1>1 DEF WorkerInv
    <3>2. crew[w].depth \in Int /\ e > crew[w].depth /\ \A d \in Depths : d > e => d > crew[w].depth
      BY <1>1, <2>2, DepthsAre DEF Worker
    <3> QED BY <2>3, <3>1, <3>2
  <2>5. \A i \in Lines : Holds(n, i) <=> Holds(crew[w], i)
    <3> SUFFICES ASSUME NEW i \in Lines PROVE Holds(n, i) <=> Holds(crew[w], i)
      OBVIOUS
    <3>1. (\E d \in Depths : i \in n.parts[d]) <=> (i \in crew[w].pending \ low \/ \E d \in Depths : i \in crew[w].parts[d])
      BY <2>3, <2>4
    <3> QED BY <2>3, <3>1 DEF Holds
  <2>6. Apart(n)
    <3>1. Apart(crew[w])
      BY <1>1 DEF WorkerInv
    <3> SUFFICES ASSUME NEW i \in Lines
                 PROVE  /\ i \in n.pending => i \notin n.all /\ i \notin n.missing
                        /\ i \in n.all => i \notin n.missing
                        /\ \A d \in Depths : i \in n.parts[d] =>
                             /\ i \notin n.pending /\ i \notin n.all /\ i \notin n.missing
                             /\ \A f \in Depths : i \in n.parts[f] => f = d
      BY DEF Apart
    <3>2. i \in n.pending => i \in crew[w].pending
      BY <2>3
    <3>3. \A d \in Depths : i \in n.parts[d] =>
            (d = e /\ i \in crew[w].pending /\ i \notin low) \/ (d # e /\ i \in crew[w].parts[d])
      BY <2>3
    <3> QED BY <2>3, <3>1, <3>2, <3>3 DEF Apart
  <2>7. \A d \in Depths : d > n.depth => n.parts[d] = {}
    BY <2>3, <2>4, DepthsAre
  <2>8. WorkerInv(n)
    BY <1>1, <2>3, <2>6, <2>7 DEF WorkerInv
  <2> QED BY <1>1, <1>2, <1>4, <2>1, <2>3, <2>5, <2>8, GoesOn
<1> QED
  BY <1>3, <1>4 DEF ChatTruncated, FirstHalves

\* Cache.Put keeps answers under their own keys.
LEMMA StoredIs ==
  ASSUME LinesInv, NEW L \in SUBSET Lines
  PROVE  Stored(L) \in [Keys -> Texts] /\ \A k \in Keys : Stored(L)[k] \in {NoText, AnswerTo(k)}
<1>1. \A k \in Keys : cache[k] \in {NoText, AnswerTo(k)}
  BY DEF LinesInv, AnswersStayWithTheirRequest
<1>2. ASSUME NEW k \in Keys, \E i \in L : KeyOf(i) = k
      PROVE  Answer(CHOOSE i \in L : KeyOf(i) = k) = AnswerTo(k)
  BY <1>2 DEF Answer
<1>3. \A k \in Keys : Stored(L)[k] \in {NoText, AnswerTo(k)}
  BY <1>1, <1>2 DEF Stored
<1>4. \A k \in Keys : {NoText, AnswerTo(k)} \subseteq Texts
  BY DEF Texts
<1>5. Stored(L) = [k \in Keys |-> Stored(L)[k]]
  BY DEF Stored
<1> QED
  BY <1>3, <1>4, <1>5

LEMMA StoresKeeps ==
  ASSUME LinesInv, NEW w \in Workers, BatchStores(w)
  PROVE  LinesInv'
<1>1. /\ crew[w] \in Worker /\ WorkerInv(crew[w]) /\ crew[w].at = "store"
      /\ cache \in [Keys -> Texts] /\ (\A k \in Keys : cache[k] \in {NoText, AnswerTo(k)}) /\ spent \in Nat
  BY WorkerIsOfRun DEF BatchStores
<1>2. UNCHANGED <<concurrency, revise, original, review, progress, external, feeder, text, failed, batches,
                  stopped, fatal, spent>>
  BY DEF BatchStores, runConst
<1>3. cache' \in [Keys -> Texts] /\ \A k \in Keys : cache'[k] \in {NoText, AnswerTo(k)}
  <2>1. crew[w].got \in SUBSET Lines
    BY <1>1 DEF Worker
  <2>2. cache' = cache \/ cache' = Stored(crew[w].got)
    BY DEF BatchStores
  <2> QED BY <1>1, <2>1, <2>2, StoredIs
<1>4. PICK n : n = NextPart(crew[w])
  OBVIOUS
<1>5. crew' = [crew EXCEPT ![w] = n]
  BY <1>4 DEF BatchStores
<1>6. /\ n \in Worker /\ n.all = crew[w].all /\ n.missing = crew[w].missing \cup crew[w].pending /\ n.err = crew[w].err
      /\ Waiting(crew[w]) = {} =>
           n.at = "report" /\ n.pending = {} /\ n.parts = crew[w].parts /\ n.got = crew[w].got /\ n.depth = crew[w].depth
      /\ Waiting(crew[w]) # {} => \E d \in Depths :
           /\ crew[w].parts[d] # {} /\ n.at = "loop" /\ n.pending = crew[w].parts[d] /\ n.depth = d
           /\ n.attempt = 1 /\ n.got = {} /\ n.parts[d] = {}
           /\ \A e \in Depths : (e # d => n.parts[e] = crew[w].parts[e]) /\ (e > d => crew[w].parts[e] = {})
  BY <1>1, <1>4, NextPartIs
<1>7. Apart(crew[w]) /\ crew[w].err = "none" /\ crew[w].got \subseteq crew[w].all
  BY <1>1 DEF WorkerInv
<1>8. CASE Waiting(crew[w]) = {}
  <2>1. \A i \in Lines : Holds(n, i) <=> Holds(crew[w], i)
    BY <1>6, <1>8 DEF Holds
  <2>2. Apart(n)
    BY <1>6, <1>7, <1>8 DEF Apart
  <2>3. \A d \in Depths : n.parts[d] = {}
    BY <1>6, <1>8 DEF Waiting, Depths
  <2>4. WorkerInv(n)
    BY <1>6, <1>7, <1>8, <2>2, <2>3 DEF WorkerInv
  <2> QED BY <1>1, <1>2, <1>3, <1>5, <1>6, <1>8, <2>1, <2>4, GoesOn
<1>9. CASE Waiting(crew[w]) # {}
  <2>1. PICK d \in Depths :
           /\ n.at = "loop" /\ n.pending = crew[w].parts[d] /\ n.depth = d /\ n.got = {} /\ n.parts[d] = {}
           /\ \A e \in Depths : (e # d => n.parts[e] = crew[w].parts[e]) /\ (e > d => crew[w].parts[e] = {})
    BY <1>6, <1>9
  <2>2. \A i \in Lines : Holds(n, i) <=> Holds(crew[w], i)
    <3> SUFFICES ASSUME NEW i \in Lines PROVE Holds(n, i) <=> Holds(crew[w], i)
      OBVIOUS
    <3>1. (i \in n.pending \/ \E e \in Depths : i \in n.parts[e]) <=> \E e \in Depths : i \in crew[w].parts[e]
      BY <2>1
    <3> QED BY <1>6, <3>1 DEF Holds
  <2>3. Apart(n)
    <3> SUFFICES ASSUME NEW i \in Lines
                 PROVE  /\ i \in n.pending => i \notin n.all /\ i \notin n.missing
                        /\ i \in n.all => i \notin n.missing
                        /\ \A e \in Depths : i \in n.parts[e] =>
                             /\ i \notin n.pending /\ i \notin n.all /\ i \notin n.missing
                             /\ \A f \in Depths : i \in n.parts[f] => f = e
      BY DEF Apart
    <3>1. \A e \in Depths : i \in n.parts[e] => e # d /\ i \in crew[w].parts[e]
      BY <2>1
    <3>2. \A e \in Depths : i \in crew[w].parts[e] =>
            /\ i \notin n.all /\ i \notin n.missing
            /\ \A f \in Depths : i \in crew[w].parts[f] => f = e
      BY <1>6, <1>7 DEF Apart
    <3>3. i \in n.all => i \notin n.missing
      BY <1>6, <1>7 DEF Apart
    <3> QED BY <2>1, <3>1, <3>2, <3>3
  <2>4. \A e \in Depths : e > n.depth => n.parts[e] = {}
    BY <2>1, DepthsAre
  <2>5. WorkerInv(n)
    BY <1>6, <1>7, <2>1, <2>3, <2>4 DEF WorkerInv
  <2> QED BY <1>1, <1>2, <1>3, <1>5, <1>6, <2>1, <2>2, <2>5, GoesOn
<1> QED
  BY <1>8, <1>9

\* A report settles every line of a batch that ended without an error.
LEMMA ReportsKeeps ==
  ASSUME LinesInv, NEW w \in Workers, WorkerReports(w)
  PROVE  LinesInv'
<1>1. /\ crew[w] \in Worker /\ WorkerInv(crew[w]) /\ crew[w].at = "report" /\ progress \notin {"plan", "ok"}
      /\ fatal \in {"none", "budget", "request"}
  BY WorkerIsOfRun DEF WorkerReports
<1>2. /\ UNCHANGED <<concurrency, revise, original, review, progress, external, feeder, batches, stopped, cache, spent>>
      /\ failed' = failed \cup crew[w].missing
      /\ fatal' = IF fatal = "none" THEN crew[w].err ELSE fatal
      /\ text' = [i \in Lines |-> IF i \in crew[w].all THEN Answer(i) ELSE text[i]]
  BY DEF WorkerReports, runConst
<1>3. PICK n \in Worker : /\ crew' = [crew EXCEPT ![w] = n] /\ n.at \in {"receive", "cancel"}
                          /\ n.at = "cancel" => crew[w].err # "none"
                          /\ WorkerInv(n) /\ \A i : ~Holds(n, i)
  <2>1. CASE crew[w].err = "none"
    <3>1. crew' = [crew EXCEPT ![w] = Idle]
      BY <2>1 DEF WorkerReports
    <3> QED BY <3>1, IdleIs, IdleHoldsNothing
  <2>2. CASE crew[w].err # "none"
    <3>1. PICK n : n = [Idle EXCEPT !.at = "cancel"]
      OBVIOUS
    <3>2. "cancel" \in WorkerStates
      BY DEF WorkerStates
    <3>3. n \in Worker /\ n.at = "cancel" /\ SameBatch(n, Idle)
      BY <3>1, <3>2, IdleIs, AtChanges
    <3>4. Apart(n) /\ \A i : ~Holds(n, i)
      BY <3>3, IdleHoldsNothing, SameBatchHolds DEF WorkerInv
    <3>5. WorkerInv(n)
      BY <3>3, <3>4, IdleIs DEF WorkerInv, SameBatch
    <3>6. crew' = [crew EXCEPT ![w] = n]
      BY <2>2, <3>1 DEF WorkerReports
    <3> QED BY <2>2, <3>3, <3>4, <3>5, <3>6
  <2> QED BY <2>1, <2>2
<1>4. crew'[w] = n /\ crew' \in [Workers -> Worker] /\ \A v \in Workers : v # w => crew'[v] = crew[v]
  BY <1>3 DEF LinesInv, TranslatorTypeOK
<1>5. Planned' = Planned /\ Planned \subseteq Lines /\ \A i \in Lines : Answer(i)' = Answer(i)
  BY <1>2, RunIsFixed DEF Planned
<1>6. crew[w].all \subseteq Lines /\ crew[w].missing \subseteq Lines /\ crew[w].err \in {"none", "request"}
  BY <1>1 DEF Worker
<1>7. TranslatorTypeOK'
  <2>1. text' \in [Lines -> Texts]
    BY <1>2, AnswerIs DEF LinesInv, TranslatorTypeOK
  <2>2. failed' \subseteq Lines
    BY <1>2, <1>6 DEF LinesInv, TranslatorTypeOK
  <2>3. fatal' \in {"none", "budget", "request"}
    BY <1>1, <1>2, <1>6
  <2> QED BY <1>2, <1>4, <2>1, <2>2, <2>3 DEF LinesInv, TranslatorTypeOK
<1>8. AnswersStayWithTheirRequest'
  BY <1>2, <1>5 DEF LinesInv, AnswersStayWithTheirRequest
<1>9. \A v \in Workers : WorkerInv(crew'[v])
  BY <1>3, <1>4 DEF LinesInv
<1>10. \A b \in batches : b \subseteq Lines
  BY DEF LinesInv, TranslatorTypeOK
<1>11. OneOwner'
  BY <1>2, <1>3, <1>4 DEF LinesInv, OneOwner
<1>12. \A i \in Lines : Open(i)' => Open(i) /\ ~Holds(crew[w], i)
  <2> SUFFICES ASSUME NEW i \in Lines, Open(i)' PROVE Open(i) /\ ~Holds(crew[w], i)
    OBVIOUS
  <2>1. CASE \E b \in batches : i \in b
    BY <2>1 DEF Open, LinesInv, OneOwner
  <2>2. CASE \E v \in Workers : Holds(crew'[v], i)
    <3>1. PICK v \in Workers : Holds(crew'[v], i)
      BY <2>2
    <3>2. v # w /\ Holds(crew[v], i)
      BY <1>3, <1>4, <3>1
    <3> QED BY <3>2 DEF Open, LinesInv, OneOwner
  <2> QED BY <1>2, <2>1, <2>2 DEF Open
<1>13. \A i \in Lines : Holds(crew[w], i) => Open(i)
  BY DEF Open
<1>14. \A i \in Lines : /\ i \in crew[w].all => text'[i] = Answer(i)
                        /\ i \notin crew[w].all => text'[i] = text[i]
  BY <1>2
<1>15. OpenLines'
  <2> SUFFICES ASSUME NEW i \in Lines, Open(i)'
               PROVE  i \in Planned /\ text'[i] = original[i] /\ i \notin failed'
    BY <1>2, <1>5 DEF OpenLines
  <2>1. Open(i) /\ i \notin crew[w].all /\ i \notin crew[w].missing
    BY <1>12 DEF Holds
  <2>2. i \in Planned /\ text[i] = original[i] /\ i \notin failed
    BY <2>1 DEF LinesInv, OpenLines
  <2> QED BY <1>2, <1>14, <2>1, <2>2
<1>16. FailedLines'
  <2> SUFFICES ASSUME NEW i \in failed' PROVE text'[i] = original[i]
    BY <1>2 DEF FailedLines
  <2>1. i \in Lines
    BY <1>7 DEF TranslatorTypeOK
  <2>2. CASE i \in crew[w].missing
    <3>1. Holds(crew[w], i) /\ i \notin crew[w].all
      BY <1>1, <2>1, <2>2 DEF Holds, WorkerInv, Apart
    <3> QED BY <1>13, <1>14, <2>1, <3>1 DEF LinesInv, OpenLines
  <2>3. CASE i \in failed
    <3>1. ~Open(i) /\ text[i] = original[i]
      BY <2>1, <2>3 DEF LinesInv, OpenLines, FailedLines
    <3>2. i \notin crew[w].all
      BY <1>13, <2>1, <3>1 DEF Holds
    <3> QED BY <1>14, <2>1, <3>1, <3>2
  <2> QED BY <1>2, <2>2, <2>3
<1>17. Complete'
  <2> SUFFICES ASSUME progress = "run", fatal' = "none", ~external PROVE Complete'
    BY <1>1, <1>2 DEF Complete
  <2>1. fatal = "none" /\ crew[w].err = "none" /\ n.at = "receive"
    BY <1>2, <1>3
  <2>2. Complete
    BY DEF LinesInv
  <2>3. \A i \in Lines : Holds(crew[w], i) => i \in crew[w].all \/ i \in crew[w].missing
    BY <1>1, <2>1 DEF WorkerInv, Holds
  <2>4. ASSUME NEW i \in Planned PROVE text'[i] = Answer(i) \/ i \in failed' \/ Open(i)'
    <3>1. i \in Lines /\ (text[i] = Answer(i) \/ i \in failed \/ Open(i))
      BY <1>5, <2>1, <2>2 DEF Complete
    <3>2. CASE Holds(crew[w], i)
      BY <1>2, <1>14, <2>3, <3>1, <3>2
    <3>3. CASE ~Holds(crew[w], i)
      <4>1. i \notin crew[w].all
        BY <3>3 DEF Holds
      <4>2. CASE Open(i)
        <5>1. (\E b \in batches : i \in b) \/ \E v \in Workers : v # w /\ Holds(crew[v], i)
          BY <3>3, <4>2 DEF Open
        <5>2. CASE \E b \in batches : i \in b
          BY <1>2, <5>2 DEF Open
        <5>3. CASE \E v \in Workers : v # w /\ Holds(crew[v], i)
          BY <1>4, <5>3 DEF Open
        <5> QED BY <5>1, <5>2, <5>3
      <4> QED BY <1>2, <1>14, <3>1, <4>1, <4>2
    <3> QED BY <3>2, <3>3
  <2>5. \A v \in Workers : /\ crew'[v].at # "cancel"
                           /\ crew'[v].at = "gone" => \A i \in Lines : ~Holds(crew'[v], i)
    BY <1>4, <2>1, <2>2 DEF Complete
  <2>6. ~stopped /\ (feeder = "closed" => batches = {})
    BY <2>1, <2>2 DEF Complete
  <2> QED BY <1>2, <1>5, <2>4, <2>5, <2>6 DEF Complete
<1>18. Ended' /\ Marked' /\ Untouched'
  BY <1>1, <1>2 DEF LinesInv, Ended, Marked, Untouched
<1> QED
  BY <1>7, <1>8, <1>9, <1>11, <1>15, <1>16, <1>17, <1>18 DEF LinesInv

-----------------------------------------------------------------------------
(* The steps of the feeder and of the run itself. *)

LEMMA SendsKeeps ==
  ASSUME LinesInv, NEW w \in Workers, FeederSends(w)
  PROVE  LinesInv'
<1>1. /\ UNCHANGED <<concurrency, revise, original, review, progress, external, text, cache, stopped, fatal, failed, spent>>
      /\ progress = "run" /\ feeder = "send" /\ feeder' = "check" /\ crew[w].at = "receive"
  BY DEF FeederSends, runConst
<1>2. PICK b \in batches : /\ crew' = [crew EXCEPT ![w] = [Idle EXCEPT !.at = "taken", !.pending = b]]
                           /\ batches' = batches \ {b}
  BY DEF FeederSends
<1>3. PICK n : n = [Idle EXCEPT !.at = "taken", !.pending = b]
  OBVIOUS
<1>4. b \in SUBSET Lines /\ "taken" \in WorkerStates
  BY DEF LinesInv, TranslatorTypeOK, WorkerStates
<1>5. /\ n \in Worker /\ n.at = "taken" /\ n.pending = b /\ n.parts = NoParts /\ n.all = {} /\ n.missing = {}
      /\ n.got = {} /\ n.err = "none"
  BY <1>3, <1>4, IdleIs DEF Worker
<1>6. \A i : Holds(n, i) <=> i \in b
  BY <1>5, IdleIs DEF Holds
<1>7. WorkerInv(n)
  BY <1>5, IdleIs DEF WorkerInv, Apart
<1>8. crew'[w] = n /\ crew' \in [Workers -> Worker] /\ \A v \in Workers : v # w => crew'[v] = crew[v]
  BY <1>2, <1>3, <1>5 DEF LinesInv, TranslatorTypeOK
<1>9. \A i \in Lines : ~Holds(crew[w], i)
  BY <1>1 DEF LinesInv, WorkerInv
<1>10. \A i \in Lines : Open(i)' <=> Open(i)
  <2> SUFFICES ASSUME NEW i \in Lines PROVE Open(i)' <=> Open(i)
    OBVIOUS
  <2>1. (\E v \in Workers : Holds(crew'[v], i)) <=> (i \in b \/ \E v \in Workers : Holds(crew[v], i))
    BY <1>6, <1>8, <1>9
  <2>2. (\E o \in batches : i \in o) <=> (i \in b \/ \E o \in batches' : i \in o)
    BY <1>2
  <2> QED BY <2>1, <2>2 DEF Open
<1>11. Planned' = Planned /\ Planned \subseteq Lines /\ \A i \in Lines : Answer(i)' = Answer(i)
  BY <1>1, RunIsFixed DEF Planned
<1>12. TranslatorTypeOK'
  <2>1. batches' \subseteq SUBSET Lines
    BY <1>2 DEF LinesInv, TranslatorTypeOK
  <2> QED BY <1>1, <1>8, <2>1 DEF LinesInv, TranslatorTypeOK
<1>13. AnswersStayWithTheirRequest'
  BY <1>1, <1>11 DEF LinesInv, AnswersStayWithTheirRequest
<1>14. \A v \in Workers : WorkerInv(crew'[v])
  BY <1>7, <1>8 DEF LinesInv
<1>15. OneOwner'
  <2>1. /\ \A c, o \in batches : \A i \in c : i \in o => c = o
        /\ \A c \in batches : \A v \in Workers : \A i \in c : ~Holds(crew[v], i)
        /\ \A u, v \in Workers : \A i \in Lines : Holds(crew[u], i) /\ Holds(crew[v], i) => u = v
    BY DEF LinesInv, OneOwner
  <2>2. \A c, o \in batches' : \A i \in c : i \in o => c = o
    BY <1>2, <2>1
  <2>3. \A c \in batches' : \A v \in Workers : \A i \in c : ~Holds(crew'[v], i)
    BY <1>2, <1>6, <1>8, <2>1
  <2>4. \A u, v \in Workers : \A i \in Lines : Holds(crew'[u], i) /\ Holds(crew'[v], i) => u = v
    BY <1>6, <1>8, <2>1
  <2> QED BY <2>2, <2>3, <2>4 DEF OneOwner
<1>16. OpenLines' /\ FailedLines'
  BY <1>1, <1>10, <1>11 DEF LinesInv, OpenLines, FailedLines
<1>17. Complete'
  <2> SUFFICES ASSUME fatal = "none", ~external PROVE Complete'
    BY <1>1 DEF Complete
  <2>1. Complete
    BY DEF LinesInv
  <2>2. \A v \in Workers : /\ crew'[v].at # "cancel"
                           /\ crew'[v].at = "gone" => \A i \in Lines : ~Holds(crew'[v], i)
    BY <1>1, <1>5, <1>8, <2>1 DEF Complete
  <2>3. ~stopped /\ \A i \in Planned : text[i] = Answer(i) \/ i \in failed \/ Open(i)
    BY <1>1, <2>1 DEF Complete
  <2> QED BY <1>1, <1>10, <1>11, <2>2, <2>3 DEF Complete
<1>18. Ended' /\ Marked' /\ Untouched'
  BY <1>1 DEF LinesInv, Ended, Marked, Untouched
<1> QED
  BY <1>12, <1>13, <1>14, <1>15, <1>16, <1>17, <1>18 DEF LinesInv

\* The feeder drops a batch only when the run was stopped.
LEMMA FeederStopsKeeps ==
  ASSUME LinesInv, FeederStops
  PROVE  LinesInv'
<1>1. /\ UNCHANGED <<concurrency, revise, original, review, progress, external, text, cache, crew, stopped, fatal, failed, spent>>
      /\ progress = "run"
  BY DEF FeederStops, runConst
<1>2. /\ batches' \subseteq batches /\ feeder' \in {"send", "check", "closed"}
      /\ ~stopped => batches' = batches
      /\ feeder' = "closed" /\ ~stopped => batches = {}
  BY DEF FeederStops
<1>3. \A i \in Lines : Open(i)' => Open(i)
  BY <1>1, <1>2 DEF Open
<1>4. Planned' = Planned /\ Planned \subseteq Lines /\ \A i \in Lines : Answer(i)' = Answer(i)
  BY <1>1, RunIsFixed DEF Planned
<1>5. TranslatorTypeOK'
  <2>1. batches' \subseteq SUBSET Lines
    BY <1>2 DEF LinesInv, TranslatorTypeOK
  <2> QED BY <1>1, <1>2, <2>1 DEF LinesInv, TranslatorTypeOK
<1>6. AnswersStayWithTheirRequest'
  BY <1>1, <1>4 DEF LinesInv, AnswersStayWithTheirRequest
<1>7. (\A v \in Workers : WorkerInv(crew'[v])) /\ OneOwner'
  BY <1>1, <1>2 DEF LinesInv, OneOwner
<1>8. OpenLines' /\ FailedLines'
  BY <1>1, <1>3, <1>4 DEF LinesInv, OpenLines, FailedLines
<1>9. Complete'
  <2> SUFFICES ASSUME fatal = "none", ~external PROVE Complete'
    BY <1>1 DEF Complete
  <2>1. Complete /\ ~stopped
    BY <1>1 DEF LinesInv, Complete
  <2>2. batches' = batches
    BY <1>2, <2>1
  <2>3. \A i \in Planned : text[i] = Answer(i) \/ i \in failed \/ Open(i)'
    BY <1>1, <2>1, <2>2 DEF Complete, Open
  <2>4. \A w \in Workers : /\ crew[w].at # "cancel"
                           /\ crew[w].at = "gone" => \A i \in Lines : ~Holds(crew[w], i)
    BY <1>1, <2>1 DEF Complete
  <2> QED BY <1>1, <1>2, <1>4, <2>1, <2>2, <2>3, <2>4 DEF Complete
<1>10. Ended' /\ Marked' /\ Untouched'
  BY <1>1 DEF LinesInv, Ended, Marked, Untouched
<1> QED
  BY <1>5, <1>6, <1>7, <1>8, <1>9, <1>10 DEF LinesInv

\* Planning answers the lines the cache has and puts the others in batches.
LEMMA PlanKeeps ==
  ASSUME LinesInv, Plan
  PROVE  LinesInv'
<1>1. /\ UNCHANGED <<concurrency, revise, original, review, cache, feeder, stopped, external, fatal, failed, spent>>
      /\ progress = "plan" /\ text = original /\ failed = {} /\ feeder = "send" /\ fatal = "none"
      /\ ~external /\ ~stopped
  BY DEF Plan, LinesInv, Untouched
<1>2. PICK hits : hits = Cached(Planned)
  OBVIOUS
<1>3. PICK P : P = Planned \ hits
  OBVIOUS
<1>4. PICK groups : groups = Grouped(P)
  OBVIOUS
<1>5. /\ text' = [i \in Lines |-> IF i \in hits THEN cache[KeyOf(i)] ELSE text[i]]
      /\ batches' = groups
      /\ progress' = IF groups = {} THEN "ok" ELSE "run"
      /\ crew' = [w \in Workers |->
                    [Idle EXCEPT !.at = IF w <= concurrency /\ w <= Cardinality(groups) THEN "receive" ELSE "gone"]]
  BY <1>2, <1>3, <1>4 DEF Plan
<1>6. Planned \subseteq Lines /\ P \in SUBSET Lines /\ hits \subseteq Planned /\ hits \subseteq Lines
  BY <1>2, <1>3 DEF Planned, Cached
<1>7. /\ \A b \in groups : b \subseteq P
      /\ \A i \in P : \E b \in groups : i \in b
      /\ \A b, o \in groups : \A i \in b : i \in o => b = o
  BY <1>4, <1>6, GroupsPartition
<1>8. ASSUME NEW w \in Workers
      PROVE  /\ crew'[w] \in Worker /\ crew'[w].at \in {"receive", "gone"} /\ SameBatch(crew'[w], Idle)
             /\ groups = {} => crew'[w].at = "gone"
  <2>1. PICK a : a = IF w <= concurrency /\ w <= Cardinality(groups) THEN "receive" ELSE "gone"
    OBVIOUS
  <2>2. a \in WorkerStates /\ a \in {"receive", "gone"}
    BY <2>1 DEF WorkerStates
  <2>3. crew'[w] = [Idle EXCEPT !.at = a]
    BY <1>5, <2>1
  <2>4. groups = {} => a = "gone"
    <3>1. Cardinality({}) = 0 /\ w \in Nat /\ w >= 1
      BY FS_EmptySet DEF Workers
    <3> QED BY <2>1, <3>1
  <2> QED BY <2>2, <2>3, <2>4, IdleIs, AtChanges
<1>9. \A w \in Workers : WorkerInv(crew'[w]) /\ \A i : ~Holds(crew'[w], i)
  <2> SUFFICES ASSUME NEW w \in Workers PROVE WorkerInv(crew'[w]) /\ \A i : ~Holds(crew'[w], i)
    OBVIOUS
  <2>1. Apart(crew'[w]) /\ \A i : ~Holds(crew'[w], i)
    BY <1>8, IdleHoldsNothing, SameBatchHolds DEF WorkerInv
  <2> QED BY <1>8, <2>1, IdleIs DEF WorkerInv, SameBatch
<1>10. Planned' = Planned /\ \A i \in Lines : Answer(i)' = Answer(i)
  BY <1>1, RunIsFixed
<1>11. ASSUME NEW i \in hits PROVE cache[KeyOf(i)] = Answer(i)
  <2>1. cache[KeyOf(i)] # NoText
    BY <1>2 DEF Cached
  <2>2. KeyOf(i) \in Keys /\ Answer(i) = AnswerTo(KeyOf(i))
    BY <1>6, AnswerIs DEF LinesInv
  <2> QED BY <2>1, <2>2 DEF LinesInv, AnswersStayWithTheirRequest
<1>12. \A i \in Lines : /\ i \in hits => text'[i] = Answer(i)
                        /\ i \notin hits => text'[i] = original[i]
  BY <1>1, <1>5, <1>11
<1>13. TranslatorTypeOK'
  <2>1. text' \in [Lines -> Texts]
    <3>1. \A i \in Lines : text'[i] \in Texts
      <4>1. \A i \in Lines : Answer(i) \in Texts /\ text[i] \in Texts
        BY AnswerIs DEF LinesInv, TranslatorTypeOK
      <4> QED BY <1>1, <1>12, <4>1
    <3> QED BY <1>5, <3>1
  <2>2. crew' \in [Workers -> Worker]
    BY <1>5, <1>8
  <2>3. batches' \subseteq SUBSET Lines
    BY <1>5, <1>6, <1>7
  <2>4. progress' \in {"plan", "run", "ok", "error"}
    BY <1>5
  <2> QED BY <1>1, <2>1, <2>2, <2>3, <2>4 DEF LinesInv, TranslatorTypeOK
<1>14. AnswersStayWithTheirRequest'
  BY <1>1, <1>10, <1>12 DEF LinesInv, AnswersStayWithTheirRequest
<1>15. \A i \in Lines : Open(i)' <=> i \in P
  BY <1>5, <1>7, <1>9 DEF Open
<1>16. OneOwner'
  BY <1>5, <1>7, <1>9 DEF OneOwner
<1>17. OpenLines' /\ FailedLines'
  BY <1>1, <1>3, <1>10, <1>12, <1>15 DEF OpenLines, FailedLines
<1>18. Complete'
  <2>1. \A i \in Planned : text'[i] = Answer(i) \/ Open(i)'
    BY <1>3, <1>6, <1>12, <1>15
  <2>2. \A w \in Workers : crew'[w].at # "cancel"
    BY <1>8
  <2> QED BY <1>1, <1>6, <1>9, <1>10, <2>1, <2>2 DEF Complete
<1>19. Ended'
  BY <1>1, <1>5, <1>8 DEF Ended
<1>20. Marked'
  BY <1>1 DEF LinesInv, Marked
<1>21. Untouched'
  BY <1>5 DEF Untouched
<1> QED
  BY <1>9, <1>13, <1>14, <1>16, <1>17, <1>18, <1>19, <1>20, <1>21 DEF LinesInv

LEMMA RunKeeps ==
  ASSUME LinesInv, PlanFails \/ ParentCancels \/ RunReturns \/ Prune \/ UNCHANGED trVars
  PROVE  LinesInv'
<1>1. UNCHANGED <<concurrency, revise, original, text, batches, feeder, crew, fatal, failed, spent>>
  BY DEF PlanFails, ParentCancels, RunReturns, Prune, trVars, runVars
<1>2. /\ stopped' \in BOOLEAN /\ external' \in BOOLEAN /\ progress' \in {"plan", "run", "ok", "error"}
      /\ review' \subseteq Lines /\ review \subseteq review' /\ cache' \in [Keys -> Texts]
      /\ \A k \in Keys : cache'[k] \in {NoText, AnswerTo(k)}
  <2>1. /\ TranslatorTypeOK /\ \A k \in Keys : cache[k] \in {NoText, AnswerTo(k)}
    BY DEF LinesInv, AnswersStayWithTheirRequest
  <2>2. CASE Prune
    <3>1. PICK k \in Keys : cache' = [cache EXCEPT ![k] = NoText]
      BY <2>2 DEF Prune
    <3>2. NoText \in Texts
      BY DEF Texts
    <3> QED BY <2>1, <2>2, <3>1, <3>2 DEF Prune, runVars, TranslatorTypeOK
  <2>3. CASE RunReturns
    BY <2>1, <2>3 DEF RunReturns, runVars, TranslatorTypeOK
  <2>4. CASE PlanFails \/ ParentCancels \/ UNCHANGED trVars
    BY <2>1, <2>4 DEF PlanFails, ParentCancels, trVars, runVars, TranslatorTypeOK
  <2> QED BY <2>2, <2>3, <2>4
<1>3. Planned' = Planned /\ \A i \in Lines : Answer(i)' = Answer(i)
  BY <1>1, RunIsFixed
<1>4. TranslatorTypeOK' /\ AnswersStayWithTheirRequest'
  BY <1>1, <1>2, <1>3 DEF LinesInv, TranslatorTypeOK, AnswersStayWithTheirRequest
<1>5. /\ \A w \in Workers : WorkerInv(crew'[w])
      /\ OneOwner' /\ \A i \in Lines : Open(i)' <=> Open(i)
  BY <1>1 DEF LinesInv, OneOwner, Open
<1>6. OpenLines' /\ FailedLines'
  BY <1>1, <1>3, <1>5 DEF LinesInv, OpenLines, FailedLines
<1>7. CASE PlanFails
  <2>1. progress' = "error" /\ UNCHANGED review
    BY <1>7 DEF PlanFails
  <2>2. Complete' /\ Ended' /\ Marked' /\ Untouched'
    BY <1>1, <2>1 DEF LinesInv, Complete, Ended, Marked, Untouched
  <2> QED BY <1>4, <1>5, <1>6, <2>2 DEF LinesInv
<1>8. CASE ParentCancels
  <2>1. progress' = "run" /\ external' = TRUE /\ UNCHANGED review
    BY <1>8 DEF ParentCancels
  <2>2. Complete' /\ Ended' /\ Marked' /\ Untouched'
    BY <1>1, <2>1 DEF LinesInv, Complete, Ended, Marked, Untouched
  <2> QED BY <1>4, <1>5, <1>6, <2>2 DEF LinesInv
<1>9. CASE RunReturns
  <2>1. /\ progress = "run" /\ feeder = "closed" /\ \A w \in Workers : crew[w].at = "gone"
        /\ progress' = IF fatal = "none" THEN "ok" ELSE "error"
        /\ review' = IF fatal = "none" /\ ~revise THEN review \cup failed ELSE review
        /\ UNCHANGED <<stopped, external>>
    BY <1>9 DEF RunReturns, runVars
  <2>2. Complete'
    <3> SUFFICES ASSUME fatal = "none", ~external PROVE Complete'
      BY <1>1, <2>1 DEF Complete
    <3>1. /\ ~stopped
          /\ \A i \in Planned : text[i] = Answer(i) \/ i \in failed \/ Open(i)
          /\ \A w \in Workers : /\ crew[w].at # "cancel"
                                /\ crew[w].at = "gone" => \A i \in Lines : ~Holds(crew[w], i)
          /\ feeder = "closed" => batches = {}
      BY <2>1 DEF LinesInv, Complete
    <3>2. \A i \in Planned : i \in Lines
      BY DEF Planned
    <3> QED BY <1>1, <1>3, <1>5, <2>1, <3>1, <3>2 DEF Complete
  <2>3. Ended'
    <3>1. fatal = "none" /\ ~external => batches = {}
      BY <2>1 DEF LinesInv, Complete
    <3> QED BY <1>1, <2>1, <3>1 DEF Ended
  <2>4. Marked'
    <3>1. /\ revise => \A i \in Lines : original[i] = NoText => i \in review
          /\ ~revise => \A i \in Lines : original[i] = NoText
      BY DEF LinesInv, Marked
    <3> QED BY <1>1, <1>2, <2>1, <3>1 DEF Marked
  <2>5. Untouched'
    BY <2>1 DEF Untouched
  <2> QED BY <1>4, <1>5, <1>6, <2>2, <2>3, <2>4, <2>5 DEF LinesInv
<1>10. CASE Prune \/ UNCHANGED trVars
  <2>1. UNCHANGED <<stopped, external, progress, review>>
    BY <1>10 DEF Prune, trVars, runVars
  <2>2. \A i \in Planned : i \in Lines
    BY DEF Planned
  <2>3. Complete'
    BY <1>1, <1>3, <1>5, <2>1, <2>2 DEF LinesInv, Complete
  <2>4. Ended' /\ Marked' /\ Untouched'
    BY <1>1, <2>1 DEF LinesInv, Ended, Marked, Untouched
  <2> QED BY <1>4, <1>5, <1>6, <2>3, <2>4 DEF LinesInv
<1> QED
  BY <1>7, <1>8, <1>9, <1>10

LEMMA LinesStep == LinesInv /\ [TranslatorNext]_trVars => LinesInv'
<1> SUFFICES ASSUME LinesInv, [TranslatorNext]_trVars PROVE LinesInv'
  OBVIOUS
<1>1. CASE Plan
  BY <1>1, PlanKeeps
<1>2. CASE PlanFails \/ ParentCancels \/ RunReturns \/ Prune \/ UNCHANGED trVars
  BY <1>2, RunKeeps
<1>3. CASE FeederStep
  BY <1>3, SendsKeeps, FeederStopsKeeps DEF FeederStep
<1>4. ASSUME NEW w \in Workers, WorkerStep(w) PROVE LinesInv'
  BY <1>4, BeginsKeeps, AttemptKeeps, RepliesKeeps, TruncatedKeeps, FailsKeeps, StoresKeeps, ReportsKeeps,
     EndsKeeps DEF WorkerStep
<1> QED
  BY <1>1, <1>2, <1>3, <1>4 DEF TranslatorNext

\* A run that succeeds has every planned line's own answer or gives the line
\* up with the text it came with, and no line without a text is unmarked.
LEMMA LinesConclude == LinesInv => LinesGetTheirAnswers
<1> SUFFICES ASSUME LinesInv PROVE LinesGetTheirAnswers
  OBVIOUS
<1> SUFFICES ASSUME progress = "ok", ~external PROVE
      /\ \A i \in Planned : (text[i] = Answer(i)) # (i \in failed)
      /\ \A i \in Lines : SourceOf[i] # "" /\ text[i] = NoText => i \in review
  BY DEF LinesInv, LinesGetTheirAnswers, EveryLineIsAccountedFor
<1>1. /\ fatal = "none" /\ batches = {} /\ \A w \in Workers : crew[w].at = "gone"
  BY DEF LinesInv, Ended
<1>2. /\ \A i \in Planned : text[i] = Answer(i) \/ i \in failed \/ Open(i)
      /\ \A w \in Workers : \A i \in Lines : ~Holds(crew[w], i)
  BY <1>1 DEF LinesInv, Complete
<1>3. \A i \in Lines : ~Open(i)
  BY <1>1, <1>2 DEF Open
<1>4. \A i \in Lines : Answer(i) # original[i] /\ Answer(i) # NoText /\ text[i] \in {original[i], Answer(i)}
  BY AnswerIs DEF LinesInv, AnswersStayWithTheirRequest
<1>5. Planned \subseteq Lines
  BY DEF Planned
<1>6. \A i \in failed : text[i] = original[i]
  BY DEF LinesInv, FailedLines
<1>7. ASSUME NEW i \in Planned PROVE (text[i] = Answer(i)) # (i \in failed)
  <2>1. text[i] = Answer(i) \/ i \in failed
    BY <1>2, <1>3, <1>5
  <2>2. ~(text[i] = Answer(i) /\ i \in failed)
    BY <1>4, <1>5, <1>6
  <2> QED BY <2>1, <2>2
<1>8. ASSUME NEW i \in Lines, SourceOf[i] # "", text[i] = NoText PROVE i \in review
  <2>1. original[i] = NoText
    BY <1>4, <1>8
  <2>2. CASE revise
    BY <2>1, <2>2 DEF LinesInv, Marked
  <2>3. CASE ~revise
    <3>1. i \in Planned
      BY <1>8, <2>1 DEF Planned
    <3>2. i \in failed
      BY <1>2, <1>3, <1>4, <1>8, <3>1
    <3> QED BY <2>3, <3>2 DEF LinesInv, Marked
  <2> QED BY <2>2, <2>3
<1> QED
  BY <1>7, <1>8

\* However the workers, the cache, retries, splits and failures interleave, a
\* run of Translate that succeeds accounts for every line exactly once, and no
\* text or cache row is the answer to another request.
THEOREM LinesGetAnswers == TranslatorSpec => []LinesGetTheirAnswers
<1>1. LinesInv => LinesGetTheirAnswers
  BY LinesConclude
<1> QED
  BY <1>1, LinesBegin, LinesStep, PTL DEF TranslatorSpec

\* Every variable of a pass of the translator has its type.
THEOREM TranslatorTypeCorrect == TranslatorSpec => []TranslatorTypeOK
<1>1. LinesInv => TranslatorTypeOK
  BY DEF LinesInv
<1> QED
  BY <1>1, LinesBegin, LinesStep, PTL DEF TranslatorSpec

-----------------------------------------------------------------------------
(* How many replies the batch of a worker can still be charged for. *)

LEMMA Halves ==
  ASSUME NEW n \in Nat
  PROVE  /\ n \div 2 \in Nat /\ n - (n \div 2) \in Nat
         /\ n > 1 => n \div 2 >= 1 /\ n - (n \div 2) >= 1
         /\ \A m \in Nat : m <= n => m \div 2 <= n \div 2 /\ m - (m \div 2) <= n - (n \div 2)
OBVIOUS

Growing(f) == \A m, n \in Nat : m <= n => f[m] <= f[n]

\* Halving keeps the number of replies growing with the number of lines.
LEMMA HalvingGrows ==
  ASSUME NEW r \in [Nat -> Nat], Growing(r), r[1] = MaxAttempts, NEW h,
         h = [n \in Nat |-> IF n <= 1 THEN Unsplit(n)
                            ELSE MaxAttempts - 1 + r[n \div 2] + r[n - (n \div 2)]]
  PROVE  h \in [Nat -> Nat] /\ Growing(h) /\ h[0] = 0 /\ h[1] = MaxAttempts
<1>1. MaxAttempts \in Nat /\ MaxAttempts >= 1
  BY TranslatorAssumption
<1>2. h[0] = 0 /\ h[1] = MaxAttempts
  BY <1>1 DEF Unsplit
<1>3. ASSUME NEW n \in Nat, n > 1
      PROVE  /\ h[n] = MaxAttempts - 1 + r[n \div 2] + r[n - (n \div 2)]
             /\ r[n \div 2] \in Nat /\ r[n - (n \div 2)] \in Nat /\ h[n] \in Nat /\ h[n] >= MaxAttempts
  <2>1. n \div 2 \in Nat /\ n - (n \div 2) \in Nat /\ n \div 2 >= 1 /\ n - (n \div 2) >= 1
    BY <1>3, Halves
  <2>2. r[n \div 2] \in Nat /\ r[n - (n \div 2)] \in Nat /\ r[n \div 2] >= 1
    BY <1>1, <2>1 DEF Growing
  <2>3. h[n] = MaxAttempts - 1 + r[n \div 2] + r[n - (n \div 2)]
    BY <1>3
  <2> QED BY <1>1, <2>2, <2>3
<1>4. \A n \in Nat : n = 0 \/ n = 1 \/ n > 1
  OBVIOUS
<1>5. h \in [Nat -> Nat]
  <2>1. ASSUME NEW n \in Nat PROVE h[n] \in Nat
    <3>1. CASE n = 0
      BY <1>2, <3>1
    <3>2. CASE n = 1
      BY <1>1, <1>2, <3>2
    <3>3. CASE n > 1
      BY <1>3, <3>3
    <3> QED BY <1>4, <3>1, <3>2, <3>3
  <2> QED BY <2>1
<1>6. ASSUME NEW m \in Nat, NEW n \in Nat, m <= n PROVE h[m] <= h[n]
  <2>1. CASE m > 1
    <3>1. n > 1
      BY <1>6, <2>1
    <3>2. r[m \div 2] <= r[n \div 2] /\ r[m - (m \div 2)] <= r[n - (n \div 2)]
      BY <1>6, Halves DEF Growing
    <3>3. /\ h[m] = MaxAttempts - 1 + r[m \div 2] + r[m - (m \div 2)]
          /\ h[n] = MaxAttempts - 1 + r[n \div 2] + r[n - (n \div 2)]
          /\ r[m \div 2] \in Nat /\ r[m - (m \div 2)] \in Nat /\ r[n \div 2] \in Nat /\ r[n - (n \div 2)] \in Nat
      BY <1>3, <2>1, <3>1
    <3> QED BY <1>1, <3>2, <3>3
  <2>2. CASE m = 1
    <3>1. n = 1 \/ n > 1
      BY <1>6, <2>2
    <3>2. h[m] = MaxAttempts /\ h[1] = MaxAttempts
      BY <1>2, <2>2
    <3>3. CASE n = 1
      BY <1>1, <3>2, <3>3
    <3>4. CASE n > 1
      BY <1>3, <3>2, <3>4
    <3> QED BY <3>1, <3>3, <3>4
  <2>3. CASE m = 0
    <3>1. h[m] = 0 /\ h[n] \in Nat
      BY <1>2, <1>5, <2>3
    <3> QED BY <3>1
  <2> QED BY <1>4, <2>1, <2>2, <2>3
<1> QED
  BY <1>2, <1>5, <1>6 DEF Growing

\* What a part of n lines at depth d costs at worst.
RepliesAt(d, n) ==
  IF d = 0 THEN WorstReplies(n) ELSE IF d = 1 THEN RepliesAt1(n)
  ELSE IF d = 2 THEN RepliesAt2(n) ELSE Unsplit(n)

LEMMA RepliesAre ==
  ASSUME NEW d \in 0..MaxSplitDepth
  PROVE  /\ \A n \in Nat : RepliesAt(d, n) \in Nat
         /\ \A m, n \in Nat : m <= n => RepliesAt(d, m) <= RepliesAt(d, n)
         /\ RepliesAt(d, 0) = 0 /\ RepliesAt(d, 1) = MaxAttempts
         /\ d < MaxSplitDepth => \A n \in Nat : n > 1 =>
              RepliesAt(d, n) = MaxAttempts - 1 + RepliesAt(d + 1, n \div 2) + RepliesAt(d + 1, n - (n \div 2))
<1>1. MaxAttempts \in Nat /\ MaxAttempts >= 1
  BY TranslatorAssumption
<1>2. PICK f3 : f3 = [n \in Nat |-> Unsplit(n)]
  OBVIOUS
<1>3. PICK f2 : f2 = [n \in Nat |-> RepliesAt2(n)]
  OBVIOUS
<1>4. PICK f1 : f1 = [n \in Nat |-> RepliesAt1(n)]
  OBVIOUS
<1>5. PICK f0 : f0 = [n \in Nat |-> WorstReplies(n)]
  OBVIOUS
<1>6. f3 \in [Nat -> Nat] /\ Growing(f3) /\ f3[0] = 0 /\ f3[1] = MaxAttempts
  <2>1. \A n \in Nat : f3[n] = IF n = 0 THEN 0 ELSE MaxAttempts
    BY <1>2 DEF Unsplit
  <2>2. f3 \in [Nat -> Nat]
    BY <1>1, <1>2 DEF Unsplit
  <2> QED BY <1>1, <2>1, <2>2 DEF Growing
<1>7. \A n \in Nat : n \div 2 \in Nat /\ n - (n \div 2) \in Nat
  BY Halves
<1>8. f2 = [n \in Nat |-> IF n <= 1 THEN Unsplit(n) ELSE MaxAttempts - 1 + f3[n \div 2] + f3[n - (n \div 2)]]
  BY <1>2, <1>3, <1>7 DEF RepliesAt2, Halved
<1>9. f2 \in [Nat -> Nat] /\ Growing(f2) /\ f2[0] = 0 /\ f2[1] = MaxAttempts
  BY <1>6, <1>8, HalvingGrows
<1>10. f1 = [n \in Nat |-> IF n <= 1 THEN Unsplit(n) ELSE MaxAttempts - 1 + f2[n \div 2] + f2[n - (n \div 2)]]
  BY <1>3, <1>4, <1>7 DEF RepliesAt1, Halved
<1>11. f1 \in [Nat -> Nat] /\ Growing(f1) /\ f1[0] = 0 /\ f1[1] = MaxAttempts
  BY <1>9, <1>10, HalvingGrows
<1>12. f0 = [n \in Nat |-> IF n <= 1 THEN Unsplit(n) ELSE MaxAttempts - 1 + f1[n \div 2] + f1[n - (n \div 2)]]
  BY <1>4, <1>5, <1>7 DEF WorstReplies, Halved
<1>13. f0 \in [Nat -> Nat] /\ Growing(f0) /\ f0[0] = 0 /\ f0[1] = MaxAttempts
  BY <1>11, <1>12, HalvingGrows
<1>14. \A n \in Nat : /\ RepliesAt(0, n) = f0[n] /\ RepliesAt(1, n) = f1[n]
                      /\ RepliesAt(2, n) = f2[n] /\ RepliesAt(3, n) = f3[n]
  BY <1>2, <1>3, <1>4, <1>5 DEF RepliesAt
<1>15. d = 0 \/ d = 1 \/ d = 2 \/ d = 3
  BY DepthsAre
<1>16. 0 \in Nat /\ 1 \in Nat
  OBVIOUS
<1>17. CASE d = 0
  <2>1. \A n \in Nat : n > 1 => f0[n] = MaxAttempts - 1 + f1[n \div 2] + f1[n - (n \div 2)]
    BY <1>12
  <2> QED BY <1>7, <1>13, <1>14, <1>16, <1>17, <2>1 DEF Growing
<1>18. CASE d = 1
  <2>1. \A n \in Nat : n > 1 => f1[n] = MaxAttempts - 1 + f2[n \div 2] + f2[n - (n \div 2)]
    BY <1>10
  <2> QED BY <1>7, <1>11, <1>14, <1>16, <1>18, <2>1 DEF Growing
<1>19. CASE d = 2
  <2>1. \A n \in Nat : n > 1 => f2[n] = MaxAttempts - 1 + f3[n \div 2] + f3[n - (n \div 2)]
    BY <1>8
  <2> QED BY <1>7, <1>9, <1>14, <1>16, <1>19, <2>1 DEF Growing
<1>20. CASE d = 3
  BY <1>6, <1>14, <1>16, <1>20, DepthsAre DEF Growing
<1> QED
  BY <1>15, <1>17, <1>18, <1>19, <1>20

\* What is left of it when attempt a begins.
Asked(n, d, a) ==
  IF n = 0 \/ a > MaxAttempts THEN 0
  ELSE IF n = 1 \/ d = MaxSplitDepth THEN MaxAttempts - a + 1
  ELSE MaxAttempts - a + RepliesAt(d + 1, n \div 2) + RepliesAt(d + 1, n - (n \div 2))

LEMMA AskedIs ==
  ASSUME NEW n \in Nat, NEW d \in 0..MaxSplitDepth, NEW a \in 1..(MaxAttempts + 1)
  PROVE  /\ Asked(n, d, a) \in Nat
         /\ Asked(n, d, 1) = RepliesAt(d, n)
         /\ a <= MaxAttempts /\ n > 0 => \A m \in Nat : m <= n => Asked(m, d, a + 1) + 1 <= Asked(n, d, a)
         /\ a <= MaxAttempts /\ n > 1 /\ d < MaxSplitDepth =>
              RepliesAt(d + 1, n \div 2) + RepliesAt(d + 1, n - (n \div 2)) <= Asked(n, d, a)
<1>1. MaxAttempts \in Nat /\ MaxAttempts >= 1 /\ a \in Nat /\ a >= 1 /\ d \in Nat /\ d <= MaxSplitDepth
      /\ (d # MaxSplitDepth => d < MaxSplitDepth /\ d + 1 \in 0..MaxSplitDepth)
  BY TranslatorAssumption, DepthsAre
<1>2. ASSUME d < MaxSplitDepth, NEW m \in Nat, m > 1
      PROVE  /\ RepliesAt(d + 1, m \div 2) \in Nat /\ RepliesAt(d + 1, m - (m \div 2)) \in Nat
             /\ RepliesAt(d + 1, m \div 2) >= 1 /\ RepliesAt(d + 1, m - (m \div 2)) >= 1
  <2>1. m \div 2 \in Nat /\ m - (m \div 2) \in Nat /\ m \div 2 >= 1 /\ m - (m \div 2) >= 1
    BY <1>2, Halves
  <2>2. d + 1 \in 0..MaxSplitDepth
    BY <1>1, <1>2
  <2>3. RepliesAt(d + 1, 1) = MaxAttempts /\ 1 \in Nat
    BY <2>2, RepliesAre
  <2> QED BY <1>1, <2>1, <2>2, <2>3, RepliesAre
<1>3. ASSUME NEW m \in Nat, NEW b \in 1..(MaxAttempts + 1)
      PROVE  /\ m = 0 \/ b > MaxAttempts => Asked(m, d, b) = 0
             /\ m > 0 /\ b <= MaxAttempts /\ (m = 1 \/ d = MaxSplitDepth) => Asked(m, d, b) = MaxAttempts - b + 1
             /\ m > 1 /\ b <= MaxAttempts /\ d # MaxSplitDepth =>
                  Asked(m, d, b) = MaxAttempts - b + RepliesAt(d + 1, m \div 2) + RepliesAt(d + 1, m - (m \div 2))
  BY <1>1 DEF Asked
<1>4. Asked(n, d, a) \in Nat
  <2>1. CASE n = 0 \/ a > MaxAttempts
    BY <1>3, <2>1
  <2>2. CASE n > 0 /\ a <= MaxAttempts /\ (n = 1 \/ d = MaxSplitDepth)
    BY <1>1, <1>3, <2>2
  <2>3. CASE n > 1 /\ a <= MaxAttempts /\ d # MaxSplitDepth
    <3>1. Asked(n, d, a) = MaxAttempts - a + RepliesAt(d + 1, n \div 2) + RepliesAt(d + 1, n - (n \div 2))
      BY <1>3, <2>3
    <3>2. RepliesAt(d + 1, n \div 2) \in Nat /\ RepliesAt(d + 1, n - (n \div 2)) \in Nat
      BY <1>1, <1>2, <2>3
    <3>3. MaxAttempts - a \in Nat
      BY <1>1, <2>3
    <3> QED BY <3>1, <3>2, <3>3
  <2> QED BY <1>1, <2>1, <2>2, <2>3
<1>5. Asked(n, d, 1) = RepliesAt(d, n)
  <2>1. CASE n = 0
    BY <2>1, RepliesAre DEF Asked
  <2>2. CASE n = 1
    BY <1>1, <2>2, RepliesAre DEF Asked
  <2>3. CASE n > 1 /\ d = MaxSplitDepth
    BY <1>1, <2>3, DepthsAre DEF Asked, RepliesAt, Unsplit
  <2>4. CASE n > 1 /\ d # MaxSplitDepth
    <3>1. RepliesAt(d, n) = MaxAttempts - 1 + RepliesAt(d + 1, n \div 2) + RepliesAt(d + 1, n - (n \div 2))
      BY <1>1, <2>4, RepliesAre
    <3>2. 1 \in 1..(MaxAttempts + 1) /\ 1 <= MaxAttempts
      BY <1>1
    <3>3. Asked(n, d, 1) = MaxAttempts - 1 + RepliesAt(d + 1, n \div 2) + RepliesAt(d + 1, n - (n \div 2))
      BY <1>3, <2>4, <3>2
    <3> QED BY <3>1, <3>3
  <2> QED BY <2>1, <2>2, <2>3, <2>4
<1>6. ASSUME a <= MaxAttempts, n > 0, NEW m \in Nat, m <= n PROVE Asked(m, d, a + 1) + 1 <= Asked(n, d, a)
  <2>1. a + 1 \in 1..(MaxAttempts + 1)
    BY <1>1, <1>6
  <2>2. CASE n = 1 \/ d = MaxSplitDepth
    <3>1. Asked(n, d, a) = MaxAttempts - a + 1
      BY <1>3, <1>6, <2>2
    <3>2. CASE m = 0 \/ a + 1 > MaxAttempts
      BY <1>1, <1>3, <1>6, <2>1, <3>1, <3>2
    <3>3. CASE m > 0 /\ a + 1 <= MaxAttempts
      <4>1. m = 1 \/ d = MaxSplitDepth
        BY <1>6, <2>2, <3>3
      <4>2. Asked(m, d, a + 1) = MaxAttempts - (a + 1) + 1
        BY <1>3, <2>1, <3>3, <4>1
      <4> QED BY <1>1, <3>1, <4>2
    <3> QED BY <1>1, <3>2, <3>3
  <2>3. CASE n > 1 /\ d # MaxSplitDepth
    <3>1. Asked(n, d, a) = MaxAttempts - a + RepliesAt(d + 1, n \div 2) + RepliesAt(d + 1, n - (n \div 2))
      BY <1>3, <1>6, <2>3
    <3>2. /\ RepliesAt(d + 1, n \div 2) \in Nat /\ RepliesAt(d + 1, n - (n \div 2)) \in Nat
          /\ RepliesAt(d + 1, n \div 2) >= 1 /\ RepliesAt(d + 1, n - (n \div 2)) >= 1
      BY <1>1, <1>2, <2>3
    <3>3. CASE m = 0 \/ a + 1 > MaxAttempts
      BY <1>1, <1>3, <1>6, <2>1, <3>1, <3>2, <3>3
    <3>4. CASE m = 1 /\ a + 1 <= MaxAttempts
      <4>1. Asked(m, d, a + 1) = MaxAttempts - (a + 1) + 1
        BY <1>3, <2>1, <3>4
      <4> QED BY <1>1, <3>1, <3>2, <4>1
    <3>5. CASE m > 1 /\ a + 1 <= MaxAttempts
      <4>1. Asked(m, d, a + 1) = MaxAttempts - (a + 1) + RepliesAt(d + 1, m \div 2) + RepliesAt(d + 1, m - (m \div 2))
        BY <1>3, <2>1, <2>3, <3>5
      <4>2. RepliesAt(d + 1, m \div 2) \in Nat /\ RepliesAt(d + 1, m - (m \div 2)) \in Nat
        BY <1>1, <1>2, <2>3, <3>5
      <4>3. /\ RepliesAt(d + 1, m \div 2) <= RepliesAt(d + 1, n \div 2)
            /\ RepliesAt(d + 1, m - (m \div 2)) <= RepliesAt(d + 1, n - (n \div 2))
        <5>1. /\ m \div 2 \in Nat /\ m - (m \div 2) \in Nat /\ n \div 2 \in Nat /\ n - (n \div 2) \in Nat
              /\ m \div 2 <= n \div 2 /\ m - (m \div 2) <= n - (n \div 2)
          BY <1>6, Halves
        <5>2. d + 1 \in 0..MaxSplitDepth
          BY <1>1, <2>3
        <5> QED BY <5>1, <5>2, RepliesAre
      <4> QED BY <1>1, <3>1, <3>2, <4>1, <4>2, <4>3
    <3> QED BY <1>1, <3>3, <3>4, <3>5
  <2> QED BY <1>6, <2>2, <2>3
<1>7. ASSUME a <= MaxAttempts, n > 1, d < MaxSplitDepth
      PROVE  RepliesAt(d + 1, n \div 2) + RepliesAt(d + 1, n - (n \div 2)) <= Asked(n, d, a)
  <2>1. Asked(n, d, a) = MaxAttempts - a + RepliesAt(d + 1, n \div 2) + RepliesAt(d + 1, n - (n \div 2))
    <3>1. d # MaxSplitDepth
      BY <1>7, DepthsAre
    <3> QED BY <1>3, <1>7, <3>1
  <2>2. RepliesAt(d + 1, n \div 2) \in Nat /\ RepliesAt(d + 1, n - (n \div 2)) \in Nat
    BY <1>2, <1>7
  <2>3. MaxAttempts - a \in Nat
    BY <1>1, <1>7
  <2> QED BY <2>1, <2>2, <2>3
<1> QED
  BY <1>4, <1>5, <1>6, <1>7

Size(S) == Cardinality(S)

\* What the second halves that wait will cost, and what is left of the batch.
Parked(c) == RepliesAt(1, Size(c.parts[1])) + RepliesAt(2, Size(c.parts[2])) + RepliesAt(3, Size(c.parts[3]))
Left(c) ==
  IF c.at \in {"loop", "chat", "backoff"} THEN Asked(Size(c.pending), c.depth, c.attempt) + Parked(c)
  ELSE IF c.at = "store" THEN Parked(c) ELSE 0

LEMMA PartsAre ==
  ASSUME NEW c \in Worker
  PROVE  /\ \A d \in Depths : RepliesAt(d, Size(c.parts[d])) \in Nat
         /\ Parked(c) \in Nat /\ Size(c.pending) \in Nat
         /\ c.depth \in 0..MaxSplitDepth /\ c.attempt \in 1..(MaxAttempts + 1)
         /\ Asked(Size(c.pending), c.depth, c.attempt) \in Nat /\ Left(c) \in Nat
<1>1. c.parts \in [Depths -> SUBSET Lines] /\ c.pending \in SUBSET Lines
      /\ c.depth \in 0..MaxSplitDepth /\ c.attempt \in 1..(MaxAttempts + 1)
  BY DEF Worker, Depths
<1>2. Size(c.pending) \in Nat /\ \A d \in Depths : Size(c.parts[d]) \in Nat
  BY <1>1, LinesAreFinite DEF Size
<1>3. \A d \in Depths : RepliesAt(d, Size(c.parts[d])) \in Nat
  <2>1. Depths \subseteq 0..MaxSplitDepth
    BY DepthsAre
  <2> QED BY <1>2, <2>1, RepliesAre
<1>4. 1 \in Depths /\ 2 \in Depths /\ 3 \in Depths
  BY DepthsAre
<1>5. /\ RepliesAt(1, Size(c.parts[1])) \in Nat /\ RepliesAt(2, Size(c.parts[2])) \in Nat
      /\ RepliesAt(3, Size(c.parts[3])) \in Nat
  BY <1>3, <1>4
<1>6. Parked(c) \in Nat
  BY <1>5 DEF Parked
<1>7. Asked(Size(c.pending), c.depth, c.attempt) \in Nat
  BY <1>1, <1>2, AskedIs
<1> QED
  BY <1>1, <1>2, <1>3, <1>6, <1>7 DEF Left

\* A second half that begins to wait adds its cost, one that ends takes it away.
LEMMA ParkedMoves ==
  ASSUME NEW c \in Worker, NEW n \in Worker, NEW d \in Depths, c.parts[d] = {},
         \A e \in Depths : e # d => n.parts[e] = c.parts[e]
  PROVE  Parked(n) = Parked(c) + RepliesAt(d, Size(n.parts[d]))
<1>1. Size({}) = 0
  BY FS_EmptySet DEF Size
<1>2. RepliesAt(d, Size(c.parts[d])) = 0
  BY <1>1, DepthsAre, RepliesAre
<1>3. /\ \A e \in Depths : RepliesAt(e, Size(c.parts[e])) \in Nat
      /\ \A e \in Depths : RepliesAt(e, Size(n.parts[e])) \in Nat
  BY PartsAre
<1>4. 1 \in Depths /\ 2 \in Depths /\ 3 \in Depths /\ (d = 1 \/ d = 2 \/ d = 3)
  BY DepthsAre
<1>5. /\ RepliesAt(1, Size(c.parts[1])) \in Nat /\ RepliesAt(2, Size(c.parts[2])) \in Nat
      /\ RepliesAt(3, Size(c.parts[3])) \in Nat
      /\ RepliesAt(1, Size(n.parts[1])) \in Nat /\ RepliesAt(2, Size(n.parts[2])) \in Nat
      /\ RepliesAt(3, Size(n.parts[3])) \in Nat
  BY <1>3, <1>4
<1>6. CASE d = 1
  <2>1. n.parts[2] = c.parts[2] /\ n.parts[3] = c.parts[3] /\ RepliesAt(1, Size(c.parts[1])) = 0
    BY <1>2, <1>4, <1>6
  <2> QED BY <1>5, <1>6, <2>1 DEF Parked
<1>7. CASE d = 2
  <2>1. n.parts[1] = c.parts[1] /\ n.parts[3] = c.parts[3] /\ RepliesAt(2, Size(c.parts[2])) = 0
    BY <1>2, <1>4, <1>7
  <2> QED BY <1>5, <1>7, <2>1 DEF Parked
<1>8. CASE d = 3
  <2>1. n.parts[1] = c.parts[1] /\ n.parts[2] = c.parts[2] /\ RepliesAt(3, Size(c.parts[3])) = 0
    BY <1>2, <1>4, <1>8
  <2> QED BY <1>5, <1>8, <2>1 DEF Parked
<1> QED
  BY <1>4, <1>6, <1>7, <1>8

LEMMA ParkedNothing ==
  ASSUME NEW c \in Worker, c.parts = NoParts
  PROVE  Parked(c) = 0
<1>1. Size({}) = 0
  BY FS_EmptySet DEF Size
<1>2. 1 \in Depths /\ 2 \in Depths /\ 3 \in Depths /\ Depths \subseteq 0..MaxSplitDepth
  BY DepthsAre
<1>3. c.parts[1] = {} /\ c.parts[2] = {} /\ c.parts[3] = {}
  BY <1>2, IdleIs
<1>4. RepliesAt(1, 0) = 0 /\ RepliesAt(2, 0) = 0 /\ RepliesAt(3, 0) = 0
  BY <1>2, RepliesAre
<1> QED
  BY <1>1, <1>3, <1>4 DEF Parked

\* A reply is one less that is left.
LEMMA RepliedLeft ==
  ASSUME NEW c \in Worker, c.at = "chat", c.attempt <= MaxAttempts, c.pending # {},
         NEW usable \in SUBSET c.pending
  PROVE  Left(Replied(c, usable)) + 1 <= Left(c)
<1>1. PICK n : n = Replied(c, usable)
  OBVIOUS
<1>2. /\ n \in Worker /\ n.at = "loop" /\ n.attempt = c.attempt + 1
      /\ n.pending = c.pending \ usable /\ n.parts = c.parts /\ n.depth = c.depth
  BY <1>1, RepliedIs
<1>3. c.pending \in SUBSET Lines
  BY DEF Worker
<1>4. IsFiniteSet(c.pending) /\ Size(c.pending) \in Nat
  BY <1>3, LinesAreFinite DEF Size
<1>5. Size(c.pending) > 0
  BY <1>4, FS_EmptySet DEF Size
<1>6. Size(n.pending) \in Nat /\ Size(n.pending) <= Size(c.pending)
  <2>1. n.pending \subseteq c.pending
    BY <1>2
  <2>2. Cardinality(n.pending) <= Cardinality(c.pending)
    BY <1>4, <2>1, FS_Subset
  <2> QED BY <1>2, <2>2, PartsAre DEF Size
<1>7. Asked(Size(n.pending), c.depth, c.attempt + 1) + 1 <= Asked(Size(c.pending), c.depth, c.attempt)
  BY <1>4, <1>5, <1>6, PartsAre, AskedIs
<1>8. /\ Asked(Size(c.pending), c.depth, c.attempt) \in Nat /\ Parked(c) \in Nat
      /\ Asked(Size(n.pending), n.depth, n.attempt) \in Nat /\ Parked(n) = Parked(c)
  BY <1>2, PartsAre DEF Parked
<1>9. /\ Left(c) = Asked(Size(c.pending), c.depth, c.attempt) + Parked(c)
      /\ Left(n) = Asked(Size(n.pending), c.depth, c.attempt + 1) + Parked(c)
  BY <1>2, <1>8 DEF Left
<1> QED
  BY <1>1, <1>2, <1>7, <1>8, <1>9

\* A split costs no more than the attempts of the part it halves.
LEMMA SplitLeft ==
  ASSUME NEW c \in Worker, c.at = "chat", c.attempt <= MaxAttempts, c.depth < MaxSplitDepth,
         Size(c.pending) > 1, NEW low \in SUBSET c.pending, Size(low) = Size(c.pending) \div 2,
         \A d \in Depths : d > c.depth => c.parts[d] = {}
  PROVE  Left(Split(c, low)) <= Left(c)
<1>1. PICK n : n = Split(c, low)
  OBVIOUS
<1>2. PICK e : e = c.depth + 1
  OBVIOUS
<1>3. /\ n \in Worker /\ n.at = "loop" /\ n.attempt = 1 /\ n.pending = low /\ n.depth = e
      /\ e \in Depths /\ n.parts[e] = c.pending \ low
      /\ \A d \in Depths : d # e => n.parts[d] = c.parts[d]
  BY <1>1, <1>2, SplitIs
<1>4. c.parts[e] = {} /\ e \in 0..MaxSplitDepth
  BY <1>2, <1>3, DepthsAre, PartsAre
<1>5. PICK k : k = Size(c.pending)
  OBVIOUS
<1>6. k \in Nat /\ Size(low) = k \div 2 /\ Size(c.pending \ low) = k - (k \div 2)
  <2>1. c.pending \in SUBSET Lines /\ low \in SUBSET Lines
    BY DEF Worker
  <2>2. IsFiniteSet(c.pending) /\ Cardinality(c.pending) \in Nat /\ Cardinality(low) \in Nat
        /\ Cardinality(c.pending \ low) \in Nat
    BY <2>1, LinesAreFinite
  <2>3. Cardinality(c.pending \ low) = Cardinality(c.pending) - Cardinality(c.pending \cap low)
    BY <2>2, FS_Difference
  <2>4. c.pending \cap low = low
    OBVIOUS
  <2> QED BY <1>5, <2>2, <2>3, <2>4 DEF Size
<1>7. RepliesAt(e, k \div 2) + RepliesAt(e, k - (k \div 2)) <= Asked(k, c.depth, c.attempt)
  BY <1>2, <1>5, <1>6, PartsAre, AskedIs
<1>8. k \div 2 \in Nat /\ k - (k \div 2) \in Nat
  BY <1>6, Halves
<1>9. RepliesAt(e, k \div 2) \in Nat /\ RepliesAt(e, k - (k \div 2)) \in Nat
  BY <1>4, <1>8, RepliesAre
<1>10. Parked(n) = Parked(c) + RepliesAt(e, k - (k \div 2))
  <2>1. Parked(n) = Parked(c) + RepliesAt(e, Size(n.parts[e]))
    <3>1. n \in Worker /\ e \in Depths /\ c.parts[e] = {} /\ \A d \in Depths : d # e => n.parts[d] = c.parts[d]
      BY <1>3, <1>4
    <3> QED BY ONLY c \in Worker, <3>1, ParkedMoves
  <2>2. Size(n.parts[e]) = k - (k \div 2)
    BY <1>3, <1>6
  <2> QED BY <2>1, <2>2
<1>11. Left(n) = RepliesAt(e, k \div 2) + Parked(n)
  <2>1. Asked(k \div 2, e, 1) = RepliesAt(e, k \div 2)
    <3>1. 1 \in 1..(MaxAttempts + 1)
      BY TranslatorAssumption
    <3> QED BY <1>4, <1>8, <3>1, AskedIs
  <2> QED BY <1>3, <1>6, <2>1 DEF Left
<1>12. Left(c) = Asked(k, c.depth, c.attempt) + Parked(c)
  BY <1>5 DEF Left
<1>13. Asked(k, c.depth, c.attempt) \in Nat /\ Parked(c) \in Nat
  BY <1>5, PartsAre
<1> QED
  BY <1>1, <1>7, <1>9, <1>10, <1>11, <1>12, <1>13

\* The next part begins with all its attempts, which were set aside for it.
LEMMA NextPartLeft ==
  ASSUME NEW c \in Worker, c.at = "store"
  PROVE  Left(NextPart(c)) <= Left(c)
<1>1. PICK n : n = NextPart(c)
  OBVIOUS
<1>2. Left(c) = Parked(c) /\ Parked(c) \in Nat
  BY PartsAre DEF Left
<1>3. CASE Waiting(c) = {}
  <2>1. n.at = "report"
    BY <1>1, <1>3, NextPartIs
  <2> QED BY <1>1, <1>2, <2>1 DEF Left
<1>4. CASE Waiting(c) # {}
  <2>1. PICK d \in Depths :
          /\ n.at = "loop" /\ n.pending = c.parts[d] /\ n.depth = d /\ n.attempt = 1 /\ n.parts[d] = {}
          /\ \A e \in Depths : e # d => n.parts[e] = c.parts[e]
    BY <1>1, <1>4, NextPartIs
  <2>2. n \in Worker
    BY <1>1, NextPartIs
  <2>3. Parked(c) = Parked(n) + RepliesAt(d, Size(c.parts[d]))
    BY <2>1, <2>2, ParkedMoves
  <2>4. Asked(Size(c.parts[d]), d, 1) = RepliesAt(d, Size(c.parts[d]))
    <3>1. 1 \in 1..(MaxAttempts + 1) /\ d \in 0..MaxSplitDepth
      BY TranslatorAssumption, DepthsAre
    <3>2. Size(c.parts[d]) \in Nat
      BY <2>1, <2>2, PartsAre
    <3> QED BY <3>1, <3>2, AskedIs
  <2>5. Left(n) = RepliesAt(d, Size(c.parts[d])) + Parked(n)
    BY <2>1, <2>4 DEF Left
  <2>6. RepliesAt(d, Size(c.parts[d])) \in Nat /\ Parked(n) \in Nat
    BY <2>2, PartsAre
  <2> QED BY <1>1, <1>2, <2>3, <2>5, <2>6
<1> QED
  BY <1>3, <1>4

-----------------------------------------------------------------------------
(* What is spent, and the replies that are still to be charged for. *)

Worst == WorstReplies(BatchSize)

Charges == {p \in Workers \X (1..Worst) : p[2] <= Left(crew[p[1]])}

Fresh(c) == Size(c.pending) <= BatchSize /\ c.depth = 0 /\ c.attempt = 1 /\ c.parts = NoParts

SpendInv ==
  /\ \A b \in batches : Size(b) <= BatchSize
  /\ \A w \in Workers :
       /\ crew[w].at = "taken" => Fresh(crew[w])
       /\ w > concurrency => crew[w].at = "gone" \/ (crew[w].at = "receive" /\ progress # "run")
       /\ Left(crew[w]) <= Worst
  /\ MaxTokensPerJob > 0 => spent + Cardinality(Charges) <= MaxTokensPerJob - 1 + concurrency * Worst

LEMMA WorstIs == Worst \in Nat /\ \A n \in Nat : n <= BatchSize => RepliesAt(0, n) \in Nat /\ RepliesAt(0, n) <= Worst
<1>1. Worst = RepliesAt(0, BatchSize) /\ BatchSize \in Nat /\ 0 \in 0..MaxSplitDepth
  BY TranslatorAssumption, DepthsAre DEF Worst, RepliesAt
<1> QED
  BY <1>1, RepliesAre

LEMMA PairsAreFinite ==
  ASSUME NEW n \in Nat, NEW T \in SUBSET ((1..n) \X (1..Worst))
  PROVE  IsFiniteSet(T) /\ Cardinality(T) \in Nat /\ Cardinality(T) <= n * Worst
<1>1. \A k \in Nat : IsFiniteSet(1..k) /\ Cardinality(1..k) = k
  <2> SUFFICES ASSUME NEW k \in Nat PROVE IsFiniteSet(1..k) /\ Cardinality(1..k) = k
    OBVIOUS
  <2>1. IsFiniteSet(1..k) /\ Cardinality(1..k) = IF 1 > k THEN 0 ELSE k - 1 + 1
    BY FS_Interval
  <2> QED BY <2>1
<1>2. IsFiniteSet((1..n) \X (1..Worst)) /\ Cardinality((1..n) \X (1..Worst)) = n * Worst
  <2>1. PICK R, S : R = 1..n /\ S = 1..Worst
    OBVIOUS
  <2>2. IsFiniteSet(R) /\ Cardinality(R) = n /\ IsFiniteSet(S) /\ Cardinality(S) = Worst
    BY <1>1, <2>1, WorstIs
  <2>3. IsFiniteSet(R \X S) /\ Cardinality(R \X S) = Cardinality(R) * Cardinality(S)
    BY <2>2, FS_Product
  <2> QED BY <2>1, <2>2, <2>3
<1> QED
  BY <1>2, FS_Subset, FS_CardinalityType

LEMMA ChargesAreFinite == IsFiniteSet(Charges) /\ Cardinality(Charges) \in Nat
<1>1. Charges \in SUBSET ((1..MaxConcurrency) \X (1..Worst)) /\ MaxConcurrency \in Nat
  BY TranslatorAssumption DEF Charges, Workers
<1> QED
  BY <1>1, PairsAreFinite

\* A worker that has a batch is one of the first ones.
LEMMA HasPlace ==
  ASSUME LinesInv, SpendInv, NEW w \in Workers,
         crew[w].at \notin {"receive", "gone"} \/ (crew[w].at = "receive" /\ progress = "run")
  PROVE  ~(w > concurrency)
BY DEF SpendInv

\* A step that leaves a worker no more to be charged for than it had, and one
\* less for a reply it is charged for.
LEMMA SpendMoves ==
  ASSUME LinesInv, SpendInv, NEW w \in Workers, NEW n \in Worker, crew' = [crew EXCEPT ![w] = n],
         UNCHANGED <<concurrency, progress>>, batches' \subseteq batches,
         n.at = "taken" => Fresh(n), w > concurrency => n.at = "gone", Left(n) <= Left(crew[w]),
         spent' = spent \/ (spent' = spent + 1 /\ Left(n) + 1 <= Left(crew[w]))
  PROVE  SpendInv'
<1>1. /\ crew \in [Workers -> Worker] /\ crew'[w] = n /\ \A v \in Workers : v # w => crew'[v] = crew[v]
      /\ spent \in Nat /\ concurrency \in Nat
  BY DEF LinesInv, TranslatorTypeOK, Workers
<1>2. Left(n) \in Nat /\ \A v \in Workers : Left(crew[v]) \in Nat /\ Left(crew[v]) <= Worst
  BY <1>1, PartsAre DEF SpendInv
<1>3. Worst \in Nat
  BY WorstIs
<1>4. \A v \in Workers : Left(crew'[v]) \in Nat /\ Left(crew'[v]) <= Left(crew[v])
  BY <1>1, <1>2
<1>5. \A b \in batches' : Size(b) <= BatchSize
  BY DEF SpendInv
<1>6. ASSUME NEW v \in Workers
      PROVE  /\ crew'[v].at = "taken" => Fresh(crew'[v])
             /\ v > concurrency => crew'[v].at = "gone" \/ (crew'[v].at = "receive" /\ progress # "run")
             /\ Left(crew'[v]) <= Worst
  <2>1. Left(crew'[v]) <= Worst
    BY <1>2, <1>3, <1>4
  <2> QED BY <1>1, <2>1 DEF SpendInv
<1>7. Charges' \subseteq Charges
  BY <1>2, <1>4 DEF Charges
<1>8. /\ IsFiniteSet(Charges) /\ Cardinality(Charges) \in Nat
      /\ Cardinality(Charges') \in Nat /\ Cardinality(Charges') <= Cardinality(Charges)
  BY <1>7, ChargesAreFinite, FS_Subset, FS_CardinalityType
<1>9. spent' + Cardinality(Charges') <= spent + Cardinality(Charges)
  <2>1. CASE spent' = spent
    BY <1>1, <1>8, <2>1
  <2>2. CASE spent' = spent + 1 /\ Left(n) + 1 <= Left(crew[w])
    <3>1. PICK x : x = <<w, Left(crew[w])>>
      OBVIOUS
    <3>2. x \in Charges
      <4>1. Left(crew[w]) \in 1..Worst
        BY <1>2, <1>3, <2>2
      <4> QED BY <1>2, <3>1, <4>1 DEF Charges
    <3>3. x \notin Charges'
      <4>1. ~(Left(crew[w]) <= Left(crew'[w]))
        BY <1>1, <1>2, <2>2
      <4> QED BY <3>1, <4>1 DEF Charges
    <3>4. Charges' \in SUBSET (Charges \ {x})
      BY <1>7, <3>3
    <3>5. IsFiniteSet(Charges \ {x}) /\ Cardinality(Charges \ {x}) = Cardinality(Charges) - 1
      BY <1>8, <3>2, FS_RemoveElement
    <3>6. Cardinality(Charges') <= Cardinality(Charges) - 1
      BY <3>4, <3>5, FS_Subset
    <3> QED BY <1>1, <1>8, <2>2, <3>6
  <2> QED BY <2>1, <2>2
<1>10. spent' \in Nat
  BY <1>1
<1>11. MaxTokensPerJob > 0 =>
         spent' + Cardinality(Charges') <= MaxTokensPerJob - 1 + concurrency * Worst
  <2>1. concurrency * Worst \in Nat /\ MaxTokensPerJob \in Nat
    BY <1>1, <1>3, TranslatorAssumption
  <2>2. MaxTokensPerJob > 0 => spent + Cardinality(Charges) <= MaxTokensPerJob - 1 + concurrency * Worst
    BY DEF SpendInv
  <2> QED BY <1>1, <1>8, <1>9, <1>10, <2>1, <2>2
<1> QED
  BY <1>5, <1>6, <1>11 DEF SpendInv

\* A worker without a batch has nothing to be charged for.
LEMMA NothingLeft ==
  ASSUME NEW c, c.at \notin {"loop", "chat", "backoff", "store"}
  PROVE  Left(c) = 0
BY DEF Left

LEMMA SpendBegin == TranslatorInit => SpendInv
<1> SUFFICES ASSUME TranslatorInit PROVE SpendInv
  OBVIOUS
<1>1. batches = {} /\ progress = "plan" /\ spent = 0 /\ \A w \in Workers : crew[w] = Idle
  BY DEF TranslatorInit
<1>2. Worst \in Nat /\ concurrency \in Nat
  BY WorstIs DEF TranslatorInit, Workers
<1>3. \A w \in Workers : crew[w].at = "receive" /\ Left(crew[w]) = 0
  BY <1>1, IdleIs, NothingLeft
<1>4. Charges = {}
  BY <1>2, <1>3 DEF Charges
<1>5. Cardinality(Charges) = 0
  BY <1>4, FS_EmptySet
<1>6. MaxTokensPerJob > 0 => spent + Cardinality(Charges) <= MaxTokensPerJob - 1 + concurrency * Worst
  <2>1. concurrency * Worst \in Nat /\ MaxTokensPerJob \in Nat
    BY <1>2, TranslatorAssumption
  <2> QED BY <1>1, <1>5, <2>1
<1> QED
  BY <1>1, <1>2, <1>3, <1>6 DEF SpendInv

\* A worker that gives its batch up, reports it or leaves is not charged again.
LEMMA SpendEnds ==
  ASSUME LinesInv, SpendInv, NEW w \in Workers, NEW n \in Worker, crew' = [crew EXCEPT ![w] = n],
         UNCHANGED <<concurrency, progress, spent>>, batches' \subseteq batches,
         n.at \notin {"loop", "chat", "backoff", "store"}, n.at = "taken" => Fresh(n), w > concurrency => n.at = "gone"
  PROVE  SpendInv'
<1>1. Left(n) = 0
  BY NothingLeft
<1>2. Left(crew[w]) \in Nat
  BY PartsAre DEF LinesInv, TranslatorTypeOK
<1>3. Left(n) <= Left(crew[w])
  BY <1>1, <1>2
<1> QED
  BY <1>3, SpendMoves

\* The budget is looked at when a batch begins, so what it adds is bounded by
\* what all workers together can be charged for.
LEMMA BeginsSpends ==
  ASSUME LinesInv, SpendInv, NEW w \in Workers, WorkerBegins(w)
  PROVE  SpendInv'
<1>1. /\ crew \in [Workers -> Worker] /\ spent \in Nat /\ concurrency \in Nat /\ concurrency \in Workers
      /\ crew[w].at = "taken" /\ UNCHANGED <<concurrency, progress, batches, spent>>
  BY DEF LinesInv, TranslatorTypeOK, WorkerBegins, Workers, runConst
<1>2. ~(w > concurrency)
  BY <1>1, HasPlace
<1>3. PICK a \in WorkerStates : a = IF stopped THEN "gone" ELSE IF Exhausted THEN "cancel" ELSE "loop"
  BY DEF WorkerStates
<1>4. PICK n : n = [crew[w] EXCEPT !.at = a]
  OBVIOUS
<1>5. crew' = [crew EXCEPT ![w] = n]
  BY <1>3, <1>4 DEF WorkerBegins
<1>6. n \in Worker /\ n.at = a /\ n.attempt = crew[w].attempt /\ SameBatch(n, crew[w])
  BY <1>1, <1>4, AtChanges
<1>7. CASE a # "loop"
  <2>1. a \in {"gone", "cancel"}
    BY <1>3, <1>7
  <2> QED BY <1>1, <1>2, <1>5, <1>6, <2>1, SpendEnds
<1>8. CASE a = "loop"
  <2>1. Fresh(crew[w])
    BY <1>1 DEF SpendInv
  <2>2. n.depth = 0 /\ n.attempt = 1 /\ n.parts = NoParts /\ Size(n.pending) <= BatchSize /\ n.pending = crew[w].pending
    BY <1>6, <2>1 DEF Fresh, SameBatch
  <2>3. Left(n) = RepliesAt(0, Size(n.pending)) /\ Left(n) \in Nat /\ Left(n) <= Worst
    <3>1. Size(n.pending) \in Nat
      BY <1>6, PartsAre
    <3>2. RepliesAt(0, Size(n.pending)) \in Nat /\ RepliesAt(0, Size(n.pending)) <= Worst
      BY <2>2, <3>1, WorstIs
    <3>3. Asked(Size(n.pending), 0, 1) = RepliesAt(0, Size(n.pending))
      <4>1. 0 \in 0..MaxSplitDepth /\ 1 \in 1..(MaxAttempts + 1)
        BY DepthsAre, TranslatorAssumption
      <4> QED BY <3>1, <4>1, AskedIs
    <3>4. Parked(n) = 0
      BY <1>6, <2>2, ParkedNothing
    <3> QED BY <1>6, <1>8, <2>2, <3>2, <3>3, <3>4 DEF Left
  <2>4. crew'[w] = n /\ \A v \in Workers : v # w => crew'[v] = crew[v]
    BY <1>1, <1>5
  <2>5. \A v \in Workers : v > concurrency => v # w /\ crew[v].at \in {"gone", "receive"}
    BY <1>2 DEF SpendInv
  <2>6. \A v \in Workers : v > concurrency => Left(crew'[v]) = 0
    BY <2>4, <2>5, NothingLeft
  <2>7. Charges' \in SUBSET ((1..concurrency) \X (1..Worst))
    <3> SUFFICES ASSUME NEW v \in Workers, NEW k \in 1..Worst, k <= Left(crew'[v])
                 PROVE  v \in 1..concurrency
      BY DEF Charges
    <3>1. ~(v > concurrency)
      BY <2>6, WorstIs
    <3> QED BY <1>1, <3>1 DEF Workers
  <2>8. Cardinality(Charges') \in Nat /\ Cardinality(Charges') <= concurrency * Worst
    BY <1>1, <2>7, PairsAreFinite
  <2>9. MaxTokensPerJob > 0 => spent <= MaxTokensPerJob - 1
    <3>1. ~Exhausted
      BY <1>3, <1>8
    <3> QED BY <1>1, <3>1, TranslatorAssumption DEF Exhausted
  <2>10. MaxTokensPerJob > 0 => spent' + Cardinality(Charges') <= MaxTokensPerJob - 1 + concurrency * Worst
    <3>1. concurrency * Worst \in Nat /\ MaxTokensPerJob \in Nat
      BY <1>1, WorstIs, TranslatorAssumption
    <3> QED BY <1>1, <2>8, <2>9, <3>1
  <2>11. \A v \in Workers :
           /\ crew'[v].at = "taken" => Fresh(crew'[v])
           /\ v > concurrency => crew'[v].at = "gone" \/ (crew'[v].at = "receive" /\ progress # "run")
           /\ Left(crew'[v]) <= Worst
    BY <1>2, <1>6, <1>8, <2>3, <2>4 DEF SpendInv
  <2> QED BY <1>1, <2>10, <2>11 DEF SpendInv
<1> QED
  BY <1>7, <1>8

\* A worker that moves within its part keeps its attempts, or loses one.
LEMMA PlaceSpends ==
  ASSUME LinesInv, SpendInv, NEW w \in Workers, NEW a \in WorkerStates, NEW t \in 1..(MaxAttempts + 1),
         crew' = [crew EXCEPT ![w] = [crew[w] EXCEPT !.at = a, !.attempt = t]],
         crew[w].at \in {"loop", "chat", "backoff"}, a \in {"loop", "chat", "backoff", "store"},
         t = crew[w].attempt \/ (t = crew[w].attempt + 1 /\ crew[w].attempt <= MaxAttempts),
         UNCHANGED <<concurrency, progress, batches, spent>>
  PROVE  SpendInv'
<1>1. crew[w] \in Worker
  BY DEF LinesInv, TranslatorTypeOK
<1>2. PICK n : n = [crew[w] EXCEPT !.at = a, !.attempt = t]
  OBVIOUS
<1>3. n \in Worker /\ n.at = a /\ n.attempt = t /\ SameBatch(n, crew[w])
  BY <1>1, <1>2 DEF Worker, SameBatch
<1>4. n.pending = crew[w].pending /\ n.depth = crew[w].depth /\ n.parts = crew[w].parts
  BY <1>3 DEF SameBatch
<1>5. /\ Parked(n) = Parked(crew[w]) /\ Parked(crew[w]) \in Nat /\ Size(crew[w].pending) \in Nat
      /\ Asked(Size(crew[w].pending), crew[w].depth, crew[w].attempt) \in Nat
      /\ Asked(Size(crew[w].pending), crew[w].depth, t) \in Nat
      /\ crew[w].depth \in 0..MaxSplitDepth /\ crew[w].attempt \in 1..(MaxAttempts + 1)
  BY <1>1, <1>3, <1>4, PartsAre DEF Parked
<1>6. Asked(Size(crew[w].pending), crew[w].depth, t) <= Asked(Size(crew[w].pending), crew[w].depth, crew[w].attempt)
  <2>1. CASE t = crew[w].attempt
    BY <1>5, <2>1
  <2>2. CASE Size(crew[w].pending) = 0
    <3>1. Asked(Size(crew[w].pending), crew[w].depth, t) = 0
      BY <2>2 DEF Asked
    <3> QED BY <1>5, <3>1
  <2>3. CASE t = crew[w].attempt + 1 /\ crew[w].attempt <= MaxAttempts /\ Size(crew[w].pending) > 0
    <3>1. Asked(Size(crew[w].pending), crew[w].depth, crew[w].attempt + 1) + 1
            <= Asked(Size(crew[w].pending), crew[w].depth, crew[w].attempt)
      BY <1>5, <2>3, AskedIs
    <3> QED BY <1>5, <2>3, <3>1
  <2> QED BY <1>5, <2>1, <2>2, <2>3
<1>7. Left(crew[w]) = Asked(Size(crew[w].pending), crew[w].depth, crew[w].attempt) + Parked(crew[w])
  BY DEF Left
<1>8. Left(n) <= Left(crew[w])
  <2>1. CASE a = "store"
    <3>1. Left(n) = Parked(crew[w])
      BY <1>3, <1>5, <2>1 DEF Left
    <3> QED BY <1>5, <1>7, <3>1
  <2>2. CASE a # "store"
    <3>1. Left(n) = Asked(Size(crew[w].pending), crew[w].depth, t) + Parked(crew[w])
      BY <1>3, <1>4, <1>5, <2>2 DEF Left
    <3> QED BY <1>5, <1>6, <1>7, <3>1
  <2> QED BY <2>1, <2>2
<1>9. ~(w > concurrency)
  BY HasPlace
<1> QED
  BY <1>2, <1>3, <1>8, <1>9, SpendMoves

LEMMA ReturnedSpends ==
  ASSUME LinesInv, SpendInv, NEW w \in Workers, crew' = [crew EXCEPT ![w] = Returned(crew[w], "request")],
         crew[w].at \notin {"receive", "gone"}, UNCHANGED <<concurrency, progress, batches, spent>>
  PROVE  SpendInv'
<1>1. crew[w] \in Worker
  BY DEF LinesInv, TranslatorTypeOK
<1>2. PICK n : n = Returned(crew[w], "request")
  OBVIOUS
<1>3. n \in Worker /\ n.at = "report"
  BY <1>1, <1>2, ReturnedIs
<1>4. ~(w > concurrency)
  BY HasPlace
<1> QED
  BY <1>2, <1>3, <1>4, SpendEnds

LEMMA AttemptSpends ==
  ASSUME LinesInv, SpendInv, NEW w \in Workers, AttemptBegins(w) \/ ChatFails(w) \/ BackoffEnds(w)
  PROVE  SpendInv'
<1>1. /\ crew[w] \in Worker /\ WorkerInv(crew[w]) /\ crew[w].at \in {"loop", "chat", "backoff"}
      /\ crew[w].attempt \in 1..(MaxAttempts + 1)
      /\ UNCHANGED <<concurrency, progress, batches, spent>>
  BY WorkerIsOfRun DEF AttemptBegins, ChatFails, BackoffEnds, Worker, runConst
<1>2. \A a : [crew[w] EXCEPT !.at = a] = [crew[w] EXCEPT !.at = a, !.attempt = crew[w].attempt]
  BY <1>1 DEF Worker
<1>3. CASE crew' = [crew EXCEPT ![w] = Returned(crew[w], "request")]
  BY <1>1, <1>3, ReturnedSpends
<1>4. ASSUME NEW a \in {"store", "chat", "backoff"}, crew' = [crew EXCEPT ![w] = [crew[w] EXCEPT !.at = a]]
      PROVE  SpendInv'
  <2>1. a \in WorkerStates
    BY DEF WorkerStates
  <2> QED BY <1>1, <1>2, <1>4, <2>1, PlaceSpends
<1>5. ASSUME crew[w].at = "backoff", crew' = [crew EXCEPT ![w] = Retried(crew[w])]
      PROVE  SpendInv'
  <2>1. crew[w].attempt < MaxAttempts
    BY <1>1, <1>5 DEF WorkerInv
  <2>2. "loop" \in WorkerStates /\ crew[w].attempt + 1 \in 1..(MaxAttempts + 1) /\ crew[w].attempt <= MaxAttempts
    BY <1>1, <2>1, TranslatorAssumption DEF WorkerStates
  <2>3. Retried(crew[w]) = [crew[w] EXCEPT !.at = "loop", !.attempt = crew[w].attempt + 1]
    BY DEF Retried
  <2> QED BY <1>1, <1>5, <2>2, <2>3, PlaceSpends
<1>6. CASE AttemptBegins(w)
  <2>1. \/ crew' = [crew EXCEPT ![w] = [crew[w] EXCEPT !.at = "store"]]
        \/ crew' = [crew EXCEPT ![w] = [crew[w] EXCEPT !.at = "chat"]]
        \/ crew' = [crew EXCEPT ![w] = Returned(crew[w], "request")]
    BY <1>6 DEF AttemptBegins
  <2> QED BY <1>3, <1>4, <2>1
<1>7. CASE ChatFails(w)
  <2>1. \/ crew' = [crew EXCEPT ![w] = [crew[w] EXCEPT !.at = "backoff"]]
        \/ crew' = [crew EXCEPT ![w] = Returned(crew[w], "request")]
    BY <1>7 DEF ChatFails
  <2> QED BY <1>3, <1>4, <2>1
<1>8. CASE BackoffEnds(w)
  BY <1>3, <1>5, <1>8 DEF BackoffEnds
<1> QED
  BY <1>6, <1>7, <1>8

LEMMA ReplySpends ==
  ASSUME LinesInv, SpendInv, NEW w \in Workers, ChatReplies(w)
  PROVE  SpendInv'
<1>1. /\ crew[w] \in Worker /\ WorkerInv(crew[w]) /\ crew[w].at = "chat" /\ spent' = spent + 1
      /\ UNCHANGED <<concurrency, progress, batches>>
  BY WorkerIsOfRun DEF ChatReplies, runConst
<1>2. PICK usable \in SUBSET crew[w].pending : crew' = [crew EXCEPT ![w] = Replied(crew[w], usable)]
  BY DEF ChatReplies, Usable
<1>3. PICK n : n = Replied(crew[w], usable)
  OBVIOUS
<1>4. crew[w].attempt <= MaxAttempts /\ crew[w].pending # {}
  BY <1>1 DEF WorkerInv
<1>5. n \in Worker /\ n.at = "loop"
  BY <1>1, <1>3, <1>4, RepliedIs
<1>6. Left(n) + 1 <= Left(crew[w])
  BY <1>1, <1>3, <1>4, RepliedLeft
<1>7. Left(n) \in Nat /\ Left(crew[w]) \in Nat
  BY <1>1, <1>5, PartsAre
<1>8. Left(n) <= Left(crew[w]) /\ ~(w > concurrency)
  BY <1>1, <1>6, <1>7, HasPlace
<1> QED
  BY <1>1, <1>2, <1>3, <1>5, <1>6, <1>8, SpendMoves

LEMMA SplitSpends ==
  ASSUME LinesInv, SpendInv, NEW w \in Workers, ChatTruncated(w)
  PROVE  SpendInv'
<1>1. /\ crew[w] \in Worker /\ WorkerInv(crew[w]) /\ crew[w].at = "chat"
      /\ UNCHANGED <<concurrency, progress, batches, spent>>
  BY WorkerIsOfRun DEF ChatTruncated, runConst
<1>2. CASE crew' = [crew EXCEPT ![w] = Returned(crew[w], "request")]
  BY <1>1, <1>2, ReturnedSpends
<1>3. ASSUME crew[w].depth < MaxSplitDepth, Size(crew[w].pending) > 1, NEW low \in SUBSET crew[w].pending,
             Size(low) = Size(crew[w].pending) \div 2, crew' = [crew EXCEPT ![w] = Split(crew[w], low)]
      PROVE  SpendInv'
  <2>1. PICK n : n = Split(crew[w], low)
    OBVIOUS
  <2>2. n \in Worker /\ n.at = "loop"
    BY <1>1, <1>3, <2>1, SplitIs
  <2>3. crew[w].attempt <= MaxAttempts /\ \A d \in Depths : d > crew[w].depth => crew[w].parts[d] = {}
    BY <1>1 DEF WorkerInv
  <2>4. Left(n) <= Left(crew[w])
    BY <1>1, <1>3, <2>1, <2>3, SplitLeft
  <2>5. ~(w > concurrency)
    BY <1>1, HasPlace
  <2> QED BY <1>1, <1>3, <2>1, <2>2, <2>4, <2>5, SpendMoves
<1> QED
  BY <1>2, <1>3 DEF ChatTruncated, FirstHalves, Size

LEMMA WorkerSpends ==
  ASSUME LinesInv, SpendInv, NEW w \in Workers, WorkerStep(w)
  PROVE  SpendInv'
<1>1. crew \in [Workers -> Worker]
  BY DEF LinesInv, TranslatorTypeOK
<1>2. CASE WorkerBegins(w)
  BY <1>2, BeginsSpends
<1>3. CASE AttemptBegins(w) \/ ChatFails(w) \/ BackoffEnds(w)
  BY <1>3, AttemptSpends
<1>4. CASE ChatReplies(w)
  BY <1>4, ReplySpends
<1>5. CASE ChatTruncated(w)
  BY <1>5, SplitSpends
<1>6. CASE BatchStores(w)
  <2>1. PICK n : n = NextPart(crew[w])
    OBVIOUS
  <2>2. /\ crew' = [crew EXCEPT ![w] = n] /\ crew[w].at = "store"
        /\ UNCHANGED <<concurrency, progress, batches, spent>>
    BY <1>6, <2>1 DEF BatchStores, runConst
  <2>3. n \in Worker /\ n.at \in {"loop", "report"} /\ Left(n) <= Left(crew[w])
    BY <1>1, <2>1, <2>2, NextPartIs, NextPartLeft
  <2>4. ~(w > concurrency)
    BY <2>2, HasPlace
  <2> QED BY <2>2, <2>3, <2>4, SpendMoves
<1>7. CASE WorkerReports(w)
  <2>1. UNCHANGED <<concurrency, progress, batches, spent>> /\ crew[w].at = "report"
    BY <1>7 DEF WorkerReports, runConst
  <2>2. ~(w > concurrency)
    BY <2>1, HasPlace
  <2>3. CASE crew' = [crew EXCEPT ![w] = Idle]
    BY <2>1, <2>2, <2>3, IdleIs, SpendEnds
  <2>4. CASE crew' = [crew EXCEPT ![w] = [Idle EXCEPT !.at = "cancel"]]
    <3>1. PICK n : n = [Idle EXCEPT !.at = "cancel"]
      OBVIOUS
    <3>2. n \in Worker /\ n.at = "cancel"
      <4>1. "cancel" \in WorkerStates
        BY DEF WorkerStates
      <4> QED BY <3>1, <4>1, IdleIs, AtChanges
    <3> QED BY <2>1, <2>2, <2>4, <3>1, <3>2, SpendEnds
  <2> QED BY <1>7, <2>3, <2>4 DEF WorkerReports
<1>8. CASE WorkerCancels(w) \/ WorkerEnds(w)
  <2>1. PICK n : n = [crew[w] EXCEPT !.at = "gone"]
    OBVIOUS
  <2>2. n \in Worker /\ n.at = "gone"
    <3>1. "gone" \in WorkerStates
      BY DEF WorkerStates
    <3> QED BY <1>1, <2>1, <3>1, AtChanges
  <2>3. crew' = [crew EXCEPT ![w] = n] /\ UNCHANGED <<concurrency, progress, batches, spent>>
    BY <1>8, <2>1 DEF WorkerCancels, WorkerEnds, runConst
  <2> QED BY <2>2, <2>3, SpendEnds
<1> QED
  BY <1>2, <1>3, <1>4, <1>5, <1>6, <1>7, <1>8 DEF WorkerStep

LEMMA PlanSpends ==
  ASSUME LinesInv, SpendInv, Plan
  PROVE  SpendInv'
<1>1. UNCHANGED <<concurrency, spent>> /\ progress = "plan" /\ concurrency \in Nat /\ spent \in Nat
  BY DEF Plan, LinesInv, TranslatorTypeOK, Workers
<1>2. PICK P : P = Planned \ Cached(Planned)
  OBVIOUS
<1>3. P \in SUBSET Lines
  BY <1>2 DEF Planned
<1>4. /\ batches' = Grouped(P)
      /\ crew' = [w \in Workers |->
                    [Idle EXCEPT !.at = IF w <= concurrency /\ w <= Cardinality(Grouped(P)) THEN "receive" ELSE "gone"]]
  BY <1>2 DEF Plan
<1>5. \A b \in batches' : Size(b) <= BatchSize
  BY <1>3, <1>4, GroupsPartition DEF Size
<1>6. ASSUME NEW w \in Workers
      PROVE  crew'[w].at \in {"receive", "gone"} /\ (w > concurrency => crew'[w].at = "gone")
  <2>1. PICK a : a = IF w <= concurrency /\ w <= Cardinality(Grouped(P)) THEN "receive" ELSE "gone"
    OBVIOUS
  <2>2. a \in WorkerStates /\ a \in {"receive", "gone"}
    BY <2>1 DEF WorkerStates
  <2>3. crew'[w] = [Idle EXCEPT !.at = a]
    BY <1>4, <2>1
  <2>4. w > concurrency => a = "gone"
    BY <1>1, <2>1 DEF Workers
  <2> QED BY <2>2, <2>3, <2>4, IdleIs, AtChanges
<1>7. \A w \in Workers : Left(crew'[w]) = 0
  BY <1>6, NothingLeft
<1>8. Worst \in Nat /\ concurrency * Worst \in Nat /\ MaxTokensPerJob \in Nat
  BY <1>1, WorstIs, TranslatorAssumption
<1>9. Charges' = {}
  BY <1>7, <1>8 DEF Charges
<1>10. Cardinality(Charges') = 0
  BY <1>9, FS_EmptySet
<1>11. MaxTokensPerJob > 0 => spent' + Cardinality(Charges') <= MaxTokensPerJob - 1 + concurrency * Worst
  <2>1. Cardinality(Charges) \in Nat
    BY ChargesAreFinite
  <2>2. MaxTokensPerJob > 0 => spent + Cardinality(Charges) <= MaxTokensPerJob - 1 + concurrency * Worst
    BY DEF SpendInv
  <2> QED BY <1>1, <1>8, <1>10, <2>1, <2>2
<1>12. \A w \in Workers : Left(crew'[w]) <= Worst
  BY <1>7, <1>8
<1> QED
  BY <1>1, <1>5, <1>6, <1>11, <1>12 DEF SpendInv

LEMMA SpendStep == LinesInv /\ SpendInv /\ [TranslatorNext]_trVars => SpendInv'
<1> SUFFICES ASSUME LinesInv, SpendInv, [TranslatorNext]_trVars PROVE SpendInv'
  OBVIOUS
<1>1. CASE Plan
  BY <1>1, PlanSpends
<1>2. CASE PlanFails \/ ParentCancels \/ RunReturns \/ Prune \/ UNCHANGED trVars \/ FeederStops
  <2>1. UNCHANGED <<concurrency, crew, spent>> /\ batches' \subseteq batches
    BY <1>2 DEF PlanFails, ParentCancels, RunReturns, Prune, trVars, runVars, FeederStops, runConst
  <2>2. Charges' = Charges
    BY <2>1 DEF Charges
  <2>3. (progress' = progress \/ progress' # "run")
    BY <1>2 DEF PlanFails, ParentCancels, RunReturns, Prune, trVars, FeederStops, runConst
  <2>4. /\ \A b \in batches : Size(b) <= BatchSize
        /\ MaxTokensPerJob > 0 => spent + Cardinality(Charges) <= MaxTokensPerJob - 1 + concurrency * Worst
    BY DEF SpendInv
  <2>5. \A w \in Workers :
           /\ crew[w].at = "taken" => Fresh(crew[w])
           /\ w > concurrency => crew[w].at = "gone" \/ (crew[w].at = "receive" /\ progress' # "run")
           /\ Left(crew[w]) <= Worst
    BY <2>3 DEF SpendInv
  <2> QED BY <2>1, <2>2, <2>4, <2>5 DEF SpendInv
<1>3. ASSUME NEW w \in Workers, FeederSends(w) PROVE SpendInv'
  <2>1. /\ UNCHANGED <<concurrency, progress, spent>> /\ progress = "run" /\ crew[w].at = "receive"
    BY <1>3 DEF FeederSends, runConst
  <2>2. PICK b \in batches : /\ crew' = [crew EXCEPT ![w] = [Idle EXCEPT !.at = "taken", !.pending = b]]
                             /\ batches' = batches \ {b}
    BY <1>3 DEF FeederSends
  <2>3. PICK n : n = [Idle EXCEPT !.at = "taken", !.pending = b]
    OBVIOUS
  <2>4. b \in SUBSET Lines /\ "taken" \in WorkerStates /\ Size(b) <= BatchSize
    BY DEF LinesInv, SpendInv, TranslatorTypeOK, WorkerStates
  <2>5. n \in Worker /\ n.at = "taken" /\ n.pending = b /\ n.parts = NoParts /\ n.depth = 0 /\ n.attempt = 1
    BY <2>3, <2>4, IdleIs DEF Worker
  <2>6. Fresh(n)
    BY <2>4, <2>5 DEF Fresh
  <2>7. ~(w > concurrency)
    BY <2>1, HasPlace
  <2>8. batches' \subseteq batches
    BY <2>2
  <2> QED BY <2>1, <2>2, <2>3, <2>5, <2>6, <2>7, <2>8, SpendEnds
<1>4. ASSUME NEW w \in Workers, WorkerStep(w) PROVE SpendInv'
  BY <1>4, WorkerSpends
<1> QED
  BY <1>1, <1>2, <1>3, <1>4 DEF TranslatorNext, FeederStep

\* However many workers pass the check of the budget together, a run exceeds
\* MaxTokensPerJob by at most what one batch for each worker costs at worst.
THEOREM SpendingBounded == TranslatorSpec => []SpendingIsBounded
<1>1. LinesInv /\ SpendInv => SpendingIsBounded
  <2> SUFFICES ASSUME LinesInv, SpendInv, MaxTokensPerJob > 0
               PROVE  spent <= MaxTokensPerJob - 1 + concurrency * Worst
    BY DEF SpendingIsBounded, Worst
  <2>1. spent \in Nat /\ concurrency \in Nat /\ Worst \in Nat /\ Cardinality(Charges) \in Nat
    BY WorstIs, ChargesAreFinite DEF LinesInv, TranslatorTypeOK, Workers
  <2>2. concurrency * Worst \in Nat /\ MaxTokensPerJob \in Nat
    BY <2>1, TranslatorAssumption
  <2>3. spent + Cardinality(Charges) <= MaxTokensPerJob - 1 + concurrency * Worst
    BY DEF SpendInv
  <2> QED BY <2>1, <2>2, <2>3
<1> QED
  BY <1>1, LinesBegin, LinesStep, SpendBegin, SpendStep, PTL DEF TranslatorSpec
=============================================================================
