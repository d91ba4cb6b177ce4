---------------------------- MODULE PairedScoring ----------------------------
(***************************************************************************)
(* Scoring one arm's generations and comparing two arms (eval/score.py,    *)
(* eval/_fence.py, eval/compare.py, and the rows of eval/bundle.py).       *)
(*                                                                         *)
(* A text is a sequence of lines [mark, run, info, word]: a fence line has *)
(* the mark "backtick" or "tilde", the length of its run and whether an    *)
(* info string follows; any other line has the mark "none" and a word,     *)
(* "" when blank.                                                          *)
(* A generation is [task, prompt, expected, completion, tokens, status]    *)
(* with status "ok", "unsupported" or "invalid".  A fraction is a pair, in *)
(* place of a float.                                                       *)
(***************************************************************************)
EXTENDS Integers, Sequences, FiniteSets, SequencesExt

CONSTANTS
    Missing,               \* a value that is None
    DoctestScores(_, _),   \* whether a reference and a candidate get a verdict of doctest-v1
    DoctestPasses(_, _)    \* whether that verdict is that the candidate is correct

Versions == {"exact-match-v1", "exact-match-v2", "doctest-v1"}
Arms == {"base", "sft"}

-----------------------------------------------------------------------------
(* Fences *)

IsBlank(line) == line.mark = "none" /\ line.word = ""
Opens(line) == line.mark # "none"

\* Mutation: any bare fence closes any other.
ClosesAny(line, opening) == line.mark # "none" /\ ~line.info

\* A closing fence has the opening's character, is at least as long and bare.
Closes(line, opening) ==
    line.mark = opening.mark /\ line.run >= opening.run /\ ~line.info

WithoutLeadingBlanks(lines) ==
    LET first == SelectInSeq(lines, LAMBDA line : ~IsBlank(line))
    IN  IF first = 0 THEN <<>> ELSE SubSeq(lines, first, Len(lines))

\* normalize_completion: trailing white space is dropped.
Normalized(lines) ==
    LET last == SelectLastInSeq(lines, LAMBDA line : ~IsBlank(line))
    IN  SubSeq(lines, 1, last)

\* The block of a reply that leads with a fence, up to the first line that
\* closes it or to the end; any other reply as it is.
FencedCode(lines) ==
    LET text == WithoutLeadingBlanks(Normalized(lines))
    IN  IF text = <<>> THEN <<>>
        ELSE IF ~Opens(Head(text)) THEN Normalized(lines)
        ELSE LET body == Tail(text)
                 close == SelectInSeq(body, LAMBDA line : Closes(line, Head(text)))
             IN  Normalized(WithoutLeadingBlanks(
                     IF close = 0 THEN body ELSE SubSeq(body, 1, close - 1)))

-----------------------------------------------------------------------------
(* One generation, one arm *)

Unscorable(g) ==
    \/ g.status # "ok"
    \/ g.expected = Missing \/ g.completion = Missing
    \/ Normalized(g.expected) = <<>>

\* Whether the normalized, and under v2 unwrapped, texts are the same.
Matches(g, version) ==
    IF version = "exact-match-v1" THEN Normalized(g.completion) = Normalized(g.expected)
    ELSE FencedCode(g.completion) = FencedCode(g.expected)

DoctestVerdict(reference, candidate) ==
    IF ~DoctestScores(reference, candidate) THEN "invalid"
    ELSE IF DoctestPasses(reference, candidate) THEN "correct" ELSE "incorrect"

Verdict(g, version) ==
    CASE Unscorable(g) -> "invalid"
      [] version = "doctest-v1" /\ ~Unscorable(g) ->
            DoctestVerdict(FencedCode(g.expected), FencedCode(g.completion))
      [] version = "exact-match-v2" /\ ~Unscorable(g) /\ FencedCode(g.expected) = <<>> -> "invalid"
      [] OTHER -> IF Matches(g, version) THEN "correct" ELSE "incorrect"

ScoreOf(g, version) ==
    [task |-> g.task, version |-> version, verdict |-> Verdict(g, version),
     expected |-> g.expected, predicted |-> g.completion]

ScoresOf(generations, version) ==
    [k \in 1..Len(generations) |-> ScoreOf(generations[k], version)]

Count(scores, verdict) == Cardinality({k \in 1..Len(scores) : scores[k].verdict = verdict})

\* ArmMetrics: invalid tasks are outside the accuracy.
MetricsOf(scores, version) ==
    LET scored == Count(scores, "correct") + Count(scores, "incorrect")
    IN  [version |-> version, tasks |-> Len(scores),
         correct |-> Count(scores, "correct"), incorrect |-> Count(scores, "incorrect"),
         invalid |-> Count(scores, "invalid"), scored |-> scored,
         accuracy |-> IF scored = 0 THEN Missing ELSE <<Count(scores, "correct"), scored>>]

-----------------------------------------------------------------------------
(* Two arms *)

TasksOf(records) == [k \in 1..Len(records) |-> records[k].task]

\* What compare_arms demands before it compares.
Comparable(base, sft, version) ==
    /\ version \in Versions
    /\ TasksOf(base) = TasksOf(sft)
    /\ \A k \in 1..Len(base) : base[k].version = version /\ sft[k].version = version

\* Mutation: a pair is invalid only when both verdicts are.
InvalidWhenBoth(base, sft) ==
    CASE base = "invalid" /\ sft = "invalid" -> "invalid"
      [] base = sft /\ base # "invalid" -> "tied"
      [] sft = "correct" /\ base # sft -> "improved"
      [] OTHER -> "regressed"

PairOutcome(base, sft) ==
    CASE base = "invalid" \/ sft = "invalid" -> "invalid"
      [] base = sft /\ base # "invalid" -> "tied"
      [] sft = "correct" /\ base = "incorrect" -> "improved"
      [] OTHER -> "regressed"

PairsOf(base, sft) ==
    [k \in 1..Len(base) |->
        [task |-> base[k].task, base |-> base[k].verdict, sft |-> sft[k].verdict,
         outcome |-> PairOutcome(base[k].verdict, sft[k].verdict)]]

Outcomes(pairs, outcome) == {k \in 1..Len(pairs) : pairs[k].outcome = outcome}

\* Accuracy of SFT minus accuracy of base over the pairs that are not invalid.
Delta(pairs) ==
    LET valid == (1..Len(pairs)) \ Outcomes(pairs, "invalid")
        Correct(arm) == Cardinality({k \in valid : pairs[k][arm] = "correct"})
    IN  IF valid = {} THEN Missing
        ELSE <<Correct("sft") - Correct("base"), Cardinality(valid)>>

\* _CONCLUSION_BY_SIGNALS: which of improved, regressed and tied occurred.
Conclusion(pairs) ==
    LET seen == {pairs[k].outcome : k \in 1..Len(pairs)} \ {"invalid"}
    IN  CASE {"improved", "regressed"} \subseteq seen -> "mixed"
          [] "improved" \in seen /\ "regressed" \notin seen -> "improved"
          [] "regressed" \in seen /\ "improved" \notin seen -> "regressed"
          [] seen = {"tied"} -> "null"
          [] seen = {} -> "inconclusive"

\* The comparison of two comparable arms.
ComparisonOf(base, sft, version) ==
    LET pairs == PairsOf(base, sft)
    IN  [version |-> version, pairs |-> pairs, tasks |-> Len(pairs),
         improved |-> Cardinality(Outcomes(pairs, "improved")),
         regressed |-> Cardinality(Outcomes(pairs, "regressed")),
         tied |-> Cardinality(Outcomes(pairs, "tied")),
         invalid |-> Cardinality(Outcomes(pairs, "invalid")),
         delta |-> Delta(pairs), conclusion |-> Conclusion(pairs)]

\* regressions.jsonl: the regressed pairs with what each arm answered.
RegressionRows(pairs, base, sft) ==
    LET Predicted(scores, task) ==
            scores[CHOOSE k \in 1..Len(scores) : scores[k].task = task].predicted
    IN  {[task |-> pairs[k].task, base |-> Predicted(base, pairs[k].task),
          sft |-> Predicted(sft, pairs[k].task)] : k \in Outcomes(pairs, "regressed")}
=============================================================================
