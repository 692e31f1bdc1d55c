----------------------------- MODULE Evaluation -----------------------------
(* Evaluation: benchmark runs, and the metrics of texts.                    *)
EXTENDS Integers, Sequences, FiniteSets, FiniteSetsExt, SequencesExt

(***************************************************************************)
(* The benchmarks of evaluation/benchmark.py.  A run awaits one inference   *)
(* per model and sample, in the order of two nested loops over the run's    *)
(* models and over the suite's own list of samples, which add_samples may   *)
(* extend meanwhile.  A failing inference is a result with an error and no  *)
(* score.  Scores and costs are small integers; an average is kept as a sum *)
(* and a count, and averages are compared by cross-multiplication.          *)
(***************************************************************************)

CONSTANTS
  ModelIds,       \* sequence of the models of the run
  FirstSamples, MaxSamples,
  Scores, SampleCosts

ASSUME BeAssumption ==
    /\ FirstSamples \in Nat \ {0} /\ MaxSamples \in Nat /\ FirstSamples <= MaxSamples
    /\ Len(ModelIds) \in Nat \ {0} /\ DOMAIN ModelIds = 1..Len(ModelIds)
    /\ Scores \subseteq Int /\ SampleCosts \subseteq Int

VARIABLES samples, status, at, results

beVars == <<samples, status, at, results>>

(* at is the place of the two loops: the model's and the next sample's     *)
(* index; results are [model, sample, failed, score, cost].                *)
BeInit ==
  /\ samples = FirstSamples
  /\ status = "running" /\ at = [model |-> 1, sample |-> 1] /\ results = <<>>

Finished(next) == next.model > Len(ModelIds)

Advance == IF at.sample < samples THEN [at EXCEPT !.sample = @ + 1]
           ELSE [model |-> at.model + 1, sample |-> 1]
Advance_skipped(failed) == IF failed THEN [model |-> at.model + 1, sample |-> 1] ELSE Advance
After(failed) == Advance

Evaluated(failed, score, cost) ==
  /\ status = "running"
  /\ results' = Append(results, [model |-> ModelIds[at.model], sample |-> at.sample,
                                 failed |-> failed, score |-> score, cost |-> cost])
  /\ at' = After(failed)
  /\ status' = IF Finished(at') THEN "completed" ELSE "running"
  /\ UNCHANGED samples

EvaluateSample == \E s \in Scores, c \in SampleCosts : Evaluated(FALSE, s, c)

(* The handler's exception becomes the result's error; it costs nothing.   *)
SampleFails == Evaluated(TRUE, 0, 0)

(* Anything else that fails (the cost estimator) ends the run with the     *)
(* results it has.                                                         *)
RunFails ==
  /\ status = "running" /\ status' = "failed"
  /\ UNCHANGED <<samples, at, results>>

AddSamples ==
  /\ samples < MaxSamples /\ samples' = samples + 1
  /\ UNCHANGED <<status, at, results>>

BeNext == EvaluateSample \/ SampleFails \/ RunFails \/ AddSamples

BeSpec == BeInit /\ [][BeNext]_beVars

-----------------------------------------------------------------------------
(* The summary: the sum of the scores over the number of the samples, the  *)
(* failed ones included; a model without results scores and costs nothing. *)
larger(a, b) == IF a > b THEN a ELSE b

summary(m) ==
  LET sums[i \in 0..Len(results)] ==
        IF i = 0 THEN [score |-> 0, cost |-> 0, count |-> 0]
        ELSE IF results[i].model # m THEN sums[i - 1]
        ELSE [sums[i - 1] EXCEPT !.score = @ + results[i].score, !.cost = @ + results[i].cost,
                                 !.count = @ + 1]
  IN  [sums[Len(results)] EXCEPT !.count = larger(@, 1)]

less(sumA, nA, sumB, nB) == sumA * nB < sumB * nA

dominates_ties(m, n) ==
  LET a == summary(m) b == summary(n)
  IN  ~less(a.score, a.count, b.score, b.count) /\ ~less(b.cost, b.count, a.cost, a.count)
dominates(m, n) ==
  LET a == summary(m) b == summary(n)
  IN  /\ ~less(a.score, a.count, b.score, b.count) /\ ~less(b.cost, b.count, a.cost, a.count)
      /\ less(b.score, b.count, a.score, a.count) \/ less(a.cost, a.count, b.cost, b.count)

pareto_frontier == {m \in Range(ModelIds) : ~\E other \in Range(ModelIds) \ {m} : dominates(other, m)}

-----------------------------------------------------------------------------
BeTypeOK ==
  /\ samples \in FirstSamples..MaxSamples /\ status \in {"running", "completed", "failed"}
  /\ at.model \in 1..Len(ModelIds) + 1 /\ at.sample \in 1..MaxSamples
  /\ \A i \in DOMAIN results : results[i].score \in Scores \union {0}

(* The results of a model on a sample, and the places of a model in a run.  *)
Evaluations(m, s) == {i \in DOMAIN results : results[i].model = m /\ results[i].sample = s}
Named(m)          == {k \in DOMAIN ModelIds : ModelIds[k] = m}

(* A completed run has evaluated every model on every sample the suite had  *)
(* at its start, once for each time the run names the model, and none more  *)
(* often, whatever failed and whatever was added meanwhile                  *)
(* (benchmark.py:121-131).                                                  *)
RunCovers ==
  \A m \in Range(ModelIds), s \in 1..samples :
    /\ Cardinality(Evaluations(m, s)) <= Cardinality(Named(m))
    /\ status = "completed" /\ s <= FirstSamples => Cardinality(Evaluations(m, s)) = Cardinality(Named(m))

(* The frontier decides every choice: it is never empty, and a model that   *)
(* is not on it is dominated by one that is (benchmark.py:256-263).         *)
FrontierDecides ==
  status # "running" =>
    \A m \in Range(ModelIds) \ pareto_frontier : \E best \in pareto_frontier : dominates(best, m)

-----------------------------------------------------------------------------
(***************************************************************************)
(* The token metrics of evaluation/metrics.py: clipped n-gram overlap (BLEU *)
(* and ROUGE-N count it) and the longest common subsequence of ROUGE-L,     *)
(* which the code computes with two rows of the usual table.  The state is  *)
(* a pair of texts and the row reached.  Tokenising lower-cases and splits; *)
(* a text is the sequence of its tokens.                                    *)
(***************************************************************************)

CONSTANTS Words, TextSize

ASSUME TmAssumption == TextSize \in Nat

VARIABLES reference, candidate, row, prev

tmVars == <<reference, candidate, row, prev>>

TokenLists == UNION {[1..n -> Words] : n \in 1..TextSize}

TmInit ==
  /\ reference \in TokenLists /\ candidate \in TokenLists
  /\ row = 0 /\ prev = [j \in 0..Len(candidate) |-> 0]

(* One pass of the outer loop: the row of the prefixes of the candidate    *)
(* against one more token of the reference, from the row before it.        *)
next_row_inplace(before, token) ==
  LET curr[j \in 0..Len(candidate)] ==
        IF j = 0 THEN 0
        ELSE IF token = candidate[j] THEN curr[j - 1] + 1 ELSE larger(before[j], curr[j - 1])
  IN  curr
next_row(before, token) ==
  LET curr[j \in 0..Len(candidate)] ==
        IF j = 0 THEN 0
        ELSE IF token = candidate[j] THEN before[j - 1] + 1 ELSE larger(before[j], curr[j - 1])
  IN  curr

NextRow ==
  /\ row < Len(reference)
  /\ row' = row + 1
  /\ prev' = next_row(prev, reference[row'])
  /\ UNCHANGED <<reference, candidate>>

TmSpec == TmInit /\ [][NextRow]_tmVars

ngrams(tokens, n) == [i \in 1..Len(tokens) - n + 1 |-> SubSeq(tokens, i, i + n - 1)]
occurrences(grams, g) == Cardinality({i \in DOMAIN grams : grams[i] = g})

(* The overlap counts a candidate's n-gram as often as the reference has   *)
(* it, at most; the grams are summed up in the order of their first places. *)
clipped_unclipped(ref, cand, n) ==
  Cardinality({i \in DOMAIN ngrams(cand, n) : occurrences(ngrams(ref, n), ngrams(cand, n)[i]) > 0})
clipped(ref, cand, n) ==
  LET rs == ngrams(ref, n) cs == ngrams(cand, n)
      smaller(a, b) == IF a < b THEN a ELSE b
      sum[i \in 0..Len(cs)] ==
        IF i = 0 THEN 0
        ELSE IF \E k \in 1..(i - 1) : cs[k] = cs[i] THEN sum[i - 1]
        ELSE sum[i - 1] + smaller(occurrences(cs, cs[i]), occurrences(rs, cs[i]))
  IN  sum[Len(cs)]

-----------------------------------------------------------------------------
TmTypeOK == row \in 0..Len(reference) /\ \A j \in DOMAIN prev : prev[j] \in 0..TextSize

(* The choices of n places, in order, among the first L; n tokens that the *)
(* first i of the reference and the first j of the candidate have in common. *)
Placings(n, L) == {f \in [1..n -> 1..L] : \A a, b \in 1..n : a < b => f[a] < f[b]}

InCommon(i, j, n) ==
  \E f \in Placings(n, i), g \in Placings(n, j) : \A k \in 1..n : reference[f[k]] = candidate[g[k]]

(* The two-row computation is the longest common subsequence of the         *)
(* prefixes reached, for every pair of texts (metrics.py:130-143).          *)
RowIsLongestCommon ==
  \A j \in 0..Len(candidate) :
    prev[j] \in 0..row /\ \A n \in 0..row : InCommon(row, j, n) <=> n <= prev[j]

(* Overlap does not depend on which text is the reference, and neither      *)
(* precision nor recall can exceed one (metrics.py:55-66, 111-126).         *)
OverlapSymmetric ==
  \A n \in 1..2 :
    /\ clipped(reference, candidate, n) = clipped(candidate, reference, n)
    /\ clipped(reference, candidate, n) <= Len(ngrams(reference, n))
=============================================================================
