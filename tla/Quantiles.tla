------------------------------ MODULE Quantiles ------------------------------
(***************************************************************************)
(* What a scrape reports of a stream of observations                       *)
(* (lib/rstream/core/detail/metrics): the summary, which answers quantiles *)
(* over a sliding window from compressed samples (quantile.cpp,            *)
(* summary.cpp), and the histogram (histogram.cpp).  observe and           *)
(* get_sample hold the metric's mutex, so each is one step.                *)
(***************************************************************************)
EXTENDS Integers, Sequences, SequencesExt, FiniteSets, FiniteSetsExt

CONSTANTS
  Unit,          \* quantiles and their errors are in 1/Unit
  TargetSets,    \* the sets of quantiles that may be configured: [q, e], both in 1/Unit
  Values,        \* what is observed
  Boundaries,    \* the upper boundaries given to the histogram
  BufferSize,    \* the size of m_buffer (500 in the code)
  AgeBuckets, Interval,   \* the window is AgeBuckets * Interval
  MaxObservations, MaxTime

VARIABLES
  targets,   \* m_quantiles
  summary,   \* [count, sum, buckets, current, rotated]: the members of wrapper<summary>::impl
  histogram, \* [buckets, sum]: the members of wrapper<histogram>::impl
  clock,     \* the steady clock
  observed,  \* what was observed: a sequence of [at, value]
  scrape     \* the last answers: [at, quantiles, cumulative, count], or nothing yet

metricVars == <<targets, summary, histogram, clock, observed, scrape>>

NaN == 0

Empty == [count |-> 0, sample |-> << >>, buffer |-> << >>]

(* m_u and m_v are 2e/(1-q) and 2e/q: the error is kept as a fraction. *)
Error(t, rank, size) ==
  IF rank * Unit <= t.q * size THEN <<2 * t.e * (size - rank), Unit - t.q>> ELSE <<2 * t.e * rank, t.q>>

(* k <= allowable_error(rank), which looks at the number of samples and not *)
(* at the number of observations they stand for                            *)
Allowed(k, rank, size) ==
  /\ k <= size + 1
  /\ \A t \in targets : LET err == Error(t, rank, size) IN k * err[2] <= err[1]

FloorError(rank, size) ==
  Min({size + 1} \union {Error(t, rank, size)[1] \div Error(t, rank, size)[2] : t \in targets})

Item(v, g, delta) == [value |-> v, g |-> g, delta |-> delta]

Position(sample, idx, v) ==
  LET stop == Min({j \in idx..Len(sample) : j = Len(sample) \/ sample[j].value >= v})
  IN IF sample[stop].value > v THEN stop - 1 ELSE stop

insert_value(state, v) ==
  LET size == Len(state.sample)
      idx == Position(state.sample, state.idx, v)
      delta == IF idx = 1 \/ idx + 1 = size THEN 0 ELSE FloorError(idx + 1, size) + 1
  IN [sample |-> InsertAt(state.sample, idx + 1, Item(v, 1, delta)), idx |-> idx + 1]

insert_batch(c) ==
  IF c.buffer = << >>
  THEN c
  ELSE LET sorted == SortSeq(c.buffer, LAMBDA a, b : a < b)
           first == c.sample = << >>
           start == [sample |-> IF first THEN <<Item(Head(sorted), 1, 0)>> ELSE c.sample, idx |-> 1]
           rest == IF first THEN Tail(sorted) ELSE sorted
       IN [count |-> c.count + Len(sorted), sample |-> FoldLeft(insert_value, start, rest).sample, buffer |-> << >>]

(* The sample before is merged into the next one and erased. *)
Merge(sample, prev, next) ==
  RemoveAt([sample EXCEPT ![next + 1].g = @ + sample[prev + 1].g], prev + 1)

(* The loop of compress: next and idx are not moved back when prev is      *)
(* erased, so the pair after a merge is skipped.                           *)
RECURSIVE CompressFrom(_, _, _)
CompressFrom(sample, next, idx) ==
  IF idx >= Len(sample)
  THEN sample
  ELSE LET a == sample[next + 1]
           b == sample[idx + 1]
           merged == IF Allowed(a.g + b.g + b.delta, idx, Len(sample)) THEN Merge(sample, next, idx) ELSE sample
       IN CompressFrom(merged, idx, idx + 1)

compress(c) == IF Len(c.sample) < 2 THEN c ELSE [c EXCEPT !.sample = CompressFrom(@, 0, 1)]

insert(c, v) ==
  LET added == [c EXCEPT !.buffer = Append(@, v)]
  IN IF Len(added.buffer) = BufferSize THEN compress(insert_batch(added)) ELSE added

(* The first sample whose successor could lie past the desired rank by     *)
(* more than half the allowed error                                        *)
get(c, q) ==
  IF c.sample = << >>
  THEN NaN
  ELSE LET n == Len(c.sample)
           desired == (q * c.count) \div Unit
           RankMin(i) == FoldLeft(LAMBDA r, s : r + s.g, 0, SubSeq(c.sample, 1, i))
           past(i) == ~Allowed(2 * (RankMin(i) + c.sample[i + 1].g + c.sample[i + 1].delta - desired), desired, n)
           found == {i \in 1..(n - 1) : past(i)}
       IN c.sample[IF found = {} THEN n ELSE Min(found)].value

reset(c) == Empty

(* Every interval that has passed resets the current bucket and makes the  *)
(* next one current.  A rotation is made up late, by the next call.        *)
Rotations(s) == Max({k \in 0..MaxTime : k = 0 \/ clock - s.rotated > k * Interval})

(* Mutant: the next bucket is made current first and then reset. *)
Mutrotate(s) ==
  LET n == Rotations(s)
      stale == {(s.current + k) % AgeBuckets : k \in 1..n}
  IN [s EXCEPT !.buckets = [i \in DOMAIN @ |-> IF i \in stale THEN reset(@[i]) ELSE @[i]],
               !.current = (@ + n) % AgeBuckets, !.rotated = @ + n * Interval]

rotate(s) ==
  LET n == Rotations(s)
      stale == {(s.current + k) % AgeBuckets : k \in 0..(n - 1)}
  IN [s EXCEPT !.buckets = [i \in DOMAIN @ |-> IF i \in stale THEN reset(@[i]) ELSE @[i]],
               !.current = (@ + n) % AgeBuckets, !.rotated = @ + n * Interval]

(* wrapper<summary>::impl::observe: into every bucket of the window *)
SummaryObserve(s, v) ==
  LET r == rotate(s)
  IN [r EXCEPT !.count = @ + 1, !.sum = @ + v, !.buckets = [i \in DOMAIN @ |-> insert(@[i], v)]]

(* Asking for a quantile first sorts the buffer of the current bucket into *)
(* its samples and compresses them; once per configured quantile.          *)
Settle(c) == compress(insert_batch(c))

Settled(s) ==
  LET r == rotate(s)
  IN [r EXCEPT !.buckets[r.current] = FoldLeft(LAMBDA c, t : Settle(c), @, SetToSeq(targets))]

(* The bucket as the i-th of the quantiles finds it *)
Answer(s, i) ==
  LET r == rotate(s)
      order == SetToSeq(targets)
  IN <<order[i].q, get(FoldLeft(LAMBDA c, t : Settle(c), r.buckets[r.current], SubSeq(order, 1, i)), order[i].q)>>

LowerBound(v) == Cardinality({b \in 1..Len(Boundaries) : Boundaries[b] < v}) + 1

HistogramObserve(h, v) == [h EXCEPT !.sum = @ + v, !.buckets[LowerBound(v)] = @ + 1]

Cumulative(h) == [i \in DOMAIN h.buckets |-> FoldLeft(LAMBDA a, b : a + b, 0, SubSeq(h.buckets, 1, i))]

NoScrape == [at |-> -1, quantiles |-> << >>, cumulative |-> << >>, count |-> 0]

Init ==
  /\ \A i \in 1..(Len(Boundaries) - 1) : Boundaries[i] < Boundaries[i + 1]
  /\ targets \in TargetSets
  /\ summary = [count |-> 0, sum |-> 0, buckets |-> [i \in 0..(AgeBuckets - 1) |-> Empty], current |-> 0, rotated |-> 0]
  /\ histogram = [buckets |-> [i \in 1..(Len(Boundaries) + 1) |-> 0], sum |-> 0]
  /\ clock = 1 /\ observed = << >> /\ scrape = NoScrape

Observe(v) ==
  /\ Len(observed) < MaxObservations
  /\ summary' = SummaryObserve(summary, v)
  /\ histogram' = HistogramObserve(histogram, v)
  /\ observed' = Append(observed, [at |-> clock, value |-> v])
  /\ scrape' = NoScrape
  /\ UNCHANGED <<targets, clock>>

GetSample ==
  /\ summary' = Settled(summary)
  /\ scrape' = [at |-> clock, count |-> summary.count, cumulative |-> Cumulative(histogram),
                quantiles |-> [i \in 1..Cardinality(targets) |-> Answer(summary, i)]]
  /\ UNCHANGED <<targets, histogram, clock, observed>>

Tick ==
  /\ clock < MaxTime
  /\ clock' = clock + 1
  /\ scrape' = NoScrape
  /\ UNCHANGED <<targets, summary, histogram, observed>>

Next == GetSample \/ Tick \/ \E v \in Values : Observe(v)

Spec == Init /\ [][Next]_metricVars

Since(t) == SelectSeq(observed, LAMBDA o : o.at > t)

(* The samples of every bucket are sorted and together weigh as much as    *)
(* the observations of the bucket, and the bucket a scrape asks is exactly *)
(* the window: nothing older than AgeBuckets intervals and everything of   *)
(* the last AgeBuckets - 1.                                                *)
WindowExact ==
  LET c == summary.buckets[summary.current]
      total == c.count + Len(c.buffer)
  IN /\ \A i \in DOMAIN summary.buckets :
          LET b == summary.buckets[i]
          IN /\ FoldLeft(LAMBDA r, s : r + s.g, 0, b.sample) = b.count
             /\ \A j \in 1..(Len(b.sample) - 1) : b.sample[j].value <= b.sample[j + 1].value
     /\ scrape.at >= 0 =>
          /\ total >= Len(Since(clock - (AgeBuckets - 1) * Interval))
          /\ total <= Len(SelectSeq(observed, LAMBDA o : o.at >= clock - AgeBuckets * Interval))

(* The observations of the window *)
Window == Since(summary.rotated - (AgeBuckets - 1) * Interval)

(* A quantile is answered with a value of the window, and with no number    *)
(* exactly when the window is empty; and the largest observation of the     *)
(* window is still a sample, whatever was merged: however the observations  *)
(* are batched, compressed, rotated away and scraped between.  How far the  *)
(* answer's rank is from the quantile's is not promised: the error that is  *)
(* allowed counts samples, not the observations they stand for.             *)
QuantilesOfWindow ==
  scrape.at >= 0 =>
    LET seen == {Window[j].value : j \in DOMAIN Window} IN
    /\ \A i \in DOMAIN scrape.quantiles :
         IF seen = {} THEN scrape.quantiles[i][2] = NaN ELSE scrape.quantiles[i][2] \in seen
    /\ seen # {} => Last(summary.buckets[summary.current].sample).value = Max(seen)

(* The histogram's buckets are cumulative: each counts the observations up *)
(* to its boundary, the last one counts all of them.                       *)
HistogramExact ==
  scrape.at >= 0 =>
    /\ \A i \in 1..Len(Boundaries) :
         scrape.cumulative[i] = Len(SelectSeq(observed, LAMBDA o : o.value <= Boundaries[i]))
    /\ scrape.cumulative[Len(Boundaries) + 1] = scrape.count

=============================================================================
