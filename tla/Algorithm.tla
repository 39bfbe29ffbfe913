------------------------------- MODULE Algorithm -------------------------------
(***************************************************************************)
(* The functions of algorithm.h and math.h, against what they are for.     *)
(* Numbers are unsigned and wrap around after Modulus; a square root is    *)
(* rounded down.  A range is a sequence.  std::nth_element, max_element    *)
(* and prev_permutation are external.                                      *)
(*                                                                         *)
(* There are no steps: every state is one input.                           *)
(***************************************************************************)
EXTENDS Naturals, Sequences, SequencesExt, FiniteSetsExt

CONSTANTS
    Modulus,        \* 2^w
    Data,           \* what ranges hold
    Numbers,        \* what the functions of math.h are called with
    MaxRange        \* how long ranges are

AlgorithmAssumption ==
    /\ Modulus \in Nat \ {0} /\ MaxRange \in Nat
    /\ Data \cup Numbers \subseteq 0 .. Modulus - 1

VARIABLE
    input   \* what the functions are called with

Wrap(n) == n % Modulus

Increasing(s) == \A i \in 1 .. Len(s) - 1 : s[i] <= s[i + 1]
Occurrences(s, v) == Cardinality({i \in DOMAIN s : s[i] = v})

Ranges == SeqOf(Data, MaxRange)

\* Two ranges, or a range and a size, or three numbers.
Init ==
    \/ \E s, t \in {r \in Ranges : Increasing(r)} :
         input = [call |-> "intersect", range |-> s, other |-> t]
    \/ \E s \in Ranges : \E k \in 0 .. MaxRange + 1 :
         input = [call |-> "range", range |-> s, size |-> k]
    \/ \E n, d, e \in Numbers : input = [call |-> "numbers", number |-> n, low |-> d, high |-> e]

-----------------------------------------------------------------------------
(* algorithm.h.  Definitions named "Bug..." are wrong variants of the one    *)
(* that follows.                                                             *)

\* A count that advances in one range at a match.
BugSetIntersectionCount(s, t) ==
    LET count[i \in 1 .. Len(s) + 1, j \in 1 .. Len(t) + 1] ==
          CASE i > Len(s) \/ j > Len(t) -> 0
            [] i <= Len(s) /\ j <= Len(t) /\ s[i] < t[j] -> count[i + 1, j]
            [] i <= Len(s) /\ j <= Len(t) /\ t[j] < s[i] -> count[i, j + 1]
            [] OTHER -> 1 + count[i, j + 1]
    IN  count[1, 1]

SetIntersectionCount(s, t) ==
    LET count[i \in 1 .. Len(s) + 1, j \in 1 .. Len(t) + 1] ==
          CASE i > Len(s) \/ j > Len(t) -> 0
            [] i <= Len(s) /\ j <= Len(t) /\ s[i] < t[j] -> count[i + 1, j]
            [] i <= Len(s) /\ j <= Len(t) /\ t[j] < s[i] -> count[i, j + 1]
            [] OTHER -> 1 + count[i + 1, j + 1]
    IN  count[1, 1]

\* std::prev_permutation of a mask, or the empty sequence where there is none:
\* the last 1 before a 0 steps behind it, with all that follow.
PrevPermutation(mask) ==
    LET drops == {i \in 1 .. Len(mask) - 1 : mask[i] = 1 /\ mask[i + 1] = 0}
        i == Max(drops)
        ones == Cardinality({j \in i + 2 .. Len(mask) : mask[j] = 1})
    IN  IF drops = {} THEN <<>>
        ELSE [j \in DOMAIN mask |->
                CASE j < i -> mask[j]
                  [] j = i -> 0
                  [] j > i -> IF j <= i + 1 + ones THEN 1 ELSE 0]

\* resize cuts a mask of too many ones.
FirstMask(n, k) == [i \in 1 .. n |-> IF i <= k THEN 1 ELSE 0]

\* All that the loop goes through; it ends at the last permutation.
Masks(n, k) ==
    FoldLeft(LAMBDA all, i :
               LET next == PrevPermutation(Last(all)) IN
               IF next = <<>> THEN all ELSE Append(all, next),
             <<FirstMask(n, k)>>, [i \in 1 .. 2 ^ n |-> i])

ComputeSubsets(s, k) ==
    IF s = <<>> THEN <<>>
    ELSE LET masks == Masks(Len(s), k) IN
         [m \in DOMAIN masks |-> {s[i] : i \in {j \in DOMAIN s : masks[m][j] = 1}}]

\* What std::nth_element puts at position n.
NthElement(s, n) == SortSeq(s, LAMBDA a, b : a < b)[n]

Median(s) ==
    LET half == Len(s) \div 2 IN
    IF Len(s) % 2 = 1 THEN NthElement(s, half + 1)
    ELSE Wrap(NthElement(s, half) + NthElement(s, half + 1)) \div 2

Total(s) == FoldLeft(LAMBDA a, v : Wrap(a + v), 0, s)
Mean(s) == Total(s) \div Len(s)
Squared(s) == [i \in DOMAIN s |-> Wrap(s[i] * s[i])]

\* sqrt
Root(n) == Max({r \in 0 .. n : r * r <= n})

PopulationStandardDeviation(total, squared, n) ==
    Root(Wrap(n * squared + Modulus * Modulus - total * total)) \div n

\* The deltas may be below zero, and wrap; their squares do not notice.
StandardDeviation(s) ==
    Root(Total([i \in DOMAIN s |->
           LET delta == Wrap(s[i] + Modulus - Mean(s)) IN Wrap(delta * delta)])
         \div (Len(s) - 1))

\* math.h
DivideRoundUp(n, d) == Wrap(n + d - 1) \div d
Larger(a, b) == IF a > b THEN a ELSE b
Smaller(a, b) == IF b < a THEN b ELSE a
Clamp(v, low, high) == Smaller(high, Larger(low, v))

-----------------------------------------------------------------------------
(* What the functions are for. *)

\* What two multisets share.
Counts(s, t) ==
    SetIntersectionCount(s, t) =
        FoldSet(LAMBDA v, n : n + Min({Occurrences(s, v), Occurrences(t, v)}), 0, Data)

IsDistinct(s) == \A i, j \in DOMAIN s : s[i] = s[j] => i = j

\* All subsets of a size, each once; beyond the size of the range the range
\* itself, and of an empty range none at all.
GivesSubsets(s, k) ==
    s # <<>> /\ IsDistinct(s) =>
        /\ IsDistinct(ComputeSubsets(s, k))
        /\ ToSet(ComputeSubsets(s, k)) = kSubset(Min({k, Len(s)}), ToSet(s))

\* As many elements lie below a median as above it (rounded, where it is
\* between two of them).
Halves(s) ==
    /\ 2 * Cardinality({i \in DOMAIN s : s[i] < Median(s)}) <= Len(s)
    /\ 2 * Cardinality({i \in DOMAIN s : s[i] > Median(s) + (1 - (Len(s) % 2))}) <= Len(s)

\* All squared differences: n times the sum of squares less the squared sum.
Differences(s) ==
    FoldSet(LAMBDA p, n : n + (s[p[2]] - s[p[1]]) * (s[p[2]] - s[p[1]]), 0,
            {p \in (DOMAIN s) \X (DOMAIN s) : s[p[1]] < s[p[2]]})

\* The two deviations agree, up to their denominators, where the mean is exact.
Deviates(s) ==
    LET n == Len(s) IN
    /\ PopulationStandardDeviation(Total(s), Total(Squared(s)), n) = Root(Differences(s)) \div n
    /\ n > 1 /\ Total(s) % n = 0 =>
         StandardDeviation(s) = Root((Differences(s) \div n) \div (n - 1))

Fits(s) == \A v \in ToSet(s) : v * v * Len(s) * Len(s) < Modulus

\* The smallest number of parts of d that make up n, unless n + d - 1 wraps
\* around; a value in its bounds, or the upper one where they are crossed.
Rounds(n, d) ==
    d # 0 /\ n + d - 1 < Modulus =>
        DivideRoundUp(n, d) = Min({q \in 0 .. n : q * d >= n})
Clamps(v, low, high) ==
    Clamp(v, low, high) =
        IF low > high THEN high ELSE Min({high} \cup {x \in {v, low} : x >= v /\ x >= low})

(***************************************************************************)
(* The functions agree with what they are for, at every boundary of their  *)
(* ranges: empty and full, with repeated elements, with counts beyond the  *)
(* size, and with numbers next to the largest one, as far as no sum wraps. *)
(***************************************************************************)
AgreeWithReference ==
    CASE input.call = "intersect" -> Counts(input.range, input.other)
      [] input.call = "range" ->
           LET s == input.range IN
           /\ GivesSubsets(s, input.size)
           /\ s # <<>> /\ (\A v, u \in ToSet(s) : u + v < Modulus) => Halves(s)
           /\ s # <<>> /\ Fits(s) => Deviates(s)
      [] input.call = "numbers" ->
           Rounds(input.number, input.low) /\ Clamps(input.number, input.low, input.high)
=============================================================================
