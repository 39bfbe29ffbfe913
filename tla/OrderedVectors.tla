---------------------------- MODULE OrderedVectors ----------------------------
(***************************************************************************)
(* sorted_vector and unique_vector (containers): a multiset and a set kept *)
(* in a sorted vector, with a binary search in front of every operation.   *)
(* The program's order looks at the key of an element, == at all of it.    *)
(*                                                                         *)
(* One vector of either kind lives through a sequence of operations.       *)
(* Iterators are positions; std::vector and <algorithm> are external.      *)
(***************************************************************************)
EXTENDS Naturals, Sequences, SequencesExt

CONSTANTS
    Elements,
    Keys,           \* keys are 1 .. Keys
    MaxLen,         \* bounds the vector
    MaxRange,       \* and the ranges given to it
    Comparator      \* "less", or "string_compare" of string.h for string views

OrderedVectorsAssumption ==
    /\ Keys \in Nat \ {0}
    /\ MaxLen \in Nat /\ MaxRange \in 0 .. MaxLen
    /\ Comparator \in {"less", "string_compare"}

VARIABLES
    kind,   \* "sorted" or "unique"
    key,    \* what the order looks at
    data,   \* m_data
    count   \* how many of each element there should be (for the properties)

vars == <<kind, key, data, count>>

Ranges == SeqOf(Elements, MaxRange)

TypeOK ==
    /\ kind \in {"sorted", "unique"}
    /\ key \in [Elements -> 1 .. Keys]
    /\ data \in Seq(Elements) /\ Len(data) <= MaxLen
    /\ count \in [Elements -> Nat]

\* CompareT.  string_compare returns what string_view::compare returns, as a bool.
Less(a, b) == IF Comparator = "less" THEN key[a] < key[b] ELSE a # b

\* std::partition_point
PartitionPoint(s, v) ==
    LET search[first \in 1 .. Len(s) + 1, len \in 0 .. Len(s)] ==
          LET half == len \div 2 IN
          IF len = 0 THEN first
          ELSE IF Less(s[first + half], v) THEN search[first + half + 1, len - half - 1]
               ELSE search[first, half]
    IN  search[1, Len(s)]

\* find returns this position, or end().
IsFound(s, v) ==
    LET part == PartitionPoint(s, v) IN part <= Len(s) /\ s[part] = v

SortedInsert(s, v) == InsertAt(s, PartitionPoint(s, v), v)

\* An insertion that looks for the element behind its place.
BugUniqueInsert(s, v) ==
    LET part == PartitionPoint(s, v) IN
    IF part < Len(s) /\ s[part + 1] = v THEN s ELSE InsertAt(s, part, v)

UniqueInsert(s, v) == IF IsFound(s, v) THEN s ELSE InsertAt(s, PartitionPoint(s, v), v)

SortedInsertRange(s, range) == FoldLeft(SortedInsert, s, range)
UniqueInsertRange(s, range) == FoldLeft(UniqueInsert, s, range)

\* std::inplace_merge of s and t behind it, and std::set_union, which takes one
\* of two elements that are equivalent.
Merged(s, t, union) ==
    LET merge[i \in 1 .. Len(s) + 1, j \in 1 .. Len(t) + 1] ==
          IF i > Len(s) THEN SubSeq(t, j, Len(t))
          ELSE IF j > Len(t) THEN SubSeq(s, i, Len(s))
          ELSE IF Less(t[j], s[i]) THEN <<t[j]>> \o merge[i, j + 1]
          ELSE <<s[i]>> \o merge[i + 1, IF union /\ ~Less(s[i], t[j]) THEN j + 1 ELSE j]
    IN  merge[1, 1]

SortedMerge(s, t) == Merged(s, t, FALSE)
UniqueMerge(s, t) == Merged(s, t, TRUE)

\* The assertions of insert_presorted, which the callers keep.  (That of
\* unique_vector on a range tests an iterator; what is meant is meant here.)
IsPresorted(s) ==
    \A i, j \in DOMAIN s : i < j =>
        IF kind = "sorted" THEN ~Less(s[j], s[i]) ELSE Less(s[i], s[j])

-----------------------------------------------------------------------------
Occurrences(s, e) == Len(SelectSeq(s, LAMBDA x : x = e))

\* What range adds to the elements there should be.
Plus(range) ==
    [e \in Elements |->
       IF kind = "sorted" THEN count[e] + Occurrences(range, e)
       ELSE IF Occurrences(range, e) > 0 THEN 1 ELSE count[e]]

Becomes(s, range) ==
    /\ Len(s) <= MaxLen
    /\ data' = s
    /\ count' = Plus(range)
    /\ UNCHANGED <<kind, key>>

Init ==
    /\ kind \in {"sorted", "unique"}
    /\ key \in [Elements -> 1 .. Keys]
    /\ data = <<>>
    /\ count = [e \in Elements |-> 0]

Insert(v) ==
    Becomes(IF kind = "sorted" THEN SortedInsert(data, v) ELSE UniqueInsert(data, v), <<v>>)

InsertRange(range) ==
    Becomes(IF kind = "sorted" THEN SortedInsertRange(data, range)
                               ELSE UniqueInsertRange(data, range), range)

InsertPresorted(v) ==
    /\ data # <<>> => Less(Last(data), v) \/ (kind = "sorted" /\ Last(data) = v)
    /\ Becomes(Append(data, v), <<v>>)

InsertPresortedRange(range) ==
    data = <<>> /\ IsPresorted(range) /\ Becomes(range, range)

\* With another vector of the kind, made from a range, or with itself.
Merge(range) ==
    Becomes(IF kind = "sorted" THEN SortedMerge(data, SortedInsertRange(<<>>, range))
                               ELSE UniqueMerge(data, UniqueInsertRange(<<>>, range)), range)

\* (std::vector's insert does not allow a range of its own, which merge gives it
\* here, as ContainerUnitTest.cpp:44 does; at the end the implementations copy
\* what was there.)
MergeItself ==
    Becomes(IF kind = "sorted" THEN SortedMerge(data, data) ELSE UniqueMerge(data, data), data)

\* erase of one position or of a range of them; unique_vector has none.
Erase(i, j) ==
    /\ kind = "sorted"
    /\ data' = SubSeq(data, 1, i - 1) \o SubSeq(data, j + 1, Len(data))
    /\ count' = [e \in Elements |-> count[e] - Occurrences(SubSeq(data, i, j), e)]
    /\ UNCHANGED <<kind, key>>

Clear ==
    /\ data' = <<>>
    /\ count' = [e \in Elements |-> 0]
    /\ UNCHANGED <<kind, key>>

Next ==
    \/ \E v \in Elements : Insert(v) \/ InsertPresorted(v)
    \/ \E range \in Ranges : InsertRange(range) \/ InsertPresortedRange(range) \/ Merge(range)
    \/ MergeItself
    \/ \E i, j \in DOMAIN data : i <= j /\ Erase(i, j)
    \/ Clear

Spec == Init /\ [][Next]_vars

-----------------------------------------------------------------------------
(***************************************************************************)
(* A sorted_vector is sorted and holds what was put into it, elements that *)
(* are equivalent but not equal included; a unique_vector is a sorted set  *)
(* where the order tells its elements apart.  find finds what is there,    *)
(* under the same condition, through whatever inserts, merges and erasures *)
(* came before.                                                            *)
(***************************************************************************)
TellsApart == \A a, b \in Elements : key[a] = key[b] => a = b

HoldsItsElements ==
    /\ \A i, j \in DOMAIN data : i < j => key[data[i]] <= key[data[j]]
    /\ kind = "sorted" \/ TellsApart => \A e \in Elements : Occurrences(data, e) = count[e]
    /\ TellsApart => \A e \in Elements : IsFound(data, e) <=> count[e] > 0
=============================================================================
