---------------------------- MODULE UnorderedBimap ----------------------------
(***************************************************************************)
(* unordered_bimap (containers/unordered_bimap.h): two maps that are each  *)
(* other's inverse as long as nothing is given twice.  emplace of          *)
(* std::unordered_map keeps the entry that is there.                       *)
(***************************************************************************)
EmptyBimap == [left |-> <<>>, right |-> <<>>]

EmplaceIn(f, k, v) == [x \in DOMAIN f \cup {k} |-> IF x \in DOMAIN f THEN f[x] ELSE v]

Emplace(map, l, r) == [left |-> EmplaceIn(map.left, l, r), right |-> EmplaceIn(map.right, r, l)]

\* Where the maps agree: whatever one of them finds, the other one leads back.
LeadsBack(map, l) == l \in DOMAIN map.left /\ map.right[map.left[l]] = l
=============================================================================
