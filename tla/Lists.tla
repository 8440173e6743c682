-------------------------------- MODULE Lists --------------------------------
(***************************************************************************)
(* What the program does to the containers of the standard library: a      *)
(* vector from which std::erase_if takes elements, a map that is assigned  *)
(* to, and one that is walked. They are a fold, a function and a choice,   *)
(* for SelectSeq, @@ and SortSeq mean nothing to the provers.              *)
(***************************************************************************)
EXTENDS Integers, Sequences, SequencesExt

\* What is left of a list when all goes that is not in the set.
Within(list, set) == FoldLeft(LAMBDA kept, x : IF x \in set THEN Append(kept, x) ELSE kept, <<>>, list)

\* m[key] = value
Assigned(m, key, value) == [k \in DOMAIN m \cup {key} |-> IF k = key THEN value ELSE m[k]]

\* The keys of a map, in the order of a walk: that of their names, of which nothing is assumed.
Walk(keys) == SetToSeq(keys)

\* A sequence, of whatever.
IsList(list) == list \in Seq(Range(list))
=============================================================================
