-------------------------------- MODULE Sorting --------------------------------
(***************************************************************************)
(* Array.prototype.sort, for comparators that decide between any two       *)
(* elements of the array: those of stockMath.ts, allocation.ts and         *)
(* ruleSelection.ts compare a unique id last.                              *)
(***************************************************************************)
EXTENDS Integers, Sequences, Functions

(* The elements of s in the order Before. *)
Sorted(s, Before(_, _)) ==
  LET order == CHOOSE p \in Bijection(DOMAIN s, DOMAIN s) :
                 \A i, j \in DOMAIN s : i < j => Before(s[p[i]], s[p[j]])
  IN  [i \in DOMAIN s |-> s[order[i]]]
===============================================================================
