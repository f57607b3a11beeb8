----------------------------- MODULE Positions -----------------------------
(***************************************************************************)
(* Sequences as the containers of C++: what an algorithm finds, removes    *)
(* and inserts, told by positions; and assigning to an element of a map.   *)
(* Most of it has the names it has in the community module SequencesExt,   *)
(* of which there would be an instance for each component, and every proof *)
(* would have to read all of them.                                         *)
(***************************************************************************)
EXTENDS Integers, Sequences, FiniteSetsExt, Functions

ToSet(s) == {s[i] : i \in DOMAIN s}
Last(s)  == s[Len(s)]
Front(s) == SubSeq(s, 1, Len(s) - 1)

(* insert() and erase() at an iterator.                                    *)
RemoveAt(s, i)    == SubSeq(s, 1, i - 1) \o SubSeq(s, i + 1, Len(s))
InsertAt(s, i, e) == SubSeq(s, 1, i - 1) \o <<e>> \o SubSeq(s, i, Len(s))

(* std::find_if: the first position that passes, 0 if there is none.       *)
SelectInSeq(s, Passes(_)) ==
  LET found == {i \in DOMAIN s : Passes(s[i])} IN IF found = {} THEN 0 ELSE Min(found)

(* std::remove_if with erase(): the elements at the positions K, in order. *)
Nth(K, i)  == CHOOSE k \in K : Cardinality({j \in K : j <= k}) = i
Kept(s, K) == [i \in 1..Cardinality(K) |-> s[Nth(K, i)]]

(* The orders in which a hash table may iterate.                           *)
SetToSeqs(S) == {f \in [1..Cardinality(S) -> S] : IsInjective(f)}
SetToSeq(S)  == CHOOSE f \in [1..Cardinality(S) -> S] : IsInjective(f)
Reverse(s)   == [i \in DOMAIN s |-> s[Len(s) - i + 1]]

(* operator[] of a map, assigned to.                                       *)
Put(map, key, value) ==
  [k \in DOMAIN map \cup {key} |-> IF k = key THEN value ELSE map[k]]

IsPrefix(s, t) == Len(s) <= Len(t) /\ SubSeq(t, 1, Len(s)) = s
IsSuffix(s, t) == Len(s) <= Len(t) /\ SubSeq(t, Len(t) - Len(s) + 1, Len(t)) = s
=============================================================================
