----------------------------- MODULE Collections -----------------------------
(***************************************************************************)
(* JavaScript's arrays as sequences (includes, splice, indexOf), and pools *)
(* of requests that are on their way, as functions to how many there are.  *)
(* SequencesExt and Bags have such operators too; the pages do not extend  *)
(* them because an instance of Bags costs the proof system seconds on each *)
(* obligation of the modules above.                                        *)
(***************************************************************************)
EXTENDS Integers, Sequences, FiniteSetsExt, Functions

Contains(s, e) == \E i \in DOMAIN s : s[i] = e
RemoveAt(s, i) == SubSeq(s, 1, i - 1) \o SubSeq(s, i + 1, Len(s))
indexOf(s, e) == Min({i \in DOMAIN s : s[i] = e})
Remove(s, e) == RemoveAt(s, indexOf(s, e))
SetToSeq(S) == CHOOSE f \in [1..Cardinality(S) -> S] : IsInjective(f)

emptyPool == <<>>
copies(pool, e) == IF e \in DOMAIN pool THEN pool[e] ELSE 0
with(pool, e) == [x \in DOMAIN pool \cup {e} |-> copies(pool, x) + (IF x = e THEN 1 ELSE 0)]
without(pool, e) == [x \in DOMAIN pool \ (IF copies(pool, e) <= 1 THEN {e} ELSE {}) |->
                        IF x = e THEN pool[x] - 1 ELSE pool[x]]
countAll(pool) == Cardinality(UNION {{e} \X (1..pool[e]) : e \in DOMAIN pool})
=============================================================================
