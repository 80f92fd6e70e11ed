------------------------------ MODULE JsArrays ------------------------------
(* The array idioms of JavaScript that the analysis code is written with,    *)
(* over sequences: map, sort (stable, as the language requires), slice from  *)
(* the front, the Map keyed by a string that keeps the first entry of each   *)
(* key in insertion order, and reduce by addition.                           *)
EXTENDS Integers, SequencesExt

\* Array.prototype.map
Mapped(s, Of(_)) == [i \in DOMAIN s |-> Of(s[i])]

\* Array.prototype.slice(0, n)
FirstOf(s, n) == SubSeq(s, 1, Min({n, Len(s)}))

\* The elements of s at the places of I, smaller keys first and in their own order among
\* equals. What filter and sort leave, in a form that can be reasoned about
Arranged(s, I, key) ==
  LET place(i) == Cardinality({j \in I : key[j] < key[i] \/ (key[j] = key[i] /\ j <= i)})
  IN [k \in 1..Cardinality(I) |-> s[CHOOSE i \in I : place(i) = k]]

\* Array.prototype.sort, comparing one number of each element
Ascending(s, Key(_))  == Arranged(s, DOMAIN s, [i \in DOMAIN s |-> Key(s[i])])
Descending(s, Key(_)) == Arranged(s, DOMAIN s, [i \in DOMAIN s |-> -Key(s[i])])

Picked(s, I) == Arranged(s, I, [i \in I |-> i])

\* Array.prototype.filter
Filtered(s, Test(_)) == Picked(s, {i \in DOMAIN s : Test(s[i])})

\* a Map keyed by all that an entry says of itself
OnceEach(s) == Picked(s, {i \in DOMAIN s : \A j \in 1..(i - 1) : s[j] # s[i]})

\* Array.prototype.reduce with +
Total(numbers) ==
  LET sum[n \in 0..Len(numbers)] == IF n = 0 THEN 0 ELSE sum[n - 1] + numbers[n] IN sum[Len(numbers)]
SumOf(s, Of(_)) == Total([i \in DOMAIN s |-> Of(s[i])])

\* a Map filled in order, when an entry that is there is kept
OnePerKey(s, Key(_)) == Picked(s, {i \in DOMAIN s : \A j \in 1..(i - 1) : Key(s[j]) # Key(s[i])})

\* the keys of a Map filled in order
KeysOf(s, Key(_)) == Mapped(OnePerKey(s, Key), Key)

\* how many elements of s satisfy Test, and those that do at all
CountOf(s, Test(_)) == Cardinality({i \in DOMAIN s : Test(s[i])})
AnyOf(s, Test(_))   == \E i \in DOMAIN s : Test(s[i])

\* Array.prototype.find, with what stands for undefined
FirstThat(s, Test(_), otherwise) ==
  LET found == {i \in DOMAIN s : Test(s[i])}
  IN IF found = {} THEN otherwise ELSE s[Min(found)]
=============================================================================
