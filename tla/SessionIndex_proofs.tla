------------------------ MODULE SessionIndex_proofs ------------------------
(***************************************************************************)
(* Proofs about SessionIndex, for every set of server processes and        *)
(* sessions, all limits and all sizes of entries: type correctness, that   *)
(* the lock file is held by the one process that saves and by no other,    *)
(* that the index can always be read back, that no update of another       *)
(* process is lost, that what was just used is evicted last, and that      *)
(* searches are never served what another version of a session said.       *)
(***************************************************************************)
EXTENDS SessionIndex, SequenceTheorems, WellFoundedInduction, TLAPS

-----------------------------------------------------------------------------
(* Numbers and sequences.                                                  *)

\* A set of numbers has a least one.
LEMMA LeastNumber ==
    ASSUME NEW T \in SUBSET Nat, T # {}
    PROVE  \E m \in T : \A n \in T : m <= n
<1> DEFINE R == OpToRel(<, Nat)
<1>1. \A a, b \in Nat : a < b => <<a, b>> \in R
  BY DEF OpToRel
<1>2. IsWellFoundedOn(R, Nat)
  BY NatLessThanWellFounded
<1> HIDE DEF R
<1>3. PICK m \in T : \A n \in T : <<n, m>> \notin R
  BY <1>2, WFMin
<1>4. \A n \in T : ~ (n < m)
  BY <1>1, <1>3
<1>5. \A n \in T : m <= n
  BY <1>4
<1> QED  BY <1>5

LEMMA RemoveAtElements ==
    ASSUME NEW S, NEW s \in Seq(S), NEW i \in 1..Len(s)
    PROVE  /\ RemoveAt(s, i) \in Seq(S)
           /\ Len(RemoveAt(s, i)) = Len(s) - 1
           /\ \A j \in 1..(i - 1) : RemoveAt(s, i)[j] = s[j]
           /\ \A j \in i..(Len(s) - 1) : RemoveAt(s, i)[j] = s[j + 1]
<1>1. PICK a, b : a = SubSeq(s, 1, i - 1) /\ b = SubSeq(s, i + 1, Len(s))
  OBVIOUS
<1>2. /\ a \in Seq(S) /\ Len(a) = i - 1 /\ \A j \in 1..(i - 1) : a[j] = s[j]
  BY <1>1
<1>3. /\ b \in Seq(S) /\ Len(b) = Len(s) - i
      /\ \A j \in 1..(Len(s) - i) : b[j] = s[i + j]
  BY <1>1
<1>4. RemoveAt(s, i) = a \o b
  BY <1>1 DEF RemoveAt
<1>5. /\ a \o b \in Seq(S) /\ Len(a \o b) = Len(a) + Len(b)
      /\ \A j \in 1..(Len(a) + Len(b)) :
            (a \o b)[j] = IF j <= Len(a) THEN a[j] ELSE b[j - Len(a)]
  BY <1>2, <1>3, ConcatProperties
<1>6. ASSUME NEW j \in 1..(i - 1)
      PROVE  (a \o b)[j] = s[j]
  BY <1>2, <1>3, <1>5
<1>7. ASSUME NEW j \in i..(Len(s) - 1)
      PROVE  (a \o b)[j] = s[j + 1]
  <2>1. j - Len(a) \in 1..(Len(s) - i) /\ i + (j - Len(a)) = j + 1
    BY <1>2
  <2> QED  BY <1>2, <1>3, <1>5, <2>1
<1> QED  BY <1>2, <1>3, <1>4, <1>5, <1>6, <1>7

\* What is left of s after its first n elements.
LEMMA RestElements ==
    ASSUME NEW S, NEW s \in Seq(S), NEW n \in 0..Len(s)
    PROVE  /\ SubSeq(s, n + 1, Len(s)) \in Seq(S)
           /\ Len(SubSeq(s, n + 1, Len(s))) = Len(s) - n
           /\ DOMAIN SubSeq(s, n + 1, Len(s)) = 1..(Len(s) - n)
           /\ \A j \in 1..(Len(s) - n) : SubSeq(s, n + 1, Len(s))[j] = s[n + j]
<1>1. PICK m : m = n + 1
  OBVIOUS
<1>2. PICK u : u = SubSeq(s, m, Len(s))
  OBVIOUS
<1>3. /\ u \in Seq(S) /\ Len(u) = Len(s) - m + 1
      /\ \A j \in 1..(Len(s) - m + 1) : u[j] = s[m + j - 1]
  BY <1>1, <1>2
<1>4. Len(s) - m + 1 = Len(s) - n
      /\ \A j \in 1..(Len(s) - n) : m + j - 1 = n + j
  BY <1>1
<1>5. /\ u \in Seq(S) /\ Len(u) = Len(s) - n /\ DOMAIN u = 1..(Len(s) - n)
      /\ \A j \in 1..(Len(s) - n) : u[j] = s[n + j]
  BY <1>3, <1>4
<1> QED  BY <1>1, <1>2, <1>5

\* ... and what is left of that after its first k.
LEMMA RestOfRest ==
    ASSUME NEW S, NEW s \in Seq(S), NEW n \in 0..Len(s),
           NEW t, t = SubSeq(s, n + 1, Len(s)), NEW k \in 0..Len(t)
    PROVE  SubSeq(t, k + 1, Len(t)) = SubSeq(s, n + k + 1, Len(s))
<1>1. /\ t \in Seq(S) /\ Len(t) = Len(s) - n
      /\ \A j \in 1..(Len(s) - n) : t[j] = s[n + j]
  BY RestElements
<1>2. PICK u : u = SubSeq(t, k + 1, Len(t))
  OBVIOUS
<1>3. /\ u \in Seq(S) /\ Len(u) = Len(t) - k
      /\ \A j \in 1..(Len(t) - k) : u[j] = t[k + j]
  BY <1>1, <1>2, RestElements
<1>4. PICK m \in 0..Len(s) : m = n + k
  BY <1>1
<1>5. PICK v : v = SubSeq(s, m + 1, Len(s))
  OBVIOUS
<1>6. /\ v \in Seq(S) /\ Len(v) = Len(s) - m
      /\ \A j \in 1..(Len(s) - m) : v[j] = s[m + j]
  BY <1>5, RestElements
<1>7. ASSUME NEW j \in 1..Len(u)
      PROVE  u[j] = v[j]
  <2>1. /\ j \in 1..(Len(t) - k) /\ k + j \in 1..(Len(s) - n)
        /\ j \in 1..(Len(s) - m) /\ n + (k + j) = m + j
    BY <1>1, <1>3, <1>4
  <2> QED  BY <1>1, <1>3, <1>6, <2>1
<1>8. Len(u) = Len(v)
  BY <1>1, <1>3, <1>4, <1>6
<1>9. u = v
  BY <1>3, <1>6, <1>7, <1>8, SeqEqual
<1> QED  BY <1>2, <1>4, <1>5, <1>9

-----------------------------------------------------------------------------
(* The dictionaries.                                                       *)

LEMMA EmptyIsDict == Dict(<<>>) /\ Range(<<>>) = {}
BY DEF Dict, Range

\* An entry is found under its key.
LEMMA EntryIsFound ==
    ASSUME NEW s, Dict(s), NEW e \in Range(s)
    PROVE  e \in Entry /\ Has(s, e.key) /\ Get(s, e.key) = e
<1>1. PICK i \in DOMAIN s : s[i] = e
  BY DEF Range
<1>2. i \in At(s, e.key)
  BY <1>1 DEF At
<1>3. PICK j : j = CHOOSE l \in At(s, e.key) : TRUE
  OBVIOUS
<1>4. j \in DOMAIN s /\ s[j].key = e.key
  BY <1>2, <1>3 DEF At
<1>5. j = i
  BY <1>1, <1>4 DEF Dict
<1>6. Get(s, e.key) = s[j]
  BY <1>3 DEF Get
<1>7. e \in Entry
  BY <1>1 DEF Dict
<1> QED  BY <1>1, <1>2, <1>5, <1>6, <1>7 DEF Has

\* What is found under a key is an entry of that key.
LEMMA FoundIsEntry ==
    ASSUME NEW s, Dict(s), NEW k, Has(s, k)
    PROVE  Get(s, k) \in Range(s) /\ Get(s, k).key = k /\ Get(s, k) \in Entry
<1>1. PICK j : j = CHOOSE i \in At(s, k) : TRUE
  OBVIOUS
<1>2. j \in DOMAIN s /\ s[j].key = k
  BY <1>1 DEF Has, At
<1>3. Get(s, k) = s[j]
  BY <1>1 DEF Get
<1>4. s[j] \in Entry
  BY <1>2 DEF Dict
<1> QED  BY <1>2, <1>3, <1>4 DEF Range

\* pop(k): the other entries stay, in their order.
LEMMA DropElements ==
    ASSUME NEW s, Dict(s), NEW k
    PROVE  \/ Drop(s, k) = s /\ \A i \in DOMAIN s : s[i].key # k
           \/ \E c \in 1..Len(s) :
                 /\ s[c].key = k
                 /\ Drop(s, k) \in Seq(Entry)
                 /\ Len(Drop(s, k)) = Len(s) - 1
                 /\ \A j \in 1..(c - 1) : Drop(s, k)[j] = s[j]
                 /\ \A j \in c..(Len(s) - 1) : Drop(s, k)[j] = s[j + 1]
<1>1. CASE ~Has(s, k)
  BY <1>1 DEF Drop, Has, At
<1>2. CASE Has(s, k)
  <2>1. PICK c : c = CHOOSE i \in At(s, k) : TRUE
    OBVIOUS
  <2>2. s \in Seq(Entry) /\ c \in 1..Len(s) /\ s[c].key = k
    BY <1>2, <2>1 DEF Has, At, Dict
  <2>3. Drop(s, k) = RemoveAt(s, c)
    BY <1>2, <2>1 DEF Drop
  <2>4. /\ Drop(s, k) \in Seq(Entry)
        /\ Len(Drop(s, k)) = Len(s) - 1
        /\ \A j \in 1..(c - 1) : Drop(s, k)[j] = s[j]
        /\ \A j \in c..(Len(s) - 1) : Drop(s, k)[j] = s[j + 1]
    BY <2>2, <2>3, RemoveAtElements
  <2> QED  BY <2>2, <2>4
<1> QED  BY <1>1, <1>2

LEMMA DropKeeps ==
    ASSUME NEW s, Dict(s), NEW k
    PROVE  /\ Dict(Drop(s, k))
           /\ Range(Drop(s, k)) = {e \in Range(s) : e.key # k}
<1>1. CASE Drop(s, k) = s /\ \A i \in DOMAIN s : s[i].key # k
  BY <1>1 DEF Range
<1>2. ASSUME NEW c \in 1..Len(s), s[c].key = k,
             Drop(s, k) \in Seq(Entry),
             Len(Drop(s, k)) = Len(s) - 1,
             \A j \in 1..(c - 1) : Drop(s, k)[j] = s[j],
             \A j \in c..(Len(s) - 1) : Drop(s, k)[j] = s[j + 1]
      PROVE  /\ Dict(Drop(s, k))
             /\ Range(Drop(s, k)) = {e \in Range(s) : e.key # k}
  <2>1. s \in Seq(Entry) /\ DOMAIN s = 1..Len(s)
        /\ \A i, j \in 1..Len(s) : s[i].key = s[j].key => i = j
    BY DEF Dict
  <2> DEFINE from(j) == IF j < c THEN j ELSE j + 1
  <2>2. ASSUME NEW j \in 1..(Len(s) - 1)
        PROVE  /\ from(j) \in 1..Len(s) /\ from(j) # c
               /\ Drop(s, k)[j] = s[from(j)]
    <3>1. CASE j < c
      BY <1>2, <2>1, <3>1
    <3>2. CASE ~(j < c)
      BY <1>2, <2>1, <3>2
    <3> QED  BY <3>1, <3>2
  <2>3. DOMAIN Drop(s, k) = 1..(Len(s) - 1)
    BY <1>2, <2>1
  <2>4. ASSUME NEW i \in 1..(Len(s) - 1), NEW j \in 1..(Len(s) - 1),
               from(i) = from(j)
        PROVE  i = j
    BY <2>4, <2>1
  <2>5. Dict(Drop(s, k))
    <3>1. ASSUME NEW i \in 1..(Len(s) - 1), NEW j \in 1..(Len(s) - 1),
                 Drop(s, k)[i].key = Drop(s, k)[j].key
          PROVE  i = j
      <4>1. from(i) = from(j)
        BY <2>1, <2>2, <3>1
      <4> QED  BY <4>1, <2>4
    <3> QED  BY <1>2, <2>3, <3>1 DEF Dict
  <2>6. ASSUME NEW e \in Range(Drop(s, k))
        PROVE  e \in Range(s) /\ e.key # k
    <3>1. PICK j \in 1..(Len(s) - 1) : e = Drop(s, k)[j]
      BY <2>3 DEF Range
    <3>2. e = s[from(j)] /\ from(j) \in 1..Len(s) /\ from(j) # c
      BY <2>2, <3>1
    <3> HIDE DEF from
    <3> QED  BY <1>2, <2>1, <3>2 DEF Range
  <2>7. ASSUME NEW e \in Range(s), e.key # k
        PROVE  e \in Range(Drop(s, k))
    <3>1. PICK i \in 1..Len(s) : e = s[i]
      BY <2>1 DEF Range
    <3>2. i # c
      BY <1>2, <2>7, <3>1
    <3>3. CASE i < c
      <4>1. Drop(s, k)[i] = e /\ i \in 1..(Len(s) - 1)
        BY <1>2, <2>1, <3>1, <3>3
      <4> QED  BY <2>3, <4>1 DEF Range
    <3>4. CASE i > c
      <4>1. i - 1 \in c..(Len(s) - 1) /\ i - 1 \in 1..(Len(s) - 1)
            /\ (i - 1) + 1 = i
        BY <2>1, <3>4
      <4>2. Drop(s, k)[i - 1] = e
        BY <1>2, <3>1, <4>1
      <4> QED  BY <2>3, <4>1, <4>2 DEF Range
    <3> QED  BY <2>1, <3>2, <3>3, <3>4
  <2> QED  BY <2>5, <2>6, <2>7
<1>3. CASE \E c \in 1..Len(s) :
              /\ s[c].key = k
              /\ Drop(s, k) \in Seq(Entry)
              /\ Len(Drop(s, k)) = Len(s) - 1
              /\ \A j \in 1..(c - 1) : Drop(s, k)[j] = s[j]
              /\ \A j \in c..(Len(s) - 1) : Drop(s, k)[j] = s[j + 1]
  BY <1>2, <1>3, Zenon
<1> QED  BY <1>1, <1>3, DropElements

\* entries[e.key] = e, then move_to_end: one entry a key still.
LEMMA PutKeeps ==
    ASSUME NEW s, Dict(s), NEW e \in Entry
    PROVE  /\ Dict(Put(s, e))
           /\ Range(Put(s, e)) = {f \in Range(s) : f.key # e.key} \cup {e}
<1> DEFINE d == Drop(s, e.key)
<1>1. Dict(d) /\ Range(d) = {f \in Range(s) : f.key # e.key}
  BY DropKeeps
<1> HIDE DEF d
<1>2. /\ d \in Seq(Entry) /\ DOMAIN d = 1..Len(d) /\ Len(d) \in Nat
      /\ \A i, j \in 1..Len(d) : d[i].key = d[j].key => i = j
      /\ \A i \in 1..Len(d) : d[i].key # e.key
  BY <1>1 DEF Dict, Range
<1>3. /\ Append(d, e) \in Seq(Entry)
      /\ Len(Append(d, e)) = Len(d) + 1
      /\ DOMAIN Append(d, e) = 1..(Len(d) + 1)
      /\ \A i \in 1..Len(d) : Append(d, e)[i] = d[i]
      /\ Append(d, e)[Len(d) + 1] = e
  BY <1>2
<1>4. \A i \in 1..(Len(d) + 1) : i \in 1..Len(d) \/ i = Len(d) + 1
  BY <1>2
<1>5. Dict(Append(d, e))
  BY <1>2, <1>3, <1>4 DEF Dict
<1>6. Range(Append(d, e)) = Range(d) \cup {e}
  BY <1>2, <1>3, <1>4 DEF Range
<1> QED  BY <1>1, <1>5, <1>6 DEF Put, d

LEMMA PutLookups ==
    ASSUME NEW s, Dict(s), NEW e \in Entry, NEW k
    PROVE  /\ Has(Put(s, e), k) <=> (k = e.key \/ Has(s, k))
           /\ k = e.key => Get(Put(s, e), k) = e
           /\ k # e.key /\ Has(s, k) => Get(Put(s, e), k) = Get(s, k)
<1>1. Dict(Put(s, e))
      /\ Range(Put(s, e)) = {f \in Range(s) : f.key # e.key} \cup {e}
  BY PutKeeps
<1>2. Has(Put(s, e), e.key) /\ Get(Put(s, e), e.key) = e
  BY <1>1, EntryIsFound
<1>3. ASSUME Has(s, k), k # e.key
      PROVE  Has(Put(s, e), k) /\ Get(Put(s, e), k) = Get(s, k)
  <2>1. Get(s, k) \in Range(s) /\ Get(s, k).key = k
    BY <1>3, FoundIsEntry
  <2>2. Get(s, k) \in Range(Put(s, e))
    BY <1>1, <1>3, <2>1
  <2> QED  BY <1>1, <2>1, <2>2, EntryIsFound
<1>4. ASSUME Has(Put(s, e), k), k # e.key
      PROVE  Has(s, k)
  <2>1. Get(Put(s, e), k) \in Range(Put(s, e)) /\ Get(Put(s, e), k).key = k
    BY <1>1, <1>4, FoundIsEntry
  <2>2. Get(Put(s, e), k) \in Range(s)
    BY <1>1, <1>4, <2>1
  <2> QED  BY <2>1, <2>2, EntryIsFound
<1> QED  BY <1>2, <1>3, <1>4

\* popitem(last=False), some times.
LEMMA SuffixKeeps ==
    ASSUME NEW s, Dict(s), NEW m \in 1..(Len(s) + 1)
    PROVE  /\ Dict(SubSeq(s, m, Len(s)))
           /\ Range(SubSeq(s, m, Len(s))) \subseteq Range(s)
<1> DEFINE t == SubSeq(s, m, Len(s))
<1>1. s \in Seq(Entry) /\ DOMAIN s = 1..Len(s) /\ Len(s) \in Nat
      /\ \A i, j \in 1..Len(s) : s[i].key = s[j].key => i = j
  BY DEF Dict
<1>2. /\ t \in Seq(Entry) /\ Len(t) = Len(s) - m + 1
      /\ \A j \in 1..(Len(s) - m + 1) : t[j] = s[m + j - 1]
  BY <1>1
<1> HIDE DEF t
<1>3. DOMAIN t = 1..(Len(s) - m + 1)
      /\ \A j \in 1..(Len(s) - m + 1) : m + j - 1 \in 1..Len(s)
  BY <1>1, <1>2
<1>4. ASSUME NEW i \in 1..(Len(s) - m + 1), NEW j \in 1..(Len(s) - m + 1),
             t[i].key = t[j].key
      PROVE  i = j
  <2>1. m + i - 1 \in 1..Len(s) /\ m + j - 1 \in 1..Len(s)
        /\ t[i] = s[m + i - 1] /\ t[j] = s[m + j - 1]
    BY <1>2, <1>3
  <2>2. m + i - 1 = m + j - 1
    BY <1>1, <1>4, <2>1
  <2> QED  BY <1>1, <2>2
<1>5. Dict(t)
  BY <1>2, <1>3, <1>4 DEF Dict
<1>6. Range(t) \subseteq Range(s)
  <2> SUFFICES ASSUME NEW e \in Range(t) PROVE e \in Range(s)
    OBVIOUS
  <2>1. PICK j \in 1..(Len(s) - m + 1) : e = t[j]
    BY <1>3 DEF Range
  <2>2. m + j - 1 \in 1..Len(s) /\ e = s[m + j - 1]
    BY <1>2, <1>3, <2>1
  <2> QED  BY <1>1, <2>2 DEF Range
<1> QED  BY <1>5, <1>6 DEF t

\* The loop of flush: no more entries than are allowed, and as many of them.
LEMMA RecentIsLeast ==
    ASSUME NEW s, Dict(s)
    PROVE  \E m \in 0..Len(s) :
              /\ Recent(s) = SubSeq(s, m + 1, Len(s))
              /\ Len(s) - m <= MaxEntries
              /\ m > 0 => Len(s) - m = MaxEntries
<1>1. PICK m : m = IF Len(s) > MaxEntries THEN Len(s) - MaxEntries ELSE 0
  OBVIOUS
<1>2. Len(s) \in Nat /\ MaxEntries \in Nat
  BY EntriesAssumption DEF Dict
<1>3. /\ m \in 0..Len(s) /\ Len(s) - m <= MaxEntries
      /\ m > 0 => Len(s) - m = MaxEntries
  BY <1>1, <1>2
<1>4. m + 1 = IF Len(s) > MaxEntries THEN Len(s) - MaxEntries + 1 ELSE 1
  BY <1>1, <1>2
<1> QED  BY <1>3, <1>4 DEF Recent

LEMMA RecentKeeps ==
    ASSUME NEW s, Dict(s)
    PROVE  Dict(Recent(s)) /\ Range(Recent(s)) \subseteq Range(s)
<1>1. PICK m \in 0..Len(s) : Recent(s) = SubSeq(s, m + 1, Len(s))
  BY RecentIsLeast
<1>2. Len(s) \in Nat
  BY DEF Dict
<1>3. m + 1 \in 1..(Len(s) + 1)
  BY <1>2
<1> QED  BY <1>1, <1>3, SuffixKeeps

\* An index without entries can be written and read.
LEMMA EmptyFits == ShortEnough(<<>>) /\ Fits(<<>>)
<1> DEFINE weights == [i \in DOMAIN <<>> |-> Weight[<<>>[i].key]]
<1>1. DOMAIN weights = {}
  OBVIOUS
<1>2. FoldFunction(+, 0, weights) = 0
  BY <1>1 DEF FoldFunction, FoldFunctionOnSet, MapThenFoldSet
<1>3. Encoded(<<>>) = Envelope + 0
  BY <1>2 DEF Encoded
<1>4. Encoded(<<>>) + 1 <= MaxBytes
  BY <1>3, BytesAssumption
<1>5. Len(<<>>) <= MaxEntries
  BY EntriesAssumption
<1> QED  BY <1>4, <1>5 DEF ShortEnough, Fits, FileBytes

\* The loop of _atomic_write ends, at the first rest that is short enough.
LEMMA WithinBytesIsLeast ==
    ASSUME NEW s, Dict(s)
    PROVE  \E n \in 0..Len(s) :
              /\ WithinBytes(s) = SubSeq(s, n + 1, Len(s))
              /\ ShortEnough(WithinBytes(s))
              /\ n > 0 => ~ShortEnough(SubSeq(s, n, Len(s)))
<1>1. Len(s) \in Nat
  BY DEF Dict
<1> DEFINE Rest(n) == SubSeq(s, n + 1, Len(s))
           Least(n) == /\ ShortEnough(Rest(n))
                       /\ \A m \in 0..(n - 1) : ~ShortEnough(Rest(m))
<1>2. Rest(Len(s)) = <<>>
  BY <1>1, SubSeqEmpty
<1>3. ShortEnough(Rest(Len(s)))
  BY <1>2, EmptyFits
<1>4. \E l \in 0..Len(s) : Least(l)
  <2> HIDE DEF Rest
  <2> DEFINE short == {n \in 0..Len(s) : ShortEnough(Rest(n))}
  <2>1. short \in SUBSET Nat /\ Len(s) \in short
    BY <1>1, <1>3
  <2>2. PICK l \in short : \A n \in short : l <= n
    BY <2>1, LeastNumber
  <2>3. \A m \in 0..(l - 1) : m \in 0..Len(s) /\ ~(l <= m)
    BY <1>1, <2>2
  <2> QED  BY <2>2, <2>3
<1>5. PICK n : n = CHOOSE k \in 0..Len(s) : Least(k)
  OBVIOUS
<1>6. n \in 0..Len(s) /\ Least(n)
  BY <1>4, <1>5
<1>7. WithinBytes(s) = SubSeq(s, n + 1, Len(s))
  BY <1>5 DEF WithinBytes
<1>8. n > 0 => ~ShortEnough(SubSeq(s, n, Len(s)))
  <2> SUFFICES ASSUME n > 0 PROVE ~ShortEnough(SubSeq(s, n, Len(s)))
    OBVIOUS
  <2>1. n - 1 \in 0..(n - 1) /\ (n - 1) + 1 = n
    BY <1>1, <1>6
  <2>2. ~ShortEnough(Rest(n - 1))
    BY <1>6, <2>1
  <2> QED  BY <2>1, <2>2
<1> QED  BY <1>6, <1>7, <1>8

\* The two loops together take away as little as they can: what is left is
\* within both limits of the reader, and would not be with the last entry they
\* took.
LEMMA TrimIsLeast ==
    ASSUME NEW s, Dict(s)
    PROVE  \E n \in 0..Len(s) :
              /\ Trim(s) = SubSeq(s, n + 1, Len(s))
              /\ Fits(Trim(s))
              /\ n > 0 => ~Fits(SubSeq(s, n, Len(s)))
<1>1. s \in Seq(Entry) /\ Len(s) \in Nat /\ MaxEntries \in Nat
  BY EntriesAssumption DEF Dict
<1>2. PICK m \in 0..Len(s) :
         /\ Recent(s) = SubSeq(s, m + 1, Len(s))
         /\ Len(s) - m <= MaxEntries
         /\ m > 0 => Len(s) - m = MaxEntries
  BY RecentIsLeast
<1>3. PICK t : t = Recent(s)
  OBVIOUS
<1>4. Dict(t)
  BY <1>3, RecentKeeps
<1>5. t = SubSeq(s, m + 1, Len(s)) /\ Len(t) = Len(s) - m /\ Trim(s) = WithinBytes(t)
  BY <1>1, <1>2, <1>3, RestElements DEF Trim
<1>6. PICK k \in 0..Len(t) :
         /\ WithinBytes(t) = SubSeq(t, k + 1, Len(t))
         /\ ShortEnough(WithinBytes(t))
         /\ k > 0 => ~ShortEnough(SubSeq(t, k, Len(t)))
  BY <1>4, WithinBytesIsLeast
<1>7. PICK n \in 0..Len(s) : n = m + k
  BY <1>1, <1>5
<1>8. Trim(s) = SubSeq(s, n + 1, Len(s))
  BY <1>1, <1>5, <1>6, <1>7, RestOfRest
<1>9. Fits(Trim(s))
  <2>1. Len(Trim(s)) = Len(s) - n
    BY <1>1, <1>8, RestElements
  <2>2. Len(s) - n <= MaxEntries
    BY <1>1, <1>2, <1>5, <1>7
  <2> QED  BY <1>5, <1>6, <2>1, <2>2 DEF Fits, FileBytes, ShortEnough
<1>10. ASSUME n > 0
       PROVE  ~Fits(SubSeq(s, n, Len(s)))
  \* The bytes were too many ...
  <2>1. CASE k > 0
    <3>1. PICK j \in 0..Len(t) : j = k - 1
      BY <1>1, <1>5, <2>1
    <3>2. SubSeq(t, j + 1, Len(t)) = SubSeq(s, m + j + 1, Len(s))
      BY <1>1, <1>5, RestOfRest
    <3>3. j + 1 = k /\ m + j + 1 = n
      BY <1>5, <1>7, <3>1
    <3>4. ~ShortEnough(SubSeq(s, n, Len(s)))
      BY <1>6, <2>1, <3>2, <3>3
    <3> QED  BY <3>4 DEF Fits, FileBytes, ShortEnough
  \* ... or the entries.
  <2>2. CASE k = 0
    <3>1. PICK j \in 0..Len(s) : j = n - 1
      BY <1>10, <1>1
    <3>2. Len(SubSeq(s, j + 1, Len(s))) = Len(s) - j
      BY <1>1, RestElements
    <3>3. j + 1 = n /\ ~(Len(s) - j <= MaxEntries)
      BY <1>1, <1>2, <1>7, <1>10, <2>2, <3>1
    <3> QED  BY <3>2, <3>3 DEF Fits
  <2>3. k > 0 \/ k = 0
    BY <1>1, <1>5
  <2> QED  BY <2>1, <2>2, <2>3
<1> QED  BY <1>8, <1>9, <1>10

-----------------------------------------------------------------------------
(* Type correctness.                                                       *)

Where == {"idle", "scan", "fields", "sign", "lock", "load", "merge"}

\* TypeOK, what a step by one process needs to update the tables of all, and
\* that no signature counts more changes than there were.
Types ==
    /\ TypeOK
    /\ entries \in [Procs -> Seq(Entry)]
    /\ touched \in [Procs -> Seq(Entry)]
    /\ merged \in [Procs -> [entries : Seq(Entry), todo : Seq(Entry)]]
    /\ \A k \in Keys : file[k].version <= changes

LEMMA NothingTyped == NoDraft \in Entry /\ NoSignature \in Signature
<1>1. (CHOOSE k \in Keys : TRUE) \in Keys
  BY KeysAssumption
<1> QED  BY <1>1, BoundsAssumption DEF NoDraft, NoSignature, Entry, Signature

LEMMA InitTypes == Init => Types
<1> SUFFICES ASSUME Init PROVE Types
  OBVIOUS
<1>1. <<>> \in Seq(Entry) /\ Dict(<<>>)
  BY EmptyIsDict
<1>2. merged \in [Procs -> [entries : Seq(Entry), todo : Seq(Entry)]]
      /\ \A p \in Procs : merged[p].entries = <<>> /\ merged[p].todo = <<>>
  BY <1>1 DEF Init, NoMerge
<1>3. /\ entries \in [Procs -> Seq(Entry)] /\ touched \in [Procs -> Seq(Entry)]
      /\ \A p \in Procs : entries[p] = <<>> /\ touched[p] = <<>>
  BY <1>1 DEF Init
<1>4. file \in [Keys -> Signature] /\ \A k \in Keys : file[k].version = 0
  BY DEF Init
<1> QED
  BY <1>1, <1>2, <1>3, <1>4, NothingTyped, BoundsAssumption
     DEF Init, Types, TypeOK


\* What a step of p makes of the tables.
Moves(p, w, l, e, t, d, m) ==
    /\ pc'      = [pc EXCEPT ![p] = w]
    /\ left'    = [left EXCEPT ![p] = l]
    /\ entries' = [entries EXCEPT ![p] = e]
    /\ touched' = [touched EXCEPT ![p] = t]
    /\ draft'   = [draft EXCEPT ![p] = d]
    /\ merged'  = [merged EXCEPT ![p] = m]

LEMMA Same ==
    ASSUME Types, NEW p \in Procs
    PROVE  /\ pc = [pc EXCEPT ![p] = pc[p]]
           /\ left = [left EXCEPT ![p] = left[p]]
           /\ entries = [entries EXCEPT ![p] = entries[p]]
           /\ touched = [touched EXCEPT ![p] = touched[p]]
           /\ draft = [draft EXCEPT ![p] = draft[p]]
           /\ merged = [merged EXCEPT ![p] = merged[p]]
BY DEF Types, TypeOK

\* Every action of a call, as what it makes of the tables.
LEMMA ScanMoves ==
    ASSUME Types, NEW p \in Procs, NEW k \in Keys
    PROVE  /\ Hit(p, k) =>
                 /\ UNCHANGED <<file, changes, index, holder, kind>>
                 /\ pc[p] = "scan" /\ Valid(p, k)
                 /\ Moves(p, pc[p], left[p] \ {k},
                          Put(entries[p], Get(entries[p], k)),
                          Put(touched[p], Get(entries[p], k)),
                          draft[p], merged[p])
           /\ Miss(p, k) =>
                 /\ UNCHANGED <<file, changes, index, holder, kind>>
                 /\ Moves(p, "fields", left[p] \ {k}, entries[p], touched[p],
                          [key |-> k, sig |-> file[k], of |-> 0], merged[p])
           /\ Overview(p, k) =>
                 /\ UNCHANGED <<file, changes, index, holder, kind>>
                 /\ kind[p] = "list"
                 /\ Moves(p, "sign", left[p] \ {k}, entries[p], touched[p],
                          [key |-> k, sig |-> NoSignature,
                           of |-> file[k].version], merged[p])
<1>1. Hit(p, k) =>
         /\ UNCHANGED <<file, changes, index, holder, kind>>
         /\ pc[p] = "scan" /\ Valid(p, k)
         /\ Moves(p, pc[p], left[p] \ {k}, Put(entries[p], Get(entries[p], k)),
                  Put(touched[p], Get(entries[p], k)), draft[p], merged[p])
  BY Same DEF Hit, Visit, Moves
<1>2. Miss(p, k) =>
         /\ UNCHANGED <<file, changes, index, holder, kind>>
         /\ Moves(p, "fields", left[p] \ {k}, entries[p], touched[p],
                  [key |-> k, sig |-> file[k], of |-> 0], merged[p])
  BY Same DEF Miss, Visit, Go, Moves
<1>3. Overview(p, k) =>
         /\ UNCHANGED <<file, changes, index, holder, kind>>
         /\ kind[p] = "list"
         /\ Moves(p, "sign", left[p] \ {k}, entries[p], touched[p],
                  [key |-> k, sig |-> NoSignature, of |-> file[k].version],
                  merged[p])
  BY Same DEF Overview, Visit, Go, Moves
<1> QED  BY <1>1, <1>2, <1>3

LEMMA DraftMoves ==
    ASSUME Types, NEW p \in Procs
    PROVE  /\ \A e : Store(p, e) =>
                 /\ UNCHANGED <<file, changes, index, holder, kind>>
                 /\ Moves(p, "scan", left[p], Recent(Put(entries[p], e)),
                          Put(touched[p], e), NoDraft, merged[p])
           /\ Skip(p) =>
                 /\ UNCHANGED <<file, changes, index, holder, kind>>
                 /\ Moves(p, "scan", left[p], entries[p], touched[p], NoDraft,
                          merged[p])
           /\ Open(p) =>
                 /\ UNCHANGED <<file, changes, index, holder>>
                 /\ kind' \in [Procs -> Kinds]
                 /\ Moves(p, "scan", Keys, Read(index), touched[p], draft[p],
                          merged[p])
<1>1. ASSUME NEW e, Store(p, e)
      PROVE  /\ UNCHANGED <<file, changes, index, holder, kind>>
             /\ Moves(p, "scan", left[p], Recent(Put(entries[p], e)),
                      Put(touched[p], e), NoDraft, merged[p])
  BY <1>1, Same DEF Store, Go, Moves
<1>2. Skip(p) =>
         /\ UNCHANGED <<file, changes, index, holder, kind>>
         /\ Moves(p, "scan", left[p], entries[p], touched[p], NoDraft, merged[p])
  BY Same DEF Skip, Go, Moves
<1>3. Open(p) =>
         /\ UNCHANGED <<file, changes, index, holder>>
         /\ kind' \in [Procs -> Kinds]
         /\ Moves(p, "scan", Keys, Read(index), touched[p], draft[p], merged[p])
  <2> SUFFICES ASSUME Open(p)
               PROVE  /\ UNCHANGED <<file, changes, index, holder>>
                      /\ kind' \in [Procs -> Kinds]
                      /\ Moves(p, "scan", Keys, Read(index), touched[p],
                               draft[p], merged[p])
    OBVIOUS
  <2>1. PICK how \in Kinds : kind' = [kind EXCEPT ![p] = how]
    BY DEF Open
  <2>2. kind' \in [Procs -> Kinds]
    BY <2>1 DEF Types, TypeOK
  <2>3. Moves(p, "scan", Keys, Read(index), touched[p], draft[p], merged[p])
    BY Same DEF Open, Go, Moves
  <2> QED  BY <2>2, <2>3 DEF Open
<1> QED  BY <1>1, <1>2, <1>3

LEMMA FlushMoves ==
    ASSUME Types, NEW p \in Procs
    PROVE  /\ Forget(p) =>
                 /\ UNCHANGED <<file, changes, kind>>
                 /\ Moves(p, "idle", {}, <<>>, <<>>, NoDraft, NoMerge)
           /\ Flush(p) =>
                 /\ UNCHANGED <<file, changes, index, holder, kind>>
                 /\ Moves(p, "lock", {}, entries[p], touched[p], draft[p],
                          merged[p])
           /\ Lock(p) =>
                 /\ UNCHANGED <<file, changes, index, kind>> /\ holder' = p
                 /\ Moves(p, "load", left[p], entries[p], touched[p], draft[p],
                          merged[p])
           /\ Load(p) =>
                 /\ UNCHANGED <<file, changes, index, holder, kind>>
                 /\ Moves(p, "merge", left[p], entries[p], touched[p], draft[p],
                          [entries |-> Read(index), todo |-> touched[p]])
<1>1. Forget(p) =>
         /\ UNCHANGED <<file, changes, kind>>
         /\ Moves(p, "idle", {}, <<>>, <<>>, NoDraft, NoMerge)
  BY DEF Forget, Go, Moves
<1>2. Flush(p) =>
         /\ UNCHANGED <<file, changes, index, holder, kind>>
         /\ Moves(p, "lock", {}, entries[p], touched[p], draft[p], merged[p])
  BY Same DEF Flush, Go, Moves
<1>3. Lock(p) =>
         /\ UNCHANGED <<file, changes, index, kind>> /\ holder' = p
         /\ Moves(p, "load", left[p], entries[p], touched[p], draft[p], merged[p])
  BY Same DEF Lock, Go, Moves
<1>4. Load(p) =>
         /\ UNCHANGED <<file, changes, index, holder, kind>>
         /\ Moves(p, "merge", left[p], entries[p], touched[p], draft[p],
                  [entries |-> Read(index), todo |-> touched[p]])
  BY Same DEF Load, Go, Moves
<1> QED  BY <1>1, <1>2, <1>3, <1>4

LEMMA MergeMoves ==
    ASSUME Types, NEW p \in Procs, Merge(p)
    PROVE  /\ UNCHANGED <<file, changes, index, holder, kind>>
           /\ pc[p] = "merge" /\ merged[p].todo # <<>>
           /\ Moves(p, "merge", left[p], entries[p], touched[p], draft[p],
                    [entries |-> IF Wins(merged[p].entries, Head(merged[p].todo))
                                 THEN Put(merged[p].entries, Head(merged[p].todo))
                                 ELSE merged[p].entries,
                     todo |-> Tail(merged[p].todo)])
BY Same DEF Merge, Moves

\* What follows of the tables.
LEMMA MovesOne ==
    ASSUME Types, NEW p \in Procs,
           NEW w, NEW l, NEW e, NEW t, NEW d, NEW m, Moves(p, w, l, e, t, d, m)
    PROVE  /\ pc'[p] = w /\ entries'[p] = e /\ touched'[p] = t
           /\ draft'[p] = d /\ merged'[p] = m
           /\ \A q \in Procs \ {p} :
                 /\ pc'[q] = pc[q] /\ entries'[q] = entries[q]
                 /\ touched'[q] = touched[q] /\ draft'[q] = draft[q]
                 /\ merged'[q] = merged[q]
BY DEF Types, TypeOK, Moves

\* A step that types what it writes keeps the types.
LEMMA MovesTypes ==
    ASSUME Types, NEW p \in Procs,
           UNCHANGED <<file, changes>>, Dict(index'),
           holder' \in Procs \cup {NoProc}, kind' \in [Procs -> Kinds],
           NEW w \in Where, NEW l \in SUBSET Keys, NEW d \in Entry,
           NEW e, NEW t, Dict(e), Dict(t),
           NEW m, NEW a, NEW b, m = [entries |-> a, todo |-> b], Dict(a), Dict(b),
           Moves(p, w, l, e, t, d, m)
    PROVE  Types'
<1>1. /\ file' \in [Keys -> Signature] /\ changes' \in 0..MaxChanges
      /\ \A k \in Keys : file'[k].version <= changes'
  BY DEF Types, TypeOK
<1>2. pc' \in [Procs -> Where] /\ left' \in [Procs -> SUBSET Keys]
      /\ draft' \in [Procs -> Entry]
  BY DEF Types, TypeOK, Where, Moves
<1>3. e \in Seq(Entry) /\ t \in Seq(Entry) /\ a \in Seq(Entry) /\ b \in Seq(Entry)
  BY DEF Dict
<1>4. m \in [entries : Seq(Entry), todo : Seq(Entry)]
  BY <1>3
<1>5. /\ entries' \in [Procs -> Seq(Entry)]
      /\ touched' \in [Procs -> Seq(Entry)]
      /\ merged' \in [Procs -> [entries : Seq(Entry), todo : Seq(Entry)]]
  BY <1>3, <1>4 DEF Types, Moves
<1>6. m.entries = a /\ m.todo = b
  OBVIOUS
<1>7. ASSUME NEW q \in Procs
      PROVE  /\ Dict(entries'[q]) /\ Dict(touched'[q])
             /\ Dict(merged'[q].entries) /\ Dict(merged'[q].todo)
  <2>1. CASE q = p
    <3>1. entries'[q] = e /\ touched'[q] = t /\ merged'[q] = m
      BY <2>1, MovesOne
    <3> QED  BY <1>6, <3>1
  <2>2. CASE q # p
    <3>1. /\ entries'[q] = entries[q] /\ touched'[q] = touched[q]
          /\ merged'[q] = merged[q]
      BY <2>2, MovesOne
    <3> QED  BY <3>1 DEF Types, TypeOK
  <2> QED  BY <2>1, <2>2
<1> QED  BY <1>1, <1>2, <1>5, <1>7 DEF Types, TypeOK, Where

\* What a call writes is typed.
LEMMA ScanTypes ==
    ASSUME Types, NEW p \in Procs, NEW k \in Keys,
           Hit(p, k) \/ Miss(p, k) \/ Overview(p, k)
    PROVE  Types'
<1>1. /\ Dict(index) /\ Dict(entries[p]) /\ Dict(touched[p])
      /\ merged[p] = [entries |-> merged[p].entries, todo |-> merged[p].todo]
      /\ Dict(merged[p].entries) /\ Dict(merged[p].todo)
      /\ draft[p] \in Entry /\ left[p] \ {k} \in SUBSET Keys /\ pc[p] \in Where
      /\ file[k] \in Signature /\ kind \in [Procs -> Kinds]
      /\ holder \in Procs \cup {NoProc}
  BY DEF Types, TypeOK, Where
<1>2. CASE Hit(p, k)
  <2>1. Get(entries[p], k) \in Entry
    BY <1>1, <1>2, ScanMoves, FoundIsEntry DEF Valid
  <2>2. Dict(Put(entries[p], Get(entries[p], k)))
        /\ Dict(Put(touched[p], Get(entries[p], k)))
    BY <1>1, <2>1, PutKeeps
  <2> QED  BY <1>1, <1>2, <2>2, ScanMoves, MovesTypes
<1>3. CASE Miss(p, k)
  <2>1. [key |-> k, sig |-> file[k], of |-> 0] \in Entry
    BY <1>1, BoundsAssumption DEF Entry
  <2>2. "fields" \in Where
    BY DEF Where
  <2> QED  BY <1>1, <1>3, <2>1, <2>2, ScanMoves, MovesTypes
<1>4. CASE Overview(p, k)
  <2>1. [key |-> k, sig |-> NoSignature, of |-> file[k].version] \in Entry
    BY <1>1, NothingTyped DEF Entry, Signature
  <2>2. "sign" \in Where
    BY DEF Where
  <2> QED  BY <1>1, <1>4, <2>1, <2>2, ScanMoves, MovesTypes
<1> QED  BY <1>2, <1>3, <1>4

LEMMA DraftTypes ==
    ASSUME Types, NEW p \in Procs,
           StoreFields(p) \/ StoreOverview(p) \/ Skip(p) \/ Open(p)
    PROVE  Types'
<1>1. /\ Dict(index) /\ Dict(entries[p]) /\ Dict(touched[p])
      /\ merged[p] = [entries |-> merged[p].entries, todo |-> merged[p].todo]
      /\ Dict(merged[p].entries) /\ Dict(merged[p].todo)
      /\ draft[p] \in Entry /\ left[p] \in SUBSET Keys /\ Keys \in SUBSET Keys
      /\ kind \in [Procs -> Kinds] /\ holder \in Procs \cup {NoProc}
  BY DEF Types, TypeOK
<1>2. "scan" \in Where /\ NoDraft \in Entry
  BY NothingTyped DEF Where
<1>3. ASSUME NEW e \in Entry, Store(p, e)
      PROVE  Types'
  <2>1. Dict(Put(entries[p], e)) /\ Dict(Put(touched[p], e))
    BY <1>1, PutKeeps
  <2>2. Dict(Recent(Put(entries[p], e)))
    BY <2>1, RecentKeeps
  <2> QED  BY <1>1, <1>2, <1>3, <2>1, <2>2, DraftMoves, MovesTypes
<1>4. CASE StoreFields(p)
  <2>1. file[draft[p].key].version \in 0..MaxChanges
    BY <1>1 DEF Types, TypeOK, Entry, Signature
  <2>2. [draft[p] EXCEPT !.of = file[draft[p].key].version] \in Entry
    BY <1>1, <2>1 DEF Entry
  <2> QED  BY <1>3, <1>4, <2>2 DEF StoreFields
<1>5. CASE StoreOverview(p)
  <2>1. file[draft[p].key] \in Signature
    BY <1>1 DEF Types, TypeOK, Entry
  <2>2. [draft[p] EXCEPT !.sig = file[draft[p].key]] \in Entry
    BY <1>1, <2>1 DEF Entry
  <2> QED  BY <1>3, <1>5, <2>2 DEF StoreOverview
<1>6. CASE Skip(p)
  BY <1>1, <1>2, <1>6, DraftMoves, MovesTypes
<1>7. CASE Open(p)
  <2>1. Dict(Read(index))
    BY <1>1, EmptyIsDict DEF Read
  <2> QED  BY <1>1, <1>2, <1>7, <2>1, DraftMoves, MovesTypes
<1> QED  BY <1>4, <1>5, <1>6, <1>7

LEMMA TrimKeeps ==
    ASSUME NEW s, Dict(s)
    PROVE  Dict(Trim(s)) /\ Range(Trim(s)) \subseteq Range(s)
<1>1. PICK n \in 0..Len(s) : Trim(s) = SubSeq(s, n + 1, Len(s))
  BY TrimIsLeast
<1>2. Len(s) \in Nat
  BY DEF Dict
<1>3. n + 1 \in 1..(Len(s) + 1)
  BY <1>2
<1> QED  BY <1>1, <1>3, SuffixKeeps

LEMMA TailKeeps ==
    ASSUME NEW s, Dict(s), s # <<>>
    PROVE  /\ Dict(Tail(s))
           /\ Head(s) \in Entry /\ Head(s) \in Range(s)
           /\ Range(s) = {Head(s)} \cup Range(Tail(s))
           /\ \A e \in Range(Tail(s)) : e.key # Head(s).key
<1>1. /\ s \in Seq(Entry) /\ DOMAIN s = 1..Len(s) /\ Len(s) \in Nat \ {0}
      /\ \A i, j \in 1..Len(s) : s[i].key = s[j].key => i = j
      /\ Head(s) = s[1] /\ 1 \in 1..Len(s)
  BY DEF Dict
<1>2. /\ Tail(s) \in Seq(Entry) /\ Len(Tail(s)) = Len(s) - 1
      /\ \A i \in 1..(Len(s) - 1) : Tail(s)[i] = s[i + 1]
  BY <1>1, HeadTailProperties
<1>3. DOMAIN Tail(s) = 1..(Len(s) - 1)
      /\ \A i \in 1..(Len(s) - 1) : i + 1 \in 1..Len(s) /\ i + 1 # 1
  BY <1>1, <1>2
<1>4. Dict(Tail(s))
  <2>1. ASSUME NEW i \in 1..(Len(s) - 1), NEW j \in 1..(Len(s) - 1),
               Tail(s)[i].key = Tail(s)[j].key
        PROVE  i = j
    <3>1. i + 1 = j + 1
      BY <1>1, <1>2, <1>3, <2>1
    <3> QED  BY <3>1
  <2> QED  BY <1>2, <1>3, <2>1 DEF Dict
<1>5. ASSUME NEW e \in Range(Tail(s))
      PROVE  e \in Range(s) /\ e.key # Head(s).key
  <2>1. PICK i \in 1..(Len(s) - 1) : e = s[i + 1]
    BY <1>2, <1>3 DEF Range
  <2> QED  BY <1>1, <1>3, <2>1 DEF Range
<1>6. ASSUME NEW e \in Range(s)
      PROVE  e = Head(s) \/ e \in Range(Tail(s))
  <2>1. PICK i \in 1..Len(s) : e = s[i]
    BY <1>1 DEF Range
  <2>2. CASE i = 1
    BY <1>1, <2>1, <2>2
  <2>3. CASE i # 1
    <3>1. i - 1 \in 1..(Len(s) - 1) /\ (i - 1) + 1 = i
      BY <1>1, <2>3
    <3>2. Tail(s)[i - 1] = e
      BY <1>2, <2>1, <3>1
    <3> QED  BY <1>3, <3>1, <3>2 DEF Range
  <2> QED  BY <2>2, <2>3
<1>7. Head(s) \in Entry /\ Head(s) \in Range(s)
  BY <1>1 DEF Range
<1> QED  BY <1>4, <1>5, <1>6, <1>7

LEMMA FlushTypes ==
    ASSUME Types, NEW p \in Procs,
           \/ Clean(p) \/ Flush(p) \/ Lock(p) \/ Contended(p)
           \/ Load(p) \/ Merge(p) \/ Replace(p) \/ Abandon(p)
    PROVE  Types'
<1>1. /\ Dict(index) /\ Dict(entries[p]) /\ Dict(touched[p])
      /\ merged[p] = [entries |-> merged[p].entries, todo |-> merged[p].todo]
      /\ Dict(merged[p].entries) /\ Dict(merged[p].todo)
      /\ draft[p] \in Entry /\ left[p] \in SUBSET Keys /\ {} \in SUBSET Keys
      /\ kind \in [Procs -> Kinds]
      /\ holder \in Procs \cup {NoProc} /\ p \in Procs \cup {NoProc}
      /\ NoProc \in Procs \cup {NoProc}
  BY DEF Types, TypeOK
<1>2. {"idle", "lock", "load", "merge"} \subseteq Where /\ NoDraft \in Entry
  BY NothingTyped DEF Where
<1>3. ASSUME Forget(p), Release(p) \/ UNCHANGED holder, Dict(index')
      PROVE  Types'
  <2>1. holder' \in Procs \cup {NoProc}
    BY <1>1, <1>3 DEF Release
  <2>2. NoMerge = [entries |-> <<>>, todo |-> <<>>]
    BY DEF NoMerge
  <2> QED
    BY <1>1, <1>2, <1>3, <2>1, <2>2, EmptyIsDict, FlushMoves, MovesTypes
<1>4. CASE Clean(p) \/ Contended(p) \/ Abandon(p)
  BY <1>1, <1>3, <1>4 DEF Clean, Contended, Abandon
<1>5. CASE Replace(p)
  <2>1. Dict(index')
    BY <1>1, <1>5, TrimKeeps DEF Replace
  <2> QED  BY <1>3, <1>5, <2>1 DEF Replace
<1>6. CASE Flush(p)
  BY <1>1, <1>2, <1>6, FlushMoves, MovesTypes
<1>7. CASE Lock(p)
  BY <1>1, <1>2, <1>7, FlushMoves, MovesTypes
<1>8. CASE Load(p)
  <2>1. Dict(Read(index))
    BY <1>1, EmptyIsDict DEF Read
  <2> QED  BY <1>1, <1>2, <1>8, <2>1, FlushMoves, MovesTypes
<1>9. CASE Merge(p)
  <2> DEFINE s == merged[p].entries
             e == Head(merged[p].todo)
             new == IF Wins(s, e) THEN Put(s, e) ELSE s
  <2>1. e \in Entry /\ Dict(Tail(merged[p].todo))
    BY <1>1, <1>9, MergeMoves, TailKeeps
  <2>2. Dict(Put(s, e))
    BY <1>1, <2>1, PutKeeps
  <2>3. Dict(new)
    BY <1>1, <2>2
  <2>4. Moves(p, "merge", left[p], entries[p], touched[p], draft[p],
              [entries |-> new, todo |-> Tail(merged[p].todo)])
        /\ UNCHANGED <<file, changes, index, holder, kind>>
    BY <1>9, MergeMoves
  <2> HIDE DEF new
  <2> QED  BY <1>1, <1>2, <2>1, <2>3, <2>4, MovesTypes
<1> QED  BY <1>4, <1>5, <1>6, <1>7, <1>8, <1>9

LEMMA ChangeTypes ==
    ASSUME Types, NEW k \in Keys, Change(k)
    PROVE  /\ Types'
           /\ file'[k].version = file[k].version + 1
           /\ \A j \in Keys \ {k} : file'[j] = file[j]
<1>1. PICK t \in 0..MaxTime :
         file' = [file EXCEPT ![k] = [time |-> t, version |-> file[k].version + 1]]
  BY DEF Change
<1>2. /\ file \in [Keys -> Signature] /\ changes \in 0..MaxChanges
      /\ file[k].version \in Nat /\ file[k].version <= changes
      /\ changes < MaxChanges /\ changes' = changes + 1
  BY DEF Types, TypeOK, Signature, Change
<1>3. [time |-> t, version |-> file[k].version + 1] \in Signature
      /\ changes' \in 0..MaxChanges
  BY <1>2, BoundsAssumption DEF Signature
<1>4. /\ file' \in [Keys -> Signature]
      /\ file'[k] = [time |-> t, version |-> file[k].version + 1]
      /\ \A j \in Keys \ {k} : file'[j] = file[j]
  BY <1>1, <1>2, <1>3
<1>5. file'[k].version = file[k].version + 1
  BY <1>4
<1>6. ASSUME NEW j \in Keys
      PROVE  file'[j].version <= changes'
  <2>1. file[j].version \in Nat /\ file[j].version <= changes
    BY <1>2 DEF Types, Signature
  <2> QED  BY <1>2, <1>4, <1>5, <2>1
<1> QED  BY <1>3, <1>4, <1>5, <1>6 DEF Change, call, Types, TypeOK

LEMMA NextTypes ==
    ASSUME Types, [Next]_vars
    PROVE  Types'
<1>1. CASE UNCHANGED vars
  BY <1>1 DEF vars, call, Types, TypeOK
<1>2. CASE \E k \in Keys : Change(k)
  BY <1>2, ChangeTypes
<1>3. ASSUME NEW p \in Procs, Open(p) \/ Step(p) \/ Abandon(p)
      PROVE  Types'
  BY <1>3, ScanTypes, DraftTypes, FlushTypes DEF Step
<1> QED  BY <1>1, <1>2, <1>3 DEF Next

\* Whatever the processes and Codex do, every table is what it should be, and
\* no dictionary, in the file or in a process, ever holds two entries of one key.
THEOREM TypeCorrect == Spec => []TypeOK
<1>1. Types => TypeOK
  BY DEF Types
<1> QED  BY <1>1, InitTypes, NextTypes, PTL DEF Spec

-----------------------------------------------------------------------------
(* The lock file.                                                          *)

\* Who holds the lock, and the places LockHeldWhileSaving speaks of.
Locks ==
    /\ pc \in [Procs -> {"idle", "scan", "fields", "sign", "lock", "load",
                         "merge"}]
    /\ LockHeldWhileSaving

\* A process that goes on outside flush's critical section.
LEMMA GoOutside ==
    ASSUME Locks, NEW p \in Procs, UNCHANGED holder,
           pc[p] \notin {"load", "merge"},
           NEW where \in {"idle", "scan", "fields", "sign", "lock"}, Go(p, where)
    PROVE  Locks'
BY DEF Locks, LockHeldWhileSaving, Go

\* A process that is done, whether it held the lock or not.
LEMMA ForgetKeeps ==
    ASSUME Locks, NEW p \in Procs, Forget(p),
           Release(p) \/ (UNCHANGED holder /\ pc[p] \notin {"load", "merge"})
    PROVE  Locks'
<1>1. Go(p, "idle")
  BY DEF Forget
<1>2. \A q \in Procs \ {p} : pc'[q] = pc[q]
  BY <1>1 DEF Go, Locks
<1>3. pc' \in [Procs -> {"idle", "scan", "fields", "sign", "lock", "load",
                         "merge"}]
         /\ pc'[p] = "idle"
  BY <1>1 DEF Go, Locks
<1>4. \A q \in Procs \ {p} : holder' = q <=> pc[q] \in {"load", "merge"}
  BY ProcsAssumption DEF Locks, LockHeldWhileSaving, Release
<1>5. holder' # p
  BY ProcsAssumption DEF Release, Locks, LockHeldWhileSaving
<1> QED  BY <1>2, <1>3, <1>4, <1>5 DEF Locks, LockHeldWhileSaving

LEMMA StepKeeps ==
    ASSUME Locks, NEW p \in Procs, Step(p)
    PROVE  Locks'
<1>1. ASSUME NEW k \in Keys, Hit(p, k) PROVE Locks'
  BY <1>1 DEF Hit, Visit, Locks, LockHeldWhileSaving
<1>2. ASSUME NEW k \in Keys, Miss(p, k) PROVE Locks'
  BY <1>2, GoOutside DEF Miss, Visit
<1>3. ASSUME NEW k \in Keys, Overview(p, k) PROVE Locks'
  BY <1>3, GoOutside DEF Overview, Visit
<1>4. CASE StoreFields(p) \/ StoreOverview(p)
  BY <1>4, GoOutside DEF StoreFields, StoreOverview, Store
<1>5. CASE Skip(p)
  BY <1>5, GoOutside DEF Skip
<1>6. CASE Clean(p)
  BY <1>6, ForgetKeeps DEF Clean
<1>7. CASE Flush(p)
  BY <1>7, GoOutside DEF Flush
<1>8. CASE Lock(p)
  BY <1>8, ProcsAssumption DEF Lock, Go, Locks, LockHeldWhileSaving
<1>9. CASE Contended(p)
  BY <1>9, ForgetKeeps DEF Contended
<1>10. CASE Load(p)
  BY <1>10 DEF Load, Go, Locks, LockHeldWhileSaving
<1>11. CASE Merge(p)
  BY <1>11 DEF Merge, Locks, LockHeldWhileSaving
<1>12. CASE Replace(p)
  BY <1>12, ForgetKeeps DEF Replace
<1> QED
  BY <1>1, <1>2, <1>3, <1>4, <1>5, <1>6, <1>7, <1>8, <1>9, <1>10, <1>11, <1>12
     DEF Step

LEMMA NextLocks ==
    ASSUME Locks, [Next]_vars
    PROVE  Locks'
<1>1. CASE UNCHANGED vars
  BY <1>1 DEF vars, call, Locks, LockHeldWhileSaving
<1>2. CASE \E k \in Keys : Change(k)
  BY <1>2 DEF Change, call, Locks, LockHeldWhileSaving
<1>3. ASSUME NEW p \in Procs, Open(p) PROVE Locks'
  BY <1>3, GoOutside DEF Open
<1>4. ASSUME NEW p \in Procs, Abandon(p) PROVE Locks'
  BY <1>4, ForgetKeeps DEF Abandon
<1> QED  BY <1>1, <1>2, <1>3, <1>4, StepKeeps DEF Next

\* flock keeps the merges of several server processes apart, and the lock goes
\* with the flush: it is held by the process between reading the index it merges
\* into and replacing the file, and by none that finished, failed or died.
THEOREM LockIsOfTheSaver == Spec => []LockHeldWhileSaving
<1>1. Init => Locks
  BY ProcsAssumption DEF Init, Locks, LockHeldWhileSaving
<1>2. Locks => LockHeldWhileSaving
  BY DEF Locks
<1> QED  BY <1>1, <1>2, NextLocks, PTL DEF Spec

-----------------------------------------------------------------------------
(* The index can be read back.                                             *)

\* Only a write changes the index.
LEMMA IndexChanges ==
    ASSUME [Next]_vars
    PROVE  index' = index \/ \E p \in Procs : Replace(p)
<1>1. CASE UNCHANGED vars
  BY <1>1 DEF vars
<1>2. ASSUME NEW k \in Keys, Change(k)
      PROVE  index' = index
  BY <1>2 DEF Change
<1>3. ASSUME NEW p \in Procs, Open(p) \/ Step(p) \/ Abandon(p), ~Replace(p)
      PROVE  index' = index
  BY <1>3 DEF Open, Step, Abandon, Hit, Miss, Overview, Visit, StoreFields,
              StoreOverview, Store, Skip, Clean, Flush, Lock, Contended, Load,
              Merge
<1> QED  BY <1>1, <1>2, <1>3 DEF Next

LEMMA NextReadable ==
    ASSUME Types, IndexReadable, [Next]_vars
    PROVE  IndexReadable'
<1>1. ASSUME NEW p \in Procs, Replace(p)
      PROVE  Fits(index')
  <2>1. Dict(merged[p].entries) /\ index' = Trim(merged[p].entries)
    BY <1>1 DEF Replace, Types, TypeOK
  <2> QED  BY <2>1, TrimIsLeast
<1>2. Fits(index') => Read(index') = index'
  BY DEF Read
<1>3. index' = index => Read(index') = index'
  BY DEF IndexReadable
<1> QED  BY <1>1, <1>2, <1>3, IndexChanges DEF IndexReadable

\* _atomic_write never writes an index that _read_entries would reject, however
\* many entries of whatever sizes the processes merge.
THEOREM IndexStaysReadable == Spec => []IndexReadable
<1>1. Init => IndexReadable
  BY DEF Init, IndexReadable, Read
<1>2. Types /\ IndexReadable /\ [Next]_vars => IndexReadable'
  BY NextReadable
<1> QED  BY <1>1, <1>2, InitTypes, NextTypes, PTL DEF Spec

-----------------------------------------------------------------------------
(* Searches are current.                                                   *)

\* The entry was computed no earlier than it was signed, and its session has
\* not gone back since.
Sound(e) == e.sig.version <= e.of /\ e.of <= file[e.key].version

Known(p) == Range(entries[p]) \cup Range(touched[p])
               \cup Range(merged[p].entries) \cup Range(merged[p].todo)

\* Every entry there is, in the file or in a process, is sound, and so will be
\* the one a search is making.
SearchInv ==
    /\ \A e \in Range(index) : Sound(e)
    /\ \A p \in Procs :
          /\ kind[p] = "search" /\ pc[p] # "sign"
          /\ \A e \in Known(p) : Sound(e)
          /\ pc[p] = "fields" => draft[p].sig.version <= file[draft[p].key].version


\* A step of p that writes sound entries for p.
LEMMA MovesSound ==
    ASSUME Types, SearchInv, NEW p \in Procs, UNCHANGED file,
           \A q \in Procs : kind'[q] = "search",
           NEW w \in Where \ {"sign"}, NEW l, NEW e, NEW t, NEW d, NEW m,
           Moves(p, w, l, e, t, d, m),
           \A x \in Range(index') : Sound(x),
           \A x \in Range(e) \cup Range(t) \cup Range(m.entries) \cup Range(m.todo) :
              Sound(x),
           w = "fields" => d.sig.version <= file[d.key].version
    PROVE  SearchInv'
<1>1. \A x \in Range(index') : Sound(x)'
  BY DEF Sound
<1>2. ASSUME NEW q \in Procs
      PROVE  /\ pc'[q] # "sign"
             /\ \A x \in Known(q)' : Sound(x)'
             /\ pc'[q] = "fields" =>
                   draft'[q].sig.version <= file'[draft'[q].key].version
  <2>1. CASE q = p
    <3>1. /\ pc'[q] = w /\ entries'[q] = e /\ touched'[q] = t
          /\ draft'[q] = d /\ merged'[q] = m
      BY <2>1, MovesOne
    <3> QED  BY <3>1 DEF Known, Sound
  <2>2. CASE q # p
    <3>1. /\ pc'[q] = pc[q] /\ entries'[q] = entries[q]
          /\ touched'[q] = touched[q] /\ draft'[q] = draft[q]
          /\ merged'[q] = merged[q]
      BY <2>2, MovesOne
    <3> QED  BY <3>1 DEF SearchInv, Known, Sound
  <2> QED  BY <2>1, <2>2
<1> QED  BY <1>1, <1>2 DEF SearchInv

LEMMA ScanSound ==
    ASSUME Types, SearchInv, NEW p \in Procs, NEW k \in Keys,
           Hit(p, k) \/ Miss(p, k) \/ Overview(p, k)
    PROVE  SearchInv'
<1>1. /\ Dict(entries[p]) /\ Dict(touched[p])
      /\ pc[p] \in Where \ {"sign"}
      /\ \A q \in Procs : kind[q] = "search"
      /\ \A x \in Range(index) : Sound(x)
      /\ \A x \in Known(p) : Sound(x)
      /\ pc[p] = "fields" => draft[p].sig.version <= file[draft[p].key].version
  BY DEF Types, TypeOK, Where, SearchInv
<1>2. CASE Hit(p, k)
  <2> DEFINE e == Get(entries[p], k)
  <2>1. e \in Entry /\ e \in Range(entries[p])
    BY <1>1, <1>2, ScanMoves, FoundIsEntry DEF Valid
  <2> HIDE DEF e
  <2>2. /\ Range(Put(entries[p], e)) \subseteq Range(entries[p])
        /\ Range(Put(touched[p], e)) \subseteq Range(touched[p]) \cup Range(entries[p])
    BY <1>1, <2>1, PutKeeps
  <2>3. \A x \in Range(Put(entries[p], e)) \cup Range(Put(touched[p], e))
                    \cup Range(merged[p].entries) \cup Range(merged[p].todo) :
           Sound(x)
    BY <1>1, <2>2 DEF Known
  <2>4. /\ UNCHANGED <<file, index, kind>>
        /\ Moves(p, pc[p], left[p] \ {k}, Put(entries[p], e), Put(touched[p], e),
                 draft[p], merged[p])
    BY <1>2, ScanMoves DEF e
  <2> QED  BY <1>1, <2>3, <2>4, MovesSound
<1>3. CASE Miss(p, k)
  <2> DEFINE d == [key |-> k, sig |-> file[k], of |-> 0]
  <2>1. d.sig.version <= file[d.key].version
    BY DEF Types, TypeOK, Signature
  <2>2. "fields" \in Where \ {"sign"}
    BY DEF Where
  <2>3. /\ UNCHANGED <<file, index, kind>>
        /\ Moves(p, "fields", left[p] \ {k}, entries[p], touched[p], d, merged[p])
    BY <1>3, ScanMoves
  <2> HIDE DEF d
  <2> QED  BY <1>1, <2>1, <2>2, <2>3, MovesSound DEF Known
<1>4. CASE Overview(p, k)
  BY <1>1, <1>4, ScanMoves
<1> QED  BY <1>2, <1>3, <1>4

LEMMA DraftSound ==
    ASSUME Types, SearchInv, Kinds = {"search"}, NEW p \in Procs,
           StoreFields(p) \/ StoreOverview(p) \/ Skip(p) \/ Open(p)
    PROVE  SearchInv'
<1>1. /\ Dict(index) /\ Dict(entries[p]) /\ Dict(touched[p]) /\ draft[p] \in Entry
      /\ \A q \in Procs : kind[q] = "search"
      /\ pc[p] # "sign"
      /\ \A x \in Range(index) : Sound(x)
      /\ \A x \in Known(p) : Sound(x)
      /\ pc[p] = "fields" => draft[p].sig.version <= file[draft[p].key].version
  BY DEF Types, TypeOK, SearchInv
<1>2. "scan" \in Where \ {"sign"} /\ "scan" # "fields"
  BY DEF Where
<1>3. CASE StoreFields(p)
  <2> DEFINE e == [draft[p] EXCEPT !.of = file[draft[p].key].version]
  <2>1. file[draft[p].key].version \in 0..MaxChanges
    BY <1>1 DEF Types, TypeOK, Entry, Signature
  <2>2. e \in Entry
    BY <1>1, <2>1 DEF Entry
  <2>3. Sound(e)
    <3>1. /\ e.sig = draft[p].sig /\ e.key = draft[p].key
          /\ e.of = file[draft[p].key].version
      BY <1>1 DEF Entry
    <3> QED  BY <1>1, <1>3, <2>1, <3>1 DEF Sound, StoreFields
  <2>4. Store(p, e)
    BY <1>3 DEF StoreFields
  <2> HIDE DEF e
  <2>5. Dict(Put(entries[p], e))
        /\ Range(Put(entries[p], e)) \subseteq Range(entries[p]) \cup {e}
        /\ Range(Put(touched[p], e)) \subseteq Range(touched[p]) \cup {e}
    BY <1>1, <2>2, PutKeeps
  <2>6. Range(Recent(Put(entries[p], e))) \subseteq Range(entries[p]) \cup {e}
    BY <2>5, RecentKeeps
  <2>7. \A x \in Range(Recent(Put(entries[p], e))) \cup Range(Put(touched[p], e))
                    \cup Range(merged[p].entries) \cup Range(merged[p].todo) :
           Sound(x)
    BY <1>1, <2>3, <2>5, <2>6 DEF Known
  <2>8. /\ UNCHANGED <<file, index, kind>>
        /\ Moves(p, "scan", left[p], Recent(Put(entries[p], e)),
                 Put(touched[p], e), NoDraft, merged[p])
    BY <2>4, DraftMoves
  <2> QED  BY <1>1, <1>2, <2>7, <2>8, MovesSound
<1>4. CASE StoreOverview(p)
  BY <1>1, <1>4 DEF StoreOverview
<1>5. CASE Skip(p)
  BY <1>1, <1>2, <1>5, DraftMoves, MovesSound DEF Known
<1>6. CASE Open(p)
  <2>1. \A q \in Procs : kind'[q] = "search"
    BY <1>6, DraftMoves
  <2>2. \A x \in Range(Read(index)) : Sound(x)
    BY <1>1, EmptyIsDict DEF Read
  <2>3. \A x \in Range(Read(index)) \cup Range(touched[p])
                    \cup Range(merged[p].entries) \cup Range(merged[p].todo) :
           Sound(x)
    BY <1>1, <2>2 DEF Known
  <2>4. /\ UNCHANGED <<file, index>>
        /\ Moves(p, "scan", Keys, Read(index), touched[p], draft[p], merged[p])
    BY <1>6, DraftMoves
  <2> QED  BY <1>1, <1>2, <2>1, <2>3, <2>4, MovesSound
<1> QED  BY <1>3, <1>4, <1>5, <1>6

LEMMA FlushSound ==
    ASSUME Types, SearchInv, NEW p \in Procs,
           \/ Clean(p) \/ Flush(p) \/ Lock(p) \/ Contended(p)
           \/ Load(p) \/ Merge(p) \/ Replace(p) \/ Abandon(p)
    PROVE  SearchInv'
<1>1. /\ Dict(index) /\ Dict(merged[p].entries) /\ Dict(merged[p].todo)
      /\ \A q \in Procs : kind[q] = "search"
      /\ \A x \in Range(index) : Sound(x)
      /\ \A x \in Known(p) : Sound(x)
  BY DEF Types, TypeOK, SearchInv
<1>2. {"idle", "lock", "load", "merge"} \subseteq Where \ {"sign", "fields"}
  BY DEF Where
<1>3. ASSUME Forget(p), \A x \in Range(index') : Sound(x)
      PROVE  SearchInv'
  <2>1. /\ UNCHANGED <<file, kind>>
        /\ Moves(p, "idle", {}, <<>>, <<>>, NoDraft, NoMerge)
    BY <1>3, FlushMoves
  <2>2. Range(NoMerge.entries) = {} /\ Range(NoMerge.todo) = {}
    BY EmptyIsDict DEF NoMerge
  <2> QED  BY <1>1, <1>2, <1>3, <2>1, <2>2, EmptyIsDict, MovesSound
<1>4. CASE Clean(p) \/ Contended(p) \/ Abandon(p)
  BY <1>1, <1>3, <1>4 DEF Clean, Contended, Abandon
<1>5. CASE Replace(p)
  <2>1. Range(index') \subseteq Known(p)
    BY <1>1, <1>5, TrimKeeps DEF Replace, Known
  <2> QED  BY <1>1, <1>3, <1>5, <2>1 DEF Replace
<1>6. CASE Flush(p)
  BY <1>1, <1>2, <1>6, FlushMoves, MovesSound DEF Known
<1>7. CASE Lock(p)
  BY <1>1, <1>2, <1>7, FlushMoves, MovesSound DEF Known
<1>8. CASE Load(p)
  <2> DEFINE m == [entries |-> Read(index), todo |-> touched[p]]
  <2>1. \A x \in Range(m.entries) \cup Range(m.todo) : Sound(x)
    BY <1>1, EmptyIsDict DEF Read, Known
  <2>2. /\ UNCHANGED <<file, index, kind>>
        /\ Moves(p, "merge", left[p], entries[p], touched[p], draft[p], m)
    BY <1>8, FlushMoves
  <2> HIDE DEF m
  <2> QED  BY <1>1, <1>2, <2>1, <2>2, MovesSound DEF Known
<1>9. CASE Merge(p)
  <2> DEFINE s == merged[p].entries
             e == Head(merged[p].todo)
             m == [entries |-> IF Wins(s, e) THEN Put(s, e) ELSE s,
                   todo |-> Tail(merged[p].todo)]
  <2>1. /\ UNCHANGED <<file, index, kind>>
        /\ Moves(p, "merge", left[p], entries[p], touched[p], draft[p], m)
        /\ merged[p].todo # <<>>
    BY <1>9, MergeMoves
  <2>2. e \in Entry /\ e \in Range(merged[p].todo)
        /\ Range(Tail(merged[p].todo)) \subseteq Range(merged[p].todo)
    BY <1>1, <2>1, TailKeeps
  <2>3. Range(Put(s, e)) \subseteq Range(s) \cup {e}
    BY <1>1, <2>2, PutKeeps
  <2>4. \A x \in Range(m.entries) \cup Range(m.todo) : Sound(x)
    BY <1>1, <2>2, <2>3 DEF Known
  <2> HIDE DEF m
  <2> QED  BY <1>1, <1>2, <2>1, <2>4, MovesSound DEF Known
<1> QED  BY <1>4, <1>5, <1>6, <1>7, <1>8, <1>9

LEMMA ChangeSound ==
    ASSUME Types, SearchInv, NEW k \in Keys, Change(k)
    PROVE  SearchInv'
<1>1. /\ file \in [Keys -> Signature] /\ file' \in [Keys -> Signature]
      /\ file'[k].version = file[k].version + 1
      /\ \A j \in Keys \ {k} : file'[j] = file[j]
  BY ChangeTypes DEF Types, TypeOK
<1>2. \A j \in Keys : /\ file[j].version \in Nat /\ file'[j].version \in Nat
                      /\ file[j].version <= file'[j].version
  BY <1>1 DEF Signature
<1>3. UNCHANGED <<index, kind, pc, entries, touched, draft, merged>>
  BY DEF Change, call
<1>4. ASSUME NEW e \in Entry, Sound(e)
      PROVE  Sound(e)'
  <2>1. e.of \in Nat /\ e.key \in Keys
    BY DEF Entry
  <2> QED  BY <1>2, <1>4, <2>1 DEF Sound
<1>5. \A e \in Range(index') : Sound(e)'
  <2>1. Dict(index)
    BY DEF Types, TypeOK
  <2> QED  BY <1>3, <1>4, <2>1, EntryIsFound DEF SearchInv
<1>6. ASSUME NEW p \in Procs
      PROVE  /\ kind'[p] = "search" /\ pc'[p] # "sign"
             /\ \A e \in Known(p)' : Sound(e)'
             /\ pc'[p] = "fields" =>
                   draft'[p].sig.version <= file'[draft'[p].key].version
  <2>1. /\ Dict(entries[p]) /\ Dict(touched[p])
        /\ Dict(merged[p].entries) /\ Dict(merged[p].todo)
        /\ draft[p] \in Entry
    BY DEF Types, TypeOK
  <2>6. draft[p].key \in Keys /\ draft[p].sig \in Signature
    BY <2>1 DEF Entry
  <2>7. draft[p].sig.version \in Nat
    BY <2>6, BoundsAssumption DEF Signature
  <2>2. \A e \in Known(p) : e \in Entry /\ Sound(e)
    BY <2>1, EntryIsFound DEF SearchInv, Known
  <2>3. Known(p)' = Known(p)
    BY <1>3 DEF Known
  <2>4. pc[p] = "fields" => draft[p].sig.version <= file[draft[p].key].version
    BY DEF SearchInv
  <2>5. pc'[p] = "fields" =>
           draft'[p].sig.version <= file'[draft'[p].key].version
    BY <1>2, <1>3, <2>4, <2>6, <2>7
  <2> QED  BY <1>3, <1>4, <2>2, <2>3, <2>5 DEF SearchInv
<1> QED  BY <1>5, <1>6 DEF SearchInv

LEMMA NextSound ==
    ASSUME Types, SearchInv, Kinds = {"search"}, [Next]_vars
    PROVE  SearchInv'
<1>1. CASE UNCHANGED vars
  BY <1>1 DEF vars, call, SearchInv, Known, Sound
<1>2. CASE \E k \in Keys : Change(k)
  BY <1>2, ChangeSound
<1>3. ASSUME NEW p \in Procs, Open(p) \/ Step(p) \/ Abandon(p)
      PROVE  SearchInv'
  BY <1>3, ScanSound, DraftSound, FlushSound DEF Step
<1> QED  BY <1>1, <1>2, <1>3 DEF Next

\* While every call searches, a search takes the signature before it reads the
\* session, so what it stores can only be later than it claims: no search of
\* any process is ever served what another version of a session said.
THEOREM SearchesAreCurrent ==
    ASSUME Kinds = {"search"}
    PROVE  Spec => []HitIsCurrent
<1>1. Init => SearchInv
  <2> SUFFICES ASSUME Init PROVE SearchInv
    OBVIOUS
  <2>1. /\ Range(index) = {}
        /\ \A p \in Procs : Known(p) = {} /\ kind[p] = "search" /\ pc[p] = "idle"
    BY EmptyIsDict DEF Init, Known, NoMerge
  <2> QED  BY <2>1 DEF SearchInv
<1>2. Types /\ SearchInv => HitIsCurrent
  <2> SUFFICES ASSUME Types, SearchInv, NEW p \in Procs,
                      NEW e \in Range(entries[p]), e.sig = file[e.key]
               PROVE  e.of = file[e.key].version
    BY DEF HitIsCurrent
  <2>1. e \in Entry
    BY EntryIsFound DEF Types, TypeOK
  <2>2. e.of \in Nat /\ e.key \in Keys
    BY <2>1, BoundsAssumption DEF Entry
  <2>4. file[e.key] \in Signature
    BY <2>2 DEF Types, TypeOK
  <2>5. file[e.key].version \in Nat /\ file[e.key].version = e.sig.version
    BY <2>4, BoundsAssumption DEF Signature
  <2>3. Sound(e)
    BY DEF SearchInv, Known
  <2> QED  BY <2>2, <2>3, <2>5 DEF Sound
<1>3. Types /\ SearchInv /\ [Next]_vars => SearchInv'
  BY NextSound
<1> QED  BY <1>1, <1>2, <1>3, InitTypes, NextTypes, PTL DEF Spec

-----------------------------------------------------------------------------
(* Merging.                                                                *)

\* The file holds a later version of the session of e.
Outdated(e) == Has(index, e.key) /\ Get(index, e.key).sig.time > e.sig.time

\* In s, the entry of k and all after it are of sessions in t.
AmongLast(s, k, t) ==
    \E i \in DOMAIN s :
        /\ s[i].key = k
        /\ \A j \in DOMAIN s : j >= i => Has(t, s[j].key)

\* What the process in flush's critical section knows of the file.
Merging(p) ==
    pc[p] = "merge" =>
        /\ \A e \in Range(index) :
              /\ Has(merged[p].entries, e.key)
              /\ Get(merged[p].entries, e.key).sig.time >= e.sig.time
        /\ \A e \in Range(merged[p].todo) :
              /\ e \in Range(touched[p])
              /\ Has(merged[p].entries, e.key) =>
                    Get(merged[p].entries, e.key) \in Range(index)
        /\ \A e \in Range(touched[p]) :
              \/ e \in Range(merged[p].todo)
              \/ Outdated(e)
              \/ AmongLast(merged[p].entries, e.key, touched[p])

MergeInv == \A p \in Procs : Merging(p)

\* What is put last is among the last, and stays so while only sessions of t
\* are put after it.
LEMMA PutIsLast ==
    ASSUME NEW s, Dict(s), NEW e \in Entry, NEW t, Has(t, e.key)
    PROVE  AmongLast(Put(s, e), e.key, t)
<1> DEFINE d == Drop(s, e.key)
<1>1. d \in Seq(Entry)
  BY DropKeeps DEF Dict
<1> HIDE DEF d
<1>2. /\ DOMAIN Append(d, e) = 1..(Len(d) + 1) /\ Len(d) \in Nat
      /\ Append(d, e)[Len(d) + 1] = e
  BY <1>1
<1>3. AmongLast(Append(d, e), e.key, t)
  <2>1. Len(d) + 1 \in DOMAIN Append(d, e)
    BY <1>2
  <2>2. \A j \in DOMAIN Append(d, e) : j >= Len(d) + 1 => j = Len(d) + 1
    BY <1>2
  <2> QED  BY <1>2, <2>1, <2>2 DEF AmongLast
<1> QED  BY <1>3 DEF Put, d

LEMMA PutKeepsLast ==
    ASSUME NEW s, Dict(s), NEW e \in Entry, NEW t, Has(t, e.key),
           NEW k, AmongLast(s, k, t)
    PROVE  AmongLast(Put(s, e), k, t)
<1> DEFINE d == Drop(s, e.key)
<1>1. CASE k = e.key
  BY <1>1, PutIsLast
<1>2. CASE k # e.key
  <2>1. PICK i \in DOMAIN s : /\ s[i].key = k
                              /\ \A j \in DOMAIN s : j >= i => Has(t, s[j].key)
    BY DEF AmongLast
  <2>2. /\ s \in Seq(Entry) /\ DOMAIN s = 1..Len(s) /\ Len(s) \in Nat
        /\ d \in Seq(Entry) /\ DOMAIN d = 1..Len(d) /\ Len(d) \in Nat
    BY DropKeeps DEF Dict
  <2> HIDE DEF d
  <2>3. /\ DOMAIN Append(d, e) = 1..(Len(d) + 1)
        /\ \A j \in 1..Len(d) : Append(d, e)[j] = d[j]
        /\ Append(d, e)[Len(d) + 1] = e
    BY <2>2
  \* It is enough to find the entry of k in what Drop leaves.
  <2>4. ASSUME NEW n \in 1..Len(d), d[n].key = k,
               \A j \in 1..Len(d) : j >= n => Has(t, d[j].key)
        PROVE  AmongLast(Append(d, e), k, t)
    <3>1. n \in DOMAIN Append(d, e) /\ Append(d, e)[n].key = k
      BY <2>2, <2>3, <2>4
    <3>2. ASSUME NEW j \in 1..(Len(d) + 1), j >= n
          PROVE  Has(t, Append(d, e)[j].key)
      <4>1. CASE j \in 1..Len(d)
        BY <2>3, <2>4, <3>2, <4>1
      <4>2. CASE j = Len(d) + 1
        BY <2>3, <4>2
      <4> QED  BY <2>2, <4>1, <4>2
    <3> QED  BY <2>3, <3>1, <3>2 DEF AmongLast
  <2>5. ASSUME d = s
        PROVE  AmongLast(Append(d, e), k, t)
    <3>1. i \in 1..Len(d) /\ d[i].key = k
      BY <2>1, <2>2, <2>5
    <3>2. \A j \in 1..Len(d) : j >= i => Has(t, d[j].key)
      BY <2>1, <2>2, <2>5
    <3> QED  BY <2>4, <3>1, <3>2
  <2>6. ASSUME NEW c \in 1..Len(s),
               s[c].key = e.key,
               Len(d) = Len(s) - 1,
               \A j \in 1..(c - 1) : d[j] = s[j],
               \A j \in c..(Len(s) - 1) : d[j] = s[j + 1]
        PROVE  AmongLast(Append(d, e), k, t)
    <3>1. i # c
      BY <1>2, <2>1, <2>6
    <3>2. ASSUME NEW j \in 1..Len(d)
          PROVE  \/ j < c /\ j \in DOMAIN s /\ d[j] = s[j]
                 \/ j >= c /\ j + 1 \in DOMAIN s /\ d[j] = s[j + 1]
      <4>1. CASE j < c
        BY <2>2, <2>6, <4>1
      <4>2. CASE j >= c
        <5>1. j \in c..(Len(s) - 1) /\ j + 1 \in DOMAIN s
          BY <2>2, <2>6, <4>2
        <5> QED  BY <2>6, <4>2, <5>1
      <4> QED  BY <2>2, <4>1, <4>2
    <3>3. CASE i < c
      <4>1. i \in 1..Len(d) /\ d[i] = s[i]
        BY <2>1, <2>2, <2>6, <3>3
      <4>2. \A j \in 1..Len(d) : j >= i => Has(t, d[j].key)
        <5> SUFFICES ASSUME NEW j \in 1..Len(d), j >= i PROVE Has(t, d[j].key)
          OBVIOUS
        <5>1. CASE j < c /\ j \in DOMAIN s /\ d[j] = s[j]
          BY <2>1, <5>1
        <5>2. CASE j >= c /\ j + 1 \in DOMAIN s /\ d[j] = s[j + 1]
          <6>1. j + 1 >= i
            BY <2>2
          <6> QED  BY <2>1, <5>2, <6>1
        <5> QED  BY <3>2, <5>1, <5>2
      <4> QED  BY <2>1, <2>4, <4>1, <4>2
    <3>4. CASE i > c
      <4>1. /\ i - 1 \in 1..Len(d) /\ i - 1 >= c /\ (i - 1) + 1 = i
            /\ i - 1 \in c..(Len(s) - 1)
        BY <2>1, <2>2, <2>6, <3>4
      <4>2. d[i - 1] = s[i]
        BY <2>6, <4>1
      <4>3. \A j \in 1..Len(d) : j >= i - 1 => Has(t, d[j].key)
        <5> SUFFICES ASSUME NEW j \in 1..Len(d), j >= i - 1 PROVE Has(t, d[j].key)
          OBVIOUS
        <5>1. j >= c /\ j + 1 >= i
          BY <2>2, <3>4, <4>1
        <5>2. j + 1 \in DOMAIN s /\ d[j] = s[j + 1]
          BY <2>6, <3>2, <5>1
        <5> QED  BY <2>1, <5>1, <5>2
      <4> QED  BY <2>1, <2>4, <4>1, <4>2, <4>3
    <3> QED  BY <2>2, <3>1, <3>3, <3>4
  <2>7. \/ d = s
        \/ \E c \in 1..Len(s) :
              /\ s[c].key = e.key
              /\ Len(d) = Len(s) - 1
              /\ \A j \in 1..(c - 1) : d[j] = s[j]
              /\ \A j \in c..(Len(s) - 1) : d[j] = s[j + 1]
    BY DropElements DEF d
  <2>8. AmongLast(Append(d, e), k, t)
    BY <2>5, <2>6, <2>7, Zenon
  <2> QED  BY <2>8 DEF Put, d
<1> QED  BY <1>1, <1>2

\* What of the entries before a position is left out leaves the others in order.
LEMMA SuffixHasLast ==
    ASSUME NEW s, Dict(s), NEW n \in 0..Len(s), NEW k, NEW t, AmongLast(s, k, t)
    PROVE  \/ Has(SubSeq(s, n + 1, Len(s)), k)
           \/ \A f \in Range(SubSeq(s, n + 1, Len(s))) : Has(t, f.key)
<1> DEFINE u == SubSeq(s, n + 1, Len(s))
<1>1. s \in Seq(Entry) /\ DOMAIN s = 1..Len(s) /\ Len(s) \in Nat
  BY DEF Dict
<1>2. /\ u \in Seq(Entry) /\ Len(u) = Len(s) - n
      /\ \A j \in 1..(Len(s) - n) : u[j] = s[n + j]
  BY <1>1, RestElements
<1> HIDE DEF u
<1>3. DOMAIN u = 1..(Len(s) - n)
  BY <1>1, <1>2
<1>4. PICK i \in 1..Len(s) : /\ s[i].key = k
                             /\ \A j \in 1..Len(s) : j >= i => Has(t, s[j].key)
  BY <1>1 DEF AmongLast
<1>5. CASE i > n
  <2>1. i - n \in 1..(Len(s) - n) /\ n + (i - n) = i
    BY <1>1, <1>5
  <2>2. u[i - n].key = k
    BY <1>2, <1>4, <2>1
  <2> QED  BY <1>3, <2>1, <2>2 DEF Has, At, u
<1>6. CASE i <= n
  <2> SUFFICES ASSUME NEW f \in Range(u) PROVE Has(t, f.key)
    BY DEF u
  <2>1. PICK j \in 1..(Len(s) - n) : f = s[n + j]
    BY <1>2, <1>3 DEF Range
  <2>2. n + j \in 1..Len(s) /\ n + j >= i
    BY <1>1, <1>6
  <2> QED  BY <1>4, <2>1, <2>2
<1> QED  BY <1>1, <1>5, <1>6

\* A step of p outside the loop over the touched entries.
LEMMA MovesMerging ==
    ASSUME Types, MergeInv, NEW p \in Procs, UNCHANGED index,
           NEW w, w # "merge", NEW l, NEW e, NEW t, NEW d, NEW m,
           Moves(p, w, l, e, t, d, m)
    PROVE  MergeInv'
<1> SUFFICES ASSUME NEW q \in Procs PROVE Merging(q)'
  BY DEF MergeInv
<1>1. CASE q = p
  <2>1. pc'[q] = w
    BY <1>1, MovesOne
  <2> QED  BY <2>1 DEF Merging
<1>2. CASE q # p
  <2>1. /\ pc'[q] = pc[q] /\ touched'[q] = touched[q] /\ merged'[q] = merged[q]
    BY <1>2, MovesOne
  <2>2. Merging(q)
    BY DEF MergeInv
  <2> QED  BY <2>1, <2>2 DEF Merging, Outdated
<1> QED  BY <1>1, <1>2

\* A step of p within it: what is left to show is about p.
LEMMA MovesWithin ==
    ASSUME Types, MergeInv, NEW p \in Procs, UNCHANGED index,
           NEW w, NEW l, NEW e, NEW d, NEW m,
           Moves(p, w, l, e, touched[p], d, m),
           \A f \in Range(index) :
              /\ Has(m.entries, f.key)
              /\ Get(m.entries, f.key).sig.time >= f.sig.time,
           \A f \in Range(m.todo) :
              /\ f \in Range(touched[p])
              /\ Has(m.entries, f.key) => Get(m.entries, f.key) \in Range(index),
           \A f \in Range(touched[p]) :
              \/ f \in Range(m.todo)
              \/ Outdated(f)
              \/ AmongLast(m.entries, f.key, touched[p])
    PROVE  MergeInv'
<1> SUFFICES ASSUME NEW q \in Procs PROVE Merging(q)'
  BY DEF MergeInv
<1>1. CASE q = p
  <2>1. touched'[q] = touched[p] /\ merged'[q] = m
    BY <1>1, MovesOne
  <2> QED  BY <2>1 DEF Merging, Outdated
<1>2. CASE q # p
  <2>1. /\ pc'[q] = pc[q] /\ touched'[q] = touched[q] /\ merged'[q] = merged[q]
    BY <1>2, MovesOne
  <2>2. Merging(q)
    BY DEF MergeInv
  <2> QED  BY <2>1, <2>2 DEF Merging, Outdated
<1> QED  BY <1>1, <1>2

LEMMA LoadMerging ==
    ASSUME Types, IndexReadable, MergeInv, NEW p \in Procs, Load(p)
    PROVE  MergeInv'
<1> DEFINE m == [entries |-> Read(index), todo |-> touched[p]]
<1>1. Moves(p, "merge", left[p], entries[p], touched[p], draft[p], m)
      /\ UNCHANGED index
  BY FlushMoves
<1>2. m.entries = index /\ m.todo = touched[p]
  BY DEF IndexReadable, Read
<1> HIDE DEF m
<1>3. Dict(index) /\ Dict(touched[p])
  BY DEF Types, TypeOK
<1>4. ASSUME NEW f \in Range(index)
      PROVE  Has(index, f.key) /\ Get(index, f.key).sig.time >= f.sig.time
  <2>1. f \in Entry /\ Has(index, f.key) /\ Get(index, f.key) = f
    BY <1>3, EntryIsFound
  <2>2. f.sig.time \in Nat
    BY <2>1, BoundsAssumption DEF Entry, Signature
  <2> QED  BY <2>1, <2>2
<1>5. ASSUME NEW f \in Range(touched[p]), Has(index, f.key)
      PROVE  Get(index, f.key) \in Range(index)
  BY <1>3, <1>5, FoundIsEntry
<1> QED  BY <1>1, <1>2, <1>4, <1>5, MovesWithin

LEMMA MergeMerging ==
    ASSUME Types, MergeInv, NEW p \in Procs, Merge(p)
    PROVE  MergeInv'
<1> DEFINE s == merged[p].entries
           h == Head(merged[p].todo)
           m == [entries |-> IF Wins(s, h) THEN Put(s, h) ELSE s,
                 todo |-> Tail(merged[p].todo)]
<1>1. /\ pc[p] = "merge" /\ merged[p].todo # <<>> /\ UNCHANGED index
      /\ Moves(p, "merge", left[p], entries[p], touched[p], draft[p], m)
  BY MergeMoves
<1>2. Dict(index) /\ Dict(s) /\ Dict(touched[p]) /\ Dict(merged[p].todo)
  BY DEF Types, TypeOK
<1>3. /\ h \in Entry /\ h \in Range(merged[p].todo)
      /\ Range(merged[p].todo) = {h} \cup Range(Tail(merged[p].todo))
      /\ \A f \in Range(Tail(merged[p].todo)) : f.key # h.key
  BY <1>1, <1>2, TailKeeps
<1>4. /\ \A f \in Range(index) : /\ Has(s, f.key)
                                 /\ Get(s, f.key).sig.time >= f.sig.time
      /\ \A f \in Range(merged[p].todo) :
            /\ f \in Range(touched[p])
            /\ Has(s, f.key) => Get(s, f.key) \in Range(index)
      /\ \A f \in Range(touched[p]) :
            \/ f \in Range(merged[p].todo)
            \/ Outdated(f)
            \/ AmongLast(s, f.key, touched[p])
  BY <1>1 DEF MergeInv, Merging
<1>5. m.todo = Tail(merged[p].todo)
      /\ m.entries = IF Wins(s, h) THEN Put(s, h) ELSE s
  OBVIOUS
<1> HIDE DEF m, s, h
<1>6. h \in Range(touched[p]) /\ Has(touched[p], h.key)
  BY <1>2, <1>3, <1>4, EntryIsFound
<1>7. CASE Wins(s, h)
  <2>1. m.entries = Put(s, h)
    BY <1>5, <1>7
  <2>2. ASSUME NEW f \in Range(index)
        PROVE  Has(m.entries, f.key) /\ Get(m.entries, f.key).sig.time >= f.sig.time
    <3>1. CASE f.key = h.key
      <4>1. Get(m.entries, f.key) = h /\ Has(m.entries, f.key)
        BY <1>2, <1>3, <2>1, <3>1, PutLookups
      <4>2. \/ Get(s, h.key).sig = h.sig
            \/ Get(s, h.key).sig.time <= h.sig.time
        BY <1>4, <1>7, <3>1 DEF Wins
      <4>3. Get(s, h.key).sig.time >= f.sig.time /\ Get(s, h.key) \in Entry
        BY <1>2, <1>4, <3>1, FoundIsEntry
      <4>4. f \in Entry
        BY <1>2, EntryIsFound
      <4>5. f.sig.time \in Nat /\ h.sig.time \in Nat /\ Get(s, h.key).sig.time \in Nat
        BY <1>3, <4>3, <4>4, BoundsAssumption DEF Entry, Signature
      <4>6. h.sig.time >= f.sig.time
        BY <4>2, <4>3, <4>5
      <4> QED  BY <4>1, <4>6
    <3>2. CASE f.key # h.key
      <4>1. Has(s, f.key) /\ Get(s, f.key).sig.time >= f.sig.time
        BY <1>4
      <4>2. Has(m.entries, f.key) /\ Get(m.entries, f.key) = Get(s, f.key)
        BY <1>2, <1>3, <2>1, <3>2, <4>1, PutLookups
      <4> QED  BY <4>1, <4>2
    <3> QED  BY <3>1, <3>2
  <2>3. ASSUME NEW f \in Range(m.todo)
        PROVE  /\ f \in Range(touched[p])
               /\ Has(m.entries, f.key) => Get(m.entries, f.key) \in Range(index)
    <3>1. f \in Range(merged[p].todo) /\ f.key # h.key
      BY <1>3, <1>5
    <3>2. Has(m.entries, f.key) => /\ Has(s, f.key)
                                   /\ Get(m.entries, f.key) = Get(s, f.key)
      BY <1>2, <1>3, <2>1, <3>1, PutLookups
    <3> QED  BY <1>4, <3>1, <3>2
  <2>4. ASSUME NEW f \in Range(touched[p])
        PROVE  \/ f \in Range(m.todo)
               \/ Outdated(f)
               \/ AmongLast(m.entries, f.key, touched[p])
    <3>1. CASE f = h
      BY <1>2, <1>3, <1>6, <2>1, <3>1, PutIsLast
    <3>2. CASE f \in Range(merged[p].todo) /\ f # h
      BY <1>3, <1>5, <3>2
    <3>3. CASE AmongLast(s, f.key, touched[p])
      BY <1>2, <1>3, <1>6, <2>1, <3>3, PutKeepsLast
    <3> QED  BY <1>4, <3>1, <3>2, <3>3
  <2> QED  BY <1>1, <2>2, <2>3, <2>4, MovesWithin
<1>8. CASE ~Wins(s, h)
  <2>1. m.entries = s
    BY <1>5, <1>8
  <2>2. Outdated(h)
    <3>1. Has(s, h.key) /\ ~(Get(s, h.key).sig.time <= h.sig.time)
      BY <1>8 DEF Wins
    <3>2. /\ Get(s, h.key) \in Range(index) /\ Get(s, h.key).key = h.key
          /\ Get(s, h.key) \in Entry
      BY <1>2, <1>3, <1>4, <3>1, FoundIsEntry
    <3>3. Has(index, h.key) /\ Get(index, h.key) = Get(s, h.key)
      BY <1>2, <3>2, EntryIsFound
    <3>4. h.sig.time \in Nat /\ Get(s, h.key).sig.time \in Nat
      BY <1>3, <3>2, BoundsAssumption DEF Entry, Signature
    <3>5. Get(s, h.key).sig.time > h.sig.time
      BY <3>1, <3>4
    <3> QED  BY <3>3, <3>5 DEF Outdated
  <2>3. \A f \in Range(m.todo) :
           /\ f \in Range(touched[p])
           /\ Has(m.entries, f.key) => Get(m.entries, f.key) \in Range(index)
    BY <1>3, <1>4, <1>5, <2>1
  <2>4. \A f \in Range(touched[p]) :
           \/ f \in Range(m.todo)
           \/ Outdated(f)
           \/ AmongLast(m.entries, f.key, touched[p])
    BY <1>3, <1>4, <1>5, <2>1, <2>2
  <2>5. \A f \in Range(index) : /\ Has(m.entries, f.key)
                                /\ Get(m.entries, f.key).sig.time >= f.sig.time
    BY <1>4, <2>1
  <2> QED  BY <1>1, <2>3, <2>4, <2>5, MovesWithin
<1> QED  BY <1>7, <1>8

LEMMA NextMerging ==
    ASSUME Types, Locks, IndexReadable, MergeInv, [Next]_vars
    PROVE  MergeInv'
<1>1. CASE UNCHANGED vars
  BY <1>1 DEF vars, call, MergeInv, Merging, Outdated
<1>2. ASSUME NEW k \in Keys, Change(k)
      PROVE  MergeInv'
  BY <1>2 DEF Change, call, MergeInv, Merging, Outdated
<1>3. ASSUME NEW p \in Procs, NEW k \in Keys,
             Hit(p, k) \/ Miss(p, k) \/ Overview(p, k)
      PROVE  MergeInv'
  BY ZenonT(60), <1>3, ScanMoves, MovesMerging
<1>4. ASSUME NEW p \in Procs,
             StoreFields(p) \/ StoreOverview(p) \/ Skip(p) \/ Open(p)
      PROVE  MergeInv'
  BY <1>4, DraftMoves, MovesMerging DEF StoreFields, StoreOverview
<1>5. ASSUME NEW p \in Procs,
             Clean(p) \/ Contended(p) \/ Abandon(p) \/ Flush(p) \/ Lock(p)
      PROVE  MergeInv'
  <2>1. UNCHANGED index
    BY <1>5 DEF Clean, Contended, Abandon, Flush, Lock
  <2> QED  BY <1>5, <2>1, FlushMoves, MovesMerging DEF Clean, Contended, Abandon
<1>6. ASSUME NEW p \in Procs, Load(p) \/ Merge(p)
      PROVE  MergeInv'
  BY <1>6, LoadMerging, MergeMerging
<1>7. ASSUME NEW p \in Procs, Replace(p)
      PROVE  MergeInv'
  \* No other process merges into an index that p replaces.
  <2>1. \A q \in Procs \ {p} : pc[q] # "merge"
    BY <1>7 DEF Locks, LockHeldWhileSaving, Replace
  <2>2. Moves(p, "idle", {}, <<>>, <<>>, NoDraft, NoMerge)
    BY <1>7, FlushMoves DEF Replace
  <2>3. ASSUME NEW q \in Procs PROVE pc'[q] # "merge"
    <3>1. CASE q = p
      <4>1. pc'[p] = "idle"
        BY <2>2, MovesOne
      <4> QED  BY <3>1, <4>1
    <3>2. CASE q # p
      <4>1. pc'[q] = pc[q]
        BY <2>2, <3>2, MovesOne
      <4> QED  BY <2>1, <3>2, <4>1
    <3> QED  BY <3>1, <3>2
  <2> QED  BY <2>3 DEF MergeInv, Merging
<1> QED  BY <1>1, <1>2, <1>3, <1>4, <1>5, <1>6, <1>7 DEF Next, Step

\* A write by p leaves out no entry of the file that was not the oldest.
LEMMA ReplaceLosesNothing ==
    ASSUME Types, MergeInv, NEW p \in Procs, Replace(p)
    PROVE  NoLostUpdateStep
<1> DEFINE s == merged[p].entries
<1>1. Dict(index) /\ Dict(s) /\ index' = Trim(s)
  BY DEF Types, TypeOK, Replace
<1>2. \A e \in Range(index) : Has(s, e.key) /\ Get(s, e.key).sig.time >= e.sig.time
  BY DEF Replace, MergeInv, Merging
<1> HIDE DEF s
<1>3. Dict(index') /\ Range(index') \subseteq Range(s)
  BY <1>1, TrimKeeps
<1>4. PICK n \in 0..Len(s) :
         /\ index' = SubSeq(s, n + 1, Len(s))
         /\ n > 0 => ~Fits(SubSeq(s, n, Len(s)))
  BY <1>1, TrimIsLeast
<1>5. s \in Seq(Entry) /\ DOMAIN s = 1..Len(s) /\ Len(s) \in Nat
      /\ \A i, j \in 1..Len(s) : s[i].key = s[j].key => i = j
  BY <1>1 DEF Dict
<1>6. ASSUME NEW e \in Range(index), Has(index', e.key)
      PROVE  Get(index', e.key).sig.time >= e.sig.time
  <2>1. Get(index', e.key) \in Range(index') /\ Get(index', e.key).key = e.key
    BY <1>3, <1>6, FoundIsEntry
  <2>2. Get(index', e.key) = Get(s, e.key)
    BY <1>1, <1>3, <2>1, EntryIsFound
  <2> QED  BY <1>2, <2>2
<1>7. ASSUME NEW e \in Range(index), ~Has(index', e.key)
      PROVE  Evicted(e)
  <2>1. n # 0
    <3> SUFFICES ASSUME n = 0 PROVE FALSE
      OBVIOUS
    <3>1. index' = s
      BY <1>4, <1>5, SubSeqFull
    <3> QED  BY <1>2, <1>7, <3>1
  <2>2. n \in 1..Len(s)
    BY <1>5, <2>1
  <2>3. s[n] \in Range(s)
    BY <1>5, <2>2 DEF Range
  <2>4. SubSeq(s, n, Len(s)) = <<s[n]>> \o index'
    <3>1. Len(s) \in n..Len(s)
      BY <1>5, <2>2
    <3> QED  BY <1>4, <1>5, <2>2, <3>1, SubSeqRecursiveFirst
  <2>5. ~Fits(<<s[n]>> \o index')
    BY <1>4, <2>2, <2>4
  <2>6. ~Has(index', s[n].key)
    <3>1. /\ index' \in Seq(Entry) /\ DOMAIN index' = 1..(Len(s) - n)
          /\ \A j \in 1..(Len(s) - n) : index'[j] = s[n + j]
      BY <1>4, <1>5, RestElements
    <3>2. ASSUME NEW j \in 1..(Len(s) - n), index'[j].key = s[n].key
          PROVE  FALSE
      <4>1. n + j \in 1..Len(s) /\ n + j # n
        BY <1>5, <2>2
      <4> QED  BY <1>5, <2>2, <3>1, <3>2, <4>1
    <3> QED  BY <3>1, <3>2 DEF Has, At
  <2> QED  BY <1>2, <2>3, <2>5, <2>6 DEF Evicted, s
<1> QED  BY <1>6, <1>7 DEF NoLostUpdateStep

LEMMA NextLosesNothing ==
    ASSUME Types, MergeInv, [Next]_vars
    PROVE  NoLostUpdateStep
<1>1. CASE index' = index
  <2>1. ASSUME NEW e \in Range(index)
        PROVE  Has(index', e.key) /\ Get(index', e.key).sig.time >= e.sig.time
    <3>1. e \in Entry /\ Has(index, e.key) /\ Get(index, e.key) = e
      BY EntryIsFound DEF Types, TypeOK
    <3>2. e.sig.time \in Nat
      BY <3>1, BoundsAssumption DEF Entry, Signature
    <3> QED  BY <1>1, <3>1, <3>2
  <2> QED  BY <2>1 DEF NoLostUpdateStep
<1>2. CASE \E p \in Procs : Replace(p)
  BY <1>2, ReplaceLosesNothing
<1> QED  BY <1>1, <1>2, IndexChanges

LEMMA ReplaceKeepsUsed ==
    ASSUME Types, MergeInv
    PROVE  RecentlyUsedStep
<1> SUFFICES ASSUME NEW p \in Procs, Replace(p), NEW e \in Range(touched[p])
             PROVE  \/ Has(index', e.key)
                    \/ Outdated(e)
                    \/ \A f \in Range(index') : Has(touched[p], f.key)
  BY DEF RecentlyUsedStep, Outdated
<1> DEFINE s == merged[p].entries
<1>1. Dict(s) /\ index' = Trim(s)
  BY DEF Types, TypeOK, Replace
<1>2. Outdated(e) \/ AmongLast(s, e.key, touched[p])
  BY EmptyIsDict DEF Replace, MergeInv, Merging
<1> HIDE DEF s
<1>3. PICK n \in 0..Len(s) : index' = SubSeq(s, n + 1, Len(s))
  BY <1>1, TrimIsLeast
<1> QED  BY <1>1, <1>2, <1>3, SuffixHasLast

MergeAll == Types /\ Locks /\ IndexReadable /\ MergeInv

LEMMA MergeAllHolds == Spec => []MergeAll
<1>1. Init => MergeAll
  BY InitTypes, ProcsAssumption
     DEF MergeAll, Init, Locks, LockHeldWhileSaving, IndexReadable, Read,
         MergeInv, Merging
<1>2. MergeAll /\ [Next]_vars => MergeAll'
  BY NextTypes, NextLocks, NextReadable, NextMerging DEF MergeAll
<1> QED  BY <1>1, <1>2, PTL DEF Spec

\* A process never undoes what another one saved, whatever the interleaving:
\* it merges into the file nobody else writes meanwhile, and gives up an entry
\* of another process only to one that is not older, or when the index is full.
THEOREM UpdatesAreKept == Spec => NoLostUpdate
<1>1. MergeAll /\ [Next]_vars => [NoLostUpdateStep]_vars
  BY NextLosesNothing DEF MergeAll
<1> QED  BY <1>1, MergeAllHolds, PTL DEF Spec, NoLostUpdate

\* move_to_end keeps what a call used among the last of the index, so a write
\* evicts all that no call touched before it.
THEOREM UsedEntriesAreKept == Spec => RecentlyUsedKept
<1>1. MergeAll /\ [Next]_vars => [RecentlyUsedStep]_vars
  BY ReplaceKeepsUsed DEF MergeAll
<1> QED  BY <1>1, MergeAllHolds, PTL DEF Spec, RecentlyUsedKept
=============================================================================
