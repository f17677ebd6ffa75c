--------------------------- MODULE DatabaseProofs ---------------------------
(***************************************************************************)
(* The operations of the principal database keep it sound: every record is *)
(* stored under its own name and the log's mirror follows it, keys are no  *)
(* newer than their principal, the history agrees with the keys, and only  *)
(* a modify or a rename leaves a name of a policy that does not exist.     *)
(***************************************************************************)
EXTENDS Database, SequenceTheorems, WellFoundedInduction, TLAPS

Sound(d) == WellFormed(d) /\ d.mirror = d.principals

\* The records and the policies of a database.
Records(d) ==
    /\ \A n \in DOMAIN d.principals : RecordSound(d.principals[n])
    /\ \A n \in DOMAIN d.policies : IsPolicy(d.policies[n])

\* d differs from e in the record of at most the principal n.
OnlyPrincipal(d, e, n) ==
    /\ d.policies = e.policies /\ d.aliases = e.aliases
    /\ Without(d.principals, n) = Without(e.principals, n)

-----------------------------------------------------------------------------
(* Sequences and the largest element of a set.                             *)

\* A nonempty set of naturals has a least element.
LEMMA LeastExists ==
    ASSUME NEW S, S \subseteq Nat, S # {}
    PROVE  \E x \in S : \A y \in S : x <= y
<1>1. \E x \in S : \A y \in S : ~(<<y, x>> \in OpToRel(<, Nat))
    BY WFMin, NatLessThanWellFounded, Zenon
<1>2. OpToRel(<, Nat) = {p \in Nat \X Nat : p[1] < p[2]}
    BY DEF OpToRel
<1>3. \A y, x \in Nat : y < x => <<y, x>> \in OpToRel(<, Nat)
    BY <1>2, Zenon
<1>4. PICK x \in S : \A y \in S : ~(<<y, x>> \in OpToRel(<, Nat))
    BY <1>1, Zenon
<1>5. \A y \in S : ~(y < x)
    BY <1>3, <1>4, Zenon
<1>6. \A y \in S : x <= y
    BY <1>5
<1> QED BY <1>6

\* A nonempty set of naturals with a bound has a largest element, SetMax.
LEMMA SetMaxIsLargest ==
    ASSUME NEW S, S \subseteq Nat, S # {}, NEW n \in Nat, \A x \in S : x <= n
    PROVE  SetMax(S) \in S /\ \A y \in S : y <= SetMax(S)
<1> DEFINE T == {m \in Nat : n - m \in S}
<1>1. T \subseteq Nat /\ T # {}
    <2>1. PICK x \in S : TRUE
        BY Zenon
    <2>2. n - x \in Nat /\ n - (n - x) = x
        BY <2>1
    <2>3. n - x \in T
        BY <2>1, <2>2, Zenon
    <2> QED BY <2>3, Zenon
<1>2. PICK m \in T : \A k \in T : m <= k
    <2> HIDE DEF T
    <2> QED BY <1>1, LeastExists, Zenon
<1>3. ASSUME NEW y \in S PROVE y <= n - m
    <2>1. n - y \in T
        BY <1>3
    <2> QED BY <1>2, <1>3, <2>1
<1>4. \E x \in S : \A y \in S : x >= y
    BY <1>2, <1>3
<1>5. SetMax(S) \in S /\ \A y \in S : SetMax(S) >= y
    BY <1>4, Zenon DEF SetMax
<1> QED BY <1>5

\* Finitely many numbers have a bound.
LEMMA FinitelyManyBounded ==
    ASSUME NEW n \in Nat, NEW f, \A i \in 1..n : f[i] \in Nat
    PROVE  \E u \in Nat : \A i \in 1..n : f[i] <= u
<1> DEFINE Bounded(m) == \E u \in Nat : \A i \in 1..m : f[i] <= u
           bad == {m \in 0..n : ~Bounded(m)}
<1>1. Bounded(0)
    BY 0 \in Nat, \A i \in 1..0 : FALSE
<1>2. ASSUME NEW m \in 1..n, Bounded(m - 1) PROVE Bounded(m)
    <2>1. PICK u \in Nat : \A i \in 1..(m - 1) : f[i] <= u
        BY <1>2
    <2>2. PICK v \in Nat : u <= v /\ f[m] <= v
        <3>1. f[m] \in Nat
            OBVIOUS
        <3> QED BY <3>1
    <2>3. \A i \in 1..m : f[i] <= v
        <3>1. \A i \in 1..m : i = m \/ i \in 1..(m - 1)
            OBVIOUS
        <3> QED BY <2>1, <2>2, <3>1
    <2> QED BY <2>3
<1> HIDE DEF Bounded
<1>3. ASSUME bad # {} PROVE FALSE
    <2>1. bad \subseteq Nat
        OBVIOUS
    <2>2. PICK m \in bad : \A k \in bad : m <= k
        BY <1>3, <2>1, LeastExists, Zenon
    <2>3. m # 0
        BY <1>1, <2>2
    <2>4. m \in 1..n /\ m - 1 \in 0..n /\ m - 1 \notin bad
        BY <2>2, <2>3
    <2> QED BY <1>2, <2>2, <2>4
<1>4. Bounded(n)
    BY <1>3
<1> QED BY <1>4 DEF Bounded

\* Take keeps a first part of a sequence.
LEMMA TakeProperties ==
    ASSUME NEW S, NEW s \in Seq(S), NEW n \in Nat
    PROVE  /\ Take(s, n) \in Seq(S)
           /\ Len(Take(s, n)) = IF n < Len(s) THEN n ELSE Len(s)
           /\ DOMAIN Take(s, n) = 1..Len(Take(s, n))
           /\ \A i \in 1..Len(Take(s, n)) : Take(s, n)[i] = s[i]
<1> DEFINE m == IF n < Len(s) THEN n ELSE Len(s)
<1>1. m \in 0..Len(s) /\ Take(s, n) = SubSeq(s, 1, m)
    BY DEF Take
<1> HIDE DEF m
<1>2. /\ SubSeq(s, 1, m) \in Seq(S)
      /\ Len(SubSeq(s, 1, m)) = m
      /\ \A i \in 1..m : SubSeq(s, 1, m)[i] = s[i]
    BY <1>1
<1>3. DOMAIN SubSeq(s, 1, m) = 1..m
    BY <1>2
<1> QED BY <1>1, <1>2, <1>3 DEF m

\* A sequence with one more element in front.
LEMMA ConsProperties ==
    ASSUME NEW S, NEW s \in Seq(S), NEW x
    PROVE  /\ <<x>> \o s \in Seq(S \cup {x})
           /\ Len(<<x>> \o s) = Len(s) + 1
           /\ (<<x>> \o s)[1] = x
           /\ \A i \in 1..Len(s) : (<<x>> \o s)[i + 1] = s[i]
<1>1. s \in Seq(S \cup {x}) /\ <<x>> \in Seq(S \cup {x})
    BY SeqMonotonic
<1> QED BY <1>1

\* A sequence over any set is one over its own elements.
LEMMA OwnRange ==
    ASSUME NEW S, NEW s \in Seq(S)
    PROVE  s \in Seq(Range(s))
BY SeqOfRange

-----------------------------------------------------------------------------
(* Records.                                                                *)

\* A record with the keys, the version and the history of a sound one.
LEMMA SameRecord ==
    ASSUME NEW old, RecordSound(old), NEW rec, DOMAIN rec = DOMAIN old, Optional(rec.policy),
           rec.keys = old.keys, rec.kvno = old.kvno, rec.hist = old.hist, rec.past = old.past
    PROVE  RecordSound(rec)
<1>1. PastSound(rec)
    BY Zenon DEF RecordSound, PastSound
<1> QED BY <1>1, Zenon DEF RecordSound

\* A record whose history was forgotten.
LEMMA NoPast ==
    ASSUME NEW old, RecordSound(old), NEW rec, DOMAIN rec = DOMAIN old, rec.policy = old.policy,
           rec.hist = old.hist, rec.past = <<>>, rec.kvno \in Nat,
           \A e \in DOMAIN rec.keys : rec.keys[e].kvno \in 1..rec.kvno
    PROVE  RecordSound(rec)
<1>1. <<>> \in Seq(Range(<<>>)) /\ DOMAIN <<>> = {}
    OBVIOUS
<1>2. PastSound(rec)
    BY <1>1, Zenon DEF RecordSound, PastSound, Lists
<1> QED BY <1>2, Zenon DEF RecordSound

\* A password gives keys of one version: the principal's own enctypes, the
\* requested ones, or all.
LEMMA DerivedKeys ==
    ASSUME NEW name, NEW password, NEW n, NEW tuples, tuples \in Seq(Range(tuples))
    PROVE  /\ DOMAIN deriveRecordWithTuples(name, password, n, tuples) # {}
           /\ \A e \in DOMAIN deriveRecordWithTuples(name, password, n, tuples) :
                 deriveRecordWithTuples(name, password, n, tuples)[e].kvno = n
<1> DEFINE types == normalizeKeySaltTuples(tuples)
<1>1. DOMAIN types # {}
    <2>1. CASE tuples = <<>>
        BY <2>1, EnctypesAssumption DEF normalizeKeySaltTuples
    <2>2. CASE tuples # <<>>
        <3>1. 1 \in DOMAIN tuples
            BY <2>2
        <3>2. tuples[1].e \in {tuples[i].e : i \in DOMAIN tuples}
            BY <3>1
        <3>3. DOMAIN types = {tuples[i].e : i \in DOMAIN tuples}
            BY <2>2 DEF normalizeKeySaltTuples
        <3> QED BY <3>2, <3>3, Zenon
    <2> QED BY <2>1, <2>2
<1> HIDE DEF types
<1>2. deriveRecordWithTuples(name, password, n, tuples) =
          [e \in DOMAIN types |->
              LET salt == saltForPrincipal(name, types[e]) IN Key(n, password, salt, salt)]
    BY DEF deriveRecordWithTuples, types
<1> QED BY <1>1, <1>2 DEF Key

\* The keys of a password change.
LEMMA PasswordKeys ==
    ASSUME NEW rec, NEW password, NEW tuples, tuples \in Seq(Range(tuples))
    PROVE  /\ DOMAIN passwordKeys(rec, password, tuples) # {}
           /\ \A e \in DOMAIN passwordKeys(rec, password, tuples) :
                 passwordKeys(rec, password, tuples)[e].kvno = rec.kvno + 1
<1> DEFINE next == deriveRecordWithTuples(rec.name, password, rec.kvno + 1, tuples)
           same == deriveKeys(rec.name, password, rec.keys, rec.kvno + 1)
<1>1. DOMAIN next # {} /\ \A e \in DOMAIN next : next[e].kvno = rec.kvno + 1
    BY DerivedKeys
<1>2. DOMAIN same = DOMAIN rec.keys /\ \A e \in DOMAIN same : same[e].kvno = rec.kvno + 1
    BY DEF deriveKeys, Key
<1>3. \/ passwordKeys(rec, password, tuples) = next
      \/ passwordKeys(rec, password, tuples) = same /\ DOMAIN rec.keys # {}
    BY DEF passwordKeys
<1> HIDE DEF next, same
<1> QED BY <1>1, <1>2, <1>3

\* Random keys have the new version.
LEMMA RandomKeys ==
    ASSUME NEW name, NEW current, NEW n, NEW tuples
    PROVE  \A e \in DOMAIN randomKeys(name, current, n, tuples) :
              randomKeys(name, current, n, tuples)[e].kvno = n
<1>1. CASE tuples = <<>>
    BY <1>1 DEF randomKeys, Key
<1>2. CASE tuples # <<>>
    BY <1>2 DEF randomKeys, Key
<1> QED BY <1>1, <1>2

\* A purge of a record that has a password keeps all of its keys or none,
\* because they have one version; else it keeps some of them.
LEMMA PurgedSound ==
    ASSUME NEW old, RecordSound(old), NEW keep, NEW next, DOMAIN next # {},
           next = Restrict(old.keys, {e \in DOMAIN old.keys : old.keys[e].kvno >= keep})
    PROVE  RecordSound([old EXCEPT !.keys = next])
<1> DEFINE rec == [old EXCEPT !.keys = next]
<1>1. DOMAIN next \subseteq DOMAIN old.keys /\ \A e \in DOMAIN next : next[e] = old.keys[e]
    BY DEF Restrict
<1>2. /\ DOMAIN rec = DOMAIN old /\ rec.keys = next /\ rec.kvno = old.kvno /\ rec.hist = old.hist
      /\ rec.past = old.past /\ rec.policy = old.policy
    BY DEF RecordSound
<1>3. ASSUME old.past # <<>>
      PROVE  /\ \A e \in DOMAIN next : next[e].kvno = old.kvno
             /\ old.past[1] = Secrets(next)
    <2>1. \A e \in DOMAIN old.keys : old.keys[e].kvno = old.kvno
        BY <1>3 DEF RecordSound, PastSound
    <2>2. DOMAIN next = {e \in DOMAIN old.keys : old.keys[e].kvno >= keep}
        BY DEF Restrict
    <2>3. \E e \in DOMAIN next : old.keys[e].kvno >= keep /\ e \in DOMAIN old.keys
        BY <2>2
    <2>4. DOMAIN next = DOMAIN old.keys
        BY <2>1, <2>2, <2>3, Zenon
    <2>5. Secrets(next) = Secrets(old.keys)
        BY <1>1, <2>4 DEF Secrets
    <2>6. old.past[1] = Secrets(old.keys)
        BY <1>3 DEF RecordSound, PastSound, Lists
    <2> QED BY <1>1, <2>1, <2>5, <2>6
<1> HIDE DEF rec
<1>4. PastSound(rec)
    BY <1>2, <1>3, Zenon DEF RecordSound, PastSound, Lists
<1>5. \A e \in DOMAIN rec.keys : rec.keys[e].kvno \in 1..rec.kvno
    BY <1>1, <1>2, Zenon DEF RecordSound
<1>6. RecordSound(rec)
    BY <1>2, <1>4, <1>5, Zenon DEF RecordSound
<1> QED BY <1>6 DEF rec

\* Of the keys of one enctype there is a last one.
LEMMA LastKey ==
    ASSUME NEW keys, keys \in Seq(Range(keys)), NEW e \in {k.e : k \in Range(keys)}
    PROVE  (CHOOSE i \in DOMAIN keys :
                keys[i].e = e /\ \A j \in DOMAIN keys : keys[j].e = e => j <= i) \in DOMAIN keys
<1> DEFINE S == {i \in DOMAIN keys : keys[i].e = e}
<1>1. Len(keys) \in Nat /\ DOMAIN keys = 1..Len(keys)
    OBVIOUS
<1>2. S # {}
    BY <1>1 DEF Range
<1>3. S \subseteq Nat /\ \A i \in S : i <= Len(keys)
    BY <1>1
<1>4. SetMax(S) \in S /\ \A j \in S : j <= SetMax(S)
    <2> HIDE DEF S
    <2> QED BY <1>1, <1>2, <1>3, SetMaxIsLargest, Zenon
<1>5. \E i \in DOMAIN keys : keys[i].e = e /\ \A j \in DOMAIN keys : keys[j].e = e => j <= i
    BY <1>4
<1> QED BY <1>5, Zenon

\* Two numbers have a bound.
LEMMA CommonBound == \A a, b \in Nat : \E u \in Nat : a <= u /\ b <= u
<1> TAKE a, b \in Nat
<1>1. CASE a <= b
    BY <1>1
<1>2. CASE b <= a
    BY <1>2
<1> QED BY <1>1, <1>2

\* SetKeys raises the version to the highest one it installs.
LEMMA KeysSetSound ==
    ASSUME NEW old, RecordSound(old), NEW keys, keys \in Seq(Range(keys)),
           \A k \in Range(keys) : k.kvno \in Nat,
           NEW new, DOMAIN new = {k.e : k \in Range(keys)},
           \A e \in DOMAIN new : \E k \in Range(keys) : new[e].kvno = Version(old, k),
           NEW kept, kept \subseteq DOMAIN old.keys,
           NEW rec, DOMAIN rec = DOMAIN old, rec.policy = old.policy, rec.hist = old.hist, rec.past = <<>>,
           rec.kvno = Raised(old.kvno, {Version(old, k) : k \in Range(keys)}),
           rec.keys = [e \in DOMAIN new \cup kept |-> IF e \in DOMAIN new THEN new[e] ELSE old.keys[e]]
    PROVE  RecordSound(rec)
<1> DEFINE versions == {Version(old, k) : k \in Range(keys)}
           all == {old.kvno} \cup versions
<1>0. old.kvno \in Nat
    BY DEF RecordSound
<1>1. \A k \in Range(keys) : Version(old, k) \in Nat /\ Version(old, k) # 0
    BY <1>0 DEF Version
<1>2. PICK u \in Nat : \A x \in all : x <= u
    <2> DEFINE f == [i \in 1..Len(keys) |-> Version(old, keys[i])]
    <2>1. Len(keys) \in Nat /\ DOMAIN keys = 1..Len(keys)
        OBVIOUS
    <2>2. \A i \in 1..Len(keys) : keys[i] \in Range(keys)
        BY <2>1 DEF Range
    <2>3. \A i \in 1..Len(keys) : f[i] \in Nat /\ f[i] = Version(old, keys[i])
        BY <1>1, <2>2
    <2> HIDE DEF f
    <2>4. PICK v \in Nat : \A i \in 1..Len(keys) : f[i] <= v
        BY <2>1, <2>3, FinitelyManyBounded, Zenon
    <2>5. \A k \in Range(keys) : Version(old, k) <= v
        <3> TAKE k \in Range(keys)
        <3>1. PICK i \in 1..Len(keys) : k = keys[i]
            BY <2>1 DEF Range
        <3>2. f[i] <= v /\ f[i] = Version(old, k)
            BY <2>3, <2>4, <3>1
        <3> QED BY <3>2
    <2>6. PICK u \in Nat : old.kvno <= u /\ v <= u
        BY <1>0, CommonBound, Zenon
    <2>7. \A k \in Range(keys) : Version(old, k) <= u
        BY <1>1, <2>5, <2>6
    <2> QED BY <2>6, <2>7
<1>3. all \subseteq Nat /\ all # {}
    <2>1. ASSUME NEW x \in versions PROVE x \in Nat
        BY <1>1
    <2> HIDE DEF versions
    <2> QED BY <1>0, <2>1, Zenon
<1>4. SetMax(all) \in Nat /\ \A x \in all : x <= SetMax(all)
    <2> HIDE DEF all
    <2> QED BY <1>2, <1>3, SetMaxIsLargest, Zenon
<1>5. rec.kvno = SetMax(all)
    BY DEF Raised
<1> HIDE DEF all
<1>6. rec.kvno \in Nat /\ old.kvno <= rec.kvno /\ \A k \in Range(keys) : Version(old, k) <= rec.kvno
    BY <1>4, <1>5, Zenon DEF all
<1>7. ASSUME NEW e \in DOMAIN rec.keys PROVE rec.keys[e].kvno \in 1..rec.kvno
    <2>1. CASE e \in DOMAIN new
        <3>1. rec.keys[e] = new[e]
            BY <2>1
        <3>2. PICK k \in Range(keys) : new[e].kvno = Version(old, k)
            BY <2>1
        <3> QED BY <1>1, <1>6, <3>1, <3>2
    <2>2. CASE e \notin DOMAIN new
        <3>1. e \in DOMAIN old.keys /\ rec.keys[e] = old.keys[e]
            BY <2>2
        <3>2. old.keys[e].kvno \in 1..old.kvno
            BY <3>1 DEF RecordSound
        <3> QED BY <1>0, <1>6, <3>1, <3>2
    <2> QED BY <2>1, <2>2
<1> QED BY <1>6, <1>7, NoPast, Zenon

\* A password change under a policy with a history of n: the new key set is
\* none of those the check compared it with, and the lists of past key sets
\* and of old keys grow together.
LEMMA PastGrows ==
    ASSUME NEW P, NEW past \in Seq(P), NEW H, NEW hist \in Seq(H), NEW old, NEW new,
           Lists(past, old, hist),
           NEW n \in Nat, n >= 1, NEW limit \in Nat, limit >= n - 1,
           Secrets(new) # Secrets(old),
           \A i \in DOMAIN Take(hist, limit) : Secrets(new) # Secrets(hist[i]),
           NEW past2, past2 = Take(<<Secrets(new)>> \o past, n),
           NEW hist2, hist2 = Take(<<old>> \o hist, limit)
    PROVE  /\ past2 \in Seq(Range(past2)) /\ hist2 \in Seq(Range(hist2))
           /\ Lists(past2, new, hist2)
<1>0. /\ \A i, j \in DOMAIN past : past[i] = past[j] => i = j
      /\ past # <<>> => /\ past[1] = Secrets(old)
                        /\ Len(past) <= Len(hist) + 1
                        /\ \A i \in 1..Len(past) - 1 : past[i + 1] = Secrets(hist[i])
    BY DEF Lists
<1> DEFINE p == <<Secrets(new)>> \o past
           h == <<old>> \o hist
<1>1. /\ p \in Seq(P \cup {Secrets(new)}) /\ Len(p) = Len(past) + 1
      /\ p[1] = Secrets(new) /\ \A i \in 1..Len(past) : p[i + 1] = past[i]
    BY ConsProperties
<1>2. /\ h \in Seq(H \cup {old}) /\ Len(h) = Len(hist) + 1
      /\ h[1] = old /\ \A i \in 1..Len(hist) : h[i + 1] = hist[i]
    BY ConsProperties
<1>3. Len(past) \in Nat /\ Len(hist) \in Nat /\ DOMAIN past = 1..Len(past)
    OBVIOUS
<1> HIDE DEF p, h
<1>4. /\ past2 \in Seq(P \cup {Secrets(new)})
      /\ Len(past2) = (IF n < Len(past) + 1 THEN n ELSE Len(past) + 1)
      /\ DOMAIN past2 = 1..Len(past2)
      /\ \A i \in 1..Len(past2) : past2[i] = p[i]
    <2>1. past2 = Take(p, n)
        BY DEF p
    <2>2. /\ Take(p, n) \in Seq(P \cup {Secrets(new)})
          /\ Len(Take(p, n)) = IF n < Len(p) THEN n ELSE Len(p)
          /\ DOMAIN Take(p, n) = 1..Len(Take(p, n))
          /\ \A i \in 1..Len(Take(p, n)) : Take(p, n)[i] = p[i]
        BY <1>1, TakeProperties
    <2>3. Len(p) = Len(past) + 1
        BY <1>1
    <2> QED BY <2>1, <2>2, <2>3, Zenon
<1>5. /\ hist2 \in Seq(H \cup {old})
      /\ Len(hist2) = (IF limit < Len(hist) + 1 THEN limit ELSE Len(hist) + 1)
      /\ \A i \in 1..Len(hist2) : hist2[i] = h[i]
    <2>1. hist2 = Take(h, limit)
        BY DEF h
    <2>2. /\ Take(h, limit) \in Seq(H \cup {old})
          /\ Len(Take(h, limit)) = IF limit < Len(h) THEN limit ELSE Len(h)
          /\ \A i \in 1..Len(Take(h, limit)) : Take(h, limit)[i] = h[i]
        BY <1>2, TakeProperties
    <2>3. Len(h) = Len(hist) + 1
        BY <1>2
    <2> QED BY <2>1, <2>2, <2>3, Zenon
<1>6. DOMAIN Take(hist, limit) = 1..(IF limit < Len(hist) THEN limit ELSE Len(hist))
    BY TakeProperties
<1>7. past # <<>> <=> Len(past) >= 1
    OBVIOUS
<1>8. Len(past2) <= Len(hist2) + 1 /\ Len(past2) >= 1 /\ Len(past2) \in Nat /\ Len(hist2) \in Nat
    BY <1>0, <1>3, <1>4, <1>5, <1>7
<1>9. past2[1] = Secrets(new)
    BY <1>1, <1>4, <1>8
<1>10. \A i \in 1..Len(past2) - 1 : i \in 1..Len(past) /\ past2[i + 1] = past[i] /\ i <= n - 1
    <2> SUFFICES ASSUME NEW i \in 1..Len(past2) - 1
                 PROVE  i \in 1..Len(past) /\ past2[i + 1] = past[i] /\ i <= n - 1
        BY Zenon
    <2>1. i \in 1..Len(past) /\ i + 1 \in 1..Len(past2) /\ i <= n - 1
        BY <1>3, <1>4, <1>8
    <2>2. past2[i + 1] = p[i + 1] /\ p[i + 1] = past[i]
        BY <1>1, <1>4, <2>1, Zenon
    <2> QED BY <2>1, <2>2
<1>11. ASSUME NEW i \in 1..Len(past2) - 1
       PROVE  past2[i + 1] = Secrets(hist2[i]) /\ past2[i + 1] # Secrets(new)
    <2>1. /\ i \in 1..Len(hist2) /\ hist2[i] = h[i]
          /\ i \in 1..Len(past) /\ past2[i + 1] = past[i] /\ i <= n - 1 /\ past # <<>>
        <3>1. i \in 1..Len(hist2)
            BY <1>8
        <3>2. i \in 1..Len(past) /\ past2[i + 1] = past[i] /\ i <= n - 1
            BY <1>10, Zenon
        <3>3. past # <<>>
            BY <1>3, <1>7, <3>2
        <3> QED BY <1>5, <3>1, <3>2, <3>3
    <2>2. CASE i = 1
        BY <1>0, <1>2, <2>1, <2>2
    <2>3. CASE i # 1
        <3>1. PICK k \in Nat : i = k + 1 /\ k >= 1
            BY <2>3
        <3>2. k \in 1..Len(past) - 1 /\ k \in 1..Len(hist) /\ k <= limit
            BY <1>0, <1>3, <2>1, <3>1
        <3>3. past[k + 1] = Secrets(hist[k]) /\ h[k + 1] = hist[k]
            BY <1>0, <1>2, <2>1, <3>2, Zenon
        <3>4. Secrets(new) # Secrets(hist[k])
            BY <1>3, <1>6, <3>2
        <3> QED BY <2>1, <3>1, <3>3, <3>4
    <2> QED BY <2>2, <2>3
<1>12. ASSUME NEW i \in DOMAIN past2, NEW j \in DOMAIN past2, past2[i] = past2[j]
       PROVE  i = j
    <2>1. \A k \in DOMAIN past2 : k = 1 \/ (k - 1 \in 1..Len(past2) - 1 /\ (k - 1) + 1 = k)
        BY <1>4, <1>8
    <2>2. CASE i = 1 \/ j = 1
        <3>1. \A k \in DOMAIN past2 : k # 1 => past2[k] # Secrets(new)
            BY <1>11, <2>1, Zenon
        <3> QED BY <1>9, <1>12, <2>2, <3>1
    <2>3. CASE i # 1 /\ j # 1
        <3>1. past2[i] = past[i - 1] /\ past2[j] = past[j - 1] /\ i - 1 \in DOMAIN past /\ j - 1 \in DOMAIN past
            BY <1>3, <1>10, <2>1, <2>3, Zenon
        <3>2. i - 1 = j - 1
            BY <1>0, <1>12, <3>1, Zenon
        <3> QED BY <1>4, <1>8, <3>2
    <2> QED BY <2>2, <2>3
<1>13. past2 \in Seq(Range(past2)) /\ hist2 \in Seq(Range(hist2))
    BY <1>4, <1>5, OwnRange
<1>14. Lists(past2, new, hist2)
    BY <1>8, <1>9, <1>11, <1>12, Zenon DEF Lists
<1> QED BY <1>13, <1>14

\* A record with new keys of the next version.
LEMMA RekeyedSound ==
    ASSUME NEW old, RecordSound(old), NEW new, DOMAIN new # {},
           \A e \in DOMAIN new : new[e].kvno = old.kvno + 1,
           NEW rec, DOMAIN rec = DOMAIN old, rec.policy = old.policy,
           rec.keys = new, rec.kvno = old.kvno + 1,
           rec.past \in Seq(Range(rec.past)), rec.hist \in Seq(Range(rec.hist)),
           Lists(rec.past, new, rec.hist)
    PROVE  RecordSound(rec)
<1>1. old.kvno \in Nat /\ Optional(old.policy)
    BY DEF RecordSound
<1>2. rec.kvno \in Nat /\ \A e \in DOMAIN rec.keys : rec.keys[e].kvno \in 1..rec.kvno
    BY <1>1
<1>3. PastSound(rec)
    BY DEF PastSound
<1> QED BY <1>1, <1>2, <1>3, Zenon DEF RecordSound

\* A password change that no history governs starts the history anew.
LEMMA FreeSound ==
    ASSUME NEW old, RecordSound(old), NEW new, DOMAIN new # {},
           \A e \in DOMAIN new : new[e].kvno = old.kvno + 1,
           NEW rec, DOMAIN rec = DOMAIN old, rec.policy = old.policy,
           rec.keys = new, rec.kvno = old.kvno + 1, rec.past = <<Secrets(new)>>,
           rec.hist = old.hist \/ rec.hist = <<old.keys>> \o old.hist
    PROVE  RecordSound(rec)
<1>1. old.hist \in Seq(Range(old.hist))
    BY DEF RecordSound, PastSound
<1>2. \E S : rec.hist \in Seq(S)
    <2>1. <<old.keys>> \o old.hist \in Seq(Range(old.hist) \cup {old.keys})
        BY <1>1, ConsProperties
    <2> QED BY <1>1, <2>1, Zenon
<1>3. rec.hist \in Seq(Range(rec.hist)) /\ Len(rec.hist) \in Nat
    BY <1>2, OwnRange
<1> DEFINE past == <<Secrets(new)>>
<1>4. past \in Seq({Secrets(new)}) /\ Len(past) = 1 /\ DOMAIN past = 1..1 /\ past[1] = Secrets(new)
    OBVIOUS
<1>5. rec.past = past
    OBVIOUS
<1> HIDE DEF past
<1>6. past \in Seq(Range(past)) /\ Lists(past, new, rec.hist)
    BY <1>3, <1>4, OwnRange DEF Lists
<1> QED BY <1>3, <1>5, <1>6, RekeyedSound

\* A password change under a policy with a history of n keeps the newest n,
\* or, when the key of the history changed, only the current one.
LEMMA RuledSound ==
    ASSUME NEW old, RecordSound(old), NEW new, DOMAIN new # {},
           \A e \in DOMAIN new : new[e].kvno = old.kvno + 1,
           NEW hist, hist = old.hist \/ hist = <<>>,
           NEW n \in Int, n > 0, NEW limit \in Int, limit >= n - 1,
           ~Reused(new, old, hist, limit),
           NEW rec, DOMAIN rec = DOMAIN old, rec.policy = old.policy,
           rec.keys = new, rec.kvno = old.kvno + 1,
           rec.hist = Take(<<old.keys>> \o hist, limit),
           rec.past = Take(<<Secrets(new)>> \o (IF hist = old.hist THEN old.past ELSE Take(old.past, 1)), n)
    PROVE  RecordSound(rec)
<1> DEFINE past == IF hist = old.hist THEN old.past ELSE Take(old.past, 1)
<1>1. /\ old.past \in Seq(Range(old.past)) /\ old.hist \in Seq(Range(old.hist))
      /\ Lists(old.past, old.keys, old.hist)
    BY DEF RecordSound, PastSound
<1>2. past \in Seq(Range(old.past)) /\ hist \in Seq(Range(old.hist)) /\ Lists(past, old.keys, hist)
    <2>1. CASE hist = old.hist
        BY <1>1, <2>1
    <2>2. CASE hist # old.hist
        <3>1. /\ past = Take(old.past, 1) /\ past \in Seq(Range(old.past))
              /\ Len(past) = IF 1 < Len(old.past) THEN 1 ELSE Len(old.past)
              /\ DOMAIN past = 1..Len(past)
              /\ \A i \in 1..Len(past) : past[i] = old.past[i]
            BY <1>1, <2>2, TakeProperties
        <3> HIDE DEF past
        <3>2. Len(old.past) \in Nat /\ (old.past = <<>> <=> Len(old.past) = 0)
            BY <1>1
        <3>3. Len(past) \in {0, 1} /\ (past # <<>> => Len(past) = 1 /\ old.past # <<>>)
            BY <3>1, <3>2
        <3>4. hist = <<>> /\ hist \in Seq(Range(old.hist)) /\ Len(hist) = 0
            <4>1. hist = <<>>
                BY <2>2, Zenon
            <4> QED BY <4>1
        <3>5. past # <<>> => past[1] = Secrets(old.keys)
            BY <1>1, <3>1, <3>3 DEF Lists
        <3>6. Lists(past, old.keys, hist)
            BY <3>1, <3>3, <3>4, <3>5 DEF Lists
        <3> QED BY <3>1, <3>4, <3>6
    <2> QED BY <2>1, <2>2
<1>3. rec.past = Take(<<Secrets(new)>> \o past, n)
    OBVIOUS
<1> HIDE DEF past
<1>4. /\ Secrets(new) # Secrets(old.keys)
      /\ \A i \in DOMAIN Take(hist, limit) : Secrets(new) # Secrets(hist[i])
    BY DEF Reused, passwordMatchesKeys
<1>5. n \in Nat /\ n >= 1 /\ limit \in Nat
    OBVIOUS
<1>6. /\ rec.past \in Seq(Range(rec.past)) /\ rec.hist \in Seq(Range(rec.hist))
      /\ Lists(rec.past, new, rec.hist)
    <2>1. rec.hist = Take(<<old.keys>> \o hist, limit) /\ limit >= n - 1
        OBVIOUS
    <2> QED BY ONLY <1>2, <1>3, <1>4, <1>5, <2>1, PastGrows
<1> QED BY <1>6, RekeyedSound

-----------------------------------------------------------------------------
(* The operations of the database.                                         *)

\* Store puts a record under its name and logs it.
LEMMA StoreSound ==
    ASSUME NEW d, Sound(d), NEW rec, "name" \in DOMAIN rec
    PROVE  /\ Sound(Store(d, rec))
           /\ OnlyPrincipal(Store(d, rec), d, rec.name)
           /\ DOMAIN Store(d, rec).principals = DOMAIN d.principals \cup {rec.name}
           /\ \A n \in DOMAIN d.principals \cup {rec.name} :
                 Store(d, rec).principals[n] = IF n = rec.name THEN rec ELSE d.principals[n]
<1> DEFINE e == Store(d, rec)
<1>1. /\ e.principals = Update(d.principals, rec.name, rec)
      /\ e.mirror = Update(d.mirror, rec.name, rec)
      /\ e.policies = d.policies /\ e.aliases = d.aliases
      /\ e = [f \in {"principals", "aliases", "policies", "mirror", "maps"} |-> e[f]]
    BY Zenon DEF Store, recordUpdate, ApplyPrincipal, Sound, WellFormed
<1>2. DOMAIN Update(d.principals, rec.name, rec) = DOMAIN d.principals \cup {rec.name}
    BY DEF Update
<1>3. \A n \in DOMAIN d.principals \cup {rec.name} :
          Update(d.principals, rec.name, rec)[n] = IF n = rec.name THEN rec ELSE d.principals[n]
    BY DEF Update
<1> HIDE DEF e
<1>4. Sound(e)
    BY <1>1, <1>2, <1>3 DEF Sound, WellFormed
<1>5. Without(e.principals, rec.name) = Without(d.principals, rec.name)
    <2>1. DOMAIN e.principals \ {rec.name} = DOMAIN d.principals \ {rec.name}
        BY <1>1, <1>2
    <2>2. \A n \in DOMAIN d.principals \ {rec.name} : e.principals[n] = d.principals[n]
        BY <1>1, <1>3
    <2> QED BY <2>1, <2>2 DEF Without, Restrict
<1>6. OnlyPrincipal(e, d, rec.name)
    BY <1>1, <1>5 DEF OnlyPrincipal
<1> QED BY <1>1, <1>2, <1>3, <1>4, <1>6 DEF e

\* A result that stored a record.
LEMMA StoredSound ==
    ASSUME NEW d, Sound(d), NEW rec, "name" \in DOMAIN rec
    PROVE  /\ Sound(Stored(d, rec).db)
           /\ OnlyPrincipal(Stored(d, rec).db, d, rec.name)
           /\ Records(d) /\ RecordSound(rec) => Records(Stored(d, rec).db)
<1>1. Stored(d, rec).db = Store(d, rec)
    BY DEF Stored
<1> DEFINE e == Store(d, rec)
<1>2. /\ Sound(e) /\ OnlyPrincipal(e, d, rec.name)
      /\ DOMAIN e.principals = DOMAIN d.principals \cup {rec.name}
      /\ \A n \in DOMAIN d.principals \cup {rec.name} :
            e.principals[n] = IF n = rec.name THEN rec ELSE d.principals[n]
    BY StoreSound
<1> HIDE DEF e
<1>3. ASSUME Records(d), RecordSound(rec) PROVE Records(e)
    <2>1. \A n \in DOMAIN e.principals : RecordSound(e.principals[n])
        BY <1>2, <1>3, Zenon DEF Records
    <2>2. e.policies = d.policies
        BY <1>2 DEF OnlyPrincipal
    <2> QED BY <1>3, <2>1, <2>2 DEF Records
<1> QED BY <1>1, <1>2, <1>3 DEF e

\* The policy of a record that is stored exists, is the one it had, or is none.
LEMMA StoredKept ==
    ASSUME NEW d, Sound(d), NEW rec, "name" \in DOMAIN rec,
           \/ rec.policy = <<>> \/ rec.policy[1] \in DOMAIN d.policies
           \/ rec.name \in DOMAIN d.principals /\ rec.policy = d.principals[rec.name].policy
    PROVE  Dangling(Stored(d, rec).db) \subseteq Dangling(d)
<1>1. Stored(d, rec).db = Store(d, rec)
    BY DEF Stored
<1> DEFINE e == Store(d, rec)
<1>2. /\ OnlyPrincipal(e, d, rec.name)
      /\ DOMAIN e.principals = DOMAIN d.principals \cup {rec.name}
      /\ \A n \in DOMAIN d.principals \cup {rec.name} :
            e.principals[n] = IF n = rec.name THEN rec ELSE d.principals[n]
    BY StoreSound
<1>3. e.policies = d.policies
    BY <1>2 DEF OnlyPrincipal
<1> HIDE DEF e
<1>4. Dangling(e) \subseteq Dangling(d)
    <2> SUFFICES ASSUME NEW n \in Dangling(e) PROVE n \in Dangling(d)
        OBVIOUS
    <2>1. n \in DOMAIN e.principals /\ e.principals[n].policy # <<>> /\ e.principals[n].policy[1] \notin DOMAIN e.policies
        BY DEF Dangling
    <2>2. CASE n = rec.name
        BY <1>2, <1>3, <2>1, <2>2, Zenon DEF Dangling
    <2>3. CASE n # rec.name
        BY <1>2, <1>3, <2>1, <2>3, Zenon DEF Dangling
    <2> QED BY <2>2, <2>3
<1> QED BY <1>1, <1>4 DEF e

\* A call that fails changes nothing.
LEMMA FailedSound ==
    ASSUME NEW d, Sound(d), NEW err, NEW n
    PROVE  Failed(d, err).db = d /\ Sound(Failed(d, err).db) /\ OnlyPrincipal(Failed(d, err).db, d, n)
BY DEF Failed, OnlyPrincipal

\* A new map of string attributes changes no record.
LEMMA NewMapSound ==
    ASSUME NEW d, Sound(d)
    PROVE  Sound(NewMap(d)) /\ NewMap(d).principals = d.principals /\ NewMap(d).policies = d.policies
BY DEF NewMap, Sound, WellFormed

\* Without removes a record, and removing it from the log as well keeps the
\* log complete.
LEMMA RemoveSound ==
    ASSUME NEW d, Sound(d), NEW n \in DOMAIN d.principals
    PROVE  LET gone == recordUpdate([d EXCEPT !.principals = Without(@, n)], d.principals[n], TRUE)
           IN  /\ Sound(gone) /\ gone.principals = Without(d.principals, n)
               /\ gone.policies = d.policies
               /\ Records(d) => Records(gone)
               /\ Dangling(gone) \subseteq Dangling(d)
<1> DEFINE gone == recordUpdate([d EXCEPT !.principals = Without(@, n)], d.principals[n], TRUE)
<1>1. d.principals[n].name = n
    BY DEF Sound, WellFormed
<1>2. /\ gone.principals = Without(d.principals, n)
      /\ gone.mirror = Without(d.mirror, n)
      /\ gone.policies = d.policies
      /\ gone = [f \in {"principals", "aliases", "policies", "mirror", "maps"} |-> gone[f]]
    BY <1>1, Zenon DEF recordUpdate, ApplyPrincipal, Sound, WellFormed
<1>3. /\ DOMAIN Without(d.principals, n) \subseteq DOMAIN d.principals
      /\ \A m \in DOMAIN Without(d.principals, n) : Without(d.principals, n)[m] = d.principals[m]
    BY DEF Without, Restrict
<1> HIDE DEF gone
<1>4. Sound(gone)
    BY <1>2, <1>3 DEF Sound, WellFormed
<1>5. Records(d) => Records(gone)
    BY <1>2, <1>3, Zenon DEF Records
<1>6. Dangling(gone) \subseteq Dangling(d)
    BY <1>2, <1>3 DEF Dangling
<1> QED BY <1>2, <1>4, <1>5, <1>6, Zenon DEF gone

\* CreatePrincipal stores a record of version 1 under its name, with a policy
\* that exists.
LEMMA CreateSound ==
    ASSUME NEW d, Sound(d), Records(d), NEW name, NEW password, NEW tuples, NEW policy, NEW t,
           tuples \in Seq(Range(tuples)), Optional(policy)
    PROVE  /\ Sound(createPrincipal(d, name, password, tuples, policy, t).db)
           /\ Records(createPrincipal(d, name, password, tuples, policy, t).db)
           /\ Dangling(createPrincipal(d, name, password, tuples, policy, t).db) \subseteq Dangling(d)
<1> DEFINE p == IF policy = <<>> \/ policy[1] \notin DOMAIN d.policies
                THEN [maxLife |-> 0] ELSE d.policies[policy[1]]
           keys == deriveRecordWithTuples(name, password, 1, tuples)
           rec == [name |-> name, strAt |-> d.maps, keys |-> keys, kvno |-> 1, hist |-> <<>>,
                   histKvno |-> 0, past |-> <<Secrets(keys)>>, lastPwd |-> t, policy |-> policy,
                   lockdown |-> FALSE, maxLife |-> p.maxLife, strings |-> {},
                   pwExp |-> IF p.maxLife > 0 THEN t + p.maxLife ELSE 0]
           result == createPrincipal(d, name, password, tuples, policy, t)
<1>1. \/ /\ result = Stored(NewMap(d), rec)
         /\ policy = <<>> \/ policy[1] \in DOMAIN d.policies
      \/ \E err : result = Failed(d, err)
    BY DEF createPrincipal
<1>2. DOMAIN keys # {} /\ \A e \in DOMAIN keys : keys[e].kvno = 1
    BY DerivedKeys
<1> HIDE DEF p, keys, result
<1>3. /\ {"name", "keys", "kvno", "hist", "past", "policy"} \subseteq DOMAIN rec
      /\ rec.keys = keys /\ rec.kvno = 1 /\ rec.hist = <<>> /\ rec.past = <<Secrets(keys)>>
      /\ rec.policy = policy
    OBVIOUS
<1> HIDE DEF rec
<1>4. RecordSound(rec)
    <2> DEFINE past == <<Secrets(keys)>>
    <2>1. past \in Seq({Secrets(keys)}) /\ Len(past) = 1 /\ DOMAIN past = 1..1 /\ past[1] = Secrets(keys)
        OBVIOUS
    <2> HIDE DEF past
    <2>2. past \in Seq(Range(past)) /\ <<>> \in Seq(Range(<<>>)) /\ Len(<<>>) = 0
        BY <2>1, OwnRange
    <2>3. Lists(past, keys, <<>>)
        BY <2>1, <2>2 DEF Lists
    <2>4. PastSound(rec)
        BY <1>2, <1>3, <2>2, <2>3, Zenon DEF PastSound, past
    <2>5. rec.kvno \in Nat /\ \A e \in DOMAIN rec.keys : rec.keys[e].kvno \in 1..rec.kvno
        BY <1>2, <1>3
    <2> QED BY <1>3, <2>4, <2>5, Zenon DEF RecordSound
<1>5. CASE \E err : result = Failed(d, err)
    BY <1>5, FailedSound DEF result
<1>6. CASE result = Stored(NewMap(d), rec) /\ (policy = <<>> \/ policy[1] \in DOMAIN d.policies)
    <2>1. /\ Sound(NewMap(d)) /\ Records(NewMap(d)) /\ Dangling(NewMap(d)) = Dangling(d)
          /\ NewMap(d).policies = d.policies
        BY NewMapSound DEF Records, Dangling
    <2>2. Sound(result.db) /\ Records(result.db)
        BY <1>3, <1>4, <1>6, <2>1, StoredSound
    <2>3. Dangling(result.db) \subseteq Dangling(NewMap(d))
        BY <1>3, <1>6, <2>1, StoredKept
    <2> QED BY <2>1, <2>2, <2>3 DEF result
<1> QED BY <1>1, <1>5, <1>6

\* DeletePrincipal removes and logs the record, or fails.
LEMMA DeleteSound ==
    ASSUME NEW d, Sound(d), Records(d), NEW name
    PROVE  /\ Sound(DeletePrincipal(d, name).db)
           /\ Records(DeletePrincipal(d, name).db)
           /\ Dangling(DeletePrincipal(d, name).db) \subseteq Dangling(d)
<1>1. CASE name \notin DOMAIN d.principals
    BY <1>1, FailedSound DEF DeletePrincipal
<1>2. CASE name \in DOMAIN d.principals
    <2>1. DeletePrincipal(d, name).db
            = recordUpdate([d EXCEPT !.principals = Without(@, name)], d.principals[name], TRUE)
        BY <1>2, Zenon DEF DeletePrincipal
    <2> QED BY <1>2, <2>1, RemoveSound, Zenon
<1> QED BY <1>1, <1>2

\* UpdatePrincipal stores a record that the caller read before.
LEMMA UpdateSound ==
    ASSUME NEW d, Sound(d), Records(d), NEW rec, "name" \in DOMAIN rec, RecordSound(rec)
    PROVE  Sound(UpdatePrincipal(d, rec).db) /\ Records(UpdatePrincipal(d, rec).db)
<1> DEFINE new == [rec EXCEPT !.strAt = d.maps,
                              !.lastPwd = IF @ = 0 THEN d.principals[rec.name].lastPwd ELSE @]
<1>1. /\ DOMAIN new = DOMAIN rec
      /\ new.keys = rec.keys /\ new.kvno = rec.kvno /\ new.hist = rec.hist
      /\ new.past = rec.past /\ new.policy = rec.policy
    BY DEF RecordSound
<1>2. UpdatePrincipal(d, rec) \in {Stored(NewMap(d), new), Failed(d, "UNK_PRINC")}
    BY DEF UpdatePrincipal
<1> HIDE DEF new
<1>3. RecordSound(new)
    <2>1. Optional(new.policy)
        BY <1>1, Zenon DEF RecordSound
    <2> QED BY <1>1, <2>1, SameRecord
<1>4. Sound(NewMap(d)) /\ Records(NewMap(d))
    BY NewMapSound DEF Records
<1>5. Sound(Stored(NewMap(d), new).db) /\ Records(Stored(NewMap(d), new).db)
    BY <1>1, <1>3, <1>4, StoredSound
<1> QED BY <1>2, <1>5, FailedSound

\* RenamePrincipal logs a deletion and a new record.
LEMMA RenameSound ==
    ASSUME NEW d, Sound(d), Records(d), NEW src, NEW dest
    PROVE  Sound(RenamePrincipal(d, src, dest).db) /\ Records(RenamePrincipal(d, src, dest).db)
<1>1. CASE src \in DOMAIN d.principals /\ dest \notin DOMAIN d.principals
    <2> DEFINE gone == recordUpdate([d EXCEPT !.principals = Without(@, src)], d.principals[src], TRUE)
               old == d.principals[src]
               rec == [old EXCEPT !.name = dest]
    <2>1. Sound(gone) /\ Records(gone)
        BY <1>1, RemoveSound, Zenon
    <2>2. "name" \in DOMAIN old /\ RecordSound(old)
        BY <1>1 DEF Sound, WellFormed, Records
    <2>3. RenamePrincipal(d, src, dest) = Stored(gone, rec)
        BY <1>1, Zenon DEF RenamePrincipal
    <2> HIDE DEF gone, old
    <2>4. /\ DOMAIN rec = DOMAIN old
          /\ rec.keys = old.keys /\ rec.kvno = old.kvno /\ rec.hist = old.hist
          /\ rec.past = old.past /\ rec.policy = old.policy
        BY <2>2 DEF RecordSound
    <2> HIDE DEF rec
    <2>5. RecordSound(rec)
        <3>1. Optional(rec.policy)
            BY <2>2, <2>4, Zenon DEF RecordSound
        <3> QED BY <2>2, <2>4, <3>1, SameRecord
    <2> QED BY <2>1, <2>2, <2>3, <2>4, <2>5, StoredSound
<1>2. CASE ~(src \in DOMAIN d.principals /\ dest \notin DOMAIN d.principals)
    <2>1. \E err : RenamePrincipal(d, src, dest) = Failed(d, err)
        BY <1>2, Zenon DEF RenamePrincipal
    <2> QED BY <2>1, FailedSound
<1> QED BY <1>1, <1>2

\* An operation on the record of one principal fails or stores that record
\* with other values in some of its fields; it keeps its policy.
Touches(d, name, result) ==
    \/ \E err : result = Failed(d, err)
    \/ /\ name \in DOMAIN d.principals
       /\ \E rec : /\ result = Stored(d, rec) /\ "name" \in DOMAIN rec /\ rec.name = name
                   /\ RecordSound(rec) /\ rec.policy = d.principals[name].policy

\* A result that touches one principal.
LEMMA TouchSound ==
    ASSUME NEW d, Sound(d), Records(d), NEW name, NEW result, Touches(d, name, result)
    PROVE  /\ Sound(result.db) /\ OnlyPrincipal(result.db, d, name)
           /\ Records(result.db) /\ Dangling(result.db) \subseteq Dangling(d)
<1>1. ASSUME NEW err, result = Failed(d, err)
      PROVE  /\ Sound(result.db) /\ OnlyPrincipal(result.db, d, name)
             /\ Records(result.db) /\ Dangling(result.db) \subseteq Dangling(d)
    BY <1>1, FailedSound
<1>2. ASSUME NEW rec, result = Stored(d, rec), "name" \in DOMAIN rec, rec.name = name,
             name \in DOMAIN d.principals, RecordSound(rec), rec.policy = d.principals[name].policy
      PROVE  /\ Sound(result.db) /\ OnlyPrincipal(result.db, d, name)
             /\ Records(result.db) /\ Dangling(result.db) \subseteq Dangling(d)
    BY <1>2, StoredSound, StoredKept
<1> QED BY <1>1, <1>2 DEF Touches

\* A record of the database.
LEMMA StoredRecord ==
    ASSUME NEW d, Sound(d), Records(d), NEW name \in DOMAIN d.principals
    PROVE  /\ "name" \in DOMAIN d.principals[name] /\ d.principals[name].name = name
           /\ RecordSound(d.principals[name])
BY DEF Sound, WellFormed, Records

\* SetString changes the attributes of its principal only.
LEMMA SetStringTouches ==
    ASSUME NEW d, Sound(d), Records(d), NEW name, NEW key, NEW set
    PROVE  Touches(d, name, SetString(d, name, key, set))
<1>1. CASE name \notin DOMAIN d.principals
    BY <1>1 DEF SetString, Touches
<1>2. CASE name \in DOMAIN d.principals
    <2> DEFINE old == d.principals[name]
               rec == [old EXCEPT !.strings = IF set THEN @ \cup {key} ELSE @ \ {key}]
    <2>1. "name" \in DOMAIN old /\ old.name = name /\ RecordSound(old)
        BY <1>2, StoredRecord
    <2>2. SetString(d, name, key, set) = Stored(d, rec)
        BY <1>2 DEF SetString
    <2> HIDE DEF old
    <2>3. /\ DOMAIN rec = DOMAIN old /\ rec.name = old.name /\ rec.policy = old.policy
          /\ rec.keys = old.keys /\ rec.kvno = old.kvno /\ rec.hist = old.hist /\ rec.past = old.past
        BY <2>1 DEF RecordSound
    <2> HIDE DEF rec
    <2>4. Optional(rec.policy)
        BY <2>1, <2>3, Zenon DEF RecordSound
    <2>5. RecordSound(rec)
        BY <2>1, <2>3, <2>4, SameRecord
    <2> QED BY <1>2, <2>1, <2>2, <2>3, <2>5 DEF Touches, old
<1> QED BY <1>1, <1>2

\* PurgeKeys changes the keys of its principal only.
LEMMA PurgeTouches ==
    ASSUME NEW d, Sound(d), Records(d), NEW name, NEW keepKVNO
    PROVE  Touches(d, name, PurgeKeys(d, name, keepKVNO))
<1>1. CASE name \notin DOMAIN d.principals
    BY <1>1 DEF PurgeKeys, Touches
<1>2. CASE name \in DOMAIN d.principals
    <2> DEFINE old == d.principals[name]
               keep == IF keepKVNO > 0 THEN keepKVNO
                       ELSE SetMax({0} \cup {old.keys[e].kvno : e \in DOMAIN old.keys})
               next == Restrict(old.keys, {e \in DOMAIN old.keys : old.keys[e].kvno >= keep})
               rec == [old EXCEPT !.keys = next]
    <2>1. "name" \in DOMAIN old /\ old.name = name /\ RecordSound(old)
        BY <1>2, StoredRecord
    <2>2. \/ PurgeKeys(d, name, keepKVNO) = Failed(d, "FAILURE")
          \/ PurgeKeys(d, name, keepKVNO) = Stored(d, rec) /\ DOMAIN next # {}
        BY <1>2, Zenon DEF PurgeKeys
    <2> HIDE DEF old, keep
    <2>3. ASSUME DOMAIN next # {} PROVE RecordSound(rec)
        <3>1. next = Restrict(old.keys, {e \in DOMAIN old.keys : old.keys[e].kvno >= keep})
            OBVIOUS
        <3> HIDE DEF next
        <3> QED BY <2>1, <2>3, <3>1, PurgedSound, Zenon
    <2> HIDE DEF next
    <2>4. DOMAIN rec = DOMAIN old /\ rec.name = old.name /\ rec.policy = old.policy
        BY <2>1 DEF RecordSound
    <2> HIDE DEF rec
    <2> QED BY <1>2, <2>1, <2>2, <2>3, <2>4 DEF Touches, old
<1> QED BY <1>1, <1>2

\* RandomizeKeys changes the keys of its principal only.
LEMMA RandomizeTouches ==
    ASSUME NEW d, Sound(d), Records(d), NEW name, NEW keepOld, NEW tuples
    PROVE  Touches(d, name, RandomizeKeys(d, name, keepOld, tuples))
<1>1. CASE name \notin DOMAIN d.principals \/ tupleError(tuples) # "ok"
    BY <1>1, Zenon DEF RandomizeKeys, Touches
<1>2. CASE name \in DOMAIN d.principals /\ tupleError(tuples) = "ok"
    <2> DEFINE old == d.principals[name]
               new == randomKeys(name, old.keys, old.kvno + 1, tuples)
               keys == IF keepOld THEN [e \in DOMAIN new \cup DOMAIN old.keys |->
                                            IF e \in DOMAIN new THEN new[e] ELSE old.keys[e]]
                       ELSE new
               rec == [old EXCEPT !.kvno = @ + 1, !.past = <<>>,
                         !.keys = IF keepOld THEN [e \in DOMAIN new \cup DOMAIN @ |->
                                                      IF e \in DOMAIN new THEN new[e] ELSE @[e]]
                                  ELSE new]
    <2>1. "name" \in DOMAIN old /\ old.name = name /\ RecordSound(old)
        BY <1>2, StoredRecord
    <2>2. RandomizeKeys(d, name, keepOld, tuples) = Stored(d, rec)
        BY <1>2 DEF RandomizeKeys
    <2>3. \A e \in DOMAIN new : new[e].kvno = old.kvno + 1
        BY RandomKeys
    <2> HIDE DEF old, new
    <2>4. /\ DOMAIN rec = DOMAIN old /\ rec.name = old.name /\ rec.policy = old.policy
          /\ rec.hist = old.hist /\ rec.past = <<>> /\ rec.kvno = old.kvno + 1 /\ rec.keys = keys
        BY <2>1 DEF RecordSound
    <2> HIDE DEF rec
    <2>5. old.kvno \in Nat /\ \A e \in DOMAIN old.keys : old.keys[e].kvno \in 1..old.kvno
        BY <2>1 DEF RecordSound
    <2>6. \A e \in DOMAIN keys : keys[e].kvno \in 1..old.kvno + 1
        <3>1. CASE keepOld
            BY <2>3, <2>5, <3>1
        <3>2. CASE ~keepOld
            BY <2>3, <2>5, <3>2
        <3> QED BY <3>1, <3>2
    <2> HIDE DEF keys
    <2>7. RecordSound(rec)
        <3>1. rec.kvno \in Nat /\ \A e \in DOMAIN rec.keys : rec.keys[e].kvno \in 1..rec.kvno
            BY <2>4, <2>5, <2>6
        <3> QED BY <2>1, <2>4, <3>1, NoPast
    <2> QED BY <1>2, <2>1, <2>2, <2>4, <2>7 DEF Touches, old
<1> QED BY <1>1, <1>2

\* SetKeys changes the keys of its principal only.
LEMMA SetKeysTouches ==
    ASSUME NEW d, Sound(d), Records(d), NEW name, NEW keys, NEW keepOld,
           keys \in Seq(Range(keys)), \A k \in Range(keys) : k.kvno \in Nat
    PROVE  Touches(d, name, SetKeys(d, name, keys, keepOld))
<1>1. CASE name \notin DOMAIN d.principals
    BY <1>1 DEF SetKeys, Touches
<1>2. CASE name \in DOMAIN d.principals
    <2> DEFINE old == d.principals[name]
               last(e) == CHOOSE i \in DOMAIN keys :
                              keys[i].e = e /\ \A j \in DOMAIN keys : keys[j].e = e => j <= i
               new == [e \in {k.e : k \in Range(keys)} |->
                          LET k == keys[last(e)] IN [kvno |-> Version(old, k), mat |-> k.mat, salt |-> k.salt]]
               kept == IF keepOld THEN DOMAIN old.keys ELSE {}
               rec == [old EXCEPT !.past = <<>>,
                         !.kvno = Raised(@, {Version(old, k) : k \in Range(keys)}),
                         !.keys = [e \in DOMAIN new \cup (IF keepOld THEN DOMAIN @ ELSE {}) |->
                                      IF e \in DOMAIN new THEN new[e] ELSE @[e]]]
    <2>1. "name" \in DOMAIN old /\ old.name = name /\ RecordSound(old)
        BY <1>2, StoredRecord
    <2>2. SetKeys(d, name, keys, keepOld) = Stored(d, rec)
        BY <1>2 DEF SetKeys
    <2> HIDE DEF old
    <2>3. /\ DOMAIN new = {k.e : k \in Range(keys)}
          /\ \A e \in {k.e : k \in Range(keys)} : new[e].kvno = Version(old, keys[last(e)])
        <3> HIDE DEF last
        <3> QED OBVIOUS
    <2> HIDE DEF new
    <2>4. ASSUME NEW e \in DOMAIN new PROVE \E k \in Range(keys) : new[e].kvno = Version(old, k)
        <3>1. e \in {k.e : k \in Range(keys)}
            BY <2>3
        <3>2. last(e) \in DOMAIN keys
            BY <3>1, LastKey, Zenon
        <3> HIDE DEF last
        <3>3. keys[last(e)] \in Range(keys)
            BY <3>2 DEF Range
        <3> QED BY <2>3, <3>1, <3>3
    <2>5. kept \subseteq DOMAIN old.keys
        OBVIOUS
    <2>6. /\ DOMAIN rec = DOMAIN old /\ rec.name = old.name /\ rec.policy = old.policy
          /\ rec.hist = old.hist /\ rec.past = <<>>
          /\ rec.kvno = Raised(old.kvno, {Version(old, k) : k \in Range(keys)})
          /\ rec.keys = [e \in DOMAIN new \cup kept |-> IF e \in DOMAIN new THEN new[e] ELSE old.keys[e]]
        BY <2>1 DEF RecordSound
    <2> HIDE DEF rec, kept, last
    <2>7. RecordSound(rec)
        <3>1. DOMAIN new = {k.e : k \in Range(keys)}
            BY <2>3
        <3>2. \A e \in DOMAIN new : \E k \in Range(keys) : new[e].kvno = Version(old, k)
            BY <2>4, Zenon
        <3> QED BY ONLY <2>1, <2>5, <2>6, <3>1, <3>2, KeysSetSound,
                        keys \in Seq(Range(keys)), \A k \in Range(keys) : k.kvno \in Nat, Zenon
    <2> QED BY <1>2, <2>1, <2>2, <2>6, <2>7 DEF Touches, old
<1> QED BY <1>1, <1>2

\* A password change changes its principal only.
LEMMA ChangeTouches ==
    ASSUME NEW d, Sound(d), Records(d), NEW name, NEW password, NEW t, NEW policy, NEW bypass, NEW keepOld,
           NEW tuples, tuples \in Seq(Range(tuples)), policy = <<>> \/ IsPolicy(policy[1])
    PROVE  Touches(d, name, changePassword(d, name, password, t, policy, bypass, keepOld, tuples))
<1> DEFINE result == changePassword(d, name, password, t, policy, bypass, keepOld, tuples)
<1>1. CASE name \notin DOMAIN d.principals
    BY <1>1 DEF changePassword, Touches
<1>2. CASE name \in DOMAIN d.principals
    <2> DEFINE old == d.principals[name]
               keys == passwordKeys(old, password, tuples)
               fresh == [old EXCEPT !.keys = keys, !.kvno = old.kvno + 1, !.lastPwd = t]
               pol == policy[1]
               hkey == historyKey(d)
               hist == IF hkey # 0 /\ old.histKvno \notin {0, hkey} THEN <<>> ELSE old.hist
               limit == IF keepOld /\ pol.history < 2 THEN 1 ELSE pol.history - 1
               governed == pol.history > 0
               past == IF hist = old.hist THEN old.past ELSE Take(old.past, 1)
               free == [fresh EXCEPT !.hist = IF keepOld THEN <<old.keys>> \o @ ELSE @,
                                     !.past = <<Secrets(keys)>>]
               ruled == [fresh EXCEPT
                    !.hist = IF governed THEN Take(<<old.keys>> \o hist, limit) ELSE @,
                    !.histKvno = IF governed /\ hkey # 0 THEN hkey ELSE @,
                    !.past = IF governed
                             THEN Take(<<Secrets(keys)>> \o (IF hist = old.hist THEN @ ELSE Take(@, 1)), pol.history)
                             ELSE <<Secrets(keys)>>,
                    !.pwExp = IF pol.maxLife > 0 THEN t + pol.maxLife ELSE 0]
    <2>1. \/ \E err : result = Failed(d, err)
          \/ result = Stored(d, free)
          \/ result = Stored(d, ruled) /\ policy # <<>> /\ ~(governed /\ Reused(keys, old, hist, limit))
        BY <1>2 DEF changePassword
    <2>2. "name" \in DOMAIN old /\ old.name = name /\ RecordSound(old)
        BY <1>2, StoredRecord
    <2>3. DOMAIN keys # {} /\ \A e \in DOMAIN keys : keys[e].kvno = old.kvno + 1
        BY PasswordKeys
    <2>4. hist = old.hist \/ hist = <<>>
        OBVIOUS
    <2>5. governed /\ policy # <<>> => /\ pol.history \in Int /\ pol.history > 0
                                       /\ limit \in Int /\ limit >= pol.history - 1
        BY DEF IsPolicy
    <2> HIDE DEF old, keys, hist, limit, pol, hkey, result
    <2>6. /\ DOMAIN fresh = DOMAIN old /\ fresh.name = old.name /\ fresh.policy = old.policy
          /\ fresh.keys = keys /\ fresh.kvno = old.kvno + 1 /\ fresh.hist = old.hist /\ fresh.past = old.past
        BY <2>2 DEF RecordSound
    <2>7. {"name", "keys", "kvno", "hist", "past", "policy"} \subseteq DOMAIN fresh
        BY <2>2, <2>6 DEF RecordSound
    <2> HIDE DEF fresh, governed
    <2>8. /\ DOMAIN free = DOMAIN fresh /\ free.name = fresh.name /\ free.policy = fresh.policy
          /\ free.keys = fresh.keys /\ free.kvno = fresh.kvno /\ free.past = <<Secrets(keys)>>
          /\ free.hist = fresh.hist \/ free.hist = <<old.keys>> \o fresh.hist
        BY <2>7
    <2>9. /\ DOMAIN ruled = DOMAIN fresh /\ ruled.name = fresh.name /\ ruled.policy = fresh.policy
          /\ ruled.keys = fresh.keys /\ ruled.kvno = fresh.kvno
          /\ governed => /\ ruled.hist = Take(<<old.keys>> \o hist, limit)
                         /\ ruled.past = Take(<<Secrets(keys)>> \o (IF hist = old.hist THEN fresh.past ELSE Take(fresh.past, 1)), pol.history)
          /\ ~governed => ruled.hist = fresh.hist /\ ruled.past = <<Secrets(keys)>>
        BY <2>7
    <2> HIDE DEF free, ruled
    <2>10. RecordSound(free)
        BY <2>2, <2>3, <2>6, <2>8, FreeSound
    <2>11. ASSUME policy # <<>>, ~(governed /\ Reused(keys, old, hist, limit)) PROVE RecordSound(ruled)
        <3>1. CASE governed
            BY <2>2, <2>3, <2>4, <2>5, <2>6, <2>9, <2>11, <3>1, RuledSound
        <3>2. CASE ~governed
            BY <2>2, <2>3, <2>6, <2>9, <3>2, FreeSound
        <3> QED BY <3>1, <3>2
    <2>12. Touches(d, name, result)
        BY <1>2, <2>1, <2>2, <2>6, <2>7, <2>8, <2>9, <2>10, <2>11 DEF Touches, old
    <2> QED BY <2>12 DEF result
<1> QED BY <1>1, <1>2

\* A database with other aliases, or other policies.
LEMMA OtherPolicies ==
    ASSUME NEW d, Sound(d), NEW y
    PROVE  /\ Sound([d EXCEPT !.aliases = y])
           /\ [d EXCEPT !.aliases = y].principals = d.principals
           /\ [d EXCEPT !.aliases = y].policies = d.policies
           /\ Sound([d EXCEPT !.policies = y])
           /\ [d EXCEPT !.policies = y].principals = d.principals
           /\ [d EXCEPT !.policies = y].policies = y
BY DEF Sound, WellFormed

\* AddAlias leaves principals and policies alone.
LEMMA AliasSound ==
    ASSUME NEW d, Sound(d), Records(d), NEW alias, NEW target
    PROVE  /\ Sound(AddAlias(d, alias, target).db)
           /\ Records(AddAlias(d, alias, target).db)
           /\ Dangling(AddAlias(d, alias, target).db) \subseteq Dangling(d)
<1> DEFINE e == AddAlias(d, alias, target).db
<1>1. e = d \/ \E y : e = [d EXCEPT !.aliases = y]
    BY Zenon DEF AddAlias, Failed
<1> HIDE DEF e
<1>2. Sound(e) /\ e.principals = d.principals /\ e.policies = d.policies
    <2>1. ASSUME NEW y, e = [d EXCEPT !.aliases = y]
          PROVE  Sound(e) /\ e.principals = d.principals /\ e.policies = d.policies
        BY <2>1, OtherPolicies, Zenon
    <2> QED BY <1>1, <2>1
<1>3. Records(e) /\ Dangling(e) = Dangling(d)
    BY <1>2, Zenon DEF Records, Dangling
<1> QED BY <1>2, <1>3 DEF e

\* A policy that is written leaves no policy of a principal undefined.
LEMMA WrittenSound ==
    ASSUME NEW d, Sound(d), Records(d), NEW name, NEW policy, IsPolicy(policy)
    PROVE  LET e == [d EXCEPT !.policies = Update(@, name, policy)]
           IN  Sound(e) /\ Records(e) /\ Dangling(e) \subseteq Dangling(d)
<1> DEFINE y == Update(d.policies, name, policy)
           e == [d EXCEPT !.policies = Update(@, name, policy)]
<1>1. /\ DOMAIN y = DOMAIN d.policies \cup {name}
      /\ \A n \in DOMAIN y : y[n] = IF n = name THEN policy ELSE d.policies[n]
    BY DEF Update
<1>2. Sound(e) /\ e.principals = d.principals /\ e.policies = y
    <2>1. e = [d EXCEPT !.policies = y]
        OBVIOUS
    <2> HIDE DEF y, e
    <2> QED BY <2>1, OtherPolicies, Zenon
<1> HIDE DEF y, e
<1>3. Records(e)
    BY <1>1, <1>2, Zenon DEF Records
<1>4. Dangling(e) \subseteq Dangling(d)
    BY <1>1, <1>2 DEF Dangling
<1> QED BY <1>2, <1>3, <1>4 DEF e

\* CreatePolicy and UpdatePolicy write one policy.
LEMMA WriteSound ==
    ASSUME NEW d, Sound(d), Records(d), NEW name, NEW policy, IsPolicy(policy)
    PROVE  /\ Sound(CreatePolicy(d, name, policy).db)
           /\ Records(CreatePolicy(d, name, policy).db)
           /\ Dangling(CreatePolicy(d, name, policy).db) \subseteq Dangling(d)
           /\ Sound(UpdatePolicy(d, name, policy).db)
           /\ Records(UpdatePolicy(d, name, policy).db)
           /\ Dangling(UpdatePolicy(d, name, policy).db) \subseteq Dangling(d)
<1> DEFINE e == [d EXCEPT !.policies = Update(@, name, policy)]
<1>1. CreatePolicy(d, name, policy).db \in {d, e} /\ UpdatePolicy(d, name, policy).db \in {d, e}
    BY Zenon DEF CreatePolicy, UpdatePolicy, Failed
<1>2. Sound(e) /\ Records(e) /\ Dangling(e) \subseteq Dangling(d)
    BY WrittenSound, Zenon
<1> HIDE DEF e
<1> QED BY <1>1, <1>2

\* DeletePolicy removes a policy that no principal has.
LEMMA DeletePolicySound ==
    ASSUME NEW d, Sound(d), Records(d), NEW name
    PROVE  /\ Sound(DeletePolicy(d, name).db)
           /\ Records(DeletePolicy(d, name).db)
           /\ Dangling(DeletePolicy(d, name).db) \subseteq Dangling(d)
<1> DEFINE y == Without(d.policies, name)
           e == [d EXCEPT !.policies = Without(@, name)]
<1>1. \/ DeletePolicy(d, name).db = d
      \/ /\ DeletePolicy(d, name).db = e
         /\ \A n \in DOMAIN d.principals : d.principals[n].policy # <<name>>
    BY Zenon DEF DeletePolicy, Failed
<1>2. DOMAIN y = DOMAIN d.policies \ {name} /\ \A n \in DOMAIN y : y[n] = d.policies[n]
    BY DEF Without, Restrict
<1>3. Sound(e) /\ e.principals = d.principals /\ e.policies = y
    <2>1. e = [d EXCEPT !.policies = y]
        OBVIOUS
    <2> HIDE DEF y, e
    <2> QED BY <2>1, OtherPolicies, Zenon
<1> HIDE DEF y, e
<1>4. Records(e)
    BY <1>2, <1>3, Zenon DEF Records
<1>5. ASSUME \A n \in DOMAIN d.principals : d.principals[n].policy # <<name>>
      PROVE  Dangling(e) \subseteq Dangling(d)
    <2> SUFFICES ASSUME NEW n \in Dangling(e) PROVE n \in Dangling(d)
        OBVIOUS
    <2> DEFINE policy == d.principals[n].policy
    <2>1. n \in DOMAIN d.principals /\ policy # <<>> /\ policy[1] \notin DOMAIN y
        BY <1>3 DEF Dangling
    <2>2. Optional(policy)
        BY <2>1, Zenon DEF Records, RecordSound
    <2>3. policy = <<policy[1]>> /\ policy # <<name>>
        BY <1>5, <2>1, <2>2, Zenon DEF Optional
    <2>4. policy[1] # name
        BY <2>3, Zenon
    <2> QED BY <1>2, <2>1, <2>4 DEF Dangling
<1> QED BY <1>1, <1>3, <1>4, <1>5

=============================================================================
