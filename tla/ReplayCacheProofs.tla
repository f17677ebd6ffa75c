------------------------- MODULE ReplayCacheProofs -------------------------
(* Proofs about the file2 replay cache for every table layout, hash,       *)
(* number of tags, clock width, skew and lead of the peers' clocks, when   *)
(* Store is not called with second zero of the 32-bit clock.               *)
EXTENDS ReplayCache, SequenceTheorems, TLAPS

(* A record whose time is at most Window seconds old has not expired for   *)
(* any message, wherever the clock wraps in between.                       *)
LEMMA LiveNotExpired ==
    ASSUME NEW n \in 0..(Period - 1), NEW a \in (-Lead)..Window, NEW lag \in Lags
    PROVE  ~expired(Minus(n, a), Minus(n, lag))
  BY TimeAssumption DEF expired, tsAfter, Minus, Plus, Wrap, Period, Lags, Window

(* Subtraction stays within the clock's range.                             *)
LEMMA MinusType ==
    ASSUME NEW n \in 0..(Period - 1), NEW a \in Lags
    PROVE  Minus(n, a) \in 0..(Period - 1)
  BY TimeAssumption DEF Minus, Wrap, Period, Lags

(* What writeRecord does to the file: it grows if it has to, and no other  *)
(* record changes.                                                         *)
LEMMA WrittenProperties ==
    ASSUME file \in Seq(Record), NEW s \in Nat \ {0}, NEW r \in Record
    PROVE  /\ Written(s, r) \in Seq(Record)
           /\ Len(Written(s, r)) = IF s > Len(file) THEN s ELSE Len(file)
           /\ \A i \in 1..Len(Written(s, r)) :
                 Written(s, r)[i] = IF i = s THEN r
                                    ELSE IF i <= Len(file) THEN file[i] ELSE Empty
<1> DEFINE n == IF s > Len(file) THEN s ELSE Len(file)
<1>1. Len(file) \in Nat /\ n \in Nat /\ \A i \in 1..Len(file) : file[i] \in Record
  BY LenProperties, ElementOfSeq
<1>2. Empty \in Record
  BY TimeAssumption DEF Empty, Record, Period
<1>3. Written(s, r) = [i \in 1..n |-> IF i = s THEN r
                                     ELSE IF i <= Len(file) THEN file[i] ELSE Empty]
  BY DEF Written
<1> HIDE DEF n
<1>4. Written(s, r) \in [1..n -> Record]
  <2>1. \A i \in 1..n : (IF i = s THEN r ELSE IF i <= Len(file) THEN file[i] ELSE Empty) \in Record
    BY <1>1, <1>2
  <2> QED BY <1>3, <2>1
<1>5. Written(s, r) \in Seq(Record)
  BY <1>1, <1>4, SeqDef
<1>6. Len(Written(s, r)) = n
  <2>1. DOMAIN Written(s, r) = 1..n /\ DOMAIN Written(s, r) = 1..Len(Written(s, r))
    BY <1>4, <1>5, LenProperties
  <2>2. Len(Written(s, r)) \in Nat
    BY <1>5, LenProperties
  <2> QED BY <1>1, <2>1, <2>2
<1> QED BY <1>3, <1>5, <1>6 DEF n

(* The places a tag may occupy are positions of the file.                  *)
LEMMA SlotType ==
    ASSUME TypeOK, NEW tag \in Tags, NEW k \in Tables
    PROVE  /\ Slot(tag, k) \in Nat \ {0}
           /\ \A s \in Pair(tag, k) : s \in Nat \ {0}
<1>1. Layout[k] \in [offset : Nat, records : Nat \ {0}]
  BY LayoutAssumption, ElementOfSeq, Zenon DEF Tables
<1>2. index[tag][k] \in 0..(MaxRecords - 1)
  BY DEF TypeOK, Indexes
<1>3. Layout[k].offset \in Nat /\ index[tag][k] \in Nat
  BY <1>1, <1>2
<1>4. Slot(tag, k) \in Nat \ {0}
  BY <1>3 DEF Slot
<1> QED BY <1>4 DEF Pair

(* A store call that accepts a tag, in terms of the record it writes.      *)
LEMMA StoreWrites ==
    ASSUME TypeOK, 0 \notin Seconds, NEW tag \in Tags, NEW lag \in Lags, store(tag, lag)
    PROVE  \E k \in Visited(tag) : \E s \in Pair(tag, k) :
              /\ s \in Nat \ {0}
              /\ Available(s, Minus(now, lag))
              /\ Minus(now, lag) \in 1..(Period - 1)
              /\ file' = Written(s, [tag |-> tag, timestamp |-> Minus(now, lag)])
              /\ [tag |-> tag, timestamp |-> Minus(now, lag)] \in Record
<1>1. Minus(now, lag) \in Seconds
  BY DEF store
<1>2. Minus(now, lag) \in 1..(Period - 1)
  <2>1. Minus(now, lag) \in 0..(Period - 1) /\ Minus(now, lag) # 0
    BY <1>1, TimeAssumption, Zenon
  <2> QED BY <2>1, TimeAssumption DEF Period
<1>3. [tag |-> tag, timestamp |-> Minus(now, lag)] \in Record
  BY <1>2, TimeAssumption DEF Record, Period
<1>4. PICK k \in Visited(tag) : \E s \in Pair(tag, k) :
         /\ Available(s, Minus(now, lag))
         /\ file' = Written(s, [tag |-> tag, timestamp |-> Minus(now, lag)])
  BY DEF store
<1>6. PICK s \in Pair(tag, k) :
         /\ Available(s, Minus(now, lag))
         /\ file' = Written(s, [tag |-> tag, timestamp |-> Minus(now, lag)])
  BY <1>4
<1>5. s \in Nat \ {0}
  BY SlotType DEF Visited
<1> QED BY <1>2, <1>3, <1>5, <1>6

(* Storing a tag neither shrinks the file nor empties a record, so a       *)
(* search reaches every table it reached before.                           *)
LEMMA SearchesOnlyGrow ==
    ASSUME TypeOK, 0 \notin Seconds, NEW tag \in Tags, NEW lag \in Lags, store(tag, lag),
           NEW other \in Tags
    PROVE  Visited(other) \subseteq Visited(other)'
<1>1. PICK s0 \in Nat \ {0} :
         /\ Minus(now, lag) \in 1..(Period - 1)
         /\ file' = Written(s0, [tag |-> tag, timestamp |-> Minus(now, lag)])
         /\ [tag |-> tag, timestamp |-> Minus(now, lag)] \in Record
  BY StoreWrites
<1> DEFINE r == [tag |-> tag, timestamp |-> Minus(now, lag)]
<1>2. r \in Record /\ r.timestamp # 0
  <2>1. r \in Record /\ r.timestamp = Minus(now, lag)
    BY <1>1
  <2>2. Minus(now, lag) # 0
    BY <1>1, TimeAssumption DEF Period
  <2> QED BY <2>1, <2>2
<1>3. file \in Seq(Record) /\ Len(file) \in Nat
  BY LenProperties DEF TypeOK
<1>4. file' = Written(s0, r)
  BY <1>1
<1> HIDE DEF r
<1>5. /\ Len(file') = IF s0 > Len(file) THEN s0 ELSE Len(file)
      /\ \A i \in 1..Len(file') :
            file'[i] = IF i = s0 THEN r ELSE IF i <= Len(file) THEN file[i] ELSE Empty
  <2> DEFINE w == Written(s0, r)
  <2>1. /\ w \in Seq(Record)
        /\ Len(w) = IF s0 > Len(file) THEN s0 ELSE Len(file)
        /\ \A i \in 1..Len(w) :
              w[i] = IF i = s0 THEN r ELSE IF i <= Len(file) THEN file[i] ELSE Empty
    BY <1>1, <1>2, <1>3, <1>4, WrittenProperties, Zenon
  <2>2. file' = w
    BY <1>1, <1>2, <1>3, <1>4
  <2> HIDE DEF w
  <2> QED BY <2>1, <2>2
<1>6. \A s \in Nat \ {0} : s <= Len(file) /\ file[s].timestamp # 0
                          => s <= Len(file') /\ file'[s].timestamp # 0
  <2> SUFFICES ASSUME NEW s \in Nat \ {0}, s <= Len(file), file[s].timestamp # 0
               PROVE  s <= Len(file') /\ file'[s].timestamp # 0
    OBVIOUS
  <2>1. s \in 1..Len(file') /\ s <= Len(file')
    BY <1>1, <1>3, <1>5
  <2>2. file'[s] = IF s = s0 THEN r ELSE file[s]
    BY <1>5, <2>1
  <2> QED BY <1>2, <2>1, <2>2
<1>7. index' = index
  BY DEF store
<1>8. \A k \in Tables : Pair(other, k)' = Pair(other, k)
  BY <1>7 DEF Pair, Slot
<1>9. \A k \in Tables : Continues(other, k) => Continues(other, k)'
  <2> SUFFICES ASSUME NEW k \in Tables, Continues(other, k)
               PROVE  Continues(other, k)'
    OBVIOUS
  <2>1. \A s \in Pair(other, k) : s \in Nat \ {0}
    BY SlotType
  <2> QED BY <1>6, <1>8, <2>1 DEF Continues
<1>10. Tables = 1..Len(Layout) /\ Len(Layout) \in Nat
  BY LayoutAssumption, LenProperties DEF Tables
<1>11. \A k \in Tables : \A j \in 1..(k - 1) : j \in Tables
  BY <1>10
<1> QED BY <1>9, <1>11 DEF Visited

(* Accepting a tag keeps every live record reachable: the new record is in *)
(* a table the search visits, and no live record is overwritten.           *)
LEMMA StoreKeepsReachable ==
    ASSUME RcInv, 0 \notin Seconds, NEW tag \in Tags, NEW lag \in Lags, store(tag, lag)
    PROVE  RecordReachable'
<1> DEFINE t == Minus(now, lag)
           r == [tag |-> tag, timestamp |-> t]
<1>1. PICK k0 \in Visited(tag) : \E s \in Pair(tag, k0) :
         /\ s \in Nat \ {0}
         /\ Available(s, t)
         /\ t \in 1..(Period - 1)
         /\ file' = Written(s, r)
         /\ r \in Record
  BY StoreWrites DEF RcInv
<1>2. PICK s0 \in Pair(tag, k0) :
         /\ s0 \in Nat \ {0}
         /\ Available(s0, t)
         /\ t \in 1..(Period - 1)
         /\ file' = Written(s0, r)
         /\ r \in Record
  BY <1>1
<1>3. r.tag = tag /\ r.timestamp = t /\ t # 0
  BY <1>2, TimeAssumption DEF Period
<1>4. TypeOK /\ file \in Seq(Record) /\ Len(file) \in Nat
  BY LenProperties DEF RcInv, TypeOK
<1> HIDE DEF r
<1>5. /\ Len(file') = IF s0 > Len(file) THEN s0 ELSE Len(file)
      /\ \A i \in 1..Len(file') :
            file'[i] = IF i = s0 THEN r ELSE IF i <= Len(file) THEN file[i] ELSE Empty
  <2> DEFINE w == Written(s0, r)
  <2>1. /\ w \in Seq(Record)
        /\ Len(w) = IF s0 > Len(file) THEN s0 ELSE Len(file)
        /\ \A i \in 1..Len(w) :
              w[i] = IF i = s0 THEN r ELSE IF i <= Len(file) THEN file[i] ELSE Empty
    BY <1>2, <1>4, WrittenProperties, Zenon
  <2>2. file' = w
    BY <1>2, <1>4
  <2> HIDE DEF w
  <2> QED BY <2>1, <2>2
<1>6. index' = index /\ now' = now
      /\ age' = [age EXCEPT ![tag] = IF lag <= Window THEN lag ELSE Forgotten]
  BY DEF store
<1>7. age \in [Tags -> Ages] /\ now \in 0..(Period - 1)
  BY <1>4 DEF TypeOK
<1>8. \A g \in Tags : Visited(g) \subseteq Visited(g)'
  BY <1>4, SearchesOnlyGrow
<1>9. \A g \in Tags, k \in Tables : Pair(g, k)' = Pair(g, k)
  BY <1>6 DEF Pair, Slot
<1>10. ASSUME NEW g \in Tags, age'[g] # Forgotten
       PROVE  \E k \in Visited(g)' : \E s \in Read(g, k)' :
                 /\ file'[s].tag = g
                 /\ file'[s].timestamp = Minus(now', age'[g])
                 /\ file'[s].timestamp # 0
  <2>1. CASE g = tag
    <3>1. age'[g] = lag
      BY <1>6, <1>7, <1>10, <2>1
    <3>2. s0 \in 1..Len(file') /\ s0 <= Len(file')
      BY <1>2, <1>4, <1>5
    <3>3. file'[s0] = r
      BY <1>5, <3>2
    <3>4. k0 \in Visited(g)' /\ k0 \in Tables
      BY <1>8, <2>1 DEF Visited
    <3>5. s0 \in Read(g, k0)'
      BY <1>9, <2>1, <3>2, <3>4 DEF Read
    <3> QED BY <1>3, <1>6, <2>1, <3>1, <3>3, <3>4, <3>5
  <2>2. CASE g # tag
    <3>1. age'[g] = age[g] /\ age[g] # Forgotten /\ age[g] \in (-Lead)..Window
      BY <1>6, <1>7, <1>10, <2>2, TimeAssumption DEF Ages, Forgotten, Window
    <3>2. PICK k \in Visited(g) : \E s \in Read(g, k) :
             /\ file[s].tag = g
             /\ file[s].timestamp = Minus(now, age[g])
             /\ file[s].timestamp # 0
      BY <3>1 DEF RcInv, RecordReachable
    <3>3. PICK s \in Read(g, k) :
             /\ file[s].tag = g
             /\ file[s].timestamp = Minus(now, age[g])
             /\ file[s].timestamp # 0
      BY <3>2
    <3>4. k \in Tables /\ s \in Pair(g, k) /\ s <= Len(file)
      BY DEF Visited, Read
    <3>5. s \in Nat \ {0}
      BY <1>4, <3>4, SlotType
    <3>6. s # s0
      <4>1. ~expired(file[s].timestamp, t)
        BY <1>7, <3>1, <3>3, LiveNotExpired
      <4> QED BY <1>2, <3>3, <3>4, <4>1 DEF Available
    <3>7. s \in 1..Len(file') /\ s <= Len(file')
      BY <1>2, <1>4, <1>5, <3>4, <3>5
    <3>8. file'[s] = file[s]
      BY <1>5, <3>4, <3>6, <3>7
    <3>9. s \in Read(g, k)' /\ k \in Visited(g)'
      BY <1>8, <1>9, <3>4, <3>7 DEF Read
    <3> QED BY <1>6, <3>1, <3>3, <3>8, <3>9
  <2> QED BY <2>1, <2>2
<1> QED BY <1>10 DEF RecordReachable

(* A record's age grows with the clock, so that its time stays the same.   *)
LEMMA TickKeepsReachable ==
    ASSUME RcInv, Tick
    PROVE  RcInv'
<1>1. /\ file' = file /\ index' = index /\ now' = Plus(now, 1)
      /\ age' = [g \in Tags |-> IF age[g] < Forgotten THEN age[g] + 1 ELSE Forgotten]
  BY DEF Tick
<1>2. TypeOK /\ now \in 0..(Period - 1)
  BY DEF RcInv, TypeOK
<1>3. Half \in Nat \ {0}
  BY TimeAssumption
<1>4. now' \in 0..(Period - 1)
  BY <1>1, <1>2, <1>3 DEF Plus, Wrap, Period
<1>5. TypeOK'
  <2>1. \A g \in Tags : age'[g] \in Ages
    BY <1>1, <1>2, TimeAssumption DEF TypeOK, Ages, Forgotten, Window
  <2>2. age' \in [Tags -> Ages]
    BY <1>1, <2>1
  <2> QED BY <1>1, <1>2, <1>4, <2>2 DEF TypeOK
<1>6. ASSUME NEW g \in Tags, age'[g] # Forgotten
      PROVE  age[g] # Forgotten /\ Minus(now', age'[g]) = Minus(now, age[g])
  <2>1. age[g] \in Ages /\ age[g] < Forgotten /\ age'[g] = age[g] + 1
    BY <1>1, <1>2, <1>6 DEF TypeOK
  <2>2. age[g] # Forgotten
    BY <2>1, TimeAssumption DEF Forgotten, Window, Ages
  <2>3. Minus(Plus(now, 1), age[g] + 1) = Minus(now, age[g])
    BY <1>2, <2>1, TimeAssumption DEF Minus, Plus, Wrap, Period, Ages, Forgotten, Window
  <2> QED BY <1>1, <2>1, <2>2, <2>3
<1>7. \A g \in Tags : Visited(g)' = Visited(g) /\ \A k \in Tables : Read(g, k)' = Read(g, k)
  BY <1>1 DEF Visited, Continues, Read, Pair, Slot
<1>8. RecordReachable'
  <2> SUFFICES ASSUME NEW g \in Tags, age'[g] # Forgotten
               PROVE  \E k \in Visited(g)' : \E s \in Read(g, k)' :
                         /\ file'[s].tag = g
                         /\ file'[s].timestamp = Minus(now', age'[g])
                         /\ file'[s].timestamp # 0
    BY DEF RecordReachable
  <2>1. PICK k \in Visited(g) : \E s \in Read(g, k) :
           /\ file[s].tag = g
           /\ file[s].timestamp = Minus(now, age[g])
           /\ file[s].timestamp # 0
    BY <1>6 DEF RcInv, RecordReachable
  <2>2. k \in Tables
    BY DEF Visited
  <2> QED BY <1>1, <1>6, <1>7, <2>1, <2>2
<1> QED BY <1>5, <1>8 DEF RcInv

(* Accepting a tag keeps the cache well typed.                             *)
LEMMA StoreKeepsType ==
    ASSUME TypeOK, 0 \notin Seconds, NEW tag \in Tags, NEW lag \in Lags, store(tag, lag)
    PROVE  TypeOK'
<1>1. PICK s \in Nat \ {0} :
         /\ file' = Written(s, [tag |-> tag, timestamp |-> Minus(now, lag)])
         /\ [tag |-> tag, timestamp |-> Minus(now, lag)] \in Record
  BY StoreWrites
<1>2. file' \in Seq(Record)
  BY <1>1, WrittenProperties DEF TypeOK
<1>3. age' \in [Tags -> Ages]
  <2>1. (IF lag <= Window THEN lag ELSE Forgotten) \in Ages
    BY TimeAssumption DEF Lags, Ages, Forgotten, Window
  <2> QED BY <2>1 DEF store, TypeOK
<1> QED BY <1>2, <1>3 DEF store, TypeOK

(* Throughout every behaviour in which Store is not called with second     *)
(* zero, the cache is well typed and the record of every accepted tag whose*)
(* time is at most Skew - Lead behind the clock can be found.              *)
THEOREM ReachableInvariant == 0 \notin Seconds /\ Spec => []RcInv
<1> SUFFICES ASSUME 0 \notin Seconds PROVE Spec => []RcInv
  OBVIOUS
<1>1. Init => RcInv
  <2> SUFFICES ASSUME Init PROVE RcInv
    OBVIOUS
  <2>1. TypeOK
    <3>1. Forgotten \in Ages
      BY TimeAssumption DEF Forgotten, Ages, Window
    <3> QED BY <3>1, EmptySeq DEF Init, TypeOK
  <2>2. RecordReachable
    BY DEF Init, RecordReachable
  <2> QED BY <2>1, <2>2 DEF RcInv
<1>2. RcInv /\ [Next]_rcVars => RcInv'
  <2> SUFFICES ASSUME RcInv, [Next]_rcVars PROVE RcInv'
    OBVIOUS
  <2>1. ASSUME NEW tag \in Tags, NEW lag \in Lags, store(tag, lag)
        PROVE  RcInv'
    BY <2>1, StoreKeepsReachable, StoreKeepsType DEF RcInv
  <2>2. CASE Tick
    BY <2>2, TickKeepsReachable
  <2>3. CASE UNCHANGED rcVars
    <3>1. TypeOK'
      BY <2>3 DEF rcVars, RcInv, TypeOK
    <3>2. RecordReachable'
      <4>1. file' = file /\ index' = index /\ now' = now /\ age' = age
        BY <2>3 DEF rcVars
      <4>2. \A g \in Tags : Visited(g)' = Visited(g)
                            /\ \A k \in Tables : Read(g, k)' = Read(g, k)
        BY <4>1 DEF Visited, Continues, Read, Pair, Slot
      <4>3. \A g \in Tags : \A k \in Visited(g) : k \in Tables
        BY DEF Visited
      <4> QED BY <4>1, <4>2, <4>3 DEF RcInv, RecordReachable
    <3> QED BY <3>1, <3>2 DEF RcInv
  <2> QED BY <2>1, <2>2, <2>3 DEF Next
<1> QED BY <1>1, <1>2, PTL DEF Spec

(* The file always holds well-formed records, around the wrap of the clock *)
(* too.                                                                    *)
THEOREM TypeCorrect == 0 \notin Seconds /\ Spec => []TypeOK
<1>1. RcInv => TypeOK
  BY DEF RcInv
<1> QED BY <1>1, ReachableInvariant, PTL

(* The record of every accepted tag whose time is at most Skew - Lead      *)
(* behind the clock stays where the search of store reaches it, with the   *)
(* time of its message.                                                    *)
THEOREM RecordsReachable == 0 \notin Seconds /\ Spec => []RecordReachable
<1>1. RcInv => RecordReachable
  BY DEF RcInv
<1> QED BY <1>1, ReachableInvariant, PTL

(* A tag presented again is reported as a replay until its time is more    *)
(* than Skew - Lead behind the clock, however far up to the skew the       *)
(* clocks of the peers are ahead (Lead).                                   *)
THEOREM ReplaysDetected == 0 \notin Seconds /\ Spec => []ReplayDetected
<1>1. RcInv => ReplayDetected
  BY DEF RcInv, RecordReachable, ReplayDetected, Replayed
<1> QED BY <1>1, ReachableInvariant, PTL

(* No call of Store accepts a tag a second time before its time is more    *)
(* than Skew - Lead behind the clock.                                      *)
THEOREM AcceptedOnce == 0 \notin Seconds /\ Spec => NotAcceptedTwice
<1> SUFFICES ASSUME 0 \notin Seconds PROVE Spec => NotAcceptedTwice
  OBVIOUS
<1> DEFINE Kept == \A tag \in Tags : age[tag] # Forgotten =>
                      \A s \in DOMAIN file' :
                          file'[s].tag = tag => s \in DOMAIN file /\ file'[s] = file[s]
<1>1. RcInv /\ [Next]_rcVars => [Kept]_rcVars
  <2> SUFFICES ASSUME RcInv, Next PROVE Kept
    OBVIOUS
  <2>1. CASE Tick
    BY <2>1 DEF Tick
  <2>2. ASSUME NEW tag \in Tags, NEW lag \in Lags, store(tag, lag)
        PROVE  Kept
    <3> DEFINE r == [tag |-> tag, timestamp |-> Minus(now, lag)]
    <3>1. PICK s0 \in Nat \ {0} : file' = Written(s0, r) /\ r \in Record
      BY <2>2, StoreWrites DEF RcInv
    <3>2. r.tag = tag /\ Empty.tag = NoTag
      BY DEF Empty
    <3>3. file \in Seq(Record) /\ Len(file) \in Nat /\ DOMAIN file = 1..Len(file)
      BY LenProperties DEF RcInv, TypeOK
    <3>4. age[tag] = Forgotten
      BY <2>2 DEF store, RcInv, RecordReachable, Replayed
    <3> HIDE DEF r
    <3>5. /\ Written(s0, r) \in Seq(Record)
          /\ \A i \in 1..Len(Written(s0, r)) :
                Written(s0, r)[i] = IF i = s0 THEN r
                                    ELSE IF i <= Len(file) THEN file[i] ELSE Empty
      BY <3>1, <3>3, WrittenProperties, Zenon
    <3>6. /\ DOMAIN file' = 1..Len(file') /\ Len(file') \in Nat
          /\ \A i \in 1..Len(file') :
                file'[i] = IF i = s0 THEN r ELSE IF i <= Len(file) THEN file[i] ELSE Empty
      BY <3>1, <3>5, LenProperties
    <3> SUFFICES ASSUME NEW g \in Tags, age[g] # Forgotten,
                        NEW s \in DOMAIN file', file'[s].tag = g
                 PROVE  s \in DOMAIN file /\ file'[s] = file[s]
      OBVIOUS
    <3>7. g # tag /\ g # NoTag
      BY <3>4, NoTagAssumption
    <3>8. s \in 1..Len(file') /\ file'[s] # r /\ file'[s] # Empty
      BY <3>2, <3>6, <3>7
    <3>9. s # s0 /\ s <= Len(file) /\ file'[s] = file[s]
      BY <3>6, <3>8
    <3> QED BY <3>3, <3>6, <3>8, <3>9
  <2> QED BY <2>1, <2>2 DEF Next
<1> QED BY <1>1, ReachableInvariant, PTL DEF Spec, NotAcceptedTwice
=============================================================================
