-------------------------- MODULE UpdateLogProofs --------------------------
(* Proofs about the update log for every capacity, serial width and number *)
(* of updates.                                                             *)
EXTENDS UpdateLog, SequenceTheorems, TLAPS

(* What slicing off the front of a sequence (entries[len(entries)-n:])     *)
(* keeps: the length is capped at n, and the elements keep their distance  *)
(* from the end.                                                           *)
LEMMA RetainProperties ==
    ASSUME NEW S, NEW s \in Seq(S), NEW n \in Nat
    PROVE  /\ Retain(s, n) \in Seq(S)
           /\ Len(Retain(s, n)) = IF Len(s) > n THEN n ELSE Len(s)
           /\ \A i \in 1..Len(Retain(s, n)) :
                 Retain(s, n)[i] = s[Len(s) - Len(Retain(s, n)) + i]
<1>1. Len(s) \in Nat /\ \A i \in 1..Len(s) : s[i] \in S
  BY LenProperties, ElementOfSeq
<1>2. CASE Len(s) > n
  <2> DEFINE m == Len(s) - n + 1
  <2>1. \A i \in m..Len(s) : s[i] \in S
    BY <1>1, <1>2
  <2>2. /\ SubSeq(s, m, Len(s)) \in Seq(S)
        /\ Len(SubSeq(s, m, Len(s))) = IF m <= Len(s) THEN Len(s) - m + 1 ELSE 0
        /\ \A i \in 1..(Len(s) - m + 1) : SubSeq(s, m, Len(s))[i] = s[m + i - 1]
    <3>1. m \in Int /\ Len(s) \in Int
      BY <1>1
    <3> HIDE DEF m
    <3> QED BY <2>1, <3>1, SubSeqProperties
  <2> QED BY <1>1, <1>2, <2>2 DEF Retain
<1>3. CASE ~(Len(s) > n)
  BY <1>1, <1>3 DEF Retain
<1> QED BY <1>2, <1>3

(* Appending one element to a history and to the part of it that is        *)
(* retained keeps the retained part the newest one.                        *)
LEMMA AppendElements ==
    ASSUME NEW S, NEW s \in Seq(S), NEW e \in S
    PROVE  /\ Append(s, e) \in Seq(S)
           /\ Len(Append(s, e)) = Len(s) + 1
           /\ Len(s) \in Nat
           /\ DOMAIN s = 1..Len(s)
           /\ DOMAIN Append(s, e) = 1..(Len(s) + 1)
           /\ \A i \in 1..(Len(s) + 1) :
                 Append(s, e)[i] = IF i = Len(s) + 1 THEN e ELSE s[i]
  BY AppendProperties, LenProperties

(* The invariant holds of a new log.                                       *)
LEMMA LogInvInit == Init => LogInv
<1> SUFFICES ASSUME Init PROVE LogInv
  OBVIOUS
<1>1. /\ << >> \in Seq(Entry)
      /\ Len(<< >>) = 0
      /\ \A s \in Seq(Entry) : DOMAIN s = 1..Len(s)
  BY EmptySeq, LenProperties
<1>2. hist = << >> /\ entries = << >> /\ last = 0
  BY DEF Init
<1>3. DOMAIN hist = {} /\ DOMAIN entries = {}
  BY <1>1, <1>2
<1>4. TypeOK
  <2>1. reset \in BOOLEAN
    BY Zenon DEF Init
  <2>2. origins \subseteq 0..Len(hist) /\ last \in 0..MaxSerial
    BY UpdateLogAssumption, <1>1 DEF Init
  <2> QED BY <1>1, <2>1, <2>2 DEF Init, TypeOK
<1>5. RetainedIsNewest
  <2>1. capacity \in Nat
    BY UpdateLogAssumption DEF Init
  <2> QED BY <1>1, <1>2, <1>3, <2>1 DEF RetainedIsNewest
<1> QED BY <1>2, <1>3, <1>4, <1>5 DEF LogInv

(* Logging an update keeps the invariant, also when the serial wraps and   *)
(* when retention is disabled.                                             *)
LEMMA LogInvAppend ==
    ASSUME LogInv, NEW u \in Updates, NEW t \in Stamps, append(u, t)
    PROVE  LogInv'
<1> DEFINE kept == IF last = MaxSerial THEN << >> ELSE entries
           entry == [serial |-> NextSerial, time |-> t, update |-> u]
<1>1. NextSerial \in 1..MaxSerial
  BY UpdateLogAssumption DEF LogInv, TypeOK, NextSerial
<1>2. entry \in Entry
  BY <1>1 DEF Entry
<1>3. /\ kept \in Seq(Entry)
      /\ Len(kept) \in Nat
      /\ Len(kept) <= Len(hist)
      /\ Len(hist) \in Nat
      /\ \A i \in 1..Len(kept) :
            /\ kept[i] = hist[Len(hist) - Len(kept) + i]
            /\ kept[i].serial = NextSerial - 1 - Len(kept) + i
  <2>1. Len(hist) \in Nat /\ entries \in Seq(Entry) /\ last \in 0..MaxSerial
    BY LenProperties DEF LogInv, TypeOK
  <2>2. CASE last = MaxSerial
    BY <2>1, <2>2, EmptySeq
  <2>3. CASE last # MaxSerial
    <3>1. kept = entries /\ NextSerial = last + 1
      BY <2>3 DEF NextSerial
    <3>2. Len(entries) \in Nat /\ DOMAIN entries = 1..Len(entries)
      BY <2>1, LenProperties
    <3>3. /\ Len(entries) <= Len(hist)
          /\ \A i \in 1..Len(entries) :
                /\ entries[i] = hist[Len(hist) - Len(entries) + i]
                /\ entries[i].serial = last - Len(entries) + i
      BY <3>2 DEF LogInv, RetainedIsNewest
    <3>4. \A i \in 1..Len(entries) :
             last - Len(entries) + i = NextSerial - 1 - Len(entries) + i
      BY UpdateLogAssumption, <2>1, <3>1, <3>2
    <3> HIDE DEF kept
    <3> QED BY <2>1, <3>1, <3>2, <3>3, <3>4
  <2> QED BY <2>2, <2>3, Zenon
<1>4. /\ entries' = IF capacity > 0 THEN Retain(Append(kept, entry), capacity) ELSE << >>
      /\ hist' = Append(hist, entry)
      /\ last' = NextSerial /\ lastTime' = t /\ reset' = FALSE
      /\ capacity' = capacity /\ origins' = origins
      /\ FreshStamp(NextSerial, t)
  BY DEF append
<1>5. capacity \in Nat /\ hist \in Seq(Entry) /\ DOMAIN hist = 1..Len(hist)
  BY UpdateLogAssumption, LenProperties DEF LogInv, TypeOK
<1>6. /\ hist' \in Seq(Entry)
      /\ Len(hist') = Len(hist) + 1
      /\ DOMAIN hist' = 1..(Len(hist) + 1)
      /\ \A i \in 1..(Len(hist) + 1) : hist'[i] = IF i = Len(hist) + 1 THEN entry ELSE hist[i]
  <2> HIDE DEF entry
  <2> QED BY <1>2, <1>4, <1>5, AppendElements
<1>7. /\ Append(kept, entry) \in Seq(Entry)
      /\ Len(Append(kept, entry)) = Len(kept) + 1
      /\ \A i \in 1..(Len(kept) + 1) :
            Append(kept, entry)[i] = IF i = Len(kept) + 1 THEN entry ELSE kept[i]
  <2> HIDE DEF entry, kept
  <2> QED BY <1>2, <1>3, AppendElements
<1>8. /\ entries' \in Seq(Entry)
      /\ Len(entries') \in Nat
      /\ Len(entries') <= Len(kept) + 1
      /\ Len(entries') <= capacity
      /\ \A i \in 1..Len(entries') :
            entries'[i] = Append(kept, entry)[Len(kept) + 1 - Len(entries') + i]
  <2> HIDE DEF entry, kept
  <2>1. CASE capacity > 0
    <3> DEFINE all == Append(kept, entry)
    <3>1. all \in Seq(Entry) /\ Len(all) = Len(kept) + 1
      BY <1>7
    <3> DEFINE w == Retain(all, capacity)
    <3>2. entries' = w
      BY <1>4, <2>1
    <3> HIDE DEF all
    <3>3. /\ w \in Seq(Entry)
          /\ Len(w) = IF Len(all) > capacity THEN capacity ELSE Len(all)
          /\ \A i \in 1..Len(w) : w[i] = all[Len(all) - Len(w) + i]
      BY <1>5, <3>1, RetainProperties
    <3> HIDE DEF w
    <3>4. Len(w) \in Nat /\ Len(w) <= Len(kept) + 1 /\ Len(w) <= capacity
      <4>1. Len(w) = IF Len(kept) + 1 > capacity THEN capacity ELSE Len(kept) + 1
        BY <3>1, <3>3
      <4> QED BY <1>3, <1>5, <4>1
    <3>5. \A i \in 1..Len(w) : w[i] = all[Len(kept) + 1 - Len(w) + i]
      BY <3>1, <3>3
    <3> QED BY <3>2, <3>3, <3>4, <3>5 DEF all
  <2>2. CASE ~(capacity > 0)
    BY <1>3, <1>4, <1>5, <2>2, EmptySeq
  <2> QED BY <2>1, <2>2
<1>9. \A i \in 1..Len(entries') :
         /\ entries'[i] = hist'[Len(hist') - Len(entries') + i]
         /\ entries'[i].serial = last' - Len(entries') + i
  <2> SUFFICES ASSUME NEW i \in 1..Len(entries')
               PROVE  /\ entries'[i] = hist'[Len(hist') - Len(entries') + i]
                      /\ entries'[i].serial = last' - Len(entries') + i
    OBVIOUS
  <2> DEFINE k == Len(kept) + 1 - Len(entries') + i
  <2>1. entry.serial = NextSerial
    OBVIOUS
  <2>2. k \in 1..(Len(kept) + 1) /\ entries'[i] = Append(kept, entry)[k]
    <3> HIDE DEF kept, entry
    <3>1. Len(kept) \in Nat /\ Len(entries') \in Nat /\ Len(entries') <= Len(kept) + 1
      BY <1>3, <1>8
    <3>2. k \in 1..(Len(kept) + 1)
      BY <3>1
    <3> QED BY <1>8, <3>2, Zenon
  <2> HIDE DEF kept, entry
  <2>3. CASE k = Len(kept) + 1
    <3>1. entries'[i] = entry
      BY <1>7, <2>2, <2>3
    <3>2. i = Len(entries')
      BY <1>3, <1>8, <2>3
    <3>3. last' = NextSerial /\ NextSerial \in Int
      BY <1>1, <1>4
    <3>4. Len(hist') = Len(hist) + 1 /\ hist'[Len(hist) + 1] = entry
      BY <1>3, <1>6
    <3>5. Len(hist) \in Nat /\ Len(entries') \in Nat
      BY <1>3, <1>8
    <3>6. Len(hist') - Len(entries') + i = Len(hist) + 1 /\ last' - Len(entries') + i = NextSerial
      BY <3>2, <3>3, <3>4, <3>5
    <3> QED BY <2>1, <3>1, <3>4, <3>6
  <2>4. CASE k # Len(kept) + 1
    <3>1. k \in 1..Len(kept) /\ entries'[i] = kept[k]
      <4> HIDE DEF k
      <4>1. Len(kept) \in Nat
        BY <1>3
      <4>2. k \in 1..Len(kept)
        BY <2>2, <2>4, <4>1
      <4>3. Append(kept, entry)[k] = kept[k]
        BY <1>7, <2>2, <2>4
      <4> QED BY <2>2, <4>2, <4>3
    <3>2. /\ Len(kept) \in Nat /\ Len(hist) \in Nat /\ Len(entries') \in Nat
          /\ Len(kept) <= Len(hist) /\ Len(hist') = Len(hist) + 1
          /\ NextSerial \in Int /\ last' = NextSerial
      BY <1>1, <1>3, <1>4, <1>6, <1>8
    <3>3. /\ Len(hist) - Len(kept) + k = Len(hist') - Len(entries') + i
          /\ NextSerial - 1 - Len(kept) + k = last' - Len(entries') + i
      BY <3>2
    <3>6. Len(hist) - Len(kept) + k \in 1..Len(hist)
      <4>1. k \in 1..Len(kept)
        BY <3>1
      <4> HIDE DEF k
      <4> QED BY <3>2, <4>1
    <3>4. kept[k] = hist[Len(hist) - Len(kept) + k] /\ kept[k].serial = NextSerial - 1 - Len(kept) + k
      <4> HIDE DEF k
      <4> QED BY <1>3, <3>1
    <3>5. hist'[Len(hist) - Len(kept) + k] = hist[Len(hist) - Len(kept) + k]
      <4> DEFINE m == Len(hist) - Len(kept) + k
      <4>1. m \in 1..Len(hist)
        BY <3>6
      <4> HIDE DEF m
      <4>2. m \in 1..(Len(hist) + 1) /\ m # Len(hist) + 1
        BY <3>2, <4>1
      <4>3. hist'[m] = hist[m]
        BY <1>6, <4>2
      <4> QED BY <4>3 DEF m
    <3> QED BY <3>1, <3>3, <3>4, <3>5
  <2> QED BY <2>3, <2>4
<1>10. TypeOK'
  <2>1. origins' \subseteq 0..Len(hist')
    BY <1>3, <1>4, <1>6 DEF LogInv, TypeOK
  <2>2. capacity' \in Capacities /\ lastTime' \in Stamps \cup {ZeroTime}
    BY <1>4 DEF LogInv, TypeOK
  <2>3. reset' \in BOOLEAN
    BY <1>4, Zenon
  <2>4. last' \in 0..MaxSerial
    BY UpdateLogAssumption, <1>1, <1>4
  <2> QED BY <1>6, <1>8, <2>1, <2>2, <2>3, <2>4 DEF TypeOK
<1>11. RetainedIsNewest'
  <2>1. DOMAIN entries' = 1..Len(entries')
    BY <1>8, LenProperties
  <2>2. Len(entries') <= Len(hist') /\ Len(entries') <= capacity'
    BY <1>3, <1>4, <1>6, <1>8
  <2> QED BY <1>9, <2>1, <2>2 DEF RetainedIsNewest
<1>12. /\ hist' # << >>
       /\ hist'[Len(hist')].serial = last'
       /\ hist'[Len(hist')].time = lastTime'
       /\ last' # 0
  <2>1. hist'[Len(hist')] = entry
    BY <1>3, <1>6
  <2> QED BY <1>1, <1>3, <1>4, <1>6, <2>1, EmptySeq
<1>13. ASSUME NEW i \in DOMAIN hist', NEW j \in DOMAIN hist',
              hist'[i].serial = hist'[j].serial, hist'[i].time = hist'[j].time
       PROVE  i = j
  <2>1. entry.serial = NextSerial /\ entry.time = t
    OBVIOUS
  <2> HIDE DEF entry
  <2>2. \A k \in 1..Len(hist) : hist'[k] = hist[k] /\ hist'[Len(hist) + 1] = entry
    BY <1>3, <1>6
  <2>3. i \in 1..(Len(hist) + 1) /\ j \in 1..(Len(hist) + 1) /\ hist'[Len(hist) + 1] = entry
    BY <1>3, <1>6, <1>13
  <2>4. CASE i \in 1..Len(hist) /\ j \in 1..Len(hist)
    BY <1>5, <1>13, <2>2, <2>4 DEF LogInv
  <2>5. CASE i \in 1..Len(hist) /\ j = Len(hist) + 1
    BY <1>4, <1>5, <1>13, <2>1, <2>2, <2>3, <2>5 DEF FreshStamp
  <2>6. CASE i = Len(hist) + 1 /\ j \in 1..Len(hist)
    BY <1>4, <1>5, <1>13, <2>1, <2>2, <2>3, <2>6 DEF FreshStamp
  <2> QED BY <1>3, <2>3, <2>4, <2>5, <2>6
<1> QED BY <1>10, <1>11, <1>12, <1>13 DEF LogInv

(* Shrinking, growing or disabling retention keeps the invariant.          *)
LEMMA LogInvSetCapacity ==
    ASSUME LogInv, NEW c \in Capacities, SetCapacity(c)
    PROVE  LogInv'
<1>1. /\ capacity' = c /\ entries' = Retain(entries, c)
      /\ last' = last /\ lastTime' = lastTime /\ reset' = reset
      /\ hist' = hist /\ origins' = origins
  BY DEF SetCapacity
<1>2. c \in Nat /\ entries \in Seq(Entry) /\ hist \in Seq(Entry) /\ last \in 0..MaxSerial
  BY UpdateLogAssumption DEF LogInv, TypeOK
<1>3. /\ Len(entries) \in Nat /\ DOMAIN entries = 1..Len(entries)
      /\ Len(hist) \in Nat
  BY <1>2, LenProperties
<1>4. /\ Retain(entries, c) \in Seq(Entry)
      /\ Len(Retain(entries, c)) = IF Len(entries) > c THEN c ELSE Len(entries)
      /\ \A i \in 1..Len(Retain(entries, c)) :
            Retain(entries, c)[i] = entries[Len(entries) - Len(Retain(entries, c)) + i]
  BY <1>2, RetainProperties
<1>5. /\ entries' \in Seq(Entry)
      /\ Len(entries') = IF Len(entries) > c THEN c ELSE Len(entries)
      /\ \A i \in 1..Len(entries') : entries'[i] = entries[Len(entries) - Len(entries') + i]
  BY <1>1, <1>4
<1>6. Len(entries') \in Nat /\ Len(entries') <= Len(entries) /\ Len(entries') <= c
  BY <1>2, <1>3, <1>5
<1>7. /\ Len(entries) <= Len(hist)
      /\ \A i \in 1..Len(entries) :
            /\ entries[i] = hist[Len(hist) - Len(entries) + i]
            /\ entries[i].serial = last - Len(entries) + i
  BY <1>3 DEF LogInv, RetainedIsNewest
<1>8. ASSUME NEW i \in 1..Len(entries')
      PROVE  /\ entries'[i] = hist[Len(hist) - Len(entries') + i]
             /\ entries'[i].serial = last - Len(entries') + i
  <2> DEFINE k == Len(entries) - Len(entries') + i
  <2>1. k \in 1..Len(entries)
    BY <1>3, <1>6
  <2>2. entries'[i] = entries[k]
    BY <1>5
  <2>3. /\ Len(hist) - Len(entries) + k = Len(hist) - Len(entries') + i
        /\ last - Len(entries) + k = last - Len(entries') + i
    BY <1>2, <1>3, <1>6
  <2> HIDE DEF k
  <2> QED BY <1>7, <2>1, <2>2, <2>3
<1>9. RetainedIsNewest'
  <2>1. DOMAIN entries' = 1..Len(entries')
    BY <1>5, LenProperties
  <2>2. Len(entries') <= Len(hist') /\ Len(entries') <= capacity'
    BY <1>1, <1>3, <1>6, <1>7
  <2> QED BY <1>1, <1>8, <2>1, <2>2 DEF RetainedIsNewest
<1>10. TypeOK'
  BY <1>1, <1>5 DEF LogInv, TypeOK
<1>11. last' = 0 => entries' = << >>
  <2>1. ASSUME last = 0 PROVE Len(entries') = 0
    BY <1>3, <1>6, <2>1, EmptySeq DEF LogInv
  <2> QED BY <1>1, <1>5, <2>1, EmptySeq
<1> QED BY <1>1, <1>9, <1>10, <1>11 DEF LogInv

(* Dropping the retained entries keeps the invariant, with the marker kept *)
(* (Reset) or back at the zero cursor (ConfigureUpdateLog).                *)
LEMMA LogInvEmptied ==
    ASSUME LogInv, Reset \/ \E c \in Capacities : ConfigureUpdateLog(c)
    PROVE  LogInv'
<1>1. /\ entries' = << >> /\ hist' = hist
      /\ \/ /\ last' = last /\ lastTime' = lastTime
            /\ capacity' = capacity /\ origins' = origins
         \/ /\ last' = 0 /\ lastTime' = ZeroTime
            /\ capacity' \in Capacities /\ origins' = origins \cup {Len(hist)}
  BY DEF Reset, ConfigureUpdateLog
<1>2. /\ << >> \in Seq(Entry) /\ Len(<< >>) = 0
      /\ \A s \in Seq(Entry) : DOMAIN s = 1..Len(s) /\ Len(s) \in Nat
  BY EmptySeq, LenProperties
<1>3. reset' \in BOOLEAN
  BY Zenon DEF Reset, ConfigureUpdateLog
<1>4. /\ Len(hist) \in Nat /\ capacity' \in Nat
  BY UpdateLogAssumption, <1>1, <1>2, Zenon DEF LogInv, TypeOK
<1>5. TypeOK'
  <2>1. last' \in 0..MaxSerial /\ lastTime' \in Stamps \cup {ZeroTime} /\ capacity' \in Capacities
    BY UpdateLogAssumption, <1>1 DEF LogInv, TypeOK
  <2>2. origins' \subseteq 0..Len(hist')
    <3>1. origins \subseteq 0..Len(hist) /\ Len(hist) \in 0..Len(hist) /\ hist' = hist
      BY <1>1, <1>4 DEF LogInv, TypeOK
    <3>2. origins' = origins \/ origins' = origins \cup {Len(hist)}
      BY <1>1
    <3> QED BY <3>1, <3>2, Zenon
  <2>3. entries' \in Seq(Entry) /\ hist' \in Seq(Entry)
    BY <1>1, <1>2 DEF LogInv, TypeOK
  <2> QED BY <1>3, <2>1, <2>2, <2>3 DEF TypeOK
<1>6. RetainedIsNewest'
  <2>1. DOMAIN entries' = {} /\ Len(entries') = 0
    BY <1>1, <1>2
  <2> QED BY <1>1, <1>4, <2>1 DEF RetainedIsNewest
<1> QED BY <1>1, <1>5, <1>6 DEF LogInv

(* The log invariant holds throughout every behaviour of the update log,   *)
(* for every serial width, capacity and history: the retained entries are  *)
(* the newest updates with consecutive serials.                            *)
THEOREM LogInvariant == Spec => []LogInv
<1>1. LogInv /\ [Next]_logVars => LogInv'
  <2> SUFFICES ASSUME LogInv, [Next]_logVars PROVE LogInv'
    OBVIOUS
  <2>1. CASE \E u \in Updates, t \in Stamps : append(u, t)
    BY <2>1, LogInvAppend
  <2>2. CASE \E c \in Capacities : SetCapacity(c)
    BY <2>2, LogInvSetCapacity
  <2>3. CASE Reset \/ \E c \in Capacities : ConfigureUpdateLog(c)
    BY <2>3, LogInvEmptied
  <2>4. CASE UNCHANGED logVars
    <3>1. TypeOK'
      BY <2>4 DEF logVars, LogInv, TypeOK
    <3>2. RetainedIsNewest'
      BY <2>4 DEF logVars, LogInv, RetainedIsNewest
    <3> QED BY <2>4, <3>1, <3>2 DEF logVars, LogInv
  <2> QED BY <2>1, <2>2, <2>3, <2>4 DEF Next
<1> QED BY <1>1, LogInvInit, PTL DEF Spec

(* The log's state is always well typed; in particular no append carries   *)
(* the serial past its 32-bit range.                                       *)
THEOREM TypeCorrect == Spec => []TypeOK
  BY LogInvariant, PTL DEF LogInv

(* What the log retains is always the newest part of the history.          *)
THEOREM RetentionCorrect == Spec => []RetainedIsNewest
  BY LogInvariant, PTL DEF LogInv

(* A suffix of the retained entries is the same suffix of the history.     *)
LEMMA SuffixOfHistory ==
    ASSUME LogInv, NEW k \in 1..Len(entries)
    PROVE  /\ Len(hist) - Len(entries) + k \in DOMAIN hist
           /\ entries[k] = hist[Len(hist) - Len(entries) + k]
           /\ SubSeq(entries, k + 1, Len(entries)) =
                 SubSeq(hist, Len(hist) - Len(entries) + k + 1, Len(hist))
<1> DEFINE d == Len(hist) - Len(entries)
           s == SubSeq(entries, k + 1, Len(entries))
           h == SubSeq(hist, d + k + 1, Len(hist))
<1>1. /\ entries \in Seq(Entry) /\ hist \in Seq(Entry)
      /\ Len(entries) \in Nat /\ Len(hist) \in Nat
      /\ DOMAIN entries = 1..Len(entries) /\ DOMAIN hist = 1..Len(hist)
  BY LenProperties DEF LogInv, TypeOK
<1>2. d \in Nat /\ d + Len(entries) = Len(hist)
  BY <1>1 DEF LogInv, RetainedIsNewest
<1>3. \A i \in 1..Len(entries) : entries[i] = hist[d + i]
  BY <1>1 DEF LogInv, RetainedIsNewest
<1> HIDE DEF d
<1>4. \A i \in (k + 1)..Len(entries) : entries[i] \in Entry
  <2> SUFFICES ASSUME NEW i \in (k + 1)..Len(entries) PROVE entries[i] \in Entry
    OBVIOUS
  <2>1. i \in 1..Len(entries)
    BY <1>1
  <2> QED BY <1>1, <2>1, ElementOfSeq
<1>5. \A i \in (d + k + 1)..Len(hist) : hist[i] \in Entry
  <2> SUFFICES ASSUME NEW i \in (d + k + 1)..Len(hist) PROVE hist[i] \in Entry
    OBVIOUS
  <2>1. i \in 1..Len(hist)
    BY <1>1, <1>2
  <2> QED BY <1>1, <2>1, ElementOfSeq
<1>6. k + 1 \in Int /\ d + k + 1 \in Int /\ Len(entries) \in Int /\ Len(hist) \in Int
  BY <1>1, <1>2
<1>7. /\ s \in Seq(Entry)
      /\ Len(s) = IF k + 1 <= Len(entries) THEN Len(entries) - (k + 1) + 1 ELSE 0
      /\ \A i \in 1..(Len(entries) - (k + 1) + 1) : s[i] = entries[k + 1 + i - 1]
  BY <1>4, <1>6, SubSeqProperties
<1>8. /\ h \in Seq(Entry)
      /\ Len(h) = IF d + k + 1 <= Len(hist) THEN Len(hist) - (d + k + 1) + 1 ELSE 0
      /\ \A i \in 1..(Len(hist) - (d + k + 1) + 1) : h[i] = hist[d + k + 1 + i - 1]
  BY <1>5, <1>6, SubSeqProperties
<1> HIDE DEF s, h
<1>9. Len(s) = Len(entries) - k /\ Len(h) = Len(entries) - k /\ Len(s) \in Nat
  <2> DEFINE e == Len(entries)
             n == Len(hist)
  <2>1. e \in Nat /\ n \in Nat /\ d \in Nat /\ d + e = n /\ k \in 1..e
    BY <1>1, <1>2, Zenon
  <2>2. /\ Len(s) = IF k + 1 <= e THEN e - (k + 1) + 1 ELSE 0
        /\ Len(h) = IF d + k + 1 <= n THEN n - (d + k + 1) + 1 ELSE 0
    BY <1>7, <1>8
  <2> HIDE DEF e, n
  <2>3. Len(s) = e - k /\ Len(h) = e - k /\ e - k \in Nat
    BY <2>1, <2>2
  <2> QED BY <2>3 DEF e
<1>10. \A i \in 1..Len(s) : s[i] = h[i]
  <2> SUFFICES ASSUME NEW i \in 1..Len(s) PROVE s[i] = h[i]
    OBVIOUS
  <2>1. /\ i \in 1..(Len(entries) - (k + 1) + 1)
        /\ i \in 1..(Len(hist) - (d + k + 1) + 1)
        /\ k + 1 + i - 1 = k + i /\ d + k + 1 + i - 1 = d + (k + i)
        /\ k + i \in 1..Len(entries)
    BY <1>1, <1>2, <1>9
  <2>2. s[i] = entries[k + i] /\ h[i] = hist[d + (k + i)]
    BY <1>7, <1>8, <2>1
  <2> QED BY <1>3, <2>1, <2>2
<1>11. s = h
  BY <1>7, <1>8, <1>9, <1>10, SeqEqual, Zenon
<1>12. d + k \in 1..Len(hist) /\ entries[k] = hist[d + k]
  <2>1. d + k \in 1..Len(hist)
    BY <1>1, <1>2
  <2> QED BY <1>3, <2>1
<1> QED BY <1>1, <1>11, <1>12 DEF s, h, d

(* In a state that satisfies the invariant, the answer to a cursor handed  *)
(* out after the i-th update is a resync or exactly the later updates.     *)
LEMMA ReplyComplete ==
    ASSUME LogInv, NEW i \in DOMAIN hist
    PROVE  Complete(Entries(CursorAt(i)), i)
<1> DEFINE cur == CursorAt(i)
<1>1. /\ entries \in Seq(Entry) /\ hist \in Seq(Entry)
      /\ DOMAIN entries = 1..Len(entries) /\ DOMAIN hist = 1..Len(hist)
      /\ Len(entries) \in Nat /\ Len(hist) \in Nat
  BY LenProperties DEF LogInv, TypeOK
<1>2. hist[i] \in Entry /\ cur.sno = hist[i].serial /\ cur.time = hist[i].time
  BY <1>1, ElementOfSeq DEF CursorAt
<1>3. cur.sno \in 1..MaxSerial
  BY <1>2 DEF Entry
<1>4. /\ Complete(Reply(StatusFullResync, << >>), i)
      /\ SubSeq(hist, Len(hist) + 1, Len(hist)) = << >>
  <2>1. SubSeq(hist, Len(hist) + 1, Len(hist)) = << >>
    BY <1>1, SubSeqEmpty
  <2> QED BY <2>1 DEF Complete, Reply
<1> HIDE DEF cur
<1>5. CASE ~reset /\ cur = Last
  <2>1. last = hist[i].serial /\ lastTime = hist[i].time
    BY <1>2, <1>5 DEF Last
  <2>2. last # 0
    BY UpdateLogAssumption, <1>2, <1>3, <2>1
  <2>3. hist # << >> /\ hist[Len(hist)].serial = last /\ hist[Len(hist)].time = lastTime
    BY <2>2 DEF LogInv
  <2>4. Len(hist) \in DOMAIN hist
    BY <1>1, <2>3, EmptySeq
  <2>5. i = Len(hist)
    BY <2>1, <2>3, <2>4 DEF LogInv
  <2>6. Entries(cur) = Reply(StatusNil, << >>)
    BY <1>5 DEF Entries
  <2>7. Entries(cur).updates = << >>
    BY <2>6 DEF Reply
  <2> QED BY <1>4, <2>5, <2>7 DEF Complete, cur
<1>6. CASE ~(~reset /\ cur = Last)
  <2>1. ~FullHistory(cur)
    BY UpdateLogAssumption, <1>3 DEF FullHistory, ZeroCursor
  <2>2. CASE entries = << >> \/ cur.sno > last
    <3>1. Entries(cur) = Reply(StatusFullResync, << >>)
      BY <1>6, <2>1, <2>2 DEF Entries
    <3> QED BY <1>4, <3>1 DEF cur
  <2>3. CASE ~(entries = << >> \/ cur.sno > last)
    <3>1. Entries(cur) = After(cur)
      BY <1>6, <2>1, <2>3 DEF Entries
    <3>2. CASE ~\E k \in Position(cur) : entries[k].time = cur.time
      <4>1. After(cur) = Reply(StatusFullResync, << >>)
        BY <3>2 DEF After
      <4> QED BY <1>4, <3>1, <4>1 DEF cur
    <3>3. CASE \E k \in Position(cur) : entries[k].time = cur.time
      <4> DEFINE k == CHOOSE j \in Position(cur) : entries[j].time = cur.time
      <4>1. k \in Position(cur) /\ entries[k].time = cur.time
        BY <3>3
      <4>2. After(cur) = IF k = Len(entries)
                         THEN Reply(StatusNil, << >>)
                         ELSE Reply(StatusOK, SubSeq(entries, k + 1, Len(entries)))
        BY <3>3 DEF After
      <4> HIDE DEF k
      <4>3. k \in 1..Len(entries) /\ entries[k].serial = cur.sno
        BY <1>1, <4>1 DEF Position
      <4>4. /\ Len(hist) - Len(entries) + k \in DOMAIN hist
            /\ entries[k] = hist[Len(hist) - Len(entries) + k]
            /\ SubSeq(entries, k + 1, Len(entries)) =
                  SubSeq(hist, Len(hist) - Len(entries) + k + 1, Len(hist))
        BY <4>3, SuffixOfHistory
      <4>5. i = Len(hist) - Len(entries) + k
        <5> DEFINE m == Len(hist) - Len(entries) + k
        <5>1. m \in DOMAIN hist /\ entries[k] = hist[m]
          BY <4>4
        <5> HIDE DEF m
        <5>2. hist[i].serial = hist[m].serial /\ hist[i].time = hist[m].time
          BY <1>2, <4>1, <4>3, <5>1
        <5>3. i = m
          BY <5>1, <5>2 DEF LogInv
        <5> QED BY <5>3 DEF m
      <4>6. SubSeq(entries, k + 1, Len(entries)) = SubSeq(hist, i + 1, Len(hist))
        BY <4>4, <4>5, Zenon
      <4>7. CASE k = Len(entries)
        <5>1. i = Len(hist)
          BY <1>1, <4>5, <4>7
        <5>2. After(cur).updates = << >>
          BY <4>2, <4>7 DEF Reply
        <5> QED BY <1>4, <3>1, <5>1, <5>2 DEF Complete, cur
      <4>8. CASE k # Len(entries)
        <5>1. After(cur).updates = SubSeq(entries, k + 1, Len(entries))
          <6> DEFINE rest == SubSeq(entries, k + 1, Len(entries))
          <6>1. After(cur) = Reply(StatusOK, rest)
            BY <4>2, <4>8
          <6> HIDE DEF rest
          <6>2. After(cur).updates = rest
            BY <6>1 DEF Reply
          <6> QED BY <6>2 DEF rest
        <5> QED BY <3>1, <4>6, <5>1, Zenon DEF Complete, cur
      <4> QED BY <4>7, <4>8
    <3> QED BY <3>2, <3>3
  <2> QED BY <2>2, <2>3
<1> QED BY <1>5, <1>6

(* A replica that polls with a cursor this log handed out after an update  *)
(* never loses an update: Entries answers with a full resync or with       *)
(* exactly the updates after the cursor.                                   *)
THEOREM NothingSkipped == Spec => []NoUpdateSkipped
<1>1. LogInv => NoUpdateSkipped
  BY ReplyComplete DEF NoUpdateSkipped
<1> QED BY <1>1, LogInvariant, PTL
=============================================================================
