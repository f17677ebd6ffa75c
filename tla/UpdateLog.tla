----------------------------- MODULE UpdateLog -----------------------------
(***************************************************************************)
(* The master's incremental propagation log, krb5/kdb/ulog.go: a bounded,  *)
(* in-memory sequence of principal updates with 32-bit serial numbers, and *)
(* the decision it takes for a replica that presents a cursor (a serial    *)
(* and a timestamp).                                                       *)
(*                                                                         *)
(* hist and origins are history variables.  hist is every update the       *)
(* database ever logged; origins holds the lengths hist had when the log   *)
(* stood at the zero cursor, i.e. when the log object was created.         *)
(***************************************************************************)
EXTENDS Integers, Sequences

CONSTANTS
    Updates,        \* payloads: which principal changed, and how
    Stamps,         \* nonzero timestamps an update may carry
    Capacities,     \* retention sizes an operator may configure
    MaxSerial       \* ^uint32(0), the last serial before the counter wraps

ASSUME UpdateLogAssumption ==
    /\ Stamps \subseteq Nat \ {0}
    /\ Capacities \subseteq Nat
    /\ MaxSerial \in Nat \ {0}

VARIABLES capacity, entries, last, lastTime, reset, hist, origins

logVars == <<capacity, entries, last, lastTime, reset, hist, origins>>

ZeroTime == 0
Entry == [serial : 1..MaxSerial, time : Stamps, update : Updates]
Cursor == [sno : 0..MaxSerial, time : Stamps \cup {ZeroTime}]
ZeroCursor == [sno |-> 0, time |-> ZeroTime]

StatusOK == 0
StatusFullResync == 2
StatusNil == 4

(* At most the last n elements of a sequence: entries[len(entries)-n:].    *)
Retain(s, n) == IF Len(s) > n THEN SubSeq(s, Len(s) - n + 1, Len(s)) ELSE s

-----------------------------------------------------------------------------
Init ==
    /\ capacity \in Capacities
    /\ entries = << >>
    /\ last = 0
    /\ lastTime = ZeroTime
    /\ reset = FALSE
    /\ hist = << >>
    /\ origins = {0}

NextSerial == IF last = MaxSerial THEN 1 ELSE last + 1

(* Wall-clock stamps may repeat or step back, but a serial that is used    *)
(* again (after a wrap or in a new log) is not used with the same          *)
(* microsecond.                                                            *)
FreshStamp(serial, t) ==
    \A i \in DOMAIN hist : hist[i].serial = serial => hist[i].time # t

(* Mutant: the wrap keeps the entries of the old serial space. *)
appendKeepsOldEntries(u, t) ==
    /\ FreshStamp(NextSerial, t)
    /\ LET entry == [serial |-> NextSerial, time |-> t, update |-> u]
       IN  /\ entries' = Retain(Append(entries, entry), capacity)
           /\ hist' = Append(hist, entry)
    /\ last' = NextSerial
    /\ lastTime' = t
    /\ reset' = FALSE
    /\ UNCHANGED <<capacity, origins>>

append(u, t) ==
    /\ FreshStamp(NextSerial, t)
    /\ LET kept == IF last = MaxSerial THEN << >> ELSE entries
           entry == [serial |-> NextSerial, time |-> t, update |-> u]
       IN  /\ entries' = IF capacity > 0 THEN Retain(Append(kept, entry), capacity)
                                         ELSE << >>
           /\ hist' = Append(hist, entry)
    /\ last' = NextSerial
    /\ lastTime' = t
    /\ reset' = FALSE
    /\ UNCHANGED <<capacity, origins>>

SetCapacity(c) ==
    /\ capacity' = c
    /\ entries' = Retain(entries, c)
    /\ UNCHANGED <<last, lastTime, reset, hist, origins>>

Reset ==
    /\ entries' = << >>
    /\ reset' = TRUE
    /\ UNCHANGED <<capacity, last, lastTime, hist, origins>>

(* Database.ConfigureUpdateLog, and a restart of the master: the log is    *)
(* not persistent and a new one starts at the zero cursor.                 *)
ConfigureUpdateLog(c) ==
    /\ capacity' = c
    /\ entries' = << >>
    /\ last' = 0
    /\ lastTime' = ZeroTime
    /\ reset' = FALSE
    /\ origins' = origins \cup {Len(hist)}
    /\ UNCHANGED hist

Next ==
    \/ \E u \in Updates, t \in Stamps : append(u, t)
    \/ \E c \in Capacities : SetCapacity(c) \/ ConfigureUpdateLog(c)
    \/ Reset

Spec == Init /\ [][Next]_logVars

-----------------------------------------------------------------------------
(* UpdateLog.Last and UpdateLog.Entries: reads, so operators on the state. *)
Last == [sno |-> last, time |-> lastTime]

Reply(status, updates) == [status |-> status, updates |-> updates]

Position(cur) == {i \in DOMAIN entries : entries[i].serial = cur.sno}

FullHistory(cur) ==
    cur = ZeroCursor /\ entries # << >> /\ entries[1].serial = 1

(* Mutant: the serial alone identifies the cursor. *)
AfterIgnoringTime(cur) ==
    IF Position(cur) # {}
    THEN LET i == CHOOSE j \in Position(cur) : TRUE
         IN  IF i = Len(entries)
             THEN Reply(StatusNil, << >>)
             ELSE Reply(StatusOK, SubSeq(entries, i + 1, Len(entries)))
    ELSE Reply(StatusFullResync, << >>)

(* The search loop of Entries stops at the first entry with the serial and *)
(* accepts it only with the cursor's timestamp.                            *)
After(cur) ==
    IF \E i \in Position(cur) : entries[i].time = cur.time
    THEN LET i == CHOOSE j \in Position(cur) : entries[j].time = cur.time
         IN  IF i = Len(entries)
             THEN Reply(StatusNil, << >>)
             ELSE Reply(StatusOK, SubSeq(entries, i + 1, Len(entries)))
    ELSE Reply(StatusFullResync, << >>)

Entries(cur) ==
    IF ~reset /\ cur = Last THEN Reply(StatusNil, << >>)
    ELSE IF FullHistory(cur) THEN Reply(StatusOK, entries)
    ELSE IF entries = << >> \/ cur.sno > last THEN Reply(StatusFullResync, << >>)
    ELSE After(cur)

-----------------------------------------------------------------------------
(* The types of the variables: the serials stay in their range across the  *)
(* wrap of append.                                                         *)
TypeOK ==
    /\ capacity \in Capacities
    /\ entries \in Seq(Entry)
    /\ last \in 0..MaxSerial
    /\ lastTime \in Stamps \cup {ZeroTime}
    /\ reset \in BOOLEAN
    /\ hist \in Seq(Entry)
    /\ origins \subseteq 0..Len(hist)

(* A cursor a replica can hold after the i-th update: the one Last()       *)
(* reported when that update was the latest.                               *)
CursorAt(i) == [sno |-> hist[i].serial, time |-> hist[i].time]

(* The reply brings a database that holds the first n updates up to date:  *)
(* it is a full resync, or it carries exactly the updates after n.         *)
Complete(reply, n) ==
    \/ reply.status = StatusFullResync
    \/ reply.updates = SubSeq(hist, n + 1, Len(hist))

(* What Entries retains is the newest part of the update history, with     *)
(* consecutive serials ending at last and no more than capacity of them,   *)
(* whatever sequence of appends, capacity changes, resets, wraps and new   *)
(* logs came before.                                                       *)
RetainedIsNewest ==
    /\ Len(entries) <= Len(hist)
    /\ Len(entries) <= capacity
    /\ \A i \in DOMAIN entries :
          /\ entries[i] = hist[Len(hist) - Len(entries) + i]
          /\ entries[i].serial = last - Len(entries) + i

(* A replica that polls with a cursor the log handed out after some update *)
(* is told to resync or receives exactly the updates it has not seen, also *)
(* when the log was trimmed, reset, replaced or wrapped in between.        *)
NoUpdateSkipped ==
    \A i \in DOMAIN hist : Complete(Entries(CursorAt(i)), i)

(* The strengthening that makes the two properties above inductive: the    *)
(* latest update is the one the log's marker (last, lastTime) names, a log *)
(* at the zero cursor retains nothing, and no serial was used twice with   *)
(* the same timestamp.                                                     *)
LogInv ==
    /\ TypeOK
    /\ RetainedIsNewest
    /\ last = 0 => entries = << >>
    /\ last # 0 => /\ hist # << >>
                   /\ hist[Len(hist)].serial = last
                   /\ hist[Len(hist)].time = lastTime
    /\ \A i, j \in DOMAIN hist :
          hist[i].serial = hist[j].serial /\ hist[i].time = hist[j].time => i = j
=============================================================================
