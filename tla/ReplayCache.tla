---------------------------- MODULE ReplayCache ----------------------------
(***************************************************************************)
(* The MIT file2 replay cache, krb5/rcache/rcache.go: a file of fixed-size *)
(* records organised as a chain of hash tables.  A tag may be stored in    *)
(* either of two neighbouring records of each table; the second record of  *)
(* a table's last index is the first record of the next table.  Store runs *)
(* under an exclusive file lock, so it is one step.                        *)
(*                                                                         *)
(* Times are uint32 seconds: they wrap at Period and are compared as a     *)
(* signed difference.  The time a caller stores a tag with, and by which   *)
(* other records expire, is the one its peer put into the message          *)
(* (ap.go:344, appmsg.go:265), which the caller has compared with its own  *)
(* clock: it may trail that clock and it may lead it.  age is a history    *)
(* variable: how far the time of an accepted tag is behind the clock, until*)
(* a message of the peer furthest ahead may expire it.                     *)
(***************************************************************************)
EXTENDS Integers, Sequences

CONSTANTS
    Tags,
    NoTag,          \* the tag bytes of a record that was never written
    Layout,         \* the tables, as nextTable enumerates them
    FirstRecords,   \* firstTableRecords, 1023
    MaxRecords,     \* records that fit in maxFileSize
    Half,           \* 2^31
    Skew,           \* the clock skew the acceptor is configured with
    Lag,            \* how far a message's time may trail the clock
    Lead,           \* how far it may be ahead of it, the skew at most
    Seconds         \* the times with which Store may be called

Period == 2 * Half

(* nextTable: the table that follows, or the first one.                    *)
FirstTable == [offset |-> 0, records |-> FirstRecords]
nextTable(table) ==
    [offset |-> table.offset + table.records,
     records |-> IF table.offset = 0 THEN 2 * (FirstRecords + 1) ELSE 2 * table.records]
Fits(table) == table.offset + table.records <= MaxRecords

Tables == 1..Len(Layout)

ASSUME LayoutAssumption ==
    /\ Layout \in Seq([offset : Nat, records : Nat \ {0}])
    /\ Layout # << >>
    /\ Layout[1] = FirstTable
    /\ \A k \in Tables : Fits(Layout[k])
    /\ \A k \in Tables \ {Len(Layout)} : Layout[k + 1] = nextTable(Layout[k])
    /\ ~Fits(nextTable(Layout[Len(Layout)]))

ASSUME NoTagAssumption == NoTag \notin Tags

ASSUME TimeAssumption ==
    /\ Half \in Nat /\ Skew \in Nat /\ Lag \in Nat
    /\ Lead \in 0..Skew
    /\ Skew + Lag + Lead < Half
    /\ Seconds \subseteq 0..(Period - 1)

VARIABLES
    file,       \* the records, in file order
    index,      \* index[tag][k]: sipHash24(tag, seed + k) modulo table size
    now,
    age

rcVars == <<file, index, now, age>>

\* A message stamped Window seconds ago is not expired by one stamped Lead
\* seconds ahead, and one stamped Forgotten seconds ago may be
Window == Skew - Lead
Forgotten == Window + 1
Ages == (-Lead)..Forgotten
Lags == (-Lead)..Lag
Record == [tag : Tags \cup {NoTag}, timestamp : 0..(Period - 1)]
Empty == [tag |-> NoTag, timestamp |-> 0]

Indexes == {f \in [Tags -> [Tables -> 0..(MaxRecords - 1)]] :
               \A t \in Tags, k \in Tables : f[t][k] < Layout[k].records}

(* uint32 arithmetic: sum, difference, and int32(a - b) > 0.               *)
Wrap(x) == IF x < 0 THEN x + Period ELSE IF x >= Period THEN x - Period ELSE x
Plus(a, b) == Wrap(a + b)
Minus(a, b) == Wrap(a - b)
tsAfter(a, b) == Minus(a, b) \in 1..(Half - 1)

expired(timestamp, t) == tsAfter(t, Plus(timestamp, Skew))

-----------------------------------------------------------------------------
(* readRecords: the two records a tag may occupy in table k, of which the  *)
(* ones past the end of the file are not there.                            *)
Slot(tag, k) == Layout[k].offset + index[tag][k] + 1
Pair(tag, k) == {Slot(tag, k), Slot(tag, k) + 1}
Read(tag, k) == {s \in Pair(tag, k) : s <= Len(file)}

(* Mutant: the loop stops at an expired record too. *)
ContinuesPastLive(tag, k) ==
    \A s \in Pair(tag, k) :
        s <= Len(file) /\ file[s].timestamp # 0 /\ ~expired(file[s].timestamp, now)

(* The loop of store goes on to the next table when both records are there *)
(* and neither is empty.                                                   *)
Continues(tag, k) ==
    \A s \in Pair(tag, k) : s <= Len(file) /\ file[s].timestamp # 0

Visited(tag) == {k \in Tables : \A j \in 1..(k - 1) : Continues(tag, j)}

Replayed(tag) ==
    \E k \in Visited(tag) : \E s \in Read(tag, k) :
        file[s].timestamp # 0 /\ file[s].tag = tag

Overflows(tag) == \A k \in Tables : Continues(tag, k)

Available(s, t) ==
    s <= Len(file) => (file[s].timestamp = 0 \/ expired(file[s].timestamp, t))

(* writeRecord: a write past the end leaves a hole that reads as zeros.    *)
Written(s, record) ==
    [i \in 1..(IF s > Len(file) THEN s ELSE Len(file)) |->
        IF i = s THEN record ELSE IF i <= Len(file) THEN file[i] ELSE Empty]

-----------------------------------------------------------------------------
Init ==
    /\ file = << >>
    /\ index \in Indexes
    /\ now \in 0..(Period - 1)
    /\ age = [tag \in Tags |-> Forgotten]

(* Mutant: an available record is taken without looking at later tables. *)
storeWithoutScan(tag, lag) ==
    LET t == Minus(now, lag)
    IN  /\ t \in Seconds
        /\ \E k \in Visited(tag) :
              /\ ~\E s \in Read(tag, k) : file[s].timestamp # 0 /\ file[s].tag = tag
              /\ \E s \in Pair(tag, k) :
                    /\ Available(s, t)
                    /\ file' = Written(s, [tag |-> tag, timestamp |-> t])
        /\ age' = [age EXCEPT ![tag] = IF lag <= Window THEN lag ELSE Forgotten]
        /\ UNCHANGED <<index, now>>

(* store, accepting the tag: no visited record holds it, and the first     *)
(* available record on the way to the table where the search stops is      *)
(* overwritten.                                                            *)
store(tag, lag) ==
    LET t == Minus(now, lag)
    IN  /\ t \in Seconds
        /\ ~Replayed(tag)
        /\ ~Overflows(tag)
        /\ \E k \in Visited(tag) : \E s \in Pair(tag, k) :
              /\ Available(s, t)
              /\ \A j \in 1..k : \A r \in Pair(tag, j) :
                    (j < k \/ r < s) => ~Available(r, t)
              /\ file' = Written(s, [tag |-> tag, timestamp |-> t])
        /\ age' = [age EXCEPT ![tag] = IF lag <= Window THEN lag ELSE Forgotten]
        /\ UNCHANGED <<index, now>>

(* The clock advances by a second.                                         *)
Tick ==
    /\ now' = Plus(now, 1)
    /\ age' = [tag \in Tags |->
                  IF age[tag] < Forgotten THEN age[tag] + 1 ELSE Forgotten]
    /\ UNCHANGED <<file, index>>

Next ==
    \/ \E tag \in Tags, lag \in Lags : store(tag, lag)
    \/ Tick

Spec == Init /\ [][Next]_rcVars

-----------------------------------------------------------------------------
(* The types of the variables: every stored timestamp, and every sum the   *)
(* code compares it with, is a 32-bit value.                               *)
TypeOK ==
    /\ file \in Seq(Record)
    /\ index \in Indexes
    /\ now \in 0..(Period - 1)
    /\ age \in [Tags -> Ages]

(* Presenting again a tag that was accepted reports ErrReplay as long as   *)
(* its time is no more than Skew - Lead behind the clock, whatever other   *)
(* tags were stored in between, in whichever table the record ended up,    *)
(* and also around the wrap of the 32-bit clock.  That is the whole skew   *)
(* when no peer's clock is ahead, and only until the clock reaches the     *)
(* message's time when peers may be ahead by the skew: the records expire  *)
(* by the times of the messages (rcache.go:173).                           *)
ReplayDetected ==
    \A tag \in Tags : age[tag] # Forgotten => Replayed(tag)

(* The reason: the record of such a tag is in one of its two places of a   *)
(* table that the search still reaches, and carries the message's time.    *)
RecordReachable ==
    \A tag \in Tags : age[tag] # Forgotten =>
        \E k \in Visited(tag) : \E s \in Read(tag, k) :
            /\ file[s].tag = tag
            /\ file[s].timestamp = Minus(now, age[tag])
            /\ file[s].timestamp # 0

(* No step of store writes a record for an accepted tag whose time is no   *)
(* more than Skew - Lead behind the clock.                                 *)
NotAcceptedTwice ==
    [][\A tag \in Tags : age[tag] # Forgotten =>
          \A s \in DOMAIN file' :
              file'[s].tag = tag => s \in DOMAIN file /\ file'[s] = file[s]]_rcVars

RcInv == TypeOK /\ RecordReachable
=============================================================================
