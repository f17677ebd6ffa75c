-------------------------------- MODULE Ulog --------------------------------
(***************************************************************************)
(* The replica's update log file, krb5/iprop/ulog.go: a ring of fixed-size *)
(* blocks behind one header.  Every change writes a block and then the     *)
(* header, so a crash can separate the two.  Its users are the replica     *)
(* (Replica.Poll adds a batch of updates, Replica.SetCursor starts over),  *)
(* gokpropd (openReplicaUlog after a restart) and gokproplog -R, another   *)
(* process that resets the same file.                                      *)
(*                                                                         *)
(* The master's logs are numbered from 1; the number of the log an update  *)
(* comes from doubles as its timestamp.                                    *)
(***************************************************************************)
EXTENDS Integers, Sequences

CONSTANTS
    Capacity,       \* blocks in the file
    MaxSerial,      \* bound on serials
    MaxLog          \* bound on the number of logs the master goes through

VARIABLES
    blocks,     \* the ring, by slot
    disk,       \* the header in the file
    hdr,        \* the header in the replica's memory
    cursor,     \* Replica.Cursor
    log,        \* the log the master is on
    newest,     \* the highest serial of that log the master has sent
    todo,       \* serials of the batch that Replica.Poll still has to add
    step,       \* what the replica's next write is
    tool,       \* what gokproplog's next write is
    given,      \* history: cursors of the updates and markers handed to the log
    added,      \* history: serials added since the marker of hdr was set
    intact      \* history: nothing was cut off or written over since then

ulogVars == <<blocks, disk, hdr, cursor, log, newest, todo, step, tool,
              given, added, intact>>

ZeroTime == 0
Serials == 1..MaxSerial
Cursor == [LastSno : 0..MaxSerial, LastTime : 0..MaxLog]
ZeroCursor == [LastSno |-> 0, LastTime |-> ZeroTime]
At(sno) == [LastSno |-> sno, LastTime |-> IF sno = 0 THEN ZeroTime ELSE log]

Header == [FirstSno : Serials, LastSno : Serials, LastTime : 0..MaxLog,
           NumEntries : Nat]

(* A block holds a serial and, unless it is a dummy, an update.  A block   *)
(* that was never written lacks the magic number and reads as a dummy.     *)
Block == [serial : 0..MaxSerial, dummy : BOOLEAN]
Dummy(serial) == [serial |-> serial, dummy |-> TRUE]
Filled(serial) == [serial |-> serial, dummy |-> FALSE]

slot(serial) == (serial - 1) % Capacity

(* readEntry skips a block that holds another serial.                      *)
Readable(serial) == blocks[slot(serial)] = Filled(serial)

Marker(c) ==
    [FirstSno |-> c.LastSno, LastSno |-> c.LastSno, LastTime |-> c.LastTime,
     NumEntries |-> 1]
ResetHeader == Marker([LastSno |-> 1, LastTime |-> ZeroTime])

(* SetCursor marks serial 1, without a timestamp, for the zero cursor, and *)
(* openReplicaUlog reads that marker back as the zero cursor.              *)
CursorHeader(c) == IF c.LastSno = 0 THEN ResetHeader ELSE Marker(c)
HeaderCursor(h) ==
    IF h.LastSno = 1 /\ h.LastTime = ZeroTime THEN ZeroCursor
    ELSE [LastSno |-> h.LastSno, LastTime |-> h.LastTime]

-----------------------------------------------------------------------------
(* Create, up to its return.                                               *)
Init ==
    /\ blocks = [i \in 0..(Capacity - 1) |-> Dummy(IF i = 0 THEN 1 ELSE 0)]
    /\ disk = ResetHeader
    /\ hdr = ResetHeader
    /\ cursor = ZeroCursor
    /\ log = 1
    /\ newest = 0
    /\ todo = << >>
    /\ step = "idle"
    /\ tool = "idle"
    /\ given = {ZeroCursor}
    /\ added = {}
    /\ intact = TRUE

Idle == step = "idle" /\ todo = << >>

(* The master starts a new log, whose serials begin again.                 *)
NewLog ==
    /\ Idle
    /\ log < MaxLog
    /\ log' = log + 1
    /\ newest' = 0
    /\ UNCHANGED <<blocks, disk, hdr, cursor, todo, step, tool, given, added, intact>>

(* A poll brings the updates after the cursor, up to serial e.  The master *)
(* answers a cursor of its current log or the zero cursor; the latter can  *)
(* bring serials below those of an earlier log.                            *)
Receive(e) ==
    /\ Idle
    /\ cursor = ZeroCursor \/ cursor.LastTime = log
    /\ e > cursor.LastSno /\ e >= newest
    /\ newest' = e
    /\ todo' = [i \in 1..(e - cursor.LastSno) |-> cursor.LastSno + i]
    /\ intact' = (intact /\ hdr.LastTime \in {ZeroTime, log})
    /\ UNCHANGED <<blocks, disk, hdr, cursor, log, step, tool, given, added>>

(* The header after serial was added: the window slides when it is full.   *)
(* A serial below LastSno leaves the header alone.                         *)
Advance(h, serial) ==
    IF serial < h.LastSno THEN h
    ELSE [FirstSno   |-> IF serial - h.FirstSno >= Capacity
                         THEN serial - Capacity + 1 ELSE h.FirstSno,
          LastSno    |-> serial,
          LastTime   |-> log,
          NumEntries |-> IF serial > h.LastSno /\ h.NumEntries < Capacity
                         THEN h.NumEntries + 1 ELSE h.NumEntries]

(* AddUpdate, up to the write of the header.                               *)
AddUpdate ==
    /\ step = "idle" /\ todo # << >>
    /\ LET serial == Head(todo)
       IN  /\ blocks' = [blocks EXCEPT ![slot(serial)] = Filled(serial)]
           /\ hdr' = Advance(hdr, serial)
           /\ given' = given \cup {At(serial)}
           /\ added' = added \cup {serial}
    /\ step' = "add"
    /\ UNCHANGED <<disk, cursor, log, newest, todo, tool, intact>>

(* AddUpdate's syncHeader.  After the last update of a batch, Poll takes   *)
(* the master's LastEntry as its cursor, which may be older than the batch.*)
SyncAdded ==
    /\ step = "add"
    /\ disk' = hdr
    /\ step' = "idle"
    /\ todo' = Tail(todo)
    /\ IF Len(todo) = 1
       THEN \E sno \in cursor.LastSno..Head(todo) : cursor' = At(sno)
       ELSE UNCHANGED cursor
    /\ UNCHANGED <<blocks, hdr, log, newest, tool, given, added, intact>>

(* Mutant: the marker is written to the slot of the serial that follows. *)
SetCursorOffByOne(sno) ==
    /\ Idle
    /\ sno >= newest
    /\ newest' = sno
    /\ cursor' = At(sno)
    /\ hdr' = CursorHeader(At(sno))
    /\ blocks' = [blocks EXCEPT ![slot(hdr'.LastSno + 1)] = Dummy(hdr'.LastSno)]
    /\ given' = given \cup {At(sno)}
    /\ added' = {}
    /\ step' = "cursor"
    /\ UNCHANGED <<disk, log, todo, tool, intact>>

(* Replica.SetCursor after a full resync, up to the write of the header.   *)
SetCursor(sno) ==
    /\ Idle
    /\ sno >= newest
    /\ newest' = sno
    /\ cursor' = At(sno)
    /\ hdr' = CursorHeader(At(sno))
    /\ blocks' = [blocks EXCEPT ![slot(hdr'.LastSno)] = Dummy(hdr'.LastSno)]
    /\ given' = given \cup {At(sno)}
    /\ added' = {}
    /\ step' = "cursor"
    /\ UNCHANGED <<disk, log, todo, tool, intact>>

SyncCursor ==
    /\ step = "cursor"
    /\ disk' = hdr
    /\ step' = "idle"
    /\ intact' = TRUE
    /\ UNCHANGED <<blocks, hdr, cursor, log, newest, todo, tool, given, added>>

(* A crash and a restart: openReplicaUlog reads the header of the file.    *)
Restart ==
    /\ hdr' = disk
    /\ cursor' = HeaderCursor(disk)
    /\ todo' = << >>
    /\ step' = "idle"
    /\ intact' = (intact /\ Idle /\ disk = hdr)
    /\ UNCHANGED <<blocks, disk, log, newest, tool, given, added>>

(* gokproplog -R: Reset in another process, with no lock between the two.  *)
ToolReset ==
    /\ tool = "idle"
    /\ blocks' = [blocks EXCEPT ![slot(1)] = Dummy(1)]
    /\ tool' = "reset"
    /\ intact' = FALSE
    /\ UNCHANGED <<disk, hdr, cursor, log, newest, todo, step, given, added>>

ToolSync ==
    /\ tool = "reset"
    /\ disk' = ResetHeader
    /\ tool' = "idle"
    /\ intact' = FALSE
    /\ UNCHANGED <<blocks, hdr, cursor, log, newest, todo, step, given, added>>

Next ==
    \/ NewLog
    \/ \E e \in Serials : Receive(e)
    \/ AddUpdate \/ SyncAdded
    \/ \E sno \in 0..MaxSerial : SetCursor(sno)
    \/ SyncCursor
    \/ Restart
    \/ ToolReset \/ ToolSync

Spec == Init /\ [][Next]_ulogVars

-----------------------------------------------------------------------------
(* The types of the variables: the header, cached and on disk, never holds *)
(* the zero serial, which Create, Reset and SetCursor replace by 1.        *)
TypeOK ==
    /\ blocks \in [0..(Capacity - 1) -> Block]
    /\ disk \in Header /\ hdr \in Header
    /\ cursor \in Cursor
    /\ log \in 1..MaxLog
    /\ newest \in 0..MaxSerial
    /\ todo \in Seq(Serials)
    /\ step \in {"idle", "add", "cursor"}
    /\ tool \in {"idle", "reset"}
    /\ given \subseteq Cursor
    /\ added \subseteq Serials
    /\ intact \in BOOLEAN

(* The cursor a restart resumes from names one update (or marker) that was *)
(* handed to the log: serial and timestamp always belong together, after a *)
(* crash between the two writes, when serials are sent again, when a new   *)
(* log of the master brings lower serials, and when gokproplog resets the  *)
(* file under the replica.                                                 *)
CursorNamesUpdate ==
    HeaderCursor(disk) \in given

(* A header describes a window of consecutive serials that fits the ring,  *)
(* and counts it.                                                          *)
WindowFits ==
    \A h \in {disk, hdr} :
        /\ h.FirstSno <= h.LastSno
        /\ h.NumEntries = h.LastSno - h.FirstSno + 1
        /\ h.NumEntries <= Capacity

(* Between batches, every update of the window that was added since the    *)
(* marker can be read back, however often serials were sent again and the  *)
(* ring wrapped, unless a crash or gokproplog interfered.                  *)
RetainedReadable ==
    Idle /\ intact =>
        \A serial \in hdr.FirstSno..hdr.LastSno :
            IF serial \in added THEN Readable(serial) ELSE ~Readable(serial)
=============================================================================
