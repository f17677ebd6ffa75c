------------------------------ MODULE Replica ------------------------------
(***************************************************************************)
(* Incremental propagation end to end: the master's update log             *)
(* (UpdateLog), the server's dispatch and the replica's Poll and SetCursor *)
(* of krb5/iprop/rpc.go, and the database and cursor the replica keeps on  *)
(* disk.  dispatch reads the log twice, Poll takes effect in several       *)
(* steps, any step may fail, and the replica may crash between any two.    *)
(*                                                                         *)
(* The caller of Replica is modelled as its comment asks: "Seed the        *)
(* database and cursor from a dump before polling" (rpc.go:831).  The      *)
(* master keeps one log: one that was replaced, or has wrapped, answers a  *)
(* zero cursor as if the replica lacked none of the updates before it.     *)
(*                                                                         *)
(* A database is abstracted to the position in the update history of the   *)
(* last change it has of each principal.                                   *)
(***************************************************************************)
EXTENDS Integers, Sequences, FiniteSetsExt

CONSTANTS Principals, Stamps, Capacities, MaxSerial,
    MaxUpdates,     \* bound on the updates the master logs
    MaxFaults       \* bound on failed calls and crashes

VARIABLES capacity, entries, last, lastTime, reset, hist, origins

VARIABLES
    pc,         \* where the replica (and the call it waits for) stands
    reply,      \* the result of GetUpdates, or of FullResync
    added,      \* how many updates of the reply AddUpdate has recorded
    db,         \* Replica.Database
    cursor,     \* Replica.Cursor
    stored,     \* the database on disk
    ulog,       \* the cursor in the header of the Ulog file
    faults

Log == INSTANCE UpdateLog WITH Updates <- Principals

masterVars == <<capacity, entries, last, lastTime, reset, hist, origins>>
replicaVars == <<pc, reply, added, db, cursor, stored, ulog, faults>>
vars == <<masterVars, replicaVars>>

NoReply == [status |-> Log!StatusNil, updates |-> << >>, last |-> Log!ZeroCursor]

(* The position in hist of the last change of p among the first n.         *)
Latest(p, n) == Max({0} \cup {i \in 1..n : hist[i].update = p})
MasterDB == [p \in Principals |-> Latest(p, Len(hist))]

CursorOf(entry) == [sno |-> entry.serial, time |-> entry.time]
PositionOf(entry) == CHOOSE i \in DOMAIN hist : CursorOf(hist[i]) = CursorOf(entry)

(* Mutant: an update does not replace an earlier one of the same batch. *)
applyFirstWins(d, updates) ==
    [p \in Principals |->
        LET mine == {i \in DOMAIN updates : updates[i].update = p}
        IN  IF mine = {} THEN d[p] ELSE PositionOf(updates[Min(mine)])]

(* Replica.apply: the updates in their order, so the last one wins.        *)
apply(d, updates) ==
    [p \in Principals |->
        LET mine == {i \in DOMAIN updates : updates[i].update = p}
        IN  IF mine = {} THEN d[p] ELSE PositionOf(updates[Max(mine)])]

-----------------------------------------------------------------------------
Init ==
    /\ Log!Init
    /\ pc = "idle"
    /\ reply = NoReply
    /\ added = 0
    /\ db = [p \in Principals |-> 0]
    /\ cursor = Log!ZeroCursor
    /\ stored = db
    /\ ulog = Log!ZeroCursor
    /\ faults = 0

(* The master's database changes, or its log is reconfigured.              *)
Master ==
    /\ \/ /\ Len(hist) < MaxUpdates
          /\ \E p \in Principals, t \in Stamps : Log!append(p, t)
       \/ \E c \in Capacities : Log!SetCapacity(c)
       \/ Log!Reset
    /\ UNCHANGED replicaVars

(* dispatch, ProcGetUpdates: the log's cursor is read first, its entries   *)
(* under a second lock.                                                    *)
dispatchLast ==
    /\ pc = "idle"
    /\ reply' = [NoReply EXCEPT !.last = Log!Last]
    /\ pc' = "entries"
    /\ UNCHANGED <<masterVars, added, db, cursor, stored, ulog, faults>>

dispatchEntries ==
    /\ pc = "entries"
    /\ LET r == Log!Entries(cursor)
       IN  reply' = [reply EXCEPT !.status = r.status, !.updates = r.updates]
    /\ pc' = "reply"
    /\ UNCHANGED <<masterVars, added, db, cursor, stored, ulog, faults>>

(* Poll, on a reply with UpdateOK: the updates are applied in memory.      *)
pollApply ==
    /\ pc = "reply" /\ reply.status = Log!StatusOK
    /\ db' = apply(db, reply.updates)
    /\ pc' = "persist"
    /\ UNCHANGED <<masterVars, reply, added, cursor, stored, ulog, faults>>

(* Mutant: the updates are recorded in the Ulog before they are on disk. *)
pollPersistLate ==
    /\ pc = "persist"
    /\ pc' = "add"
    /\ added' = 0
    /\ UNCHANGED <<masterVars, reply, db, cursor, stored, ulog, faults>>

(* Persist writes the whole database, before Ulog is advanced.             *)
pollPersist ==
    /\ pc = "persist"
    /\ stored' = db
    /\ pc' = "add"
    /\ added' = 0
    /\ UNCHANGED <<masterVars, reply, db, cursor, ulog, faults>>

(* AddUpdate for one update.  An update below the header's serial leaves   *)
(* the header alone.                                                       *)
pollAddUpdate ==
    /\ pc = "add" /\ added < Len(reply.updates)
    /\ LET c == CursorOf(reply.updates[added + 1])
       IN  ulog' = IF c.sno >= ulog.sno THEN c ELSE ulog
    /\ added' = added + 1
    /\ UNCHANGED <<masterVars, pc, reply, db, cursor, stored, faults>>

pollFinish ==
    /\ pc = "add" /\ added = Len(reply.updates)
    /\ cursor' = reply.last
    /\ pc' = "idle"
    /\ reply' = NoReply
    /\ added' = 0
    /\ UNCHANGED <<masterVars, db, stored, ulog, faults>>

(* Poll returns the status when there is nothing to apply.                 *)
pollNil ==
    /\ pc = "reply" /\ reply.status = Log!StatusNil
    /\ pc' = "idle"
    /\ reply' = NoReply
    /\ UNCHANGED <<masterVars, added, db, cursor, stored, ulog, faults>>

(* A full resync: the master's cursor, then a dump of its database at some *)
(* later time, then SetCursor.                                             *)
fullResync ==
    /\ pc = "reply" /\ reply.status = Log!StatusFullResync
    /\ reply' = [NoReply EXCEPT !.last = Log!Last]
    /\ pc' = "dump"
    /\ UNCHANGED <<masterVars, added, db, cursor, stored, ulog, faults>>

LoadDump ==
    /\ pc = "dump"
    /\ db' = MasterDB
    /\ stored' = MasterDB
    /\ pc' = "seed"
    /\ UNCHANGED <<masterVars, reply, added, cursor, ulog, faults>>

SetCursor ==
    /\ pc = "seed"
    /\ cursor' = reply.last
    /\ ulog' = reply.last
    /\ pc' = "idle"
    /\ reply' = NoReply
    /\ UNCHANGED <<masterVars, added, db, stored, faults>>

-----------------------------------------------------------------------------
(* A call fails or is lost, an update cannot be converted (the k before it *)
(* stay applied), Persist fails, or AddUpdate does: Poll returns an error  *)
(* and the cursor stays.                                                   *)
FailAfter(k) ==
    /\ faults < MaxFaults
    /\ pc # "idle"
    /\ db' = apply(db, SubSeq(reply.updates, 1, k))
    /\ pc' = "idle"
    /\ reply' = NoReply
    /\ added' = 0
    /\ faults' = faults + 1
    /\ UNCHANGED <<masterVars, cursor, stored, ulog>>

Applicable == IF pc = "reply" THEN Max({0, Len(reply.updates) - 1}) ELSE 0
Fail == \E k \in 0..Applicable : FailAfter(k)

(* The replica crashes and starts again from what is on disk.              *)
Restart ==
    /\ faults < MaxFaults
    /\ db' = stored
    /\ cursor' = ulog
    /\ pc' = "idle"
    /\ reply' = NoReply
    /\ added' = 0
    /\ faults' = faults + 1
    /\ UNCHANGED <<masterVars, stored, ulog>>

Poll ==
    \/ dispatchLast \/ dispatchEntries
    \/ pollApply \/ pollPersist \/ pollAddUpdate \/ pollFinish \/ pollNil
    \/ fullResync \/ LoadDump \/ SetCursor

Next == Master \/ Poll \/ Fail \/ Restart

Spec == Init /\ [][Next]_vars

-----------------------------------------------------------------------------
Databases == [Principals -> 0..MaxUpdates]

(* The types of the variables: the progress of a batch is never beyond the *)
(* batch that Poll is working on.                                          *)
TypeOK ==
    /\ Log!TypeOK
    /\ pc \in {"idle", "entries", "reply", "persist", "add", "dump", "seed"}
    /\ reply.status \in {Log!StatusOK, Log!StatusFullResync, Log!StatusNil}
    /\ reply.last \in Log!Cursor
    /\ added \in 0..Len(reply.updates)
    /\ db \in Databases /\ stored \in Databases
    /\ cursor \in Log!Cursor /\ ulog \in Log!Cursor
    /\ faults \in 0..MaxFaults

(* A database and a cursor that belong together: whatever the master's log *)
(* would answer now either asks for a full resync or brings the database   *)
(* to the state of the master's.                                           *)
Resumes(d, c) ==
    LET r == Log!Entries(c)
    IN  r.status = Log!StatusFullResync \/ apply(d, r.updates) = MasterDB

(* No update is lost: at the start of every poll, Replica.Database and     *)
(* Replica.Cursor belong together, although dispatch reads the log twice,  *)
(* replies repeat updates, and polls fail half way.                        *)
NoUpdateLost == pc = "idle" => Resumes(db, cursor)

(* The same of the database and the Ulog cursor on disk, at every moment:  *)
(* a crash at any point resumes without losing an update.                  *)
CrashSafe == Resumes(stored, ulog)

(* The database on disk never returns to an older version of a principal.  *)
NeverRegresses ==
    [][\A p \in Principals : stored'[p] >= stored[p]]_vars
=============================================================================
