------------------------------ MODULE Gokpropd ------------------------------
(***************************************************************************)
(* The incremental replica daemon, cmd/gokpropd/incremental.go: the main   *)
(* loop that polls the master and asks for full resyncs, and the kprop     *)
(* connections that load dumps, one goroutine each, beside it.  They share *)
(* Replica.Database and the flag pending under state.mu, a channel of one  *)
(* result, and the files.  Polling is Replica.tla, of which this module    *)
(* replaces the caller.                                                    *)
(*                                                                         *)
(* A stray is a dump that does not answer the request the daemon waits     *)
(* for: an operator ran gokprop, the answer to the request was lost, or    *)
(* the daemon gave up waiting before the dump was loaded.                  *)
(***************************************************************************)
EXTENDS Integers, Sequences, FiniteSetsExt

CONSTANTS Principals, Stamps, Capacities, MaxSerial, MaxUpdates,
    Transfers,      \* kprop connections that may be open together
    MaxFaults,      \* bound on failed calls
    MaxStrays,      \* bound on stray dumps
    MaxRestarts     \* bound on restarts of the daemon

VARIABLES capacity, entries, last, lastTime, reset, hist, origins
VARIABLES pc, reply, added, db, cursor, stored, ulog, faults

VARIABLES
    pending,    \* incrementalState.pending
    channel,    \* incrementalState.fullResync, of capacity 1
    asked,      \* the master was asked for a dump and has not sent it
    loads,      \* the open kprop connections
    file,       \* the dump in options.ReplicaFile
    sealed,     \* the principals of Replica.Database whose keys are still encrypted
    strays,
    restarts

R == INSTANCE Replica

masterVars == <<capacity, entries, last, lastTime, reset, hist, origins>>
replicaVars == <<pc, reply, added, db, cursor, stored, ulog, faults>>
daemonVars == <<pending, channel, asked, loads, file, sealed, strays, restarts>>
vars == <<masterVars, replicaVars, daemonVars>>

EmptyDB == [p \in Principals |-> 0]
NoLoad == [phase |-> "none", dump |-> EmptyDB]
Open == {t \in Transfers : loads[t].phase # "none"}

Init ==
    /\ R!Init
    /\ pending = FALSE
    /\ channel = << >>
    /\ asked = FALSE
    /\ loads = [t \in Transfers |-> NoLoad]
    /\ file = EmptyDB
    /\ sealed = {}
    /\ strays = 0
    /\ restarts = 0

Master == R!Master /\ UNCHANGED daemonVars

-----------------------------------------------------------------------------
(* The main loop.  It holds state.mu for the whole of Poll.                *)
Polling == pc \in {"entries", "reply", "persist", "add"}

(* Poll.  apply decrypts the keys of the updates it takes with the master  *)
(* key of the stash.                                                       *)
Updated(k) == {reply.updates[i].update : i \in 1..k}

Poll ==
    \/ /\ \/ R!dispatchLast \/ R!dispatchEntries
          \/ R!pollAddUpdate \/ R!pollFinish \/ R!pollNil
       /\ UNCHANGED daemonVars
    \/ /\ R!pollApply
       /\ sealed' = sealed \ Updated(Len(reply.updates))
       /\ UNCHANGED <<pending, channel, asked, loads, file, strays, restarts>>
    \/ sealed = {} /\ R!pollPersist /\ UNCHANGED daemonVars

(* Persist encrypts every key with the master key.  One that is encrypted  *)
(* already has not the length of its enctype, and is refused.              *)
persistRefused ==
    /\ pc = "persist" /\ sealed # {}
    /\ pc' = "idle"
    /\ reply' = R!NoReply
    /\ added' = 0
    /\ UNCHANGED <<masterVars, db, cursor, stored, ulog, faults, daemonVars>>

(* Poll returns an error: redial, sleep, and poll again.                   *)
PollFails ==
    /\ Polling
    /\ \E k \in 0..R!Applicable : R!FailAfter(k) /\ sealed' = sealed \ Updated(k)
    /\ UNCHANGED <<pending, channel, asked, loads, file, strays, restarts>>

(* Mutant: the status is taken for UpdateNil. *)
resyncNeededIgnored ==
    /\ pc = "reply" /\ reply.status = R!Log!StatusFullResync
    /\ pc' = "idle"
    /\ reply' = R!NoReply
    /\ UNCHANGED <<masterVars, added, db, cursor, stored, ulog, faults, daemonVars>>

(* UpdateFullResyncNeeded: the dump that will arrive is announced...       *)
resyncNeeded ==
    /\ pc = "reply" /\ reply.status = R!Log!StatusFullResync
    /\ pending' = TRUE
    /\ pc' = "drain"
    /\ reply' = R!NoReply
    /\ UNCHANGED <<masterVars, added, db, cursor, stored, ulog, faults,
                   channel, asked, loads, file, sealed, strays, restarts>>

(* ...and the result of an earlier one dropped.                            *)
drain ==
    /\ pc = "drain"
    /\ channel' = << >>
    /\ pc' = "ask"
    /\ UNCHANGED <<masterVars, reply, added, db, cursor, stored, ulog, faults,
                   pending, asked, loads, file, sealed, strays, restarts>>

(* The answer to requestFullResync holds the master's cursor: pendingLast. *)
requestFullResync ==
    /\ pc = "ask"
    /\ reply' = [R!NoReply EXCEPT !.last = R!Log!Last]
    /\ asked' = TRUE
    /\ pc' = "wait"
    /\ UNCHANGED <<masterVars, added, db, cursor, stored, ulog, faults,
                   pending, channel, loads, file, sealed, strays, restarts>>

(* The request fails or the master is busy: try again later.  The request  *)
(* may have reached the master.                                            *)
requestFails ==
    /\ pc = "ask" /\ faults < MaxFaults
    /\ faults' = faults + 1
    /\ \/ UNCHANGED <<asked, strays>>
       \/ strays < MaxStrays /\ strays' = strays + 1 /\ asked' = TRUE
    /\ pending' = FALSE
    /\ pc' = "idle"
    /\ UNCHANGED <<masterVars, reply, added, db, cursor, stored, ulog,
                   channel, loads, file, sealed, restarts>>

(* The dump was loaded: Replica.SetCursor(pendingLast).                    *)
resyncDone ==
    /\ pc = "wait" /\ channel = <<"ok">>
    /\ channel' = << >>
    /\ pending' = FALSE
    /\ cursor' = reply.last
    /\ ulog' = reply.last
    /\ reply' = R!NoReply
    /\ pc' = "idle"
    /\ UNCHANGED <<masterVars, added, db, stored, faults,
                   asked, loads, file, sealed, strays, restarts>>

(* Mutant: the dump stays announced. *)
resyncTimeoutKeepsPending ==
    /\ pc = "wait"
    /\ IF asked \/ Open # {} \/ channel # << >>
       THEN strays < MaxStrays /\ strays' = strays + 1
       ELSE UNCHANGED strays
    /\ pc' = "idle"
    /\ reply' = R!NoReply
    /\ UNCHANGED <<masterVars, added, db, cursor, stored, ulog, faults,
                   pending, channel, asked, loads, file, sealed, restarts>>

(* resyncTimeout passes.  A dump still under way becomes a stray.          *)
resyncTimeout ==
    /\ pc = "wait"
    /\ IF asked \/ Open # {} \/ channel # << >>
       THEN strays < MaxStrays /\ strays' = strays + 1
       ELSE UNCHANGED strays
    /\ pending' = FALSE
    /\ pc' = "idle"
    /\ reply' = R!NoReply
    /\ UNCHANGED <<masterVars, added, db, cursor, stored, ulog, faults,
                   channel, asked, loads, file, sealed, restarts>>

(* The loop returns, and the process ends with its connections: the        *)
(* transfer failed, the master refused, or SetCursor could not be written. *)
exit ==
    /\ \/ pc = "wait" /\ channel = <<"error">> /\ UNCHANGED faults
       \/ /\ pc \in {"entries", "ask"} \/ (pc = "wait" /\ channel = <<"ok">>)
          /\ faults < MaxFaults /\ faults' = faults + 1
    /\ pc' = "exit"
    /\ pending' = FALSE
    /\ channel' = << >>
    /\ loads' = [t \in Transfers |-> NoLoad]
    /\ reply' = R!NoReply
    /\ UNCHANGED <<masterVars, added, db, cursor, stored, ulog,
                   asked, file, sealed, strays, restarts>>

Main == Poll \/ persistRefused \/ resyncNeeded \/ drain \/ requestFullResync \/ resyncDone \/ resyncTimeout

-----------------------------------------------------------------------------
(* The kprop connections.                                                  *)
Move(t, from, to) ==
    /\ loads[t].phase = from
    /\ loads' = [loads EXCEPT ![t].phase = to]

(* The master, or an operator, dumps the database and sends it.            *)
SendDump(t) ==
    /\ pc # "exit" /\ loads[t].phase = "none"
    /\ IF asked THEN asked' = FALSE /\ UNCHANGED strays
       ELSE strays < MaxStrays /\ strays' = strays + 1 /\ UNCHANGED asked
    /\ loads' = [loads EXCEPT ![t] = [phase |-> "received", dump |-> R!MasterDB]]
    /\ UNCHANGED <<masterVars, replicaVars, pending, channel, file, sealed, restarts>>

(* The dump that was asked for never arrives.                              *)
DumpLost ==
    /\ asked /\ faults < MaxFaults
    /\ asked' = FALSE
    /\ faults' = faults + 1
    /\ UNCHANGED <<masterVars, pc, reply, added, db, cursor, stored, ulog,
                   pending, channel, loads, file, sealed, strays, restarts>>

(* loadReceivedDump: ReplicaFile, then the database.                       *)
WriteFile(t) ==
    /\ Move(t, "received", "file")
    /\ file' = loads[t].dump
    /\ UNCHANGED <<masterVars, replicaVars, pending, channel, asked, sealed, strays, restarts>>

WriteDatabase(t) ==
    /\ Move(t, "file", "database")
    /\ stored' = loads[t].dump
    /\ UNCHANGED <<masterVars, pc, reply, added, db, cursor, ulog, faults,
                   pending, channel, asked, file, sealed, strays, restarts>>

(* Load parses the file it finds, which may be that of another connection. *)
ReadFile(t) ==
    /\ loads[t].phase = "database"
    /\ loads' = [loads EXCEPT ![t] = [phase |-> "read", dump |-> file]]
    /\ UNCHANGED <<masterVars, replicaVars,
                   pending, channel, asked, file, sealed, strays, restarts>>

(* Under state.mu: the database is replaced, with the keys as they stand   *)
(* in the dump (mitdump.Parse decrypts none), and pending read.            *)
Install(t) ==
    /\ ~Polling
    /\ Move(t, "read", IF pending THEN "signal" ELSE "none")
    /\ db' = loads[t].dump
    /\ sealed' = Principals
    /\ UNCHANGED <<masterVars, pc, reply, added, cursor, stored, ulog, faults,
                   pending, channel, asked, file, strays, restarts>>

(* The send blocks while the channel is full.                              *)
Signal(t) ==
    /\ channel = << >>
    /\ Move(t, "signal", "none")
    /\ channel' = <<"ok">>
    /\ UNCHANGED <<masterVars, replicaVars, pending, asked, file, sealed, strays, restarts>>

(* A connection fails after authentication.  The error goes to the channel *)
(* of a waiting loop, unless a result is there already.                    *)
TransferFails(t) ==
    /\ faults < MaxFaults /\ ~Polling
    /\ loads[t].phase \in {"received", "file", "database"}
    /\ loads' = [loads EXCEPT ![t] = NoLoad]
    /\ channel' = IF pending /\ channel = << >> THEN <<"error">> ELSE channel
    /\ faults' = faults + 1
    /\ UNCHANGED <<masterVars, pc, reply, added, db, cursor, stored, ulog,
                   pending, asked, file, sealed, strays, restarts>>

Load(t) ==
    \/ WriteFile(t) \/ WriteDatabase(t) \/ ReadFile(t) \/ Install(t) \/ Signal(t)

-----------------------------------------------------------------------------
(* The daemon starts again: an empty kdb.NewDatabase, and the cursor of    *)
(* the Ulog file.                                                          *)
Restart ==
    /\ restarts < MaxRestarts
    /\ restarts' = restarts + 1
    /\ db' = EmptyDB
    /\ cursor' = ulog
    /\ pc' = "idle"
    /\ reply' = R!NoReply
    /\ added' = 0
    /\ pending' = FALSE
    /\ channel' = << >>
    /\ loads' = [t \in Transfers |-> NoLoad]
    /\ sealed' = {}
    /\ UNCHANGED <<masterVars, stored, ulog, faults, asked, file, strays>>

Next ==
    \/ Master \/ Main \/ PollFails \/ requestFails \/ exit
    \/ \E t \in Transfers : SendDump(t) \/ Load(t) \/ TransferFails(t)
    \/ DumpLost \/ Restart

(* The loop and the connections are goroutines the runtime keeps running;  *)
(* the timer of resyncTimeout fires.  The master sends the dumps it was    *)
(* asked for, except for MaxFaults of them.                                *)
Fairness ==
    /\ WF_vars(Main)
    /\ WF_vars(exit)
    /\ WF_vars(asked /\ \E t \in Transfers : SendDump(t))
    /\ \A t \in Transfers : WF_vars(Load(t))

Spec == Init /\ [][Next]_vars /\ Fairness

-----------------------------------------------------------------------------
Phases == {"none", "received", "file", "database", "read", "signal"}

(* The types of the variables: the channel fullResync holds at most one    *)
(* result, and the parts inherited from Replica keep their types.          *)
TypeOK ==
    /\ R!Log!TypeOK
    /\ pc \in {"idle", "entries", "reply", "persist", "add",
               "drain", "ask", "wait", "exit"}
    /\ reply.last \in R!Log!Cursor
    /\ added \in 0..Len(reply.updates)
    /\ {db, stored, file} \subseteq R!Databases
    /\ {cursor, ulog} \subseteq R!Log!Cursor
    /\ channel \in {<< >>, <<"ok">>, <<"error">>}
    /\ loads \in [Transfers -> [phase : Phases, dump : R!Databases]]
    /\ sealed \subseteq Principals
    /\ pending \in BOOLEAN /\ asked \in BOOLEAN
    /\ faults \in 0..MaxFaults /\ strays \in 0..MaxStrays
    /\ restarts \in 0..MaxRestarts

(* A dump is announced exactly while the loop asks and waits for it:       *)
(* every way out of a resync withdraws the announcement, or the next       *)
(* connection would block on a channel nobody reads.                       *)
PendingWhileResyncing == pending <=> pc \in {"drain", "ask", "wait"}

(* Every dump loaded so far answered the request the loop waited for, and  *)
(* the daemon has run since.                                               *)
Undisturbed == strays = 0 /\ restarts = 0

(* No update is lost: whenever the loop polls, its database and its cursor *)
(* belong together (Replica!Resumes), and those on disk do at every        *)
(* moment, so that a crash loses nothing, until a stray dump or a restart. *)
(* A dump is announced exactly while the loop asks and waits for it.       *)
Resumable ==
    /\ TypeOK /\ PendingWhileResyncing
    /\ Undisturbed => /\ pc = "idle" => R!Resumes(db, cursor)
                      /\ R!Resumes(stored, ulog)

(* "Seed the database and cursor from a dump before polling"               *)
(* (krb5/iprop/rpc.go:831): a restarted daemon polls with a cursor that    *)
(* belongs to its database.                                                *)
SeededBeforePolling == strays = 0 /\ pc = "idle" => R!Resumes(db, cursor)

(* The loop does not hang in a resync, whatever happens to the dump: it    *)
(* polls again and again, or the daemon ends.  And when the master's       *)
(* database stops changing, the daemon's ends up equal to it, and so does  *)
(* the one on disk unless keys of a dump keep Persist from writing it; or  *)
(* a stray dump or a restart came between.                                 *)
Returned == pc \in {"idle", "exit"}
UpToDate ==
    Undisturbed /\ pc # "exit" => db = R!MasterDB /\ (sealed = {} => stored = db)
Converges == []<>Returned /\ <>[]UpToDate

(* "gokpropd -A implements the MIT kpropd incremental polling loop"        *)
(* (docs/test-matrix.md:824): the updates that are polled end up in the    *)
(* replica's database on disk, also after a full resync.                   *)
UpdatesPersisted == <>[](Undisturbed /\ pc # "exit" => stored = R!MasterDB)
=============================================================================
