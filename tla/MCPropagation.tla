--------------------------- MODULE MCPropagation ---------------------------
(***************************************************************************)
(* The machines an update passes through on its way to a replica, in one   *)
(* model: the master's update log (UpdateLog), the replica that polls it   *)
(* (Replica, which shares the log's variables), the daemon around it       *)
(* (Gokpropd, which shares those of both), the replica's log file (Ulog)   *)
(* and a full transfer (Kprop).  A behaviour is one of the machine that    *)
(* part names; the variables of the others stay in an initial state.       *)
(***************************************************************************)
EXTENDS UpdateLog

CONSTANT MaxUpdates                                                    \* UpdateLog
CONSTANTS ReplicaStamps, ReplicaCapacities, ReplicaUpdates, MaxFaults   \* Replica
CONSTANTS DaemonUpdates, DaemonFaults, Transfers, MaxStrays, MaxRestarts \* Gokpropd
CONSTANTS RingSize, RingSerials, MaxLog                                \* Ulog
CONSTANTS Sizes, BlockSize, MaxWord, SeqModulus, FirstSeqs, Versions, Version, Buffer

VARIABLES part
VARIABLES pc, reply, added, db, cursor, stored, ulog, faults
VARIABLES pending, channel, asked, loads, file, sealed, strays, restarts
VARIABLES blocks, disk, hdr, position, log, newest, todo, step, tool, given, recorded, intact
VARIABLES size, version, client, seq, sent, serverSeen, server, peerSeq, expect, received,
          serverSeq, toServer, toClient, loaded, faulty

Polls == INSTANCE Replica WITH
            Principals <- Updates, Stamps <- ReplicaStamps, Capacities <- ReplicaCapacities,
            MaxUpdates <- ReplicaUpdates
Daemon == INSTANCE Gokpropd WITH
            Principals <- Updates, Stamps <- ReplicaStamps, Capacities <- {1},
            MaxUpdates <- DaemonUpdates, MaxFaults <- DaemonFaults
Ring == INSTANCE Ulog WITH Capacity <- RingSize, MaxSerial <- RingSerials, cursor <- position, added <- recorded
Dump == INSTANCE Kprop WITH Capacity <- Buffer, file <- received

replicaVars == <<pc, reply, added, db, cursor, stored, ulog, faults>>
daemonVars == <<pending, channel, asked, loads, file, sealed, strays, restarts>>
ringVars == <<blocks, disk, hdr, position, log, newest, todo, step, tool, given, recorded, intact>>
dumpVars == <<size, version, client, seq, sent, serverSeen, server, peerSeq, expect, received,
              serverSeq, toServer, toClient, loaded, faulty>>
propdVars == <<logVars, replicaVars, daemonVars>>
allVars == <<part, logVars, replicaVars, daemonVars, ringVars, dumpVars>>

AllInit ==
    /\ part \in {"log", "replica", "daemon", "ring", "transfer"}
    /\ Init /\ (part \notin {"log", "replica", "daemon"} => capacity = 0)
    /\ IF part = "replica" THEN Polls!Init
       ELSE /\ part = "daemon" => capacity = 1
            /\ pc = "idle" /\ reply = Polls!NoReply /\ added = 0 /\ faults = 0
            /\ db = [u \in Updates |-> 0] /\ stored = db
            /\ cursor = ZeroCursor /\ ulog = ZeroCursor
    /\ pending = FALSE /\ channel = << >> /\ asked = FALSE /\ sealed = {}
    /\ loads = [t \in Transfers |-> Daemon!NoLoad] /\ file = Daemon!EmptyDB
    /\ strays = 0 /\ restarts = 0
    /\ Ring!Init
    /\ Dump!Init
    /\ part # "transfer" => size = 0 /\ version = Version /\ seq = 0 /\ serverSeq = 0

AllNext ==
    \/ part = "log" /\ Next /\ Len(hist') <= MaxUpdates /\ UNCHANGED <<part, replicaVars, daemonVars, ringVars, dumpVars>>
    \/ part = "replica" /\ Polls!Next /\ UNCHANGED <<part, daemonVars, ringVars, dumpVars>>
    \/ part = "daemon" /\ Daemon!Next /\ UNCHANGED <<part, ringVars, dumpVars>>
    \/ part = "ring" /\ Ring!Next /\ UNCHANGED <<part, logVars, replicaVars, daemonVars, dumpVars>>
    \/ part = "transfer" /\ Dump!Next /\ UNCHANGED <<part, logVars, replicaVars, daemonVars, ringVars>>

\* The daemon's loop and connections, and both sides of a transfer, run in
\* goroutines of their own, and the master sends the dumps it is asked for,
\* but for DaemonFaults of them; the logs change only when a request comes in.
AllSpec ==
    /\ AllInit /\ [][AllNext]_allVars
    /\ WF_propdVars(part = "daemon" /\ Daemon!Main)
    /\ WF_propdVars(part = "daemon" /\ Daemon!exit)
    /\ WF_propdVars(part = "daemon" /\ asked /\ \E t \in Transfers : Daemon!SendDump(t))
    /\ \A t \in Transfers : WF_propdVars(part = "daemon" /\ Daemon!Load(t))
    /\ WF_dumpVars(part = "transfer" /\ Dump!Send)
    /\ WF_dumpVars(part = "transfer" /\ Dump!serveConn)

-----------------------------------------------------------------------------
\* The types of the variables of the five machines.
AllTypeOK ==
    /\ part = "log" => TypeOK
    /\ part = "replica" => Polls!TypeOK
    /\ part = "daemon" => Daemon!TypeOK
    /\ part = "ring" => Ring!TypeOK
    /\ part = "transfer" => Dump!TypeOK

\* Replica: at the start of every poll, and on disk at every moment, database
\* and cursor belong together: neither a failed poll nor a crash loses an
\* update.
ReplicaResumes == part = "replica" => Polls!NoUpdateLost /\ Polls!CrashSafe

\* Replica: the database on disk never returns to an older version of a
\* principal.
NeverRegresses ==
    [][part = "replica" => \A p \in Updates : stored'[p] >= stored[p]]_allVars

\* Gokpropd: until a stray dump or a restart, database and cursor belong
\* together in the daemon and on disk, and a dump is announced exactly while
\* the loop waits for it.
Resumable == part = "daemon" => Daemon!Resumable

\* Gokpropd: the loop never hangs in a resync, and when the master stops
\* changing, the daemon's database ends up equal to it, and so does the one
\* on disk unless keys of a dump keep Persist from writing it.
Converges ==
    /\ []<>(part = "daemon" => Daemon!Returned)
    /\ <>[](part = "daemon" => Daemon!UpToDate)

\* Ulog: the cursor a restart resumes from names one update that was handed
\* to the log, and the updates of the header's window can be read back.  The
\* types of all machines are checked with it.
LogFileSound ==
    AllTypeOK /\ (part = "ring" => Ring!CursorNamesUpdate /\ Ring!WindowFits /\ Ring!RetainedReadable)

\* Kprop: Server.Load is given the dump whole, or is not called, and Send
\* reports success only for a dump that was loaded: Kprop implements Transfer.
Implements == Dump!Implements

\* Kprop: both sides return, and a transfer that meets no fault succeeds.
TransferEnds == <>[](part = "transfer" => Dump!Ended)
=============================================================================
