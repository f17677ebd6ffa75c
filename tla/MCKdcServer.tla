---------------------------- MODULE MCKdcServer ----------------------------
(***************************************************************************)
(* The state a KDC process keeps between requests, in one model: the       *)
(* failure count of a principal (Lockout), the cache of answered requests  *)
(* (Lookaside) and the sockets with their goroutines (KdcListener).  They  *)
(* share no state, so a behaviour is one of the machine that part names;   *)
(* the other two stay in an initial state.                                 *)
(***************************************************************************)
EXTENDS Lockout

CONSTANTS Requests, Handlers, RequestLen, ResponseLens, MaxSize, StaleTime, MaxClock, MaxApplied
CONSTANTS MaxAccepts, MaxConns, MaxWorkers, MaxDatagrams

VARIABLES part
VARIABLES resetsSize, queue, size, clock, handling, applied, lost
VARIABLES main, errs, udp, workers, datagrams, tcp, fresh, victim, handler, open, tracked, order

\* A permanent lockout and a temporary one.
Policy(max, interval, duration) ==
    [MaxFailure |-> max, FailureCountInterval |-> interval, LockoutDuration |-> duration]
MCPolicies == {Policy(2, 0, 0), Policy(2, 2, 1)}

Cache == INSTANCE Lookaside
            WITH Workers <- Handlers, MaxTime <- MaxClock, now <- clock, worker <- handling
Listener == INSTANCE KdcListener

cacheVars == <<resetsSize, queue, size, clock, handling, applied, lost>>
listenerVars == <<main, errs, udp, workers, datagrams, tcp, fresh, victim, handler, open,
                  tracked, order>>
allVars == <<part, vars, cacheVars, listenerVars>>
ButListener == <<part, vars, cacheVars>>

AllInit ==
    /\ part \in {"lockout", "cache", "listener"}
    /\ Init /\ Cache!Init /\ Listener!Init
    /\ part # "lockout" => store = "recorder" /\ policy = Policy(2, 0, 0)
    /\ part # "cache" => ~resetsSize

AllNext ==
    \/ part = "lockout" /\ Next /\ UNCHANGED <<part, cacheVars, listenerVars>>
    \/ part = "cache" /\ Cache!Next /\ UNCHANGED <<part, vars, listenerVars>>
    \/ part = "listener" /\ Listener!Next /\ UNCHANGED ButListener

Runs(A) == part = "listener" /\ A /\ UNCHANGED ButListener

\* The goroutines of the listener keep running, as in KdcListener; requests
\* need not come.
AllSpec ==
    /\ AllInit /\ [][AllNext]_allVars
    /\ WF_allVars(Runs(errs > 0 /\ Listener!returns)) /\ WF_allVars(Runs(Listener!handleUDP))
    /\ WF_allVars(Runs(Listener!stepUDP)) /\ WF_allVars(Runs(Listener!stepTCP))
    /\ \A c \in Listener!Conns : WF_allVars(Runs(Listener!handleTCPConn(c)))

-----------------------------------------------------------------------------
\* The types of the variables of the three machines.
AllTypeOK == TypeOK /\ Cache!TypeOK /\ Listener!TypeOK

\* Lookaside and KdcListener: the requests and responses held never exceed the
\* limit, there are at most MaxTCPConnections sockets, and the newest are kept.
\* The types of the three machines are checked with it.
BoundsKept == AllTypeOK /\ Cache!MemoryBounded /\ Listener!SocketsBounded /\ Listener!NewestKept

\* Lookaside: a request is processed again only after its entry has left the
\* cache.
AppliedOnce == Cache!AppliedOnce /\ Cache!OneEntryPerRequest

\* Lockout: no failure is forgotten but by a success or the interval, and an
\* account that is locked for good stays locked until a request admitted
\* before succeeds.
LockKept == FailuresRemembered /\ LockHolds

\* KdcListener: every connection ends, its socket closed and its entry gone,
\* and once ListenAndServe has returned no loop is left behind.
ListenerEnds == Listener!ConnectionsEnd /\ Listener!LoopsEnd
=============================================================================
