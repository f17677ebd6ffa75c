---------------------------- MODULE KdcListener -----------------------------
(***************************************************************************)
(* The goroutines of a KDC process around its request handler              *)
(* (krb5/kdc/kdc.go): ListenAndServe, the UDP loop with its bounded pool of *)
(* workers, the TCP loop that closes the oldest connection when there are  *)
(* too many, and one handler per connection.  What dispatch does with a    *)
(* request is left to Lookaside and to the modules of the exchanges.       *)
(***************************************************************************)
EXTENDS Integers, FiniteSets

CONSTANTS
    MaxAccepts,     \* bound on the TCP connections accepted
    MaxConns,       \* MaxTCPConnections
    MaxWorkers,     \* MaxUDPWorkers
    MaxDatagrams    \* bound on the datagrams that arrive

\* The connections clients open, numbered as the listener hands them out.
Conns == 1 .. MaxAccepts

VARIABLES
    main,       \* ListenAndServe: "serving", or "returned" with its listeners closed
    errs,       \* results in the channel of ListenAndServe, of capacity 2
    udp,        \* serveUDP: "read", "acquire", "send" or "ended"
    workers,    \* datagrams being handled
    datagrams,  \* datagrams read so far
    tcp,        \* serveTCP: "accept", "evict", "send" or "ended"
    fresh,      \* serveTCP: the connection being started
    victim,     \* serveTCP: the connection to close, or NoConn
    handler,    \* the handler of each connection
    open,       \* connections whose socket is open
    tracked,    \* tcpConns
    order       \* tcpConnection.order, 0 before the connection is tracked

vars == <<main, errs, udp, workers, datagrams, tcp, fresh, victim, handler,
          open, tracked, order>>

udpVars == <<udp, workers, datagrams>>
tcpVars == <<tcp, fresh, victim, handler, open, tracked, order>>

NoConn == 0

Init ==
    /\ main = "serving" /\ errs = 0
    /\ udp = "read" /\ workers = 0 /\ datagrams = 0
    /\ tcp = "accept" /\ fresh = NoConn /\ victim = NoConn
    /\ handler = [c \in Conns |-> "none"] /\ open = {} /\ tracked = {}
    /\ order = [c \in Conns |-> 0]

-----------------------------------------------------------------------------
(***************************************************************************)
(* ListenAndServe.                                                         *)
(***************************************************************************)
\* The context is cancelled, or a loop has sent its result: both listeners
\* are closed.  The connections stay with their handlers.
returns ==
    /\ main = "serving" /\ main' = "returned"
    /\ \/ UNCHANGED errs
       \/ errs > 0 /\ errs' = errs - 1
    /\ UNCHANGED <<udpVars, tcpVars>>

\* errs <- result, into a channel with room for both loops.
send == errs < 2 /\ errs' = errs + 1

sendUDP ==
    /\ udp = "send" /\ udp' = "ended" /\ send
    /\ UNCHANGED <<main, workers, datagrams, tcpVars>>

sendTCP ==
    /\ tcp = "send" /\ tcp' = "ended" /\ send
    /\ UNCHANGED <<main, udpVars, fresh, victim, handler, open, tracked, order>>

-----------------------------------------------------------------------------
(***************************************************************************)
(* serveUDP.                                                               *)
(***************************************************************************)
readUDP ==
    /\ udp = "read" /\ main = "serving" /\ datagrams < MaxDatagrams
    /\ udp' = "acquire" /\ datagrams' = datagrams + 1
    /\ UNCHANGED <<main, errs, workers, tcpVars>>

\* The read fails: the listener was closed, or for another reason.
failUDP(failing) ==
    /\ udp = "read" /\ (failing \/ main = "returned") /\ udp' = "send"
    /\ UNCHANGED <<main, errs, workers, datagrams, tcpVars>>

\* workers <- struct{}{}: the loop waits for a free worker.
acquire ==
    /\ udp = "acquire" /\ workers < MaxWorkers
    /\ workers' = workers + 1 /\ udp' = "read"
    /\ UNCHANGED <<main, errs, datagrams, tcpVars>>

handleUDP ==
    /\ workers > 0 /\ workers' = workers - 1
    /\ UNCHANGED <<main, errs, udp, datagrams, tcpVars>>

-----------------------------------------------------------------------------
(***************************************************************************)
(* serveTCP.                                                               *)
(***************************************************************************)

\* The connection accepted longest ago, other than the new one.
Oldest(S) == CHOOSE c \in S : \A d \in S : order[c] <= order[d]

\* Mutant: a connection is tracked only when there is room, and served anyway.
trackTCPConnectionFull(c) ==
    /\ order' = [order EXCEPT ![c] = Cardinality({d \in Conns : order[d] > 0}) + 1]
    /\ victim' = NoConn
    /\ tracked' = IF Cardinality(tracked) < MaxConns THEN tracked \cup {c} ELSE tracked

\* Under tcpMu: the new connection is added, and the oldest other one is
\* removed if they are too many.
trackTCPConnection(c) ==
    /\ order' = [order EXCEPT ![c] = Cardinality({d \in Conns : order[d] > 0}) + 1]
    /\ IF Cardinality(tracked \cup {c}) <= MaxConns
       THEN tracked' = tracked \cup {c} /\ victim' = NoConn
       ELSE /\ victim' = Oldest(tracked)
            /\ tracked' = (tracked \cup {c}) \ {victim'}

accept(c) ==
    /\ tcp = "accept" /\ main = "serving"
    /\ order[c] = 0 /\ \A d \in 1 .. c - 1 : order[d] > 0
    /\ trackTCPConnection(c)
    /\ open' = open \cup {c} /\ fresh' = c /\ tcp' = "evict"
    /\ UNCHANGED <<main, errs, udpVars, handler>>

failTCP(failing) ==
    /\ tcp = "accept" /\ (failing \/ main = "returned") /\ tcp' = "send"
    /\ UNCHANGED <<main, errs, udpVars, fresh, victim, handler, open, tracked, order>>

\* The victim's socket is closed and the new connection gets its handler.
start ==
    /\ tcp = "evict" /\ tcp' = "accept"
    /\ open' = open \ {victim}
    /\ handler' = [handler EXCEPT ![fresh] = "read"]
    /\ fresh' = NoConn /\ victim' = NoConn
    /\ UNCHANGED <<main, errs, udpVars, tracked, order>>

\* handleTCPConn reads one request; it returns when the client is silent
\* for TCPIdleTimeout, or the socket was closed.
readFrame(c) ==
    /\ handler[c] = "read"
    /\ \/ c \in open /\ handler' = [handler EXCEPT ![c] = "dispatch"]
       \/ handler' = [handler EXCEPT ![c] = "close"]
    /\ UNCHANGED <<main, errs, udpVars, tcp, fresh, victim, open, tracked, order>>

\* The request is handled and answered, or the answer lost with the socket.
dispatch(c) ==
    /\ handler[c] = "dispatch" /\ handler' = [handler EXCEPT ![c] = "close"]
    /\ UNCHANGED <<main, errs, udpVars, tcp, fresh, victim, open, tracked, order>>

\* The deferred calls of the handler: conn.Close...
closeConn(c) ==
    /\ handler[c] = "close" /\ handler' = [handler EXCEPT ![c] = "untrack"]
    /\ open' = open \ {c}
    /\ UNCHANGED <<main, errs, udpVars, tcp, fresh, victim, tracked, order>>

\* Mutant: the handler leaves its connection tracked.
untrackTCPConnectionNot(c) ==
    /\ handler[c] = "untrack" /\ handler' = [handler EXCEPT ![c] = "ended"]
    /\ UNCHANGED <<main, errs, udpVars, tcp, fresh, victim, open, tracked, order>>

\* ...and untrackTCPConnection, which finds nothing if it was evicted.
untrackTCPConnection(c) ==
    /\ handler[c] = "untrack" /\ handler' = [handler EXCEPT ![c] = "ended"]
    /\ tracked' = tracked \ {c}
    /\ UNCHANGED <<main, errs, udpVars, tcp, fresh, victim, open, order>>

handleTCPConn(c) == readFrame(c) \/ dispatch(c) \/ closeConn(c) \/ untrackTCPConnection(c)

-----------------------------------------------------------------------------
stepUDP == acquire \/ sendUDP \/ failUDP(FALSE)
stepTCP == start \/ sendTCP \/ failTCP(FALSE)

Next ==
    \/ returns \/ stepUDP \/ stepTCP \/ readUDP \/ failUDP(TRUE) \/ handleUDP \/ failTCP(TRUE)
    \/ \E c \in Conns : accept(c) \/ handleTCPConn(c)

\* The goroutines keep running: a loop goes on when it can, a handler
\* finishes because of its deadlines, and ListenAndServe takes a result.
Spec == /\ Init /\ [][Next]_vars
        /\ WF_vars(errs > 0 /\ returns) /\ WF_vars(handleUDP)
        /\ WF_vars(stepUDP) /\ WF_vars(stepTCP)
        /\ \A c \in Conns : WF_vars(handleTCPConn(c))

-----------------------------------------------------------------------------
\* The types of the variables, with the pool of UDP workers within its limit.
TypeOK ==
    /\ main \in {"serving", "returned"} /\ errs \in 0 .. 2
    /\ udp \in {"read", "acquire", "send", "ended"}
    /\ workers \in 0 .. MaxWorkers /\ datagrams \in 0 .. MaxDatagrams
    /\ tcp \in {"accept", "evict", "send", "ended"}
    /\ {fresh, victim} \subseteq Conns \cup {NoConn}
    /\ handler \in [Conns -> {"none", "read", "dispatch", "close", "untrack", "ended"}]
    /\ open \subseteq Conns /\ tracked \subseteq Conns
    /\ order \in [Conns -> 0 .. Cardinality(Conns)]

\* The KDC holds at most MaxTCPConnections sockets, and one more between the
\* accept of a connection and the close of the one it displaces, in whatever
\* order evictions, handlers and their deferred calls interleave.
SocketsBounded ==
    Cardinality(open) <= MaxConns + (IF tcp = "evict" THEN 1 ELSE 0)

\* A connection is evicted only in favour of as many younger ones as the
\* limit admits: the newest MaxTCPConnections are never evicted while they
\* are served.
NewestKept ==
    \A c \in Conns :
        handler[c] \in {"read", "dispatch"} /\ c \notin tracked =>
            Cardinality({d \in Conns : order[d] > order[c]}) >= MaxConns

\* Every connection that was accepted ends, its socket closed and its entry
\* of tcpConns removed.
ConnectionsEnd ==
    \A c \in Conns :
        c \in open ~> (handler[c] = "ended" /\ c \notin open \cup tracked)

\* Once ListenAndServe has returned, neither loop is left behind: the channel
\* takes both results, whoever was first.
LoopsEnd == main = "returned" ~> udp = "ended" /\ tcp = "ended"
=============================================================================
