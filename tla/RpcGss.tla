------------------------------- MODULE RpcGss -------------------------------
(***************************************************************************)
(* RPCSEC_GSS over one TCP connection, as the kadm5 and iprop packages     *)
(* implement it: a client that makes calls one after another and gives up  *)
(* on a call when its deadline passes, leaving the reply on the            *)
(* connection, and the server's session for that connection.  Records are  *)
(* delivered in order and none is lost, but a deadline may cut one short:  *)
(* what is left of it swallows the head of the next, and neither end finds *)
(* a record on the connection again.                                       *)
(*                                                                         *)
(* A context is known by the call that set it up, and its messages are     *)
(* numbered from ten times that.  A verifier or a wrapped body is its      *)
(* number together with what it covers.                                    *)
(***************************************************************************)
EXTENDS Integers, Sequences

CONSTANTS
    Peers,     \* program, token order, the server's API, and whether its service is right
    MaxCalls   \* calls a client makes on the connection

APIv2 == 2
APIv4 == 4
\* first: this client wraps the body before it signs the header, others
\* sign first, and these may also continue a context
Peer == [program : {"kadm5", "iprop"}, first : {"wrap", "mic"}, api : APIv2..APIv4, served : BOOLEAN]

VARIABLES
    peer,
    client,    \* auth, API, the call awaited, the connection
    xidCounter,
    session,   \* serverSession, if there is one
    calls, replies,  \* the two directions of the connection
    dispatched,      \* calls the server has carried out
    results          \* what calls returned
vars == <<peer, client, xidCounter, session, calls, replies, dispatched, results>>

Init ==
    /\ peer \in Peers
    /\ client = [auth |-> <<>>, send |-> 0, api |-> APIv4, ready |-> FALSE, wait |-> <<>>, open |-> TRUE]
    /\ xidCounter = 0 /\ session = <<>>
    /\ calls = <<>> /\ replies = <<>> /\ dispatched = <<>> /\ results = {}

Sequence(context) == 10 * context
Torn == [kind |-> "torn"]
Whole(records) == records # <<>> /\ Head(records) # Torn

-----------------------------------------------------------------------------
(* The client                                                              *)

idle == client.open /\ client.wait = <<>> /\ xidCounter < MaxCalls
xid == xidCounter + 1
Put(record) ==
    /\ xidCounter' = xid
    /\ calls' = Append(calls, record)
    /\ UNCHANGED <<peer, session, replies, dispatched, results>>

\* authenticate: RPCSEC_GSS_INIT with an initial token.  kadm5 does it once,
\* in Dial; iprop's Authenticate may be called again after it failed.
authenticate ==
    /\ idle /\ client.auth = <<>>
    /\ client' = [client EXCEPT !.wait = <<[xid |-> xid, kind |-> "init", seq |-> 0, proc |-> "null"]>>]
    /\ Put([xid |-> xid, kind |-> "init", token |-> xid, handle |-> 0])
\* RPCSEC_GSS_CONTINUE_INIT, which only other clients send unasked
Continue ==
    /\ idle /\ client.auth # <<>> /\ client.ready /\ peer.first = "mic"
    /\ client' = [client EXCEPT !.wait = <<[xid |-> xid, kind |-> "init", seq |-> 0, proc |-> "null"]>>]
    /\ Put([xid |-> xid, kind |-> "cont", token |-> xid, handle |-> client.auth[1].handle])

\* kadm5's Dial negotiates the API before it hands the client out
procedures == IF peer.program = "iprop" THEN {"null", "update"}
              ELSE IF client.ready THEN {"update", "unknown"} ELSE {"initAPI"}
Data(proc) ==
    LET a == client.auth[1]
        wrap == client.send + IF peer.first = "wrap" THEN 0 ELSE 1
        mic == client.send + IF peer.first = "wrap" THEN 1 ELSE 0
    IN [xid |-> xid, kind |-> "data", handle |-> a.handle, seq |-> a.seq, proc |-> proc, api |-> client.api,
        body |-> [key |-> a.key, number |-> wrap, seq |-> a.seq],
        verifier |-> [key |-> a.key, number |-> mic, xid |-> xid, proc |-> proc, seq |-> a.seq]]
call(proc) ==
    /\ idle /\ client.auth # <<>>
    /\ client' = [client EXCEPT !.wait = <<[xid |-> xid, kind |-> "data", seq |-> client.auth[1].seq, proc |-> proc]>>,
                                !.send = @ + 2]
    /\ Put(Data(proc))
\* A call whose deadline passes before its record is written, or between its
\* header and its end: Wrap and MIC have taken their numbers.  Dial closes the
\* connection.
CallNotWritten ==
    /\ idle /\ client.auth # <<>>
    /\ client' = [client EXCEPT !.send = @ + 2, !.open = client.ready]
    /\ xidCounter' = xid
    /\ calls' \in {calls, Append(calls, Torn)}
    /\ UNCHANGED <<peer, session, replies, dispatched, results>>

failed(c) == [c EXCEPT !.wait = <<>>, !.open = (peer.program = "iprop" \/ client.ready)]
\* The deadline passes while readRecord waits, for a reply or for the rest of
\* it.  What it takes for a record after that, or the end of a connection the
\* server has closed, fails the call in the same way.
Abandon ==
    /\ client.wait # <<>>
    /\ client' = failed(client)
    /\ replies' \in {replies} \cup (IF replies = <<>> THEN {} ELSE {[replies EXCEPT ![1] = Torn]})
    /\ UNCHANGED <<peer, xidCounter, session, calls, dispatched, results>>

\* Mutant: the reply's XID is compared only while authenticating
answersAny(r, w) == w.kind = "data" \/ r.xid = w.xid
\* rawCall: the reply must carry the call's XID and have succeeded
answersCall(r, w) == r.xid = w.xid
\* The end of authenticate: the AP-REP answers the token, and the verifier
\* signs the window with the new context's key
authenticated(r, w) ==
    IF r.token # w.xid \/ r.verifier # <<r.token, 0>> THEN failed(client)
    ELSE [client EXCEPT !.auth = <<[handle |-> r.handle, key |-> r.token, seq |-> 1]>>,
                        !.send = Sequence(r.token), !.wait = <<>>,
                        !.ready = @ \/ peer.program = "iprop"]
\* The end of call: the verifier signs this sequence number, which the
\* protected body repeats
verified(r, w) == r.verifier = <<client.auth[1].key, w.seq>> /\ r.body.seq = w.seq
\* initAPI tries the next older API while the server does not know this one
negotiated(c, code) ==
    IF code = "unsupported" /\ c.api > APIv2 THEN [c EXCEPT !.api = @ - 1]
    ELSE [c EXCEPT !.ready = code = "ok", !.open = code = "ok"]
returned(w, code) ==
    LET c == [client EXCEPT !.auth[1].seq = @ + 1, !.wait = <<>>]
    IN IF w.proc = "initAPI" THEN negotiated(c, code) ELSE c
Receive ==
    /\ client.wait # <<>> /\ Whole(replies)
    /\ LET r == Head(replies)
           w == client.wait[1]
       IN IF ~answersCall(r, w) \/ r.status # "success" \/ (w.kind = "data" /\ ~verified(r, w))
          THEN client' = failed(client) /\ results' = results
          ELSE IF w.kind = "init" THEN client' = authenticated(r, w) /\ results' = results
          ELSE /\ client' = returned(w, r.body.code)
               /\ results' = results \cup {[xid |-> w.xid, of |-> r.body.of, proc |-> w.proc, code |-> r.body.code]}
    /\ replies' = Tail(replies)
    /\ UNCHANGED <<peer, xidCounter, session, calls, dispatched>>
-----------------------------------------------------------------------------
(* The server: handleGSS, for one record of the connection                 *)

error(c, status) == [xid |-> c.xid, status |-> status]
Answer(c, s, reply) ==
    /\ calls' = Tail(calls)
    /\ session' = s
    /\ replies' = Append(replies, reply)
    /\ UNCHANGED <<peer, client, xidCounter, results>>

\* RPCSEC_GSS_INIT opens the session and CONTINUE_INIT replaces its context;
\* the acceptor may refuse the token, or have been asked for another service
HandleInit(c, accepted) ==
    LET refused == IF session = <<>> THEN c.kind # "init" \/ c.handle # 0
                   ELSE c.kind # "cont" \/ c.handle # session[1].handle
        ctx == [key |-> c.token, recv |-> Sequence(c.token), send |-> Sequence(c.token) + 1]
        opened == [handle |-> c.token, next |-> 1, gssSeqSet |-> FALSE, ctx |-> ctx]
        s == IF session = <<>> THEN opened ELSE [session[1] EXCEPT !.ctx = ctx]
    IN /\ refused => accepted
       /\ IF refused THEN Answer(c, session, error(c, "failed"))
          ELSE IF ~accepted \/ ~peer.served
          THEN Answer(c, IF peer.program = "kadm5" THEN session ELSE <<>>, error(c, "failed"))
          ELSE Answer(c, <<s>>, [xid |-> c.xid, status |-> "success", handle |-> s.handle,
                                 token |-> c.token, verifier |-> <<c.token, 0>>])
       /\ UNCHANGED dispatched

\* The tokens of the call are taken in the order of their numbers; before the
\* first call the numbers start wherever that call starts
low(c) == IF c.body.number < c.verifier.number THEN c.body.number ELSE c.verifier.number
adjacent(c) == c.body.number + 1 = c.verifier.number \/ c.verifier.number + 1 = c.body.number
set(s, c) == IF s.gssSeqSet THEN s ELSE [s EXCEPT !.ctx.recv = low(c), !.gssSeqSet = TRUE]
\* Unwrap and VerifyMIC take the next number and the context's key, and a
\* token that is refused leaves the number as it is.  Both tokens of a call are
\* of one context and in order, so that none is refused after the other was taken.
unwraps(s, c) == c.body.key = s.ctx.key /\ c.verifier.key = s.ctx.key /\ low(c) = s.ctx.recv
genuine(c) == c.verifier.xid = c.xid /\ c.verifier.proc = c.proc /\ c.verifier.seq = c.seq /\ c.body.seq = c.seq
knownProcedure(c) == peer.program = "iprop" \/ c.proc # "unknown"
\* dispatch, as far as the client's connection depends on it
dispatch(c) == IF peer.program = "kadm5" /\ c.api > peer.api THEN "unsupported" ELSE "ok"
inStep(c) == session # <<>> => c.handle = session[1].handle /\ c.seq = session[1].next
HandleData(c) ==
    IF session = <<>> \/ ~inStep(c) \/ ~adjacent(c)
    THEN Answer(c, session, error(c, "failed")) /\ UNCHANGED dispatched
    ELSE LET s == set(session[1], c)
             t == [s EXCEPT !.ctx.recv = @ + 2]
         IN IF ~unwraps(s, c) \/ ~genuine(c)
            THEN Answer(c, <<s>>, error(c, "failed")) /\ UNCHANGED dispatched
            ELSE IF ~knownProcedure(c)
            THEN Answer(c, <<t>>, error(c, "procedure")) /\ UNCHANGED dispatched
            ELSE /\ dispatched' = Append(dispatched, [xid |-> c.xid, seq |-> c.seq, proc |-> c.proc])
                 /\ Answer(c, <<[t EXCEPT !.next = @ + 1, !.ctx.send = @ + 2]>>,
                           [xid |-> c.xid, status |-> "success", verifier |-> <<s.ctx.key, c.seq>>,
                            body |-> [seq |-> c.seq, of |-> c.xid, code |-> dispatch(c)]])
\* A record that was cut short ends the session: what it is taken for does not
\* parse, which closes the connection, or is answered with an error
serveConn ==
    /\ Whole(calls)
    /\ LET c == Head(calls)
       IN IF c.kind = "data" THEN HandleData(c)
          ELSE \E accepted \in BOOLEAN : HandleInit(c, accepted)

Next ==
    \/ authenticate \/ Continue \/ (\E p \in procedures : call(p)) \/ CallNotWritten
    \/ Abandon \/ Receive \/ serveConn
Spec == Init /\ [][Next]_vars

-----------------------------------------------------------------------------
(* Properties                                                              *)

\* A call returns the result of that very call and no call is carried out
\* twice, although an abandoned call and the next one carry the same
\* sequence number and the reply to the first is still on the connection
\* (call, rawCall, handleGSS).  Every call carried out before the last one
\* has returned its result, so a caller is in doubt about one call at most.
RpcInStep ==
    /\ \A r \in results : r.of = r.xid
    /\ \A k \in 1..Len(dispatched) : dispatched[k].seq = k
    /\ \A k \in 1..(Len(dispatched) - 1) : \E r \in results : r.xid = dispatched[k].xid
    \* once Dial has returned, no call is refused for its API
    /\ \A r \in results : r.code = "ok" \/ r.proc = "initAPI"
=============================================================================
