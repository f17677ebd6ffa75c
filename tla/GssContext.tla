----------------------------- MODULE GssContext -----------------------------
(***************************************************************************)
(* The Kerberos GSS mechanism (krb5/gssapi) over the AP exchange (krb5/ap):*)
(* initiators that send an initial token and may send another one before   *)
(* the reply to the first arrives, an acceptor process whose handlers run  *)
(* concurrently over one in-memory replay cache, and the contexts both     *)
(* ends then use for per-message tokens.  Tokens are never removed from    *)
(* the network, so each may be lost, delayed, reordered or delivered again.*)
(*                                                                         *)
(* Time is in seconds and an authenticator is known by the stamp its time  *)
(* and microseconds make.  Keys are the stamp of the authenticator whose   *)
(* subkey they are.  Encryption is what it does: a token is read only with *)
(* the key and in the direction it was made for.                           *)
(***************************************************************************)
EXTENDS Integers, Sequences, FiniteSets

CONSTANTS
    Initiators,   \* the initiators
    Workers,      \* the acceptor's concurrent handlers
    Scenarios,    \* an acceptor's configuration, each initiator's request, and bounds
    Skew          \* 5 minutes in every caller

Bindings == {"none", "b1", "b2"}
\* cbt asserts channel bindings in the authenticator; checksum is "gss" for
\* this initiator, "none" or "keyed" for other implementations; ahead is how
\* far the initiator's clock is ahead; ticket is its service ticket.
Request == [mutual : BOOLEAN, deleg : {"no", "forwarded", "unobtainable"}, cb : Bindings, cbt : BOOLEAN,
            checksum : {"gss", "none", "keyed"}, ahead : Nat,
            ticket : [server : STRING, kvno : Seq(Nat), invalid : BOOLEAN, start : Nat, end : Nat]]
\* name restricts the acceptor to one service when it is not empty
Acceptor == [name : Seq(STRING), keys : SUBSET [server : STRING, kvno : Nat], cb : Bindings]
\* How far a scenario is followed: initial tokens, messages of a context,
\* handlers at work, and the clock
Limit == [tokens : Nat, messages : Nat, workers : SUBSET Workers, time : Nat]

VARIABLES
    now, acceptor, limit,
    ini,      \* initiator -> its request, the AP-REQ state i.state and i.ctx
    apReqs,   \* initial tokens sent
    apReps,   \* stamps of the AP-REPs sent
    cache,    \* replayCache: entries (stamp -> ctime), lastSweep, sweepCount
    workers,  \* handler -> the call it runs
    acc,      \* the contexts the acceptor has established
    tokens,   \* per-message tokens sent
    newest,   \* the latest time a handler has used in the replay cache
    overtaken \* <<u, v>>: a handler used time u after one had used the later v
vars == <<now, acceptor, limit, ini, apReqs, apReps, cache, workers, acc, tokens, newest, overtaken>>

Idle == [pc |-> "idle"]
Init ==
    /\ now = Skew
    /\ \E s \in Scenarios :
        /\ acceptor = s.acceptor /\ limit = s.limit
        /\ ini = [i \in Initiators |-> [req |-> s.req[i], state |-> <<>>, ctx |-> <<>>]]
    /\ apReqs = {} /\ apReps = {}
    /\ cache = [entries |-> {}, lastSweep |-> <<>>, sweepCount |-> 0]
    /\ workers = [w \in Workers |-> Idle] /\ acc = <<>> /\ tokens = {} /\ newest = 0 /\ overtaken = {}

-----------------------------------------------------------------------------
(* Contexts.  got lists the ordinals of the peer's messages this context   *)
(* has taken.                                                              *)

Context(key, initiator, send, recv, flags) ==
    [key |-> key, initiator |-> initiator, sendSeq |-> send, recvSeq |-> recv, flags |-> flags,
     sent |-> 0, got |-> <<>>, copy |-> FALSE]

SeqNumber(stamp) == 10 * stamp

\* initialToken: a fresh subkey and sequence number each time; the context
\* exists at once only when no reply is awaited.  Nothing is sent when the
\* forwarded ticket to delegate cannot be had.  Callers ask again only while
\* they have no context.
InitialToken(i) ==
    LET r == ini[i].req
        stamp == Cardinality(apReqs) + 1
        seq == SeqNumber(stamp)
    IN /\ ini[i].ctx = <<>> /\ stamp <= limit.tokens
       /\ r.deleg # "unobtainable"
       /\ apReqs' = apReqs \cup {[stamp |-> stamp, ctime |-> now + r.ahead, req |-> r]}
       /\ ini' = [ini EXCEPT ![i].state = <<[stamp |-> stamp, seq |-> seq]>>,
                             ![i].ctx = IF r.mutual THEN <<>> ELSE <<Context(stamp, TRUE, seq, 0, {})>>]
       /\ UNCHANGED <<now, acceptor, limit, apReps, cache, workers, acc, tokens, newest, overtaken>>
\* Mutant: the reply's time is not compared
echoesAny(state, rep) == TRUE

\* VerifyAPRepWithDetails: mutual was asked for and the reply echoes the
\* time and microseconds of the last authenticator
echoes(state, rep) == state.stamp = rep
VerifyToken(i, rep) ==
    /\ ini[i].state # <<>> /\ ini[i].req.mutual
    /\ echoes(ini[i].state[1], rep)
    /\ ini[i].ctx = <<>>
    /\ ini' = [ini EXCEPT ![i].ctx = <<Context(ini[i].state[1].stamp, TRUE, ini[i].state[1].seq, 0, {})>>]
    /\ UNCHANGED <<now, acceptor, limit, apReqs, apReps, cache, workers, acc, tokens, newest, overtaken>>

-----------------------------------------------------------------------------
(* The acceptor                                                            *)

withinSkew(value, at) == value - at <= Skew /\ at - value <= Skew

\* findServiceEntry: the ticket's key number if it names one, else the newest
findServiceEntry(ticket) ==
    LET entries == {k \in acceptor.keys : k.server = ticket.server
                                          /\ (ticket.kvno # <<>> => k.kvno = ticket.kvno[1])}
    IN {k \in entries : \A o \in entries : o.kvno <= k.kvno}
\* The part of the verification before the replay cache
ticketAccepted(tok, at) ==
    /\ acceptor.name # <<>> => acceptor.name[1] = tok.req.ticket.server
    /\ findServiceEntry(tok.req.ticket) # {}
    /\ ~tok.req.ticket.invalid
    /\ at >= tok.req.ticket.start - Skew /\ at <= tok.req.ticket.end + Skew

\* A handler takes the time and decrypts the ticket and the authenticator
Accept(w, tok) ==
    /\ workers[w].pc = "idle"
    /\ ticketAccepted(tok, now)
    /\ workers' = [workers EXCEPT ![w] = [pc |-> "sweep", tok |-> tok, at |-> now]]
    /\ UNCHANGED <<now, acceptor, limit, ini, apReqs, apReps, cache, acc, tokens, newest, overtaken>>

\* Mutant: entries as old as the skew are swept too
sweepEarly(c, at) ==
    LET kept == {e \in c.entries : at - e.ctime < Skew}
    IN [entries |-> kept, lastSweep |-> <<at>>, sweepCount |-> Cardinality(kept)]

\* sweepReplayCache, under the lock: at most once a second, and only when
\* the cache grew since
sweepReplayCache(c, at) ==
    IF c.lastSweep # <<>> /\ (at - c.lastSweep[1] < 1 \/ Cardinality(c.entries) <= c.sweepCount)
    THEN c
    ELSE LET kept == {e \in c.entries : withinSkew(e.ctime, at)}
         IN [entries |-> kept, lastSweep |-> <<at>>, sweepCount |-> Cardinality(kept)]
\* The replay cache is judged by the time a handler took when it started
uses(at) ==
    /\ newest' = IF at > newest THEN at ELSE newest
    /\ overtaken' = IF at < newest THEN overtaken \cup {<<at, newest>>} ELSE overtaken
Sweep(w) ==
    LET at == workers[w].at IN
    /\ workers[w].pc = "sweep"
    /\ cache' = sweepReplayCache(cache, at)
    /\ workers' = [workers EXCEPT ![w] = IF withinSkew(@.tok.ctime, at) THEN [@ EXCEPT !.pc = "store"] ELSE Idle]
    /\ uses(at)
    /\ UNCHANGED <<now, acceptor, limit, ini, apReqs, apReps, acc, tokens>>

\* verifyChannelBindings and the assertion of channelBindingAsserted
boundChecksum(r) == r.checksum = "gss" /\ acceptor.cb # "none" /\ r.cb = acceptor.cb
bindingsAccepted(r) ==
    /\ r.checksum = "gss" /\ acceptor.cb # "none" /\ r.cb # "none" => r.cb = acceptor.cb
    /\ r.cbt /\ acceptor.cb # "none" => boundChecksum(r)
\* What the context records of the checksum
delegates(r) == r.checksum = "gss" /\ r.deleg = "forwarded"
contextFlags(r) ==
    (IF boundChecksum(r) THEN {"bound"} ELSE {}) \cup (IF delegates(r) THEN {"delegated"} ELSE {})
\* The flags decide about the reply: from the checksum, or from the AP
\* options when the checksum is an ordinary one; without a checksum, none
replies(r) == r.checksum # "none" /\ r.mutual

\* The check and the insertion under one lock (a persistent cache, which an
\* acceptor may be given instead, is ReplayCache), then the rest of
\* acceptWithConversation; what fails after it has used up the authenticator
Store(w) ==
    LET tok == workers[w].tok
        entry == [stamp |-> tok.stamp, ctime |-> tok.ctime]
        replayed == \E e \in cache.entries : e.stamp = tok.stamp
        accepted == ~replayed /\ bindingsAccepted(tok.req)
    IN /\ workers[w].pc = "store"
       /\ cache' = IF replayed THEN cache ELSE [cache EXCEPT !.entries = @ \cup {entry}]
       /\ acc' = IF accepted THEN Append(acc, Context(tok.stamp, FALSE, 0, SeqNumber(tok.stamp), contextFlags(tok.req)))
                 ELSE acc
       /\ apReps' = IF accepted /\ replies(tok.req) THEN apReps \cup {tok.stamp} ELSE apReps
       /\ workers' = [workers EXCEPT ![w] = Idle]
       /\ uses(workers[w].at)
       /\ UNCHANGED <<now, acceptor, limit, ini, apReqs, tokens>>

-----------------------------------------------------------------------------
(* Per-message tokens.  Wrap, MIC and the IOV forms draw on one sequence.  *)

Token(c) ==
    [key |-> c.key, initiator |-> c.initiator, seq |-> c.sendSeq, n |-> c.sent + 1]
Sends(c) == [c EXCEPT !.sendSeq = @ + 1, !.sent = @ + 1]
\* wrapIOV takes the sequence number before it finds a buffer too small
SkipsNumber(c) == [c EXCEPT !.sendSeq = @ + 1]
CanSend(c) == c.sent < limit.messages
\* validateIncoming and the integrity check; the number moves on only then
validateIncoming(c, t) == t.seq = c.recvSeq
accepts(c, t) == t.key = c.key /\ t.initiator # c.initiator /\ validateIncoming(c, t)
Receives(c, t) == [c EXCEPT !.recvSeq = @ + 1, !.got = Append(@, t.n)]

quiet == UNCHANGED <<now, acceptor, limit, apReqs, apReps, cache, workers, newest, overtaken>>
InitiatorSends(i) ==
    /\ ini[i].ctx # <<>> /\ CanSend(ini[i].ctx[1])
    /\ tokens' = tokens \cup {Token(ini[i].ctx[1])}
    /\ ini' = [ini EXCEPT ![i].ctx[1] = Sends(@)]
    /\ UNCHANGED acc /\ quiet
InitiatorWrapFails(i) ==
    /\ ini[i].ctx # <<>> /\ ini[i].ctx[1].sendSeq < SeqNumber(ini[i].state[1].stamp) + limit.messages
    /\ ini' = [ini EXCEPT ![i].ctx[1] = SkipsNumber(@)]
    /\ UNCHANGED <<acc, tokens>> /\ quiet
InitiatorReceives(i, t) ==
    /\ ini[i].ctx # <<>> /\ accepts(ini[i].ctx[1], t)
    /\ ini' = [ini EXCEPT ![i].ctx[1] = Receives(@, t)]
    /\ UNCHANGED <<acc, tokens>> /\ quiet
AcceptorSends(k) ==
    /\ CanSend(acc[k])
    /\ tokens' = tokens \cup {Token(acc[k])}
    /\ acc' = [acc EXCEPT ![k] = Sends(@)]
    /\ UNCHANGED ini /\ quiet
AcceptorReceives(k, t) ==
    /\ accepts(acc[k], t)
    /\ acc' = [acc EXCEPT ![k] = Receives(@, t)]
    /\ UNCHANGED <<ini, tokens>> /\ quiet
\* ExportSecContext and ImportSecContext: the copy goes on from the same
\* sequence numbers and the original stays usable
Transfer(k) ==
    /\ Len(acc) <= limit.tokens /\ ~acc[k].copy
    /\ acc' = Append(acc, [acc[k] EXCEPT !.copy = TRUE])
    /\ UNCHANGED <<ini, tokens>> /\ quiet

Tick ==
    /\ now < limit.time /\ now' = now + 1
    /\ UNCHANGED <<acceptor, limit, ini, apReqs, apReps, cache, workers, acc, tokens, newest, overtaken>>

Next ==
    \/ \E i \in Initiators :
        \/ InitialToken(i) \/ InitiatorWrapFails(i)
        \/ \E rep \in apReps : VerifyToken(i, rep)
        \/ InitiatorSends(i)
        \/ \E t \in tokens : InitiatorReceives(i, t)
    \/ \E w \in limit.workers :
        \/ \E tok \in apReqs : Accept(w, tok)
        \/ Sweep(w) \/ Store(w)
    \/ \E k \in DOMAIN acc :
        \/ Transfer(k)
        \/ AcceptorSends(k)
        \/ \E t \in tokens : AcceptorReceives(k, t)
    \/ Tick
Spec == Init /\ [][Next]_vars

-----------------------------------------------------------------------------
(* Properties                                                              *)

\* The acceptor's contexts from one initial token, copies left out
Accepted(tok) == {k \in DOMAIN acc : acc[k].key = tok.stamp /\ ~acc[k].copy}
\* An initial token establishes at most one acceptor context, however often
\* and to however many handlers it is delivered, unless one handler overtakes
\* another across an edge of the token's skew: sweepReplayCache and withinSkew
\* go by the time a handler took before it decrypted the ticket, so that one
\* may sweep away the entry (ap.go:111) that another still relies on.  Then
\* each handler but one may let it in once more at either edge.
AcceptedOnce ==
    \A tok \in apReqs :
        /\ Cardinality(Accepted(tok)) > 1 =>
              \E p \in overtaken : withinSkew(tok.ctime, p[1]) # withinSkew(tok.ctime, p[2])
        /\ Cardinality(Accepted(tok)) <= 2 * Cardinality(limit.workers) - 1

\* When an initiator that asked for mutual authentication has a context, the
\* acceptor accepted that very token: the keys are the same, the acceptor
\* expects the number the initiator started from, and it holds the context
\* for bound only if both ends had the same bindings.
PeersAgree ==
    /\ \A i \in Initiators :
        ini[i].ctx # <<>> /\ ini[i].req.mutual =>
            \E k \in DOMAIN acc :
                /\ acc[k].key = ini[i].ctx[1].key
                /\ acc[k].recvSeq - Len(acc[k].got) = SeqNumber(ini[i].ctx[1].key)
    /\ \A k \in DOMAIN acc :
        "bound" \in acc[k].flags =>
            \E tok \in apReqs : tok.stamp = acc[k].key /\ tok.req.cb = acceptor.cb

\* Every context takes its peer's messages in the order they were sent, each
\* once and with none left out.
InOrder ==
    /\ \A k \in DOMAIN acc : \A n \in DOMAIN acc[k].got : acc[k].got[n] = n
    /\ \A i \in Initiators : ini[i].ctx # <<>> =>
        \A n \in DOMAIN ini[i].ctx[1].got : ini[i].ctx[1].got[n] = n
=============================================================================
