----------------------------- MODULE MCSessions -----------------------------
(***************************************************************************)
(* What the library keeps for its callers, in one model: the file2 replay  *)
(* cache (ReplayCache), security contexts (GssContext), their buffer       *)
(* vectors (GssIov), KRB-SAFE and KRB-PRIV (AppMsg), and credential caches *)
(* in a file, in memory (CCache) and at the KCM daemon (Kcm).  They share  *)
(* no state here, so a behaviour is one of the machine that part names;    *)
(* the others stay in an initial state.                                    *)
(***************************************************************************)
EXTENDS ReplayCache, TLC

CONSTANTS P1, P2    \* processes that share a credential cache

VARIABLES part
VARIABLES clock, acceptor, limit, ini, apReqs, apReps, cache, workers, acc, tokens, newest, overtaken
VARIABLES style, sendSeq, recvSeq, message, outcome
VARIABLES time, lead, ends, made, sendNumber, readNumber, tags, log
VARIABLES ccSetup, ccObjects, current, handle, ccCall, lock, ccCalls, breaks, serial, clean
VARIABLES kcmSetup, kcmObjects, caches, uuids, defaultName, next, kcmCall, kcmCalls, faults, issued, orphans

-----------------------------------------------------------------------------
(* ReplayCache: a first table of one record, so that the tags collide,     *)
(* spill into the second table and meet the record the two tables share;   *)
(* and a clock of ten seconds, so that it wraps.                           *)

MCLayout == <<[offset |-> 0, records |-> 1], [offset |-> 1, records |-> 4]>>

-----------------------------------------------------------------------------
(* GssContext: one token at several handlers, every form of request at     *)
(* one handler, and two contexts that exchange messages.                   *)

Ticket == [server |-> "host", kvno |-> <<>>, invalid |-> FALSE, start |-> 0, end |-> 9]
Plain == [mutual |-> TRUE, deleg |-> "no", cb |-> "none", cbt |-> FALSE, checksum |-> "gss",
          ahead |-> 0, ticket |-> Ticket]
Quiet == [Plain EXCEPT !.mutual = FALSE]
Host(cb) == [name |-> <<>>, keys |-> {[server |-> "host", kvno |-> 1], [server |-> "host", kvno |-> 2]},
             cb |-> cb]
Scenario(ac, r1, r2, n, messages, handlers, until) ==
    [acceptor |-> ac, req |-> [i1 |-> r1, i2 |-> r2],
     limit |-> [tokens |-> n, messages |-> messages, workers |-> handlers, time |-> until]]
Replays ==
    {Scenario(Host("none"), [Quiet EXCEPT !.ahead = a], Quiet, l[1], 0, {"w1", "w2"}, l[2]) :
        a \in {0, 1}, l \in {<<1, 4>>, <<2, 2>>}}
    \cup {Scenario(Host("none"), [Quiet EXCEPT !.ahead = 3], Quiet, 1, 0, {"w1", "w2"}, 6)}
BoundRequests ==
    {[Plain EXCEPT !.cb = b, !.cbt = c, !.checksum = k, !.mutual = m] :
        b \in {"none", "b1", "b2"}, c \in BOOLEAN, k \in {"gss", "none", "keyed"}, m \in BOOLEAN}
TicketRequests ==
    {[Plain EXCEPT !.ticket = t, !.deleg = d] : d \in {"forwarded", "unobtainable"},
        t \in {Ticket, [Ticket EXCEPT !.server = "other"], [Ticket EXCEPT !.kvno = <<1>>],
               [Ticket EXCEPT !.kvno = <<3>>], [Ticket EXCEPT !.invalid = TRUE],
               [Ticket EXCEPT !.start = 3], [Ticket EXCEPT !.end = 0]}}
Requests ==
    {Scenario(a, r, Plain, 1, 0, {"w1"}, 2) : a \in {Host("none"), Host("b1")}, r \in BoundRequests}
    \cup {Scenario([Host("none") EXCEPT !.name = n], r, Plain, 1, 0, {"w1"}, 3) :
             n \in {<<>>, <<"host">>}, r \in TicketRequests}
Messages ==
    {Scenario(Host("none"), Plain, [Plain EXCEPT !.mutual = m], l[1], l[2], {"w1"}, 1) :
        m \in BOOLEAN, l \in {<<1, 2>>, <<2, 1>>}}
Gss == INSTANCE GssContext
           WITH Initiators <- {"i1", "i2"}, Workers <- {"w1", "w2"},
                Scenarios <- Replays \cup Requests \cup Messages, Skew <- 1, now <- clock

-----------------------------------------------------------------------------
(* GssIov: headers and trailers absent, too short or long enough, around   *)
(* one or more data buffers.                                               *)

Buf(type, held) == [type |-> type, held |-> held]
Nil == <<>>
Zeros(n) == <<[k \in 1..n |-> "zero"]>>
Headers == {Buf("header", h) : h \in {Nil, Zeros(1), Zeros(2)}}
Trailers == {Buf("trailer", h) : h \in {Nil, Zeros(2), Zeros(3)}}
AB == Buf("data", <<<<"a", "b">>>>)
C == Buf("data", <<<<"c">>>>)
S == Buf("signOnly", <<<<"s">>>>)
MCLayouts ==
    UNION {{<<h, AB, t>>, <<h, S, AB, C, Buf("padding", Nil), t>>, <<t, C, h, AB, S>>,
            <<h, Buf("data", Nil), t>>, <<h, Buf("data", Nil), Buf("data", Nil), t>>} :
               h \in Headers, t \in Trailers}
    \cup {<<Buf("header", Nil), AB>>, <<Buf("header", Nil), Buf("trailer", Nil)>>, <<Buf("stream", Nil)>>}
Iov == INSTANCE GssIov WITH Layouts <- MCLayouts, Styles <- BOOLEAN \X BOOLEAN, MaxMessages <- 3

-----------------------------------------------------------------------------
(* AppMsg: with and without addresses, time stamps, numbers and a cache,   *)
(* and clocks that agree or differ by up to the skew.                      *)

End(local, remote, doTime, doSequence, keeps) ==
    [key |-> "k", local |-> local, remote |-> remote, doTime |-> doTime, doSequence |-> doSequence,
     cache |-> keeps]
MCPairs ==
    {<<End(<<"a">>, r, TRUE, TRUE, FALSE), End(l, q, t, s, c)>> :
        r \in {<<>>, <<"b">>}, l \in {<<>>, <<"b">>}, q \in {<<>>, <<"a">>, <<"c">>},
        t \in BOOLEAN, s \in BOOLEAN, c \in BOOLEAN}
    \cup {<<End(<<"a">>, <<>>, FALSE, s, FALSE), End(<<>>, <<>>, t, TRUE, TRUE)>> :
             s \in BOOLEAN, t \in BOOLEAN}
App == INSTANCE AppMsg
           WITH Pairs <- MCPairs, Leads <- {-1, 0, 1}, Skew <- 1, MaxTime <- 3, MaxMessages <- 2, now <- time

-----------------------------------------------------------------------------
(* CCache and Kcm: two processes; the credentials differ in server and     *)
(* enctype, one of which (9) is not supported.                             *)

Cred(server, enctype) == [server |-> server, enctype |-> enctype]
CacheSetups ==
    {[kind |-> "FILE", creds |-> {Cred("s", 1), Cred("s", 9)}, calls |-> 3, faults |-> 1],
     [kind |-> "FILE", creds |-> {Cred("s", 1), Cred("s", 2), Cred("t", 3)}, calls |-> 2, faults |-> 0],
     [kind |-> "MEMORY", creds |-> {Cred("s", 2), Cred("t", 3)}, calls |-> 4, faults |-> 0]}
Cc == INSTANCE CCache
          WITH Procs <- {P1, P2}, Setups <- CacheSetups, Supported <- 1..3, Order <- <<1, 2>>,
               setup <- ccSetup, objects <- ccObjects, call <- ccCall, calls <- ccCalls

KcmSetup(ops, names, principals, creds, calls, lists) ==
    [ops |-> ops, names |-> names, principals |-> principals, creds |-> creds, calls |-> calls,
     lists |-> lists, faults |-> 1]
KcmSetups ==
    {KcmSetup({"Initialize", "Destroy", "SetDefault", "GenNew", "Collection"}, {0, 3}, {"a"}, {}, 4, TRUE),
     KcmSetup({"Initialize", "Store", "RemoveCred", "Read"}, {0}, {"a"}, {"c", "d"}, 4, FALSE),
     KcmSetup({"Write", "Read", "RemoveSupported", "SetKDCOffset", "Store"}, {0}, {"a"}, {"c", "d"}, 3, TRUE),
     KcmSetup({"Write", "Read", "RemoveSupported", "SetKDCOffset"}, {0}, {"a", "b"}, {"c"}, 3, FALSE)}
Daemon == INSTANCE Kcm
              WITH Procs <- {P1, P2}, Setups <- KcmSetups, setup <- kcmSetup, objects <- kcmObjects,
                   call <- kcmCall, calls <- kcmCalls

-----------------------------------------------------------------------------
gssVars == <<clock, acceptor, limit, ini, apReqs, apReps, cache, workers, acc, tokens, newest, overtaken>>
iovVars == <<style, sendSeq, recvSeq, message, outcome>>
appVars == <<time, lead, ends, made, sendNumber, readNumber, tags, log>>
ccVars == <<ccSetup, ccObjects, current, handle, ccCall, lock, ccCalls, breaks, serial, clean>>
kcmVars == <<kcmSetup, kcmObjects, caches, uuids, defaultName, next, kcmCall, kcmCalls, faults, issued, orphans>>

AllInit ==
    /\ part \in {"rcache", "gss", "iov", "app", "ccache", "kcm"}
    /\ IF part = "rcache" THEN Init
       ELSE file = <<>> /\ index = <<>> /\ now = 0 /\ age = [tag \in Tags |-> Forgotten]
    /\ IF part = "gss" THEN Gss!Init ELSE
           /\ clock = 0 /\ acceptor = "" /\ limit = "" /\ ini = "" /\ apReqs = "" /\ apReps = "" /\ cache = ""
           /\ workers = "" /\ acc = "" /\ tokens = "" /\ newest = "" /\ overtaken = ""
    /\ IF part = "iov" THEN Iov!Init
       ELSE style = "" /\ sendSeq = "" /\ recvSeq = "" /\ message = "" /\ outcome = ""
    /\ IF part = "app" THEN App!Init ELSE
           /\ time = "" /\ lead = "" /\ ends = "" /\ made = "" /\ sendNumber = "" /\ readNumber = "" /\ tags = "" /\ log = ""
    /\ IF part = "ccache" THEN Cc!Init ELSE
           /\ ccSetup = "" /\ ccObjects = "" /\ current = "" /\ handle = "" /\ ccCall = "" /\ lock = ""
           /\ ccCalls = "" /\ breaks = "" /\ serial = "" /\ clean = ""
    /\ IF part = "kcm" THEN Daemon!Init ELSE
           /\ kcmSetup = "" /\ kcmObjects = "" /\ caches = "" /\ uuids = "" /\ defaultName = "" /\ next = ""
           /\ kcmCall = "" /\ kcmCalls = "" /\ faults = "" /\ issued = "" /\ orphans = ""
AllNext ==
    \/ part = "rcache" /\ Next /\ UNCHANGED <<part, gssVars, iovVars, appVars, ccVars, kcmVars>>
    \/ part = "gss" /\ Gss!Next /\ UNCHANGED <<part, rcVars, iovVars, appVars, ccVars, kcmVars>>
    \/ part = "iov" /\ Iov!Next /\ UNCHANGED <<part, rcVars, gssVars, appVars, ccVars, kcmVars>>
    \/ part = "app" /\ App!Next /\ UNCHANGED <<part, rcVars, gssVars, iovVars, ccVars, kcmVars>>
    \/ part = "ccache" /\ Cc!Next /\ UNCHANGED <<part, rcVars, gssVars, iovVars, appVars, kcmVars>>
    \/ part = "kcm" /\ Daemon!Next /\ UNCHANGED <<part, rcVars, gssVars, iovVars, appVars, ccVars>>
AllSpec == AllInit /\ [][AllNext]_<<part, rcVars, gssVars, iovVars, appVars, ccVars, kcmVars>>

-----------------------------------------------------------------------------
\* GssContext and AppMsg: an initial token establishes one context at most
\* unless handlers overtake each other at an edge of its skew, a context takes
\* each message once and in the order they were sent, and a receiver of
\* KRB-SAFE and KRB-PRIV takes one twice only when a message stamped more than
\* the skew later came in between.
TakenOnce ==
    /\ part = "gss" => Gss!AcceptedOnce /\ Gss!InOrder
    /\ part = "app" => App!ReadOnce

\* GssContext and GssIov: a mutually authenticated context has a peer with its
\* key and its first number, and is bound only if both ends had the same
\* bindings; a message wrapped into buffers without an error is read by a
\* peer in the style it was wrapped for.
EndsAgree ==
    /\ part = "gss" => Gss!PeersAgree
    /\ part = "iov" => Iov!IovReadable

\* CCache: the operations on a file or memory cache, the ones that fail or
\* crash half-way included, have the outcome of one after the other, and no
\* reader sees credentials that were never there.
CacheSound == part = "ccache" => Cc!CacheSound

\* Kcm: the daemon's two indexes agree but for the caches that a late Destroy
\* takes away, a UUID never changes its meaning, a listing misses no cache but
\* those whose requests failed, and an operation that ran alone is exact.
KcmSound == part = "kcm" => Daemon!KcmSound

\* GssIov: "WrapIOVWithOptions is equivalent to WrapIOV with optional DCE
\* framing", so a peer in the style that was asked for reads the message.
OptionsEquivalent == part = "iov" => Iov!OptionsEquivalent
=============================================================================
