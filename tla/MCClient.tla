------------------------------ MODULE MCClient ------------------------------
(***************************************************************************)
(* The client, in one model: initial credentials (ClientAS, two calls in   *)
(* flight), service tickets (ClientTGS), the way to a KDC                  *)
(* (ClientTransport) and how realms, names and KDCs are found (Locate).    *)
(* They share no state, so a behaviour is one of the machine that part     *)
(* names; the others stay in an initial state.                             *)
(***************************************************************************)
EXTENDS ClientAS, TLC

VARIABLES part
VARIABLES t, asked
VARIABLES r, pc, clock, deadline, cancelled, packet, outcome
VARIABLES q, answer

-----------------------------------------------------------------------------
(* ClientAS                                                                *)

ASOp(kind, services, module) ==
    [kind |-> kind, valid |-> TRUE, cname |-> "alice", services |-> services,
     entry |-> <<>>, module |-> module]
MCOps ==
    [c1 |-> {ASOp("as", <<"krbtgt">>, m) : m \in {"none", "info", "real", "silent", "failing"}}
            \cup {ASOp("service", <<"short", "long">>, "none"),
                  [ASOp("service", <<"short", "long">>, "none") EXCEPT !.entry = <<<<"password", "aes", "odd">>>>],
                  ASOp("fast", <<"krbtgt">>, "none"), ASOp("fast", <<"krbtgt">>, "real"),
                  ASOp("otp", <<"krbtgt">>, "none"), ASOp("pkinit", <<"krbtgt">>, "none"),
                  [ASOp("anonymous", <<"krbtgt">>, "none") EXCEPT !.cname = "anonymous"],
                  [ASOp("as", <<"krbtgt">>, "none") EXCEPT !.valid = FALSE]},
     c2 |-> {ASOp("as", <<"krbtgt">>, "none"), ASOp("pkinit", <<"krbtgt">>, "none")}]
MCMethodDatas ==
    LET P(type, data) == Pa(type, <<>>, data)
        info2 == P("etype-info2", <<[etype |-> "des", salt |-> <<>>], [etype |-> "aes", salt |-> <<"odd">>]>>)
        info == P("etype-info", <<[etype |-> "camellia", salt |-> <<>>]>>)
    IN {<<info2, P("enc-timestamp", "")>>,
        <<info, info2, P("cookie", "c"), P("spake", <<[group |-> "p256", factor |-> "none"]>>)>>,
        <<info2, P("cookie", "c"), P("spake", <<[group |-> "ed", factor |-> "none"]>>), P("custom", "")>>,
        <<info2, P("spake", <<>>), P("enc-challenge", "")>>,
        <<info2, P("spake", <<[group |-> "ed", factor |-> "sms"]>>), P("otp-challenge", <<"token">>),
          P("freshness", "fresh")>>,
        <<P("otp-challenge", <<>>), P("cookie", "c")>>}
MCOffered == <<"camellia", "aes">>
MCPreferred == <<"custom", "etype-info2">>

-----------------------------------------------------------------------------
(* ClientTGS                                                               *)

Svc(name, realm, keys) == <<[name |-> name, realm |-> realm, keys |-> keys]>>
Host(realm) == Svc("host", realm, {"service key"})
TGT == [name |-> <<"krbtgt", "A">>, realm |-> "A", key |-> "", bad |-> "none"]
TGSOp(kind, services, aliases, fallback) ==
    [kind |-> kind, valid |-> TRUE, services |-> services, aliases |-> aliases,
     fallback |-> fallback, authoritative |-> FALSE, explicit |-> FALSE, nofail |-> TRUE,
     keytab |-> TRUE, tgt |-> TGT]
TGSOps ==
    {TGSOp(k, Host(realm), a, f) :
        k \in {"tgs", "u2u", "fast"}, realm \in {"", "A", "C"}, a \in 1..2, f \in {"", "B"}}
    \cup {TGSOp(k, Host("A"), 1, "") : k \in {"forwarded", "s4u2self", "s4u2proxy"}}
    \cup {TGSOp("s4u2proxy", Host(""), 1, "B"), TGSOp("tgs", Host("D"), 1, ""),
          TGSOp("tgs", Host("E"), 1, ""),
          TGSOp("verify", Svc("host", "A", {}) \o Svc("web", "C", {"service key"}), 1, ""),
          [TGSOp("verify", Svc("host", "A", {}), 1, "") EXCEPT !.nofail = FALSE, !.explicit = TRUE],
          [TGSOp("verify", Host("A"), 1, "") EXCEPT !.keytab = FALSE],
          [TGSOp("verify", Host("A"), 1, "") EXCEPT !.tgt.name = <<"host", 1>>, !.tgt.key = "service key"],
          [TGSOp("tgs", Host("A"), 1, "") EXCEPT !.valid = FALSE],
          [TGSOp("tgs", Host(""), 1, "B") EXCEPT !.authoritative = TRUE]}
TGSCapaths == <<"A", "C">> :> <<"B">> @@ <<"A", "D">> :> <<>> @@ <<"A", "E">> :> <<"B", ".">>
TGS == INSTANCE ClientTGS WITH Realms <- {"A", "B", "C", "D", "E"}, Home <- "A", Ops <- TGSOps,
                               Capaths <- TGSCapaths, HopLimit <- 3

-----------------------------------------------------------------------------
(* ClientTransport                                                         *)

NetRequests ==
    [via : {"kdc"}, size : {2, 4}, timeout : {0, 2}, limit : {1, 3}, ctx : {1, 3, 99}]
    \cup [via : {"hook", "none"}, size : {2}, timeout : {0, 2}, limit : {3}, ctx : {1, 99}]
    \cup [via : {"https"}, size : {0, 2, 4}, timeout : {2}, limit : {3}, ctx : {1, 3, 99}]
Net == INSTANCE ClientTransport
           WITH Requests <- NetRequests, Never <- 99, MaxClock <- 5, MaxFrame <- 3,
                wire <- packet, result <- outcome

-----------------------------------------------------------------------------
(* Locate                                                                  *)

HDE == <<"h", "d", "e">>
DE == <<"d", "e">>
Map(dot, name) == [dot |-> dot, name |-> name]
Rec(host, port, priority, weight, transport) ==
    [host |-> host, port |-> port, priority |-> priority, weight |-> weight, transport |-> transport]
Srv == {Rec(h, 88, p, w, "srv") : h \in {"k1", "k2"}, p \in 1..2, w \in 0..1}
       \cup {Rec("k1", 0, 1, 0, "srv")}
Uri == {Rec("k1", 0, 1, 0, "udp"), Rec("k1", 88, 2, 1, "udp"), Rec("k1", 443, 1, 0, "kkdcp"),
        Rec("k1", 88, 1, 0, "udp")}
RealmQueries ==
    {[ask |-> "realm", host |-> h, ip |-> i, cancelled |-> c,
      cfg |-> [domains |-> d, dnsLookupRealm |-> l, tries |-> n], dns |-> [txt |-> x1, realms |-> rs]] :
        h \in {HDE, <<"h">>}, i \in BOOLEAN, c \in BOOLEAN, l \in BOOLEAN, n \in {-1, 0, 2},
        d \in {{}, {Map(FALSE, HDE), Map(TRUE, DE)}, {Map(TRUE, HDE)}, {Map(TRUE, <<"e">>), Map(FALSE, DE)}},
        x1 \in {{}, {<<"e">>}, {DE, <<"e">>}}, rs \in {{}, {DE}, {HDE}}}
NameQueries ==
    {[ask |-> "name", host |-> h, hostbased |-> b, cfg |-> [mode |-> m, rdns |-> d, qualify |-> ql],
      dns |-> [forward |-> f, address |-> a, reverse |-> v]] :
        h \in {HDE, <<"h">>}, b \in BOOLEAN, m \in {"true", "false", "fallback"}, d \in BOOLEAN,
        ql \in {<<>>, DE}, f \in {<<>>, HDE, <<"x", "e">>}, a \in BOOLEAN, v \in {<<>>, <<"y", "e">>}}
KdcQueries ==
    {[ask |-> "kdc", uriLookup |-> l, dns |-> [uri |-> u, udp |-> <<>>, tcp |-> <<<<>>>>]] :
        l \in BOOLEAN, u \in {<<>>} \cup {<<<<a, b>>>> : a, b \in Uri}}
    \cup {[ask |-> "kdc", uriLookup |-> TRUE, dns |-> [uri |-> <<>>, udp |-> d, tcp |-> s]] :
        d \in {<<>>} \cup {<<<<a, b>>>> : a, b \in Srv}, s \in {<<>>, <<<<Rec("k2", 88, 1, 1, "srv")>>>>}}
Loc == INSTANCE Locate WITH Queries <- RealmQueries \cup NameQueries \cup KdcQueries,
                            DefaultRealm <- <<"default">>

-----------------------------------------------------------------------------
tgsVars == <<t, asked>>
netVars == <<r, pc, clock, deadline, cancelled, packet, outcome>>
locVars == <<q, answer>>
allVars == <<part, x, wire, t, asked, r, pc, clock, deadline, cancelled, packet, outcome, q, answer>>

AllInit ==
    /\ part \in {"as", "tgs", "net", "locate"}
    /\ Init /\ TGS!Init
    /\ IF part = "net" THEN Net!Init
       ELSE /\ r = CHOOSE n \in NetRequests : TRUE
            /\ pc = "begin" /\ clock = 0 /\ deadline = 99 /\ cancelled = FALSE
            /\ packet = "" /\ outcome = ""
    /\ IF part = "locate" THEN Loc!Init ELSE q = <<>> /\ answer = <<>>
AllNext ==
    \/ part = "as" /\ Next /\ UNCHANGED <<part, tgsVars, netVars, locVars>>
    \/ part = "tgs" /\ TGS!Next /\ UNCHANGED <<part, vars, netVars, locVars>>
    \/ part = "net" /\ Net!Next /\ UNCHANGED <<part, vars, tgsVars, locVars>>
    \/ part = "locate" /\ Loc!Next /\ UNCHANGED <<part, vars, tgsVars, netVars>>

\* The fairness of each machine
InNet(A) == part = "net" /\ A /\ UNCHANGED <<part, vars, tgsVars, locVars>>
Steps(c) == Build(c) \/ Send(c) \/ Receive(c) \/ TransportFails(c)
AllSpec ==
    /\ AllInit /\ [][AllNext]_allVars
    /\ \A c \in Calls : WF_allVars(part = "as" /\ Steps(c) /\ UNCHANGED <<part, tgsVars, netVars, locVars>>)
    /\ WF_allVars(part = "tgs" /\ TGS!Next /\ UNCHANGED <<part, vars, netVars, locVars>>)
    /\ WF_allVars(InNet(Net!Begin)) /\ WF_allVars(InNet(Net!Hook)) /\ WF_allVars(InNet(Net!UDPSend))
    /\ WF_allVars(InNet(Net!Dial)) /\ WF_allVars(InNet(Net!Tick)) /\ WF_allVars(InNet(Net!Expire))
    /\ WF_allVars(InNet(packet # "" /\ (Net!UDPRead \/ Net!TCPRead \/ Net!HTTPSRead)))

-----------------------------------------------------------------------------
\* ClientAS: credentials come only from an answer to the call's own request
\* and, armored and canonicalizing calls apart, for the name it gave; a second
\* name is tried only after the KDC did not know the first, and no
\* call makes more round trips than its exchange has.
ASCallSound == AnswersOwnRequest /\ RetryOnlyUnknown /\ RoundTripsBounded


\* ClientTGS: every request goes to the realm of its ticket, no realm is asked
\* twice in a pass, and the number of requests is bounded.
ChainOfTickets == TGS!ChainOfTickets

\* ClientTGS: the ticket returned is the one asked for, and credentials are
\* verified only by a ticket that opens under a keytab key.
TicketAsRequested == TGS!TicketAsRequested

\* ClientTransport: request_timeout is one deadline across UDP and TCP.
OneDeadline == part = "net" => Net!OneDeadline

\* Locate: realms, names and KDCs are those that configuration and DNS determine.
Located == part = "locate" => Loc!Located

\* ClientAS, ClientTGS and ClientTransport: every call returns; one on the
\* network, when it has a timeout or a deadline.
ClientCallsReturn ==
    /\ part = "as" => CallsReturn
    /\ part = "tgs" => TGS!CallsEnd
    /\ part = "net" => Net!RequestReturns
=============================================================================
