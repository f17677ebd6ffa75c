---------------------------- MODULE MCExchanges ----------------------------
(***************************************************************************)
(* The exchanges built on top of tickets, in one model: SPNEGO with NegoEx *)
(* (Spnego), IAKERB (Iakerb), RPCSEC_GSS for kadm5 and iprop (RpcGss), the *)
(* change-password protocol (Kpasswd) and RADIUS for one-time passwords    *)
(* (Krad).  A behaviour is one of the machine that part names; the others  *)
(* stay in an initial state.                                               *)
(***************************************************************************)
EXTENDS Iakerb

VARIABLES part
VARIABLES offer, network, initiator, acceptor, wire, used
VARIABLES peer, client, xidCounter, session, rpcCalls, rpcReplies, dispatched, results
VARIABLES req, state, packets, lookaside, replays, handler, replies, changed
VARIABLES kradSetup, call, ids, conns, closed, sockets, authenticators, faults, locks, requests, inbox

-----------------------------------------------------------------------------
(* Iakerb: from an AS exchange, a TGT or a service ticket, with and        *)
(* without a path to the service's realm that the acceptor will proxy to.  *)

Home == [start |-> "AS", client |-> "A", target |-> "A", mapped |-> TRUE, path |-> <<>>,
         canonicalize |-> FALSE, mutual |-> TRUE, home |-> "A", allowed |-> Realms]
Abroad == [Home EXCEPT !.start = "TGS", !.target = "C"]
MCSetups ==
    {Home, [Home EXCEPT !.client = ""], [Home EXCEPT !.target = "", !.mapped = FALSE],
     [Abroad EXCEPT !.path = <<"A", "B", "C">>], [Abroad EXCEPT !.path = <<"A", "B", "C", "B">>],
     [Abroad EXCEPT !.target = "", !.mapped = FALSE, !.canonicalize = TRUE, !.mutual = FALSE],
     [Abroad EXCEPT !.allowed = {"A"}],
     [Home EXCEPT !.start = "service"], [Home EXCEPT !.start = "service", !.mutual = FALSE]}

-----------------------------------------------------------------------------
(* Spnego: two negotiations of any of these offers, whose tokens may meet. *)

MCOffers ==
    [mechs : {<<"krb5">>, <<"legacy", "krb5">>, <<"other", "krb5">>, <<"negoex">>},
     mutual : BOOLEAN, negoEx : {TRUE}]
    \cup [mechs : {<<"negoex">>, <<"krb5">>}, mutual : {TRUE}, negoEx : {FALSE}]
Neg == INSTANCE Spnego WITH Negotiations <- 1..2, Offers <- MCOffers, ini <- initiator, acc <- acceptor

-----------------------------------------------------------------------------
(* RpcGss: every kind of peer and six calls.                               *)

MCPeers == [program : {"kadm5", "iprop"}, first : {"wrap", "mic"}, api : 2..4, served : BOOLEAN]
Rpc == INSTANCE RpcGss WITH Peers <- MCPeers, MaxCalls <- 6, calls <- rpcCalls, replies <- rpcReplies

-----------------------------------------------------------------------------
(* Kpasswd: every request, and datagrams delivered to two handlers up to   *)
(* three times.                                                            *)

Fine == [via |-> "udp", version |-> "change", self |-> TRUE, initial |-> TRUE, fresh |-> TRUE,
         sound |-> TRUE, acl |-> FALSE, found |-> TRUE, policy |-> "ok"]
MCRequests ==
    [via : {"udp", "tcp"}, version : {"change", "set"}, self : BOOLEAN, initial : BOOLEAN, fresh : {TRUE},
     sound : {TRUE}, acl : BOOLEAN, found : BOOLEAN, policy : {"ok", "missing", "soft", "hard"}]
    \cup {[Fine EXCEPT !.via = v, !.fresh = f, !.sound = s, !.version = p] :
             v \in {"udp", "tcp"}, f \in BOOLEAN, s \in BOOLEAN, p \in {"change", "old"}}
Changes ==
    {r \in MCRequests : (r.version = "change" => r.self) /\ (~r.found => r.policy = "ok")}
Pass == INSTANCE Kpasswd
            WITH Calls <- {"c1"}, Requests <- Changes, Handlers <- {"h1", "h2"}, MaxDeliveries <- 3,
                 sent <- packets

-----------------------------------------------------------------------------
(* Krad: two values to verify at shared servers, with and without          *)
(* retries, on streams and datagrams, and with few identifiers.            *)

KradSetup(t1, t2, a1, a2, stream, retries, n) ==
    [tokens |-> [c1 |-> t1, c2 |-> t2], accepts |-> [a1 |-> a1, a2 |-> a2], stream |-> stream,
     retries |-> retries, ids |-> 0..n]
KradSetups ==
    {KradSetup(<<<<"a1">>>>, <<<<"a1">>, <<"a1">>>>, {"c1"}, {}, {}, 0, 1),
     KradSetup(<<<<"a1">>>>, <<<<"a1">>>>, {"c1"}, {}, {}, 1, 0),
     KradSetup(<<<<>>>>, <<<<"a2">>, <<>>>>, {}, {}, {}, 0, 0),
     KradSetup(<<<<"a1", "a2">>>>, <<<<"a2">>>>, {"c1"}, {"c2"}, {"a2"}, 0, 2)}
Otp == INSTANCE Krad
           WITH Callers <- {"c1", "c2"}, Addresses <- {"a1", "a2"}, Setups <- KradSetups, MaxFaults <- 1,
                setup <- kradSetup

-----------------------------------------------------------------------------
negVars == <<offer, network, initiator, acceptor, wire, used>>
rpcVars == <<peer, client, xidCounter, session, rpcCalls, rpcReplies, dispatched, results>>
pwVars == <<req, state, packets, lookaside, replays, handler, replies, changed>>
otpVars == <<kradSetup, call, ids, conns, closed, sockets, authenticators, faults, locks, requests, inbox>>
allVars == <<part, vars, negVars, rpcVars, pwVars, otpVars>>

AllInit ==
    /\ part \in {"iakerb", "spnego", "rpc", "kpasswd", "krad"}
    /\ (part # "iakerb" => setup = Home) /\ Init
    /\ (part # "spnego" => offer = [n \in 1..2 |-> CHOOSE o \in MCOffers : TRUE] /\ network = "loose")
    /\ Neg!Init
    /\ IF part = "rpc" THEN Rpc!Init ELSE
           /\ peer = "" /\ client = "" /\ xidCounter = "" /\ session = "" /\ rpcCalls = "" /\ rpcReplies = ""
           /\ dispatched = "" /\ results = ""
    /\ IF part = "kpasswd" THEN Pass!Init ELSE
           /\ req = "" /\ state = "" /\ packets = "" /\ lookaside = "" /\ replays = "" /\ handler = ""
           /\ replies = "" /\ changed = ""
    /\ (part # "krad" => kradSetup = CHOOSE s \in KradSetups : TRUE) /\ Otp!Init

InIakerb(A) == part = "iakerb" /\ A /\ UNCHANGED <<part, negVars, rpcVars, pwVars, otpVars>>
InSpnego(A) == part = "spnego" /\ A /\ UNCHANGED <<part, vars, rpcVars, pwVars, otpVars>>
InKrad(A) == part = "krad" /\ A /\ UNCHANGED <<part, vars, negVars, rpcVars, pwVars>>
AllNext ==
    \/ part = "iakerb" /\ Next /\ UNCHANGED <<part, negVars, rpcVars, pwVars, otpVars>>
    \/ part = "spnego" /\ Neg!Next /\ UNCHANGED <<part, vars, rpcVars, pwVars, otpVars>>
    \/ part = "rpc" /\ Rpc!Next /\ UNCHANGED <<part, vars, negVars, pwVars, otpVars>>
    \/ part = "kpasswd" /\ Pass!Next /\ UNCHANGED <<part, vars, negVars, rpcVars, otpVars>>
    \/ part = "krad" /\ Otp!Next /\ UNCHANGED <<part, vars, negVars, rpcVars, pwVars>>

\* The fairness of each machine
AllSpec ==
    /\ AllInit /\ [][AllNext]_allVars
    /\ WF_allVars(InIakerb(Start)) /\ WF_allVars(InIakerb(Deliver))
    /\ \A n \in 1..2 :
        /\ WF_allVars(InSpnego(Neg!InitialToken(n)))
        /\ WF_allVars(InSpnego(\E t \in wire :
              Neg!AcceptNegoEx(n, t) \/ Neg!AcceptInit(n, t) \/ Neg!AcceptFinal(n, t)))
        /\ WF_allVars(InSpnego(\E t \in wire : Neg!ContinueNegoEx(n, t) \/ Neg!ContinueResp(n, t)))
    /\ \A c \in {"c1", "c2"} : WF_allVars(InKrad(Otp!Step(c)))

-----------------------------------------------------------------------------
\* Spnego and Iakerb: two ends that have completed hold the same key, list of
\* mechanisms and transcript.
TranscriptsEqual ==
    /\ part = "spnego" => Neg!NegotiationAgrees
    /\ part = "iakerb" => TranscriptsAgree

\* RpcGss, Kpasswd and Krad: what a call returns is the outcome of that very
\* call, and no call is carried out twice.
AnswersTrue ==
    /\ part = "rpc" => Rpc!RpcInStep
    /\ part = "kpasswd" => Pass!ResultIsTrue
    /\ part = "krad" => Otp!AnswerIsOwn

\* Spnego, Iakerb and Krad: a negotiation completes whenever its offer can, a
\* conversation comes to an end, and every verification returns.
ExchangesEnd ==
    /\ part = "spnego" => Neg!NegotiationEnds
    /\ part = "iakerb" => ConversationEnds
    /\ part = "krad" => Otp!VerificationEnds
=============================================================================
