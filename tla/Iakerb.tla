------------------------------- MODULE Iakerb -------------------------------
(***************************************************************************)
(* IAKERB (krb5/gssapi/iakerb.go): an initiator that cannot reach a KDC    *)
(* sends its AS and TGS requests through the acceptor, which forwards them *)
(* and keeps, as the initiator does, the transcript of the conversation;   *)
(* the final AP request carries a checksum of that transcript.  A token    *)
(* may be delivered again while the exchange goes on.                      *)
(*                                                                         *)
(* The KDCs are what the exchange sees of them: any answer of the right    *)
(* kind.  The cookie is left out: the acceptor returns the one it was sent *)
(* and the initiator starts with none.                                     *)
(***************************************************************************)
EXTENDS Integers, Sequences, FiniteSets

CONSTANTS
    Realms,
    Setups,         \* what the two ends are created with: see Setup
    MaxProxyHops,   \* 32 in the code
    MaxReferrals,   \* 10 in the code
    MaxPath,        \* 11 in the code
    MaxDuplicates   \* bound on tokens delivered again

\* start is where the initiator's credentials let it start; client is its
\* realm ("" to be discovered); target the realm of the service ("" unknown),
\* mapped by the configuration or not; path the way to it that a capath
\* gives; allowed are the realms the acceptor forwards to
Setup == [start : {"AS", "TGS", "service"}, client : Realms \cup {""}, target : Realms \cup {""}, mapped : BOOLEAN,
          path : Seq(Realms), canonicalize : BOOLEAN, mutual : BOOLEAN, home : Realms, allowed : SUBSET Realms]

VARIABLES
    setup,
    ini,     \* IAKERBInitiator
    acc,     \* IAKERBAcceptor
    flight,  \* tokens under way
    sent,    \* all tokens sent
    duplicates
vars == <<setup, ini, acc, flight, sent, duplicates>>

NoTGS == [realm |-> "", mapped |-> FALSE, path |-> <<>>, index |-> 1, hops |-> 0, visited |-> {}, cross |-> FALSE,
          service |-> "", pending |-> <<>>, nonce |-> 0]
Init ==
    /\ setup \in Setups
    /\ ini = [state |-> IF setup.start = "AS" THEN "AS" ELSE "TGS", realm |-> setup.client,
              discovery |-> setup.start = "AS" /\ setup.client = "", key |-> FALSE,
              tgt |-> IF setup.start = "TGS" THEN setup.client ELSE "",
              service |-> IF setup.start = "service" THEN "host" ELSE "",
              tgs |-> NoTGS, ap |-> <<>>, conversation |-> <<>>, failed |-> FALSE]
    /\ acc = [conversation |-> <<>>, hops |-> 0, accepted |-> <<>>, failed |-> FALSE]
    /\ flight = {} /\ sent = {} /\ duplicates = 0

-----------------------------------------------------------------------------
(* Tokens                                                                  *)

Proxy(to, realm, body) == [to |-> to, kind |-> "proxy", realm |-> realm, body |-> body]
ASReq(preauth) == [op |-> "AS", preauth |-> preauth, nonce |-> 0, service |-> ""]
TGSReq(nonce, service) == [op |-> "TGS", preauth |-> FALSE, nonce |-> nonce, service |-> service]
Empty == [op |-> "empty", nonce |-> 0]
KRBError(code) == [op |-> code, nonce |-> 0]
ASRep == [op |-> "ASRep", nonce |-> 0]
TGSRep(nonce, krbtgt, srealm) == [op |-> "TGSRep", nonce |-> nonce, krbtgt |-> krbtgt, srealm |-> srealm]

\* What a call leaves: the initiator and the token it returns, if any
Sends(i, t) == [ini |-> i, out |-> {t}]
Waits(i) == [ini |-> i, out |-> {}]
Fails(i) == Waits([i EXCEPT !.failed = TRUE])
proxyRequest(i, realm, body) ==
    LET t == Proxy("acceptor", realm, body)
    IN Sends([i EXCEPT !.conversation = Append(@, t)], t)

-----------------------------------------------------------------------------
(* Step                                                                    *)

\* The AP request, whose checksum covers the conversation so far
SendAP(i) ==
    LET t == [to |-> "acceptor", kind |-> "AP", finished |-> i.conversation, service |-> i.service, mutual |-> setup.mutual]
    IN Sends([i EXCEPT !.state = IF setup.mutual THEN "AP" ELSE "Done", !.ap = <<i.conversation>>], t)

\* initTGSPath: the direct path unless a capath is configured
initTGSPath(i) ==
    LET realm == IF setup.target = "" THEN i.tgt ELSE setup.target
    IN IF i.tgs.realm # "" THEN i.tgs
       ELSE [NoTGS EXCEPT !.realm = realm, !.mapped = setup.mapped, !.visited = {i.tgt},
                          !.path = IF i.tgt = realm THEN <<i.tgt>>
                                   ELSE IF setup.path # <<>> THEN setup.path ELSE <<i.tgt, realm>>]
\* looked at once, when the path is set
validPath(i, tgs) == i.tgs.realm # "" \/ i.tgt = tgs.realm \/ Len(tgs.path) \in 2 .. MaxPath

\* The request that is still pending, or the next one: the path's next
\* cross-realm ticket, or the service's
AskTGS(i) ==
    LET tgs == initTGSPath(i)
        onPath == tgs.index < Len(tgs.path)
        service == IF onPath THEN tgs.path[tgs.index + 1] ELSE ""
        at == IF onPath THEN tgs.path[tgs.index] ELSE tgs.realm
        asked == [tgs EXCEPT !.cross = onPath, !.mapped = @ \/ onPath, !.service = at, !.nonce = @ + 1,
                             !.pending = <<[realm |-> at, body |-> TGSReq(tgs.nonce + 1, service)]>>]
    IN IF i.tgs.pending # <<>> THEN proxyRequest(i, i.tgs.pending[1].realm, i.tgs.pending[1].body)
       ELSE IF ~validPath(i, tgs) THEN Fails(i)
       ELSE proxyRequest([i EXCEPT !.tgs = asked], at, asked.pending[1].body)

\* DecodeTGSResponseForExchange: a ticket for another realm's TGS than the
\* one asked for is a referral
requestedRealm(i) == IF i.tgs.cross THEN i.tgs.path[i.tgs.index + 1] ELSE setup.target
referral(i, r) == r.krbtgt # "" /\ r.krbtgt # requestedRealm(i)
decodes(i, r) ==
    /\ r.op = "TGSRep" /\ r.nonce = i.tgs.nonce
    /\ referral(i, r) \/ (/\ i.tgs.mapped => r.srealm = i.tgs.service
                          /\ setup.canonicalize \/ (IF i.tgs.cross THEN r.krbtgt = requestedRealm(i) ELSE r.krbtgt = ""))
loops(i, realm) == realm = i.tgs.realm \/ realm \in i.tgs.visited

TGSReply(i, r) ==
    LET done == [i EXCEPT !.tgs.pending = <<>>] IN
    IF ~decodes(i, r) THEN Fails(i)
    ELSE IF i.tgs.cross
    THEN IF referral(i, r) \/ r.krbtgt # requestedRealm(i) \/ r.srealm # i.tgs.service THEN Fails(i)
         ELSE AskTGS([done EXCEPT !.tgt = r.krbtgt, !.tgs.index = @ + 1])
    ELSE IF referral(i, r)
    THEN IF i.tgs.hops >= MaxReferrals \/ loops(i, r.krbtgt) THEN Fails(i)
         ELSE AskTGS([done EXCEPT !.tgt = r.krbtgt, !.tgs.realm = r.krbtgt, !.tgs.hops = @ + 1,
                                  !.tgs.visited = @ \cup {r.krbtgt}])
    ELSE SendAP([done EXCEPT !.service = IF r.krbtgt = "" THEN "host" ELSE "krbtgt"])

\* The AS exchange: a request without preauthentication, then as often as
\* the KDC asks for it one with an encrypted timestamp
ASReply(i, r) ==
    CASE r.op = "preauthRequired" -> proxyRequest([i EXCEPT !.key = TRUE], i.realm, ASReq(TRUE))
      [] r.op = "ASRep" /\ i.key -> AskTGS([i EXCEPT !.state = "TGS", !.tgt = i.realm])
      [] OTHER -> Fails(i)

Started ==
    IF ini.state = "AS"
    THEN IF ini.discovery THEN proxyRequest(ini, "", Empty) ELSE proxyRequest(ini, ini.realm, ASReq(FALSE))
    ELSE IF ini.service # "" THEN SendAP(ini) ELSE AskTGS(ini)

\* The header's realm becomes the initiator's, which ends the discovery
Received(t) ==
    [ini EXCEPT !.conversation = Append(@, t), !.realm = IF t.realm # "" THEN t.realm ELSE @, !.discovery = FALSE]
ASStep(i, body) ==
    IF ~ini.discovery THEN ASReply(i, body)
    ELSE IF i.realm = "" THEN Fails(i) ELSE proxyRequest(i, i.realm, ASReq(FALSE))
TGSStep(i, body) == IF body.op = "empty" THEN AskTGS(i) ELSE TGSReply(i, body)
Stepped(t) ==
    CASE ini.state = "Done" -> Waits(ini)
      [] ini.state = "AP" -> IF t.kind = "APRep" THEN Waits([ini EXCEPT !.state = "Done"]) ELSE Fails(ini)
      [] ini.state \in {"AS", "TGS"} /\ t.kind = "APRep" -> Fails(ini)
      [] ini.state = "AS" /\ t.kind = "proxy" -> ASStep(Received(t), t.body)
      [] ini.state = "TGS" /\ t.kind = "proxy" -> TGSStep(Received(t), t.body)

\* rest is what stays under way
Put(rest, out) == flight' = rest \cup out /\ sent' = sent \cup out
Start ==
    /\ ini.conversation = <<>> /\ ini.ap = <<>> /\ ~ini.failed
    /\ ini' = Started.ini /\ Put(flight, Started.out)
    /\ UNCHANGED <<setup, acc, duplicates>>
Step(t, rest) ==
    /\ t.to = "initiator" /\ ~ini.failed
    /\ ini' = Stepped(t).ini /\ Put(rest, Stepped(t).out)
    /\ UNCHANGED <<setup, acc>>

-----------------------------------------------------------------------------
(* Accept                                                                  *)

realmAllowed(realm) == realm \in setup.allowed
\* What ExchangeRaw brings from the realm's KDC, or the error that stands
\* for its failure
Answers(realm, request) ==
    IF request.op = "empty" THEN {Empty}
    ELSE IF request.op = "AS" THEN {KRBError("preauthRequired"), KRBError("error"), ASRep}
    ELSE {KRBError("error")} \cup {TGSRep(request.nonce, k, realm) : k \in Realms \cup {""}}

\* A proxied request: kept in the transcript even when it is then refused
heard(t) == [acc EXCEPT !.conversation = Append(@, t), !.hops = @ + 1]
proxyRealm(t) == IF t.realm = "" THEN setup.home ELSE t.realm
proxied(t) == heard(t).hops <= MaxProxyHops /\ (t.body.op # "empty" => realmAllowed(proxyRealm(t)))
Refuse(t, rest) ==
    /\ t.to = "acceptor" /\ t.kind = "proxy" /\ ~acc.failed
    /\ ~proxied(t)
    /\ acc' = [heard(t) EXCEPT !.failed = TRUE] /\ Put(rest, {})
    /\ UNCHANGED <<setup, ini>>
\* Mutant: the reply is left out of the transcript
answeredUnrecorded(a, reply) == a
answered(a, reply) == [a EXCEPT !.conversation = Append(@, reply)]
Forward(t, rest) ==
    /\ t.to = "acceptor" /\ t.kind = "proxy" /\ ~acc.failed
    /\ proxied(t)
    /\ \E body \in Answers(proxyRealm(t), t.body) :
        /\ acc' = answered(heard(t), Proxy("initiator", proxyRealm(t), body))
        /\ Put(rest, {Proxy("initiator", proxyRealm(t), body)})
    /\ UNCHANGED <<setup, ini>>
\* acceptWithConversation: the checksum is verified once there was a
\* conversation; a request is accepted once
finishedValid(t) == acc.conversation = <<>> \/ t.finished = acc.conversation
Accept(t, rest) ==
    /\ t.to = "acceptor" /\ t.kind = "AP" /\ ~acc.failed
    /\ IF t.service = "host" /\ finishedValid(t) /\ acc.accepted = <<>>
       THEN /\ acc' = [acc EXCEPT !.accepted = <<acc.conversation>>]
            /\ Put(rest, IF t.mutual THEN {[to |-> "initiator", kind |-> "APRep"]} ELSE {})
       ELSE acc' = [acc EXCEPT !.failed = TRUE] /\ Put(rest, {})
    /\ UNCHANGED <<setup, ini>>

Taken(t, rest) == Step(t, rest) \/ Refuse(t, rest) \/ Forward(t, rest) \/ Accept(t, rest)
Deliver == \E t \in flight : Taken(t, flight \ {t}) /\ UNCHANGED duplicates
Redeliver ==
    /\ duplicates < MaxDuplicates /\ duplicates' = duplicates + 1
    /\ \E t \in sent : Taken(t, flight)
Next == Start \/ Deliver \/ Redeliver
Fairness == WF_vars(Start) /\ WF_vars(Deliver)
Spec == Init /\ [][Next]_vars /\ Fairness

-----------------------------------------------------------------------------
(* Properties                                                              *)

\* The acceptor establishes a context after proxying only on the transcript
\* the initiator signed; and as long as no token was delivered twice the two
\* transcripts are the same when the AP request arrives, refused requests,
\* errors, discovery and referrals included.
TranscriptsAgree ==
    /\ acc.accepted # <<>> /\ acc.accepted # <<<<>>>> => acc.accepted = ini.ap
    /\ duplicates = 0 => \A t \in flight : t.kind = "AP" => t.finished = acc.conversation

\* Every conversation ends: the initiator has its context or an error, or the
\* acceptor has refused; the realms visited and the hops forwarded are bounded.
ConversationEnds == <>(ini.failed \/ acc.failed \/ ini.state = "Done")
=============================================================================
