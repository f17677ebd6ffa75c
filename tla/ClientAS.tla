------------------------------ MODULE ClientAS ------------------------------
(***************************************************************************)
(* The initial-credential exchanges of krb5/client: ASExchange,            *)
(* ASExchangeService and ASExchangeServiceWithKey, ASExchangeFAST,         *)
(* ASExchangeFASTOTP (as.go), ASExchangePKINIT and AnonymousASExchange     *)
(* (client.go), with the padata selection of krb5/preauth and the FAST     *)
(* armor of krb5/fast, for several calls in flight on one Client.          *)
(*                                                                         *)
(* A call is a record of Ops[c]: kind, the exchange; valid, that the       *)
(* arguments pass the checks at its head; cname; services, the candidates  *)
(* serviceCandidates returned; entry, the keytab key if one was given; and *)
(* module, how the registered preauthentication module behaves.            *)
(*                                                                         *)
(* A key is a tuple that says where it comes from: a password under an     *)
(* enctype and a salt, a SPAKE or Diffie-Hellman result, a FAST armor, a   *)
(* key strengthened by an armor, a module.  Two keys decrypt each other's  *)
(* messages when they are equal.  A nonce is the pair of the call and the  *)
(* candidate it was drawn for: 31 random bits are taken not to repeat.     *)
(***************************************************************************)
EXTENDS Integers, Sequences, FiniteSets

CONSTANTS Calls, Ops,
          Offered,        \* asRequestEnctypes, in order of preference
          Supported,      \* the enctypes of crypto.NewRegistry
          Preferred,      \* preferred_preauth_types
          SPAKEGroups, Canonicalize, ClockSkew,
          MethodDatas,    \* the METHOD-DATA a KDC of the realm sends
          DefaultSalt,    \* the realm and the components of the principal
          KDCSalt         \* the salt of the client's keys in the KDC

VARIABLES x,      \* x[c]: where call c stands
          wire    \* every request that was sent: a KDC may answer any of them

vars == <<x, wire>>

None == <<>>
RangeOf(s) == {s[i] : i \in DOMAIN s}
Pa(type, key, data) == [type |-> type, key |-> key, data |-> data]
Password(e, salt) == <<"password", e, salt>>
Armor(c) == <<"armor", c>>

Idle == [pc |-> "idle", op |-> None, cand |-> 1, phase |-> "first", pa |-> None,
         key |-> None, retries |-> 0, token |-> "", trips |-> 0, errors |-> None,
         result |-> None]

-----------------------------------------------------------------------------
(* krb5/preauth and the padata helpers of as.go                            *)

\* preauth.go: FindPAData: the first element of a type, or None
FindPAData(data, type) ==
    LET found == SelectSeq(data, LAMBDA p : p.type = type)
    IN  IF found = None THEN None ELSE <<found[1]>>

\* client.go: sortPreferredPadata moves the first element of each preferred
\* type to the front and keeps the order of the others
sortPreferredPadata(data) ==
    LET FirstOf(t) == {i \in DOMAIN data : data[i].type = t /\ \A j \in 1..i - 1 : data[j].type # t}
        Moved == UNION {FirstOf(t) : t \in RangeOf(Preferred)}
        Rank(i) == CHOOSE r \in DOMAIN Preferred : Preferred[r] = data[i].type
        Before(i, j) == \/ i \in Moved /\ (j \notin Moved \/ Rank(i) < Rank(j))
                        \/ i \notin Moved /\ j \notin Moved /\ i < j
        Place(i) == 1 + Cardinality({j \in DOMAIN data : Before(j, i)})
    IN  [k \in DOMAIN data |-> data[CHOOSE i \in DOMAIN data : Place(i) = k]]

\* preauth.go: SelectEType: the first ETYPE-INFO or ETYPE-INFO2 with an entry
\* the client offered and supports, in the client's order of preference
SelectEType(data) ==
    LET Usable(p) == {k \in DOMAIN Offered : /\ Offered[k] \in Supported
                                             /\ \E e \in RangeOf(p.data) : e.etype = Offered[k]}
        infos == SelectSeq(data, LAMBDA p : p.type \in {"etype-info", "etype-info2"} /\ Usable(p) # {})
        best == Offered[CHOOSE k \in Usable(infos[1]) : \A j \in Usable(infos[1]) : k <= j]
        entry == SelectSeq(infos[1].data, LAMBDA e : e.etype = best)[1]
    IN  IF infos = None THEN None
        ELSE <<[etype |-> best, salt |-> IF entry.salt = None THEN DefaultSalt ELSE entry.salt[1]]>>

\* as.go: processClientPreauthModules.  An informational module adds to the
\* request, a real one that answers takes the exchange over.
BuiltinPATypes == {"enc-timestamp", "enc-challenge", "spake", "otp-request", "pk-as-req"}
processClientPreauthModules(module, data, key) ==
    LET claimed == FindPAData(data, "custom") # None
        answer == <<Pa("custom", None, module)>>
    IN  IF module \in {"none", "silent"} \/ ~claimed
        THEN [pa |-> None, handled |-> FALSE, key |-> key, err |-> ""]
        ELSE IF module = "failing" THEN [pa |-> None, handled |-> FALSE, key |-> key, err |-> "module"]
        ELSE IF module = "info" THEN [pa |-> answer, handled |-> FALSE, key |-> key, err |-> ""]
        ELSE [pa |-> answer, handled |-> TRUE, key |-> <<"module", key>>, err |-> ""]

\* as.go: appendClientPreauthCookie
appendClientPreauthCookie(pa, data) == pa \o FindPAData(data, "cookie")

-----------------------------------------------------------------------------
(* Requests, and the answers an honest KDC can give to each                *)

Nonce(c) == <<c, x[c].cand>>
Armored(op) == op.kind \in {"fast", "otp"}

\* as.go: newASReq, newASReqForService and the padata of this round trip
Request(c) ==
    [call |-> c, nonce |-> Nonce(c), cname |-> x[c].op.cname,
     sname |-> x[c].op.services[x[c].cand], pa |-> x[c].pa, armored |-> Armored(x[c].op)]

Carries(r, type) == FindPAData(r.pa, type) # None
Proves(r) == \E t \in BuiltinPATypes \cup {"custom"} : Carries(r, t)

\* The keys the KDC may seal the answer in: the one the request proved, or,
\* for a principal that needs no preauthentication, any of its keys
KdcKeys(r) ==
    IF Proves(r)
    THEN LET p == r.pa[1] IN
         CASE p.type \in {"enc-timestamp", "enc-challenge"} ->
                  IF p.key = Password(p.key[2], KDCSalt) THEN {p.key} ELSE {}
           [] p.type = "spake" ->
                  IF p.key[2] = Password(p.key[2][2], KDCSalt) THEN {p.key} ELSE {}
           [] p.type = "otp-request" -> {Armor(r.call)}
           [] p.type = "custom" -> {<<"module", Password(e, KDCSalt)>> : e \in RangeOf(Offered)}
           [] OTHER -> {p.key}
    ELSE {Password(e, KDCSalt) : e \in RangeOf(Offered)}

FastPart(r, strengthen) ==
    [armor |-> Armor(r.call), nonce |-> r.nonce, cname |-> r.cname, strengthen |-> strengthen,
     challenge |-> IF Carries(r, "enc-challenge") THEN <<r.pa[1].key>> ELSE None]

ErrorOf(r, code, md) ==
    [type |-> "error", code |-> code, md |-> md, for |-> r,
     fast |-> IF r.armored THEN <<FastPart(r, FALSE)>> ELSE None]

ASRep(r, key, strengthen) ==
    [type |-> "as-rep", for |-> r, cname |-> r.cname, sname |-> r.sname, nonce |-> r.nonce,
     key |-> IF strengthen THEN <<"strengthened", key>> ELSE key,
     fast |-> IF r.armored THEN <<FastPart(r, strengthen)>> ELSE None,
     pk |-> Carries(r, "pk-as-req"), anonymous |-> r.cname = "anonymous", start |-> 0]

KdcErrors(r) ==
    {ErrorOf(r, code, None) : code \in {"generic", "S_PRINCIPAL_UNKNOWN"}}
    \cup IF Proves(r)
         THEN IF Carries(r, "pk-as-req")
              THEN {ErrorOf(r, "DH_KEY_PARAMETERS", md) : md \in {None, <<"td-dh-parameters">>}}
              ELSE {}
         ELSE {ErrorOf(r, "PREAUTH_REQUIRED", md) : md \in MethodDatas}
              \cup IF Carries(r, "spake-support")
                   THEN {ErrorOf(r, "MORE_PREAUTH", md) :
                             md \in {m \in MethodDatas : FindPAData(m, "spake") # None}}
                   ELSE {}

\* fast.go of the KDC: the finished message names the client as the reply does
Named(a, cname) ==
    [a EXCEPT !.cname = cname,
              !.fast = [i \in DOMAIN a.fast |-> [a.fast[i] EXCEPT !.cname = cname]]]

\* A clock ahead of the client's, a canonical name, a KDC without FAST or a
\* ticket without the anonymous flag: one deviation from the plain answer
KdcReplies(r) ==
    LET plain == UNION {{ASRep(r, k, s) : s \in {FALSE, r.armored}} : k \in KdcKeys(r)}
    IN  plain \cup UNION {{[a EXCEPT !.start = ClockSkew + 1], Named(a, "canonical"),
                           [a EXCEPT !.fast = None], [a EXCEPT !.anonymous = FALSE]} : a \in plain}

Answers(r) == KdcErrors(r) \cup KdcReplies(r)

-----------------------------------------------------------------------------
(* What the client makes of an answer                                      *)

Failed(err) == [ok |-> FALSE, err |-> err, cname |-> "", for |-> None]

\* client.go: validTimes, for a ticket that does not end before the skew
validTimes(start) == start <= ClockSkew

\* Mutant: the nonce is not compared
nonceIgnored(c, reply) == TRUE

\* as.go: the nonce of the request that is answered
nonceMatches(c, reply) == reply.nonce = Nonce(c)

\* as.go: decodeASRepForService: the checks on an AS-REP, in order
decodeASRepForService(c, reply, cname, key) ==
    IF reply.type = "error" THEN Failed(reply.code)
    ELSE IF reply.cname # cname /\ ~Canonicalize THEN Failed("client principal")
    ELSE IF reply.key # key THEN Failed("decrypt")
    ELSE IF ~nonceMatches(c, reply) THEN Failed("nonce")
    ELSE IF reply.sname # x[c].op.services[x[c].cand] THEN Failed("server principal")
    ELSE IF ~validTimes(reply.start) THEN Failed("skew")
    ELSE [ok |-> TRUE, err |-> "", cname |-> reply.cname, for |-> <<reply.for>>]

\* fast.go: UnwrapReply
UnwrapReply(c, reply) ==
    IF reply.fast = None THEN "no FAST reply"
    ELSE IF reply.fast[1].armor # Armor(c) THEN "FAST decrypt"
    ELSE IF reply.fast[1].nonce # Nonce(c) THEN "FAST nonce"
    ELSE "ok"

\* as.go: decodeFASTASRep: the armored answer, its reply challenge, the
\* strengthened key; the client name of the finished message replaces the one
\* in the reply and the one it is compared with
decodeFASTASRep(c, reply, key) ==
    IF reply.type = "error" THEN Failed(reply.code)
    ELSE IF UnwrapReply(c, reply) # "ok" THEN Failed(UnwrapReply(c, reply))
    ELSE LET part == reply.fast[1] IN
         IF part.challenge # None /\ part.challenge # <<key>> THEN Failed("challenge")
         ELSE decodeASRepForService(c, [reply EXCEPT !.cname = part.cname], part.cname,
                  IF part.strengthen THEN <<"strengthened", key>> ELSE key)

\* client.go: the tail of ASExchangePKINIT and AnonymousASExchange:
\* VerifyPAASRepWithContext, verifyAnonymousReplyKX, requireAnonymousTicketFlag
decodePKINIT(c, reply, key) ==
    IF reply.type = "error" THEN Failed(reply.code)
    ELSE IF ~reply.pk THEN Failed("no PA-PK-AS-REP")
    ELSE LET creds == decodeASRepForService(c, reply, x[c].op.cname, key) IN
         IF creds.ok /\ x[c].op.kind = "anonymous" /\ ~reply.anonymous
         THEN Failed("not anonymous") ELSE creds

\* The candidate loop of ASExchangeService: a second candidate is tried only
\* when the first is unknown to the KDC; the other exchanges have one
Finish(c, outcome) ==
    LET y == [x[c] EXCEPT !.errors = IF outcome.ok THEN @ ELSE Append(@, outcome.err)] IN
    IF outcome.ok \/ y.cand = Len(y.op.services)
       \/ (y.cand = 1 /\ outcome.err # "S_PRINCIPAL_UNKNOWN")
    THEN [y EXCEPT !.pc = "done", !.result = <<outcome>>]
    ELSE [y EXCEPT !.pc = "build", !.cand = @ + 1]

\* The next round trip of the same exchange
Resend(c, pa, key) == [x[c] EXCEPT !.pc = "send", !.phase = "second", !.pa = pa, !.key = key]

-----------------------------------------------------------------------------
(* The answer to PREAUTH_REQUIRED                                          *)

\* as.go: ASExchange's SPAKE branch, or None for timestampFallback
SpakeAnswer(c, data, key) ==
    LET p == FindPAData(data, "spake") IN
    IF p = None \/ p[1].data = None THEN None
    ELSE IF p[1].data[1].factor # "none" THEN <<"no supported factor">>
    ELSE IF p[1].data[1].group \notin SPAKEGroups THEN <<"group was not offered">>
    ELSE <<"ok">>

\* as.go: the password and keytab exchanges after the enctype is chosen
preauthenticate(c, data, sel, own) ==
    LET op == x[c].op
        m == processClientPreauthModules(op.module, data, own)
        stamp == <<Pa("enc-timestamp", m.key, "")>>
        spake == SpakeAnswer(c, data, m.key)
        k0 == <<"spake", m.key, Nonce(c)>>
    IN  IF m.err # "" THEN Finish(c, Failed(m.err))
        ELSE IF m.handled
        THEN Resend(c, appendClientPreauthCookie(m.pa, data), m.key)
        ELSE IF op.kind = "service" THEN Resend(c, stamp \o m.pa, m.key)
        ELSE IF op.kind = "fast"
        THEN Resend(c, appendClientPreauthCookie(
                           IF FindPAData(data, "enc-challenge") # None
                           THEN <<Pa("enc-challenge", m.key, "")>> ELSE stamp, data), m.key)
        ELSE IF spake = None THEN Resend(c, stamp \o m.pa, m.key)
        ELSE IF spake # <<"ok">> THEN Finish(c, Failed(spake[1]))
        ELSE Resend(c, appendClientPreauthCookie(<<Pa("spake", k0, "")>> \o m.pa, data), k0)

\* as.go: the head of that branch: sortPreferredPadata, SelectEType and the
\* key; a keytab entry of another enctype than the KDC's ends the exchange
selectKey(c, md) ==
    LET data == sortPreferredPadata(md)
        sel == SelectEType(data)
        entry == x[c].op.entry
    IN  IF sel = None THEN Finish(c, Failed("unsupported etype"))
        ELSE IF entry # None /\ entry[1][2] # sel[1].etype THEN Finish(c, Failed("keytab enctype"))
        ELSE preauthenticate(c, data, sel,
                 IF entry # None THEN entry[1] ELSE Password(sel[1].etype, sel[1].salt))

\* as.go: ASExchangeFASTOTP's answer to the challenge in the armored error
answerOTP(c, md) ==
    IF FindPAData(md, "otp-challenge") = None THEN Finish(c, Failed("no PA-OTP-CHALLENGE"))
    ELSE IF FindPAData(md, "otp-challenge")[1].data = None THEN Finish(c, Failed("no token information"))
    ELSE Resend(c, <<Pa("otp-request", Armor(c), "")>>, Armor(c))

\* pkinit's BuildPAASReqForPrincipalsWithFreshness: the signed request, with a
\* Diffie-Hellman value of its own each time it is built
PkASReq(c, retries, token) == <<Pa("pk-as-req", <<"dh", c, retries>>, token)>>
SendPkASReq(c, retries, token) ==
    [Resend(c, PkASReq(c, retries, token), <<"dh", c, retries>>)
        EXCEPT !.retries = retries, !.token = token]

\* as.go: freshnessTokenFromError
freshnessTokenFromError(md) ==
    LET p == FindPAData(md, "freshness") IN IF p = None THEN "" ELSE p[1].data

\* The first answer of every exchange
FirstAnswer(c, reply) ==
    LET kind == x[c].op.kind IN
    IF reply.type = "as-rep"
    THEN Finish(c, CASE kind \in {"as", "service"} ->
                            decodeASRepForService(c, reply, x[c].op.cname, x[c].key)
                     [] kind = "fast" -> decodeFASTASRep(c, reply, x[c].key)
                     [] kind = "pkinit" -> decodePKINIT(c, reply, None)
                     [] OTHER -> Failed("expected PREAUTH_REQUIRED"))
    ELSE IF reply.code # "PREAUTH_REQUIRED" /\ ~(kind = "as" /\ reply.code = "MORE_PREAUTH")
    THEN Finish(c, Failed(reply.code))
    ELSE IF Armored(x[c].op) /\ UnwrapReply(c, reply) # "ok"
    THEN Finish(c, Failed(UnwrapReply(c, reply)))
    ELSE IF kind = "otp" THEN answerOTP(c, reply.md)
    ELSE IF kind \in {"pkinit", "anonymous"}
    THEN SendPkASReq(c, 0, freshnessTokenFromError(reply.md))
    ELSE selectKey(c, reply.md)

\* as.go: retryPKINITDHParameters: at most two retries, and only for an error
\* that names parameters.  The anonymous exchange takes the freshness token
\* from that error, which carries none; the signed one keeps the first.
retryPKINITDHParameters(c, reply) ==
    reply.code = "DH_KEY_PARAMETERS" /\ x[c].retries < 2 /\ reply.md # None

\* The answer to a request that carries the preauthentication
SecondAnswer(c, reply) ==
    LET kind == x[c].op.kind IN
    IF kind \in {"pkinit", "anonymous"}
    THEN IF reply.type = "error" /\ retryPKINITDHParameters(c, reply)
         THEN SendPkASReq(c, x[c].retries + 1, IF kind = "pkinit" THEN x[c].token ELSE "")
         ELSE Finish(c, decodePKINIT(c, reply, x[c].key))
    ELSE Finish(c, IF Armored(x[c].op) THEN decodeFASTASRep(c, reply, x[c].key)
                   ELSE decodeASRepForService(c, reply, x[c].op.cname, x[c].key))

-----------------------------------------------------------------------------
(* The steps of a call                                                     *)

\* The call starts; arguments that the head of the function refuses end it
Start(c) ==
    /\ x[c].pc = "idle"
    /\ \E op \in Ops[c] :
          x' = [x EXCEPT ![c] = IF op.valid THEN [Idle EXCEPT !.pc = "build", !.op = op]
                                ELSE [Idle EXCEPT !.pc = "done", !.op = op,
                                                  !.result = <<Failed("arguments")>>]]
    /\ UNCHANGED wire

\* The first request of an exchange: the first supported enctype, the key an
\* unsolicited AS-REP would be sealed in, and the padata it is sent with
InitialKey(op) ==
    LET e == SelectSeq(Offered, LAMBDA t : t \in Supported)[1]
    IN  IF op.entry # None THEN op.entry[1] ELSE Password(e, DefaultSalt)
FirstPA(op) ==
    CASE op.kind = "as" -> <<Pa("spake-support", None, "")>>
      [] op.kind \in {"pkinit", "anonymous"} -> <<Pa("as-freshness", None, "")>>
      [] OTHER -> None
Build(c) ==
    /\ x[c].pc = "build"
    /\ x' = [x EXCEPT ![c] = IF \E e \in RangeOf(Offered) : e \in Supported
                             THEN [@ EXCEPT !.pc = "send", !.phase = "first", !.retries = 0,
                                            !.pa = FirstPA(x[c].op), !.key = InitialKey(x[c].op)]
                             ELSE Finish(c, Failed("unsupported etype"))]
    /\ UNCHANGED wire

\* client.go: roundTrip: the request goes out ...
Send(c) ==
    /\ x[c].pc = "send"
    /\ x' = [x EXCEPT ![c].pc = "wait", ![c].trips = @ + 1]
    /\ wire' = wire \cup {Request(c)}

\* ... and an answer comes back: to this request, or one that was delayed or
\* duplicated and belongs to another request of the same client
Receive(c) ==
    /\ x[c].pc = "wait"
    /\ \E r \in wire : \E reply \in Answers(r) :
          x' = [x EXCEPT ![c] = IF @.phase = "first" THEN FirstAnswer(c, reply) ELSE SecondAnswer(c, reply)]
    /\ UNCHANGED wire

\* ... or the transport gives up (no KDC configured, refused, timed out)
TransportFails(c) ==
    /\ x[c].pc = "wait"
    /\ x' = [x EXCEPT ![c] = Finish(c, Failed("transport"))]
    /\ UNCHANGED wire

Init == x = [c \in Calls |-> Idle] /\ wire = {}
Next == \E c \in Calls : Start(c) \/ Build(c) \/ Send(c) \/ Receive(c) \/ TransportFails(c)

\* Every call runs in its own goroutine, and the transport of a call that
\* waits ends by its deadline at the latest
Fairness == \A c \in Calls : WF_vars(Build(c) \/ Send(c) \/ Receive(c) \/ TransportFails(c))
Spec == Init /\ [][Next]_vars /\ Fairness

-----------------------------------------------------------------------------
Returned(c) == x[c].pc = "done" /\ x[c].result[1].ok

(* A call returns credentials only from an answer to one of its own        *)
(* requests and for the candidate it was asking for, however the answers   *)
(* to several calls were delayed or swapped (decodeASRepForService,        *)
(* UnwrapReply).  They are for the name it asked for, unless the client    *)
(* canonicalizes or the call is armored: decodeFASTASRep puts the name of  *)
(* the finished message in place of both names before they are compared,   *)
(* so an armored call takes the name the KDC gave it whatever Canonicalize *)
(* says.                                                                   *)
AnswersOwnRequest ==
    \A c \in Calls : Returned(c) =>
        LET r == x[c].result[1].for[1] IN
        /\ r.call = c /\ r.nonce = Nonce(c)
        /\ r.sname = x[c].op.services[x[c].cand]
        /\ x[c].result[1].cname = x[c].op.cname \/ Canonicalize \/ Armored(x[c].op)

(* The next candidate of a service is asked for only after the KDC said    *)
(* that it does not know the first one.                                    *)
RetryOnlyUnknown ==
    \A r \in wire : r.nonce[2] > 1 => x[r.call].errors[1] = "S_PRINCIPAL_UNKNOWN"

(* The calls make at most two round trips per candidate, and four when the *)
(* KDC makes a PKINIT client change its Diffie-Hellman parameters.         *)
RoundTripsBounded ==
    \A c \in Calls : x[c].pc # "idle" =>
        x[c].trips <= IF x[c].op.kind \in {"pkinit", "anonymous"} THEN 4 ELSE 2 * x[c].cand

(* Every PKINIT request of an exchange echoes the freshness token that     *)
(* the KDC returned with PREAUTH_REQUIRED, also after a retry with other   *)
(* Diffie-Hellman parameters.                                              *)
SameToken(kinds) ==
    \A p, s \in wire : /\ p.call = s.call /\ x[p.call].op.kind \in kinds
                       /\ Carries(p, "pk-as-req") /\ Carries(s, "pk-as-req")
                       => p.pa[1].data = s.pa[1].data
SignedTokenEchoed == SameToken({"pkinit"})
EveryTokenEchoed == SameToken({"pkinit", "anonymous"})

(* Every call returns.                                                     *)
CallsReturn == \A c \in Calls : x[c].pc = "build" ~> x[c].pc = "done"

=============================================================================
