------------------------------- MODULE KdcAS --------------------------------
(***************************************************************************)
(* The AS exchange of krb5/kdc/as.go: handleASReqCore with every           *)
(* preauthentication mechanism the KDC has (modules, OTP, encrypted        *)
(* challenge, SPAKE, PKINIT, encrypted timestamp), unwrapFASTASReq,        *)
(* validateASAccount and buildASRepWithPreauth.                            *)
(*                                                                         *)
(* A request is a record: client, service, etypes, options, from, till and *)
(* rtime of its body; pas, the set of preauthentication elements it        *)
(* carries; armor, the FAST armor it is wrapped in; and what stands for    *)
(* the secrets in it: key, the version of the client's key it was made     *)
(* with (0 when it is none of them), stamp, the time in it, cookie, token, *)
(* otp, cert and factor, and customs, the modules it has data for with     *)
(* verdict, what each module finds.                                        *)
(***************************************************************************)
EXTENDS KdcPolicy

(* What handleASReqCore does: the error code or the ticket it answers, the *)
(* cookie or token it hands out, and what it records about the client.     *)
Refuse(code) == [code |-> code, ticket |-> None, offer |-> None, recorded |-> "nothing"]
Offer(code, what) == [Refuse(code) EXCEPT !.offer = what]
WithFailure(reply) == [reply EXCEPT !.recorded = "failure"]
WithSuccess(reply) == [reply EXCEPT !.recorded = "success"]

PF == Refuse("PREAUTH_FAILED")

-----------------------------------------------------------------------------
\* as.go: unwrapFASTASReq
unwrapFASTASReq(armor) ==
    LET t == armor[1].ticket IN
    IF armor = None THEN "ok"
    ELSE IF t.service # Krbtgt \/ ~selectKVNO(db[Krbtgt], t.label, t.kvno) \/ t.label # t.etype
    THEN "PREAUTH_FAILED"
    ELSE IF ticketValidity(t, FALSE) # "ok" THEN ticketValidity(t, FALSE)
    ELSE IF ~withinSkew(armor[1].ctime) THEN "PREAUTH_FAILED"
    ELSE IF ~armor[1].sound THEN "BAD_INTEGRITY"
    ELSE "ok"

\* as.go: validateASAccount
validateASAccount(client, service, options) ==
    IF expired(client) THEN "NAME_EXP"
    ELSE IF passwordExpiredForService(client, service) THEN "KEY_EXPIRED"
    ELSE IF expired(service) THEN "SERVICE_EXP"
    ELSE IF "disallow_all" \in client.flags THEN "CLIENT_REVOKED"
    ELSE IF "disallow_all" \in service.flags THEN "S_PRINCIPAL_UNKNOWN"
    ELSE IF "disallow_server" \in service.flags THEN "MUST_USE_USER2USER"
    ELSE IF "requires_pwchange" \in client.flags /\ "pwchange_service" \notin service.flags
    THEN "KEY_EXPIRED"
    ELSE IF /\ options \cap {"allow_postdate", "postdated"} # {}
            /\ "postdated" \in client.disallow \cup service.disallow
    THEN "CANNOT_POSTDATE"
    ELSE "ok"

\* as.go: selectASKeys: the first requested enctype both records have
selectASKeys(etypes, client, service) == firstCommon(etypes, {client, service})

-----------------------------------------------------------------------------
\* preauth.go: customPreauthRequired
RequiredModules == {m \in DOMAIN server.modules : "required" \in server.modules[m]}

\* preauth.go: verifyPreauthModules
verifyPreauthModules(customs, verdict) ==
    LET step(acc, m) ==
            LET flags == server.modules[m] IN
            IF acc.stop \/ verdict[m] = "declined" THEN acc
            ELSE IF verdict[m] = "error" \/ ("replaces" \in flags /\ acc.replaced)
            THEN [acc EXCEPT !.stop = TRUE, !.error = TRUE]
            ELSE [auth |-> TRUE, hw |-> acc.hw \/ "hardware" \in flags,
                  replaced |-> acc.replaced \/ "replaces" \in flags,
                  verified |-> acc.verified \cup ({m} \cap RequiredModules),
                  late |-> acc.late \/ verdict[m] = "late",    \* its ReturnPadata will fail
                  error |-> FALSE, stop |-> "sufficient" \in flags]
    IN FoldLeft(step, [auth |-> FALSE, hw |-> FALSE, replaced |-> FALSE, verified |-> {},
                       late |-> FALSE, error |-> FALSE, stop |-> FALSE], customs)

\* preauth.go: customPreauthFailure, customPreauthSatisfied
customPreauthSatisfied(custom) == RequiredModules \subseteq custom.verified

-----------------------------------------------------------------------------
(* The reply.  x is what handleASReqCore has found: the names and records  *)
(* of client and service, etype, ckey (the version of the client's key, 0  *)
(* if none was selected), the result of the modules, and armored.          *)

\* as.go: buildASRepWithPreauth: the flags asked for and granted
asFlags(req, x, preauth, hw) ==
    LET asked == {"forwardable", "proxiable"} \cap req.options IN
    applyFlagPolicies({"initial"} \cup asked, {x.client, x.service})
        \cup (IF preauth THEN {"pre_authent"} ELSE {})
        \cup (IF hw THEN {"hw_authent"} ELSE {})
        \cup (IF "anonymous" \in req.options THEN {"anonymous"} ELSE {})
        \cup (IF "allow_postdate" \in req.options THEN {"may_postdate"} ELSE {})
        \cup (IF "postdated" \in req.options THEN {"postdated", "invalid"} ELSE {})

badPostdate(req) ==
    \/ req.from <= now
    \/ req.till # 0 /\ req.till <= req.from

\* as.go: buildASRepWithPreauth: the times, and the ticket
asRenew(req, start, end, recs) ==
    IF "renewable" \in server.allowed /\ \A r \in recs : "renewable" \notin r.disallow
    THEN constrainRenew(renewTillRecords(req.options, req.rtime, req.till, start, end, recs))
    ELSE None

issueTicket(x, flags, indicators, etype, proof, start, end, renew) ==
    [client |-> x.cname, service |-> x.sname, label |-> etype, etype |-> x.etype,
     kvno |-> x.service.keys[x.etype], session |-> etype, u2u |-> FALSE,
     flags |-> IF renew = None THEN flags ELSE flags \cup {"renewable"},
     auth |-> now, start |-> Some(start), end |-> constrainEnd(end), renew |-> renew,
     indicators |-> indicators, mac |-> IF indicators = {} THEN 0 ELSE freshnessKey,
     pac |-> IF server.pac THEN freshnessKey ELSE 0, transited |-> <<>>,
     issued |-> now, root |-> [proof |-> proof, renew |-> renew, indicators |-> indicators,
                               agreed |-> x.custom.verified]]

\* as.go: buildASRepWithPreauth.  replyKey: a key of the mechanism encrypts the
\* reply; without one the client's key does, if one was selected.
buildASRep(req, x, preauth, hw, indicators, etype, replyKey, proof) ==
    LET start == IF "postdated" \in req.options THEN req.from ELSE now
        recs == {x.client, x.service}
        end == ticketEndFromRecords(req.till, start, recs)
    IN IF ~requireAuth(x.service, indicators) THEN Refuse("POLICY")
       ELSE IF "postdated" \in req.options /\ (badPostdate(req) \/ "allow_postdate" \notin req.options)
       THEN Refuse("CANNOT_POSTDATE")
       ELSE IF vetoed(x.cname, x.sname) THEN Refuse("POLICY")
       ELSE IF ~replyKey /\ x.ckey = 0 THEN Refuse("GENERIC")
       ELSE [Refuse("ok") EXCEPT !.ticket =
                Some(issueTicket(x, asFlags(req, x, preauth, hw), indicators, etype, proof, start, end,
                                 asRenew(req, start, end, recs)))]

-----------------------------------------------------------------------------
(* The mechanisms, each from the point where handleASReqCore has chosen    *)
(* it.  hwRequired: only hardware preauthentication will do.               *)

hwRequired(x) == "requires_hw_auth" \in x.client.flags

\* what the mechanisms do once the secret is proved right
\* Mutant: the modules the KDC requires are not asked.
afterProofAlone(req, x, hw, indicators, etype, replyKey, proof) ==
    buildASRep(req, x, TRUE, hw, indicators, etype, replyKey, proof)

afterProof(req, x, hw, indicators, etype, replyKey, proof) ==
    IF ~customPreauthSatisfied(x.custom) THEN PF
    ELSE buildASRep(req, x, TRUE, hw, indicators, etype, replyKey, proof)

\* encrypted challenge, SPAKE and encrypted timestamp go on alike
passwordProved(req, x, indicators, replyKey) ==
    IF passwordExpiredForService(x.client, x.service) THEN Refuse("KEY_EXPIRED")
    ELSE IF ~authorized(x.cname, x.sname) THEN Refuse("POLICY")
    ELSE IF hwRequired(x) THEN PF
    ELSE WithSuccess(afterProof(req, x, FALSE, indicators, x.etype, replyKey, "password"))

modulesProved(req, x) ==
    IF ~customPreauthSatisfied(x.custom) \/ (hwRequired(x) /\ ~x.custom.hw) THEN PF
    ELSE IF ~authorized(x.cname, x.sname) THEN Refuse("POLICY")
    ELSE IF x.ckey = 0 /\ ~x.custom.replaced THEN PF
    ELSE WithSuccess(IF x.custom.late THEN PF
                     ELSE buildASRep(req, x, TRUE, x.custom.hw, server.indicators.modules, x.etype,
                              x.custom.replaced, IF x.custom.hw THEN "hardware" ELSE "modules"))

verifyOTP(req, x) ==
    IF ~x.armored \/ ~server.otp \/ ~withinSkew(req.stamp) THEN PF
    ELSE IF req.otp # "right" THEN WithFailure(PF)
    ELSE IF hwRequired(x) THEN PF
    ELSE WithSuccess(IF ~authorized(x.cname, x.sname) THEN Refuse("POLICY")
                     ELSE afterProof(req, x, FALSE, server.indicators.otp,
                                     req.armor[1].ticket.session, TRUE, "otp"))

\* any key of the client will do, whatever its enctype
encryptedChallenge(req, x) ==
    IF ~x.armored THEN PF
    ELSE IF \A e \in DOMAIN x.client.keys : x.client.keys[e] # req.key THEN WithFailure(PF)
    ELSE IF ~withinSkew(req.stamp) THEN Refuse("SKEW")
    ELSE passwordProved(req, [x EXCEPT !.ckey = req.key], server.indicators.challenge, FALSE)

\* the challenge is masked with the client's key of this moment
spakeChallenge(x) ==
    IF x.ckey = 0 THEN PF
    ELSE Offer(IF x.armored THEN "PREAUTH_REQUIRED" ELSE "MORE_PREAUTH",
               Some([kind |-> "cookie", at |-> now, key |-> x.ckey]))

\* kdc.go: parseSPAKECookie, and the response: both sides agree only when the
\* client's key, the key of the challenge and the key of now are the same.
\* factor: "none", as the KDC wants it, sealed under another "etype", or "other"
spakeResponse(req, x) ==
    IF req.cookie = None \/ x.ckey = 0 THEN PF
    ELSE IF now > req.cookie[1].at + CookieLife THEN PF
    ELSE IF req.factor = "etype" THEN PF
    ELSE IF req.key # x.ckey \/ req.cookie[1].key # x.ckey \/ req.factor # "none" THEN WithFailure(PF)
    ELSE passwordProved(req, x, server.indicators.spake, TRUE)

\* pkinit_freshness.go: makeFreshnessToken, verifyFreshnessToken
freshnessToken == Some([kind |-> "token", at |-> now, key |-> freshnessKey])
verifyFreshnessToken(token) ==
    /\ now <= token.at + TokenLife
    /\ \E e \in DOMAIN db[Krbtgt].keys : db[Krbtgt].keys[e] = token.key

\* certauth.go decides on the certificate; req.cert is what it finds
verifyPKINIT(req, x) ==
    LET anonymous == "anonymous" \in req.options IN
    IF server.pkinit = "off" \/ (~anonymous /\ server.pkinit # "clients") THEN PF
    ELSE IF ~withinSkew(req.stamp) THEN PF
    ELSE IF req.token # None /\ ~verifyFreshnessToken(req.token[1])
    THEN Offer("PREAUTH_EXPIRED", freshnessToken)
    ELSE IF req.token = None /\ server.requireFreshness /\ ~anonymous
    THEN Offer("PREAUTH_FAILED", freshnessToken)
    ELSE IF anonymous # (req.cert = "unsigned") THEN PF
    ELSE IF req.cert \in {"untrusted", "refused"} THEN Refuse("CLIENT_NOT_TRUSTED")
    ELSE IF hwRequired(x) /\ req.cert # "hardware" THEN PF
    ELSE IF passwordExpiredForService(x.client, x.service) THEN Refuse("KEY_EXPIRED")
    ELSE WithSuccess(IF ~authorized(x.cname, x.sname) THEN Refuse("POLICY")
                     ELSE IF ~req.group THEN Refuse("DH_KEY_PARAMETERS")
                     ELSE afterProof(req, x, req.cert = "hardware",
                                     IF anonymous THEN {} ELSE server.indicators.pkinit, x.etype, TRUE,
                                     IF req.cert = "hardware" THEN "hardware" ELSE "certificate"))

\* Mutant: a wrong timestamp key is not recorded.
encryptedTimestampUncounted(req, x) ==
    IF x.ckey = 0 \/ req.key # x.ckey THEN PF
    ELSE IF ~withinSkew(req.stamp) THEN Refuse("SKEW")
    ELSE passwordProved(req, x, {}, FALSE)

encryptedTimestamp(req, x) ==
    IF x.ckey = 0 \/ req.key # x.ckey THEN WithFailure(PF)
    ELSE IF ~withinSkew(req.stamp) THEN Refuse("SKEW")
    ELSE passwordProved(req, x, {}, FALSE)

\* as.go: no element of a mechanism the KDC goes on with
noPreauth(req, x, preauthRequired) ==
    IF preauthRequired
    THEN Offer("PREAUTH_REQUIRED", IF "freshness" \in req.pas /\ server.pkinit = "clients"
                                   THEN freshnessToken ELSE None)
    ELSE IF passwordExpiredForService(x.client, x.service) THEN Refuse("KEY_EXPIRED")
    ELSE IF ~authorized(x.cname, x.sname) THEN Refuse("POLICY")
    ELSE buildASRep(req, x, FALSE, FALSE, {}, x.etype, FALSE, "none")

-----------------------------------------------------------------------------
\* as.go: handleASReqCore: which mechanism a request is answered with
choosePreauth(req, x) ==
    LET pas == req.pas
        anonymous == "anonymous" \in req.options
        preauthRequired == ~server.disablePreauth \/ RequiredModules # {}
                           \/ {"requires_preauth", "requires_hw_auth"} \cap x.client.flags # {}
        soft == ~anonymous /\ ~hwRequired(x)    \* a mechanism without hardware may do
        spake == pas \cap {"spake_support", "spake_other", "spake_response"}
    IN IF x.custom.error THEN PF
       ELSE IF x.custom.auth THEN modulesProved(req, x)
       ELSE IF anonymous /\ "pkinit" \notin pas
       THEN IF server.pkinit = "off" THEN Refuse("BADOPTION")
            ELSE Offer("PREAUTH_REQUIRED", IF "freshness" \in pas THEN freshnessToken ELSE None)
       ELSE IF server.otp /\ soft /\ preauthRequired /\ pas \cap {"pkinit", "timestamp", "otp"} = {} /\ spake = {}
       THEN IF x.armored THEN Offer("PREAUTH_REQUIRED", None) ELSE PF
       ELSE IF "otp" \in pas THEN verifyOTP(req, x)
       ELSE IF server.otp /\ soft /\ ~x.armored THEN PF
       ELSE IF "challenge" \in pas THEN encryptedChallenge(req, x)
       ELSE IF soft /\ server.spake /\ preauthRequired /\ pas \cap {"pkinit", "timestamp"} = {} /\ spake = {}
       THEN Offer("PREAUTH_REQUIRED", None)
       ELSE IF /\ soft /\ server.spake /\ "spake_support" \in pas
               /\ pas \cap {"pkinit", "timestamp"} = {} /\ ~server.disablePreauth
       THEN spakeChallenge(x)
       ELSE IF "spake_response" \in pas THEN spakeResponse(req, x)
       ELSE IF "pkinit" \in pas THEN verifyPKINIT(req, x)
       ELSE IF "timestamp" \in pas THEN encryptedTimestamp(req, x)
       ELSE noPreauth(req, x, preauthRequired)

NoRecord == [keys |-> <<>>, history |-> {}, flags |-> {}, disallow |-> {}, expiration |-> 0,
             pwExpiration |-> 0, maxLife |-> 0, maxRenew |-> 0, require |-> {}, policy |-> 0]

\* as.go: handleASReqCore: the name the client has here, and its record
findClient(req) ==
    IF "anonymous" \in req.options THEN Some(Anonymous)
    ELSE IF req.client \in DOMAIN db THEN Some(req.client)
    ELSE IF "canonicalize" \in req.options THEN lookupAlias(req.client) ELSE None

clientRecord(req) == IF "anonymous" \in req.options THEN NoRecord ELSE db[findClient(req)[1]]

\* as.go: handleASReqCore: the enctype of the reply, and the version of the
\* client's key of that enctype (0 if none was selected)
selectKeys(req, client, service) ==
    LET keyless == "pkinit" \in req.pas \/ "anonymous" \in req.options \/ server.otp
        both == IF keyless THEN None ELSE selectASKeys(req.etypes, client, service)
        alone == IF keyless \/ DOMAIN server.modules # {} \/ server.pkinit = "clients"
                 THEN selectServiceKey(req.etypes, service) ELSE None
    IN [etype |-> IF both # None THEN both ELSE alone,
        ckey |-> IF both = None THEN 0 ELSE client.keys[both[1]]]

\* as.go: handleASReqCore: armor, names, accounts and keys
checkASReq(req) ==
    LET anonymous == "anonymous" \in req.options
        found == findClient(req)
    IN IF unwrapFASTASReq(req.armor) # "ok" THEN unwrapFASTASReq(req.armor)
       ELSE IF anonymous /\ req.client # Anonymous THEN "BADOPTION"
       ELSE IF found = None THEN "C_PRINCIPAL_UNKNOWN"
       ELSE IF ~anonymous /\ lockedOut(found[1]) THEN "CLIENT_REVOKED"
       ELSE IF restrictAnonymous(found[1], req.service) THEN "POLICY"
       ELSE IF req.service \notin DOMAIN db THEN "S_PRINCIPAL_UNKNOWN"
       ELSE IF validateASAccount(clientRecord(req), db[req.service], req.options) # "ok"
       THEN validateASAccount(clientRecord(req), db[req.service], req.options)
       ELSE IF selectKeys(req, clientRecord(req), db[req.service]).etype = None THEN "ETYPE_NOSUPP"
       ELSE "ok"

\* as.go: handleASReqCore: what it has found once the checks are passed
foundFor(req) ==
    LET keys == selectKeys(req, clientRecord(req), db[req.service])
    IN [cname |-> findClient(req)[1], client |-> clientRecord(req),
        sname |-> req.service, service |-> db[req.service],
        etype |-> keys.etype[1], ckey |-> keys.ckey,
        custom |-> verifyPreauthModules(req.customs, req.verdict), armored |-> req.armor # None]

handleASReqCore(req) ==
    IF checkASReq(req) # "ok" THEN Refuse(checkASReq(req)) ELSE choosePreauth(req, foundFor(req))
=============================================================================
