------------------------------- MODULE KdcTGS -------------------------------
(***************************************************************************)
(* The TGS exchange of krb5/kdc/tgs.go: handleTGSReqCore with renewal,     *)
(* validation, postdating, forwarding, referrals, S4U2Self, S4U2Proxy and  *)
(* user-to-user, replayed (kdc.go) and buildTGSRep.                        *)
(*                                                                         *)
(* A request is a record: header, the ticket it presents; ctime, the time  *)
(* of its authenticator; service, etypes, options, from, till and rtime of *)
(* its body; s4u, the user of a PA-S4U element; second, its additional     *)
(* ticket; sound, whether its FAST wrapper (if any) and its checksums      *)
(* verify; and authdata, what its encrypted authorization data holds.      *)
(***************************************************************************)
EXTENDS KdcAS

VARIABLES replays       \* Server.replays: authenticator -> expiry

Has(req, option) == option \in req.options
HasAny(req, options) == options \cap req.options # {}

\* A record's keys open a ticket when the version in the ticket is retained;
\* a user-to-user ticket is not under a key of its service.
opens(name, t) ==
    /\ name \in DOMAIN db /\ ~t.u2u /\ t.label = t.etype
    /\ selectKVNO(db[name], t.label, t.kvno)

isTGS(p) == p \in DOMAIN Leads

-----------------------------------------------------------------------------
\* tgs.go: handleTGSReqCore: the header ticket and its authenticator
checkHeader(req) ==
    IF req.header.service \notin DOMAIN db THEN "S_PRINCIPAL_UNKNOWN"
    ELSE IF ~opens(req.header.service, req.header) THEN "BAD_INTEGRITY"
    ELSE IF ~withinSkew(req.ctime) THEN "SKEW"
    ELSE IF ~req.sound THEN "BAD_INTEGRITY"
    ELSE IF /\ Has(req, "enc_tkt_in_skey")
            /\ \/ req.second = None \/ RealmOf[req.service] # Realm
               \/ HasAny(req, {"renew", "validate", "forwarded", "proxy", "cname_in_addl_tkt"})
    THEN "BADOPTION"
    ELSE "ok"

\* tgs.go: handleTGSReqCore: whether the header ticket serves its purpose now
checkValidity(req) ==
    LET t == req.header IN
    IF Has(req, "renew")
    THEN IF ticketValidity(t, FALSE) # "ok" THEN ticketValidity(t, FALSE)
         ELSE IF "renewable" \notin t.flags THEN "BADOPTION"
         ELSE IF t.renew = None \/ now > t.renew[1] THEN "TKT_EXPIRED"
         ELSE "ok"
    ELSE IF Has(req, "validate")
    THEN IF "invalid" \notin t.flags THEN "BADOPTION"
         ELSE IF t.start # None /\ now < t.start[1] THEN "TKT_NYV"
         ELSE ticketValidity(t, TRUE)
    ELSE ticketValidity(t, FALSE)

\* tgs.go: handleTGSReqCore and validateS4UClient: an account that may not get
\* tickets any more
checkAccountExpiry(name) ==   \* mutant: disallow_all is not looked at
    IF name \in DOMAIN db /\ expired(db[name]) THEN "NAME_EXP" ELSE "ok"

checkAccount(name) ==
    IF name \notin DOMAIN db THEN "ok"
    ELSE IF expired(db[name]) THEN "NAME_EXP"
    ELSE IF "disallow_all" \in db[name].flags THEN "CLIENT_REVOKED"
    ELSE "ok"

\* tgs.go: handleTGSReqCore: options the header ticket does not allow
checkOptions(req) ==
    IF Has(req, "postdated") /\ ~Has(req, "allow_postdate") THEN "CANNOT_POSTDATE"
    ELSE IF \/ HasAny(req, {"allow_postdate", "postdated"}) /\ "may_postdate" \notin req.header.flags
            \/ Has(req, "forwarded") /\ "forwardable" \notin req.header.flags
            \/ Has(req, "proxy") /\ "proxiable" \notin req.header.flags
    THEN "BADOPTION"
    ELSE "ok"

\* tgs.go: handleTGSReqCore: the service the ticket is for, with referrals
\* (kdc.go: referralAllowed) and aliases.  name: as the ticket names it;
\* record: whose record it gets.
findService(req) ==
    LET plain(p) == [name |-> p, record |-> p]
        referral == {p \in DOMAIN Leads : RealmOf[p] = Realm /\ Leads[p] = RealmOf[req.service]}
        alias == lookupAlias(req.service)
    IN IF HasAny(req, {"renew", "validate"}) THEN Some(plain(req.header.service))
       ELSE IF RealmOf[req.service] # Realm
       THEN IF /\ req.service \in server.referrals /\ referral # {}
               /\ Has(req, "canonicalize") /\ ~Has(req, "enc_tkt_in_skey")
            THEN Some(plain(CHOOSE p \in referral : TRUE)) ELSE None
       ELSE IF req.service \in DOMAIN db \/ alias = None THEN Some(plain(req.service))
       ELSE Some([name |-> IF Has(req, "canonicalize") THEN alias[1] ELSE req.service,
                  record |-> alias[1]])

\* tgs.go: handleTGSReqCore: what the service's record forbids
checkService(req, rec) ==
    LET t == req.header IN
    IF expired(rec) THEN "SERVICE_EXP"
    ELSE IF "disallow_all" \in rec.flags THEN "S_PRINCIPAL_UNKNOWN"
    ELSE IF "disallow_server" \in rec.flags /\ ~Has(req, "enc_tkt_in_skey") THEN "MUST_USE_USER2USER"
    ELSE IF Has(req, "renewable") /\ "renewable" \in rec.disallow THEN "POLICY"
    ELSE IF Has(req, "allow_postdate") /\ "postdated" \in rec.disallow THEN "CANNOT_POSTDATE"
    ELSE IF \/ Has(req, "enc_tkt_in_skey") /\ "dup_skey" \in rec.disallow
            \/ "tgt_based" \in rec.disallow /\ isTGS(t.service)
    THEN "POLICY"
    ELSE IF \/ "requires_hw_auth" \in rec.flags /\ "hw_authent" \notin t.flags
            \/ "requires_preauth" \in rec.flags /\ "pre_authent" \notin t.flags
    THEN "GENERIC"
    ELSE "ok"

-----------------------------------------------------------------------------
\* tgs.go: handleTGSReqCore: S4U2Self: a service asks for a ticket to itself
\* in a user's name
checkS4USelf(req, service) ==
    IF req.s4u = None THEN "ok"
    ELSE IF service # req.header.client \/ Has(req, "cname_in_addl_tkt") THEN "BADOPTION"
    ELSE IF RealmOf[req.s4u[1]] # Realm \/ req.s4u[1] \notin DOMAIN db THEN "C_PRINCIPAL_UNKNOWN"
    ELSE checkAccount(req.s4u[1])

\* tgs.go: handleTGSReqCore: S4U2Proxy: a service presents a user's ticket to
\* itself (the evidence) for a ticket to another service in the user's name
checkS4UProxy(req, service) ==
    LET t == req.second[1]
        requester == req.header.client IN
    IF ~Has(req, "cname_in_addl_tkt") THEN "ok"
    ELSE IF \/ server.delegates = None \/ req.second = None
            \/ HasAny(req, {"renew", "validate", "forwarded", "proxy", "enc_tkt_in_skey"})
    THEN "BADOPTION"
    ELSE IF isTGS(service) \/ requester \notin DOMAIN db THEN "POLICY"
    ELSE IF ~opens(requester, t) THEN "BAD_INTEGRITY"
    ELSE IF t.service # requester \/ "forwardable" \notin t.flags THEN "BADOPTION"
    ELSE IF ticketValidity(t, FALSE) # "ok" THEN ticketValidity(t, FALSE)
    ELSE IF t.mac # 0 /\ t.mac # freshnessKey THEN "BAD_INTEGRITY"
    ELSE IF t.pac = 0 THEN "BADOPTION"
    ELSE IF t.pac # freshnessKey THEN "BAD_INTEGRITY"
    ELSE IF checkAccount(t.client) # "ok" THEN checkAccount(t.client)
    ELSE IF <<requester, service>> \notin server.delegates[1] THEN "BADOPTION"
    ELSE "ok"

\* tgs.go: handleTGSReqCore: user-to-user: the second ticket is the service's TGT
checkSecond(req, record) ==
    LET t == req.second[1] IN
    IF ~Has(req, "enc_tkt_in_skey") THEN "ok"
    ELSE IF t.service # Krbtgt THEN "POLICY"
    ELSE IF ~opens(Krbtgt, t) THEN "BAD_INTEGRITY"
    ELSE IF ticketValidity(t, FALSE) # "ok" THEN ticketValidity(t, FALSE)
    ELSE IF record # (IF t.client \in DOMAIN db \/ lookupAlias(t.client) = None
                      THEN t.client ELSE lookupAlias(t.client)[1])
    THEN "SERVER_NOMATCH"
    ELSE "ok"

-----------------------------------------------------------------------------
\* tgs.go: handleTGSReqCore: the flags and indicators the new ticket starts from
headerFlags(req) ==
    LET own == IF req.s4u # None /\ (server.delegates = None
                                     \/ \A d \in server.delegates[1] : d[1] # req.header.client)
               THEN req.header.flags \ {"forwardable"} ELSE req.header.flags
    IN IF Has(req, "cname_in_addl_tkt") THEN req.second[1].flags ELSE own

\* an indicator counts only under a CAMMAC of the krbtgt's current key
verified(t) == IF t.mac = freshnessKey THEN t.indicators ELSE {}
headerIndicators(req) ==
    IF Has(req, "cname_in_addl_tkt") /\ req.second[1].mac # 0
    THEN req.second[1].indicators ELSE verified(req.header)

\* tgs.go: buildTGSRep: the times of the new ticket
renewUntilAsked(asked, limit) == IF limit = None THEN None ELSE asked   \* mutant: not the header's limit
renewUntil(asked, limit) == IF asked = None \/ limit = None THEN None ELSE Some(Before(asked[1], limit[1]))

newTimes(req, flags, start, end, renew) ==
    [flags |-> (flags \ {"renewable"})
                  \cup (IF Has(req, "postdated") THEN {"postdated", "invalid"} ELSE {})
                  \cup (IF renew = None THEN {} ELSE {"renewable"}),
     start |-> IF Has(req, "postdated") THEN Some(start) ELSE None, end |-> end, renew |-> renew]

tgsTimes(req, flags, recs) ==
    LET t == req.header
        began == IF t.start = None THEN t.auth ELSE t.start[1]
        start == IF Has(req, "postdated") THEN req.from ELSE now
        end == ticketEndFromRecords(req.till, start, recs)
    IN IF Has(req, "validate")
       THEN [flags |-> flags \ {"invalid"}, start |-> t.start, end |-> t.end, renew |-> t.renew]
       ELSE IF Has(req, "renew")
       THEN [flags |-> flags, start |-> Some(now), renew |-> t.renew,
             end |-> Before(now + (t.end - began), t.renew[1])]
       ELSE newTimes(req, flags, start, end,
                renewUntil(renewTillRecords(req.options, req.rtime, req.till, start, end, recs), t.renew))

\* tgs.go: handleTGSReqCore and buildTGSRep: the realms the client has crossed
crossed(req) ==
    LET via == RealmOf[req.header.service] IN
    IF via = Realm THEN req.header.transited ELSE Append(req.header.transited, via)

\* tgs.go: buildTGSRep.  service: as findService returned it.
tgsTicket(req, service, client, recs, times, transited) ==
    LET renewable == "renewable" \in server.allowed /\ \A r \in recs : "renewable" \notin r.disallow
        indicators == headerIndicators(req)
        u2u == Has(req, "enc_tkt_in_skey")
        etype == IF u2u /\ req.second[1].session \in ToSet(req.etypes) THEN req.second[1].session
                 ELSE selectServiceKey(req.etypes, db[service.record])[1]
        pac == IF Has(req, "cname_in_addl_tkt") THEN req.second[1].pac ELSE req.header.pac
        key == IF u2u THEN req.second[1].session ELSE etype
    IN [client |-> client, service |-> service.name, label |-> key, etype |-> key, session |-> etype,
        u2u |-> u2u, kvno |-> IF u2u THEN 0 ELSE db[service.record].keys[etype],
        flags |-> applyFlagPolicies(times.flags, recs)
                    \cup (IF transited THEN {"transited"} ELSE {}),
        auth |-> req.header.auth, start |-> times.start, end |-> constrainEnd(times.end),
        renew |-> IF renewable THEN constrainRenew(times.renew) ELSE None,
        indicators |-> indicators, mac |-> IF indicators = {} THEN 0 ELSE freshnessKey,
        pac |-> IF server.pac THEN freshnessKey ELSE pac, transited |-> crossed(req),
        issued |-> now, root |-> req.header.root]

buildTGSRep(req, service) ==
    LET client == IF req.s4u # None THEN req.s4u[1]
                  ELSE IF Has(req, "cname_in_addl_tkt") THEN req.second[1].client
                  ELSE req.header.client
        across == isTGS(service.name) /\ Leads[service.name] # Realm
        permitted == transitedPermitted(crossed(req), RealmOf[client], RealmOf[service.name])
        tested == ~across /\ crossed(req) # <<>>
        source == IF Has(req, "cname_in_addl_tkt") THEN req.second[1] ELSE req.header
        flags == headerFlags(req) \cup (IF Has(req, "forwarded") THEN {"forwarded"} ELSE {})
        recs == {db[p] : p \in {client, service.record} \cap DOMAIN db}
    IN IF Has(req, "postdated") /\ ~HasAny(req, {"renew", "validate"}) /\ badPostdate(req)
       THEN Refuse("CANNOT_POSTDATE")
       ELSE IF vetoed(req.header.client, service.name) THEN Refuse("POLICY")
       ELSE IF req.authdata = "unreadable" THEN Refuse("GENERIC")
       ELSE IF req.authdata = "mandatory" THEN Refuse("POLICY")
       ELSE IF tested /\ ~permitted /\ server.rejectBadTransit THEN Refuse("POLICY")
       ELSE IF req.s4u = None /\ ~requireAuth(db[service.record], headerIndicators(req))
       THEN Refuse("POLICY")
       ELSE IF server.pac /\ source.pac # 0 /\ source.pac # freshnessKey THEN Refuse("GENERIC")
       ELSE [Refuse("ok") EXCEPT !.ticket =
                Some(tgsTicket(req, service, client, recs, tgsTimes(req, flags, recs), tested /\ permitted))]

\* tgs.go: handleTGSReqCore: from the service's record to the reply
checkRequest(req, service) ==
    FirstError(checkService(req, db[service.record]),
    FirstError(checkS4USelf(req, service.name),
    FirstError(checkS4UProxy(req, service.name), checkSecond(req, service.record))))

serviceReply(req, service) ==
    IF checkRequest(req, service) # "ok" THEN Refuse(checkRequest(req, service))
    ELSE IF /\ Has(req, "forwarded")
            /\ \/ ~isTGS(service.name) \/ Leads[service.name] # RealmOf[req.service]
               \/ "forwardable" \notin headerFlags(req)
    THEN Refuse("BADOPTION")
    ELSE IF /\ selectServiceKey(req.etypes, db[service.record]) = None
            /\ ~Has(req, "enc_tkt_in_skey") \/ server.pac \/ req.second[1].session \notin ToSet(req.etypes)
    THEN Refuse("ETYPE_NOSUPP")
    ELSE buildTGSRep(req, service)

\* tgs.go: handleTGSReqCore.  The authenticator is looked up in the replay
\* cache between the two halves.
beforeReplay(req) ==
    FirstError(checkHeader(req),
    FirstError(checkValidity(req),
    FirstError(checkAccount(req.header.client),
               IF authorized(req.header.client, req.service) THEN "ok" ELSE "POLICY")))

replyFor(req, service) ==
    IF checkOptions(req) # "ok" THEN Refuse(checkOptions(req))
    ELSE IF service = None THEN Refuse("SERVICE_UNKNOWN")
    ELSE IF restrictAnonymous(req.header.client, service[1].name) THEN Refuse("POLICY")
    ELSE IF service[1].record \notin DOMAIN db THEN Refuse("S_PRINCIPAL_UNKNOWN")
    ELSE serviceReply(req, service[1])

afterReplay(req) == replyFor(req, findService(req))

\* kdc.go: replayed
live == {k \in DOMAIN replays : replays[k] > now}
replayed(key) == key \in live

\* an entry that would expire first makes room in a full cache
victims ==
    IF Cardinality(live) < MaxReplays THEN {{}}
    ELSE {{k} : k \in {v \in live : \A o \in live : replays[v] <= replays[o]}}
\* Mutant: an entry expires one second early.
rememberShort(key, gone) ==
    replays' = [k \in (live \ gone) \cup {key} |-> IF k = key THEN now + Skew - 1 ELSE replays[k]]

remember(key, gone) ==
    replays' = [k \in (live \ gone) \cup {key} |-> IF k = key THEN now + Skew ELSE replays[k]]
=============================================================================
