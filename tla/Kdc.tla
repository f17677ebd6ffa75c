-------------------------------- MODULE Kdc ---------------------------------
(***************************************************************************)
(* A kdc.Server answering AS and TGS requests while its clock runs and an  *)
(* administrator changes its database.  A handler is one step: what two    *)
(* handlers running at once can do to the failure count and to the         *)
(* database is the subject of Lockout and of Kadm5.                        *)
(*                                                                         *)
(* held, cookie and token are what clients have received; guesses,         *)
(* honoured and evicted are history variables: the wrong secrets tested    *)
(* since the last success, the authenticators the TGS took with the time   *)
(* it took each first, and those the full replay cache forgot.             *)
(***************************************************************************)
EXTENDS KdcTGS

CONSTANTS
    Servers,            \* configurations of the Server
    Database,           \* configuration -> the initial database
    Foreign,            \* configuration -> tickets of another realm's KDC
    ASRequests,         \* configuration -> AS requests, without what earlier replies add
    TGSRequests,        \* configuration -> TGS requests, without the tickets
    Revised(_),         \* the databases an administrator may make of one
    MaxTime,            \* configuration -> bound on the clock
    MaxHeld,            \* configuration -> bound on the tickets kept
    MaxRevisions        \* configuration -> bound on the changes of the database

VARIABLES held, cookie, token, guesses, honoured, evicted, revisions

vars == <<now, server, db, fails, replays, held, cookie, token, guesses, honoured, evicted, revisions>>

\* What the types of the code say of a request's times.
IsBody(r) == r.from \in Int /\ r.till \in Int /\ r.rtime \in Int /\ r.offset \in Int

ASSUME ConfigurationAssumption ==
    \A s \in Servers :
        /\ IsConfiguration(s) /\ MaxTime[s.name] \in Nat \ {0} /\ IsDatabase(Database[s.name])
        /\ \A t \in Foreign[s.name] : SoundTicket(t) /\ t.issued <= 1
ASSUME RequestAssumption ==
    \A s \in Servers :
        /\ \A r \in ASRequests[s.name] :
              /\ IsBody(r) /\ DOMAIN r.etypes = 1..Len(r.etypes)
              /\ {"client", "service", "etypes", "options", "from", "till", "rtime", "pas", "armor", "key", "otp",
                  "factor", "cert", "group", "customs", "verdict"} \subseteq DOMAIN r
        /\ \A r \in TGSRequests[s.name] : IsBody(r) /\ {"from", "till", "rtime"} \subseteq DOMAIN r
ASSUME MaxReplaysAssumption == MaxReplays \in Nat \ {0}

\* A request of a template and the fields that depend on the moment.
Adding(fields, r) == [f \in DOMAIN fields \cup DOMAIN r |-> IF f \in DOMAIN fields THEN fields[f] ELSE r[f]]

\* The AS request made of a template: the client's clock, the latest cookie
\* and token if it uses them, and a ticket it holds for armor.
ASRequest(r, armor) ==
    Adding([armor |-> armor, stamp |-> now + r.offset, cookie |-> cookie,
            token |-> IF "token" \in r.pas THEN token ELSE None], r)

\* The same request with the right secrets.
Right(req) ==
    LET client == IF findClient(req) = None THEN NoRecord ELSE clientRecord(req)
        both == IF req.service \in DOMAIN db THEN selectASKeys(req.etypes, client, db[req.service]) ELSE None
        etypes == IF both = None THEN DOMAIN client.keys ELSE {both[1]}
    IN [req EXCEPT !.otp = "right",
                   !.key = IF etypes = {} THEN 0 ELSE client.keys[CHOOSE e \in etypes : TRUE]]

\* The answer to a request tells its client whether the secret is right.
Tested(reply, other) == reply.ticket = None /\ other.code # reply.code

-----------------------------------------------------------------------------
Init ==
    /\ now = 1 /\ server \in Servers /\ db = Database[server.name]
    /\ fails = [p \in DOMAIN db |-> 0] /\ guesses = fails
    /\ replays = <<>> /\ held = Foreign[server.name] /\ cookie = None /\ token = None
    /\ honoured = {} /\ evicted = {} /\ revisions = 0

\* The ticket of a reply is kept, in place of the one it was got with or beside it.
Keep(reply, old) ==
    IF reply.ticket = None THEN UNCHANGED held
    ELSE /\ held' \in {held \cup {reply.ticket[1]}, (held \ old) \cup {reply.ticket[1]}}
         /\ Cardinality(held') <= MaxHeld[server.name]

\* as.go: handleASReq, with recordPreauthFailure and recordPreauthSuccess
answer(name, reply, other) ==
    /\ fails' = [p \in DOMAIN fails |-> IF Some(p) # name THEN fails[p]
                                       ELSE IF reply.recorded = "failure" THEN fails[p] + 1
                                       ELSE IF reply.recorded = "success" THEN 0 ELSE fails[p]]
    /\ guesses' = [p \in DOMAIN guesses |-> IF Some(p) # name THEN guesses[p]
                                           ELSE IF reply.recorded = "success" THEN 0
                                           ELSE IF Tested(reply, other) THEN guesses[p] + 1 ELSE guesses[p]]
    /\ Keep(reply, {})
    /\ cookie' = IF reply.offer # None /\ reply.offer[1].kind = "cookie" THEN reply.offer ELSE cookie
    /\ token' = IF reply.offer # None /\ reply.offer[1].kind = "token" THEN reply.offer ELSE token
    /\ UNCHANGED <<now, server, db, replays, honoured, evicted, revisions>>

handleASReq(req) ==
    answer(findClient(req), handleASReqCore(req), handleASReqCore(Right(req)))

\* tgs.go: handleTGSReq.  req.id stands for the microseconds and the checksum
\* that tell the authenticators of one second apart.
handleTGSReq(req) ==
    LET key == <<req.header.client, req.ctime, req.id>> IN
    /\ UNCHANGED <<now, server, db, fails, cookie, token, guesses, revisions>>
    /\ IF beforeReplay(req) # "ok" THEN UNCHANGED <<replays, held, honoured, evicted>>
       ELSE IF replayed(key)
       THEN /\ replays' = [k \in live |-> replays[k]]
            /\ UNCHANGED <<held, honoured, evicted>>
       ELSE /\ \E gone \in victims : remember(key, gone) /\ evicted' = evicted \cup gone
            /\ honoured' = honoured \cup {[key |-> key, at |-> now]}
            /\ Keep(afterReplay(req), {req.header})

ASExchange ==
    \E r \in ASRequests[server.name] :
        \E armor \in IF r.armor = "none" THEN {None}
                    ELSE {Some([ticket |-> t, ctime |-> now, sound |-> r.armor = "sound"]) : t \in held} :
            handleASReq(ASRequest(r, armor))

TGSExchange ==
    \E r \in TGSRequests[server.name], t \in held, u \in {None} \cup {Some(s) : s \in held} :
        /\ (u # None) = HasAny(r, {"enc_tkt_in_skey", "cname_in_addl_tkt"})
        /\ handleTGSReq(Adding([header |-> t, second |-> u, ctime |-> now + r.offset], r))

\* kadmin changes the database: an account disabled, a key changed.  Accounts
\* that come and go and changes of a policy's MaxFailure are left to Kadm5.
Revise ==
    /\ revisions < MaxRevisions[server.name]
    /\ db' \in Revised(db) /\ IsDatabase(db')
    /\ DOMAIN db' = DOMAIN db /\ \A p \in DOMAIN db : db'[p].policy = db[p].policy
    /\ revisions' = revisions + 1
    /\ UNCHANGED <<now, server, fails, replays, held, cookie, token, guesses, honoured, evicted>>

\* The histories keep the authenticators a clock can still be close to.
Tick ==
    /\ now < MaxTime[server.name] /\ now' = now + 1
    /\ honoured' = {h \in honoured : h.key[2] + Skew > now}
    /\ evicted' = {k \in evicted : k[2] + Skew > now}
    /\ UNCHANGED <<server, db, fails, replays, held, cookie, token, guesses, revisions>>

\* A client drops a ticket.
Discard ==
    /\ \E t \in held : held' = held \ {t}
    /\ UNCHANGED <<now, server, db, fails, replays, cookie, token, guesses, honoured, evicted, revisions>>

Next == ASExchange \/ TGSExchange \/ Revise \/ Tick \/ Discard
Spec == Init /\ [][Next]_vars

-----------------------------------------------------------------------------
\* The types of the variables: what is known of a ticket fits together.
TypeOK ==
    /\ now \in 1..MaxTime[server.name] /\ server \in Servers
    /\ DOMAIN fails = DOMAIN guesses /\ \A p \in DOMAIN fails : fails[p] \in Nat /\ guesses[p] \in Nat
    /\ \A k \in DOMAIN replays : replays[k] \in 1..(MaxTime[server.name] + Skew)
    /\ \A t \in held : t.renew # None => "renewable" \in t.flags
    /\ Cardinality(DOMAIN replays) <= MaxReplays

\* Preauthentication, handleASReqCore with lockedOut: whatever mechanisms a
\* client tries, the KDC tells it of at most MaxFailure wrong passwords or OTP
\* values before one is right: a test of a secret that is not counted, or a
\* count cleared without a proof, would let it go on.  (The anonymous client
\* has no secret to guess, and lockedOut is not asked about it.)
GuessesBounded ==
    \A p \in DOMAIN guesses \ {Anonymous} : db[p].policy > 0 => guesses[p] <= db[p].policy

\* What the account of a ticket's client and the KDC demand of the AS exchange:
\* preauthentication, hardware, and the agreement of the required modules.
MeetsDemands(t) ==
    /\ "requires_preauth" \in db[t.client].flags => t.root.proof # "none"
    /\ "requires_hw_auth" \in db[t.client].flags => t.root.proof = "hardware" /\ "hw_authent" \in t.flags
    /\ RequiredModules \subseteq t.root.agreed

\* handleASReqCore: no mechanism is a way around what an account or the KDC
\* demands.  A new ticket that was issued without a proof that its client's
\* account requires, or without a module the KDC requires, is not one of the
\* AS exchange.
NoWayAround ==
    [][\A t \in held' \ held :
          t.client \in DOMAIN db \ {Anonymous} /\ ~MeetsDemands(t) => ~ASExchange]_vars

\* handleTGSReqCore and buildTGSRep: renewing, validating and exchanging
\* tickets never moves the end of the renewable life past the one the AS
\* exchange set, and never makes a postdated ticket valid before its time.
RenewalsEnd ==
    \A t \in held :
        /\ t.renew # None => t.root.renew # None /\ t.renew[1] <= t.root.renew[1]
        /\ "invalid" \notin t.flags /\ t.start # None => t.start[1] <= t.issued

\* handleTGSReqCore: a ticket is not exchanged for another one in the name of
\* an account that has been disabled or has expired since, be it the client's
\* own ticket, S4U2Self or S4U2Proxy.  (The anonymous client has no account.)
RevokedGetNothing ==
    [][\A t \in held' \ held : t.client \in DOMAIN db \ {Anonymous} =>
          "disallow_all" \notin db[t.client].flags /\ ~expired(db[t.client])]_vars

\* replayed: an authenticator that was made before the KDC received it is
\* honoured once, unless the full cache had to forget it; and the cache keeps
\* to its limit.
AuthenticatorOnce ==
    /\ TypeOK
    /\ \A h, g \in honoured :
          h.key = g.key /\ h.at < g.at /\ h.key[2] < h.at => h.key \in evicted

\* README.md: "`MaxLife` and `MaxRenew` limits are applied together with the
\* client, service, and realm-wide ticket lifetime limits".  No ticket lives
\* longer than the realm allows, counted from the moment it was issued or from
\* its start.
LifeBounded ==
    \A t \in held : t.end - (IF t.start = None THEN t.issued ELSE t.start[1]) <= server.maxLife
=============================================================================
