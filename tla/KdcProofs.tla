----------------------------- MODULE KdcProofs ------------------------------
(***************************************************************************)
(* Proofs about Kdc, for every configuration, database and set of          *)
(* requests.                                                               *)
(***************************************************************************)
EXTENDS Kdc, KdcExchangeProofs

-----------------------------------------------------------------------------
(* The requests.                                                           *)

\* handleASReqCore: a ticket is for a client that was found, whose account is
\* not disabled or expired, on the proof the account demands.
LEMMA ASGrants ==
    ASSUME NEW req, Context(req), IsDatabase(db),
           NEW t, handleASReqCore(req).ticket # None, t = handleASReqCore(req).ticket[1]
    PROVE  /\ SoundTicket(t) /\ t.issued = now
           /\ t.client \in DOMAIN db \ {Anonymous} =>
                /\ MeetsDemands(t)
                /\ "disallow_all" \notin db[t.client].flags /\ ~expired(db[t.client])
<1> DEFINE x == foundFor(req)
           reply == choosePreauth(req, x)
           found == findClient(req)
           client == clientRecord(req)
           service == db[req.service]
<1>1. checkASReq(req) = "ok" /\ handleASReqCore(req) = reply
    BY Zenon DEF handleASReqCore, Refuse
<1>2. found # None /\ req.service \in DOMAIN db /\ validateASAccount(client, service, req.options) = "ok"
    BY <1>1, Zenon DEF checkASReq
<1>3. "anonymous" \notin req.options => found[1] \in DOMAIN db
    <2>1. CASE req.client \in DOMAIN db
        BY <2>1 DEF findClient, Some
    <2>2. CASE req.client \notin DOMAIN db /\ "anonymous" \notin req.options
        <3>1. found = lookupAlias(req.client)
            BY <1>2, <2>2, Zenon DEF findClient
        <3> QED BY <1>2, <3>1 DEF lookupAlias, Some
    <2> QED BY <2>1, <2>2, Zenon
<1>4. client.maxRenew \in Int /\ service.maxRenew \in Int
    <2>1. NoRecord.maxRenew \in Int
        BY DEF NoRecord
    <2> QED BY <1>2, <1>3, <2>1, Zenon DEF IsDatabase, IsRecord, clientRecord
<1>5. IsFound(x) /\ x.cname = found[1] /\ x.client = client
    <2>1. /\ x = [cname |-> x.cname, client |-> x.client, sname |-> x.sname, service |-> x.service,
                  etype |-> x.etype, ckey |-> x.ckey, custom |-> x.custom, armored |-> x.armored]
          /\ x.cname = found[1] /\ x.client = client /\ x.service = service
        BY Zenon DEF foundFor
    <2> HIDE DEF x, client, service, found
    <2> QED BY <1>4, <2>1, Zenon DEF IsFound
<1>6. "disallow_all" \notin client.flags /\ ~expired(client)
    BY <1>2, Zenon DEF validateASAccount
<1>7. found[1] # Anonymous => client = db[found[1]]
    <2>1. Some(Anonymous)[1] = Anonymous
        BY DEF Some
    <2> QED BY <2>1, Zenon DEF findClient, clientRecord
<1> HIDE DEF x
<1>8. Granted(reply, x)
    BY <1>5, ChoiceGrants, Zenon
<1> HIDE DEF reply, client, found
<1>9. reply.ticket # None /\ t = reply.ticket[1]
    BY <1>1, Zenon
<1>10. SoundTicket(t) /\ t.issued = now /\ t.client = found[1] /\ Demanded(t, x)
    BY <1>5, <1>8, <1>9, Zenon DEF Granted
<1>11. t.client # Anonymous => MeetsDemands(t)
    BY <1>5, <1>7, <1>10, Zenon DEF Demanded, MeetsDemands
<1>12. t.client # Anonymous => "disallow_all" \notin db[t.client].flags /\ ~expired(db[t.client])
    BY <1>6, <1>7, <1>10, Zenon
<1> QED BY <1>10, <1>11, <1>12, Zenon

\* The fields of a request.
Complete(req) ==
    /\ {"client", "service", "etypes", "options", "from", "till", "rtime", "pas", "armor", "key", "otp",
        "factor", "cert", "group", "customs", "verdict", "stamp", "cookie", "token"} \subseteq DOMAIN req
    /\ DOMAIN req.etypes \subseteq Nat

\* The AS request made of a template has all its fields, with their types.
LEMMA RequestComplete ==
    ASSUME server \in Servers, now \in Nat \ {0}, NEW r \in ASRequests[server.name], NEW armor,
           NEW req, req = ASRequest(r, armor)
    PROVE  Context(req) /\ Complete(req)
<1> DEFINE added == [armor |-> armor, stamp |-> now + r.offset, cookie |-> cookie,
                     token |-> IF "token" \in r.pas THEN token ELSE None]
<1>1. /\ IsBody(r) /\ DOMAIN r.etypes = 1..Len(r.etypes)
      /\ {"client", "service", "etypes", "options", "from", "till", "rtime", "pas", "armor", "key", "otp",
          "factor", "cert", "group", "customs", "verdict"} \subseteq DOMAIN r
    BY RequestAssumption, Zenon
<1>2. req = [f \in DOMAIN added \cup DOMAIN r |-> IF f \in DOMAIN added THEN added[f] ELSE r[f]]
    BY Zenon DEF ASRequest, Adding
<1>3. DOMAIN added = {"armor", "stamp", "cookie", "token"}
    OBVIOUS
<1> HIDE DEF added
<1>4. /\ req.from = r.from /\ req.till = r.till /\ req.rtime = r.rtime /\ req.etypes = r.etypes
    BY <1>1, <1>2, <1>3
<1>5. Context(req)
    BY <1>1, <1>4, ConfigurationAssumption DEF Context, IsBody
<1>6. DOMAIN req.etypes \subseteq Nat
    BY <1>1, <1>4
<1>7. {"client", "service", "etypes", "options", "from", "till", "rtime", "pas", "armor", "key", "otp",
       "factor", "cert", "group", "customs", "verdict", "stamp", "cookie", "token"} \subseteq DOMAIN req
    BY <1>1, <1>2, <1>3
<1> QED BY <1>5, <1>6, <1>7, Zenon DEF Complete

\* Right changes the secrets of a request and nothing else.
LEMMA RightIsSame ==
    ASSUME NEW req, Complete(req)
    PROVE  SameRequest(req, Right(req)) /\ Right(req).otp = "right"
<1>1. PICK k : Right(req) = [req EXCEPT !.otp = "right", !.key = k]
    BY Zenon DEF Right
<1>2. \A f \in DOMAIN req \ {"otp", "key"} : Right(req)[f] = req[f]
    BY <1>1, Zenon
<1>3. Right(req).otp = "right"
    BY <1>1 DEF Complete
<1> QED BY <1>2, <1>3 DEF Complete, SameRequest

\* What Right takes for the secret is the one handleASReqCore compares with.
LEMMA RightIsRight ==
    ASSUME NEW req, Complete(req), IsDatabase(db), checkASReq(req) = "ok"
    PROVE  RightFor(Right(req), foundFor(req)) /\ IsFound(foundFor(req))
<1> DEFINE x == foundFor(req)
           found == findClient(req)
           client == clientRecord(req)
           service == db[req.service]
           both == selectASKeys(req.etypes, client, service)
           etypes == IF both = None THEN DOMAIN client.keys ELSE {both[1]}
           key == IF etypes = {} THEN 0 ELSE client.keys[CHOOSE e \in etypes : TRUE]
<1>1. found # None /\ req.service \in DOMAIN db
    BY Zenon DEF checkASReq
<1>2. "anonymous" \notin req.options => found[1] \in DOMAIN db
    <2>1. CASE req.client \in DOMAIN db
        BY <2>1 DEF findClient, Some
    <2>2. CASE req.client \notin DOMAIN db /\ "anonymous" \notin req.options
        <3>1. found = lookupAlias(req.client)
            BY <1>1, <2>2, Zenon DEF findClient
        <3> QED BY <1>1, <3>1 DEF lookupAlias, Some
    <2> QED BY <2>1, <2>2, Zenon
<1>3. /\ client.maxRenew \in Int /\ service.maxRenew \in Int
      /\ \A e \in DOMAIN client.keys : client.keys[e] # 0
    <2>1. NoRecord.maxRenew \in Int /\ DOMAIN NoRecord.keys = {}
        BY DEF NoRecord
    <2>2. CASE "anonymous" \in req.options
        BY <1>1, <2>1, <2>2, Zenon DEF IsDatabase, IsRecord, clientRecord
    <2>3. CASE "anonymous" \notin req.options
        <3>1. IsRecord(client) /\ IsRecord(service)
            BY <1>1, <1>2, <2>3, Zenon DEF IsDatabase, clientRecord
        <3> HIDE DEF client, service
        <3> QED BY <3>1 DEF IsRecord
    <2> QED BY <2>2, <2>3, Zenon
<1>4. /\ x = [cname |-> x.cname, client |-> x.client, sname |-> x.sname, service |-> x.service,
              etype |-> x.etype, ckey |-> x.ckey, custom |-> x.custom, armored |-> x.armored]
      /\ x.client = client /\ x.service = service
      /\ x.ckey = selectKeys(req, client, service).ckey
    BY Zenon DEF foundFor
<1>5. x.ckey # 0 => both # None /\ x.ckey = client.keys[both[1]]
    BY <1>4, Zenon DEF selectKeys
<1>6. Right(req) = [req EXCEPT !.otp = "right", !.key = key]
    BY <1>1, Zenon DEF Right
<1>7. both # None => both[1] \in DOMAIN client.keys
    BY CommonIsKnown, Zenon DEF selectASKeys, Complete
<1> HIDE DEF x, client, service, both, found
<1>8. x.ckey # 0 => key = x.ckey
    BY <1>5, Zenon
<1>9. DOMAIN client.keys # {} => \E e \in DOMAIN client.keys : key = client.keys[e]
    <2>1. etypes # {} => (CHOOSE e \in etypes : TRUE) \in etypes
        BY Zenon
    <2>2. etypes \subseteq DOMAIN client.keys /\ (DOMAIN client.keys # {} => etypes # {})
        BY <1>7, Zenon
    <2> HIDE DEF etypes
    <2> QED BY <2>1, <2>2, Zenon
<1> HIDE DEF key
<1>10. Right(req).otp = "right" /\ Right(req).key = key
    BY <1>6 DEF Complete
<1>11. IsFound(x)
    BY <1>3, <1>4, Zenon DEF IsFound
<1>12. RightFor(Right(req), x)
    BY <1>3, <1>4, <1>8, <1>9, <1>10, Zenon DEF RightFor
<1> QED BY <1>11, <1>12, Zenon DEF x

\* handleASReqCore: an answer that tells a wrong secret from the right one is
\* counted, and comes only when the account is not locked.
LEMMA TestsAreCounted ==
    ASSUME NEW req, Complete(req), IsDatabase(db),
           Tested(handleASReqCore(req), handleASReqCore(Right(req)))
    PROVE  handleASReqCore(req).recorded = "failure"
<1>1. SameRequest(req, Right(req))
    BY RightIsSame, Zenon
<1>2. checkASReq(req) = checkASReq(Right(req)) /\ foundFor(req) = foundFor(Right(req))
    BY <1>1, SameFound, Zenon
<1>3. checkASReq(req) = "ok"
    BY <1>2, Zenon DEF handleASReqCore, Tested
<1>4. /\ handleASReqCore(req) = choosePreauth(req, foundFor(req))
      /\ handleASReqCore(Right(req)) = choosePreauth(Right(req), foundFor(req))
    BY <1>2, <1>3, Zenon DEF handleASReqCore
<1>5. Uninformative(choosePreauth(req, foundFor(req)), choosePreauth(Right(req), foundFor(req)))
    BY <1>1, <1>3, RightIsRight, ChoiceUntold, Zenon
<1> QED BY <1>4, <1>5, Zenon DEF Tested, Uninformative

\* What is recorded is recorded of a client that is not locked out.
LEMMA CountedUnlocked ==
    ASSUME NEW req, NEW p, p # Anonymous, findClient(req) = Some(p), handleASReqCore(req).recorded # "nothing"
    PROVE  ~lockedOut(p)
<1>1. \A code : Refuse(code).recorded = "nothing"
    BY DEF Refuse
<1>2. checkASReq(req) = "ok"
    BY <1>1, Zenon DEF handleASReqCore
<1>3. Some(p)[1] = p /\ Some(Anonymous)[1] = Anonymous
    BY DEF Some
<1>4. "anonymous" \notin req.options
    BY <1>3, Zenon DEF findClient
<1> QED BY <1>2, <1>3, <1>4, Zenon DEF checkASReq

-----------------------------------------------------------------------------
(* The inductive invariant.                                                *)

\* The configuration is one of Servers, and the clock keeps to its bound.
ClockInv == server \in Servers /\ now \in Nat \ {0} /\ now <= MaxTime[server.name]

\* A wrong secret that was tested has been counted, and an account is locked
\* before it has counted more than its policy allows.
AccountsInv ==
    /\ IsDatabase(db) /\ DOMAIN fails = DOMAIN db /\ DOMAIN guesses = DOMAIN db
    /\ \A p \in DOMAIN db :
         /\ fails[p] \in Nat /\ guesses[p] \in Nat
         /\ p # Anonymous /\ db[p].policy > 0 => guesses[p] <= fails[p] /\ fails[p] <= db[p].policy

\* The tickets that are held are sound.
TicketsInv == \A t \in held : SoundTicket(t) /\ t.issued <= now

\* An authenticator that was honoured and is still within the clock skew is in
\* the replay cache until the clock has left it behind, or was evicted.
ReplaysInv ==
    /\ IsFiniteSet(DOMAIN replays) /\ Cardinality(DOMAIN replays) <= MaxReplays
    /\ \A k \in DOMAIN replays : replays[k] \in 1..(MaxTime[server.name] + Skew)
    /\ \A h \in honoured :
         /\ h.key[2] \in Int /\ h.at \in Int /\ h.at <= now /\ now <= h.key[2] + Skew
         /\ h.key[2] < h.at =>
              h.key \in evicted \/ (h.key \in DOMAIN replays /\ replays[h.key] >= h.at + Skew)
    /\ \A h, g \in honoured : h.key = g.key /\ h.at < g.at /\ h.key[2] < h.at => h.key \in evicted

KdcInv == ClockInv /\ AccountsInv /\ TicketsInv /\ ReplaysInv

\* What is written of the failures and of the guesses of the client.
LEMMA CountsKept ==
    ASSUME AccountsInv, NEW req, Complete(req), handleASReq(req)
    PROVE  AccountsInv'
<1> DEFINE reply == handleASReqCore(req)
           other == handleASReqCore(Right(req))
           name == findClient(req)
<1>1. /\ db' = db
      /\ fails' = [p \in DOMAIN fails |-> IF Some(p) # name THEN fails[p]
                                       ELSE IF reply.recorded = "failure" THEN fails[p] + 1
                                       ELSE IF reply.recorded = "success" THEN 0 ELSE fails[p]]
      /\ guesses' = [p \in DOMAIN guesses |-> IF Some(p) # name THEN guesses[p]
                                           ELSE IF reply.recorded = "success" THEN 0
                                           ELSE IF Tested(reply, other) THEN guesses[p] + 1 ELSE guesses[p]]
    BY Zenon DEF handleASReq, answer
<1>2. Tested(reply, other) => reply.recorded = "failure"
    BY TestsAreCounted, Zenon DEF AccountsInv
<1>3. \A p : p # Anonymous /\ name = Some(p) /\ reply.recorded # "nothing" => ~lockedOut(p)
    BY CountedUnlocked, Zenon
<1> HIDE DEF reply, other, name
<1>4. DOMAIN fails' = DOMAIN db /\ DOMAIN guesses' = DOMAIN db
    BY <1>1, Zenon DEF AccountsInv
<1>5. ASSUME NEW p \in DOMAIN db
      PROVE  /\ fails'[p] \in Nat /\ guesses'[p] \in Nat
             /\ p # Anonymous /\ db[p].policy > 0 => guesses'[p] <= fails'[p] /\ fails'[p] <= db[p].policy
    <2>1. /\ fails[p] \in Nat /\ guesses[p] \in Nat /\ db[p].policy \in Nat
          /\ p # Anonymous /\ db[p].policy > 0 => guesses[p] <= fails[p] /\ fails[p] <= db[p].policy
          /\ p \in DOMAIN fails /\ p \in DOMAIN guesses
        BY Zenon DEF AccountsInv, IsDatabase, IsRecord
    <2>2. CASE Some(p) # name
        <3>1. fails'[p] = fails[p] /\ guesses'[p] = guesses[p]
            BY <1>1, <2>1, <2>2, Zenon
        <3> QED BY <2>1, <3>1
    <2>3. CASE Some(p) = name /\ reply.recorded = "failure"
        <3>1. fails'[p] = fails[p] + 1 /\ guesses'[p] \in {guesses[p], guesses[p] + 1}
            BY <1>1, <2>1, <2>3, Zenon
        <3>2. p # Anonymous => db[p].policy = 0 \/ ~(fails[p] >= db[p].policy)
            BY <1>3, <2>3, Zenon DEF lockedOut
        <3> QED BY <2>1, <3>1, <3>2
    <2>4. CASE Some(p) = name /\ reply.recorded = "success"
        <3>1. fails'[p] = 0 /\ guesses'[p] = 0
            BY <1>1, <2>1, <2>4, Zenon
        <3> QED BY <2>1, <3>1
    <2>5. CASE Some(p) = name /\ reply.recorded # "success" /\ reply.recorded # "failure"
        <3>1. fails'[p] = fails[p] /\ guesses'[p] = guesses[p]
            BY <1>1, <1>2, <2>1, <2>5, Zenon
        <3> QED BY <2>1, <3>1
    <2> QED BY <2>2, <2>3, <2>4, <2>5, Zenon
<1> QED BY <1>1, <1>4, <1>5, Zenon DEF AccountsInv

\* A ticket that is kept.
LEMMA TicketKept ==
    ASSUME NEW reply, NEW old, Keep(reply, old), NEW t \in held', t \notin held
    PROVE  reply.ticket # None /\ t = reply.ticket[1]
BY Zenon DEF Keep

\* The tickets after an AS exchange.
LEMMA ASTicketsSound ==
    ASSUME TicketsInv, now \in Int, IsDatabase(db), NEW req, Context(req), handleASReq(req)
    PROVE  TicketsInv'
<1> DEFINE reply == handleASReqCore(req)
<1>1. Keep(reply, {}) /\ now' = now
    BY Zenon DEF handleASReq, answer
<1>2. ASSUME NEW t \in held', t \notin held
      PROVE  SoundTicket(t) /\ t.issued <= now
    <2>1. reply.ticket # None /\ t = reply.ticket[1]
        BY <1>1, <1>2, TicketKept, Zenon
    <2>2. SoundTicket(t) /\ t.issued = now
        BY <2>1, ASGrants, Zenon
    <2> QED BY <2>2
<1> QED BY <1>1, <1>2, Zenon DEF TicketsInv

\* The tickets after a TGS exchange.
LEMMA TGSTicketsSound ==
    ASSUME TicketsInv, now \in Int, IsDatabase(db), NEW req, Context(req), req.header \in held, handleTGSReq(req)
    PROVE  TicketsInv'
<1>1. now' = now
    BY Zenon DEF handleTGSReq
<1>2. CASE beforeReplay(req) # "ok" \/ held' = held
    <2>1. held' = held
        BY <1>2, Zenon DEF handleTGSReq
    <2> QED BY <1>1, <2>1, Zenon DEF TicketsInv
<1>3. CASE beforeReplay(req) = "ok" /\ held' # held
    <2>1. Keep(afterReplay(req), {req.header})
        BY <1>3, Zenon DEF handleTGSReq
    <2>2. ASSUME NEW t \in held', t \notin held
          PROVE  SoundTicket(t) /\ t.issued <= now
        <3>1. afterReplay(req).ticket # None /\ t = afterReplay(req).ticket[1]
            BY <2>1, <2>2, TicketKept, Zenon
        <3>2. SoundTicket(t) /\ t.issued = now
            BY <1>3, <3>1, TGSGrants, Zenon DEF TicketsInv
        <3> QED BY <3>2
    <2> QED BY <1>1, <2>2, Zenon DEF TicketsInv
<1> QED BY <1>2, <1>3, Zenon

\* What the replay cache still needs of an authenticator that was honoured.
LEMMA StillLive ==
    ASSUME ClockInv, ReplaysInv, NEW h \in honoured, h.key[2] < h.at, h.key \notin evicted
    PROVE  h.key \in live /\ replays[h.key] >= h.at + Skew
<1>1. /\ h.key[2] \in Int /\ h.at \in Int /\ h.at <= now /\ now <= h.key[2] + Skew
      /\ h.key \in DOMAIN replays /\ replays[h.key] >= h.at + Skew
      /\ replays[h.key] \in 1..(MaxTime[server.name] + Skew)
    BY DEF ReplaysInv
<1>2. server.skew \in Nat /\ now \in Nat
    BY ConfigurationAssumption DEF ClockInv, IsConfiguration
<1>3. replays[h.key] > now
    BY <1>1, <1>2 DEF Skew
<1> QED BY <1>1, <1>3, Zenon DEF live

\* The live entries are no more than the cache may hold.
LEMMA LiveFinite ==
    ASSUME ReplaysInv
    PROVE  /\ IsFiniteSet(live) /\ Cardinality(live) <= MaxReplays /\ Cardinality(live) \in Nat
           /\ live \subseteq DOMAIN replays
<1>1. live \subseteq DOMAIN replays
    BY Zenon DEF live
<1>2. IsFiniteSet(DOMAIN replays) /\ Cardinality(DOMAIN replays) <= MaxReplays
    BY Zenon DEF ReplaysInv
<1>3. IsFiniteSet(live) /\ Cardinality(live) <= Cardinality(DOMAIN replays)
    BY <1>1, <1>2, FS_Subset, Zenon
<1>4. Cardinality(live) \in Nat /\ Cardinality(DOMAIN replays) \in Nat
    BY <1>2, <1>3, FS_CardinalityType, Zenon
<1> QED BY <1>1, <1>2, <1>3, <1>4, MaxReplaysAssumption

\* Room is made before an entry is added.
LEMMA RoomMade ==
    ASSUME ReplaysInv, NEW gone \in victims, NEW key
    PROVE  /\ IsFiniteSet((live \ gone) \cup {key}) /\ Cardinality((live \ gone) \cup {key}) <= MaxReplays
           /\ gone \subseteq live
<1>1. /\ IsFiniteSet(live) /\ Cardinality(live) <= MaxReplays /\ Cardinality(live) \in Nat
    BY LiveFinite, Zenon
<1>2. CASE Cardinality(live) < MaxReplays
    <2>1. gone = {} /\ live \ gone = live
        BY <1>2, Zenon DEF victims
    <2>2. /\ IsFiniteSet(live \cup {key})
          /\ Cardinality(live \cup {key}) = IF key \in live THEN Cardinality(live) ELSE Cardinality(live) + 1
        BY <1>1, FS_AddElement, Zenon
    <2> QED BY <1>1, <1>2, <2>1, <2>2, MaxReplaysAssumption
<1>3. CASE ~(Cardinality(live) < MaxReplays)
    <2>1. PICK v \in live : gone = {v}
        BY <1>3, Zenon DEF victims
    <2>2. IsFiniteSet(live \ {v}) /\ Cardinality(live \ {v}) = Cardinality(live) - 1
        BY <1>1, FS_RemoveElement, Zenon
    <2> DEFINE rest == live \ {v}
    <2> HIDE DEF rest
    <2>3. /\ IsFiniteSet(rest \cup {key})
          /\ Cardinality(rest \cup {key}) = IF key \in rest THEN Cardinality(rest) ELSE Cardinality(rest) + 1
        BY <2>2, FS_AddElement, Zenon DEF rest
    <2>4. IsFiniteSet(rest \cup {key}) /\ Cardinality(rest \cup {key}) <= MaxReplays
        <3>1. Cardinality(rest) = Cardinality(live) - 1
            BY <2>2, Zenon DEF rest
        <3> QED BY <1>1, <2>3, <3>1, MaxReplaysAssumption
    <2> QED BY <2>1, <2>4, Zenon DEF rest
<1> QED BY <1>2, <1>3, Zenon

\* replayed: the expired entries are dropped.
LEMMA PurgeKept ==
    ASSUME ClockInv, ReplaysInv, replays' = [k \in live |-> replays[k]], UNCHANGED <<now, server, honoured, evicted>>
    PROVE  ReplaysInv'
<1>1. DOMAIN replays' = live /\ \A k \in live : replays'[k] = replays[k]
    BY Zenon
<1>2. IsFiniteSet(DOMAIN replays') /\ Cardinality(DOMAIN replays') <= MaxReplays
    BY <1>1, LiveFinite, Zenon
<1>3. \A k \in DOMAIN replays' : replays'[k] \in 1..(MaxTime[server.name] + Skew)
    BY <1>1, LiveFinite, Zenon DEF ReplaysInv
<1>4. ASSUME NEW h \in honoured, h.key[2] < h.at, h.key \notin evicted
      PROVE  h.key \in DOMAIN replays' /\ replays'[h.key] >= h.at + Skew
    <2>1. h.key \in live /\ replays[h.key] >= h.at + Skew
        BY <1>4, StillLive, Zenon
    <2> QED BY <1>1, <2>1, Zenon
<1>5. Skew' = Skew /\ MaxTime[server.name]' = MaxTime[server.name]
    BY Zenon DEF Skew
<1>6. \A h \in honoured : h.key[2] \in Int /\ h.at \in Int /\ h.at <= now /\ now <= h.key[2] + Skew
    BY Zenon DEF ReplaysInv
<1>7. \A h, g \in honoured : h.key = g.key /\ h.at < g.at /\ h.key[2] < h.at => h.key \in evicted
    BY Zenon DEF ReplaysInv
<1> QED BY <1>2, <1>3, <1>4, <1>5, <1>6, <1>7, Zenon DEF ReplaysInv

\* remember: a new authenticator.
LEMMA RememberKept ==
    ASSUME ClockInv, ReplaysInv, NEW key, key[2] \in Int, withinSkew(key[2]), ~replayed(key),
           NEW gone \in victims, remember(key, gone), evicted' = evicted \cup gone,
           honoured' = honoured \cup {[key |-> key, at |-> now]}, UNCHANGED <<now, server>>
    PROVE  ReplaysInv'
<1>1. /\ DOMAIN replays' = (live \ gone) \cup {key}
      /\ \A k \in DOMAIN replays' : replays'[k] = IF k = key THEN now + Skew ELSE replays[k]
    BY Zenon DEF remember
<1>2. IsFiniteSet(DOMAIN replays') /\ Cardinality(DOMAIN replays') <= MaxReplays
    BY <1>1, RoomMade, Zenon
<1>3. server.skew \in Nat /\ now \in Nat \ {0} /\ MaxTime[server.name] \in Nat /\ now <= MaxTime[server.name]
    BY ConfigurationAssumption DEF ClockInv, IsConfiguration
<1>4. now + Skew \in 1..(MaxTime[server.name] + Skew)
    BY <1>3 DEF Skew
<1>5. \A k \in DOMAIN replays' : replays'[k] \in 1..(MaxTime[server.name] + Skew)
    BY <1>1, <1>4, LiveFinite, Zenon DEF ReplaysInv
<1> DEFINE new == [key |-> key, at |-> now]
<1>6. new.key = key /\ new.at = now
    OBVIOUS
<1> HIDE DEF new
<1>7. honoured' = honoured \cup {new}
    BY DEF new
<1>8. now <= key[2] + Skew
    BY <1>3 DEF withinSkew, Skew
<1>9. \A h \in honoured' : h.key[2] \in Int /\ h.at \in Int /\ h.at <= now /\ now <= h.key[2] + Skew
    <2>1. \A h \in honoured : h.key[2] \in Int /\ h.at \in Int /\ h.at <= now /\ now <= h.key[2] + Skew
        BY Zenon DEF ReplaysInv
    <2>2. new.key[2] \in Int /\ new.at \in Int /\ new.at <= now /\ now <= new.key[2] + Skew
        BY <1>3, <1>6, <1>8
    <2> QED BY <1>7, <2>1, <2>2, Zenon
<1>10. ASSUME NEW h \in honoured', h.key[2] < h.at, h.key \notin evicted'
       PROVE  h.key \in DOMAIN replays' /\ replays'[h.key] >= h.at + Skew
    <2>1. CASE h.key = key
        <3>1. h.key \in DOMAIN replays' /\ replays'[h.key] = now + Skew
            BY <1>1, <2>1, Zenon
        <3> QED BY <1>3, <1>9, <3>1 DEF Skew
    <2>2. CASE h.key # key
        <3>1. h \in honoured /\ h.key \notin evicted /\ h.key \notin gone
            BY <1>6, <1>7, <1>10, <2>2, Zenon
        <3>2. h.key \in live /\ replays[h.key] >= h.at + Skew
            BY <1>10, <3>1, StillLive, Zenon
        <3> QED BY <1>1, <2>2, <3>1, <3>2, Zenon
    <2> QED BY <2>1, <2>2, Zenon
<1>11. ASSUME NEW h \in honoured', NEW g \in honoured', h.key = g.key, h.at < g.at, h.key[2] < h.at
       PROVE  h.key \in evicted'
    <2>1. h # new
        BY <1>3, <1>6, <1>9, <1>11
    <2>2. h \in honoured
        BY <1>7, <2>1, Zenon
    <2>3. CASE g = new
        BY <1>6, <1>11, <2>2, <2>3, StillLive, Zenon DEF replayed
    <2>4. CASE g # new
        BY <1>7, <1>11, <2>2, <2>4, Zenon DEF ReplaysInv
    <2> QED BY <2>3, <2>4, Zenon
<1>12. Skew' = Skew /\ MaxTime[server.name]' = MaxTime[server.name]
    BY Zenon DEF Skew
<1> QED BY <1>2, <1>5, <1>9, <1>10, <1>11, <1>12, Zenon DEF ReplaysInv

\* The clock leaves authenticators behind.
LEMMA TickKept ==
    ASSUME ClockInv, ReplaysInv, Tick
    PROVE  ReplaysInv'
<1>1. /\ now' = now + 1 /\ server' = server /\ replays' = replays
      /\ honoured' = {h \in honoured : h.key[2] + Skew > now}
      /\ evicted' = {k \in evicted : k[2] + Skew > now}
    BY Zenon DEF Tick
<1>2. server.skew \in Nat /\ now \in Nat
    BY ConfigurationAssumption DEF ClockInv, IsConfiguration
<1>3. \A h \in honoured' : h.key[2] \in Int /\ h.at \in Int /\ h.at <= now' /\ now' <= h.key[2] + Skew
    <2> SUFFICES ASSUME NEW h \in honoured'
                 PROVE  h.key[2] \in Int /\ h.at \in Int /\ h.at <= now' /\ now' <= h.key[2] + Skew
        OBVIOUS
    <2>1. h.key[2] \in Int /\ h.at \in Int /\ h.at <= now /\ h.key[2] + Skew > now
        BY <1>1, Zenon DEF ReplaysInv
    <2> QED BY <1>1, <1>2, <2>1 DEF Skew
<1>4. \A h \in honoured' : h \in honoured /\ (h.key \in evicted => h.key \in evicted')
    BY <1>1, Zenon
<1>5. Skew' = Skew /\ MaxTime[server.name]' = MaxTime[server.name]
    BY <1>1, Zenon DEF Skew
<1> QED BY <1>1, <1>3, <1>4, <1>5, Zenon DEF ReplaysInv

\* The TGS request made of a template.
LEMMA TGSContext ==
    ASSUME ClockInv, NEW r \in TGSRequests[server.name], NEW t, NEW u,
           NEW req, req = Adding([header |-> t, second |-> u, ctime |-> now + r.offset], r)
    PROVE  Context(req) /\ req.header = t /\ req.ctime \in Int
<1> DEFINE added == [header |-> t, second |-> u, ctime |-> now + r.offset]
<1>1. IsBody(r) /\ {"from", "till", "rtime"} \subseteq DOMAIN r
    BY RequestAssumption, Zenon DEF ClockInv
<1>2. req = [f \in DOMAIN added \cup DOMAIN r |-> IF f \in DOMAIN added THEN added[f] ELSE r[f]]
    BY Zenon DEF Adding
<1>3. DOMAIN added = {"header", "second", "ctime"} /\ added.header = t /\ added.ctime = now + r.offset
    OBVIOUS
<1> HIDE DEF added
<1>4. /\ req.from = r.from /\ req.till = r.till /\ req.rtime = r.rtime
      /\ req.header = t /\ req.ctime = now + r.offset
    BY <1>1, <1>2, <1>3
<1> QED BY <1>1, <1>4, ConfigurationAssumption DEF Context, IsBody, ClockInv

\* handleTGSReq: the replay cache, whatever becomes of the request.
LEMMA TGSReplaysKept ==
    ASSUME ClockInv, ReplaysInv, NEW req, req.ctime \in Int, handleTGSReq(req)
    PROVE  ReplaysInv'
<1> DEFINE key == <<req.header.client, req.ctime, req.id>>
<1>1. now' = now /\ server' = server
    BY Zenon DEF handleTGSReq
<1>2. CASE beforeReplay(req) # "ok"
    <2>1. UNCHANGED <<now, server, replays, honoured, evicted>>
        BY <1>1, <1>2, Zenon DEF handleTGSReq
    <2> QED BY <2>1, Zenon DEF ReplaysInv, Skew
<1>3. CASE beforeReplay(req) = "ok" /\ replayed(key)
    BY <1>1, <1>3, PurgeKept, Zenon DEF handleTGSReq
<1>4. CASE beforeReplay(req) = "ok" /\ ~replayed(key)
    <2>1. key[2] = req.ctime
        OBVIOUS
    <2>2. withinSkew(req.ctime)
        <3>1. checkHeader(req) = "ok"
            BY <1>4, FirstErrorOk DEF beforeReplay
        <3> QED BY <3>1, Zenon DEF checkHeader
    <2>3. \E gone \in victims : remember(key, gone) /\ evicted' = evicted \cup gone
        BY <1>4, Zenon DEF handleTGSReq
    <2>4. honoured' = honoured \cup {[key |-> key, at |-> now]}
        BY <1>4, Zenon DEF handleTGSReq
    <2>5. key[2] \in Int /\ withinSkew(key[2])
        BY <2>1, <2>2
    <2> HIDE DEF key
    <2> QED BY <1>1, <1>4, <2>3, <2>4, <2>5, RememberKept, Zenon
<1> QED BY <1>2, <1>3, <1>4, Zenon

-----------------------------------------------------------------------------
\* The invariant holds of a Server that starts.
LEMMA KdcInit == Init => KdcInv
<1> SUFFICES ASSUME Init PROVE KdcInv
    OBVIOUS
<1>1. server \in Servers /\ now = 1 /\ db = Database[server.name]
    BY Zenon DEF Init
<1>2. /\ IsConfiguration(server) /\ MaxTime[server.name] \in Nat \ {0} /\ IsDatabase(db)
      /\ \A t \in Foreign[server.name] : SoundTicket(t) /\ t.issued <= 1
    BY <1>1, ConfigurationAssumption, Zenon
<1>3. ClockInv
    BY <1>1, <1>2 DEF ClockInv
<1>4. AccountsInv
    BY <1>2 DEF Init, AccountsInv, IsDatabase, IsRecord
<1>5. TicketsInv
    BY <1>1, <1>2, Zenon DEF Init, TicketsInv
<1>6. ReplaysInv
    <2>1. DOMAIN replays = {} /\ honoured = {}
        BY DEF Init
    <2>2. IsFiniteSet({}) /\ Cardinality({}) = 0
        BY FS_EmptySet, Zenon
    <2> QED BY <2>1, <2>2, MaxReplaysAssumption DEF ReplaysInv
<1> QED BY <1>3, <1>4, <1>5, <1>6, Zenon DEF KdcInv

\* The steps, one by one.
LEMMA KdcNext == KdcInv /\ [Next]_vars => KdcInv'
<1> SUFFICES ASSUME KdcInv, [Next]_vars PROVE KdcInv'
    OBVIOUS
<1>0. ClockInv /\ AccountsInv /\ TicketsInv /\ ReplaysInv /\ server \in Servers /\ now \in Nat \ {0} /\ IsDatabase(db)
    BY Zenon DEF KdcInv, ClockInv, AccountsInv
<1>1. CASE ASExchange
    <2>1. PICK r \in ASRequests[server.name] : \E armor : handleASReq(ASRequest(r, armor))
        BY <1>1, Zenon DEF ASExchange
    <2>2. PICK armor : handleASReq(ASRequest(r, armor))
        BY <2>1, Zenon
    <2> DEFINE req == ASRequest(r, armor)
    <2>3. Context(req) /\ Complete(req)
        BY <1>0, RequestComplete, Zenon
    <2> HIDE DEF req
    <2>4. handleASReq(req)
        BY <2>2, Zenon DEF req
    <2>5. UNCHANGED <<now, server, replays, honoured, evicted>>
        BY <2>4, Zenon DEF handleASReq, answer
    <2>6. AccountsInv'
        BY <1>0, <2>3, <2>4, CountsKept, Zenon
    <2>7. TicketsInv'
        BY <1>0, <2>3, <2>4, ASTicketsSound, Zenon DEF Context
    <2>8. ClockInv' /\ ReplaysInv'
        BY <1>0, <2>5, Zenon DEF ClockInv, ReplaysInv, Skew
    <2> QED BY <2>6, <2>7, <2>8, Zenon DEF KdcInv
<1>2. CASE TGSExchange
    <2>0. PICK r \in TGSRequests[server.name], t \in held :
              \E u : handleTGSReq(Adding([header |-> t, second |-> u, ctime |-> now + r.offset], r))
        BY <1>2, Zenon DEF TGSExchange
    <2>1. PICK u : handleTGSReq(Adding([header |-> t, second |-> u, ctime |-> now + r.offset], r))
        BY <2>0, Zenon
    <2> DEFINE req == Adding([header |-> t, second |-> u, ctime |-> now + r.offset], r)
    <2>2. Context(req) /\ req.header = t /\ req.ctime \in Int
        BY <1>0, TGSContext, ZenonT(40)
    <2> HIDE DEF req
    <2>3. handleTGSReq(req)
        BY <2>1, Zenon DEF req
    <2>4. UNCHANGED <<now, server, db, fails, guesses>>
        BY <2>3, Zenon DEF handleTGSReq
    <2>5. TicketsInv'
        BY <1>0, <2>2, <2>3, TGSTicketsSound, Zenon DEF Context
    <2>6. ReplaysInv'
        BY <1>0, <2>2, <2>3, TGSReplaysKept, Zenon
    <2>7. ClockInv' /\ AccountsInv'
        BY <1>0, <2>4, Zenon DEF ClockInv, AccountsInv
    <2> QED BY <2>5, <2>6, <2>7, Zenon DEF KdcInv
<1>3. CASE Revise
    <2>1. /\ IsDatabase(db') /\ DOMAIN db' = DOMAIN db /\ \A p \in DOMAIN db : db'[p].policy = db[p].policy
          /\ UNCHANGED <<now, server, fails, replays, held, guesses, honoured, evicted>>
        BY <1>3, Zenon DEF Revise
    <2>2. AccountsInv'
        BY <1>0, <2>1, Zenon DEF AccountsInv
    <2>3. ClockInv' /\ TicketsInv' /\ ReplaysInv'
        BY <1>0, <2>1, Zenon DEF ClockInv, TicketsInv, ReplaysInv, Skew
    <2> QED BY <2>2, <2>3, Zenon DEF KdcInv
<1>4. CASE Tick
    <2>1. now < MaxTime[server.name] /\ now' = now + 1 /\ UNCHANGED <<server, db, fails, held, guesses>>
        BY <1>4, Zenon DEF Tick
    <2>2. ClockInv'
        <3>1. MaxTime[server.name] \in Nat
            BY <1>0, ConfigurationAssumption
        <3> QED BY <1>0, <2>1, <3>1 DEF ClockInv
    <2>3. TicketsInv'
        <3>1. \A t \in held : t.issued \in Int /\ t.issued <= now
            BY <1>0, Zenon DEF TicketsInv, SoundTicket
        <3>2. \A t \in held : t.issued <= now'
            BY <1>0, <2>1, <3>1
        <3> QED BY <1>0, <2>1, <3>2, Zenon DEF TicketsInv
    <2>4. AccountsInv'
        BY <1>0, <2>1, Zenon DEF AccountsInv
    <2>5. ReplaysInv'
        BY <1>0, <1>4, TickKept, Zenon
    <2> QED BY <2>2, <2>3, <2>4, <2>5, Zenon DEF KdcInv
<1>5. CASE Discard
    <2>1. held' \subseteq held /\ UNCHANGED <<now, server, db, fails, replays, guesses, honoured, evicted>>
        BY <1>5, Zenon DEF Discard
    <2> QED BY <1>0, <2>1, Zenon DEF KdcInv, ClockInv, AccountsInv, TicketsInv, ReplaysInv, Skew
<1>6. CASE UNCHANGED vars
    BY <1>0, <1>6, Zenon DEF vars, KdcInv, ClockInv, AccountsInv, TicketsInv, ReplaysInv, Skew
<1> QED BY <1>1, <1>2, <1>3, <1>4, <1>5, <1>6, Zenon DEF Next

\* The inductive invariant holds in every state of every behaviour.
THEOREM KdcInvariant == Spec => []KdcInv
BY KdcInit, KdcNext, PTL DEF Spec

\* handleASReqCore with lockedOut, for every configuration and every set of
\* requests: the KDC never tells a client of more wrong secrets than the policy
\* of its account allows.
THEOREM GuessesAreBounded == Spec => []GuessesBounded
<1>1. KdcInv => GuessesBounded
    <2> SUFFICES ASSUME KdcInv, NEW p \in DOMAIN guesses \ {Anonymous}, db[p].policy > 0
                 PROVE  guesses[p] <= db[p].policy
        BY DEF GuessesBounded
    <2>1. /\ guesses[p] \in Nat /\ fails[p] \in Nat /\ db[p].policy \in Nat
          /\ guesses[p] <= fails[p] /\ fails[p] <= db[p].policy
        BY Zenon DEF KdcInv, AccountsInv, IsDatabase, IsRecord
    <2> QED BY <2>1
<1> QED BY <1>1, KdcInvariant, PTL

\* handleTGSReqCore and buildTGSRep: no sequence of renewals, validations and
\* exchanges moves the end of the renewable life past the one the AS exchange
\* set, or makes a postdated ticket valid before its time.
THEOREM RenewalsDoEnd == Spec => []RenewalsEnd
<1>1. KdcInv => RenewalsEnd
    BY Zenon DEF KdcInv, TicketsInv, SoundTicket, RenewalsEnd
<1> QED BY <1>1, KdcInvariant, PTL

\* replayed: an authenticator made before it was received is honoured once,
\* unless the full cache had to forget it, and the cache keeps to its limit.
THEOREM AuthenticatorsCountOnce == Spec => []AuthenticatorOnce
<1>1. KdcInv => AuthenticatorOnce
    <2> SUFFICES ASSUME KdcInv PROVE AuthenticatorOnce
        OBVIOUS
    <2>1. now \in 1..MaxTime[server.name] /\ server \in Servers
        BY ConfigurationAssumption DEF KdcInv, ClockInv
    <2>2. TypeOK
        BY <2>1, Zenon DEF TypeOK, KdcInv, AccountsInv, TicketsInv, ReplaysInv, SoundTicket
    <2> QED BY <2>2, Zenon DEF AuthenticatorOnce, KdcInv, ReplaysInv
<1> QED BY <1>1, KdcInvariant, PTL

\* handleASReqCore: whichever mechanism issues a ticket, it does so on the
\* proof that the client's account and the KDC demand.
THEOREM NoWayAroundDemands == Spec => NoWayAround
<1>1. KdcInv /\ [Next]_vars =>
        [\A t \in held' \ held : t.client \in DOMAIN db \ {Anonymous} /\ ~MeetsDemands(t) => ~ASExchange]_vars
    <2> SUFFICES ASSUME KdcInv, NEW t \in held' \ held, t.client \in DOMAIN db \ {Anonymous}, ASExchange
                 PROVE  MeetsDemands(t)
        BY Zenon
    <2>0. server \in Servers /\ now \in Nat \ {0} /\ IsDatabase(db)
        BY Zenon DEF KdcInv, ClockInv, AccountsInv
    <2>1. PICK r \in ASRequests[server.name] : \E armor : handleASReq(ASRequest(r, armor))
        BY Zenon DEF ASExchange
    <2>2. PICK armor : handleASReq(ASRequest(r, armor))
        BY <2>1, Zenon
    <2> DEFINE req == ASRequest(r, armor)
    <2>3. Context(req)
        BY <2>0, RequestComplete, Zenon
    <2> HIDE DEF req
    <2>4. Keep(handleASReqCore(req), {})
        BY <2>2, Zenon DEF req, handleASReq, answer
    <2>5. handleASReqCore(req).ticket # None /\ t = handleASReqCore(req).ticket[1]
        BY <2>4, TicketKept, Zenon
    <2> QED BY <2>0, <2>3, <2>5, ASGrants, Zenon
<1> QED BY <1>1, KdcInvariant, PTL DEF Spec, NoWayAround

\* handleTGSReqCore and handleASReqCore: no new ticket, by whichever exchange,
\* is in the name of an account that has been disabled or has expired.
THEOREM RevokedNeverServed == Spec => RevokedGetNothing
<1>1. KdcInv /\ [Next]_vars =>
        [\A t \in held' \ held : t.client \in DOMAIN db \ {Anonymous} =>
          "disallow_all" \notin db[t.client].flags /\ ~expired(db[t.client])]_vars
    <2> SUFFICES ASSUME KdcInv, Next, NEW t \in held' \ held, t.client \in DOMAIN db \ {Anonymous}
                 PROVE  "disallow_all" \notin db[t.client].flags /\ ~expired(db[t.client])
        BY Zenon
    <2>0. ClockInv /\ server \in Servers /\ now \in Nat \ {0} /\ IsDatabase(db)
        BY Zenon DEF KdcInv, ClockInv, AccountsInv
    <2>1. CASE ASExchange
        <3>1. PICK r \in ASRequests[server.name] : \E armor : handleASReq(ASRequest(r, armor))
            BY <2>1, Zenon DEF ASExchange
        <3>2. PICK armor : handleASReq(ASRequest(r, armor))
            BY <3>1, Zenon
        <3> DEFINE req == ASRequest(r, armor)
        <3>3. Context(req)
            BY <2>0, RequestComplete, Zenon
        <3> HIDE DEF req
        <3>4. Keep(handleASReqCore(req), {})
            BY <3>2, Zenon DEF req, handleASReq, answer
        <3>5. handleASReqCore(req).ticket # None /\ t = handleASReqCore(req).ticket[1]
            BY <3>4, TicketKept, Zenon
        <3> QED BY <2>0, <3>3, <3>5, ASGrants, Zenon
    <2>2. CASE TGSExchange
        <3>0. PICK r \in TGSRequests[server.name], h \in held :
                  \E u : handleTGSReq(Adding([header |-> h, second |-> u, ctime |-> now + r.offset], r))
            BY <2>2, Zenon DEF TGSExchange
        <3>1. PICK u : handleTGSReq(Adding([header |-> h, second |-> u, ctime |-> now + r.offset], r))
            BY <3>0, Zenon
        <3> DEFINE req == Adding([header |-> h, second |-> u, ctime |-> now + r.offset], r)
        <3>2. Context(req) /\ req.header = h
            BY <2>0, TGSContext, ZenonT(40)
        <3> HIDE DEF req
        <3>3. handleTGSReq(req)
            BY <3>1, Zenon DEF req
        <3>4. beforeReplay(req) = "ok" /\ Keep(afterReplay(req), {req.header})
            BY <3>3, Zenon DEF handleTGSReq
        <3>5. afterReplay(req).ticket # None /\ t = afterReplay(req).ticket[1]
            BY <3>4, TicketKept, Zenon
        <3>6. SoundTicket(req.header) /\ req.header.issued <= now
            BY <3>2, Zenon DEF KdcInv, TicketsInv
        <3> QED BY <2>0, <3>2, <3>4, <3>5, <3>6, TGSGrants, Zenon
    <2>3. CASE Revise \/ Tick \/ Discard
        BY <2>3, Zenon DEF Revise, Tick, Discard
    <2> QED BY <2>1, <2>2, <2>3, Zenon DEF Next
<1> QED BY <1>1, KdcInvariant, PTL DEF Spec, RevokedGetNothing
=============================================================================
