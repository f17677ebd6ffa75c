------------------------- MODULE KdcExchangeProofs --------------------------
(***************************************************************************)
(* Lemmas about the two exchanges of a KDC, for every configuration,       *)
(* database and request: what a reply grants, and what it tells about a    *)
(* secret.                                                                 *)
(***************************************************************************)
EXTENDS KdcTGS, FiniteSetTheorems, WellFoundedInduction, NaturalsInduction, TLAPS

-----------------------------------------------------------------------------
(* Least elements.                                                         *)

\* A nonempty set of naturals has a least element.
LEMMA NatHasLeast ==
    ASSUME NEW S, S \subseteq Nat, S # {}
    PROVE  \E x \in S : \A y \in S : x <= y
<1>1. PICK x \in S : \A y \in S : ~(<<y, x>> \in OpToRel(<, Nat))
    BY WFMin, NatLessThanWellFounded, Zenon
<1>2. OpToRel(<, Nat) = {p \in Nat \X Nat : p[1] < p[2]}
    BY DEF OpToRel
<1>3. \A y, z \in Nat : y < z => <<y, z>> \in OpToRel(<, Nat)
    BY <1>2, Zenon
<1>4. \A y \in S : ~(y < x)
    BY <1>1, <1>3, Zenon
<1> QED BY <1>4

\* So has a set of integers with a lower bound.
LEMMA BoundedHasLeast ==
    ASSUME NEW S, S \subseteq Int, NEW b \in Int, \A x \in S : b <= x, S # {}
    PROVE  Min(S) \in S /\ \A y \in S : Min(S) <= y
<1> DEFINE T == {n \in Nat : n + b \in S}
<1>1. PICK z : z \in S
    OBVIOUS
<1>2. z - b \in T
    BY <1>1
<1>3. PICK n \in T : \A m \in T : n <= m
    BY <1>2, NatHasLeast, Zenon
<1>4. ASSUME NEW y \in S PROVE n + b <= y
    <2>1. y - b \in T
        OBVIOUS
    <2> QED BY <2>1, <1>3
<1>5. \E x \in S : \A y \in S : x <= y
    BY <1>3, <1>4
<1> QED BY <1>5, Zenon DEF Min

\* So has a finite set of integers: the least size of a set without one leads
\* to a smaller size.
LEMMA FiniteHasLeast ==
    ASSUME NEW S, S \subseteq Int, IsFiniteSet(S), S # {}
    PROVE  Min(S) \in S /\ \A y \in S : Min(S) <= y
<1> DEFINE Least(T) == \E x \in T : \A y \in T : x <= y
           Bad(T) == T \subseteq Int /\ IsFiniteSet(T) /\ T # {} /\ ~Least(T)
           sizes == {n \in Nat : \E T \in SUBSET Int : Bad(T) /\ Cardinality(T) = n}
<1>1. ASSUME sizes # {} PROVE FALSE
    <2>1. PICK n \in sizes : \A m \in sizes : n <= m
        BY <1>1, NatHasLeast, Zenon
    <2>2. PICK T \in SUBSET Int : Bad(T) /\ Cardinality(T) = n
        BY <2>1
    <2>3. PICK x : x \in T
        BY <2>2
    <2> DEFINE U == T \ {x}
    <2>4. IsFiniteSet(U) /\ Cardinality(U) = n - 1 /\ n - 1 \in Nat
        <3>1. IsFiniteSet(T) /\ Cardinality(T) = n /\ n \in Nat
            BY <2>1, <2>2
        <3>2. IsFiniteSet(U) /\ Cardinality(U) = n - 1
            BY <3>1, <2>3, FS_RemoveElement
        <3>3. Cardinality(U) \in Nat
            BY <3>2, FS_CardinalityType
        <3> QED BY <3>2, <3>3
    <2>5. n - 1 \notin sizes
        BY <2>1, <2>4
    <2>6. ~Bad(U)
        BY <2>4, <2>5
    <2>7. CASE U = {}
        <3>1. T = {x} /\ x \in Int
            BY <2>2, <2>3, <2>7
        <3> QED BY <3>1, <2>2
    <2>8. CASE U # {}
        <3>1. PICK u \in U : \A y \in U : u <= y
            BY <2>2, <2>4, <2>6, <2>8, Zenon
        <3>2. x \in Int /\ u \in Int /\ T = U \cup {x} /\ \A y \in U : y \in Int
            BY <2>2, <2>3, <3>1
        <3>3. CASE x <= u
            <4>1. \A y \in T : x <= y
                BY <3>1, <3>2, <3>3
            <4> QED BY <4>1, <2>2, <2>3
        <3>4. CASE ~(x <= u)
            <4>1. \A y \in T : u <= y
                BY <3>1, <3>2, <3>4
            <4> QED BY <4>1, <2>2, <3>1
        <3> QED BY <3>3, <3>4
    <2> QED BY <2>7, <2>8
<1>2. Cardinality(S) \in Nat
    BY FS_CardinalityType
<1>3. Least(S)
    BY <1>1, <1>2
<1> QED BY <1>3, Zenon DEF Min

\* The image of a finite set is finite.
LEMMA ImageFinite ==
    ASSUME NEW S, IsFiniteSet(S), NEW f, DOMAIN f = S
    PROVE  IsFiniteSet({f[x] : x \in S})
<1> DEFINE T == {f[x] : x \in S}
           g == [x \in S |-> f[x]]
<1>1. g \in Surjection(S, T)
    BY DEF Surjection
<1> QED BY <1>1, FS_Surjection

-----------------------------------------------------------------------------
(* Times and flags of a new ticket.                                        *)

\* shortest: what limits a life is one of the limits.
LEMMA ShortestInt ==
    ASSUME NEW life \in Int, NEW limits, limits \subseteq Int
    PROVE  shortest(life, limits) \in Int
<1> DEFINE S == {life} \cup {l \in limits : l > 0}
           b == IF life < 0 THEN life ELSE 0
<1>1. S \subseteq Int /\ life \in S
    BY Zenon
<1>2. ASSUME NEW l \in S PROVE b <= l
    <2>1. CASE l = life
        BY <2>1
    <2>2. CASE l \in limits /\ l > 0
        BY <2>2
    <2> QED BY <2>1, <2>2, Zenon
<1>3. b \in Int
    OBVIOUS
<1>4. Min(S) \in S
    <2> HIDE DEF S, b
    <2> QED BY <1>1, <1>2, <1>3, BoundedHasLeast, Zenon
<1> QED BY <1>1, <1>4, Zenon DEF shortest

\* renewTillRecords: a time or none.
LEMMA RenewTillTime ==
    ASSUME NEW options, NEW rtime \in Int, NEW till \in Int, NEW start \in Int, NEW end, NEW recs,
           \A r \in recs : r.maxRenew \in Int, IsConfiguration(server)
    PROVE  IsTime(renewTillRecords(options, rtime, till, start, end, recs))
<1> DEFINE renewable == "renewable" \in options
           target == IF renewable /\ rtime # 0 THEN rtime
                  ELSE IF renewable /\ server.defRenew > 0 THEN start + server.defRenew
                  ELSE IF till # 0 THEN till
                  ELSE IF server.defRenew > 0 THEN start + server.defRenew
                  ELSE start + server.maxRenew
           cap == shortest(server.maxRenew, {r.maxRenew : r \in recs})
           until == Before(target, start + cap)
<1>1. server.defRenew \in Int /\ server.maxRenew \in Int
    BY DEF IsConfiguration
<1>2. cap \in Int
    <2>1. {r.maxRenew : r \in recs} \subseteq Int
        OBVIOUS
    <2> QED BY <1>1, <2>1, ShortestInt, Zenon
<1>3. target \in Int
    BY <1>1
<1> HIDE DEF target, cap
<1>4. until \in Int
    BY <1>2, <1>3 DEF Before
<1>5. \/ renewTillRecords(options, rtime, till, start, end, recs) = None
      \/ renewTillRecords(options, rtime, till, start, end, recs) = Some(until)
    BY Zenon DEF renewTillRecords, target, cap
<1> HIDE DEF until
<1>6. Some(until)[1] = until
    BY DEF Some
<1> QED BY <1>4, <1>5, <1>6 DEF IsTime

\* constrainTicketTimes: a policy module only shortens the renewable life.
LEMMA ConstrainShortens ==
    ASSUME NEW renew, IsTime(renew), IsConfiguration(server), now \in Int
    PROVE  /\ IsTime(constrainRenew(renew))
           /\ constrainRenew(renew) # None => renew # None /\ constrainRenew(renew)[1] <= renew[1]
<1>1. CASE renew = None
    BY <1>1 DEF constrainRenew, IsTime
<1>2. CASE renew # None
    <2> DEFINE lives == {m.renew : m \in server.caps}
               f == [m \in server.caps |-> m.renew]
               rest == lives \ {0}
               g == [life \in rest |-> now + life]
               limits == {now + life : life \in rest}
               S == {renew[1]} \cup limits
    <2>1. renew[1] \in Int /\ IsFiniteSet(server.caps) /\ \A m \in server.caps : m.renew \in Int
        BY <1>2 DEF IsTime, IsConfiguration
    <2>2. IsFiniteSet(lives)
        <3>1. DOMAIN f = server.caps /\ lives = {f[m] : m \in server.caps}
            BY Zenon
        <3> HIDE DEF f, lives
        <3> QED BY <2>1, <3>1, ImageFinite
    <2>3. IsFiniteSet(rest)
        <3> HIDE DEF lives
        <3> QED BY <2>2, FS_Subset
    <2>4. IsFiniteSet(limits)
        <3>1. DOMAIN g = rest /\ limits = {g[life] : life \in rest}
            BY Zenon
        <3> HIDE DEF g, limits, rest
        <3> QED BY <2>3, <3>1, ImageFinite
    <2>5. limits \subseteq Int
        BY <2>1
    <2>6. IsFiniteSet(S)
        <3> HIDE DEF limits
        <3> QED BY <2>4, FS_AddElement
    <2>7. S \subseteq Int /\ S # {} /\ renew[1] \in S
        BY <2>1, <2>5
    <2>8. Min(S) \in Int /\ Min(S) <= renew[1]
        <3> HIDE DEF S
        <3>1. Min(S) \in S /\ Min(S) <= renew[1]
            BY <2>6, <2>7, FiniteHasLeast, Zenon
        <3> QED BY <2>7, <3>1, Zenon
    <2>9. constrainRenew(renew) = Some(Min(S))
        BY <1>2 DEF constrainRenew, capped
    <2> HIDE DEF S
    <2> QED BY <1>2, <2>8, <2>9 DEF IsTime, Some
<1> QED BY <1>1, <1>2

\* applyFlagPolicies touches only the flags a policy can bar.
LEMMA FlagsKept ==
    ASSUME NEW flags, NEW recs
    PROVE  /\ "invalid" \in flags => "invalid" \in applyFlagPolicies(flags, recs)
           /\ "invalid" \notin flags => "invalid" \notin applyFlagPolicies(flags, recs)
           /\ /\ "renewable" \in flags /\ "renewable" \in server.allowed
              /\ \A r \in recs : "renewable" \notin r.disallow
              => "renewable" \in applyFlagPolicies(flags, recs)
BY Zenon DEF applyFlagPolicies

-----------------------------------------------------------------------------
(* The AS exchange: what a ticket that a mechanism grants is.              *)

\* What handleASReqCore has found.
IsFound(x) ==
    /\ x.client.maxRenew \in Int /\ x.service.maxRenew \in Int
    /\ x = [cname |-> x.cname, client |-> x.client, sname |-> x.sname, service |-> x.service,
            etype |-> x.etype, ckey |-> x.ckey, custom |-> x.custom, armored |-> x.armored]

\* The ticket of a reply for x is sound, and is issued now, to its client, on
\* what the client's record and the KDC demand.
Demanded(t, x) ==
    /\ "requires_preauth" \in x.client.flags => t.root.proof # "none"
    /\ "requires_hw_auth" \in x.client.flags => t.root.proof = "hardware" /\ "hw_authent" \in t.flags
    /\ RequiredModules \subseteq t.root.agreed
Granted(reply, x) ==
    reply.ticket # None =>
        LET t == reply.ticket[1] IN
        SoundTicket(t) /\ t.issued = now /\ t.client = x.cname /\ Demanded(t, x)

\* A reply that refuses grants nothing, whatever is recorded.
LEMMA RefusalGrants ==
    ASSUME NEW x
    PROVE  /\ \A code : Granted(Refuse(code), x)
           /\ \A code, what : Granted(Offer(code, what), x)
           /\ Granted(PF, x) /\ Granted(WithFailure(PF), x)
BY DEF Granted, Refuse, Offer, PF, WithFailure, None

\* issueTicket: the times of a new ticket.
LEMMA IssueSound ==
    ASSUME NEW x, NEW flags, NEW indicators, NEW etype, NEW proof, NEW start \in Int, NEW end, NEW renew,
           IsTime(renew), now \in Int, "invalid" \notin flags => start <= now,
           NEW t, t = issueTicket(x, flags, indicators, etype, proof, start, end, renew)
    PROVE  /\ SoundTicket(t) /\ t.issued = now /\ t.client = x.cname
           /\ flags \subseteq t.flags /\ t.root.proof = proof /\ t.root.agreed = x.custom.verified
<1>1. /\ t.issued = now /\ t.client = x.cname /\ t.renew = renew /\ t.root.renew = renew
      /\ t.start = Some(start) /\ t.root.proof = proof /\ t.root.agreed = x.custom.verified
    BY Zenon DEF issueTicket
<1>2. t.flags = IF renew = None THEN flags ELSE flags \cup {"renewable"}
    BY Zenon DEF issueTicket
<1>3. flags \subseteq t.flags /\ (renew # None => "renewable" \in t.flags)
    BY <1>2, Zenon
<1>4. IsTime(t.start) /\ t.start[1] = start
    BY <1>1 DEF IsTime, Some
<1>5. renew # None => renew[1] <= renew[1]
    BY DEF IsTime
<1>6. "invalid" \notin t.flags => start <= now
    BY <1>3, Zenon
<1>7. SoundTicket(t)
    BY <1>1, <1>3, <1>4, <1>5, <1>6, Zenon DEF SoundTicket
<1> QED BY <1>1, <1>3, <1>7, Zenon

\* What the lemmas about replies assume of the state and of a request.
Context(req) ==
    /\ IsConfiguration(server) /\ now \in Int
    /\ req.from \in Int /\ req.till \in Int /\ req.rtime \in Int

\* The shape of a reply.
IsReply(reply) == reply = [code |-> reply.code, ticket |-> reply.ticket, offer |-> reply.offer,
                           recorded |-> reply.recorded]

\* buildASRepWithPreauth grants what its caller has proved.
LEMMA BuildGrants ==
    ASSUME NEW req, NEW x, NEW preauth, NEW hw, NEW indicators, NEW etype, NEW replyKey, NEW proof,
           Context(req), IsFound(x),
           "requires_preauth" \in x.client.flags => proof # "none",
           "requires_hw_auth" \in x.client.flags =>
               proof = "hardware" /\ "hw_authent" \in asFlags(req, x, preauth, hw),
           RequiredModules \subseteq x.custom.verified,
           NEW reply, reply = buildASRep(req, x, preauth, hw, indicators, etype, replyKey, proof)
    PROVE  Granted(reply, x) /\ IsReply(reply)
<1> DEFINE start == IF "postdated" \in req.options THEN req.from ELSE now
           recs == {x.client, x.service}
           end == ticketEndFromRecords(req.till, start, recs)
           renew == asRenew(req, start, end, recs)
           flags == asFlags(req, x, preauth, hw)
           t == issueTicket(x, flags, indicators, etype, proof, start, end, renew)
<1>1. \/ \E code : reply = Refuse(code)
      \/ reply = [Refuse("ok") EXCEPT !.ticket = Some(t)]
    BY Zenon DEF buildASRep
<1>2. start \in Int
    BY DEF Context
<1>3. \A r \in recs : r.maxRenew \in Int
    BY DEF IsFound
<1>4. IsTime(renew)
    <2> HIDE DEF start, recs, end
    <2>1. IsTime(renewTillRecords(req.options, req.rtime, req.till, start, end, recs))
        BY <1>2, <1>3, RenewTillTime DEF Context
    <2>2. IsTime(None)
        BY DEF IsTime
    <2> QED BY <2>1, <2>2, ConstrainShortens DEF asRenew, Context
<1>5. "invalid" \notin flags => start <= now
    BY DEF asFlags, Context
<1>6. "requires_hw_auth" \in x.client.flags => proof = "hardware" /\ "hw_authent" \in flags
    OBVIOUS
<1> HIDE DEF start, recs, end, renew, flags
<1>a. t = issueTicket(x, flags, indicators, etype, proof, start, end, renew)
    OBVIOUS
<1> HIDE DEF t
<1>7. /\ SoundTicket(t) /\ t.issued = now /\ t.client = x.cname
      /\ flags \subseteq t.flags /\ t.root.proof = proof /\ t.root.agreed = x.custom.verified
    <2>1. now \in Int
        BY DEF Context
    <2> QED BY <1>2, <1>4, <1>5, <1>a, <2>1, IssueSound
<1>8. Demanded(t, x)
    BY <1>6, <1>7, Zenon DEF Demanded
<1>9. CASE reply = [Refuse("ok") EXCEPT !.ticket = Some(t)]
    <2>1. reply.ticket[1] = t /\ IsReply(reply)
        BY <1>9 DEF Refuse, Some, IsReply
    <2>2. Granted(reply, x)
        BY <1>7, <1>8, <2>1, Zenon DEF Granted
    <2> QED BY <2>1, <2>2
<1>10. CASE \E code : reply = Refuse(code)
    <2>1. Granted(reply, x)
        BY <1>10, RefusalGrants, Zenon
    <2>2. IsReply(reply)
        BY <1>10 DEF Refuse, IsReply
    <2> QED BY <2>1, <2>2
<1> QED BY <1>1, <1>9, <1>10, Zenon DEF t, flags, renew, end, recs, start

\* afterProof: the modules the KDC requires are asked, too.
LEMMA ProofGrants ==
    ASSUME NEW req, NEW x, NEW hw, NEW indicators, NEW etype, NEW replyKey, NEW proof,
           Context(req), IsFound(x), proof # "none",
           "requires_hw_auth" \in x.client.flags =>
               proof = "hardware" /\ "hw_authent" \in asFlags(req, x, TRUE, hw),
           NEW reply, reply = afterProof(req, x, hw, indicators, etype, replyKey, proof)
    PROVE  Granted(reply, x) /\ IsReply(reply)
<1>1. CASE ~customPreauthSatisfied(x.custom)
    <2>1. reply = PF
        BY <1>1, Zenon DEF afterProof
    <2>2. IsReply(reply)
        BY <2>1 DEF PF, Refuse, IsReply
    <2> QED BY <2>1, <2>2, RefusalGrants, Zenon
<1>2. CASE customPreauthSatisfied(x.custom)
    <2>1. reply = buildASRep(req, x, TRUE, hw, indicators, etype, replyKey, proof)
        BY <1>2, Zenon DEF afterProof
    <2>2. RequiredModules \subseteq x.custom.verified
        BY <1>2 DEF customPreauthSatisfied
    <2> QED BY <2>1, <2>2, BuildGrants, ZenonT(40)
<1> QED BY <1>1, <1>2, Zenon

\* Recording a success grants nothing more.
LEMMA SuccessOf ==
    ASSUME NEW reply, NEW x, Granted(reply, x), IsReply(reply)
    PROVE  Granted(WithSuccess(reply), x)
BY DEF Granted, WithSuccess, IsReply

\* encrypted challenge, SPAKE and encrypted timestamp
LEMMA PasswordGrants ==
    ASSUME NEW req, NEW x, NEW indicators, NEW replyKey, Context(req), IsFound(x)
    PROVE  Granted(passwordProved(req, x, indicators, replyKey), x)
<1> DEFINE reply == afterProof(req, x, FALSE, indicators, x.etype, replyKey, "password")
<1>1. CASE "requires_hw_auth" \notin x.client.flags
    <2>1. reply = afterProof(req, x, FALSE, indicators, x.etype, replyKey, "password")
        OBVIOUS
    <2> HIDE DEF reply
    <2>2. Granted(reply, x) /\ IsReply(reply)
        BY <1>1, <2>1, ProofGrants, ZenonT(40)
    <2>3. Granted(WithSuccess(reply), x)
        BY <2>2, SuccessOf, Zenon
    <2> QED BY <2>3, RefusalGrants, Zenon DEF passwordProved, reply
<1>2. CASE "requires_hw_auth" \in x.client.flags
    <2>1. hwRequired(x)
        BY <1>2 DEF hwRequired
    <2> QED BY <2>1, RefusalGrants, Zenon DEF passwordProved
<1> QED BY <1>1, <1>2, Zenon

\* The preauthentication modules.
LEMMA ModulesGrant ==
    ASSUME NEW req, NEW x, Context(req), IsFound(x)
    PROVE  Granted(modulesProved(req, x), x)
<1> DEFINE proof == IF x.custom.hw THEN "hardware" ELSE "modules"
           reply == buildASRep(req, x, TRUE, x.custom.hw, server.indicators.modules, x.etype,
                               x.custom.replaced, proof)
<1>1. CASE ~customPreauthSatisfied(x.custom) \/ (hwRequired(x) /\ ~x.custom.hw)
    BY <1>1, RefusalGrants, Zenon DEF modulesProved
<1>2. CASE customPreauthSatisfied(x.custom) /\ (hwRequired(x) => x.custom.hw)
    <2>1. /\ RequiredModules \subseteq x.custom.verified
          /\ "requires_hw_auth" \in x.client.flags => x.custom.hw
        BY <1>2 DEF customPreauthSatisfied, hwRequired
    <2>2. /\ proof # "none"
          /\ "requires_hw_auth" \in x.client.flags =>
                proof = "hardware" /\ "hw_authent" \in asFlags(req, x, TRUE, x.custom.hw)
        BY <2>1, Zenon DEF asFlags
    <2>3. reply = buildASRep(req, x, TRUE, x.custom.hw, server.indicators.modules, x.etype,
                             x.custom.replaced, proof)
        OBVIOUS
    <2> HIDE DEF reply, proof
    <2>4. Granted(reply, x) /\ IsReply(reply)
        BY <2>1, <2>2, <2>3, BuildGrants, ZenonT(40)
    <2>5. IsReply(PF)
        BY DEF PF, Refuse, IsReply
    <2>6. Granted(WithSuccess(reply), x) /\ Granted(WithSuccess(PF), x)
        BY <2>4, <2>5, SuccessOf, RefusalGrants, Zenon
    <2> QED BY <2>6, RefusalGrants, Zenon DEF modulesProved, reply, proof
<1> QED BY <1>1, <1>2, Zenon

\* A one-time password.
LEMMA OtpGrants ==
    ASSUME NEW req, NEW x, Context(req), IsFound(x)
    PROVE  Granted(verifyOTP(req, x), x)
<1> DEFINE reply == afterProof(req, x, FALSE, server.indicators.otp,
                                     req.armor[1].ticket.session, TRUE, "otp")
<1>1. CASE hwRequired(x)
    BY <1>1, RefusalGrants, Zenon DEF verifyOTP
<1>2. CASE ~hwRequired(x)
    <2>1. reply = afterProof(req, x, FALSE, server.indicators.otp,
                                     req.armor[1].ticket.session, TRUE, "otp")
        OBVIOUS
    <2> HIDE DEF reply
    <2>2. Granted(reply, x) /\ IsReply(reply)
        BY <1>2, <2>1, ProofGrants, ZenonT(40) DEF hwRequired
    <2>3. IsReply(Refuse("POLICY"))
        BY DEF Refuse, IsReply
    <2>4. Granted(WithSuccess(reply), x) /\ Granted(WithSuccess(Refuse("POLICY")), x)
        BY <2>2, <2>3, SuccessOf, RefusalGrants, Zenon
    <2> QED BY <2>4, RefusalGrants, Zenon DEF verifyOTP, reply
<1> QED BY <1>1, <1>2, Zenon

\* Encrypted challenge, with whichever of the client's keys it was made.
LEMMA ChallengeGrants ==
    ASSUME NEW req, NEW x, Context(req), IsFound(x)
    PROVE  Granted(encryptedChallenge(req, x), x)
<1> DEFINE y == [x EXCEPT !.ckey = req.key]
           reply == passwordProved(req, y, server.indicators.challenge, FALSE)
<1>1. /\ y.client = x.client /\ y.cname = x.cname
      /\ y = [cname |-> x.cname, client |-> x.client, sname |-> x.sname, service |-> x.service,
            etype |-> x.etype, ckey |-> req.key, custom |-> x.custom, armored |-> x.armored]
    BY DEF IsFound
<1> HIDE DEF y
<1>2. IsFound(y)
    BY <1>1 DEF IsFound
<1>3. Granted(reply, y)
    BY <1>2, PasswordGrants, Zenon
<1>4. Granted(reply, x)
    BY <1>1, <1>3, Zenon DEF Granted, Demanded
<1> QED BY <1>4, RefusalGrants, Zenon DEF encryptedChallenge, y

\* Encrypted timestamp.
LEMMA TimestampGrants ==
    ASSUME NEW req, NEW x, Context(req), IsFound(x)
    PROVE  Granted(encryptedTimestamp(req, x), x)
<1>1. Granted(passwordProved(req, x, {}, FALSE), x)
    BY PasswordGrants, Zenon
<1> QED BY <1>1, RefusalGrants, Zenon DEF encryptedTimestamp

\* SPAKE: the challenge grants nothing, the response what a password does.
LEMMA SpakeGrants ==
    ASSUME NEW req, NEW x, Context(req), IsFound(x)
    PROVE  Granted(spakeResponse(req, x), x) /\ Granted(spakeChallenge(x), x)
<1>1. Granted(passwordProved(req, x, server.indicators.spake, TRUE), x)
    BY PasswordGrants, Zenon
<1>2. Granted(spakeResponse(req, x), x)
    BY <1>1, RefusalGrants, Zenon DEF spakeResponse
<1>3. Granted(spakeChallenge(x), x)
    BY RefusalGrants, Zenon DEF spakeChallenge
<1> QED BY <1>2, <1>3

\* A certificate, also the anonymous one.
LEMMA PkinitGrants ==
    ASSUME NEW req, NEW x, Context(req), IsFound(x)
    PROVE  Granted(verifyPKINIT(req, x), x)
<1> DEFINE hw == req.cert = "hardware"
           indicators == IF "anonymous" \in req.options THEN {} ELSE server.indicators.pkinit
           proof == IF req.cert = "hardware" THEN "hardware" ELSE "certificate"
           reply == afterProof(req, x, req.cert = "hardware", indicators, x.etype, TRUE, proof)
<1>1. CASE hwRequired(x) /\ req.cert # "hardware"
    BY <1>1, RefusalGrants, Zenon DEF verifyPKINIT
<1>2. CASE hwRequired(x) => req.cert = "hardware"
    <2>1. proof # "none"
        OBVIOUS
    <2>2. "requires_hw_auth" \in x.client.flags =>
              proof = "hardware" /\ "hw_authent" \in asFlags(req, x, TRUE, req.cert = "hardware")
        BY <1>2, Zenon DEF hwRequired, asFlags
    <2>3. reply = afterProof(req, x, req.cert = "hardware", indicators, x.etype, TRUE, proof)
        OBVIOUS
    <2> HIDE DEF reply, proof, indicators
    <2>4. Granted(reply, x) /\ IsReply(reply)
        BY <2>1, <2>2, <2>3, ProofGrants, ZenonT(40)
    <2>5. \A code : IsReply(Refuse(code))
        BY DEF Refuse, IsReply
    <2>6. Granted(WithSuccess(reply), x) /\ \A code : Granted(WithSuccess(Refuse(code)), x)
        BY <2>4, <2>5, SuccessOf, RefusalGrants, Zenon
    <2> QED BY <2>6, RefusalGrants, Zenon DEF verifyPKINIT, reply, proof, indicators
<1> QED BY <1>1, <1>2, Zenon

\* noPreauth is asked only where nothing is required.
LEMMA NoPreauthGrants ==
    ASSUME NEW req, NEW x, NEW required, Context(req), IsFound(x),
           ~required => /\ RequiredModules = {}
                        /\ {"requires_preauth", "requires_hw_auth"} \cap x.client.flags = {}
    PROVE  Granted(noPreauth(req, x, required), x)
<1> DEFINE reply == buildASRep(req, x, FALSE, FALSE, {}, x.etype, FALSE, "none")
<1>1. CASE required
    BY <1>1, RefusalGrants, Zenon DEF noPreauth
<1>2. CASE ~required
    <2>1. /\ RequiredModules \subseteq x.custom.verified
          /\ "requires_preauth" \notin x.client.flags /\ "requires_hw_auth" \notin x.client.flags
        BY <1>2
    <2>2. reply = buildASRep(req, x, FALSE, FALSE, {}, x.etype, FALSE, "none")
        OBVIOUS
    <2> HIDE DEF reply
    <2>3. Granted(reply, x)
        BY <2>1, <2>2, BuildGrants, ZenonT(40)
    <2> QED BY <1>2, <2>3, RefusalGrants, Zenon DEF noPreauth, reply
<1> QED BY <1>1, <1>2, Zenon

\* handleASReqCore from the choice of a mechanism on.
LEMMA ChoiceGrants ==
    ASSUME NEW req, NEW x, Context(req), IsFound(x)
    PROVE  Granted(choosePreauth(req, x), x)
<1> DEFINE required == ~server.disablePreauth \/ RequiredModules # {}
                           \/ {"requires_preauth", "requires_hw_auth"} \cap x.client.flags # {}
<1>1. Granted(noPreauth(req, x, required), x)
    <2>1. ~required => /\ RequiredModules = {}
                       /\ {"requires_preauth", "requires_hw_auth"} \cap x.client.flags = {}
        BY Zenon
    <2> HIDE DEF required
    <2> QED BY <2>1, NoPreauthGrants, Zenon
<1>2. /\ Granted(modulesProved(req, x), x) /\ Granted(verifyOTP(req, x), x)
      /\ Granted(encryptedChallenge(req, x), x) /\ Granted(spakeChallenge(x), x)
      /\ Granted(spakeResponse(req, x), x) /\ Granted(verifyPKINIT(req, x), x)
      /\ Granted(encryptedTimestamp(req, x), x)
    BY ModulesGrant, OtpGrants, ChallengeGrants, SpakeGrants, PkinitGrants, TimestampGrants, Zenon
<1>3. /\ Granted(PF, x) /\ \A code : Granted(Refuse(code), x)
      /\ \A code, what : Granted(Offer(code, what), x)
    BY RefusalGrants, Zenon
<1> QED BY <1>1, <1>2, <1>3, Zenon DEF choosePreauth

-----------------------------------------------------------------------------
(* The TGS exchange.                                                       *)

\* What handleTGSReqCore has checked when it builds a reply for a service.
Checked(req, service) ==
    /\ checkValidity(req) = "ok" /\ checkAccount(req.header.client) = "ok"
    /\ checkS4USelf(req, service.name) = "ok" /\ checkS4UProxy(req, service.name) = "ok"

\* What is known of the times a ticket of the TGS starts from.
TimesSound(times, t) ==
    /\ IsTime(times.renew) /\ IsTime(times.start)
    /\ times.renew # None =>
         t.renew # None /\ times.renew[1] <= t.renew[1] /\ "renewable" \in times.flags
    /\ "invalid" \notin times.flags /\ times.start # None => times.start[1] <= now

\* buildTGSRep: a new ticket that is neither renewed nor validated.
LEMMA NewTimesSound ==
    ASSUME NEW req, NEW flags, NEW start \in Int, NEW end, NEW asked, NEW limit, IsTime(asked), IsTime(limit),
           NEW t, t.renew = limit,
           NEW times, times = newTimes(req, flags, start, end, renewUntil(asked, limit))
    PROVE  TimesSound(times, t)
<1> DEFINE renew == renewUntil(asked, limit)
<1>1. IsTime(renew) /\ (renew # None => limit # None /\ renew[1] <= limit[1])
    <2>1. CASE asked = None \/ limit = None
        <3>1. renew = None
            BY <2>1, Zenon DEF renewUntil
        <3> QED BY <3>1, Zenon DEF IsTime
    <2>2. CASE asked # None /\ limit # None
        <3>1. asked[1] \in Int /\ limit[1] \in Int
            BY <2>2, Zenon DEF IsTime
        <3>2. renew = Some(Before(asked[1], limit[1]))
            BY <2>2, Zenon DEF renewUntil
        <3>3. Before(asked[1], limit[1]) \in Int /\ Before(asked[1], limit[1]) <= limit[1]
            BY <3>1 DEF Before
        <3>4. renew[1] = Before(asked[1], limit[1])
            BY <3>2 DEF Some
        <3> QED BY <2>2, <3>2, <3>3, <3>4, Zenon DEF IsTime
    <2> QED BY <2>1, <2>2, Zenon
<1> HIDE DEF renew
<1>2. /\ times.renew = renew
      /\ times.start = IF Has(req, "postdated") THEN Some(start) ELSE None
      /\ times.flags = (flags \ {"renewable"})
                  \cup (IF Has(req, "postdated") THEN {"postdated", "invalid"} ELSE {})
                  \cup (IF renew = None THEN {} ELSE {"renewable"})
    BY Zenon DEF newTimes, renew
<1>3. IsTime(times.start)
    <2>1. IsTime(None) /\ IsTime(Some(start))
        BY DEF IsTime, Some
    <2> QED BY <1>2, <2>1, Zenon
<1>4. renew # None => "renewable" \in times.flags
    BY <1>2, Zenon
<1>5. times.start # None => "invalid" \in times.flags
    BY <1>2, Zenon
<1> QED BY <1>1, <1>2, <1>3, <1>4, <1>5, Zenon DEF TimesSound

\* buildTGSRep: renewing and validating never start from another ticket than
\* the header, and validating waits for the ticket's time.
LEMMA TimesAreSound ==
    ASSUME NEW req, NEW service, NEW recs, Context(req), Checked(req, service),
           SoundTicket(req.header), req.header.issued <= now, \A r \in recs : r.maxRenew \in Int,
           NEW flags, headerFlags(req) \subseteq flags, flags \subseteq headerFlags(req) \cup {"forwarded"},
           NEW times, times = tgsTimes(req, flags, recs)
    PROVE  TimesSound(times, req.header)
<1> DEFINE t == req.header
           start == IF Has(req, "postdated") THEN req.from ELSE now
           end == ticketEndFromRecords(req.till, start, recs)
           asked == renewTillRecords(req.options, req.rtime, req.till, start, end, recs)
<1>1. /\ IsTime(t.renew) /\ IsTime(t.start) /\ t.issued \in Int /\ now \in Int /\ t.issued <= now
      /\ t.renew # None => "renewable" \in t.flags
      /\ "invalid" \notin t.flags /\ t.start # None => t.start[1] <= t.issued
    BY Zenon DEF SoundTicket, Context
<1>2. t.renew # None => t.renew[1] \in Int /\ t.renew[1] <= t.renew[1]
    BY <1>1 DEF IsTime
<1>3. t.start # None => t.start[1] \in Int
    BY <1>1, Zenon DEF IsTime
<1>4. ASSUME HasAny(req, {"renew", "validate"}), "renewable" \in t.flags PROVE "renewable" \in flags
    <2>1. ~Has(req, "cname_in_addl_tkt")
        BY <1>4, Zenon DEF Checked, checkS4UProxy, HasAny
    <2>2. t.flags \ {"forwardable"} \subseteq headerFlags(req)
        BY <2>1, Zenon DEF headerFlags
    <2> QED BY <1>4, <2>2
<1>5. CASE Has(req, "validate")
    <2>1. /\ times.renew = t.renew /\ times.start = t.start /\ times.flags = flags \ {"invalid"}
        BY <1>5, Zenon DEF tgsTimes
    <2>2. t.start # None => t.start[1] <= now
        <3>1. CASE Has(req, "renew")
            <4>1. "invalid" \notin t.flags
                BY <3>1, Zenon DEF Checked, checkValidity, ticketValidity
            <4> QED BY <4>1, <1>1, <1>3
        <3>2. CASE ~Has(req, "renew")
            <4>1. t.start # None => ~(now < t.start[1])
                BY <1>5, <3>2, Zenon DEF Checked, checkValidity
            <4> QED BY <4>1, <1>1, <1>3
        <3> QED BY <3>1, <3>2
    <2>3. HasAny(req, {"renew", "validate"})
        BY <1>5, Zenon DEF Has, HasAny
    <2>4. t.renew # None => "renewable" \in times.flags
        BY <1>1, <1>4, <2>1, <2>3
    <2> QED BY <1>1, <1>2, <2>1, <2>2, <2>4, Zenon DEF TimesSound
<1>6. CASE ~Has(req, "validate") /\ Has(req, "renew")
    <2>1. times.renew = t.renew /\ times.start = Some(now) /\ times.flags = flags
        BY <1>6, Zenon DEF tgsTimes
    <2>2. HasAny(req, {"renew", "validate"})
        BY <1>6, Zenon DEF Has, HasAny
    <2>3. t.renew # None => "renewable" \in times.flags
        BY <1>1, <1>4, <2>1, <2>2, Zenon
    <2>4. IsTime(times.start) /\ times.start[1] <= now
        BY <1>1, <2>1 DEF IsTime, Some
    <2> QED BY <1>1, <1>2, <2>1, <2>3, <2>4, Zenon DEF TimesSound
<1>7. CASE ~Has(req, "validate") /\ ~Has(req, "renew")
    <2>1. times = newTimes(req, flags, start, end, renewUntil(asked, t.renew))
        BY <1>7, Zenon DEF tgsTimes
    <2>2. start \in Int
        BY DEF Context
    <2> HIDE DEF start, end
    <2>3. IsTime(asked)
        BY <2>2, RenewTillTime DEF Context
    <2> HIDE DEF asked
    <2> QED BY <1>1, <2>1, <2>2, <2>3, NewTimesSound, ZenonT(40)
<1> QED BY <1>5, <1>6, <1>7, Zenon

\* Two tests in a row pass when each of them does.
LEMMA FirstErrorOk ==
    \A first, second : FirstError(first, second) = "ok" => first = "ok" /\ second = "ok"
BY DEF FirstError

\* buildTGSRep: a sound header makes a sound ticket.
LEMMA TicketSound ==
    ASSUME NEW req, NEW service, NEW client, NEW recs, NEW times, NEW transited,
           Context(req), SoundTicket(req.header), TimesSound(times, req.header),
           NEW t, t = tgsTicket(req, service, client, recs, times, transited)
    PROVE  SoundTicket(t) /\ t.issued = now /\ t.client = client
<1> DEFINE renewable == "renewable" \in server.allowed /\ \A r \in recs : "renewable" \notin r.disallow
<1>1. /\ t.client = client /\ t.issued = now /\ t.root = req.header.root /\ t.start = times.start
      /\ t.renew = IF renewable THEN constrainRenew(times.renew) ELSE None
      /\ t.flags = applyFlagPolicies(times.flags, recs) \cup (IF transited THEN {"transited"} ELSE {})
    BY Zenon DEF tgsTicket
<1>2. IsTime(times.renew) /\ IsConfiguration(server) /\ now \in Int
    BY Zenon DEF TimesSound, Context
<1>3. /\ IsTime(constrainRenew(times.renew))
      /\ constrainRenew(times.renew) # None =>
            times.renew # None /\ constrainRenew(times.renew)[1] <= times.renew[1]
    BY <1>2, ConstrainShortens, Zenon
<1>4. IsTime(t.renew)
    <2>1. IsTime(None)
        BY DEF IsTime
    <2> QED BY <1>1, <1>3, <2>1, Zenon
<1>5. ASSUME t.renew # None
      PROVE  /\ "renewable" \in t.flags
             /\ t.root.renew # None /\ t.renew[1] <= t.root.renew[1]
    <2>1. renewable /\ t.renew = constrainRenew(times.renew) /\ times.renew # None
        BY <1>1, <1>3, <1>5, Zenon
    <2>2. "renewable" \in times.flags /\ req.header.renew # None /\ times.renew[1] <= req.header.renew[1]
        BY <2>1, Zenon DEF TimesSound
    <2>3. "renewable" \in t.flags
        BY <1>1, <2>1, <2>2, FlagsKept, Zenon
    <2>4. t.root.renew # None /\ req.header.renew[1] <= t.root.renew[1]
        BY <1>1, <2>2, Zenon DEF SoundTicket
    <2>5. /\ t.renew[1] \in Int /\ times.renew[1] \in Int /\ req.header.renew[1] \in Int
          /\ t.root.renew[1] \in Int
        BY <1>1, <1>2, <1>4, <1>5, <2>1, <2>2, <2>4, Zenon DEF IsTime, SoundTicket
    <2>6. t.renew[1] <= times.renew[1]
        BY <1>3, <1>5, <2>1, Zenon
    <2> QED BY <2>2, <2>3, <2>4, <2>5, <2>6
<1>6. "invalid" \notin t.flags => "invalid" \notin times.flags
    BY <1>1, FlagsKept, Zenon
<1>7. "invalid" \notin t.flags /\ t.start # None => t.start[1] <= t.issued
    BY <1>1, <1>6, Zenon DEF TimesSound
<1>8. IsTime(t.start) /\ IsTime(t.root.renew) /\ t.issued \in Int
    BY <1>1, <1>2, Zenon DEF TimesSound, SoundTicket
<1> QED BY <1>1, <1>4, <1>5, <1>7, <1>8, Zenon DEF SoundTicket

\* handleTGSReqCore: the accounts whose name a ticket can be in are checked.
LEMMA ClientChecked ==
    ASSUME NEW req, NEW service, Checked(req, service), NEW client,
           client = (IF req.s4u # None THEN req.s4u[1]
                     ELSE IF Has(req, "cname_in_addl_tkt") THEN req.second[1].client
                     ELSE req.header.client),
           client \in DOMAIN db
    PROVE  "disallow_all" \notin db[client].flags /\ ~expired(db[client])
<1>1. checkAccount(client) = "ok"
    <2>1. CASE req.s4u # None
        BY <2>1, Zenon DEF Checked, checkS4USelf
    <2>2. CASE req.s4u = None /\ Has(req, "cname_in_addl_tkt")
        BY <2>2, Zenon DEF Checked, checkS4UProxy
    <2>3. CASE req.s4u = None /\ ~Has(req, "cname_in_addl_tkt")
        BY <2>3, Zenon DEF Checked
    <2> QED BY <2>1, <2>2, <2>3, Zenon
<1> QED BY <1>1, Zenon DEF checkAccount

\* handleTGSReqCore: a ticket is sound, and in the name of an account that is
\* not disabled or expired.
LEMMA TGSGrants ==
    ASSUME NEW req, Context(req), IsDatabase(db), SoundTicket(req.header), req.header.issued <= now,
           beforeReplay(req) = "ok",
           NEW t, afterReplay(req).ticket # None, t = afterReplay(req).ticket[1]
    PROVE  /\ SoundTicket(t) /\ t.issued = now
           /\ t.client \in DOMAIN db => "disallow_all" \notin db[t.client].flags /\ ~expired(db[t.client])
<1> DEFINE service == findService(req)[1]
           client == IF req.s4u # None THEN req.s4u[1]
                     ELSE IF Has(req, "cname_in_addl_tkt") THEN req.second[1].client
                     ELSE req.header.client
           across == isTGS(service.name) /\ Leads[service.name] # Realm
           permitted == transitedPermitted(crossed(req), RealmOf[client], RealmOf[service.name])
           tested == ~across /\ crossed(req) # <<>>
           flags == headerFlags(req) \cup (IF Has(req, "forwarded") THEN {"forwarded"} ELSE {})
           recs == {db[p] : p \in {client, service.record} \cap DOMAIN db}
           times == tgsTimes(req, flags, recs)
           transited == tested /\ permitted
           issued == tgsTicket(req, service, client, recs, times, transited)
<1>0. \A code : Refuse(code).ticket = None
    BY DEF Refuse
<1>1. afterReplay(req) = serviceReply(req, service)
    BY <1>0 DEF afterReplay, replyFor
<1>2. checkRequest(req, service) = "ok" /\ afterReplay(req) = buildTGSRep(req, service)
    BY <1>0, <1>1, Zenon DEF serviceReply
<1>3. Checked(req, service)
    <2> HIDE DEF service
    <2>1. checkValidity(req) = "ok" /\ checkAccount(req.header.client) = "ok"
        BY FirstErrorOk DEF beforeReplay
    <2>2. checkS4USelf(req, service.name) = "ok" /\ checkS4UProxy(req, service.name) = "ok"
        BY <1>2, FirstErrorOk DEF checkRequest
    <2> QED BY <2>1, <2>2, Zenon DEF Checked
<1>4. afterReplay(req) = [Refuse("ok") EXCEPT !.ticket = Some(issued)]
    BY <1>0, <1>2, Zenon DEF buildTGSRep
<1>5. headerFlags(req) \subseteq flags /\ flags \subseteq headerFlags(req) \cup {"forwarded"}
    BY Zenon
<1>6. \A r \in recs : r.maxRenew \in Int
    BY Zenon DEF IsDatabase, IsRecord
<1>7. times = tgsTimes(req, flags, recs) /\ issued = tgsTicket(req, service, client, recs, times, transited)
    BY Zenon
<1>8. client = (IF req.s4u # None THEN req.s4u[1]
                ELSE IF Has(req, "cname_in_addl_tkt") THEN req.second[1].client
                ELSE req.header.client)
    OBVIOUS
<1> HIDE DEF issued, times, recs, flags, transited, client, service
<1>9. t = issued
    BY <1>4 DEF Refuse, Some
<1>10. TimesSound(times, req.header)
    BY <1>3, <1>5, <1>6, <1>7, TimesAreSound, ZenonT(40)
<1>11. SoundTicket(t) /\ t.issued = now /\ t.client = client
    <2>1. SoundTicket(issued) /\ issued.issued = now /\ issued.client = client
        BY <1>7, <1>10, TicketSound, SMTT(20)
    <2> QED BY <1>9, <2>1, Zenon
<1>12. client \in DOMAIN db => "disallow_all" \notin db[client].flags /\ ~expired(db[client])
    BY <1>3, <1>8, ClientChecked, ZenonT(40)
<1> QED BY <1>11, <1>12, Zenon

-----------------------------------------------------------------------------
(* The AS exchange: what a reply tells about a secret.  q is a request, r  *)
(* the same with the right secrets.                                        *)

SameRequest(q, r) ==
    /\ q.client = r.client /\ q.service = r.service /\ q.etypes = r.etypes /\ q.options = r.options
    /\ q.from = r.from /\ q.till = r.till /\ q.rtime = r.rtime /\ q.pas = r.pas /\ q.armor = r.armor
    /\ q.stamp = r.stamp /\ q.cookie = r.cookie /\ q.token = r.token /\ q.cert = r.cert
    /\ q.factor = r.factor /\ q.group = r.group /\ q.customs = r.customs /\ q.verdict = r.verdict

Alike(a, b) == a = b

\* A reply that is not a ticket and not a counted failure is the one the right
\* secret would have got.
Uninformative(a, b) == a.recorded = "failure" \/ a.ticket # None \/ a.code = b.code

\* The right secret for what handleASReqCore has found.
RightFor(r, x) ==
    /\ r.otp = "right"
    /\ x.ckey # 0 => r.key = x.ckey
    /\ DOMAIN x.client.keys # {} => \E e \in DOMAIN x.client.keys : r.key = x.client.keys[e]
    /\ \A e \in DOMAIN x.client.keys : x.client.keys[e] # 0

\* handleASReqCore finds the same for both requests.
LEMMA SameFound ==
    ASSUME NEW q, NEW r, SameRequest(q, r)
    PROVE  checkASReq(q) = checkASReq(r) /\ foundFor(q) = foundFor(r)
<1>1. findClient(q) = findClient(r)
    BY Zenon DEF findClient, SameRequest
<1>2. clientRecord(q) = clientRecord(r)
    BY <1>1, Zenon DEF clientRecord, SameRequest
<1>3. \A c, s : selectKeys(q, c, s) = selectKeys(r, c, s)
    BY Zenon DEF selectKeys, SameRequest
<1>4. checkASReq(q) = checkASReq(r)
    BY <1>1, <1>2, <1>3, Zenon DEF checkASReq, SameRequest
<1>5. foundFor(q) = foundFor(r)
    BY <1>1, <1>2, <1>3, Zenon DEF foundFor, SameRequest
<1> QED BY <1>4, <1>5

\* buildASRepWithPreauth looks at no secret.
LEMMA SameBuild ==
    ASSUME NEW q, NEW r, SameRequest(q, r), NEW x, NEW preauth, NEW hw, NEW indicators, NEW etype,
           NEW replyKey, NEW proof
    PROVE  Alike(buildASRep(q, x, preauth, hw, indicators, etype, replyKey, proof),
                 buildASRep(r, x, preauth, hw, indicators, etype, replyKey, proof))
<1>1. asFlags(q, x, preauth, hw) = asFlags(r, x, preauth, hw)
    BY Zenon DEF asFlags, SameRequest
<1>2. badPostdate(q) <=> badPostdate(r)
    BY Zenon DEF badPostdate, SameRequest
<1>3. \A start, end, recs : asRenew(q, start, end, recs) = asRenew(r, start, end, recs)
    BY Zenon DEF asRenew, SameRequest
<1> QED BY <1>1, <1>2, <1>3, SMTT(20) DEF buildASRep, SameRequest, Alike

\* Nor does what follows a proof.
LEMMA SameProof ==
    ASSUME NEW q, NEW r, SameRequest(q, r), NEW x, NEW hw, NEW indicators, NEW etype,
           NEW replyKey, NEW proof
    PROVE  Alike(afterProof(q, x, hw, indicators, etype, replyKey, proof),
                 afterProof(r, x, hw, indicators, etype, replyKey, proof))
<1>1. Alike(buildASRep(q, x, TRUE, hw, indicators, etype, replyKey, proof),
            buildASRep(r, x, TRUE, hw, indicators, etype, replyKey, proof))
    BY SameBuild, Zenon
<1> QED BY <1>1, Zenon DEF afterProof, Alike

\* Nor does what follows a proof of the password.
LEMMA SamePassword ==
    ASSUME NEW q, NEW r, SameRequest(q, r), NEW x, NEW indicators, NEW replyKey
    PROVE  Alike(passwordProved(q, x, indicators, replyKey), passwordProved(r, x, indicators, replyKey))
<1>1. Alike(afterProof(q, x, FALSE, indicators, x.etype, replyKey, "password"),
            afterProof(r, x, FALSE, indicators, x.etype, replyKey, "password"))
    BY SameProof, Zenon
<1> QED BY <1>1, Zenon DEF passwordProved, Alike

\* The mechanisms that ask for no secret of the client's answer alike.
LEMMA SameModules ==
    ASSUME NEW q, NEW r, SameRequest(q, r), NEW x
    PROVE  Alike(modulesProved(q, x), modulesProved(r, x))
<1> DEFINE built(req) == buildASRep(req, x, TRUE, x.custom.hw, server.indicators.modules, x.etype,
                              x.custom.replaced, IF x.custom.hw THEN "hardware" ELSE "modules")
<1>1. Alike(built(q), built(r))
    BY SameBuild, Zenon
<1> QED BY <1>1, Zenon DEF modulesProved, Alike

\* A certificate is no secret either.
LEMMA SamePkinit ==
    ASSUME NEW q, NEW r, SameRequest(q, r), NEW x
    PROVE  Alike(verifyPKINIT(q, x), verifyPKINIT(r, x))
<1> DEFINE after(req) == afterProof(req, x, q.cert = "hardware",
                                     IF "anonymous" \in q.options THEN {} ELSE server.indicators.pkinit, x.etype, TRUE,
                                     IF q.cert = "hardware" THEN "hardware" ELSE "certificate")
<1>1. Alike(after(q), after(r))
    BY SameProof, Zenon
<1> QED BY <1>1, Zenon DEF verifyPKINIT, SameRequest, Alike

\* Without preauthentication there is no secret.
LEMMA SameNoPreauth ==
    ASSUME NEW q, NEW r, SameRequest(q, r), NEW x, NEW required
    PROVE  Alike(noPreauth(q, x, required), noPreauth(r, x, required))
<1>1. Alike(buildASRep(q, x, FALSE, FALSE, {}, x.etype, FALSE, "none"),
            buildASRep(r, x, FALSE, FALSE, {}, x.etype, FALSE, "none"))
    BY SameBuild, Zenon
<1> QED BY <1>1, Zenon DEF noPreauth, SameRequest, Alike

\* The error of buildASRepWithPreauth when a key of the client was selected.
LEMMA BuiltCode ==
    ASSUME NEW req, NEW x, x.ckey # 0, NEW preauth, NEW hw, NEW indicators, NEW etype, NEW replyKey, NEW proof,
           NEW reply, reply = buildASRep(req, x, preauth, hw, indicators, etype, replyKey, proof)
    PROVE  /\ IsReply(reply)
           /\ reply.code = (IF ~requireAuth(x.service, indicators) THEN "POLICY"
                            ELSE IF "postdated" \in req.options /\ (badPostdate(req) \/ "allow_postdate" \notin req.options)
                            THEN "CANNOT_POSTDATE"
                            ELSE IF vetoed(x.cname, x.sname) THEN "POLICY" ELSE "ok")
<1>1. \A code : Refuse(code).code = code /\ IsReply(Refuse(code))
    BY DEF Refuse, IsReply
<1>2. \A ticket : /\ [Refuse("ok") EXCEPT !.ticket = ticket].code = "ok"
                  /\ IsReply([Refuse("ok") EXCEPT !.ticket = ticket])
    BY DEF Refuse, IsReply
<1>3. CASE ~requireAuth(x.service, indicators)
    BY <1>1, <1>3, Zenon DEF buildASRep
<1>4. CASE /\ requireAuth(x.service, indicators)
           /\ "postdated" \in req.options /\ (badPostdate(req) \/ "allow_postdate" \notin req.options)
    BY <1>1, <1>4, Zenon DEF buildASRep
<1>5. CASE /\ requireAuth(x.service, indicators)
           /\ ~("postdated" \in req.options /\ (badPostdate(req) \/ "allow_postdate" \notin req.options))
    BY <1>1, <1>2, <1>5, Zenon DEF buildASRep
<1> QED BY <1>3, <1>4, <1>5, Zenon

\* A version of the client's key does not change an error.
LEMMA ErrorWithoutKey ==
    ASSUME NEW req, NEW x, NEW y, x.ckey # 0, y.ckey # 0,
           y.cname = x.cname, y.sname = x.sname, y.client = x.client, y.service = x.service,
           y.custom = x.custom, y.etype = x.etype, NEW indicators, NEW replyKey
    PROVE  Alike(passwordProved(req, x, indicators, replyKey).code,
                 passwordProved(req, y, indicators, replyKey).code)
<1> DEFINE a == buildASRep(req, x, TRUE, FALSE, indicators, x.etype, replyKey, "password")
           b == buildASRep(req, y, TRUE, FALSE, indicators, y.etype, replyKey, "password")
           c == IF ~requireAuth(x.service, indicators) THEN "POLICY"
                ELSE IF "postdated" \in req.options /\ (badPostdate(req) \/ "allow_postdate" \notin req.options)
                THEN "CANNOT_POSTDATE"
                ELSE IF vetoed(x.cname, x.sname) THEN "POLICY" ELSE "ok"
           ap == afterProof(req, x, FALSE, indicators, x.etype, replyKey, "password")
           bp == afterProof(req, y, FALSE, indicators, y.etype, replyKey, "password")
<1>1. IsReply(a) /\ a.code = c
    BY BuiltCode, Zenon
<1>2. IsReply(b) /\ b.code = c
    <2>1. /\ IsReply(b)
          /\ b.code = (IF ~requireAuth(y.service, indicators) THEN "POLICY"
                       ELSE IF "postdated" \in req.options /\ (badPostdate(req) \/ "allow_postdate" \notin req.options)
                       THEN "CANNOT_POSTDATE"
                       ELSE IF vetoed(y.cname, y.sname) THEN "POLICY" ELSE "ok")
        BY BuiltCode, Zenon
    <2> QED BY <2>1, Zenon
<1> HIDE DEF c
<1>3. IsReply(PF)
    BY DEF PF, Refuse, IsReply
<1>4. ap.code = bp.code /\ IsReply(ap) /\ IsReply(bp)
    <2>1. CASE customPreauthSatisfied(x.custom)
        <3>1. ap = a /\ bp = b
            BY <2>1, Zenon DEF afterProof
        <3> QED BY <1>1, <1>2, <3>1, Zenon
    <2>2. CASE ~customPreauthSatisfied(x.custom)
        <3>1. ap = PF /\ bp = PF
            BY <2>2, Zenon DEF afterProof
        <3> QED BY <1>3, <3>1, Zenon
    <2> QED BY <2>1, <2>2, Zenon
<1>5. \A reply : IsReply(reply) => WithSuccess(reply).code = reply.code
    BY DEF WithSuccess, IsReply
<1> HIDE DEF ap, bp
<1>6. WithSuccess(ap).code = WithSuccess(bp).code
    BY <1>4, <1>5, Zenon
<1>7. CASE passwordExpiredForService(x.client, x.service) \/ ~authorized(x.cname, x.sname) \/ hwRequired(x)
    <2>1. hwRequired(x) <=> hwRequired(y)
        BY Zenon DEF hwRequired
    <2> QED BY <1>7, <2>1, Zenon DEF passwordProved, Alike
<1>8. CASE ~(passwordExpiredForService(x.client, x.service) \/ ~authorized(x.cname, x.sname) \/ hwRequired(x))
    <2>1. hwRequired(x) <=> hwRequired(y)
        BY Zenon DEF hwRequired
    <2>2. /\ passwordProved(req, x, indicators, replyKey) = WithSuccess(ap)
          /\ passwordProved(req, y, indicators, replyKey) = WithSuccess(bp)
        BY <1>8, <2>1, Zenon DEF passwordProved, ap, bp
    <2> QED BY <1>6, <2>2, Zenon DEF Alike
<1> QED BY <1>7, <1>8, Zenon

\* A counted failure, and answers that are alike, tell nothing.
LEMMA Untold ==
    /\ \A a, b : Alike(a, b) => Uninformative(a, b)
    /\ \A b : Uninformative(WithFailure(PF), b)
    /\ \A a, b : Alike(a.code, b.code) => Uninformative(a, b)
<1>1. WithFailure(PF).recorded = "failure"
    BY DEF WithFailure, PF, Refuse
<1> QED BY <1>1, Zenon DEF Uninformative, Alike

\* verifyOTP: a wrong value is counted.
LEMMA OtpUntold ==
    ASSUME NEW q, NEW r, SameRequest(q, r), NEW x, RightFor(r, x)
    PROVE  Uninformative(verifyOTP(q, x), verifyOTP(r, x))
<1> DEFINE after(req) == afterProof(req, x, FALSE, server.indicators.otp,
                                    q.armor[1].ticket.session, TRUE, "otp")
<1>1. Alike(after(q), after(r))
    BY SameProof, Zenon
<1>2. q.otp = "right" => Alike(verifyOTP(q, x), verifyOTP(r, x))
    BY <1>1, Zenon DEF verifyOTP, SameRequest, RightFor, Alike
<1>3. CASE q.otp = "right"
    BY <1>2, <1>3, Untold, Zenon
<1>4. CASE q.otp # "right" /\ (~x.armored \/ ~server.otp \/ ~withinSkew(q.stamp))
    BY <1>4, Untold, Zenon DEF verifyOTP, SameRequest, Alike
<1>5. CASE q.otp # "right" /\ ~(~x.armored \/ ~server.otp \/ ~withinSkew(q.stamp))
    BY <1>5, Untold, Zenon DEF verifyOTP
<1> QED BY <1>3, <1>4, <1>5, Zenon

\* Encrypted challenge: a key that is none of the client's is counted.
LEMMA ChallengeUntold ==
    ASSUME NEW q, NEW r, SameRequest(q, r), NEW x, IsFound(x), RightFor(r, x)
    PROVE  Uninformative(encryptedChallenge(q, x), encryptedChallenge(r, x))
<1> DEFINE ind == server.indicators.challenge
           y == [x EXCEPT !.ckey = q.key]
           z == [x EXCEPT !.ckey = r.key]
<1>1. CASE ~x.armored
    BY <1>1, Untold, Zenon DEF encryptedChallenge, Alike
<1>2. CASE x.armored /\ \A e \in DOMAIN x.client.keys : x.client.keys[e] # q.key
    BY <1>2, Untold, Zenon DEF encryptedChallenge
<1>3. CASE x.armored /\ ~(\A e \in DOMAIN x.client.keys : x.client.keys[e] # q.key)
    <2>1. /\ q.key # 0 /\ r.key # 0
          /\ ~(\A e \in DOMAIN x.client.keys : x.client.keys[e] # r.key)
        BY <1>3, Zenon DEF RightFor
    <2>2. /\ encryptedChallenge(q, x) = (IF ~withinSkew(q.stamp) THEN Refuse("SKEW") ELSE passwordProved(q, y, ind, FALSE))
          /\ encryptedChallenge(r, x) = (IF ~withinSkew(q.stamp) THEN Refuse("SKEW") ELSE passwordProved(r, z, ind, FALSE))
        BY <1>3, <2>1, Zenon DEF encryptedChallenge, SameRequest
    <2>3. /\ y.ckey = q.key /\ z.ckey = r.key
          /\ z.cname = y.cname /\ z.sname = y.sname /\ z.client = y.client /\ z.service = y.service
          /\ z.custom = y.custom /\ z.etype = y.etype
        BY DEF IsFound
    <2> HIDE DEF y, z
    <2>4. Alike(passwordProved(q, y, ind, FALSE).code, passwordProved(q, z, ind, FALSE).code)
        BY <2>1, <2>3, ErrorWithoutKey, Zenon
    <2>5. Alike(passwordProved(q, z, ind, FALSE), passwordProved(r, z, ind, FALSE))
        BY SamePassword, Zenon
    <2>6. Alike(encryptedChallenge(q, x).code, encryptedChallenge(r, x).code)
        BY <2>2, <2>4, <2>5, Zenon DEF Alike
    <2> QED BY <2>6, Untold, Zenon
<1> QED BY <1>1, <1>2, <1>3, Zenon

\* SPAKE: a response on another key is counted.
LEMMA SpakeUntold ==
    ASSUME NEW q, NEW r, SameRequest(q, r), NEW x, RightFor(r, x)
    PROVE  Uninformative(spakeResponse(q, x), spakeResponse(r, x))
<1>1. Alike(passwordProved(q, x, server.indicators.spake, TRUE), passwordProved(r, x, server.indicators.spake, TRUE))
    BY SamePassword, Zenon
<1>2. CASE q.cookie = None \/ x.ckey = 0 \/ now > q.cookie[1].at + CookieLife \/ q.factor = "etype"
    BY <1>2, Untold, Zenon DEF spakeResponse, SameRequest, Alike
<1>3. CASE ~(q.cookie = None \/ x.ckey = 0 \/ now > q.cookie[1].at + CookieLife \/ q.factor = "etype")
    <2>1. CASE q.key # x.ckey \/ q.cookie[1].key # x.ckey \/ q.factor # "none"
        BY <1>3, <2>1, Untold, Zenon DEF spakeResponse
    <2>2. CASE ~(q.key # x.ckey \/ q.cookie[1].key # x.ckey \/ q.factor # "none")
        <3>1. ~(r.key # x.ckey \/ r.cookie[1].key # x.ckey \/ r.factor # "none")
            BY <1>3, <2>2, Zenon DEF RightFor, SameRequest
        <3>2. /\ spakeResponse(q, x) = passwordProved(q, x, server.indicators.spake, TRUE)
              /\ spakeResponse(r, x) = passwordProved(r, x, server.indicators.spake, TRUE)
            BY <1>3, <2>2, <3>1, Zenon DEF spakeResponse, SameRequest
        <3> QED BY <1>1, <3>2, Untold, Zenon
    <2> QED BY <2>1, <2>2, Zenon
<1> QED BY <1>2, <1>3, Zenon

\* Encrypted timestamp: another key is counted.
LEMMA TimestampUntold ==
    ASSUME NEW q, NEW r, SameRequest(q, r), NEW x, RightFor(r, x)
    PROVE  Uninformative(encryptedTimestamp(q, x), encryptedTimestamp(r, x))
<1>1. Alike(passwordProved(q, x, {}, FALSE), passwordProved(r, x, {}, FALSE))
    BY SamePassword, Zenon
<1>2. CASE x.ckey = 0 \/ q.key # x.ckey
    BY <1>2, Untold, Zenon DEF encryptedTimestamp
<1>3. CASE ~(x.ckey = 0 \/ q.key # x.ckey)
    <2>1. ~(x.ckey = 0 \/ r.key # x.ckey)
        BY <1>3, Zenon DEF RightFor
    <2>2. Alike(encryptedTimestamp(q, x), encryptedTimestamp(r, x))
        BY <1>1, <1>3, <2>1, Zenon DEF encryptedTimestamp, SameRequest, Alike
    <2> QED BY <2>2, Untold, Zenon
<1> QED BY <1>2, <1>3, Zenon

\* handleASReqCore from the choice of a mechanism on.
LEMMA ChoiceUntold ==
    ASSUME NEW q, NEW r, SameRequest(q, r), NEW x, IsFound(x), RightFor(r, x)
    PROVE  Uninformative(choosePreauth(q, x), choosePreauth(r, x))
<1> DEFINE required == ~server.disablePreauth \/ RequiredModules # {}
                           \/ {"requires_preauth", "requires_hw_auth"} \cap x.client.flags # {}
<1>1. Uninformative(noPreauth(q, x, required), noPreauth(r, x, required))
    <2>1. Alike(noPreauth(q, x, required), noPreauth(r, x, required))
        BY SameNoPreauth, Zenon
    <2> QED BY <2>1, Untold, Zenon
<1>2. Uninformative(modulesProved(q, x), modulesProved(r, x)) /\ Uninformative(verifyPKINIT(q, x), verifyPKINIT(r, x))
    BY SameModules, SamePkinit, Untold, Zenon
<1>3. /\ Uninformative(verifyOTP(q, x), verifyOTP(r, x))
      /\ Uninformative(encryptedChallenge(q, x), encryptedChallenge(r, x))
      /\ Uninformative(spakeResponse(q, x), spakeResponse(r, x))
      /\ Uninformative(encryptedTimestamp(q, x), encryptedTimestamp(r, x))
    BY OtpUntold, ChallengeUntold, SpakeUntold, TimestampUntold, Zenon
<1>4. \A a : Uninformative(a, a)
    BY Zenon DEF Uninformative
<1>5. q.pas = r.pas /\ q.options = r.options
    BY Zenon DEF SameRequest
<1> QED BY <1>1, <1>2, <1>3, <1>4, <1>5, ZenonT(60) DEF choosePreauth

\* The first enctype in common is one of each record's.
LEMMA CommonIsKnown ==
    ASSUME NEW etypes, DOMAIN etypes \subseteq Nat, NEW recs, firstCommon(etypes, recs) # None
    PROVE  \A rec \in recs : firstCommon(etypes, recs)[1] \in DOMAIN rec.keys
<1> DEFINE usable == {i \in DOMAIN etypes : \A rec \in recs : etypes[i] \in DOMAIN rec.keys}
<1>1. usable # {} /\ firstCommon(etypes, recs) = Some(etypes[Min(usable)])
    BY Zenon DEF firstCommon
<1>2. Min(usable) \in usable
    <2>1. usable \subseteq Int /\ \A i \in usable : 0 <= i
        OBVIOUS
    <2> QED BY <1>1, <2>1, BoundedHasLeast
<1>3. firstCommon(etypes, recs)[1] = etypes[Min(usable)]
    BY <1>1 DEF Some
<1> QED BY <1>2, <1>3
=============================================================================
