----------------------------- MODULE KdcPolicy ------------------------------
(***************************************************************************)
(* What the AS and the TGS exchange share: the state of a kdc.Server and   *)
(* its database, and the rules of krb5/kdc/policy.go, policy_plugins.go,   *)
(* transited.go, pkinit_freshness.go and kdc.go that select keys, test     *)
(* tickets and compute times and flags.                                    *)
(*                                                                         *)
(* Times are seconds; 0 is the unset time (the KDC also takes the epoch    *)
(* for unset), so the clock starts at 1.  An optional value is <<>> or     *)
(* <<v>>; a set of flags or options is a set of strings; a key is named by *)
(* its version.  The store is the in-memory one, whose Lookup cannot fail. *)
(***************************************************************************)
EXTENDS Integers, Sequences, FiniteSetsExt, SequencesExt

CONSTANTS
    Realm,          \* Server.Realm
    RealmOf,        \* principal -> its realm
    Leads,          \* krbtgt principal -> the realm it leads to
    Aliases,        \* alias -> canonical principal
    CookieLife,     \* spakeCookieLifetime
    TokenLife,      \* the age limit of verifyFreshnessToken
    MaxReplays      \* maxReplayEntries

VARIABLES
    now,            \* the clock
    server,         \* the configuration of the Server, chosen once
    db,             \* principal -> record
    fails           \* principal -> FailAuthCount

Skew == server.skew         \* Server.ClockSkew
Anonymous == "anonymous"
AnonymousRealm == <<"WELLKNOWN:ANONYMOUS">>
Krbtgt == CHOOSE p \in DOMAIN Leads : RealmOf[p] = Realm /\ Leads[p] = Realm
Some(v) == <<v>>
None == <<>>

\* The first of two tests, in the order the code makes them, that fails.
FirstError(first, second) == IF first = "ok" THEN second ELSE first

\* fast.go, kdc.go: withinSkew
withinSkew(t) == t - now \in -Skew..Skew

\* kdc.go: lookupAlias
lookupAlias(name) ==
    IF name \in DOMAIN Aliases /\ Aliases[name] \in DOMAIN db THEN Some(Aliases[name]) ELSE None

-----------------------------------------------------------------------------
(* Keys.  A record's Keys maps an enctype to the version of its key;       *)
(* PasswordHistory is a set of such maps.                                  *)

\* The first requested enctype that all the records have a key of.
firstCommon(etypes, recs) ==
    LET usable == {i \in DOMAIN etypes : \A r \in recs : etypes[i] \in DOMAIN r.keys}
    IN IF usable = {} THEN None ELSE Some(etypes[Min(usable)])

\* policy.go: selectServiceKey
selectServiceKey(etypes, rec) == firstCommon(etypes, {rec})

\* policy.go: selectKVNO: whether the key of a ticket is still known
selectKVNO(rec, etype, kvno) ==
    \E keys \in {rec.keys} \cup rec.history : etype \in DOMAIN keys /\ keys[etype] = kvno

\* pkinit_freshness.go: freshnessKey(nil): the current key of the local krbtgt
freshnessKey == Max({db[Krbtgt].keys[e] : e \in DOMAIN db[Krbtgt].keys})

-----------------------------------------------------------------------------
(* Tests of tickets and accounts.                                          *)

expired(rec) == rec.expiration # 0 /\ now > rec.expiration

\* policy.go: passwordExpired, passwordExpiredForService
passwordExpiredForService(client, service) ==
    /\ client.pwExpiration # 0 /\ now >= client.pwExpiration
    /\ "pwchange_service" \notin service.flags

\* policy.go: ticketValidityWithInvalidMode
ticketValidity(t, allowInvalid) ==
    IF ~allowInvalid /\ "invalid" \in t.flags THEN "TKT_NYV"
    ELSE IF t.start # None /\ now + Skew < t.start[1] THEN "TKT_NYV"
    ELSE IF now - Skew > t.end THEN "TKT_EXPIRED"
    ELSE "ok"

\* policy.go: requireAuthError: one of the required indicators is enough
requireAuth(rec, indicators) == rec.require = {} \/ rec.require \cap indicators # {}

\* policy.go: lockedOut, for a policy with neither an interval nor a duration
\* (the module Lockout has both)
lockedOut(c) ==
    db[c].policy # 0 /\ fails[c] >= db[c].policy

\* kdc.go: restrictAnonymous
restrictAnonymous(client, service) ==
    server.restrictAnonymous /\ client = Anonymous /\ service # Krbtgt

\* kdc.go: authorizationError: what Server.Authorize refuses
authorized(client, service) == <<client, service>> \notin server.refused

-----------------------------------------------------------------------------
(* Times and flags of a new ticket.                                        *)

\* the shortest life, where the limits that are set (not 0) apply
shortest(life, limits) == Min({life} \cup {l \in limits : l > 0})
Before(x, y) == IF x < y THEN x ELSE y

\* policy.go: ticketEndFromRecords.  recs: the records of client and service.
ticketEndFromRecords(till, start, recs) ==
    LET maxLife == shortest(server.maxLife, {r.maxLife : r \in recs})
        end == IF till # 0 THEN Before(till, start + maxLife)
               ELSE start + shortest(maxLife, {server.defLife})
    IN IF end < start THEN start ELSE end

\* policy.go: renewTillRecords
renewTillRecords(options, rtime, till, start, end, recs) ==
    LET renewable == "renewable" \in options
        target == IF renewable /\ rtime # 0 THEN rtime
                  ELSE IF renewable /\ server.defRenew > 0 THEN start + server.defRenew
                  ELSE IF till # 0 THEN till
                  ELSE IF server.defRenew > 0 THEN start + server.defRenew
                  ELSE start + server.maxRenew
        cap == shortest(server.maxRenew, {r.maxRenew : r \in recs})
        until == Before(target, start + cap)
    IN IF \/ ~renewable /\ ("renewable_ok" \notin options \/ (till # 0 /\ till <= end))
          \/ ~renewable /\ target <= end
          \/ cap <= 0
          \/ ~renewable /\ until <= end
          \/ until <= start
       THEN None ELSE Some(until)

\* policy.go: applyFlagPolicy and applyPrincipalFlagPolicy
applyFlagPolicies(flags, recs) ==
    LET limited == {"forwardable", "proxiable", "renewable"}
        barred == (limited \ server.allowed) \cup UNION {r.disallow : r \in recs}
    IN flags \ (barred \cap limited)

\* policy_plugins.go: applyASPolicies, applyTGSPolicies and constrainTicketTimes:
\* every policy module may cap the lifetimes (0: no cap) or refuse the request
vetoed(client, service) == <<client, service>> \in server.vetoed
capped(t, caps) == Min({t} \cup {now + life : life \in caps \ {0}})
constrainEnd(end) == capped(end, {m.life : m \in server.caps})
constrainRenew(renew) ==
    IF renew = None THEN None ELSE Some(capped(renew[1], {m.renew : m \in server.caps}))

\* transited.go: transitedPermitted and transitedCapath.  A realm is a
\* sequence of labels, server.capaths maps a pair of realms to the realms
\* that may lie between them (none, for the path ".").  Only a ticket that
\* crossed a realm is tested.
hierarchyRealms(c, s) ==
    LET common == Max({n \in 0..Min({Len(c), Len(s)}) : \A i \in 0..(n - 1) : c[Len(c) - i] = s[Len(s) - i]})
        above(r, n) == {SubSeq(r, i + 1, Len(r)) : i \in 1..n}
    IN IF common = 0 THEN {} ELSE above(c, Len(c) - common) \cup above(s, Len(s) - common - 1)

transitedPermitted(realms, c, s) ==
    LET configured == <<c, s>> \in DOMAIN server.capaths
        between == IF configured THEN server.capaths[c, s] ELSE hierarchyRealms(c, s)
    IN IF c = AnonymousRealm THEN TRUE
       ELSE IF configured /\ between = {} THEN FALSE
       ELSE ToSet(realms) \subseteq {c, s} \cup between

-----------------------------------------------------------------------------
\* What the types of the code say of a record, of a ticket's optional times and
\* of a configuration; a key's version is never 0.
IsRecord(rec) ==
    /\ rec.policy \in Nat /\ rec.maxRenew \in Int
    /\ \A e \in DOMAIN rec.keys : rec.keys[e] \in Nat \ {0}
IsDatabase(d) == \A p \in DOMAIN d : IsRecord(d[p])
IsTime(t) == t = None \/ (t = Some(t[1]) /\ t[1] \in Int)
IsConfiguration(s) ==
    /\ s.skew \in Nat /\ s.maxRenew \in Int /\ s.defRenew \in Int
    /\ IsFiniteSet(s.caps) /\ \A m \in s.caps : m.renew \in Int

\* A ticket whose times fit together.
SoundTicket(t) ==
    /\ IsTime(t.renew) /\ IsTime(t.root.renew) /\ IsTime(t.start) /\ t.issued \in Int
    /\ t.renew # None => "renewable" \in t.flags
    /\ t.renew # None => t.root.renew # None /\ t.renew[1] <= t.root.renew[1]
    /\ "invalid" \notin t.flags /\ t.start # None => t.start[1] <= t.issued
=============================================================================
