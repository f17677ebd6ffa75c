----------------------------- MODULE ClientTGS ------------------------------
(***************************************************************************)
(* The ticket-granting exchanges of krb5/client: TGSExchange with its      *)
(* candidates, capaths and referrals, TGSExchangeU2U, TGSExchangeFAST,     *)
(* TGSExchangeForwarded (tgs.go), S4U2Self, S4U2Proxy (s4u.go), the realm  *)
(* resolution of referral.go and config.RealmPath, and VerifyInitCreds     *)
(* (verify.go), which runs TGSExchange for each service of a keytab.       *)
(*                                                                         *)
(* A call is a record of Ops: kind; valid, that the arguments pass the     *)
(* checks at its head; services, for each service to verify (one for the   *)
(* other kinds) its name, realm ("" when the caller gave none) and keytab  *)
(* keys; aliases, how many host names serviceCandidates returned; fallback *)
(* and authoritative, what resolveServiceRealm finds; explicit and nofail, *)
(* the options of VerifyInitCreds; keytab, whether one is readable.        *)
(*                                                                         *)
(* A server name is a sequence of components; a ticket-granting ticket is  *)
(* its server name with the realm that issued it.  One step is one round   *)
(* trip.  Every reply is drawn from what the KDCs of the realms can send.  *)
(***************************************************************************)
EXTENDS Integers, Sequences, FiniteSets

CONSTANTS Realms, Home,      \* the realm of the ticket the caller passes
          Ops,
          Capaths,           \* [capaths]: a partial function on pairs of realms
          HopLimit,          \* 10 in the code
          Canonicalize

VARIABLES t,      \* where the call stands
          asked   \* what it asked the KDCs: how many requests, the last one, and
                  \* the realms asked in this pass, and whether one was asked twice

vars == <<t, asked>>

None == <<>>
Krbtgt(realm) == <<"krbtgt", realm>>
HomeTGT == [name |-> Krbtgt(Home), realm |-> Home, key |-> "", bad |-> "none"]
RangeOf(s) == {s[i] : i \in DOMAIN s}

Idle == [pc |-> "idle", op |-> None, server |-> 1, cand |-> 1, referral |-> FALSE,
         known |-> FALSE, requested |-> "", service |-> "", realm |-> "", tgt |-> HomeTGT,
         path |-> None, hops |-> 0, visited |-> {}, fell |-> FALSE, err |-> "",
         errors |-> None, result |-> None]

\* The name asked for: the candidate of the service in hand
Service == t.op.services[t.server]
Name == IF t.op.kind = "forwarded" THEN Krbtgt(t.op.tgt.realm) ELSE <<Service.name, t.cand>>

-----------------------------------------------------------------------------
(* Replies                                                                 *)

\* What the KDC of a realm can answer to a request for a name: errors, a
\* ticket for it, for an alias of it, a referral, a badly formed referral;
\* each as it is or with one field that does not match the request
Ticket(name, realm, key, bad) == [type |-> "ticket", name |-> name, realm |-> realm, key |-> key, bad |-> bad]
Mismatches == {"none", "client", "decrypt", "nonce", "times", "ticket name", "not forwarded",
               "invalid", "user"}
Replies(realm, name) ==
    {[type |-> "error", code |-> e] : e \in {"generic", "S_PRINCIPAL_UNKNOWN"}}
    \cup {Ticket(name, realm, "service key", bad) : bad \in Mismatches}
    \cup {Ticket(name, r, "other key", "none") : r \in Realms}
    \cup {Ticket(<<"alias", 1>>, realm, "service key", "none")}
    \cup {Ticket(Krbtgt(r), realm, "", bad) : r \in Realms, bad \in {"none", "nonce", "ticket name"}}
    \cup {Ticket(<<"krbtgt">>, realm, "", "none")}

Fail(err) == [ok |-> FALSE, err |-> err, referral |-> FALSE, ticket |-> HomeTGT]

\* referral.go: isReferralPrincipal
isReferralPrincipal(name, requested) ==
    Len(name) = 2 /\ name[1] = "krbtgt" /\ (requested = "" \/ name[2] # requested)

\* tgs.go: decodeTGSRepForExchangeWithUsage, with decodeFASTTGSRep in front of
\* it for the armored exchange: the checks on a TGS-REP, in order
decodeTGSRepForExchange(reply, name, realm, requested, known) ==
    IF reply.type = "error" THEN Fail(reply.code)
    ELSE IF reply.bad \in {"client", "decrypt", "nonce"} THEN Fail(reply.bad)
    ELSE LET referral == isReferralPrincipal(reply.name, requested) IN
         IF ~referral /\ ((known /\ reply.realm # realm) \/ (reply.name # name /\ ~Canonicalize))
         THEN Fail("service principal")
         ELSE IF referral /\ reply.bad = "ticket name" THEN Fail("malformed referral")
         ELSE IF reply.bad = "times" THEN Fail("skew")
         ELSE [ok |-> TRUE, err |-> "", referral |-> referral,
               ticket |-> [name |-> reply.name, realm |-> reply.realm, key |-> reply.key,
                           bad |-> reply.bad]]

Ask(realm) ==
    LET pass == <<t.server, t.cand, t.fell, t.pc>>
        seen == IF pass = asked.pass THEN asked.seen ELSE {}
    IN  asked' = [n |-> asked.n + 1, tgt |-> t.tgt.name, realm |-> realm, pass |-> pass,
                  seen |-> seen \cup {realm}, twice |-> asked.twice \/ realm \in seen]
NotAsked == [n |-> 0, tgt |-> None, realm |-> "", pass |-> None, seen |-> {}, twice |-> FALSE]

-----------------------------------------------------------------------------
(* The ends of an exchange                                                 *)

Done(y, ok, err) == [y EXCEPT !.pc = "done", !.err = err, !.result = <<ok, y.tgt>>]

\* verify.go: the loop over the services of the keytab goes on, or ends with
\* the last error
NextServer(y, err) ==
    IF y.server = Len(y.op.services) THEN Done(y, FALSE, err)
    ELSE [y EXCEPT !.pc = "server", !.server = @ + 1, !.err = err]

\* The end of one candidate: success ends the loop over the candidates, and
\* so does a failure of the first one unless the KDC does not know it
Finish(y, ok, err, first) ==
    IF ok THEN IF y.op.kind = "verify" THEN [y EXCEPT !.pc = "ticket"] ELSE Done(y, TRUE, "")
    ELSE LET z == [y EXCEPT !.errors = Append(@, first)] IN
         IF z.cand < z.op.aliases /\ (z.cand # 1 \/ first = "S_PRINCIPAL_UNKNOWN")
         THEN [z EXCEPT !.pc = "candidate", !.cand = @ + 1]
         ELSE IF z.op.kind = "verify" THEN NextServer(z, err)
         ELSE Done(z, FALSE, err)
Ended(y, outcome) == Finish([y EXCEPT !.tgt = outcome.ticket], outcome.ok, outcome.err, outcome.err)

\* config.go: RealmPath: the configured path, None when there is none, or the
\* errors for an empty list, a mixed "." and a loop
RealmPath(client, server) ==
    LET values == Capaths[<<client, server>>] IN
    IF <<client, server>> \notin DOMAIN Capaths THEN [err |-> "", path |-> <<client, server>>]
    ELSE IF values = None THEN [err |-> "capath is empty", path |-> None]
    ELSE IF values = <<".">> THEN [err |-> "", path |-> <<client, server>>]
    ELSE IF "." \in RangeOf(values) THEN [err |-> "capath mixes values", path |-> None]
    ELSE IF \/ Cardinality(RangeOf(values)) # Len(values)
            \/ {client, server} \cap RangeOf(values) # {}
    THEN [err |-> "capath contains a loop", path |-> None]
    ELSE IF Len(values) > HopLimit - 1 THEN [err |-> "capath exceeds hop limit", path |-> None]
    ELSE [err |-> "", path |-> <<client>> \o values \o <<server>>]

\* tgs.go: the head of tgsExchangeOnceWithMode for a service realm ("" when
\* it is not given), down to the first request
Enter(y, realm, referral, known, fell) ==
    LET target == IF realm = "" THEN y.op.tgt.realm ELSE realm
        capath == RealmPath(y.op.tgt.realm, target)
        z == [y EXCEPT !.referral = referral, !.known = known, !.requested = realm,
                       !.service = target, !.tgt = y.op.tgt, !.hops = 0, !.visited = {},
                       !.fell = fell, !.realm = y.op.tgt.realm, !.path = None]
    IN  IF target = y.op.tgt.realm THEN [z EXCEPT !.pc = "loop", !.realm = target]
        ELSE IF capath.err # "" THEN Finish(z, FALSE, capath.err, capath.err)
        ELSE [z EXCEPT !.pc = "path", !.path = Tail(capath.path)]

-----------------------------------------------------------------------------
(* TGSExchange                                                             *)

Start ==
    /\ t.pc = "idle"
    /\ \E op \in Ops :
          LET y == [Idle EXCEPT !.op = op] IN
          t' = IF ~op.valid THEN Done(y, FALSE, "arguments")
               ELSE IF op.kind # "verify" THEN [y EXCEPT !.pc = "candidate"]
               ELSE IF op.keytab THEN [y EXCEPT !.pc = "server"]
               ELSE Done(y, ~op.nofail, "keytab unavailable")
    /\ UNCHANGED asked

\* tgs.go: the loop of TGSExchange over the candidates.  The realm of a
\* candidate is blanked when the caller gave none.
Candidate ==
    /\ t.pc = "candidate"
    /\ t' = IF t.op.kind \in {"tgs", "verify"}
            THEN Enter(t, Service.realm, Service.realm = "", Service.realm # "", FALSE)
            ELSE [t EXCEPT !.pc = "single", !.fell = FALSE, !.referral = Service.realm = "",
                           !.known = Service.realm # "", !.tgt = t.op.tgt,
                           !.realm = IF Service.realm # "" THEN Service.realm
                                     ELSE IF t.op.kind = "s4u2proxy" /\ t.op.fallback # ""
                                     THEN t.op.fallback ELSE t.op.tgt.realm]
    /\ UNCHANGED asked

\* tgs.go: one hop of the capath: the ticket for the next realm
PathHop ==
    LET next == t.path[1] IN
    /\ t.pc = "path"
    /\ Ask(t.realm)
    /\ \E reply \in Replies(t.realm, Krbtgt(next)) :
          LET got == decodeTGSRepForExchange(reply, Krbtgt(next), t.realm, next, TRUE) IN
          t' = IF ~got.ok THEN Ended(t, got)
               ELSE IF got.referral \/ got.ticket.name # Krbtgt(next)
               THEN Finish(t, FALSE, "malformed cross-realm TGT", "malformed cross-realm TGT")
               ELSE [t EXCEPT !.tgt = got.ticket, !.realm = next, !.path = Tail(@),
                              !.pc = IF Len(t.path) = 1 THEN "loop" ELSE "path"]

\* tgs.go: the fallback of a referral request that the first KDC refused: the
\* whole exchange again in the realm the host name maps to
Refused(err) ==
    IF t.referral /\ t.hops = 0 /\ t.requested = "" /\ t.op.fallback # ""
    THEN Enter(t, t.op.fallback, FALSE, t.op.authoritative, TRUE)
    ELSE Finish(t, FALSE, err, err)

\* Mutant: the visited map is not consulted
neverVisited == FALSE

\* tgs.go: the visited map of the referral loop
visited == t.realm \in t.visited

\* tgs.go: one round of the referral loop.  A realm met twice ends it without
\* a request; a referral moves on to its realm until the hops run out.
LoopAgain ==
    /\ t.pc = "loop" /\ visited
    /\ t' = Finish(t, FALSE, "referral loop", "referral loop")
    /\ UNCHANGED asked

LoopHop ==
    /\ t.pc = "loop" /\ ~visited
    /\ Ask(t.realm)
    /\ \E reply \in Replies(t.realm, Name) :
          LET got == decodeTGSRepForExchange(reply, Name, t.service, t.requested, t.known) IN
          t' = IF reply.type = "error" THEN Refused(reply.code)
               ELSE IF ~got.ok \/ ~got.referral THEN Ended(t, got)
               ELSE IF t.hops >= HopLimit THEN Finish(t, FALSE, "hop limit", "hop limit")
               ELSE [t EXCEPT !.tgt = got.ticket, !.realm = got.ticket.name[2],
                              !.visited = @ \cup {t.realm}, !.hops = @ + 1]

-----------------------------------------------------------------------------
(* The exchanges of one request: user-to-user, FAST, forwarded, S4U        *)

\* tgs.go, s4u.go: what each requires of the ticket beyond the common checks;
\* U2U and FAST take no referral
Single(got) ==
    IF ~got.ok THEN got
    ELSE IF t.op.kind \in {"u2u", "fast"} /\ got.referral THEN Fail("unexpected referral")
    ELSE IF t.op.kind = "forwarded" /\ got.ticket.bad = "not forwarded" THEN Fail("not forwarded")
    ELSE IF t.op.kind = "s4u2self" /\ got.ticket.bad = "user" THEN Fail("reply user")
    ELSE got

\* tgs.go: TGSExchangeU2U and TGSExchangeFAST try the realm of the host after
\* a KDC error or a referral, and keep the first error for the candidate loop
SingleFailed(err) ==
    IF /\ t.op.kind \in {"u2u", "fast"} /\ ~t.fell /\ Service.realm = "" /\ t.op.fallback # ""
       /\ err \in {"generic", "S_PRINCIPAL_UNKNOWN", "unexpected referral"}
    THEN [t EXCEPT !.fell = TRUE, !.err = err, !.realm = t.op.fallback,
                   !.referral = FALSE, !.known = t.op.authoritative]
    ELSE Finish(t, FALSE, err, IF t.fell THEN t.err ELSE err)

SingleTrip ==
    /\ t.pc = "single" /\ ~(t.op.kind = "fast" /\ t.realm # t.op.tgt.realm)
    /\ Ask(t.realm)
    /\ \E reply \in Replies(t.realm, Name) :
          LET got == Single(decodeTGSRepForExchange(reply, Name, t.realm, t.realm,
                                t.known \/ t.op.kind \notin {"u2u", "fast"})) IN
          t' = IF got.ok THEN Ended(t, got) ELSE SingleFailed(got.err)

\* tgs.go: FAST does not cross realms
FastElsewhere ==
    /\ t.pc = "single" /\ t.op.kind = "fast" /\ t.realm # t.op.tgt.realm
    /\ t' = SingleFailed("cross-realm FAST")
    /\ UNCHANGED asked

-----------------------------------------------------------------------------
(* VerifyInitCreds                                                         *)

\* verify.go: the next service of the keytab.  Credentials that are for the
\* service itself are verified as they are; others are exchanged for it.
Server ==
    /\ t.pc = "server"
    /\ t' = IF Service.keys = {}
            THEN IF t.op.explicit /\ ~t.op.nofail THEN Done(t, TRUE, "no keytab entry")
                 ELSE NextServer(t, "no keytab entry")
            ELSE IF t.op.tgt.name = <<Service.name, 1>> /\ t.op.tgt.realm = Service.realm
            THEN [t EXCEPT !.pc = "ticket", !.tgt = t.op.tgt, !.cand = 1]
            ELSE [t EXCEPT !.pc = "candidate", !.cand = 1]
    /\ UNCHANGED asked

\* Mutant: the ticket is not opened under the keytab key
verifyNameOnly(y) ==
    /\ y.tgt.name = <<y.op.services[y.server].name, 1>> /\ y.tgt.realm = y.op.services[y.server].realm
    /\ y.tgt.bad # "invalid"

\* verify.go: verifyInitCredsTicket: the ticket must be for the service and
\* open under one of its keys, for the same client, valid and in its time
verifyInitCredsTicket(y) ==
    /\ y.tgt.name = <<y.op.services[y.server].name, 1>> /\ y.tgt.realm = y.op.services[y.server].realm
    /\ y.tgt.key \in y.op.services[y.server].keys
    /\ y.tgt.bad # "invalid"
VerifyTicket ==
    /\ t.pc = "ticket"
    /\ t' = IF verifyInitCredsTicket(t) THEN Done(t, TRUE, "") ELSE NextServer(t, "decrypt service ticket")
    /\ UNCHANGED asked

\* client.go: exchangePayload fails: a request went out and nothing came back
TransportFails ==
    /\ \/ t.pc = "path"
       \/ t.pc = "loop" /\ ~visited
       \/ t.pc = "single" /\ ~(t.op.kind = "fast" /\ t.realm # t.op.tgt.realm)
    /\ Ask(t.realm)
    /\ t' = Finish(t, FALSE, "transport", "transport")

Init == t = Idle /\ asked = NotAsked
Next == \/ Start \/ Candidate \/ PathHop \/ LoopAgain \/ LoopHop \/ SingleTrip \/ FastElsewhere
        \/ Server \/ VerifyTicket \/ TransportFails
Spec == Init /\ [][Next]_vars /\ WF_vars(Next)

-----------------------------------------------------------------------------
(* Every request of TGSExchange, FAST and VerifyInitCreds goes to the      *)
(* realm its ticket-granting ticket is for, no pass over the referrals     *)
(* asks one realm twice for the service, and a call sends no more requests *)
(* than its candidates, capaths and hops allow, whatever the KDCs refer it *)
(* to (the visited map, the hop limit and the path of TGSExchange).        *)
ChainOfTickets ==
    /\ asked.n > 0 /\ t.op.kind \in {"tgs", "fast", "verify"} => asked.tgt = Krbtgt(asked.realm)
    /\ ~asked.twice
    /\ t.pc # "idle" =>
          asked.n <= Len(t.op.services) * t.op.aliases * (2 * HopLimit + 2)

(* What TGSExchange returns is a ticket in the realm the caller asked for, *)
(* under the name it asked for unless canonicalization is on; a second     *)
(* name is tried only when the KDC does not know the first; and            *)
(* VerifyInitCreds succeeds only with a ticket that opens under the keytab *)
(* key of a service, or where it may pass without a key.                   *)
TicketAsRequested ==
    t.pc = "done" /\ t.result[1] =>
        /\ t.op.kind \in {"tgs", "u2u", "fast"} =>
              /\ t.op.services[1].realm \in {"", t.result[2].realm}
              /\ t.result[2].name = Name \/ Canonicalize
              /\ t.cand > 1 => t.errors[1] = "S_PRINCIPAL_UNKNOWN"
        /\ t.op.kind = "verify" /\ t.op.nofail =>
              t.result[2].key \in Service.keys /\ t.result[2].realm = Service.realm

(* Every call ends.                                                        *)
CallsEnd == t.pc # "idle" ~> t.pc = "done"

=============================================================================
