------------------------------- MODULE Locate -------------------------------
(***************************************************************************)
(* How a client finds the realm of a host, the name to ask for, and the    *)
(* KDCs of a realm: RealmForHost of krb5/config, krb5/hostrealm and        *)
(* krb5/discovery.  They are pure functions of the configuration and of    *)
(* what DNS answers, so a query q holds both and one step answers it.      *)
(*                                                                         *)
(* A host name is the sequence of its labels, the first one first; a realm *)
(* is written as the name it was made from.                                *)
(***************************************************************************)
EXTENDS Integers, SequencesExt

CONSTANTS Queries, DefaultRealm

VARIABLES q, answer
vars == <<q, answer>>

None == <<>>
Parent(name) == Tail(name)
Domains(name) == [i \in 1..Len(name) |-> SubSeq(name, i, Len(name))]
First(s, Test(_)) == LET i == SelectInSeq(s, Test) IN IF i = 0 THEN None ELSE <<s[i]>>

-----------------------------------------------------------------------------
(* config.go, hostrealm.go and LookupRealmTXT.  A key of [domain_realm] is *)
(* a name with or without a leading dot; each maps to a realm of its own.  *)

Key(dot, name) == [dot |-> dot, name |-> name]

\* Mutant: the broadest domain is looked up first
BroadestFirst(host) ==
    FlattenSeq([i \in 1..Len(host) |-> LET s == SubSeq(host, Len(host) - i + 1, Len(host))
                                       IN <<Key(TRUE, s), Key(FALSE, s)>>])

\* The candidates of RealmForHost: host, then .suffix and suffix
Candidates(host) ==
    <<Key(FALSE, host)>> \o
    FlattenSeq([i \in 1..Len(host) - 1 |-> LET s == SubSeq(host, i + 1, Len(host))
                                           IN <<Key(TRUE, s), Key(FALSE, s)>>])
RealmForHost(cfg, host, ip) ==
    IF ip THEN None ELSE First(Candidates(host), LAMBDA k : k \in cfg.domains)

\* The first of host and its parents whose TXT record names a realm
LookupRealmTXT(dns, host, ip) ==
    IF ip THEN None ELSE First(Domains(host), LAMBDA name : name \in dns.txt)

\* The first of the tried suffixes, each with a dot, that is a known realm;
\* otherwise the parent domain.  tries = -1 when realm_try_domains is unset.
fallbackRealm(cfg, dns, host, ip) ==
    IF ip THEN None
    ELSE LET tried == {i \in 1..cfg.tries + 1 : i < Len(host)}
             found == First(Domains(host), LAMBDA s : s \in dns.realms /\ Len(host) - Len(s) + 1 \in tried)
         IN IF found # None THEN found
            ELSE IF Len(host) > 1 THEN <<Parent(host)>> ELSE None

\* A cancelled context fails the TXT lookup and nothing else
HostRealm(cfg, dns, host, ip, cancelled) ==
    LET profile == RealmForHost(cfg, host, ip)
        txt == IF cfg.dnsLookupRealm THEN LookupRealmTXT(dns, host, ip) ELSE None
        domain == fallbackRealm(cfg, dns, host, ip)
        Realm(found, authoritative, from) ==
            [from |-> from, realm |-> found, authoritative |-> authoritative]
    IN IF profile # None THEN Realm(<<profile[1].name>>, TRUE, "profile")
       ELSE IF cfg.dnsLookupRealm /\ cancelled THEN Realm(None, FALSE, "error")
       ELSE IF txt # None THEN Realm(txt, TRUE, "dns")
       ELSE IF domain # None THEN Realm(domain, FALSE, "domain")
       ELSE Realm(<<DefaultRealm>>, FALSE, "default")

-----------------------------------------------------------------------------
(* hostrealm.go: ExpandHostname and the candidate principals.  dns.forward *)
(* and dns.reverse are what the resolver says of the host, None when it    *)
(* fails; dns.address whether its canonical name has an address.           *)

qualify(cfg, host) == IF Len(host) = 1 THEN host \o cfg.qualify ELSE host
ExpandHostname(cfg, mode, dns, host) ==
    IF mode # "true" \/ dns.forward = None THEN qualify(cfg, host)
    ELSE IF cfg.rdns /\ dns.address /\ dns.reverse # None THEN dns.reverse
    ELSE dns.forward

CanonicalizePrincipalCandidates(cfg, dns, host, hostbased) ==
    LET first == IF hostbased THEN ExpandHostname(cfg, cfg.mode, dns, host) ELSE host
        second == ExpandHostname(cfg, "true", dns, host)
    IN IF cfg.mode # "fallback" \/ ~hostbased \/ first = second THEN <<first>> ELSE <<first, second>>

-----------------------------------------------------------------------------
(* discovery.go: DiscoverWithOptions.  A lookup gives None (an error) or   *)
(* <<records>>; a URI record that does not parse has port 0.               *)

SRVLess(a, b) == a.priority < b.priority \/ (a.priority = b.priority /\ a.weight > b.weight)
URILess(a, b) == a.priority < b.priority

\* sort.SliceStable
SliceStable(s, Less(_, _)) ==
    FoldLeft(LAMBDA acc, r : InsertAt(acc, Cardinality({i \in 1..Len(acc) : ~Less(r, acc[i])}) + 1, r),
             <<>>, s)

\* One KDC for every usable record, each host and port once
KDCOf(r) == [host |-> r.host, port |-> r.port, transport |-> r.transport]
Usable(s) ==
    FoldLeft(LAMBDA acc, r : IF r.port = 0 \/ KDCOf(r) \in ToSet(acc) THEN acc ELSE Append(acc, KDCOf(r)),
             <<>>, s)
parseURIRecords(records) == Usable(SliceStable(records, URILess))
SRVRecords(dns) == FlattenSeq(dns.udp \o dns.tcp)

DiscoverWithOptions(dns, dnsURILookup) ==
    LET uris == IF dnsURILookup /\ dns.uri # None THEN parseURIRecords(dns.uri[1]) ELSE <<>>
    IN IF uris # <<>> THEN uris ELSE Usable(SliceStable(SRVRecords(dns), SRVLess))

-----------------------------------------------------------------------------
Init == q \in Queries /\ answer = None
Resolve ==
    /\ answer = None
    /\ answer' = <<CASE q.ask = "realm" -> HostRealm(q.cfg, q.dns, q.host, q.ip, q.cancelled)
                     [] q.ask = "name" -> CanonicalizePrincipalCandidates(q.cfg, q.dns, q.host, q.hostbased)
                     [] q.ask = "kdc" -> DiscoverWithOptions(q.dns, q.uriLookup)>>
    /\ UNCHANGED q
Next == Resolve
Spec == Init /\ [][Next]_vars /\ WF_vars(Next)

-----------------------------------------------------------------------------
IsDomainOf(s, name) == s \in ToSet(Domains(name))

\* Of the mappings that cover a host, the one of the longest domain decides,
\* and where both .domain and domain are mapped the former does; the domain
\* heuristic never yields a single label it did not have to, and only a
\* mapping or a TXT record is authoritative
RealmRight(a) ==
    LET covering == {k \in q.cfg.domains : IsDomainOf(k.name, q.host) /\ (k.dot => k.name # q.host)}
    IN /\ a.from = "profile" <=> (covering # {} /\ ~q.ip)
       /\ a.from = "profile" => \A k \in covering : Len(k.name) <= Len(a.realm[1])
       /\ a.from = "dns" => /\ a.realm[1] \in q.dns.txt
                            /\ \A s \in q.dns.txt : IsDomainOf(s, q.host) => Len(s) <= Len(a.realm[1])
       /\ a.from = "domain" => /\ a.realm[1] = q.host => q.host \in q.dns.realms
                               /\ IsDomainOf(a.realm[1], q.host)
       /\ a.authoritative <=> a.from \in {"profile", "dns"}

\* In fallback mode the first name asked for does not depend on DNS; a second
\* one differs from it and is what canonicalising at once would have given
NamesRight(a) ==
    /\ \A i, j \in 1..Len(a) : a[i] = a[j] => i = j
    /\ q.cfg.mode # "true" =>
         a[1] = IF q.hostbased /\ Len(q.host) = 1 THEN q.host \o q.cfg.qualify ELSE q.host
    /\ Len(a) = 2 =>
         <<a[2]>> = CanonicalizePrincipalCandidates([q.cfg EXCEPT !.mode = "true"], q.dns, q.host, q.hostbased)

\* Every usable KDC once, in the order of its best record
KDCsRight(a) ==
    LET uris == IF q.uriLookup /\ q.dns.uri # None THEN q.dns.uri[1] ELSE <<>>
        good(s) == {r \in ToSet(s) : r.port # 0}
        used == IF good(uris) # {} THEN good(uris) ELSE good(SRVRecords(q.dns))
        Before(x, y) == IF good(uris) # {} THEN URILess(x, y) ELSE SRVLess(x, y)
        Best(k) == {r \in used : KDCOf(r) = k /\ \A s \in used : KDCOf(s) = k => ~Before(s, r)}
    IN /\ ToSet(a) = {KDCOf(r) : r \in used}
       /\ \A i, j \in 1..Len(a) :
             i < j => a[i] # a[j] /\ \A x \in Best(a[i]), y \in Best(a[j]) : ~Before(y, x)

(* What the locator answers agrees with what its inputs determine: the     *)
(* realm of the most specific mapping or record, the names to try in the   *)
(* order MIT tries them, and every KDC once in the order of its best       *)
(* record.                                                                 *)
Located ==
    answer # None => CASE q.ask = "realm" -> RealmRight(answer[1])
                       [] q.ask = "name" -> NamesRight(answer[1])
                       [] q.ask = "kdc" -> KDCsRight(answer[1])

=============================================================================
