------------------------------- MODULE MCKdc --------------------------------
(***************************************************************************)
(* Instances of Kdc for TLC, one per configuration of the server: the      *)
(* preauthentication mechanisms (password, otp, spake, pkinit, modules),   *)
(* chains of tickets (chain), delegation and user-to-user with PACs and    *)
(* indicators (delegation), the replay cache (replay) and a client of      *)
(* another realm (foreign).                                                *)
(***************************************************************************)
EXTENDS Kdc

Home == <<"example", "org">>
Away == <<"lab", "example", "org">>
Other == <<"other", "net">>

MCRealmOf == [alice |-> Home, bob |-> Home, web |-> Home, sql |-> Home, www |-> Home, tgs |-> Home,
              toAway |-> Home, fromAway |-> Away, guest |-> Away, far |-> Away,
              fromOther |-> Other, anonymous |-> AnonymousRealm, kadmin |-> Home, nowhere |-> Home]
MCLeads == [tgs |-> Home, toAway |-> Away, fromAway |-> Home, fromOther |-> Home]
MCAliases == [www |-> "web"]

-----------------------------------------------------------------------------
BaseServer ==
    [name |-> "password", skew |-> 1, maxLife |-> 2, defLife |-> 0, maxRenew |-> 5, defRenew |-> 0,
     allowed |-> {"forwardable", "proxiable", "renewable"}, caps |-> {}, vetoed |-> {}, refused |-> {},
     disablePreauth |-> FALSE, otp |-> FALSE, spake |-> FALSE, pkinit |-> "off",
     requireFreshness |-> FALSE, modules |-> <<>>, restrictAnonymous |-> FALSE,
     indicators |-> [modules |-> {}, otp |-> {"otp"}, challenge |-> {}, spake |-> {"pake"}, pkinit |-> {"card"}],
     pac |-> FALSE, delegates |-> None, referrals |-> {}, capaths |-> <<>>, rejectBadTransit |-> TRUE]

MCServers == {
    BaseServer,
    [BaseServer EXCEPT !.name = "open", !.disablePreauth = TRUE, !.refused = {<<"alice", "sql">>}],
    [BaseServer EXCEPT !.name = "otp", !.otp = TRUE, !.pkinit = "kdc", !.restrictAnonymous = TRUE],
    [BaseServer EXCEPT !.name = "spake", !.spake = TRUE],
    [BaseServer EXCEPT !.name = "pkinit", !.pkinit = "clients", !.requireFreshness = TRUE],
    [BaseServer EXCEPT !.name = "modules", !.disablePreauth = TRUE, !.pkinit = "clients",
        !.modules = [token |-> {"hardware", "replaces"}, risk |-> {"required"}, sms |-> {"sufficient"}]],
    [BaseServer EXCEPT !.name = "chain", !.maxRenew = 6, !.defRenew = 3],
    [BaseServer EXCEPT !.name = "capped", !.maxRenew = 6, !.maxLife = 3, !.caps = {[life |-> 2, renew |-> 4]},
        !.allowed = {"renewable"}],
    [BaseServer EXCEPT !.name = "delegation", !.pac = TRUE, !.pkinit = "clients",
        !.delegates = Some({<<"web", "sql">>})],
    [BaseServer EXCEPT !.name = "replay", !.skew = 2],
    [BaseServer EXCEPT !.name = "foreign", !.referrals = {"far"},
        !.capaths = [p \in {<<Other, Home>>} |-> {}]]}

-----------------------------------------------------------------------------
Keys(v) == [aes256 |-> v, aes128 |-> v]
Rec == [NoRecord EXCEPT !.keys = Keys(1)]
BaseDatabase ==
    [alice |-> [Rec EXCEPT !.policy = 2, !.flags = {"requires_preauth"}],
     web |-> Rec, sql |-> [Rec EXCEPT !.maxLife = 1], tgs |-> Rec]

MCDatabase(name) ==
    CASE name = "password" -> [BaseDatabase EXCEPT !.alice.pwExpiration = 3, !.web.keys = [aes128 |-> 1]]
                              @@ [kadmin |-> [Rec EXCEPT !.flags = {"pwchange_service"}]]
      [] name = "open" -> [BaseDatabase EXCEPT !.alice.flags = {}, !.alice.expiration = 3]
      [] name \in {"otp", "pkinit", "modules"} -> BaseDatabase @@ [bob |-> [Rec EXCEPT !.flags = {"requires_hw_auth"}, !.policy = 1]]
      [] name = "chain" -> [BaseDatabase EXCEPT !.sql.disallow = {"renewable", "postdated", "forwardable"}]
      [] name = "delegation" -> [BaseDatabase EXCEPT !.sql.require = {"card"}, !.sql.disallow = {"dup_skey"}]
      [] name = "foreign" -> [BaseDatabase EXCEPT !.sql.flags = {"disallow_server"}] @@ [toAway |-> Rec, fromAway |-> Rec, fromOther |-> Rec]
      [] OTHER -> BaseDatabase

MCDatabases == [name \in {s.name : s \in MCServers} |-> MCDatabase(name)]

-----------------------------------------------------------------------------
BaseAS == [client |-> "alice", service |-> "tgs", etypes |-> <<"aes256", "aes128">>, options |-> {},
           from |-> 0, till |-> 0, rtime |-> 0, pas |-> {}, offset |-> 0, armor |-> "none", key |-> 1,
           otp |-> "wrong", factor |-> "none", cert |-> "good", group |-> TRUE, customs |-> <<>>, verdict |-> <<>>]
With(pa) == [BaseAS EXCEPT !.pas = {pa}]
Keyed(r) == {[r EXCEPT !.key = k] : k \in {0, 1, 2}}

MCAS(name) ==
    CASE name = "password" ->
           Keyed(With("timestamp"))
             \cup {[With("timestamp") EXCEPT !.service = "kadmin"], [With("timestamp") EXCEPT !.service = "web"],
                   [With("timestamp") EXCEPT !.offset = 2], [With("timestamp") EXCEPT !.key = 0, !.offset = 2],
                   BaseAS, [BaseAS EXCEPT !.client = "bob"],
                   [With("timestamp") EXCEPT !.service = "sql", !.etypes = <<"des">>]}
             \cup {[r EXCEPT !.armor = a] : r \in Keyed(With("challenge")), a \in {"sound", "broken"}}
      [] name = "open" -> {BaseAS, [BaseAS EXCEPT !.service = "sql"], [BaseAS EXCEPT !.service = "nowhere"]}
      [] name = "otp" ->
           {[With("pkinit") EXCEPT !.client = Anonymous, !.options = {"anonymous"}, !.cert = c,
                                   !.service = s] : c \in {"unsigned", "good"}, s \in {"tgs", "web"}}
             \cup {[With("otp") EXCEPT !.armor = "sound", !.otp = o, !.offset = d, !.client = c,
                                       !.etypes = e] :
                      o \in {"wrong", "right"}, d \in {0, 2}, c \in {"alice", "bob"},
                      e \in {<<"aes256">>, <<"aes128">>}}
             \cup {[r EXCEPT !.armor = "sound"] : r \in Keyed(With("challenge")) \cup {BaseAS, With("timestamp")}}
             \cup {BaseAS, With("otp"), With("timestamp"), [BaseAS EXCEPT !.options = {"anonymous"}],
                   [BaseAS EXCEPT !.options = {"anonymous"}, !.client = Anonymous, !.pas = {"freshness"}]}
      [] name = "spake" ->
           {BaseAS, With("spake_support"), With("spake_other"), With("spake_response")}
             \cup {[With("spake_response") EXCEPT !.factor = f] : f \in {"etype", "other"}}
             \cup Keyed(With("spake_response")) \cup Keyed(With("timestamp"))
             \cup {[With("spake_support") EXCEPT !.armor = "sound"]}
      [] name = "pkinit" ->
           {[With("pkinit") EXCEPT !.cert = c, !.client = p, !.pas = {"pkinit"} \cup t] :
              c \in {"good", "hardware", "refused"}, p \in {"alice", "bob"}, t \in {{}, {"token"}}}
             \cup {[BaseAS EXCEPT !.pas = {"freshness"}], [With("pkinit") EXCEPT !.offset = 2],
                   [With("pkinit") EXCEPT !.group = FALSE, !.pas = {"pkinit", "token"}]}
      [] name = "modules" ->
           {[BaseAS EXCEPT !.customs = m, !.client = c,
                           !.verdict = [token |-> v, risk |-> w, sms |-> "ok"]] :
              m \in {<<"risk">>, <<"token">>, <<"token", "risk">>, <<"sms", "risk">>, <<"token", "token", "risk">>},
              c \in {"alice", "bob"}, v \in {"ok", "late", "declined"}, w \in {"ok", "declined", "error"}}
             \cup {[With("pkinit") EXCEPT !.cert = "hardware", !.client = "bob"], With("timestamp"),
                   [With("timestamp") EXCEPT !.client = "bob", !.key = 0]}
      [] name \in {"chain", "capped"} ->
           {[BaseAS EXCEPT !.pas = {"timestamp"}, !.options = o, !.rtime = r, !.till = t] :
              o \in {{"renewable", "forwardable"}, {"renewable_ok", "proxiable"}}, r \in {0, 7}, t \in {0, 5}}
             \cup {[BaseAS EXCEPT !.pas = {"timestamp"}, !.from = 3, !.till = t,
                        !.options = {"postdated", "renewable"} \cup o] :
                     t \in {0, 3, 4}, o \in {{}, {"allow_postdate"}}}
      [] name = "delegation" ->
           {[With("timestamp") EXCEPT !.client = "web"],
            [With("pkinit") EXCEPT !.options = {"forwardable"}], [With("pkinit") EXCEPT !.client = "web"]}
      [] OTHER -> {With("timestamp")}

MCASRequests == [name \in {s.name : s \in MCServers} |-> MCAS(name)]

-----------------------------------------------------------------------------
BaseTGS == [service |-> "web", etypes |-> <<"aes256">>, options |-> {}, from |-> 0, till |-> 0, rtime |-> 0,
            s4u |-> None, sound |-> TRUE, authdata |-> "none", offset |-> 0, id |-> 1]
For(service, options) == [BaseTGS EXCEPT !.service = service, !.options = options]

MCTGS(name) ==
    CASE name \in {"chain", "capped"} ->
           {For("tgs", o) : o \in {{"renew"}, {"validate"}, {"forwarded", "renewable"}, {"renewable_ok"}, {"proxy"},
                                   {"renewable"}}}
             \cup {[For(s, {"postdated", "allow_postdate"}) EXCEPT !.from = 4] : s \in {"tgs", "sql"}}
             \cup {For("sql", {}), For("sql", {"renewable"}), For("sql", {"postdated"}), For("www", {"canonicalize"}),
                   [For("tgs", {"renewable"}) EXCEPT !.till = 4, !.rtime = 7]}
      [] name = "delegation" ->
           {[BaseTGS EXCEPT !.s4u = Some(u), !.service = s] : u \in {"alice", "guest"}, s \in {"web", "sql"}}
             \cup {For(s, {"enc_tkt_in_skey"}) : s \in {"web", "sql"}}
             \cup {For(s, {"cname_in_addl_tkt"}) : s \in {"sql", "tgs"}}
             \cup {For("web", {}), For("sql", {}), For("sql", {"cname_in_addl_tkt", "renew"})}
      [] name = "replay" ->
           {[For("web", {}) EXCEPT !.offset = d, !.etypes = <<"des">>] : d \in {-3, -2, -1, 1}}
             \cup {[For("web", {}) EXCEPT !.sound = FALSE], For("web", {})}
      [] name = "foreign" ->
           {For("web", {}), For("far", {"canonicalize"}), For("far", {}), For("nowhere", {}), For("sql", {}),
            [For("web", {}) EXCEPT !.authdata = "mandatory"], [For("web", {}) EXCEPT !.authdata = "unreadable"],
            For("tgs", {"forwarded"})}
      [] OTHER -> {}

MCTGSRequests == [name \in {s.name : s \in MCServers} |-> MCTGS(name)]

\* A ticket of another realm's KDC under the key it shares with this one.
ForeignTicket(service) ==
    [client |-> "guest", service |-> service, label |-> "aes256", etype |-> "aes256", kvno |-> 1,
     session |-> "aes256", u2u |-> FALSE, flags |-> {"initial", "pre_authent", "forwardable"}, auth |-> 1,
     start |-> Some(1), end |-> 3, renew |-> None, indicators |-> {"card"}, mac |-> 9, pac |-> 0,
     transited |-> <<>>, issued |-> 1,
     root |-> [proof |-> "password", renew |-> None, indicators |-> {}, agreed |-> {}]]
MCForeign == [name \in {s.name : s \in MCServers} |->
                IF name = "foreign" THEN {ForeignTicket("fromAway"), ForeignTicket("fromOther")} ELSE {}]

\* cpw with keepold, an expiring key table, a disabled account
Rekey(d, p, keep) ==
    LET r == d[p] IN
    [d EXCEPT ![p] = [r EXCEPT !.keys = [e \in DOMAIN r.keys |-> r.keys[e] + 1],
                               !.history = IF keep THEN @ \cup {r.keys} ELSE {}]]
MCRevise(d) ==
    {Rekey(d, p, keep) : p \in {"alice", "tgs"}, keep \in BOOLEAN}
      \cup {[d EXCEPT !.alice.flags = @ \cup {"disallow_all"}]}

\* One configuration, for LifeBounded.
MCChain == {s \in MCServers : s.name = "chain"}

\* The bounds, by configuration.
Bound(special, rest) == [name \in {s.name : s \in MCServers} |-> IF name \in DOMAIN special THEN special[name] ELSE rest]
MCMaxTime == Bound([replay |-> 3, chain |-> 6, capped |-> 5, delegation |-> 2, foreign |-> 2], 4)
MCMaxHeld == Bound([delegation |-> 2, foreign |-> 2], 1)
MCMaxRevisions == Bound([chain |-> 0, capped |-> 0, replay |-> 0, foreign |-> 0], 1)
=============================================================================
