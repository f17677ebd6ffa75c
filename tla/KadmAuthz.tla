----------------------------- MODULE KadmAuthz -----------------------------
(***************************************************************************)
(* Who may do what in the kadm5 server: the kadm5.acl file (acl.go), the   *)
(* pluggable modules and their restrictions (auth.go), the three modes of  *)
(* Server.authorize (server_authz.go) and the password-quality modules     *)
(* (plugins.go).  A principal is its sequence of components (one realm);   *)
(* <<>> is the empty principal the list and policy operations pass.        *)
(***************************************************************************)
EXTENDS Database, FiniteSetsExt

CONSTANTS
    AclEntries,         \* the parsed kadm5.acl: a sequence of [client, ops, target]
    Modules,            \* Server.AuthModules: a sequence of [decides, restricts]
    AdminPrincipal,     \* Server.AdminPrincipal
    Dictionary,         \* passwords that a dictionary or princ module refuses
    UnicodeClasses      \* passwordClasses(password) of kadm5, which counts runes

\* The restrictions of a module name at most one policy.
ASSUME ModulesAssumption ==
    /\ Modules \in Seq(Range(Modules))
    /\ \A m \in Range(Modules) : \A op \in DOMAIN m.restricts :
          "policy" \in m.restricts[op].mask => Optional(m.restricts[op].policy)

AnyPrincipal == <<>>    \* a "*" client or target field of an ACL line

\* The first condition that holds decides the status; "ok" when none does.
FirstError(checks) ==
    LET bad == {i \in DOMAIN checks : checks[i][1]}
    IN  IF bad = {} THEN "ok" ELSE checks[Min(bad)][2]

-----------------------------------------------------------------------------
(* kadm5.acl: the first line that matches client and target decides. *)

Back == [b \in {"*1", "*2"} |-> IF b = "*1" THEN 1 ELSE 2]

\* The components that a client pattern's wildcards stand for, in order.
Wildcards(pattern, client) ==
    LET stars == {i \in DOMAIN pattern : pattern[i] = "*"}
    IN  [n \in 1..Cardinality(stars) |->
            client[CHOOSE i \in stars : Cardinality({j \in stars : j <= i}) = n]]

matchACLPrincipal(pattern, value, wild) ==
    /\ Len(pattern) = Len(value)
    /\ \A i \in DOMAIN pattern :
          IF pattern[i] \in DOMAIN Back
          THEN Back[pattern[i]] \in DOMAIN wild /\ wild[Back[pattern[i]]] = value[i]
          ELSE pattern[i] \in {"*", value[i]}

FirstGrants(lines, op) == lines # {} /\ op \in AclEntries[Min(lines)].ops

aclCheck(client, op, target) ==
    LET Matches(e) ==
            LET wild == IF e.client = AnyPrincipal THEN <<>> ELSE Wildcards(e.client, client)
            IN  /\ e.client = AnyPrincipal \/ matchACLPrincipal(e.client, client, <<>>)
                /\ e.target = AnyPrincipal \/ matchACLPrincipal(e.target, target, wild)
    IN  FirstGrants({i \in DOMAIN AclEntries : Matches(AclEntries[i])}, op)

\* The permission an operation asks for; an operation outside it is refused.
\* (ACL.Check knows rename, aclOperation does not.)
aclOperation ==
    [create |-> "a", delete |-> "d", modify |-> "m", changepw |-> "c", randkey |-> "c", setpw |-> "c",
     get |-> "i", getstrings |-> "i", list |-> "l", extract |-> "e", setkey |-> "s", setstring |-> "m",
     cpolicy |-> "a", dpolicy |-> "d", mpolicy |-> "m", gpolicy |-> "i", lpolicy |-> "l", iprop |-> "p",
     rename |-> "d"]

aclAllows(client, op, target) ==
    \/ op \in {"changepw", "setpw", "randkey"} /\ client = target
    \/ op = "getprivs"
    \/ op \in DOMAIN aclOperation /\ aclCheck(client, aclOperation[op], target)

-----------------------------------------------------------------------------
(* The module interface: any denial refuses, and some module must authorize. *)

\* req is [op, client, target, dest, policy, clientPolicy]; the ACL adapter
\* asks the ACL under these operations.
AclAuthModule(req) ==
    LET adapted == [purge |-> "modify", setstring |-> "modify", randkey |-> "changepw", getstrings |-> "get"]
        asked == CASE req.op = "rename" -> {<<"delete", req.target>>, <<"create", req.dest>>}
                   [] req.op = "alias" -> {<<"create", req.target>>, <<"modify", req.dest>>}
                   [] req.op \in DOMAIN adapted -> {<<adapted[req.op], req.target>>}
                   [] OTHER -> {<<req.op, req.target>>}
    IN  IF \A a \in asked : aclAllows(req.client, a[1], a[2]) THEN "authorize" ELSE "pass"

SelfAuthModule(req) ==
    IF \/ req.op \in {"changepw", "randkey", "purge", "get", "getstrings"} /\ req.client = req.target
       \/ req.op = "gpolicy" /\ req.clientPolicy # <<>> /\ req.policy = req.clientPolicy
    THEN "authorize" ELSE "pass"

ModuleDecision(m, req) == IF req.op \in DOMAIN m.decides THEN m.decides[req.op] ELSE "pass"

Decided(decisions) == "deny" \notin decisions /\ "authorize" \in decisions

authorizeRequest(req) ==
    Decided({AclAuthModule(req), SelfAuthModule(req)} \cup {ModuleDecision(m, req) : m \in Range(Modules)})

\* The restrictions that decide about a field of the entry: those of the last
\* module that answers with one of the field's bits.
ApplyAuthRestrictions(op, bits) ==
    LET ruling == {i \in DOMAIN Modules :
                      op \in DOMAIN Modules[i].restricts /\ Modules[i].restricts[op].mask \cap bits # {}}
    IN  IF ruling = {} THEN <<>> ELSE <<Modules[Max(ruling)].restricts[op]>>

\* Each module that answers with restrictions has them applied to the entry, in
\* the order of the modules.  authorizeRequest works on its own copy of the
\* mask, so the bits that a restriction adds to the mask never reach the handler.
RestrictedEntry(entry, op) ==
    LET attrs == ApplyAuthRestrictions(op, {"attrs"})
        policy == ApplyAuthRestrictions(op, {"clear", "policy"})
    IN  [entry EXCEPT !.lockdown = IF attrs = <<>> THEN @ ELSE attrs[1].lockdown,
                      !.policy = IF policy = <<>> THEN @
                                 ELSE IF "clear" \in policy[1].mask THEN <<>> ELSE policy[1].policy]

\* Server.authorize, authorizePair, authorizeRename, authorizePrincipal,
\* authorizeString and authorizePolicy under the configured mode.
authorize(mode, req) ==
    IF mode = "modules" /\ req.op # "getprivs" THEN authorizeRequest(req)
    ELSE LET plain == [randkey |-> "changepw", setstring |-> "modify", getstrings |-> "get"]
             op == IF req.op \in DOMAIN plain THEN plain[req.op] ELSE req.op
         IN  \/ op = "getprivs"
             \/ op = "changepw" /\ req.client = req.target
             \/ /\ mode = "acl"
                /\ \A a \in CASE op = "rename" -> {<<"delete", req.target>>, <<"create", req.dest>>}
                             [] op = "alias" -> {<<op, req.target>>, <<op, req.dest>>}
                             [] OTHER -> {<<op, req.target>>} : aclAllows(req.client, a[1], a[2])
             \/ mode = "admin" /\ req.client = AdminPrincipal

-----------------------------------------------------------------------------
(* Password quality. *)

checkPasswordQuality(password, policy) ==
    FirstError(<< <<Length[password] = 0, "PASS_TOOSHORT">>,
                  <<policy # <<>> /\ password \in Dictionary, "PASS_DICT">> >>)

\* checkPolicy, the length and class checks of CREATE_PRINCIPAL.
checkPolicy(password, policy) ==
    FirstError(<< <<policy.minLength > 0 /\ Length[password] < policy.minLength, "PASS_TOOSHORT">>,
                  <<policy.minClasses > 0 /\ UnicodeClasses[password] < policy.minClasses, "PASS_CLASS">> >>)
=============================================================================
