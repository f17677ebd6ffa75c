------------------------------- MODULE Kadm5 -------------------------------
(***************************************************************************)
(* The kadm5 administration server (Server.dispatch) and the kpasswd       *)
(* server (HandleMessage) on one shared database.                          *)
(*                                                                         *)
(* Every connection has a session (authenticated client, service principal *)
(* of the ticket, initial flag).  A request is served in two steps: the    *)
(* handler first runs its checks and reads what it needs with Lookup and   *)
(* GetPolicy, each of which takes and releases db.mu, and then makes its   *)
(* one mutating call.  Requests of other connections run in between, and   *)
(* the mutating call works on what was read.  The database operations      *)
(* themselves are atomic (they hold db.mu), except that Lookup copies the  *)
(* record after it has released db.mu (GetPrincipal).                      *)
(***************************************************************************)
EXTENDS KadmAuthz

CONSTANTS
    Conns,          \* the connections served at the same time
    Sessions,       \* how the connections may have authenticated: [Conns -> [client, service, initial]]
    Requests,       \* the requests clients send
    HookVetoes,     \* the principals whose changes a pre-commit hook refuses
    Modes,          \* the authorisation modes: "modules", "acl", "admin"
    InitDatabase,   \* the database the servers start with
    MaxOps, MaxNow  \* bounds on requests and on the clock

\* The servers start with a database whose log is complete and whose records
\* agree with their version numbers, as after any of the operations.
ASSUME InitAssumption ==
    /\ WellFormed(InitDatabase) /\ InitDatabase.mirror = InitDatabase.principals
    /\ \A n \in DOMAIN InitDatabase.principals : RecordSound(InitDatabase.principals[n])
    /\ \A n \in DOMAIN InitDatabase.policies : IsPolicy(InitDatabase.policies[n])

ASSUME BoundAssumption == MaxOps \in Nat /\ MaxNow \in Nat \ {0}

\* The procedures are those of dispatch and kpasswd.
ASSUME RequestAssumption ==
    \A r \in Requests :
        r.op \in {"create", "delete", "modify", "rename", "alias", "chpass", "kpasswd", "chrand",
                  "setkey", "purge", "setstring", "cpolicy", "mpolicy", "dpolicy", "get",
                  "gpolicy", "list", "lpolicy", "getprivs", "getstrings", "extract"}

\* Their arguments have the types that the decoders give them.
ASSUME ArgumentAssumption ==
    \A r \in Requests :
        /\ r.op \in {"create", "chpass", "chrand"} => r.tuples \in Seq(Range(r.tuples))
        /\ r.op = "setkey" => r.keys \in Seq(Range(r.keys)) /\ \A k \in Range(r.keys) : k.kvno \in Nat
        /\ r.op \in {"create", "modify"} => "policy" \in DOMAIN r.entry /\ Optional(r.entry.policy)
        /\ r.op \in {"cpolicy", "mpolicy"} => IsPolicy(r.record)

VARIABLES
    db,         \* the database
    now,        \* the clock
    mode,       \* how Server.authorize decides
    sess,       \* the session of each connection
    call,       \* the request a connection is serving, or its last status
    ops         \* requests received so far (bounded by MaxOps)

vars == <<db, now, mode, sess, call, ops>>

-----------------------------------------------------------------------------
(* Shared checks of the handlers. *)

AuthRequest(s, op, target, dest, policy, clientPolicy) ==
    [op |-> op, client |-> s.client, target |-> target, dest |-> dest,
     policy |-> policy, clientPolicy |-> clientPolicy]

May(s, op, target) == authorize(mode, AuthRequest(s, op, target, <<>>, <<>>, <<>>))

MayPair(s, op, source, dest) == authorize(mode, AuthRequest(s, op, source, dest, <<>>, <<>>))

isChangePasswordService(s) == s.service = "changepw"

Known(name) == name \in DOMAIN db.principals

checkLockdown(name) == Known(name) /\ db.principals[name].lockdown

\* The policy a principal names: <<>>, or <<name>>.
PolicyOf(name) == IF Known(name) THEN db.principals[name].policy ELSE <<>>

Missing(policy) == policy # <<>> /\ policy[1] \notin DOMAIN db.policies

\* GetPolicy: the caller's copy of a policy that exists.
GetPolicy(policy) == IF policy = <<>> \/ Missing(policy) THEN <<>> ELSE <<db.policies[policy[1]]>>

checkSelfKeyChange(s, name) ==
    LET policy == GetPolicy(PolicyOf(name))
    IN  IF s.client # name THEN "ok"
        ELSE IF ~s.initial THEN "AUTH_INITIAL"
        ELSE IF Missing(PolicyOf(name)) THEN "UNK_POLICY"
        ELSE IF /\ policy # <<>> /\ policy[1].minLife > 0 /\ db.principals[name].lastPwd # 0
                /\ now < db.principals[name].lastPwd + policy[1].minLife
        THEN "PASS_TOOSOON" ELSE "ok"

\* A status is a failure unless it is "ok".
Fails(status) == <<status # "ok", status>>

Refused(name) == <<name \in HookVetoes, "HOOK">>

-----------------------------------------------------------------------------
(* The handlers' checks and reads, in the order of the code.  Each gives   *)
(* the status, and the argument of the mutating call.                      *)

Entry(r) == IF mode = "modules" THEN RestrictedEntry(r.entry, r.op) ELSE r.entry

\* createPrincipal and createPrincipal3.
checkCreate(s, r) ==
    LET policy == IF "policy" \in r.mask /\ "clear" \notin r.mask THEN Entry(r).policy ELSE <<>>
        copy == GetPolicy(policy)
    IN  [arg |-> policy,
         status |-> FirstError(<<
            <<isChangePasswordService(s), "AUTH_ADD">>,
            <<~May(s, "create", r.name), "AUTH_ADD">>,
            <<Missing(policy), "UNK_POLICY">>,
            Fails(IF copy = <<>> THEN "ok" ELSE checkPolicy(r.password, copy[1])),
            Fails(checkPasswordQuality(r.password, policy)),
            Refused(r.name) >>)]

\* Mutant: a ticket for kadmin/changepw is enough.
checkDeleteAnyService(s, r) ==
    [arg |-> <<>>, status |-> FirstError(<<
        <<~May(s, "delete", r.name), "AUTH_DELETE">>,
        <<checkLockdown(r.name), "AUTH_DELETE">>,
        Refused(r.name) >>)]

checkDelete(s, r) ==
    [arg |-> <<>>, status |-> FirstError(<<
        <<isChangePasswordService(s), "AUTH_DELETE">>,
        <<~May(s, "delete", r.name), "AUTH_DELETE">>,
        <<checkLockdown(r.name), "AUTH_DELETE">>,
        Refused(r.name) >>)]

\* applyEntry: the fields that the mask selects replace those of the record.
applyEntry(rec, entry, mask) ==
    [rec EXCEPT !.lockdown = IF "attrs" \in mask THEN entry.lockdown ELSE @,
                !.lastPwd = IF "lastpwd" \in mask THEN entry.lastPwd ELSE @,
                !.policy = IF "policy" \in mask
                           THEN IF "clear" \in mask THEN <<>> ELSE entry.policy
                           ELSE @]

checkModify(s, r) ==
    [arg |-> IF Known(r.name) THEN applyEntry(db.principals[r.name], Entry(r), r.mask) ELSE <<>>,
     status |-> FirstError(<<
        <<isChangePasswordService(s), "AUTH_MODIFY">>,
        <<~May(s, "modify", r.name), "AUTH_MODIFY">>,
        <<~Known(r.name), "UNK_PRINC">>,
        <<checkLockdown(r.name) /\ "attrs" \in r.mask /\ ~Entry(r).lockdown, "AUTH_MODIFY">>,
        Refused(r.name) >>)]

checkRename(s, r) ==
    [arg |-> <<>>, status |-> FirstError(<<
        <<isChangePasswordService(s), "AUTH_INSUFFICIENT">>,
        <<~MayPair(s, "rename", r.name, r.dest), "AUTH_MODIFY">>,
        <<checkLockdown(r.name), "AUTH_DELETE">>,
        Refused(r.name) >>)]

checkAlias(s, r) ==
    [arg |-> <<>>, status |-> FirstError(<<
        <<isChangePasswordService(s), "AUTH_INSUFFICIENT">>,
        <<~MayPair(s, "alias", r.name, r.dest), "AUTH_ADD">>,
        Refused(r.name) >>)]

\* chpassPrincipal and chpassPrincipal3: the argument is the policy's copy
\* and whether the minimum life is bypassed.
checkChpass(s, r) ==
    LET policy == PolicyOf(r.name)
        copy == GetPolicy(policy)
        bypass == s.client # r.name /\ May(s, "modify", r.name)
    IN  [arg |-> <<copy, bypass>>,
         status |-> FirstError(<<
            <<~May(s, "changepw", r.name), "AUTH_CHANGEPW">>,
            <<checkLockdown(r.name), "AUTH_CHANGEPW">>,
            Fails(checkSelfKeyChange(s, r.name)),
            <<isChangePasswordService(s) /\ s.client # r.name, "AUTH_CHANGEPW">>,
            <<~Known(r.name), "UNK_PRINC">>,
            <<Missing(policy), "UNK_POLICY">>,
            Fails(CheckPasswordPolicy(db, r.name, r.password, now, copy, bypass)),
            Fails(checkPasswordQuality(r.password, policy)),
            Refused(r.name) >>)]

\* chrandPrincipal and chrandPrincipal3 run no lockdown check and no hooks.
checkChrand(s, r) ==
    [arg |-> <<>>, status |-> FirstError(<<
        <<~May(s, "randkey", r.name), "AUTH_CHANGEPW">>,
        <<isChangePasswordService(s) /\ s.client # r.name, "AUTH_CHANGEPW">>,
        Fails(checkSelfKeyChange(s, r.name)) >>)]

\* setkeyPrincipal, setkeyPrincipal3 and setkeyPrincipal4.
checkSetkey(s, r) ==
    [arg |-> <<>>, status |-> FirstError(<<
        <<isChangePasswordService(s), "AUTH_SETKEY">>,
        <<~May(s, "setkey", r.name), "AUTH_SETKEY">>,
        <<checkLockdown(r.name), "AUTH_SETKEY">>,
        Fails(checkSelfKeyChange(s, r.name)) >>)]

checkPurge(s, r) ==
    [arg |-> <<>>, status |-> FirstError(<<
        <<~May(s, "purge", r.name), "AUTH_MODIFY">>,
        <<isChangePasswordService(s), "AUTH_MODIFY">> >>)]

checkSetString(s, r) ==
    [arg |-> <<>>, status |-> FirstError(<<
        <<isChangePasswordService(s), "AUTH_MODIFY">>,
        <<~May(s, "setstring", r.name), "AUTH_MODIFY">> >>)]

-----------------------------------------------------------------------------
(* Policies. *)

\* createPolicy, and modifyPolicy with its read of the stored policy: the
\* argument is the policy to write.
checkPolicyChange(s, r) ==
    LET create == r.op = "cpolicy"
        current == GetPolicy(<<r.policy>>)
        \* applyPolicy
        merged == IF create \/ current = <<>> THEN r.record
                  ELSE [f \in DOMAIN current[1] |-> IF f \in r.mask THEN r.record[f] ELSE current[1][f]]
        \* validateModifiedPolicy
        valid == /\ "minLife" \in r.mask => merged.minLife >= 0
                 /\ "maxLife" \in r.mask => merged.maxLife >= 0
                 /\ merged.maxLife # 0 => merged.minLife <= merged.maxLife
                 /\ "minLength" \in r.mask => merged.minLength >= 1
                 /\ "minClasses" \in r.mask => merged.minClasses \in 1..5
                 /\ "history" \in r.mask => merged.history >= 1
    IN  [arg |-> merged, status |-> FirstError(<<
            <<isChangePasswordService(s), IF create THEN "AUTH_ADD" ELSE "AUTH_MODIFY">>,
            <<~create /\ "policy" \in r.mask, "FAILURE">>,     \* validPolicyMask
            <<~authorize(mode, AuthRequest(s, r.op, <<>>, <<>>, <<r.policy>>, <<>>)), "AUTH_ADD">>,
            <<~create /\ current = <<>>, "UNK_POLICY">>,
            <<~create /\ ~valid, "FAILURE">> >>)]

checkDeletePolicy(s, r) ==
    [arg |-> <<>>, status |-> FirstError(<<
        <<isChangePasswordService(s), "AUTH_DELETE">>,
        <<~authorize(mode, AuthRequest(s, "dpolicy", <<>>, <<>>, <<r.policy>>, <<>>)), "AUTH_DELETE">> >>)]

-----------------------------------------------------------------------------
(* Inquiries: they change nothing. *)

checkInquiry(s, r) ==
    [arg |-> <<>>, status |->
        CASE r.op = "gpolicy" -> FirstError(<<
                <<isChangePasswordService(s) /\ PolicyOf(s.client) # <<r.policy>>, "AUTH_GET">>,
                <<~authorize(mode, AuthRequest(s, "gpolicy", <<>>, <<>>, <<r.policy>>, PolicyOf(s.client))), "AUTH_GET">>,
                <<Missing(<<r.policy>>), "UNK_POLICY">> >>)
          [] r.op \in {"list", "lpolicy"} -> FirstError(<<
                <<isChangePasswordService(s), "AUTH_LIST">>,
                <<~May(s, r.op, <<>>), "AUTH_LIST">> >>)
          [] r.op = "getprivs" -> "ok"
          [] r.op = "getstrings" -> FirstError(<<
                <<isChangePasswordService(s), "AUTH_GET">>,
                <<~May(s, "getstrings", r.name), "AUTH_GET">>,
                <<~Known(r.name), "UNK_PRINC">> >>)
          [] r.op = "extract" -> FirstError(<<
                <<isChangePasswordService(s), "AUTH_EXTRACT">>,
                <<~May(s, "extract", r.name), "AUTH_EXTRACT">>,
                <<~Known(r.name), "UNK_PRINC">>,
                <<checkLockdown(r.name), "AUTH_EXTRACT">> >>)]

\* getPrincipal: Lookup finds the record under db.mu; its maps, the string
\* attributes at address arg among them, are copied in the next step.
checkGet(s, r) ==
    [arg |-> IF Known(r.name) THEN db.principals[r.name].strAt ELSE 0, status |-> FirstError(<<
        <<(~isChangePasswordService(s) \/ s.client # r.name) /\ ~May(s, "get", r.name), "AUTH_GET">>,
        <<~Known(r.name), "UNK_PRINC">> >>)]

-----------------------------------------------------------------------------
(* kpasswd: HandleMessage after the AP-REQ has been verified and the       *)
(* request decoded.  There is no lockdown check, quality module or hook.   *)

checkKpasswd(s, r) ==
    LET policy == PolicyOf(r.name)
        set == r.version = "set"
        authorized == s.client = r.name \/ aclAllows(s.client, IF set THEN "setpw" ELSE "changepw", r.name)
    IN  [arg |-> <<GetPolicy(policy), set /\ s.client # r.name>>,
         status |-> FirstError(<<
            <<~s.initial /\ s.client = r.name, "INITIAL_NEEDED">>,
            <<~authorized, "ACCESS_DENIED">>,
            <<~Known(r.name), "HARD_ERROR">>,
            <<Missing(policy), "HARD_ERROR">> >>)]

-----------------------------------------------------------------------------
(* The two steps of a request. *)

Inquiries == {"gpolicy", "list", "lpolicy", "getprivs", "getstrings", "extract"}

dispatch(s, r) ==
    CASE r.op = "create"               -> checkCreate(s, r)
      [] r.op = "delete"               -> checkDelete(s, r)
      [] r.op = "modify"               -> checkModify(s, r)
      [] r.op = "rename"               -> checkRename(s, r)
      [] r.op = "alias"                -> checkAlias(s, r)
      [] r.op = "chpass"               -> checkChpass(s, r)
      [] r.op = "chrand"               -> checkChrand(s, r)
      [] r.op = "setkey"               -> checkSetkey(s, r)
      [] r.op = "purge"                -> checkPurge(s, r)
      [] r.op = "setstring"            -> checkSetString(s, r)
      [] r.op \in {"cpolicy", "mpolicy"} -> checkPolicyChange(s, r)
      [] r.op = "dpolicy"              -> checkDeletePolicy(s, r)
      [] r.op = "get"                  -> checkGet(s, r)
      [] r.op = "kpasswd"              -> checkKpasswd(s, r)
      [] OTHER                         -> checkInquiry(s, r)

\* The mutating call of each handler: [err, db].
mutate(r, arg) ==
    CASE r.op = "create"    -> createPrincipal(db, r.name, r.password, r.tuples, arg, now)
      [] r.op = "delete"    -> DeletePrincipal(db, r.name)
      [] r.op = "modify"    -> UpdatePrincipal(db, arg)
      [] r.op = "rename"    -> RenamePrincipal(db, r.name, r.dest)
      [] r.op = "alias"     -> AddAlias(db, r.name, r.dest)
      [] r.op = "chpass"    -> changePassword(db, r.name, r.password, now, arg[1], arg[2], r.keepOld, r.tuples)
      [] r.op = "kpasswd"   -> changePassword(db, r.name, r.password, now, arg[1], arg[2], FALSE, <<>>)
      [] r.op = "chrand"    -> RandomizeKeys(db, r.name, r.keepOld, r.tuples)
      [] r.op = "setkey"    -> SetKeys(db, r.name, r.keys, r.keepOld)
      [] r.op = "purge"     -> PurgeKeys(db, r.name, r.keep)
      [] r.op = "setstring" -> SetString(db, r.name, r.key, r.set)
      [] r.op = "cpolicy"   -> CreatePolicy(db, r.policy, arg)
      [] r.op = "mpolicy"   -> UpdatePolicy(db, r.policy, arg)
      [] r.op = "dpolicy"   -> DeletePolicy(db, r.policy)
      [] r.op = "get"       -> Failed(db, "ok")

Done(status) == [pc |-> "idle", status |-> status]

Serving(c) == call[c].pc = "serving"

Init ==
    /\ db = InitDatabase
    /\ now = 1
    /\ mode \in Modes
    /\ sess \in Sessions
    /\ call = [c \in Conns |-> Done("ok")]
    /\ ops = 0

Checked(r, d) ==
    IF d.status # "ok" \/ r.op \in Inquiries THEN Done(d.status)
    ELSE [pc |-> "serving", req |-> r, arg |-> d.arg]

\* A request arrives: the checks and the reads of its handler.
Receive(c, r) ==
    /\ ops < MaxOps
    /\ call[c].pc = "idle"
    /\ (r.op = "kpasswd") => sess[c].service = "changepw"
    /\ call' = [call EXCEPT ![c] = Checked(r, dispatch(sess[c], r))]
    /\ ops' = ops + 1
    /\ UNCHANGED <<db, now, mode, sess>>

Finish(c, result) == db' = result.db /\ call' = [call EXCEPT ![c] = Done(result.err)]

\* The handler's mutating call, and the reply.
Commit(c) ==
    /\ Serving(c)
    /\ Finish(c, mutate(call[c].req, call[c].arg))
    /\ UNCHANGED <<now, mode, sess, ops>>

Tick ==
    /\ now < MaxNow
    /\ now' = now + 1
    /\ UNCHANGED <<db, mode, sess, call, ops>>

Next ==
    \/ \E c \in Conns : (\E r \in Requests : Receive(c, r)) \/ Commit(c)
    \/ Tick

Spec == Init /\ [][Next]_vars

-----------------------------------------------------------------------------
(* Properties. *)

\* Every record is stored under its own name, and every connection is idle or
\* serves a request.
TypeOK ==
    /\ \A n \in DOMAIN db.principals : db.principals[n].name = n
    /\ now \in 1..MaxNow /\ ops \in 0..MaxOps
    /\ \A c \in Conns : call[c].pc \in {"idle", "serving"}

\* Replaying the update log gives exactly the principals of the master, so a
\* replica that is up to date has every change of every handler
\* (recordUpdateLocked is called by each mutating method, twice by a rename).
LogComplete == db.mirror = db.principals

\* No key is newer than its principal's version number, whatever mix of
\* password changes, explicit versions (SetKeys), purges and stale
\* modify_principal writes happened: a new key never reuses a live version.
\* And while a principal has a password, it has a key (PurgeKeys); only SetKeys
\* with an empty list leaves it without one.
KvnoCoversKeys ==
    /\ TypeOK
    /\ \A n \in DOMAIN db.principals :
          LET rec == db.principals[n]
          IN  /\ \A e \in DOMAIN rec.keys : rec.keys[e].kvno \in 1..rec.kvno
              /\ rec.past # <<>> => DOMAIN rec.keys # {}

\* The last passwords of a principal under a policy with a history are
\* pairwise different, also when password changes of several connections
\* overlap: the check is repeated under db.mu (changePasswordWithTuples).
NoReuse ==
    \A n \in DOMAIN db.principals :
        LET past == db.principals[n].past
        IN  \A i, j \in DOMAIN past : past[i] = past[j] => i = j

\* No step but the commit of a modify or a rename leaves another principal with
\* a policy that does not exist: a create whose policy is deleted between its
\* GetPolicy and its commit fails, and a policy in use is not deleted.
PolicyKept ==
    [][(\A c \in Conns : Serving(c) /\ call'[c].pc = "idle" => call[c].req.op \notin {"modify", "rename"})
        => Dangling(db') \subseteq Dangling(db)]_vars

\* A connection that authenticated to kadmin/changepw and speaks kadm5 changes
\* nothing but its own principal (isChangePasswordService in each handler).
Confined ==
    [][\A c \in Conns :
        (/\ Serving(c) /\ call'[c].pc = "idle"
         /\ isChangePasswordService(sess[c]) /\ call[c].req.op # "kpasswd")
        => /\ db'.policies = db.policies /\ db'.aliases = db.aliases
           /\ Without(db'.principals, sess[c].client) = Without(db.principals, sess[c].client)]_vars

\* The database is "concurrency-safe": no map of string attributes is
\* written while a Lookup copies it (the outcome of such an overlap is
\* undefined; the Go runtime may end the process).
LookupIsolated ==
    [][\A c, d \in Conns :
        ~(/\ Serving(c) /\ call[c].req.op = "get"
          /\ Serving(d) /\ call[d].req.op = "setstring" /\ call'[d].pc = "idle" /\ call'[d].status = "ok"
          /\ db.principals[call[d].req.name].strAt = call[c].arg)]_vars
=============================================================================
