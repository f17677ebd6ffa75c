------------------------------ MODULE Database ------------------------------
(***************************************************************************)
(* The principal database of krb5/kdb (type Database).                     *)
(*                                                                         *)
(* A database is a record of three maps (principals, aliases, policies),   *)
(* the number of string maps allocated, and mirror: the principals that    *)
(* replaying the update log gives.  Every operation that changes a         *)
(* principal appends to the log while it holds db.mu (recordUpdateLocked), *)
(* and a replica applies exactly those entries with ApplyPrincipal.  Each  *)
(* method takes db.mu for all of its body, so it is one operator from a    *)
(* database to [err, db]; the callers (Kadm5) decide which calls are       *)
(* separate steps.                                                         *)
(*                                                                         *)
(* A long-term key is [kvno, mat, salt]: mat names the password and the    *)
(* salt it was derived with, or a random key.  past is a history variable  *)
(* of the record, not a field of the code: the key sets (without version   *)
(* numbers) that a policy with a password history still has to refuse.     *)
(***************************************************************************)
EXTENDS Integers, Sequences, FiniteSets, Functions

CONSTANTS
    Enctypes,       \* the supported encryption types, numbers
    Preferred,      \* the enctype tried first for the kadmin/history key
    Length,         \* len(password), a function of the password
    Classes,        \* passwordClasses(password), a function of the password
    HistoryName     \* the principal kadmin/history

\* Some encryption type is supported.
ASSUME EnctypesAssumption == Enctypes # {}

-----------------------------------------------------------------------------
(* Maps, and the results of an operation. *)

Update(f, k, v) == [x \in DOMAIN f \cup {k} |-> IF x = k THEN v ELSE f[x]]

Without(f, k) == Restrict(f, DOMAIN f \ {k})

SetMax(S) == CHOOSE x \in S : \A y \in S : x >= y

Failed(db, err) == [err |-> err, db |-> db]

EmptyDatabase == [principals |-> <<>>, aliases |-> <<>>, policies |-> <<>>, mirror |-> <<>>, maps |-> 0]

\* A new map for the string attributes of a record: the record holds the
\* address strAt of the map, and copyRecord gives the copy a map of its own.
NewMap(db) == [db EXCEPT !.maps = @ + 1]

\* ApplyPrincipal on a replica: an entry of the log installs or removes one record.
ApplyPrincipal(principals, rec, deleted) ==
    IF deleted THEN Without(principals, rec.name) ELSE Update(principals, rec.name, rec)

recordUpdate(db, rec, deleted) == [db EXCEPT !.mirror = ApplyPrincipal(@, rec, deleted)]

Store(db, rec) == recordUpdate([db EXCEPT !.principals = Update(@, rec.name, rec)], rec, FALSE)

Stored(db, rec) == [err |-> "ok", db |-> Store(db, rec)]

\* A database has these fields, and every record in it is under its own name.
WellFormed(db) ==
    /\ db = [f \in {"principals", "aliases", "policies", "mirror", "maps"} |-> db[f]]
    /\ \A n \in DOMAIN db.principals :
          "name" \in DOMAIN db.principals[n] /\ db.principals[n].name = n

\* The principals whose policy does not exist.
Dangling(d) == {n \in DOMAIN d.principals :
                   d.principals[n].policy # <<>> /\ d.principals[n].policy[1] \notin DOMAIN d.policies}

-----------------------------------------------------------------------------
(* Keys. *)

NoSalt == <<>>

saltForPrincipal(name, type) ==
    CASE type = "normal"    -> <<"realm", name>>
      [] type = "norealm"   -> <<name>>
      [] type = "onlyrealm" -> <<"realm">>

SaltTypes == {"normal", "norealm", "onlyrealm"}

\* A list of key/salt tuples is usable when no enctype has two salts
\* (ErrBadKeySalts) and every enctype and salt type is supported.
tupleError(tuples) ==
    IF \E t, u \in Range(tuples) : t.e = u.e /\ t.s # u.s THEN "BAD_KEYSALTS"
    ELSE IF \E t \in Range(tuples) : t.e \notin Enctypes \/ t.s \notin SaltTypes THEN "FAILURE"
    ELSE "ok"

normalizeKeySaltTuples(tuples) ==
    IF tuples = <<>> THEN [e \in Enctypes |-> "normal"]
    ELSE [e \in {tuples[i].e : i \in DOMAIN tuples} |->
             (CHOOSE t \in Range(tuples) : t.e = e).s]

Key(kvno, secret, used, salt) == [kvno |-> kvno, mat |-> <<secret, used>>, salt |-> salt]

deriveRecordWithTuples(name, password, kvno, tuples) ==
    LET types == normalizeKeySaltTuples(tuples)
    IN  [e \in DOMAIN types |->
            LET salt == saltForPrincipal(name, types[e]) IN Key(kvno, password, salt, salt)]

\* The current enctypes with their current salts; a key without a salt is
\* derived with the normal one and stays without.
deriveKeys(name, password, current, kvno) ==
    [e \in DOMAIN current |->
        LET salt == current[e].salt
        IN  Key(kvno, password, IF salt = NoSalt THEN saltForPrincipal(name, "normal") ELSE salt, salt)]

randomKeys(name, current, kvno, tuples) ==
    IF tuples = <<>>
    THEN [e \in DOMAIN current |-> Key(kvno, "random", <<kvno>>, current[e].salt)]
    ELSE LET types == normalizeKeySaltTuples(tuples)
         IN  [e \in DOMAIN types |-> Key(kvno, "random", <<kvno>>, saltForPrincipal(name, types[e]))]

Secrets(keys) == [e \in DOMAIN keys |-> <<keys[e].mat, keys[e].salt>>]

passwordMatchesKeys(candidate, stored) ==
    /\ DOMAIN candidate # {}
    /\ Secrets(candidate) = Secrets(stored)

\* past lists different key sets: first that of keys, then some of hist.
Lists(past, keys, hist) ==
    /\ \A i, j \in DOMAIN past : past[i] = past[j] => i = j
    /\ past # <<>> =>
          /\ past[1] = Secrets(keys)
          /\ Len(past) <= Len(hist) + 1
          /\ \A i \in 1..Len(past) - 1 : past[i + 1] = Secrets(hist[i])

\* The history of a record agrees with its keys.  A record with a password has
\* keys, all of one version.
PastSound(rec) ==
    /\ rec.past \in Seq(Range(rec.past)) /\ rec.hist \in Seq(Range(rec.hist))
    /\ Lists(rec.past, rec.keys, rec.hist)
    /\ rec.past # <<>> => DOMAIN rec.keys # {} /\ \A e \in DOMAIN rec.keys : rec.keys[e].kvno = rec.kvno

\* A name that may be absent: <<>>, or <<name>>.
Optional(x) == x = <<>> \/ x = <<x[1]>>

RecordSound(rec) ==
    /\ {"keys", "kvno", "hist", "past", "policy"} \subseteq DOMAIN rec
    /\ Optional(rec.policy)
    /\ rec.kvno \in Nat
    /\ \A e \in DOMAIN rec.keys : rec.keys[e].kvno \in 1..rec.kvno
    /\ PastSound(rec)

IsPolicy(p) == "history" \in DOMAIN p /\ p.history \in Int

-----------------------------------------------------------------------------
(* Principals. *)

\* now is the clock; policy is <<>> or <<the policy's name>>.
createPrincipal(db, name, password, tuples, policy, now) ==
    LET p == IF policy = <<>> \/ policy[1] \notin DOMAIN db.policies
             THEN [maxLife |-> 0] ELSE db.policies[policy[1]]
        keys == deriveRecordWithTuples(name, password, 1, tuples)
    IN  IF tupleError(tuples) # "ok" THEN Failed(db, tupleError(tuples))
        ELSE IF name \in DOMAIN db.principals THEN Failed(db, "DUP")
        ELSE IF policy # <<>> /\ policy[1] \notin DOMAIN db.policies THEN Failed(db, "UNK_POLICY")
        ELSE Stored(NewMap(db),
                [name |-> name, strAt |-> db.maps, keys |-> keys, kvno |-> 1, hist |-> <<>>, histKvno |-> 0,
                 past |-> <<Secrets(keys)>>, lastPwd |-> now, policy |-> policy, lockdown |-> FALSE,
                 maxLife |-> p.maxLife, strings |-> {},
                 pwExp |-> IF p.maxLife > 0 THEN now + p.maxLife ELSE 0])

DeletePrincipal(db, name) ==
    IF name \notin DOMAIN db.principals THEN Failed(db, "UNK_PRINC")
    ELSE [err |-> "ok",
          db |-> recordUpdate([db EXCEPT !.principals = Without(@, name)], db.principals[name], TRUE)]

\* UpdatePrincipal writes the caller's whole record back, keys and version
\* included; only a zero LastPasswordChange is taken from the current one.
UpdatePrincipal(db, rec) ==
    IF rec.name \notin DOMAIN db.principals THEN Failed(db, "UNK_PRINC")
    ELSE Stored(NewMap(db), [rec EXCEPT !.strAt = db.maps,
                                        !.lastPwd = IF @ = 0 THEN db.principals[rec.name].lastPwd ELSE @])

\* Mutant: only the new name is logged.
RenamePrincipalOnce(db, src, dest) ==
    IF src \notin DOMAIN db.principals THEN Failed(db, "UNK_PRINC")
    ELSE IF dest \in DOMAIN db.principals THEN Failed(db, "DUP")
    ELSE Stored([db EXCEPT !.principals = Without(@, src)], [db.principals[src] EXCEPT !.name = dest])

RenamePrincipal(db, src, dest) ==
    IF src \notin DOMAIN db.principals THEN Failed(db, "UNK_PRINC")
    ELSE IF dest \in DOMAIN db.principals THEN Failed(db, "DUP")
    ELSE LET rec == db.principals[src]
             gone == recordUpdate([db EXCEPT !.principals = Without(@, src)], rec, TRUE)
         IN  Stored(gone, [rec EXCEPT !.name = dest])

\* The map of the stored record is changed in place.
SetString(db, name, key, set) ==
    IF name \notin DOMAIN db.principals THEN Failed(db, "UNK_PRINC")
    ELSE Stored(db, [db.principals[name] EXCEPT !.strings = IF set THEN @ \cup {key} ELSE @ \ {key}])

AddAlias(db, alias, target) ==
    IF target \notin DOMAIN db.principals THEN Failed(db, "FAILURE")
    ELSE IF alias = target \/ alias \in DOMAIN db.principals \cup DOMAIN db.aliases THEN Failed(db, "DUP")
    ELSE [err |-> "ok", db |-> [db EXCEPT !.aliases = Update(@, alias, target)]]

-----------------------------------------------------------------------------
(* Passwords and keys. *)

\* The version of the kadmin/history key, 0 when there is none: the key of
\* the preferred enctype (AES-256), else the one of the lowest enctype.
historyKey(db) ==
    IF HistoryName \notin DOMAIN db.principals \/ db.principals[HistoryName].keys = <<>> THEN 0
    ELSE LET keys == db.principals[HistoryName].keys
             e == IF Preferred \in DOMAIN keys THEN Preferred
                  ELSE CHOOSE x \in DOMAIN keys : \A y \in DOMAIN keys : x <= y
         IN  keys[e].kvno

\* The length, class and minimum-life checks of a policy on a new password.
policyError(rec, password, now, policy, bypassMinLife) ==
    IF policy.minLength > 0 /\ Length[password] < policy.minLength THEN "PASS_TOOSHORT"
    ELSE IF policy.minClasses > 0 /\ Classes[password] < policy.minClasses THEN "PASS_CLASS"
    ELSE IF /\ ~bypassMinLife /\ policy.minLife > 0 /\ rec.lastPwd # 0
            /\ now < rec.lastPwd + policy.minLife THEN "PASS_TOOSOON"
    ELSE "ok"

\* The keys a password gives: the requested tuples, or the default set, or
\* the principal's own enctypes and salts when their number differs.
passwordKeys(rec, password, tuples) ==
    LET next == deriveRecordWithTuples(rec.name, password, rec.kvno + 1, tuples)
    IN  IF tuples = <<>> /\ DOMAIN rec.keys # {} /\ Cardinality(DOMAIN rec.keys) # Cardinality(DOMAIN next)
        THEN deriveKeys(rec.name, password, rec.keys, rec.kvno + 1)
        ELSE next

Take(s, n) == SubSeq(s, 1, IF n < Len(s) THEN n ELSE Len(s))

ReusedNow(keys, rec, hist, limit) == passwordMatchesKeys(keys, rec.keys)     \* mutant: no history

Reused(keys, rec, hist, limit) ==
    \/ passwordMatchesKeys(keys, rec.keys)
    \/ \E i \in DOMAIN Take(hist, limit) : passwordMatchesKeys(keys, hist[i])

CheckPasswordPolicy(db, name, password, now, policy, bypassMinLife) ==
    IF name \notin DOMAIN db.principals THEN "UNK_PRINC"
    ELSE LET rec == db.principals[name]
             err == policyError(rec, password, now, policy[1], bypassMinLife)
         IN  IF policy = <<>> \/ err # "ok" THEN IF policy = <<>> THEN "ok" ELSE err
             ELSE IF /\ policy[1].history > 0
                     /\ Reused(passwordKeys(rec, password, <<>>), rec, rec.hist, policy[1].history - 1)
             THEN "PASS_REUSE" ELSE "ok"

\* policy is <<>> or <<a policy record>>, the caller's copy of it.
changePassword(db, name, password, now, policy, bypassMinLife, keepOld, tuples) ==
    IF name \notin DOMAIN db.principals THEN Failed(db, "UNK_PRINC")
    ELSE
    LET rec == db.principals[name]
        keys == passwordKeys(rec, password, tuples)
        fresh == [rec EXCEPT !.keys = keys, !.kvno = rec.kvno + 1, !.lastPwd = now]
        pol == policy[1]
        err == policyError(rec, password, now, pol, bypassMinLife)
        hkey == historyKey(db)
        hist == IF hkey # 0 /\ rec.histKvno \notin {0, hkey} THEN <<>> ELSE rec.hist
        limit == IF keepOld /\ pol.history < 2 THEN 1 ELSE pol.history - 1
        governed == pol.history > 0
    IN  IF tupleError(tuples) # "ok" THEN Failed(db, tupleError(tuples))
        ELSE IF policy = <<>> THEN Stored(db,
                [fresh EXCEPT !.hist = IF keepOld THEN <<rec.keys>> \o @ ELSE @,
                              !.past = <<Secrets(keys)>>])
        ELSE IF err # "ok" THEN Failed(db, err)
        ELSE IF governed /\ Reused(keys, rec, hist, limit) THEN Failed(db, "PASS_REUSE")
        ELSE Stored(db,
                [fresh EXCEPT
                    !.hist = IF governed THEN Take(<<rec.keys>> \o hist, limit) ELSE @,
                    !.histKvno = IF governed /\ hkey # 0 THEN hkey ELSE @,
                    !.past = IF governed
                             THEN Take(<<Secrets(keys)>> \o (IF hist = rec.hist THEN @ ELSE Take(@, 1)), pol.history)
                             ELSE <<Secrets(keys)>>,
                    !.pwExp = IF pol.maxLife > 0 THEN now + pol.maxLife ELSE 0])

RandomizeKeys(db, name, keepOld, tuples) ==
    IF tupleError(tuples) # "ok" THEN Failed(db, tupleError(tuples))
    ELSE IF name \notin DOMAIN db.principals THEN Failed(db, "UNK_PRINC")
    ELSE LET rec == db.principals[name]
             new == randomKeys(name, rec.keys, rec.kvno + 1, tuples)
         IN  Stored(db, [rec EXCEPT !.kvno = @ + 1, !.past = <<>>,
                    !.keys = IF keepOld THEN [e \in DOMAIN new \cup DOMAIN @ |->
                                                  IF e \in DOMAIN new THEN new[e] ELSE @[e]]
                             ELSE new])

PurgeKeys(db, name, keepKVNO) ==
    IF name \notin DOMAIN db.principals THEN Failed(db, "UNK_PRINC")
    ELSE LET rec == db.principals[name]
             keep == IF keepKVNO > 0 THEN keepKVNO
                     ELSE SetMax({0} \cup {rec.keys[e].kvno : e \in DOMAIN rec.keys})
             next == Restrict(rec.keys, {e \in DOMAIN rec.keys : rec.keys[e].kvno >= keep})
         IN  IF DOMAIN next = {} THEN Failed(db, "FAILURE")
             ELSE Stored(db, [rec EXCEPT !.keys = next])

\* SetKeys raises the principal's version to the highest of the new keys.
RaisedNot(kvno, versions) == kvno     \* mutant
Raised(kvno, versions) == SetMax({kvno} \cup versions)

\* Version 0 asks for the next version.
Version(rec, k) == IF k.kvno = 0 THEN rec.kvno + 1 ELSE k.kvno

\* keys is a sequence of [e, kvno, mat, salt]; a later key of the same
\* enctype wins.
SetKeys(db, name, keys, keepOld) ==
    IF name \notin DOMAIN db.principals THEN Failed(db, "UNK_PRINC")
    ELSE LET rec == db.principals[name]
             last(e) == CHOOSE i \in DOMAIN keys :
                            keys[i].e = e /\ \A j \in DOMAIN keys : keys[j].e = e => j <= i
             new == [e \in {k.e : k \in Range(keys)} |->
                        LET k == keys[last(e)] IN [kvno |-> Version(rec, k), mat |-> k.mat, salt |-> k.salt]]
         IN  Stored(db, [rec EXCEPT !.past = <<>>,
                !.kvno = Raised(@, {Version(rec, k) : k \in Range(keys)}),
                !.keys = [e \in DOMAIN new \cup (IF keepOld THEN DOMAIN @ ELSE {}) |->
                              IF e \in DOMAIN new THEN new[e] ELSE @[e]]])

-----------------------------------------------------------------------------
(* Policies. *)

CreatePolicy(db, name, policy) ==
    IF name \in DOMAIN db.policies THEN Failed(db, "DUP")
    ELSE [err |-> "ok", db |-> [db EXCEPT !.policies = Update(@, name, policy)]]

UpdatePolicy(db, name, policy) ==
    IF name \notin DOMAIN db.policies THEN Failed(db, "UNK_POLICY")
    ELSE [err |-> "ok", db |-> [db EXCEPT !.policies = Update(@, name, policy)]]

\* Mutant: the references are not looked for.
DeletePolicyReferenced(db, name) ==
    IF name \notin DOMAIN db.policies THEN Failed(db, "UNK_POLICY")
    ELSE [err |-> "ok", db |-> [db EXCEPT !.policies = Without(@, name)]]

DeletePolicy(db, name) ==
    IF name \notin DOMAIN db.policies THEN Failed(db, "UNK_POLICY")
    ELSE IF \E n \in DOMAIN db.principals : db.principals[n].policy = <<name>> THEN Failed(db, "POLICY_REF")
    ELSE [err |-> "ok", db |-> [db EXCEPT !.policies = Without(@, name)]]
=============================================================================
