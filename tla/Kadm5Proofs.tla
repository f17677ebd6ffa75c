---------------------------- MODULE Kadm5Proofs ----------------------------
(***************************************************************************)
(* The administration servers for every database, access control list, set *)
(* of modules, set of requests and number of connections: the update log   *)
(* is complete, no key is newer than its principal, no password of the     *)
(* history is used again, no policy in use disappears, and a               *)
(* kadmin/changepw session is confined to its own principal.               *)
(***************************************************************************)
EXTENDS Kadm5, DatabaseProofs

-----------------------------------------------------------------------------
(* The handlers.                                                           *)

\* The procedures that have a mutating call
Mutating == {"create", "delete", "modify", "rename", "alias", "chpass", "kpasswd", "chrand",
             "setkey", "purge", "setstring", "cpolicy", "mpolicy", "dpolicy", "get"}

\* What a handler passes to its mutating call: a modify the record that it has
\* read, a password change a policy's copy, a policy change the policy.
ArgSound(r, arg) ==
    /\ r.op = "modify" => "name" \in DOMAIN arg /\ RecordSound(arg)
    /\ r.op = "create" => Optional(arg)
    /\ r.op \in {"chpass", "kpasswd"} => arg[1] = <<>> \/ IsPolicy(arg[1][1])
    /\ r.op \in {"cpolicy", "mpolicy"} => IsPolicy(arg)

\* A request in service has a mutating call.
CallSound(c) ==
    Serving(c) =>
        /\ call[c].req \in Requests
        /\ call[c].req.op \in Mutating
        /\ ArgSound(call[c].req, call[c].arg)

\* The mutating call of every handler keeps the log complete and the records
\* sound; but for modify and rename it leaves no policy undefined.
LEMMA MutateSound ==
    ASSUME Sound(db), Records(db), NEW r \in Requests, NEW arg, r.op \in Mutating, ArgSound(r, arg)
    PROVE  /\ Sound(mutate(r, arg).db) /\ Records(mutate(r, arg).db)
           /\ r.op \notin {"modify", "rename"} => Dangling(mutate(r, arg).db) \subseteq Dangling(db)
<1>1. CASE r.op = "create"
    <2>1. r.tuples \in Seq(Range(r.tuples)) /\ Optional(arg)
        BY <1>1, ArgumentAssumption, Zenon DEF ArgSound
    <2> QED BY <1>1, <2>1, CreateSound DEF mutate
<1>2. CASE r.op = "delete"
    BY <1>2, DeleteSound DEF mutate
<1>3. CASE r.op = "modify"
    <2>1. "name" \in DOMAIN arg /\ RecordSound(arg)
        BY <1>3 DEF ArgSound
    <2> QED BY <1>3, <2>1, UpdateSound DEF mutate
<1>4. CASE r.op = "rename"
    BY <1>4, RenameSound DEF mutate
<1>5. CASE r.op = "alias"
    BY <1>5, AliasSound DEF mutate
<1>6. CASE r.op = "chpass"
    <2>1. r.tuples \in Seq(Range(r.tuples)) /\ (arg[1] = <<>> \/ IsPolicy(arg[1][1]))
        BY <1>6, ArgumentAssumption, Zenon DEF ArgSound
    <2>2. Touches(db, r.name, mutate(r, arg))
        BY <1>6, <2>1, ChangeTouches DEF mutate
    <2> QED BY <2>2, TouchSound
<1>7. CASE r.op = "kpasswd"
    <2>1. <<>> \in Seq(Range(<<>>)) /\ (arg[1] = <<>> \/ IsPolicy(arg[1][1]))
        BY <1>7 DEF ArgSound
    <2>2. mutate(r, arg) = changePassword(db, r.name, r.password, now, arg[1], arg[2], FALSE, <<>>)
        BY <1>7, Zenon DEF mutate
    <2>3. Touches(db, r.name, mutate(r, arg))
        BY <2>1, <2>2, ChangeTouches, Zenon
    <2> QED BY <2>3, TouchSound
<1>8. CASE r.op = "chrand"
    <2>1. Touches(db, r.name, mutate(r, arg))
        BY <1>8, RandomizeTouches DEF mutate
    <2> QED BY <2>1, TouchSound
<1>9. CASE r.op = "setkey"
    <2>1. r.keys \in Seq(Range(r.keys)) /\ \A k \in Range(r.keys) : k.kvno \in Nat
        BY <1>9, ArgumentAssumption, Zenon
    <2>2. Touches(db, r.name, mutate(r, arg))
        BY <1>9, <2>1, SetKeysTouches DEF mutate
    <2> QED BY <2>2, TouchSound
<1>10. CASE r.op = "purge"
    <2>1. Touches(db, r.name, mutate(r, arg))
        BY <1>10, PurgeTouches DEF mutate
    <2> QED BY <2>1, TouchSound
<1>11. CASE r.op = "setstring"
    <2>1. Touches(db, r.name, mutate(r, arg))
        BY <1>11, SetStringTouches DEF mutate
    <2> QED BY <2>1, TouchSound
<1>12. CASE r.op \in {"cpolicy", "mpolicy"}
    <2>1. IsPolicy(arg)
        BY <1>12 DEF ArgSound
    <2>2. mutate(r, arg) \in {CreatePolicy(db, r.policy, arg), UpdatePolicy(db, r.policy, arg)}
        <3>1. CASE r.op = "cpolicy"
            BY <3>1 DEF mutate
        <3>2. CASE r.op = "mpolicy"
            BY <3>2 DEF mutate
        <3> QED BY <1>12, <3>1, <3>2
    <2> QED BY <2>1, <2>2, WriteSound
<1>13. CASE r.op = "dpolicy"
    BY <1>13, DeletePolicySound DEF mutate
<1>14. CASE r.op = "get"
    <2>1. mutate(r, arg) = Failed(db, "ok")
        BY <1>14 DEF mutate
    <2> QED BY <2>1, FailedSound
<1> QED
    BY <1>1, <1>2, <1>3, <1>4, <1>5, <1>6, <1>7, <1>8, <1>9, <1>10, <1>11, <1>12, <1>13, <1>14
    DEF Mutating

-----------------------------------------------------------------------------
(* The checks.                                                             *)

\* A nonempty set of naturals has a least element.
LEMMA MinIsElement ==
    ASSUME NEW S, S \subseteq Nat, S # {}
    PROVE  Min(S) \in S
BY LeastExists, Zenon DEF Min

\* A nonempty set of naturals with a bound has a largest element.
LEMMA MaxIsElement ==
    ASSUME NEW n \in Nat, NEW S, S \subseteq 1..n, S # {}
    PROVE  Max(S) \in S
<1>1. S \subseteq Nat /\ \A x \in S : x <= n
    OBVIOUS
<1>2. SetMax(S) \in S /\ \A y \in S : y <= SetMax(S)
    BY <1>1, SetMaxIsLargest, Zenon
<1>3. \A y \in S : SetMax(S) >= y
    BY <1>1, <1>2
<1> QED BY <1>2, <1>3, Zenon DEF Max

\* Checks that all come with an error succeed only if no condition holds.
LEMMA NoError ==
    ASSUME NEW n \in Nat, NEW checks, DOMAIN checks = 1..n,
           \A i \in 1..n : checks[i][1] => checks[i][2] # "ok",
           FirstError(checks) = "ok"
    PROVE  \A i \in 1..n : ~checks[i][1]
<1> DEFINE bad == {i \in DOMAIN checks : checks[i][1]}
<1>1. ASSUME bad # {} PROVE FALSE
    <2>1. Min(bad) \in bad
        BY <1>1, MinIsElement
    <2>2. FirstError(checks) = checks[Min(bad)][2]
        BY <1>1 DEF FirstError
    <2> HIDE DEF bad
    <2>3. Min(bad) \in 1..n /\ checks[Min(bad)][1]
        BY <2>1 DEF bad
    <2> QED BY <2>2, <2>3
<1> QED BY <1>1

\* The first check decides when its condition holds.
LEMMA FirstRefuses ==
    ASSUME NEW checks, 1 \in DOMAIN checks, DOMAIN checks \subseteq Nat \ {0},
           checks[1][1], checks[1][2] # "ok"
    PROVE  FirstError(checks) # "ok"
<1> DEFINE bad == {i \in DOMAIN checks : checks[i][1]}
<1>1. 1 \in bad /\ \A i \in bad : 1 <= i
    OBVIOUS
<1>2. Min(bad) = 1
    <2> HIDE DEF bad
    <2>1. \A x \in bad : (\A y \in bad : x <= y) => x = 1
        <3>1. \A x \in bad : x \in Nat
            BY DEF bad
        <3> QED BY <1>1, <3>1
    <2> QED BY <1>1, <2>1 DEF Min
<1> QED BY <1>1, <1>2 DEF FirstError

\* The same for lists of two to six checks.
LEMMA FirstOfTwo == \A a, b : a[1] /\ a[2] # "ok" => FirstError(<<a, b>>) # "ok"
<1> TAKE a, b
<1> HAVE a[1] /\ a[2] # "ok"
<1> DEFINE checks == <<a, b>>
<1>1. DOMAIN checks = 1..2 /\ checks[1] = a
    OBVIOUS
<1> HIDE DEF checks
<1>2. FirstError(checks) # "ok"
    BY <1>1, FirstRefuses
<1> QED BY <1>2 DEF checks

\* Of three checks.
LEMMA FirstOfThree == \A a, b, c : a[1] /\ a[2] # "ok" => FirstError(<<a, b, c>>) # "ok"
<1> TAKE a, b, c
<1> HAVE a[1] /\ a[2] # "ok"
<1> DEFINE checks == <<a, b, c>>
<1>1. DOMAIN checks = 1..3 /\ checks[1] = a
    OBVIOUS
<1> HIDE DEF checks
<1>2. FirstError(checks) # "ok"
    BY <1>1, FirstRefuses
<1> QED BY <1>2 DEF checks

\* Of four checks.
LEMMA FirstOfFour == \A a, b, c, d : a[1] /\ a[2] # "ok" => FirstError(<<a, b, c, d>>) # "ok"
<1> TAKE a, b, c, d
<1> HAVE a[1] /\ a[2] # "ok"
<1> DEFINE checks == <<a, b, c, d>>
<1>1. DOMAIN checks = 1..4 /\ checks[1] = a
    OBVIOUS
<1> HIDE DEF checks
<1>2. FirstError(checks) # "ok"
    BY <1>1, FirstRefuses
<1> QED BY <1>2 DEF checks

\* Of five checks.
LEMMA FirstOfFive == \A a, b, c, d, e : a[1] /\ a[2] # "ok" => FirstError(<<a, b, c, d, e>>) # "ok"
<1> TAKE a, b, c, d, e
<1> HAVE a[1] /\ a[2] # "ok"
<1> DEFINE checks == <<a, b, c, d, e>>
<1>1. DOMAIN checks = 1..5 /\ checks[1] = a
    OBVIOUS
<1> HIDE DEF checks
<1>2. FirstError(checks) # "ok"
    BY <1>1, FirstRefuses
<1> QED BY <1>2 DEF checks

\* Of six checks.
LEMMA FirstOfSix == \A a, b, c, d, e, f : a[1] /\ a[2] # "ok" => FirstError(<<a, b, c, d, e, f>>) # "ok"
<1> TAKE a, b, c, d, e, f
<1> HAVE a[1] /\ a[2] # "ok"
<1> DEFINE checks == <<a, b, c, d, e, f>>
<1>1. DOMAIN checks = 1..6 /\ checks[1] = a
    OBVIOUS
<1> HIDE DEF checks
<1>2. FirstError(checks) # "ok"
    BY <1>1, FirstRefuses
<1> QED BY <1>2 DEF checks

\* The handlers that begin by refusing the change-password service.
LEMMA ServiceRefused ==
    ASSUME NEW s, NEW r, isChangePasswordService(s)
    PROVE  /\ checkCreate(s, r).status # "ok"
           /\ checkDelete(s, r).status # "ok"
           /\ checkModify(s, r).status # "ok"
           /\ checkRename(s, r).status # "ok"
           /\ checkAlias(s, r).status # "ok"
           /\ checkSetkey(s, r).status # "ok"
           /\ checkSetString(s, r).status # "ok"
           /\ checkPolicyChange(s, r).status # "ok"
           /\ checkDeletePolicy(s, r).status # "ok"
<1>1. checkCreate(s, r).status # "ok"
    BY FirstOfSix, Zenon DEF checkCreate, isChangePasswordService
<1>2. checkDelete(s, r).status # "ok"
    BY FirstOfFour, Zenon DEF checkDelete, isChangePasswordService
<1>3. checkModify(s, r).status # "ok"
    BY FirstOfFive, Zenon DEF checkModify, isChangePasswordService
<1>4. checkRename(s, r).status # "ok"
    BY FirstOfFour, Zenon DEF checkRename, isChangePasswordService
<1>5. checkAlias(s, r).status # "ok"
    BY FirstOfThree, Zenon DEF checkAlias, isChangePasswordService
<1>6. checkSetkey(s, r).status # "ok"
    BY FirstOfFour, Zenon DEF checkSetkey, isChangePasswordService
<1>7. checkSetString(s, r).status # "ok"
    BY FirstOfTwo, Zenon DEF checkSetString, isChangePasswordService
<1>8. checkPolicyChange(s, r).status # "ok"
    <2> DEFINE create == r.op = "cpolicy"
               current == GetPolicy(<<r.policy>>)
               merged == IF create \/ current = <<>> THEN r.record
                         ELSE [f \in DOMAIN current[1] |-> IF f \in r.mask THEN r.record[f] ELSE current[1][f]]
               valid == /\ "minLife" \in r.mask => merged.minLife >= 0
                        /\ "maxLife" \in r.mask => merged.maxLife >= 0
                        /\ merged.maxLife # 0 => merged.minLife <= merged.maxLife
                        /\ "minLength" \in r.mask => merged.minLength >= 1
                        /\ "minClasses" \in r.mask => merged.minClasses \in 1..5
                        /\ "history" \in r.mask => merged.history >= 1
               c1 == <<isChangePasswordService(s), IF create THEN "AUTH_ADD" ELSE "AUTH_MODIFY">>
               c2 == <<~create /\ "policy" \in r.mask, "FAILURE">>
               c3 == <<~authorize(mode, AuthRequest(s, r.op, <<>>, <<>>, <<r.policy>>, <<>>)), "AUTH_ADD">>
               c4 == <<~create /\ current = <<>>, "UNK_POLICY">>
               c5 == <<~create /\ ~valid, "FAILURE">>
    <2>1. checkPolicyChange(s, r).status = FirstError(<<c1, c2, c3, c4, c5>>)
        BY DEF checkPolicyChange
    <2>2. c1[1] /\ c1[2] # "ok"
        OBVIOUS
    <2> HIDE DEF c1, c2, c3, c4, c5
    <2> QED BY <2>1, <2>2, FirstOfFive
<1>9. checkDeletePolicy(s, r).status # "ok"
    BY FirstOfTwo, Zenon DEF checkDeletePolicy, isChangePasswordService
<1> QED BY <1>1, <1>2, <1>3, <1>4, <1>5, <1>6, <1>7, <1>8, <1>9

\* The forms of a check come with an error.
LEMMA FailsIsError == \A x : Fails(x)[1] => Fails(x)[2] # "ok"
BY Zenon DEF Fails

\* The same for the pre-commit hooks.
LEMMA RefusedIsError == \A x : Refused(x)[1] => Refused(x)[2] # "ok"
BY DEF Refused

\* A check further down is reached with none of the earlier conditions true.
LEMMA PurgeRefused ==
    ASSUME NEW s, NEW r, isChangePasswordService(s), checkPurge(s, r).status = "ok"
    PROVE  FALSE
<1> DEFINE checks == << <<~May(s, "purge", r.name), "AUTH_MODIFY">>,
                        <<isChangePasswordService(s), "AUTH_MODIFY">> >>
<1>1. checkPurge(s, r).status = FirstError(checks)
    BY DEF checkPurge
<1>2. DOMAIN checks = 1..2 /\ \A i \in 1..2 : checks[i][1] => checks[i][2] # "ok"
    OBVIOUS
<1>3. checks[2][1] <=> isChangePasswordService(s)
    OBVIOUS
<1> HIDE DEF checks
<1>4. \A i \in 1..2 : ~checks[i][1]
    BY <1>1, <1>2, NoError, Zenon
<1>5. ~checks[2][1]
    BY <1>4
<1> QED BY <1>3, <1>5

\* The change-password service randomises only its own principal's keys.
LEMMA ChrandOwn ==
    ASSUME NEW s, NEW r, isChangePasswordService(s), checkChrand(s, r).status = "ok"
    PROVE  s.client = r.name
<1> DEFINE checks == << <<~May(s, "randkey", r.name), "AUTH_CHANGEPW">>,
                        <<isChangePasswordService(s) /\ s.client # r.name, "AUTH_CHANGEPW">>,
                        Fails(checkSelfKeyChange(s, r.name)) >>
<1>1. checkChrand(s, r).status = FirstError(checks)
    BY DEF checkChrand
<1>2. DOMAIN checks = 1..3 /\ \A i \in 1..3 : checks[i][1] => checks[i][2] # "ok"
    <2>1. /\ checks[1][1] => checks[1][2] # "ok"
          /\ checks[2][1] => checks[2][2] # "ok"
          /\ checks[3][1] => checks[3][2] # "ok"
        BY FailsIsError
    <2>2. DOMAIN checks = 1..3
        OBVIOUS
    <2> HIDE DEF checks
    <2>3. \A i \in 1..3 : i = 1 \/ i = 2 \/ i = 3
        OBVIOUS
    <2> QED BY <2>1, <2>2, <2>3
<1>3. checks[2][1] <=> isChangePasswordService(s) /\ s.client # r.name
    BY Zenon
<1> HIDE DEF checks
<1>4. \A i \in 1..3 : ~checks[i][1]
    BY <1>1, <1>2, NoError, Zenon
<1>5. ~checks[2][1]
    BY <1>4
<1> QED BY <1>3, <1>5

\* The change-password service changes only its own principal's password.
LEMMA ChpassOwn ==
    ASSUME NEW s, NEW r, isChangePasswordService(s), checkChpass(s, r).status = "ok"
    PROVE  s.client = r.name
<1> DEFINE policy == PolicyOf(r.name)
           copy == GetPolicy(policy)
           bypass == s.client # r.name /\ May(s, "modify", r.name)
           c1 == <<~May(s, "changepw", r.name), "AUTH_CHANGEPW">>
           c2 == <<checkLockdown(r.name), "AUTH_CHANGEPW">>
           c3 == Fails(checkSelfKeyChange(s, r.name))
           c4 == <<isChangePasswordService(s) /\ s.client # r.name, "AUTH_CHANGEPW">>
           c5 == <<~Known(r.name), "UNK_PRINC">>
           c6 == <<Missing(policy), "UNK_POLICY">>
           c7 == Fails(CheckPasswordPolicy(db, r.name, r.password, now, copy, bypass))
           c8 == Fails(checkPasswordQuality(r.password, policy))
           c9 == Refused(r.name)
           checks == <<c1, c2, c3, c4, c5, c6, c7, c8, c9>>
<1>1. checkChpass(s, r).status = FirstError(checks)
    BY DEF checkChpass
<1>2. /\ c1[1] => c1[2] # "ok"
      /\ c2[1] => c2[2] # "ok"
      /\ c3[1] => c3[2] # "ok"
      /\ c4[1] => c4[2] # "ok"
      /\ c5[1] => c5[2] # "ok"
      /\ c6[1] => c6[2] # "ok"
      /\ c7[1] => c7[2] # "ok"
      /\ c8[1] => c8[2] # "ok"
      /\ c9[1] => c9[2] # "ok"
    BY FailsIsError, RefusedIsError
<1>3. c4[1] <=> isChangePasswordService(s) /\ s.client # r.name
    BY Zenon
<1> HIDE DEF c1, c2, c3, c4, c5, c6, c7, c8, c9
<1>4. DOMAIN checks = 1..9 /\ checks[4] = c4
    OBVIOUS
<1>5. \A i \in 1..9 : checks[i][1] => checks[i][2] # "ok"
    BY <1>2
<1> HIDE DEF checks
<1>6. \A i \in 1..9 : ~checks[i][1]
    BY <1>1, <1>4, <1>5, NoError, Zenon
<1> QED BY <1>3, <1>4, <1>6

\* modify_principal works on a record that exists.
LEMMA ModifyKnown ==
    ASSUME NEW s, NEW r, checkModify(s, r).status = "ok"
    PROVE  Known(r.name)
<1> DEFINE checks == << <<isChangePasswordService(s), "AUTH_MODIFY">>,
                        <<~May(s, "modify", r.name), "AUTH_MODIFY">>,
                        <<~Known(r.name), "UNK_PRINC">>,
                        <<checkLockdown(r.name) /\ "attrs" \in r.mask /\ ~Entry(r).lockdown, "AUTH_MODIFY">>,
                        Refused(r.name) >>
<1>1. checkModify(s, r).status = FirstError(checks)
    BY DEF checkModify
<1>2. DOMAIN checks = 1..5 /\ \A i \in 1..5 : checks[i][1] => checks[i][2] # "ok"
    BY DEF Refused
<1>3. checks[3][1] <=> ~Known(r.name)
    BY Zenon
<1> HIDE DEF checks
<1>4. \A i \in 1..5 : ~checks[i][1]
    BY <1>1, <1>2, NoError, Zenon
<1>5. ~checks[3][1]
    BY <1>4
<1> QED BY <1>3, <1>5
-----------------------------------------------------------------------------
(* The invariant.                                                          *)

\* A kadmin/changepw session in service changes nothing over kadm5 but the
\* keys of its own principal.
OwnOnly(s, r) ==
    isChangePasswordService(s) =>
        \/ r.op \in {"get", "kpasswd"}
        \/ r.op \in {"chpass", "chrand"} /\ r.name = s.client

AdminInv ==
    /\ Sound(db) /\ Records(db)
    /\ call = [c \in Conns |-> call[c]]
    /\ \A c \in Conns : CallSound(c)
    /\ \A c \in Conns : Serving(c) => OwnOnly(sess[c], call[c].req)

\* An entry names at most one policy.
LEMMA EntryPolicy ==
    ASSUME NEW r \in Requests, r.op \in {"create", "modify"}
    PROVE  Optional(Entry(r).policy)
<1> DEFINE op == r.op
           ruling == {i \in DOMAIN Modules :
                         op \in DOMAIN Modules[i].restricts
                           /\ Modules[i].restricts[op].mask \cap {"clear", "policy"} # {}}
           policy == ApplyAuthRestrictions(op, {"clear", "policy"})
<1>1. Optional(r.entry.policy) /\ Optional(<<>>)
    BY ArgumentAssumption DEF Optional
<1>2. ASSUME ruling # {}
      PROVE  Optional(IF "clear" \in policy[1].mask THEN <<>> ELSE policy[1].policy)
    <2>1. Max(ruling) \in ruling
        <3>1. ruling \subseteq 1..Len(Modules) /\ Len(Modules) \in Nat
            BY ModulesAssumption
        <3> HIDE DEF ruling
        <3> QED BY <1>2, <3>1, MaxIsElement, Zenon
    <2>2. policy = <<Modules[Max(ruling)].restricts[op]>>
        BY <1>2, Zenon DEF ApplyAuthRestrictions
    <2>3. PICK i \in DOMAIN Modules : /\ policy = <<Modules[i].restricts[op]>>
                                      /\ op \in DOMAIN Modules[i].restricts
                                      /\ Modules[i].restricts[op].mask \cap {"clear", "policy"} # {}
        <3> HIDE DEF policy
        <3> QED BY <2>1, <2>2, Zenon
    <2> HIDE DEF policy, ruling
    <2>4. policy[1] = Modules[i].restricts[op] /\ Modules[i] \in Range(Modules)
        BY <2>3 DEF Range
    <2>5. "clear" \in policy[1].mask \/ "policy" \in policy[1].mask
        BY <2>3, <2>4
    <2>6. "policy" \in policy[1].mask => Optional(policy[1].policy)
        BY <2>3, <2>4, ModulesAssumption, Zenon
    <2> QED BY <1>1, <2>5, <2>6, Zenon
<1>3. ruling = {} => policy = <<>>
    BY DEF ApplyAuthRestrictions
<1>4. Optional(RestrictedEntry(r.entry, op).policy)
    <2> DEFINE attrs == ApplyAuthRestrictions(op, {"attrs"})
               new == IF policy = <<>> THEN r.entry.policy
                      ELSE IF "clear" \in policy[1].mask THEN <<>> ELSE policy[1].policy
    <2>1. Optional(new)
        <3> HIDE DEF policy, ruling
        <3> QED BY <1>1, <1>2, <1>3, Zenon
    <2>2. "policy" \in DOMAIN r.entry
        BY ArgumentAssumption
    <2>3. RestrictedEntry(r.entry, op).policy = new
        <3> HIDE DEF policy, ruling, attrs
        <3>1. RestrictedEntry(r.entry, op)
                = [r.entry EXCEPT !.lockdown = IF attrs = <<>> THEN @ ELSE attrs[1].lockdown, !.policy = new]
            BY Zenon DEF RestrictedEntry, policy, attrs
        <3> HIDE DEF new
        <3> QED BY <2>2, <3>1
    <2> QED BY <2>1, <2>3
<1> QED BY <1>1, <1>4, Zenon DEF Entry

\* A copy of a policy of the database.
LEMMA CopiedPolicy ==
    ASSUME Records(db), NEW policy
    PROVE  GetPolicy(policy) = <<>> \/ (GetPolicy(policy) = <<GetPolicy(policy)[1]>> /\ IsPolicy(GetPolicy(policy)[1]))
<1>1. CASE policy = <<>> \/ Missing(policy)
    BY <1>1 DEF GetPolicy
<1>2. CASE ~(policy = <<>> \/ Missing(policy))
    <2>1. policy[1] \in DOMAIN db.policies /\ GetPolicy(policy) = <<db.policies[policy[1]]>>
        BY <1>2, Zenon DEF GetPolicy, Missing
    <2>2. IsPolicy(db.policies[policy[1]])
        BY <2>1, Zenon DEF Records
    <2>3. GetPolicy(policy)[1] = db.policies[policy[1]]
        BY <2>1
    <2> QED BY <2>1, <2>2, <2>3, Zenon
<1> QED BY <1>1, <1>2

\* modify_principal's argument: the record that it read, with some fields of
\* the entry, but with its keys and its history.
LEMMA ModifyArg ==
    ASSUME Sound(db), Records(db), NEW s, NEW r \in Requests, r.op = "modify", checkModify(s, r).status = "ok"
    PROVE  "name" \in DOMAIN checkModify(s, r).arg /\ RecordSound(checkModify(s, r).arg)
<1> DEFINE old == db.principals[r.name]
           policy == IF "policy" \in r.mask THEN IF "clear" \in r.mask THEN <<>> ELSE Entry(r).policy ELSE old.policy
           rec == applyEntry(old, Entry(r), r.mask)
<1>1. Known(r.name)
    BY ModifyKnown
<1>2. "name" \in DOMAIN old /\ RecordSound(old)
    BY <1>1 DEF Known, Sound, WellFormed, Records
<1>3. checkModify(s, r).arg = rec
    BY <1>1 DEF checkModify
<1> HIDE DEF old
<1>4. /\ DOMAIN rec = DOMAIN old /\ rec.policy = policy
      /\ rec.keys = old.keys /\ rec.kvno = old.kvno /\ rec.hist = old.hist /\ rec.past = old.past
    BY <1>2 DEF applyEntry, RecordSound
<1> HIDE DEF rec
<1>5. Optional(policy)
    <2>1. Optional(Entry(r).policy)
        BY EntryPolicy
    <2>2. Optional(<<>>)
        BY DEF Optional
    <2>3. Optional(old.policy)
        BY <1>2, Zenon DEF RecordSound
    <2> QED BY <2>1, <2>2, <2>3, Zenon
<1>6. RecordSound(rec)
    <2> HIDE DEF policy
    <2> QED BY <1>2, <1>4, <1>5, SameRecord
<1> QED BY <1>2, <1>3, <1>4, <1>6

\* A policy change's argument: the record of the request, or the stored policy
\* with some of its fields.
LEMMA PolicyArg ==
    ASSUME Records(db), NEW s, NEW r \in Requests, r.op \in {"cpolicy", "mpolicy"}
    PROVE  IsPolicy(checkPolicyChange(s, r).arg)
<1> DEFINE current == GetPolicy(<<r.policy>>)
           merged == [f \in DOMAIN current[1] |-> IF f \in r.mask THEN r.record[f] ELSE current[1][f]]
           create == r.op = "cpolicy"
<1>1. IsPolicy(r.record)
    BY ArgumentAssumption, Zenon
<1>2. checkPolicyChange(s, r).arg = IF create \/ current = <<>> THEN r.record ELSE merged
    BY DEF checkPolicyChange
<1>3. current = <<>> \/ IsPolicy(current[1])
    BY CopiedPolicy, Zenon
<1> HIDE DEF current
<1>4. current # <<>> => IsPolicy(merged)
    BY <1>1, <1>3 DEF IsPolicy
<1> HIDE DEF merged
<1> QED BY <1>1, <1>2, <1>4, Zenon

\* What dispatch lets through.
LEMMA DispatchSound ==
    ASSUME Sound(db), Records(db), NEW s, NEW r \in Requests,
           dispatch(s, r).status = "ok", r.op \notin Inquiries
    PROVE  /\ r.op \in Mutating
           /\ ArgSound(r, dispatch(s, r).arg)
           /\ OwnOnly(s, r)
<1>1. r.op \in Mutating
    BY RequestAssumption DEF Mutating, Inquiries
<1>2. ArgSound(r, dispatch(s, r).arg)
    <2>1. ASSUME r.op = "modify"
          PROVE  "name" \in DOMAIN dispatch(s, r).arg /\ RecordSound(dispatch(s, r).arg)
        <3>1. dispatch(s, r) = checkModify(s, r)
            BY <2>1 DEF dispatch
        <3> QED BY <2>1, <3>1, ModifyArg, Zenon
    <2>2. ASSUME r.op = "create" PROVE Optional(dispatch(s, r).arg)
        <3>1. dispatch(s, r) = checkCreate(s, r)
            BY <2>2 DEF dispatch
        <3>2. checkCreate(s, r).arg
                = IF "policy" \in r.mask /\ "clear" \notin r.mask THEN Entry(r).policy ELSE <<>>
            BY DEF checkCreate
        <3>3. Optional(Entry(r).policy) /\ Optional(<<>>)
            BY <2>2, EntryPolicy DEF Optional
        <3> QED BY <3>1, <3>2, <3>3, Zenon
    <2>3. ASSUME r.op \in {"chpass", "kpasswd"}
          PROVE  dispatch(s, r).arg[1] = <<>> \/ IsPolicy(dispatch(s, r).arg[1][1])
        <3> DEFINE copy == GetPolicy(PolicyOf(r.name))
        <3>1. copy = <<>> \/ IsPolicy(copy[1])
            BY CopiedPolicy, Zenon
        <3>2. CASE r.op = "chpass"
            <4>1. dispatch(s, r) = checkChpass(s, r)
                BY <3>2 DEF dispatch
            <4>2. checkChpass(s, r).arg = <<copy, s.client # r.name /\ May(s, "modify", r.name)>>
                BY Zenon DEF checkChpass
            <4> HIDE DEF copy
            <4>3. dispatch(s, r).arg[1] = copy
                BY <4>1, <4>2
            <4> QED BY <3>1, <4>3
        <3>3. CASE r.op = "kpasswd"
            <4>1. dispatch(s, r) = checkKpasswd(s, r)
                BY <3>3 DEF dispatch
            <4>2. checkKpasswd(s, r).arg = <<copy, r.version = "set" /\ s.client # r.name>>
                BY Zenon DEF checkKpasswd
            <4> HIDE DEF copy
            <4>3. dispatch(s, r).arg[1] = copy
                BY <4>1, <4>2
            <4> QED BY <3>1, <4>3
        <3> QED BY <2>3, <3>2, <3>3
    <2>4. ASSUME r.op \in {"cpolicy", "mpolicy"} PROVE IsPolicy(dispatch(s, r).arg)
        <3>1. dispatch(s, r) = checkPolicyChange(s, r)
            BY <2>4 DEF dispatch
        <3> QED BY <2>4, <3>1, PolicyArg
    <2> QED BY <2>1, <2>2, <2>3, <2>4 DEF ArgSound
<1>3. ASSUME isChangePasswordService(s)
      PROVE  r.op \in {"get", "kpasswd"} \/ (r.op \in {"chpass", "chrand"} /\ r.name = s.client)
    <2>1. CASE r.op \in {"create", "delete", "modify", "rename", "alias", "setkey", "setstring"}
        BY <1>3, <2>1, ServiceRefused DEF dispatch
    <2>2. CASE r.op \in {"cpolicy", "mpolicy", "dpolicy"}
        BY <1>3, <2>2, ServiceRefused DEF dispatch
    <2>3. CASE r.op = "purge"
        <3>1. dispatch(s, r) = checkPurge(s, r)
            BY <2>3 DEF dispatch
        <3> QED BY <1>3, <3>1, PurgeRefused
    <2>4. CASE r.op = "chpass"
        <3>1. dispatch(s, r) = checkChpass(s, r)
            BY <2>4 DEF dispatch
        <3> QED BY <1>3, <2>4, <3>1, ChpassOwn
    <2>5. CASE r.op = "chrand"
        <3>1. dispatch(s, r) = checkChrand(s, r)
            BY <2>5 DEF dispatch
        <3> QED BY <1>3, <2>5, <3>1, ChrandOwn
    <2> QED BY <1>1, <2>1, <2>2, <2>3, <2>4, <2>5 DEF Mutating
<1> QED BY <1>1, <1>2, <1>3 DEF OwnOnly

\* The servers start in the invariant.
LEMMA AdminInit == Init => AdminInv
BY InitAssumption DEF Init, AdminInv, Sound, Records, CallSound, Serving, Done

\* Every step keeps it.
LEMMA AdminNext ==
    ASSUME AdminInv, [Next]_vars
    PROVE  AdminInv'
<1>1. ASSUME NEW c \in Conns, NEW r \in Requests, Receive(c, r)
      PROVE  AdminInv'
    <2> DEFINE k == Checked(r, dispatch(sess[c], r))
    <2>1. /\ call' = [call EXCEPT ![c] = k]
          /\ db' = db /\ sess' = sess
        BY <1>1 DEF Receive
    <2>2. k.pc = "serving" => /\ k.req = r
                              /\ r.op \in Mutating
                              /\ ArgSound(r, k.arg)
                              /\ OwnOnly(sess[c], r)
        <3>1. CASE dispatch(sess[c], r).status # "ok" \/ r.op \in Inquiries
            BY <3>1 DEF Checked, Done
        <3>2. CASE dispatch(sess[c], r).status = "ok" /\ r.op \notin Inquiries
            <4>1. k = [pc |-> "serving", req |-> r, arg |-> dispatch(sess[c], r).arg]
                BY <3>2 DEF Checked
            <4>2. k.req = r /\ k.arg = dispatch(sess[c], r).arg
                BY <4>1
            <4> HIDE DEF k
            <4> QED BY <3>2, <4>2, DispatchSound DEF AdminInv
        <3> QED BY <3>1, <3>2
    <2> HIDE DEF k
    <2>3. call'[c] = k /\ \A x \in Conns \ {c} : call'[x] = call[x]
        BY <2>1 DEF AdminInv
    <2>4. call' = [x \in Conns |-> call'[x]]
        BY <2>1 DEF AdminInv
    <2>5. ASSUME NEW x \in Conns
          PROVE  CallSound(x)' /\ (Serving(x)' => OwnOnly(sess[x], call'[x].req))
        <3>1. CASE x = c
            BY <2>2, <2>3, <3>1 DEF CallSound, Serving
        <3>2. CASE x # c
            BY <2>3, <3>2 DEF AdminInv, CallSound, Serving
        <3> QED BY <3>1, <3>2
    <2>6. \A x \in Conns : OwnOnly(sess[x], call'[x].req) => OwnOnly(sess[x], call[x].req)'
        BY <2>1 DEF OwnOnly, isChangePasswordService
    <2> QED BY <2>1, <2>4, <2>5, <2>6 DEF AdminInv, Sound, Records
<1>2. ASSUME NEW c \in Conns, Commit(c)
      PROVE  AdminInv'
    <2> DEFINE result == mutate(call[c].req, call[c].arg)
    <2>1. Sound(result.db) /\ Records(result.db)
        BY <1>2, MutateSound DEF AdminInv, CallSound, Commit
    <2> HIDE DEF result
    <2>2. /\ call' = [call EXCEPT ![c] = Done(result.err)]
          /\ db' = result.db /\ sess' = sess
        BY <1>2 DEF Commit, Finish, result
    <2>3. call'[c].pc = "idle" /\ \A x \in Conns \ {c} : call'[x] = call[x]
        BY <2>2 DEF AdminInv, Done
    <2>4. call' = [x \in Conns |-> call'[x]]
        BY <2>2 DEF AdminInv
    <2>5. ASSUME NEW x \in Conns
          PROVE  CallSound(x)' /\ (Serving(x)' => OwnOnly(sess[x], call[x].req)')
        <3>1. CASE x = c
            BY <2>3, <3>1 DEF CallSound, Serving
        <3>2. CASE x # c
            BY <2>2, <2>3, <3>2 DEF AdminInv, CallSound, Serving, OwnOnly, isChangePasswordService
        <3> QED BY <3>1, <3>2
    <2>6. Sound(db)' /\ Records(db)'
        BY <2>1, <2>2
    <2> QED BY <2>2, <2>4, <2>5, <2>6 DEF AdminInv
<1>3. CASE Tick \/ UNCHANGED vars
    BY <1>3 DEF Tick, vars, AdminInv, Sound, Records, CallSound, Serving, OwnOnly, isChangePasswordService
<1> QED BY <1>1, <1>2, <1>3 DEF Next

\* The invariant holds of every behaviour of the two servers.
LEMMA AdminCorrect == Spec => []AdminInv
BY AdminInit, AdminNext, PTL DEF Spec

\* The update log is complete: replaying it gives the principals of the
\* master, whatever the handlers (dispatch, HandleMessage) do between their
\* reads and their commits.
THEOREM LogCompleteTheorem == Spec => []LogComplete
<1>1. AdminInv => LogComplete
    BY DEF AdminInv, Sound, LogComplete
<1> QED BY <1>1, AdminCorrect, PTL

\* No key is newer than its principal's version, and a principal that has a
\* password has a key, for any mix of password changes, explicit versions
\* (SetKeys), purges and stale writes of modify_principal.
THEOREM VersionsCoverKeys == Spec => []KvnoCoversKeys
<1> DEFINE Bounds == now \in 1..MaxNow /\ ops \in 0..MaxOps /\ \A c \in Conns : call[c].pc \in {"idle", "serving"}
<1>1. Init => Bounds
    BY BoundAssumption DEF Init, Done
<1>2. ASSUME Bounds, AdminInv, [Next]_vars PROVE Bounds'
    <2>1. ASSUME NEW c \in Conns, NEW r \in Requests, Receive(c, r) PROVE Bounds'
        <3>1. Checked(r, dispatch(sess[c], r)).pc \in {"idle", "serving"}
            BY Zenon DEF Checked, Done
        <3>2. /\ call' = [call EXCEPT ![c] = Checked(r, dispatch(sess[c], r))]
              /\ ops < MaxOps /\ ops' = ops + 1 /\ now' = now
            BY <2>1 DEF Receive
        <3>3. \A x \in Conns : call'[x].pc \in {"idle", "serving"}
            BY <1>2, <3>1, <3>2 DEF AdminInv
        <3> QED BY <1>2, <3>2, <3>3, BoundAssumption
    <2>2. ASSUME NEW c \in Conns, Commit(c) PROVE Bounds'
        <3> DEFINE result == mutate(call[c].req, call[c].arg)
        <3>1. call' = [call EXCEPT ![c] = Done(result.err)] /\ ops' = ops /\ now' = now
            BY <2>2 DEF Commit, Finish
        <3> HIDE DEF result
        <3>2. \A x \in Conns : call'[x].pc \in {"idle", "serving"}
            BY <1>2, <3>1 DEF AdminInv, Done
        <3> QED BY <1>2, <3>1, <3>2
    <2>3. CASE Tick
        BY <1>2, <2>3, BoundAssumption DEF Tick
    <2>4. CASE UNCHANGED vars
        BY <1>2, <2>4 DEF vars
    <2> QED BY <1>2, <2>1, <2>2, <2>3, <2>4 DEF Next
<1>3. AdminInv /\ Bounds => KvnoCoversKeys
    <2> SUFFICES ASSUME AdminInv, Bounds PROVE KvnoCoversKeys
        OBVIOUS
    <2>1. TypeOK
        BY Zenon DEF TypeOK, AdminInv, Sound, WellFormed
    <2>2. ASSUME NEW n \in DOMAIN db.principals
          PROVE  /\ \A e \in DOMAIN db.principals[n].keys :
                       db.principals[n].keys[e].kvno \in 1..db.principals[n].kvno
                 /\ db.principals[n].past # <<>> => DOMAIN db.principals[n].keys # {}
        BY <2>2, Zenon DEF AdminInv, Records, RecordSound, PastSound
    <2> QED BY <2>1, <2>2, Zenon DEF KvnoCoversKeys
<1> HIDE DEF Bounds
<1> QED BY <1>1, <1>2, <1>3, AdminCorrect, PTL DEF Spec

\* The passwords that a policy's history holds against a principal are
\* different ones, although the check runs before the commit and the password
\* changes of several connections overlap (changePasswordWithTuples).
THEOREM NoPasswordReused == Spec => []NoReuse
<1>1. ASSUME AdminInv PROVE NoReuse
    <2> SUFFICES ASSUME NEW n \in DOMAIN db.principals
                 PROVE  \A i, j \in DOMAIN db.principals[n].past :
                            db.principals[n].past[i] = db.principals[n].past[j] => i = j
        BY DEF NoReuse
    <2> QED BY <1>1, Zenon DEF AdminInv, Records, RecordSound, PastSound, Lists
<1> QED BY <1>1, AdminCorrect, PTL

\* No commit but that of a modify or a rename leaves another principal with a
\* policy that does not exist (CreatePrincipal looks the policy up under db.mu,
\* DeletePolicy looks for references).
THEOREM PoliciesAreKept == Spec => PolicyKept
<1>1. ASSUME AdminInv, [Next]_vars
      PROVE  [(\A c \in Conns : Serving(c) /\ call'[c].pc = "idle" => call[c].req.op \notin {"modify", "rename"})
                => Dangling(db') \subseteq Dangling(db)]_vars
    <2> SUFFICES ASSUME \A c \in Conns : Serving(c) /\ call'[c].pc = "idle" => call[c].req.op \notin {"modify", "rename"}
                 PROVE  Dangling(db') \subseteq Dangling(db)
        OBVIOUS
    <2>1. ASSUME NEW c \in Conns, Commit(c)
          PROVE  Dangling(db') \subseteq Dangling(db)
        <3> DEFINE result == mutate(call[c].req, call[c].arg)
        <3>1. Serving(c) /\ db' = result.db /\ call' = [call EXCEPT ![c] = Done(result.err)]
            BY <2>1 DEF Commit, Finish
        <3>2. call'[c].pc = "idle"
            <4> HIDE DEF result
            <4> QED BY <1>1, <3>1 DEF AdminInv, Done
        <3>3. call[c].req.op \notin {"modify", "rename"}
            BY <3>1, <3>2
        <3>4. /\ Sound(db) /\ Records(db) /\ call[c].req \in Requests
              /\ call[c].req.op \in Mutating /\ ArgSound(call[c].req, call[c].arg)
            BY <1>1, <3>1 DEF AdminInv, CallSound
        <3>5. Dangling(result.db) \subseteq Dangling(db)
            BY <3>3, <3>4, MutateSound, Zenon
        <3> QED BY <3>1, <3>5
    <2>2. ASSUME db' = db
          PROVE  Dangling(db') \subseteq Dangling(db)
        BY <2>2
    <2>3. (\E c \in Conns : Commit(c)) \/ db' = db
        BY <1>1 DEF Next, Receive, Tick, vars
    <2> QED BY <2>1, <2>2, <2>3
<1> QED BY <1>1, AdminCorrect, PTL DEF Spec, PolicyKept

\* The commit of what a kadmin/changepw session may ask for over kadm5.
LEMMA MutateOwn ==
    ASSUME Sound(db), Records(db), NEW r \in Requests, NEW arg, NEW n, ArgSound(r, arg),
           r.op = "get" \/ (r.op \in {"chpass", "chrand"} /\ r.name = n)
    PROVE  OnlyPrincipal(mutate(r, arg).db, db, n)
<1>1. CASE r.op = "get"
    BY <1>1, FailedSound DEF mutate
<1>2. CASE r.op = "chpass" /\ r.name = n
    <2>1. r.tuples \in Seq(Range(r.tuples)) /\ (arg[1] = <<>> \/ IsPolicy(arg[1][1]))
        BY <1>2, ArgumentAssumption, Zenon DEF ArgSound
    <2>2. Touches(db, n, mutate(r, arg))
        BY <1>2, <2>1, ChangeTouches DEF mutate
    <2> QED BY <2>2, TouchSound
<1>3. CASE r.op = "chrand" /\ r.name = n
    BY <1>3, RandomizeTouches, TouchSound DEF mutate
<1> QED BY <1>1, <1>2, <1>3

\* A session that authenticated to kadmin/changepw changes nothing over kadm5
\* but its own principal: every handler's checks refuse it or demand that the
\* target be the client, and the commit touches that target only.
THEOREM ConfinedTheorem == Spec => Confined
<1>1. ASSUME AdminInv, [Next]_vars
      PROVE  [\A c \in Conns :
                (/\ Serving(c) /\ call'[c].pc = "idle"
                 /\ isChangePasswordService(sess[c]) /\ call[c].req.op # "kpasswd")
                => /\ db'.policies = db.policies /\ db'.aliases = db.aliases
                   /\ Without(db'.principals, sess[c].client) = Without(db.principals, sess[c].client)]_vars
    <2> SUFFICES ASSUME NEW c \in Conns, Serving(c), call'[c].pc = "idle",
                        isChangePasswordService(sess[c]), call[c].req.op # "kpasswd"
                 PROVE  OnlyPrincipal(db', db, sess[c].client)
        BY DEF OnlyPrincipal
    <2>1. ASSUME NEW x \in Conns, NEW r \in Requests, Receive(x, r)
          PROVE  FALSE
        BY <1>1, <2>1 DEF Receive, Serving, AdminInv
    <2>2. ASSUME NEW x \in Conns, Commit(x)
          PROVE  OnlyPrincipal(db', db, sess[c].client)
        <3>1. x = c
            BY <1>1, <2>2 DEF Commit, Finish, Serving, AdminInv
        <3>2. db' = mutate(call[c].req, call[c].arg).db
            BY <2>2, <3>1 DEF Commit, Finish
        <3>3. \/ call[c].req.op = "get"
              \/ call[c].req.op \in {"chpass", "chrand"} /\ call[c].req.name = sess[c].client
            BY <1>1 DEF AdminInv, OwnOnly
        <3>4. Sound(db) /\ Records(db) /\ call[c].req \in Requests /\ ArgSound(call[c].req, call[c].arg)
            BY <1>1 DEF AdminInv, CallSound
        <3>5. OnlyPrincipal(mutate(call[c].req, call[c].arg).db, db, sess[c].client)
            BY <3>3, <3>4, MutateOwn
        <3> QED BY <3>2, <3>5
    <2>3. CASE Tick \/ UNCHANGED vars
        BY <2>3 DEF Tick, vars, OnlyPrincipal
    <2> QED BY <1>1, <2>1, <2>2, <2>3 DEF Next
<1> QED BY <1>1, AdminCorrect, PTL DEF Spec, Confined
=============================================================================
