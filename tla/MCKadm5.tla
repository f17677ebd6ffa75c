------------------------------ MODULE MCKadm5 ------------------------------
(* Administration: either the servers of a realm with a user (alice), an   *)
(* administrator and the history key, or the commands that keep the        *)
(* database file and its master keys.  part says which, for a behaviour.   *)
EXTENDS Kadm5, TLC

CONSTANT
    MaxCommands     \* bound on the commands that work on the database file

VARIABLES part, file, backup, tool, local, commands

alice == <<"alice">>
carol == <<"carol">>
admin == <<"root", "admin">>
history == <<"kadmin", "history">>

MCLength == ("x" :> 0) @@ ("a" :> 1) @@ ("b" :> 2) @@ ("c" :> 2)
MCClasses == ("x" :> 0) @@ ("a" :> 1) @@ ("b" :> 1) @@ ("c" :> 1)

Policy(minLife, hist) ==
    [minLife |-> minLife, maxLife |-> 3, minLength |-> 1, minClasses |-> 1, history |-> hist]

MCInitDatabase ==
    LET d0 == CreatePolicy(EmptyDatabase, "p", Policy(1, 2)).db
        d1 == createPrincipal(d0, alice, "a", <<>>, <<"p">>, 1).db
        d2 == createPrincipal(d1, history, "c", <<[e |-> 18, s |-> "normal"]>>, <<>>, 1).db
    IN  d2

MCAclEntries == <<
    [client |-> <<"*", "admin">>, ops |-> {"i"}, target |-> <<"kadmin", "*1">>],
    [client |-> <<"*", "admin">>, ops |-> {"a", "d", "m", "c", "i", "l", "s"}, target |-> AnyPrincipal],
    [client |-> AnyPrincipal, ops |-> {"i"}, target |-> <<"*">>] >>

MCModules == << [decides |-> [setkey |-> "deny", alias |-> "authorize"],
                 restricts |-> [modify |-> [mask |-> {"policy"}, policy |-> <<"p">>, lockdown |-> FALSE]]] >>

Session(client, service, initial) == [client |-> client, service |-> service, initial |-> initial]
Admin == Session(admin, "admin", TRUE)
User == Session(alice, "changepw", TRUE)

\* The connections are alike, so one order of each pair is enough.
MCSessions ==
    {<<Admin, s>> : s \in {Admin, User, Session(alice, "admin", FALSE), Session(admin, "changepw", TRUE)}}
      \cup {<<User, s>> : s \in {User}}

MCHookVetoes == {history}

MEntry(lock, pol) == [lockdown |-> lock, lastPwd |-> 0, policy |-> pol]
T18 == <<[e |-> 18, s |-> "normal"]>>

MCRequests ==
    {[op |-> "create", name |-> carol, password |-> "b", tuples |-> t, mask |-> {"policy"},
      entry |-> MEntry(FALSE, <<"p">>)] : t \in {<<>>, T18}}
  \cup {[op |-> o, name |-> alice] : o \in {"delete", "get", "getstrings", "extract"}}
  \cup {[op |-> "delete", name |-> history]}
  \cup {[op |-> o] : o \in {"list", "lpolicy", "getprivs"}}
  \cup {[op |-> "modify", name |-> alice, mask |-> {"attrs"}, entry |-> MEntry(l, <<>>)] : l \in BOOLEAN}
  \cup {[op |-> "modify", name |-> alice, mask |-> {"policy"} \cup x, entry |-> MEntry(FALSE, <<"q">>)] : x \in {{}, {"clear"}}}
  \cup {[op |-> "rename", name |-> alice, dest |-> carol], [op |-> "alias", name |-> carol, dest |-> alice]}
  \cup {[op |-> "chpass", name |-> alice, password |-> w, keepOld |-> k, tuples |-> <<>>] :
           w \in {"a", "b"}, k \in BOOLEAN}
  \cup {[op |-> "chpass", name |-> alice, password |-> w, keepOld |-> FALSE, tuples |-> T18] : w \in {"x", "b"}}
  \cup {[op |-> "kpasswd", name |-> n, password |-> "b", version |-> v] : n \in {alice, carol}, v \in {"change", "set"}}
  \cup {[op |-> "chrand", name |-> alice, keepOld |-> k, tuples |-> T18] : k \in BOOLEAN}
  \cup {[op |-> "chrand", name |-> history, keepOld |-> FALSE, tuples |-> <<>>]}
  \cup {[op |-> "setkey", name |-> alice, keepOld |-> TRUE,
         keys |-> <<[e |-> 17, kvno |-> v, mat |-> <<"set", <<>> >>, salt |-> <<>>]>>] : v \in {0, 3}}
  \cup {[op |-> "setkey", name |-> alice, keepOld |-> FALSE, keys |-> <<>>]}
  \cup {[op |-> "purge", name |-> alice, keep |-> v] : v \in {0, 1}}
  \cup {[op |-> "setstring", name |-> alice, key |-> "k", set |-> TRUE]}
  \cup {[op |-> "cpolicy", policy |-> "q", record |-> Policy(0, 1), mask |-> {}],
        [op |-> "mpolicy", policy |-> "p", record |-> Policy(0, 3), mask |-> {"history"}],
        [op |-> "dpolicy", policy |-> "p"], [op |-> "gpolicy", policy |-> "p"]}

-----------------------------------------------------------------------------
File == INSTANCE MasterKeys
            WITH Names <- {"p", "q"}, Created <- {"p", "q"}, Passwords <- {"a", "b", "c"}

serverVars == <<db, mode, sess, call, ops>>
fileVars == <<file, backup, tool, local, commands>>
allVars == <<part, now, serverVars, fileVars>>

AllInit ==
    /\ part \in {"servers", "file"}
    /\ IF part = "servers" THEN Init ELSE
           /\ db = EmptyDatabase /\ now = 1 /\ mode = "acl" /\ sess = <<Admin, Admin>>
           /\ call = [c \in Conns |-> Done("ok")] /\ ops = 0
    /\ File!Init

AllNext ==
    \/ part = "servers" /\ Next /\ UNCHANGED <<part, fileVars>>
    \/ part = "file" /\ File!Next /\ UNCHANGED <<part, serverVars>>

AllSpec == AllInit /\ [][AllNext]_allVars

\* MasterKeys: the dump opens with every master key it holds, and all the
\* keys in it decrypt, but for the two cases that MasterKeys names.
DumpRecoverable == File!DumpRecoverable
=============================================================================
