---------------------------- MODULE MasterKeys -----------------------------
(***************************************************************************)
(* The database file and its master keys: the commands of gokdb5util       *)
(* (cmd/gokdb5util/main.go), the dump format they read and write           *)
(* (krb5/kdb/mitdump) and gokadmin.local, which writes the same file after *)
(* every change (krb5/kadmin/startup.go).  A command reads the whole file, *)
(* may wait for an answer, and replaces the file by a rename; no lock is   *)
(* taken.  The stash file is left out: no command reads it back.           *)
(*                                                                         *)
(* A master key is the password it is derived from.  Encrypted data is     *)
(* abstracted to the key it is encrypted under: it decrypts under no       *)
(* other.                                                                  *)
(***************************************************************************)
EXTENDS Integers, SequencesExt

CONSTANTS
    Names,          \* principals besides K/M
    Created,        \* those that create makes
    Passwords,      \* master passwords
    MaxNow,         \* bound on the clock
    MaxCommands     \* bound on the commands that are started

VARIABLES
    file,       \* the dump, or None
    backup,     \* a copy made by gokdb5util dump, or None
    tool,       \* the gokdb5util command in progress
    local,      \* the database of a running gokadmin.local, or None
    now,
    commands

vars == <<file, backup, tool, local, now, commands>>

None == << >>
Idle == [pc |-> "idle"]
Key(kvno, secret) == [kvno |-> kvno, secret |-> secret]
KeyOf(keys, kvno) == SelectSeq(keys, LAMBDA k : k.kvno = kvno)

-----------------------------------------------------------------------------
(* Writing: dumpWithMasterKey.  flaws is history: what has been done to    *)
(* the file that the properties below except.                              *)

(* selectMasterKey: the key of the principal's version, 1 if it has none,  *)
(* and the key given to the writer if the version is not in the list.      *)
selectMasterKey(mkvno, keys, given) ==
    LET own == KeyOf(keys, IF mkvno = 0 THEN 1 ELSE mkvno)
    IN  IF own # << >> THEN own[1].secret ELSE given

(* masterKeyTLData: each older key opens the newest one.                   *)
auxFor(keys) ==
    [i \in 1..(Len(keys) - 1) |->
        [kvno |-> keys[i + 1].kvno, under |-> keys[i + 1].secret, newest |-> keys[1]]]

DumpWithMasterKey(d, given) ==
    LET keys == IF d.keys = << >> THEN <<Key(1, given)>> ELSE d.keys
    IN  [km |-> [i \in DOMAIN keys |-> [key |-> keys[i], under |-> keys[1].secret]],
         active |-> IF d.active = << >> THEN <<[kvno |-> keys[1].kvno, at |-> 0]>> ELSE d.active,
         aux |-> IF d.aux = << >> THEN auxFor(keys) ELSE d.aux,
         principals |-> [n \in DOMAIN d.principals |->
             [mkvno |-> d.principals[n].mkvno, keyed |-> d.principals[n].keyed,
              under |-> selectMasterKey(d.principals[n].mkvno, keys, given)]],
         flaws |-> d.flaws]

-----------------------------------------------------------------------------
(* Reading.  Parse refuses a principal without keys.                       *)
Parses(f) == f # None /\ \A n \in DOMAIN f.principals : f.principals[n].keyed

(* recoverMasterKeys: the newest key, found directly or through the aux    *)
(* data of an older one, and the version of the key that was supplied...   *)
First(s, P(_)) == IF \E i \in DOMAIN s : P(s[i]) THEN <<SelectSeq(s, P)[1]>> ELSE << >>
Newest(f, secret) ==
    LET own == First(f.km, LAMBDA k : k.under = secret)
        older == First(f.aux, LAMBDA a : a.under = secret)
    IN  IF own # << >> THEN <<[key |-> own[1].key, supplied |-> own[1].key.kvno]>>
        ELSE IF older # << >> THEN <<[key |-> older[1].newest, supplied |-> older[1].kvno]>>
        ELSE << >>

(* ...which must decrypt all the others.                                   *)
Recovers(f, secret) ==
    /\ Newest(f, secret) # << >>
    /\ \A i \in DOMAIN f.km : f.km[i].under = Newest(f, secret)[1].key.secret

MasterKeys(f, newest) ==
    LET keys == [i \in DOMAIN f.km |-> f.km[i].key]
    IN  IF KeyOf(keys, newest.kvno) = << >> THEN <<newest>> \o keys ELSE keys

(* decryptRecords: the key of a principal's version, or of version 1, or   *)
(* any key of the map.                                                     *)
Wrapping(keys, mkvno) ==
    LET own == KeyOf(keys, mkvno)
        first == KeyOf(keys, 1)
    IN  {k.secret : k \in ToSet(IF own # << >> THEN own ELSE IF first # << >> THEN first ELSE keys)}

(* ParseWithMasterPassword succeeds if the keys chosen are the right ones, *)
(* whatever they are or by chance.                                         *)
Chosen(f, secret, n) == Wrapping(MasterKeys(f, Newest(f, secret)[1].key), f.principals[n].mkvno)
Opens(f, secret) ==
    /\ Parses(f) /\ Recovers(f, secret)
    /\ \A n \in DOMAIN f.principals : Chosen(f, secret, n) = {f.principals[n].under}
MayOpen(f, secret) ==
    /\ Parses(f) /\ Recovers(f, secret)
    /\ \A n \in DOMAIN f.principals : f.principals[n].under \in Chosen(f, secret, n)

Unsealed(f) ==
    [n \in DOMAIN f.principals |-> [mkvno |-> f.principals[n].mkvno, keyed |-> f.principals[n].keyed]]
loadMutable(f, newest) ==
    [keys |-> MasterKeys(f, newest), active |-> f.active, aux |-> f.aux,
     principals |-> Unsealed(f), flaws |-> f.flaws]

-----------------------------------------------------------------------------
(* The commands, as functions of the database they have loaded.            *)

(* Mutant: the aux data of the older keys is kept. *)
addMKeyKeepsAux(d, secret) ==
    LET key == Key(Max({0} \cup {k.kvno : k \in ToSet(d.keys)}) + 1, secret)
    IN  [d EXCEPT !.keys = <<key>> \o @, !.flaws = @ \ {"newest purged"}]

addMKey(d, secret) ==
    LET key == Key(Max({0} \cup {k.kvno : k \in ToSet(d.keys)}) + 1, secret)
    IN  [d EXCEPT !.keys = <<key>> \o @, !.aux = << >>, !.flaws = @ \ {"newest purged"},
                  !.active = IF @ = << >> THEN <<[kvno |-> key.kvno, at |-> 0]>> ELSE @]

(* useMKey: the activation times, in their order; one must have come.      *)
activated(d, kvno, at) ==
    LET others == SelectSeq(d.active, LAMBDA a : a.kvno # kvno)
    IN  SelectSeq(others, LAMBDA a : a.at <= at) \o <<[kvno |-> kvno, at |-> at]>>
          \o SelectSeq(others, LAMBDA a : a.at > at)

(* The last of the latest activations that have come, or 0.                *)
findActiveMKey(active, t) ==
    LET past == {i \in DOMAIN active : active[i].at <= t}
        latest == {i \in past : \A j \in past : active[j].at <= active[i].at}
    IN  IF past = {} THEN 0 ELSE active[Max(latest)].kvno

updatePrincipalEncryption(d, matched, kvno) ==
    [d EXCEPT !.principals =
        [n \in DOMAIN @ |-> IF n \in matched THEN [@[n] EXCEPT !.mkvno = kvno] ELSE @[n]]]

(* purgeMKeys keeps the versions some principal uses and the one supplied. *)
Used(d) ==
    {IF d.principals[n].mkvno = 0 THEN 1 ELSE d.principals[n].mkvno : n \in DOMAIN d.principals}
purgeable(d, supplied) ==
    /\ supplied \in Used(d)
    /\ \E k \in ToSet(d.keys) : k.kvno \notin Used(d)
purgeMKeys(d) ==
    LET kept == SelectSeq(d.keys, LAMBDA k : k.kvno \in Used(d))
    IN  [d EXCEPT !.keys = kept, !.active = SelectSeq(@, LAMBDA a : a.kvno \in Used(d)),
                  !.aux = SelectSeq(@, LAMBDA a : a.kvno \in Used(d)),
                  !.flaws = @ \cup (IF kept[1] # d.keys[1] THEN {"newest purged"} ELSE {})]

-----------------------------------------------------------------------------
Init ==
    /\ file = None /\ backup = None /\ local = None
    /\ tool = Idle /\ now = 1 /\ commands = 0

Started == commands < MaxCommands /\ commands' = commands + 1

(* createDB links the new dump to its name, which must be free.            *)
createDB(p) ==
    /\ Started /\ file = None
    /\ file' = DumpWithMasterKey([keys |-> << >>, active |-> << >>, aux |-> << >>, flaws |-> {},
                   principals |-> [n \in Created |-> [mkvno |-> 0, keyed |-> TRUE]]], p)
    /\ UNCHANGED <<backup, tool, local, now>>

destroyDB ==
    /\ Started /\ file # None /\ file' = None
    /\ UNCHANGED <<backup, tool, local, now>>

dumpDB ==
    /\ Started /\ file # None /\ backup' = file
    /\ UNCHANGED <<file, tool, local, now>>

(* loadDB: the copy is parsed, not decrypted.                              *)
loadDB ==
    /\ Started /\ Parses(backup) /\ file' = backup
    /\ UNCHANGED <<backup, tool, local, now>>

(* A command that changes the database reads it...                         *)
Read(p) ==
    /\ Started /\ tool = Idle /\ MayOpen(file, p)
    /\ LET newest == Newest(file, p)[1]
       IN  tool' = [pc |-> "read", db |-> loadMutable(file, newest.key),
                    supplied |-> newest.supplied, at |-> now]
    /\ UNCHANGED <<file, backup, local, now>>

(* ...and replaces it.  update_princ_encryption has chosen the active key  *)
(* before it asks for confirmation.                                        *)
Write(d) ==
    /\ file' = DumpWithMasterKey(d, d.keys[1].secret)
    /\ tool' = Idle
    /\ UNCHANGED <<backup, local, now, commands>>

WriteAdd == tool # Idle /\ \E p \in Passwords : Write(addMKey(tool.db, p))
WriteUse ==
    /\ tool # Idle
    /\ \E k \in ToSet(tool.db.keys), at \in 1..MaxNow :
         /\ activated(tool.db, k.kvno, at)[1].at <= now
         /\ Write([tool.db EXCEPT !.active = activated(tool.db, k.kvno, at)])
WriteUpdate ==
    /\ tool # Idle
    /\ LET kvno == findActiveMKey(tool.db.active, tool.at)
       IN  kvno # 0 /\ \E matched \in SUBSET Names : Write(updatePrincipalEncryption(tool.db, matched, kvno))
WritePurge == tool # Idle /\ purgeable(tool.db, tool.supplied) /\ Write(purgeMKeys(tool.db))

(* A refused, cancelled or killed command leaves no trace.                 *)
Stop == tool # Idle /\ tool' = Idle /\ UNCHANGED <<file, backup, local, now, commands>>

(* gokadmin.local keeps the principals and the key it was given, not the   *)
(* list of master keys, and rewrites the file after every change.          *)
loadLocalDatabase(p) ==
    /\ Started /\ MayOpen(file, p)
    /\ local' = [principals |-> Unsealed(file), secret |-> p]
    /\ UNCHANGED <<file, backup, tool, now>>

rewriteLocalDump(principals) ==
    /\ local' = [local EXCEPT !.principals = principals]
    /\ file' = DumpWithMasterKey([keys |-> << >>, active |-> << >>, aux |-> << >>, principals |-> principals,
                   flaws |-> IF \E n \in DOMAIN principals : principals[n].mkvno > 1 \/ ~principals[n].keyed
                             THEN {"local"} ELSE {}], local.secret)
    /\ UNCHANGED <<backup, tool, now>>

AddPrincipal ==
    /\ local # None /\ Started
    /\ \E n \in Names \ DOMAIN local.principals, keyed \in BOOLEAN :
         rewriteLocalDump([m \in DOMAIN local.principals \cup {n} |->
             IF m = n THEN [mkvno |-> 0, keyed |-> keyed] ELSE local.principals[m]])
DeletePrincipal ==
    /\ local # None /\ Started
    /\ \E n \in DOMAIN local.principals :
         rewriteLocalDump([m \in DOMAIN local.principals \ {n} |-> local.principals[m]])

Tick == now < MaxNow /\ now' = now + 1 /\ UNCHANGED <<file, backup, tool, local, commands>>

Next ==
    \/ \E p \in Passwords : createDB(p) \/ Read(p) \/ loadLocalDatabase(p)
    \/ destroyDB \/ dumpDB \/ loadDB
    \/ WriteAdd \/ WriteUse \/ WriteUpdate \/ WritePurge \/ Stop
    \/ AddPrincipal \/ DeletePrincipal
    \/ Tick

Spec == Init /\ [][Next]_vars

-----------------------------------------------------------------------------
(* Whatever the commands do and in whatever order their writes come, the   *)
(* dump opens with the newest master key it holds and, through its         *)
(* auxiliary data, with each older one, and every principal's keys         *)
(* decrypt: mitdump "recovers the newest key through MKEY_AUX when an      *)
(* older key is supplied, and selects each principal's wrapping key from   *)
(* its MKVNO" (docs/test-matrix.md:917).  Two cases are excepted: a file   *)
(* that gokadmin.local wrote with principals of a later version or without *)
(* keys, and older keys after purge_mkeys removed the newest.              *)
DumpRecoverable ==
    file # None /\ "local" \notin file.flaws =>
        /\ Opens(file, file.km[1].key.secret)
        /\ "newest purged" \notin file.flaws =>
             \A i \in DOMAIN file.km : Opens(file, file.km[i].key.secret)
=============================================================================
