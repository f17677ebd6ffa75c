-------------------------------- MODULE Kcm ---------------------------------
(***************************************************************************)
(* Credential caches of type KCM: the daemon (kcm_server.go), one          *)
(* namespace of it, and callers with a handle and a connection each        *)
(* (kcm_client.go).                                                        *)
(*                                                                         *)
(* dispatchPeer looks a cache up under s.mu, lets go of the lock, and      *)
(* takes it again to act on the cache it found, which another request may  *)
(* have destroyed in between.  A client operation is one or several        *)
(* requests.  A daemon without Replace and GetCredList answers with an     *)
(* error that sends the client to other requests.                          *)
(*                                                                         *)
(* A cache name is an integer: 0 for "default", n > 0 for "unique<n>".     *)
(***************************************************************************)
EXTENDS Integers, Sequences, FiniteSets, SequencesExt

CONSTANTS Procs,
    Setups          \* [ops, names, principals, creds, calls, lists, faults]: what the
                    \* callers do, with what and how often, whether the daemon has
                    \* GetCredList and Replace, and how many requests or replies
                    \* are lost

VARIABLES
    setup,
    objects,        \* every kcmServerCache made
    caches,         \* ns.caches: name -> object
    uuids,          \* ns.uuids: uuid -> name
    defaultName, next,
    call,           \* per caller: the operation, and its requests still to make
    calls, faults,
    issued,         \* history: the credential each UUID was made for
    orphans         \* history: UUIDs of caches that a Destroy which had found an
                    \* earlier cache of the name took away

server == <<objects, caches, uuids, defaultName, next, issued, orphans>>
vars == <<setup, server, call, calls, faults>>

NoOne == "no principal"
Contents(principal, offset, creds) == [principal |-> principal, offset |-> offset, creds |-> creds]
Nothing == Contents(NoOne, 0, <<>>)

NoCall == [op |-> "none", name |-> 0, arg |-> Nothing, todo |-> <<>>, object |-> 0,
           got |-> Nothing, names |-> {}, missed |-> 0, result |-> "none", alone |-> FALSE, throughout |-> {}]

Init ==
    /\ setup \in Setups
    /\ objects = <<>> /\ caches = <<>> /\ uuids = <<>> /\ issued = <<>> /\ orphans = {}
    /\ defaultName = 0 /\ next = 0
    /\ call = [p \in Procs |-> NoCall] /\ calls = 0 /\ faults = 0

\* A function with one more, or one less, argument.
With(f, x, y) == [z \in DOMAIN f \cup {x} |-> IF z = x THEN y ELSE f[z]]
Without(f, x) == [z \in DOMAIN f \ {x} |-> f[z]]

Running(p) == call[p].todo # <<>>

-----------------------------------------------------------------------------
(* The client: an operation and the requests it makes.                     *)
Request(op, arg, uuid) == [op |-> op, arg |-> arg, uuid |-> uuid]
Plain(op) == Request(op, Nothing, 0)

\* kcmHandle.read, write and collection; the others are one request.
requests(op, arg) ==
    CASE op \in {"Read", "RemoveSupported"} ->
            <<Plain("GetPrincipal"), Plain("GetKDCOffset"), Plain("GetCredList")>>
      [] op = "Write"      -> <<Request("Replace", arg, 0)>>
      [] op = "Collection" -> <<Plain("GetCacheUUIDList"), Plain("GetDefaultCache")>>
      [] OTHER             -> <<Request(op, arg, 0)>>

Args(op) ==
    CASE op = "Initialize"   -> {Contents(p, 0, <<>>) : p \in setup.principals}
      [] op = "SetKDCOffset" -> {Contents(NoOne, 1, <<>>)}
      [] op = "Write"        -> {Contents(p, 1, SetToSeq(cs)) : p \in setup.principals, cs \in SUBSET setup.creds}
      [] op \in {"Store", "RemoveCred", "RemoveSupported"} -> {Contents(NoOne, 0, <<c>>) : c \in setup.creds}
      [] OTHER               -> {Nothing}

Start(p, op, name, arg) ==
    /\ ~Running(p)
    /\ calls < setup.calls /\ calls' = calls + 1
    /\ call' = [q \in Procs |->
                  IF q # p THEN [call[q] EXCEPT !.alone = FALSE]
                  ELSE [NoCall EXCEPT !.op = op, !.name = name, !.arg = arg,
                            !.todo = requests(op, arg), !.throughout = DOMAIN caches,
                            !.alone = \A r \in Procs : ~Running(r)]]
    /\ UNCHANGED <<setup, server, faults>>

\* The calls a property below looks back on.
Checked == {"Read", "Write", "RemoveSupported", "Collection"}

Begin(p) == \E op \in setup.ops, name \in setup.names : \E arg \in Args(op) : Start(p, op, name, arg)

finished(c, result) ==
    IF result = "ok" /\ c.op \in Checked
    THEN [c EXCEPT !.result = result, !.todo = <<>>, !.object = 0]
    ELSE [NoCall EXCEPT !.result = result]

\* The client goes on with the requests todo, and returns after the last.
continues(c, todo) ==
    IF todo = <<>> THEN finished(c, "ok") ELSE [c EXCEPT !.todo = todo, !.object = 0]

\* Handle.Remove with MITMatchSupportedKTypes: read, removeCredentials, write.
remaining(c) == SelectSeq(c.got.creds, LAMBDA x : x # c.arg.creds[1])

afterRead(c) ==
    IF c.op = "Read" THEN finished(c, "ok")
    ELSE IF remaining(c) = c.got.creds THEN finished(c, "error")
    ELSE continues(c, <<Request("Replace", [c.got EXCEPT !.creds = remaining(c)], 0)>>)

\* unsupportedKCM: the requests of older daemons.
instead(c, r) ==
    IF r.op = "GetCredList" THEN continues(c, <<Plain("GetCredUUIDList")>>)
    ELSE continues(c, <<Request("Initialize", r.arg, 0)>>
                        \o [i \in DOMAIN r.arg.creds |->
                              Request("Store", [r.arg EXCEPT !.creds = <<@[i]>>], 0)])


\* The first request of c ends in an error: read goes on without the offset,
\* collection without that cache, and any other call returns the error.
Ignored == {"GetKDCOffset", "GetCacheByUUID"}
fails(c) ==
    IF Head(c.todo).op \in Ignored THEN continues([c EXCEPT !.missed = @ + 1], Tail(c.todo))
    ELSE finished(c, "error")

Breaks(p) ==
    /\ faults < setup.faults /\ faults' = faults + 1
    /\ call' = [call EXCEPT ![p] = fails(@)]
\* The answer reaches the client, or is lost with the connection.
Answer(p, c) == (call' = [call EXCEPT ![p] = c] /\ UNCHANGED faults) \/ Breaks(p)
\* The connection fails before the request is sent; the next one dials again.
Unsent(p) == Running(p) /\ call[p].object = 0 /\ Breaks(p) /\ UNCHANGED <<setup, server, calls>>

-----------------------------------------------------------------------------
(* The daemon: requests that name no cache, under s.mu.                    *)
ensured(name, n) ==
    /\ objects' = Append(objects, [uuid |-> n, has |-> Nothing, credUUIDs |-> <<>>])
    /\ caches' = With(caches, name, Len(objects'))
    /\ uuids' = With(uuids, n, name)
    /\ next' = n

\* GenNew and its ensure count next up once each.
GenNew(p) ==
    /\ Running(p) /\ Head(call[p].todo).op = "GenNew"
    /\ IF next + 1 \in DOMAIN caches
       THEN next' = next + 1 /\ UNCHANGED <<objects, caches, uuids>>
       ELSE ensured(next + 1, next + 2)
    /\ Answer(p, finished(call[p], "ok"))
    /\ UNCHANGED <<setup, defaultName, issued, orphans, calls>>

Unnamed == {"GenNew", "GetCacheUUIDList", "GetDefaultCache", "GetCacheByUUID"}

\* kcmHandle.collection asks for the name of every UUID of the list; a UUID
\* that is gone by then is passed over.
collected(c, r, todo) ==
    CASE r.op = "GetCacheUUIDList" ->
            continues(c, todo \o [i \in 1..Cardinality(DOMAIN uuids) |->
                                    Request("GetCacheByUUID", Nothing, SetToSeq(DOMAIN uuids)[i])])
      [] r.op = "GetDefaultCache" -> continues([c EXCEPT !.names = {defaultName}], todo)
      [] OTHER ->
            continues([c EXCEPT !.names = @ \cup (IF r.uuid \in DOMAIN uuids THEN {uuids[r.uuid]}
                                                  ELSE {})], todo)

Lists(p) ==
    /\ Running(p) /\ Head(call[p].todo).op \in Unnamed \ {"GenNew"}
    /\ Answer(p, collected(call[p], Head(call[p].todo), Tail(call[p].todo)))
    /\ UNCHANGED <<setup, server, calls>>

-----------------------------------------------------------------------------
(* The daemon: the other requests, first the lookup, then the act.         *)
NewerRequests == {"GetCredList", "Replace"}

Lookup(p) ==
    LET c == call[p]
        r == Head(c.todo)
    IN  /\ Running(p) /\ c.object = 0 /\ r.op \notin Unnamed
        /\ IF r.op \in NewerRequests /\ ~setup.lists
           THEN Answer(p, instead(c, r)) /\ UNCHANGED server
           ELSE IF c.name \in DOMAIN caches
           THEN call' = [call EXCEPT ![p].object = caches[c.name]] /\ UNCHANGED <<server, faults>>
           ELSE IF r.op \in {"Initialize", "Replace"}
           THEN /\ ensured(c.name, next + 1)
                /\ call' = [call EXCEPT ![p].object = Len(objects')]
                /\ UNCHANGED <<defaultName, issued, orphans, faults>>
           ELSE Answer(p, fails(c)) /\ UNCHANGED server
        /\ UNCHANGED <<setup, calls>>

\* What the client makes of the answer to a request that only reads.
read(c, r, todo, o) ==
    CASE r.op = "GetPrincipal" ->
            IF o.has.principal = NoOne THEN finished(c, "error")
            ELSE continues([c EXCEPT !.got.principal = o.has.principal], todo)
      [] r.op = "GetKDCOffset" -> continues([c EXCEPT !.got.offset = o.has.offset], todo)
      [] r.op = "GetCredList" -> afterRead([c EXCEPT !.got.creds = o.has.creds])
      [] r.op = "GetCredUUIDList" ->
            IF o.credUUIDs = <<>> THEN afterRead(c)
            ELSE continues(c, [i \in DOMAIN o.credUUIDs |->
                                 Request("GetCredByUUID", Nothing, o.credUUIDs[i])])
      [] r.op = "GetCredByUUID" ->
            LET at == {i \in DOMAIN o.credUUIDs : o.credUUIDs[i] = r.uuid}
                d == [c EXCEPT !.got.creds = Append(@, o.has.creds[CHOOSE i \in at : TRUE])]
            IN  IF at = {} THEN finished(c, "error")
                ELSE IF todo = <<>> THEN afterRead(d) ELSE continues(d, todo)

Reads == {"GetPrincipal", "GetKDCOffset", "GetCredList", "GetCredUUIDList", "GetCredByUUID"}

Get(p) ==
    /\ Running(p) /\ call[p].object # 0 /\ Head(call[p].todo).op \in Reads
    /\ Answer(p, read(call[p], Head(call[p].todo), Tail(call[p].todo), objects[call[p].object]))
    /\ UNCHANGED <<setup, server, calls>>

\* nextCredentialUUID for each of creds: the object gets them, after those it
\* keeps.
Stored(x, o, keep, creds) ==
    /\ objects' = [objects EXCEPT ![x] =
                     [o EXCEPT !.has.creds = keep \o creds,
                               !.credUUIDs = SubSeq(@, 1, Len(keep)) \o
                                             [i \in DOMAIN creds |-> next + i]]]
    /\ next' = next + Len(creds)
    /\ issued' = [u \in 1..next' |-> IF u > next THEN creds[u - next]
                                     ELSE IF u \in DOMAIN issued THEN issued[u] ELSE NoOne]

\* The positions that credentialMatches leaves.
Left(o, cred) == SelectSeq([i \in DOMAIN o.has.creds |-> i], LAMBDA i : o.has.creds[i] # cred)

\* Mutant: the last UUIDs go, whichever credentials do
removeLast(o, left) ==
    [o EXCEPT !.has.creds = [i \in DOMAIN left |-> o.has.creds[left[i]]],
              !.credUUIDs = SubSeq(@, 1, Len(left))]

removeCred(o, left) ==
    [o EXCEPT !.has.creds = [i \in DOMAIN left |-> o.has.creds[left[i]]],
              !.credUUIDs = [i \in DOMAIN left |-> o.credUUIDs[left[i]]]]

Change(p) ==
    LET c == call[p]
        r == Head(c.todo)
        x == c.object
        o == objects[x]
        done == continues(c, Tail(c.todo))
    IN  /\ Running(p) /\ x # 0
        /\ \/ /\ r.op = "Initialize"
              /\ objects' = [objects EXCEPT ![x] =
                   [@ EXCEPT !.has = Contents(r.arg.principal, 0, <<>>), !.credUUIDs = <<>>]]
              /\ Answer(p, done) /\ UNCHANGED <<defaultName, next, issued>>
           \/ /\ r.op = "Store" /\ Stored(x, o, o.has.creds, r.arg.creds)
              /\ Answer(p, done) /\ UNCHANGED defaultName
           \/ /\ r.op = "Replace"
              /\ Stored(x, [o EXCEPT !.has = r.arg], <<>>, r.arg.creds)
              /\ Answer(p, done) /\ UNCHANGED defaultName
           \/ /\ r.op = "RemoveCred"
              /\ objects' = [objects EXCEPT ![x] = removeCred(o, Left(o, r.arg.creds[1]))]
              /\ Answer(p, finished(c, IF Len(Left(o, r.arg.creds[1])) = Len(o.has.creds)
                                       THEN "error" ELSE "ok"))
              /\ UNCHANGED <<defaultName, next, issued>>
           \/ /\ r.op = "SetKDCOffset"
              /\ objects' = [objects EXCEPT ![x].has.offset = r.arg.offset]
              /\ Answer(p, done) /\ UNCHANGED <<defaultName, next, issued>>
           \/ /\ r.op = "SetDefault"
              /\ defaultName' = c.name
              /\ Answer(p, done) /\ UNCHANGED <<objects, next, issued>>
        /\ UNCHANGED <<setup, caches, uuids, orphans, calls>>

\* The name goes, whatever it now refers to, and the UUID of the cache found.
\* History: a collection under way need no longer list the name, and the UUID
\* of a cache that took the place of the one found stays behind.
Destroy(p) ==
    LET c == call[p]
    IN  /\ Running(p) /\ c.object # 0 /\ Head(c.todo).op = "Destroy"
        /\ caches' = Without(caches, c.name)
        /\ uuids' = Without(uuids, objects[c.object].uuid)
        /\ orphans' = IF c.name \in DOMAIN caches /\ caches[c.name] # c.object
                      THEN orphans \cup {objects[caches[c.name]].uuid} ELSE orphans
        /\ defaultName' = IF defaultName = c.name THEN 0 ELSE defaultName
        /\ call' = [q \in Procs |-> IF q = p THEN finished(c, "ok")
                                    ELSE [call[q] EXCEPT !.throughout = @ \ {c.name}]]
        /\ UNCHANGED <<setup, objects, next, issued, calls, faults>>

Next ==
    \E p \in Procs :
        Begin(p) \/ Unsent(p) \/ GenNew(p) \/ Lists(p) \/ Lookup(p) \/ Get(p) \/ Change(p) \/ Destroy(p)

Spec == Init /\ [][Next]_vars

-----------------------------------------------------------------------------
\* GetCacheUUIDList: every cache is in the index under its own UUID, so no
\* cache drops out of the collection when a request acts on a destroyed one.
\* Every UUID of the index is that of a cache, but for the caches that a Destroy
\* of an earlier one removed by their name (kcm_server.go:276).
Indexed ==
    /\ \A n \in DOMAIN caches :
          LET u == objects[caches[n]].uuid IN u \in DOMAIN uuids /\ uuids[u] = n
    /\ \A u \in DOMAIN uuids \ orphans :
          uuids[u] \in DOMAIN caches /\ objects[caches[uuids[u]]].uuid = u

\* GetCredByUUID: a credential UUID never comes to name another credential,
\* whatever was stored, removed or replaced since it was listed.
UUIDsStable ==
    \A i \in DOMAIN objects :
        /\ Len(objects[i].credUUIDs) = Len(objects[i].has.creds)
        /\ \A k \in DOMAIN objects[i].credUUIDs :
              issued[objects[i].credUUIDs[k]] = objects[i].has.creds[k]

\* Collection: a cache that was there from the beginning of the call to its
\* end is in the answer, but for one with each GetCacheByUUID that failed and
\* was passed over (kcm_client.go:545).
CollectionComplete ==
    \A p \in Procs : call[p].op = "Collection" /\ call[p].result = "ok"
                     => Cardinality(call[p].throughout \ call[p].names) <= call[p].missed

\* Read, Write and Remove, through the newer requests or the older ones: a
\* call that no other overlapped returns, or leaves behind, exactly what it
\* says.  The offset is not written by the older requests, and it is read as
\* zero when the request for it failed (kcm_client.go:140).
AloneExact ==
    \A p \in Procs :
        LET c == call[p]
            has == objects[caches[c.name]].has
        IN  c.alone /\ ~Running(p) /\ c.result = "ok" =>
              /\ c.op = "Read" => c.got = IF c.missed = 0 THEN has ELSE [has EXCEPT !.offset = 0]
              /\ c.op = "Write" => /\ has.principal = c.arg.principal /\ has.creds = c.arg.creds
                                   /\ setup.lists => has.offset = c.arg.offset
              /\ c.op = "RemoveSupported" => has.creds = remaining(c)

KcmSound == Indexed /\ UUIDsStable /\ CollectionComplete /\ AloneExact
=============================================================================
