------------------------------- MODULE CCache -------------------------------
(***************************************************************************)
(* One credential cache of type FILE (a DIR subsidiary is one) or MEMORY,  *)
(* krb5/ccache, used by several callers with a handle each.                *)
(*                                                                         *)
(* What a name refers to is an object: the inode behind the path, or the   *)
(* memoryCache in the map.  os.Remove unlinks the inode and the next       *)
(* create makes another one, so a caller that holds an open file or an old *)
(* handle goes on with the object it has.  Store and Remove of a file are  *)
(* Read, change and Write under flock; Read, Write and Destroy take no     *)
(* lock.  A MEMORY operation holds memoryMu and is one step.               *)
(***************************************************************************)
EXTENDS Integers, Sequences, FiniteSets

CONSTANTS Procs,
    Setups,         \* the type of the cache, its credentials [server, enctype]
                    \* and the numbers of calls, and of crashes and failing
                    \* writes: [kind, creds, calls, faults]
    Supported,      \* enctypes of the crypto registry
    Order           \* the configured enctypes, best first

VARIABLES
    setup,
    objects,        \* [state, creds]: "empty" or cut within a credential, "part"
                    \* written up to the end of one, "whole", "destroyed"
    current,        \* the object of the name, 0 if it has none
    handle,         \* per caller: Handle.memory
    call,           \* per caller: the operation under way
    lock,           \* the caller that holds the flock
    calls, breaks,
    serial,         \* history: the contents if the mutations ran one by one
    clean           \* history: no unlocked mutation overlapped another

vars == <<setup, objects, current, handle, call, lock, calls, breaks, serial, clean>>

None == {[server |-> "none", enctype |-> 0]}     \* the contents of no cache
Nobody == "nobody"

Idle == [op |-> "none", at |-> "done", arg |-> None, by |-> FALSE,
         ref |-> 0, copy |-> {}, result |-> "none", seen |-> {}]

kind == setup.kind

Object(state, creds) == [state |-> state, creds |-> creds]

Init ==
    /\ setup \in Setups
    /\ \E start \in {None, {}} :
          /\ objects = IF start = None /\ kind = "FILE" THEN <<>>
                       ELSE <<Object(IF start = None THEN "empty" ELSE "whole", {})>>
          /\ current = Len(objects)
          /\ serial = start
    /\ handle = [p \in Procs |-> current]
    /\ call = [p \in Procs |-> Idle]
    /\ lock = Nobody /\ calls = 0 /\ breaks = 0 /\ clean = TRUE

-----------------------------------------------------------------------------
(* Matching.  A match is a server and whether MITMatchSupportedKTypes is   *)
(* set.                                                                    *)
credentialMatchesMIT(c, match, by) ==
    c.server = match.server /\ (by => c.enctype \in Supported)

\* The configured enctypes that the registry has, the best first.
rank(c) == {i \in DOMAIN Order : Order[i] = c.enctype /\ Order[i] \in Supported}

\* The candidates for the answer: every match, since the contents here have
\* no order, or with MITMatchSupportedKTypes those of the best enctype.
retrieveCredentialsWithOrder(creds, match, by) ==
    LET found == {c \in creds : credentialMatchesMIT(c, match, by)}
        ranked == {c \in found : rank(c) # {}}
    IN  IF by THEN {c \in ranked : \A d \in ranked : \E i \in rank(c) : \A j \in rank(d) : i <= j}
        ELSE found

removed(creds, match, by) == {c \in creds : ~credentialMatchesMIT(c, match, by)}

\* What an operation makes of the contents; Destroy leaves none.
applied(c, creds) ==
    CASE c.op = "Store"   -> IF creds = None THEN None ELSE creds \cup c.arg
      [] c.op = "Remove"  -> IF creds = None THEN None
                             ELSE removed(creds, CHOOSE m \in c.arg : TRUE, c.by)
      [] c.op = "Write"   -> c.arg
      [] c.op = "Destroy" -> None

\* removeCredentials: errCredentialNotFound.
removesNothing(c, creds) == c.op = "Remove" /\ applied(c, creds) = creds

Locked == {"Store", "Remove"}
Mutations == {"Store", "Remove", "Write", "Destroy"}

busy(p) == call[p].at # "done"
mutating(p) == busy(p) /\ call[p].op \in Mutations

-----------------------------------------------------------------------------
(* A caller starts an operation.                                           *)
first(op) == IF op \in Locked THEN "lock"
             ELSE IF op \in {"Read", "Retrieve"} THEN "open" ELSE "unlink"

\* An unlocked mutation of a file that overlaps another one is not clean.
overlaps(p, op) ==
    /\ kind = "FILE" /\ op \in Mutations
    /\ \E q \in Procs \ {p} : mutating(q) /\ ~({op, call[q].op} \subseteq Locked)

\* A file cut between two credentials parses, with those before the cut.
parses(o) == o.state \in {"part", "whole"}

\* The contents under the name.
contents ==
    IF current = 0 THEN None ELSE IF parses(objects[current]) THEN objects[current].creds ELSE None

\* What a reader may find from now on: the contents, and what is being written.
visible == {contents} \cup {call[q].copy : q \in {r \in Procs : call[r].at = "write"}}

Start(p, op, arg, by) ==
    /\ ~busy(p)
    /\ calls < setup.calls /\ calls' = calls + 1
    /\ call' = [call EXCEPT ![p] = [Idle EXCEPT !.op = op, !.arg = arg, !.by = by,
                                        !.at = IF kind = "FILE" THEN first(op) ELSE "run",
                                        !.seen = IF op \in Mutations THEN {} ELSE visible]]
    /\ clean' = (clean /\ ~overlaps(p, op))
    /\ UNCHANGED <<setup, objects, current, handle, lock, breaks, serial>>

Begin(p) ==
    \/ \E c \in setup.creds : Start(p, "Store", {c}, FALSE)
    \/ \E c \in setup.creds, by \in BOOLEAN, op \in {"Remove", "Retrieve"} : Start(p, op, {c}, by)
    \/ \E cs \in SUBSET setup.creds : Cardinality(cs) <= 1 /\ Start(p, "Write", cs, FALSE)
    \/ \E op \in {"Read", "Destroy"} : Start(p, op, {}, FALSE)

\* Caller p goes on with c; the calls under way may see the contents creds.
Shown(p, c, creds) ==
    call' = [q \in Procs |-> IF q = p THEN c
                             ELSE IF busy(q) /\ ~mutating(q) THEN [call[q] EXCEPT !.seen = @ \cup {creds}]
                             ELSE call[q]]

\* The operation takes effect.
Effect(p, c, creds) == serial' = applied(call[p], serial) /\ Shown(p, c, creds)

Returns(p, result) == [Idle EXCEPT !.op = call[p].op, !.result = result]

Return(p, result) == call' = [call EXCEPT ![p] = Returns(p, result)]

\* What Retrieve makes of the contents read.
outcome(c, creds) ==
    IF c.op = "Retrieve"
    THEN retrieveCredentialsWithOrder(creds, CHOOSE m \in c.arg : TRUE, c.by)
    ELSE creds

Delivered(p, creds) ==
    [call[p] EXCEPT !.at = "done", !.copy = outcome(call[p], creds),
        !.result = IF call[p].op = "Retrieve" /\ outcome(call[p], creds) = {}
                   THEN "error" ELSE "ok"]

-----------------------------------------------------------------------------
(* FILE: modifyCache, Read, Write and Destroy, a system call a step.       *)
\* Mutant: the file is not locked
lockNothing(p) ==
    /\ call[p].at = "lock"
    /\ call' = [call EXCEPT ![p].at = "open"]
    /\ UNCHANGED <<setup, objects, current, handle, lock, calls, breaks, serial, clean>>
lockCachePath(p) ==
    /\ call[p].at = "lock" /\ lock = Nobody
    /\ lock' = p
    /\ call' = [call EXCEPT ![p].at = "open"]
    /\ UNCHANGED <<setup, objects, current, handle, calls, breaks, serial, clean>>

unlock(p) == lock' = IF lock = p THEN Nobody ELSE lock

Fails(p) == Return(p, "error") /\ unlock(p)

Open(p) ==
    /\ call[p].at = "open"
    /\ IF current = 0 THEN Fails(p)
       ELSE call' = [call EXCEPT ![p].ref = current, ![p].at = "read"] /\ UNCHANGED lock
    /\ UNCHANGED <<setup, objects, current, handle, calls, breaks, serial, clean>>

ReadFile(p) ==
    /\ call[p].at = "read"
    /\ LET o == objects[call[p].ref]
       IN  IF ~parses(o) \/ removesNothing(call[p], o.creds) THEN Fails(p)
           ELSE /\ IF call[p].op \in Locked
                   THEN call' = [call EXCEPT ![p].copy = applied(call[p], o.creds), ![p].at = "unlink"]
                   ELSE call' = [call EXCEPT ![p] = Delivered(p, o.creds)]
                /\ UNCHANGED lock
    /\ UNCHANGED <<setup, objects, current, handle, calls, breaks, serial, clean>>

Unlink(p) ==
    /\ call[p].at = "unlink"
    /\ current' = 0
    /\ IF call[p].op # "Destroy"
       THEN /\ call' = [call EXCEPT ![p].at = "create", ![p].copy =
                            IF call[p].op = "Write" THEN call[p].arg ELSE @]
            /\ UNCHANGED serial
       ELSE IF current = 0 THEN Return(p, "error") /\ UNCHANGED serial
       ELSE Effect(p, Returns(p, "ok"), None)
    /\ UNCHANGED <<setup, objects, handle, lock, calls, breaks, clean>>

\* O_EXCL: another writer was faster.
Create(p) ==
    /\ call[p].at = "create"
    /\ IF current # 0
       THEN Fails(p) /\ UNCHANGED <<objects, current>>
       ELSE /\ objects' = Append(objects, Object("empty", {}))
            /\ current' = Len(objects')
            /\ call' = [call EXCEPT ![p].ref = current', ![p].at = "write"]
            /\ UNCHANGED lock
    /\ UNCHANGED <<setup, handle, calls, breaks, serial, clean>>

\* The one write of the encoded cache; a reader may come in the middle of it.
WritePart(p) ==
    /\ call[p].at = "write" /\ objects[call[p].ref].state = "empty"
    /\ \E c \in call[p].copy :
          objects' = [objects EXCEPT ![call[p].ref] = Object("part", {c})]
    /\ Shown(p, call[p], call[p].copy)
    /\ UNCHANGED <<setup, current, handle, lock, calls, breaks, serial, clean>>

WriteFile(p) ==
    /\ call[p].at = "write"
    /\ objects' = [objects EXCEPT ![call[p].ref] = Object("whole", call[p].copy)]
    /\ Effect(p, Returns(p, "ok"), call[p].copy)
    /\ unlock(p)
    /\ UNCHANGED <<setup, current, handle, calls, breaks, clean>>

\* A file change ends early.  Once the old file is unlinked what remains of
\* the contents is what parses of the new one.
CutShort(p, result) ==
    /\ kind = "FILE" /\ breaks < setup.faults /\ breaks' = breaks + 1
    /\ Return(p, result) /\ unlock(p)
    /\ serial' = CASE call[p].at = "create" -> None
                   [] call[p].at = "write" ->
                        IF parses(objects[call[p].ref]) THEN objects[call[p].ref].creds ELSE None
                   [] OTHER -> serial
    /\ UNCHANGED <<setup, objects, current, handle, calls, clean>>
\* The lock, os.Remove, os.OpenFile, the encoder or the write fails.
WriteFails(p) == call[p].at \in {"lock", "unlink", "create", "write"} /\ CutShort(p, "error")
\* The process dies; the kernel drops its lock and keeps what it wrote.
Crash(p) == busy(p) /\ CutShort(p, "crashed")

-----------------------------------------------------------------------------
(* MEMORY.                                                                 *)
\* resolveMemory: the object of the map, made if there is none.
resolveMemory(p) ==
    /\ kind = "MEMORY" /\ ~busy(p)
    /\ calls < setup.calls /\ calls' = calls + 1
    /\ IF current # 0 THEN UNCHANGED <<objects, current>>
       ELSE objects' = Append(objects, Object("empty", {})) /\ current' = Len(objects')
    /\ handle' = [handle EXCEPT ![p] = current']
    /\ UNCHANGED <<setup, call, lock, breaks, serial, clean>>

\* Only what happens to the object of the map is seen under the name.
EffectOn(p, c) ==
    IF handle'[p] = current' THEN Effect(p, c, serial')
    ELSE call' = [call EXCEPT ![p] = c] /\ UNCHANGED serial

Memory(p) ==
    LET o == objects[handle[p]]
        n == Len(objects) + 1
    IN  /\ call[p].at = "run"
        /\ CASE call[p].op \in {"Read", "Retrieve"} ->
                  /\ IF o.state # "whole" THEN Return(p, "error")
                     ELSE call' = [call EXCEPT ![p] = [Delivered(p, o.creds) EXCEPT
                                                           !.ref = IF handle[p] = current THEN current ELSE 0]]
                  /\ UNCHANGED <<objects, current, handle, serial>>
             [] call[p].op = "Write" ->
                  /\ IF o.state = "destroyed"
                     THEN /\ objects' = Append(objects, Object("whole", call[p].arg))
                          /\ current' = n
                          /\ handle' = [handle EXCEPT ![p] = n]
                     ELSE /\ objects' = [objects EXCEPT ![handle[p]] = Object("whole", call[p].arg)]
                          /\ UNCHANGED <<current, handle>>
                  /\ EffectOn(p, Returns(p, "ok"))
             [] call[p].op \in Locked ->
                  /\ UNCHANGED <<current, handle>>
                  /\ IF o.state # "whole" \/ removesNothing(call[p], o.creds)
                     THEN Return(p, "error") /\ UNCHANGED <<objects, serial>>
                     ELSE /\ objects' = [objects EXCEPT ![handle[p]].creds = applied(call[p], @)]
                          /\ EffectOn(p, Returns(p, "ok"))
             [] call[p].op = "Destroy" ->
                  /\ UNCHANGED handle
                  /\ IF current = handle[p] /\ current # 0
                     THEN /\ objects' = [objects EXCEPT ![handle[p]] = Object("destroyed", {})]
                          /\ current' = 0
                          /\ Effect(p, Returns(p, "ok"), None)
                     ELSE Return(p, "ok") /\ UNCHANGED <<objects, current, serial>>
        /\ UNCHANGED <<setup, lock, calls, breaks, clean>>

-----------------------------------------------------------------------------
Next ==
    \E p \in Procs :
        \/ Begin(p) \/ lockCachePath(p) \/ Open(p) \/ ReadFile(p) \/ Unlink(p)
        \/ Create(p) \/ WritePart(p) \/ WriteFile(p) \/ WriteFails(p) \/ Crash(p)
        \/ resolveMemory(p) \/ Memory(p)

Spec == Init /\ [][Next]_vars

-----------------------------------------------------------------------------
\* Store, Remove, Write, Destroy: what the name refers to is the outcome of
\* the operations one after the other, so no Store is lost to another Store
\* or Remove of the file, whatever the callers' handles.  A change of a file
\* that fails or crashes after it has unlinked the old one (types.go:296)
\* leaves none, or the first of the credentials it was writing, and the next
\* operations go on from there.  Only an unlocked Write or Destroy that
\* overlaps another change of the file is excepted.
Serial == clean /\ (\A p \in Procs : ~mutating(p)) => contents = serial

\* Read and Retrieve, unless the handle is stale (ref 0), return only
\* credentials that were under the name, or on their way into the file, while
\* the call was under way, whatever overlaps, fails or crashes.
ReadsHeld ==
    \A p \in Procs :
        call[p].op \in {"Read", "Retrieve"} /\ call[p].result = "ok" /\ call[p].ref # 0
        => call[p].copy \subseteq UNION (call[p].seen \ {None})

CacheSound == Serial /\ ReadsHeld
=============================================================================
