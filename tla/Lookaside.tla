------------------------------ MODULE Lookaside -----------------------------
(***************************************************************************)
(* The lookaside cache that lets a server answer a retransmitted request   *)
(* with the response it sent before, krb5/kdc/lookaside.go and             *)
(* krb5/kpasswd/lookaside.go, and the handlers around it: one goroutine    *)
(* per datagram (and, in the KDC, per TCP request) that calls begin,       *)
(* processes the request if it is new, and calls complete.                 *)
(*                                                                         *)
(* The two packages differ in evictLocked: with nothing left to evict,     *)
(* kpasswd sets the size to zero, the KDC leaves it.                       *)
(*                                                                         *)
(* Requests and responses are abstracted to an identity and a length.  The *)
(* map entries of the code indexes queue by request.  lost is a history    *)
(* variable: the requests whose entry has left the cache.                  *)
(***************************************************************************)
EXTENDS Integers, Sequences, FiniteSetsExt, SequencesExt

CONSTANTS
    Requests,
    Workers,        \* handlers that run at the same time
    RequestLen,     \* length of a request
    ResponseLens,   \* lengths of the responses; 0 is an empty response
    MaxSize,        \* lookasideMaxSize
    StaleTime,      \* lookasideStaleTime
    MaxTime,        \* bound on the clock
    MaxApplied      \* bound on how often a request is processed

VARIABLES
    resetsSize, \* TRUE in kpasswd, FALSE in the KDC
    queue,      \* the entries, oldest first
    size,
    now,        \* the clock
    worker,     \* what each handler is doing
    applied,    \* how often each request was processed
    lost

vars == <<resetsSize, queue, size, now, worker, applied, lost>>

NoResponse == -1
Entry == [request : Requests, timeIn : 0..MaxTime,
          response : ResponseLens \cup {NoResponse}]
Idle == [state |-> "idle"]

Cache(q, s) == [queue |-> q, size |-> s]
Position(q, r) == {i \in DOMAIN q : q[i].request = r}
Length(e) == RequestLen + (IF e.response = NoResponse THEN 0 ELSE e.response)

removeLocked(c, i) ==
    Cache(RemoveAt(c.queue, i), Max({0, c.size - Length(c.queue[i])}))

(* The scan stops at the first entry that is not stale.                    *)
RECURSIVE expireLocked(_, _)
expireLocked(c, t) ==
    IF c.queue = << >> \/ t - Head(c.queue).timeIn < StaleTime THEN c
    ELSE expireLocked(removeLocked(c, 1), t)

RECURSIVE evictLocked(_)
evictLocked(c) ==
    IF c.size <= MaxSize THEN c
    ELSE IF c.queue = << >> THEN Cache(<< >>, IF resetsSize THEN 0 ELSE c.size)
    ELSE evictLocked(removeLocked(c, 1))

(* The requests that have an entry in one queue and none in another.       *)
Dropped(from, to) == {r \in Requests : Position(from, r) # {} /\ Position(to, r) = {}}

-----------------------------------------------------------------------------
Init ==
    /\ queue = << >>
    /\ size = 0
    /\ now = 0
    /\ worker = [w \in Workers |-> Idle]
    /\ applied = [r \in Requests |-> 0]
    /\ lost = {}
    /\ resetsSize \in BOOLEAN

Tick ==
    /\ now < MaxTime
    /\ now' = now + 1
    /\ UNCHANGED <<resetsSize, queue, size, worker, applied, lost>>

(* A request arrives.  Its handler reads the clock before it takes the     *)
(* lock of the cache.                                                      *)
Arrive(w) ==
    /\ worker[w] = Idle
    /\ \E r \in Requests :
          worker' = [worker EXCEPT ![w] = [state |-> "begin", request |-> r, time |-> now]]
    /\ UNCHANGED <<resetsSize, queue, size, now, applied, lost>>

(* Mutant: an entry in progress is not a hit. *)
beginInProgressMisses(w) ==
    /\ worker[w].state = "begin"
    /\ LET r == worker[w].request
           c == expireLocked(Cache(queue, size), worker[w].time)
           hit == \E i \in Position(c.queue, r) : c.queue[i].response # NoResponse
           e == [request |-> r, timeIn |-> worker[w].time, response |-> NoResponse]
           d == evictLocked(Cache(Append(c.queue, e), c.size + RequestLen))
       IN  /\ ~hit => applied[r] < MaxApplied
           /\ queue' = IF hit THEN c.queue ELSE d.queue
           /\ size' = IF hit THEN c.size ELSE d.size
           /\ applied' = IF hit THEN applied ELSE [applied EXCEPT ![r] = @ + 1]
           /\ lost' = lost \cup Dropped(queue, c.queue)
                           \cup (IF hit THEN {} ELSE Dropped(Append(c.queue, e), d.queue))
           /\ worker' = [worker EXCEPT ![w] =
                            IF hit THEN Idle ELSE [state |-> "process", request |-> r]]
    /\ UNCHANGED <<resetsSize, now>>

(* begin: a hit is answered (or dropped, while it is in progress), a miss  *)
(* reserves the request and processes it.                                  *)
begin(w) ==
    /\ worker[w].state = "begin"
    /\ LET r == worker[w].request
           c == expireLocked(Cache(queue, size), worker[w].time)
           hit == Position(c.queue, r) # {}
           e == [request |-> r, timeIn |-> worker[w].time, response |-> NoResponse]
           d == evictLocked(Cache(Append(c.queue, e), c.size + RequestLen))
       IN  /\ ~hit => applied[r] < MaxApplied
           /\ queue' = IF hit THEN c.queue ELSE d.queue
           /\ size' = IF hit THEN c.size ELSE d.size
           /\ applied' = IF hit THEN applied ELSE [applied EXCEPT ![r] = @ + 1]
           /\ lost' = lost \cup Dropped(queue, c.queue)
                           \cup (IF hit THEN {} ELSE Dropped(Append(c.queue, e), d.queue))
           /\ worker' = [worker EXCEPT ![w] =
                            IF hit THEN Idle ELSE [state |-> "process", request |-> r]]
    /\ UNCHANGED <<resetsSize, now>>

(* The request has been processed, with some response; the clock is read.  *)
Process(w) ==
    /\ worker[w].state = "process"
    /\ \E n \in ResponseLens :
          worker' = [worker EXCEPT ![w] =
                        [state |-> "complete", request |-> @.request,
                         time |-> now, response |-> n]]
    /\ UNCHANGED <<resetsSize, queue, size, now, applied, lost>>

(* complete: whatever entry the request has by now receives the response.  *)
complete(w) ==
    /\ worker[w].state = "complete"
    /\ LET n == worker[w].response
           c == expireLocked(Cache(queue, size), worker[w].time)
           at == Position(c.queue, worker[w].request)
           i == CHOOSE j \in at : TRUE
           d == IF at = {} THEN c
                ELSE IF n = 0 THEN removeLocked(c, i)
                ELSE evictLocked(Cache([c.queue EXCEPT ![i].response = n], c.size + n))
       IN  queue' = d.queue /\ size' = d.size /\ lost' = lost \cup Dropped(queue, d.queue)
    /\ worker' = [worker EXCEPT ![w] = Idle]
    /\ UNCHANGED <<resetsSize, now, applied>>

Next == Tick \/ \E w \in Workers : Arrive(w) \/ begin(w) \/ Process(w) \/ complete(w)

Spec == Init /\ [][Next]_vars

-----------------------------------------------------------------------------
(* The types of the variables: the accounted size never becomes negative.  *)
TypeOK ==
    /\ queue \in Seq(Entry)
    /\ size \in Nat
    /\ now \in 0..MaxTime
    /\ \A w \in Workers : worker[w].state \in {"idle", "begin", "process", "complete"}
    /\ applied \in [Requests -> 0..MaxApplied]
    /\ lost \subseteq Requests /\ resetsSize \in BOOLEAN

Bytes == SumFunction([i \in DOMAIN queue |-> Length(queue[i])])

(* The requests and responses held never exceed the limit, although size   *)
(* is kept by increments and decrements of handlers that lose and regain   *)
(* their entries.                                                          *)
MemoryBounded == Bytes <= MaxSize

(* The queue has one entry for each key of the map: removing an entry      *)
(* never removes the key of another.                                       *)
OneEntryPerRequest == \A r \in Requests : Cardinality(Position(queue, r)) <= 1

(* "retransmissions receive the original response without repeating the    *)
(* password change; requests still in progress are dropped silently"       *)
(* (docs/test-matrix.md:286): however many copies of a request come in,    *)
(* it is processed again only after its entry has left the cache, stale,   *)
(* evicted, or with an empty response.                                     *)
AppliedOnce == \A r \in Requests : applied[r] > 1 => r \in lost
=============================================================================
