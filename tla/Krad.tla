-------------------------------- MODULE Krad --------------------------------
(***************************************************************************)
(* OTP verification over RADIUS: RADIUSVerifier.Verify (krb5/otp), called  *)
(* from concurrent KDC handlers, and the RADIUS client they share          *)
(* (krb5/krad).  Datagrams to one address use one socket, which a caller   *)
(* holds for all its attempts; streams use a connection each.  The network *)
(* may lose and delay datagrams, so that an answer meets a later request.  *)
(*                                                                         *)
(* A request authenticator is a number no other request has.  Sixteen      *)
(* random octets and a shared secret make it so that only the server       *)
(* answers for it.                                                         *)
(***************************************************************************)
EXTENDS Naturals, Sequences, FiniteSets

CONSTANTS
    Callers,   \* handlers verifying a value at the same time
    Addresses, \* of RADIUS servers
    Setups,    \* each caller's tokens, what accepts them, the sockets and the retries
    MaxFaults  \* reads, writes and dials that fail in one behaviour

\* tokens: for each token of the principal, the addresses its server resolves
\* to (none when the lookup fails); accepts: the callers whose value a server at
\* that address accepts; ids: the request identifiers, 0..255 in the code
Setup == [tokens : [Callers -> Seq(Seq(Addresses))], accepts : [Addresses -> SUBSET Callers],
          stream : SUBSET Addresses, retries : Nat, ids : SUBSET (0..255)]

VARIABLES
    setup,
    call,      \* caller -> where its Verify stands
    ids,       \* identifiers reserved
    conns,     \* address -> the socket kept for it, if any
    closed,    \* sockets closed
    sockets, authenticators, faults,   \* how many there have been
    locks,     \* address -> the caller holding connectionLock
    requests,  \* requests on their way
    inbox      \* responses that have reached a socket
vars == <<setup, call, ids, conns, closed, sockets, authenticators, faults, locks, requests, inbox>>

Init ==
    /\ setup \in Setups
    /\ call = [c \in Callers |-> [pc |-> "next", token |-> 1, result |-> "none"]]
    /\ ids = {} /\ conns = [a \in Addresses |-> <<>>] /\ closed = {} /\ locks = [a \in Addresses |-> {}]
    /\ sockets = 0 /\ authenticators = 0 /\ faults = 0 /\ requests = {} /\ inbox = {}

address(c) == setup.tokens[c][call[c].token][call[c].at]
datagrams(c) == address(c) \notin setup.stream
-----------------------------------------------------------------------------
(* The client: Send for one token                                          *)

\* reserveID: upwards from an even start and downwards from an odd one,
\* then round the other end
least(S) == CHOOSE i \in S : \A j \in S : i <= j
greatest(S) == CHOOSE i \in S : \A j \in S : i >= j
after(start, used) ==
    LET free == setup.ids \ used
        up == {i \in free : i >= start}
        down == {i \in free : i <= start}
    IN IF start % 2 = 0 THEN (IF up # {} THEN least(up) ELSE least(free))
       ELSE IF down # {} THEN greatest(down) ELSE greatest(free)
Return(c, result) == call' = [call EXCEPT ![c] = [pc |-> "done", token |-> @.token, result |-> result]]

\* Verify goes through the tokens; it ends with an error when all
\* identifiers are taken
Verify(c, start) ==
    /\ call[c].pc = "next"
    /\ IF call[c].token > Len(setup.tokens[c]) \/ ids = setup.ids
       THEN /\ Return(c, IF call[c].token > Len(setup.tokens[c]) THEN "refused" ELSE "error")
            /\ UNCHANGED <<ids, authenticators>>
       ELSE /\ ids' = ids \cup {after(start, ids)}
            /\ authenticators' = authenticators + 1
            /\ call' = [call EXCEPT ![c] = [pc |-> "connect", token |-> @.token, result |-> "none", at |-> 1,
                                            id |-> after(start, ids), auth |-> authenticators + 1,
                                            conn |-> 0, attempt |-> 0]]
    /\ UNCHANGED <<setup, conns, closed, sockets, faults, locks, requests, inbox>>

\* The address has failed: the next one is tried, and after the last one
\* Send and Verify end with its error
Fail(c, held) ==
    /\ locks' = IF held THEN [locks EXCEPT ![address(c)] = {}] ELSE locks
    /\ IF call[c].at < Len(setup.tokens[c][call[c].token])
       THEN call' = [call EXCEPT ![c].pc = "connect", ![c].at = @ + 1] /\ UNCHANGED ids
       ELSE Return(c, "error") /\ ids' = ids \ {call[c].id}
\* The token's server resolves to no address
Unresolved(c) ==
    /\ call[c].pc = "connect" /\ setup.tokens[c][call[c].token] = <<>>
    /\ Return(c, "error") /\ ids' = ids \ {call[c].id}
    /\ UNCHANGED <<setup, conns, closed, sockets, authenticators, faults, locks, requests, inbox>>
\* connection: the socket kept for the address or a new one; a stream has
\* its own
Connect(c, ok) ==
    /\ call[c].pc = "connect" /\ setup.tokens[c][call[c].token] # <<>>
    /\ LET a == address(c)
           kept == datagrams(c) /\ conns[a] # <<>>
       IN IF ~ok
          THEN /\ ~kept /\ faults < MaxFaults /\ faults' = faults + 1
               /\ Fail(c, FALSE) /\ UNCHANGED <<conns, sockets>>
          ELSE /\ sockets' = IF kept THEN sockets ELSE sockets + 1
               /\ conns' = IF datagrams(c) /\ ~kept THEN [conns EXCEPT ![a] = <<sockets + 1>>] ELSE conns
               /\ call' = [call EXCEPT ![c].pc = IF datagrams(c) THEN "lock" ELSE "write",
                                       ![c].conn = IF kept THEN conns[a][1] ELSE sockets + 1, ![c].attempt = 0]
               /\ UNCHANGED <<ids, locks, faults>>
    /\ UNCHANGED <<setup, closed, authenticators, requests, inbox>>

\* sendDatagram holds the address for all attempts; the socket it was given
\* may have been closed since
Lock(c) ==
    /\ call[c].pc = "lock" /\ locks[address(c)] = {}
    /\ locks' = [locks EXCEPT ![address(c)] = {c}]
    /\ call' = [call EXCEPT ![c].pc = "write"]
    /\ UNCHANGED <<setup, ids, conns, closed, sockets, authenticators, faults, requests, inbox>>
\* forget: only the socket that is still kept is dropped and closed; a
\* stream is closed by its caller
forget(c) ==
    LET a == address(c)
        mine == conns[a] = <<call[c].conn>>
    IN /\ conns' = IF mine THEN [conns EXCEPT ![a] = <<>>] ELSE conns
       /\ closed' = IF mine THEN closed \cup {call[c].conn} ELSE closed
\* A write or a read that fails, as it does on a closed socket
Broken(c) ==
    /\ call[c].pc \in {"write", "read"}
    /\ IF call[c].conn \in closed THEN UNCHANGED faults ELSE faults < MaxFaults /\ faults' = faults + 1
    /\ forget(c)
    /\ Fail(c, datagrams(c))
    /\ UNCHANGED <<setup, sockets, authenticators, requests, inbox>>
Write(c) ==
    /\ call[c].pc = "write" /\ call[c].conn \notin closed
    /\ requests' = requests \cup {[conn |-> call[c].conn, at |-> address(c), id |-> call[c].id,
                                   auth |-> call[c].auth, of |-> c]}
    /\ call' = [call EXCEPT ![c].pc = "read"]
    /\ UNCHANGED <<setup, ids, conns, closed, sockets, authenticators, faults, locks, inbox>>

\* DecodeResponse: the response authenticator is computed over the request's
DecodeResponse(r, k) == r.auth = k.auth /\ r.id = k.id
\* Mutant: connectionLock is kept after an answer
TakenLocked(c, r) ==
    /\ IF r.code = "accept" THEN Return(c, "accepted")
       ELSE call' = [call EXCEPT ![c] = [pc |-> "next", token |-> @.token + 1, result |-> "none"]]
    /\ ids' = ids \ {call[c].id}
    /\ UNCHANGED locks
\* Verify stops at the first token that is accepted
Taken(c, r) ==
    /\ IF r.code = "accept" THEN Return(c, "accepted")
       ELSE call' = [call EXCEPT ![c] = [pc |-> "next", token |-> @.token + 1, result |-> "none"]]
    /\ ids' = ids \ {call[c].id}
    /\ locks' = IF datagrams(c) THEN [locks EXCEPT ![address(c)] = {}] ELSE locks
\* sendDatagram ignores what is not the answer until the attempt's deadline;
\* a stream carries the answer to its one request
Read(c, r) ==
    /\ call[c].pc = "read" /\ r.conn = call[c].conn /\ r.conn \notin closed
    /\ inbox' = inbox \ {r}
    /\ IF DecodeResponse(r, call[c]) THEN Taken(c, r)
       ELSE UNCHANGED <<call, ids, locks>>
    /\ UNCHANGED <<setup, conns, closed, sockets, authenticators, faults, requests>>
\* The attempt's share of the timeout has passed
Timeout(c) ==
    /\ call[c].pc = "read"
    /\ IF datagrams(c) /\ call[c].attempt < setup.retries
       THEN call' = [call EXCEPT ![c].pc = "write", ![c].attempt = @ + 1] /\ UNCHANGED <<ids, locks>>
       ELSE Fail(c, datagrams(c))
    /\ UNCHANGED <<setup, conns, closed, sockets, authenticators, faults, requests, inbox>>

-----------------------------------------------------------------------------
(* The RADIUS server and the network                                       *)

Respond(q) ==
    /\ requests' = requests \ {q}
    /\ inbox' = inbox \cup {[conn |-> q.conn, id |-> q.id, auth |-> q.auth,
                             code |-> IF q.of \in setup.accepts[q.at] THEN "accept" ELSE "reject"]}
    /\ UNCHANGED <<setup, call, ids, conns, closed, sockets, authenticators, faults, locks>>
Lose(q) ==
    /\ requests' = requests \ {q}
    /\ UNCHANGED <<setup, call, ids, conns, closed, sockets, authenticators, faults, locks, inbox>>

Step(c) ==
    \/ \E start \in setup.ids : Verify(c, start)
    \/ Unresolved(c) \/ \E ok \in BOOLEAN : Connect(c, ok)
    \/ Lock(c) \/ Write(c) \/ Broken(c) \/ Timeout(c) \/ \E r \in inbox : Read(c, r)
Next == (\E c \in Callers : Step(c)) \/ (\E q \in requests : Respond(q) \/ Lose(q))
\* A handler runs on and its deadlines pass; whoever waits for a lock gets it
Fairness == \A c \in Callers : WF_vars(Step(c))
Spec == Init /\ [][Next]_vars /\ Fairness

-----------------------------------------------------------------------------
(* Properties                                                              *)

pending(c) == call[c].pc \notin {"next", "done"}
\* A value is accepted only if a server of one of the caller's own tokens
\* accepted it, whatever late answers the shared socket still holds and
\* whichever identifier was used before (DecodeResponse, sendDatagram); and
\* requests in flight have identifiers of their own, which are given back
\* on every way out of Send (reserveID, releaseID).
AnswerIsOwn ==
    /\ \A c \in Callers : call[c].result = "accepted" =>
          \E k \in DOMAIN setup.tokens[c] : \E a \in DOMAIN setup.tokens[c][k] :
              c \in setup.accepts[setup.tokens[c][k][a]]
    /\ ids = {call[c].id : c \in {d \in Callers : pending(d)}}
    /\ \A c, d \in Callers : c # d /\ pending(c) /\ pending(d) => call[c].id # call[d].id

\* Every verification returns, although callers queue for one socket without
\* a deadline of their own (connectionLock).
VerificationEnds == \A c \in Callers : <>(call[c].pc = "done")
=============================================================================
