------------------------------- MODULE Kpasswd -------------------------------
(***************************************************************************)
(* The password-change protocol (krb5/kpasswd): callers that send one      *)
(* packet each, over UDP or over TCP, and the server, whose handlers run   *)
(* concurrently.  UDP may lose, delay and duplicate a packet; a UDP        *)
(* handler first asks the lookaside cache, a TCP handler does not, and     *)
(* both verify the AP-REQ against the replay cache of the ap package.      *)
(*                                                                         *)
(* A packet is known by the call that made it, and what decides the        *)
(* server's answer is an attribute of the call.  No time passes here: a    *)
(* packet is delivered while the replay cache keeps its authenticator, and *)
(* how long that is, module GssContext says; the lookaside cache may lose  *)
(* any entry to age or size (module Lookaside).                            *)
(***************************************************************************)
EXTENDS Naturals, FiniteSets, TLAPS

CONSTANTS
    Calls,          \* the calls made
    Requests,       \* what a call may ask for
    Handlers,       \* concurrent handlers of the server
    MaxDeliveries   \* times the network delivers one datagram

\* version is the protocol's, "old" what neither side speaks; self: the
\* caller is the target; initial: the ticket came from the password; fresh:
\* the private part's time is within skew at the server; sound: it decodes;
\* acl: the server's ACL admits the caller; found: the target exists;
\* policy: what ChangePasswordWithPolicy says
Request == [via : {"udp", "tcp"}, version : {"change", "set", "old"}, self : BOOLEAN, initial : BOOLEAN,
            fresh : BOOLEAN, sound : BOOLEAN, acl : BOOLEAN, found : BOOLEAN,
            policy : {"ok", "missing", "soft", "hard"}]

VARIABLES
    req,        \* call -> its request
    state,      \* call -> "new", "waiting" or what the caller was told
    sent,       \* call -> copies of its packet the network may still deliver
    lookaside,  \* lookasideCache: call -> "none", "reserved" or the reply kept
    replays,    \* authenticators in the replay cache
    handler,    \* handler -> the packet it works on
    replies,    \* replies on the network: of a call, with a code
    changed     \* call -> how often the password was changed for it
vars == <<req, state, sent, lookaside, replays, handler, replies, changed>>

Idle == [pc |-> "idle"]
Init ==
    /\ req \in [Calls -> Requests]
    /\ state = [c \in Calls |-> "new"] /\ sent = [c \in Calls |-> 0]
    /\ lookaside = [c \in Calls |-> "none"] /\ replays = {}
    /\ handler = [h \in Handlers |-> Idle] /\ replies = {} /\ changed = [c \in Calls |-> 0]

-----------------------------------------------------------------------------
(* The caller                                                              *)

\* sendPasswordRequest: one AP-REQ and one KRB-PRIV for each call.  The
\* client speaks two versions; packets of another come from elsewhere.
Send(c) ==
    /\ state[c] = "new"
    /\ state' = [state EXCEPT ![c] = "waiting"]
    /\ sent' = [sent EXCEPT ![c] = IF req[c].via = "udp" THEN MaxDeliveries ELSE 1]
    /\ UNCHANGED <<req, lookaside, replays, handler, replies, changed>>

\* parsePasswordReply: a KRB-ERROR tells the caller nothing of the outcome;
\* an AP-REP must answer this call's authenticator, and the private part's
\* code is the result
told(r) == IF r.code = "error" THEN "unknown" ELSE r.code
answers(r, c) == r.call = c
Receive(c, r) ==
    /\ state[c] = "waiting" /\ answers(r, c)
    /\ state' = [state EXCEPT ![c] = told(r)]
    /\ UNCHANGED <<req, sent, lookaside, replays, handler, replies, changed>>
\* The exchange's five seconds pass.  The TCP retry of krb5/transport does not
\* happen here: this server never answers that its response is too big.
GiveUp(c) ==
    /\ state[c] = "waiting"
    /\ state' = [state EXCEPT ![c] = "unknown"]
    /\ UNCHANGED <<req, sent, lookaside, replays, handler, replies, changed>>

-----------------------------------------------------------------------------
(* The server                                                              *)

\* handleUDP begins with the lookaside cache: a reply it has is sent again
\* and a reserved request is dropped.  handleTCP reads the frame.
Deliver(h, c) ==
    /\ handler[h] = Idle /\ sent[c] > 0
    /\ sent' = [sent EXCEPT ![c] = @ - 1]
    /\ IF req[c].via = "udp" /\ lookaside[c] # "none"
       THEN /\ UNCHANGED <<lookaside, handler>>
            /\ replies' = IF lookaside[c] = "reserved" THEN replies
                          ELSE replies \cup {[call |-> c, code |-> lookaside[c]]}
       ELSE /\ handler' = [handler EXCEPT ![h] = [pc |-> "verify", call |-> c]]
            /\ lookaside' = IF req[c].via = "udp" THEN [lookaside EXCEPT ![c] = "reserved"] ELSE lookaside
            /\ UNCHANGED replies
    /\ UNCHANGED <<req, state, replays, changed>>
\* expireLocked and evictLocked
Forget(c) ==
    /\ lookaside[c] # "none"
    /\ lookaside' = [lookaside EXCEPT ![c] = "none"]
    /\ UNCHANGED <<req, state, sent, replays, handler, replies, changed>>

Replies(h, code) == handler' = [handler EXCEPT ![h] = [pc |-> "reply", call |-> @.call, code |-> code]]
\* parsePasswordRequest and verifyRequest: an authenticator is accepted once
verifyRequest(h) ==
    /\ handler[h].pc = "verify"
    /\ LET c == handler[h].call
       IN IF req[c].version = "old" \/ c \in replays
          THEN Replies(h, "error") /\ UNCHANGED replays
          ELSE /\ handler' = [handler EXCEPT ![h].pc = "check"]
               /\ replays' = replays \cup {c}
    /\ UNCHANGED <<req, state, sent, lookaside, replies, changed>>

authorized(r) == r.self \/ r.acl
\* The checks of HandleMessage in their order
refusal(r) ==
    IF ~r.fresh THEN "hard"
    ELSE IF ~r.sound THEN "malformed"
    ELSE IF ~r.initial /\ r.self THEN "initialNeeded"
    ELSE IF ~authorized(r) THEN "denied"
    ELSE IF ~r.found \/ r.policy = "missing" THEN "hard"
    ELSE "none"
HandleMessage(h) ==
    /\ handler[h].pc = "check"
    /\ LET code == refusal(req[handler[h].call])
       IN IF code # "none" THEN Replies(h, code)
          ELSE handler' = [handler EXCEPT ![h].pc = "change"]
    /\ UNCHANGED <<req, state, sent, lookaside, replays, replies, changed>>
ChangePassword(h) ==
    /\ handler[h].pc = "change"
    /\ LET c == handler[h].call
       IN IF req[c].policy # "ok" THEN Replies(h, req[c].policy) /\ UNCHANGED changed
          ELSE /\ changed' = [changed EXCEPT ![c] = @ + 1]
               /\ Replies(h, "success")
    /\ UNCHANGED <<req, state, sent, lookaside, replays, replies>>
\* complete keeps the reply if the reservation is still there; the reply is
\* then written to the caller, unless building it failed
Complete(h, built) ==
    /\ handler[h].pc = "reply"
    /\ LET c == handler[h].call
           code == handler[h].code
       IN /\ lookaside' = IF req[c].via = "udp" /\ lookaside[c] # "none"
                          THEN [lookaside EXCEPT ![c] = IF built THEN code ELSE "none"] ELSE lookaside
          /\ replies' = IF built THEN replies \cup {[call |-> c, code |-> code]} ELSE replies
    /\ handler' = [handler EXCEPT ![h] = Idle]
    /\ UNCHANGED <<req, state, sent, replays, changed>>

Next ==
    \/ \E c \in Calls : Send(c) \/ GiveUp(c) \/ Forget(c) \/ (\E r \in replies : Receive(c, r))
    \/ \E h \in Handlers :
        \/ \E c \in Calls : Deliver(h, c)
        \/ verifyRequest(h) \/ HandleMessage(h) \/ ChangePassword(h)
        \/ \E built \in BOOLEAN : Complete(h, built)
Spec == Init /\ [][Next]_vars

-----------------------------------------------------------------------------
(* Properties                                                              *)

\* One call changes a password at most once, and what the caller is told is
\* true of it for good: after "success" it has been changed, and after a
\* result code that refuses it, it has not been and will not be
\* (sendPasswordRequest, HandleMessage).  A duplicate that the lookaside
\* cache no longer holds, or that arrives while the first is being handled,
\* must not be carried out or answered with a verified refusal.
ResultIsTrue ==
    \A c \in Calls :
        /\ changed[c] <= 1
        /\ state[c] = "success" => changed[c] = 1
        /\ state[c] \notin {"new", "waiting", "unknown", "success"} =>
              changed[c] = 0 /\ \A h \in Handlers : handler[h] # [pc |-> "change", call |-> c]

-----------------------------------------------------------------------------
(***************************************************************************)
(* What a caller is told is true, for every set of calls, requests and     *)
(* handlers and however often a packet is delivered.                       *)
(***************************************************************************)

\* The verified result codes of HandleMessage and of the change itself
Outcomes == {"success", "hard", "malformed", "initialNeeded", "denied", "missing", "soft"}
Codes == Outcomes \cup {"error"}

Handling ==
    {Idle} \cup [pc : {"verify", "check", "change"}, call : Calls]
           \cup [pc : {"reply"}, call : Calls, code : Codes]

\* The shapes of the state; how many packets are under way does not matter.
Shape ==
    /\ req \in [Calls -> Request]
    /\ state \in [Calls -> {"new", "waiting", "unknown"} \cup Outcomes]
    /\ lookaside \in [Calls -> {"none", "reserved"} \cup Codes]
    /\ replays \subseteq Calls
    /\ handler \in [Handlers -> Handling]
    /\ replies \subseteq [call : Calls, code : Codes]
    /\ changed \in [Calls -> {0, 1}]

\* A handler has verified the packet of c and has not decided yet
Busy(h, c) == handler[h].pc \in {"check", "change"} /\ handler[h].call = c

\* The code is on its way to the caller of c, kept for it, or was received
Said(c, code) ==
    \/ state[c] = code
    \/ lookaside[c] = code
    \/ [call |-> c, code |-> code] \in replies
    \/ \E h \in Handlers : handler[h] = [pc |-> "reply", call |-> c, code |-> code]

Truth(code) == IF code = "success" THEN 1 ELSE 0

\* The inductive invariant.  A verified outcome exists only for a packet in
\* the replay cache, once no handler works on it any more, and agrees with
\* the password; and one handler at most works on a packet.
OutcomeInv ==
    /\ Shape
    /\ \A c \in Calls :
        /\ c \notin replays => changed[c] = 0
        /\ \A code \in Outcomes : Said(c, code) =>
              c \in replays /\ changed[c] = Truth(code) /\ \A h \in Handlers : ~Busy(h, c)
        /\ \A h \in Handlers : Busy(h, c) =>
              c \in replays /\ changed[c] = 0 /\ \A g \in Handlers : Busy(g, c) => g = h

-----------------------------------------------------------------------------
\* The inductive invariant gives the property of the run.
LEMMA OutcomesAreTrue == OutcomeInv => ResultIsTrue
<1> SUFFICES ASSUME OutcomeInv, NEW c \in Calls
             PROVE  /\ changed[c] <= 1
                    /\ state[c] = "success" => changed[c] = 1
                    /\ state[c] \notin {"new", "waiting", "unknown", "success"} =>
                          changed[c] = 0 /\ \A h \in Handlers : handler[h] # [pc |-> "change", call |-> c]
    BY DEF ResultIsTrue
<1> USE DEF OutcomeInv
<1>1. changed[c] <= 1
    BY DEF Shape
<1>2. state[c] = "success" => changed[c] = 1
    BY Zenon DEF Said, Truth, Outcomes
<1>3. ASSUME state[c] \notin {"new", "waiting", "unknown", "success"}
      PROVE  changed[c] = 0 /\ \A h \in Handlers : handler[h] # [pc |-> "change", call |-> c]
    <2>1. state[c] \in Outcomes
        BY <1>3 DEF Shape
    <2>2. Said(c, state[c])
        BY DEF Said
    <2>3. changed[c] = Truth(state[c]) /\ \A h \in Handlers : ~Busy(h, c)
        BY <2>1, <2>2
    <2> QED BY <2>3, <1>3 DEF Truth, Busy
<1> QED BY <1>1, <1>2, <1>3

\* Initially nothing has been said.
LEMMA OutcomeInit == ASSUME Requests \subseteq Request PROVE Init => OutcomeInv
<1> SUFFICES ASSUME Init PROVE OutcomeInv
    OBVIOUS
<1>1. Shape
    BY Requests \subseteq Request DEF Init, Shape, Handling, Idle
<1>2. ASSUME NEW c \in Calls, NEW code \in Outcomes PROVE ~Said(c, code)
    BY DEF Init, Said, Outcomes, Idle
<1>3. ASSUME NEW c \in Calls, NEW h \in Handlers PROVE ~Busy(h, c)
    BY DEF Init, Busy, Idle
<1> QED BY <1>1, <1>2, <1>3 DEF OutcomeInv, Init

\* A step that moves no handler into or out of its work and says nothing new.
LEMMA NothingNew ==
    ASSUME OutcomeInv, Shape', UNCHANGED <<replays, changed>>,
           \A c \in Calls : \A code \in Outcomes : Said(c, code)' => Said(c, code),
           \A c \in Calls : \A h \in Handlers : Busy(h, c)' => Busy(h, c)
    PROVE  OutcomeInv'
BY DEF OutcomeInv

\* Every action of callers, network and server preserves the invariant.
LEMMA OutcomeNext == OutcomeInv /\ [Next]_vars => OutcomeInv'
<1> SUFFICES ASSUME OutcomeInv, [Next]_vars PROVE OutcomeInv'
    OBVIOUS
<1>s. Shape
    BY DEF OutcomeInv
<1>1. ASSUME NEW c \in Calls, Send(c) PROVE OutcomeInv'
    <2>1. Shape'
        BY <1>s, <1>1 DEF Shape, Send
    <2>2. ASSUME NEW d \in Calls, NEW code \in Outcomes, Said(d, code)' PROVE Said(d, code)
        BY <2>2, <1>s, <1>1 DEF Said, Send, Shape, Outcomes
    <2>3. ASSUME NEW d \in Calls, NEW h \in Handlers, Busy(h, d)' PROVE Busy(h, d)
        BY <2>3, <1>1 DEF Busy, Send
    <2> QED BY <2>1, <2>2, <2>3, <1>1, NothingNew DEF Send
<1>2. ASSUME NEW c \in Calls, GiveUp(c) PROVE OutcomeInv'
    <2>1. Shape'
        BY <1>s, <1>2 DEF Shape, GiveUp
    <2>2. ASSUME NEW d \in Calls, NEW code \in Outcomes, Said(d, code)' PROVE Said(d, code)
        BY <2>2, <1>s, <1>2 DEF Said, GiveUp, Shape, Outcomes
    <2>3. ASSUME NEW d \in Calls, NEW h \in Handlers, Busy(h, d)' PROVE Busy(h, d)
        BY <2>3, <1>2 DEF Busy, GiveUp
    <2> QED BY <2>1, <2>2, <2>3, <1>2, NothingNew DEF GiveUp
<1>3. ASSUME NEW c \in Calls, Forget(c) PROVE OutcomeInv'
    <2>1. Shape'
        BY <1>s, <1>3 DEF Shape, Forget
    <2>2. ASSUME NEW d \in Calls, NEW code \in Outcomes, Said(d, code)' PROVE Said(d, code)
        BY <2>2, <1>s, <1>3 DEF Said, Forget, Shape, Outcomes
    <2>3. ASSUME NEW d \in Calls, NEW h \in Handlers, Busy(h, d)' PROVE Busy(h, d)
        BY <2>3, <1>3 DEF Busy, Forget
    <2> QED BY <2>1, <2>2, <2>3, <1>3, NothingNew DEF Forget
<1>4. ASSUME NEW c \in Calls, NEW r \in replies, Receive(c, r) PROVE OutcomeInv'
    <2>0. r \in [call : Calls, code : Codes] /\ r = [call |-> c, code |-> r.code]
        BY <1>s, <1>4 DEF Shape, Receive, answers
    <2>1. Shape'
        BY <1>s, <1>4, <2>0 DEF Shape, Receive, told, Codes
    <2>2. ASSUME NEW d \in Calls, NEW code \in Outcomes, Said(d, code)' PROVE Said(d, code)
        BY <2>2, <2>0, <1>s, <1>4 DEF Said, Receive, told, Shape, Outcomes
    <2>3. ASSUME NEW d \in Calls, NEW h \in Handlers, Busy(h, d)' PROVE Busy(h, d)
        BY <2>3, <1>4 DEF Busy, Receive
    <2> QED BY <2>1, <2>2, <2>3, <1>4, NothingNew DEF Receive
<1>5. ASSUME NEW h \in Handlers, NEW c \in Calls, Deliver(h, c) PROVE OutcomeInv'
    <2>1. Shape'
        BY <1>s, <1>5 DEF Shape, Deliver, Handling, Codes
    <2>2. ASSUME NEW d \in Calls, NEW code \in Outcomes, Said(d, code)' PROVE Said(d, code)
        BY <2>2, <1>s, <1>5 DEF Said, Deliver, Shape, Outcomes
    <2>3. ASSUME NEW d \in Calls, NEW g \in Handlers, Busy(g, d)' PROVE Busy(g, d)
        BY <2>3, <1>s, <1>5 DEF Busy, Deliver, Shape
    <2> QED BY <2>1, <2>2, <2>3, <1>5, NothingNew DEF Deliver
<1>6. ASSUME NEW h \in Handlers, NEW built \in BOOLEAN, Complete(h, built) PROVE OutcomeInv'
    <2>0. handler[h] \in [pc : {"reply"}, call : Calls, code : Codes]
        BY <1>s, <1>6 DEF Shape, Complete, Handling, Idle
    <2> DEFINE c == handler[h].call
    <2>1. Shape'
        BY <1>s, <1>6, <2>0 DEF Shape, Complete, Handling
    <2>2. ASSUME NEW d \in Calls, NEW code \in Outcomes, Said(d, code)' PROVE Said(d, code)
        BY <2>2, <2>0, <1>s, <1>6 DEF Said, Complete, Shape, Outcomes, Idle
    <2>3. ASSUME NEW d \in Calls, NEW g \in Handlers, Busy(g, d)' PROVE Busy(g, d)
        BY <2>3, <1>s, <1>6 DEF Busy, Complete, Shape, Idle
    <2> QED BY <2>1, <2>2, <2>3, <1>6, NothingNew DEF Complete
<1>7. ASSUME NEW h \in Handlers, verifyRequest(h) PROVE OutcomeInv'
    <2> DEFINE c == handler[h].call
    <2>0. handler[h] \in [pc : {"verify"}, call : Calls] /\ c \in Calls
        BY <1>s, <1>7 DEF Shape, verifyRequest, Handling, Idle
    <2>1. CASE req[c].version = "old" \/ c \in replays
        <3>1. handler' = [handler EXCEPT ![h] = [pc |-> "reply", call |-> c, code |-> "error"]]
            BY <2>1, <1>7 DEF verifyRequest, Replies
        <3>2. Shape'
            BY <1>s, <1>7, <2>0, <2>1, <3>1 DEF Shape, verifyRequest, Handling, Codes
        <3>3. ASSUME NEW d \in Calls, NEW code \in Outcomes, Said(d, code)' PROVE Said(d, code)
            BY <3>3, <3>1, <2>0, <1>s, <1>7 DEF Said, verifyRequest, Shape, Outcomes
        <3>4. ASSUME NEW d \in Calls, NEW g \in Handlers, Busy(g, d)' PROVE Busy(g, d)
            BY <3>4, <3>1, <1>s DEF Busy, Shape
        <3> QED BY <3>2, <3>3, <3>4, <2>1, <1>7, NothingNew DEF verifyRequest
    <2>2. CASE ~(req[c].version = "old" \/ c \in replays)
        <3>1. /\ handler' = [handler EXCEPT ![h].pc = "check"]
              /\ replays' = replays \cup {c}
              /\ UNCHANGED <<req, state, lookaside, replies, changed>>
            BY <2>2, <1>7 DEF verifyRequest
        <3>2. handler' = [handler EXCEPT ![h] = [pc |-> "check", call |-> c]]
            <4>1. [handler[h] EXCEPT !.pc = "check"] = [pc |-> "check", call |-> c]
                BY <2>0
            <4> QED BY <3>1, <4>1, Zenon
        <3>3. Shape'
            BY <1>s, <2>0, <3>1, <3>2 DEF Shape, Handling
        <3>4. \A g \in Handlers : \A d \in Calls : Busy(g, d)' <=> Busy(g, d) \/ (g = h /\ d = c)
            BY <3>2, <2>0, <1>s DEF Busy, Shape
        <3>5. ASSUME NEW d \in Calls, NEW code \in Outcomes, Said(d, code)' PROVE Said(d, code)
            BY <3>5, <3>1, <3>2, <1>s DEF Said, Shape
        <3>6. changed[c] = 0 /\ \A g \in Handlers : ~Busy(g, c)
            BY <2>0, <2>2 DEF OutcomeInv
        <3>7. \A code \in Outcomes : ~Said(c, code)
            BY <2>0, <2>2 DEF OutcomeInv
        <3> QED BY <3>1, <3>3, <3>4, <3>5, <3>6, <3>7, <2>0 DEF OutcomeInv
    <2> QED BY <2>1, <2>2
<1>8. ASSUME NEW h \in Handlers, HandleMessage(h) PROVE OutcomeInv'
    <2> DEFINE c == handler[h].call
    <2>0. handler[h] \in [pc : {"check"}, call : Calls] /\ c \in Calls
        BY <1>s, <1>8 DEF Shape, HandleMessage, Handling, Idle
    <2>b. Busy(h, c)
        BY <2>0 DEF Busy
    <2>1. CASE refusal(req[c]) = "none"
        <3>1. handler' = [handler EXCEPT ![h] = [pc |-> "change", call |-> c]]
            BY <2>0, <2>1, <1>8 DEF HandleMessage
        <3>2. Shape'
            BY <1>s, <1>8, <2>0, <3>1 DEF Shape, HandleMessage, Handling
        <3>3. ASSUME NEW d \in Calls, NEW code \in Outcomes, Said(d, code)' PROVE Said(d, code)
            BY <3>3, <3>1, <1>s, <1>8 DEF Said, HandleMessage, Shape
        <3>4. ASSUME NEW d \in Calls, NEW g \in Handlers, Busy(g, d)' PROVE Busy(g, d)
            BY <3>4, <3>1, <2>0, <1>s DEF Busy, Shape
        <3> QED BY <3>2, <3>3, <3>4, <1>8, NothingNew DEF HandleMessage
    <2>2. CASE refusal(req[c]) # "none"
        <3> DEFINE refused == refusal(req[c])
        <3>0. refused \in Outcomes \ {"success"}
            BY <2>2 DEF refusal, Outcomes
        <3>1. handler' = [handler EXCEPT ![h] = [pc |-> "reply", call |-> c, code |-> refused]]
            BY <2>2, <1>8 DEF HandleMessage, Replies
        <3>2. Shape'
            BY <1>s, <1>8, <2>0, <3>0, <3>1 DEF Shape, HandleMessage, Handling, Codes
        <3> HIDE DEF refused
        <3>3. ASSUME NEW d \in Calls, NEW code \in Outcomes, Said(d, code)'
              PROVE  Said(d, code) \/ (d = c /\ code = refused)
            BY <3>3, <3>1, <1>s, <1>8 DEF Said, HandleMessage, Shape
        <3>4. \A g \in Handlers : \A d \in Calls : Busy(g, d)' <=> Busy(g, d) /\ g # h
            BY <3>1, <2>0, <1>s DEF Busy, Shape
        <3>5. /\ c \in replays /\ changed[c] = 0 /\ \A g \in Handlers : Busy(g, c) => g = h
              /\ UNCHANGED <<replays, changed>>
            BY <2>0, <2>b, <1>8 DEF OutcomeInv, HandleMessage
        <3> QED BY <3>0, <3>2, <3>3, <3>4, <3>5 DEF OutcomeInv, Truth
    <2> QED BY <2>1, <2>2
<1>9. ASSUME NEW h \in Handlers, ChangePassword(h) PROVE OutcomeInv'
    <2> DEFINE c == handler[h].call
               code0 == IF req[c].policy # "ok" THEN req[c].policy ELSE "success"
    <2>0. handler[h] \in [pc : {"change"}, call : Calls] /\ c \in Calls
        BY <1>s, <1>9 DEF Shape, ChangePassword, Handling, Idle
    <2>b. Busy(h, c)
        BY <2>0 DEF Busy
    <2>1. /\ handler' = [handler EXCEPT ![h] = [pc |-> "reply", call |-> c, code |-> code0]]
          /\ changed' = IF code0 = "success" THEN [changed EXCEPT ![c] = @ + 1] ELSE changed
          /\ code0 \in Outcomes
          /\ UNCHANGED <<req, state, lookaside, replays, replies>>
        BY <1>s, <1>9, <2>0 DEF ChangePassword, Replies, Shape, Request, Outcomes
    <2>2. /\ c \in replays /\ changed[c] = 0 /\ \A g \in Handlers : Busy(g, c) => g = h
          /\ \A code \in Outcomes : ~Said(c, code)
        BY <2>0, <2>b DEF OutcomeInv
    <2> HIDE DEF code0
    <2>3. changed' = [changed EXCEPT ![c] = Truth(code0)]
        <3>1. CASE code0 = "success"
            BY <3>1, <1>s, <2>0, <2>1, <2>2 DEF Truth, Shape
        <3>2. CASE code0 # "success"
            <4>1. changed = [changed EXCEPT ![c] = 0]
                BY <1>s, <2>0, <2>2 DEF Shape
            <4> QED BY <3>2, <4>1, <2>1 DEF Truth
        <3> QED BY <3>1, <3>2
    <2>4. Shape'
        BY <1>s, <2>0, <2>1, <2>3 DEF Shape, Handling, Codes, Truth
    <2>5. ASSUME NEW d \in Calls, NEW code \in Outcomes, Said(d, code)'
          PROVE  Said(d, code) \/ (d = c /\ code = code0)
        BY <2>5, <2>1, <1>s DEF Said, Shape
    <2>6. \A g \in Handlers : \A d \in Calls : Busy(g, d)' <=> Busy(g, d) /\ g # h
        BY <2>1, <2>0, <1>s DEF Busy, Shape
    <2>7. \A d \in Calls : d # c => changed'[d] = changed[d]
        BY <2>3, <1>s DEF Shape
    <2>8. changed'[c] = Truth(code0)
        BY <2>3, <2>0, <1>s DEF Shape
    <2> QED BY <2>0, <2>1, <2>2, <2>4, <2>5, <2>6, <2>7, <2>8 DEF OutcomeInv
<1>10. CASE UNCHANGED vars
    BY <1>10 DEF vars, OutcomeInv, Shape, Said, Busy
<1> QED
    BY <1>1, <1>2, <1>3, <1>4, <1>5, <1>6, <1>7, <1>8, <1>9, <1>10 DEF Next

\* Over every behaviour with requests of the right form: one call changes a
\* password at most once, "success" means that it was changed, and a verified
\* refusal that it was not and will not be, although copies of a packet reach
\* several handlers at once and the lookaside cache forgets (HandleMessage,
\* verifyRequest, lookasideCache).
THEOREM ResultsTrue == ASSUME Requests \subseteq Request PROVE Spec => []ResultIsTrue
<1>1. Init => OutcomeInv
    BY OutcomeInit
<1> QED
    BY <1>1, OutcomeNext, OutcomesAreTrue, PTL DEF Spec
=============================================================================
