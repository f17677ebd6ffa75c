------------------------------- MODULE Spnego -------------------------------
(***************************************************************************)
(* SPNEGO and NegoEx (krb5/spnego) over the Kerberos mechanism: one        *)
(* initiator and one acceptor object for each negotiation, whose tokens    *)
(* may be delivered again and, when the network is "loose", to another     *)
(* negotiation's object.                                                   *)
(*                                                                         *)
(* The mechanism below is what GssContext checks of it: a token, known by  *)
(* its stamp, is accepted once and both ends then share the key of that    *)
(* stamp; a MIC is read with that key, in order.  NegoEx checksums cover   *)
(* the sequence of messages itself.                                        *)
(***************************************************************************)
EXTENDS Integers, Sequences

CONSTANTS
    Negotiations,  \* the negotiations, numbered from 1
    Offers         \* what an initiator is created with, and the acceptor's option

\* mechs is the list offered, in order of preference; negoEx is the
\* acceptor's option
Mechs == {"krb5", "legacy", "other", "negoex"}
Offer == [mechs : Seq(Mechs), mutual : BOOLEAN, negoEx : BOOLEAN]

VARIABLES
    offer,     \* negotiation -> Offer
    network,   \* "straight" or "loose"
    ini, acc,  \* the objects of each negotiation
    wire,      \* tokens sent
    used       \* stamps the acceptor's replay cache holds
vars == <<offer, network, ini, acc, wire, used>>

NoState == [sequence |-> 0, conversation |-> 0, transcript |-> <<>>]
Fresh == [started |-> FALSE, key |-> 0, sendSeq |-> 0, recvSeq |-> 0, established |-> FALSE,
          mechs |-> <<>>, negoex |-> NoState]
Init ==
    /\ offer \in [Negotiations -> Offers] /\ network \in {"straight", "loose"}
    /\ ini = [n \in Negotiations |-> Fresh] /\ acc = [n \in Negotiations |-> Fresh]
    /\ wire = {} /\ used = {}

-----------------------------------------------------------------------------
(* NegoEx state: the running sequence number and the transcript            *)

Message(type, token, sum) == [type |-> type, token |-> token, sum |-> sum, sequence |-> 0, conversation |-> 0]
numbered(s, messages) ==
    [k \in DOMAIN messages |->
        [messages[k] EXCEPT !.sequence = s.sequence + k - 1, !.conversation = s.conversation]]
append(s, messages) ==
    [s EXCEPT !.sequence = @ + Len(messages), !.transcript = @ \o numbered(s, messages)]
validate(s, messages) ==
    \A k \in DOMAIN messages :
        /\ messages[k].sequence = s.sequence + k - 1
        /\ s.sequence + k - 1 # 0 =>
               messages[k].conversation = IF s.sequence = 0 THEN messages[1].conversation ELSE s.conversation
receive(s, messages) ==
    [sequence |-> s.sequence + Len(messages),
     conversation |-> IF s.sequence = 0 THEN messages[1].conversation ELSE s.conversation,
     transcript |-> s.transcript \o messages]
\* The key, the direction and everything said so far
checksum(s, key, initiator) == [key |-> key, initiator |-> initiator, over |-> s.transcript]
\* Each Verify message covers the transcript and what precedes it in the token
verified(s, messages, key, initiator) ==
    /\ \E k \in DOMAIN messages : messages[k].type = "verify"
    /\ \A k \in DOMAIN messages : messages[k].type = "verify" =>
        messages[k].sum = <<[key |-> key, initiator |-> ~initiator,
                             over |-> s.transcript \o SubSeq(messages, 1, k - 1)]>>
\* The first token of the mechanism in the messages
Token(messages) ==
    LET carrying == {k \in DOMAIN messages : messages[k].type \in {"apRequest", "challenge"}}
    IN messages[CHOOSE k \in carrying : \A j \in carrying : k <= j].token

-----------------------------------------------------------------------------
(* Tokens                                                                  *)

InitToken(n, mechs, token, messages) ==
    [from |-> n, kind |-> "init", mechs |-> mechs, token |-> token, messages |-> messages,
     state |-> "none", mic |-> <<>>]
RespToken(n, kind, state, mech, token, mic, messages) ==
    [from |-> n, kind |-> kind, state |-> state, mechs |-> <<mech>>, token |-> token, mic |-> mic,
     messages |-> messages]
MIC(key, initiator, seq, mechs) == <<[key |-> key, initiator |-> initiator, seq |-> seq, mechs |-> mechs]>>
Reaches(n, t) == network = "straight" => t.from = n

\* InitialToken, once: the Kerberos token goes with the list, whatever is
\* first in it; with NegoEx it is the third message of the token
InitialToken(n) ==
    LET o == offer[n]
        negoex == o.mechs[1] = "negoex"
        fresh == [NoState EXCEPT !.conversation = n]
        messages == <<Message("initiatorNego", <<>>, <<>>), Message("metaData", <<>>, <<>>),
                      Message("apRequest", <<n>>, <<>>)>>
        state == IF negoex THEN append(fresh, messages) ELSE NoState
    IN /\ ~ini[n].started
       /\ ini' = [ini EXCEPT ![n] = [@ EXCEPT !.started = TRUE, !.mechs = o.mechs, !.negoex = state,
                                              !.key = IF o.mutual THEN 0 ELSE n]]
       /\ wire' = wire \cup {InitToken(n, o.mechs, IF negoex THEN <<>> ELSE <<n>>, state.transcript)}
       /\ UNCHANGED <<offer, network, acc, used>>

-----------------------------------------------------------------------------
(* The acceptor                                                            *)

isKerberos(m) == m \in {"krb5", "legacy"}
\* The index of the first Kerberos mechanism of the list, 0 for none
selectKerberos(mechs) ==
    LET found == {k \in DOMAIN mechs : isKerberos(mechs[k])}
    IN IF found = {} THEN 0 ELSE CHOOSE k \in found : \A j \in found : k <= j
\* The reply of the mechanism
reply(stamp) == IF offer[stamp].mutual THEN <<stamp>> ELSE <<>>
accepted(stamp) == stamp \notin used

\* The first leg with NegoEx.  The alert that stands for a Verify when there is
\* no key for it is left out: the mechanism has accepted, so its context has a
\* key, of an encryption type that has just decrypted the token.
AcceptNegoEx(n, t) ==
    LET s == receive(NoState, t.messages)
        stamp == Token(t.messages)[1]
        prefix == append(s, <<Message("acceptorNego", <<>>, <<>>), Message("metaData", <<>>, <<>>),
                              Message("challenge", reply(stamp), <<>>)>>)
        state == append(prefix, <<Message("verify", <<>>, <<checksum(prefix, stamp, FALSE)>>)>>)
    IN /\ t.kind = "init" /\ ~acc[n].started /\ Reaches(n, t)
       /\ offer[n].negoEx /\ t.mechs[1] = "negoex"
       /\ validate(NoState, t.messages) /\ accepted(stamp)
       /\ used' = used \cup {stamp}
       /\ acc' = [acc EXCEPT ![n] = [@ EXCEPT !.started = TRUE, !.key = stamp, !.negoex = state, !.mechs = t.mechs]]
       /\ wire' = wire \cup {RespToken(n, "resp", "incomplete", "negoex", <<>>, <<>>,
                                       SubSeq(state.transcript, s.sequence + 1, state.sequence))}
       /\ UNCHANGED <<offer, network, ini>>

\* The first leg otherwise.  A Kerberos mechanism that is not the first of
\* the list asks for the list to be confirmed both ways, as a MIC in the first
\* token would; InitialToken sends none.
AcceptInit(n, t) ==
    LET index == selectKerberos(t.mechs)
        stamp == t.token[1]
        needMIC == index # 1
    IN /\ t.kind = "init" /\ ~acc[n].started /\ Reaches(n, t)
       /\ ~(offer[n].negoEx /\ t.mechs[1] = "negoex")
       /\ index # 0 /\ t.token # <<>> /\ accepted(stamp)
       /\ used' = used \cup {stamp}
       /\ acc' = [acc EXCEPT ![n] = [@ EXCEPT !.started = TRUE, !.key = stamp, !.established = ~needMIC, !.mechs = t.mechs,
                                              !.sendSeq = IF needMIC THEN 1 ELSE 0]]
       /\ wire' = wire \cup {RespToken(n, "resp", IF needMIC THEN "requestMIC" ELSE "completed", t.mechs[index],
                                       reply(stamp), IF needMIC THEN MIC(stamp, FALSE, 0, t.mechs) ELSE <<>>, <<>>)}
       /\ UNCHANGED <<offer, network, ini>>

\* The second leg, which an established context takes as well
readsMIC(c, mic, initiator) ==
    mic = MIC(c.key, ~initiator, c.recvSeq, c.mechs)
AcceptFinal(n, t) ==
    LET c == acc[n] IN
    /\ t.kind = "final" /\ c.started /\ Reaches(n, t)
    /\ IF c.negoex.sequence # 0
       THEN /\ t.messages # <<>> /\ validate(c.negoex, t.messages)
            /\ verified(c.negoex, t.messages, c.key, FALSE)
            /\ acc' = [acc EXCEPT ![n] = [c EXCEPT !.negoex = receive(c.negoex, t.messages), !.established = TRUE]]
       ELSE /\ t.mic # <<>> /\ readsMIC(c, t.mic, FALSE)
            /\ acc' = [acc EXCEPT ![n] = [c EXCEPT !.recvSeq = c.recvSeq + 1, !.established = TRUE]]
    /\ UNCHANGED <<offer, network, ini, wire, used>>

-----------------------------------------------------------------------------
(* Continue.  The mechanism's reply is verified before the rest, and the   *)
(* context it makes stays when the rest fails.                             *)

\* VerifyToken of the mechanism: the reply to this initiator's own token
readable(n, token) == token # <<>> => offer[n].mutual /\ token[1] = n
keyed(n, token) == IF token # <<>> THEN [ini[n] EXCEPT !.key = n] ELSE ini[n]

\* answer is <<>> or the token to send
Finish(n, c, answer) ==
    /\ ini' = [ini EXCEPT ![n] = c]
    /\ wire' = wire \cup {answer[k] : k \in DOMAIN answer}
    /\ UNCHANGED <<offer, network, acc, used>>
\* A Verify that does not cover the transcript fails and leaves no more than
\* the mechanism's context; messages are not altered here, so none does
ContinueNegoEx(n, t) ==
    LET c == keyed(n, Token(t.messages))
        s == receive(c.negoex, t.messages)
        final == append(s, <<Message("verify", <<>>, <<checksum(s, c.key, TRUE)>>)>>)
    IN /\ t.kind = "resp" /\ ini[n].started /\ Reaches(n, t)
       /\ ini[n].negoex.sequence # 0 /\ t.mechs[1] = "negoex"
       /\ validate(ini[n].negoex, t.messages) /\ readable(n, Token(t.messages))
       /\ c.key # 0 /\ verified(c.negoex, t.messages, c.key, TRUE)
       /\ Finish(n, [c EXCEPT !.negoex = final, !.established = TRUE],
                 <<RespToken(n, "final", "completed", "negoex", <<>>, <<>>,
                             SubSeq(final.transcript, s.sequence + 1, final.sequence))>>)
needsMIC(n, t) == t.state = "requestMIC" \/ t.mechs[1] # ini[n].mechs[1]
ContinueResp(n, t) ==
    LET c == keyed(n, t.token)
        micRead == t.mic # <<>> => c.key # 0 /\ readsMIC(c, t.mic, TRUE)
        read == IF t.mic # <<>> THEN [c EXCEPT !.recvSeq = @ + 1] ELSE c
    IN /\ t.kind = "resp" /\ ini[n].started /\ Reaches(n, t)
       /\ ini[n].negoex.sequence = 0 /\ isKerberos(t.mechs[1])
       /\ t.state = "completed" => t.token # <<>>
       /\ needsMIC(n, t) => t.mic # <<>>
       /\ readable(n, t.token)
       /\ IF ~micRead THEN Finish(n, c, <<>>)
          ELSE IF needsMIC(n, t)
          THEN Finish(n, [read EXCEPT !.sendSeq = @ + 1, !.established = TRUE],
                      <<RespToken(n, "final", "completed", t.mechs[1], <<>>,
                                  MIC(c.key, TRUE, c.sendSeq, c.mechs), <<>>)>>)
          ELSE Finish(n, [read EXCEPT !.established = TRUE], <<>>)

Next ==
    \E n \in Negotiations :
        \/ InitialToken(n)
        \/ \E t \in wire : AcceptNegoEx(n, t) \/ AcceptInit(n, t) \/ AcceptFinal(n, t)
        \/ \E t \in wire : ContinueNegoEx(n, t) \/ ContinueResp(n, t)
Fairness ==
    \A n \in Negotiations :
        /\ WF_vars(InitialToken(n))
        /\ WF_vars(\E t \in wire : AcceptNegoEx(n, t) \/ AcceptInit(n, t) \/ AcceptFinal(n, t))
        /\ WF_vars(\E t \in wire : ContinueNegoEx(n, t) \/ ContinueResp(n, t))
Spec == Init /\ [][Next]_vars /\ Fairness

-----------------------------------------------------------------------------
(* Properties                                                              *)

\* An initiator that has completed shares the key, the list of mechanisms
\* and, with NegoEx, the transcript with the acceptor that answered it; an
\* acceptor established in a negotiation whose list had to be confirmed has
\* the confirmation of the initiator that holds the same key.
NegotiationAgrees ==
    /\ \A n \in Negotiations : ini[n].established =>
        \E a \in Negotiations :
            /\ acc[a].key = ini[n].key /\ acc[a].mechs = ini[n].mechs
            /\ \E l \in 0 .. Len(ini[n].negoex.transcript) :
                acc[a].negoex.transcript = SubSeq(ini[n].negoex.transcript, 1, l) /\ l >= acc[a].negoex.sequence
    /\ \A a \in Negotiations : acc[a].established /\ selectKerberos(acc[a].mechs) # 1 =>
        ini[acc[a].key].established /\ ini[acc[a].key].mechs = acc[a].mechs

\* When every token reaches its peer, every negotiation in which the acceptor
\* can find a mechanism ends with both ends established; without mutual
\* authentication and with Kerberos first in the list there is no reply token
\* and only the acceptor's end is.
Completes(n) ==
    LET o == offer[n]
        negoex == o.mechs[1] = "negoex"
    IN /\ IF negoex THEN o.negoEx ELSE selectKerberos(o.mechs) # 0
       /\ negoex \/ o.mutual \/ selectKerberos(o.mechs) # 1
NegotiationEnds ==
    \A n \in Negotiations :
        (network = "straight" /\ Completes(n)) ~> (ini[n].established /\ acc[n].established)
=============================================================================
