------------------------------- MODULE AppMsg -------------------------------
(***************************************************************************)
(* KRB-SAFE and KRB-PRIV messages (krb5/appmsg): a sender and a receiver   *)
(* whose options need not agree.  Messages stay on the network, so each    *)
(* may be lost, reordered or delivered again.  A caller that numbers its   *)
(* messages adds one to Options.SequenceNumber after each success.  The    *)
(* sender's clock differs from the receiver's, and the replay cache drops  *)
(* entries by the time stamps of the messages (rcache.go).                 *)
(***************************************************************************)
EXTENDS Integers, Sequences

CONSTANTS Pairs,   \* <<sender's options, receiver's options>>
          Leads,   \* how far the sender's clock may be ahead of the receiver's
          Skew, MaxTime, MaxMessages

\* <<>> stands for an address that is not given
Options == [key : STRING, local : Seq(STRING), remote : Seq(STRING), doTime : BOOLEAN, doSequence : BOOLEAN, cache : BOOLEAN]

\* tags: the messages in the replay cache; log: the messages read
VARIABLES now, lead, ends, made, sendNumber, readNumber, tags, log
vars == <<now, lead, ends, made, sendNumber, readNumber, tags, log>>

Init ==
    /\ now = 0 /\ lead \in Leads /\ ends \in Pairs
    /\ made = {} /\ sendNumber = 0 /\ readNumber = 0 /\ tags = {} /\ log = <<>>

-----------------------------------------------------------------------------
\* validateOptions
makes(o) == o.key # "" /\ o.local # <<>>
\* safeBody and privBody
Body(o, kind) ==
    [n |-> sendNumber, kind |-> kind, key |-> o.key, saddress |-> o.local[1], raddress |-> o.remote,
     time |-> IF o.doTime THEN <<now + lead>> ELSE <<>>, seq |-> IF o.doSequence THEN <<sendNumber>> ELSE <<>>]
Make(kind) ==
    LET o == ends[1] IN
    /\ makes(o) /\ sendNumber < MaxMessages
    /\ made' = made \cup {Body(o, kind)} /\ sendNumber' = sendNumber + 1
    /\ UNCHANGED <<now, lead, ends, readNumber, tags, log>>

validateAddresses(m, o) ==
    /\ o.remote # <<>> => m.saddress = o.remote[1]
    /\ m.raddress # <<>> /\ o.local # <<>> => m.raddress = o.local
withinSkew(time) == time - now <= Skew /\ now - time <= Skew
validateReplayFields(m, o) ==
    /\ o.doTime => m.time # <<>> /\ withinSkew(m.time[1])
    /\ o.doSequence => m.seq = <<readNumber>>
\* Only with time stamps and a cache
checksReplay(o) == o.doTime /\ o.cache
\* Store: what a message's time stamp expires; a Memory cache drops all of
\* it, a File2 cache at most the record it overwrites
Expired(m) == {e \in tags : e.time[1] < m.time[1] - Skew}
\* The checks in order: integrity, addresses, time and number, replay
Read(m) ==
    LET o == ends[2] IN
    /\ Len(log) <= MaxMessages
    /\ o.key = m.key /\ validateAddresses(m, o) /\ validateReplayFields(m, o)
    /\ IF checksReplay(o)
       THEN m \notin tags /\ \E gone \in SUBSET Expired(m) : tags' = (tags \ gone) \cup {m}
       ELSE UNCHANGED tags
    /\ readNumber' = readNumber + 1
    /\ log' = Append(log, m)
    /\ UNCHANGED <<now, lead, ends, made, sendNumber>>
Tick == now < MaxTime /\ now' = now + 1 /\ UNCHANGED <<lead, ends, made, sendNumber, readNumber, tags, log>>

Next == (\E kind \in {"safe", "priv"} : Make(kind)) \/ (\E m \in made : Read(m)) \/ Tick
Spec == Init /\ [][Next]_vars

Twice(k, l) == k < l /\ log[k] = log[l]
\* A receiver with numbers reads the messages in order and each once.  One
\* that checks time stamps against a replay cache reads a message again only
\* after one that was stamped more than the skew later, and so, as long as the
\* sender's clock is not ahead of its own, never.
ReadOnce ==
    LET o == ends[2] IN
    /\ o.doSequence => \A k \in DOMAIN log : log[k].n = k - 1
    /\ checksReplay(o) => \A k, l \in DOMAIN log : Twice(k, l) =>
          /\ lead > 0
          /\ \E j \in (k + 1)..(l - 1) : log[j].time[1] > log[k].time[1] + Skew
=============================================================================
