------------------------------- MODULE Kprop --------------------------------
(***************************************************************************)
(* One database transfer of the kprop protocol (krb5/kprop/kprop.go): the  *)
(* sender's Send against the replica's serveConn, over one TCP connection. *)
(* Both sides write whole frames, and either may stop at any point; what   *)
(* it had written may still arrive.  The dump is the sequence 1..size of   *)
(* its bytes.                                                              *)
(***************************************************************************)
EXTENDS Integers, Sequences, FiniteSetsExt

CONSTANTS
    Sizes,        \* the dump sizes considered
    BlockSize,    \* bytes of the dump in one KRB-PRIV message
    MaxWord,      \* largest size written as four bytes (math.MaxUint32)
    SeqModulus,   \* sequence numbers wrap here (2^32)
    FirstSeqs,    \* initial sequence numbers considered, for both sides
    Versions,     \* protocol versions a sender may announce
    Version,      \* the version this server speaks
    Capacity      \* frames the connection buffers in one direction

VARIABLES
    size,         \* Send: the size it was called with
    version,      \* Send: the version it announces
    client,       \* Send: the next thing it does; "ok" or "failed" once it returned
    seq,          \* Send: sequence number of its next message
    sent,         \* Send: bytes of the dump sent
    serverSeen,   \* Send: the sequence number of the AP-REP
    server,       \* serveConn: the next thing it does; "closed" once it returned
    peerSeq,      \* serveConn: sequence number it expects next
    expect,       \* serveConn: the announced size
    file,         \* serveConn: the temporary file
    serverSeq,    \* serveConn: its own sequence number
    toServer,     \* frames on their way to the replica
    toClient,     \* frames on their way to the sender
    loaded,       \* what Server.Load was given, NotLoaded before that
    faulty        \* a fault has happened, or the replica refused the sender or the dump

clientVars == <<size, version, client, seq, sent, serverSeen>>
serverVars == <<server, peerSeq, expect, file, serverSeq, loaded>>
vars == <<clientVars, serverVars, toServer, toClient, faulty>>

NotLoaded == <<-1>>

Frame(kind, n, data) == [kind |-> kind, seq |-> n, data |-> data]

\* checkError, and the KRB-ERROR that writeError sends.
Error == Frame("error", 0, <<>>)

\* seq++ and peerSeq++, on unsigned integers of fixed width.
Succ(n) == (n + 1) % SeqModulus

\* The bytes of the dump from one offset to another.
Bytes(from, to) == [i \in 1 .. to - from |-> from + i]

\* The two encodings of a database size: four bytes, or twelve.
encodeDatabaseSize(n) ==
    IF n > 0 /\ n <= MaxWord THEN <<4, n>> ELSE <<12, n>>

\* Whether the decoder accepts an encoding: twelve bytes for a size that
\* fits in four are not canonical.
decodable(d) ==
    \/ d[1] = 4 /\ d[2] <= MaxWord
    \/ d[1] = 12 /\ ~(d[2] > 0 /\ d[2] <= MaxWord)

decodeDatabaseSize(d) == d[2]

\* A KRB-SAFE message is accepted with the expected sequence number only.
verifySafe(f, n) == f.kind = "safe" /\ f.seq = n /\ decodable(f.data)

-----------------------------------------------------------------------------
Init ==
    /\ size \in Sizes /\ version \in Versions /\ seq \in FirstSeqs
    /\ client = "version" /\ sent = 0 /\ serverSeen = 0
    /\ server = "version" /\ peerSeq = 0 /\ expect = 0 /\ file = <<>>
    /\ serverSeq \in FirstSeqs
    /\ toServer = <<>> /\ toClient = <<>> /\ loaded = NotLoaded
    /\ faulty = FALSE

ClientDone == client \in {"ok", "failed"}
ServerDone == server = "closed"

\* Writing a frame blocks while the buffer is full.  Written to a peer that
\* has closed the connection, it is lost (an error it causes is sendFails or
\* serveFails).
ToServer(f) ==
    /\ ServerDone \/ Len(toServer) < Capacity
    /\ toServer' = IF ServerDone THEN toServer ELSE Append(toServer, f)

ToClient(f) ==
    /\ ClientDone \/ Len(toClient) < Capacity
    /\ toClient' = IF ClientDone THEN toClient ELSE Append(toClient, f)

\* Reading a frame, which must be there.
FromServer == toClient # <<>> /\ toClient' = Tail(toClient)
FromClient == toServer # <<>> /\ toServer' = Tail(toServer)

-----------------------------------------------------------------------------
(***************************************************************************)
(* Send.                                                                   *)
(***************************************************************************)
\* The sendauth version and the application version.
writeVersion ==
    /\ client = "version" /\ client' = "status"
    /\ ToServer(Frame("version", 0, version))
    /\ UNCHANGED <<size, version, seq, sent, serverSeen, serverVars, toClient, faulty>>

\* The status byte: anything but 0 is a refusal.
readStatus ==
    /\ client = "status" /\ FromServer
    /\ client' = IF Head(toClient) = Frame("status", 0, 0) THEN "apreq" ELSE "failed"
    /\ UNCHANGED <<size, version, seq, sent, serverSeen, serverVars, toServer, faulty>>

\* The AP-REQ, which carries the sender's initial sequence number.
writeAPReq ==
    /\ client = "apreq" /\ client' = "reply"
    /\ ToServer(Frame("apreq", seq, <<>>))
    /\ UNCHANGED <<size, version, seq, sent, serverSeen, serverVars, toClient, faulty>>

\* The empty frame that accepts the AP-REQ, or a KRB-ERROR.
readReply ==
    /\ client = "reply" /\ FromServer
    /\ client' = IF Head(toClient).kind = "empty" THEN "aprep" ELSE "failed"
    /\ UNCHANGED <<size, version, seq, sent, serverSeen, serverVars, toServer, faulty>>

\* The AP-REP, with the replica's sequence number.
readAPRep ==
    /\ client = "aprep" /\ FromServer
    /\ IF Head(toClient).kind = "aprep"
       THEN client' = "size" /\ serverSeen' = Head(toClient).seq
       ELSE client' = "failed" /\ UNCHANGED serverSeen
    /\ UNCHANGED <<size, version, seq, sent, serverVars, toServer, faulty>>

\* The KRB-SAFE message with the size of the database.
writeSize ==
    /\ client = "size" /\ client' = IF size > 0 THEN "blocks" ELSE "final"
    /\ ToServer(Frame("safe", seq, encodeDatabaseSize(size)))
    /\ seq' = Succ(seq)
    /\ UNCHANGED <<size, version, sent, serverSeen, serverVars, toClient, faulty>>

\* Mutant: every block is read and sent at full size.
writeBlockFull ==
    /\ client = "blocks"
    /\ LET next == sent + BlockSize
       IN  /\ ToServer(Frame("priv", seq, Bytes(sent, next)))
           /\ sent' = next /\ seq' = Succ(seq)
           /\ client' = IF next < size THEN "blocks" ELSE "final"
    /\ UNCHANGED <<size, version, serverSeen, serverVars, toClient, faulty>>

\* One KRB-PRIV message with the next block of the dump.
writeBlock ==
    /\ client = "blocks"
    /\ LET next == Min({sent + BlockSize, size})
       IN  /\ ToServer(Frame("priv", seq, Bytes(sent, next)))
           /\ sent' = next /\ seq' = Succ(seq)
           /\ client' = IF next < size THEN "blocks" ELSE "final"
    /\ UNCHANGED <<size, version, serverSeen, serverVars, toClient, faulty>>

\* Mutant: any final frame but an echo of another size is a success.
readFinalAny ==
    /\ client = "final" /\ FromServer
    /\ LET f == Head(toClient)
       IN  client' = IF f.kind = "safe" /\ decodeDatabaseSize(f.data) # size
                     THEN "failed" ELSE "ok"
    /\ UNCHANGED <<size, version, seq, sent, serverSeen, serverVars, toServer, faulty>>

\* The replica's echo of the size, or a KRB-ERROR.
readFinal ==
    /\ client = "final" /\ FromServer
    /\ LET f == Head(toClient)
       IN  client' = IF /\ verifySafe(f, serverSeen)
                        /\ decodeDatabaseSize(f.data) = size
                     THEN "ok" ELSE "failed"
    /\ UNCHANGED <<size, version, seq, sent, serverSeen, serverVars, toServer, faulty>>

\* A read that finds the connection closed by the replica and nothing left.
readClosed ==
    /\ client \in {"status", "reply", "aprep", "final"}
    /\ ServerDone /\ toClient = <<>> /\ client' = "failed"
    /\ UNCHANGED <<size, version, seq, sent, serverSeen, serverVars, toServer, toClient, faulty>>

\* Any error of the sender's own: a failed write, a cancelled context, a
\* dump shorter than announced.  The caller closes the connection; of what
\* was on its way a part may arrive.
sendFails ==
    /\ ~ClientDone /\ client' = "failed" /\ faulty' = TRUE
    /\ \E n \in 0 .. Len(toServer) : toServer' = SubSeq(toServer, 1, n)
    /\ toClient' = <<>>
    /\ UNCHANGED <<size, version, seq, sent, serverSeen, serverVars>>

Send == \/ writeVersion \/ readStatus \/ writeAPReq \/ readReply
        \/ readAPRep \/ writeSize \/ writeBlock \/ readFinal \/ readClosed

-----------------------------------------------------------------------------
(***************************************************************************)
(* serveConn.                                                              *)
(***************************************************************************)
\* return with the connection closed.
Close == server' = "closed" /\ toServer' = <<>>

\* Both version frames, answered by a status byte.
readVersion ==
    /\ server = "version" /\ toServer # <<>>
    /\ IF Head(toServer) = Frame("version", 0, Version)
       THEN /\ ToClient(Frame("status", 0, 0))
            /\ server' = "apreq" /\ toServer' = Tail(toServer) /\ UNCHANGED faulty
       ELSE /\ ToClient(Frame("status", 0, 2)) /\ Close /\ faulty' = TRUE
    /\ UNCHANGED <<clientVars, peerSeq, expect, file, serverSeq, loaded>>

\* The AP-REQ is verified and the sender authorized: the empty frame.
acceptAPReq ==
    /\ server = "apreq" /\ FromClient /\ Head(toServer).kind = "apreq"
    /\ ToClient(Frame("empty", 0, <<>>))
    /\ peerSeq' = Head(toServer).seq /\ server' = "aprep"
    /\ UNCHANGED <<clientVars, expect, file, serverSeq, loaded, faulty>>

\* The AP-REQ does not verify, lacks mutual authentication, or its sender is
\* not authorized.
refuseAPReq ==
    /\ server = "apreq" /\ toServer # <<>>
    /\ ToClient(Error) /\ Close /\ faulty' = TRUE
    /\ UNCHANGED <<clientVars, peerSeq, expect, file, serverSeq, loaded>>

writeAPRep ==
    /\ server = "aprep" /\ server' = "size"
    /\ ToClient(Frame("aprep", serverSeq, <<>>))
    /\ UNCHANGED <<clientVars, peerSeq, expect, file, serverSeq, loaded, toServer, faulty>>

\* The announced size; a dump of no bytes goes to Load at once.
readSize ==
    /\ server = "size" /\ toServer # <<>>
    /\ IF verifySafe(Head(toServer), peerSeq)
       THEN /\ expect' = decodeDatabaseSize(Head(toServer).data)
            /\ peerSeq' = Succ(peerSeq)
            /\ server' = IF expect' > 0 THEN "blocks" ELSE "load"
            /\ toServer' = Tail(toServer) /\ UNCHANGED toClient
       ELSE ToClient(Error) /\ Close /\ UNCHANGED <<expect, peerSeq>>
    /\ UNCHANGED <<clientVars, file, serverSeq, loaded, faulty>>

\* One block, appended to the temporary file.  One that does not open gets a
\* KRB-ERROR, one that exceeds the announced size closes the connection.
readBlock ==
    /\ server = "blocks" /\ toServer # <<>>
    /\ LET f == Head(toServer)
       IN  IF f.kind # "priv" \/ f.seq # peerSeq
           THEN ToClient(Error) /\ Close /\ UNCHANGED <<file, peerSeq>>
           ELSE IF Len(f.data) > expect - Len(file)
           THEN Close /\ UNCHANGED <<file, peerSeq, toClient>>
           ELSE /\ file' = file \o f.data /\ peerSeq' = Succ(peerSeq)
                /\ server' = IF Len(file') < expect THEN "blocks" ELSE "load"
                /\ toServer' = Tail(toServer) /\ UNCHANGED toClient
    /\ UNCHANGED <<clientVars, expect, serverSeq, loaded, faulty>>

\* Server.Load takes the file.
load ==
    /\ server = "load" /\ server' = "final" /\ loaded' = file
    /\ UNCHANGED <<clientVars, peerSeq, expect, file, serverSeq, toServer, toClient, faulty>>

\* Server.Load refuses the file.
loadFails ==
    /\ server = "load" /\ ToClient(Error) /\ Close /\ faulty' = TRUE
    /\ UNCHANGED <<clientVars, peerSeq, expect, file, serverSeq, loaded>>

\* The echo of the number of bytes received; then serveConn returns.
writeFinal ==
    /\ server = "final" /\ Close
    /\ ToClient(Frame("safe", serverSeq, encodeDatabaseSize(Len(file))))
    /\ UNCHANGED <<clientVars, peerSeq, expect, file, serverSeq, loaded, faulty>>

\* A read that finds the connection closed by the sender and nothing left.
serveClosed ==
    /\ server \in {"version", "apreq", "size", "blocks"}
    /\ ClientDone /\ toServer = <<>> /\ Close
    /\ UNCHANGED <<clientVars, peerSeq, expect, file, serverSeq, loaded, toClient, faulty>>

\* Any error of the replica's own, a crash included: a failed write to the
\* connection or to the temporary file.  Of what was on its way to the
\* sender a part may arrive.
serveFails ==
    /\ ~ServerDone /\ Close /\ faulty' = TRUE
    /\ \E n \in 0 .. Len(toClient) : toClient' = SubSeq(toClient, 1, n)
    /\ UNCHANGED <<clientVars, peerSeq, expect, file, serverSeq, loaded>>

serveConn == \/ readVersion \/ acceptAPReq \/ refuseAPReq \/ writeAPRep
             \/ readSize \/ readBlock \/ load \/ loadFails \/ writeFinal
             \/ serveClosed

Next == Send \/ sendFails \/ serveConn \/ serveFails

\* Each side runs in a goroutine of its own and goes on while it can; no
\* fault has to happen.
Spec == Init /\ [][Next]_vars /\ WF_vars(Send) /\ WF_vars(serveConn)

-----------------------------------------------------------------------------
Seqs == 0 .. SeqModulus - 1

\* The types of the variables; Send never sends more of the dump than it
\* announced, and serveConn never stores more than was announced to it.
TypeOK ==
    /\ size \in Sizes /\ version \in Versions
    /\ client \in {"version", "status", "apreq", "reply", "aprep", "size",
                   "blocks", "final", "ok", "failed"}
    /\ server \in {"version", "apreq", "aprep", "size", "blocks", "load",
                   "final", "closed"}
    /\ {seq, peerSeq, serverSeq, serverSeen} \subseteq Seqs
    /\ sent \in 0 .. size /\ Len(file) <= expect
    /\ Len(toServer) <= Capacity /\ Len(toClient) <= Capacity
    /\ faulty \in BOOLEAN

\* Server.Load is given the dump whole and in order, or is not called:
\* whatever is lost when one side stops, no truncated database is loaded.
LoadedWhole == loaded # NotLoaded => loaded = Bytes(0, size)

T == INSTANCE Transfer WITH
        Dumps <- {Bytes(0, n) : n \in Sizes}, dump <- Bytes(0, size), Nothing <- NotLoaded,
        result <- IF ClientDone THEN client ELSE "pending"

\* The transfer implements Transfer: Server.Load is given the dump whole or is
\* not called, and Send reports success only for a dump that was loaded.
Implements == T!Spec

\* Neither side waits for the other forever, Send and serveConn both return;
\* and a transfer that meets no fault and no refusal succeeds: the two sides
\* agree on sequence numbers, encodings and the number of blocks.
Ended == ClientDone /\ ServerDone /\ (faulty \/ client = "ok")
=============================================================================
