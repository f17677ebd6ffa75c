------------------------------- MODULE GssIov -------------------------------
(***************************************************************************)
(* Scatter-gather messages (krb5/gssapi/iov.go): a sender that wraps a     *)
(* message into typed buffers and a receiver that is given those buffers   *)
(* as they were filled, or as one STREAM buffer with the whole token.      *)
(* Lengths count units of 16 octets, which the header, the confounder, the *)
(* encrypted header, the checksum and the DCE filler take one of each.     *)
(***************************************************************************)
EXTENDS Integers, Sequences

CONSTANTS
    Layouts,     \* buffer lists a caller passes: see Buffer
    Styles,      \* <<sender's, receiver's>> DCE style
    MaxMessages

\* What a buffer holds; <<>> stands for a nil buffer, which grows as needed
Types == {"header", "data", "padding", "trailer", "signOnly", "stream"}
Buffer == [type : Types, held : Seq(Seq(STRING))]

VARIABLES
    style, sendSeq, recvSeq,
    message,    \* the buffers handed over, if any, with what they were made from
    outcome     \* of the last UnwrapIOV
vars == <<style, sendSeq, recvSeq, message, outcome>>

Init == style \in Styles /\ sendSeq = 0 /\ recvSeq = 0 /\ message = <<>> /\ outcome = "none"

-----------------------------------------------------------------------------
(* Layouts                                                                 *)

indices(iov, type) == {k \in DOMAIN iov : iov[k].type = type}
has(iov, type) == indices(iov, type) # {}
the(iov, type) == iov[CHOOSE k \in indices(iov, type) : TRUE]
bytes(buffer) == IF buffer.held = <<>> THEN <<>> ELSE buffer.held[1]
concatBuffers(iov, types) ==
    LET F[k \in 0 .. Len(iov)] ==
            IF k = 0 THEN <<>> ELSE F[k - 1] \o (IF iov[k].type \in types THEN bytes(iov[k]) ELSE <<>>)
    IN F[Len(iov)]

single(iov, type) == \A k, l \in indices(iov, type) : k = l
parseIOV(iov, unwrap) ==
    /\ single(iov, "header") /\ single(iov, "padding") /\ single(iov, "trailer") /\ single(iov, "stream")
    /\ IF has(iov, "stream") THEN unwrap /\ Len(iov) = 1
       ELSE has(iov, "header") /\ has(iov, "data") /\ (unwrap => has(iov, "trailer"))

\* setIOVOutput and distributeIOV: a nil buffer takes what there is, another
\* one only what it has room for; at most one DATA buffer may be nil
fits(buffer, value) == buffer.held # <<>> => Len(value) <= Len(buffer.held[1])
distributes(iov, value) ==
    LET unsized == {k \in indices(iov, "data") : iov[k].held = <<>>}
        length == Len(concatBuffers(iov, {"data"}))
    IN /\ \A k, l \in unsized : k = l
       /\ IF unsized = {} THEN length = Len(value) ELSE length <= Len(value)

-----------------------------------------------------------------------------
(* Wrapping.  dce is the style asked for, own the context's.               *)

wrapIOVLength(sealed, dce) ==
    IF sealed THEN [header |-> 2, trailer |-> (IF dce THEN 1 ELSE 0) + 2] ELSE [header |-> 1, trailer |-> 1]
Header(sealed) == IF sealed THEN <<"head", "conf">> ELSE <<"head">>
Pad(n, s) == s \o [k \in 1 .. n - Len(s) |-> "zero"]
\* The trailer without SIGN_ONLY buffers
Trailer(sealed, dce) ==
    IF ~sealed THEN <<"mac">> ELSE (IF dce THEN <<"fill">> ELSE <<>>) \o <<"hdr", "mac">>
\* wrapIOVWithAssociatedData: as long as WrapIOVLength says, which goes by
\* the context's own style
associatedTrailer(sealed, dce, own) ==
    LET length == wrapIOVLength(sealed, own).trailer
    IN IF ~sealed THEN <<"mac">>
       ELSE Pad(length, (IF dce /\ length > 2 THEN <<"fill">> ELSE <<>>) \o <<"hdr", "mac">>)

Filled(iov, header, trailer) ==
    [k \in DOMAIN iov |->
        CASE iov[k].type = "header" -> [iov[k] EXCEPT !.held = <<header>>]
          [] iov[k].type = "trailer" -> [iov[k] EXCEPT !.held = <<trailer>>]
          [] iov[k].type = "padding" -> [iov[k] EXCEPT !.held = <<<<>>>>]
          [] OTHER -> [iov[k] EXCEPT !.held = <<bytes(iov[k])>>]]
wrapIOV(iov, sealed, dce, own) ==
    LET signs == has(iov, "signOnly")
        header == Header(sealed)
        trailer == IF signs THEN associatedTrailer(sealed, dce, own) ELSE Trailer(sealed, dce)
        plain == concatBuffers(iov, {"data"})
        placed == fits(the(iov, "header"), header) /\ distributes(iov, plain) /\ fits(the(iov, "trailer"), trailer)
    IN IF ~parseIOV(iov, FALSE) \/ ~has(iov, "trailer") THEN [result |-> "refused", taken |-> 0]
       ELSE IF ~placed THEN [result |-> "refused", taken |-> IF signs THEN 0 ELSE 1]
       ELSE [result |-> "made", taken |-> 1, iov |-> Filled(iov, header, trailer), plain |-> plain,
             sealed |-> sealed, ec |-> IF sealed /\ dce THEN 1 ELSE 0, seq |-> sendSeq, dce |-> dce, signs |-> signs,
             signed |-> concatBuffers(iov, IF sealed THEN {"signOnly"} ELSE {"signOnly", "data"})]

Wrap(iov, sealed, dce) ==
    LET w == wrapIOV(iov, sealed, dce, style[1]) IN
    /\ message = <<>> /\ sendSeq < MaxMessages
    /\ w.result = "made" \/ w.taken = 1
    /\ sendSeq' = sendSeq + w.taken
    /\ message' = IF w.result = "made" THEN <<w>> ELSE <<>>
    /\ outcome' = w.result /\ UNCHANGED <<style, recvSeq>>

-----------------------------------------------------------------------------
(* Unwrapping                                                              *)

drop(s, at, n) == SubSeq(s, 1, at - 1) \o SubSeq(s, at + n, Len(s))
shorten(s, n) == SubSeq(s, 1, Len(s) - n)
\* The sealed form: the filler is taken out, what is left must be what was
\* encrypted, and without DCE style the extra count is taken off the data
unsealed(m, payload, own) ==
    LET trailerLen == 2 + (IF own THEN m.ec ELSE 0)
        body == IF own /\ Len(payload) >= trailerLen THEN drop(payload, Len(payload) - trailerLen + 1, m.ec) ELSE payload
    IN IF \/ Len(payload) < trailerLen
          \/ body # <<"conf">> \o m.plain \o <<"hdr", "mac">>
          \/ ~own /\ m.ec > Len(m.plain)
       THEN <<>>
       ELSE <<IF own THEN m.plain ELSE shorten(m.plain, m.ec)>>
\* The token after its header
payloadOf(iov) ==
    Tail(the(iov, "header").held[1]) \o concatBuffers(iov, {"data", "padding"}) \o the(iov, "trailer").held[1]
\* <<>> or the data read
unwrapIOV(m, own) ==
    LET iov == m.iov
        payload == payloadOf(iov)
        trailerLen == 2 + (IF own THEN m.ec ELSE 0)
    IN IF ~parseIOV(iov, TRUE) \/ m.seq # recvSeq THEN <<>>
       ELSE IF ~m.sealed
       THEN IF payload = m.plain \o <<"mac">> /\ m.signed = concatBuffers(iov, {"signOnly", "data"}) THEN <<m.plain>> ELSE <<>>
       ELSE IF m.signs /\ (Len(the(iov, "trailer").held[1]) # trailerLen \/ m.signed # concatBuffers(iov, {"signOnly"}))
       THEN <<>>
       ELSE unsealed(m, payload, own)
\* With SIGN_ONLY buffers the number moves on last, otherwise before the
\* data is distributed
UnwrapIOV ==
    LET m == message[1]
        plain == unwrapIOV(m, style[2])
        placed == plain # <<>> /\ distributes(m.iov, plain[1])
    IN /\ message # <<>>
       /\ recvSeq' = IF placed \/ (plain # <<>> /\ ~m.signs) THEN recvSeq + 1 ELSE recvSeq
       /\ outcome' = IF placed THEN "read" ELSE "rejected"
       /\ message' = <<>> /\ UNCHANGED <<style, sendSeq>>

\* A STREAM buffer is unwrapped like any token: no filler is taken out of it,
\* and no SIGN_ONLY buffer comes with it
unwrap(m, own) ==
    IF m.seq # recvSeq THEN <<>>
    ELSE IF ~m.sealed
    THEN IF payloadOf(m.iov) = m.plain \o <<"mac">> /\ m.signed = m.plain THEN <<m.plain>> ELSE <<>>
    ELSE IF payloadOf(m.iov) # <<"conf">> \o m.plain \o <<"hdr", "mac">> \/ m.signed # <<>> THEN <<>>
    ELSE <<IF own THEN m.plain ELSE shorten(m.plain, m.ec)>>
UnwrapStream ==
    LET plain == unwrap(message[1], style[2])
    IN /\ message # <<>>
       /\ recvSeq' = IF plain # <<>> THEN recvSeq + 1 ELSE recvSeq
       /\ outcome' = IF plain # <<>> THEN "read" ELSE "rejected"
       /\ message' = <<>> /\ UNCHANGED <<style, sendSeq>>

\* WrapIOV asks for the context's style, WrapIOVWithOptions for the caller's
WrapIOV(iov, sealed) == Wrap(iov, sealed, style[1])
WrapIOVWithOptions(iov, sealed, dce) == Wrap(iov, sealed, dce)
Next ==
    \/ \E iov \in Layouts, sealed \in BOOLEAN :
        WrapIOV(iov, sealed) \/ \E dce \in BOOLEAN : WrapIOVWithOptions(iov, sealed, dce)
    \/ UnwrapIOV \/ UnwrapStream
Spec == Init /\ [][Next]_vars

-----------------------------------------------------------------------------
(* Properties                                                              *)

Readable(m) ==
    LET plain == unwrapIOV(m, style[2])
    IN plain = <<m.plain>> /\ distributes(m.iov, plain[1])
\* In the receiver's style, and not numbered past a call that failed
Due(m) == m.seq = recvSeq /\ m.dce = style[2]

\* A message in the receiver's style that was wrapped without an error is read
\* by it, whatever the buffers, unless an earlier call that failed had already
\* taken a sequence number.  With SIGN_ONLY buffers this needs the style asked
\* for to be the sending context's own.  Put together as a STREAM it is read as
\* well, unless it has SIGN_ONLY buffers or a DCE filler.
IovReadable ==
    \A m \in {message[k] : k \in DOMAIN message} :
        /\ Due(m) /\ (m.signs => m.dce = style[1]) => Readable(m)
        /\ Due(m) /\ ~m.signs /\ m.ec = 0 => unwrap(m, style[2]) = <<m.plain>>

\* "WrapIOVWithOptions is equivalent to WrapIOV with optional DCE framing": a
\* peer in the style that was asked for reads the message.
OptionsEquivalent == \A m \in {message[k] : k \in DOMAIN message} : Due(m) => Readable(m)
=============================================================================
