-------------------------- MODULE ClientTransport ---------------------------
(***************************************************************************)
(* How a request of krb5/client reaches a KDC: exchangeRawPayload and      *)
(* roundTrip (client.go), the UDP and TCP exchange of krb5/transport, and  *)
(* the HTTPS proxy of krb5/kkdcp on both its sides.                        *)
(*                                                                         *)
(* A call is a record of Requests: via, how the client is configured to    *)
(* reach the realm; size, the length of the request; timeout, the          *)
(* request_timeout (0 for none); limit, udp_preference_limit; and ctx, the *)
(* caller's deadline (Never for none).  Time is counted in ticks, and a    *)
(* deadline of the runtime fires before the clock moves on.                *)
(***************************************************************************)
EXTENDS Integers

CONSTANTS Requests, Never, MaxClock,
          MaxFrame      \* DefaultMaxFrameSize, which kkdcp shares

VARIABLES r,         \* the request in hand
          pc,        \* "begin", "hook", "send", "udp", "dial", "tcp", "https", "done"
          clock,
          deadline,  \* of the context the sockets run under
          cancelled, \* the caller's context
          wire,      \* what has arrived for the socket in use: "" or an answer
          result     \* "" while the call runs

vars == <<r, pc, clock, deadline, cancelled, wire, result>>

Pending == pc # "done"
MinOf(a, b) == IF a < b THEN a ELSE b
\* A context is done when it was cancelled or its deadline has come
CtxErr == cancelled \/ clock >= deadline

Return(value) == pc' = "done" /\ result' = value /\ wire' = ""
Goto(label) == pc' = label /\ wire' = "" /\ UNCHANGED result

\* Mutant: the timeout does not reach the context
CallerDeadline == r.ctx

\* transport.go: context.WithTimeout at the head of Request: the timeout of the
\* whole exchange, on top of the caller's deadline
RequestDeadline ==
    IF r.via = "kdc" /\ r.timeout > 0 THEN MinOf(r.ctx, clock + r.timeout) ELSE r.ctx

\* client.go: the choice of the way, whose address may not resolve and whose
\* socket may not open; and transport.go: the head of Request
Begin ==
    /\ pc = "begin"
    /\ deadline' = RequestDeadline
    /\ IF r.via = "hook" THEN Goto("hook")
       ELSE IF r.via = "none" THEN Return("no KDC configured")
       ELSE IF r.via = "https" THEN IF cancelled \/ r.size = 0 \/ r.size > MaxFrame
                                    THEN Return("refused") ELSE Goto("https")
       ELSE \/ Return("UDP socket")
            \/ IF cancelled THEN Return("context")
               ELSE IF r.size > r.limit THEN Goto("dial") ELSE Goto("send")
    /\ UNCHANGED <<r, clock, cancelled>>

\* The Exchange function of the caller
Hook ==
    /\ pc = "hook"
    /\ \E v \in {"answer", "hook failed"} : Return(v)
    /\ UNCHANGED <<r, clock, deadline, cancelled>>

\* transport.go: requestUDP: one datagram goes out
UDPSend ==
    /\ pc = "send"
    /\ IF CtxErr THEN Return("context") ELSE Goto("udp") \/ Return("UDP error")
    /\ UNCHANGED <<r, clock, deadline, cancelled>>

\* transport.go: the loop of requestUDP reads until a datagram comes back.  A
\* read without a deadline is cut every 50 ms to look at the context; one with
\* a deadline returns when that has come.
UDPRead ==
    /\ pc = "udp"
    /\ \/ wire # "" /\ CASE wire = "too big" -> Goto("dial")
                         [] wire = "oversized" -> Return("frame size")
                         [] OTHER -> Return("answer")
       \/ wire = "" /\ clock >= deadline /\ Return("deadline")
       \/ wire = "" /\ deadline = Never /\ cancelled /\ Return("context")
       \/ wire = "" /\ Return("UDP error")
    /\ UNCHANGED <<r, clock, deadline, cancelled>>

\* Mutant: the TCP retry starts with a timeout of its own
DialFresh ==
    /\ pc = "dial"
    /\ IF CtxErr THEN Return("context") ELSE Goto("tcp") \/ Return("TCP connection")
    /\ deadline' = IF r.timeout > 0 THEN clock + r.timeout ELSE r.ctx
    /\ UNCHANGED <<r, clock, cancelled>>

\* transport.go: requestTCP: dialling, and the framed exchange.  A goroutine
\* closes the connection when the context is done.
Dial ==
    /\ pc = "dial"
    /\ IF CtxErr THEN Return("context") ELSE Goto("tcp") \/ Return("TCP connection")
    /\ UNCHANGED <<r, clock, deadline, cancelled>>

\* transport.go: ReadTCPFrame
TCPRead ==
    /\ pc = "tcp"
    /\ \/ wire # "" /\ Return(IF wire = "oversized" THEN "frame size" ELSE "answer")
       \/ wire = "" /\ CtxErr /\ Return("context")
       \/ wire = "" /\ Return("TCP error")
    /\ UNCHANGED <<r, clock, deadline, cancelled>>

\* kkdcp.go: Handler.ServeHTTP, for a POST of the right media type that holds
\* one whole Kerberos message, as Client.Exchange sends: the path must be the
\* proxy's, and what the backend answers must be a message that fits
ServeHTTP(backend) ==
    CASE backend = "other path" -> 404
      [] backend \in {"failed", "empty", "oversized"} -> 502
      [] OTHER -> 200

\* kkdcp.go: Client.Exchange.  The HTTP client that kkdcpClient makes has no
\* timeout of its own: the proxy's answer and the caller's context end it.
HTTPSRead ==
    /\ pc = "https"
    /\ \/ wire # "" /\ Return(IF ServeHTTP(wire) = 200 THEN "answer" ELSE "HTTP status")
       \/ wire = "" /\ CtxErr /\ Return("context")
       \/ wire = "" /\ Return("HTTP error")
    /\ UNCHANGED <<r, clock, deadline, cancelled>>

\* The network: an answer arrives for the socket in use, or never does
Arrive ==
    /\ pc \in {"udp", "tcp", "https"} /\ wire = ""
    /\ wire' \in CASE pc = "udp" -> {"answer", "too big", "oversized"}
                   [] pc = "tcp" -> {"answer", "oversized"}
                   [] OTHER -> {"answer", "other path", "failed", "empty", "oversized"}
    /\ UNCHANGED <<r, pc, clock, deadline, cancelled, result>>

Cancel ==
    /\ Pending /\ ~cancelled /\ cancelled' = TRUE
    /\ UNCHANGED <<r, pc, clock, deadline, wire, result>>

\* The clock; what is due is handled before it moves on
Due == pc \in {"send", "udp", "dial", "tcp", "https"} /\ clock >= deadline
Tick ==
    /\ clock < MaxClock /\ Pending /\ pc # "begin" /\ ~Due
    /\ clock' = clock + 1
    /\ UNCHANGED <<r, pc, deadline, cancelled, wire, result>>

Init ==
    /\ r \in Requests /\ pc = "begin" /\ clock = 0 /\ deadline = Never
    /\ cancelled = FALSE /\ wire = "" /\ result = ""
Next == Begin \/ Hook \/ UDPSend \/ UDPRead \/ Dial \/ TCPRead \/ HTTPSRead \/ Arrive \/ Cancel \/ Tick

\* The goroutine runs, timers fire, time passes; nothing is assumed of the
\* network, of the proxy or of the caller's context
Expire == Due /\ (UDPSend \/ UDPRead \/ Dial \/ TCPRead \/ HTTPSRead)
Fairness ==
    /\ WF_vars(Begin) /\ WF_vars(Hook) /\ WF_vars(UDPSend) /\ WF_vars(Dial) /\ WF_vars(Tick) /\ WF_vars(Expire)
    /\ WF_vars(wire # "" /\ (UDPRead \/ TCPRead \/ HTTPSRead))
Spec == Init /\ [][Next]_vars /\ Fairness

-----------------------------------------------------------------------------
(* request_timeout is one deadline across UDP and its TCP retry: a call    *)
(* with a timeout is never still waiting when that time has passed since   *)
(* it began, nor past the caller's own deadline.                           *)
OneDeadline ==
    Pending => /\ r.via = "kdc" /\ r.timeout > 0 => clock <= r.timeout
               /\ pc # "hook" => clock <= r.ctx

(* A call that has a timeout or a caller's deadline returns even if no     *)
(* answer ever comes.                                                      *)
RequestReturns ==
    ((r.via \in {"kdc", "none", "hook"} /\ r.timeout > 0) \/ r.ctx # Never) ~> pc = "done"

=============================================================================
