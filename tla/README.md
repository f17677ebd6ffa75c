# A TLA+ model of go-kerberos

This directory models the protocols and the shared state of go-kerberos: the
KDC's exchanges and what it keeps between requests, the administration servers
and their database, propagation to replicas, the client, and the library's
security contexts and caches. TLC checks the models on small instances; TLAPS
proves the main properties of six of them for every value of their constants.

`PROJECT.json` lists the components, the runs, the mutations each property was
seen to reject, the source lines of every definition, the hazards and the
theorems.

## 1. The system and its modules

An administrator changes the **database** through kadm5, kpasswd or a local
tool. Every change is appended to the master's **update log**; gokpropd polls
that log through iprop, applies the updates, saves its database and records its
cursor in a log file. When the master can no longer tell what a cursor lacks,
the daemon asks for a full resync, which arrives as a kprop transfer on a
connection of its own. A **KDC** request goes through the listener, the
lookaside cache, and then the AS or TGS exchange, which consults database,
lockout, replay cache and, for one-time passwords, a RADIUS server. A **client**
finds a realm and its KDCs, sends AS and TGS requests over UDP, TCP or HTTPS,
and keeps tickets in a **credential cache**. The tickets make **GSS contexts**,
on which SPNEGO, IAKERB, RPCSEC_GSS (kadm5, iprop) and the change-password
protocol are built.

### Propagation

| Module | Models | State | Actions |
| --- | --- | --- | --- |
| `UpdateLog` | `kdb.UpdateLog` | the struct's fields; history: `hist` (all updates), `origins` (where each log started) | append, SetCapacity, Reset, ConfigureUpdateLog; `Entries`, `Last` are operators |
| `Replica` | dispatch, Poll, SetCursor; composes `UpdateLog` | step of the poll, reply, database and cursor in memory and on disk | one per step of Poll, Fail, Restart |
| `Gokpropd` | `runIncremental` and its connections; composes `Replica` | `pending`, `channel`, open transfers, replica file, keys still sealed | one per branch of the loop and step of Load |
| `Ulog` | `iprop.Ulog` | blocks and header on disk, cached header | AddUpdate and SetCursor in two writes, Restart, gokproplog -R |
| `Transfer` | what a kprop transfer promises | dump, loaded, result | Load, Succeed, Fail |
| `Kprop` | Send and serveConn; implements `Transfer` | both program counters, sequence numbers, frames | one per frame written or read |

### KDC

| Module | Models | State | Actions |
| --- | --- | --- | --- |
| `KdcPolicy` | what AS and TGS share: key selection, times, flags, transit, freshness, policy plug-ins | server configuration, database, clock | operators |
| `KdcAS` | handleASReqCore: modules, OTP, encrypted challenge and timestamp, SPAKE, PKINIT, FAST | | operators from request to reply |
| `KdcTGS` | handleTGSReqCore: renewal, validation, postdating, forwarding, referral, S4U, user-to-user; `replayed` | the replay map | operators |
| `Kdc` | a server answering requests while time passes and its database changes | tickets, cookies and tokens clients hold; history of guesses and authenticators | AS, TGS, Tick, administrator |
| `Lockout` | lockedOut and the lockout operations of both kinds of store | policy, count, last failure, each request's copy | one per locked section |
| `Lookaside` | both lookaside caches and their handlers | queue, size, handlers | Arrive, begin, Process, complete |
| `KdcListener` | ListenAndServe, serveUDP, serveTCP, handlers | loops, worker pool, connections, channel | one per step of a goroutine |
| `Krad` | RADIUSVerifier and the RADIUS client | identifiers, shared sockets, locks, packets | reserve, resolve, lock, send, receive, give up; loss and delay |

### Administration

| Module | Models | State | Actions |
| --- | --- | --- | --- |
| `Database` | `kdb.Database`: principals, keys, history, aliases, strings, policies | | operators from a database to an error and a database |
| `KadmAuthz` | kadm5.acl, modules, restrictions, password quality | | operators |
| `Kadm5` | every procedure of the kadm5 server and kpasswd's change | database, sessions, per connection the handler's reads | check and read, then commit, for each procedure |
| `MasterKeys` | gokdb5util and gokadmin.local on the database file | file, backup, what each tool has read | one per command; a command that waits for an answer is two steps |
| `Kpasswd` | both sides of the change-password protocol | packets, lookaside and replay cache, handlers, replies | send, deliver, duplicate, look up, verify, change, answer |
| `RpcGss` | RPCSEC_GSS client and server session | connection, sequence numbers, contexts | set-up, call, abandon (with a record cut off half-way), dispatch, reply |

### Client

| Module | Models | State | Actions |
| --- | --- | --- | --- |
| `ClientAS` | ASExchange and its variants, padata selection | each call's step, requests on the wire | Build, Send, Receive, TransportFails |
| `ClientTGS` | TGSExchange, FAST, user-to-user, S4U, VerifyInitCreds | the call, its ticket and path | one per round trip |
| `ClientTransport` | UDP, TCP, HTTPS proxy (both sides) | clock, deadline, packet | one per send, read, tick and expiry |
| `Locate` | RealmForHost, host name candidates, KDC discovery | query and answer | one |

### Contexts and caches

| Module | Models | State | Actions |
| --- | --- | --- | --- |
| `ReplayCache` | `rcache.File2` | records of the file, hash indexes, clock | store, Tick |
| `GssContext` | AP exchange and Kerberos mechanism | initiators, acceptor's handlers and replay cache, contexts, tokens | init, accept in steps, complete, wrap, unwrap, export |
| `GssIov` | scatter-gather messages | styles, numbers, buffers | wrap, unwrap from buffers or from one STREAM buffer |
| `AppMsg` | KRB-SAFE, KRB-PRIV, with the expiry of `rcache.Memory` | numbers, tags, messages | make, read |
| `CCache` | FILE and MEMORY caches | inodes or memory objects, handles, lock | one per step of a call, failed write, crash |
| `Kcm` | KCM daemon and its clients | caches, index of UUIDs, default | one per look-up and per act of a request, broken connection |
| `Spnego` | SPNEGO and NegoEx | both objects of each negotiation, tokens | initial token, accept, continue |
| `Iakerb` | IAKERB initiator and acceptor | states, transcripts, tokens | start, deliver, duplicate |

`MCPropagation`, `MCKdcServer`, `MCKdc`, `MCKadm5`, `MCClient`, `MCSessions` and
`MCExchanges` instantiate these for TLC. Most are *sums*: machines that share no
state stand side by side, a variable `part` chosen initially says which one runs,
and the others stay in an initial state. Such a run explores exactly the states
of each machine, not their product. `UpdateLogProofs`, `ReplayCacheProofs`,
`LockoutProofs`, `DatabaseProofs`, `Kadm5Proofs`, `KdcExchangeProofs` and `KdcProofs`
hold the proofs; those of the change-password protocol are in `Kpasswd`.

### What is abstracted

- A principal, an update, a tag, a request or a password is a model value or a
  member of a small set. A replica's database is, for each principal, the
  position in the update history of the change it has.
- Encryption is what it does: a message names the key it was made under and is
  read with that key only. Keys are named by where they come from (password and
  salt, version, subkey of an authenticator). Hash values of the replay cache
  are an arbitrary function chosen initially.
- A response, buffer or dump is its length, or a short sequence where its
  content matters.
- The clock is a small counter. Where the code reads it before it takes a lock,
  the reading is a step of its own or a value kept with the request.
- A KDC handler is one step in `Kdc`. What concurrent handlers do to a failure
  count is the subject of `Lockout`, and to a database that of `Kadm5`.
- The peers of a modelled side (the KDCs a client talks to, RADIUS servers, DNS)
  may give any answer of the right kind.

## 2. Runs that pass

**`propagation`** (`UpdateLog`, `Replica`, `Gokpropd`, `Ulog`, `Kprop`).
`RetainedIsNewest` and `NoUpdateSkipped`: what the log retains is the newest part
of the history, and no cursor makes a replica skip an update. `ReplicaResumes`,
`NeverRegresses`: database and cursor belong together at every poll and, on disk,
at every moment; the database on disk never goes back. `LogFileSound`: the cursor
in the log file names one update, also after a crash between two writes.
`Implements`, `TransferEnds`: Kprop implements Transfer; both sides return.
`Resumable`, `Converges`: the daemon loses nothing, never hangs in a resync, and
ends up with the master's database.
*Bounds*: serials wrap at 5 with 5 updates and capacities 0 to 3, so the log is
trimmed, reset, replaced and wraps; 4 updates, capacity 1 or 2 and 2 faults for
the replica, so a fault meets the recovery from another; 2 updates, a stray dump,
a fault and a restart for the daemon, so an update falls between request and
dump; a ring of 3 with serials to 4 and a second log of the master; dump sizes on
both sides of a block and of the short size encoding, sequence numbers that wrap.

**`kdc_server`** (`Lockout`, `Lookaside`, `KdcListener`). `FailuresBounded`,
`LockKept`: concurrent requests get no more guesses than the bound, no failure is
forgotten early, an account locked for good stays locked until a request that
was admitted before succeeds. `AppliedOnce`: a request is
processed again only after its entry was lost. `BoundsKept`: bytes and sockets
stay within their limits and the newest connections are kept. `ListenerEnds`:
every connection and, once the server has returned, every loop ends.
*Bounds*: two requests at once, two failures to lock, a clock past interval and
duration, both stores, permanent and temporary policies; two requests at two
handlers and a size that forces eviction; 3 connections against a limit of 2, one
worker, two datagrams.

**`kdc_exchange`** (`Kdc`). `NoWayAround`: no mechanism is a way around
preauthentication, hardware or a module that is required. `GuessesBounded`:
whatever mechanisms are mixed, the wrong secrets tested are counted.
`RenewalsEnd`: no chain of renewals and exchanges outlives the first renewable
life, and no postdated ticket becomes valid early. `RevokedGetNothing`: nothing
is issued in the name of an account disabled or expired since.
`AuthenticatorOnce`: an authenticator is honoured once unless the full cache
forgot it. *Bounds*: eleven configurations of the server, each with the requests,
clock and number of held tickets its mechanisms need (`MCKdc`).

**`admin`** (`Kadm5`, `MasterKeys`). `LogComplete`: the log replays to exactly
the database. `KvnoCoversKeys`: no key is newer than its principal, and a
principal with a known password has a key. `NoReuse`: overlapping changes do not get round
the password history. `PolicyKept`: no step leaves a principal with a deleted
policy (a stale modify and a rename are excepted). `Confined`: a changepw session
changes only its own principal. `DumpRecoverable`: after any order of commands
the dump opens with each master key it holds. *Bounds*: two connections whose
checks and commits interleave; two principals and six commands, enough to add two
master keys, activate, re-encrypt and purge, with a second tool in between.

**`client`** (`ClientAS`, `ClientTGS`, `ClientTransport`, `Locate`).
`ASCallSound`: credentials come only from an answer to the call's own request.
`ChainOfTickets`: requests follow the chain of tickets, no realm is asked twice
in a pass, and their number is bounded. `TicketAsRequested`: the ticket returned
is the one asked for, and credentials are verified only by a keytab key.
`OneDeadline`: one deadline covers UDP and its TCP retry. `Located`: realms,
names and KDCs agree with a reference definition. `ClientCallsReturn`: every
call returns. *Bounds*: two AS calls in flight whose answers may be swapped; five
realms with a capath of one hop, none and one that names no realm; a hop limit of
3; deadlines before, at and after a timeout.

**`sessions`** (`ReplayCache`, `GssContext`, `GssIov`, `AppMsg`, `CCache`, `Kcm`).
`ReplayDetected`, `NotAcceptedTwice`: an accepted tag whose time is at most
`Skew - Lead` behind the clock is found however records collide, expire and spill
and the clock wraps. `TakenOnce`: an initial token makes one context unless
handlers overtake each other at an edge of its skew, and contexts and receivers
take messages once and in order. `EndsAgree`: both ends have the same key, number and bindings, and
wrapped buffers can be read. `CacheSound`: operations on a cache, failed
ones included, are as if one after the other. `KcmSound`: the daemon's indexes, UUIDs and listings stay
consistent, and an operation that ran alone is exact. *Bounds*: 3 tags in tables of 1 and 4 records, a clock of 6 seconds;
one token at two handlers, two contexts with messages; two callers of a cache
with a crash or a failure between the steps of a write; a KCM daemon with and without the
newer requests.

**`exchanges`** (`Spnego`, `Iakerb`, `RpcGss`, `Kpasswd`, `Krad`).
`TranscriptsEqual`: ends that completed hold the same key, mechanisms and
transcript. `AnswersTrue`: what a caller is told is the outcome of its own call,
carried out once. `ExchangesEnd`: every exchange that can complete does.
*Bounds*: two negotiations whose tokens may meet; three realms and a duplicated
token; six RPC calls, any of them abandoned, before its record is complete too; a password packet delivered three
times to two handlers; two RADIUS verifications that share a socket, with as few
as one identifier, and servers whose names do not resolve.

### What the properties except

- `NoUpdateSkipped` is about cursors handed out after an update: to the zero
  cursor, a log that was replaced or has wrapped answers as if nothing came
  before it (`krb5/kdb/ulog.go:90`). `Replica` assumes serials that do not wrap.
- `Resumable` and `Converges` hold until a stray dump or a restart. A late dump
  completes a later resync and leaves the cursor ahead of the database
  (`cmd/gokpropd/incremental.go:323`); for a restart see `gokpropd_restart`.
  On disk, `Converges` excepts keys that Persist refuses (`gokpropd_persist`).
- `ReplayCache` stores nothing in second zero of the 32-bit clock, whose records
  count as free (`krb5/rcache/rcache.go:170`), and assumes that two calls' clock
  readings differ by at most `Lag`, with `Skew + Lag + Lead` below half the period.
  A message's time may lead the clock by `Lead`, up to the skew. Records expire by
  the time of the message being stored, not by the clock (`krb5/rcache/rcache.go:150`),
  so a leading message can expire the record of one that is still within the skew;
  the properties cover times at most `Skew - Lead` behind the clock.
- `TakenOnce` for `AppMsg`: a message is read twice only when one stamped more than
  the skew later was read in between. The same expiry is the reason.
- `BoundsKept` is about bytes held; the size a lookaside cache accounts for may
  be larger, because an entry completed twice is counted twice
  (`krb5/kdc/lookaside.go:71`).
- `FailuresBounded` and `LockKept` are about permanent lockouts without a
  failure interval. With one, a permanent lockout ends when the interval has
  passed (`krb5/kdc/policy.go:121`; `docs/test-matrix.md:291` says until reset).
  They are about stores that implement LockoutRecorder; the others write back a
  whole record and can lose a failure.
- `TakenOnce`: a handler that read the clock earlier than one before it can
  find the entry of its token swept from the in-memory cache. The property bounds
  how often a token can then be accepted.
- `ASCallSound`: an armored call takes the client name the KDC gave in the FAST
  finished part, whether or not the client canonicalizes (`krb5/client/client.go:49`).
- `AuthenticatorOnce` is about authenticators made before they were received: the
  KDC keeps an entry for the skew after its first use, so one whose time lies ahead
  outlives it.
- `CacheSound` excepts an unlocked Write or Destroy that overlaps another change.
  After a crash or a failed write between unlinking and writing, the contents are
  what parses of the new file.
- `KcmSound`: a read whose list of credentials fails, and a listing in which a
  name fails, succeed with what they have (`krb5/ccache/kcm_client.go:134`, `543`);
  exactness is claimed of calls without such a failure.
- `EndsAgree` excepts IOV messages with SIGN_ONLY buffers in a foreign style
  (`iov_options`), messages with SIGN_ONLY or padding bytes read as one STREAM
  buffer, and messages after a failed call that had taken a number.
- `KvnoCoversKeys`: SetKeys with an empty list leaves a principal without keys
  (`krb5/kdb/kdb.go:986`); the property says that no principal whose password is
  known is in that state. Versions are naturals: that a 32-bit version wraps after
  2^32 changes is outside the model.
- `DumpRecoverable` excepts two cases. gokadmin.local rewrites the list of
  master keys as one key of version 1, so principals wrapped under a later
  version, and principals created with `-nokey`, make the dump unloadable
  (`krb5/kdb/mitdump/mitdump.go:1428`). And after purge_mkeys removes the newest
  key, the auxiliary data still wraps that key. Purging can also leave only a
  key whose activation lies in the future.
- `TranscriptsEqual` for IAKERB: transcripts at the AP request are compared when
  no token was delivered twice; a context is established only on equal ones.

### Fairness

- `Gokpropd`: the loop and each connection are goroutines the runtime keeps
  running, and timers fire. The master answers, and sends the dump it was asked
  for, except for the bounded number of faults.
- `Kprop`: each side goes on when it can; a read ends when a frame arrives or the
  peer has closed.
- `KdcListener`: loops go on when they can, a handler ends because its reads have
  a deadline, and closing a listener ends its loop.
- `ClientAS`, `ClientTGS`: a request is answered or its transport fails.
  `ClientTransport`, where the answer may never come, justifies this: there the
  clock moves and deadlines fire, and calls without any deadline are excepted.
- `Krad`: a caller goes on, since its socket has a read deadline and the holder
  of a socket lets go of it.
- `Spnego`, `Iakerb`: each end handles the tokens it is given.
- Nothing is assumed of arrivals, other clients, faults, duplicates, crashes or
  restarts.

Deadlock is not checked where a model may stop: a daemon that exits, an exchange
that is over, or a bounded clock or counter at its bound.

## 3. Runs in which the code departs from its texts

| Run | The code | The text |
| --- | --- | --- |
| `gokpropd_restart` (`SeededBeforePolling`) | a restarted daemon polls with the cursor on disk and an empty database (`cmd/gokpropd/incremental.go:107`), which the next Persist saves over the complete one | `krb5/iprop/rpc.go:831` |
| `gokpropd_persist` (`UpdatesPersisted`) | the dump of a resync is installed with its keys still encrypted, and Persist refuses to write them: later updates stay in memory (`cmd/gokpropd/incremental.go:149`) | `docs/test-matrix.md:824` |
| `admin_lookup` (`LookupIsolated`) | Lookup copies a record's maps after it released the lock, while SetString writes them (`krb5/kdb/kdb.go:1239`) | `krb5/kdb/kdb.go:155` |
| `kdc_renew` (`LifeBounded`) | a TGS-issued ticket has no start time, so its renewal lasts from its authentication to its end, which can exceed the limits (`krb5/kdc/tgs.go:779`) | `README.md:420` |
| `iov_options` (`OptionsEquivalent`) | WrapIOVWithOptions with SIGN_ONLY buffers sizes the trailer by the context's own style (`krb5/gssapi/iov.go:605`) | `krb5/gssapi/iov.go:89` |

The first two use the modules of `propagation` with the configuration files
`MCGokpropdUnseeded.cfg` and `MCGokpropdPersist.cfg`; the others the MC module of
their component.

## 4. Proofs

- `UpdateLogProofs`. `LogInv` adds to the type invariant and `RetainedIsNewest`
  that `last` and `lastTime` name the newest update and that no two updates of
  the history have the same serial and time. Without the last part a cursor would
  not name one update, and a search by serial could resume at the wrong one. From
  it: `TypeCorrect`, `RetentionCorrect`, `NothingSkipped`. Assumed: capacities are
  naturals, times are positive, the largest serial is positive.
- `ReplayCacheProofs`. `RcInv` is the type invariant with `RecordReachable`: the
  record of every accepted tag whose time is at most `Window` = `Skew - Lead` behind
  the clock lies in a slot pair that the search
  for it visits, because the pairs before are full. A store writes only to a free
  or expired record, and filling a record never shortens a search. From it:
  `TypeCorrect`, `RecordsReachable`, `ReplaysDetected`, `AcceptedOnce`. Assumed:
  the layout is the one `nextTable` computes, `Lead` is at most `Skew`, and
  `Skew + Lag + Lead < Half`.
- `LockoutProofs`. `LockoutInv` says that every failure since the last success is
  counted, and that once the count has reached `MaxFailure`, the count and the
  requests that may still fail stay below the bound together. The second part is
  what makes the bound inductive: a request that fails moves from one side to the
  other. From it: `FailuresStayBounded`, for every finite set of requests and
  every policy with a permanent lockout, no failure interval, and a store that
  implements LockoutRecorder.
- `DatabaseProofs`, `Kadm5Proofs`. `AdminInv` has three parts. `Sound`: every
  record is stored under its own name and equals its copy in the log. `Records`:
  no key of a record is newer than the record's version; a record whose password is
  known has keys, all of that version; and its history (`past`) lists different
  passwords, the first that of its keys and the others those of its old keys. The
  agreement with the old keys is what makes the history inductive: the check of
  changePasswordWithTuples compares a new password with those keys, not with the
  passwords, and a purge, random keys, explicit keys or a stale modify must leave
  the two in step. The third part says, of a request between its checks and its
  commit, what the checks established: its argument is a record or policy of that
  kind, and for a kadmin/changepw session it is a look-up, a kpasswd change, or a key
  change of the client's own principal. Without it nothing would be known of the
  argument with which a handler commits at a later step. `DatabaseProofs` shows, for
  each operation of the database, that it keeps the first two parts, that key and
  string changes touch one principal, and which operations can leave a name of a
  policy that does not exist; `Kadm5Proofs` shows that each handler's list of checks
  refuses the session or forces the target. From it: `LogCompleteTheorem`,
  `VersionsCoverKeys`, `NoPasswordReused`, `PoliciesAreKept`, `ConfinedTheorem`.
  Assumed: some encryption type exists (`EnctypesAssumption`), the servers start
  with a database of that kind (`InitAssumption`; an empty one is), requests name a
  procedure of dispatch or kpasswd (`RequestAssumption`), their arguments have the
  types that the decoders give them (`ArgumentAssumption`), the restrictions of an
  authorisation module name at most one policy (`ModulesAssumption`), and the bounds
  of the model are naturals (`BoundAssumption`).
- `KdcExchangeProofs`, `KdcProofs`. `KdcInv` has four parts. `AccountsInv`: every
  wrong secret that was tested is counted, and an account is locked before it has
  counted more than its policy allows. `TicketsInv`: the tickets held are sound, that
  is, only a renewable ticket has a renewable life, it ends no later than the one
  the AS exchange set, and a ticket that is not marked invalid had started when it
  was issued. `ReplaysInv`: an authenticator
  that was honoured and is within the clock skew is in the replay cache, for as long
  as it can be accepted, or was evicted; the cache keeps to its limit. `ClockInv`
  bounds the clock. The properties speak of the exchange that was just made; the
  invariant must speak of what is held from earlier ones. `KdcExchangeProofs` takes
  the AS and TGS exchanges apart: what each mechanism tests and counts, which
  preauthentication a reply proves, and how the times of a reply follow from those
  of the ticket presented. From it: `GuessesAreBounded`, `NoWayAroundDemands`,
  `RenewalsDoEnd`, `RevokedNeverServed`, `AuthenticatorsCountOnce`. Assumed: the
  configurations, databases and requests have the fields of the code's types, and
  tickets of other realms are sound (`ConfigurationAssumption`, `RequestAssumption`);
  the replay cache has room for one entry (`MaxReplaysAssumption`).
- `Kpasswd`. `OutcomeInv` says that an outcome which was received, is under
  way or is kept in the lookaside cache exists only for a packet in the replay
  cache, once no handler works on that packet, and agrees with what happened to the
  password; and that at most one handler works on a packet. The property speaks
  only of what the caller received; the invariant must cover all places an answer
  can come from later. From it: `ResultsTrue`, the kpasswd part of `AnswersTrue`.
  Assumed: requests have the fields of `Request`.

Where a proof needs the least or the largest element of a set, or the first check
that fails, it argues from a minimal element of a well-founded order, since
induction over data is out of the prover's reach.

Only model-checked: the properties of the other modules. Among them, liveness,
and with it the refinement of `Transfer` by `Kprop`, whose specification includes
fairness, are out of the prover's reach, and so is what a recursive operator or a
fold computes.

## 5. Not modelled, and why

- Cryptography, ASN.1, PAC, CAMMAC, PKINIT messages, NDR, XDR, file formats,
  principal parsing, configuration syntax: they compute and keep no state; tests
  with vectors and corpora are the better tool. Where an exchange depends on
  their outcome, the outcome is a value of the model.
- KEYRING and MSLSA credential caches: their state belongs to the operating
  system. The primary file of DIR is a single unlocked write.
- Keytabs: look-ups, and a map under one lock whose operations are one step each.
- `Ulog.GetEntries`, gokproplog's output, list_mkeys, tabdump, logs and traces:
  they only read. The stash file: no modelled command reads it back.
- One `rcache.Memory` shared by services with different skews: `AppMsg` has one
  skew. The map of the AP exchange with its sweeps is in `GssContext` and the KDC's
  in `KdcTGS`.
- The command languages of gokadmin and the credential tools: command lines over
  the operations above. The standalone mode of gokpropd and gokprop: kprop
  transfers, modelled by `Kprop`.
- Local authorization: rules over names and files.
- Test helpers and integration tests.
