------------------------------- MODULE Lockout ------------------------------
(***************************************************************************)
(* Account lockout: the KDC's lockedOut, recordPreauthFailure and          *)
(* recordPreauthSuccess (krb5/kdc/policy.go) in handleASReq, and the       *)
(* transitions of one principal's record in the database (krb5/kdb/kdb.go: *)
(* UpdateLockout, RecordAuthFailure, ResetAuthFailures,                    *)
(* RecordAuthSuccess).  Requests are handled concurrently, each with a     *)
(* copy of the record from its Lookup and with its own readings of the     *)
(* clock.                                                                  *)
(*                                                                         *)
(* misses is a history variable: the failures recorded since the last      *)
(* success.                                                                *)
(***************************************************************************)
EXTENDS Integers, FiniteSets

CONSTANTS
    Workers,                \* requests for the principal handled at once
    Policies,               \* the policies the principal may have
    Stores,                 \* "recorder" if the store implements kdb.LockoutRecorder
    MaxTime,                \* bound on the clock
    MaxMisses               \* bound on misses

ASSUME LockoutAssumption ==
    /\ IsFiniteSet(Workers)
    /\ Policies \subseteq [MaxFailure : Nat, FailureCountInterval : Nat, LockoutDuration : Nat]
    /\ Stores \subseteq {"recorder", "updater"}
    /\ MaxTime \in Nat /\ MaxMisses \in Nat

VARIABLES
    policy, store,          \* chosen once
    count, lastFailed,      \* FailAuthCount and LastFailed of the record
    now, worker, misses

config == <<policy, store>>
vars == <<config, count, lastFailed, now, worker, misses>>

Never == 0      \* the zero time; the clock starts later
Times == 0..MaxTime
Idle == [state |-> "idle", count |-> 0, lastFailed |-> Never, time |-> Never]

(* A failure time after which the interval of a policy has passed.         *)
Passed(failed, t) ==
    policy.FailureCountInterval > 0 /\ failed # Never /\ t >= failed + policy.FailureCountInterval

(* The test of lockedOut, on the count left by it.                         *)
Locked(c, failed, t) ==
    /\ policy.MaxFailure # 0 /\ c >= policy.MaxFailure
    /\ policy.LockoutDuration = 0 \/ t < failed + policy.LockoutDuration

-----------------------------------------------------------------------------
Init ==
    /\ policy \in Policies /\ store \in Stores
    /\ count = 0
    /\ lastFailed = Never
    /\ now = 1
    /\ worker = [w \in Workers |-> Idle]
    /\ misses = 0

Tick ==
    /\ now < MaxTime
    /\ now' = now + 1
    /\ UNCHANGED <<config, count, lastFailed, worker, misses>>

Lookup(w) ==
    /\ worker[w] = Idle
    /\ worker' = [worker EXCEPT ![w] =
          [state |-> "check", count |-> count, lastFailed |-> lastFailed, time |-> Never]]
    /\ UNCHANGED <<config, count, lastFailed, now, misses>>

(* lockedOut reads the clock, and clears the count of its copy when the    *)
(* interval has passed.                                                    *)
lockedOut(w) ==
    /\ worker[w].state = "check"
    /\ worker' = [worker EXCEPT ![w] =
          IF Passed(@.lastFailed, now)
          THEN [@ EXCEPT !.state = "reset", !.count = 0, !.time = now]
          ELSE IF Locked(@.count, @.lastFailed, now) THEN Idle
          ELSE [@ EXCEPT !.state = "verify"]]
    /\ UNCHANGED <<config, count, lastFailed, now, misses>>

Verdict(w) ==
    worker' = [worker EXCEPT ![w] =
        IF Locked(@.count, @.lastFailed, @.time) THEN Idle ELSE [@ EXCEPT !.state = "verify"]]

(* Mutant: the count is cleared although a failure came in between. *)
ResetAuthFailuresAlways(w) ==
    /\ worker[w].state = "reset" /\ store = "recorder"
    /\ count' = 0
    /\ Verdict(w)
    /\ UNCHANGED <<config, lastFailed, now, misses>>

(* ...and that of the record, if no failure came in between.               *)
ResetAuthFailures(w) ==
    /\ worker[w].state = "reset" /\ store = "recorder"
    /\ count' = IF lastFailed = worker[w].lastFailed THEN 0 ELSE count
    /\ Verdict(w)
    /\ UNCHANGED <<config, lastFailed, now, misses>>

(* Without a LockoutRecorder the copy is written back.                     *)
persistReset(w) ==
    /\ worker[w].state = "reset" /\ store = "updater"
    /\ count' = worker[w].count
    /\ lastFailed' = worker[w].lastFailed
    /\ Verdict(w)
    /\ UNCHANGED <<config, now, misses>>

(* The preauthentication data is checked, and the clock read again.        *)
verify(w) ==
    /\ worker[w].state = "verify"
    /\ misses < MaxMisses
    /\ \E s \in {"failure", "success"} :
          worker' = [worker EXCEPT ![w] = [@ EXCEPT !.state = s, !.time = now]]
    /\ UNCHANGED <<config, count, lastFailed, now, misses>>

(* Mutant: the count is that of the copy. *)
RecordAuthFailureCopy(w) ==
    /\ worker[w].state = "failure" /\ store = "recorder"
    /\ count' = worker[w].count + 1
    /\ lastFailed' = worker[w].time
    /\ worker' = [worker EXCEPT ![w] = Idle]
    /\ misses' = misses + 1
    /\ UNCHANGED <<config, now>>

RecordAuthFailure(w) ==
    /\ worker[w].state = "failure" /\ store = "recorder"
    /\ count' = 1 + (IF Passed(lastFailed, worker[w].time) THEN 0 ELSE count)
    /\ lastFailed' = worker[w].time
    /\ worker' = [worker EXCEPT ![w] = Idle]
    /\ misses' = misses + 1
    /\ UNCHANGED <<config, now>>

persistFailure(w) ==
    /\ worker[w].state = "failure" /\ store = "updater"
    /\ count' = 1 + (IF Passed(worker[w].lastFailed, worker[w].time) THEN 0
                     ELSE worker[w].count)
    /\ lastFailed' = worker[w].time
    /\ worker' = [worker EXCEPT ![w] = Idle]
    /\ misses' = misses + 1
    /\ UNCHANGED <<config, now>>

(* RecordAuthSuccess clears the count; the copy that persistLockout writes *)
(* back also holds the LastFailed of the Lookup.                           *)
recordPreauthSuccess(w) ==
    /\ worker[w].state = "success"
    /\ count' = 0
    /\ lastFailed' = IF store = "recorder" THEN lastFailed ELSE worker[w].lastFailed
    /\ worker' = [worker EXCEPT ![w] = Idle]
    /\ misses' = 0
    /\ UNCHANGED <<config, now>>

Next ==
    \/ Tick
    \/ \E w \in Workers :
          \/ Lookup(w) \/ lockedOut(w) \/ ResetAuthFailures(w) \/ persistReset(w)
          \/ verify(w) \/ RecordAuthFailure(w) \/ persistFailure(w)
          \/ recordPreauthSuccess(w)

Spec == Init /\ [][Next]_vars

-----------------------------------------------------------------------------
States == {"idle", "check", "reset", "verify", "failure", "success"}

(* The types of the variables: the stored count stays within the failures  *)
(* that can have been recorded.                                            *)
TypeOK ==
    /\ policy \in Policies /\ store \in Stores
    /\ count \in 0..(MaxMisses + Cardinality(Workers))
    /\ lastFailed \in Times
    /\ now \in 1..MaxTime
    /\ worker \in [Workers -> [state : States, count : 0..(MaxMisses + Cardinality(Workers)),
                               lastFailed : Times, time : Times]]
    /\ misses \in 0..(MaxMisses + Cardinality(Workers))

(* A policy that locks for good and forgets nothing, with a store that     *)
(* records failures atomically.                                            *)
Permanent ==
    /\ store = "recorder"
    /\ policy.MaxFailure # 0
    /\ policy.FailureCountInterval = 0
    /\ policy.LockoutDuration = 0

(* However the requests interleave, the failures since the last success    *)
(* are at most MaxFailure plus one for each further request that was       *)
(* handled at the same time (lockedOut tests a copy of the record).        *)
FailuresBounded ==
    Permanent => misses <= policy.MaxFailure + Cardinality(Workers) - 1

(* The record forgets failures only when their interval has passed, or     *)
(* after a success: not because an old copy of it said so                  *)
(* (ResetAuthFailures compares the failure it saw).                        *)
FailuresRemembered ==
    [][(store = "recorder" /\ count' < count /\ ~\E w \in Workers : recordPreauthSuccess(w))
          => Passed(lastFailed, now)]_vars

(* A locked account stays locked until a request that was admitted before  *)
(* succeeds: later failures and stale copies do not unlock it.             *)
LockHolds ==
    [][(Permanent /\ Locked(count, lastFailed, now)
          /\ ~\E w \in Workers : recordPreauthSuccess(w))
        => Locked(count, lastFailed, now)']_vars

=============================================================================
