--------------------------- MODULE LockoutProofs ----------------------------
(***************************************************************************)
(* Proofs about Lockout: with an atomic store and a policy whose lockout   *)
(* is permanent, the bound on failures holds for any number of concurrent  *)
(* requests, any policies and any bounds of the model.                     *)
(***************************************************************************)
EXTENDS Lockout, FiniteSetTheorems, TLAPS

(* Requests that may still record a failure: those being verified, and     *)
(* those whose copy of the record will pass lockedOut.                     *)
Admitted ==
    {w \in Workers : \/ worker[w].state \in {"verify", "failure"}
                     \/ worker[w].state = "check" /\ worker[w].count < policy.MaxFailure}

Requests == [state : States \ {"reset"}, count : Nat, lastFailed : Nat, time : Nat]

TypeInv ==
    /\ count \in Nat /\ lastFailed \in Nat /\ now \in Nat /\ misses \in Nat
    /\ worker \in [Workers -> Requests]

(* The strengthening: every failure is counted, and once the account is    *)
(* locked, the failures and the requests that may still fail stay below    *)
(* the bound together.                                                     *)
Counted ==
    /\ TypeInv
    /\ misses = count
    /\ count >= policy.MaxFailure =>
          count + Cardinality(Admitted) <= policy.MaxFailure + Cardinality(Workers) - 1

LockoutInv ==
    /\ policy \in Policies
    /\ Permanent => Counted

(* Admitted is a finite set, no larger than Workers.                       *)
LEMMA AdmittedFinite ==
    /\ IsFiniteSet(Admitted)
    /\ Cardinality(Admitted) \in Nat
    /\ Cardinality(Workers) \in Nat
    /\ Cardinality(Admitted) <= Cardinality(Workers)
<1>1. Admitted \subseteq Workers BY DEF Admitted
<1>2. IsFiniteSet(Workers) BY LockoutAssumption
<1> QED BY <1>1, <1>2, FS_Subset, FS_CardinalityType

(* A subset that lacks an element of the whole is smaller by one at least. *)
LEMMA SmallerByOne ==
    ASSUME NEW S, NEW T, IsFiniteSet(T), S \subseteq T, NEW x \in T, x \notin S
    PROVE  /\ IsFiniteSet(S)
           /\ Cardinality(S) \in Nat /\ Cardinality(T) \in Nat
           /\ Cardinality(S) <= Cardinality(T) - 1
<1>1. S \subseteq T \ {x} OBVIOUS
<1>2. IsFiniteSet(T \ {x}) /\ Cardinality(T \ {x}) = Cardinality(T) - 1
  BY FS_RemoveElement
<1> QED BY <1>1, <1>2, FS_Subset, FS_CardinalityType

(* A step that admits no new request and keeps the record keeps the bound. *)
LEMMA NoneAdmitted ==
    ASSUME Counted, TypeInv', Admitted' \subseteq Admitted, policy \in Policies,
           UNCHANGED <<policy, count, misses>>
    PROVE  Counted'
<1>1. IsFiniteSet(Admitted) /\ Cardinality(Admitted) \in Nat /\ Cardinality(Workers) \in Nat
  BY AdmittedFinite
<1>2. Cardinality(Admitted') \in Nat /\ Cardinality(Admitted') <= Cardinality(Admitted)
  BY <1>1, FS_Subset, FS_CardinalityType
<1>3. policy.MaxFailure \in Nat BY LockoutAssumption
<1> QED BY <1>1, <1>2, <1>3 DEF Counted, TypeInv

(* The policy and the store are chosen once.                               *)
LEMMA ConfigKept == [Next]_vars => UNCHANGED <<policy, store>>
BY Zenon DEF Next, vars, config, Tick, Lookup, lockedOut, ResetAuthFailures, persistReset,
       verify, RecordAuthFailure, persistFailure, recordPreauthSuccess

(* The invariant holds of every reachable state.                           *)
THEOREM LockoutInvariant == Spec => []LockoutInv
<1>1. Init => LockoutInv
  <2> SUFFICES ASSUME Init PROVE LockoutInv
    OBVIOUS
  <2>1. policy \in Policies /\ policy.MaxFailure \in Nat
    BY LockoutAssumption DEF Init
  <2>2. TypeInv
    BY DEF Init, TypeInv, Requests, Idle, States, Never
  <2> QED BY <2>1, <2>2 DEF Init, LockoutInv, Counted, Permanent
<1>2. ASSUME Permanent, Counted, policy \in Policies, [Next]_vars PROVE Counted'
  <2> USE <1>2 DEF Permanent
  <2>0. /\ policy.MaxFailure \in Nat /\ IsFiniteSet(Workers) /\ Cardinality(Workers) \in Nat
        /\ TypeInv /\ misses = count /\ policy' = policy
    BY LockoutAssumption, AdmittedFinite, ConfigKept DEF Counted
  <2>1. CASE UNCHANGED vars
    <3>1. TypeInv' BY <2>0, <2>1 DEF TypeInv, vars
    <3>2. Admitted' \subseteq Admitted BY <2>0, <2>1 DEF vars, Admitted
    <3> QED BY <2>1, <3>1, <3>2, <2>0, NoneAdmitted DEF vars
  <2>2. CASE Tick
    <3>1. TypeInv' BY <2>0, <2>2, LockoutAssumption DEF TypeInv, Tick
    <3>2. Admitted' \subseteq Admitted BY <2>0, <2>2 DEF Tick, Admitted
    <3> QED BY <2>2, <3>1, <3>2, <2>0, NoneAdmitted DEF Tick
  <2>3. ASSUME NEW w \in Workers, Lookup(w) PROVE Counted'
    <3> USE <2>3
    <3>1. TypeInv' BY <2>0 DEF TypeInv, Lookup, Requests, States, Never
    <3>2. CASE count >= policy.MaxFailure
      <4>1. Admitted' \subseteq Admitted
        BY <2>0, <3>2 DEF TypeInv, Lookup, Admitted, Requests
      <4> QED BY <3>1, <4>1, <2>0, NoneAdmitted DEF Lookup
    <3>3. CASE ~(count >= policy.MaxFailure)
      BY <2>0, <3>1, <3>3 DEF Counted, Lookup
    <3> QED BY <3>2, <3>3
  <2>4. ASSUME NEW w \in Workers, lockedOut(w) PROVE Counted'
    <3> USE <2>4
    <3>1. ~Passed(worker[w].lastFailed, now) BY DEF Passed
    <3>2. \/ worker' = [worker EXCEPT ![w] = Idle]
          \/ /\ worker[w].count < policy.MaxFailure
             /\ worker' = [worker EXCEPT ![w] = [worker[w] EXCEPT !.state = "verify"]]
      <4>1. CASE Locked(worker[w].count, worker[w].lastFailed, now)
        BY <3>1, <4>1 DEF lockedOut
      <4>2. CASE ~Locked(worker[w].count, worker[w].lastFailed, now)
        <5>1. worker[w].count \in Nat BY <2>0 DEF TypeInv, Requests
        <5>2. worker[w].count < policy.MaxFailure BY <2>0, <4>2, <5>1 DEF Locked
        <5> QED BY <3>1, <4>2, <5>2 DEF lockedOut
      <4> QED BY <4>1, <4>2
    <3>3. worker[w].state = "check" /\ UNCHANGED <<count, lastFailed, now, misses>>
      BY DEF lockedOut
    <3>4. TypeInv'
      BY <2>0, <3>2, <3>3 DEF TypeInv, Requests, States, Idle, Never
    <3>5. Admitted' \subseteq Admitted
      BY <2>0, <3>2, <3>3 DEF TypeInv, Admitted, Requests, Idle
    <3> QED BY <3>3, <3>4, <3>5, <2>0, NoneAdmitted
  <2>5. ASSUME NEW w \in Workers, ResetAuthFailures(w) \/ persistReset(w) \/ persistFailure(w)
        PROVE  Counted'
    BY <2>0, <2>5 DEF ResetAuthFailures, persistReset, persistFailure, TypeInv, Requests
  <2>6. ASSUME NEW w \in Workers, verify(w) PROVE Counted'
    <3> USE <2>6
    <3>1. PICK s \in {"failure", "success"} :
              worker' = [worker EXCEPT ![w] = [worker[w] EXCEPT !.state = s, !.time = now]]
      BY Zenon DEF verify
    <3>2. worker[w].state = "verify" /\ UNCHANGED <<count, lastFailed, now, misses>>
      BY DEF verify
    <3>3. TypeInv' BY <2>0, <3>1, <3>2, Zenon DEF TypeInv, Requests, States
    <3>4. Admitted' \subseteq Admitted
      BY <2>0, <3>1, <3>2 DEF TypeInv, Admitted, Requests
    <3> QED BY <3>2, <3>3, <3>4, <2>0, NoneAdmitted
  <2>7. ASSUME NEW w \in Workers, RecordAuthFailure(w) PROVE Counted'
    <3> USE <2>7
    <3>1. /\ count' = count + 1 /\ misses' = misses + 1
          /\ worker[w].state = "failure"
          /\ worker' = [worker EXCEPT ![w] = Idle]
      BY <2>0 DEF RecordAuthFailure, Passed, TypeInv
    <3>2. TypeInv'
      BY <2>0, <3>1 DEF RecordAuthFailure, TypeInv, Requests, States, Idle, Never
    <3>3. /\ Admitted' \subseteq Admitted /\ w \in Admitted /\ w \notin Admitted'
      BY <2>0, <3>1 DEF TypeInv, Admitted, Requests, Idle
    <3>4. IsFiniteSet(Admitted) BY AdmittedFinite
    <3>5. /\ Cardinality(Admitted') \in Nat /\ Cardinality(Admitted) \in Nat
          /\ Cardinality(Admitted') <= Cardinality(Admitted) - 1
      BY <3>3, <3>4, SmallerByOne, Zenon
    <3>6. Cardinality(Admitted') <= Cardinality(Workers) - 1
      BY <2>0, <3>5, AdmittedFinite
    <3>7. count' >= policy.MaxFailure =>
              count' + Cardinality(Admitted') <= policy.MaxFailure + Cardinality(Workers) - 1
      <4> HIDE DEF Admitted
      <4>1. CASE count >= policy.MaxFailure
        BY <2>0, <3>1, <3>5, <4>1 DEF Counted, TypeInv
      <4>2. CASE ~(count >= policy.MaxFailure)
        BY <2>0, <3>1, <3>5, <3>6, <4>2 DEF TypeInv
      <4> QED BY <4>1, <4>2
    <3> QED BY <2>0, <3>1, <3>2, <3>7 DEF Counted
  <2>8. ASSUME NEW w \in Workers, recordPreauthSuccess(w) PROVE Counted'
    <3>1. TypeInv'
      BY <2>0, <2>8 DEF recordPreauthSuccess, TypeInv, Requests, States, Idle, Never
    <3>2. count' = 0 /\ misses' = 0 /\ policy.MaxFailure # 0
      BY <2>8 DEF recordPreauthSuccess, Permanent
    <3> QED BY <2>0, <3>1, <3>2 DEF Counted
  <2> QED BY <2>1, <2>2, <2>3, <2>4, <2>5, <2>6, <2>7, <2>8 DEF Next
<1>3. LockoutInv /\ [Next]_vars => LockoutInv'
  <2> SUFFICES ASSUME LockoutInv, [Next]_vars PROVE LockoutInv'
    OBVIOUS
  <2>1. policy' = policy /\ store' = store BY ConfigKept
  <2>2. CASE Permanent
    <3>1. Counted' BY <1>2, <2>2 DEF LockoutInv
    <3> QED BY <2>1, <3>1 DEF LockoutInv
  <2>3. CASE ~Permanent
    <3>1. ~Permanent' BY <2>1, <2>3 DEF Permanent
    <3> QED BY <2>1, <3>1 DEF LockoutInv
  <2> QED BY <2>2, <2>3
<1> QED BY <1>1, <1>3, PTL DEF Spec

(* However many requests are handled at once, at most MaxFailure plus one  *)
(* failure for each further request are recorded between two successes     *)
(* (recordPreauthFailure under lockedOut), whenever the policy is          *)
(* permanent.                                                              *)
THEOREM FailuresStayBounded == Spec => []FailuresBounded
<1>1. LockoutInv => FailuresBounded
  <2> SUFFICES ASSUME LockoutInv, Permanent
               PROVE  misses <= policy.MaxFailure + Cardinality(Workers) - 1
    BY DEF FailuresBounded
  <2>1. /\ policy.MaxFailure \in Nat \ {0} /\ Cardinality(Workers) \in Nat
        /\ Cardinality(Admitted) \in Nat
    BY LockoutAssumption, AdmittedFinite DEF Permanent, LockoutInv
  <2> QED BY <2>1 DEF LockoutInv, Counted, TypeInv
<1> QED BY <1>1, LockoutInvariant, PTL
=============================================================================
