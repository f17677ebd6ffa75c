------------------------------ MODULE Transfer ------------------------------
(***************************************************************************)
(* What one kprop transfer promises, without its protocol: the replica     *)
(* loads the master's dump whole or not at all, and the sender reports     *)
(* success only for a dump that was loaded.  The sender may report failure *)
(* for a dump that was loaded, or is loaded later: its last answer can be  *)
(* lost.  Kprop implements it.                                             *)
(***************************************************************************)
CONSTANTS Dumps,     \* the databases a master may send
          Nothing    \* what the replica has loaded before the transfer

VARIABLES dump,      \* the database that is sent
          loaded,    \* what the replica's loader was given
          result     \* what the sender's caller is told

vars == <<dump, loaded, result>>

Init == dump \in Dumps /\ loaded = Nothing /\ result = "pending"

Load == loaded = Nothing /\ loaded' = dump /\ UNCHANGED <<dump, result>>

Succeed == result = "pending" /\ loaded = dump /\ result' = "ok" /\ UNCHANGED <<dump, loaded>>

Fail == result = "pending" /\ result' = "failed" /\ UNCHANGED <<dump, loaded>>

Next == Load \/ Succeed \/ Fail

Spec == Init /\ [][Next]_vars
=============================================================================
