-------------------------- MODULE DeviceCredential --------------------------
(***************************************************************************)
(* What pairing promises, without threads, tables or crashes: a device has *)
(* at most one credential; pairing replaces it in one step by one that     *)
(* was never used; a replaced credential is retired for good.              *)
(***************************************************************************)
CONSTANTS Devices, Credentials, None

VARIABLES credential, retired

vars == <<credential, retired>>

TypeOK == /\ credential \in [Devices -> Credentials \union {None}]
          /\ retired \in SUBSET Credentials

Init == /\ credential = [d \in Devices |-> None]
        /\ retired = {}

Pair(d, c) == /\ c \notin retired
              /\ \A e \in Devices : credential[e] # c
              /\ credential' = [credential EXCEPT ![d] = c]
              /\ retired' = retired \union ({credential[d]} \ {None})

Next == \E d \in Devices, c \in Credentials : Pair(d, c)

Spec == Init /\ [][Next]_vars
=============================================================================
