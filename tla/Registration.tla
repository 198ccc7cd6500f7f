---------------------------- MODULE Registration ----------------------------
(* What the registrar promises of each agent id: a TPM identity is on record as
   active only after the TPM has shown that the attestation key (AK) lives in
   the TPM of the endorsement key (EK) it was registered with. *)

CONSTANTS
  Agents,       \* agent ids
  EKs, AKs,     \* endorsement and attestation keys
  Home,         \* Home[k]: the TPM that holds the private part of key k
  None

VARIABLE
  identity      \* identity[a]: None, or the keys registered and whether active

Identities == [ek : EKs, ak : AKs, active : BOOLEAN]

Init == identity = [a \in Agents |-> None]

\* New keys on record, or the same keys once more: to be shown anew.
Register(a, ek, ak) ==
  identity' = [identity EXCEPT ![a] = [ek |-> ek, ak |-> ak, active |-> FALSE]]

\* The TPM answers the challenge made for the keys on record.
Activate(a) ==
  /\ identity[a] # None
  /\ Home[identity[a].ek] = Home[identity[a].ak]
  /\ identity' = [identity EXCEPT ![a].active = TRUE]

Remove(a) == identity' = [identity EXCEPT ![a] = None]

Next ==
  \E a \in Agents :
    \/ \E ek \in EKs, ak \in AKs : Register(a, ek, ak)
    \/ Activate(a)
    \/ Remove(a)

Spec == Init /\ [][Next]_identity
=============================================================================
