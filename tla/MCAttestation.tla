---- MODULE MCAttestation ----
(* A small instance of incremental attestation: an entry that brings a key, one
   that is signed with it, and two policies, of which one relies on the
   signature and the other has the digest of both. *)
EXTENDS Attestation

CONSTANTS w1, p1

OneWorker == [p \in Pollers |-> w1]

MCEntries == {"key", "signed"}
MCPolicies == {{"key"}, {"key", "signed"}}
====
