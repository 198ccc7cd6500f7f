---- MODULE MCVerifier ----
(* Small instances of the verifier: model values for the constants that are
   only compared, and the failures a quote can meet. *)
EXTENDS Verifier, TLC

CONSTANTS a1, a2, w1, w2, p1, p2, k1, k2

MCEventIds == {"not_reachable", "internal", "no_pubkey", "ima"}

\* Every poller in one worker process, and one poller in each of two.
OneWorker  == [p \in Pollers |-> w1]
TwoWorkers == p1 :> w1 @@ p2 :> w2

\* An IMA mismatch below the highest severity, and a fatal PCR mismatch.
Mild  == AddEvent(EmptyFailure, [id |-> "ima", sev |-> 0, recoverable |-> TRUE])
Fatal == AddEvent(EmptyFailure, [id |-> "no_pubkey", sev |-> 0, recoverable |-> FALSE])
MildAndFatal == {Mild, Fatal}

\* A recoverable failure of the highest severity, as under the default policy.
Grave == AddEvent(EmptyFailure, [id |-> "ima", sev |-> MaxSev, recoverable |-> TRUE])
MildAndGrave == {Mild, Grave}
GraveOnly == {Grave}

PollerSymmetry == Permutations(Pollers)
AgentSymmetry == Permutations(Agents)
====
