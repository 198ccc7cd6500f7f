---------------------------- MODULE AgentStates ----------------------------
(* The operational states of an agent (keylime/common/states.py).  The
   integers of the source are kept as names: no code orders or adds them. *)

REGISTERED       == "REGISTERED"
START            == "START"
SAVED            == "SAVED"
GET_QUOTE        == "GET_QUOTE"
GET_QUOTE_RETRY  == "GET_QUOTE_RETRY"
PROVIDE_V        == "PROVIDE_V"
PROVIDE_V_RETRY  == "PROVIDE_V_RETRY"
FAILED           == "FAILED"
TERMINATED       == "TERMINATED"
INVALID_QUOTE    == "INVALID_QUOTE"
TENANT_FAILED    == "TENANT_FAILED"

VALID_STATES == {REGISTERED, START, SAVED, GET_QUOTE, GET_QUOTE_RETRY,
                 PROVIDE_V, PROVIDE_V_RETRY, FAILED, TERMINATED,
                 INVALID_QUOTE, TENANT_FAILED}

\* The states the verifier resumes polling from when it is restarted.
APPROVED_REACTIVATE_STATES ==
  {START, GET_QUOTE, GET_QUOTE_RETRY, PROVIDE_V, PROVIDE_V_RETRY}

\* The states a DELETE removes the row of at once; from any other state it
\* only marks the row TERMINATED and leaves the removal to the poller.
DELETABLE_STATES == {SAVED, FAILED, TERMINATED, TENANT_FAILED, INVALID_QUOTE}
=============================================================================
