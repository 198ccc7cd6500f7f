------------------------------- MODULE Tenant -------------------------------
(* keylime_tenant: the commands an administrator gives, each a sequence of
   requests to the registrar, the agent and the verifier. The three peers are here
   what a command sees of them; Registrar, Verifier and Policies model them.

   A command that adds an agent splits a key K in two shares: U goes to the
   agent, V to the verifier, which gives it to the agent that attests. *)
EXTENDS Naturals, Sequences

CONSTANTS
  Tenants,      \* command lines that run at the same time
  TPMs,         \* a TPM and its attestation key
  Genuine,      \* the TPMs whose EK certificate or ek_check_script is accepted
  Commands,     \* names of the commands given
  MaxCommands,  \* bound: commands given
  MaxChanges,   \* bound: restarts of the agent's host
  Maxr,         \* max_retries
  None

VARIABLES
  reg,    \* the attestation key the registrar has for the agent, or None
  host,   \* the agent: its TPM, its key pair, the shares of U and V it has opened
  row,    \* the verifier's row: attestation key, share of V, state; or None
  cmd,    \* cmd[t]: the command t runs, or None
  done,   \* done[t]: how the last command of t ended
  given,  \* given[s]: the attestation key the command with share s read from the registrar
  starts  \* how often the host started

vars == <<reg, host, row, cmd, done, given, starts>>
Shares == 1..MaxCommands

\* The verifier's row, the functions that commands call, and a command under way.
RowType == [ak : TPMs, v : Shares \cup {None}, state : {"polled", "failed", "terminated", "stopped"}]

Steps ==
  {"init_add", "do_quote", "post_ukey", "do_cvadd", "added", "do_verify", "verifier_check",
   "do_cvdelete", "deleted", "do_cvstatus", "do_cvreactivate", "do_regstatus", "do_regdelete",
   "request"}

CommandType ==
  [name : Commands, todo : Seq(Steps), payload : BOOLEAN, verify : BOOLEAN, share : Shares,
   ak : TPMs \cup {None}, pubkey : (0..MaxChanges) \cup {None}, numtries : 0..(Maxr - 1)]

\* What TenantProofs assumes: max_retries is at least 1; None is no number, row or command.
TenantAssumption ==
  /\ MaxCommands \in Nat /\ MaxChanges \in Nat /\ Maxr \in Nat \ {0}
  /\ None \notin Nat /\ None \notin RowType \cup CommandType
-----------------------------------------------------------------------------
(* The functions each command calls in turn; a function that sends several
   requests is one step for each. *)
Add == <<"init_add", "do_quote", "post_ukey", "do_cvadd", "added">>
Delete == <<"do_cvdelete", "deleted">>

Script(name, check, payload, verify) ==
  LET checked(steps) == IF check THEN <<"verifier_check">> \o steps ELSE steps
      add == IF verify THEN Add \o <<"do_verify">> ELSE Add
  IN  CASE name = "add"        -> add
        [] name = "update"     -> <<"init_add">> \o checked(Delete) \o Tail(add)
        [] name = "delete"     -> checked(Delete)
        [] name = "reactivate" -> IF check THEN <<"do_cvstatus", "do_cvreactivate">>
                                  ELSE <<"do_cvreactivate">>
        [] name = "status"     -> <<"do_regstatus", "do_cvstatus">>
        [] name = "cvstatus"   -> <<"do_cvstatus">>
        [] name = "regdelete"  -> <<"do_regdelete">>
        [] OTHER               -> <<"request">>  \* lists, bulk information and policies

Init ==
  /\ reg \in TPMs \cup {None}
  /\ host \in [tpm : TPMs, key : {0}, u : {None}, v : {None}]
  /\ row = None
  /\ cmd = [t \in Tenants |-> None]
  /\ done = [t \in Tenants |-> None]
  /\ given = <<>>
  /\ starts = 0

\* main, once the options are parsed. A payload is a new K, with its U and V.
Begin(t) ==
  /\ cmd[t] = None
  /\ Len(given) < MaxCommands
  /\ \E name \in Commands, check, payload, verify \in BOOLEAN :
       cmd' = [cmd EXCEPT ![t] =
         [name |-> name, todo |-> Script(name, check, payload, verify), payload |-> payload,
          verify |-> verify, share |-> Len(given) + 1, ak |-> None, pubkey |-> None, numtries |-> 0]]
  /\ given' = Append(given, None)
  /\ UNCHANGED <<reg, host, row, done, starts>>

At(t, step) == cmd[t] # None /\ Head(cmd[t].todo) = step

\* The command is over: it returned, or an exception reached main.
Ends(t, how) ==
  /\ cmd' = [cmd EXCEPT ![t] = None]
  /\ done' = [done EXCEPT ![t] = how]

Goes(t, c) ==
  IF Tail(c.todo) = <<>> THEN Ends(t, "ok")
  ELSE /\ cmd' = [cmd EXCEPT ![t] = [c EXCEPT !.todo = Tail(@), !.numtries = 0]]
       /\ UNCHANGED done

\* Fault: one try more than max_retries.
Retries_OneMore(t, last) ==
  IF cmd[t].numtries + 1 > Maxr THEN last
  ELSE cmd' = [cmd EXCEPT ![t].numtries = @ + 1] /\ UNCHANGED done

\* Fault: the count starts again at the limit.
Retries_Wrap(t, last) ==
  cmd' = [cmd EXCEPT ![t].numtries = (@ + 1) % Maxr] /\ UNCHANGED done

\* Another try, or the last one.
Retries(t, last) ==
  IF cmd[t].numtries + 1 >= Maxr THEN last
  ELSE cmd' = [cmd EXCEPT ![t].numtries = @ + 1] /\ UNCHANGED done

Raises(t, step) ==
  At(t, step) /\ Ends(t, "raised") /\ UNCHANGED <<reg, host, row, given, starts>>
-----------------------------------------------------------------------------
(* The steps. Each has its answers; a connection that is refused, times out or
   answers 503 or 504 raises, unless the step tries again. *)

\* No agent in the registrar, no address, options that exclude each other,
\* --verify without a payload: UserError.
InitAdd(t) ==
  /\ At(t, "init_add")
  /\ \/ /\ reg # None /\ (cmd[t].verify => cmd[t].payload)
        /\ Goes(t, [cmd[t] EXCEPT !.ak = reg])
        /\ given' = [given EXCEPT ![cmd[t].share] = reg]
     \/ Ends(t, "raised") /\ UNCHANGED given
  /\ UNCHANGED <<reg, host, row, starts>>

\* check_quote with the key of the registrar, then the certificate of the EK.
ValidateTpmQuote(t) == host.tpm = cmd[t].ak /\ host.tpm \in Genuine

\* The public key comes with the quote; without U there is nothing to post.
DoQuote(t) ==
  /\ At(t, "do_quote")
  /\ \/ Retries(t, Ends(t, "raised"))
     \/ ~ValidateTpmQuote(t) /\ Ends(t, "raised")
     \/ LET c == [cmd[t] EXCEPT !.pubkey = host.key]
        IN  /\ ValidateTpmQuote(t)
            /\ Goes(t, IF c.payload THEN c ELSE [c EXCEPT !.todo = Tail(@)])
  /\ UNCHANGED <<reg, host, row, given, starts>>

\* Fault: U is sent in the clear.
PostUkey_Clear(t) ==
  /\ At(t, "post_ukey")
  /\ host' = [host EXCEPT !.u = cmd[t].share]
  /\ Goes(t, cmd[t]) \/ Ends(t, "raised")
  /\ UNCHANGED <<reg, row, given, starts>>

\* U is encrypted with the public key that was quoted; another one opens nothing.
PostUkey(t) ==
  /\ At(t, "post_ukey")
  /\ \/ host.key = cmd[t].pubkey /\ host' = [host EXCEPT !.u = cmd[t].share]
     \/ UNCHANGED host
  /\ Goes(t, cmd[t]) \/ Ends(t, "raised")
  /\ UNCHANGED <<reg, row, given, starts>>

\* Fault: 409 is taken for an agent that was added.
DoCvadd_ConflictIsOk(t) ==
  /\ At(t, "do_cvadd")
  /\ \/ /\ row = None
        /\ row' = [ak |-> cmd[t].ak, v |-> IF cmd[t].payload THEN cmd[t].share ELSE None,
                   state |-> "polled"]
        /\ Goes(t, cmd[t]) \/ Ends(t, "raised")
     \/ row # None /\ Goes(t, cmd[t]) /\ UNCHANGED row
     \/ Ends(t, "raised") /\ UNCHANGED row
  /\ UNCHANGED <<reg, host, given, starts>>

\* POST of the agent with the key that was read and V.
DoCvadd(t) ==
  /\ At(t, "do_cvadd")
  /\ \/ /\ row = None
        /\ row' = [ak |-> cmd[t].ak, v |-> IF cmd[t].payload THEN cmd[t].share ELSE None,
                   state |-> "polled"]
        /\ Goes(t, cmd[t]) \/ Ends(t, "raised")   \* the answer may be lost
     \/ Ends(t, "raised") /\ UNCHANGED row        \* 409, or the verifier is not there
  /\ UNCHANGED <<reg, host, given, starts>>

\* do_cvstatus until the answer is not 404.
Added(t) ==
  /\ At(t, "added")
  /\ \/ row # None /\ Goes(t, cmd[t])
     \/ row = None /\ Retries(t, Ends(t, "raised"))
  /\ UNCHANGED <<reg, host, row, given, starts>>

\* PUT .../stop: 404 without a row.
Stopped == IF row = None THEN None ELSE [row EXCEPT !.state = "stopped"]

\* The agent answers with the HMAC of the challenge under the K it derived. A
\* refused connection is not tried again.
DoVerify(t) ==
  LET gives_up == Ends(t, "raised") /\ row' \in {Stopped, row}  \* do_cvstop, which may fail
  IN  /\ At(t, "do_verify")
      /\ \/ /\ host.u = cmd[t].share /\ host.v = cmd[t].share
            /\ Goes(t, cmd[t]) /\ UNCHANGED row
         \/ IF cmd[t].numtries + 1 >= Maxr THEN gives_up
            ELSE Retries(t, FALSE) /\ UNCHANGED row
         \/ gives_up
      /\ UNCHANGED <<reg, host, given, starts>>

\* Nothing to delete: do_cvdelete returns.
VerifierCheck(t) ==
  /\ At(t, "verifier_check")
  /\ Goes(t, IF row = None THEN [cmd[t] EXCEPT !.todo = Tail(Tail(@))] ELSE cmd[t])
  /\ UNCHANGED <<reg, host, row, given, starts>>

\* DELETE: 202 for an agent that is polled, which its poller removes; 200 for one
\* that failed, is stopped or marked already, removed at once. Only 503 and 504
\* raise: 404, also for the row of another verifier, 400, 500, and the 200 of a
\* removal that the database refused return with the row as it is.
DoCvdelete(t) ==
  LET returns == Goes(t, [cmd[t] EXCEPT !.todo = Tail(@)])
  IN  /\ At(t, "do_cvdelete")
      /\ \/ /\ row # None /\ row.state = "polled"
            /\ row' = [row EXCEPT !.state = "terminated"]
            /\ Goes(t, cmd[t]) \/ Ends(t, "raised")
         \/ /\ row # None /\ row.state # "polled"
            /\ row' = None
            /\ returns \/ Ends(t, "raised")
         \/ /\ returns \/ Ends(t, "raised")
            /\ UNCHANGED row
      /\ UNCHANGED <<reg, host, given, starts>>

\* do_cvstatus until the answer is 404.
Deleted(t) ==
  /\ At(t, "deleted")
  /\ \/ row = None /\ Goes(t, cmd[t])
     \/ row # None /\ Retries(t, Ends(t, "raised"))
  /\ UNCHANGED <<reg, host, row, given, starts>>

\* PUT .../reactivate: 404 without a row. The new poller takes up an agent that
\* failed; it leaves one that is stopped or marked to what the mark says.
DoCvreactivate(t) ==
  /\ At(t, "do_cvreactivate")
  /\ row # None
  /\ row' = [row EXCEPT !.state = IF @ = "failed" THEN "polled" ELSE @]
  /\ Goes(t, cmd[t])
  /\ UNCHANGED <<reg, host, given, starts>>

DoCvstatus(t) ==
  /\ At(t, "do_cvstatus") /\ row # None
  /\ Goes(t, cmd[t])
  /\ UNCHANGED <<reg, host, row, given, starts>>

DoRegstatus(t) ==
  /\ At(t, "do_regstatus") /\ reg # None
  /\ Goes(t, cmd[t])
  /\ UNCHANGED <<reg, host, row, given, starts>>

\* doRegistrarDelete logs an answer other than 200.
DoRegdelete(t) ==
  /\ At(t, "do_regdelete")
  /\ reg' \in {None, reg}
  /\ Goes(t, cmd[t])
  /\ UNCHANGED <<host, row, given, starts>>

\* One request; an answer of 400 or more raises.
DoRequest(t) ==
  /\ At(t, "request")
  /\ Goes(t, cmd[t])
  /\ UNCHANGED <<reg, host, row, given, starts>>

TenantStep(t) ==
  \/ InitAdd(t) \/ DoQuote(t) \/ PostUkey(t) \/ DoCvadd(t) \/ Added(t) \/ DoVerify(t)
  \/ VerifierCheck(t) \/ DoCvdelete(t) \/ Deleted(t)
  \/ DoCvreactivate(t) \/ DoCvstatus(t) \/ DoRegstatus(t) \/ DoRegdelete(t) \/ DoRequest(t)
  \/ \E step \in {"added", "verifier_check", "deleted", "do_cvreactivate", "do_cvstatus",
                  "do_regstatus", "do_regdelete", "request"} : Raises(t, step)
-----------------------------------------------------------------------------
(* The peers. *)

\* The verifier gives V to the agent whose quote the key of the row has signed.
ProvideV ==
  /\ row # None /\ row.state = "polled" /\ row.ak = host.tpm
  /\ host' = [host EXCEPT !.v = row.v]
  /\ UNCHANGED <<reg, row, cmd, done, given, starts>>

\* The poller gives up on the agent.
PollerFails ==
  /\ row # None /\ row.state = "polled"
  /\ row' = [row EXCEPT !.state = "failed"]
  /\ UNCHANGED <<reg, host, cmd, done, given, starts>>

PollerRemoves ==
  /\ row # None /\ row.state = "terminated"
  /\ row' = None
  /\ UNCHANGED <<reg, host, cmd, done, given, starts>>

\* The host starts again, on the same machine or on another, with a new key pair.
HostStarts ==
  /\ starts < MaxChanges
  /\ starts' = starts + 1
  /\ \E p \in TPMs : host' = [tpm |-> p, key |-> starts', u |-> None, v |-> None]
  /\ UNCHANGED <<reg, row, cmd, done, given>>

Registers ==
  /\ reg # host.tpm
  /\ reg' = host.tpm
  /\ UNCHANGED <<host, row, cmd, done, given, starts>>

Peers == ProvideV \/ PollerFails \/ PollerRemoves \/ HostStarts \/ Registers
Next == (\E t \in Tenants : Begin(t) \/ TenantStep(t)) \/ Peers

Spec == Init /\ [][Next]_vars

\* A command takes its steps; the peers owe it nothing.
FairSpec == Spec /\ \A t \in Tenants : WF_vars(TenantStep(t))
-----------------------------------------------------------------------------
\* The type invariant.
TypeOK ==
  /\ reg \in TPMs \cup {None}
  /\ host \in [tpm : TPMs, key : 0..MaxChanges, u : Shares \cup {None}, v : Shares \cup {None}]
  /\ row \in RowType \cup {None}
  /\ cmd \in [Tenants -> CommandType \cup {None}]
  /\ \A t \in Tenants : cmd[t] # None => cmd[t].todo # <<>>
  /\ done \in [Tenants -> {None, "ok", "raised"}]
  /\ given \in Seq(TPMs \cup {None}) /\ Len(given) <= MaxCommands
  /\ starts \in 0..MaxChanges

\* K is whole on one TPM only: the one whose key the command read from the
\* registrar, whose EK was accepted, and which the verifier attests. The agent may
\* be replaced and register again between any two requests of the command, and
\* another command may be under way (do_quote, do_cvadd, provide V).
KeyReachesAttestedTPM ==
  host.u # None =>
    /\ host.tpm = given[host.u] /\ host.tpm \in Genuine
    /\ row # None /\ row.v = host.u => row.ak = host.tpm

\* With one tenant, an add or update that ended well did what it was for: the
\* verifier has the attestation key the command read and the share it sent, also
\* when an agent was there before, which had to be deleted first and perhaps was
\* not (do_cvdelete, do_cvadd, do_cvstatus).
OkStep(t) ==
  cmd[t] # None /\ cmd'[t] = None /\ done'[t] = "ok" /\ cmd[t].name \in {"add", "update"} =>
    /\ row' # None /\ row'.ak = given[cmd[t].share]
    /\ cmd[t].payload => row'.v = cmd[t].share
OkMeansDone == [][\A t \in Tenants : OkStep(t)]_vars

\* Every command ends, whatever the peers do: no retry is forever.
CommandEnds == \A t \in Tenants : cmd[t] # None ~> cmd[t] = None
=============================================================================
