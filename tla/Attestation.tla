----------------------------- MODULE Attestation -----------------------------
(* Incremental attestation of one agent's IMA log (keylime/agentstates.py,
   ima/ima.py, the use of both in cloud_verifier_common.py and
   cloud_verifier_tornado.py): each worker process remembers how far into the
   log it has come and the PCR value there, asks for the rest only, and keeps
   a copy in the agent's row.

   The machine appends entries to its log and extends PCR 10 with them later;
   it may reboot.  A PCR value is the sequence of the entries it was extended
   with: the hash chain has no collisions. *)
EXTENDS Naturals, Sequences

CONSTANTS
  Workers, Pollers,
  Home,            \* Home[p]: the worker process poller p runs in
  Entries,         \* what a log is made of
  KeyEntries,      \* entries that bring a key for file signatures
  SignedEntries,   \* entries signed with that key
  Policies,        \* runtime policies: sets of entries with a digest in them
  None,            \* no value
  EarlyDelete,     \* whether a row may be deleted under a request
  MaxLog,          \* bound: entries of a log
  MaxBoots         \* bound: boots of the machine

ASSUME AttestationAssumption ==
  /\ Home \in [Pollers -> Workers]
  /\ KeyEntries \subseteq Entries /\ SignedEntries \subseteq Entries
  /\ KeyEntries \intersect SignedEntries = {}
  /\ Policies \subseteq SUBSET Entries
  /\ EarlyDelete \in BOOLEAN
  /\ MaxLog \in Nat /\ MaxBoots \in Nat \ {0}
  /\ None \notin Seq(Entries)

VARIABLES
  log,       \* the machine's IMA log
  extended,  \* how many entries of it PCR 10 was extended with
  boot,      \* its boot time
  sent,      \* history: how long the log was when this boot last sent it
  state,     \* state[w]: the AgentAttestState in worker w
  row,       \* the copy in the agent's row: None, or the columns of it
  policy,    \* the runtime policy the row refers to
  inForce,   \* history: the policies it had since the agent was added
  pc,        \* pc[p]: where poller p is
  captured,  \* captured[p]: the policy it read before it asks
  asked,     \* asked[p]: the entry it has asked for
  reply,     \* reply[p]: the reply it has got
  verdict    \* history: what the step just taken found of a log

machine == <<log, extended, boot, sent>>
policies == <<policy, inForce>>
pollers == <<pc, captured, asked, reply>>
vars == <<machine, state, row, policies, pollers, verdict>>

Boots == 1..MaxBoots
Logs == UNION {[1..n -> Entries] : n \in 0..MaxLog}

\* AgentAttestState.  pcr is None when it is not initialised, imaPcrs says
\* whether PCR 10 is in ima_pcrs, hashAlg whether its algorithm is recorded,
\* keys whether a key was learned.
States == [next : 0..MaxLog, boottime : Boots \union {0}, pcr : Logs \union {None},
           imaPcrs : BOOLEAN, hashAlg : BOOLEAN, keys : BOOLEAN,
           progress : {None} \union ((0..MaxLog) \X (0..MaxLog))]

\* The constructor.
NewState == [next |-> 0, boottime |-> 0, pcr |-> None, imaPcrs |-> FALSE,
             hashAlg |-> FALSE, keys |-> FALSE, progress |-> None]

\* The columns boottime, next_ima_ml_entry, pcr10 and learned_ima_keyrings.
Columns == [next : 0..MaxLog, boottime : Boots \union {0}, pcr : Logs \union {None},
            keys : BOOLEAN]
NewColumns == [next |-> 0, boottime |-> 0, pcr |-> None, keys |-> FALSE]

ASSUME NoneAssumption == None \notin Columns

\* A reply: the log from entry start on (log itself, so that a property can
\* see what was left out), the quote's PCR, the boot time.
Replies == [start : 0..MaxLog, log : Logs, extended : 0..MaxLog, boot : Boots,
            behind : BOOLEAN]

Verdicts == [accepted : BOOLEAN, log : Logs, behind : BOOLEAN]

TypeOK ==
  /\ log \in Logs /\ extended \in 0..Len(log) /\ boot \in Boots /\ sent \in 0..MaxLog
  /\ state \in [Workers -> States]
  /\ row \in Columns \union {None}
  /\ policy \in Policies \union {None} /\ inForce \subseteq Policies
  /\ pc \in [Pollers -> {"idle", "due", "asked", "answered"}]
  /\ captured \in [Pollers -> Policies \union {None}]
  /\ asked \in [Pollers -> 0..MaxLog]
  /\ reply \in [Pollers -> Replies \union {None}]
  /\ verdict \in Verdicts \union {None}

Init ==
  /\ log = <<>> /\ extended = 0 /\ boot = 1 /\ sent = 0
  /\ state = [w \in Workers |-> NewState]
  /\ row = None /\ policy = None /\ inForce = {}
  /\ pc = [p \in Pollers |-> "idle"]
  /\ captured = [p \in Pollers |-> None]
  /\ asked = [p \in Pollers |-> 0]
  /\ reply = [p \in Pollers |-> None]
  /\ verdict = None
-----------------------------------------------------------------------------
(* The machine *)

Measure(e) ==
  /\ Len(log) < MaxLog
  /\ log' = Append(log, e)
  /\ verdict' = None
  /\ UNCHANGED <<extended, boot, sent, state, row, policies, pollers>>

Extend ==
  /\ extended < Len(log)
  /\ extended' = extended + 1
  /\ verdict' = None
  /\ UNCHANGED <<log, boot, sent, state, row, policies, pollers>>

Reboot ==
  /\ boot < MaxBoots
  /\ boot' = boot + 1 /\ log' = <<>> /\ extended' = 0 /\ sent' = 0
  /\ verdict' = None
  /\ UNCHANGED <<state, row, policies, pollers>>
-----------------------------------------------------------------------------
(* The entries of a log *)

Prefix(s, n) == SubSeq(s, 1, n)

\* One of the first n entries of s brings the key, and the policy admits it.
Learned(s, n, rules) == \E i \in 1..n : s[i] \in KeyEntries \intersect rules

\* Entry i of s is in the policy, or signed with a key known when it is met.
Admits(s, i, keys, rules) ==
  \/ s[i] \in rules
  \/ s[i] \in SignedEntries /\ (keys \/ Learned(s, i - 1, rules))

AllValid(s, keys, rules) == \A i \in 1..Len(s) : Admits(s, i, keys, rules)
-----------------------------------------------------------------------------
(* AgentAttestState *)

\* Fault: the position stays.
ResetIma_KeepsPosition(a) ==
  [a EXCEPT !.boottime = 0, !.keys = FALSE, !.progress = None,
            !.pcr = IF a.imaPcrs THEN None ELSE @]

\* reset_ima_attestation: over ima_pcrs only.
ResetIma(a) ==
  [a EXCEPT !.next = 0, !.boottime = 0, !.keys = FALSE, !.progress = None,
            !.pcr = IF a.imaPcrs THEN None ELSE @]

\* get_pcr_state: the PCR is initialised when it is first used.
Base(a) == IF a.pcr = None THEN <<>> ELSE a.pcr
InUse(a) == [a EXCEPT !.pcr = Base(a), !.hashAlg = TRUE]

\* Fault: the matching line itself is asked for again.
Advanced_OffByOne(a, n, pcr) ==
  [a EXCEPT !.next = @ + n - 1, !.pcr = pcr, !.imaPcrs = TRUE]

\* update_ima_attestation
Advanced(a, n, pcr) ==
  [a EXCEPT !.next = @ + n, !.pcr = pcr, !.imaPcrs = TRUE]

\* Fault: the lines matched last time are held against the quote too.
Progresses_WholeLog(a, match, length) ==
  \/ a.progress = None
  \/ match = length
  \/ match >= a.progress[2]

\* check_quote_progress: the quote caught up with the log, or at least with
\* what the last reply had shown beyond its quote.
Progresses(a, match, length) ==
  \/ a.progress = None
  \/ match = length
  \/ match >= a.progress[2] - a.progress[1]
-----------------------------------------------------------------------------
(* process_quote_response *)

Lines(r) == SubSeq(r.log, r.start + 1, Len(r.log))

\* The reply does not start where it was asked to, or does and shows that the
\* machine was rebooted since.
Misplaced(a, r) == r.start # 0 /\ r.start # a.next
Rebooted(a, r) == r.start # 0 /\ r.start = a.next /\ a.boottime # r.boot

\* The state the reply is checked from.
Begun(a, r) ==
  [(IF r.start = 0 THEN ResetIma(a) ELSE a) EXCEPT !.boottime = r.boot]

\* The lines after which the replay meets the quote, 0 before the first.
Matches(a, r) ==
  {i \in 0..Len(Lines(r)) : Base(a) \o Prefix(Lines(r), i) = Prefix(r.log, r.extended)}

\* _process_measurement_list finds a failure: an entry that is not valid, no
\* line that meets the quote, or no progress.
ImaFailures(a, r, rules) ==
  \/ ~AllValid(Lines(r), a.keys, rules)
  \/ Matches(a, r) = {}
  \/ \E i \in Matches(a, r) : ~Progresses(a, i, Len(Lines(r)))

\* The state after it: any failure resets it (process_measurement_list).
Replayed(a, r, rules) ==
  IF ImaFailures(a, r, rules)
  THEN ResetIma([InUse(a) EXCEPT !.imaPcrs = @ \/ Matches(a, r) \ {0} # {}])
  ELSE LET i == CHOOSE i \in Matches(a, r) : TRUE
           b == [InUse(a) EXCEPT !.keys = @ \/ Learned(Lines(r), Len(Lines(r)), rules),
                                 !.progress = <<i, Len(Lines(r))>>]
       IN IF i = 0 THEN b ELSE Advanced(b, i, Prefix(r.log, r.extended))

\* store_attestation_state: only once the value of PCR 10 was used.
Stored(a) ==
  IF row # None /\ a.imaPcrs /\ a.hashAlg /\ a.pcr # None
  THEN [next |-> a.next, boottime |-> a.boottime, pcr |-> a.pcr, keys |-> a.keys]
  ELSE row

\* process_agent reads the policy, then waits for its timer.  After a failure
\* it may also stop, which StopPolling does.
Due(p, rules) ==
  /\ pc' = [pc EXCEPT ![p] = "due"]
  /\ captured' = [captured EXCEPT ![p] = rules]
  /\ asked' = [asked EXCEPT ![p] = 0]
  /\ reply' = [reply EXCEPT ![p] = None]

Ends(p) ==
  /\ pc' = [pc EXCEPT ![p] = "idle"]
  /\ captured' = [captured EXCEPT ![p] = None]
  /\ asked' = [asked EXCEPT ![p] = 0]
  /\ reply' = [reply EXCEPT ![p] = None]

\* The row is written, and the poller goes on unless the row is gone.
Finish(p, a) ==
  /\ state' = [state EXCEPT ![Home[p]] = a]
  /\ row' = Stored(a)
  /\ IF row = None THEN Ends(p) ELSE Due(p, policy)
  /\ UNCHANGED <<machine, policies>>

Judged(p, accepted) ==
  verdict' = [accepted |-> accepted, log |-> reply[p].log, behind |-> reply[p].behind]

\* A reply that shows a reboot is not looked at further.
TakenForReboot(p) ==
  LET a == state[Home[p]] IN
  /\ pc[p] = "answered"
  /\ Rebooted(a, reply[p])
  /\ Finish(p, ResetIma(a))
  /\ verdict' = None

\* No public key, or an algorithm that is not accepted: nothing is looked at.
ReplyRefused(p) ==
  /\ pc[p] = "answered"
  /\ Finish(p, state[Home[p]])
  /\ verdict' = None

\* The quote itself is rejected, before the log is looked at.
QuoteRefused(p) ==
  LET a == state[Home[p]] IN
  /\ pc[p] = "answered"
  /\ ~Rebooted(a, reply[p])
  /\ Finish(p, Begun(a, reply[p]))
  /\ IF Misplaced(a, reply[p]) THEN Judged(p, FALSE) ELSE verdict' = None

\* The log is replayed; elsewhere: another check of the quote fails.
Checked(p, elsewhere) ==
  LET a == state[Home[p]]
      r == reply[p]
      b == Begun(a, r)
      bad == Misplaced(a, r) \/ ImaFailures(b, r, captured[p])
  IN
  /\ pc[p] = "answered"
  /\ ~Rebooted(a, r)
  /\ Finish(p, Replayed(b, r, captured[p]))
  /\ IF elsewhere /\ ~bad THEN verdict' = None ELSE Judged(p, ~bad)
-----------------------------------------------------------------------------
(* Requests and replies *)

\* prepare_get_quote
Ask(p) ==
  /\ pc[p] = "due"
  /\ pc' = [pc EXCEPT ![p] = "asked"]
  /\ asked' = [asked EXCEPT ![p] = state[Home[p]].next]
  /\ verdict' = None
  /\ UNCHANGED <<machine, state, row, policies, captured, reply>>

\* The agent sends its log from the entry asked for, or from the first.
Answer(p, start) ==
  /\ pc[p] = "asked"
  /\ start \in {0, asked[p]} /\ start <= Len(log)
  /\ reply' = [reply EXCEPT ![p] =
       [start |-> start, log |-> log, extended |-> extended, boot |-> boot,
        behind |-> extended < sent]]
  /\ pc' = [pc EXCEPT ![p] = "answered"]
  /\ asked' = [asked EXCEPT ![p] = 0]
  /\ sent' = Len(log)
  /\ verdict' = None
  /\ UNCHANGED <<log, extended, boot, state, row, policies, captured>>

\* No connection, or a time-out, after the agent has made its reply or before.
Unanswered(p) ==
  /\ pc[p] \in {"asked", "answered"}
  /\ IF row = None THEN Ends(p) ELSE Due(p, policy)
  /\ verdict' = None
  /\ UNCHANGED <<machine, state, row, policies>>

\* The poller stops, for a failure or at the tenant's word.
StopPolling(p) ==
  /\ pc[p] = "due"
  /\ Ends(p)
  /\ verdict' = None
  /\ UNCHANGED <<machine, state, row, policies>>
-----------------------------------------------------------------------------
(* The agent is added and deleted, the service restarts *)

\* POST /agents/a with a policy.
Add(p, rules) ==
  /\ pc[p] = "idle" /\ row = None
  /\ row' = NewColumns /\ policy' = rules /\ inForce' = {rules}
  /\ Due(p, rules)
  /\ verdict' = None
  /\ UNCHANGED <<machine, state>>

\* PUT /agents/a/reactivate: a poller, whether or not there is one.
Reactivate(p) ==
  /\ pc[p] = "idle" /\ row # None
  /\ Due(p, policy)
  /\ verdict' = None
  /\ UNCHANGED <<machine, state, row, policies>>

\* PUT /allowlists/name: the policy the row refers to gets other contents.
UpdatePolicy(rules) ==
  /\ row # None
  /\ policy' = rules /\ inForce' = inForce \union {rules}
  /\ verdict' = None
  /\ UNCHANGED <<machine, state, row, pollers>>

\* Fault: the state in memory outlives the row.
Forget_Nothing(w) == UNCHANGED state

\* delete_by_agent_id
Forget(w) == state' = [state EXCEPT ![w] = NewState]

\* verifier_db_delete_agent run by worker w
DeleteRow(w) ==
  /\ row # None
  /\ Forget(w)
  /\ row' = None /\ policy' = None /\ inForce' = {}

\* DELETE /agents/a of an agent that is not polled, or a second one of an
\* agent that is.
Delete(w) ==
  /\ EarlyDelete \/ \A p \in Pollers : pc[p] = "idle"
  /\ DeleteRow(w)
  /\ verdict' = None
  /\ UNCHANGED <<machine, pollers>>

\* The poller meets the mark of a DELETE.
Terminate(p) ==
  /\ pc[p] = "due"
  /\ DeleteRow(Home[p])
  /\ Ends(p)
  /\ verdict' = None
  /\ UNCHANGED machine

\* activate_agents: the row's columns go to the worker it falls to.
Resumed(c) == [NewState EXCEPT !.next = c.next, !.boottime = c.boottime,
                               !.pcr = c.pcr, !.imaPcrs = TRUE, !.keys = c.keys]

Restart(w, p) ==
  /\ Home[p] = w
  /\ state' = [v \in Workers |->
       IF v = w /\ row # None /\ row.boottime # 0 THEN Resumed(row) ELSE NewState]
  /\ pc' = [q \in Pollers |-> IF q = p /\ row # None THEN "due" ELSE "idle"]
  /\ captured' = [q \in Pollers |-> IF q = p THEN policy ELSE None]
  /\ asked' = [q \in Pollers |-> 0]
  /\ reply' = [q \in Pollers |-> None]
  /\ verdict' = None
  /\ UNCHANGED <<machine, row, policies>>
-----------------------------------------------------------------------------
PollerStep(p) ==
  \/ Ask(p)
  \/ \E start \in 0..MaxLog : Answer(p, start)
  \/ Unanswered(p)
  \/ TakenForReboot(p)
  \/ ReplyRefused(p)
  \/ QuoteRefused(p)
  \/ \E elsewhere \in BOOLEAN : Checked(p, elsewhere)
  \/ StopPolling(p)
  \/ Terminate(p)

Next ==
  \/ \E e \in Entries : Measure(e)
  \/ Extend
  \/ Reboot
  \/ \E p \in Pollers : PollerStep(p)
  \/ \E p \in Pollers, rules \in Policies : Add(p, rules)
  \/ \E p \in Pollers : Reactivate(p)
  \/ \E rules \in Policies : UpdatePolicy(rules)
  \/ \E w \in Workers : Delete(w)
  \/ \E w \in Workers, p \in Pollers : Restart(w, p)

Spec == Init /\ [][Next]_vars
-----------------------------------------------------------------------------
(* Properties *)

\* What attestation is about: the whole log, from the first entry on, under
\* given rules.
FullReplay(s, rules) == AllValid(s, FALSE, rules)

\* What every policy of this agent admitted, and what at least one did: the
\* same thing, unless PUT /allowlists changed the policy meanwhile.
Common == {e \in UNION inForce : \A rules \in inForce : e \in rules}
Upper == UNION inForce

\* A quote of an agent accepted from part of the log is one that a replay of the whole log
\* against the agent's own policies would accept, whatever replies, reboots,
\* restarts, updates, deletions and additions came before
\* (process_quote_response, _process_measurement_list, activate_agents).
AcceptedAsInFull ==
  verdict # None /\ row # None /\ verdict.accepted => FullReplay(verdict.log, Upper)

\* The log of a machine that a replay of the whole log would accept is not
\* rejected for the part that was looked at, unless its quote lags behind what
\* an earlier reply had shown (check_quote_progress).
RejectedAsInFull ==
  verdict # None /\ row # None /\ ~verdict.accepted
    => verdict.behind \/ ~FullReplay(verdict.log, Common)

\* A position taken from the machine's present boot is one in its log: the
\* PCR value belongs to the entries before it, and the policies admitted them.
PositionIn(a) ==
  a.boottime = boot /\ a.pcr # None =>
    /\ a.next = Len(a.pcr) /\ a.next <= extended
    /\ a.pcr = Prefix(log, a.next)
    /\ FullReplay(a.pcr, Upper)

\* What a worker remembers and what the row keeps never get out of step with
\* the log they are about (update_ima_attestation, store_attestation_state,
\* activate_agents), so a position taken up again goes on where it was left.
PositionsSound ==
  /\ \A w \in Workers : PositionIn(state[w])
  /\ row # None => PositionIn(row)
=============================================================================
