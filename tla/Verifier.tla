------------------------------ MODULE Verifier ------------------------------
(* The cloud verifier (keylime/cloud_verifier_tornado.py): the loop that asks
   an agent for quotes, the REST handlers that add, delete, stop and reactivate
   agents, the database row both work on, and the restart of the service.

   A poller is one agent dictionary with the chain of callbacks that carries
   it: process_agent -> invoke_get_quote / invoke_provide_v -> process_agent.
   Pollers of one worker process share its event loop: what runs between two
   awaits is one step, unless another worker can be seen to step in between,
   in which case the poller keeps its worker busy from one step to the next. *)
EXTENDS AgentStates, Failure, FiniteSets

CONSTANTS
  Agents, Workers, Pollers,
  Keys,            \* public keys an agent may present
  None,            \* no value
  Home,            \* Home[p]: the worker process poller p runs in
  QuoteFailures,   \* failures process_quote_response may return
  MaxRetries,      \* max_retries
  ImportedMaxSev,  \* severity of MAX_SEVERITY_LABEL as imported at load time
  AgentNotifier,   \* "agent" is one of enabled_revocation_notifications
  PollAtOnce,      \* quote_interval = 0
  Positions,       \* whether a reply leaves a position in the IMA log behind
  Payloads,        \* whether POST carries a V key: a subset of BOOLEAN
  Mortal,          \* agents whose host may go away for good
  MaxVersion,      \* bound: the last API version an agent upgrades to
  MaxRestarts,     \* bound: restarts of the service
  MaxNotices       \* bound: agents being told of revocations at once

ASSUME VerifierAssumption ==
  /\ Home \in [Pollers -> Workers]
  /\ MaxRetries \in Nat
  /\ MaxVersion \in Nat \ {0}
  /\ MaxRestarts \in Nat /\ MaxNotices \in Nat
  /\ ImportedMaxSev \in Nat
  /\ AgentNotifier \in BOOLEAN /\ PollAtOnce \in BOOLEAN
  /\ None \notin Agents \union Keys
  /\ QuoteFailures \subseteq {f \in Failures : IsFailure(f) /\ f.top # NoEvent}
  /\ {"not_reachable", "internal", "no_pubkey"} \subseteq EventIds
  /\ Payloads \subseteq BOOLEAN /\ Positions \subseteq BOOLEAN /\ Mortal \subseteq Agents

VARIABLES
  db,         \* db[a]: the row of agent a in table verifiermain, or None
  pc,         \* pc[p]: where poller p is
  dict,       \* dict[p]: its agent dictionary
  call,       \* call[p]: the arguments of its pending process_agent
  dflt,       \* dflt[w]: the default of process_agent's parameter failure
  resumable,  \* <<w, a>>: worker w would ask a for a later part of its IMA log
  notices,    \* <<w, d>>: worker w tells an agent, by its dictionary d
  announced,  \* history: agents a revocation notification was sent for
  verified,   \* history: <<a, k>>: a quote of a was verified under key k
  up,         \* up[a]: the host of agent a still answers
  restarts    \* restarts so far

vars == <<db, pc, dict, call, dflt, resumable, notices, announced, verified,
          up, restarts>>

\* Event identifiers of the verifier itself: "not_reachable" also stands for
\* not_reachable_v, "internal" for exception, no_quote, no_v and
\* version_not_supported, which nothing tells apart.

\* The columns of a row that matter here.  last stands for severity_level and
\* last_event_id, attested for attestation_count > 0, boot for a stored
\* attestation state (boottime, pcrs, next_ima_ml_entry).
Rows == [op : VALID_STATES, last : Events \union {NoEvent}, attested : BOOLEAN,
         key : Keys \union {None}, v : BOOLEAN, version : 1..MaxVersion,
         boot : BOOLEAN]

ASSUME NoneAssumption == None \notin Rows

\* The agent dictionary: the row's columns without boot, and the fields of
\* exclude_db that are never stored.  encV is the key V was encrypted under.
Dicts == [id : Agents \union {None}, op : VALID_STATES,
          last : Events \union {NoEvent}, attested : BOOLEAN,
          key : Keys \union {None}, v : BOOLEAN, version : 1..MaxVersion,
          encV : Keys \union {None}, provideV : BOOLEAN,
          retries : 0..MaxRetries]

\* process_agent(agent, new, failure); shared: failure is the default object.
Targets == {GET_QUOTE, GET_QUOTE_RETRY, PROVIDE_V, PROVIDE_V_RETRY, FAILED,
            INVALID_QUOTE}
Calls == [new : Targets, shared : BOOLEAN, failure : Failures]

\* idle     no poller                  ready    process_agent scheduled
\* recheck  process_agent called       checked  the stored row was checked
\* notify, commerr  awaiting notify_error, of an invalid quote or of an
\*                  unreachable agent
\* quote    awaiting a quote           vkey     awaiting the V key POST
\* versionQ, versionV  awaiting /version
\* timerQ   quote timer set            timerV   V key timer set
PCs == {"idle", "ready", "recheck", "checked", "notify", "commerr", "quote",
        "vkey", "versionQ", "versionV", "timerQ", "timerV"}

BlankDict ==
  [id |-> None, op |-> REGISTERED, last |-> NoEvent, attested |-> FALSE,
   key |-> None, v |-> FALSE, version |-> 1, encV |-> None,
   provideV |-> FALSE, retries |-> 0]

NewCall(new) == [new |-> new, shared |-> TRUE, failure |-> EmptyFailure]
FailCall(new, f) == [new |-> new, shared |-> FALSE, failure |-> f]

TypeOK ==
  /\ db \in [Agents -> Rows \union {None}]
  /\ pc \in [Pollers -> PCs]
  /\ dict \in [Pollers -> Dicts]
  /\ call \in [Pollers -> Calls]
  /\ dflt \in [Workers -> Failures]
  /\ resumable \subseteq Workers \X Agents
  /\ notices \subseteq Workers \X {d \in Dicts : d.id \in Agents}
  /\ announced \subseteq Agents
  /\ verified \subseteq Agents \X Keys
  /\ up \in [Agents -> BOOLEAN]
  /\ restarts \in 0..MaxRestarts

Init ==
  /\ db = [a \in Agents |-> None]
  /\ pc = [p \in Pollers |-> "idle"]
  /\ dict = [p \in Pollers |-> BlankDict]
  /\ call = [p \in Pollers |-> NewCall(GET_QUOTE)]
  /\ dflt = [w \in Workers |-> EmptyFailure]
  /\ resumable = {}
  /\ notices = {}
  /\ announced = {}
  /\ verified = {}
  /\ up = [a \in Agents |-> TRUE]
  /\ restarts = 0
-----------------------------------------------------------------------------
(* Reading and writing the row *)

\* The columns "propagate all state" writes.  A dictionary that never failed
\* has no severity_level and no last_event_id and leaves those columns alone.
WriteBack(row, d) ==
  [op |-> d.op, last |-> IF d.last = NoEvent THEN row.last ELSE d.last,
   attested |-> d.attested, key |-> d.key, v |-> d.v, version |-> d.version,
   boot |-> row.boot]

\* UPDATE ... WHERE agent_id: nothing happens when the row is gone.
Stored(d) ==
  IF db[d.id] = None THEN db ELSE [db EXCEPT ![d.id] = WriteBack(@, d)]

\* _from_db_obj: severity_level and last_event_id are not among its fields.
FromRow(a, row) ==
  [id |-> a, op |-> row.op, last |-> NoEvent, attested |-> row.attested,
   key |-> row.key, v |-> row.v, version |-> row.version, encV |-> None,
   provideV |-> TRUE, retries |-> 0]

-----------------------------------------------------------------------------
(* Pollers *)

Live(p) == pc[p] # "idle"

\* A worker between two steps of one uninterrupted stretch of code.
Busy(w) == \E p \in Pollers : Home[p] = w /\ pc[p] \in {"recheck", "checked"}

Idle(p) ==
  /\ pc' = [pc EXCEPT ![p] = "idle"]
  /\ dict' = [dict EXCEPT ![p] = BlankDict]
  /\ call' = [call EXCEPT ![p] = NewCall(GET_QUOTE)]

\* asyncio.ensure_future(process_agent(d, c.new, c.failure))
Schedule(p, d, c) ==
  /\ pc' = [pc EXCEPT ![p] = "ready"]
  /\ dict' = [dict EXCEPT ![p] = d]
  /\ call' = [call EXCEPT ![p] = c]

\* The poller goes on to wait at a request or a timer.
WaitAt(p, where, d) ==
  /\ pc' = [pc EXCEPT ![p] = where]
  /\ dict' = [dict EXCEPT ![p] = d]
  /\ call' = [call EXCEPT ![p] = NewCall(GET_QUOTE)]

\* The object behind the parameter failure of the call of p.
FailureOf(p) == IF call[p].shared THEN dflt[Home[p]] ELSE call[p].failure

\* failure.add_event(id, ..., False); await process_agent(agent, FAILED, failure)
FailWith(p, id, where) ==
  /\ pc' = [pc EXCEPT ![p] = where]
  /\ call' = [call EXCEPT ![p] =
       [new |-> FAILED, shared |-> @.shared,
        failure |-> IF @.shared THEN @.failure
                    ELSE AddEvent(@.failure, Irrecoverable(id))]]
  /\ dflt' = IF call[p].shared
             THEN [dflt EXCEPT ![Home[p]] = AddEvent(@, Irrecoverable(id))]
             ELSE dflt

FailedTargets == {FAILED, INVALID_QUOTE}

\* Fault: the severity is not looked at.
Stops_IgnoresSeverity(f) == ~f.recoverable

\* The failure ends the polling of its agent.
Stops(f) == ~f.recoverable \/ f.top.sev = ImportedMaxSev

\* The failure is worse than what the dictionary has recorded.
Worse(d, f) == d.last = NoEvent \/ d.last.sev < f.top.sev
-----------------------------------------------------------------------------
(* process_agent, first part: the checks on the stored row *)

EntersProcess(p) ==
  \/ pc[p] \in {"ready", "commerr"} /\ ~Busy(Home[p])
  \/ pc[p] = "recheck"

RowOf(p) == db[dict[p].id]

StoredState(p, op) == RowOf(p) # None /\ RowOf(p).op = op

\* The row is gone, or the tenant stopped the agent: stop polling.
StopPolling(p) ==
  /\ EntersProcess(p)
  /\ RowOf(p) = None \/ StoredState(p, TENANT_FAILED)
  /\ Idle(p)
  /\ UNCHANGED <<db, dflt, resumable, notices, announced, verified, up, restarts>>

\* verifier_db_delete_agent run by worker w.
DeleteRow(w, a) ==
  /\ db' = [db EXCEPT ![a] = None]
  /\ resumable' = resumable \ {<<w, a>>}

\* Fault: polling stops and the row is left behind.
Terminate_KeepsRow(p) ==
  /\ EntersProcess(p)
  /\ StoredState(p, TERMINATED)
  /\ Idle(p)
  /\ UNCHANGED <<db, resumable, dflt, notices, announced, verified, up, restarts>>

\* The user terminated the agent: remove the row and stop polling.
Terminate(p) ==
  /\ EntersProcess(p)
  /\ StoredState(p, TERMINATED)
  /\ DeleteRow(Home[p], dict[p].id)
  /\ Idle(p)
  /\ UNCHANGED <<dflt, notices, announced, verified, up, restarts>>

\* Fault: the stored state is not looked at.
Admitted_Always(p) == EntersProcess(p) /\ RowOf(p) # None

\* The stored row allows polling to go on.
Admitted(p) ==
  /\ EntersProcess(p)
  /\ RowOf(p) # None /\ RowOf(p).op \notin {TERMINATED, TENANT_FAILED}

\* Fault: the operational state is left as it was.
Marked_KeepsState(d, c, f) == [d EXCEPT !.last = f.top]

Marked(d, c, f) == [d EXCEPT !.last = f.top, !.op = c.new]

\* notify_error: with the "agent" notifier every row is read and every agent
\* told, through a dictionary made from its row.  The agent at fault is told
\* through the poller's own dictionary when its row comes first.  Kept are
\* the notices an agent may refuse, as many as the bound allows.
Notified(p) ==
  LET told == {a \in Agents :
                 /\ db[a] # None /\ db[a].version < MaxVersion
                 /\ a = dict[p].id => \E b \in Agents \ {a} : db[b] # None}
      more == notices \union {<<Home[p], FromRow(a, db[a])>> : a \in told}
  IN IF AgentNotifier /\ Cardinality(more) <= MaxNotices THEN more ELSE notices

\* Fault: only agents that were attested before are announced.
RecordFailure_SkipsNew(p) ==
  /\ Admitted(p)
  /\ call[p].new \in FailedTargets /\ Worse(dict[p], FailureOf(p))
  /\ dict' = [dict EXCEPT ![p] = Marked(@, call[p], FailureOf(p))]
  /\ announced' = IF call[p].new = INVALID_QUOTE /\ dict[p].attested
                  THEN announced \union {dict[p].id} ELSE announced
  /\ pc' = [pc EXCEPT ![p] = "checked"]
  /\ UNCHANGED <<db, call, dflt, resumable, notices, verified, up, restarts>>

\* A failure worse than before is recorded in the dictionary, and announced
\* when it is the agent's own quote that failed.
RecordFailure(p) ==
  /\ Admitted(p)
  /\ call[p].new \in FailedTargets /\ Worse(dict[p], FailureOf(p))
  /\ dict' = [dict EXCEPT ![p] = Marked(@, call[p], FailureOf(p))]
  /\ IF call[p].new = INVALID_QUOTE
     THEN /\ announced' = announced \union {dict[p].id}
          /\ pc' = [pc EXCEPT ![p] = IF AgentNotifier THEN "notify" ELSE "checked"]
          /\ notices' = Notified(p)
     ELSE /\ pc' = [pc EXCEPT ![p] = "checked"]
          /\ UNCHANGED <<announced, notices>>
  /\ UNCHANGED <<db, call, dflt, resumable, verified, up, restarts>>

Proceed(p) ==
  /\ Admitted(p)
  /\ call[p].new \in FailedTargets => ~Worse(dict[p], FailureOf(p))
  /\ pc' = [pc EXCEPT ![p] = "checked"]
  /\ UNCHANGED <<db, dict, call, dflt, resumable, notices, announced, verified, up,
                 restarts>>
-----------------------------------------------------------------------------
(* process_agent, second part: "propagate all state", then the dispatch on the
   state the dictionary was in and the state asked for *)

Propagates(p) ==
  \/ pc[p] = "checked"
  \/ pc[p] = "notify" /\ ~Busy(Home[p])

\* The row went away since it was read: the update matches nothing and the
\* next access to the stored row raises.  The call with FAILED that follows finds no
\* row and stops.  (After an irrecoverable failure it does so by raising: the field
\* pending_event it looks at was deleted.  Its handler calls it again, until the
\* recursion is too deep: the poller ends all the same, and no more is written.)
RowGone(p) ==
  /\ Propagates(p) /\ RowOf(p) = None
  /\ FailWith(p, "internal", "recheck")
  /\ UNCHANGED <<db, dict, resumable, notices, announced, verified, up, restarts>>

\* The dispatch from state `from' to the call's target, after the write.
Dispatch(p, from, new) ==
  /\ Propagates(p) /\ RowOf(p) # None
  /\ dict[p].op \in from /\ call[p].new = new
  /\ db' = Stored(dict[p])
  /\ UNCHANGED <<resumable, announced, verified, up, restarts>>

\* FAILED or INVALID_QUOTE: stop polling ...
GiveUp(p) ==
  /\ \E new \in FailedTargets : Dispatch(p, VALID_STATES, new)
  /\ Stops(FailureOf(p))
  /\ Idle(p)
  /\ UNCHANGED <<dflt, notices>>

\* ... or ask for the next quote at once.
PollOn(p) ==
  /\ \E new \in FailedTargets : Dispatch(p, VALID_STATES, new)
  /\ ~Stops(FailureOf(p))
  /\ WaitAt(p, "quote", dict[p])
  /\ UNCHANGED <<dflt, notices>>

\* Fault: the dictionary stays in START.
FirstQuote_KeepsStart(p) ==
  /\ Dispatch(p, {START}, GET_QUOTE)
  /\ WaitAt(p, "quote", [dict[p] EXCEPT !.retries = 0])
  /\ UNCHANGED <<dflt, notices>>

FirstQuote(p) ==
  /\ Dispatch(p, {START}, GET_QUOTE)
  /\ WaitAt(p, "quote", [dict[p] EXCEPT !.retries = 0, !.op = GET_QUOTE])
  /\ UNCHANGED <<dflt, notices>>

\* prepare_v: V goes out under the key it is already encrypted for, or else
\* under the current public key.
PreparedV(d) == IF d.encV # None THEN d ELSE [d EXCEPT !.encV = d.key]

\* Fault: the dictionary stays in GET_QUOTE.
InProvideV_KeepsState(d) == [d EXCEPT !.retries = 0]

InProvideV(d) == [d EXCEPT !.retries = 0, !.op = PROVIDE_V]

ProvideV(p) ==
  /\ Dispatch(p, {GET_QUOTE}, PROVIDE_V)
  /\ dict[p].v /\ (dict[p].encV # None \/ dict[p].key # None)
  /\ WaitAt(p, "vkey", PreparedV(InProvideV(dict[p])))
  /\ UNCHANGED <<dflt, notices>>

\* prepare_v cannot import a public key that was never set.
ProvideVWithoutKey(p) ==
  /\ Dispatch(p, {GET_QUOTE}, PROVIDE_V)
  /\ dict[p].v /\ dict[p].encV = None /\ dict[p].key = None
  /\ dict' = [dict EXCEPT ![p] = InProvideV(@)]
  /\ FailWith(p, "internal", "recheck")
  /\ UNCHANGED notices

\* No V to deploy: await process_agent(agent, GET_QUOTE).
NoV(p) ==
  /\ Dispatch(p, {GET_QUOTE}, PROVIDE_V)
  /\ ~dict[p].v
  /\ pc' = [pc EXCEPT ![p] = "recheck"]
  /\ dict' = [dict EXCEPT ![p] = InProvideV(@)]
  /\ call' = [call EXCEPT ![p] = NewCall(GET_QUOTE)]
  /\ UNCHANGED <<dflt, notices>>

\* Fault: a good quote is taken to heal a bad one.
NextQuote_Heals(p) ==
  /\ Dispatch(p, {PROVIDE_V, GET_QUOTE, INVALID_QUOTE}, GET_QUOTE)
  /\ WaitAt(p, "timerQ", [dict[p] EXCEPT !.retries = 0, !.op = GET_QUOTE])
  /\ UNCHANGED <<dflt, notices>>

NextQuote(p) ==
  /\ Dispatch(p, {PROVIDE_V, GET_QUOTE}, GET_QUOTE)
  /\ WaitAt(p, IF PollAtOnce THEN "quote" ELSE "timerQ",
            [dict[p] EXCEPT !.retries = 0, !.op = GET_QUOTE])
  /\ UNCHANGED <<dflt, notices>>

\* Fault: retries are not counted.
Retry_Uncounted(d) == d

Retry(d) == [d EXCEPT !.retries = @ + 1]

\* Fault: one retry too many.
RetryQuote_OffByOne(p) ==
  /\ Dispatch(p, {GET_QUOTE}, GET_QUOTE_RETRY)
  /\ dict[p].retries <= MaxRetries
  /\ WaitAt(p, "timerQ", Retry(dict[p]))
  /\ UNCHANGED <<dflt, notices>>

RetryQuote(p) ==
  /\ Dispatch(p, {GET_QUOTE}, GET_QUOTE_RETRY)
  /\ dict[p].retries < MaxRetries
  /\ WaitAt(p, "timerQ", Retry(dict[p]))
  /\ UNCHANGED <<dflt, notices>>

RetryV(p) ==
  /\ Dispatch(p, {PROVIDE_V}, PROVIDE_V_RETRY)
  /\ dict[p].retries < MaxRetries
  /\ WaitAt(p, "timerV", Retry(dict[p]))
  /\ UNCHANGED <<dflt, notices>>

\* Retries exhausted.  notify_error is awaited first, for an agent that was
\* attested before (no quote) or always (no V): other callbacks may run then.
CommError(p, told) ==
  /\ dict[p].retries >= MaxRetries
  /\ FailWith(p, "not_reachable", IF AgentNotifier /\ told THEN "commerr" ELSE "recheck")
  /\ notices' = IF told THEN Notified(p) ELSE notices
  /\ UNCHANGED dict

Unreachable(p) ==
  /\ Dispatch(p, {GET_QUOTE}, GET_QUOTE_RETRY)
  /\ CommError(p, dict[p].attested)

UnreachableForV(p) ==
  /\ Dispatch(p, {PROVIDE_V}, PROVIDE_V_RETRY)
  /\ CommError(p, TRUE)

\* The (state, target) pairs process_agent has a branch for.
Handled(op, new) ==
  \/ new \in FailedTargets
  \/ op = START /\ new = GET_QUOTE
  \/ op = GET_QUOTE /\ new \in {PROVIDE_V, GET_QUOTE, GET_QUOTE_RETRY}
  \/ op = PROVIDE_V /\ new \in {GET_QUOTE, PROVIDE_V_RETRY}

\* raise Exception("nothing should ever fall out of this!")
FallOut(p) ==
  /\ Dispatch(p, {dict[p].op}, call[p].new)
  /\ ~Handled(dict[p].op, call[p].new)
  /\ FailWith(p, "internal", "recheck")
  /\ UNCHANGED <<dict, notices>>
-----------------------------------------------------------------------------
(* Timers, and the replies of the agent *)

\* call_later runs invoke_get_quote or invoke_provide_v, which send a request.
TimerFires(p) ==
  /\ ~Busy(Home[p])
  /\ \/ pc[p] = "timerQ" /\ pc' = [pc EXCEPT ![p] = "quote"]
     \/ pc[p] = "timerV" /\ pc' = [pc EXCEPT ![p] = "vkey"]
  /\ UNCHANGED <<db, dict, call, dflt, resumable, notices, announced, verified, up,
                 restarts>>

\* A request of p is answered; answers other than a connection error need a
\* host that is up.
Awaits(p, where) == pc[p] = where /\ ~Busy(Home[p])

\* The reply carries no public key and none is cached.
NoCachedKey(d) == d.key = None \/ (d.v /\ d.encV = None)

\* The part of process_quote_response before the quote is checked: k is the
\* public key in the reply, or None.
WithPubkey(d, k) == IF k = None THEN [d EXCEPT !.provideV = FALSE] ELSE d

\* What follows a quote without failure.
AfterQuote(p, d) ==
  Schedule(p, d, NewCall(IF d.provideV THEN PROVIDE_V ELSE GET_QUOTE))

\* store_attestation_state: the position b reached in the agent's IMA log is
\* kept in the worker and, when there is one, written to the row.  If the row is
\* gone the write raises, and process_agent(FAILED) is scheduled behind the call
\* scheduled before it.  Both find no row and stop, as the one does here; an agent
\* added again before they run would meet the second call too, which is left out.
StorePosition(p, b) ==
  LET a == dict[p].id IN
  /\ resumable' = IF b THEN resumable \union {<<Home[p], a>>}
                  ELSE resumable \ {<<Home[p], a>>}
  /\ db' = IF b /\ db[a] # None THEN [db EXCEPT ![a].boot = TRUE] ELSE db

\* Fault: the V encrypted for the old key is kept.
Accepted_KeepsEncV(d, key) ==
  IF key # d.key
  THEN [d EXCEPT !.attested = TRUE, !.key = key, !.provideV = TRUE]
  ELSE [d EXCEPT !.attested = TRUE]

\* The quote verified: count it, and forget the encrypted V when the key is new.
Accepted(d, key) ==
  IF key # d.key
  THEN [d EXCEPT !.attested = TRUE, !.key = key, !.encV = None, !.provideV = TRUE]
  ELSE [d EXCEPT !.attested = TRUE]

QuoteVerified(p, k, b) ==
  LET d   == WithPubkey(dict[p], k)
      key == IF k = None THEN d.key ELSE k
  IN
  /\ Awaits(p, "quote") /\ up[d.id]
  /\ k = None => ~NoCachedKey(d)
  /\ AfterQuote(p, Accepted(d, key))
  /\ verified' = verified \union {<<d.id, key>>}
  /\ StorePosition(p, b)
  /\ UNCHANGED <<dflt, notices, announced, up, restarts>>

\* The agent was rebooted since the position asked for: the position is reset
\* and the reply is taken for a success, its quote unchecked.
QuoteAfterReboot(p, k) ==
  LET d == WithPubkey(dict[p], k) IN
  /\ Awaits(p, "quote") /\ up[d.id]
  /\ <<Home[p], d.id>> \in resumable
  /\ k = None => ~NoCachedKey(d)
  /\ AfterQuote(p, d)
  /\ StorePosition(p, FALSE)
  /\ UNCHANGED <<dflt, notices, announced, verified, up, restarts>>

\* The reply carries no key where one is needed: nothing else is looked at.
NoPublicKey(p) ==
  /\ Awaits(p, "quote") /\ up[dict[p].id]
  /\ NoCachedKey(dict[p])
  /\ Schedule(p, dict[p], FailCall(INVALID_QUOTE, FatalFailure("no_pubkey")))
  /\ UNCHANGED <<db, dflt, resumable, notices, announced, verified, up, restarts>>

\* The reply is rejected by one of the checks.
QuoteRejected(p, k, f, b) ==
  /\ Awaits(p, "quote") /\ up[dict[p].id]
  /\ k = None => ~NoCachedKey(dict[p])
  /\ Schedule(p, WithPubkey(dict[p], k), FailCall(INVALID_QUOTE, f))
  /\ StorePosition(p, b)
  /\ UNCHANGED <<dflt, notices, announced, verified, up, restarts>>

VkeyAccepted(p) ==
  /\ Awaits(p, "vkey") /\ up[dict[p].id]
  /\ Schedule(p, dict[p], NewCall(GET_QUOTE))
  /\ UNCHANGED <<db, dflt, resumable, notices, announced, verified, up, restarts>>

\* 408, 500, 599: no connection, or a timeout.
ConnectionError(p) ==
  /\ \/ Awaits(p, "quote") /\ Schedule(p, dict[p], NewCall(GET_QUOTE_RETRY))
     \/ Awaits(p, "vkey") /\ Schedule(p, dict[p], NewCall(PROVIDE_V_RETRY))
  /\ UNCHANGED <<db, dflt, resumable, notices, announced, verified, up, restarts>>

\* Any other answer, or one that cannot be processed.
BadAnswer(p) ==
  /\ up[dict[p].id]
  /\ Awaits(p, "quote") \/ Awaits(p, "vkey")
  /\ Schedule(p, dict[p], FailCall(FAILED, FatalFailure("internal")))
  /\ UNCHANGED <<db, dflt, resumable, notices, announced, verified, up, restarts>>

\* 400 "API version not supported": ask for the version.
VersionRefused(p) ==
  /\ up[dict[p].id]
  /\ \/ Awaits(p, "quote") /\ WaitAt(p, "versionQ", dict[p])
     \/ Awaits(p, "vkey") /\ WaitAt(p, "versionV", dict[p])
  /\ UNCHANGED <<db, dflt, resumable, notices, announced, verified, up, restarts>>

\* update_agent_api_version found a later version and stored the dictionary,
\* without a look at the row's state.
VersionUpdated(p) ==
  LET d == [dict[p] EXCEPT !.version = @ + 1] IN
  /\ up[d.id] /\ dict[p].version < MaxVersion
  /\ \/ Awaits(p, "versionQ") /\ Schedule(p, d, NewCall(GET_QUOTE_RETRY))
     \/ Awaits(p, "versionV") /\ Schedule(p, d, NewCall(PROVIDE_V_RETRY))
  /\ db' = Stored(d)
  /\ UNCHANGED <<dflt, resumable, notices, announced, verified, up, restarts>>

VersionNotUpdated(p) ==
  /\ Awaits(p, "versionQ") \/ Awaits(p, "versionV")
  /\ Schedule(p, dict[p], FailCall(FAILED, FatalFailure("internal")))
  /\ UNCHANGED <<db, dflt, resumable, notices, announced, verified, up, restarts>>

\* invoke_notify_error: an agent that is told refuses the API version, the
\* later one is stored through the poller's own dictionary ...
NoticeToSelf(p) ==
  LET d == [dict[p] EXCEPT !.version = @ + 1] IN
  /\ pc[p] \in {"notify", "commerr"} /\ ~Busy(Home[p])
  /\ up[d.id] /\ dict[p].version < MaxVersion
  /\ dict' = [dict EXCEPT ![p] = d]
  /\ db' = Stored(d)
  /\ UNCHANGED <<pc, call, dflt, resumable, notices, announced, verified, up, restarts>>

\* ... or through the dictionary made when the rows were read, and the agent is
\* told again.  The poller waits for its notices 60 seconds at most.
NoticeRefused(n) ==
  LET w == n[1]
      d == [n[2] EXCEPT !.version = @ + 1]
  IN
  /\ ~Busy(w) /\ up[d.id] /\ n[2].version < MaxVersion
  /\ db' = Stored(d)
  /\ notices' = (notices \ {n}) \union (IF d.version < MaxVersion THEN {<<w, d>>} ELSE {})
  /\ UNCHANGED <<pc, dict, call, dflt, resumable, announced, verified, up, restarts>>
-----------------------------------------------------------------------------
(* The REST handlers of AgentsHandler, run by worker w; requests that are
   answered with an error change nothing and are left out. *)

\* Poller p of worker w is free to carry a new dictionary.
Starts(w, p) == Home[p] = w /\ pc[p] = "idle" /\ ~Busy(w)

\* POST /agents/a
Post(w, p, a, hasV) ==
  LET row == [op |-> START, last |-> NoEvent, attested |-> FALSE, key |-> None,
              v |-> hasV, version |-> 1, boot |-> FALSE]
  IN
  /\ Starts(w, p) /\ db[a] = None
  /\ db' = [db EXCEPT ![a] = row]
  /\ Schedule(p, FromRow(a, row), NewCall(GET_QUOTE))
  /\ UNCHANGED <<dflt, resumable, notices, announced, verified, up, restarts>>

\* DELETE /agents/a: 200 and the row is gone, or 202 and it is marked.
Delete(w, a) ==
  /\ ~Busy(w) /\ db[a] # None
  /\ IF db[a].op \in DELETABLE_STATES
     THEN DeleteRow(w, a)
     ELSE db' = [db EXCEPT ![a].op = TERMINATED] /\ UNCHANGED resumable
  /\ UNCHANGED <<pc, dict, call, dflt, notices, announced, verified, up, restarts>>

\* PUT /agents/a/reactivate: whatever state the row is in.
Reactivate(w, p, a) ==
  /\ Starts(w, p) /\ db[a] # None
  /\ Schedule(p, [FromRow(a, db[a]) EXCEPT !.op = START], NewCall(GET_QUOTE))
  /\ UNCHANGED <<db, dflt, resumable, notices, announced, verified, up, restarts>>

\* PUT /agents/a/stop
Stop(w, a) ==
  /\ ~Busy(w) /\ db[a] # None
  /\ db' = [db EXCEPT ![a].op = TENANT_FAILED]
  /\ UNCHANGED <<pc, dict, call, dflt, resumable, notices, announced, verified, up, restarts>>
-----------------------------------------------------------------------------
(* The service stops or crashes at any point and main() starts it again *)

\* Fault: the rows are left in the state they were polled in.
Reset_Nothing(row) == row

\* main() puts the rows that were being polled back to START.
Reset(row) ==
  IF row # None /\ row.op \in APPROVED_REACTIVATE_STATES
  THEN [row EXCEPT !.op = START] ELSE row

\* activate_agents in every worker: worker[a] is the one the row of a falls to,
\* poller[a] the poller it starts for a.
Activate(worker, poller) ==
  LET rows    == [a \in Agents |-> Reset(db[a])]
      polled  == {a \in Agents : rows[a] # None /\ rows[a].op = START}
      runs(p) == {a \in polled : poller[a] = p}
  IN
  /\ \A a \in polled : Home[poller[a]] = worker[a]
  /\ \A a, b \in polled : poller[a] = poller[b] => a = b
  /\ db' = rows
  /\ pc' = [p \in Pollers |-> IF runs(p) = {} THEN "idle" ELSE "ready"]
  /\ dict' = [p \in Pollers |->
       IF runs(p) = {} THEN BlankDict
       ELSE LET a == CHOOSE a \in runs(p) : TRUE IN FromRow(a, rows[a])]
  /\ call' = [p \in Pollers |-> NewCall(GET_QUOTE)]
  /\ dflt' = [w \in Workers |-> EmptyFailure]
  /\ notices' = {}
  /\ resumable' = {<<worker[a], a>> : a \in {b \in Agents : db[b] # None /\ db[b].boot}}

Restart ==
  /\ restarts < MaxRestarts
  /\ restarts' = restarts + 1
  /\ \E worker \in [Agents -> Workers], poller \in [Agents -> Pollers] :
       Activate(worker, poller)
  /\ UNCHANGED <<announced, verified, up>>

\* The host of an agent goes away for good.
HostDown(a) ==
  /\ a \in Mortal /\ up[a]
  /\ up' = [up EXCEPT ![a] = FALSE]
  /\ UNCHANGED <<db, pc, dict, call, dflt, resumable, notices, announced, verified, restarts>>
-----------------------------------------------------------------------------
\* One step of process_agent.
Processing(p) ==
  \/ StopPolling(p) \/ Terminate(p) \/ RecordFailure(p) \/ Proceed(p)
  \/ RowGone(p) \/ GiveUp(p) \/ PollOn(p) \/ FirstQuote(p)
  \/ ProvideV(p) \/ ProvideVWithoutKey(p) \/ NoV(p) \/ NextQuote(p)
  \/ RetryQuote(p) \/ RetryV(p) \/ Unreachable(p) \/ UnreachableForV(p)
  \/ FallOut(p)

\* An answer, a time-out or a timer.
Replying(p) ==
  \/ TimerFires(p)
  \/ \E k \in Keys \union {None}, b \in Positions : QuoteVerified(p, k, b)
  \/ \E k \in Keys \union {None} : QuoteAfterReboot(p, k)
  \/ NoPublicKey(p)
  \/ \E k \in Keys \union {None}, f \in QuoteFailures, b \in Positions :
       QuoteRejected(p, k, f, b)
  \/ VkeyAccepted(p) \/ ConnectionError(p)
  \/ BadAnswer(p) \/ VersionRefused(p) \/ VersionUpdated(p) \/ VersionNotUpdated(p)
  \/ NoticeToSelf(p)

PollerStep(p) == Live(p) /\ (Processing(p) \/ Replying(p))

Handlers(w, a) ==
  \/ \E p \in Pollers, hasV \in Payloads : Post(w, p, a, hasV)
  \/ Delete(w, a)
  \/ \E p \in Pollers : Reactivate(w, p, a)
  \/ Stop(w, a)

Next ==
  \/ \E p \in Pollers : PollerStep(p)
  \/ \E n \in notices : NoticeRefused(n)
  \/ \E w \in Workers, a \in Agents : Handlers(w, a)
  \/ Restart
  \/ \E a \in Agents : HostDown(a)

Spec == Init /\ [][Next]_vars

\* The event loop runs what is ready, every request is answered or times out
\* (request_timeout), every timer fires.  Nobody has to send a request.
FairSpec == Spec /\ \A p \in Pollers : WF_vars(PollerStep(p))
-----------------------------------------------------------------------------
(* Properties *)

ATTESTED_STATES == {START, GET_QUOTE, PROVIDE_V}

\* No agent that is told of a revocation upgrades its API version.
StableVersions == AgentNotifier => MaxVersion = 1

\* A row that says its agent is under attestation has a poller that attests
\* it: no return of process_agent and no overwritten row leaves an agent that
\* looks attested and is not.  It needs StableVersions: a late refusal of a
\* notice overwrites a row that no poller cares for any more.
NoOrphan ==
  \A a \in Agents :
    db[a] # None /\ db[a].op \in ATTESTED_STATES
      => \E p \in Pollers : Live(p) /\ dict[p].id = a

\* V leaves the verifier only under a key that came with a verified quote of
\* that agent, whatever re-registers, reactivations and upgrades came between,
\* and a cached ciphertext never outlives the key it was made for
\* (process_quote_response, prepare_v).
VUnderVerifiedKey ==
  \A p \in Pollers :
    /\ dict[p].encV # None => dict[p].encV = dict[p].key
    /\ pc[p] \in {"vkey", "timerV"} => <<dict[p].id, dict[p].encV>> \in verified

\* No row shows an untrusted quote that was not announced to the notifiers:
\* the row is written after the notification (process_agent).
FailuresAnnounced ==
  \A a \in Agents :
    db[a] # None /\ db[a].op = INVALID_QUOTE => a \in announced

\* A failure of the highest severity ends the polling of its agent: no request
\* and no timer of that poller is left.
Waiting == {"quote", "vkey", "versionQ", "versionV", "timerQ", "timerV"}
WorstFailureEndsPolling ==
  \A p \in Pollers : pc[p] \in Waiting => dict[p].last.sev < MaxSev

\* process_agent has a branch for every state and target it meets, but for an
\* agent it keeps polling after a failed quote.
OnlyFailedAgentsFallOut ==
  \A p \in Pollers :
    pc[p] \in {"ready", "recheck", "checked"} /\ dict[p].op # INVALID_QUOTE
      => Handled(dict[p].op, call[p].new)

\* "nothing should ever fall out of this!" (process_agent).
NothingFallsOut ==
  \A p \in Pollers :
    pc[p] = "checked" => Handled(dict[p].op, call[p].new)

\* An agent is reported unreachable only after its own retries were used up.
UnreachableIsEarned ==
  \A p \in Pollers :
    dict[p].last.id = "not_reachable"
      => dict[p].retries = MaxRetries

\* Once the tenant terminated or stopped an agent, no write of a poller that
\* was already under way puts its row back under attestation.
TenantVerdictSticks ==
  [][\A a \in Agents :
       db[a] # None /\ db[a].op \in {TERMINATED, TENANT_FAILED}
         => db'[a] = None \/ db'[a].op \in {TERMINATED, TENANT_FAILED}]_vars

\* A recorded failure is not overwritten by a poller that goes on: only a
\* poller the tenant started anew (its first write is START) replaces it.
FailureStays ==
  [][\A a \in Agents :
       db[a] # None /\ db[a].op \in {FAILED, INVALID_QUOTE}
         => db'[a] = None \/ db'[a].op \notin {GET_QUOTE, PROVIDE_V}]_vars

\* A terminated agent is removed, by its poller or by another DELETE, unless
\* the tenant stops it in between.
DeleteCompletes ==
  \A a \in Agents :
    db[a] # None /\ db[a].op = TERMINATED
      ~> db[a] = None \/ db[a].op = TENANT_FAILED

\* A host that is gone does not stay under attestation: the retries run out.
DeadHostIsNoticed ==
  \A a \in Agents :
    ~up[a] ~> db[a] = None \/ db[a].op \notin ATTESTED_STATES
=============================================================================
