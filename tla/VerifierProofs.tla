--------------------------- MODULE VerifierProofs ---------------------------
(* Theorems about the verifier, for every number of agents, pollers and worker
   processes, every failure and every setting.  The inductive invariant is
   Inductive: types, what each poller's dictionary says about its own
   progress, and NoOrphan where no notice can be refused.  The second part is
   about what is said and sent (Safe), the third about what a step may never do
   to a row.  The last is about failure objects, for any severities, identifiers,
   numbers of objects and of events: the flag and the highest event, which is all
   that Failure and the verifier's model keep of an object, say what the decisions
   need to know of its list. *)
EXTENDS Verifier, Sequences, TLAPS

CONSTANTS Slots, MaxEvents
VARIABLES obj, events

L == INSTANCE FailureLog

\* A poller that is not idle is somebody's.
Named(where, d) == where # "idle" => d.id \in Agents

\* A dictionary with a recorded failure is in a failed state, and so is one
\* that is about to be written before its polling may end.
Sound(where, d, c) ==
  /\ d.last # NoEvent => d.op \in FailedTargets
  /\ where \in {"checked", "notify"} /\ c.new \in FailedTargets
       => d.op \in FailedTargets

PollersSound ==
  \A p \in Pollers : Named(pc[p], dict[p]) /\ Sound(pc[p], dict[p], call[p])

\* Notices are well formed, and there are none where none can be refused.
NoticesSound ==
  /\ notices \subseteq Workers \X {d \in Dicts : d.id \in Agents}
  /\ StableVersions => notices = {}

Attested == StableVersions => NoOrphan

Inductive == TypeOK /\ PollersSound /\ NoticesSound /\ Attested

\* The three variables a step of poller p sets for p alone.
Moves(p, where, d, c) ==
  /\ pc' = [pc EXCEPT ![p] = where]
  /\ dict' = [dict EXCEPT ![p] = d]
  /\ call' = [call EXCEPT ![p] = c]
-----------------------------------------------------------------------------
(* Failures *)

\* add_event keeps a failure a failure object.
LEMMA AddEventType ==
  ASSUME NEW f \in Failures, NEW id \in EventIds
  PROVE  AddEvent(f, Irrecoverable(id)) \in Failures
<1>1. Irrecoverable(id) \in Events
  BY MaxSevAssumption DEF Irrecoverable, Events, Severities
<1>2. Labelled(Irrecoverable(id)) \in Events
  BY <1>1, MaxSevAssumption DEF Labelled, Events, Severities
<1>3. Higher(f.top, Labelled(Irrecoverable(id))) \in Events \union {NoEvent}
  BY <1>2 DEF Higher, Failures
<1>4. QED
  BY <1>1, <1>3 DEF AddEvent, Failures, Events

\* Failures that are built empty or with one fatal event are failure objects.
LEMMA FailureTypes ==
  /\ EmptyFailure \in Failures
  /\ \A id \in EventIds : FatalFailure(id) \in Failures
<1>1. EmptyFailure \in Failures
  BY DEF EmptyFailure, Failures
<1>2. QED
  BY <1>1, AddEventType DEF FatalFailure

\* The arguments process_agent is scheduled with are well formed.
LEMMA CallTypes ==
  /\ \A new \in Targets : NewCall(new) \in Calls
  /\ \A new \in Targets, f \in Failures : FailCall(new, f) \in Calls
BY FailureTypes DEF NewCall, FailCall, Calls

\* Writing a dictionary back keeps the table well formed and touches one row.
LEMMA StoredType ==
  ASSUME TypeOK, NEW d \in Dicts
  PROVE  /\ Stored(d) \in [Agents -> Rows \union {None}]
         /\ \A a \in Agents : a # d.id => Stored(d)[a] = db[a]
         /\ \A a \in Agents : db[a] # None => Stored(d)[a] # None
         /\ d.id \in Agents /\ db[d.id] # None => Stored(d)[d.id].op = d.op
<1>1. ASSUME NEW row \in Rows
      PROVE  WriteBack(row, d) \in Rows /\ WriteBack(row, d).op = d.op
  BY DEF WriteBack, Rows, Dicts
<1>2. \A row \in Rows : row # None
  BY NoneAssumption
<1>3. QED
  BY <1>1, <1>2 DEF Stored, TypeOK
-----------------------------------------------------------------------------
(* How a step of one poller keeps the invariant *)

\* The parts of TypeOK a poller's move does not settle.
RestTyped ==
  /\ db \in [Agents -> Rows \union {None}]
  /\ dflt \in [Workers -> Failures]
  /\ resumable \subseteq Workers \X Agents
  /\ NoticesSound
  /\ announced \subseteq Agents
  /\ verified \subseteq Agents \X Keys
  /\ up \in [Agents -> BOOLEAN]
  /\ restarts \in 0..MaxRestarts

\* A step that sends and answers no notice keeps what is said of them.
LEMMA NoticesKept ==
  ASSUME NoticesSound, UNCHANGED notices
  PROVE  NoticesSound'
BY DEF NoticesSound, StableVersions

\* The only row p may change is its own.
OwnRowOnly(p) ==
  \A a \in Agents : a # dict[p].id => db'[a] = db[a]

\* A poller that goes on polling the same agent keeps the invariant, whatever
\* it writes to that agent's row.
LEMMA PollerGoesOn ==
  ASSUME Inductive, NEW p \in Pollers, Live(p),
         NEW where \in PCs \ {"idle"}, NEW d \in Dicts, NEW c \in Calls,
         d.id = dict[p].id, Sound(where, d, c),
         Moves(p, where, d, c), RestTyped', OwnRowOnly(p)
  PROVE  Inductive'
<1>1. TypeOK'
  BY DEF Inductive, TypeOK, RestTyped, NoticesSound, Moves
<1>2. \A q \in Pollers : q # p =>
        pc'[q] = pc[q] /\ dict'[q] = dict[q] /\ call'[q] = call[q]
  BY DEF Inductive, TypeOK, Moves
<1>3. pc'[p] = where /\ dict'[p] = d /\ call'[p] = c
  BY DEF Inductive, TypeOK, Moves
<1>4. dict[p].id \in Agents
  BY DEF Inductive, PollersSound, Named, Live
<1>5. PollersSound'
  <2> SUFFICES ASSUME NEW q \in Pollers
               PROVE  Named(pc'[q], dict'[q]) /\ Sound(pc'[q], dict'[q], call'[q])
    BY DEF PollersSound, Named, Sound
  <2>1. CASE q = p
    BY <2>1, <1>3, <1>4 DEF Named
  <2>2. CASE q # p
    BY <2>2, <1>2 DEF Inductive, PollersSound
  <2>3. QED
    BY <2>1, <2>2
<1>6. Attested'
  <2> SUFFICES ASSUME StableVersions, NEW a \in Agents, db'[a] # None, db'[a].op \in ATTESTED_STATES
               PROVE  \E q \in Pollers : Live(q)' /\ dict'[q].id = a
    BY DEF Attested, NoOrphan, Live
  <2>1. CASE a = dict[p].id
    BY <2>1, <1>3 DEF Live
  <2>2. CASE a # dict[p].id
    <3>1. PICK q \in Pollers : Live(q) /\ dict[q].id = a
      BY <2>2 DEF Inductive, Attested, NoOrphan, OwnRowOnly
    <3>2. q # p
      BY <2>2, <3>1
    <3>3. QED
      BY <3>1, <3>2, <1>2 DEF Live
  <2>3. QED
    BY <2>1, <2>2
<1>7. QED
  BY <1>1, <1>5, <1>6 DEF Inductive, RestTyped

\* A poller may only stop when the row of its agent is gone or not under
\* attestation.
LEMMA PollerStops ==
  ASSUME Inductive, NEW p \in Pollers, Live(p), Idle(p), RestTyped', OwnRowOnly(p),
         db'[dict[p].id] # None => db'[dict[p].id].op \notin ATTESTED_STATES
  PROVE  Inductive'
<1>1. BlankDict \in Dicts /\ NewCall(GET_QUOTE) \in Calls /\ BlankDict.last = NoEvent
  BY CallTypes, VerifierAssumption
     DEF BlankDict, Dicts, VALID_STATES, Targets
<1>2. TypeOK'
  BY <1>1 DEF Inductive, TypeOK, RestTyped, NoticesSound, Idle, PCs
<1>3. \A q \in Pollers : q # p =>
        pc'[q] = pc[q] /\ dict'[q] = dict[q] /\ call'[q] = call[q]
  BY DEF Inductive, TypeOK, Idle
<1>4. pc'[p] = "idle" /\ dict'[p] = BlankDict /\ call'[p] = NewCall(GET_QUOTE)
  BY DEF Inductive, TypeOK, Idle
<1>5. PollersSound'
  BY <1>1, <1>3, <1>4 DEF Inductive, PollersSound, Named, Sound
<1>6. Attested'
  <2> SUFFICES ASSUME StableVersions, NEW a \in Agents, db'[a] # None, db'[a].op \in ATTESTED_STATES
               PROVE  \E q \in Pollers : Live(q)' /\ dict'[q].id = a
    BY DEF Attested, NoOrphan, Live
  <2>1. a # dict[p].id /\ db'[a] = db[a]
    BY DEF OwnRowOnly
  <2>2. PICK q \in Pollers : Live(q) /\ dict[q].id = a
    BY <2>1 DEF Inductive, Attested, NoOrphan
  <2>3. q # p
    BY <2>1, <2>2
  <2>4. QED
    BY <2>2, <2>3, <1>3 DEF Live
<1>7. QED
  BY <1>2, <1>5, <1>6 DEF Inductive, RestTyped
-----------------------------------------------------------------------------
(* The steps of process_agent *)

\* What is known of a poller in any state of the invariant.
LEMMA PollerFacts ==
  ASSUME Inductive, NEW p \in Pollers, Live(p)
  PROVE  /\ dict[p] \in Dicts /\ dict[p].id \in Agents /\ call[p] \in Calls
         /\ FailureOf(p) \in Failures
         /\ dict[p].last # NoEvent => dict[p].op \in FailedTargets
         /\ pc[p] \in {"checked", "notify"} /\ call[p].new \in FailedTargets
              => dict[p].op \in FailedTargets
         /\ RestTyped
BY VerifierAssumption
   DEF Inductive, TypeOK, PollersSound, Named, Sound, Live, FailureOf, Calls,
       RestTyped

\* Polling stops on a row that is gone or TENANT_FAILED: neither counts as under attestation.
LEMMA StopPollingStep ==
  ASSUME Inductive, NEW p \in Pollers, Live(p), StopPolling(p)
  PROVE  Inductive'
<1>1. RestTyped' /\ OwnRowOnly(p)
  BY PollerFacts, NoticesKept DEF StopPolling, RestTyped, OwnRowOnly
<1>2. db'[dict[p].id] # None => db'[dict[p].id].op \notin ATTESTED_STATES
  BY DEF StopPolling, StoredState, RowOf, ATTESTED_STATES, TENANT_FAILED, START,
         GET_QUOTE, PROVIDE_V
<1>3. QED
  BY <1>1, <1>2, PollerStops DEF StopPolling

\* verifier_db_delete_agent keeps the types and touches one row.
LEMMA DeleteRowType ==
  ASSUME RestTyped, NEW w \in Workers, NEW a \in Agents, DeleteRow(w, a)
  PROVE  /\ db' \in [Agents -> Rows \union {None}]
         /\ resumable' \subseteq Workers \X Agents
         /\ db'[a] = None
         /\ \A b \in Agents : b # a => db'[b] = db[b]
BY DEF DeleteRow, RestTyped

\* A poller that finds TERMINATED takes the row with it.
LEMMA TerminateStep ==
  ASSUME Inductive, NEW p \in Pollers, Live(p), Terminate(p)
  PROVE  Inductive'
<1>1. Home[p] \in Workers /\ dict[p].id \in Agents /\ RestTyped
  BY PollerFacts, VerifierAssumption
<1>2. /\ RestTyped' /\ OwnRowOnly(p)
      /\ db'[dict[p].id] = None
  BY <1>1, DeleteRowType, NoticesKept DEF Terminate, RestTyped, OwnRowOnly
<1>3. QED
  BY <1>2, PollerStops DEF Terminate

\* The dictionary a row is turned into.
LEMMA FromRowType ==
  ASSUME NEW a \in Agents, NEW row \in Rows
  PROVE  /\ FromRow(a, row) \in Dicts
         /\ FromRow(a, row).id = a /\ FromRow(a, row).last = NoEvent
BY VerifierAssumption DEF FromRow, Rows, Dicts

\* notify_error sends well formed notices, and none that cannot be refused.
LEMMA NotifiedType ==
  ASSUME Inductive, NEW p \in Pollers, Live(p), notices' = Notified(p)
  PROVE  NoticesSound'
<1>1. Home[p] \in Workers /\ db \in [Agents -> Rows \union {None}] /\ NoticesSound
  BY VerifierAssumption DEF Inductive, TypeOK
<1>2. ASSUME NEW a \in Agents, db[a] # None, db[a].version < MaxVersion
      PROVE  /\ <<Home[p], FromRow(a, db[a])>> \in Workers \X {d \in Dicts : d.id \in Agents}
             /\ MaxVersion # 1
  <2>1. db[a] \in Rows
    BY <1>1, <1>2
  <2>2. MaxVersion # 1
    BY <1>2, <2>1 DEF Rows
  <2>3. QED
    BY <1>1, <2>1, <2>2, FromRowType
<1>3. AgentNotifier /\ MaxVersion = 1 => notices' = notices
  BY <1>2 DEF Notified
<1>4. notices' \subseteq Workers \X {d \in Dicts : d.id \in Agents}
  BY <1>1, <1>2 DEF Notified, NoticesSound
<1>5. StableVersions => notices' = notices
  BY <1>3 DEF StableVersions, Notified
<1>6. QED
  BY <1>1, <1>4, <1>5 DEF NoticesSound, StableVersions

\* Recording a failure changes the dictionary only, to a failed state.
LEMMA RecordFailureStep ==
  ASSUME Inductive, NEW p \in Pollers, Live(p), RecordFailure(p)
  PROVE  Inductive'
<1> DEFINE d == Marked(dict[p], call[p], FailureOf(p))
           where == pc'[p]
<1>1. d \in Dicts /\ d.id = dict[p].id /\ d.op \in FailedTargets
  BY PollerFacts
     DEF RecordFailure, Marked, Dicts, Failures, FailedTargets, VALID_STATES
<1>2. where \in {"notify", "checked"} /\ pc' = [pc EXCEPT ![p] = where]
  BY DEF RecordFailure, Inductive, TypeOK
<1>3. Moves(p, where, d, call[p])
  BY <1>2 DEF RecordFailure, Moves, Inductive, TypeOK
<1>4. RestTyped' /\ OwnRowOnly(p)
  BY PollerFacts, NoticesKept, NotifiedType DEF RecordFailure, RestTyped, OwnRowOnly
<1>5. QED
  <2>1. Sound(where, d, call[p])
    BY <1>1 DEF Sound
  <2>2. where \in PCs \ {"idle"}
    BY <1>2 DEF PCs
  <2> HIDE DEF d, where
  <2>3. QED
    BY <1>1, <1>3, <1>4, <2>1, <2>2, PollerFacts, PollerGoesOn

\* Passing the checks on the stored row changes nothing but the place.
LEMMA ProceedStep ==
  ASSUME Inductive, NEW p \in Pollers, Live(p), Proceed(p)
  PROVE  Inductive'
<1>1. Sound("checked", dict[p], call[p])
  BY PollerFacts DEF Proceed, Worse, Sound
<1>2. Moves(p, "checked", dict[p], call[p])
  BY DEF Proceed, Moves, Inductive, TypeOK
<1>3. RestTyped' /\ OwnRowOnly(p)
  BY PollerFacts, NoticesKept DEF Proceed, RestTyped, OwnRowOnly
<1>4. "checked" \in PCs \ {"idle"}
  BY DEF PCs
<1>5. QED
  BY <1>1, <1>2, <1>3, <1>4, PollerFacts, PollerGoesOn
-----------------------------------------------------------------------------
(* Write and dispatch *)

\* "propagate all state" writes the poller's own row, in its state.
LEMMA DispatchWrites ==
  ASSUME Inductive, NEW p \in Pollers, Live(p), NEW from, NEW new,
         Dispatch(p, from, new)
  PROVE  /\ db' \in [Agents -> Rows \union {None}]
         /\ OwnRowOnly(p)
         /\ db'[dict[p].id] # None => db'[dict[p].id].op = dict[p].op
         /\ dflt' \in [Workers -> Failures] /\ NoticesSound' => RestTyped'
<1>1. dict[p] \in Dicts /\ dict[p].id \in Agents /\ TypeOK /\ RestTyped
  BY PollerFacts DEF Inductive
<1>2. db' = Stored(dict[p]) /\ db[dict[p].id] # None
  BY DEF Dispatch, RowOf
<1>3. db' \in [Agents -> Rows \union {None}] /\ OwnRowOnly(p)
      /\ db'[dict[p].id].op = dict[p].op
  BY <1>1, <1>2, StoredType DEF OwnRowOnly
<1>4. dflt' \in [Workers -> Failures] /\ NoticesSound' => RestTyped'
  BY <1>1, <1>3 DEF Dispatch, RestTyped
<1>5. QED
  BY <1>3, <1>4

\* Going on with a new failure event in the call, or in the shared failure.
LEMMA FailWithMoves ==
  ASSUME Inductive, NEW p \in Pollers, Live(p), NEW id \in EventIds,
         NEW where, FailWith(p, id, where)
  PROVE  /\ \E c \in Calls : /\ c.new = FAILED
                             /\ pc' = [pc EXCEPT ![p] = where]
                             /\ call' = [call EXCEPT ![p] = c]
         /\ dflt' \in [Workers -> Failures]
<1>1. call[p] \in Calls /\ Home[p] \in Workers /\ dflt \in [Workers -> Failures]
  BY PollerFacts, VerifierAssumption DEF RestTyped
<1>2. AddEvent(dflt[Home[p]], Irrecoverable(id)) \in Failures
      /\ AddEvent(call[p].failure, Irrecoverable(id)) \in Failures
  BY <1>1, AddEventType DEF Calls
<1>3. dflt' \in [Workers -> Failures]
  BY <1>1, <1>2 DEF FailWith
<1> DEFINE c == [new |-> FAILED, shared |-> call[p].shared,
                 failure |-> IF call[p].shared THEN call[p].failure
                             ELSE AddEvent(call[p].failure, Irrecoverable(id))]
<1>4. c \in Calls /\ c.new = FAILED
  BY <1>1, <1>2 DEF Calls, Targets
<1>5. call' = [call EXCEPT ![p] = c] /\ pc' = [pc EXCEPT ![p] = where]
  BY DEF FailWith
<1> HIDE DEF c
<1>6. QED
  BY <1>3, <1>4, <1>5

\* A step of p to where with dictionary d that adds a failure event.
LEMMA FailingStep ==
  ASSUME Inductive, NEW p \in Pollers, Live(p), NEW id \in EventIds,
         NEW where \in {"ready", "commerr", "recheck"}, FailWith(p, id, where),
         NEW d \in Dicts, d.id = dict[p].id,
         d.last # NoEvent => d.op \in FailedTargets,
         dict' = [dict EXCEPT ![p] = d], OwnRowOnly(p),
         NoticesSound', dflt' \in [Workers -> Failures] /\ NoticesSound' => RestTyped'
  PROVE  Inductive'
<1>1. PICK c \in Calls : /\ c.new = FAILED
                         /\ pc' = [pc EXCEPT ![p] = where]
                         /\ call' = [call EXCEPT ![p] = c]
  BY FailWithMoves
<1>2. RestTyped'
  BY FailWithMoves
<1>3. Moves(p, where, d, c) /\ Sound(where, d, c) /\ where \in PCs \ {"idle"}
  BY <1>1 DEF Moves, Sound, PCs
<1>4. QED
  BY <1>2, <1>3, PollerGoesOn

\* A step of p to a place where it waits, or to a call that is not a failure's.
LEMMA WaitingStep ==
  ASSUME Inductive, NEW p \in Pollers, Live(p),
         NEW where \in PCs \ {"idle", "checked", "notify"},
         NEW d \in Dicts, d.id = dict[p].id,
         d.last # NoEvent => d.op \in FailedTargets,
         NEW c \in Calls, Moves(p, where, d, c), OwnRowOnly(p), RestTyped'
  PROVE  Inductive'
<1>1. Sound(where, d, c)
  BY DEF Sound
<1>2. QED
  BY <1>1, PollerGoesOn

\* The identifiers the verifier's own events carry.
LEMMA OwnEventIds == {"internal", "not_reachable", "no_pubkey"} \subseteq EventIds
BY VerifierAssumption

\* A row deleted under the poller sends it back to the checks.
LEMMA RowGoneStep ==
  ASSUME Inductive, NEW p \in Pollers, Live(p), RowGone(p)
  PROVE  Inductive'
<1>1. dict' = [dict EXCEPT ![p] = dict[p]] /\ OwnRowOnly(p)
  BY DEF RowGone, OwnRowOnly, Inductive, TypeOK
<1>2. dflt' \in [Workers -> Failures] /\ NoticesSound' => RestTyped'
  BY PollerFacts DEF RowGone, RestTyped
<1>3. FailWith(p, "internal", "recheck")
  BY DEF RowGone
<1>4. QED
  BY <1>1, <1>2, <1>3, PollerFacts, OwnEventIds, NoticesKept, FailingStep
     DEF RowGone, Inductive

\* process_agent may return on a failure: the row it wrote last is in a failed state.
LEMMA GiveUpStep ==
  ASSUME Inductive, NEW p \in Pollers, Live(p), GiveUp(p)
  PROVE  Inductive'
<1>1. PICK new \in FailedTargets : Dispatch(p, VALID_STATES, new)
  BY DEF GiveUp
<1>2. dflt' \in [Workers -> Failures] /\ NoticesSound'
  BY NoticesKept DEF GiveUp, Inductive, TypeOK
<1>3. pc[p] \in {"checked", "notify"} /\ call[p].new \in FailedTargets
  BY <1>1 DEF Dispatch, Propagates
<1>4. dict[p].op \notin ATTESTED_STATES
  BY <1>3, PollerFacts
     DEF FailedTargets, ATTESTED_STATES, FAILED, INVALID_QUOTE, START, GET_QUOTE,
         PROVIDE_V
<1>5. QED
  BY <1>1, <1>2, <1>4, DispatchWrites, PollerStops DEF GiveUp

\* After a mild failure the next quote is asked for.
LEMMA PollOnStep ==
  ASSUME Inductive, NEW p \in Pollers, Live(p), PollOn(p)
  PROVE  Inductive'
<1>1. PICK new \in FailedTargets : Dispatch(p, VALID_STATES, new)
  BY DEF PollOn
<1>2. dflt' \in [Workers -> Failures] /\ NoticesSound'
  BY NoticesKept DEF PollOn, Inductive, TypeOK
<1>3. Moves(p, "quote", dict[p], NewCall(GET_QUOTE))
  BY DEF PollOn, WaitAt, Moves
<1>4. "quote" \in PCs \ {"idle", "checked", "notify"} /\ NewCall(GET_QUOTE) \in Calls
  BY CallTypes DEF PCs, Targets
<1>5. QED
  BY <1>1, <1>2, <1>3, <1>4, PollerFacts, DispatchWrites, WaitingStep
-----------------------------------------------------------------------------
(* The branches for agents that have not failed *)

\* A dictionary in a state of attestation has no recorded failure.
LEMMA NoFailureYet ==
  ASSUME Inductive, NEW p \in Pollers, Live(p),
         NEW from, from \subseteq ATTESTED_STATES, dict[p].op \in from
  PROVE  dict[p].last = NoEvent
BY PollerFacts
   DEF FailedTargets, ATTESTED_STATES, FAILED, INVALID_QUOTE, START, GET_QUOTE,
       PROVIDE_V

\* A branch that leaves the poller waiting with dictionary d.
LEMMA WaitingBranch ==
  ASSUME Inductive, NEW p \in Pollers, Live(p),
         NEW from, from \subseteq ATTESTED_STATES, NEW new, Dispatch(p, from, new),
         NEW where \in PCs \ {"idle", "checked", "notify"},
         NEW d \in Dicts, d.id = dict[p].id, d.last = dict[p].last,
         WaitAt(p, where, d), UNCHANGED <<dflt, notices>>
  PROVE  Inductive'
<1>1. d.last # NoEvent => d.op \in FailedTargets
  BY NoFailureYet DEF Dispatch
<1>2. Moves(p, where, d, NewCall(GET_QUOTE)) /\ NewCall(GET_QUOTE) \in Calls
  BY CallTypes DEF WaitAt, Moves, Targets
<1>3. RestTyped' /\ OwnRowOnly(p)
  BY DispatchWrites, NoticesKept DEF Inductive, TypeOK
<1>4. QED
  BY <1>1, <1>2, <1>3, WaitingStep

\* The dictionaries the branches go on with.
LEMMA BranchDicts ==
  ASSUME NEW d \in Dicts
  PROVE  /\ \A op \in VALID_STATES :
              /\ [d EXCEPT !.retries = 0, !.op = op] \in Dicts
              /\ [d EXCEPT !.retries = 0, !.op = op].id = d.id
              /\ [d EXCEPT !.retries = 0, !.op = op].last = d.last
         /\ InProvideV(d) \in Dicts /\ InProvideV(d).id = d.id
         /\ InProvideV(d).last = d.last
         /\ PreparedV(d) \in Dicts /\ PreparedV(d).id = d.id
         /\ PreparedV(d).last = d.last
         /\ d.retries < MaxRetries =>
              Retry(d) \in Dicts /\ Retry(d).id = d.id /\ Retry(d).last = d.last
<1>1. MaxRetries \in Nat
  BY VerifierAssumption
<1>2. ASSUME NEW op \in VALID_STATES
      PROVE  /\ [d EXCEPT !.retries = 0, !.op = op] \in Dicts
             /\ [d EXCEPT !.retries = 0, !.op = op].id = d.id
             /\ [d EXCEPT !.retries = 0, !.op = op].last = d.last
  <2> DEFINE e == [d EXCEPT !.retries = 0]
  <2>1. e \in Dicts /\ e.id = d.id /\ e.last = d.last
    BY <1>1 DEF Dicts
  <2>2. [d EXCEPT !.retries = 0, !.op = op] = [e EXCEPT !.op = op]
    BY DEF Dicts
  <2> HIDE DEF e
  <2>3. /\ [e EXCEPT !.op = op] \in Dicts /\ [e EXCEPT !.op = op].id = e.id
        /\ [e EXCEPT !.op = op].last = e.last
    BY <2>1 DEF Dicts
  <2>4. QED
    BY <2>1, <2>2, <2>3
<1>3. /\ InProvideV(d) \in Dicts /\ InProvideV(d).id = d.id
      /\ InProvideV(d).last = d.last
  BY <1>2 DEF InProvideV, VALID_STATES
<1>4. /\ PreparedV(d) \in Dicts /\ PreparedV(d).id = d.id
      /\ PreparedV(d).last = d.last
  BY DEF Dicts, PreparedV
<1>5. d.retries < MaxRetries =>
        Retry(d) \in Dicts /\ Retry(d).id = d.id /\ Retry(d).last = d.last
  BY <1>1 DEF Dicts, Retry
<1>6. QED
  BY <1>2, <1>3, <1>4, <1>5

\* The states the branches start from.
LEMMA FromStates ==
  /\ {START} \subseteq ATTESTED_STATES /\ {GET_QUOTE} \subseteq ATTESTED_STATES
  /\ {PROVIDE_V} \subseteq ATTESTED_STATES
  /\ {PROVIDE_V, GET_QUOTE} \subseteq ATTESTED_STATES
  /\ ATTESTED_STATES \subseteq VALID_STATES
BY DEF ATTESTED_STATES, VALID_STATES

\* The first quote of a started agent is asked for.
LEMMA FirstQuoteStep ==
  ASSUME Inductive, NEW p \in Pollers, Live(p), FirstQuote(p)
  PROVE  Inductive'
<1> DEFINE d == [dict[p] EXCEPT !.retries = 0, !.op = GET_QUOTE]
<1>1. d \in Dicts /\ d.id = dict[p].id /\ d.last = dict[p].last
  BY PollerFacts, BranchDicts DEF VALID_STATES
<1>2. Dispatch(p, {START}, GET_QUOTE) /\ WaitAt(p, "quote", d) /\ UNCHANGED <<dflt, notices>>
  BY DEF FirstQuote
<1>3. "quote" \in PCs \ {"idle", "checked", "notify"}
  BY DEF PCs
<1> HIDE DEF d
<1>4. QED
  BY <1>1, <1>2, <1>3, FromStates, WaitingBranch

\* V is sent to the agent.
LEMMA ProvideVStep ==
  ASSUME Inductive, NEW p \in Pollers, Live(p), ProvideV(p)
  PROVE  Inductive'
<1> DEFINE d == PreparedV(InProvideV(dict[p]))
<1>1. d \in Dicts /\ d.id = dict[p].id /\ d.last = dict[p].last
  BY PollerFacts, BranchDicts
<1>2. Dispatch(p, {GET_QUOTE}, PROVIDE_V) /\ WaitAt(p, "vkey", d) /\ UNCHANGED <<dflt, notices>>
  BY DEF ProvideV
<1>3. "vkey" \in PCs \ {"idle", "checked", "notify"}
  BY DEF PCs
<1> HIDE DEF d
<1>4. QED
  BY <1>1, <1>2, <1>3, FromStates, WaitingBranch

\* V cannot be encrypted: the exception leads back to the checks.
LEMMA ProvideVWithoutKeyStep ==
  ASSUME Inductive, NEW p \in Pollers, Live(p), ProvideVWithoutKey(p)
  PROVE  Inductive'
<1>1. dict[p].last = NoEvent
  BY NoFailureYet, FromStates DEF ProvideVWithoutKey, Dispatch
<1>2. /\ InProvideV(dict[p]) \in Dicts /\ InProvideV(dict[p]).id = dict[p].id
      /\ InProvideV(dict[p]).last = NoEvent
  BY <1>1, PollerFacts, BranchDicts
<1>3. /\ FailWith(p, "internal", "recheck")
      /\ dict' = [dict EXCEPT ![p] = InProvideV(dict[p])]
  BY DEF ProvideVWithoutKey
<1>4. OwnRowOnly(p) /\ (dflt' \in [Workers -> Failures] /\ NoticesSound' => RestTyped')
  BY DispatchWrites DEF ProvideVWithoutKey
<1>5. NoticesSound'
  BY NoticesKept DEF ProvideVWithoutKey, Inductive
<1>6. QED
  BY <1>2, <1>3, <1>4, <1>5, OwnEventIds, FailingStep

\* Without V the poller goes on to the next quote.
LEMMA NoVStep ==
  ASSUME Inductive, NEW p \in Pollers, Live(p), NoV(p)
  PROVE  Inductive'
<1> DEFINE d == InProvideV(dict[p])
<1>1. d \in Dicts /\ d.id = dict[p].id /\ d.last = dict[p].last
  BY PollerFacts, BranchDicts
<1>2. Dispatch(p, {GET_QUOTE}, PROVIDE_V) /\ WaitAt(p, "recheck", d) /\ UNCHANGED <<dflt, notices>>
  BY DEF NoV, WaitAt
<1>3. "recheck" \in PCs \ {"idle", "checked", "notify"}
  BY DEF PCs
<1> HIDE DEF d
<1>4. QED
  BY <1>1, <1>2, <1>3, FromStates, WaitingBranch

\* The next quote is asked for, at once or by a timer.
LEMMA NextQuoteStep ==
  ASSUME Inductive, NEW p \in Pollers, Live(p), NextQuote(p)
  PROVE  Inductive'
<1> DEFINE d == [dict[p] EXCEPT !.retries = 0, !.op = GET_QUOTE]
           where == IF PollAtOnce THEN "quote" ELSE "timerQ"
<1>1. d \in Dicts /\ d.id = dict[p].id /\ d.last = dict[p].last
  BY PollerFacts, BranchDicts DEF VALID_STATES
<1>2. /\ Dispatch(p, {PROVIDE_V, GET_QUOTE}, GET_QUOTE) /\ WaitAt(p, where, d)
      /\ UNCHANGED <<dflt, notices>>
  BY DEF NextQuote
<1>3. where \in PCs \ {"idle", "checked", "notify"}
  BY DEF PCs
<1> HIDE DEF d, where
<1>4. QED
  BY <1>1, <1>2, <1>3, FromStates, WaitingBranch

\* A retry is counted, and the count stays within max_retries.
LEMMA RetrySteps ==
  ASSUME Inductive, NEW p \in Pollers, Live(p), RetryQuote(p) \/ RetryV(p)
  PROVE  Inductive'
<1>1. dict[p].retries < MaxRetries
  BY DEF RetryQuote, RetryV
<1>2. /\ Retry(dict[p]) \in Dicts /\ Retry(dict[p]).id = dict[p].id
      /\ Retry(dict[p]).last = dict[p].last
  BY <1>1, PollerFacts, BranchDicts
<1>3. \A where \in {"timerQ", "timerV"} : where \in PCs \ {"idle", "checked", "notify"}
  BY DEF PCs
<1>4. CASE RetryQuote(p)
  <2>1. /\ Dispatch(p, {GET_QUOTE}, GET_QUOTE_RETRY)
        /\ WaitAt(p, "timerQ", Retry(dict[p])) /\ UNCHANGED <<dflt, notices>>
    BY <1>4 DEF RetryQuote
  <2>2. QED
    BY <1>2, <1>3, <2>1, FromStates, WaitingBranch
<1>5. CASE RetryV(p)
  <2>1. /\ Dispatch(p, {PROVIDE_V}, PROVIDE_V_RETRY)
        /\ WaitAt(p, "timerV", Retry(dict[p])) /\ UNCHANGED <<dflt, notices>>
    BY <1>5 DEF RetryV
  <2>2. QED
    BY <1>2, <1>3, <2>1, FromStates, WaitingBranch
<1>6. QED
  BY <1>4, <1>5

\* The branches that give up with the dictionary as it is.
LEMMA FailingBranch ==
  ASSUME Inductive, NEW p \in Pollers, Live(p), NEW from, NEW new,
         Dispatch(p, from, new), NEW id \in EventIds,
         NEW where \in {"ready", "commerr", "recheck"}, FailWith(p, id, where), UNCHANGED dict,
         NoticesSound'
  PROVE  Inductive'
<1>1. dict' = [dict EXCEPT ![p] = dict[p]]
  BY DEF Inductive, TypeOK
<1>2. OwnRowOnly(p) /\ (dflt' \in [Workers -> Failures] /\ NoticesSound' => RestTyped')
  BY DispatchWrites
<1>3. QED
  BY <1>1, <1>2, PollerFacts, FailingStep

\* Exhausted retries, told to the agents or not, lead back to the checks.
LEMMA CommErrorStep ==
  ASSUME Inductive, NEW p \in Pollers, Live(p), NEW from, NEW new,
         Dispatch(p, from, new), NEW told, CommError(p, told)
  PROVE  Inductive'
<1> DEFINE where == IF AgentNotifier /\ told THEN "commerr" ELSE "recheck"
<1>1. /\ where \in {"ready", "commerr", "recheck"}
      /\ FailWith(p, "not_reachable", where) /\ UNCHANGED dict
  BY DEF CommError
<1>2. NoticesSound'
  BY NotifiedType, NoticesKept DEF CommError, Inductive
<1> HIDE DEF where
<1>3. QED
  BY <1>1, <1>2, OwnEventIds, FailingBranch

\* The branches that report an unreachable agent, and the one for no branch.
LEMMA UnreachableSteps ==
  ASSUME Inductive, NEW p \in Pollers, Live(p),
         Unreachable(p) \/ UnreachableForV(p) \/ FallOut(p)
  PROVE  Inductive'
<1>1. CASE Unreachable(p)
  BY <1>1, CommErrorStep DEF Unreachable
<1>2. CASE UnreachableForV(p)
  BY <1>2, CommErrorStep DEF UnreachableForV
<1>3. CASE FallOut(p)
  <2>1. NoticesSound'
    BY <1>3, NoticesKept DEF FallOut, Inductive
  <2>2. QED
    BY <1>3, <2>1, OwnEventIds, FailingBranch DEF FallOut
<1>4. QED
  BY <1>1, <1>2, <1>3

\* Every step of process_agent keeps the invariant.
LEMMA ProcessingStep ==
  ASSUME Inductive, NEW p \in Pollers, Live(p), Processing(p)
  PROVE  Inductive'
BY StopPollingStep, TerminateStep, RecordFailureStep, ProceedStep, RowGoneStep,
   GiveUpStep, PollOnStep, FirstQuoteStep, ProvideVStep, ProvideVWithoutKeyStep,
   NoVStep, NextQuoteStep, RetrySteps, UnreachableSteps
   DEF Processing
-----------------------------------------------------------------------------
(* Timers and replies *)

\* What a reply may change of a dictionary leaves its owner, its state and its
\* recorded failure alone.
SameAgent(d, e) == e.id = d.id /\ e.op = d.op /\ e.last = d.last

\* A reply that schedules process_agent, or sends the next request.
LEMMA ReplyStep ==
  ASSUME Inductive, NEW p \in Pollers, Live(p),
         NEW where \in PCs \ {"idle", "checked", "notify"},
         NEW d \in Dicts, SameAgent(dict[p], d),
         NEW c \in Calls, Moves(p, where, d, c), OwnRowOnly(p), RestTyped'
  PROVE  Inductive'
BY PollerFacts, WaitingStep DEF SameAgent

\* store_attestation_state keeps the types and touches one row.
LEMMA StorePositionType ==
  ASSUME Inductive, NEW p \in Pollers, Live(p), NEW b \in BOOLEAN,
         StorePosition(p, b)
  PROVE  /\ db' \in [Agents -> Rows \union {None}]
         /\ resumable' \subseteq Workers \X Agents
         /\ OwnRowOnly(p)
<1>1. dict[p].id \in Agents /\ Home[p] \in Workers /\ RestTyped
  BY PollerFacts, VerifierAssumption
<1>2. \A row \in Rows : [row EXCEPT !.boot = TRUE] \in Rows
  BY DEF Rows
<1>3. db' \in [Agents -> Rows \union {None}] /\ OwnRowOnly(p)
  BY <1>1, <1>2 DEF StorePosition, OwnRowOnly, RestTyped
<1>4. resumable' \subseteq Workers \X Agents
  BY <1>1 DEF StorePosition, RestTyped
<1>5. QED
  BY <1>3, <1>4

\* The dictionaries a quote reply leaves behind.
LEMMA ReplyDicts ==
  ASSUME NEW d \in Dicts
  PROVE  /\ \A k : WithPubkey(d, k) \in Dicts /\ SameAgent(d, WithPubkey(d, k))
         /\ \A key \in Keys \union {None} :
              Accepted(d, key) \in Dicts /\ SameAgent(d, Accepted(d, key))
<1>1. \A k : WithPubkey(d, k) \in Dicts /\ SameAgent(d, WithPubkey(d, k))
  BY DEF WithPubkey, Dicts, SameAgent
<1>2. ASSUME NEW key \in Keys \union {None}
      PROVE  Accepted(d, key) \in Dicts /\ SameAgent(d, Accepted(d, key))
  <2> DEFINE e == [d EXCEPT !.attested = TRUE]
             f == [e EXCEPT !.key = key]
             g == [f EXCEPT !.encV = None]
             h == [g EXCEPT !.provideV = TRUE]
  <2>1. e \in Dicts /\ SameAgent(d, e)
    BY DEF Dicts, SameAgent
  <2>2. f \in Dicts /\ SameAgent(e, f)
    <3> HIDE DEF e
    <3>1. QED
      BY <2>1 DEF Dicts, SameAgent
  <2>3. g \in Dicts /\ SameAgent(f, g)
    <3> HIDE DEF f
    <3>1. QED
      BY <2>2 DEF Dicts, SameAgent
  <2>4. h \in Dicts /\ SameAgent(g, h)
    <3> HIDE DEF g
    <3>1. QED
      BY <2>3 DEF Dicts, SameAgent
  <2>5. h = [d EXCEPT !.attested = TRUE, !.key = key, !.encV = None, !.provideV = TRUE]
    BY DEF Dicts
  <2> HIDE DEF e, f, g, h
  <2>6. SameAgent(d, h)
    BY <2>1, <2>2, <2>3, <2>4 DEF SameAgent
  <2>7. CASE key # d.key
    BY <2>4, <2>5, <2>6, <2>7 DEF Accepted
  <2>8. CASE key = d.key
    BY <2>1, <2>8 DEF Accepted, e
  <2>9. QED
    BY <2>7, <2>8
<1>3. QED
  BY <1>1, <1>2

\* The calls a reply ends in.
LEMMA AfterQuoteMoves ==
  ASSUME NEW p, NEW d, AfterQuote(p, d)
  PROVE  \E c \in Calls : Moves(p, "ready", d, c)
BY CallTypes DEF AfterQuote, Schedule, Moves, Targets

\* The places a reply finds a poller in are not the idle one.
LEMMA ReplyPlaces ==
  \A where \in {"ready", "quote", "vkey", "versionQ", "versionV"} :
    where \in PCs \ {"idle", "checked", "notify"}
BY DEF PCs

\* A verified quote is counted and scheduled on.
LEMMA QuoteVerifiedStep ==
  ASSUME Inductive, NEW p \in Pollers, Live(p), NEW k \in Keys \union {None},
         NEW b \in Positions, QuoteVerified(p, k, b)
  PROVE  Inductive'
<1> DEFINE d   == WithPubkey(dict[p], k)
           key == IF k = None THEN d.key ELSE k
           e   == Accepted(d, key)
<1>1. d \in Dicts /\ SameAgent(dict[p], d)
  BY PollerFacts, ReplyDicts
<1>2. key \in Keys
  <2>1. k = None => d.key # None
    BY DEF QuoteVerified, NoCachedKey
  <2> HIDE DEF d
  <2>2. d.key \in Keys \union {None}
    BY <1>1 DEF Dicts
  <2>3. QED
    BY <2>1, <2>2
<1>3. AfterQuote(p, e) /\ verified' = verified \union {<<d.id, key>>}
      /\ StorePosition(p, b)
      /\ UNCHANGED <<dflt, notices, announced, up, restarts>>
  BY DEF QuoteVerified
<1> HIDE DEF d, key
<1>4. e \in Dicts /\ SameAgent(dict[p], e)
  BY <1>1, <1>2, ReplyDicts DEF SameAgent
<1> HIDE DEF e
<1>5. PICK c \in Calls : Moves(p, "ready", e, c)
  BY <1>3, AfterQuoteMoves
<1>6. b \in BOOLEAN
  BY VerifierAssumption
<1>7. d.id \in Agents
  BY <1>1, PollerFacts DEF SameAgent
<1>8. RestTyped' /\ OwnRowOnly(p)
  BY <1>2, <1>3, <1>6, <1>7, StorePositionType, PollerFacts, NoticesKept DEF RestTyped
<1>9. QED
  BY <1>4, <1>5, <1>8, ReplyPlaces, ReplyStep

\* A quote after a reboot is scheduled on.
LEMMA QuoteAfterRebootStep ==
  ASSUME Inductive, NEW p \in Pollers, Live(p), NEW k \in Keys \union {None},
         QuoteAfterReboot(p, k)
  PROVE  Inductive'
<1> DEFINE d == WithPubkey(dict[p], k)
<1>1. d \in Dicts /\ SameAgent(dict[p], d)
  BY PollerFacts, ReplyDicts
<1>2. AfterQuote(p, d) /\ StorePosition(p, FALSE)
      /\ UNCHANGED <<dflt, notices, announced, verified, up, restarts>>
  BY DEF QuoteAfterReboot
<1> HIDE DEF d
<1>3. PICK c \in Calls : Moves(p, "ready", d, c)
  BY <1>2, AfterQuoteMoves
<1>4. RestTyped' /\ OwnRowOnly(p)
  BY <1>2, StorePositionType, PollerFacts, NoticesKept DEF RestTyped
<1>5. QED
  BY <1>1, <1>3, <1>4, ReplyPlaces, ReplyStep

\* A rejected quote is scheduled as a failure.
LEMMA QuoteRejectedStep ==
  ASSUME Inductive, NEW p \in Pollers, Live(p), NEW k \in Keys \union {None},
         NEW f \in QuoteFailures, NEW b \in Positions, QuoteRejected(p, k, f, b)
  PROVE  Inductive'
<1>1. WithPubkey(dict[p], k) \in Dicts /\ SameAgent(dict[p], WithPubkey(dict[p], k))
  BY PollerFacts, ReplyDicts
<1>2. f \in Failures /\ b \in BOOLEAN
  BY VerifierAssumption
<1>3. FailCall(INVALID_QUOTE, f) \in Calls
  BY <1>2, CallTypes DEF Targets
<1>4. Moves(p, "ready", WithPubkey(dict[p], k), FailCall(INVALID_QUOTE, f))
  BY DEF QuoteRejected, Schedule, Moves
<1>5. RestTyped' /\ OwnRowOnly(p)
  BY <1>2, StorePositionType, PollerFacts, NoticesKept DEF QuoteRejected, RestTyped
<1>6. QED
  BY <1>1, <1>3, <1>4, <1>5, ReplyPlaces, ReplyStep
-----------------------------------------------------------------------------
(* Replies that leave the dictionary and the table alone *)

\* A reply after which p is at where, with its dictionary as it was.
LEMMA PlainReply ==
  ASSUME Inductive, NEW p \in Pollers, Live(p),
         NEW where \in {"ready", "quote", "vkey", "versionQ", "versionV"},
         NEW c \in Calls, Moves(p, where, dict[p], c),
         UNCHANGED <<db, dflt, resumable, notices, announced, verified, up, restarts>>
  PROVE  Inductive'
<1>1. OwnRowOnly(p) /\ RestTyped'
  BY PollerFacts, NoticesKept DEF OwnRowOnly, RestTyped
<1>2. dict[p] \in Dicts /\ SameAgent(dict[p], dict[p])
  BY PollerFacts DEF SameAgent
<1>3. QED
  BY <1>1, <1>2, ReplyPlaces, ReplyStep

\* A timer that fires leaves the dictionary alone.
LEMMA TimerFiresStep ==
  ASSUME Inductive, NEW p \in Pollers, Live(p), TimerFires(p)
  PROVE  Inductive'
<1>1. call[p] \in Calls /\ dict' = [dict EXCEPT ![p] = dict[p]]
      /\ call' = [call EXCEPT ![p] = call[p]]
  BY PollerFacts DEF TimerFires, Inductive, TypeOK
<1>2. Moves(p, "quote", dict[p], call[p]) \/ Moves(p, "vkey", dict[p], call[p])
  BY <1>1 DEF TimerFires, Moves
<1>3. QED
  BY <1>1, <1>2, PlainReply DEF TimerFires

\* The calls the plain replies schedule.
LEMMA ReplyCalls ==
  /\ NewCall(GET_QUOTE) \in Calls /\ NewCall(GET_QUOTE_RETRY) \in Calls
  /\ NewCall(PROVIDE_V_RETRY) \in Calls
  /\ FailCall(FAILED, FatalFailure("internal")) \in Calls
  /\ FailCall(INVALID_QUOTE, FatalFailure("no_pubkey")) \in Calls
BY CallTypes, FailureTypes, OwnEventIds DEF Targets

\* Replies that touch neither the row nor the position keep the invariant.
LEMMA PlainReplySteps ==
  ASSUME Inductive, NEW p \in Pollers, Live(p),
         \/ NoPublicKey(p) \/ VkeyAccepted(p) \/ ConnectionError(p)
         \/ BadAnswer(p) \/ VersionRefused(p) \/ VersionNotUpdated(p)
  PROVE  Inductive'
<1>1. \E where \in {"ready", "versionQ", "versionV"}, c \in Calls :
        Moves(p, where, dict[p], c)
  <2>1. CASE NoPublicKey(p)
    BY <2>1, ReplyCalls DEF NoPublicKey, Schedule, Moves
  <2>2. CASE VkeyAccepted(p)
    BY <2>2, ReplyCalls DEF VkeyAccepted, Schedule, Moves
  <2>3. CASE ConnectionError(p)
    BY <2>3, ReplyCalls DEF ConnectionError, Schedule, Moves
  <2>4. CASE BadAnswer(p)
    BY <2>4, ReplyCalls DEF BadAnswer, Schedule, Moves
  <2>5. CASE VersionRefused(p)
    BY <2>5, ReplyCalls DEF VersionRefused, WaitAt, Moves
  <2>6. CASE VersionNotUpdated(p)
    BY <2>6, ReplyCalls DEF VersionNotUpdated, Schedule, Moves
  <2>7. QED
    BY <2>1, <2>2, <2>3, <2>4, <2>5, <2>6
<1>2. UNCHANGED <<db, dflt, resumable, notices, announced, verified, up, restarts>>
  BY DEF NoPublicKey, VkeyAccepted, ConnectionError, BadAnswer, VersionRefused,
         VersionNotUpdated
<1>3. QED
  BY <1>1, <1>2, PlainReply

\* A version update writes the dictionary to its own row.
LEMMA VersionUpdatedStep ==
  ASSUME Inductive, NEW p \in Pollers, Live(p), VersionUpdated(p)
  PROVE  Inductive'
<1> DEFINE d == [dict[p] EXCEPT !.version = @ + 1]
<1>1. d \in Dicts /\ SameAgent(dict[p], d)
  BY PollerFacts, VerifierAssumption DEF VersionUpdated, Dicts, SameAgent
<1>2. \E c \in Calls : Moves(p, "ready", d, c)
  BY ReplyCalls DEF VersionUpdated, Schedule, Moves
<1>3. db' = Stored(d) /\ UNCHANGED <<dflt, resumable, notices, announced, verified, up, restarts>>
  BY DEF VersionUpdated
<1> HIDE DEF d
<1>4. OwnRowOnly(p) /\ RestTyped'
  BY <1>1, <1>3, StoredType, PollerFacts, NoticesKept
     DEF OwnRowOnly, SameAgent, RestTyped, Inductive
<1>5. QED
  BY <1>1, <1>2, <1>4, ReplyPlaces, ReplyStep

\* A notice to the poller's own agent is refused: the version is updated in the
\* poller's dictionary and in its row.
LEMMA NoticeToSelfStep ==
  ASSUME Inductive, NEW p \in Pollers, Live(p), NoticeToSelf(p)
  PROVE  Inductive'
<1> DEFINE d == [dict[p] EXCEPT !.version = @ + 1]
<1>1. d \in Dicts /\ SameAgent(dict[p], d)
  BY PollerFacts, VerifierAssumption DEF NoticeToSelf, Dicts, SameAgent
<1>2. /\ dict' = [dict EXCEPT ![p] = d] /\ db' = Stored(d)
      /\ UNCHANGED <<pc, call, dflt, resumable, notices, announced, verified, up, restarts>>
  BY DEF NoticeToSelf
<1> HIDE DEF d
<1>3. Moves(p, pc[p], d, call[p]) /\ call[p] \in Calls /\ pc[p] \in PCs \ {"idle"}
  BY <1>2 DEF Moves, Inductive, TypeOK, Live
<1>4. Sound(pc[p], d, call[p])
  BY <1>1, PollerFacts DEF Sound, SameAgent
<1>5. OwnRowOnly(p) /\ RestTyped'
  BY <1>1, <1>2, StoredType, PollerFacts, NoticesKept
     DEF OwnRowOnly, SameAgent, RestTyped, Inductive
<1>6. QED
  BY <1>1, <1>3, <1>4, <1>5, PollerGoesOn DEF SameAgent

\* Every step of a poller keeps the invariant.
LEMMA PollerStepKeeps ==
  ASSUME Inductive, NEW p \in Pollers, PollerStep(p)
  PROVE  Inductive'
BY ProcessingStep, TimerFiresStep, QuoteVerifiedStep, QuoteAfterRebootStep,
   QuoteRejectedStep, PlainReplySteps, VersionUpdatedStep, NoticeToSelfStep
   DEF PollerStep, Replying
-----------------------------------------------------------------------------
(* The REST handlers, the restart and the hosts *)

\* A new poller p for agent a, whose row may change to anything well formed.
LEMMA PollerStarts ==
  ASSUME Inductive, NEW p \in Pollers, pc[p] = "idle", NEW a \in Agents,
         NEW d \in Dicts, d.id = a, d.last = NoEvent,
         NEW c \in Calls, Schedule(p, d, c), RestTyped',
         \A b \in Agents : b # a => db'[b] = db[b]
  PROVE  Inductive'
<1>1. TypeOK'
  BY DEF Inductive, TypeOK, RestTyped, NoticesSound, Schedule, PCs
<1>2. \A q \in Pollers : q # p =>
        pc'[q] = pc[q] /\ dict'[q] = dict[q] /\ call'[q] = call[q]
  BY DEF Inductive, TypeOK, Schedule
<1>3. pc'[p] = "ready" /\ dict'[p] = d /\ call'[p] = c
  BY DEF Inductive, TypeOK, Schedule
<1>4. PollersSound'
  BY <1>2, <1>3 DEF Inductive, PollersSound, Named, Sound
<1>5. Attested'
  BY <1>2, <1>3 DEF Inductive, Attested, NoOrphan, Live
<1>6. QED
  BY <1>1, <1>4, <1>5 DEF Inductive, RestTyped

\* POST makes a START row together with its poller.
LEMMA PostStep ==
  ASSUME Inductive, NEW w \in Workers, NEW p \in Pollers, NEW a \in Agents,
         NEW hasV \in Payloads, Post(w, p, a, hasV)
  PROVE  Inductive'
<1> DEFINE row == [op |-> START, last |-> NoEvent, attested |-> FALSE, key |-> None,
                   v |-> hasV, version |-> 1, boot |-> FALSE]
<1>1. row \in Rows
  BY VerifierAssumption DEF Rows, VALID_STATES
<1>2. /\ pc[p] = "idle" /\ db' = [db EXCEPT ![a] = row]
      /\ Schedule(p, FromRow(a, row), NewCall(GET_QUOTE))
      /\ UNCHANGED <<dflt, resumable, notices, announced, verified, up, restarts>>
  BY DEF Post, Starts
<1> HIDE DEF row
<1>3. RestTyped' /\ \A b \in Agents : b # a => db'[b] = db[b]
  BY <1>1, <1>2, NoticesKept DEF RestTyped, Inductive, TypeOK
<1>4. QED
  BY <1>1, <1>2, <1>3, FromRowType, ReplyCalls, PollerStarts

\* Reactivating starts one more poller and writes nothing.
LEMMA ReactivateStep ==
  ASSUME Inductive, NEW w \in Workers, NEW p \in Pollers, NEW a \in Agents,
         Reactivate(w, p, a)
  PROVE  Inductive'
<1> DEFINE d == [FromRow(a, db[a]) EXCEPT !.op = START]
<1>1. db[a] \in Rows
  BY DEF Reactivate, Inductive, TypeOK
<1>2. d \in Dicts /\ d.id = a /\ d.last = NoEvent
  BY <1>1, FromRowType DEF Dicts, VALID_STATES
<1>3. /\ pc[p] = "idle" /\ Schedule(p, d, NewCall(GET_QUOTE))
      /\ UNCHANGED <<db, dflt, resumable, notices, announced, verified, up, restarts>>
  BY DEF Reactivate, Starts
<1> HIDE DEF d
<1>4. RestTyped' /\ \A b \in Agents : b # a => db'[b] = db[b]
  BY <1>3, NoticesKept DEF RestTyped, Inductive, TypeOK
<1>5. QED
  BY <1>2, <1>3, <1>4, ReplyCalls, PollerStarts

\* A handler that takes the row of a out of attestation and leaves the pollers.
LEMMA HandlerStep ==
  ASSUME Inductive, NEW a \in Agents, RestTyped', UNCHANGED <<pc, dict, call>>,
         \A b \in Agents : b # a => db'[b] = db[b],
         db'[a] # None => db'[a].op \notin ATTESTED_STATES
  PROVE  Inductive'
<1>1. TypeOK' /\ PollersSound'
  BY DEF Inductive, TypeOK, RestTyped, NoticesSound, PollersSound, Named, Sound
<1>2. Attested'
  BY DEF Inductive, Attested, NoOrphan, Live
<1>3. QED
  BY <1>1, <1>2 DEF Inductive, RestTyped

\* DELETE and stop only take agents out of attestation.
LEMMA DeleteStopSteps ==
  ASSUME Inductive, NEW w \in Workers, NEW a \in Agents, Delete(w, a) \/ Stop(w, a)
  PROVE  Inductive'
<1>1. RestTyped /\ db[a] # None /\ db[a] \in Rows
  BY DEF Inductive, TypeOK, RestTyped, Delete, Stop
<1>2. ASSUME NEW op \in {TERMINATED, TENANT_FAILED},
             db' = [db EXCEPT ![a].op = op], UNCHANGED resumable,
             UNCHANGED <<pc, dict, call, dflt, notices, announced, verified, up, restarts>>
      PROVE  Inductive'
  <2>1. [db[a] EXCEPT !.op = op] \in Rows /\ [db[a] EXCEPT !.op = op].op = op
    BY <1>1 DEF Rows, VALID_STATES
  <2>2. db' = [db EXCEPT ![a] = [db[a] EXCEPT !.op = op]]
    BY <1>2
  <2>3. RestTyped' /\ (\A b \in Agents : b # a => db'[b] = db[b]) /\ db'[a].op = op
    BY <1>1, <1>2, <2>1, <2>2, NoticesKept DEF RestTyped
  <2>4. op \notin ATTESTED_STATES
    BY DEF ATTESTED_STATES, TERMINATED, TENANT_FAILED, START, GET_QUOTE, PROVIDE_V
  <2>5. QED
    BY <1>2, <2>3, <2>4, HandlerStep
<1>3. ASSUME DeleteRow(w, a),
             UNCHANGED <<pc, dict, call, dflt, notices, announced, verified, up, restarts>>
      PROVE  Inductive'
  <2>1. RestTyped' /\ (\A b \in Agents : b # a => db'[b] = db[b]) /\ db'[a] = None
    BY <1>1, <1>3, DeleteRowType, NoticesKept DEF RestTyped
  <2>2. QED
    BY <1>3, <2>1, HandlerStep
<1>4. CASE Stop(w, a)
  BY <1>2, <1>4 DEF Stop
<1>5. CASE Delete(w, a)
  BY <1>2, <1>3, <1>5 DEF Delete
<1>6. QED
  BY <1>4, <1>5

\* main() turns every row under attestation into a START row.
LEMMA ResetType ==
  ASSUME NEW row \in Rows \union {None}
  PROVE  /\ Reset(row) \in Rows \union {None}
         /\ Reset(row) # None <=> row # None
         /\ Reset(row) # None /\ Reset(row).op \in ATTESTED_STATES
              => Reset(row).op = START
<1>1. CASE row # None /\ row.op \in APPROVED_REACTIVATE_STATES
  <2>1. Reset(row) = [row EXCEPT !.op = START] /\ row \in Rows
    BY <1>1 DEF Reset
  <2>2. Reset(row) \in Rows /\ Reset(row).op = START
    BY <2>1 DEF Rows, VALID_STATES
  <2>3. QED
    BY <1>1, <2>2, NoneAssumption
<1>2. CASE ~(row # None /\ row.op \in APPROVED_REACTIVATE_STATES)
  BY <1>2 DEF Reset, ATTESTED_STATES, APPROVED_REACTIVATE_STATES
<1>3. QED
  BY <1>1, <1>2

\* main() and activate_agents give every row under attestation a poller.
LEMMA ActivateStep ==
  ASSUME Inductive, NEW worker \in [Agents -> Workers], NEW poller \in [Agents -> Pollers],
         Activate(worker, poller), restarts' \in 0..MaxRestarts,
         UNCHANGED <<announced, verified, up>>
  PROVE  Inductive'
<1> DEFINE rows    == [a \in Agents |-> Reset(db[a])]
           polled  == {a \in Agents : rows[a] # None /\ rows[a].op = START}
           runs(q) == {a \in polled : poller[a] = q}
           chosen(q) == CHOOSE a \in runs(q) : TRUE
<1>1. /\ \A a, b \in polled : poller[a] = poller[b] => a = b
      /\ db' = rows
      /\ pc' = [q \in Pollers |-> IF runs(q) = {} THEN "idle" ELSE "ready"]
      /\ dict' = [q \in Pollers |-> IF runs(q) = {} THEN BlankDict
                                    ELSE FromRow(chosen(q), rows[chosen(q)])]
      /\ call' = [q \in Pollers |-> NewCall(GET_QUOTE)]
      /\ dflt' = [w \in Workers |-> EmptyFailure]
      /\ notices' = {}
      /\ resumable' = {<<worker[a], a>> : a \in {b \in Agents : db[b] # None /\ db[b].boot}}
  BY DEF Activate
<1>2. rows \in [Agents -> Rows \union {None}]
      /\ \A a \in Agents : rows[a] # None /\ rows[a].op \in ATTESTED_STATES => a \in polled
  BY ResetType DEF Inductive, TypeOK
<1>3. \A q \in Pollers : runs(q) # {} =>
        /\ chosen(q) \in runs(q) /\ chosen(q) \in Agents
        /\ rows[chosen(q)] \in Rows
  BY <1>2
<1> HIDE DEF rows, polled
<1>4. \A q \in Pollers : runs(q) # {} =>
        /\ dict'[q] \in Dicts /\ dict'[q].id = chosen(q) /\ dict'[q].last = NoEvent
        /\ pc'[q] = "ready"
  BY <1>1, <1>3, FromRowType
<1>5. \A q \in Pollers : runs(q) = {} => pc'[q] = "idle" /\ dict'[q] = BlankDict
  BY <1>1
<1>6. BlankDict \in Dicts /\ BlankDict.last = NoEvent
  BY VerifierAssumption DEF BlankDict, Dicts, VALID_STATES
<1>7. \A q \in Pollers : call'[q] = NewCall(GET_QUOTE)
  BY <1>1
<1>8. TypeOK'
  <2>1. pc' \in [Pollers -> PCs]
    BY <1>1 DEF PCs
  <2>2. dict' \in [Pollers -> Dicts]
    <3>1. \A q \in Pollers : dict'[q] \in Dicts
      BY <1>4, <1>5, <1>6
    <3>2. DOMAIN dict' = Pollers /\ dict' = [q \in Pollers |-> dict'[q]]
      BY <1>1
    <3>3. QED
      BY <3>1, <3>2
  <2>3. call' \in [Pollers -> Calls]
    BY <1>1, ReplyCalls
  <2>4. dflt' \in [Workers -> Failures]
    BY <1>1, FailureTypes
  <2>5. resumable' \subseteq Workers \X Agents
    BY <1>1
  <2>6. db' \in [Agents -> Rows \union {None}]
    BY <1>1, <1>2
  <2>7. QED
    BY <1>1, <2>1, <2>2, <2>3, <2>4, <2>5, <2>6 DEF Inductive, TypeOK
<1>9. PollersSound'
  <2> SUFFICES ASSUME NEW q \in Pollers
               PROVE  Named(pc'[q], dict'[q]) /\ Sound(pc'[q], dict'[q], call'[q])
    BY DEF PollersSound, Named, Sound
  <2>1. CASE runs(q) = {}
    BY <2>1, <1>5, <1>6 DEF Named, Sound
  <2>2. CASE runs(q) # {}
    BY <2>2, <1>3, <1>4 DEF Named, Sound
  <2>3. QED
    BY <2>1, <2>2
<1>10. Attested'
  <2> SUFFICES ASSUME StableVersions, NEW a \in Agents, db'[a] # None, db'[a].op \in ATTESTED_STATES
               PROVE  \E q \in Pollers : Live(q)' /\ dict'[q].id = a
    BY DEF Attested, NoOrphan, Live
  <2>1. a \in polled
    BY <1>1, <1>2
  <2>2. poller[a] \in Pollers /\ a \in runs(poller[a])
    BY <2>1
  <2>3. chosen(poller[a]) = a
    BY <2>1, <2>2, <1>1, <1>3
  <2>4. runs(poller[a]) # {}
    BY <2>2
  <2> DEFINE q == poller[a]
  <2> HIDE DEF q, runs, chosen
  <2>5. pc'[q] = "ready" /\ dict'[q].id = a
    BY <2>2, <2>3, <2>4, <1>4 DEF q
  <2>6. QED
    BY <2>2, <2>5 DEF Live, q
<1>11. NoticesSound'
  BY <1>1 DEF NoticesSound
<1>12. QED
  BY <1>8, <1>9, <1>10, <1>11 DEF Inductive

\* A host that goes away changes nothing in the verifier.
LEMMA HostDownStep ==
  ASSUME Inductive, NEW a \in Agents, HostDown(a)
  PROVE  Inductive'
<1>1. NoticesSound'
  BY NoticesKept DEF HostDown, Inductive
<1>2. QED
  BY <1>1 DEF Inductive, TypeOK, HostDown, PollersSound, Named, Sound, Attested,
              NoOrphan, Live

\* A refused notice rewrites a row, which is why NoOrphan needs StableVersions.
LEMMA NoticeRefusedStep ==
  ASSUME Inductive, NEW n \in notices, NoticeRefused(n)
  PROVE  Inductive'
<1> DEFINE w == n[1]
           d == [n[2] EXCEPT !.version = @ + 1]
<1>1. w \in Workers /\ n[2] \in Dicts /\ n[2].id \in Agents /\ n = <<w, n[2]>>
      /\ ~StableVersions
  BY DEF Inductive, NoticesSound
<1>2. d \in Dicts /\ d.id \in Agents
  BY <1>1, VerifierAssumption DEF NoticeRefused, Dicts
<1>3. /\ db' = Stored(d)
      /\ \A m \in notices' : m \in notices \/ m = <<w, d>>
      /\ UNCHANGED <<pc, dict, call, dflt, resumable, announced, verified, up, restarts>>
  BY DEF NoticeRefused
<1> HIDE DEF w, d
<1>4. NoticesSound'
  BY <1>1, <1>2, <1>3 DEF NoticesSound, StableVersions, Inductive
<1>5. TypeOK'
  BY <1>2, <1>3, <1>4, StoredType DEF Inductive, TypeOK, NoticesSound
<1>6. PollersSound'
  BY <1>3 DEF Inductive, PollersSound, Named, Sound
<1>7. Attested'
  BY <1>1 DEF Attested, StableVersions
<1>8. QED
  BY <1>4, <1>5, <1>6, <1>7 DEF Inductive
-----------------------------------------------------------------------------
(* The theorems *)

\* The invariant holds at first.
LEMMA InitInductive == ASSUME Init PROVE Inductive
<1>1. BlankDict \in Dicts /\ BlankDict.last = NoEvent
  BY VerifierAssumption DEF BlankDict, Dicts, VALID_STATES
<1>2. TypeOK
  BY <1>1, ReplyCalls, FailureTypes, VerifierAssumption DEF Init, TypeOK, PCs
<1>3. PollersSound
  BY <1>1 DEF Init, PollersSound, Named, Sound
<1>4. Attested /\ NoticesSound
  BY DEF Init, Attested, NoOrphan, NoticesSound
<1>5. QED
  BY <1>2, <1>3, <1>4 DEF Inductive

\* Every step keeps the invariant.
LEMMA NextInductive == ASSUME Inductive, [Next]_vars PROVE Inductive'
<1>1. CASE \E p \in Pollers : PollerStep(p)
  BY <1>1, PollerStepKeeps
<1>2. CASE \E w \in Workers, a \in Agents : Handlers(w, a)
  BY <1>2, PostStep, DeleteStopSteps, ReactivateStep DEF Handlers
<1>3. CASE Restart
  <2>1. restarts' \in 0..MaxRestarts
    BY <1>3, VerifierAssumption DEF Restart, Inductive, TypeOK
  <2>2. QED
    BY <1>3, <2>1, ActivateStep DEF Restart
<1>4. CASE \E a \in Agents : HostDown(a)
  BY <1>4, HostDownStep
<1>5. CASE UNCHANGED vars
  <2>1. NoticesSound'
    BY <1>5, NoticesKept DEF vars, Inductive
  <2>2. QED
    BY <1>5, <2>1
       DEF vars, Inductive, TypeOK, PollersSound, Named, Sound, Attested, NoOrphan, Live
<1>6. CASE \E n \in notices : NoticeRefused(n)
  BY <1>6, NoticeRefusedStep
<1>7. QED
  BY <1>1, <1>2, <1>3, <1>4, <1>5, <1>6 DEF Next

\* The invariant holds in every state of the verifier.
THEOREM InductiveInvariant == Spec => []Inductive
<1>1. Init => Inductive
  BY InitInductive
<1>2. Inductive /\ [Next]_vars => Inductive'
  BY NextInductive
<1>3. QED
  BY <1>1, <1>2, PTL DEF Spec

\* Tables, dictionaries and calls stay well formed: in particular the retries
\* of a poller never exceed max_retries.
THEOREM TypeCorrect == Spec => []TypeOK
<1>1. Inductive => TypeOK
  BY DEF Inductive
<1>2. QED
  BY <1>1, InductiveInvariant, PTL

\* An agent whose row says it is under attestation is polled, through every
\* interleaving of pollers, handlers, workers and restarts (process_agent,
\* AgentsHandler, main, activate_agents), unless an agent that is told of a
\* revocation may refuse the API version (invoke_notify_error).
THEOREM AttestedAgentsArePolled ==
  ASSUME StableVersions
  PROVE  Spec => []NoOrphan
<1>1. Inductive => NoOrphan
  BY DEF Inductive, Attested
<1>2. QED
  BY <1>1, InductiveInvariant, PTL
-----------------------------------------------------------------------------
(* What the verifier says, does and gives away is borne out by what happened.

   The invariant Safe joins two halves.  Whatever a dictionary, a row or a
   notice says of an agent is backed by the history: a key by a verified quote,
   an invalid quote by a notification.  And every poller is where the state in
   its dictionary and the state it was asked to go to allow it to be: a failure
   of the highest severity is on its way to the end of polling. *)

\* What is said of agent id is borne out by the history.
Backed(id, op, key) ==
  /\ key # None => <<id, key>> \in verified
  /\ op = INVALID_QUOTE => id \in announced

\* The V in a dictionary is encrypted for the dictionary's key.
BackedDict(d) ==
  /\ Backed(d.id, d.op, d.key)
  /\ d.encV # None => d.encV = d.key

RowsBacked    == \A a \in Agents : db[a] # None => Backed(a, db[a].op, db[a].key)
DictsBacked   == \A p \in Pollers : BackedDict(dict[p])
NoticesBacked == \A n \in notices : BackedDict(n[2])

\* The failure object behind call c of poller p.
FailureIn(p, c) == IF c.shared THEN dflt[Home[p]] ELSE c.failure

\* The places on the way to a quote, and on the way to the V key.
AtQuote == {"quote", "timerQ", "versionQ"}
AtV     == {"vkey", "timerV", "versionV"}

\* A poller at where, with the state of d, may have been asked to go to c.new.
Placed(where, d, c) ==
  /\ where \in AtQuote => d.op \in {GET_QUOTE, INVALID_QUOTE}
  /\ where \in AtV => d.op = PROVIDE_V
  /\ where \in {"ready", "recheck", "checked"} => d.op = INVALID_QUOTE \/ Handled(d.op, c.new)
  /\ where \in {"notify", "commerr"} => c.new \in FailedTargets
  /\ where \in Waiting => c.new = GET_QUOTE
  /\ d.op = FAILED => c.new = FAILED
  /\ where \in AtV \/ c.new = PROVIDE_V_RETRY => d.encV # None

\* The highest severity known at import is the highest there is.
FreshLabel == ImportedMaxSev = MaxSev

\* Every failure a quote can meet ends the polling, as under the default policy.
AllStop == \A f \in QuoteFailures : Stops(f)

\* A failure f that was recorded in d, or is about to be, ends the polling when
\* it has to.
Final(d, c, f) ==
  /\ c.new = FAILED => ~f.recoverable
  /\ FreshLabel /\ d.last.sev = MaxSev => c.new \in FailedTargets /\ Stops(f)
  /\ AllStop => /\ c.new \in FailedTargets => Stops(f)
                /\ d.op = INVALID_QUOTE => c.new \in FailedTargets

Proper(p, where, d, c) ==
  where # "idle" => Placed(where, d, c) /\ Final(d, c, FailureIn(p, c))

PollersProper == \A p \in Pollers : Proper(p, pc[p], dict[p], call[p])

Safe == RowsBacked /\ DictsBacked /\ NoticesBacked /\ PollersProper

\* Nothing is taken back of the history.
HistoryGrows == verified \subseteq verified' /\ announced \subseteq announced'

\* A default failure object stays as it was or becomes irrecoverable.
DefaultsGrow == \A w \in Workers : dflt'[w] = dflt[w] \/ ~dflt'[w].recoverable
-----------------------------------------------------------------------------
(* What a step of one poller has to show *)

\* What was backed stays backed.
LEMMA BackedStays ==
  ASSUME HistoryGrows, NEW id, NEW op, NEW key, Backed(id, op, key)
  PROVE  Backed(id, op, key)'
BY DEF HistoryGrows, Backed

LEMMA BackedDictStays ==
  ASSUME HistoryGrows, NEW d, BackedDict(d)
  PROVE  BackedDict(d)'
BY DEF HistoryGrows, Backed, BackedDict

\* An irrecoverable failure satisfies all that is asked of the one it replaces.
LEMMA FinalStays ==
  ASSUME NEW d, NEW c, NEW f, NEW g, Final(d, c, f), g = f \/ ~g.recoverable
  PROVE  Final(d, c, g)
<1>1. CASE g = f
  BY <1>1
<1>2. CASE ~g.recoverable
  BY <1>2 DEF Final, Stops
<1>3. QED
  BY <1>1, <1>2

\* A poller that does not step itself stays proper.
LEMMA OthersStayProper ==
  ASSUME DefaultsGrow, NEW q \in Pollers, PollersProper,
         pc'[q] = pc[q], dict'[q] = dict[q], call'[q] = call[q]
  PROVE  Proper(q, pc[q], dict[q], call[q])'
<1>1. Home[q] \in Workers
  BY VerifierAssumption
<1>2. PICK where, d, c : where = pc[q] /\ d = dict[q] /\ c = call[q]
  OBVIOUS
<1>3. FailureIn(q, c)' = FailureIn(q, c) \/ ~(FailureIn(q, c)').recoverable
  BY <1>1 DEF FailureIn, DefaultsGrow
<1>4. Proper(q, where, d, c)
  BY <1>2 DEF PollersProper
<1>5. Proper(q, where, d, c)'
  BY <1>3, <1>4, FinalStays DEF Proper
<1>6. QED
  BY <1>2, <1>5 DEF Proper, FailureIn

\* A poller that moves keeps the invariant when what it moves to is proper.
LEMMA PollerMoves ==
  ASSUME Inductive, Safe, NEW p \in Pollers, NEW where, NEW d, NEW c,
         Moves(p, where, d, c), Proper(p, where, d, c)', BackedDict(d)',
         HistoryGrows, DefaultsGrow, RowsBacked', NoticesBacked'
  PROVE  Safe'
<1>1. \A q \in Pollers : q # p =>
        pc'[q] = pc[q] /\ dict'[q] = dict[q] /\ call'[q] = call[q]
  BY DEF Inductive, TypeOK, Moves
<1>2. pc'[p] = where /\ dict'[p] = d /\ call'[p] = c
  BY DEF Inductive, TypeOK, Moves
<1>3. DictsBacked'
  <2> SUFFICES ASSUME NEW q \in Pollers PROVE BackedDict(dict[q])'
    BY DEF DictsBacked
  <2>1. CASE q = p
    BY <1>2, <2>1 DEF BackedDict, Backed
  <2>2. CASE q # p
    BY <1>1, <2>2 DEF Safe, DictsBacked, BackedDict, Backed, HistoryGrows
  <2>3. QED
    BY <2>1, <2>2
<1>4. PollersProper'
  <2> SUFFICES ASSUME NEW q \in Pollers PROVE Proper(q, pc[q], dict[q], call[q])'
    BY DEF PollersProper
  <2>1. CASE q = p
    BY <1>2, <2>1 DEF Proper, FailureIn
  <2>2. CASE q # p
    BY <1>1, <2>2, OthersStayProper DEF Safe
  <2>3. QED
    BY <2>1, <2>2
<1>5. QED
  BY <1>3, <1>4 DEF Safe

\* Rows and notices nobody touches stay backed.
LEMMA UntouchedBacked ==
  ASSUME Safe, HistoryGrows
  PROVE  /\ UNCHANGED db => RowsBacked'
         /\ UNCHANGED notices => NoticesBacked'
BY DEF Safe, RowsBacked, NoticesBacked, BackedDict, Backed, HistoryGrows

\* Writing back a backed dictionary keeps the rows backed.
LEMMA StoredBacked ==
  ASSUME TypeOK, Safe, HistoryGrows, NEW d \in Dicts, d.id \in Agents, BackedDict(d)',
         db' = Stored(d)
  PROVE  RowsBacked'
<1> SUFFICES ASSUME NEW a \in Agents, db'[a] # None
             PROVE  Backed(a, db[a].op, db[a].key)'
  BY DEF RowsBacked
<1>1. CASE a = d.id /\ db[a] # None
  <2>1. db'[a] = WriteBack(db[a], d)
    BY <1>1 DEF Stored, TypeOK
  <2>2. db'[a].op = d.op /\ db'[a].key = d.key
    BY <2>1 DEF WriteBack
  <2>3. QED
    BY <1>1, <2>2 DEF BackedDict, Backed
<1>2. CASE ~(a = d.id /\ db[a] # None)
  <2>1. db'[a] = db[a]
    BY <1>2 DEF Stored, TypeOK
  <2>2. QED
    BY <2>1 DEF Safe, RowsBacked, Backed, HistoryGrows
<1>3. QED
  BY <1>1, <1>2

\* What a row is given to a notice is backed as the row is.
LEMMA NotifiedBacked ==
  ASSUME TypeOK, Safe, HistoryGrows, NEW p \in Pollers, notices' = Notified(p)
  PROVE  NoticesBacked'
<1>1. ASSUME NEW a \in Agents, db[a] # None
      PROVE  BackedDict(FromRow(a, db[a]))
  BY <1>1 DEF Safe, RowsBacked, BackedDict, Backed, FromRow
<1>2. \A n \in notices' : n \in notices \/ \E a \in Agents : db[a] # None /\ n[2] = FromRow(a, db[a])
  BY DEF Notified
<1>3. \A n \in notices' : BackedDict(n[2])
  BY <1>1, <1>2 DEF Safe, NoticesBacked
<1>4. QED
  BY <1>3 DEF HistoryGrows, NoticesBacked, BackedDict, Backed
-----------------------------------------------------------------------------
(* Dictionaries and failures *)

\* No failure that ends the polling is recorded in d.
Mild(d) ==
  /\ FreshLabel => d.last.sev # MaxSev
  /\ AllStop => d.op # INVALID_QUOTE

\* What is known of a poller in any state of the two invariants.
LEMMA SafeFacts ==
  ASSUME Inductive, Safe, NEW p \in Pollers, Live(p)
  PROVE  /\ Placed(pc[p], dict[p], call[p])
         /\ Final(dict[p], call[p], FailureOf(p))
         /\ BackedDict(dict[p])
         /\ call[p].new \notin FailedTargets => Mild(dict[p])
         /\ pc[p] \in Waiting => Mild(dict[p])
<1>1. /\ Placed(pc[p], dict[p], call[p])
      /\ Final(dict[p], call[p], FailureOf(p))
      /\ BackedDict(dict[p])
  BY DEF Safe, PollersProper, Proper, Live, FailureIn, FailureOf, DictsBacked
<1>2. call[p].new \notin FailedTargets => Mild(dict[p])
  BY <1>1 DEF Final, Mild
<1>3. pc[p] \in Waiting => call[p].new \notin FailedTargets
  BY <1>1 DEF Placed, FailedTargets, FAILED, INVALID_QUOTE, GET_QUOTE
<1>4. QED
  BY <1>1, <1>2, <1>3

\* A call that brings no failure asks nothing more of a mild dictionary.
LEMMA MildFinal ==
  ASSUME NEW d, Mild(d), NEW new, new \notin FailedTargets, NEW f
  PROVE  Final(d, NewCall(new), f)
BY DEF Final, Mild, NewCall, FailedTargets

\* An added irrecoverable event makes the failure irrecoverable.
LEMMA AddEventFatal ==
  \A f, id : ~AddEvent(f, Irrecoverable(id)).recoverable
BY DEF AddEvent, Irrecoverable

LEMMA FatalIsFatal == \A id : ~FatalFailure(id).recoverable
BY AddEventFatal DEF FatalFailure

\* Going on with a new irrecoverable event: whatever is recorded is final.
LEMMA FailingSafe ==
  ASSUME Inductive, Safe, NEW p \in Pollers, Live(p), NEW id \in EventIds,
         NEW where \in {"recheck", "commerr"}, FailWith(p, id, where),
         NEW d, dict' = [dict EXCEPT ![p] = d], BackedDict(d),
         HistoryGrows, RowsBacked', NoticesBacked'
  PROVE  Safe'
<1>1. Home[p] \in Workers /\ dflt \in [Workers -> Failures] /\ call[p] \in Calls
  BY VerifierAssumption, PollerFacts DEF Inductive, TypeOK
<1>2. DefaultsGrow
  BY <1>1, AddEventFatal DEF DefaultsGrow, FailWith
<1>3. PICK c : c = [new |-> FAILED, shared |-> call[p].shared,
                    failure |-> IF call[p].shared THEN call[p].failure
                                ELSE AddEvent(call[p].failure, Irrecoverable(id))]
  OBVIOUS
<1>4. Moves(p, where, d, c)
  BY <1>3 DEF FailWith, Moves
<1>5. c.new = FAILED /\ ~(FailureIn(p, c)').recoverable
  BY <1>1, <1>3, AddEventFatal DEF FailureIn, FailWith
<1>6. Placed(where, d, c)
  BY <1>5 DEF Placed, Handled, FailedTargets, AtQuote, AtV, Waiting, FAILED, PROVIDE_V_RETRY
<1>7. Final(d, c, FailureIn(p, c)')
  BY <1>5 DEF Final, Stops, FailedTargets
<1>8. Proper(p, where, d, c)'
  BY <1>6, <1>7 DEF Proper
<1>9. BackedDict(d)'
  BY BackedDictStays
<1>10. QED
  BY <1>2, <1>4, <1>8, <1>9, PollerMoves

\* A move to a call that brings no failure, or to a request or a timer.
LEMMA MildMove ==
  ASSUME Inductive, Safe, NEW p \in Pollers,
         NEW where, NEW d, NEW new, new \notin FailedTargets,
         Moves(p, where, d, NewCall(new)), Mild(d), Placed(where, d, NewCall(new)),
         BackedDict(d)', HistoryGrows, UNCHANGED dflt, RowsBacked', NoticesBacked'
  PROVE  Safe'
<1>1. DefaultsGrow
  BY DEF DefaultsGrow
<1>2. PICK c : c = NewCall(new)
  OBVIOUS
<1>3. Final(d, c, FailureIn(p, c)')
  BY <1>2, MildFinal
<1>4. Proper(p, where, d, c)'
  BY <1>2, <1>3 DEF Proper
<1>5. QED
  BY <1>1, <1>2, <1>4, PollerMoves

\* A poller that stops leaves nothing behind to be asked of.
LEMMA StoppingSafe ==
  ASSUME Inductive, Safe, NEW p \in Pollers, Idle(p),
         HistoryGrows, UNCHANGED dflt, RowsBacked', NoticesBacked'
  PROVE  Safe'
<1>1. PICK d, c : d = BlankDict /\ c = NewCall(GET_QUOTE)
  OBVIOUS
<1>2. Moves(p, "idle", d, c)
  BY <1>1 DEF Idle, Moves
<1>3. BackedDict(d)'
  BY <1>1 DEF BackedDict, Backed, BlankDict, REGISTERED, INVALID_QUOTE
<1>4. Proper(p, "idle", d, c)' /\ DefaultsGrow
  BY DEF Proper, DefaultsGrow
<1>5. QED
  BY <1>2, <1>3, <1>4, PollerMoves
-----------------------------------------------------------------------------
(* The steps of process_agent *)

\* A step that adds nothing to the history keeps it.
LEMMA QuietHistory == UNCHANGED <<announced, verified>> => HistoryGrows
BY DEF HistoryGrows

\* Stopping and terminating take rows away at most.
LEMMA StopSafe ==
  ASSUME Inductive, Safe, NEW p \in Pollers, StopPolling(p) \/ Terminate(p)
  PROVE  Safe'
<1>1. HistoryGrows /\ NoticesBacked' /\ Idle(p) /\ UNCHANGED dflt
  BY UntouchedBacked, QuietHistory DEF StopPolling, Terminate
<1>2. RowsBacked'
  <2>1. CASE StopPolling(p)
    BY <1>1, <2>1, UntouchedBacked DEF StopPolling
  <2>2. CASE Terminate(p)
    <3>1. \A a \in Agents : db'[a] = None \/ db'[a] = db[a]
      BY <2>2 DEF Terminate, DeleteRow, Inductive, TypeOK
    <3>2. QED
      BY <1>1, <3>1 DEF Safe, RowsBacked, Backed, HistoryGrows
  <2>3. QED
    BY <2>1, <2>2
<1>3. QED
  BY <1>1, <1>2, StoppingSafe

\* A failure is recorded together with its announcement, and its severity with
\* the state that ends the polling.
LEMMA RecordFailureSafe ==
  ASSUME Inductive, Safe, NEW p \in Pollers, Live(p), RecordFailure(p)
  PROVE  Safe'
<1>1. PICK d, c, where, f :
        d = Marked(dict[p], call[p], FailureOf(p)) /\ c = call[p] /\ where = pc'[p]
        /\ f = FailureOf(p)
  OBVIOUS
<1>2. dict[p] \in Dicts /\ c \in Calls /\ c.new \in FailedTargets
  BY <1>1, PollerFacts DEF RecordFailure
<1>3. /\ d.id = dict[p].id /\ d.op = c.new /\ d.last = f.top
      /\ d.key = dict[p].key /\ d.encV = dict[p].encV
  BY <1>1, <1>2 DEF Marked, Dicts
<1>4. where \in {"notify", "checked"} /\ pc' = [pc EXCEPT ![p] = where]
  BY <1>1 DEF RecordFailure, Inductive, TypeOK
<1>5. Moves(p, where, d, c)
  BY <1>1, <1>4 DEF RecordFailure, Moves, Inductive, TypeOK
<1>6. HistoryGrows /\ UNCHANGED dflt /\ UNCHANGED db
      /\ (c.new = INVALID_QUOTE => dict[p].id \in announced')
  BY <1>1 DEF RecordFailure, HistoryGrows
<1>7. RowsBacked' /\ NoticesBacked'
  BY <1>6, UntouchedBacked, NotifiedBacked DEF RecordFailure, Inductive
<1>8. BackedDict(d)'
  <2>1. BackedDict(dict[p])
    BY SafeFacts
  <2>2. QED
    BY <1>3, <1>6, <2>1 DEF BackedDict, Backed, HistoryGrows
<1>9. Final(d, c, f)
  <2>1. Final(dict[p], c, f)
    BY <1>1, SafeFacts
  <2>2. QED
    BY <1>2, <1>3, <2>1 DEF Final, FreshLabel, Stops
<1>10. Placed(where, d, c)
  BY <1>2, <1>3, <1>4
     DEF Placed, Handled, FailedTargets, AtQuote, AtV, Waiting, FAILED, INVALID_QUOTE,
         PROVIDE_V_RETRY
<1>11. FailureIn(p, c)' = f
  BY <1>1, <1>6 DEF FailureIn, FailureOf
<1>12. Proper(p, where, d, c)' /\ DefaultsGrow
  BY <1>6, <1>9, <1>10, <1>11 DEF Proper, DefaultsGrow
<1>13. QED
  BY <1>5, <1>6, <1>7, <1>8, <1>12, PollerMoves

\* Passing the checks moves the poller on with what it had.
LEMMA ProceedSafe ==
  ASSUME Inductive, Safe, NEW p \in Pollers, Live(p), Proceed(p)
  PROVE  Safe'
<1>1. PICK d, c : d = dict[p] /\ c = call[p]
  OBVIOUS
<1>2. Moves(p, "checked", d, c)
  BY <1>1 DEF Proceed, Moves, Inductive, TypeOK
<1>3. UNCHANGED <<dflt, db, notices>> /\ HistoryGrows
  BY QuietHistory DEF Proceed
<1>4. RowsBacked' /\ NoticesBacked' /\ BackedDict(d)'
  BY <1>1, <1>3, UntouchedBacked, SafeFacts, BackedDictStays
<1>5. Placed(pc[p], d, c) /\ Final(d, c, FailureIn(p, c))
  BY <1>1, SafeFacts DEF FailureIn, FailureOf
<1>6. pc[p] \in {"ready", "commerr", "recheck"}
  BY DEF Proceed, Admitted, EntersProcess
<1>7. Placed("checked", d, c)
  BY <1>5, <1>6
     DEF Placed, Handled, FailedTargets, AtQuote, AtV, Waiting
<1>8. Proper(p, "checked", d, c)' /\ DefaultsGrow
  BY <1>3, <1>5, <1>7 DEF Proper, FailureIn, DefaultsGrow
<1>9. QED
  BY <1>2, <1>3, <1>4, <1>8, PollerMoves

\* "propagate all state" writes a backed dictionary.
LEMMA DispatchSafe ==
  ASSUME Inductive, Safe, NEW p \in Pollers, Live(p), NEW from, NEW new,
         Dispatch(p, from, new)
  PROVE  /\ HistoryGrows /\ RowsBacked' /\ BackedDict(dict[p])
         /\ UNCHANGED notices => NoticesBacked'
         /\ dict[p].op \in from /\ call[p].new = new
<1>1. HistoryGrows /\ db' = Stored(dict[p]) /\ dict[p].op \in from /\ call[p].new = new
  BY QuietHistory DEF Dispatch
<1>2. PICK d : d = dict[p]
  OBVIOUS
<1>3. d \in Dicts /\ d.id \in Agents /\ BackedDict(d)
  BY <1>2, PollerFacts, SafeFacts
<1>4. BackedDict(d)'
  BY <1>1, <1>3, BackedDictStays
<1>5. RowsBacked'
  BY <1>1, <1>2, <1>3, <1>4, StoredBacked DEF Inductive
<1>6. QED
  BY <1>1, <1>2, <1>3, <1>5, UntouchedBacked

\* A row deleted under the poller, and a pair of states without a branch.
LEMMA BrokenOffSafe ==
  ASSUME Inductive, Safe, NEW p \in Pollers, Live(p), RowGone(p) \/ FallOut(p)
  PROVE  Safe'
<1>1. PICK d : d = dict[p]
  OBVIOUS
<1>2. dict' = [dict EXCEPT ![p] = d] /\ FailWith(p, "internal", "recheck")
  BY <1>1 DEF RowGone, FallOut, Inductive, TypeOK
<1>3. BackedDict(d)
  BY <1>1, SafeFacts
<1>4. HistoryGrows /\ RowsBacked' /\ NoticesBacked'
  <2>1. CASE RowGone(p)
    BY <2>1, QuietHistory, UntouchedBacked DEF RowGone
  <2>2. CASE FallOut(p)
    BY <2>2, DispatchSafe DEF FallOut
  <2>3. QED
    BY <2>1, <2>2
<1>5. QED
  BY <1>2, <1>3, <1>4, OwnEventIds, FailingSafe

\* The retries ran out.
LEMMA CommErrorSafe ==
  ASSUME Inductive, Safe, NEW p \in Pollers, Live(p),
         Unreachable(p) \/ UnreachableForV(p)
  PROVE  Safe'
<1>1. PICK d : d = dict[p]
  OBVIOUS
<1>2. \E told : CommError(p, told)
  BY DEF Unreachable, UnreachableForV
<1>3. PICK where \in {"recheck", "commerr"} : FailWith(p, "not_reachable", where)
  BY <1>2 DEF CommError
<1>4. dict' = [dict EXCEPT ![p] = d]
  BY <1>1, <1>2 DEF CommError, Inductive, TypeOK
<1>5. HistoryGrows /\ RowsBacked' /\ BackedDict(d) /\ (UNCHANGED notices => NoticesBacked')
  BY <1>1, DispatchSafe DEF Unreachable, UnreachableForV
<1>6. NoticesBacked'
  BY <1>2, <1>5, NotifiedBacked DEF CommError, Inductive
<1>7. QED
  BY <1>3, <1>4, <1>5, <1>6, OwnEventIds, FailingSafe
-----------------------------------------------------------------------------
(* The branches of the dispatch *)

\* process_agent stops on the failure it has written.
LEMMA GiveUpSafe ==
  ASSUME Inductive, Safe, NEW p \in Pollers, Live(p), GiveUp(p)
  PROVE  Safe'
<1>1. HistoryGrows /\ RowsBacked' /\ NoticesBacked' /\ Idle(p) /\ UNCHANGED dflt
  BY DispatchSafe DEF GiveUp
<1>2. QED
  BY <1>1, StoppingSafe

\* Only a failed quote that is not of the highest severity lets polling go on.
LEMMA PollOnSafe ==
  ASSUME Inductive, Safe, NEW p \in Pollers, Live(p), PollOn(p)
  PROVE  Safe'
<1>1. HistoryGrows /\ RowsBacked' /\ NoticesBacked' /\ UNCHANGED dflt
      /\ call[p].new \in FailedTargets
  BY DispatchSafe DEF PollOn
<1>2. PICK d, c : d = dict[p] /\ c = call[p]
  OBVIOUS
<1>3. Moves(p, "quote", d, NewCall(GET_QUOTE)) /\ pc[p] \in {"checked", "notify"}
  BY <1>2 DEF PollOn, WaitAt, Moves, Dispatch, Propagates
<1>4. Placed(pc[p], d, c) /\ Final(d, c, FailureOf(p)) /\ BackedDict(d)
  BY <1>2, SafeFacts
<1>5. Mild(d)
  BY <1>1, <1>2, <1>4 DEF PollOn, Final, Mild
<1>6. d.op = INVALID_QUOTE
  <2>1. d.op \in FailedTargets
    BY <1>1, <1>2, <1>3, PollerFacts
  <2>2. d.op # FAILED
    BY <1>4 DEF Placed, Final, PollOn, Stops
  <2>3. QED
    BY <2>1, <2>2 DEF FailedTargets
<1>7. Placed("quote", d, NewCall(GET_QUOTE))
  BY <1>6 DEF Placed, NewCall, AtQuote, AtV, Waiting, INVALID_QUOTE, FAILED, GET_QUOTE,
              PROVIDE_V_RETRY
<1>8. GET_QUOTE \notin FailedTargets
  BY DEF FailedTargets, FAILED, INVALID_QUOTE, GET_QUOTE
<1>9. BackedDict(d)'
  BY <1>1, <1>4, BackedDictStays
<1>10. QED
  BY <1>1, <1>3, <1>5, <1>7, <1>8, <1>9, MildMove

\* A dictionary in a state of attestation has no failure recorded.
LEMMA AttestedIsMild ==
  ASSUME NEW d, d.last = NoEvent, d.op # INVALID_QUOTE
  PROVE  Mild(d)
BY MaxSevAssumption DEF Mild, NoEvent

\* A branch that leaves the poller at where, with the dictionary d.
LEMMA BranchSafe ==
  ASSUME Inductive, Safe, NEW p \in Pollers, Live(p),
         NEW from, from \subseteq ATTESTED_STATES, NEW new, Dispatch(p, from, new),
         NEW where, NEW d, WaitAt(p, where, d), UNCHANGED <<dflt, notices>>,
         d.last = dict[p].last, d.op \in ATTESTED_STATES,
         Placed(where, d, NewCall(GET_QUOTE)), BackedDict(d)
  PROVE  Safe'
<1>1. HistoryGrows /\ RowsBacked' /\ NoticesBacked'
  BY DispatchSafe
<1>2. d.last = NoEvent
  BY NoFailureYet DEF Dispatch
<1>3. Mild(d) /\ GET_QUOTE \notin FailedTargets
  BY <1>2, AttestedIsMild
     DEF ATTESTED_STATES, FailedTargets, FAILED, INVALID_QUOTE, GET_QUOTE, START, PROVIDE_V
<1>4. Moves(p, where, d, NewCall(GET_QUOTE)) /\ BackedDict(d)'
  BY <1>1, BackedDictStays DEF WaitAt, Moves
<1>5. QED
  BY <1>1, <1>3, <1>4, MildMove

\* The dictionary of a branch that only sets the state and the retries.
WithState(d, op) == [d EXCEPT !.retries = 0, !.op = op]

\* It is backed as before: no such branch makes an invalid quote of it.
LEMMA ResetDict ==
  ASSUME NEW d \in Dicts, NEW op \in VALID_STATES \ {INVALID_QUOTE}, BackedDict(d),
         NEW e, e = WithState(d, op)
  PROVE  /\ e.op = op /\ e.last = d.last /\ e.encV = d.encV /\ e.key = d.key /\ e.id = d.id
         /\ BackedDict(e) /\ e \in Dicts
<1>1. PICK f : f = [d EXCEPT !.retries = 0]
  OBVIOUS
<1>2. f \in Dicts /\ f.id = d.id /\ f.last = d.last /\ f.encV = d.encV /\ f.key = d.key
  BY <1>1, VerifierAssumption DEF Dicts
<1>3. e = [f EXCEPT !.op = op]
  BY <1>1 DEF Dicts, WithState
<1>4. /\ e.op = op /\ e.last = d.last /\ e.encV = d.encV /\ e.key = d.key /\ e.id = d.id
      /\ e \in Dicts
  BY <1>2, <1>3 DEF Dicts
<1>5. QED
  BY <1>4 DEF BackedDict, Backed

\* The branches that ask for a quote.
LEMMA QuoteBranchesSafe ==
  ASSUME Inductive, Safe, NEW p \in Pollers, Live(p), FirstQuote(p) \/ NextQuote(p)
  PROVE  Safe'
<1>1. PICK d : d = [dict[p] EXCEPT !.retries = 0, !.op = GET_QUOTE]
  OBVIOUS
<1>2. d.op = GET_QUOTE /\ d.last = dict[p].last /\ BackedDict(d)
  <2>1. dict[p] \in Dicts /\ BackedDict(dict[p])
    BY PollerFacts, SafeFacts
  <2>2. GET_QUOTE \in VALID_STATES \ {INVALID_QUOTE}
    BY DEF VALID_STATES, GET_QUOTE, INVALID_QUOTE
  <2>3. d = WithState(dict[p], GET_QUOTE)
    BY <1>1 DEF WithState
  <2>4. QED
    BY <2>1, <2>2, <2>3, ResetDict
<1>3. PICK where \in {"quote", "timerQ"} : WaitAt(p, where, d)
  BY <1>1 DEF FirstQuote, NextQuote
<1>4. Placed(where, d, NewCall(GET_QUOTE))
  BY <1>2 DEF Placed, NewCall, AtQuote, AtV, Waiting, FAILED, GET_QUOTE, PROVIDE_V_RETRY
<1>5. d.op \in ATTESTED_STATES /\ UNCHANGED <<dflt, notices>>
  BY <1>2 DEF ATTESTED_STATES, FirstQuote, NextQuote
<1>6. CASE FirstQuote(p)
  BY <1>2, <1>3, <1>4, <1>5, <1>6, FromStates, BranchSafe DEF FirstQuote
<1>7. CASE NextQuote(p)
  BY <1>2, <1>3, <1>4, <1>5, <1>7, FromStates, BranchSafe DEF NextQuote
<1>8. QED
  BY <1>6, <1>7

\* The branches for V: it goes out under the dictionary's own key.
LEMMA VBranchesSafe ==
  ASSUME Inductive, Safe, NEW p \in Pollers, Live(p),
         ProvideV(p) \/ ProvideVWithoutKey(p) \/ NoV(p)
  PROVE  Safe'
<1>1. PICK d : d = InProvideV(dict[p])
  OBVIOUS
<1>2. /\ d.op = PROVIDE_V /\ d.last = dict[p].last /\ BackedDict(d) /\ d \in Dicts
      /\ d.encV = dict[p].encV /\ d.key = dict[p].key
  <2>1. dict[p] \in Dicts /\ BackedDict(dict[p])
    BY PollerFacts, SafeFacts
  <2>2. PROVIDE_V \in VALID_STATES \ {INVALID_QUOTE}
    BY DEF VALID_STATES, PROVIDE_V, INVALID_QUOTE
  <2>3. d = WithState(dict[p], PROVIDE_V)
    BY <1>1 DEF InProvideV, WithState
  <2>4. QED
    BY <2>1, <2>2, <2>3, ResetDict
<1>3. Dispatch(p, {GET_QUOTE}, PROVIDE_V) /\ {GET_QUOTE} \subseteq ATTESTED_STATES
  BY FromStates DEF ProvideV, ProvideVWithoutKey, NoV
<1>4. CASE ProvideV(p)
  <2>1. PICK e : e = PreparedV(d)
    OBVIOUS
  <2>2. e.op = PROVIDE_V /\ e.last = d.last /\ e.encV # None /\ BackedDict(e)
    <3>1. CASE d.encV # None
      BY <1>2, <2>1, <3>1 DEF PreparedV
    <3>2. CASE d.encV = None
      <4>1. /\ e.op = d.op /\ e.last = d.last /\ e.key = d.key /\ e.id = d.id
            /\ e.encV = d.key
        BY <1>2, <2>1, <3>2 DEF PreparedV, Dicts
      <4>2. d.key # None
        BY <1>2, <1>4, <3>2 DEF ProvideV
      <4>3. QED
        BY <1>2, <4>1, <4>2 DEF BackedDict, Backed
    <3>3. QED
      BY <3>1, <3>2
  <2>3. WaitAt(p, "vkey", e) /\ UNCHANGED <<dflt, notices>>
    BY <1>1, <1>4, <2>1 DEF ProvideV
  <2>4. Placed("vkey", e, NewCall(GET_QUOTE)) /\ e.op \in ATTESTED_STATES
    BY <2>2 DEF Placed, NewCall, AtQuote, AtV, Waiting, FAILED, GET_QUOTE, PROVIDE_V,
                ATTESTED_STATES
  <2>5. QED
    BY <1>2, <1>3, <2>2, <2>3, <2>4, BranchSafe
<1>5. CASE ProvideVWithoutKey(p)
  <2>1. dict' = [dict EXCEPT ![p] = d] /\ FailWith(p, "internal", "recheck") /\ UNCHANGED notices
    BY <1>1, <1>5 DEF ProvideVWithoutKey
  <2>2. HistoryGrows /\ RowsBacked' /\ NoticesBacked'
    BY <1>3, <2>1, DispatchSafe
  <2>3. QED
    BY <1>2, <2>1, <2>2, OwnEventIds, FailingSafe
<1>6. CASE NoV(p)
  <2>1. WaitAt(p, "recheck", d) /\ UNCHANGED <<dflt, notices>>
    BY <1>1, <1>6 DEF NoV, WaitAt
  <2>2. Placed("recheck", d, NewCall(GET_QUOTE)) /\ d.op \in ATTESTED_STATES
    BY <1>2 DEF Placed, NewCall, Handled, AtQuote, AtV, Waiting, FAILED, GET_QUOTE,
                PROVIDE_V, PROVIDE_V_RETRY, ATTESTED_STATES
  <2>3. QED
    BY <1>2, <1>3, <2>1, <2>2, BranchSafe
<1>7. QED
  BY <1>4, <1>5, <1>6

\* A retry leaves the dictionary as it was but for the count.
LEMMA RetriesSafe ==
  ASSUME Inductive, Safe, NEW p \in Pollers, Live(p), RetryQuote(p) \/ RetryV(p)
  PROVE  Safe'
<1>1. PICK d, c : d = Retry(dict[p]) /\ c = call[p]
  OBVIOUS
<1>2. /\ d.op = dict[p].op /\ d.last = dict[p].last /\ d.encV = dict[p].encV
      /\ d.key = dict[p].key /\ d.id = dict[p].id
  BY <1>1, PollerFacts DEF Retry, Dicts
<1>3. BackedDict(d)
  BY <1>2, SafeFacts DEF BackedDict, Backed
<1>4. CASE RetryQuote(p)
  <2>1. Dispatch(p, {GET_QUOTE}, GET_QUOTE_RETRY) /\ WaitAt(p, "timerQ", d)
        /\ UNCHANGED <<dflt, notices>> /\ d.op = GET_QUOTE
    BY <1>1, <1>2, <1>4 DEF RetryQuote, Dispatch
  <2>2. Placed("timerQ", d, NewCall(GET_QUOTE)) /\ d.op \in ATTESTED_STATES
    BY <2>1 DEF Placed, NewCall, AtQuote, AtV, Waiting, FAILED, GET_QUOTE, PROVIDE_V_RETRY,
                ATTESTED_STATES
  <2>3. QED
    BY <1>2, <1>3, <2>1, <2>2, FromStates, BranchSafe
<1>5. CASE RetryV(p)
  <2>1. Dispatch(p, {PROVIDE_V}, PROVIDE_V_RETRY) /\ WaitAt(p, "timerV", d)
        /\ UNCHANGED <<dflt, notices>> /\ d.op = PROVIDE_V /\ c.new = PROVIDE_V_RETRY
    BY <1>1, <1>2, <1>5 DEF RetryV, Dispatch
  <2>2. d.encV # None
    BY <1>1, <1>2, <2>1, SafeFacts DEF Placed
  <2>3. Placed("timerV", d, NewCall(GET_QUOTE)) /\ d.op \in ATTESTED_STATES
    BY <2>1, <2>2 DEF Placed, NewCall, AtQuote, AtV, Waiting, FAILED, GET_QUOTE, PROVIDE_V,
                ATTESTED_STATES
  <2>4. QED
    BY <1>2, <1>3, <2>1, <2>3, FromStates, BranchSafe
<1>6. QED
  BY <1>4, <1>5

\* Every step of process_agent keeps the invariant.
LEMMA ProcessingSafe ==
  ASSUME Inductive, Safe, NEW p \in Pollers, Live(p), Processing(p)
  PROVE  Safe'
BY StopSafe, RecordFailureSafe, ProceedSafe, BrokenOffSafe, GiveUpSafe, PollOnSafe,
   QuoteBranchesSafe, VBranchesSafe, RetriesSafe, CommErrorSafe
   DEF Processing
-----------------------------------------------------------------------------
(* Timers and replies *)

\* The fields the invariant reads.
Alike(d, e) ==
  /\ e.id = d.id /\ e.op = d.op /\ e.last = d.last
  /\ e.key = d.key /\ e.encV = d.encV

LEMMA AlikeBacked ==
  ASSUME NEW d, NEW e, Alike(d, e), BackedDict(d)
  PROVE  BackedDict(e)
BY DEF Alike, BackedDict, Backed

LEMMA AlikeMild ==
  ASSUME NEW d, NEW e, e.op = d.op, e.last = d.last, Mild(d)
  PROVE  Mild(e)
BY DEF Mild

\* A poller that asked for a quote was not asked to do more than that.
LEMMA AtQuoteFacts ==
  ASSUME Inductive, Safe, NEW p \in Pollers, pc[p] \in AtQuote \union AtV
  PROVE  /\ Live(p) /\ BackedDict(dict[p]) /\ Mild(dict[p])
         /\ pc[p] \in AtQuote => dict[p].op \in {GET_QUOTE, INVALID_QUOTE}
         /\ pc[p] \in AtV => dict[p].op = PROVIDE_V /\ dict[p].encV # None
         /\ dict[p].op # FAILED
<1>1. Live(p) /\ pc[p] \in Waiting
  BY DEF Live, AtQuote, AtV, Waiting
<1>2. Placed(pc[p], dict[p], call[p]) /\ BackedDict(dict[p]) /\ Mild(dict[p])
  BY <1>1, SafeFacts
<1>3. QED
  BY <1>1, <1>2 DEF Placed, GET_QUOTE, INVALID_QUOTE, PROVIDE_V, FAILED

\* What an answer to a quote may ask for next.
LEMMA QuoteAnswers ==
  ASSUME NEW d, d.op \in {GET_QUOTE, INVALID_QUOTE}, NEW new, NEW c, c.new = new,
         new \in {GET_QUOTE, PROVIDE_V, GET_QUOTE_RETRY, FAILED, INVALID_QUOTE}
  PROVE  Placed("ready", d, c)
BY DEF Placed, Handled, FailedTargets, AtQuote, AtV, Waiting, GET_QUOTE, PROVIDE_V,
       GET_QUOTE_RETRY, FAILED, INVALID_QUOTE, PROVIDE_V_RETRY

\* What an answer to a V key may ask for next.
LEMMA VAnswers ==
  ASSUME NEW d, d.op = PROVIDE_V, d.encV # None, NEW new, NEW c, c.new = new,
         new \in {GET_QUOTE, PROVIDE_V_RETRY, FAILED}
  PROVE  Placed("ready", d, c)
BY DEF Placed, Handled, FailedTargets, AtQuote, AtV, Waiting, GET_QUOTE, PROVIDE_V,
       GET_QUOTE_RETRY, FAILED, INVALID_QUOTE, PROVIDE_V_RETRY

\* The position in the log is nothing the rows' keys and states depend on.
LEMMA PositionBacked ==
  ASSUME Inductive, Safe, HistoryGrows, NEW p \in Pollers, NEW b, StorePosition(p, b)
  PROVE  RowsBacked'
<1>1. \A a \in Agents : db'[a] = db[a] \/ (db[a] # None /\ db'[a] = [db[a] EXCEPT !.boot = TRUE])
  BY DEF StorePosition, Inductive, TypeOK
<1>2. \A a \in Agents : db[a] # None => db[a] \in Rows
  BY DEF Inductive, TypeOK
<1>3. ASSUME NEW r \in Rows
      PROVE  [r EXCEPT !.boot = TRUE].op = r.op /\ [r EXCEPT !.boot = TRUE].key = r.key
  BY DEF Rows
<1>4. \A a \in Agents : db'[a] # None =>
        db[a] # None /\ db'[a].op = db[a].op /\ db'[a].key = db[a].key
  BY <1>1, <1>2, <1>3
<1>5. QED
  BY <1>4 DEF Safe, RowsBacked, Backed, HistoryGrows

\* A reply that schedules a call without a failure.
LEMMA GoodReply ==
  ASSUME Inductive, Safe, NEW p \in Pollers, NEW d, NEW new,
         new \notin FailedTargets, Schedule(p, d, NewCall(new)),
         Mild(d), Placed("ready", d, NewCall(new)), BackedDict(d)',
         HistoryGrows, UNCHANGED <<dflt, notices>>, RowsBacked'
  PROVE  Safe'
<1>1. Moves(p, "ready", d, NewCall(new))
  BY DEF Schedule, Moves
<1>2. NoticesBacked'
  BY UntouchedBacked
<1>3. QED
  BY <1>1, <1>2, MildMove

\* A reply that schedules a call with a failure that ends the polling when the
\* target or the policy says so.
LEMMA BadReply ==
  ASSUME Inductive, Safe, NEW p \in Pollers, NEW d, NEW new \in FailedTargets, NEW f,
         Schedule(p, d, FailCall(new, f)),
         Mild(d), Placed("ready", d, FailCall(new, f)), BackedDict(d)',
         new = FAILED => ~f.recoverable, AllStop => Stops(f),
         HistoryGrows, UNCHANGED <<dflt, notices>>, RowsBacked'
  PROVE  Safe'
<1>1. PICK c : c = FailCall(new, f)
  OBVIOUS
<1>2. c.new = new /\ c.failure = f /\ c.shared = FALSE
  BY <1>1 DEF FailCall
<1>3. Moves(p, "ready", d, c) /\ DefaultsGrow /\ NoticesBacked'
  BY <1>1, UntouchedBacked DEF Schedule, Moves, DefaultsGrow
<1>4. FailureIn(p, c)' = f
  BY <1>2 DEF FailureIn
<1>5. Final(d, c, f)
  BY <1>2 DEF Final, Mild
<1>6. Proper(p, "ready", d, c)'
  BY <1>1, <1>4, <1>5 DEF Proper
<1>7. QED
  BY <1>3, <1>6, PollerMoves
-----------------------------------------------------------------------------
\* No attestation state but the failed ones is a failure's target.
LEMMA GoodTargets ==
  \A new \in {GET_QUOTE, GET_QUOTE_RETRY, PROVIDE_V, PROVIDE_V_RETRY} :
    new \notin FailedTargets
BY DEF FailedTargets, GET_QUOTE, GET_QUOTE_RETRY, PROVIDE_V, PROVIDE_V_RETRY, FAILED,
       INVALID_QUOTE

\* The public key in a reply is not yet the dictionary's.
LEMMA WithPubkeyAlike ==
  ASSUME NEW d \in Dicts, NEW k
  PROVE  Alike(d, WithPubkey(d, k))
BY DEF WithPubkey, Dicts, Alike

\* A key is taken into the dictionary together with the quote it verified, and
\* V is forgotten when it was encrypted for another one.
LEMMA AcceptedBacked ==
  ASSUME NEW d \in Dicts, NEW key \in Keys, BackedDict(d)
  PROVE  /\ Accepted(d, key).op = d.op /\ Accepted(d, key).last = d.last
         /\ Accepted(d, key).id = d.id /\ Accepted(d, key).key = key
         /\ Accepted(d, key).encV # None => Accepted(d, key).encV = key
<1>1. PICK e : e = [d EXCEPT !.attested = TRUE]
  OBVIOUS
<1>2. e \in Dicts /\ Alike(d, e)
  BY <1>1 DEF Dicts, Alike
<1>3. PICK f : f = [e EXCEPT !.key = key]
  OBVIOUS
<1>4. /\ f \in Dicts /\ f.id = d.id /\ f.op = d.op /\ f.last = d.last
      /\ f.key = key /\ f.encV = d.encV
  BY <1>2, <1>3 DEF Dicts, Alike
<1>5. PICK g : g = [f EXCEPT !.encV = None]
  OBVIOUS
<1>6. /\ g \in Dicts /\ g.id = d.id /\ g.op = d.op /\ g.last = d.last
      /\ g.key = key /\ g.encV = None
  BY <1>4, <1>5 DEF Dicts
<1>7. PICK h : h = [g EXCEPT !.provideV = TRUE]
  OBVIOUS
<1>8. /\ h.id = d.id /\ h.op = d.op /\ h.last = d.last /\ h.key = key /\ h.encV = None
  BY <1>6, <1>7 DEF Dicts
<1>9. h = [d EXCEPT !.attested = TRUE, !.key = key, !.encV = None, !.provideV = TRUE]
  BY <1>1, <1>3, <1>5, <1>7 DEF Dicts
<1>10. CASE key # d.key
  BY <1>8, <1>9, <1>10 DEF Accepted
<1>11. CASE key = d.key
  BY <1>1, <1>2, <1>11 DEF Accepted, Alike, BackedDict
<1>12. QED
  BY <1>10, <1>11

\* A verified quote vouches for the key it came with.
LEMMA QuoteVerifiedSafe ==
  ASSUME Inductive, Safe, NEW p \in Pollers, NEW k \in Keys \union {None},
         NEW b \in Positions, QuoteVerified(p, k, b)
  PROVE  Safe'
<1>1. PICK d : d = WithPubkey(dict[p], k)
  OBVIOUS
<1>2. PICK key : key = IF k = None THEN d.key ELSE k
  OBVIOUS
<1>3. PICK e : e = Accepted(d, key)
  OBVIOUS
<1>4. /\ pc[p] = "quote" /\ (k = None => ~NoCachedKey(d)) /\ AfterQuote(p, e)
      /\ verified' = verified \union {<<d.id, key>>} /\ StorePosition(p, b)
      /\ UNCHANGED <<dflt, notices, announced>>
  BY <1>1, <1>2, <1>3 DEF QuoteVerified, Awaits
<1>5. /\ Live(p) /\ BackedDict(dict[p]) /\ Mild(dict[p])
      /\ dict[p].op \in {GET_QUOTE, INVALID_QUOTE}
  BY <1>4, AtQuoteFacts DEF AtQuote
<1>6. dict[p] \in Dicts /\ d \in Dicts /\ Alike(dict[p], d)
  BY <1>1, <1>5, PollerFacts, ReplyDicts, WithPubkeyAlike
<1>7. BackedDict(d)
  BY <1>5, <1>6, AlikeBacked
<1>8. key \in Keys
  BY <1>2, <1>4, <1>6 DEF NoCachedKey, Dicts
<1>9. /\ e.op = dict[p].op /\ e.last = dict[p].last /\ e.id = d.id /\ e.key = key
      /\ e.encV # None => e.encV = key
  BY <1>3, <1>6, <1>7, <1>8, AcceptedBacked DEF Alike
<1>10. HistoryGrows
  BY <1>4 DEF HistoryGrows
<1>11. BackedDict(e)'
  BY <1>4, <1>6, <1>7, <1>9 DEF BackedDict, Backed, Alike
<1>12. Mild(e) /\ e.op \in {GET_QUOTE, INVALID_QUOTE}
  BY <1>5, <1>9, AlikeMild
<1>13. RowsBacked'
  BY <1>4, <1>10, PositionBacked
<1>14. PICK new \in {GET_QUOTE, PROVIDE_V} : Schedule(p, e, NewCall(new))
  BY <1>4 DEF AfterQuote
<1>15. Placed("ready", e, NewCall(new)) /\ new \notin FailedTargets
  BY <1>12, QuoteAnswers, GoodTargets DEF NewCall
<1>16. QED
  BY <1>4, <1>10, <1>11, <1>12, <1>13, <1>14, <1>15, GoodReply

\* A reply that shows a reboot vouches for nothing and changes no key.
LEMMA QuoteAfterRebootSafe ==
  ASSUME Inductive, Safe, NEW p \in Pollers, NEW k \in Keys \union {None},
         QuoteAfterReboot(p, k)
  PROVE  Safe'
<1>1. PICK d : d = WithPubkey(dict[p], k)
  OBVIOUS
<1>2. /\ pc[p] = "quote" /\ AfterQuote(p, d) /\ StorePosition(p, FALSE)
      /\ UNCHANGED <<dflt, notices, announced, verified>>
  BY <1>1 DEF QuoteAfterReboot, Awaits
<1>3. /\ Live(p) /\ BackedDict(dict[p]) /\ Mild(dict[p])
      /\ dict[p].op \in {GET_QUOTE, INVALID_QUOTE}
  BY <1>2, AtQuoteFacts DEF AtQuote
<1>4. Alike(dict[p], d)
  BY <1>1, <1>3, PollerFacts, WithPubkeyAlike
<1>5. Mild(d) /\ BackedDict(d) /\ d.op \in {GET_QUOTE, INVALID_QUOTE}
  BY <1>3, <1>4, AlikeMild, AlikeBacked DEF Alike
<1>6. HistoryGrows /\ RowsBacked' /\ BackedDict(d)'
  BY <1>2, <1>5, QuietHistory, PositionBacked, BackedDictStays
<1>7. PICK new \in {GET_QUOTE, PROVIDE_V} : Schedule(p, d, NewCall(new))
  BY <1>2 DEF AfterQuote
<1>8. Placed("ready", d, NewCall(new)) /\ new \notin FailedTargets
  BY <1>5, QuoteAnswers, GoodTargets DEF NewCall
<1>9. QED
  BY <1>2, <1>5, <1>6, <1>7, <1>8, GoodReply

\* A rejected quote, or one without a key where one is needed.
LEMMA QuoteRejectedSafe ==
  ASSUME Inductive, Safe, NEW p \in Pollers, NEW k \in Keys \union {None},
         \/ \E f \in QuoteFailures, b \in Positions : QuoteRejected(p, k, f, b)
         \/ NoPublicKey(p)
  PROVE  Safe'
<1>1. pc[p] = "quote" /\ UNCHANGED <<dflt, notices, announced, verified>>
  BY DEF QuoteRejected, NoPublicKey, Awaits
<1>2. /\ Live(p) /\ BackedDict(dict[p]) /\ Mild(dict[p])
      /\ dict[p].op \in {GET_QUOTE, INVALID_QUOTE}
  BY <1>1, AtQuoteFacts DEF AtQuote
<1>3. HistoryGrows
  BY <1>1, QuietHistory
<1>4. RowsBacked'
  BY <1>3, UntouchedBacked, PositionBacked DEF QuoteRejected, NoPublicKey
<1>5. PICK d, f : /\ Schedule(p, d, FailCall(INVALID_QUOTE, f))
                  /\ d = dict[p] \/ d = WithPubkey(dict[p], k)
                  /\ f \in QuoteFailures \/ f = FatalFailure("no_pubkey")
  BY DEF QuoteRejected, NoPublicKey
<1>6. Alike(dict[p], d)
  BY <1>2, <1>5, PollerFacts, WithPubkeyAlike DEF Alike
<1>7. Mild(d) /\ BackedDict(d)' /\ d.op \in {GET_QUOTE, INVALID_QUOTE}
  BY <1>2, <1>3, <1>6, AlikeMild, AlikeBacked, BackedDictStays DEF Alike
<1>8. AllStop => Stops(f)
  BY <1>5, FatalIsFatal DEF AllStop, Stops
<1>9. INVALID_QUOTE \in FailedTargets /\ INVALID_QUOTE # FAILED
  BY DEF FailedTargets, INVALID_QUOTE, FAILED
<1>10. Placed("ready", d, FailCall(INVALID_QUOTE, f))
  BY <1>7, QuoteAnswers DEF FailCall
<1>11. QED
  BY <1>1, <1>3, <1>4, <1>5, <1>7, <1>8, <1>9, <1>10, BadReply

\* Replies after which the dictionary is what it was.
LEMMA PlainRepliesSafe ==
  ASSUME Inductive, Safe, NEW p \in Pollers, Live(p),
         \/ VkeyAccepted(p) \/ ConnectionError(p) \/ BadAnswer(p) \/ VersionNotUpdated(p)
  PROVE  Safe'
<1>1. /\ pc[p] \in {"quote", "versionQ", "vkey", "versionV"}
      /\ UNCHANGED <<db, dflt, notices, announced, verified>>
  BY DEF VkeyAccepted, ConnectionError, BadAnswer, VersionNotUpdated, Awaits
<1>2. pc[p] \in AtQuote \union AtV
  BY <1>1 DEF AtQuote, AtV
<1>3. PICK d : d = dict[p]
  OBVIOUS
<1>4. /\ BackedDict(d) /\ Mild(d)
      /\ pc[p] \in AtQuote => d.op \in {GET_QUOTE, INVALID_QUOTE}
      /\ pc[p] \in AtV => d.op = PROVIDE_V /\ d.encV # None
  BY <1>2, <1>3, AtQuoteFacts
<1>5. HistoryGrows /\ RowsBacked' /\ BackedDict(d)'
  BY <1>1, <1>4, QuietHistory, UntouchedBacked, BackedDictStays
<1>6. CASE VkeyAccepted(p) \/ ConnectionError(p)
  <2>1. PICK new \in {GET_QUOTE, GET_QUOTE_RETRY, PROVIDE_V_RETRY} :
          /\ Schedule(p, d, NewCall(new))
          /\ new = GET_QUOTE_RETRY => pc[p] = "quote"
          /\ new # GET_QUOTE_RETRY => pc[p] = "vkey"
    BY <1>3, <1>6
       DEF VkeyAccepted, ConnectionError, Awaits, GET_QUOTE, GET_QUOTE_RETRY, PROVIDE_V_RETRY
  <2>2. Placed("ready", d, NewCall(new)) /\ new \notin FailedTargets
    BY <1>4, <2>1, QuoteAnswers, VAnswers, GoodTargets DEF NewCall, AtQuote, AtV
  <2>3. QED
    BY <1>1, <1>4, <1>5, <2>1, <2>2, GoodReply
<1>7. CASE BadAnswer(p) \/ VersionNotUpdated(p)
  <2>1. PICK f : f = FatalFailure("internal")
    OBVIOUS
  <2>2. Schedule(p, d, FailCall(FAILED, f))
    BY <1>3, <1>7, <2>1 DEF BadAnswer, VersionNotUpdated
  <2>3. Placed("ready", d, FailCall(FAILED, f)) /\ FAILED \in FailedTargets
    BY <1>2, <1>4, QuoteAnswers, VAnswers DEF FailCall, FailedTargets
  <2>4. ~f.recoverable /\ Stops(f)
    BY <2>1, FatalIsFatal DEF Stops
  <2>5. QED
    BY <1>1, <1>4, <1>5, <2>2, <2>3, <2>4, BadReply
<1>8. QED
  BY <1>6, <1>7

\* A timer, and an answer that makes the verifier ask for the version.
LEMMA WaitOnSafe ==
  ASSUME Inductive, Safe, NEW p \in Pollers, Live(p), TimerFires(p) \/ VersionRefused(p)
  PROVE  Safe'
<1>1. PICK d, c : d = dict[p] /\ c = call'[p]
  OBVIOUS
<1>2. /\ pc[p] \in {"timerQ", "timerV", "quote", "vkey"}
      /\ UNCHANGED <<db, dflt, notices, announced, verified>>
  BY DEF TimerFires, VersionRefused, Awaits
<1>3. pc[p] \in AtQuote \union AtV /\ pc[p] \in Waiting
  BY <1>2 DEF AtQuote, AtV, Waiting
<1>4. /\ BackedDict(d) /\ Mild(d) /\ Placed(pc[p], d, call[p]) /\ call[p].new = GET_QUOTE
  BY <1>1, <1>3, AtQuoteFacts, SafeFacts DEF Placed
<1>5. PICK where \in {"quote", "vkey", "versionQ", "versionV"} :
        /\ Moves(p, where, d, c) /\ c.new = GET_QUOTE
        /\ pc[p] \in {"timerQ", "quote"} => where \in {"quote", "versionQ"}
        /\ pc[p] \in {"timerV", "vkey"} => where \in {"vkey", "versionV"}
  <2>1. CASE TimerFires(p)
    BY <1>1, <1>4, <2>1 DEF TimerFires, Moves, Inductive, TypeOK
  <2>2. CASE VersionRefused(p)
    BY <1>1, <2>2 DEF VersionRefused, Awaits, WaitAt, Moves, NewCall, Inductive, TypeOK
  <2>3. QED
    BY <2>1, <2>2
<1>6. Placed(where, d, c)
  BY <1>2, <1>4, <1>5 DEF Placed, AtQuote, AtV, Waiting
<1>7. GET_QUOTE \notin FailedTargets
  BY GoodTargets
<1>8. \A f : Final(d, c, f)
  BY <1>4, <1>5, <1>7 DEF Final, Mild, FAILED, GET_QUOTE
<1>9. Proper(p, where, d, c)' /\ DefaultsGrow
  BY <1>2, <1>6, <1>8 DEF Proper, DefaultsGrow
<1>10. HistoryGrows /\ RowsBacked' /\ NoticesBacked' /\ BackedDict(d)'
  BY <1>2, <1>4, QuietHistory, UntouchedBacked, BackedDictStays
<1>11. QED
  BY <1>5, <1>9, <1>10, PollerMoves
-----------------------------------------------------------------------------
(* Version updates *)

\* A later version in a dictionary changes nothing the invariant reads.
LEMMA LaterVersionAlike ==
  ASSUME NEW d \in Dicts, d.version < MaxVersion
  PROVE  /\ [d EXCEPT !.version = @ + 1] \in Dicts
         /\ Alike(d, [d EXCEPT !.version = @ + 1])
BY VerifierAssumption DEF Dicts, Alike

\* The agent answered with its version, which is stored through the dictionary.
LEMMA VersionUpdatedSafe ==
  ASSUME Inductive, Safe, NEW p \in Pollers, Live(p), VersionUpdated(p)
  PROVE  Safe'
<1>1. PICK d : d = [dict[p] EXCEPT !.version = @ + 1]
  OBVIOUS
<1>2. /\ pc[p] \in {"versionQ", "versionV"} /\ db' = Stored(d) /\ dict[p].version < MaxVersion
      /\ UNCHANGED <<dflt, notices, announced, verified>>
  BY <1>1 DEF VersionUpdated, Awaits
<1>3. pc[p] \in AtQuote \union AtV
  BY <1>2 DEF AtQuote, AtV
<1>4. dict[p] \in Dicts /\ dict[p].id \in Agents
  BY PollerFacts
<1>5. d \in Dicts /\ Alike(dict[p], d)
  BY <1>1, <1>2, <1>4, LaterVersionAlike
<1>6. /\ BackedDict(d) /\ Mild(d)
      /\ pc[p] \in AtQuote => d.op \in {GET_QUOTE, INVALID_QUOTE}
      /\ pc[p] \in AtV => d.op = PROVIDE_V /\ d.encV # None
  BY <1>3, <1>5, AtQuoteFacts, AlikeBacked, AlikeMild DEF Alike
<1>7. HistoryGrows /\ BackedDict(d)'
  BY <1>2, <1>6, QuietHistory, BackedDictStays
<1>8. d.id \in Agents
  BY <1>4, <1>5 DEF Alike
<1>9. RowsBacked'
  BY <1>2, <1>5, <1>7, <1>8, StoredBacked DEF Inductive
<1>10. PICK new \in {GET_QUOTE_RETRY, PROVIDE_V_RETRY} :
        /\ Schedule(p, d, NewCall(new))
        /\ new = GET_QUOTE_RETRY => pc[p] = "versionQ"
        /\ new # GET_QUOTE_RETRY => pc[p] = "versionV"
  BY <1>1 DEF VersionUpdated, Awaits, GET_QUOTE_RETRY, PROVIDE_V_RETRY
<1>11. Placed("ready", d, NewCall(new)) /\ new \notin FailedTargets
  BY <1>6, <1>10, QuoteAnswers, VAnswers, GoodTargets DEF NewCall, AtQuote, AtV
<1>12. QED
  BY <1>2, <1>6, <1>7, <1>9, <1>10, <1>11, GoodReply

\* A notice to the poller's own agent is refused.
LEMMA NoticeToSelfSafe ==
  ASSUME Inductive, Safe, NEW p \in Pollers, Live(p), NoticeToSelf(p)
  PROVE  Safe'
<1>1. PICK d, c, where : /\ d = [dict[p] EXCEPT !.version = @ + 1]
                         /\ c = call[p] /\ where = pc[p]
  OBVIOUS
<1>2. /\ dict' = [dict EXCEPT ![p] = d] /\ db' = Stored(d)
      /\ dict[p].version < MaxVersion
      /\ UNCHANGED <<pc, call, dflt, notices, announced, verified>>
  BY <1>1 DEF NoticeToSelf
<1>3. dict[p] \in Dicts /\ dict[p].id \in Agents
  BY PollerFacts
<1>4. d \in Dicts /\ Alike(dict[p], d)
  BY <1>1, <1>2, <1>3, LaterVersionAlike
<1>5. Placed(where, dict[p], c) /\ Final(dict[p], c, FailureIn(p, c)) /\ BackedDict(dict[p])
  BY <1>1, SafeFacts DEF FailureIn, FailureOf
<1>6. Placed(where, d, c) /\ Final(d, c, FailureIn(p, c))
  BY <1>4, <1>5 DEF Placed, Final, Alike, Handled
<1>7. HistoryGrows /\ NoticesBacked' /\ DefaultsGrow
  BY <1>2, QuietHistory, UntouchedBacked DEF DefaultsGrow
<1>8. BackedDict(d)' /\ d.id \in Agents
  BY <1>3, <1>4, <1>5, <1>7, AlikeBacked, BackedDictStays DEF Alike
<1>9. RowsBacked'
  BY <1>2, <1>4, <1>7, <1>8, StoredBacked DEF Inductive
<1>10. Proper(p, where, d, c)'
  BY <1>2, <1>6 DEF Proper, FailureIn
<1>11. Moves(p, where, d, c)
  BY <1>1, <1>2 DEF Moves, Inductive, TypeOK
<1>12. QED
  BY <1>7, <1>8, <1>9, <1>10, <1>11, PollerMoves

\* A notice that is refused is stored and sent again.
LEMMA NoticeRefusedSafe ==
  ASSUME Inductive, Safe, NEW n \in notices, NoticeRefused(n)
  PROVE  Safe'
<1>1. PICK d : d = [n[2] EXCEPT !.version = @ + 1]
  OBVIOUS
<1>2. /\ db' = Stored(d) /\ n[2].version < MaxVersion
      /\ \A m \in notices' : m \in notices \/ m[2] = d
      /\ UNCHANGED <<pc, dict, call, dflt, announced, verified>>
  BY <1>1 DEF NoticeRefused
<1>3. n[2] \in Dicts /\ n[2].id \in Agents /\ BackedDict(n[2])
  BY DEF Inductive, NoticesSound, Safe, NoticesBacked
<1>4. d \in Dicts /\ Alike(n[2], d)
  BY <1>1, <1>2, <1>3, LaterVersionAlike
<1>5. HistoryGrows /\ d.id \in Agents /\ BackedDict(d)
  BY <1>2, <1>3, <1>4, QuietHistory, AlikeBacked DEF Alike
<1>6. BackedDict(d)'
  BY <1>5, BackedDictStays
<1>7. RowsBacked'
  BY <1>2, <1>4, <1>5, <1>6, StoredBacked DEF Inductive
<1>8. NoticesBacked'
  BY <1>2, <1>5 DEF Safe, NoticesBacked, HistoryGrows, BackedDict, Backed
<1>9. DictsBacked' /\ PollersProper'
  BY <1>2 DEF Safe, DictsBacked, BackedDict, Backed, PollersProper, Proper, FailureIn
<1>10. QED
  BY <1>7, <1>8, <1>9 DEF Safe
-----------------------------------------------------------------------------
(* The REST handlers, the restart and the hosts *)

\* A step of nobody's poller that keeps the rows' keys and announced states.
LEMMA OutsideSafe ==
  ASSUME Inductive, Safe,
         UNCHANGED <<pc, dict, call, dflt, notices, announced, verified>>,
         \A a \in Agents : db'[a] # None =>
           /\ db[a] # None /\ db'[a].key = db[a].key
           /\ db'[a].op = db[a].op \/ db'[a].op # INVALID_QUOTE
  PROVE  Safe'
<1>1. RowsBacked'
  BY DEF Safe, RowsBacked, Backed
<1>2. NoticesBacked'
  BY DEF Safe, NoticesBacked, BackedDict, Backed
<1>3. DictsBacked'
  BY DEF Safe, DictsBacked, BackedDict, Backed
<1>4. PollersProper'
  BY DEF Safe, PollersProper, Proper, FailureIn
<1>5. QED
  BY <1>1, <1>2, <1>3, <1>4 DEF Safe

\* DELETE and stop.
LEMMA DeleteStopSafe ==
  ASSUME Inductive, Safe, NEW w \in Workers, NEW a \in Agents, Delete(w, a) \/ Stop(w, a)
  PROVE  Safe'
<1>1. UNCHANGED <<pc, dict, call, dflt, notices, announced, verified>> /\ db[a] # None
  BY DEF Delete, Stop
<1>2. db[a] \in Rows
  BY <1>1 DEF Inductive, TypeOK
<1>3. PICK r : r = db[a]
  OBVIOUS
<1>4. \A op \in {TERMINATED, TENANT_FAILED} :
        [r EXCEPT !.op = op].op = op /\ [r EXCEPT !.op = op].key = r.key
  BY <1>2, <1>3 DEF Rows
<1>5. \A op \in {TERMINATED, TENANT_FAILED} : op # INVALID_QUOTE
  BY DEF TERMINATED, TENANT_FAILED, INVALID_QUOTE
<1>6. \/ db' = [db EXCEPT ![a] = None]
      \/ \E op \in {TERMINATED, TENANT_FAILED} : db' = [db EXCEPT ![a] = [r EXCEPT !.op = op]]
  BY <1>3 DEF Delete, Stop, DeleteRow
<1>7. \A b \in Agents : db'[b] # None =>
        /\ db[b] # None /\ db'[b].key = db[b].key
        /\ db'[b].op = db[b].op \/ db'[b].op # INVALID_QUOTE
  <2> SUFFICES ASSUME NEW b \in Agents, db'[b] # None
               PROVE  /\ db[b] # None /\ db'[b].key = db[b].key
                      /\ db'[b].op = db[b].op \/ db'[b].op # INVALID_QUOTE
    OBVIOUS
  <2>1. CASE b # a
    BY <1>6, <2>1 DEF Inductive, TypeOK
  <2>2. CASE b = a
    <3>1. PICK op \in {TERMINATED, TENANT_FAILED} : db'[a] = [r EXCEPT !.op = op]
      BY <1>6, <2>2 DEF Inductive, TypeOK
    <3>2. QED
      BY <1>1, <1>3, <1>4, <1>5, <2>2, <3>1
  <2>3. QED
    BY <2>1, <2>2
<1>8. QED
  BY <1>1, <1>7, OutsideSafe

\* A poller that is started, by POST, reactivate or a restart, starts in START.
Fresh(d) == d.op = START /\ d.last = NoEvent /\ d.encV = None

LEMMA FreshStarts ==
  ASSUME NEW d, Fresh(d)
  PROVE  /\ Mild(d) /\ Placed("ready", d, NewCall(GET_QUOTE))
         /\ \A f : Final(d, NewCall(GET_QUOTE), f)
<1>1. Mild(d)
  BY AttestedIsMild DEF Fresh, START, INVALID_QUOTE
<1>2. Placed("ready", d, NewCall(GET_QUOTE))
  BY DEF Fresh, Placed, NewCall, Handled, AtQuote, AtV, Waiting, START, FAILED, GET_QUOTE,
         PROVIDE_V_RETRY
<1>3. QED
  BY <1>1, <1>2, GoodTargets, MildFinal

\* POST and reactivate.
LEMMA StartsSafe ==
  ASSUME Inductive, Safe, NEW w \in Workers, NEW p \in Pollers, NEW a \in Agents,
         (\E hasV \in Payloads : Post(w, p, a, hasV)) \/ Reactivate(w, p, a)
  PROVE  Safe'
<1>1. UNCHANGED <<dflt, notices, announced, verified>> /\ HistoryGrows
  BY QuietHistory DEF Post, Reactivate
<1>2. CASE \E hasV \in Payloads : Post(w, p, a, hasV)
  <2>1. PICK hasV \in Payloads : Post(w, p, a, hasV)
    BY <1>2
  <2>2. PICK row, d :
          /\ row = [op |-> START, last |-> NoEvent, attested |-> FALSE, key |-> None,
                    v |-> hasV, version |-> 1, boot |-> FALSE]
          /\ d = FromRow(a, row)
    OBVIOUS
  <2>3. Fresh(d) /\ d.key = None
    BY <2>2 DEF Fresh, FromRow
  <2>4. db' = [db EXCEPT ![a] = row] /\ Schedule(p, d, NewCall(GET_QUOTE))
    BY <2>1, <2>2 DEF Post
  <2>5. RowsBacked'
    BY <1>1, <2>2, <2>4
       DEF Safe, RowsBacked, Backed, HistoryGrows, START, INVALID_QUOTE, Inductive, TypeOK
  <2>6. BackedDict(d)'
    BY <2>3 DEF Fresh, BackedDict, Backed, START, INVALID_QUOTE
  <2>7. QED
    BY <1>1, <2>3, <2>4, <2>5, <2>6, FreshStarts, GoodTargets, GoodReply
<1>3. CASE Reactivate(w, p, a)
  <2>1. PICK e, d : e = FromRow(a, db[a]) /\ d = [e EXCEPT !.op = START]
    OBVIOUS
  <2>2. db[a] \in Rows /\ db[a] # None
    BY <1>3 DEF Reactivate, Inductive, TypeOK
  <2>3. e \in Dicts /\ e.id = a /\ e.last = NoEvent /\ e.encV = None /\ e.key = db[a].key
    BY <2>1, <2>2, FromRowType DEF FromRow
  <2>4. Fresh(d) /\ d.id = a /\ d.key = db[a].key
    BY <2>1, <2>3 DEF Fresh, Dicts
  <2>5. Schedule(p, d, NewCall(GET_QUOTE)) /\ UNCHANGED db
    BY <1>3, <2>1 DEF Reactivate
  <2>6. RowsBacked' /\ BackedDict(d)'
    BY <1>1, <2>2, <2>4, <2>5, UntouchedBacked
       DEF Safe, RowsBacked, BackedDict, Backed, Fresh, START, INVALID_QUOTE
  <2>7. QED
    BY <1>1, <2>4, <2>5, <2>6, FreshStarts, GoodTargets, GoodReply
<1>4. QED
  BY <1>2, <1>3

\* main() puts rows back to START and keeps their keys.
LEMMA ResetBacked ==
  ASSUME NEW row \in Rows \union {None}, Reset(row) # None
  PROVE  /\ row # None /\ Reset(row).key = row.key
         /\ Reset(row).op = row.op \/ Reset(row).op = START
<1>1. CASE row # None /\ row.op \in APPROVED_REACTIVATE_STATES
  BY <1>1 DEF Reset, Rows
<1>2. CASE ~(row # None /\ row.op \in APPROVED_REACTIVATE_STATES)
  BY <1>2 DEF Reset
<1>3. QED
  BY <1>1, <1>2

\* After a restart only started pollers are left, and no notice.
LEMMA ActivateSafe ==
  ASSUME Inductive, Safe, NEW worker \in [Agents -> Workers], NEW poller \in [Agents -> Pollers],
         Activate(worker, poller), UNCHANGED <<announced, verified>>
  PROVE  Safe'
<1>1. PICK rows : rows = [a \in Agents |-> Reset(db[a])]
  OBVIOUS
<1>2. PICK polled : polled = {a \in Agents : rows[a] # None /\ rows[a].op = START}
  OBVIOUS
<1> DEFINE runs(q) == {a \in polled : poller[a] = q}
<1>3. /\ db' = rows /\ notices' = {}
      /\ pc' = [q \in Pollers |-> IF runs(q) = {} THEN "idle" ELSE "ready"]
      /\ dict' = [q \in Pollers |-> IF runs(q) = {} THEN BlankDict
            ELSE FromRow(CHOOSE a \in runs(q) : TRUE, rows[CHOOSE a \in runs(q) : TRUE])]
      /\ call' = [q \in Pollers |-> NewCall(GET_QUOTE)]
  BY <1>1, <1>2 DEF Activate
<1>4. \A a \in Agents : rows[a] # None =>
        /\ db[a] # None /\ rows[a].key = db[a].key
        /\ rows[a].op = db[a].op \/ rows[a].op = START
  BY <1>1, ResetBacked DEF Inductive, TypeOK
<1>5. RowsBacked'
  BY <1>3, <1>4 DEF Safe, RowsBacked, Backed, START, INVALID_QUOTE
<1>6. NoticesBacked'
  BY <1>3 DEF NoticesBacked
<1>7. ASSUME NEW q \in Pollers
      PROVE  \/ pc'[q] = "idle" /\ dict'[q] = BlankDict
             \/ /\ pc'[q] = "ready"
                /\ \E a \in polled : dict'[q] = FromRow(a, rows[a])
  <2>1. CASE runs(q) = {}
    BY <1>3, <2>1
  <2>2. CASE runs(q) # {}
    <3>1. PICK a : a = CHOOSE b \in runs(q) : TRUE
      OBVIOUS
    <3>2. a \in polled
      BY <2>2, <3>1
    <3>3. pc'[q] = "ready" /\ dict'[q] = FromRow(a, rows[a])
      BY <1>3, <2>2, <3>1
    <3>4. QED
      BY <3>2, <3>3
  <2>3. QED
    BY <2>1, <2>2
<1> HIDE DEF runs
<1>8. ASSUME NEW a \in polled
      PROVE  Fresh(FromRow(a, rows[a])) /\ BackedDict(FromRow(a, rows[a]))'
  <2>1. a \in Agents /\ rows[a] # None /\ rows[a].op = START
    BY <1>2
  <2>2. PICK d : d = FromRow(a, rows[a])
    OBVIOUS
  <2>3. Fresh(d) /\ d.id = a /\ d.key = rows[a].key
    BY <2>1, <2>2 DEF FromRow, Fresh
  <2>4. BackedDict(d)'
    BY <1>4, <2>1, <2>3 DEF Safe, RowsBacked, BackedDict, Backed, Fresh, START, INVALID_QUOTE
  <2>5. QED
    BY <2>2, <2>3, <2>4 DEF BackedDict, Backed
<1>9. BackedDict(BlankDict)'
  BY DEF BlankDict, BackedDict, Backed, REGISTERED, INVALID_QUOTE
<1>10. DictsBacked'
  <2> SUFFICES ASSUME NEW q \in Pollers PROVE BackedDict(dict[q])'
    BY DEF DictsBacked
  <2>1. QED
    BY <1>7, <1>8, <1>9 DEF BackedDict, Backed
<1>11. PollersProper'
  <2> SUFFICES ASSUME NEW q \in Pollers PROVE Proper(q, pc[q], dict[q], call[q])'
    BY DEF PollersProper
  <2>1. call'[q] = NewCall(GET_QUOTE)
    BY <1>3
  <2>2. CASE pc'[q] = "idle"
    BY <2>2 DEF Proper
  <2>3. CASE pc'[q] = "ready" /\ \E a \in polled : dict'[q] = FromRow(a, rows[a])
    <3>1. PICK d : d = dict'[q]
      OBVIOUS
    <3>2. Fresh(d)
      BY <1>8, <2>3, <3>1
    <3>3. Placed("ready", d, NewCall(GET_QUOTE)) /\ \A f : Final(d, NewCall(GET_QUOTE), f)
      BY <3>2, FreshStarts
    <3>4. QED
      BY <2>1, <2>3, <3>1, <3>3 DEF Proper
  <2>4. QED
    BY <1>7, <2>2, <2>3
<1>12. QED
  BY <1>5, <1>6, <1>10, <1>11 DEF Safe
-----------------------------------------------------------------------------
(* The theorems *)

\* Every step of a poller keeps the invariant.
LEMMA PollerStepSafe ==
  ASSUME Inductive, Safe, NEW p \in Pollers, PollerStep(p)
  PROVE  Safe'
<1>1. Live(p)
  BY DEF PollerStep
<1>2. None \in Keys \union {None}
  OBVIOUS
<1>3. CASE Processing(p)
  BY <1>1, <1>3, ProcessingSafe
<1>4. CASE Replying(p)
  BY <1>1, <1>2, <1>4, WaitOnSafe, QuoteVerifiedSafe, QuoteAfterRebootSafe,
     QuoteRejectedSafe, PlainRepliesSafe, VersionUpdatedSafe, NoticeToSelfSafe
     DEF Replying
<1>5. QED
  BY <1>3, <1>4 DEF PollerStep

\* The invariant holds at first.
LEMMA InitSafe == ASSUME Init PROVE Safe
<1>1. BackedDict(BlankDict)
  BY DEF BlankDict, BackedDict, Backed, REGISTERED, INVALID_QUOTE
<1>2. QED
  BY <1>1 DEF Init, Safe, RowsBacked, DictsBacked, NoticesBacked, PollersProper, Proper

\* Every step keeps it.
LEMMA NextSafe == ASSUME Inductive, Safe, [Next]_vars PROVE Safe'
<1>1. CASE \E p \in Pollers : PollerStep(p)
  BY <1>1, PollerStepSafe
<1>2. CASE \E n \in notices : NoticeRefused(n)
  BY <1>2, NoticeRefusedSafe
<1>3. CASE \E w \in Workers, a \in Agents : Handlers(w, a)
  BY <1>3, DeleteStopSafe, StartsSafe DEF Handlers
<1>4. CASE Restart
  BY <1>4, ActivateSafe DEF Restart
<1>5. CASE (\E a \in Agents : HostDown(a)) \/ UNCHANGED vars
  BY <1>5, OutsideSafe DEF HostDown, vars
<1>6. QED
  BY <1>1, <1>2, <1>3, <1>4, <1>5 DEF Next

\* What dictionaries, rows and notices say of an agent is backed by verified
\* quotes and sent notifications, and a failure that has to end the polling is
\* on its way to do so, in every state of the verifier.
THEOREM SafeInvariant == Spec => []Safe
<1>1. Init => Safe
  BY InitSafe
<1>2. Inductive /\ Safe /\ [Next]_vars => Safe'
  BY NextSafe
<1>3. QED
  BY <1>1, <1>2, InductiveInvariant, PTL DEF Spec

\* V leaves the verifier only under a key a quote of that agent was verified
\* with, and a cached ciphertext never outlives the key it was made for
\* (process_quote_response, prepare_v).
THEOREM VOnlyUnderVerifiedKey == Spec => []VUnderVerifiedKey
<1>1. Inductive /\ Safe => VUnderVerifiedKey
  <2> SUFFICES ASSUME Inductive, Safe, NEW p \in Pollers
               PROVE  /\ dict[p].encV # None => dict[p].encV = dict[p].key
                      /\ pc[p] \in {"vkey", "timerV"} => <<dict[p].id, dict[p].encV>> \in verified
    BY DEF VUnderVerifiedKey
  <2>1. BackedDict(dict[p])
    BY DEF Safe, DictsBacked
  <2>2. pc[p] \in {"vkey", "timerV"} => dict[p].encV # None
    BY AtQuoteFacts DEF AtV
  <2>3. QED
    BY <2>1, <2>2 DEF BackedDict, Backed
<1>2. QED
  BY <1>1, InductiveInvariant, SafeInvariant, PTL

\* No row shows an invalid quote the notifiers were not told of, whichever
\* poller, notice or version update wrote it (process_agent, notify_error,
\* update_agent_api_version).
THEOREM InvalidQuotesAreAnnounced == Spec => []FailuresAnnounced
<1>1. Safe => FailuresAnnounced
  BY DEF Safe, RowsBacked, Backed, FailuresAnnounced
<1>2. QED
  BY <1>1, SafeInvariant, PTL

\* Where the label of the highest severity is imported as it is configured, no
\* request or timer is left of a poller that recorded a failure of it
\* (process_agent).
THEOREM NoPollingAfterTheWorst ==
  ASSUME ImportedMaxSev = MaxSev
  PROVE  Spec => []WorstFailureEndsPolling
<1>1. Inductive /\ Safe => WorstFailureEndsPolling
  <2> SUFFICES ASSUME Inductive, Safe, NEW p \in Pollers, pc[p] \in Waiting
               PROVE  dict[p].last.sev < MaxSev
    BY DEF WorstFailureEndsPolling
  <2>1. Live(p)
    BY DEF Live, Waiting
  <2>2. Mild(dict[p]) /\ dict[p] \in Dicts
    BY <2>1, SafeFacts, PollerFacts
  <2>3. dict[p].last \in Events \union {NoEvent} /\ dict[p].last.sev # MaxSev
    BY <2>2 DEF Mild, FreshLabel, Dicts
  <2>4. QED
    BY <2>3, MaxSevAssumption DEF Events, NoEvent, Severities
<1>2. QED
  BY <1>1, InductiveInvariant, SafeInvariant, PTL

\* process_agent has a branch for every pair of a dictionary's state and a
\* target it meets, but for an agent that is polled on after an invalid quote.
THEOREM AttestedAgentsAreHandled == Spec => []OnlyFailedAgentsFallOut
<1>1. Safe => OnlyFailedAgentsFallOut
  BY DEF Safe, PollersProper, Proper, Placed, OnlyFailedAgentsFallOut
<1>2. QED
  BY <1>1, SafeInvariant, PTL

\* Where every failure of a quote ends the polling, as the default severity
\* policy has it, process_agent has a branch for every pair it meets.
THEOREM NothingFallsOutByDefault ==
  ASSUME AllStop
  PROVE  Spec => []NothingFallsOut
<1>1. Safe => NothingFallsOut
  <2> SUFFICES ASSUME Safe, NEW p \in Pollers, pc[p] = "checked"
               PROVE  Handled(dict[p].op, call[p].new)
    BY DEF NothingFallsOut
  <2>1. Placed(pc[p], dict[p], call[p]) /\ Final(dict[p], call[p], FailureIn(p, call[p]))
    BY DEF Safe, PollersProper, Proper
  <2>2. QED
    BY <2>1 DEF Placed, Final, Handled
<1>2. QED
  BY <1>1, SafeInvariant, PTL
-----------------------------------------------------------------------------
(* What a step may never do to a row.  The tenant's verdict, and a recorded
   failure, are overwritten where a poller writes what it read before an await;
   the theorems name the settings in which nothing comes between. *)
\* One worker process, nobody to be told of revocations, no version upgrades:
\* nothing comes between a poller's check of its row and its write.
Undisturbed ==
  /\ \A w, x \in Workers : w = x
  /\ ~AgentNotifier
  /\ MaxVersion = 1

AtWork   == {"recheck", "checked"}
Verdicts == {TERMINATED, TENANT_FAILED}

\* One poller is between two steps at most, and what it checked still holds.
Exclusive ==
  /\ notices = {}
  /\ \A p \in Pollers : pc[p] \notin {"notify", "commerr"}
  /\ \A p, q \in Pollers : pc[p] \in AtWork /\ pc[q] \in AtWork => p = q
  /\ \A p \in Pollers : pc[p] = "checked" /\ RowOf(p) # None => RowOf(p).op \notin Verdicts

\* A step leaves the verdict on the row of a alone, or takes the row.
KeepsVerdict(a) ==
  db[a] # None /\ db[a].op \in Verdicts => db'[a] = None \/ db'[a].op \in Verdicts

\* What a step of poller p does.
StepOf(p) ==
  /\ \A q \in Pollers : q # p => pc'[q] = pc[q] /\ dict'[q] = dict[q]
  /\ pc'[p] \notin {"notify", "commerr"}
  /\ pc'[p] = "checked" => Admitted(p) /\ UNCHANGED db /\ dict'[p].id = dict[p].id
  /\ UNCHANGED notices
  /\ \A a \in Agents : KeepsVerdict(a)
-----------------------------------------------------------------------------
\* With one worker process a poller between two steps keeps everybody else out.
LEMMA BusyEverywhere ==
  ASSUME Undisturbed, NEW p \in Pollers, pc[p] \in AtWork, NEW w \in Workers
  PROVE  Busy(w)
BY VerifierAssumption DEF Undisturbed, Busy, AtWork

\* A step of a poller finds its worker free, or goes on with what it began.
LEMMA EntersWhenFree ==
  ASSUME Exclusive, NEW p \in Pollers, PollerStep(p)
  PROVE  pc[p] \in AtWork \/ ~Busy(Home[p])
<1>1. pc[p] \notin {"notify", "commerr"}
  BY DEF Exclusive
<1>2. CASE Processing(p)
  <2>1. EntersProcess(p) \/ Propagates(p)
    BY <1>2 DEF Processing, StopPolling, Terminate, RecordFailure, Proceed, Admitted, RowGone,
       GiveUp, PollOn, FirstQuote, ProvideV, ProvideVWithoutKey, NoV, NextQuote,
       RetryQuote, RetryV, Unreachable, UnreachableForV, FallOut, Dispatch
  <2>2. QED
    BY <1>1, <2>1 DEF EntersProcess, Propagates, AtWork
<1>3. CASE Replying(p)
  BY <1>1, <1>3 DEF Replying, TimerFires, QuoteVerified, QuoteAfterReboot, NoPublicKey,
     QuoteRejected, VkeyAccepted, ConnectionError, BadAnswer, VersionRefused,
     VersionUpdated, VersionNotUpdated, NoticeToSelf, Awaits
<1>4. QED
  BY <1>2, <1>3 DEF PollerStep

\* A poller that moves to where with dictionary d, and writes no row or one
\* without a verdict.
LEMMA MovingStep ==
  ASSUME Inductive, NEW p \in Pollers, NEW where, NEW d, NEW c, Moves(p, where, d, c),
         where \notin {"notify", "commerr", "checked"}, UNCHANGED notices,
         \A a \in Agents : KeepsVerdict(a)
  PROVE  StepOf(p)
<1>1. pc'[p] = where /\ \A q \in Pollers : q # p => pc'[q] = pc[q] /\ dict'[q] = dict[q]
  BY DEF Moves, Inductive, TypeOK
<1>2. QED
  BY <1>1 DEF StepOf

\* The write of a poller touches the row it has just checked.
LEMMA WriteKeepsVerdict ==
  ASSUME Inductive, Undisturbed, Exclusive, NEW p \in Pollers, Live(p),
         NEW from, NEW new, Dispatch(p, from, new)
  PROVE  \A a \in Agents : KeepsVerdict(a)
<1>1. pc[p] = "checked" /\ RowOf(p) # None
  BY DEF Dispatch, Propagates, Exclusive
<1>2. RowOf(p).op \notin Verdicts /\ OwnRowOnly(p)
  BY <1>1, DispatchWrites DEF Exclusive
<1>3. QED
  BY <1>2 DEF KeepsVerdict, OwnRowOnly, RowOf

\* The branches end the call or leave the poller waiting.
LEMMA DispatchStep ==
  ASSUME Inductive, Undisturbed, Exclusive, NEW p \in Pollers, Live(p),
         \/ GiveUp(p) \/ PollOn(p) \/ FirstQuote(p) \/ ProvideV(p) \/ ProvideVWithoutKey(p)
         \/ NoV(p) \/ NextQuote(p) \/ RetryQuote(p) \/ RetryV(p)
         \/ Unreachable(p) \/ UnreachableForV(p) \/ FallOut(p)
  PROVE  StepOf(p)
<1>1. \A a \in Agents : KeepsVerdict(a)
  BY WriteKeepsVerdict
     DEF GiveUp, PollOn, FirstQuote, ProvideV, ProvideVWithoutKey, NoV, NextQuote,
         RetryQuote, RetryV, Unreachable, UnreachableForV, FallOut
<1>2. ~AgentNotifier
  BY DEF Undisturbed
<1>3. UNCHANGED notices
  BY <1>2 DEF GiveUp, PollOn, FirstQuote, ProvideV, ProvideVWithoutKey, NoV, NextQuote,
         RetryQuote, RetryV, Unreachable, UnreachableForV, FallOut, CommError, Notified
<1>4. \E where \in {"idle", "recheck", "quote", "vkey", "timerQ", "timerV"} :
        \E d, c : Moves(p, where, d, c)
  <2>1. CASE GiveUp(p)
    BY <2>1 DEF GiveUp, Idle, Moves
  <2>2. CASE PollOn(p) \/ FirstQuote(p) \/ NextQuote(p)
    BY <2>2 DEF PollOn, FirstQuote, NextQuote, WaitAt, Moves
  <2>3. CASE ProvideV(p) \/ NoV(p)
    BY <2>3 DEF ProvideV, NoV, WaitAt, Moves
  <2>4. CASE RetryQuote(p) \/ RetryV(p)
    BY <2>4 DEF RetryQuote, RetryV, WaitAt, Moves
  <2>5. CASE ProvideVWithoutKey(p)
    BY <2>5 DEF ProvideVWithoutKey, FailWith, Moves
  <2>6. CASE Unreachable(p) \/ UnreachableForV(p) \/ FallOut(p)
    <3>1. dict' = [dict EXCEPT ![p] = dict[p]]
      BY <2>6 DEF Unreachable, UnreachableForV, FallOut, CommError, Inductive, TypeOK
    <3>2. QED
      BY <1>2, <2>6, <3>1 DEF Unreachable, UnreachableForV, FallOut, CommError, FailWith, Moves
  <2>7. QED
    BY <2>1, <2>2, <2>3, <2>4, <2>5, <2>6
<1>5. QED
  BY <1>1, <1>3, <1>4, MovingStep

\* The checks on the stored row: polling ends, or the row is found in order.
LEMMA CheckStep ==
  ASSUME Inductive, Undisturbed, NEW p \in Pollers, Live(p),
         StopPolling(p) \/ Terminate(p) \/ RecordFailure(p) \/ Proceed(p) \/ RowGone(p)
  PROVE  StepOf(p)
<1>1. CASE StopPolling(p) \/ Terminate(p)
  <2>1. Moves(p, "idle", BlankDict, NewCall(GET_QUOTE)) /\ UNCHANGED notices
    BY <1>1 DEF StopPolling, Terminate, Idle, Moves
  <2>2. \A a \in Agents : db'[a] = db[a] \/ db'[a] = None
    BY <1>1 DEF StopPolling, Terminate, DeleteRow, Inductive, TypeOK
  <2>3. \A a \in Agents : KeepsVerdict(a)
    BY <2>2 DEF KeepsVerdict
  <2>4. QED
    BY <2>1, <2>3, MovingStep
<1>2. CASE RecordFailure(p)
  <2>1. ~AgentNotifier
    BY DEF Undisturbed
  <2>2. pc' = [pc EXCEPT ![p] = "checked"] /\ UNCHANGED <<db, notices>> /\ Admitted(p)
    BY <1>2, <2>1 DEF RecordFailure, Notified
  <2>3. PICK d : d = Marked(dict[p], call[p], FailureOf(p))
    OBVIOUS
  <2>4. d.id = dict[p].id
    BY <2>3, PollerFacts DEF Marked, Dicts
  <2>5. dict' = [dict EXCEPT ![p] = d]
    BY <1>2, <2>3 DEF RecordFailure
  <2>6. QED
    BY <2>2, <2>4, <2>5 DEF StepOf, KeepsVerdict, Inductive, TypeOK
<1>3. CASE Proceed(p)
  BY <1>3 DEF Proceed, StepOf, KeepsVerdict, Inductive, TypeOK
<1>4. CASE RowGone(p)
  <2>1. PICK c : pc' = [pc EXCEPT ![p] = "recheck"] /\ call' = [call EXCEPT ![p] = c]
    BY <1>4 DEF RowGone, FailWith
  <2>2. Moves(p, "recheck", dict[p], c) /\ UNCHANGED <<db, notices>>
    BY <1>4, <2>1 DEF RowGone, Moves, Inductive, TypeOK
  <2>3. QED
    BY <2>2, MovingStep DEF KeepsVerdict
<1>5. QED
  BY <1>1, <1>2, <1>3, <1>4

\* A reply writes its row a position in the log at most.
LEMMA ReplyKeepsVerdict ==
  ASSUME Inductive, NEW p \in Pollers, NEW b, UNCHANGED db \/ StorePosition(p, b)
  PROVE  \A a \in Agents : KeepsVerdict(a)
<1>1. \A a \in Agents : db'[a] = db[a] \/ (db[a] # None /\ db'[a] = [db[a] EXCEPT !.boot = TRUE])
  BY DEF StorePosition, Inductive, TypeOK
<1>2. \A a \in Agents : db[a] # None => db[a] \in Rows
  BY DEF Inductive, TypeOK
<1>3. ASSUME NEW r \in Rows PROVE [r EXCEPT !.boot = TRUE].op = r.op
  BY DEF Rows
<1>4. QED
  BY <1>1, <1>2, <1>3 DEF KeepsVerdict

\* No version is updated where there is one version.
LEMMA OneVersion ==
  ASSUME Inductive, Undisturbed, NEW p \in Pollers, Live(p)
  PROVE  ~(dict[p].version < MaxVersion)
BY PollerFacts DEF Undisturbed, Dicts

\* Timers and replies leave the poller ready or waiting.
LEMMA ReplyingStep ==
  ASSUME Inductive, Undisturbed, NEW p \in Pollers, Live(p), Replying(p)
  PROVE  StepOf(p)
<1>1. ~VersionUpdated(p) /\ ~NoticeToSelf(p)
  BY OneVersion DEF VersionUpdated, NoticeToSelf
<1>2. \E where \in {"ready", "quote", "vkey", "versionQ", "versionV"} :
        \E d, c : Moves(p, where, d, c)
  <2>1. CASE TimerFires(p)
    BY <2>1 DEF TimerFires, Moves, Inductive, TypeOK
  <2>2. CASE \E k \in Keys \union {None}, b \in Positions : QuoteVerified(p, k, b)
    BY <2>2 DEF QuoteVerified, AfterQuote, Schedule, Moves
  <2>3. CASE \E k \in Keys \union {None} : QuoteAfterReboot(p, k)
    BY <2>3 DEF QuoteAfterReboot, AfterQuote, Schedule, Moves
  <2>4. CASE \E k \in Keys \union {None}, f \in QuoteFailures, b \in Positions :
               QuoteRejected(p, k, f, b)
    BY <2>4 DEF QuoteRejected, Schedule, Moves
  <2>5. CASE NoPublicKey(p) \/ VkeyAccepted(p) \/ ConnectionError(p) \/ BadAnswer(p)
             \/ VersionNotUpdated(p)
    BY <2>5 DEF NoPublicKey, VkeyAccepted, ConnectionError, BadAnswer, VersionNotUpdated,
                Schedule, Moves
  <2>6. CASE VersionRefused(p)
    BY <2>6 DEF VersionRefused, WaitAt, Moves
  <2>7. QED
    BY <1>1, <2>1, <2>2, <2>3, <2>4, <2>5, <2>6 DEF Replying
<1>3. /\ UNCHANGED notices
      /\ UNCHANGED db \/ \E b : StorePosition(p, b)
  BY <1>1 DEF Replying, TimerFires, QuoteVerified, QuoteAfterReboot, NoPublicKey,
     QuoteRejected, VkeyAccepted, ConnectionError, BadAnswer, VersionRefused,
     VersionNotUpdated
<1>4. \A a \in Agents : KeepsVerdict(a)
  BY <1>3, ReplyKeepsVerdict
<1>5. QED
  BY <1>2, <1>3, <1>4, MovingStep

\* Every step of a poller.
LEMMA PollerStepOf ==
  ASSUME Inductive, Undisturbed, Exclusive, NEW p \in Pollers, PollerStep(p)
  PROVE  StepOf(p)
BY CheckStep, DispatchStep, ReplyingStep DEF PollerStep, Processing
-----------------------------------------------------------------------------
(* Every step *)

\* A poller's step keeps what is checked exclusive.
LEMMA PollerStepExclusive ==
  ASSUME Inductive, Undisturbed, Exclusive, NEW p \in Pollers, PollerStep(p)
  PROVE  Exclusive'
<1>1. StepOf(p)
  BY PollerStepOf
<1>2. \A q \in Pollers : q # p => pc[q] \notin AtWork
  <2> SUFFICES ASSUME NEW q \in Pollers, q # p, pc[q] \in AtWork PROVE FALSE
    OBVIOUS
  <2>1. Busy(Home[p])
    BY BusyEverywhere, VerifierAssumption
  <2>2. pc[p] \in AtWork
    BY <2>1, EntersWhenFree
  <2>3. QED
    BY <2>2 DEF Exclusive
<1>3. \A q \in Pollers : q # p => pc'[q] \notin AtWork /\ pc'[q] \notin {"notify", "commerr"}
  BY <1>1, <1>2 DEF StepOf, Exclusive
<1>4. pc'[p] = "checked" /\ db'[dict'[p].id] # None => db'[dict'[p].id].op \notin Verdicts
  BY <1>1 DEF StepOf, Admitted, RowOf, Verdicts
<1>5. QED
  BY <1>1, <1>3, <1>4 DEF StepOf, Exclusive, AtWork, RowOf

\* A handler finds no poller between two steps, and its own verdict is the only
\* one it changes.
LEMMA HandlersKeep ==
  ASSUME Inductive, Undisturbed, Exclusive, NEW w \in Workers, NEW a \in Agents, Handlers(w, a)
  PROVE  Exclusive' /\ \A b \in Agents : KeepsVerdict(b)
<1>1. ~Busy(w)
  BY DEF Handlers, Post, Delete, Reactivate, Stop, Starts
<1>2. \A p \in Pollers : pc[p] \notin AtWork
  BY <1>1, BusyEverywhere
<1>3. UNCHANGED notices /\ (UNCHANGED pc \/ \E p \in Pollers : pc' = [pc EXCEPT ![p] = "ready"])
  BY DEF Handlers, Post, Delete, Reactivate, Stop, Schedule
<1>4. \A p \in Pollers : pc'[p] = pc[p] \/ pc'[p] = "ready"
  BY <1>3 DEF Inductive, TypeOK
<1>5. Exclusive'
  BY <1>2, <1>3, <1>4 DEF Exclusive, AtWork
<1>6. ASSUME NEW b \in Agents, db[b] # None, db[b].op \in Verdicts
      PROVE  db'[b] = None \/ db'[b].op \in Verdicts
  <2>1. CASE (\E p \in Pollers, hasV \in Payloads : Post(w, p, a, hasV))
             \/ \E p \in Pollers : Reactivate(w, p, a)
    BY <1>6, <2>1 DEF Post, Reactivate, Inductive, TypeOK
  <2>2. CASE Delete(w, a) \/ Stop(w, a)
    <3>1. PICK r : r = db[a]
      OBVIOUS
    <3>2. r \in Rows
      BY <2>2, <3>1 DEF Delete, Stop, Inductive, TypeOK
    <3>3. \A op \in Verdicts : [r EXCEPT !.op = op].op = op
      BY <3>2 DEF Rows
    <3>4. \/ db' = [db EXCEPT ![a] = None]
          \/ \E op \in Verdicts : db' = [db EXCEPT ![a] = [r EXCEPT !.op = op]]
      BY <2>2, <3>1 DEF Delete, Stop, DeleteRow, Verdicts
    <3>5. QED
      BY <1>6, <3>3, <3>4 DEF Inductive, TypeOK
  <2>3. QED
    BY <2>1, <2>2 DEF Handlers
<1>7. QED
  BY <1>5, <1>6 DEF KeepsVerdict

\* main() resets no row the tenant has given a verdict on.
LEMMA RestartKeeps ==
  ASSUME Inductive, Restart
  PROVE  Exclusive' /\ \A b \in Agents : KeepsVerdict(b)
<1>1. PICK worker, poller : Activate(worker, poller)
  BY DEF Restart
<1>2. notices' = {} /\ \A p \in Pollers : pc'[p] \in {"idle", "ready"}
  BY <1>1 DEF Activate
<1>3. Exclusive'
  BY <1>2 DEF Exclusive, AtWork
<1>4. db' = [a \in Agents |-> Reset(db[a])]
  BY <1>1 DEF Activate
<1>5. \A a \in Agents : db[a] # None /\ db[a].op \in Verdicts => db'[a] = db[a]
  BY <1>4 DEF Reset, Verdicts, APPROVED_REACTIVATE_STATES, TERMINATED, TENANT_FAILED,
     START, GET_QUOTE, GET_QUOTE_RETRY, PROVIDE_V, PROVIDE_V_RETRY
<1>6. QED
  BY <1>3, <1>5 DEF KeepsVerdict

\* Every step keeps the invariant, and every verdict.
LEMMA NextKeeps ==
  ASSUME Inductive, Undisturbed, Exclusive, [Next]_vars
  PROVE  Exclusive' /\ \A b \in Agents : KeepsVerdict(b)
<1>1. CASE \E p \in Pollers : PollerStep(p)
  BY <1>1, PollerStepOf, PollerStepExclusive DEF StepOf
<1>2. CASE \E w \in Workers, a \in Agents : Handlers(w, a)
  BY <1>2, HandlersKeep
<1>3. CASE Restart
  BY <1>3, RestartKeeps
<1>4. CASE (\E a \in Agents : HostDown(a)) \/ UNCHANGED vars
  BY <1>4 DEF HostDown, vars, Exclusive, AtWork, RowOf, KeepsVerdict
<1>5. ~ \E n \in notices : NoticeRefused(n)
  BY DEF Exclusive
<1>6. QED
  BY <1>1, <1>2, <1>3, <1>4, <1>5 DEF Next

\* Where one worker process runs, no agent is told of revocations and no API
\* version is upgraded, no poller that was already under way puts a row back
\* under attestation the tenant has terminated or stopped (process_agent,
\* AgentsHandler, main).  Each of these settings is needed: the write of a
\* poller follows its check at once only there.
THEOREM VerdictsStick ==
  ASSUME Undisturbed
  PROVE  Spec => TenantVerdictSticks
<1>1. Init => Exclusive
  BY DEF Init, Exclusive, AtWork
<1>2. Inductive /\ Exclusive /\ [Next]_vars => Exclusive'
  BY NextKeeps
<1>3. Inductive /\ Exclusive /\ [Next]_vars
        => [\A a \in Agents :
              db[a] # None /\ db[a].op \in {TERMINATED, TENANT_FAILED}
                => db'[a] = None \/ db'[a].op \in {TERMINATED, TENANT_FAILED}]_vars
  BY NextKeeps DEF KeepsVerdict, Verdicts
<1>4. QED
  BY <1>1, <1>2, <1>3, InductiveInvariant, PTL DEF Spec, TenantVerdictSticks
-----------------------------------------------------------------------------
(* A recorded failure *)

\* No poller carries agent a.
Unpolled(a) == \A q \in Pollers : Live(q) => dict[q].id # a

\* An agent is added or reactivated when no poller is left for it.
AddedAlone ==
  \A w \in Workers, p \in Pollers, a \in Agents :
    (\E hasV \in Payloads : Post(w, p, a, hasV)) \/ Reactivate(w, p, a) => Unpolled(a)
PolledOnce == [][AddedAlone]_vars

\* One poller carries an agent at most, and where the row shows a failure that
\* poller failed too, or starts anew.
Alone ==
  /\ \A p, q \in Pollers : Live(p) /\ Live(q) /\ dict[p].id = dict[q].id => p = q
  /\ \A p \in Pollers :
       Live(p) /\ RowOf(p) # None /\ RowOf(p).op \in FailedTargets
         => dict[p].op \in FailedTargets \union {START}

\* A step leaves a failure on the row of a, or makes the row one to be attested
\* from the start.
KeepsFailure(a) ==
  db[a] # None /\ db[a].op \in FailedTargets
    => db'[a] = None \/ db'[a].op \notin {GET_QUOTE, PROVIDE_V}

\* What a step of poller p does to its row and its own state: the row is left in its
\* state and the poller keeps its own or fails ...
LeavesRow(p, d) ==
  /\ \/ db'[dict[p].id] = None
     \/ db[dict[p].id] # None /\ db'[dict[p].id].op = db[dict[p].id].op
  /\ d.op = dict[p].op \/ d.op \in FailedTargets

\* ... or the poller's state is written, and a failed poller goes on failed.
WritesRow(p, d) ==
  /\ db[dict[p].id] # None
  /\ db'[dict[p].id] # None /\ db'[dict[p].id].op = dict[p].op
  /\ dict[p].op \in FailedTargets => d.op \in FailedTargets

OwnStep(p) ==
  /\ OwnRowOnly(p)
  /\ \/ Idle(p) /\ \E d : LeavesRow(p, d) \/ WritesRow(p, d)
     \/ \E where, d, c : /\ Moves(p, where, d, c) /\ d.id = dict[p].id
                         /\ LeavesRow(p, d) \/ WritesRow(p, d)

\* A step of that kind keeps a failure, and pollers alone.
LEMMA OwnStepKeeps ==
  ASSUME Inductive, Alone, NEW p \in Pollers, Live(p), OwnStep(p)
  PROVE  Alone' /\ \A b \in Agents : KeepsFailure(b)
<1>1. PICK d : LeavesRow(p, d) \/ WritesRow(p, d)
  BY DEF OwnStep
<1>2. OwnRowOnly(p) /\ dict[p].id \in Agents
  BY PollerFacts DEF OwnStep
<1>3. \A b \in Agents : KeepsFailure(b)
  <2> SUFFICES ASSUME NEW b \in Agents, db[b] # None, db[b].op \in FailedTargets, db'[b] # None
               PROVE  db'[b].op \notin {GET_QUOTE, PROVIDE_V}
    BY DEF KeepsFailure
  <2>1. CASE b # dict[p].id
    BY <1>2, <2>1 DEF OwnRowOnly, FailedTargets, FAILED, INVALID_QUOTE, GET_QUOTE, PROVIDE_V
  <2>2. CASE b = dict[p].id
    <3>1. dict[p].op \in FailedTargets \union {START}
      BY <2>2 DEF Alone, RowOf
    <3>2. db'[b].op \in FailedTargets \union {START}
      BY <1>1, <2>2, <3>1 DEF LeavesRow, WritesRow
    <3>3. QED
      BY <3>2 DEF FailedTargets, FAILED, INVALID_QUOTE, GET_QUOTE, PROVIDE_V, START
  <2>3. QED
    BY <2>1, <2>2
<1>4. \A q \in Pollers : q # p => pc'[q] = pc[q] /\ dict'[q] = dict[q]
  BY DEF OwnStep, Idle, Moves, Inductive, TypeOK
<1>5. Live(p)' => /\ dict'[p].id = dict[p].id
                  /\ LeavesRow(p, dict'[p]) \/ WritesRow(p, dict'[p])
  BY DEF OwnStep, Idle, Moves, Live, Inductive, TypeOK
<1>6. \A q \in Pollers : Live(q)' => Live(q) /\ dict'[q].id = dict[q].id
  BY <1>4, <1>5 DEF Live
<1>7. ASSUME NEW q \in Pollers, Live(q)', db'[dict'[q].id] # None,
             db'[dict'[q].id].op \in FailedTargets
      PROVE  dict'[q].op \in FailedTargets \union {START}
  <2>1. CASE q = p
    BY <1>5, <1>7, <2>1 DEF LeavesRow, WritesRow, Alone, RowOf
  <2>2. CASE q # p
    <3>1. dict[q].id # dict[p].id /\ dict[q].id \in Agents
      BY <1>6, <1>7, <2>2, PollerFacts DEF Alone
    <3>2. db'[dict[q].id] = db[dict[q].id]
      BY <1>2, <3>1 DEF OwnRowOnly
    <3>3. QED
      BY <1>4, <1>6, <1>7, <2>2, <3>2 DEF Alone, RowOf
  <2>3. QED
    BY <2>1, <2>2
<1>8. QED
  BY <1>3, <1>6, <1>7 DEF Alone, RowOf, Live

\* The checks on the stored row leave it in its state, or remove it.
LEMMA ChecksAreOwn ==
  ASSUME Inductive, NEW p \in Pollers, Live(p),
         StopPolling(p) \/ Terminate(p) \/ RecordFailure(p) \/ Proceed(p) \/ RowGone(p)
  PROVE  OwnStep(p)
<1>1. dict[p] \in Dicts /\ dict[p].id \in Agents
  BY PollerFacts
<1>2. CASE StopPolling(p) \/ Terminate(p)
  <2>1. Idle(p) /\ (UNCHANGED db \/ db' = [db EXCEPT ![dict[p].id] = None])
    BY <1>2 DEF StopPolling, Terminate, DeleteRow
  <2>2. OwnRowOnly(p) /\ LeavesRow(p, dict[p])
    BY <1>1, <2>1 DEF OwnRowOnly, LeavesRow, Inductive, TypeOK
  <2>3. QED
    BY <2>1, <2>2 DEF OwnStep
<1>3. CASE RecordFailure(p)
  <2>1. PICK d : d = Marked(dict[p], call[p], FailureOf(p))
    OBVIOUS
  <2>2. d.id = dict[p].id /\ d.op = call[p].new
    BY <1>1, <2>1 DEF Marked, Dicts
  <2>3. call[p].new \in FailedTargets /\ UNCHANGED <<db, call>>
        /\ dict' = [dict EXCEPT ![p] = d] /\ \E where : pc' = [pc EXCEPT ![p] = where]
    BY <1>3, <2>1 DEF RecordFailure
  <2>4. \E where : Moves(p, where, d, call[p])
    BY <2>3 DEF Moves, Inductive, TypeOK
  <2>5. OwnRowOnly(p) /\ LeavesRow(p, d)
    BY <2>2, <2>3 DEF OwnRowOnly, LeavesRow
  <2>6. QED
    BY <2>2, <2>4, <2>5 DEF OwnStep
<1>4. CASE Proceed(p)
  <2>1. Moves(p, "checked", dict[p], call[p]) /\ UNCHANGED db
    BY <1>4 DEF Proceed, Moves, Inductive, TypeOK
  <2>2. OwnRowOnly(p) /\ LeavesRow(p, dict[p])
    BY <2>1 DEF OwnRowOnly, LeavesRow
  <2>3. QED
    BY <2>1, <2>2 DEF OwnStep
<1>5. CASE RowGone(p)
  <2>1. PICK c : pc' = [pc EXCEPT ![p] = "recheck"] /\ call' = [call EXCEPT ![p] = c]
    BY <1>5 DEF RowGone, FailWith
  <2>2. Moves(p, "recheck", dict[p], c) /\ UNCHANGED db
    BY <1>5, <2>1 DEF RowGone, Moves, Inductive, TypeOK
  <2>3. OwnRowOnly(p) /\ LeavesRow(p, dict[p])
    BY <2>2 DEF OwnRowOnly, LeavesRow
  <2>4. QED
    BY <2>2, <2>3 DEF OwnStep
<1>6. QED
  BY <1>2, <1>3, <1>4, <1>5

\* The branches write the state the poller was in.
LEMMA DispatchIsWrite ==
  ASSUME Inductive, NEW p \in Pollers, Live(p), NEW from, NEW new, Dispatch(p, from, new)
  PROVE  /\ OwnRowOnly(p) /\ dict[p].op \in from
         /\ \A d : (dict[p].op \in FailedTargets => d.op \in FailedTargets) => WritesRow(p, d)
<1>1. dict[p] \in Dicts /\ dict[p].id \in Agents /\ TypeOK
  BY PollerFacts DEF Inductive
<1>2. db' = Stored(dict[p]) /\ db[dict[p].id] # None /\ dict[p].op \in from
  BY DEF Dispatch, RowOf
<1>3. OwnRowOnly(p) /\ db'[dict[p].id] # None /\ db'[dict[p].id].op = dict[p].op
  BY <1>1, <1>2, StoredType DEF OwnRowOnly
<1>4. QED
  BY <1>2, <1>3 DEF WritesRow

\* A branch that goes on with d, from a state that is no failure or with the same.
LEMMA BranchIsOwn ==
  ASSUME Inductive, NEW p \in Pollers, Live(p), NEW from, NEW new, Dispatch(p, from, new),
         NEW where, NEW d, NEW c, Moves(p, where, d, c), d.id = dict[p].id,
         from \cap FailedTargets = {} \/ d.op = dict[p].op
  PROVE  OwnStep(p)
<1>1. OwnRowOnly(p) /\ WritesRow(p, d)
  BY DispatchIsWrite
<1>2. QED
  BY <1>1 DEF OwnStep

\* Every branch is of that kind.
LEMMA BranchesAreOwn ==
  ASSUME Inductive, NEW p \in Pollers, Live(p),
         \/ GiveUp(p) \/ PollOn(p) \/ FirstQuote(p) \/ ProvideV(p) \/ ProvideVWithoutKey(p)
         \/ NoV(p) \/ NextQuote(p) \/ RetryQuote(p) \/ RetryV(p)
         \/ Unreachable(p) \/ UnreachableForV(p) \/ FallOut(p)
  PROVE  OwnStep(p)
<1>1. /\ {START} \cap FailedTargets = {} /\ {GET_QUOTE} \cap FailedTargets = {}
      /\ {PROVIDE_V, GET_QUOTE} \cap FailedTargets = {}
  BY DEF FailedTargets, FAILED, INVALID_QUOTE, START, GET_QUOTE, PROVIDE_V
<1>2. dict[p] \in Dicts /\ dict \in [Pollers -> Dicts]
  BY PollerFacts DEF Inductive, TypeOK
<1>3. \A op \in VALID_STATES : [dict[p] EXCEPT !.retries = 0, !.op = op].id = dict[p].id
  BY <1>2, BranchDicts
<1>4. CASE GiveUp(p)
  <2>1. PICK new : Dispatch(p, VALID_STATES, new)
    BY <1>4 DEF GiveUp
  <2>2. OwnRowOnly(p) /\ WritesRow(p, dict[p])
    BY <2>1, DispatchIsWrite
  <2>3. QED
    BY <1>4, <2>2 DEF OwnStep, GiveUp
<1>5. CASE PollOn(p)
  <2>1. PICK new : Dispatch(p, VALID_STATES, new)
    BY <1>5 DEF PollOn
  <2>2. Moves(p, "quote", dict[p], NewCall(GET_QUOTE))
    BY <1>5 DEF PollOn, WaitAt, Moves
  <2>3. QED
    BY <2>1, <2>2, BranchIsOwn
<1>6. CASE FirstQuote(p) \/ NextQuote(p)
  <2>1. PICK d : d = [dict[p] EXCEPT !.retries = 0, !.op = GET_QUOTE]
    OBVIOUS
  <2>2. d.id = dict[p].id
    BY <1>3, <2>1 DEF VALID_STATES
  <2>3. \E where : Moves(p, where, d, NewCall(GET_QUOTE))
    BY <1>6, <2>1 DEF FirstQuote, NextQuote, WaitAt, Moves
  <2>4. Dispatch(p, {START}, GET_QUOTE) \/ Dispatch(p, {PROVIDE_V, GET_QUOTE}, GET_QUOTE)
    BY <1>6 DEF FirstQuote, NextQuote
  <2>5. QED
    BY <1>1, <2>2, <2>3, <2>4, BranchIsOwn
<1>7. CASE ProvideV(p) \/ ProvideVWithoutKey(p) \/ NoV(p)
  <2>1. InProvideV(dict[p]).id = dict[p].id /\ InProvideV(dict[p]) \in Dicts
    BY <1>2, BranchDicts
  <2>2. PreparedV(InProvideV(dict[p])).id = dict[p].id
    BY <2>1, BranchDicts
  <2>3. \E where, d, c : Moves(p, where, d, c) /\ d.id = dict[p].id
    <3>1. CASE ProvideV(p)
      BY <2>2, <3>1 DEF ProvideV, WaitAt, Moves
    <3>2. CASE ProvideVWithoutKey(p)
      BY <2>1, <3>2 DEF ProvideVWithoutKey, FailWith, Moves
    <3>3. CASE NoV(p)
      BY <2>1, <3>3 DEF NoV, Moves
    <3>4. QED
      BY <1>7, <3>1, <3>2, <3>3
  <2>4. Dispatch(p, {GET_QUOTE}, PROVIDE_V)
    BY <1>7 DEF ProvideV, ProvideVWithoutKey, NoV
  <2>5. QED
    BY <1>1, <2>3, <2>4, BranchIsOwn
<1>8. CASE RetryQuote(p) \/ RetryV(p)
  <2>1. PICK d : d = Retry(dict[p])
    OBVIOUS
  <2>2. d.id = dict[p].id /\ d.op = dict[p].op
    BY <1>2, <2>1 DEF Retry, Dicts
  <2>3. \E where : Moves(p, where, d, NewCall(GET_QUOTE))
    BY <1>8, <2>1 DEF RetryQuote, RetryV, WaitAt, Moves
  <2>4. \E from, new : Dispatch(p, from, new)
    BY <1>8 DEF RetryQuote, RetryV
  <2>5. QED
    BY <2>2, <2>3, <2>4, BranchIsOwn
<1>9. CASE Unreachable(p) \/ UnreachableForV(p) \/ FallOut(p)
  <2>1. dict' = [dict EXCEPT ![p] = dict[p]]
    BY <1>2, <1>9 DEF Unreachable, UnreachableForV, FallOut, CommError
  <2>2. \E where, c : Moves(p, where, dict[p], c)
    BY <1>9, <2>1 DEF Unreachable, UnreachableForV, FallOut, CommError, FailWith, Moves
  <2>3. \E from, new : Dispatch(p, from, new)
    BY <1>9 DEF Unreachable, UnreachableForV, FallOut
  <2>4. QED
    BY <2>2, <2>3, BranchIsOwn
<1>10. QED
  BY <1>4, <1>5, <1>6, <1>7, <1>8, <1>9

\* A reply that leaves the rows, or writes a position, goes on in the same state.
LEMMA ReplyIsOwn ==
  ASSUME Inductive, NEW p \in Pollers, Live(p), NEW b \in BOOLEAN,
         UNCHANGED db \/ StorePosition(p, b),
         NEW where, NEW d, SameAgent(dict[p], d), NEW c, Moves(p, where, d, c)
  PROVE  OwnStep(p)
<1>1. PICK a : a = dict[p].id
  OBVIOUS
<1>2. a \in Agents /\ OwnRowOnly(p)
  BY <1>1, PollerFacts, StorePositionType DEF OwnRowOnly
<1>3. \A row \in Rows : [row EXCEPT !.boot = TRUE].op = row.op
  BY DEF Rows
<1>4. \/ db'[a] = db[a]
      \/ db[a] \in Rows /\ db[a] # None /\ db'[a] = [db[a] EXCEPT !.boot = TRUE]
  BY <1>1, <1>2 DEF StorePosition, Inductive, TypeOK
<1>5. db'[a] = None \/ (db[a] # None /\ db'[a].op = db[a].op)
  BY <1>3, <1>4
<1>6. LeavesRow(p, d)
  BY <1>1, <1>5 DEF LeavesRow, SameAgent
<1>7. QED
  BY <1>2, <1>6 DEF OwnStep, SameAgent

\* A new API version is written with the poller's state.
LEMMA VersionIsOwn ==
  ASSUME Inductive, NEW p \in Pollers, Live(p), VersionUpdated(p) \/ NoticeToSelf(p)
  PROVE  OwnStep(p)
<1>1. PICK d : d = [dict[p] EXCEPT !.version = @ + 1]
  OBVIOUS
<1>2. dict[p] \in Dicts /\ dict[p].id \in Agents /\ TypeOK
  BY PollerFacts DEF Inductive
<1>3. d \in Dicts /\ d.id = dict[p].id /\ d.op = dict[p].op
  BY <1>1, <1>2, VerifierAssumption DEF VersionUpdated, NoticeToSelf, Dicts
<1>4. db' = Stored(d)
  BY <1>1 DEF VersionUpdated, NoticeToSelf
<1>5. OwnRowOnly(p)
  BY <1>2, <1>3, <1>4, StoredType DEF OwnRowOnly
<1>6. \E where, c : Moves(p, where, d, c)
  <2>1. CASE VersionUpdated(p)
    BY <1>1, <2>1 DEF VersionUpdated, Schedule, Moves
  <2>2. CASE NoticeToSelf(p)
    <3>1. dict' = [dict EXCEPT ![p] = d] /\ UNCHANGED <<pc, call>>
      BY <1>1, <2>2 DEF NoticeToSelf
    <3>2. QED
      BY <3>1 DEF Moves, Inductive, TypeOK
  <2>3. QED
    BY <2>1, <2>2
<1>7. CASE db[d.id] = None
  <2>1. LeavesRow(p, d)
    BY <1>3, <1>4, <1>7 DEF LeavesRow, Stored
  <2>2. QED
    BY <1>3, <1>5, <1>6, <2>1 DEF OwnStep
<1>8. CASE db[d.id] # None
  <2>1. WritesRow(p, d)
    BY <1>2, <1>3, <1>4, <1>8, StoredType DEF WritesRow
  <2>2. QED
    BY <1>3, <1>5, <1>6, <2>1 DEF OwnStep
<1>9. QED
  BY <1>7, <1>8

\* Every timer and every reply is of that kind.
LEMMA RepliesAreOwn ==
  ASSUME Inductive, NEW p \in Pollers, Live(p), Replying(p)
  PROVE  OwnStep(p)
<1>1. dict[p] \in Dicts /\ SameAgent(dict[p], dict[p]) /\ Positions \subseteq BOOLEAN
  BY PollerFacts, VerifierAssumption DEF SameAgent
<1>2. CASE TimerFires(p)
  <2>1. \E where : Moves(p, where, dict[p], call[p])
    BY <1>2 DEF TimerFires, Moves, Inductive, TypeOK
  <2>2. UNCHANGED db
    BY <1>2 DEF TimerFires
  <2>3. QED
    BY <1>1, <2>1, <2>2, ReplyIsOwn
<1>3. CASE NoPublicKey(p) \/ VkeyAccepted(p) \/ ConnectionError(p) \/ BadAnswer(p)
           \/ VersionRefused(p) \/ VersionNotUpdated(p)
  <2>1. \E where, c : Moves(p, where, dict[p], c)
    BY <1>3 DEF NoPublicKey, VkeyAccepted, ConnectionError, BadAnswer, VersionRefused,
       VersionNotUpdated, Schedule, WaitAt, Moves
  <2>2. UNCHANGED db
    BY <1>3 DEF NoPublicKey, VkeyAccepted, ConnectionError, BadAnswer, VersionRefused,
       VersionNotUpdated
  <2>3. QED
    BY <1>1, <2>1, <2>2, ReplyIsOwn
<1>4. ASSUME NEW k \in Keys \union {None}, NEW b \in Positions, QuoteVerified(p, k, b)
      PROVE  OwnStep(p)
  <2>1. PICK d : d = WithPubkey(dict[p], k)
    OBVIOUS
  <2>2. PICK key : key = IF k = None THEN d.key ELSE k
    OBVIOUS
  <2>3. PICK e : e = Accepted(d, key)
    OBVIOUS
  <2>4. d \in Dicts /\ SameAgent(dict[p], d)
    BY <1>1, <2>1, ReplyDicts
  <2>5. key \in Keys \union {None}
    BY <2>2, <2>4 DEF Dicts
  <2>6. SameAgent(dict[p], e)
    BY <2>3, <2>4, <2>5, ReplyDicts DEF SameAgent
  <2>7. \E c : Moves(p, "ready", e, c)
    BY <1>4, <2>1, <2>2, <2>3 DEF QuoteVerified, AfterQuote, Schedule, Moves
  <2>8. StorePosition(p, b)
    BY <1>4 DEF QuoteVerified
  <2>9. QED
    BY <1>1, <2>6, <2>7, <2>8, ReplyIsOwn
<1>5. ASSUME NEW k \in Keys \union {None}, QuoteAfterReboot(p, k)
      PROVE  OwnStep(p)
  <2>1. SameAgent(dict[p], WithPubkey(dict[p], k))
    BY <1>1, ReplyDicts
  <2>2. \E c : Moves(p, "ready", WithPubkey(dict[p], k), c)
    BY <1>5 DEF QuoteAfterReboot, AfterQuote, Schedule, Moves
  <2>3. StorePosition(p, FALSE)
    BY <1>5 DEF QuoteAfterReboot
  <2>4. QED
    BY <2>1, <2>2, <2>3, ReplyIsOwn
<1>6. ASSUME NEW k \in Keys \union {None}, NEW f \in QuoteFailures, NEW b \in Positions,
             QuoteRejected(p, k, f, b)
      PROVE  OwnStep(p)
  <2>1. SameAgent(dict[p], WithPubkey(dict[p], k))
    BY <1>1, ReplyDicts
  <2>2. \E c : Moves(p, "ready", WithPubkey(dict[p], k), c)
    BY <1>6 DEF QuoteRejected, Schedule, Moves
  <2>3. StorePosition(p, b)
    BY <1>6 DEF QuoteRejected
  <2>4. QED
    BY <1>1, <2>1, <2>2, <2>3, ReplyIsOwn
<1>7. QED
  BY <1>2, <1>3, <1>4, <1>5, <1>6, VersionIsOwn DEF Replying
-----------------------------------------------------------------------------
(* The tenant and the restart *)

\* A poller that starts is the only one of its agent.
LEMMA StartKeepsFailures ==
  ASSUME Inductive, Alone, NEW p \in Pollers, NEW a \in Agents, Unpolled(a),
         NEW d, d.id = a, d.op = START,
         pc' = [pc EXCEPT ![p] = "ready"], dict' = [dict EXCEPT ![p] = d],
         \A b \in Agents : b # a => db'[b] = db[b],
         db[a] = None \/ db'[a] = db[a]
  PROVE  Alone' /\ \A b \in Agents : KeepsFailure(b)
<1>1. \A b \in Agents : KeepsFailure(b)
  BY DEF KeepsFailure, FailedTargets, FAILED, INVALID_QUOTE, GET_QUOTE, PROVIDE_V
<1>2. dict'[p] = d /\ \A q \in Pollers : q # p => pc'[q] = pc[q] /\ dict'[q] = dict[q]
  BY DEF Inductive, TypeOK
<1>3. \A q \in Pollers : q # p /\ Live(q)' =>
        Live(q) /\ dict'[q] = dict[q] /\ dict[q].id \in Agents \ {a}
  BY <1>2, PollerFacts DEF Unpolled, Live
<1>4. ASSUME NEW q \in Pollers, Live(q)', db'[dict'[q].id] # None,
             db'[dict'[q].id].op \in FailedTargets
      PROVE  dict'[q].op \in FailedTargets \union {START}
  <2>1. CASE q = p
    BY <1>2, <2>1
  <2>2. CASE q # p
    BY <1>3, <1>4, <2>2 DEF Alone, RowOf
  <2>3. QED
    BY <2>1, <2>2
<1>5. \A q, r \in Pollers : Live(q)' /\ Live(r)' /\ dict'[q].id = dict'[r].id => q = r
  BY <1>2, <1>3 DEF Alone
<1>6. QED
  BY <1>1, <1>4, <1>5 DEF Alone, RowOf, Live

\* DELETE and stop write no failed state.
LEMMA VerdictKeepsFailures ==
  ASSUME Inductive, Alone, NEW w \in Workers, NEW a \in Agents, Delete(w, a) \/ Stop(w, a)
  PROVE  Alone' /\ \A b \in Agents : KeepsFailure(b)
<1>1. db[a] \in Rows
  BY DEF Delete, Stop, Inductive, TypeOK
<1>2. \A op \in Verdicts : [db[a] EXCEPT !.op = op].op = op
  BY <1>1 DEF Rows
<1>3. \/ db' = [db EXCEPT ![a] = None]
      \/ \E op \in Verdicts : db' = [db EXCEPT ![a] = [db[a] EXCEPT !.op = op]]
  BY DEF Delete, Stop, DeleteRow, Verdicts
<1>4. /\ \A b \in Agents : b # a => db'[b] = db[b]
      /\ db'[a] # None => db'[a].op \in Verdicts
  BY <1>2, <1>3 DEF Inductive, TypeOK
<1>5. Verdicts \cap (FailedTargets \union {GET_QUOTE, PROVIDE_V}) = {}
  BY DEF Verdicts, FailedTargets, TERMINATED, TENANT_FAILED, FAILED, INVALID_QUOTE,
     GET_QUOTE, PROVIDE_V
<1>6. \A b \in Agents : KeepsFailure(b)
  BY <1>4, <1>5 DEF KeepsFailure, FailedTargets, FAILED, INVALID_QUOTE, GET_QUOTE, PROVIDE_V
<1>7. UNCHANGED <<pc, dict>>
  BY DEF Delete, Stop
<1>8. \A q \in Pollers : Live(q) => dict[q].id \in Agents
  BY PollerFacts
<1>9. QED
  BY <1>4, <1>5, <1>6, <1>7, <1>8 DEF Alone, RowOf, Live

\* After a restart every agent under attestation has one poller, which starts.
LEMMA ActivateKeepsFailures ==
  ASSUME Inductive, NEW worker \in [Agents -> Workers], NEW poller \in [Agents -> Pollers],
         Activate(worker, poller)
  PROVE  Alone' /\ \A b \in Agents : KeepsFailure(b)
<1>1. PICK rows : rows = [a \in Agents |-> Reset(db[a])]
  OBVIOUS
<1>2. PICK polled : polled = {a \in Agents : rows[a] # None /\ rows[a].op = START}
  OBVIOUS
<1> DEFINE runs(q) == {a \in polled : poller[a] = q}
<1>3. /\ db' = rows
      /\ pc' = [q \in Pollers |-> IF runs(q) = {} THEN "idle" ELSE "ready"]
      /\ dict' = [q \in Pollers |-> IF runs(q) = {} THEN BlankDict
            ELSE FromRow(CHOOSE a \in runs(q) : TRUE, rows[CHOOSE a \in runs(q) : TRUE])]
  BY <1>1, <1>2 DEF Activate
<1>4. \A a \in Agents : db[a] # None /\ db[a].op \in FailedTargets => db'[a] = db[a]
  BY <1>1, <1>3 DEF Reset, FailedTargets, FAILED, INVALID_QUOTE, APPROVED_REACTIVATE_STATES,
     START, GET_QUOTE, GET_QUOTE_RETRY, PROVIDE_V, PROVIDE_V_RETRY
<1>5. \A b \in Agents : KeepsFailure(b)
  BY <1>4 DEF KeepsFailure, FailedTargets, FAILED, INVALID_QUOTE, GET_QUOTE, PROVIDE_V
<1>6. ASSUME NEW q \in Pollers, Live(q)'
      PROVE  \E a \in polled : poller[a] = q /\ dict'[q].id = a /\ dict'[q].op = START
  <2>1. runs(q) # {}
    BY <1>3, <1>6 DEF Live
  <2>2. PICK a : a = CHOOSE b \in runs(q) : TRUE
    OBVIOUS
  <2>3. a \in polled /\ poller[a] = q
    BY <2>1, <2>2
  <2>4. dict'[q] = FromRow(a, rows[a])
    BY <1>3, <2>1, <2>2
  <2>5. QED
    BY <1>2, <2>3, <2>4 DEF FromRow
<1> HIDE DEF runs
<1>7. QED
  BY <1>5, <1>6 DEF Alone, RowOf

\* Every step keeps the invariant, and every failure.
LEMMA NextKeepsFailures ==
  ASSUME Inductive, Alone, StableVersions, AddedAlone, [Next]_vars
  PROVE  Alone' /\ \A b \in Agents : KeepsFailure(b)
<1>1. CASE \E p \in Pollers : PollerStep(p)
  BY <1>1, OwnStepKeeps, ChecksAreOwn, BranchesAreOwn, RepliesAreOwn
     DEF PollerStep, Processing
<1>2. ASSUME NEW w \in Workers, NEW a \in Agents, Handlers(w, a)
      PROVE  Alone' /\ \A b \in Agents : KeepsFailure(b)
  <2>1. ASSUME NEW p \in Pollers, NEW hasV \in Payloads, Post(w, p, a, hasV)
        PROVE  Alone' /\ \A b \in Agents : KeepsFailure(b)
    <3>1. PICK row : row = [op |-> START, last |-> NoEvent, attested |-> FALSE, key |-> None,
                            v |-> hasV, version |-> 1, boot |-> FALSE]
      OBVIOUS
    <3>2. FromRow(a, row).id = a /\ FromRow(a, row).op = START
      BY <3>1 DEF FromRow
    <3>3. /\ db[a] = None /\ db' = [db EXCEPT ![a] = row]
          /\ pc' = [pc EXCEPT ![p] = "ready"] /\ dict' = [dict EXCEPT ![p] = FromRow(a, row)]
      BY <2>1, <3>1 DEF Post, Schedule
    <3>4. Unpolled(a)
      BY <2>1 DEF AddedAlone
    <3>5. \A b \in Agents : b # a => db'[b] = db[b]
      BY <3>3 DEF Inductive, TypeOK
    <3>6. QED
      BY <3>2, <3>3, <3>4, <3>5, StartKeepsFailures
  <2>2. ASSUME NEW p \in Pollers, Reactivate(w, p, a)
        PROVE  Alone' /\ \A b \in Agents : KeepsFailure(b)
    <3>1. PICK d : d = [FromRow(a, db[a]) EXCEPT !.op = START]
      OBVIOUS
    <3>2. d.id = a /\ d.op = START
      BY <3>1 DEF FromRow
    <3>3. /\ UNCHANGED db /\ pc' = [pc EXCEPT ![p] = "ready"]
          /\ dict' = [dict EXCEPT ![p] = d]
      BY <2>2, <3>1 DEF Reactivate, Schedule
    <3>4. Unpolled(a)
      BY <2>2 DEF AddedAlone
    <3>5. QED
      BY <3>2, <3>3, <3>4, StartKeepsFailures
  <2>3. QED
    BY <1>2, <2>1, <2>2, VerdictKeepsFailures DEF Handlers
<1>3. CASE Restart
  BY <1>3, ActivateKeepsFailures DEF Restart
<1>4. CASE (\E a \in Agents : HostDown(a)) \/ UNCHANGED vars
  BY <1>4 DEF HostDown, vars, Alone, RowOf, Live, KeepsFailure, FailedTargets, FAILED,
     INVALID_QUOTE, GET_QUOTE, PROVIDE_V
<1>5. ~ \E n \in notices : NoticeRefused(n)
  BY DEF Inductive, NoticesSound
<1>6. QED
  BY <1>1, <1>2, <1>3, <1>4, <1>5 DEF Next

\* Where nobody upgrades its API version while it is told of a revocation, and
\* an agent is added or reactivated only when no poller is left for it, a
\* failure on a row is never overwritten by polling that goes on: the row is
\* taken, started anew, or given another failure or a verdict (process_agent,
\* AgentsHandler).  A second poller, or a late notice, writes what it read before.
THEOREM FailuresStay ==
  ASSUME StableVersions
  PROVE  Spec /\ PolledOnce => FailureStays
<1>1. Init => Alone
  BY DEF Init, Alone, Live
<1>2. Inductive /\ Alone /\ AddedAlone /\ [Next]_vars => Alone'
  BY NextKeepsFailures
<1>3. Inductive /\ Alone /\ UNCHANGED vars => Alone'
  BY DEF vars, Alone, RowOf, Live
<1>4. Inductive /\ Alone /\ [AddedAlone]_vars /\ [Next]_vars => Alone'
  BY <1>2, <1>3
<1>5. Inductive /\ Alone /\ [AddedAlone]_vars /\ [Next]_vars
        => [\A a \in Agents :
              db[a] # None /\ db[a].op \in {FAILED, INVALID_QUOTE}
                => db'[a] = None \/ db'[a].op \notin {GET_QUOTE, PROVIDE_V}]_vars
  BY NextKeepsFailures DEF KeepsFailure, FailedTargets
<1>6. QED
  BY <1>1, <1>4, <1>5, InductiveInvariant, PTL DEF Spec, PolledOnce, FailureStays
-----------------------------------------------------------------------------
(* Failure objects and their lists *)

\* What one object says of its list.
Sums(o, list) ==
  /\ list = <<>> => o.top = L!NoEvent
  /\ list # <<>> => \E i \in 1..Len(list) : o.top = list[i] /\ L!FirstHighest(list, i)
  /\ o.recoverable <=> \A i \in 1..Len(list) : list[i].recoverable
  /\ \A i \in 1..Len(list) : list[i].recoverable \/ list[i].sev = MaxSev

AllSumUp == L!TypeOK /\ \A s \in Slots : Sums(obj[s], events[s])
-----------------------------------------------------------------------------
\* The severities in a list.
LEMMA SeveritiesOf ==
  ASSUME NEW l \in Seq(L!Events), NEW i \in 1..Len(l)
  PROVE  l[i] \in L!Events /\ l[i].sev \in 0..MaxSev
<1>1. l[i] \in L!Events
  OBVIOUS
<1>2. QED
  BY <1>1 DEF L!Events, L!Severities

\* An event as it is kept.
LEMMA LabelledType ==
  ASSUME NEW e \in L!Events
  PROVE  /\ L!Labelled(e) \in L!Events /\ L!Labelled(e).recoverable = e.recoverable
         /\ e.recoverable \/ L!Labelled(e).sev = MaxSev
  BY MaxSevAssumption DEF L!Labelled, L!Events, L!Severities

\* Merging two objects sums up one list after the other.
LEMMA MergeSums ==
  ASSUME NEW o \in L!Failures, NEW p \in L!Failures, NEW l \in Seq(L!Events), NEW m \in Seq(L!Events),
         Sums(o, l), Sums(p, m)
  PROVE  L!Merge(o, p) \in L!Failures /\ Sums(L!Merge(o, p), l \o m)
<1>1. /\ l \o m \in Seq(L!Events) /\ Len(l \o m) = Len(l) + Len(m)
      /\ Len(l) \in Nat /\ Len(m) \in Nat
      /\ \A i \in 1..Len(l) : i \in 1..Len(l \o m) /\ (l \o m)[i] = l[i]
      /\ \A i \in 1..Len(m) : Len(l) + i \in 1..Len(l \o m) /\ (l \o m)[Len(l) + i] = m[i]
  OBVIOUS
<1>2. \A i \in 1..Len(l \o m) :
        i \in 1..Len(l) \/ (i - Len(l) \in 1..Len(m) /\ (l \o m)[i] = m[i - Len(l)])
  BY <1>1
<1>3. /\ \A i \in 1..Len(l) : l[i] \in L!Events /\ l[i].sev \in 0..MaxSev
      /\ \A i \in 1..Len(m) : m[i] \in L!Events /\ m[i].sev \in 0..MaxSev
  BY SeveritiesOf
<1>4. PICK r : r = L!Merge(o, p)
  OBVIOUS
<1>5. /\ r.top = IF p.top.sev > o.top.sev THEN p.top ELSE o.top
      /\ r.recoverable = (o.recoverable /\ p.recoverable)
      /\ r \in L!Failures
  BY <1>4 DEF L!Merge, L!Higher, L!Failures
<1>6. /\ l = <<>> <=> Len(l) = 0
      /\ m = <<>> <=> Len(m) = 0
      /\ l \o m = <<>> <=> Len(l) = 0 /\ Len(m) = 0
  BY <1>1
<1>7. L!NoEvent.sev = -1
  BY DEF L!NoEvent
<1>8. l \o m = <<>> => r.top = L!NoEvent
  BY <1>5, <1>6 DEF Sums
<1>9. ASSUME l \o m # <<>>
      PROVE  \E i \in 1..Len(l \o m) : r.top = (l \o m)[i] /\ L!FirstHighest(l \o m, i)
  <2>1. CASE m = <<>>
    <3>1. l \o m = l /\ r.top = o.top
      BY <1>3, <1>5, <1>7, <1>9, <2>1, MaxSevAssumption DEF Sums
    <3>2. QED
      BY <1>9, <3>1 DEF Sums
  <2>2. CASE l = <<>>
    <3>1. l \o m = m
      BY <2>2
    <3>2. PICK i \in 1..Len(m) : p.top = m[i] /\ L!FirstHighest(m, i)
      BY <1>9, <3>1 DEF Sums
    <3>3. o.top.sev = -1 /\ p.top.sev \in 0..MaxSev
      BY <1>3, <1>7, <2>2, <3>2 DEF Sums
    <3>4. r.top = p.top
      BY <1>5, <3>3, MaxSevAssumption
    <3>5. QED
      BY <3>1, <3>2, <3>4
  <2>3. CASE l # <<>> /\ m # <<>>
    <3>1. PICK i \in 1..Len(l) : o.top = l[i] /\ L!FirstHighest(l, i)
      BY <2>3 DEF Sums
    <3>2. PICK j \in 1..Len(m) : p.top = m[j] /\ L!FirstHighest(m, j)
      BY <2>3 DEF Sums
    <3>3. CASE m[j].sev > l[i].sev
      <4>1. r.top = (l \o m)[Len(l) + j]
        BY <1>1, <1>5, <3>1, <3>2, <3>3
      <4>2. \A k \in 1..Len(l) : l[k].sev < m[j].sev
        BY <1>3, <3>1, <3>2, <3>3, MaxSevAssumption DEF L!FirstHighest
      <4>3. \A k \in 1..Len(l \o m) : (l \o m)[k].sev <= m[j].sev
        BY <1>1, <1>2, <1>3, <3>2, <4>2, MaxSevAssumption DEF L!FirstHighest
      <4>4. ASSUME NEW k \in 1..(Len(l) + j - 1)
            PROVE  (l \o m)[k].sev < m[j].sev
        <5>1. k \in 1..Len(l) \/ (k - Len(l) \in 1..(j - 1) /\ k - Len(l) \in 1..Len(m))
          BY <1>1
        <5>2. CASE k \in 1..Len(l)
          BY <1>1, <4>2, <5>2
        <5>3. CASE k - Len(l) \in 1..(j - 1) /\ k - Len(l) \in 1..Len(m)
          <6>1. PICK n \in 1..(j - 1) : n = k - Len(l) /\ n \in 1..Len(m)
            BY <5>3
          <6>2. (l \o m)[k] = m[n]
            BY <1>1, <6>1
          <6>3. m[n].sev < m[j].sev
            BY <3>2, <6>1 DEF L!FirstHighest
          <6>4. QED
            BY <6>2, <6>3
        <5>4. QED
          BY <5>1, <5>2, <5>3
      <4>5. (l \o m)[Len(l) + j] = m[j]
        BY <1>1
      <4>6. L!FirstHighest(l \o m, Len(l) + j)
        <5>1. PICK q, c, n : q = Len(l) + j /\ c = l \o m /\ n = m[j]
          OBVIOUS
        <5>2. c[q] = n
          BY <4>5, <5>1
        <5>3. \A k \in 1..Len(c) : c[k].sev <= n.sev
          BY <4>3, <5>1
        <5>4. \A k \in 1..(q - 1) : c[k].sev < n.sev
          BY <4>4, <5>1
        <5>5. L!FirstHighest(c, q)
          BY <5>2, <5>3, <5>4 DEF L!FirstHighest
        <5>6. QED
          BY <5>1, <5>5
      <4>7. QED
        BY <1>1, <4>1, <4>6
    <3>4. CASE ~(m[j].sev > l[i].sev)
      <4>1. r.top = (l \o m)[i]
        BY <1>1, <1>5, <3>1, <3>2, <3>4
      <4>2. \A k \in 1..Len(m) : m[k].sev <= l[i].sev
        BY <1>3, <3>1, <3>2, <3>4, MaxSevAssumption DEF L!FirstHighest
      <4>3. \A k \in 1..Len(l \o m) : (l \o m)[k].sev <= l[i].sev
        BY <1>1, <1>2, <1>3, <3>1, <4>2, MaxSevAssumption DEF L!FirstHighest
      <4>4. ASSUME NEW k \in 1..(i - 1)
            PROVE  (l \o m)[k].sev < l[i].sev
        <5>1. (l \o m)[k] = l[k]
          BY <1>1
        <5>2. QED
          BY <3>1, <5>1 DEF L!FirstHighest
      <4>5. (l \o m)[i] = l[i]
        BY <1>1
      <4>6. L!FirstHighest(l \o m, i)
        <5>1. PICK c, n : c = l \o m /\ n = l[i]
          OBVIOUS
        <5>2. c[i] = n
          BY <4>5, <5>1
        <5>3. \A k \in 1..Len(c) : c[k].sev <= n.sev
          BY <4>3, <5>1
        <5>4. \A k \in 1..(i - 1) : c[k].sev < n.sev
          BY <4>4, <5>1
        <5>5. L!FirstHighest(c, i)
          BY <5>2, <5>3, <5>4 DEF L!FirstHighest
        <5>6. QED
          BY <5>1, <5>5
      <4>7. QED
        BY <1>1, <4>1, <4>6
    <3>5. QED
      BY <3>3, <3>4
  <2>4. QED
    BY <2>1, <2>2, <2>3
<1>10. r.recoverable <=> \A i \in 1..Len(l \o m) : (l \o m)[i].recoverable
  BY <1>1, <1>2, <1>5 DEF Sums
<1>11. \A i \in 1..Len(l \o m) : (l \o m)[i].recoverable \/ (l \o m)[i].sev = MaxSev
  BY <1>1, <1>2 DEF Sums
<1>12. QED
  BY <1>4, <1>5, <1>8, <1>9, <1>10, <1>11 DEF Sums

\* An event sums up the list of itself alone.
LEMMA OneEventSums ==
  ASSUME NEW e \in L!Events
  PROVE  /\ L!AddEvent(L!EmptyFailure, e) \in L!Failures
         /\ Sums(L!AddEvent(L!EmptyFailure, e), <<L!Labelled(e)>>)
<1>1. PICK f : f = L!Labelled(e)
  OBVIOUS
<1>2. f \in L!Events /\ f.recoverable = e.recoverable /\ (f.recoverable \/ f.sev = MaxSev)
  BY <1>1, LabelledType
<1>3. f.sev \in Nat /\ f.sev > -1
  BY <1>2, MaxSevAssumption DEF L!Events, L!Severities
<1>4. L!AddEvent(L!EmptyFailure, e) = [recoverable |-> e.recoverable, top |-> f]
  BY <1>1, <1>3 DEF L!AddEvent, L!EmptyFailure, L!Higher, L!NoEvent, L!Events
<1>5. Len(<<f>>) = 1 /\ <<f>>[1] = f /\ <<f>> # <<>> /\ 1..1 = {1} /\ 1..0 = {}
  OBVIOUS
<1>6. L!FirstHighest(<<f>>, 1)
  BY <1>3, <1>5 DEF L!FirstHighest
<1>7. Sums([recoverable |-> e.recoverable, top |-> f], <<f>>)
  BY <1>2, <1>5, <1>6 DEF Sums
<1>8. [recoverable |-> e.recoverable, top |-> f] \in L!Failures
  BY <1>2 DEF L!Failures, L!Events
<1>9. QED
  BY <1>1, <1>4, <1>7, <1>8

\* add_event is a merge with the object of the event alone.
LEMMA AddEventIsMerge ==
  ASSUME NEW o \in L!Failures, NEW e \in L!Events
  PROVE  L!AddEvent(o, e) = L!Merge(o, L!AddEvent(L!EmptyFailure, e))
<1>1. L!Labelled(e) \in L!Events
  BY LabelledType
<1>2. L!Labelled(e).sev \in Nat
  BY <1>1, MaxSevAssumption DEF L!Events, L!Severities
<1>3. L!Higher(L!NoEvent, L!Labelled(e)) = L!Labelled(e)
  BY <1>2 DEF L!Higher, L!NoEvent
<1>4. L!AddEvent(L!EmptyFailure, e).top = L!Labelled(e)
  BY <1>3 DEF L!AddEvent, L!EmptyFailure
<1>5. L!AddEvent(L!EmptyFailure, e).recoverable = e.recoverable
  BY DEF L!AddEvent, L!EmptyFailure, L!Events
<1>6. QED
  BY <1>4, <1>5 DEF L!AddEvent, L!Merge
-----------------------------------------------------------------------------
(* The steps *)

LEMMA EmptySums ==
  L!EmptyFailure \in L!Failures /\ Sums(L!EmptyFailure, <<>>)
<1>1. Len(<<>>) = 0 /\ 1..0 = {}
  OBVIOUS
<1>2. QED
  BY <1>1 DEF L!EmptyFailure, L!Failures, Sums

\* The step of one object.
LEMMA OneObject ==
  ASSUME AllSumUp, NEW s \in Slots, NEW o \in L!Failures, NEW l \in Seq(L!Events), Sums(o, l),
         obj' = [obj EXCEPT ![s] = o], events' = [events EXCEPT ![s] = l]
  PROVE  AllSumUp'
<1>1. L!TypeOK'
  BY DEF AllSumUp, L!TypeOK
<1>2. /\ obj'[s] = o /\ events'[s] = l
      /\ \A t \in Slots \ {s} : obj'[t] = obj[t] /\ events'[t] = events[t]
  BY DEF AllSumUp, L!TypeOK
<1>3. \A t \in Slots : Sums(obj'[t], events'[t])
  BY <1>2 DEF AllSumUp
<1>4. QED
  BY <1>1, <1>3 DEF AllSumUp, Sums, L!FirstHighest

LEMMA NextSums ==
  ASSUME AllSumUp, [L!Next]_L!vars
  PROVE  AllSumUp'
<1>1. \A s \in Slots : obj[s] \in L!Failures /\ events[s] \in Seq(L!Events) /\ Sums(obj[s], events[s])
  BY DEF AllSumUp, L!TypeOK
<1>2. ASSUME NEW s \in Slots, NEW e \in L!Events, L!Add(s, e)
      PROVE  AllSumUp'
  <2>1. L!Labelled(e) \in L!Events
    BY LabelledType
  <2>2. /\ L!AddEvent(obj[s], e) \in L!Failures
        /\ Sums(L!AddEvent(obj[s], e), events[s] \o <<L!Labelled(e)>>)
    <3>1. <<L!Labelled(e)>> \in Seq(L!Events)
      BY <2>1
    <3>2. PICK one : one = L!AddEvent(L!EmptyFailure, e)
      OBVIOUS
    <3>3. one \in L!Failures /\ Sums(one, <<L!Labelled(e)>>) /\ L!AddEvent(obj[s], e) = L!Merge(obj[s], one)
      BY <1>1, <3>2, OneEventSums, AddEventIsMerge
    <3>4. QED
      BY <1>1, <3>1, <3>3, MergeSums
  <2>3. /\ Append(events[s], L!Labelled(e)) = events[s] \o <<L!Labelled(e)>>
        /\ Append(events[s], L!Labelled(e)) \in Seq(L!Events)
    BY <1>1, <2>1
  <2>4. /\ obj' = [obj EXCEPT ![s] = L!AddEvent(obj[s], e)]
        /\ events' = [events EXCEPT ![s] = Append(events[s], L!Labelled(e))]
    BY <1>2 DEF L!Add
  <2>5. QED
    BY <2>2, <2>3, <2>4, OneObject
<1>3. ASSUME NEW s \in Slots, NEW t \in Slots, L!MergeInto(s, t)
      PROVE  AllSumUp'
  <2>1. L!Merge(obj[s], obj[t]) \in L!Failures /\ Sums(L!Merge(obj[s], obj[t]), events[s] \o events[t])
    BY <1>1, MergeSums
  <2>2. events[s] \o events[t] \in Seq(L!Events)
    BY <1>1
  <2>3. /\ obj' = [obj EXCEPT ![s] = L!Merge(obj[s], obj[t])]
        /\ events' = [events EXCEPT ![s] = events[s] \o events[t]]
    BY <1>3 DEF L!MergeInto
  <2>4. QED
    BY <2>1, <2>2, <2>3, OneObject
<1>4. ASSUME NEW s \in Slots, L!Fresh(s)
      PROVE  AllSumUp'
  <2>1. <<>> \in Seq(L!Events)
    OBVIOUS
  <2>2. QED
    BY <1>4, <2>1, EmptySums, OneObject DEF L!Fresh
<1>5. CASE UNCHANGED L!vars
  BY <1>5 DEF L!vars, AllSumUp, L!TypeOK, Sums, L!FirstHighest
<1>6. QED
  BY <1>2, <1>3, <1>4, <1>5 DEF L!Next
-----------------------------------------------------------------------------
(* The theorems *)

\* An object sums up its list, whatever was added and merged (Failure._add, merge): the
\* inductive invariant of the theorems below.
THEOREM ObjectsSumUp == L!Spec => []AllSumUp
<1>1. L!Init => AllSumUp
  BY EmptySums DEF L!Init, AllSumUp, L!TypeOK
<1>2. AllSumUp /\ [L!Next]_L!vars => AllSumUp'
  BY NextSums
<1>3. QED
  BY <1>1, <1>2, PTL DEF L!Spec

\* The highest event of an object is the first event of the highest severity in its
\* list, through every nesting of add_event and merge (Failure.__init__).
THEOREM HighestIsFirst == L!Spec => []L!TopIsFirstHighest
<1>1. AllSumUp => L!TopIsFirstHighest
  BY DEF AllSumUp, Sums, L!TopIsFirstHighest
<1>2. QED
  BY <1>1, ObjectsSumUp, PTL

\* An object has an irrecoverable event in its list exactly if its flag says so and its
\* highest event is of the highest severity: the two tests process_agent stops
\* polling on agree about it (Failure._add).
THEOREM FatalEventsShow == L!Spec => []L!FatalEventIsNotHidden
<1>1. ASSUME AllSumUp, NEW s \in Slots
      PROVE  (\E i \in 1..Len(events[s]) : ~events[s][i].recoverable)
               <=> (~obj[s].recoverable /\ obj[s].top.sev = MaxSev)
  <2>1. Sums(obj[s], events[s]) /\ events[s] \in Seq(L!Events)
    BY <1>1 DEF AllSumUp, L!TypeOK
  <2>2. ASSUME NEW i \in 1..Len(events[s]), ~events[s][i].recoverable
        PROVE  ~obj[s].recoverable /\ obj[s].top.sev = MaxSev
    <3>1. events[s] # <<>> /\ events[s][i].sev = MaxSev
      BY <2>1, <2>2 DEF Sums
    <3>2. PICK j \in 1..Len(events[s]) :
            obj[s].top = events[s][j] /\ L!FirstHighest(events[s], j)
      BY <2>1, <3>1 DEF Sums
    <3>3. events[s][i].sev <= events[s][j].sev /\ events[s][j].sev \in 0..MaxSev
      BY <2>1, <2>2, <3>2, SeveritiesOf DEF L!FirstHighest
    <3>4. obj[s].top.sev = MaxSev
      BY <3>1, <3>2, <3>3, MaxSevAssumption
    <3>5. QED
      BY <2>1, <2>2, <3>4 DEF Sums
  <2>3. QED
    BY <2>1, <2>2 DEF Sums
<1>2. AllSumUp => L!FatalEventIsNotHidden
  BY <1>1 DEF L!FatalEventIsNotHidden
<1>3. QED
  BY <1>2, ObjectsSumUp, PTL
=============================================================================
