------------------------------ MODULE Failure ------------------------------
(* The failure objects of keylime/failure.py: what a failed check reports,
   and the severity that decides whether an agent is polled again.

   A Failure of the source carries its list of events, the first event of the
   highest severity, that severity and a flag.  The list is only ever tested
   for emptiness by the code that decides, and it is empty exactly when no
   highest event is set, so a failure is the flag and the highest event.
   FailureLog.tla keeps the lists and checks that this loses nothing. *)
EXTENDS Integers

CONSTANTS
  MaxSev,      \* severity of the last label of severity_labels
  EventIds     \* the event identifiers that occur

ASSUME MaxSevAssumption == MaxSev \in Nat

Severities == 0..MaxSev

Events == [id : EventIds, sev : Severities, recoverable : BOOLEAN]

\* highest_severity and highest_severity_event are None until an event is added.
NoEvent == [id |-> "none", sev |-> -1, recoverable |-> TRUE]

Failures == [recoverable : BOOLEAN, top : Events \union {NoEvent}]

EmptyFailure == [recoverable |-> TRUE, top |-> NoEvent]

\* Fault: the highest severity is taken for the number of labels.
Labelled_OffByOne(e) == IF e.recoverable THEN e ELSE [e EXCEPT !.sev = MaxSev + 1]

\* _add gives an irrecoverable event the highest severity label.
Labelled(e) == IF e.recoverable THEN e ELSE [e EXCEPT !.sev = MaxSev]

\* The event that stays on top when e is seen after t: only a strictly higher
\* severity replaces it.
Higher(t, e) == IF e.sev > t.sev THEN e ELSE t

AddEvent(f, e) ==
  [recoverable |-> f.recoverable /\ e.recoverable,
   top         |-> Higher(f.top, Labelled(e))]

\* Fault: a merged failure may be irrecoverable unnoticed.
Merge_KeepsFlag(f, g) == [f EXCEPT !.top = Higher(f.top, g.top)]

Merge(f, g) ==
  [recoverable |-> f.recoverable /\ g.recoverable,
   top         |-> Higher(f.top, g.top)]

\* Failure.__bool__: the failure is not empty.
IsFailure(f) == ~f.recoverable \/ f.top # NoEvent

\* An event that ends the checks: add_event(id, ..., recoverable = False).
Irrecoverable(id) == [id |-> id, sev |-> MaxSev, recoverable |-> FALSE]

\* A failure an operation of the verifier reports with a single such event.
FatalFailure(id) == AddEvent(EmptyFailure, Irrecoverable(id))
=============================================================================
