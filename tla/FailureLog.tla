----------------------------- MODULE FailureLog -----------------------------
(* Failure objects with their event lists, built up by any sequence of
   add_event and merge calls: what the flag and the highest event of
   Failure.tla say about the list they summarise. *)
EXTENDS Failure, Sequences

CONSTANTS
  Slots,       \* the failure objects in play (a check and its sub-checks)
  MaxEvents    \* bound: events one object may collect

VARIABLES
  obj,         \* obj[s]: the summary of the object in slot s
  events       \* events[s]: its list of events, labelled as _add leaves them

vars == <<obj, events>>

TypeOK ==
  /\ obj \in [Slots -> Failures]
  /\ events \in [Slots -> Seq(Events)]

Init ==
  /\ obj = [s \in Slots |-> EmptyFailure]
  /\ events = [s \in Slots |-> <<>>]

\* failure.add_event(...)
Add(s, e) ==
  /\ Len(events[s]) < MaxEvents
  /\ obj' = [obj EXCEPT ![s] = AddEvent(@, e)]
  /\ events' = [events EXCEPT ![s] = Append(@, Labelled(e))]

\* failure.merge(other)
MergeInto(s, t) ==
  /\ s # t
  /\ Len(events[s]) + Len(events[t]) <= MaxEvents
  /\ obj' = [obj EXCEPT ![s] = Merge(@, obj[t])]
  /\ events' = [events EXCEPT ![s] = @ \o events[t]]

\* A new Failure(...) for the next check.
Fresh(s) ==
  /\ obj' = [obj EXCEPT ![s] = EmptyFailure]
  /\ events' = [events EXCEPT ![s] = <<>>]

Next ==
  \/ \E s \in Slots, e \in Events : Add(s, e)
  \/ \E s, t \in Slots : MergeInto(s, t)
  \/ \E s \in Slots : Fresh(s)

Spec == Init /\ [][Next]_vars
-----------------------------------------------------------------------------
\* i is the position of the first event of the highest severity in log.
FirstHighest(log, i) ==
  /\ \A j \in 1..Len(log) : log[j].sev <= log[i].sev
  /\ \A j \in 1..(i - 1) : log[j].sev < log[i].sev

\* The summary reports the first event of the highest severity, through every
\* nesting of add_event and merge (comment of Failure.__init__: "This only
\* holds the first event that has the highest severity").
TopIsFirstHighest ==
  \A s \in Slots :
    IF events[s] = <<>>
    THEN obj[s].top = NoEvent
    ELSE \E i \in 1..Len(events[s]) :
           /\ obj[s].top = events[s][i]
           /\ FirstHighest(events[s], i)

\* An irrecoverable event anywhere in the list, merged or added, makes the
\* whole failure irrecoverable and gives it the highest severity, so that the
\* two tests process_agent stops polling on cannot disagree about it.
FatalEventIsNotHidden ==
  \A s \in Slots :
    (\E i \in 1..Len(events[s]) : ~events[s][i].recoverable)
      <=> (~obj[s].recoverable /\ obj[s].top.sev = MaxSev)
=============================================================================
