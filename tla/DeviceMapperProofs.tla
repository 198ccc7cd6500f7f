-------------------------- MODULE DeviceMapperProofs --------------------------
(* Theorems about the device mapper policy, for any devices, names, tables and
   number of entries and restarts, and any rules on names: what an accepted device
   runs is allowed by the rule it is known by, if renames keep what rules allow,
   and without restarts the log of one orderly device is accepted.

   The log is ahead of the entry accounted for, and the devices are at its end.
   The invariant therefore speaks of the devices as they were after each entry: a
   history that leads to them, with which the state of the validator agrees. *)
EXTENDS DeviceMapper, NaturalsInduction, WellFoundedInduction, TLAPS

\* The validator's next outcome, from the one before and an entry.
Then(v, e) ==
  [Validate(v.known, e) EXCEPT !.bad = @ \/ v.bad]

\* The outcomes of the entries after from, up to m.
Outcomes(f, st, from, m) ==
  f = [n \in from..m |-> IF n = from THEN Good(st) ELSE Then(f[n - 1], log[n])]
-----------------------------------------------------------------------------
(* The recursion in Run *)

\* Induction over a set of numbers.
LEMMA InductionOnSet ==
  ASSUME NEW S, 0 \in S, \A n \in Nat : n \in S => n + 1 \in S
  PROVE  Nat \subseteq S
<1> SUFFICES ASSUME Nat \ S # {} PROVE FALSE
  OBVIOUS
<1>1. \E x \in Nat \ S : \A y \in Nat \ S : ~(<<y, x>> \in OpToRel(<, Nat))
  BY NatLessThanWellFounded, WFMin
<1>2. PICK x \in Nat \ S : \A y \in Nat \ S : ~(<<y, x>> \in OpToRel(<, Nat))
  BY <1>1
<1>3. /\ x \in Nat /\ x \notin S
      /\ x - 1 \in Nat /\ x - 1 < x /\ (x - 1) + 1 = x
  <2>1. x \in Nat /\ x \notin S /\ x # 0
    BY <1>2
  <2>2. QED
    BY <2>1
<1>4. <<x - 1, x>> \in OpToRel(<, Nat)
  BY <1>3 DEF OpToRel
<1>5. x - 1 \in S
  BY <1>2, <1>3, <1>4
<1>6. QED
  BY <1>2, <1>3, <1>5

\* There are outcomes of any number of entries.
LEMMA OutcomesExist ==
  ASSUME NEW st, NEW from \in Nat, NEW m \in Nat, from <= m
  PROVE  \E f : Outcomes(f, st, from, m)
<1> DEFINE S == {k \in Nat : \E f : Outcomes(f, st, from, from + k)}
<1>1. 0 \in S
  <2>1. Outcomes([n \in from..(from + 0) |-> Good(st)], st, from, from + 0)
    BY DEF Outcomes
  <2>2. QED
    BY <2>1
<1>2. ASSUME NEW k \in Nat, k \in S PROVE k + 1 \in S
  <2>1. PICK f : Outcomes(f, st, from, from + k)
    BY <1>2
  <2> DEFINE g == [n \in from..(from + (k + 1)) |->
                     IF n <= from + k THEN f[n] ELSE Then(f[from + k], log[n])]
  <2>2. \A n \in from..(from + (k + 1)) :
          g[n] = IF n = from THEN Good(st) ELSE Then(g[n - 1], log[n])
    <3> SUFFICES ASSUME NEW n \in from..(from + (k + 1))
                 PROVE  g[n] = IF n = from THEN Good(st) ELSE Then(g[n - 1], log[n])
      OBVIOUS
    <3>1. CASE n <= from + k
      <4>1. n \in from..(from + k) /\ g[n] = f[n]
        BY <3>1
      <4>2. n # from => g[n - 1] = f[n - 1]
        BY <3>1
      <4>3. f[n] = IF n = from THEN Good(st) ELSE Then(f[n - 1], log[n])
        BY <2>1, <4>1 DEF Outcomes
      <4>4. QED
        BY <4>1, <4>2, <4>3
    <3>2. CASE n = from + (k + 1)
      <4>1. n # from /\ n - 1 = from + k /\ from + k \in from..(from + (k + 1))
            /\ ~(n <= from + k) /\ from + k <= from + k
        BY <3>2
      <4>2. g[n] = Then(f[from + k], log[n]) /\ g[n - 1] = f[from + k]
        BY <4>1
      <4>3. QED
        BY <4>1, <4>2
    <3>3. QED
      BY <3>1, <3>2
  <2>3. g = [n \in from..(from + (k + 1)) |-> g[n]]
    OBVIOUS
  <2> HIDE DEF g
  <2>4. Outcomes(g, st, from, from + (k + 1))
    BY <2>2, <2>3 DEF Outcomes
  <2>5. QED
    BY <2>4
<1> HIDE DEF S
<1>3. Nat \subseteq S
  BY <1>1, <1>2, InductionOnSet
<1>4. m - from \in Nat /\ from + (m - from) = m
  OBVIOUS
<1>5. m - from \in S
  BY <1>3, <1>4
<1>6. QED
  BY <1>4, <1>5 DEF S

\* Outcomes agree as far as both go.
LEMMA OutcomesAgree ==
  ASSUME NEW st, NEW from \in Nat, NEW m \in Nat, NEW i \in Nat, NEW f, NEW g,
         Outcomes(f, st, from, m), Outcomes(g, st, from, i)
  PROVE  \A n \in from..m : n <= i => f[n] = g[n]
<1> DEFINE S == {k \in Nat : from + k <= m /\ from + k <= i => f[from + k] = g[from + k]}
<1>1. 0 \in S
  <2> SUFFICES ASSUME from <= m, from <= i PROVE f[from] = g[from]
    OBVIOUS
  <2>1. from \in from..m /\ from \in from..i
    OBVIOUS
  <2>2. QED
    BY <2>1 DEF Outcomes
<1>2. ASSUME NEW k \in Nat, k \in S PROVE k + 1 \in S
  <2> SUFFICES ASSUME from + (k + 1) <= m, from + (k + 1) <= i
               PROVE  f[from + (k + 1)] = g[from + (k + 1)]
    OBVIOUS
  <2>1. /\ from + (k + 1) \in from..m /\ from + (k + 1) \in from..i
        /\ (from + (k + 1)) - 1 = from + k /\ from + (k + 1) # from
        /\ from + k <= m /\ from + k <= i
    OBVIOUS
  <2>2. f[from + k] = g[from + k]
    BY <1>2, <2>1
  <2>3. /\ f[from + (k + 1)] = Then(f[from + k], log[from + (k + 1)])
        /\ g[from + (k + 1)] = Then(g[from + k], log[from + (k + 1)])
    BY <2>1 DEF Outcomes
  <2>4. QED
    BY <2>2, <2>3
<1> HIDE DEF S
<1>3. Nat \subseteq S
  BY <1>1, <1>2, InductionOnSet
<1>4. ASSUME NEW n \in from..m, n <= i PROVE f[n] = g[n]
  <2>1. n - from \in S /\ from + (n - from) = n /\ n <= m
    BY <1>3
  <2>2. QED
    BY <1>4, <2>1 DEF S
<1>5. QED
  BY <1>4

\* Run goes one entry further at a time.
LEMMA RunFacts ==
  ASSUME NEW st, NEW from \in Nat, NEW m \in Nat, from <= m
  PROVE  Run(st, from, m) = IF m = from THEN Good(st) ELSE Then(Run(st, from, m - 1), log[m])
<1>1. ASSUME NEW i \in Nat, from <= i
      PROVE  \A g : Outcomes(g, st, from, i) => Run(st, from, i) = g[i]
  <2> SUFFICES ASSUME NEW g, Outcomes(g, st, from, i)
               PROVE  Run(st, from, i) = g[i]
    OBVIOUS
  <2> DEFINE after == CHOOSE f : Outcomes(f, st, from, i)
  <2>1. Run(st, from, i) = after[i]
    BY DEF Run, Outcomes, Then
  <2>2. Outcomes(after, st, from, i)
    BY <1>1, OutcomesExist
  <2> HIDE DEF after
  <2>3. i \in from..i
    BY <1>1
  <2>4. QED
    BY <1>1, <2>1, <2>2, <2>3, OutcomesAgree
<1>2. PICK g : Outcomes(g, st, from, m)
  BY OutcomesExist
<1>3. Run(st, from, m) = g[m] /\ m \in from..m
  BY <1>1, <1>2
<1>4. CASE m = from
  BY <1>2, <1>3, <1>4 DEF Outcomes
<1>5. CASE m # from
  <2>1. m - 1 \in Nat /\ from <= m - 1 /\ m - 1 \in from..(m - 1) /\ m - 1 <= m
    BY <1>5
  <2>2. PICK h : Outcomes(h, st, from, m - 1)
    BY <2>1, OutcomesExist
  <2>3. Run(st, from, m - 1) = h[m - 1]
    BY <1>1, <2>1, <2>2
  <2>4. h[m - 1] = g[m - 1]
    BY <1>2, <2>1, <2>2, OutcomesAgree
  <2>5. g[m] = Then(g[m - 1], log[m])
    BY <1>2, <1>3, <1>5 DEF Outcomes
  <2>6. QED
    BY <1>3, <1>5, <2>3, <2>4, <2>5
<1>6. QED
  BY <1>4, <1>5
-----------------------------------------------------------------------------
(* Types *)

\* What Validate returns.
Verdicts == [known : States, bad : BOOLEAN]

\* An entry about a table has the hash of one.
Hashed(e) == e \in EntryType /\ (e.op = "dm_table_load" => e.hash \in Targets)

Typed == TypeOK /\ \A n \in 1..Len(log) : Hashed(log[n])

\* The first of the rules that match is one of them.
LEMMA FirstMatches ==
  ASSUME DeviceMapperAssumption, NEW k, Matching(k) # {}
  PROVE  First(Matching(k)) \in Matching(k)
<1>1. Matching(k) \subseteq Nat
  BY DEF DeviceMapperAssumption, Matching
<1>2. \E x \in Matching(k) : \A y \in Matching(k) : ~(<<y, x>> \in OpToRel(<, Nat))
  BY <1>1, NatLessThanWellFounded, WFMin
<1>3. PICK x \in Matching(k) : \A y \in Matching(k) : ~(<<y, x>> \in OpToRel(<, Nat))
  BY <1>2
<1>4. \A y \in Matching(k) : x <= y
  <2> SUFFICES ASSUME NEW y \in Matching(k), ~(x <= y)
               PROVE  FALSE
    OBVIOUS
  <2>1. y < x /\ y \in Nat /\ x \in Nat
    BY <1>1
  <2>2. <<y, x>> \in OpToRel(<, Nat)
    BY <2>1 DEF OpToRel
  <2>3. QED
    BY <1>3, <2>2
<1>5. QED
  BY <1>4 DEF First

LEMMA KeyTyped ==
  ASSUME NEW e \in EntryType
  PROVE  Key(e) \in Keys /\ e.name \in Keys /\ e.new_name \in Keys
BY DEF EntryType, Key, Keys

\* Without a device no table is known.
LEMMA NoDevicesTyped == NoDevices \in States
BY DEF NoDevices, States

LEMMA SpoiltTyped ==
  ASSUME NEW st \in States, NEW k \in Keys, st[k] # None
  PROVE  Spoilt(st, k) \in Verdicts
<1>1. [st[k] EXCEPT !.valid_state = FALSE] \in KnownType
  BY DEF States, KnownType
<1>2. [st EXCEPT ![k].valid_state = FALSE] \in States
  BY <1>1 DEF States
<1>3. QED
  BY <1>2 DEF Spoilt, Bad, Verdicts

LEMMA PopTyped ==
  ASSUME NEW st \in States, NEW k \in Keys, NEW new \in Keys
  PROVE  Pop(st, k, new) \in States
BY DEF Pop, States

LEMMA PlainTyped ==
  ASSUME NEW st \in States
  PROVE  Good(st) \in Verdicts /\ Bad(st) \in Verdicts
BY DEF Good, Bad, Verdicts

\* A table loaded is known by the first rule that matches its key.
Loading(e) ==
  LET i == First(Matching(Key(e)))
      r == Rules[i]
  IN  [rule |-> i, active |-> FALSE, valid_state |-> ~r.device_resume_required,
       active_table_hash |-> e.hash, allow_multiple_loads |-> r.allow_multiple_loads]

LEMMA LoadingTyped ==
  ASSUME DeviceMapperAssumption, NEW e, Hashed(e), e.op = "dm_table_load",
         Matching(Key(e)) # {}
  PROVE  Loading(e) \in KnownType
<1>1. PICK i : i = First(Matching(Key(e)))
  OBVIOUS
<1>2. i \in DOMAIN Rules
  BY <1>1, FirstMatches DEF Matching
<1>3. Rules[i] \in RuleType
  BY <1>2 DEF DeviceMapperAssumption
<1>4. Rules[i].allow_multiple_loads \in BOOLEAN /\ Rules[i].device_resume_required \in BOOLEAN
  BY <1>3 DEF RuleType
<1>5. e.hash \in Targets
  BY DEF Hashed
<1>6. QED
  BY <1>1, <1>2, <1>4, <1>5 DEF Loading, KnownType

\* The states of the validator keep their type.
LEMMA ValidateTyped ==
  ASSUME DeviceMapperAssumption, NEW st \in States, NEW e, Hashed(e)
  PROVE  Validate(st, e) \in Verdicts
<1> e \in EntryType
  BY DEF Hashed
<1> Key(e) \in Keys /\ e.name \in Keys /\ e.new_name \in Keys
  BY KeyTyped
<1> Good(st) \in Verdicts /\ Bad(st) \in Verdicts
  BY PlainTyped
<1>1. CASE e.op = "dm_table_load"
  <2>1. CASE ValidateTableLoad(st, e) = Bad(st)
    BY <1>1, <2>1 DEF Validate
  <2>2. CASE ValidateTableLoad(st, e) # Bad(st)
    <3>1. Matching(Key(e)) # {}
      BY <2>2 DEF ValidateTableLoad
    <3>2. Loading(e) \in KnownType
      BY <1>1, <3>1, LoadingTyped
    <3>3. \E b \in BOOLEAN :
            ValidateTableLoad(st, e) = [known |-> [st EXCEPT ![Key(e)] = Loading(e)], bad |-> b]
      BY <2>2 DEF ValidateTableLoad, Loading
    <3>4. [st EXCEPT ![Key(e)] = Loading(e)] \in States
      BY <3>2 DEF States
    <3>5. ValidateTableLoad(st, e) \in Verdicts
      BY <3>3, <3>4 DEF Verdicts
    <3>6. QED
      BY <1>1, <3>5 DEF Validate
  <2>3. QED
    BY <2>1, <2>2
<1>2. CASE e.op = "dm_device_resume"
  <2>1. CASE st[Key(e)] = None \/ e.hash = None
    BY <1>2, <2>1 DEF Validate, ValidateDeviceResume
  <2>2. CASE st[Key(e)] # None /\ e.hash # None
    <3>1. Spoilt(st, Key(e)) \in Verdicts
      BY <2>2, SpoiltTyped
    <3>2. [st[Key(e)] EXCEPT !.active = TRUE, !.valid_state = TRUE] \in KnownType
      BY <2>2 DEF States, KnownType
    <3>3. [st EXCEPT ![Key(e)].active = TRUE, ![Key(e)].valid_state = TRUE]
            = [st EXCEPT ![Key(e)] = [st[Key(e)] EXCEPT !.active = TRUE, !.valid_state = TRUE]]
      BY DEF States
    <3>4. Good([st EXCEPT ![Key(e)].active = TRUE, ![Key(e)].valid_state = TRUE]) \in Verdicts
      BY <3>2, <3>3 DEF Good, Verdicts, States
    <3>5. QED
      BY <1>2, <2>2, <3>1, <3>4 DEF Validate, ValidateDeviceResume
  <2>3. QED
    BY <2>1, <2>2
<1>3. CASE e.op = "dm_device_remove"
  <2>1. Good([st EXCEPT ![Key(e)] = None]) \in Verdicts
    BY DEF Good, Verdicts, States
  <2>2. st[Key(e)] # None => Spoilt(st, Key(e)) \in Verdicts
    BY SpoiltTyped
  <2>3. QED
    BY <1>3, <2>1, <2>2 DEF Validate, ValidateDeviceRemove
<1>4. CASE e.op = "dm_table_clear"
  <2>1. st[Key(e)] # None => Spoilt(st, Key(e)) \in Verdicts
    BY SpoiltTyped
  <2>2. QED
    BY <1>4, <2>1 DEF Validate, ValidateTableClear
<1>5. CASE e.op = "dm_target_update"
  BY <1>5 DEF Validate, ValidateTargetUpdate
<1>6. CASE e.op = "dm_device_rename"
  <2>1. Good(Pop(st, Key(e), e.new_name)) \in Verdicts
    BY PopTyped DEF Good, Verdicts
  <2>2. st[Key(e)] # None => Spoilt(st, Key(e)) \in Verdicts
    BY SpoiltTyped
  <2>3. ValidateDeviceRename(st, e) \in Verdicts
    BY <2>1, <2>2, PlainTyped DEF ValidateDeviceRename
  <2>4. QED
    BY <1>6, <2>3 DEF Validate
<1>7. e.op \in Ops
  BY DEF EntryType
<1>8. QED
  BY <1>1, <1>2, <1>3, <1>4, <1>5, <1>6, <1>7 DEF Ops

\* So do those of a run along the log.
LEMMA RunTyped ==
  ASSUME DeviceMapperAssumption, \A n \in 1..Len(log) : Hashed(log[n]), Len(log) \in Nat,
         NEW st \in States, NEW from \in Nat
  PROVE  \A m \in from..Len(log) : Run(st, from, m) \in Verdicts
<1> DEFINE S == {k \in Nat : from + k <= Len(log) => Run(st, from, from + k) \in Verdicts}
<1>1. 0 \in S
  <2>1. Run(st, from, from) = Good(st)
    BY RunFacts
  <2>2. Good(st) \in Verdicts /\ from + 0 = from
    BY PlainTyped
  <2>3. QED
    BY <2>1, <2>2
<1>2. ASSUME NEW k \in Nat, k \in S PROVE k + 1 \in S
  <2> SUFFICES ASSUME from + (k + 1) <= Len(log)
               PROVE  Run(st, from, from + (k + 1)) \in Verdicts
    OBVIOUS
  <2> DEFINE n == from + (k + 1)
  <2>1. n \in Nat /\ from <= n /\ n # from /\ n - 1 = from + k /\ n \in 1..Len(log)
    OBVIOUS
  <2>2. Run(st, from, from + k) \in Verdicts
    BY <1>2
  <2>3. Run(st, from, n) = Then(Run(st, from, from + k), log[n])
    <3>1. Run(st, from, n) = IF n = from THEN Good(st) ELSE Then(Run(st, from, n - 1), log[n])
      BY <2>1, RunFacts
    <3>2. QED
      BY <2>1, <3>1
  <2>4. Run(st, from, from + k).known \in States /\ Hashed(log[n])
    BY <2>1, <2>2 DEF Verdicts
  <2>5. Validate(Run(st, from, from + k).known, log[n]) \in Verdicts
    BY <2>4, ValidateTyped
  <2> HIDE DEF n
  <2>6. QED
    BY <2>2, <2>3, <2>5 DEF Then, Verdicts, n
<1> HIDE DEF S
<1>3. Nat \subseteq S
  BY <1>1, <1>2, InductionOnSet
<1>4. ASSUME NEW m \in from..Len(log) PROVE Run(st, from, m) \in Verdicts
  <2>1. m - from \in S /\ from + (m - from) = m
    BY <1>3
  <2>2. QED
    BY <2>1 DEF S
<1>5. QED
  BY <1>4

\* An entry and what it leaves of a device.
LEMMA MeasureTyped ==
  ASSUME DeviceMapperAssumption, Typed, NEW d \in Devices, NEW now \in DeviceType \cup {None},
         NEW e, Hashed(e), Measure(d, now, e)
  PROVE  Typed'
<1>1. /\ devs' \in [Devices -> DeviceType \cup {None}]
      /\ log' \in Seq(EntryType) /\ Len(log') <= MaxEvents
      /\ entry' \in 0..Len(log')
  BY DEF Typed, TypeOK, Measure, Hashed, DeviceMapperAssumption
<1>2. \A n \in 1..Len(log') : Hashed(log'[n])
  BY DEF Typed, TypeOK, Measure
<1>3. UNCHANGED <<entry, dmState, failed, restarts>>
  BY DEF Measure
<1>4. QED
  BY <1>1, <1>2, <1>3 DEF Typed, TypeOK, Hashed

\* The entry of what is done to a device that is there.
LEMMA EventTyped ==
  ASSUME Typed, NEW d \in Live, NEW op \in Ops
  PROVE  /\ Event(d, op) \in EntryType /\ Event(d, op).op = op
         /\ d \in Devices /\ devs[d] \in DeviceType
BY DEF Typed, TypeOK, Live, Event, EntryType, DeviceType, Tables

LEMMA KernelTyped ==
  ASSUME DeviceMapperAssumption, Typed, Kernel
  PROVE  Typed'
<1>1. ASSUME NEW d \in Devices, Load(d) PROVE Typed'
  <2>1. CASE devs[d] = None
    <3>1. PICK n \in Names, u \in Uuids, t \in Targets :
            Measure(d, [name |-> n, uuid |-> u, active |-> None, hash |-> None, inactive |-> t],
                    [op |-> "dm_table_load", name |-> n, uuid |-> u, target |-> t, hash |-> t,
                     new_name |-> n, new_uuid |-> u])
      BY <1>1, <2>1 DEF Load
    <3>2. [name |-> n, uuid |-> u, active |-> None, hash |-> None, inactive |-> t] \in DeviceType
      BY DEF DeviceType, Tables
    <3>3. Hashed([op |-> "dm_table_load", name |-> n, uuid |-> u, target |-> t, hash |-> t,
                  new_name |-> n, new_uuid |-> u])
      BY DEF Hashed, EntryType, Ops, Tables
    <3>4. QED
      BY <3>1, <3>2, <3>3, MeasureTyped
  <2>2. CASE devs[d] # None
    <3>1. PICK t \in Targets :
            Measure(d, [devs[d] EXCEPT !.inactive = t],
                    [Event(d, "dm_table_load") EXCEPT !.target = t, !.hash = t])
      BY <1>1, <2>2 DEF Load
    <3>2. d \in Live /\ "dm_table_load" \in Ops
      BY <2>2 DEF Live, Ops
    <3>3. [devs[d] EXCEPT !.inactive = t] \in DeviceType
      BY <3>2, EventTyped DEF DeviceType, Tables
    <3>4. PICK e : e = Event(d, "dm_table_load")
      OBVIOUS
    <3>5. e \in EntryType /\ t \in Tables
      BY <3>2, <3>4, EventTyped DEF Tables
    <3>6. [e EXCEPT !.target = t, !.hash = t] \in EntryType
      BY <3>5 DEF EntryType
    <3>7. [e EXCEPT !.target = t, !.hash = t].hash = t
      BY <3>5 DEF EntryType
    <3>8. Hashed([e EXCEPT !.target = t, !.hash = t])
      BY <3>6, <3>7 DEF Hashed
    <3>9. QED
      BY <3>1, <3>3, <3>4, <3>8, MeasureTyped
  <2>3. QED
    BY <2>1, <2>2
<1>2. ASSUME NEW d \in Live, Resume(d) PROVE Typed'
  <2> DEFINE now == IF devs[d].inactive = None THEN devs[d]
                    ELSE [devs[d] EXCEPT !.active = devs[d].inactive, !.hash = devs[d].inactive,
                                         !.inactive = None]
  <2>1. "dm_device_resume" \in Ops
    BY DEF Ops
  <2>2. now \in DeviceType
    BY <2>1, EventTyped DEF DeviceType, Tables
  <2>3. Hashed([Event(d, "dm_device_resume") EXCEPT !.hash = now.hash])
    <3>1. now.hash \in Tables
      BY <2>2 DEF DeviceType
    <3>2. QED
      BY <2>1, <3>1, EventTyped DEF Hashed, EntryType
  <2>4. Measure(d, now, [Event(d, "dm_device_resume") EXCEPT !.hash = now.hash])
    BY <1>2 DEF Resume
  <2>5. d \in Devices
    BY DEF Live
  <2>6. QED
    BY <2>2, <2>3, <2>4, <2>5, MeasureTyped
<1>3. ASSUME NEW d \in Live, Remove(d) PROVE Typed'
  <2>1. "dm_device_remove" \in Ops
    BY DEF Ops
  <2>2. Hashed([Event(d, "dm_device_remove") EXCEPT !.hash = devs[d].hash])
    BY <2>1, EventTyped DEF Hashed, EntryType, DeviceType
  <2>3. QED
    BY <1>3, <2>1, <2>2, EventTyped, MeasureTyped DEF Remove
<1>4. ASSUME NEW d \in Live, Clear(d) PROVE Typed'
  <2>1. "dm_table_clear" \in Ops
    BY DEF Ops
  <2>2. Hashed(Event(d, "dm_table_clear"))
    BY <2>1, EventTyped DEF Hashed
  <2>3. [devs[d] EXCEPT !.inactive = None] \in DeviceType
    BY <2>1, EventTyped DEF DeviceType, Tables
  <2>4. QED
    BY <1>4, <2>1, <2>2, <2>3, EventTyped, MeasureTyped DEF Clear
<1>5. ASSUME NEW d \in Live, Rename(d) PROVE Typed'
  <2>1. "dm_device_rename" \in Ops
    BY DEF Ops
  <2>2. ASSUME NEW n \in Names
        PROVE  /\ [devs[d] EXCEPT !.name = n] \in DeviceType
               /\ Hashed([Event(d, "dm_device_rename") EXCEPT !.new_name = n])
    BY <2>1, EventTyped DEF DeviceType, Hashed, EntryType
  <2>3. ASSUME NEW u \in Uuids
        PROVE  /\ [devs[d] EXCEPT !.uuid = u] \in DeviceType
               /\ Hashed([Event(d, "dm_device_rename") EXCEPT !.new_uuid = u])
    BY <2>1, EventTyped DEF DeviceType, Hashed, EntryType
  <2>4. d \in Devices
    BY DEF Live
  <2>5. QED
    BY <1>5, <2>2, <2>3, <2>4, MeasureTyped DEF Rename
<1>6. ASSUME NEW d \in Live, Update(d) PROVE Typed'
  <2>1. "dm_target_update" \in Ops
    BY DEF Ops
  <2>2. PICK t \in Targets :
          Measure(d, [devs[d] EXCEPT !.active = t], [Event(d, "dm_target_update") EXCEPT !.target = t])
    BY <1>6 DEF Update
  <2>3. /\ [devs[d] EXCEPT !.active = t] \in DeviceType
        /\ Hashed([Event(d, "dm_target_update") EXCEPT !.target = t])
    BY <2>1, EventTyped DEF DeviceType, Hashed, EntryType, Tables
  <2>4. d \in Devices
    BY DEF Live
  <2>5. QED
    BY <2>2, <2>3, <2>4, MeasureTyped
<1>7. QED
  BY <1>1, <1>2, <1>3, <1>4, <1>5, <1>6 DEF Kernel

\* The state an attestation goes on from.
LEMMA LoadedTyped ==
  ASSUME Typed
  PROVE  Loaded \in States
BY NoDevicesTyped DEF Typed, TypeOK, Loaded

LEMMA NextTyped ==
  ASSUME DeviceMapperAssumption, Typed, [Next]_vars
  PROVE  Typed'
<1>1. CASE Kernel
  BY <1>1, KernelTyped
<1>2. CASE Attest
  <2>1. PICK m \in entry..Len(log) :
          IF Run(Loaded, entry, Len(log)).bad
          THEN failed' = TRUE /\ entry' = 0 /\ dmState' = None
          ELSE /\ entry' = m
               /\ dmState' = IF m > entry THEN Run(Loaded, entry, m).known ELSE dmState
               /\ UNCHANGED failed
    BY <1>2 DEF Attest
  <2>2. Len(log) \in Nat /\ entry \in Nat
    BY DEF Typed, TypeOK
  <2>3. Run(Loaded, entry, m) \in Verdicts
    BY <2>2, LoadedTyped, RunTyped DEF Typed
  <2>4. UNCHANGED <<devs, log, restarts>>
    BY <1>2 DEF Attest
  <2>5. entry' \in 0..Len(log) /\ dmState' \in States \cup {None} /\ failed' \in BOOLEAN
    <3>1. Run(Loaded, entry, m).known \in States
      BY <2>3 DEF Verdicts
    <3>2. CASE Run(Loaded, entry, Len(log)).bad
      BY <2>1, <2>2, <3>2
    <3>3. CASE ~Run(Loaded, entry, Len(log)).bad
      BY <2>1, <2>2, <3>1, <3>3 DEF Typed, TypeOK
    <3>4. QED
      BY <3>2, <3>3
  <2>6. QED
    BY <2>4, <2>5 DEF Typed, TypeOK, Hashed
<1>3. CASE Restart
  BY <1>3 DEF Restart, Typed, TypeOK, Hashed, DeviceMapperAssumption
<1>4. CASE UNCHANGED vars
  BY <1>4 DEF vars, Typed, TypeOK, Hashed
<1>5. QED
  BY <1>1, <1>2, <1>3, <1>4 DEF Next

LEMMA InitTyped ==
  ASSUME DeviceMapperAssumption, Init
  PROVE  Typed
<1>1. log \in Seq(EntryType) /\ Len(log) = 0
  BY DEF Init
<1>2. devs \in [Devices -> DeviceType \cup {None}]
  BY DEF Init
<1>3. MaxEvents \in Nat /\ MaxRestarts \in Nat
  BY DEF DeviceMapperAssumption
<1>4. \A n \in 1..Len(log) : Hashed(log[n])
  BY <1>1
<1>5. entry \in 0..Len(log) /\ restarts \in 0..MaxRestarts
  BY <1>1, <1>3 DEF Init
<1>6. Len(log) <= MaxEvents /\ dmState \in States \cup {None} /\ failed \in BOOLEAN
  <2>1. Len(log) <= MaxEvents
    BY <1>1, <1>3
  <2>2. QED
    BY <2>1 DEF Init
<1>7. TypeOK
  BY <1>1, <1>2, <1>5, <1>6 DEF TypeOK
<1>8. QED
  BY <1>4, <1>7 DEF Typed

\* The type invariant, with policies on names and on uuids.
THEOREM DeviceMapperTypes == DeviceMapperAssumption => (Spec => []TypeOK)
<1> SUFFICES ASSUME DeviceMapperAssumption
             PROVE  Spec => []TypeOK
  OBVIOUS
<1>1. Init => Typed
  BY InitTyped
<1>2. Typed /\ [Next]_vars => Typed'
  BY NextTyped
<1>3. Typed => TypeOK
  BY DEF Typed
<1>4. QED
  BY <1>1, <1>2, <1>3, PTL DEF Spec
-----------------------------------------------------------------------------
(* The devices after each entry *)

Kernels == [Devices -> DeviceType \cup {None}]

Present(h) == {d \in Devices : h[d] # None}

NamesApart(h) == \A c, d \in Present(h) : h[c].name = h[d].name => c = d

Resumed(dev) ==
  IF dev.inactive = None THEN dev
  ELSE [dev EXCEPT !.active = dev.inactive, !.hash = dev.inactive, !.inactive = None]

\* What the kernel did to device d between h and g, when it made entry e.
Did(d, h, e, g) ==
  /\ \A c \in Devices \ {d} : g[c] = h[c]
  /\ e.op = "dm_table_load" => e.target \in Targets /\ e.hash = e.target
  /\ \/ /\ h[d] = None /\ e.op = "dm_table_load"
        /\ g[d] = [name |-> e.name, uuid |-> e.uuid, active |-> None, hash |-> None,
                   inactive |-> e.target]
     \/ /\ h[d] # None /\ e.name = h[d].name /\ e.uuid = h[d].uuid
        /\ \/ e.op = "dm_table_load"    /\ g[d] = [h[d] EXCEPT !.inactive = e.target]
           \/ e.op = "dm_device_resume" /\ g[d] = Resumed(h[d]) /\ e.hash = g[d].hash
           \/ e.op = "dm_device_remove" /\ g[d] = None /\ e.hash = h[d].hash
           \/ e.op = "dm_table_clear"   /\ g[d] = [h[d] EXCEPT !.inactive = None]
           \/ /\ e.op = "dm_device_rename"
              /\ g[d] = [h[d] EXCEPT !.name = e.new_name, !.uuid = e.new_uuid]
           \/ e.op = "dm_target_update" /\ g[d] = [h[d] EXCEPT !.active = e.target]

\* The devices from the first entry of the log to the last.
History(hist) ==
  /\ hist \in [0..Len(log) -> Kernels]
  /\ hist[0] = [d \in Devices |-> None]
  /\ hist[Len(log)] = devs
  /\ \A n \in 0..Len(log) : NamesApart(hist[n])
  /\ \A n \in 1..Len(log) : \E d \in Devices : Did(d, hist[n - 1], log[n], hist[n])

\* A rule a device with this name was loaded under, or renamed under since.
Placed(i, name) ==
  /\ i \in DOMAIN Rules
  /\ \/ Matching(name) # {} /\ i = First(Matching(name))
     \/ name \in Rules[i].valid_name

\* What the state of the validator says of a device that is there.  lost: the
\* verifier has restarted, and the device may be unknown.
FitsDevice(dev, st, lost) ==
  LET s == st[dev.name]
  IN  /\ s = None =>
           /\ lost
           /\ \E i \in DOMAIN Rules :
                Placed(i, dev.name) /\ (dev.active # None => dev.active \in Rules[i].targets)
      /\ s # None =>
           /\ Placed(s.rule, dev.name)
           /\ s.allow_multiple_loads = Rules[s.rule].allow_multiple_loads
           /\ dev.active # None => dev.active \in Rules[s.rule].targets
           /\ dev.inactive # None => dev.inactive \in Rules[s.rule].targets

Fits(h, st, lost) == \A d \in Present(h) : FitsDevice(h[d], st, lost)
-----------------------------------------------------------------------------
(* A step of the kernel, and the validator's answer to its entry *)

\* The devices that nothing was done to fit as before.
LEMMA OthersFit ==
  ASSUME NEW h \in Kernels, NEW g \in Kernels, NEW st, NEW after, NEW lost, NEW d \in Devices,
         \A c \in Devices \ {d} : g[c] = h[c],
         NamesApart(h), NamesApart(g), Fits(h, st, lost),
         \A n \in Names : (h[d] # None => n # h[d].name) /\ (g[d] # None => n # g[d].name)
                            => after[n] = st[n],
         g[d] # None => FitsDevice(g[d], after, lost)
  PROVE  Fits(g, after, lost)
<1> SUFFICES ASSUME NEW c \in Present(g), c # d
             PROVE  FitsDevice(g[c], after, lost)
  BY DEF Fits, Present
<1>1. c \in Devices /\ g[c] = h[c] /\ g[c] # None /\ c \in Present(h)
  BY DEF Present
<1>2. g[c].name \in Names
  BY <1>1 DEF Kernels, DeviceType
<1>3. h[d] # None => g[c].name # h[d].name
  BY <1>1 DEF NamesApart, Present
<1>4. g[d] # None => g[c].name # g[d].name
  BY <1>1 DEF NamesApart, Present
<1>5. after[g[c].name] = st[g[c].name]
  BY <1>2, <1>3, <1>4
<1>6. FitsDevice(h[c], st, lost)
  BY <1>1 DEF Fits
<1>7. QED
  BY <1>1, <1>5, <1>6 DEF FitsDevice

\* The setting: the policy is on names, and the validator has no complaint.
Accepts(h, e, g, st, lost, d) ==
  /\ DeviceMapperAssumption /\ MatchOn = "name" /\ RenamesKeepTargets
  /\ lost \in BOOLEAN /\ (lost => MaxRestarts > 0)
  /\ h \in Kernels /\ g \in Kernels /\ NamesApart(h) /\ NamesApart(g)
  /\ st \in States /\ Hashed(e) /\ d \in Devices /\ Did(d, h, e, g)
  /\ Fits(h, st, lost) /\ ~Validate(st, e).bad

\* Two rules a name belongs to: the one that takes over allows what the other does.
LEMMA TakesOver ==
  ASSUME DeviceMapperAssumption, RenamesKeepTargets, NEW name, NEW i, Placed(i, name),
         Matching(name) # {}, Rules[i].allow_multiple_loads \/ MaxRestarts > 0
  PROVE  Rules[i].targets \subseteq Rules[First(Matching(name))].targets
BY DEF Placed, RenamesKeepTargets

LEMMA LoadFits ==
  ASSUME NEW h, NEW e, NEW g, NEW st, NEW lost, NEW d, Accepts(h, e, g, st, lost, d),
         e.op = "dm_table_load"
  PROVE  Fits(g, Validate(st, e).known, lost)
<1>1. /\ Key(e) = e.name /\ e \in EntryType /\ e.target \in Targets
      /\ Validate(st, e) = ValidateTableLoad(st, e)
  BY DEF Accepts, Key, Hashed, Did, Validate
<1>2. PICK i : i = First(Matching(e.name))
  OBVIOUS
<1>3. /\ Matching(e.name) # {}
      /\ st[e.name] # None => st[e.name].allow_multiple_loads
      /\ e.target \in Rules[i].targets
      /\ Validate(st, e).known = [st EXCEPT ![e.name] = Loading(e)]
  <2>1. ~ValidateTableLoad(st, e).bad
    BY <1>1 DEF Accepts
  <2> DEFINE refused == \/ st[e.name] # None /\ ~st[e.name].allow_multiple_loads
                        \/ Matching(e.name) = {}
                        \/ e.name \notin Rules[i].names \/ e.uuid \notin Rules[i].uuids
  <2>2. PICK b \in BOOLEAN : b = (e.target \notin Rules[i].targets)
    OBVIOUS
  <2>3. ValidateTableLoad(st, e) =
          IF refused THEN Bad(st)
          ELSE [known |-> [st EXCEPT ![e.name] = Loading(e)], bad |-> b]
    BY <1>1, <1>2, <2>2 DEF ValidateTableLoad, Loading
  <2>4. Bad(st).bad
    BY DEF Bad
  <2>5. ~refused
    BY <2>1, <2>3, <2>4
  <2>6. ValidateTableLoad(st, e) = [known |-> [st EXCEPT ![e.name] = Loading(e)], bad |-> b]
    BY <2>3, <2>5
  <2>7. Validate(st, e).known = [st EXCEPT ![e.name] = Loading(e)]
    BY <1>1, <2>6
  <2>8. e.target \in Rules[i].targets
    <3>1. ~b
      BY <2>1, <2>6
    <3>2. QED
      BY <2>2, <3>1, Zenon
  <2>9. QED
    BY <2>5, <2>7, <2>8
<1>4. i \in DOMAIN Rules /\ Placed(i, e.name)
  BY <1>2, <1>3, FirstMatches DEF Accepts, Placed, Matching
<1>5. Loading(e) \in KnownType /\ Loading(e) # None
  BY <1>1, <1>3, LoadingTyped DEF Accepts, DeviceMapperAssumption
<1>6. /\ Loading(e).rule = i
      /\ Loading(e).allow_multiple_loads = Rules[i].allow_multiple_loads
  BY <1>1, <1>2 DEF Loading
<1> DEFINE after == [st EXCEPT ![e.name] = Loading(e)]
<1>7. e.name \in Keys /\ after[e.name] = Loading(e)
  BY <1>1, KeyTyped DEF Accepts, States
<1>8. /\ g[d] # None /\ g[d].name = e.name /\ g[d].inactive = e.target
      /\ h[d] # None => h[d].name = e.name
  <2>1. \/ /\ h[d] = None
           /\ g[d] = [name |-> e.name, uuid |-> e.uuid, active |-> None, hash |-> None,
                      inactive |-> e.target]
        \/ h[d] # None /\ e.name = h[d].name /\ g[d] = [h[d] EXCEPT !.inactive = e.target]
    BY DEF Accepts, Did
  <2>2. h[d] # None => h[d] \in DeviceType
    BY DEF Accepts, Kernels
  <2>3. e.name \in Names /\ e.uuid \in Uuids /\ e.target \in Tables /\ None \in Tables
    BY <1>1 DEF EntryType, Tables
  <2>4. g[d] \in DeviceType /\ g[d].name = e.name /\ g[d].inactive = e.target
    BY <2>1, <2>2, <2>3 DEF DeviceType
  <2>5. g[d] # None
    BY <2>4 DEF Accepts, DeviceMapperAssumption
  <2>6. QED
    BY <2>1, <2>4, <2>5
<1>9. g[d].active # None => g[d].active \in Rules[i].targets
  <2> SUFFICES ASSUME g[d].active # None PROVE g[d].active \in Rules[i].targets
    OBVIOUS
  <2>1. h[d] # None /\ h[d].active = g[d].active /\ h[d].name = e.name
    BY <1>1 DEF Accepts, Did, Kernels, DeviceType
  <2>2. FitsDevice(h[d], st, lost)
    BY <2>1 DEF Accepts, Fits, Present
  <2>3. CASE st[e.name] = None
    <3>1. PICK j \in DOMAIN Rules : Placed(j, e.name) /\ h[d].active \in Rules[j].targets
      BY <2>1, <2>2, <2>3 DEF FitsDevice
    <3>2. MaxRestarts > 0
      BY <2>1, <2>2, <2>3 DEF FitsDevice, Accepts
    <3>3. Rules[j].targets \subseteq Rules[i].targets
      BY <1>2, <1>3, <3>1, <3>2, TakesOver DEF Accepts
    <3>4. QED
      BY <2>1, <3>1, <3>3
  <2>4. CASE st[e.name] # None
    <3>1. PICK j : j = st[e.name].rule
      OBVIOUS
    <3>2. Placed(j, e.name) /\ h[d].active \in Rules[j].targets /\ Rules[j].allow_multiple_loads
      BY <1>3, <2>1, <2>2, <2>4, <3>1 DEF FitsDevice
    <3>3. Rules[j].targets \subseteq Rules[i].targets
      BY <1>2, <1>3, <3>2, TakesOver DEF Accepts
    <3>4. QED
      BY <2>1, <3>2, <3>3
  <2>5. QED
    BY <2>3, <2>4
<1>10. FitsDevice(g[d], after, lost)
  BY <1>3, <1>4, <1>5, <1>6, <1>7, <1>8, <1>9 DEF FitsDevice
<1>11. \A n \in Names : n # g[d].name => after[n] = st[n]
  BY <1>8 DEF Accepts, States, Keys
<1> HIDE DEF after
<1>12. Fits(g, after, lost)
  BY <1>8, <1>10, <1>11, OthersFit DEF Accepts, Did
<1>13. QED
  BY <1>3, <1>12 DEF after

\* What is done to a device that is there, other than a load, is accepted of a known one.
LEMMA KnownFacts ==
  ASSUME NEW h, NEW e, NEW g, NEW st, NEW lost, NEW d, Accepts(h, e, g, st, lost, d),
         e.op # "dm_table_load"
  PROVE  /\ Key(e) = e.name /\ e \in EntryType /\ e.name \in Keys
         /\ h[d] # None /\ h[d] \in DeviceType /\ h[d].name = e.name /\ h[d].uuid = e.uuid
         /\ st[e.name] # None /\ st[e.name] \in KnownType
         /\ Placed(st[e.name].rule, e.name)
         /\ st[e.name].allow_multiple_loads = Rules[st[e.name].rule].allow_multiple_loads
         /\ h[d].active # None => h[d].active \in Rules[st[e.name].rule].targets
         /\ h[d].inactive # None => h[d].inactive \in Rules[st[e.name].rule].targets
<1>1. Key(e) = e.name /\ e \in EntryType /\ e.op \in Ops
  BY DEF Accepts, Key, Hashed, EntryType
<1>2. e.name \in Keys
  BY <1>1, KeyTyped
<1>3. h[d] # None /\ h[d].name = e.name /\ h[d].uuid = e.uuid
  BY DEF Accepts, Did
<1>4. h[d] \in DeviceType
  BY <1>3 DEF Accepts, Kernels
<1>5. Bad(st).bad
  BY DEF Bad
<1>6. st[e.name] # None
  <2> SUFFICES ASSUME st[e.name] = None PROVE FALSE
    OBVIOUS
  <2>1. Validate(st, e) = Bad(st)
    <3>1. CASE e.op = "dm_device_resume"
      BY <1>1, <3>1 DEF Validate, ValidateDeviceResume
    <3>2. CASE e.op = "dm_device_remove"
      BY <1>1, <3>2 DEF Validate, ValidateDeviceRemove
    <3>3. CASE e.op = "dm_table_clear"
      BY <1>1, <3>3 DEF Validate, ValidateTableClear
    <3>4. CASE e.op = "dm_device_rename"
      BY <1>1, <3>4 DEF Validate, ValidateDeviceRename
    <3>5. CASE e.op = "dm_target_update"
      BY <1>1, <3>5 DEF Validate, ValidateTargetUpdate
    <3>6. QED
      BY <1>1, <3>1, <3>2, <3>3, <3>4, <3>5 DEF Ops
  <2>2. QED
    BY <1>5, <2>1 DEF Accepts
<1>7. st[e.name] \in KnownType
  BY <1>2, <1>6 DEF Accepts, States
<1>8. FitsDevice(h[d], st, lost)
  BY <1>3 DEF Accepts, Fits, Present
<1>9. QED
  BY <1>1, <1>2, <1>3, <1>4, <1>6, <1>7, <1>8 DEF FitsDevice

\* A device that is known by the same rule, and runs what it allows, fits.
LEMMA StillFits ==
  ASSUME NEW h, NEW e, NEW g, NEW st, NEW lost, NEW d, Accepts(h, e, g, st, lost, d),
         e.op # "dm_table_load", NEW after,
         \A n \in Names : n # e.name /\ (g[d] # None => n # g[d].name) => after[n] = st[n],
         g[d] # None =>
           /\ after[g[d].name] # None
           /\ after[g[d].name].rule = st[e.name].rule
           /\ after[g[d].name].allow_multiple_loads = st[e.name].allow_multiple_loads
           /\ Placed(st[e.name].rule, g[d].name)
           /\ g[d].active # None => g[d].active \in Rules[st[e.name].rule].targets
           /\ g[d].inactive # None => g[d].inactive \in Rules[st[e.name].rule].targets
  PROVE  Fits(g, after, lost)
<1>1. /\ h[d] # None /\ h[d].name = e.name
      /\ st[e.name].allow_multiple_loads = Rules[st[e.name].rule].allow_multiple_loads
  BY KnownFacts
<1>2. g[d] # None => FitsDevice(g[d], after, lost)
  BY <1>1 DEF FitsDevice
<1>3. QED
  BY <1>1, <1>2, OthersFit DEF Accepts, Did

LEMMA ResumeFits ==
  ASSUME NEW h, NEW e, NEW g, NEW st, NEW lost, NEW d, Accepts(h, e, g, st, lost, d),
         e.op = "dm_device_resume"
  PROVE  Fits(g, Validate(st, e).known, lost)
<1> DEFINE after == [st EXCEPT ![e.name].active = TRUE, ![e.name].valid_state = TRUE]
<1>1. Validate(st, e).known = after
  <2>1. Validate(st, e) = ValidateDeviceResume(st, e) /\ Key(e) = e.name
    BY KnownFacts DEF Validate
  <2>2. Bad(st).bad /\ Spoilt(st, e.name).bad
    BY DEF Bad, Spoilt
  <2>3. ValidateDeviceResume(st, e) = Good(after)
    BY <2>1, <2>2 DEF ValidateDeviceResume, Accepts
  <2>4. QED
    BY <2>1, <2>3 DEF Good
<1>2. after = [st EXCEPT ![e.name] = [st[e.name] EXCEPT !.active = TRUE, !.valid_state = TRUE]]
  BY DEF Accepts, States
<1>3. /\ after[e.name] = [st[e.name] EXCEPT !.active = TRUE, !.valid_state = TRUE]
      /\ \A n \in Names : n # e.name => after[n] = st[n]
  BY <1>2, KnownFacts DEF Accepts, States, Keys
<1>4. /\ [st[e.name] EXCEPT !.active = TRUE, !.valid_state = TRUE] \in KnownType
      /\ after[e.name].rule = st[e.name].rule
      /\ after[e.name].allow_multiple_loads = st[e.name].allow_multiple_loads
  <2>1. PICK s : s = st[e.name]
    OBVIOUS
  <2>2. s \in KnownType
    BY <2>1, KnownFacts
  <2>3. /\ [s EXCEPT !.active = TRUE, !.valid_state = TRUE] \in KnownType
        /\ [s EXCEPT !.active = TRUE, !.valid_state = TRUE].rule = s.rule
        /\ [s EXCEPT !.active = TRUE, !.valid_state = TRUE].allow_multiple_loads
              = s.allow_multiple_loads
    BY <2>2 DEF KnownType
  <2>4. QED
    BY <1>3, <2>1, <2>3
<1>5. after[e.name] # None
  BY <1>3, <1>4 DEF Accepts, DeviceMapperAssumption
<1>6. g[d] = Resumed(h[d])
  BY KnownFacts DEF Accepts, Did
<1>7. /\ g[d].name = e.name
      /\ g[d].active # None => g[d].active \in {h[d].active, h[d].inactive}
      /\ g[d].inactive # None => g[d].inactive = h[d].inactive
  BY <1>6, KnownFacts DEF Resumed, DeviceType
<1> HIDE DEF after
<1>8. Fits(g, after, lost)
  <2>1. /\ h[d].active # None => h[d].active \in Rules[st[e.name].rule].targets
        /\ h[d].inactive # None => h[d].inactive \in Rules[st[e.name].rule].targets
        /\ Placed(st[e.name].rule, e.name) /\ st[e.name] # None
    BY KnownFacts
  <2>2. /\ g[d].active # None => g[d].active \in Rules[st[e.name].rule].targets
        /\ g[d].inactive # None => g[d].inactive \in Rules[st[e.name].rule].targets
    BY <1>7, <2>1
  <2>3. \A n \in Names : n # e.name /\ (g[d] # None => n # g[d].name) => after[n] = st[n]
    BY <1>3
  <2>4. /\ after[g[d].name] # None
        /\ after[g[d].name].rule = st[e.name].rule
        /\ after[g[d].name].allow_multiple_loads = st[e.name].allow_multiple_loads
        /\ Placed(st[e.name].rule, g[d].name)
        /\ g[d].active # None => g[d].active \in Rules[st[e.name].rule].targets
        /\ g[d].inactive # None => g[d].inactive \in Rules[st[e.name].rule].targets
    BY <1>3, <1>4, <1>5, <1>7, <2>1, <2>2
  <2>5. QED
    BY <2>3, <2>4, StillFits
<1>9. QED
  BY <1>1, <1>8

LEMMA RemoveFits ==
  ASSUME NEW h, NEW e, NEW g, NEW st, NEW lost, NEW d, Accepts(h, e, g, st, lost, d),
         e.op = "dm_device_remove"
  PROVE  Fits(g, Validate(st, e).known, lost)
<1> DEFINE after == [st EXCEPT ![e.name] = None]
<1>1. Validate(st, e).known = after
  <2>1. Validate(st, e) = ValidateDeviceRemove(st, e) /\ Key(e) = e.name
    BY KnownFacts DEF Validate
  <2>2. Bad(st).bad /\ Spoilt(st, e.name).bad
    BY DEF Bad, Spoilt
  <2>3. ValidateDeviceRemove(st, e) = Good(after)
    BY <2>1, <2>2 DEF ValidateDeviceRemove, Accepts
  <2>4. QED
    BY <2>1, <2>3 DEF Good
<1>2. \A n \in Names : n # e.name => after[n] = st[n]
  BY KnownFacts DEF Accepts, States, Keys
<1>3. g[d] = None
  BY KnownFacts DEF Accepts, Did
<1> HIDE DEF after
<1>4. Fits(g, after, lost)
  BY <1>2, <1>3, StillFits
<1>5. QED
  BY <1>1, <1>4

\* Entries that leave the validator's state as it is.
LEMMA ClearFits ==
  ASSUME NEW h, NEW e, NEW g, NEW st, NEW lost, NEW d, Accepts(h, e, g, st, lost, d),
         e.op = "dm_table_clear"
  PROVE  Fits(g, Validate(st, e).known, lost)
<1>1. Validate(st, e).known = st
  <2>1. Validate(st, e) = ValidateTableClear(st, e) /\ Key(e) = e.name
    BY KnownFacts DEF Validate
  <2>2. Bad(st).bad /\ Spoilt(st, e.name).bad
    BY DEF Bad, Spoilt
  <2>3. ValidateTableClear(st, e) = Good(st)
    BY <2>1, <2>2 DEF ValidateTableClear, Accepts
  <2>4. QED
    BY <2>1, <2>3 DEF Good
<1>2. g[d] = [h[d] EXCEPT !.inactive = None]
  BY KnownFacts DEF Accepts, Did
<1>3. g[d].name = e.name /\ g[d].active = h[d].active /\ g[d].inactive = None
  BY <1>2, KnownFacts DEF DeviceType
<1>4. Fits(g, st, lost)
  BY <1>3, KnownFacts, StillFits
<1>5. QED
  BY <1>1, <1>4

LEMMA UpdateFits ==
  ASSUME NEW h, NEW e, NEW g, NEW st, NEW lost, NEW d, Accepts(h, e, g, st, lost, d),
         e.op = "dm_target_update"
  PROVE  Fits(g, Validate(st, e).known, lost)
<1>1. Validate(st, e).known = st /\ e.target \in Rules[st[e.name].rule].targets
  <2>1. Validate(st, e) = ValidateTargetUpdate(st, e) /\ Key(e) = e.name
    BY KnownFacts DEF Validate
  <2>2. Bad(st).bad
    BY DEF Bad
  <2>3. /\ ValidateTargetUpdate(st, e) = Good(st)
        /\ e.target \in Rules[st[e.name].rule].targets
    BY <2>1, <2>2 DEF ValidateTargetUpdate, Accepts
  <2>4. QED
    BY <2>1, <2>3 DEF Good
<1>2. g[d] = [h[d] EXCEPT !.active = e.target]
  BY KnownFacts DEF Accepts, Did
<1>3. g[d].name = e.name /\ g[d].active = e.target /\ g[d].inactive = h[d].inactive
  BY <1>2, KnownFacts DEF DeviceType
<1>4. Fits(g, st, lost)
  BY <1>1, <1>3, KnownFacts, StillFits
<1>5. QED
  BY <1>1, <1>4

LEMMA RenameFits ==
  ASSUME NEW h, NEW e, NEW g, NEW st, NEW lost, NEW d, Accepts(h, e, g, st, lost, d),
         e.op = "dm_device_rename"
  PROVE  Fits(g, Validate(st, e).known, lost)
<1> DEFINE after == IF e.new_name # e.name THEN Pop(st, e.name, e.new_name) ELSE st
<1>1. /\ Validate(st, e).known = after
      /\ e.new_name # e.name => e.new_name \in Rules[st[e.name].rule].valid_name
  <2>1. /\ Validate(st, e) = ValidateDeviceRename(st, e) /\ Key(e) = e.name
        /\ st[e.name] # None /\ MatchOn = "name"
    BY KnownFacts DEF Validate, Accepts
  <2>2. Spoilt(st, e.name).bad
    BY DEF Spoilt, Bad
  <2>3. /\ ValidateDeviceRename(st, e) = Good(after)
        /\ e.new_name # e.name => e.new_name \in Rules[st[e.name].rule].valid_name
    BY <2>1, <2>2 DEF ValidateDeviceRename, Accepts
  <2>4. QED
    BY <2>1, <2>3 DEF Good
<1>2. g[d] = [h[d] EXCEPT !.name = e.new_name, !.uuid = e.new_uuid]
  BY KnownFacts DEF Accepts, Did
<1>3. /\ g[d].name = e.new_name /\ g[d].active = h[d].active /\ g[d].inactive = h[d].inactive
      /\ g[d] # None
  <2>1. e.new_name \in Names /\ e.new_uuid \in Uuids /\ h[d] \in DeviceType
    BY KnownFacts DEF EntryType
  <2>2. g[d] \in DeviceType
    BY <1>2, <2>1 DEF DeviceType
  <2>3. g[d] # None
    BY <2>2 DEF Accepts, DeviceMapperAssumption
  <2>4. QED
    BY <1>2, <2>1, <2>3 DEF DeviceType
<1>4. Placed(st[e.name].rule, e.new_name)
  BY <1>1, KnownFacts DEF Placed
<1>5. e.new_name \in Keys /\ e.name \in Keys
  BY KnownFacts, KeyTyped
<1>6. /\ after[e.new_name] = st[e.name]
      /\ \A n \in Names : n # e.name /\ n # e.new_name => after[n] = st[n]
  BY <1>5 DEF Pop, Accepts, States, Keys
<1> HIDE DEF after
<1>7. Fits(g, after, lost)
  <2>1. /\ h[d].active # None => h[d].active \in Rules[st[e.name].rule].targets
        /\ h[d].inactive # None => h[d].inactive \in Rules[st[e.name].rule].targets
        /\ Placed(st[e.name].rule, e.name) /\ st[e.name] # None
    BY KnownFacts
  <2>2. \A n \in Names : n # e.name /\ (g[d] # None => n # g[d].name) => after[n] = st[n]
    BY <1>3, <1>6
  <2>3. /\ after[g[d].name] # None
        /\ after[g[d].name].rule = st[e.name].rule
        /\ after[g[d].name].allow_multiple_loads = st[e.name].allow_multiple_loads
        /\ Placed(st[e.name].rule, g[d].name)
        /\ g[d].active # None => g[d].active \in Rules[st[e.name].rule].targets
        /\ g[d].inactive # None => g[d].inactive \in Rules[st[e.name].rule].targets
    BY <1>3, <1>4, <1>6, <2>1
  <2>4. QED
    BY <2>2, <2>3, StillFits
<1>8. QED
  BY <1>1, <1>7

\* An accepted entry leaves the devices and the validator in agreement.
LEMMA StepFits ==
  ASSUME NEW h, NEW e, NEW g, NEW st, NEW lost, NEW d, Accepts(h, e, g, st, lost, d)
  PROVE  Fits(g, Validate(st, e).known, lost)
<1>1. e.op \in Ops
  BY DEF Accepts, Hashed, EntryType
<1>2. QED
  BY <1>1, LoadFits, ResumeFits, RemoveFits, ClearFits, UpdateFits, RenameFits DEF Ops
-----------------------------------------------------------------------------
(* A run along the log *)

\* An entry of the log, and whether a run was bad before or is at it.
LEMMA RunStep ==
  ASSUME DeviceMapperAssumption, Typed, NEW st \in States, NEW from \in Nat,
         NEW n \in Nat, from < n, n <= Len(log)
  PROVE  /\ Run(st, from, n) \in Verdicts /\ Run(st, from, n - 1) \in Verdicts
         /\ Hashed(log[n]) /\ n \in 1..Len(log)
         /\ Run(st, from, n).known = Validate(Run(st, from, n - 1).known, log[n]).known
         /\ ~Run(st, from, n).bad
              <=> ~Validate(Run(st, from, n - 1).known, log[n]).bad /\ ~Run(st, from, n - 1).bad
<1>1. /\ Len(log) \in Nat /\ n \in from..Len(log) /\ n - 1 \in from..Len(log)
      /\ n \in 1..Len(log) /\ n # from
  BY DEF Typed, TypeOK
<1>2. Run(st, from, n) \in Verdicts /\ Run(st, from, n - 1) \in Verdicts
  BY <1>1, RunTyped DEF Typed
<1>3. Hashed(log[n])
  BY <1>1 DEF Typed
<1>4. Run(st, from, n) = Then(Run(st, from, n - 1), log[n])
  <2>1. from <= n
    OBVIOUS
  <2>2. Run(st, from, n) = IF n = from THEN Good(st) ELSE Then(Run(st, from, n - 1), log[n])
    BY <2>1, RunFacts
  <2>3. QED
    BY <1>1, <2>2
<1>5. Run(st, from, n - 1).known \in States /\ Run(st, from, n - 1).bad \in BOOLEAN
  BY <1>2 DEF Verdicts
<1>6. PICK v : v = Validate(Run(st, from, n - 1).known, log[n])
  OBVIOUS
<1>7. v \in Verdicts
  BY <1>3, <1>5, <1>6, ValidateTyped
<1>8. PICK b \in BOOLEAN : b = (v.bad \/ Run(st, from, n - 1).bad)
  OBVIOUS
<1>9. Run(st, from, n) = [v EXCEPT !.bad = b]
  BY <1>4, <1>6, <1>8 DEF Then
<1>10. Run(st, from, n).known = v.known /\ (Run(st, from, n).bad <=> b)
  BY <1>7, <1>9 DEF Verdicts
<1>11. ~Run(st, from, n).bad <=> ~v.bad /\ ~Run(st, from, n - 1).bad
  BY <1>8, <1>10, Zenon
<1>12. QED
  BY <1>1, <1>2, <1>3, <1>6, <1>10, <1>11

\* A run that is not bad at the end was never bad.
LEMMA NeverBad ==
  ASSUME DeviceMapperAssumption, Typed, NEW st \in States, NEW from \in Nat,
         ~Run(st, from, Len(log)).bad
  PROVE  \A m \in from..Len(log) : ~Run(st, from, m).bad
<1> DEFINE S == {k \in Nat : from <= Len(log) - k => ~Run(st, from, Len(log) - k).bad}
<1>0. Len(log) \in Nat
  BY DEF Typed, TypeOK
<1>1. 0 \in S
  BY <1>0
<1>2. ASSUME NEW k \in Nat, k \in S PROVE k + 1 \in S
  <2> SUFFICES ASSUME from <= Len(log) - (k + 1)
               PROVE  ~Run(st, from, Len(log) - (k + 1)).bad
    OBVIOUS
  <2>1. PICK n : n = Len(log) - k
    OBVIOUS
  <2>2. /\ n \in Nat /\ from < n /\ n <= Len(log) /\ Len(log) - (k + 1) = n - 1
        /\ from <= Len(log) - k
    BY <1>0, <2>1
  <2>3. ~Run(st, from, n).bad
    BY <1>2, <2>1, <2>2
  <2>4. QED
    BY <2>2, <2>3, RunStep
<1> HIDE DEF S
<1>3. Nat \subseteq S
  BY <1>1, <1>2, InductionOnSet
<1>4. ASSUME NEW m \in from..Len(log) PROVE ~Run(st, from, m).bad
  <2>1. Len(log) - m \in S /\ Len(log) - (Len(log) - m) = m /\ from <= m
    BY <1>0, <1>3
  <2>2. QED
    BY <2>1 DEF S
<1>5. QED
  BY <1>4

\* The devices after each entry fit the state after it.
LEMMA RunFits ==
  ASSUME DeviceMapperAssumption, MatchOn = "name", RenamesKeepTargets, Typed,
         NEW hist, History(hist), NEW st \in States, NEW from \in Nat,
         NEW lost \in BOOLEAN, lost => MaxRestarts > 0,
         Fits(hist[from], st, lost), ~Run(st, from, Len(log)).bad
  PROVE  \A m \in from..Len(log) : Fits(hist[m], Run(st, from, m).known, lost)
<1> DEFINE S == {k \in Nat : from + k <= Len(log) =>
                   Fits(hist[from + k], Run(st, from, from + k).known, lost)}
<1>0. Len(log) \in Nat
  BY DEF Typed, TypeOK
<1>1. 0 \in S
  <2>1. Run(st, from, from) = Good(st)
    BY RunFacts
  <2>2. Good(st).known = st /\ from + 0 = from
    BY DEF Good
  <2>3. QED
    BY <2>1, <2>2
<1>2. ASSUME NEW k \in Nat, k \in S PROVE k + 1 \in S
  <2> SUFFICES ASSUME from + (k + 1) <= Len(log)
               PROVE  Fits(hist[from + (k + 1)], Run(st, from, from + (k + 1)).known, lost)
    OBVIOUS
  <2>1. PICK n : n = from + (k + 1)
    OBVIOUS
  <2>2. n \in Nat /\ from < n /\ n <= Len(log) /\ n - 1 = from + k /\ n \in from..Len(log)
    BY <1>0, <2>1
  <2>3. Fits(hist[n - 1], Run(st, from, n - 1).known, lost)
    BY <1>0, <1>2, <2>2
  <2>4. ~Run(st, from, n).bad
    BY <2>2, NeverBad
  <2>5. PICK before : before = Run(st, from, n - 1).known
    OBVIOUS
  <2>6. /\ before \in States /\ Hashed(log[n]) /\ ~Validate(before, log[n]).bad
        /\ Run(st, from, n).known = Validate(before, log[n]).known
        /\ n \in 1..Len(log)
    BY <2>2, <2>4, <2>5, RunStep DEF Verdicts
  <2>7. PICK d \in Devices : Did(d, hist[n - 1], log[n], hist[n])
    BY <2>6 DEF History
  <2>8. /\ hist[n - 1] \in Kernels /\ hist[n] \in Kernels
        /\ NamesApart(hist[n - 1]) /\ NamesApart(hist[n])
    BY <1>0, <2>2 DEF History
  <2>9. Accepts(hist[n - 1], log[n], hist[n], before, lost, d)
    BY <2>3, <2>5, <2>6, <2>7, <2>8 DEF Accepts
  <2>10. QED
    BY <2>1, <2>6, <2>9, StepFits
<1> HIDE DEF S
<1>3. Nat \subseteq S
  BY <1>1, <1>2, InductionOnSet
<1>4. ASSUME NEW m \in from..Len(log) PROVE Fits(hist[m], Run(st, from, m).known, lost)
  <2>1. m - from \in S /\ from + (m - from) = m /\ m <= Len(log)
    BY <1>0, <1>3
  <2>2. QED
    BY <2>1 DEF S
<1>5. QED
  BY <1>4
-----------------------------------------------------------------------------
(* The history grows with the log *)

LEMMA MeasureGrows ==
  ASSUME Typed, NEW hist, History(hist), NEW d \in Devices, NEW now \in DeviceType \cup {None},
         NEW e, Measure(d, now, e), Did(d, devs, e, [devs EXCEPT ![d] = now]),
         NamesApart([devs EXCEPT ![d] = now])
  PROVE  \E longer : History(longer)' /\ \A n \in 0..Len(log) : longer[n] = hist[n]
<1>0. PICK longer :
        longer = [n \in 0..(Len(log) + 1) |->
                    IF n <= Len(log) THEN hist[n] ELSE [devs EXCEPT ![d] = now]]
  OBVIOUS
<1>1. /\ Len(log) \in Nat /\ Len(log') = Len(log) + 1
      /\ \A n \in 1..Len(log) : log'[n] = log[n]
      /\ log'[Len(log) + 1] = e
      /\ devs' = [devs EXCEPT ![d] = now]
  BY DEF Typed, TypeOK, Measure
<1>2. [devs EXCEPT ![d] = now] \in Kernels
  BY DEF Typed, TypeOK, Kernels
<1>3. /\ \A n \in 0..Len(log) : longer[n] = hist[n]
      /\ longer[Len(log) + 1] = [devs EXCEPT ![d] = now]
  BY <1>0, <1>1
<1>4. longer \in [0..(Len(log) + 1) -> Kernels]
  BY <1>0, <1>1, <1>2 DEF History
<1>5. longer[0] = [c \in Devices |-> None]
  BY <1>1, <1>3 DEF History
<1>6. \A n \in 0..(Len(log) + 1) : NamesApart(longer[n])
  BY <1>1, <1>3 DEF History
<1>7. \A n \in 1..(Len(log) + 1) : \E c \in Devices : Did(c, longer[n - 1], log'[n], longer[n])
  <2> SUFFICES ASSUME NEW n \in 1..(Len(log) + 1)
               PROVE  \E c \in Devices : Did(c, longer[n - 1], log'[n], longer[n])
    OBVIOUS
  <2>1. CASE n = Len(log) + 1
    <3>1. n - 1 = Len(log) /\ longer[n - 1] = devs
      BY <1>1, <1>3, <2>1 DEF History
    <3>2. QED
      BY <1>1, <1>3, <2>1, <3>1
  <2>2. CASE n <= Len(log)
    <3>1. n \in 1..Len(log) /\ n \in 0..Len(log) /\ n - 1 \in 0..Len(log)
      BY <1>1, <2>2
    <3>2. QED
      BY <1>1, <1>3, <3>1 DEF History
  <2>3. QED
    BY <1>1, <2>1, <2>2
<1>8. History(longer)'
  BY <1>1, <1>3, <1>4, <1>5, <1>6, <1>7 DEF History
<1>9. QED
  BY <1>3, <1>8

\* A device that keeps its name, or takes a free one, has it alone.
LEMMA NamesStayApart ==
  ASSUME Typed, NamesApart(devs), NEW d \in Devices, NEW now \in DeviceType \cup {None},
         now # None => \/ devs[d] # None /\ now.name = devs[d].name
                       \/ \A c \in Live : devs[c].name # now.name
  PROVE  NamesApart([devs EXCEPT ![d] = now])
<1>1. PICK g : g = [devs EXCEPT ![d] = now]
  OBVIOUS
<1>2. g[d] = now /\ \A c \in Devices \ {d} : g[c] = devs[c]
  BY <1>1 DEF Typed, TypeOK
<1>3. \A c \in Devices : c # d /\ devs[c] # None /\ now # None => devs[c].name # now.name
  BY DEF Live, NamesApart, Present
<1>4. NamesApart(g)
  <2> SUFFICES ASSUME NEW b \in Present(g), NEW c \in Present(g), g[b].name = g[c].name, b # c
               PROVE  FALSE
    BY DEF NamesApart
  <2>1. b \in Devices /\ c \in Devices /\ g[b] # None /\ g[c] # None
    BY DEF Present
  <2>2. CASE b = d
    BY <1>2, <1>3, <2>1, <2>2
  <2>3. CASE c = d
    BY <1>2, <1>3, <2>1, <2>3
  <2>4. CASE b # d /\ c # d
    BY <1>2, <2>1, <2>4 DEF NamesApart, Present
  <2>5. QED
    BY <2>2, <2>3, <2>4
<1>5. QED
  BY <1>1, <1>4

\* What is done to device d is entered in the log.
Entered(d) ==
  \E now \in DeviceType \cup {None} : \E e :
    /\ Measure(d, now, e)
    /\ Did(d, devs, e, [devs EXCEPT ![d] = now])
    /\ NamesApart([devs EXCEPT ![d] = now])

\* A step of the kernel is one entry, about one device.
LEMMA KernelEntry ==
  ASSUME DeviceMapperAssumption, Typed, NamesApart(devs), Kernel
  PROVE  \E d \in Devices : Entered(d)
<1>0. ASSUME NEW d \in Devices, NEW now
      PROVE  /\ [devs EXCEPT ![d] = now][d] = now
             /\ \A c \in Devices \ {d} : [devs EXCEPT ![d] = now][c] = devs[c]
  BY DEF Typed, TypeOK
<1>1. ASSUME NEW d \in Live, NEW op \in Ops
      PROVE  /\ d \in Devices /\ devs[d] # None /\ devs[d] \in DeviceType
             /\ Event(d, op) \in EntryType
             /\ Event(d, op).op = op
             /\ Event(d, op).name = devs[d].name /\ Event(d, op).uuid = devs[d].uuid
             /\ Event(d, op).new_name = devs[d].name /\ Event(d, op).new_uuid = devs[d].uuid
  BY <1>1, EventTyped DEF Event, Live
<1>2. ASSUME NEW d \in Devices, Load(d), devs[d] = None
      PROVE  Entered(d)
  <2>1. PICK n \in Names, u \in Uuids, t \in Targets :
          /\ Free("name", n)
          /\ Measure(d, [name |-> n, uuid |-> u, active |-> None, hash |-> None, inactive |-> t],
                     [op |-> "dm_table_load", name |-> n, uuid |-> u, target |-> t, hash |-> t,
                      new_name |-> n, new_uuid |-> u])
    BY <1>2 DEF Load
  <2>2. PICK now : now = [name |-> n, uuid |-> u, active |-> None, hash |-> None, inactive |-> t]
    OBVIOUS
  <2>3. PICK e : e = [op |-> "dm_table_load", name |-> n, uuid |-> u, target |-> t, hash |-> t,
                      new_name |-> n, new_uuid |-> u]
    OBVIOUS
  <2>4. now \in DeviceType /\ now.name = n
    BY <2>2 DEF DeviceType, Tables
  <2>5. \A c \in Live : devs[c].name # n
    BY <2>1 DEF Free
  <2>6. NamesApart([devs EXCEPT ![d] = now])
    BY <2>4, <2>5, NamesStayApart
  <2>7. Did(d, devs, e, [devs EXCEPT ![d] = now])
    BY <1>0, <1>2, <2>2, <2>3 DEF Did
  <2>8. QED
    BY <2>1, <2>2, <2>3, <2>4, <2>6, <2>7 DEF Entered
<1>3. ASSUME NEW d \in Live, NEW now \in DeviceType \cup {None}, NEW e,
             Measure(d, now, e), e.op \in Ops,
             e.op = "dm_table_load" => e.target \in Targets /\ e.hash = e.target,
             e.name = devs[d].name, e.uuid = devs[d].uuid,
             \/ e.op = "dm_table_load"    /\ now = [devs[d] EXCEPT !.inactive = e.target]
             \/ e.op = "dm_device_resume" /\ now = Resumed(devs[d]) /\ e.hash = now.hash
             \/ e.op = "dm_device_remove" /\ now = None /\ e.hash = devs[d].hash
             \/ e.op = "dm_table_clear"   /\ now = [devs[d] EXCEPT !.inactive = None]
             \/ /\ e.op = "dm_device_rename"
                /\ now = [devs[d] EXCEPT !.name = e.new_name, !.uuid = e.new_uuid]
             \/ e.op = "dm_target_update" /\ now = [devs[d] EXCEPT !.active = e.target],
             now # None => now.name = devs[d].name \/ \A c \in Live : devs[c].name # now.name
      PROVE  Entered(d)
  <2>1. d \in Devices /\ devs[d] # None
    BY DEF Live
  <2>2. NamesApart([devs EXCEPT ![d] = now])
    BY <1>3, <2>1, NamesStayApart
  <2>3. Did(d, devs, e, [devs EXCEPT ![d] = now])
    BY <1>0, <1>3, <2>1 DEF Did
  <2>4. QED
    BY <1>3, <2>2, <2>3 DEF Entered
<1>4. ASSUME NEW d \in Live, Load(d) PROVE Entered(d)
  <2>1. "dm_table_load" \in Ops /\ devs[d] # None
    BY DEF Ops, Live
  <2>2. PICK t \in Targets :
          Measure(d, [devs[d] EXCEPT !.inactive = t],
                  [Event(d, "dm_table_load") EXCEPT !.target = t, !.hash = t])
    BY <1>4, <2>1 DEF Load
  <2>3. PICK e : e = [Event(d, "dm_table_load") EXCEPT !.target = t, !.hash = t]
    OBVIOUS
  <2>4. /\ e.op = "dm_table_load" /\ e.name = devs[d].name /\ e.uuid = devs[d].uuid
        /\ e.target = t /\ e.hash = t
    BY <2>3 DEF Event
  <2>5. PICK now : now = [devs[d] EXCEPT !.inactive = t]
    OBVIOUS
  <2>6. now \in DeviceType /\ now.name = devs[d].name
    BY <1>1, <2>1, <2>5 DEF DeviceType, Tables
  <2>7. QED
    BY <1>3, <2>1, <2>2, <2>3, <2>4, <2>5, <2>6
<1>5. ASSUME NEW d \in Live, Resume(d) PROVE Entered(d)
  <2>1. "dm_device_resume" \in Ops
    BY DEF Ops
  <2>2. PICK now : now = Resumed(devs[d])
    OBVIOUS
  <2>3. Measure(d, now, [Event(d, "dm_device_resume") EXCEPT !.hash = now.hash])
    BY <1>5, <2>2 DEF Resume, Resumed
  <2>4. PICK e : e = [Event(d, "dm_device_resume") EXCEPT !.hash = now.hash]
    OBVIOUS
  <2>5. /\ e.op = "dm_device_resume" /\ e.name = devs[d].name /\ e.uuid = devs[d].uuid
        /\ e.hash = now.hash
    BY <2>4 DEF Event
  <2>6. now \in DeviceType /\ now.name = devs[d].name
    <3>1. PICK v : v = devs[d]
      OBVIOUS
    <3>2. v \in DeviceType
      BY <1>1, <2>1, <3>1
    <3>3. Resumed(v) \in DeviceType /\ Resumed(v).name = v.name
      BY <3>2 DEF Resumed, DeviceType, Tables
    <3>4. QED
      BY <2>2, <3>1, <3>3
  <2>7. QED
    BY <1>3, <2>1, <2>2, <2>3, <2>4, <2>5, <2>6
<1>6. ASSUME NEW d \in Live, Remove(d) PROVE Entered(d)
  <2>1. "dm_device_remove" \in Ops
    BY DEF Ops
  <2>2. PICK e : e = [Event(d, "dm_device_remove") EXCEPT !.hash = devs[d].hash]
    OBVIOUS
  <2>3. /\ e.op = "dm_device_remove" /\ e.name = devs[d].name /\ e.uuid = devs[d].uuid
        /\ e.hash = devs[d].hash
    BY <2>2 DEF Event
  <2>4. Measure(d, None, e)
    BY <1>6, <2>2 DEF Remove
  <2>5. QED
    BY <1>3, <2>1, <2>3, <2>4
<1>7. ASSUME NEW d \in Live, Clear(d) PROVE Entered(d)
  <2>1. "dm_table_clear" \in Ops
    BY DEF Ops
  <2>2. PICK e : e = Event(d, "dm_table_clear")
    OBVIOUS
  <2>3. e.op = "dm_table_clear" /\ e.name = devs[d].name /\ e.uuid = devs[d].uuid
    BY <2>2 DEF Event
  <2>4. PICK now : now = [devs[d] EXCEPT !.inactive = None]
    OBVIOUS
  <2>5. now \in DeviceType /\ now.name = devs[d].name
    BY <1>1, <2>1, <2>4 DEF DeviceType, Tables
  <2>6. Measure(d, now, e)
    BY <1>7, <2>2, <2>4 DEF Clear
  <2>7. QED
    BY <1>3, <2>1, <2>3, <2>4, <2>5, <2>6
<1>8. ASSUME NEW d \in Live, Update(d) PROVE Entered(d)
  <2>1. "dm_target_update" \in Ops
    BY DEF Ops
  <2>2. PICK t \in Targets :
          Measure(d, [devs[d] EXCEPT !.active = t], [Event(d, "dm_target_update") EXCEPT !.target = t])
    BY <1>8 DEF Update
  <2>3. PICK e : e = [Event(d, "dm_target_update") EXCEPT !.target = t]
    OBVIOUS
  <2>4. /\ e.op = "dm_target_update" /\ e.name = devs[d].name /\ e.uuid = devs[d].uuid
        /\ e.target = t
    BY <2>3 DEF Event
  <2>5. PICK now : now = [devs[d] EXCEPT !.active = t]
    OBVIOUS
  <2>6. now \in DeviceType /\ now.name = devs[d].name
    BY <1>1, <2>1, <2>5 DEF DeviceType, Tables
  <2>7. QED
    BY <1>3, <2>1, <2>2, <2>3, <2>4, <2>5, <2>6
<1>9. ASSUME NEW d \in Live, Rename(d) PROVE Entered(d)
  <2>1. "dm_device_rename" \in Ops /\ devs[d] \in DeviceType
    BY <1>1 DEF Ops
  <2>2. CASE \E n \in Names :
               /\ Free("name", n)
               /\ Measure(d, [devs[d] EXCEPT !.name = n],
                          [Event(d, "dm_device_rename") EXCEPT !.new_name = n])
    <3>1. PICK n \in Names :
            /\ Free("name", n)
            /\ Measure(d, [devs[d] EXCEPT !.name = n],
                       [Event(d, "dm_device_rename") EXCEPT !.new_name = n])
      BY <2>2
    <3>2. PICK e : e = [Event(d, "dm_device_rename") EXCEPT !.new_name = n]
      OBVIOUS
    <3>3. /\ e.op = "dm_device_rename" /\ e.name = devs[d].name /\ e.uuid = devs[d].uuid
          /\ e.new_name = n /\ e.new_uuid = devs[d].uuid
      BY <3>2 DEF Event
    <3>4. PICK now : now = [devs[d] EXCEPT !.name = n]
      OBVIOUS
    <3>5. /\ now \in DeviceType /\ now.name = n
          /\ now = [devs[d] EXCEPT !.name = e.new_name, !.uuid = e.new_uuid]
      BY <2>1, <3>3, <3>4 DEF DeviceType
    <3>6. \A c \in Live : devs[c].name # now.name
      BY <3>1, <3>5 DEF Free
    <3>7. Measure(d, now, e)
      BY <3>1, <3>2, <3>4
    <3>8. QED
      BY <1>3, <2>1, <3>3, <3>5, <3>6, <3>7
  <2>3. CASE \E u \in Uuids :
               Measure(d, [devs[d] EXCEPT !.uuid = u],
                       [Event(d, "dm_device_rename") EXCEPT !.new_uuid = u])
    <3>1. PICK u \in Uuids :
            Measure(d, [devs[d] EXCEPT !.uuid = u],
                    [Event(d, "dm_device_rename") EXCEPT !.new_uuid = u])
      BY <2>3
    <3>2. PICK e : e = [Event(d, "dm_device_rename") EXCEPT !.new_uuid = u]
      OBVIOUS
    <3>3. /\ e.op = "dm_device_rename" /\ e.name = devs[d].name /\ e.uuid = devs[d].uuid
          /\ e.new_name = devs[d].name /\ e.new_uuid = u
      BY <3>2 DEF Event
    <3>4. PICK now : now = [devs[d] EXCEPT !.uuid = u]
      OBVIOUS
    <3>5. /\ now \in DeviceType /\ now.name = devs[d].name
          /\ now = [devs[d] EXCEPT !.name = e.new_name, !.uuid = e.new_uuid]
      BY <2>1, <3>3, <3>4 DEF DeviceType
    <3>6. Measure(d, now, e)
      BY <3>1, <3>2, <3>4
    <3>7. QED
      BY <1>3, <2>1, <3>3, <3>5, <3>6
  <2>4. QED
    BY <1>9, <2>2, <2>3 DEF Rename
<1>10. ASSUME NEW d \in Devices, Load(d) PROVE Entered(d)
  BY <1>2, <1>4, <1>10 DEF Live
<1>11. Live \subseteq Devices
  BY DEF Live
<1>12. QED
  BY <1>5, <1>6, <1>7, <1>8, <1>9, <1>10, <1>11 DEF Kernel

\* The history goes on with every step of the kernel.
LEMMA KernelGrows ==
  ASSUME DeviceMapperAssumption, Typed, NEW hist, History(hist), Kernel
  PROVE  \E longer : History(longer)' /\ \A n \in 0..Len(log) : longer[n] = hist[n]
<1>1. Len(log) \in Nat
  BY DEF Typed, TypeOK
<1>2. NamesApart(devs)
  BY <1>1 DEF History
<1>3. PICK d \in Devices : Entered(d)
  BY <1>2, KernelEntry
<1>4. QED
  BY <1>3, MeasureGrows DEF Entered
-----------------------------------------------------------------------------
(* What accepted devices run *)

\* The state kept fits the devices after the entry accounted for.
Sound ==
  \E hist : History(hist) /\ Fits(hist[entry], Loaded, restarts # 0)

Inductive == Typed /\ Sound

LEMMA InitSound ==
  ASSUME DeviceMapperAssumption, Init
  PROVE  Inductive
<1>1. Typed
  BY InitTyped
<1>2. PICK none : none = [d \in Devices |-> None]
  OBVIOUS
<1>3. PICK hist : hist = [n \in 0..0 |-> none]
  OBVIOUS
<1>4. Len(log) = 0 /\ devs = none /\ entry = 0 /\ none \in Kernels /\ Present(none) = {}
  BY <1>2 DEF Init, Kernels, Present
<1>5. History(hist)
  <2>1. hist \in [0..0 -> Kernels] /\ hist[0] = none
    BY <1>3, <1>4
  <2>2. NamesApart(none)
    BY <1>4 DEF NamesApart
  <2>3. QED
    BY <1>2, <1>4, <2>1, <2>2 DEF History
<1>6. Fits(hist[entry], Loaded, restarts # 0)
  BY <1>3, <1>4 DEF Fits
<1>7. QED
  BY <1>1, <1>5, <1>6 DEF Inductive, Sound

\* After a restart every device is unknown, and still has the rule it came under.
LEMMA ForgottenFits ==
  ASSUME NEW h, NEW st, NEW lost, h \in Kernels, Fits(h, st, lost)
  PROVE  Fits(h, NoDevices, TRUE)
<1> SUFFICES ASSUME NEW d \in Present(h)
             PROVE  FitsDevice(h[d], NoDevices, TRUE)
  BY DEF Fits
<1>1. h[d] \in DeviceType
  BY DEF Present, Kernels
<1>2. h[d].name \in Keys
  BY <1>1 DEF DeviceType, Keys
<1>3. NoDevices[h[d].name] = None
  BY <1>2 DEF NoDevices
<1>4. FitsDevice(h[d], st, lost)
  BY DEF Fits
<1>5. \E i \in DOMAIN Rules :
        Placed(i, h[d].name) /\ (h[d].active # None => h[d].active \in Rules[i].targets)
  BY <1>4 DEF FitsDevice, Placed
<1>6. QED
  BY <1>3, <1>5 DEF FitsDevice

LEMMA AttestSound ==
  ASSUME DeviceMapperAssumption, MatchOn = "name", RenamesKeepTargets, Inductive, Attest
  PROVE  Sound'
<1>1. PICK hist : History(hist) /\ Fits(hist[entry], Loaded, restarts # 0)
  BY DEF Inductive, Sound
<1>2. PICK m \in entry..Len(log) :
        IF Run(Loaded, entry, Len(log)).bad
        THEN failed' = TRUE /\ entry' = 0 /\ dmState' = None
        ELSE /\ entry' = m
             /\ dmState' = IF m > entry THEN Run(Loaded, entry, m).known ELSE dmState
             /\ UNCHANGED failed
  BY DEF Attest
<1>3. /\ Len(log) \in Nat /\ entry \in Nat /\ restarts \in 0..MaxRestarts
      /\ UNCHANGED <<devs, log, restarts>>
  BY DEF Inductive, Typed, TypeOK, Attest
<1>4. History(hist)'
  BY <1>1, <1>3 DEF History
<1>5. CASE Run(Loaded, entry, Len(log)).bad
  <2>1. entry' = 0
    BY <1>2, <1>5
  <2>2. Present(hist[0]) = {}
    BY <1>1 DEF History, Present
  <2>3. Fits(hist[0], Loaded', (restarts # 0)')
    BY <2>2 DEF Fits
  <2>4. QED
    BY <1>4, <2>1, <2>3 DEF Sound
<1>6. CASE ~Run(Loaded, entry, Len(log)).bad
  <2>1. PICK lost \in BOOLEAN : lost = (restarts # 0)
    <3>1. CASE restarts = 0
      BY <3>1, Zenon
    <3>2. CASE restarts # 0
      BY <3>2, Zenon
    <3>3. QED
      BY <3>1, <3>2, Zenon
  <2>2. lost => MaxRestarts > 0
    <3>1. MaxRestarts \in Nat
      BY DEF DeviceMapperAssumption
    <3>2. restarts # 0 => MaxRestarts > 0
      BY <1>3, <3>1
    <3>3. QED
      BY <2>1, <3>2, Zenon
  <2>3. Loaded \in States /\ Typed
    BY LoadedTyped DEF Inductive
  <2>4. Fits(hist[m], Run(Loaded, entry, m).known, lost)
    BY <1>1, <1>3, <1>6, <2>1, <2>2, <2>3, RunFits
  <2>5. Run(Loaded, entry, m).known \in States
    BY <1>3, <2>3, RunTyped DEF Typed, Verdicts
  <2>6. entry' = m
    BY <1>2, <1>6
  <2>7. (restarts # 0)' = lost
    BY <1>3, <2>1
  <2>8. CASE m > entry
    <3>1. dmState' = Run(Loaded, entry, m).known
      BY <1>2, <1>6, <2>8
    <3>2. dmState' # None /\ m # 0
      BY <1>3, <2>5, <2>8, <3>1 DEF DeviceMapperAssumption
    <3>3. Loaded' = Run(Loaded, entry, m).known
      BY <2>6, <3>1, <3>2 DEF Loaded
    <3>4. QED
      BY <1>4, <2>4, <2>6, <2>7, <3>3 DEF Sound
  <2>9. CASE m = entry
    <3>1. dmState' = dmState
      BY <1>2, <1>3, <1>6, <2>9
    <3>2. Loaded' = Loaded
      BY <2>6, <2>9, <3>1 DEF Loaded, NoDevices
    <3>3. QED
      BY <1>1, <1>4, <2>1, <2>6, <2>7, <2>9, <3>2 DEF Sound
  <2>10. QED
    BY <1>3, <2>8, <2>9
<1>7. QED
  BY <1>5, <1>6

LEMMA NextSound ==
  ASSUME DeviceMapperAssumption, MatchOn = "name", RenamesKeepTargets, Inductive, [Next]_vars
  PROVE  Inductive'
<1>1. Typed'
  BY NextTyped DEF Inductive
<1>2. PICK hist : History(hist) /\ Fits(hist[entry], Loaded, restarts # 0)
  BY DEF Inductive, Sound
<1>3. entry \in 0..Len(log) /\ Len(log) \in Nat /\ restarts \in Nat
  BY DEF Inductive, Typed, TypeOK
<1>4. CASE Kernel
  <2>1. PICK longer : History(longer)' /\ \A n \in 0..Len(log) : longer[n] = hist[n]
    BY <1>2, <1>4, KernelGrows DEF Inductive
  <2>2. UNCHANGED <<entry, dmState, restarts>>
    BY <1>4 DEF Kernel, Load, Resume, Remove, Clear, Rename, Update, Measure
  <2>3. Loaded' = Loaded
    BY <2>2 DEF Loaded, NoDevices
  <2>4. Fits(longer[entry'], Loaded', (restarts # 0)')
    BY <1>2, <1>3, <2>1, <2>2, <2>3
  <2>5. QED
    BY <1>1, <2>1, <2>4 DEF Inductive, Sound
<1>5. CASE Attest
  BY <1>1, <1>5, AttestSound DEF Inductive
<1>6. CASE Restart
  <2>1. History(hist)'
    BY <1>2, <1>6 DEF Restart, History
  <2>2. Loaded' = NoDevices /\ entry' = entry /\ restarts' = restarts + 1
    BY <1>6 DEF Restart, Loaded, NoDevices
  <2>3. hist[entry] \in Kernels
    BY <1>2, <1>3 DEF History
  <2>4. Fits(hist[entry], NoDevices, TRUE)
    BY <1>2, <2>3, ForgottenFits
  <2>5. (restarts # 0)' = TRUE
    BY <1>3, <2>2
  <2>6. QED
    BY <1>1, <2>1, <2>2, <2>4, <2>5 DEF Inductive, Sound
<1>7. CASE UNCHANGED vars
  <2>1. History(hist)'
    BY <1>2, <1>7 DEF vars, History
  <2>2. Loaded' = Loaded /\ UNCHANGED <<entry, restarts>>
    BY <1>7 DEF vars, Loaded, NoDevices
  <2>3. QED
    BY <1>1, <1>2, <2>1, <2>2 DEF Inductive, Sound
<1>8. QED
  BY <1>4, <1>5, <1>6, <1>7 DEF Next

\* No device runs a table the policy does not allow once its log is accepted, for any
\* policy on names whose rules agree about the devices that can be renamed from one to
\* the other (validate_table_load, validate_device_rename).  With a second table, or
\* after a restart, the rule of the new name takes over what the old one let in.
THEOREM AcceptedAreAllowed ==
  DeviceMapperAssumption /\ MatchOn = "name" /\ RenamesKeepTargets
    => (Spec => []AcceptedRunsAllowed)
<1> SUFFICES ASSUME DeviceMapperAssumption, MatchOn = "name", RenamesKeepTargets
             PROVE  Spec => []AcceptedRunsAllowed
  OBVIOUS
<1>1. Init => Inductive
  BY InitSound
<1>2. Inductive /\ [Next]_vars => Inductive'
  BY NextSound
<1>3. Inductive => AcceptedRunsAllowed
  <2> SUFFICES ASSUME Inductive, entry = Len(log), dmState # None,
                      NEW d \in Live, devs[d].active # None
               PROVE  LET s == dmState[Key(devs[d])]
                      IN  /\ s = None => restarts > 0
                          /\ s # None => devs[d].active \in Rules[s.rule].targets
    BY DEF AcceptedRunsAllowed
  <2>1. PICK hist : History(hist) /\ Fits(hist[entry], Loaded, restarts # 0)
    BY DEF Inductive, Sound
  <2>2. hist[entry] = devs
    BY <2>1 DEF History
  <2>3. entry # 0
    BY <2>1, <2>2 DEF History, Live
  <2>4. Loaded = dmState
    BY <2>3 DEF Loaded
  <2>5. Key(devs[d]) = devs[d].name
    BY DEF Key
  <2>6. FitsDevice(devs[d], dmState, restarts # 0)
    BY <2>1, <2>2, <2>4 DEF Fits, Present, Live
  <2>7. restarts # 0 => restarts > 0
    BY DEF Inductive, Typed, TypeOK
  <2>8. QED
    BY <2>5, <2>6, <2>7 DEF FitsDevice
<1>4. QED
  BY <1>1, <1>2, <1>3, PTL DEF Spec
-----------------------------------------------------------------------------
(* An orderly device *)

\* Entry n is in order under rule i: OneDeviceOrderly, entry by entry.
InOrder(i, n) ==
  LET r == Rules[i]
      e == log[n]
  IN  /\ n = 1 => /\ e.op = "dm_table_load" /\ Matching(Key(e)) = {i}
                  /\ e.name \in r.names /\ e.uuid \in r.uuids /\ e.target \in r.targets
      /\ n = 2 => e.op = "dm_device_resume"
      /\ n > 2 =>
           \/ /\ e.op = "dm_device_rename"
              /\ e.new_name \in r.valid_name /\ e.new_uuid \in r.valid_uuid
           \/ e.op = "dm_target_update" /\ e.target \in r.targets
           \/ e.op = "dm_device_remove" /\ r.allow_removal /\ n = Len(log)

OrderlyUnder(i) == i \in DOMAIN Rules /\ \A n \in 1..Len(log) : InOrder(i, n)

LEMMA OrderlyEntries ==
  ASSUME Typed
  PROVE  OneDeviceOrderly <=> \E i : OrderlyUnder(i)
<1>1. Len(log) \in Nat
  BY DEF Typed, TypeOK
<1>2. ASSUME NEW i \in DOMAIN Rules, OrderlyUnder(i)
      PROVE  OneDeviceOrderly
  <2>1. /\ Len(log) >= 1 => InOrder(i, 1)
        /\ Len(log) >= 2 => InOrder(i, 2)
        /\ \A n \in 3..Len(log) : InOrder(i, n) /\ n > 2
    BY <1>1, <1>2 DEF OrderlyUnder
  <2>2. QED
    BY <2>1 DEF InOrder, OneDeviceOrderly
<1>3. ASSUME OneDeviceOrderly
      PROVE  \E i : OrderlyUnder(i)
  <2>1. PICK i \in DOMAIN Rules :
          /\ Len(log) >= 1 =>
               /\ log[1].op = "dm_table_load" /\ Matching(Key(log[1])) = {i}
               /\ log[1].name \in Rules[i].names /\ log[1].uuid \in Rules[i].uuids
               /\ log[1].target \in Rules[i].targets
          /\ Len(log) >= 2 => log[2].op = "dm_device_resume"
          /\ \A n \in 3..Len(log) :
               \/ /\ log[n].op = "dm_device_rename"
                  /\ log[n].new_name \in Rules[i].valid_name
                  /\ log[n].new_uuid \in Rules[i].valid_uuid
               \/ log[n].op = "dm_target_update" /\ log[n].target \in Rules[i].targets
               \/ log[n].op = "dm_device_remove" /\ Rules[i].allow_removal /\ n = Len(log)
    BY <1>3 DEF OneDeviceOrderly
  <2>2. ASSUME NEW n \in 1..Len(log) PROVE InOrder(i, n)
    <3>1. CASE n = 1
      BY <1>1, <2>1, <3>1 DEF InOrder
    <3>2. CASE n = 2
      BY <1>1, <2>1, <3>2 DEF InOrder
    <3>3. CASE n > 2
      <4>1. n \in 3..Len(log)
        BY <1>1, <3>3
      <4>2. QED
        BY <2>1, <3>3, <4>1 DEF InOrder
    <3>4. QED
      BY <1>1, <3>1, <3>2, <3>3
  <2>3. QED
    BY <2>2 DEF OrderlyUnder
<1>4. QED
  BY <1>2, <1>3 DEF OrderlyUnder

\* What is there after n entries in order: nothing before the first and after a removal,
\* one device that is known by its rule otherwise.
Exact(i, h, st, n) ==
  \/ n = 0 /\ st = NoDevices /\ Present(h) = {}
  \/ n > 0 /\ log[n].op = "dm_device_remove" /\ Present(h) = {}
  \/ /\ n > 0
     /\ \E d \in Devices :
          /\ Present(h) = {d}
          /\ st[h[d].name] # None /\ st[h[d].name].rule = i
          /\ n = 1 => /\ st[h[d].name].active = FALSE
                      /\ st[h[d].name].active_table_hash = h[d].inactive
                      /\ h[d].inactive # None
          /\ n > 1 => h[d].hash # None

\* The setting of a step in order.
StepInOrder(i, n, h, g, st, d) ==
  /\ DeviceMapperAssumption /\ MatchOn = "name" /\ Typed
  /\ OrderlyUnder(i) /\ n \in 1..Len(log) /\ Exact(i, h, st, n - 1)
  /\ h \in Kernels /\ g \in Kernels /\ st \in States
  /\ d \in Devices /\ Did(d, h, log[n], g)

LEMMA StepFacts ==
  ASSUME NEW i, NEW n, NEW h, NEW g, NEW st, NEW d, StepInOrder(i, n, h, g, st, d)
  PROVE  /\ Hashed(log[n]) /\ log[n] \in EntryType /\ Key(log[n]) = log[n].name
         /\ log[n].name \in Keys /\ log[n].new_name \in Keys
         /\ InOrder(i, n) /\ i \in DOMAIN Rules /\ n \in Nat /\ n > 0
<1>1. Hashed(log[n]) /\ InOrder(i, n) /\ i \in DOMAIN Rules
  BY DEF StepInOrder, Typed, OrderlyUnder
<1>2. n \in Nat /\ n > 0
  BY DEF StepInOrder, Typed, TypeOK
<1>3. QED
  BY <1>1, <1>2, KeyTyped DEF Hashed, StepInOrder, Key

\* The load of the device.
LEMMA FirstInOrder ==
  ASSUME NEW i, NEW h, NEW g, NEW st, NEW d, StepInOrder(i, 1, h, g, st, d)
  PROVE  ~Validate(st, log[1]).bad /\ Exact(i, g, Validate(st, log[1]).known, 1)
<1>1. PICK e : e = log[1]
  OBVIOUS
<1>2. /\ Hashed(e) /\ e \in EntryType /\ Key(e) = e.name /\ e.name \in Keys
      /\ e.op = "dm_table_load" /\ Matching(e.name) = {i}
      /\ e.name \in Rules[i].names /\ e.uuid \in Rules[i].uuids /\ e.target \in Rules[i].targets
      /\ i \in DOMAIN Rules
  BY <1>1, StepFacts DEF InOrder
<1>3. Present(h) = {} /\ st = NoDevices
  BY DEF StepInOrder, Exact
<1>4. /\ h[d] = None
      /\ \A c \in Devices \ {d} : g[c] = None
      /\ g[d] = [name |-> e.name, uuid |-> e.uuid, active |-> None, hash |-> None,
                 inactive |-> e.target]
      /\ e.target \in Targets /\ e.hash = e.target
  BY <1>1, <1>2, <1>3 DEF StepInOrder, Did, Present
<1>5. st[e.name] = None
  BY <1>2, <1>3 DEF NoDevices
<1>6. First(Matching(e.name)) = i
  BY <1>2, FirstMatches DEF StepInOrder
<1>7. Loading(e) \in KnownType /\ Loading(e) # None
  BY <1>2, LoadingTyped DEF StepInOrder, DeviceMapperAssumption
<1>8. /\ Loading(e).rule = i /\ Loading(e).active = FALSE
      /\ Loading(e).active_table_hash = e.hash
  BY <1>2, <1>6 DEF Loading
<1>9. /\ ~Validate(st, e).bad
      /\ Validate(st, e).known = [st EXCEPT ![e.name] = Loading(e)]
  <2>1. ValidateTableLoad(st, e)
          = [known |-> [st EXCEPT ![e.name] = Loading(e)], bad |-> e.target \notin Rules[i].targets]
    BY <1>2, <1>5, <1>6 DEF ValidateTableLoad, Loading
  <2>2. (e.target \notin Rules[i].targets) = FALSE
    BY <1>2, Zenon
  <2>3. ValidateTableLoad(st, e) = [known |-> [st EXCEPT ![e.name] = Loading(e)], bad |-> FALSE]
    BY <2>1, <2>2
  <2>4. Validate(st, e) = ValidateTableLoad(st, e)
    BY <1>2 DEF Validate
  <2>5. QED
    BY <2>3, <2>4
<1>10. PICK after : after = [st EXCEPT ![e.name] = Loading(e)]
  OBVIOUS
<1>11. after[e.name] = Loading(e)
  BY <1>2, <1>10 DEF StepInOrder, States
<1>12. /\ g[d].name = e.name /\ g[d].inactive = e.target
       /\ g[d] # None /\ e.target # None
  <2>1. e.name \in Names /\ e.uuid \in Uuids
    BY <1>2 DEF EntryType
  <2>2. g[d] \in DeviceType
    BY <1>4, <2>1 DEF DeviceType, Tables
  <2>3. QED
    BY <1>4, <2>2 DEF StepInOrder, DeviceMapperAssumption
<1>13. Present(g) = {d}
  BY <1>4, <1>12 DEF Present, StepInOrder
<1>14. Exact(i, g, after, 1)
  BY <1>4, <1>7, <1>8, <1>11, <1>12, <1>13 DEF Exact, StepInOrder
<1>15. QED
  BY <1>1, <1>9, <1>10, <1>14

\* The entry is about the one device that is there.
OneKnown(i, n, h, g, st, d) ==
  /\ h[d] # None /\ h[d] \in DeviceType /\ Present(h) = {d}
  /\ \A c \in Devices \ {d} : g[c] = None
  /\ log[n].name = h[d].name
  /\ st[log[n].name] # None /\ st[log[n].name] \in KnownType /\ st[log[n].name].rule = i
  /\ n = 2 => /\ st[log[n].name].active = FALSE
              /\ st[log[n].name].active_table_hash = h[d].inactive
              /\ h[d].inactive # None
  /\ n # 2 => h[d].hash # None

\* After the load the entries are about the one device.
LEMMA SameDevice ==
  ASSUME NEW i, NEW n, NEW h, NEW g, NEW st, NEW d, StepInOrder(i, n, h, g, st, d), n # 1
  PROVE  OneKnown(i, n, h, g, st, d)
<1>1. /\ n \in Nat /\ n > 1 /\ InOrder(i, n) /\ log[n].name \in Keys
      /\ n <= Len(log) /\ Len(log) \in Nat
  <2>1. /\ n \in Nat /\ InOrder(i, n) /\ log[n].name \in Keys
    BY StepFacts
  <2>2. n <= Len(log) /\ Len(log) \in Nat /\ n > 1
    BY DEF StepInOrder, Typed, TypeOK
  <2>3. QED
    BY <2>1, <2>2
<1>2. log[n].op # "dm_table_load"
  BY <1>1 DEF InOrder
<1>3. h[d] # None /\ log[n].name = h[d].name
  BY <1>2 DEF StepInOrder, Did
<1>4. d \in Present(h) /\ h[d] \in DeviceType
  BY <1>3 DEF Present, StepInOrder, Kernels
<1>5. PICK c \in Devices :
        /\ Present(h) = {c}
        /\ st[h[c].name] # None /\ st[h[c].name].rule = i
        /\ n - 1 = 1 => /\ st[h[c].name].active = FALSE
                        /\ st[h[c].name].active_table_hash = h[c].inactive
                        /\ h[c].inactive # None
        /\ n - 1 > 1 => h[c].hash # None
  BY <1>4 DEF Exact, StepInOrder
<1>6. c = d
  BY <1>4, <1>5
<1>7. \A b \in Devices \ {d} : g[b] = None
  BY <1>5, <1>6 DEF StepInOrder, Did, Present
<1>8. st[log[n].name] \in KnownType
  BY <1>1, <1>3, <1>5, <1>6 DEF StepInOrder, States
<1>9. (n = 2 => n - 1 = 1) /\ (n # 2 => n - 1 > 1)
  BY <1>1
<1>10. QED
  BY <1>3, <1>4, <1>5, <1>6, <1>7, <1>8, <1>9 DEF OneKnown

\* The resume of what was loaded.
LEMMA SecondInOrder ==
  ASSUME NEW i, NEW h, NEW g, NEW st, NEW d, StepInOrder(i, 2, h, g, st, d)
  PROVE  ~Validate(st, log[2]).bad /\ Exact(i, g, Validate(st, log[2]).known, 2)
<1>1. PICK e : e = log[2]
  OBVIOUS
<1>2. /\ Hashed(e) /\ e \in EntryType /\ Key(e) = e.name /\ e.name \in Keys
      /\ e.op = "dm_device_resume"
  BY <1>1, StepFacts DEF InOrder
<1>3. /\ h[d] # None /\ h[d] \in DeviceType /\ Present(h) = {d}
      /\ \A c \in Devices \ {d} : g[c] = None
      /\ e.name = h[d].name
      /\ st[e.name] # None /\ st[e.name] \in KnownType /\ st[e.name].rule = i
      /\ st[e.name].active = FALSE /\ st[e.name].active_table_hash = h[d].inactive
      /\ h[d].inactive # None
  <2>1. OneKnown(i, 2, h, g, st, d)
    BY 2 # 1, SameDevice
  <2>2. QED
    BY <1>1, <2>1 DEF OneKnown
<1>4. PICK v : v = h[d]
  OBVIOUS
<1>5. g[d] = Resumed(v) /\ e.hash = g[d].hash
  BY <1>1, <1>2, <1>3, <1>4 DEF StepInOrder, Did
<1>6. /\ Resumed(v).hash = v.inactive /\ Resumed(v).name = v.name
      /\ Resumed(v) \in DeviceType
  BY <1>3, <1>4 DEF Resumed, DeviceType, Tables
<1>7. e.hash = st[e.name].active_table_hash /\ e.hash # None /\ g[d].name = e.name /\ g[d] # None
  BY <1>3, <1>4, <1>5, <1>6 DEF StepInOrder, DeviceMapperAssumption
<1>8. PICK after : after = [st EXCEPT ![e.name].active = TRUE, ![e.name].valid_state = TRUE]
  OBVIOUS
<1>9. Validate(st, e) = Good(after)
  BY <1>2, <1>3, <1>7, <1>8 DEF Validate, ValidateDeviceResume
<1>10. after[e.name] # None /\ after[e.name].rule = i
  <2>1. PICK s : s = st[e.name]
    OBVIOUS
  <2>2. /\ [s EXCEPT !.active = TRUE, !.valid_state = TRUE] \in KnownType
        /\ [s EXCEPT !.active = TRUE, !.valid_state = TRUE].rule = s.rule
    BY <1>3, <2>1 DEF KnownType
  <2>3. after[e.name] = [s EXCEPT !.active = TRUE, !.valid_state = TRUE]
    BY <1>2, <1>8, <2>1 DEF StepInOrder, States
  <2>4. QED
    BY <1>3, <2>1, <2>2, <2>3 DEF StepInOrder, DeviceMapperAssumption
<1>11. Present(g) = {d}
  BY <1>3, <1>7 DEF Present, StepInOrder
<1>12. Exact(i, g, after, 2)
  <2>1. g[d].hash # None /\ after[g[d].name] # None /\ after[g[d].name].rule = i
    BY <1>5, <1>7, <1>10
  <2>2. d \in Devices
    BY DEF StepInOrder
  <2>3. QED
    BY <1>11, <2>1, <2>2 DEF Exact
<1>13. QED
  BY <1>1, <1>9, <1>12 DEF Good

\* What happens to the device from then on.
LEMMA LaterInOrder ==
  ASSUME NEW i, NEW n, NEW h, NEW g, NEW st, NEW d, StepInOrder(i, n, h, g, st, d), n > 2
  PROVE  ~Validate(st, log[n]).bad /\ Exact(i, g, Validate(st, log[n]).known, n)
<1>1. PICK e : e = log[n]
  OBVIOUS
<1>2. /\ Hashed(e) /\ e \in EntryType /\ Key(e) = e.name /\ e.name \in Keys
      /\ e.new_name \in Keys /\ InOrder(i, n) /\ n \in Nat /\ n > 0 /\ n > 1 /\ n # 1 /\ n # 2
  BY <1>1, StepFacts
<1>3. /\ h[d] # None /\ h[d] \in DeviceType /\ Present(h) = {d}
      /\ \A c \in Devices \ {d} : g[c] = None
      /\ e.name = h[d].name
      /\ st[e.name] # None /\ st[e.name] \in KnownType /\ st[e.name].rule = i
      /\ h[d].hash # None
  <2>1. OneKnown(i, n, h, g, st, d)
    BY <1>2, SameDevice
  <2>2. QED
    BY <1>1, <1>2, <2>1 DEF OneKnown
<1>4. ASSUME NEW after, Validate(st, e) = Good(after), g[d] # None, g[d].hash = h[d].hash,
             after[g[d].name] = st[e.name]
      PROVE  ~Validate(st, e).bad /\ Exact(i, g, Validate(st, e).known, n)
  <2>1. Present(g) = {d}
    BY <1>3, <1>4 DEF Present, StepInOrder
  <2>2. Exact(i, g, after, n)
    BY <1>2, <1>3, <1>4, <2>1 DEF Exact, StepInOrder
  <2>3. QED
    BY <1>4, <2>2 DEF Good
<1>5. g[d] # None => g[d] \in DeviceType
  BY DEF StepInOrder, Kernels
<1>6. PICK v : v = h[d]
  OBVIOUS
<1>7. CASE e.op = "dm_device_rename"
  <2>1. e.new_name \in Rules[i].valid_name /\ e.new_uuid \in Rules[i].valid_uuid
    BY <1>1, <1>2, <1>7 DEF InOrder
  <2>2. g[d] = [v EXCEPT !.name = e.new_name, !.uuid = e.new_uuid]
    BY <1>1, <1>3, <1>6, <1>7 DEF StepInOrder, Did
  <2>3. /\ g[d] \in DeviceType /\ g[d].name = e.new_name /\ g[d].hash = h[d].hash
    BY <1>2, <1>3, <1>6, <2>2 DEF DeviceType, EntryType
  <2>4. g[d] # None
    BY <2>3 DEF StepInOrder, DeviceMapperAssumption
  <2>5. CASE e.new_name # e.name
    <3>1. Validate(st, e) = Good(Pop(st, e.name, e.new_name))
      BY <1>2, <1>3, <1>7, <2>1, <2>5 DEF Validate, ValidateDeviceRename, StepInOrder
    <3>2. Pop(st, e.name, e.new_name)[e.new_name] = st[e.name]
      BY <1>2 DEF Pop, StepInOrder, States
    <3>3. QED
      BY <1>1, <1>4, <2>3, <2>4, <3>1, <3>2
  <2>6. CASE e.new_name = e.name
    <3>1. Validate(st, e) = Good(st)
      BY <1>2, <1>3, <1>7, <2>1, <2>6 DEF Validate, ValidateDeviceRename, StepInOrder
    <3>2. QED
      BY <1>1, <1>4, <2>3, <2>4, <2>6, <3>1
  <2>7. QED
    BY <2>5, <2>6
<1>8. CASE e.op = "dm_target_update"
  <2>1. e.target \in Rules[i].targets
    BY <1>1, <1>2, <1>8 DEF InOrder
  <2>2. g[d] = [v EXCEPT !.active = e.target]
    BY <1>1, <1>3, <1>6, <1>8 DEF StepInOrder, Did
  <2>3. /\ g[d] \in DeviceType /\ g[d].name = e.name /\ g[d].hash = h[d].hash
    BY <1>2, <1>3, <1>6, <2>2 DEF DeviceType, EntryType
  <2>4. g[d] # None
    BY <2>3 DEF StepInOrder, DeviceMapperAssumption
  <2>5. Validate(st, e) = Good(st)
    BY <1>2, <1>3, <1>8, <2>1 DEF Validate, ValidateTargetUpdate
  <2>6. QED
    BY <1>1, <1>4, <2>3, <2>4, <2>5
<1>9. CASE e.op = "dm_device_remove"
  <2>1. Rules[i].allow_removal
    BY <1>1, <1>2, <1>9 DEF InOrder
  <2>2. g[d] = None /\ e.hash = h[d].hash
    BY <1>1, <1>3, <1>9 DEF StepInOrder, Did
  <2>3. Validate(st, e) = Good([st EXCEPT ![e.name] = None])
    BY <1>2, <1>3, <1>9, <2>1, <2>2 DEF Validate, ValidateDeviceRemove
  <2>4. Present(g) = {}
    BY <1>3, <2>2 DEF Present
  <2>5. QED
    BY <1>1, <1>2, <1>9, <2>3, <2>4 DEF Exact, Good
<1>10. QED
  BY <1>1, <1>2, <1>7, <1>8, <1>9 DEF InOrder

LEMMA StepIsExact ==
  ASSUME NEW i, NEW n, NEW h, NEW g, NEW st, NEW d, StepInOrder(i, n, h, g, st, d)
  PROVE  ~Validate(st, log[n]).bad /\ Exact(i, g, Validate(st, log[n]).known, n)
<1>1. n = 1 \/ n = 2 \/ n > 2
  BY StepFacts
<1>2. QED
  BY <1>1, FirstInOrder, SecondInOrder, LaterInOrder

\* A run along a log in order is never bad.
LEMMA RunIsExact ==
  ASSUME DeviceMapperAssumption, MatchOn = "name", Typed, NEW i, OrderlyUnder(i),
         NEW hist, History(hist), NEW st \in States, NEW from \in 0..Len(log),
         Exact(i, hist[from], st, from)
  PROVE  \A m \in from..Len(log) :
           ~Run(st, from, m).bad /\ Exact(i, hist[m], Run(st, from, m).known, m)
<1> DEFINE S == {k \in Nat : from + k <= Len(log) =>
                   /\ ~Run(st, from, from + k).bad
                   /\ Exact(i, hist[from + k], Run(st, from, from + k).known, from + k)}
<1>0. Len(log) \in Nat /\ from \in Nat
  BY DEF Typed, TypeOK
<1>1. 0 \in S
  <2>1. Run(st, from, from) = Good(st)
    BY <1>0, RunFacts
  <2>2. ~Good(st).bad /\ Good(st).known = st /\ from + 0 = from
    BY <1>0 DEF Good
  <2>3. QED
    BY <2>1, <2>2
<1>2. ASSUME NEW k \in Nat, k \in S PROVE k + 1 \in S
  <2> SUFFICES ASSUME from + (k + 1) <= Len(log)
               PROVE  /\ ~Run(st, from, from + (k + 1)).bad
                      /\ Exact(i, hist[from + (k + 1)], Run(st, from, from + (k + 1)).known,
                               from + (k + 1))
    OBVIOUS
  <2>1. PICK n : n = from + (k + 1)
    OBVIOUS
  <2>2. n \in Nat /\ from < n /\ n <= Len(log) /\ n - 1 = from + k /\ n \in 1..Len(log)
    BY <1>0, <2>1
  <2>3. PICK before : before = Run(st, from, n - 1).known
    OBVIOUS
  <2>4. ~Run(st, from, n - 1).bad /\ Exact(i, hist[n - 1], before, n - 1)
    BY <1>0, <1>2, <2>2, <2>3
  <2>5. /\ before \in States
        /\ Run(st, from, n).known = Validate(before, log[n]).known
        /\ ~Run(st, from, n).bad
             <=> ~Validate(before, log[n]).bad /\ ~Run(st, from, n - 1).bad
    BY <1>0, <2>2, <2>3, RunStep DEF Verdicts
  <2>6. PICK d \in Devices : Did(d, hist[n - 1], log[n], hist[n])
    BY <2>2 DEF History
  <2>7. hist[n - 1] \in Kernels /\ hist[n] \in Kernels
    BY <1>0, <2>2 DEF History
  <2>8. StepInOrder(i, n, hist[n - 1], hist[n], before, d)
    BY <2>2, <2>4, <2>5, <2>6, <2>7 DEF StepInOrder
  <2>9. ~Validate(before, log[n]).bad /\ Exact(i, hist[n], Validate(before, log[n]).known, n)
    BY <2>8, StepIsExact
  <2>10. QED
    BY <2>1, <2>4, <2>5, <2>9
<1> HIDE DEF S
<1>3. Nat \subseteq S
  BY <1>1, <1>2, InductionOnSet
<1>4. ASSUME NEW m \in from..Len(log)
      PROVE  ~Run(st, from, m).bad /\ Exact(i, hist[m], Run(st, from, m).known, m)
  <2>1. m - from \in S /\ from + (m - from) = m /\ m <= Len(log)
    BY <1>0, <1>3
  <2>2. QED
    BY <2>1 DEF S
<1>5. QED
  BY <1>4

\* The state kept is the one of the devices, as long as the log is in order.
Orderly ==
  \E hist :
    /\ History(hist)
    /\ \A i : OrderlyUnder(i) => ~failed /\ Exact(i, hist[entry], Loaded, entry)

\* A log in order was in order before it grew.
LEMMA OrderlyBefore ==
  ASSUME Typed, NEW i, OrderlyUnder(i)', NEW e, log' = Append(log, e)
  PROVE  OrderlyUnder(i)
<1>1. Len(log) \in Nat /\ Len(log') = Len(log) + 1
  BY DEF Typed, TypeOK
<1>2. ASSUME NEW n \in 1..Len(log) PROVE InOrder(i, n)
  <2>1. log'[n] = log[n] /\ n \in 1..Len(log') /\ n # Len(log')
    BY <1>1 DEF Typed, TypeOK
  <2>2. InOrder(i, n)'
    BY <2>1 DEF OrderlyUnder
  <2>3. QED
    BY <2>1, <2>2 DEF InOrder, Key
<1>3. QED
  BY <1>2 DEF OrderlyUnder

LEMMA NextOrderly ==
  ASSUME DeviceMapperAssumption, MatchOn = "name", MaxRestarts = 0, Typed, Orderly, [Next]_vars
  PROVE  Orderly'
<1>1. PICK hist :
        /\ History(hist)
        /\ \A i : OrderlyUnder(i) => ~failed /\ Exact(i, hist[entry], Loaded, entry)
  BY DEF Orderly
<1>2. entry \in 0..Len(log) /\ Len(log) \in Nat /\ entry \in Nat
  BY DEF Typed, TypeOK
<1>3. CASE Kernel
  <2>1. PICK longer : History(longer)' /\ \A n \in 0..Len(log) : longer[n] = hist[n]
    BY <1>1, <1>3, KernelGrows
  <2>2. /\ UNCHANGED <<entry, dmState, failed, restarts>>
        /\ \E e : log' = Append(log, e)
    BY <1>3 DEF Kernel, Load, Resume, Remove, Clear, Rename, Update, Measure
  <2>3. Loaded' = Loaded
    BY <2>2 DEF Loaded, NoDevices
  <2>4. PICK e : log' = Append(log, e)
    BY <2>2
  <2>5. ASSUME NEW i, OrderlyUnder(i)'
        PROVE  ~failed' /\ Exact(i, longer[entry], Loaded, entry)'
    <3>1. OrderlyUnder(i)
      BY <2>4, <2>5, OrderlyBefore
    <3>2. ~failed /\ Exact(i, hist[entry], Loaded, entry)
      BY <1>1, <3>1
    <3>3. longer[entry'] = hist[entry] /\ (entry > 0 => log'[entry] = log[entry])
      BY <1>2, <2>1, <2>2, <2>4 DEF Typed, TypeOK
    <3>4. Exact(i, longer[entry], Loaded, entry)'
      BY <2>2, <2>3, <3>2, <3>3 DEF Exact, NoDevices
    <3>5. QED
      BY <2>2, <3>2, <3>4
  <2>6. QED
    BY <2>1, <2>5 DEF Orderly
<1>4. CASE Attest
  <2>1. PICK m \in entry..Len(log) :
          IF Run(Loaded, entry, Len(log)).bad
          THEN failed' = TRUE /\ entry' = 0 /\ dmState' = None
          ELSE /\ entry' = m
               /\ dmState' = IF m > entry THEN Run(Loaded, entry, m).known ELSE dmState
               /\ UNCHANGED failed
    BY <1>4 DEF Attest
  <2>2. UNCHANGED <<devs, log, restarts>> /\ Loaded \in States
    BY <1>4, LoadedTyped DEF Attest
  <2>3. History(hist)'
    BY <1>1, <2>2 DEF History
  <2>4. ASSUME NEW i, OrderlyUnder(i)'
        PROVE  ~failed' /\ Exact(i, hist[entry], Loaded, entry)'
    <3>1. OrderlyUnder(i)
      BY <2>2, <2>4 DEF OrderlyUnder, InOrder, Key
    <3>2. ~failed /\ Exact(i, hist[entry], Loaded, entry)
      BY <1>1, <3>1
    <3>3. \A n \in entry..Len(log) :
            ~Run(Loaded, entry, n).bad /\ Exact(i, hist[n], Run(Loaded, entry, n).known, n)
      BY <1>1, <1>2, <2>2, <3>1, <3>2, RunIsExact
    <3>4. /\ ~Run(Loaded, entry, Len(log)).bad
          /\ Exact(i, hist[m], Run(Loaded, entry, m).known, m)
      BY <1>2, <3>3
    <3>5. /\ entry' = m /\ UNCHANGED failed
          /\ dmState' = IF m > entry THEN Run(Loaded, entry, m).known ELSE dmState
      BY <2>1, <3>4
    <3>6. CASE m > entry
      <4>1. Run(Loaded, entry, m).known \in States
        BY <1>2, <2>2, RunTyped DEF Typed, Verdicts
      <4>2. Loaded' = Run(Loaded, entry, m).known
        BY <1>2, <3>5, <3>6, <4>1 DEF Loaded, DeviceMapperAssumption
      <4>3. Exact(i, hist[entry], Loaded, entry)'
        BY <2>2, <3>4, <3>5, <4>2 DEF Exact, NoDevices
      <4>4. QED
        BY <3>2, <3>5, <4>3
    <3>7. CASE m = entry
      <4>1. Loaded' = Loaded
        BY <3>5, <3>7 DEF Loaded, NoDevices
      <4>2. Exact(i, hist[entry], Loaded, entry)'
        BY <2>2, <3>2, <3>5, <3>7, <4>1 DEF Exact, NoDevices
      <4>3. QED
        BY <3>2, <3>5, <4>2
    <3>8. QED
      BY <1>2, <3>6, <3>7
  <2>5. QED
    BY <2>3, <2>4 DEF Orderly
<1>5. CASE Restart
  BY <1>5 DEF Restart, Typed, TypeOK
<1>6. CASE UNCHANGED vars
  <2>1. History(hist)'
    BY <1>1, <1>6 DEF vars, History
  <2>2. Loaded' = Loaded /\ UNCHANGED <<entry, failed, log>>
    BY <1>6 DEF vars, Loaded, NoDevices
  <2>3. ASSUME NEW i, OrderlyUnder(i)'
        PROVE  ~failed' /\ Exact(i, hist[entry], Loaded, entry)'
    <3>1. OrderlyUnder(i)
      BY <2>2, <2>3 DEF OrderlyUnder, InOrder, Key
    <3>2. QED
      BY <1>1, <2>2, <3>1 DEF Exact, NoDevices
  <2>4. QED
    BY <2>1, <2>3 DEF Orderly
<1>7. QED
  BY <1>3, <1>4, <1>5, <1>6 DEF Next

\* The log of one device that is loaded, resumed, renamed and changed as its rule allows,
\* and at last removed, is never refused, however the attestations cut it, for policies
\* on names and as long as the verifier keeps its state (validate_device_rename,
\* set_ima_dm_state).
THEOREM OrderlyLogsPass ==
  DeviceMapperAssumption /\ MatchOn = "name" /\ MaxRestarts = 0
    => (Spec => []OrderlyIsAccepted)
<1> SUFFICES ASSUME DeviceMapperAssumption, MatchOn = "name", MaxRestarts = 0
             PROVE  Spec => []OrderlyIsAccepted
  OBVIOUS
<1> DEFINE Kept == Typed /\ Orderly
<1>1. Init => Kept
  <2> SUFFICES ASSUME Init PROVE Kept
    OBVIOUS
  <2>1. Typed
    BY InitTyped
  <2>2. PICK hist : History(hist)
    BY InitSound DEF Inductive, Sound
  <2>3. entry = 0 /\ Loaded = NoDevices /\ ~failed /\ Present(hist[0]) = {}
    BY <2>2 DEF Init, Loaded, History, Present
  <2>4. QED
    BY <2>1, <2>2, <2>3 DEF Orderly, Exact
<1>2. Kept /\ [Next]_vars => Kept'
  BY NextTyped, NextOrderly
<1>3. Kept => OrderlyIsAccepted
  BY OrderlyEntries DEF Orderly, OrderlyIsAccepted
<1>4. QED
  BY <1>1, <1>2, <1>3, PTL DEF Spec
=============================================================================
