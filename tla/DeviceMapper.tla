---------------------------- MODULE DeviceMapper ----------------------------
(* The device mapper part of a runtime policy: the kernel measures what is done to
   its devices into the IMA log, and the verifier follows the devices along the
   log, one attestation after the other. *)
EXTENDS Naturals, Sequences

CONSTANTS
  Devices,      \* devices of the kernel
  Names, Uuids, \* disjoint; NoUuid is a member of Uuids
  NoUuid,
  Targets,      \* contents of a table; the kernel measures one target
  Rules,        \* the rules of the policy, in order
  MatchOn,      \* "name" or "uuid": what a rule and a device are found by
  MaxEvents,    \* bound: entries of the log
  MaxRestarts,  \* bound: restarts of the verifier
  None

VARIABLES
  devs,      \* devs[d]: the device in the kernel, or None
  log,       \* the entries of the log
  entry,     \* how many entries the verifier has accounted for
  dmState,   \* what AgentAttestState keeps of the validator: a state for each key
  failed,    \* an attestation failed or raised; polling has ended
  restarts

vars == <<devs, log, entry, dmState, failed, restarts>>
Keys == Names \cup Uuids
NoDevices == [k \in Keys |-> None]

\* A rule of the policy; the other attributes of a device and of its table are
\* compared like these.
RuleType ==
  [names : SUBSET Names, uuids : SUBSET Uuids, targets : SUBSET Targets,
   allow_multiple_loads : BOOLEAN, device_resume_required : BOOLEAN, allow_clear : BOOLEAN,
   allow_removal : BOOLEAN, valid_name : SUBSET Names, valid_uuid : SUBSET Uuids]

\* A device in the kernel, an entry of the log, and what the validator knows of a device.
Tables == Targets \cup {None}

DeviceType ==
  [name : Names, uuid : Uuids, active : Tables, hash : Tables, inactive : Tables]

Ops == {"dm_table_load", "dm_device_resume", "dm_device_remove", "dm_table_clear",
        "dm_device_rename", "dm_target_update"}

EntryType ==
  [op : Ops, name : Names, uuid : Uuids, target : Tables, hash : Tables,
   new_name : Names, new_uuid : Uuids]

KnownType ==
  [rule : DOMAIN Rules, active : BOOLEAN, valid_state : BOOLEAN, active_table_hash : Targets,
   allow_multiple_loads : BOOLEAN]

States == [Keys -> KnownType \cup {None}]

\* What the constants are.
DeviceMapperAssumption ==
  /\ Rules \in Seq(RuleType)
  /\ Names \cap Uuids = {} /\ NoUuid \in Uuids
  /\ MatchOn \in {"name", "uuid"}
  /\ MaxEvents \in Nat /\ MaxRestarts \in Nat
  /\ None \notin Targets \cup DeviceType \cup KnownType \cup States
-----------------------------------------------------------------------------
(* The validator: from a state of the devices and an event to the next state, and
   whether the event failed. *)
Key(m) == IF MatchOn = "name" THEN m.name ELSE m.uuid

Good(st) == [known |-> st, bad |-> FALSE]
Bad(st)  == [known |-> st, bad |-> TRUE]
Spoilt(st, k) == Bad([st EXCEPT ![k].valid_state = FALSE])

\* Fault: the device is forgotten under its new name.
Pop_Lost(st, k, new) == [st EXCEPT ![k] = None]

Pop(st, k, new) == [st EXCEPT ![k] = IF new = k THEN @ ELSE None, ![new] = st[k]]

Matching(k) == {i \in DOMAIN Rules : k \in Rules[i].names \cup Rules[i].uuids}
First(S) == CHOOSE i \in S : \A j \in S : i <= j

\* A device may get a name of which another rule is the first to match.  That rule
\* allows the tables the first one does, where it can take the device over: with a
\* second table, or after a restart.
RenamesKeepTargets ==
  \A i \in DOMAIN Rules :
    Rules[i].allow_multiple_loads \/ MaxRestarts > 0 =>
      \A n \in Rules[i].valid_name :
        Matching(n) # {} => Rules[i].targets \subseteq Rules[First(Matching(n))].targets

ValidateTableLoad(st, e) ==
  LET k == Key(e)
      i == First(Matching(k))
      r == Rules[i]
      loaded == [st EXCEPT ![k] =
        [rule |-> i, active |-> FALSE, valid_state |-> ~r.device_resume_required,
         active_table_hash |-> e.hash, allow_multiple_loads |-> r.allow_multiple_loads]]
  IN  IF \/ st[k] # None /\ ~st[k].allow_multiple_loads
         \/ Matching(k) = {}
         \/ e.name \notin r.names \/ e.uuid \notin r.uuids
      THEN Bad(st)
      ELSE [known |-> loaded, bad |-> e.target \notin r.targets]

ValidateDeviceResume(st, e) ==
  LET k == Key(e)
  IN  IF e.hash = None \/ st[k] = None THEN Bad(st)
      ELSE IF st[k].active \/ st[k].active_table_hash # e.hash THEN Spoilt(st, k)
      ELSE Good([st EXCEPT ![k].active = TRUE, ![k].valid_state = TRUE])

\* Without an active table the event has no metadata, and the validator raises.
ValidateDeviceRemove(st, e) ==
  LET k == Key(e)
  IN  IF e.hash = None \/ st[k] = None THEN Bad(st)
      ELSE IF ~Rules[st[k].rule].allow_removal THEN Spoilt(st, k)
      ELSE Good([st EXCEPT ![k] = None])

ValidateTableClear(st, e) ==
  LET k == Key(e)
  IN  IF st[k] = None THEN Bad(st)
      ELSE IF ~Rules[st[k].rule].allow_clear THEN Spoilt(st, k)
      ELSE Good(st)

ValidateTargetUpdate(st, e) ==
  LET k == Key(e)
  IN  IF st[k] = None \/ e.target \notin Rules[st[k].rule].targets THEN Bad(st) ELSE Good(st)

\* The device moves to its new name, and with a policy on uuids to its new name too.
ValidateDeviceRename(st, e) ==
  LET k == Key(e)
      r == Rules[st[k].rule]
      allowed == /\ e.new_name # e.name => e.new_name \in r.valid_name
                 /\ e.new_uuid # e.uuid => e.new_uuid \in r.valid_uuid
      moves   == IF MatchOn = "name" THEN e.new_name # e.name ELSE e.new_uuid # e.uuid
  IN  IF st[k] = None THEN Bad(st)
      ELSE IF ~allowed THEN Spoilt(st, k)
      ELSE Good(IF moves THEN Pop(st, k, e.new_name) ELSE st)

Validate(st, e) ==
  CASE e.op = "dm_table_load"    -> ValidateTableLoad(st, e)
    [] e.op = "dm_device_resume" -> ValidateDeviceResume(st, e)
    [] e.op = "dm_device_remove" -> ValidateDeviceRemove(st, e)
    [] e.op = "dm_table_clear"   -> ValidateTableClear(st, e)
    [] e.op = "dm_device_rename" -> ValidateDeviceRename(st, e)
    [] e.op = "dm_target_update" -> ValidateTargetUpdate(st, e)

\* Fault: only the last entry counts.
Run_LastOnly(st, from, m) ==
  LET after[n \in from..m] ==
        IF n = from THEN Good(st) ELSE Validate(after[n - 1].known, log[n])
  IN  after[m]

\* The validator after every entry up to m; bad once one was.
Run(st, from, m) ==
  LET after[n \in from..m] ==
        IF n = from THEN Good(st)
        ELSE LET v == Validate(after[n - 1].known, log[n])
             IN  [v EXCEPT !.bad = @ \/ after[n - 1].bad]
  IN  after[m]
-----------------------------------------------------------------------------
Init ==
  /\ devs = [d \in Devices |-> None]
  /\ log = <<>>
  /\ entry = 0
  /\ dmState = None
  /\ failed = FALSE
  /\ restarts = 0

\* The kernel, with dm-ima: what it does to a device and the entry it appends.
Event(d, op) ==
  [op |-> op, name |-> devs[d].name, uuid |-> devs[d].uuid, target |-> None, hash |-> None,
   new_name |-> devs[d].name, new_uuid |-> devs[d].uuid]

Measure(d, now, e) ==
  /\ ~failed
  /\ Len(log) < MaxEvents
  /\ devs' = [devs EXCEPT ![d] = now]
  /\ log' = Append(log, e)
  /\ UNCHANGED <<entry, dmState, failed, restarts>>

Live == {d \in Devices : devs[d] # None}

Free(attr, x) == \A d \in Live : devs[d][attr] # x

\* A table goes to the inactive slot, of a new device or of one that is there.
Load(d) ==
  \/ /\ devs[d] = None
     /\ \E n \in Names, u \in Uuids, t \in Targets :
          /\ Free("name", n) /\ (u # NoUuid => Free("uuid", u))
          /\ Measure(d, [name |-> n, uuid |-> u, active |-> None, hash |-> None, inactive |-> t],
                     [op |-> "dm_table_load", name |-> n, uuid |-> u, target |-> t, hash |-> t,
                      new_name |-> n, new_uuid |-> u])
  \/ /\ devs[d] # None
     /\ \E t \in Targets :
          Measure(d, [devs[d] EXCEPT !.inactive = t],
                  [Event(d, "dm_table_load") EXCEPT !.target = t, !.hash = t])

Resume(d) ==
  LET now == IF devs[d].inactive = None THEN devs[d]
             ELSE [devs[d] EXCEPT !.active = devs[d].inactive, !.hash = devs[d].inactive,
                                  !.inactive = None]
  IN  Measure(d, now, [Event(d, "dm_device_resume") EXCEPT !.hash = now.hash])

Remove(d) == Measure(d, None, [Event(d, "dm_device_remove") EXCEPT !.hash = devs[d].hash])

Clear(d) == Measure(d, [devs[d] EXCEPT !.inactive = None], Event(d, "dm_table_clear"))

\* The kernel gives a device a new name, or a uuid when it has none.
Rename(d) ==
  \/ \E n \in Names :
       /\ Free("name", n)
       /\ Measure(d, [devs[d] EXCEPT !.name = n], [Event(d, "dm_device_rename") EXCEPT !.new_name = n])
  \/ \E u \in Uuids :
       /\ devs[d].uuid = NoUuid /\ Free("uuid", u)
       /\ Measure(d, [devs[d] EXCEPT !.uuid = u], [Event(d, "dm_device_rename") EXCEPT !.new_uuid = u])

\* A target changes by itself: a verity device finds its data changed.
Update(d) ==
  /\ devs[d].active # None
  /\ \E t \in Targets \ {devs[d].active} :
       Measure(d, [devs[d] EXCEPT !.active = t], [Event(d, "dm_target_update") EXCEPT !.target = t])

Kernel ==
  \/ \E d \in Devices : Load(d)
  \/ \E d \in Live : Resume(d) \/ Remove(d) \/ Clear(d) \/ Rename(d) \/ Update(d)

\* The state is kept only for an attestation that goes on where one ended.
Loaded == IF entry = 0 \/ dmState = None THEN NoDevices ELSE dmState

\* The log is sent from entry on; the quote may lag, and the state is kept for the
\* entry the quote accounts for, though all of them are validated.
Attest ==
  /\ ~failed
  /\ \E m \in entry..Len(log) :
       IF Run(Loaded, entry, Len(log)).bad
       THEN failed' = TRUE /\ entry' = 0 /\ dmState' = None
       ELSE /\ entry' = m
            /\ dmState' = IF m > entry THEN Run(Loaded, entry, m).known ELSE dmState
            /\ UNCHANGED failed
  /\ UNCHANGED <<devs, log, restarts>>

\* The database has the position in the log and not the state of the devices.
Restart ==
  /\ restarts < MaxRestarts /\ ~failed
  /\ restarts' = restarts + 1
  /\ dmState' = None
  /\ UNCHANGED <<devs, log, entry, failed>>

Next == Kernel \/ Attest \/ Restart

Spec == Init /\ [][Next]_vars
-----------------------------------------------------------------------------
\* The type invariant.
TypeOK ==
  /\ devs \in [Devices -> DeviceType \cup {None}]
  /\ log \in Seq(EntryType) /\ Len(log) <= MaxEvents
  /\ entry \in 0..Len(log)
  /\ dmState \in States \cup {None}
  /\ failed \in BOOLEAN
  /\ restarts \in 0..MaxRestarts

\* No device runs a table the policy does not allow once its log has been accepted:
\* the rule it was loaded under is the rule it is known by, through every rename,
\* second load, update and removal, over attestations that lag behind the log
\* (validate_table_load, validate_device_resume, validate_device_rename). After a
\* restart of the verifier this is left of it for the devices loaded since. It holds
\* of policies on names, of which RenamesKeepTargets is true.
AcceptedRunsAllowed ==
  ~failed /\ entry = Len(log) /\ dmState # None =>
    \A d \in Live :
      devs[d].active # None =>
        LET s == dmState[Key(devs[d])]
        IN  /\ s = None => restarts > 0
            /\ s # None => devs[d].active \in Rules[s.rule].targets

\* One device, loaded with what its only rule allows, resumed, then renamed, given a
\* uuid, changed or at last removed as the rule allows.
OneDeviceOrderly ==
  \E i \in DOMAIN Rules :
    LET r == Rules[i]
    IN  /\ Len(log) >= 1 => log[1].op = "dm_table_load" /\ Matching(Key(log[1])) = {i}
                            /\ log[1].name \in r.names /\ log[1].uuid \in r.uuids
                            /\ log[1].target \in r.targets
        /\ Len(log) >= 2 => log[2].op = "dm_device_resume"
        /\ \A n \in 3..Len(log) :
             \/ log[n].op = "dm_device_rename"
                /\ log[n].new_name \in r.valid_name /\ log[n].new_uuid \in r.valid_uuid
             \/ log[n].op = "dm_target_update" /\ log[n].target \in r.targets
             \/ log[n].op = "dm_device_remove" /\ r.allow_removal /\ n = Len(log)

\* An orderly log is accepted, however the attestations cut it and however often the
\* device is renamed (validate_device_rename, set_ima_dm_state).
OrderlyIsAccepted == OneDeviceOrderly => ~failed
=============================================================================
