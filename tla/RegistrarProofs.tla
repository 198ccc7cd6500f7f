-------------------------- MODULE RegistrarProofs ---------------------------
(* Theorems about the registrar with one worker process, for any agents, keys,
   requests and number of challenges: a record is active only if its AK is in the
   TPM of its EK, its certificates are for the keys beside them, and the registrar
   implements Registration.  With one worker a request under way carries the record as
   it is in the database; with two this fails.  At the end, what the web framework
   runs for a request over plain HTTP. *)
EXTENDS Registrar, Sequences, WellFoundedInduction, TLAPS

\* The values of requests and columns are told apart.
RegistrarAssumption ==
  /\ \A r \in Requests : \A f \in DOMAIN r.fields :
       /\ f = "ek_tpm"  => r.fields[f] \in EKs \cup {None, Malformed}
       /\ f = "aik_tpm" => r.fields[f] \in AKs \cup {None, Malformed}
  /\ None \notin EKs \cup AKs \cup BOOLEAN \cup Nat
  /\ Malformed \notin BOOLEAN \cup Nat
  /\ \A row : DOMAIN row = Fields => row # None
  /\ None \notin [ek : EKs, ak : AKs, active : BOOLEAN]
  /\ MaxChallenges \in Nat

OneWorker == \A v, w \in Workers : v = w

\* A record in memory.
IsRecord(rec) == DOMAIN rec = {"committed", "changes", "errors"}

\* The record names both keys, and is active only if it was with these keys.
KeysSound(rec) ==
  /\ Value(rec, "ek_tpm") \in EKs /\ Value(rec, "aik_tpm") \in AKs
  /\ \/ Value(rec, "active") = FALSE
     \/ \A f \in {"ek_tpm", "aik_tpm", "active"} : Value(rec, f) = rec.committed[f]

\* The request worker w is at carries the row as it is now.
CreateSound(w) ==
  task[w].op = "create" =>
    /\ IsRecord(task[w].rec) /\ KeysSound(task[w].rec)
    /\ task[w].new = (db[task[w].id] = None)
    /\ task[w].rec.committed = Loaded(task[w].id)

ActivateSound(w) ==
  task[w].op = "activate" =>
    /\ db[task[w].id] # None
    /\ task[w].rec.committed = db[task[w].id]
    /\ task[w].rec.changes = [f \in {"active"} |-> TRUE]
    /\ Home[db[task[w].id]["ek_tpm"]] = Home[db[task[w].id]["aik_tpm"]]

TasksSound ==
  /\ task = [w \in Workers |-> task[w]]
  /\ \A w \in Workers : task[w] # Idle => task[w].id \in Agents
  /\ \A w \in Workers : CreateSound(w) /\ ActivateSound(w)

RowSound(row) ==
  /\ DOMAIN row = Fields
  /\ row["ek_tpm"] \in EKs /\ row["aik_tpm"] \in AKs
  /\ row["active"] \in BOOLEAN /\ row["key"] \in 1..made

RowsSound ==
  /\ db = [a \in Agents |-> db[a]]
  /\ \A a \in Agents : db[a] # None => RowSound(db[a])
  /\ made \in 0..MaxChallenges

\* A challenge whose key is on record is for the keys on record.
ChallengesSound ==
  \A c \in challenges :
    /\ c.id \in Agents /\ c.no \in 1..made /\ c.ek \in EKs /\ c.ak \in AKs
    /\ db[c.id] # None /\ db[c.id]["key"] = c.no
         => c.ek = db[c.id]["ek_tpm"] /\ c.ak = db[c.id]["aik_tpm"]

Inductive == TasksSound /\ RowsSound /\ ChallengesSound /\ ActiveIsBound
-----------------------------------------------------------------------------
(* Records *)

\* A change is the new value of its field and leaves the others.
LEMMA ChangeValue ==
  ASSUME NEW rec, IsRecord(rec), NEW f, NEW v
  PROVE  /\ IsRecord(Change(rec, f, v))
         /\ Change(rec, f, v).committed = rec.committed
         /\ v # Malformed => Value(Change(rec, f, v), f) = v
         /\ \A g : g # f => Value(Change(rec, f, v), g) = Value(rec, g)
<1>1. CASE v # Malformed
  <2>1. /\ IsRecord(Change(rec, f, v)) /\ Change(rec, f, v).committed = rec.committed
        /\ Change(rec, f, v).changes =
             [g \in DOMAIN rec.changes \cup {f} |-> IF g = f THEN v ELSE rec.changes[g]]
    BY <1>1 DEF Change, IsRecord
  <2>2. QED
    BY <2>1 DEF Value
<1>2. CASE v = Malformed
  <2>1. /\ IsRecord(Change(rec, f, v)) /\ Change(rec, f, v).committed = rec.committed
        /\ Change(rec, f, v).changes = rec.changes
    BY <1>2 DEF Change, IsRecord
  <2>2. QED
    BY <1>2, <2>1 DEF Value
<1>3. QED
  BY <1>1, <1>2

\* A record with a new key is not active.
LEMMA FlagsValue ==
  ASSUME RegistrarAssumption, NEW rec, IsRecord(rec)
  PROVE  LET new == Changed(rec, "ek_tpm") \/ Changed(rec, "aik_tpm")
             flags == PrepareStatusFlags(rec)
         IN  /\ IsRecord(flags) /\ flags.committed = rec.committed
             /\ \A f \in {"ek_tpm", "aik_tpm"} : Value(flags, f) = Value(rec, f)
             /\ new => Value(flags, "active") = FALSE
             /\ ~new => Value(flags, "active") = Value(rec, "active")
<1>1. CASE Changed(rec, "ek_tpm") \/ Changed(rec, "aik_tpm")
  <2>1. PICK no : no = FALSE
    OBVIOUS
  <2>2. no # Malformed /\ PrepareStatusFlags(rec) = Change(rec, "active", no)
    BY <1>1, <2>1 DEF PrepareStatusFlags, RegistrarAssumption
  <2>3. PICK d : d = Change(rec, "active", no)
    OBVIOUS
  <2>4. /\ IsRecord(d) /\ d.committed = rec.committed /\ Value(d, "active") = no
        /\ Value(d, "ek_tpm") = Value(rec, "ek_tpm") /\ Value(d, "aik_tpm") = Value(rec, "aik_tpm")
    BY <2>2, <2>3, ChangeValue
  <2>5. QED
    BY <1>1, <2>1, <2>2, <2>3, <2>4
<1>2. CASE ~(Changed(rec, "ek_tpm") \/ Changed(rec, "aik_tpm"))
  BY <1>2 DEF PrepareStatusFlags
<1>3. QED
  BY <1>1, <1>2

\* The count of registrations says nothing about the identity.
LEMMA RegcountValue ==
  ASSUME NEW rec, IsRecord(rec)
  PROVE  /\ IsRecord(PrepareRegcount(rec)) /\ PrepareRegcount(rec).committed = rec.committed
         /\ \A f \in {"ek_tpm", "aik_tpm", "active"} :
              Value(PrepareRegcount(rec), f) = Value(rec, f)
<1> DEFINE count == IF Value(rec, "regcount") = None THEN 0 ELSE Value(rec, "regcount")
<1>1. PrepareRegcount(rec) \in
        {rec, Change(rec, "regcount", count + 1), Change(rec, "regcount", 0)}
  BY DEF PrepareRegcount
<1>2. ASSUME NEW n
      PROVE  /\ IsRecord(Change(rec, "regcount", n))
             /\ Change(rec, "regcount", n).committed = rec.committed
             /\ \A f \in {"ek_tpm", "aik_tpm", "active"} :
                  Value(Change(rec, "regcount", n), f) = Value(rec, f)
  BY ChangeValue
<1>3. QED
  BY <1>1, <1>2

\* What is cast from a request: what was loaded, with the keys that are given.
LEMMA CastValue ==
  ASSUME RegistrarAssumption, NEW row, NEW req \in Requests, NEW d, IsRecord(d),
         d.committed = row, d.changes = CastChanges(row, req.fields).changes
  PROVE  /\ Changed(d, "ek_tpm") => Value(d, "ek_tpm") \in EKs \cup {None}
         /\ Changed(d, "aik_tpm") => Value(d, "aik_tpm") \in AKs \cup {None}
         /\ \A f : ~Changed(d, f) => Value(d, f) = row[f]
         /\ ~Changed(d, "active")
<1>1. d.changes = [f \in {g \in DOMAIN req.fields : req.fields[g] # Malformed} |-> req.fields[f]]
  BY DEF CastChanges
<1>2. DOMAIN req.fields \subseteq Permitted
  BY RequestsAssumption
<1>3. /\ Changed(d, "ek_tpm") => Value(d, "ek_tpm") \in EKs \cup {None}
      /\ Changed(d, "aik_tpm") => Value(d, "aik_tpm") \in AKs \cup {None}
  BY <1>1 DEF Changed, Value, RegistrarAssumption
<1>4. ~Changed(d, "active")
  BY <1>1, <1>2 DEF Changed, Permitted, KeyFields, CertFields
<1>5. \A f : ~Changed(d, f) => Value(d, f) = row[f]
  BY <1>1 DEF Changed, Value
<1>6. QED
  BY <1>1, <1>3, <1>4, <1>5

\* What update leaves of a row, in the fields that matter for the identity.
LEMMA UpdateValue ==
  ASSUME RegistrarAssumption, NEW row, NEW req \in Requests,
         Value(Update(row, req), "ek_tpm") # None, Value(Update(row, req), "aik_tpm") # None,
         row = Empty \/ (row["ek_tpm"] \in EKs /\ row["aik_tpm"] \in AKs)
  PROVE  /\ IsRecord(Update(row, req)) /\ Update(row, req).committed = row
         /\ KeysSound(Update(row, req))
<1> DEFINE cast == CastChanges(row, req.fields)
<1>1. PICK read, errors : /\ errors = cast.errors \cup Checks(cast, req)
                          /\ read = [cast EXCEPT !.errors = errors]
  OBVIOUS
<1>2. PICK flags : flags = PrepareStatusFlags(read)
  OBVIOUS
<1>3. PICK rec : rec = PrepareRegcount(flags)
  OBVIOUS
<1>4. rec = Update(row, req)
  BY <1>1, <1>2, <1>3 DEF Update
<1>5. /\ IsRecord(read) /\ read.committed = row
      /\ Changed(read, "ek_tpm") => Value(read, "ek_tpm") \in EKs \cup {None}
      /\ Changed(read, "aik_tpm") => Value(read, "aik_tpm") \in AKs \cup {None}
      /\ \A f : ~Changed(read, f) => Value(read, f) = row[f]
      /\ ~Changed(read, "active")
  <2>1. /\ IsRecord(cast) /\ cast.committed = row
        /\ read = [cast EXCEPT !.errors = errors]
    BY <1>1 DEF CastChanges, IsRecord
  <2>2. IsRecord(read) /\ read.committed = row /\ read.changes = cast.changes
    BY <2>1 DEF IsRecord
  <2>3. QED
    BY <2>2, CastValue
<1>6. /\ IsRecord(flags) /\ flags.committed = row
      /\ \A f \in {"ek_tpm", "aik_tpm"} : Value(flags, f) = Value(read, f)
      /\ Changed(read, "ek_tpm") \/ Changed(read, "aik_tpm") => Value(flags, "active") = FALSE
      /\ ~(Changed(read, "ek_tpm") \/ Changed(read, "aik_tpm"))
           => Value(flags, "active") = Value(read, "active")
  BY <1>2, <1>5, FlagsValue
<1>7. /\ IsRecord(rec) /\ rec.committed = row
      /\ \A f \in {"ek_tpm", "aik_tpm", "active"} : Value(rec, f) = Value(flags, f)
  BY <1>3, <1>6, RegcountValue
<1>8. Value(rec, "ek_tpm") # None /\ Value(rec, "aik_tpm") # None
  BY <1>4
<1>9. \A f \in {"ek_tpm", "aik_tpm"} : row = Empty => row[f] = None
  BY DEF Empty, Fields, Permitted, KeyFields
<1>10. Value(rec, "ek_tpm") \in EKs /\ Value(rec, "aik_tpm") \in AKs
  BY <1>5, <1>6, <1>7, <1>8, <1>9
<1>11. \/ Value(rec, "active") = FALSE
       \/ \A f \in {"ek_tpm", "aik_tpm", "active"} : Value(rec, f) = rec.committed[f]
  BY <1>5, <1>6, <1>7
<1>12. QED
  BY <1>4, <1>7, <1>10, <1>11 DEF KeysSound
-----------------------------------------------------------------------------
(* The actions *)

\* A worker that becomes idle, or reads a row, leaves nobody else with work.
LEMMA OnlyTask ==
  ASSUME OneWorker, NEW w \in Workers, TasksSound, NEW t, task' = [task EXCEPT ![w] = t],
         t # Idle => t.id \in Agents,
         t = Idle \/ (CreateSound(w)' /\ ActivateSound(w)')
  PROVE  TasksSound'
<1>1. task'[w] = t /\ \A v \in Workers : v = w
  BY DEF TasksSound, OneWorker
<1>2. (task = [v \in Workers |-> task[v]])'
  BY DEF TasksSound
<1>3. CreateSound(w)' /\ ActivateSound(w)'
  BY <1>1 DEF CreateSound, ActivateSound, Idle
<1>4. QED
  BY <1>1, <1>2, <1>3 DEF TasksSound

LEMMA CreateKeeps ==
  ASSUME RegistrarAssumption, OneWorker, Inductive, NEW w \in Workers,
         NEW a \in Agents, NEW req \in Requests, Create(w, a, req)
  PROVE  Inductive'
<1>1. PICK rec : rec = Update(Loaded(a), req)
  OBVIOUS
<1>2. PICK t : t = [op |-> "create", id |-> a, new |-> db[a] = None, rec |-> rec]
  OBVIOUS
<1>3. /\ task' = [task EXCEPT ![w] = t] /\ UNCHANGED <<db, challenges, made>>
      /\ Value(rec, "ek_tpm") # None /\ Value(rec, "aik_tpm") # None
  BY <1>1, <1>2 DEF Create
<1>4. PICK row : row = Loaded(a)
  OBVIOUS
<1>5. row = Empty \/ (row["ek_tpm"] \in EKs /\ row["aik_tpm"] \in AKs)
  BY <1>4 DEF Loaded, Inductive, RowsSound, RowSound
<1>6. IsRecord(rec) /\ rec.committed = row /\ KeysSound(rec)
  BY <1>1, <1>3, <1>4, <1>5, UpdateValue
<1>7. task'[w] = t
  BY <1>3 DEF Inductive, TasksSound
<1>8. CreateSound(w)' /\ ActivateSound(w)'
  BY <1>2, <1>3, <1>4, <1>6, <1>7 DEF CreateSound, ActivateSound, Loaded
<1>9. TasksSound'
  BY <1>2, <1>3, <1>8, OnlyTask DEF Inductive
<1>10. QED
  BY <1>3, <1>9 DEF Inductive, RowsSound, RowSound, ChallengesSound, ActiveIsBound

\* What a create writes: the record, with a new key, whole.
LEMMA CreateWrites ==
  ASSUME RegistrarAssumption, Inductive, NEW w \in Workers, NEW sent \in BOOLEAN,
         CreateWrite(w, sent)
  PROVE  \E row :
           LET a == task[w].id
           IN  /\ a \in Agents /\ DOMAIN row = Fields
               /\ db' = [db EXCEPT ![a] = row]
               /\ row["key"] = made + 1
               /\ \A f \in Fields \ {"key"} : row[f] = Value(task[w].rec, f)
               /\ challenges' \in {challenges,
                    challenges \cup {[id |-> a, no |-> made + 1, ek |-> row["ek_tpm"],
                                     ak |-> row["aik_tpm"]]}}
<1>1. PICK rec : rec = Change(task[w].rec, "key", made + 1)
  OBVIOUS
<1>2. PICK a \in Agents : a = task[w].id
  BY DEF CreateWrite, Inductive, TasksSound, Idle
<1>3. /\ IsRecord(task[w].rec) /\ task[w].new = (db[a] = None)
      /\ task[w].rec.committed = Loaded(a)
  BY <1>2 DEF CreateWrite, Inductive, TasksSound, CreateSound
<1>4. made + 1 # Malformed
  BY DEF Inductive, RowsSound, RegistrarAssumption
<1>5. /\ IsRecord(rec) /\ rec.committed = Loaded(a) /\ Value(rec, "key") = made + 1
      /\ \A f \in Fields \ {"key"} : Value(rec, f) = Value(task[w].rec, f)
  BY <1>1, <1>3, <1>4, ChangeValue
<1>6. PICK row : row = [f \in Fields |->
                         IF task[w].new THEN Value(rec, f)
                         ELSE IF f \in Written(rec) THEN rec.changes[f] ELSE db[a][f]]
  OBVIOUS
<1>7. db' = [db EXCEPT ![a] = row]
  BY <1>1, <1>2, <1>3, <1>6 DEF CreateWrite, Store
<1>8. {"ek_tpm", "aik_tpm", "active", "key"} \subseteq Fields
  BY DEF Fields, Permitted, KeyFields
<1>9. \A f \in Fields : row[f] = Value(rec, f)
  <2>1. CASE task[w].new
    BY <1>6, <2>1
  <2>2. CASE ~task[w].new
    BY <1>3, <1>5, <1>6, <2>2 DEF Written, Value, Loaded
  <2>3. QED
    BY <2>1, <2>2
<1>10. challenges' \in {challenges,
         challenges \cup {[id |-> a, no |-> made + 1, ek |-> Value(rec, "ek_tpm"),
                          ak |-> Value(rec, "aik_tpm")]}}
  BY <1>1, <1>2 DEF CreateWrite
<1>11. QED
  BY <1>2, <1>5, <1>6, <1>7, <1>8, <1>9, <1>10

\* An active row that a create writes was active with the same keys.
LEMMA WrittenSound ==
  ASSUME RegistrarAssumption, Inductive, NEW w \in Workers, NEW sent \in BOOLEAN,
         CreateWrite(w, sent), NEW a, a = task[w].id,
         NEW row, \A f \in {"ek_tpm", "aik_tpm", "active"} : row[f] = Value(task[w].rec, f)
  PROVE  /\ row["ek_tpm"] \in EKs /\ row["aik_tpm"] \in AKs /\ row["active"] \in BOOLEAN
         /\ row["active"] => /\ db[a] # None
                            /\ \A f \in {"ek_tpm", "aik_tpm", "active"} : row[f] = db[a][f]
<1>1. /\ KeysSound(task[w].rec) /\ task[w].rec.committed = Loaded(a)
      /\ db[a] # None => db[a]["active"] \in BOOLEAN
  BY DEF CreateWrite, Inductive, TasksSound, CreateSound, RowsSound, RowSound, Idle
<1>2. "ek_tpm" \in Fields
  BY DEF Fields, Permitted, KeyFields
<1>3. CASE row["active"] = FALSE
  BY <1>1, <1>3 DEF KeysSound
<1>4. CASE row["active"] # FALSE
  <2>1. \A f \in {"ek_tpm", "aik_tpm", "active"} : row[f] = Loaded(a)[f]
    BY <1>1, <1>4 DEF KeysSound
  <2>2. db[a] # None
    BY <1>1, <1>2, <2>1 DEF KeysSound, Loaded, Empty, RegistrarAssumption
  <2>3. QED
    BY <1>1, <2>1, <2>2 DEF Loaded, KeysSound
<1>5. QED
  BY <1>3, <1>4

LEMMA CreateWriteKeeps ==
  ASSUME RegistrarAssumption, OneWorker, Inductive, NEW w \in Workers, NEW sent \in BOOLEAN,
         CreateWrite(w, sent)
  PROVE  Inductive'
<1>1. PICK a \in Agents : a = task[w].id
  BY DEF CreateWrite, Inductive, TasksSound, Idle
<1>2. PICK row :
        /\ DOMAIN row = Fields
        /\ db' = [db EXCEPT ![a] = row]
        /\ row["key"] = made + 1
        /\ \A f \in {"ek_tpm", "aik_tpm", "active"} : row[f] = Value(task[w].rec, f)
        /\ challenges' \in {challenges,
             challenges \cup {[id |-> a, no |-> made + 1, ek |-> row["ek_tpm"],
                              ak |-> row["aik_tpm"]]}}
  BY <1>1, CreateWrites DEF Fields, Permitted, KeyFields
<1>3. /\ row["ek_tpm"] \in EKs /\ row["aik_tpm"] \in AKs /\ row["active"] \in BOOLEAN
      /\ row["active"] => /\ db[a] # None
                         /\ \A f \in {"ek_tpm", "aik_tpm", "active"} : row[f] = db[a][f]
  BY <1>1, <1>2, WrittenSound
<1>4. made' = made + 1 /\ made' \in 1..MaxChallenges /\ made \in Nat
  BY DEF CreateWrite, Inductive, RowsSound, RegistrarAssumption
<1>5. db'[a] = row /\ \A b \in Agents \ {a} : db'[b] = db[b]
  BY <1>2 DEF Inductive, RowsSound
<1>6. RowsSound'
  <2>1. (db = [b \in Agents |-> db[b]])'
    BY <1>2 DEF Inductive, RowsSound
  <2>2. \A b \in Agents : db'[b] # None => RowSound(db[b])'
    BY <1>2, <1>3, <1>4, <1>5 DEF Inductive, RowsSound, RowSound
  <2>3. QED
    BY <1>4, <2>1, <2>2 DEF RowsSound
<1>7. ChallengesSound'
  <2>1. SUFFICES ASSUME NEW c \in challenges'
                 PROVE  /\ c.id \in Agents /\ c.no \in 1..made' /\ c.ek \in EKs /\ c.ak \in AKs
                        /\ db'[c.id] # None /\ db'[c.id]["key"] = c.no
                             => c.ek = db'[c.id]["ek_tpm"] /\ c.ak = db'[c.id]["aik_tpm"]
    BY DEF ChallengesSound
  <2>2. CASE c \in challenges
    BY <1>2, <1>4, <1>5, <2>2 DEF Inductive, ChallengesSound
  <2>3. CASE c = [id |-> a, no |-> made + 1, ek |-> row["ek_tpm"], ak |-> row["aik_tpm"]]
    BY <1>2, <1>3, <1>4, <1>5, <2>3
  <2>4. QED
    BY <1>2, <2>1, <2>2, <2>3
<1>8. ActiveIsBound'
  BY <1>3, <1>5 DEF Inductive, ActiveIsBound
<1>9. TasksSound'
  BY OnlyTask DEF CreateWrite, Inductive
<1>10. QED
  BY <1>6, <1>7, <1>8, <1>9 DEF Inductive

\* A right answer to the challenge whose key is on record shows that the keys on
\* record are in one TPM.
LEMMA ActivateKeeps ==
  ASSUME RegistrarAssumption, OneWorker, Inductive, NEW w \in Workers, NEW a \in Agents,
         NEW tag \in Answers, Activate(w, a, tag)
  PROVE  Inductive'
<1>1. PICK rec : rec = Change([committed |-> db[a], changes |-> <<>>, errors |-> {}], "active", TRUE)
  OBVIOUS
<1>2. PICK t : t = [op |-> IF tag = [id |-> a, no |-> db[a]["key"]] THEN "activate" ELSE "delete",
                    id |-> a, rec |-> rec]
  OBVIOUS
<1>3. /\ task' = [task EXCEPT ![w] = t] /\ db[a] # None /\ UNCHANGED <<db, challenges, made>>
  BY <1>1, <1>2 DEF Activate
<1>4. rec.committed = db[a] /\ rec.changes = [f \in {"active"} |-> TRUE]
  <2>1. PICK yes : yes = TRUE
    OBVIOUS
  <2>2. PICK old, none : /\ none = <<>> /\ DOMAIN none = {}
                         /\ old = [committed |-> db[a], changes |-> none, errors |-> {}]
    <3>1. PICK none : none = <<>>
      OBVIOUS
    <3>2. DOMAIN none = {}
      BY <3>1
    <3>3. QED
      BY <3>1, <3>2
  <2>3. yes # Malformed /\ IsRecord(old) /\ old.changes = none /\ old.committed = db[a]
    BY <2>1, <2>2 DEF RegistrarAssumption, IsRecord
  <2>4. rec = Change(old, "active", yes)
    BY <1>1, <2>1, <2>2
  <2>5. /\ rec.committed = old.committed
        /\ rec.changes = [g \in DOMAIN none \cup {"active"} |->
                            IF g = "active" THEN yes ELSE none[g]]
    BY <2>3, <2>4 DEF Change, IsRecord
  <2>6. QED
    BY <2>1, <2>2, <2>3, <2>5
<1>5. ASSUME t.op = "activate"
      PROVE  Home[db[a]["ek_tpm"]] = Home[db[a]["aik_tpm"]]
  <2>1. tag.id = a /\ tag.no = db[a]["key"] /\ tag.no # 0
    BY <1>2, <1>3, <1>5 DEF Inductive, RowsSound, RowSound
  <2>2. PICK c \in challenges : Answerable(c) /\ tag = [id |-> c.id, no |-> c.no]
    BY <2>1 DEF Answers
  <2>3. QED
    BY <1>3, <2>1, <2>2 DEF Answerable, Inductive, ChallengesSound
<1>6. task'[w] = t
  BY <1>3 DEF Inductive, TasksSound
<1>7. CreateSound(w)' /\ ActivateSound(w)'
  BY <1>2, <1>3, <1>4, <1>5, <1>6 DEF CreateSound, ActivateSound
<1>8. TasksSound'
  BY <1>2, <1>3, <1>7, OnlyTask DEF Inductive
<1>9. QED
  BY <1>3, <1>8 DEF Inductive, RowsSound, RowSound, ChallengesSound, ActiveIsBound

\* What an activation writes: active, and nothing else.
LEMMA ActivateWrites ==
  ASSUME RegistrarAssumption, Inductive, NEW w \in Workers, ActivateWrite(w)
  PROVE  \E a \in Agents : \E row :
           /\ a = task[w].id /\ db[a] # None /\ Home[db[a]["ek_tpm"]] = Home[db[a]["aik_tpm"]]
           /\ db' \in {db, [db EXCEPT ![a] = row]}
           /\ row = [f \in Fields |-> IF f = "active" THEN TRUE ELSE db[a][f]]
<1>1. PICK a \in Agents : a = task[w].id
  BY DEF ActivateWrite, Inductive, TasksSound, Idle
<1>2. /\ db[a] # None /\ task[w].rec.committed = db[a]
      /\ task[w].rec.changes = [f \in {"active"} |-> TRUE]
      /\ Home[db[a]["ek_tpm"]] = Home[db[a]["aik_tpm"]]
  BY <1>1 DEF ActivateWrite, Inductive, TasksSound, ActivateSound
<1>3. CASE Written(task[w].rec) = {}
  BY <1>1, <1>2, <1>3 DEF ActivateWrite
<1>4. CASE Written(task[w].rec) # {}
  <2>1. Written(task[w].rec) = {"active"}
    BY <1>2, <1>4 DEF Written
  <2>2. db' = [db EXCEPT ![a] = [f \in Fields |->
                IF f \in Written(task[w].rec) THEN task[w].rec.changes[f] ELSE db[a][f]]]
    BY <1>1, <1>2, <1>4 DEF ActivateWrite, Store
  <2>3. [f \in Fields |->
           IF f \in Written(task[w].rec) THEN task[w].rec.changes[f] ELSE db[a][f]]
        = [f \in Fields |-> IF f = "active" THEN TRUE ELSE db[a][f]]
    BY <1>2, <2>1
  <2>4. QED
    BY <1>1, <1>2, <2>2, <2>3
<1>5. QED
  BY <1>3, <1>4

LEMMA ActivateWriteKeeps ==
  ASSUME RegistrarAssumption, OneWorker, Inductive, NEW w \in Workers, ActivateWrite(w)
  PROVE  Inductive'
<1>1. PICK a \in Agents : \E row :
        /\ db[a] # None /\ Home[db[a]["ek_tpm"]] = Home[db[a]["aik_tpm"]]
        /\ db' \in {db, [db EXCEPT ![a] = row]}
        /\ row = [f \in Fields |-> IF f = "active" THEN TRUE ELSE db[a][f]]
  BY ActivateWrites
<1>2. PICK row :
        /\ db[a] # None /\ Home[db[a]["ek_tpm"]] = Home[db[a]["aik_tpm"]]
        /\ db' \in {db, [db EXCEPT ![a] = row]}
        /\ row = [f \in Fields |-> IF f = "active" THEN TRUE ELSE db[a][f]]
  BY <1>1
<1>3. UNCHANGED <<challenges, made>> /\ task' = [task EXCEPT ![w] = Idle]
  BY DEF ActivateWrite
<1>4. TasksSound'
  BY <1>3, OnlyTask DEF Inductive
<1>5. CASE db' = db
  BY <1>3, <1>4, <1>5 DEF Inductive, RowsSound, RowSound, ChallengesSound, ActiveIsBound
<1>6. CASE db' = [db EXCEPT ![a] = row]
  <2>1. db'[a] = row /\ \A b \in Agents \ {a} : db'[b] = db[b]
    BY <1>6 DEF Inductive, RowsSound
  <2>2. /\ DOMAIN row = Fields /\ row["active"] = TRUE
        /\ row["ek_tpm"] = db[a]["ek_tpm"] /\ row["aik_tpm"] = db[a]["aik_tpm"]
        /\ row["key"] = db[a]["key"]
    BY <1>2 DEF Fields, Permitted, KeyFields
  <2>3. (db = [b \in Agents |-> db[b]])'
    BY <1>6 DEF Inductive, RowsSound
  <2>4. \A b \in Agents : db'[b] # None => RowSound(db[b])'
    BY <1>2, <1>3, <2>1, <2>2 DEF Inductive, RowsSound, RowSound
  <2>5. RowsSound'
    BY <1>3, <2>3, <2>4 DEF Inductive, RowsSound
  <2>6. ChallengesSound'
    <3>1. SUFFICES ASSUME NEW c \in challenges
                   PROVE  /\ c.id \in Agents /\ c.no \in 1..made /\ c.ek \in EKs /\ c.ak \in AKs
                          /\ db'[c.id] # None /\ db'[c.id]["key"] = c.no
                               => c.ek = db'[c.id]["ek_tpm"] /\ c.ak = db'[c.id]["aik_tpm"]
      BY <1>3 DEF ChallengesSound
    <3>2. /\ c.id \in Agents /\ c.no \in 1..made /\ c.ek \in EKs /\ c.ak \in AKs
          /\ db[c.id] # None /\ db[c.id]["key"] = c.no
               => c.ek = db[c.id]["ek_tpm"] /\ c.ak = db[c.id]["aik_tpm"]
      BY DEF Inductive, ChallengesSound
    <3>3. CASE c.id = a
      BY <1>2, <2>1, <2>2, <3>2, <3>3
    <3>4. CASE c.id # a
      BY <2>1, <3>2, <3>4
    <3>5. QED
      BY <3>3, <3>4
  <2>7. ActiveIsBound'
    <3>1. \A b \in Agents \ {a} :
            db'[b] # None /\ db'[b]["active"] => Home[db'[b]["ek_tpm"]] = Home[db'[b]["aik_tpm"]]
      BY <2>1 DEF Inductive, ActiveIsBound
    <3>2. Home[db'[a]["ek_tpm"]] = Home[db'[a]["aik_tpm"]]
      BY <1>2, <2>1, <2>2
    <3>3. QED
      BY <3>1, <3>2 DEF ActiveIsBound
  <2>8. QED
    BY <1>4, <2>5, <2>6, <2>7 DEF Inductive
<1>7. QED
  BY <1>2, <1>5, <1>6

\* A delete, the wrong answer's too, and a crash.
LEMMA EndKeeps ==
  ASSUME RegistrarAssumption, OneWorker, Inductive, NEW w \in Workers,
         \/ \E a \in Agents : Delete(w, a)
         \/ DeleteWrite(w)
         \/ Crash(w)
  PROVE  Inductive'
<1>1. CASE \E a \in Agents : Delete(w, a)
  <2>1. PICK a \in Agents : Delete(w, a)
    BY <1>1
  <2>2. PICK t : t = [op |-> "delete", id |-> a,
                      rec |-> [committed |-> db[a], changes |-> <<>>, errors |-> {}]]
    OBVIOUS
  <2>3. task' = [task EXCEPT ![w] = t] /\ UNCHANGED <<db, challenges, made>>
    BY <2>1, <2>2 DEF Delete
  <2>4. CreateSound(w)' /\ ActivateSound(w)'
    BY <2>2, <2>3 DEF CreateSound, ActivateSound, Inductive, TasksSound
  <2>5. TasksSound'
    BY <2>2, <2>3, <2>4, OnlyTask DEF Inductive
  <2>6. QED
    BY <2>3, <2>5 DEF Inductive, RowsSound, RowSound, ChallengesSound, ActiveIsBound
<1>2. CASE DeleteWrite(w)
  <2>1. /\ db' = [db EXCEPT ![task[w].id] = None] /\ UNCHANGED <<challenges, made>>
        /\ task' = [task EXCEPT ![w] = Idle]
    BY <1>2 DEF DeleteWrite
  <2>2. \A a \in Agents : db'[a] \in {db[a], None}
    BY <2>1 DEF Inductive, RowsSound
  <2>3. (db = [b \in Agents |-> db[b]])'
    BY <2>1 DEF Inductive, RowsSound
  <2>4. RowsSound'
    BY <2>1, <2>2, <2>3 DEF Inductive, RowsSound, RowSound
  <2>5. ChallengesSound' /\ ActiveIsBound'
    BY <2>1, <2>2 DEF Inductive, ChallengesSound, ActiveIsBound
  <2>6. QED
    BY <2>1, <2>4, <2>5, OnlyTask DEF Inductive
<1>3. CASE Crash(w)
  <2>1. task' = [task EXCEPT ![w] = Idle] /\ UNCHANGED <<db, challenges, made>>
    BY <1>3 DEF Crash
  <2>2. TasksSound'
    BY <2>1, OnlyTask DEF Inductive
  <2>3. QED
    BY <2>1, <2>2 DEF Inductive, RowsSound, RowSound, ChallengesSound, ActiveIsBound
<1>4. QED
  BY <1>1, <1>2, <1>3
-----------------------------------------------------------------------------
(* The theorems *)

\* With one worker, what the registrar and its requests hold is sound in every
\* reachable state: the strengthening that makes ActiveIsBound inductive
\* (update, create, activate, delete of registrar_agent.py and agents_controller.py).
THEOREM RecordsAreSound ==
  RegistrarAssumption /\ OneWorker => (Spec => []Inductive)
<1> SUFFICES ASSUME RegistrarAssumption, OneWorker
             PROVE  Spec => []Inductive
  OBVIOUS
<1>1. Init => Inductive
  BY DEF Init, Inductive, TasksSound, CreateSound, ActivateSound, RowsSound, ChallengesSound,
         ActiveIsBound, Idle, RegistrarAssumption
<1>2. Inductive /\ [Next]_vars => Inductive'
  <2> SUFFICES ASSUME Inductive, [Next]_vars
               PROVE  Inductive'
    OBVIOUS
  <2>1. CASE Next
    BY <2>1, CreateKeeps, CreateWriteKeeps, ActivateKeeps, ActivateWriteKeeps, EndKeeps DEF Next
  <2>2. CASE UNCHANGED vars
    BY <2>2 DEF vars, Inductive, TasksSound, CreateSound, ActivateSound, RowsSound, RowSound,
                ChallengesSound, ActiveIsBound, Loaded
  <2>3. QED
    BY <2>1, <2>2
<1>3. QED
  BY <1>1, <1>2, PTL DEF Spec

\* Rows have all columns, requests an agent, and challenges keys and a number.
THEOREM RegistrarTypeCorrect ==
  RegistrarAssumption /\ OneWorker => (Spec => []TypeOK)
<1> SUFFICES ASSUME RegistrarAssumption, OneWorker
             PROVE  Spec => []TypeOK
  OBVIOUS
<1>1. Inductive => TypeOK
  BY DEF Inductive, TasksSound, RowsSound, RowSound, ChallengesSound, TypeOK
<1>2. QED
  BY <1>1, RecordsAreSound, PTL

\* With one worker, an active record has its AK in the TPM of its EK, whatever
\* registrations, late answers, removals and lost replies came before
\* (registrar_agent.py:48, the comment of column active).
THEOREM BoundIfActive ==
  RegistrarAssumption /\ OneWorker => (Spec => []ActiveIsBound)
<1> SUFFICES ASSUME RegistrarAssumption, OneWorker
             PROVE  Spec => []ActiveIsBound
  OBVIOUS
<1>1. Inductive => ActiveIsBound
  BY DEF Inductive
<1>2. QED
  BY <1>1, RecordsAreSound, PTL
-----------------------------------------------------------------------------
(* The registrar implements Registration *)

Identity(row) == [ek |-> row["ek_tpm"], ak |-> row["aik_tpm"], active |-> row["active"]]

\* A step on the row of one agent is a step on its identity.
LEMMA OneIdentity ==
  ASSUME NEW a \in Agents, NEW row, db = [b \in Agents |-> db[b]],
         db' = [db EXCEPT ![a] = row]
  PROVE  OnRecord' = [OnRecord EXCEPT ![a] = IF row = None THEN None ELSE Identity(row)]
<1>1. db'[a] = row /\ \A b \in Agents \ {a} : db'[b] = db[b]
  OBVIOUS
<1>2. QED
  BY <1>1 DEF OnRecord, Identity

LEMMA CreateWriteRegisters ==
  ASSUME RegistrarAssumption, OneWorker, Inductive, NEW w \in Workers, NEW sent \in BOOLEAN,
         CreateWrite(w, sent)
  PROVE  R!Next \/ UNCHANGED OnRecord
<1>1. PICK a \in Agents : a = task[w].id
  BY DEF CreateWrite, Inductive, TasksSound, Idle
<1>2. PICK row :
        /\ DOMAIN row = Fields
        /\ db' = [db EXCEPT ![a] = row]
        /\ \A f \in {"ek_tpm", "aik_tpm", "active"} : row[f] = Value(task[w].rec, f)
  BY <1>1, CreateWrites DEF Fields, Permitted, KeyFields
<1>3. /\ row["ek_tpm"] \in EKs /\ row["aik_tpm"] \in AKs /\ row["active"] \in BOOLEAN
      /\ row["active"] => /\ db[a] # None
                         /\ \A f \in {"ek_tpm", "aik_tpm", "active"} : row[f] = db[a][f]
  BY <1>1, <1>2, WrittenSound
<1>4. OnRecord' = [OnRecord EXCEPT ![a] = Identity(row)]
  BY <1>2, OneIdentity DEF Inductive, RowsSound, RegistrarAssumption
<1>5. CASE row["active"]
  <2>1. OnRecord[a] = Identity(row)
    BY <1>3, <1>5 DEF OnRecord, Identity
  <2>2. QED
    BY <1>4, <2>1 DEF OnRecord
<1>6. CASE ~row["active"]
  <2>1. Identity(row) = [ek |-> row["ek_tpm"], ak |-> row["aik_tpm"], active |-> FALSE]
    BY <1>3, <1>6 DEF Identity
  <2>2. R!Register(a, row["ek_tpm"], row["aik_tpm"])
    BY <1>4, <2>1 DEF R!Register
  <2>3. QED
    BY <1>3, <2>2 DEF R!Next
<1>7. QED
  BY <1>5, <1>6

LEMMA ActivateWriteActivates ==
  ASSUME RegistrarAssumption, OneWorker, Inductive, NEW w \in Workers, ActivateWrite(w)
  PROVE  R!Next \/ UNCHANGED OnRecord
<1>1. PICK a \in Agents : \E row :
        /\ db[a] # None /\ Home[db[a]["ek_tpm"]] = Home[db[a]["aik_tpm"]]
        /\ db' \in {db, [db EXCEPT ![a] = row]}
        /\ row = [f \in Fields |-> IF f = "active" THEN TRUE ELSE db[a][f]]
  BY ActivateWrites
<1>2. PICK row :
        /\ db[a] # None /\ Home[db[a]["ek_tpm"]] = Home[db[a]["aik_tpm"]]
        /\ db' \in {db, [db EXCEPT ![a] = row]}
        /\ row = [f \in Fields |-> IF f = "active" THEN TRUE ELSE db[a][f]]
  BY <1>1
<1>3. CASE db' = db
  BY <1>3 DEF OnRecord
<1>4. CASE db' = [db EXCEPT ![a] = row]
  <2>1. OnRecord' = [OnRecord EXCEPT ![a] = Identity(row)]
    <3>1. row # None
      BY <1>2 DEF RegistrarAssumption
    <3>2. QED
      BY <1>4, <3>1, OneIdentity DEF Inductive, RowsSound
  <2>2. OnRecord[a] = Identity(db[a])
    BY <1>2 DEF OnRecord, Identity
  <2>3. Identity(db[a]) # None
    BY <1>2 DEF Identity, Inductive, RowsSound, RowSound, RegistrarAssumption
  <2>4. Identity(row) = [Identity(db[a]) EXCEPT !.active = TRUE]
    <3>1. PICK yes : yes = TRUE
      OBVIOUS
    <3>2. /\ row["active"] = yes /\ row["ek_tpm"] = db[a]["ek_tpm"]
          /\ row["aik_tpm"] = db[a]["aik_tpm"]
      BY <1>2, <3>1 DEF Fields, Permitted, KeyFields
    <3>3. Identity(row) = [Identity(db[a]) EXCEPT !.active = yes]
      BY <3>2 DEF Identity
    <3>4. QED
      BY <3>1, <3>3
  <2>5. Home[Identity(db[a]).ek] = Home[Identity(db[a]).ak]
    BY <1>2 DEF Identity
  <2>6. R!Activate(a)
    BY <2>1, <2>2, <2>3, <2>4, <2>5 DEF R!Activate
  <2>7. QED
    BY <2>6 DEF R!Next
<1>5. QED
  BY <1>2, <1>3, <1>4

\* With one worker the registrar keeps the promise of Registration: keys become
\* active only by the answer to the challenge made for them (create, activate).
THEOREM RegistrationImplemented ==
  RegistrarAssumption /\ OneWorker => (Spec => ImplementsRegistration)
<1> SUFFICES ASSUME RegistrarAssumption, OneWorker
             PROVE  Spec => ImplementsRegistration
  OBVIOUS
<1>1. Init => R!Init
  BY DEF Init, R!Init, OnRecord
<1>2. Inductive /\ [Next]_vars => [R!Next]_OnRecord
  <2> SUFFICES ASSUME Inductive, [Next]_vars
               PROVE  R!Next \/ UNCHANGED OnRecord
    OBVIOUS
  <2>1. ASSUME NEW w \in Workers, NEW sent \in BOOLEAN, CreateWrite(w, sent)
        PROVE  R!Next \/ UNCHANGED OnRecord
    BY <2>1, CreateWriteRegisters
  <2>2. ASSUME NEW w \in Workers, ActivateWrite(w)
        PROVE  R!Next \/ UNCHANGED OnRecord
    BY <2>2, ActivateWriteActivates
  <2>3. ASSUME NEW w \in Workers, DeleteWrite(w)
        PROVE  R!Next
    <3>1. PICK a \in Agents : a = task[w].id
      BY <2>3 DEF DeleteWrite, Inductive, TasksSound, Idle
    <3>2. db' = [db EXCEPT ![a] = None]
      BY <2>3, <3>1 DEF DeleteWrite
    <3>3. OnRecord' = [OnRecord EXCEPT ![a] = None]
      BY <3>2, OneIdentity DEF Inductive, RowsSound
    <3>4. QED
      BY <3>3 DEF R!Next, R!Remove
  <2>4. UNCHANGED db => UNCHANGED OnRecord
    BY DEF OnRecord
  <2>5. QED
    BY <2>1, <2>2, <2>3, <2>4 DEF Next, Create, Activate, Delete, Crash, vars
<1>3. QED
  BY <1>1, <1>2, RecordsAreSound, PTL DEF Spec, ImplementsRegistration, R!Spec
-----------------------------------------------------------------------------
(* Certificates.  A request may give the key and keep the certificate of an earlier
   one, or the other way round: the record that a request under way carries is the
   row as it is now with the changes laid over it, and the checks compare the
   values, not the changes. *)

TrustedCerts == {"iak_cert", "idevid_cert"}

\* Certificates are for the keys beside them and, where it is asked, trusted;
\* val[f] is the value of column f.
CertsSound(val) ==
  /\ \A p \in Pairs : val[p[1]] # None /\ val[p[2]] # None => val[p[2]].key = val[p[1]]
  /\ \A c \in TrustedCerts : val[c] # None => val[c].trusted

\* The columns of a record in memory.
Values(rec) == [f \in Fields |-> Value(rec, f)]

\* A record that is about to be written passes for a row.
RequestsCertified ==
  \A w \in Workers : task[w].op = "create" => CertsSound(Values(task[w].rec))

Certified == Inductive /\ CertsMatchKeys /\ RequestsCertified
-----------------------------------------------------------------------------
(* Records *)

\* The columns that certificates are checked in.
LEMMA CertColumns ==
  /\ TrustedCerts \subseteq Fields \ {"key", "active", "regcount"}
  /\ \A p \in Pairs : /\ p[1] \in Fields \ {"key", "active", "regcount"}
                      /\ p[2] \in Fields \ {"key", "active", "regcount"}
BY DEF TrustedCerts, Pairs, Fields, Permitted, KeyFields, CertFields

\* Columns with the same keys and certificates are as sound.
LEMMA SameCerts ==
  ASSUME NEW v, NEW u, CertsSound(v), \A f \in Fields \ {"key", "active", "regcount"} : u[f] = v[f]
  PROVE  CertsSound(u)
BY CertColumns DEF CertsSound

\* A change clears no error but that of its field.
LEMMA ChangeErrors ==
  ASSUME NEW rec, IsRecord(rec), NEW f, NEW v
  PROVE  rec.errors \subseteq Change(rec, f, v).errors \cup {f}
<1>1. Change(rec, f, v).errors =
        (rec.errors \ {f}) \cup {g \in {f} : v = Malformed \/ (v = None /\ f \notin Nullable)}
  BY DEF Change, IsRecord
<1>2. QED
  BY <1>1

\* The flags and the count leave keys and certificates, and their errors.
LEMMA PreparedKeeps ==
  ASSUME NEW rec, IsRecord(rec), NEW d, d = PrepareRegcount(PrepareStatusFlags(rec))
  PROVE  /\ \A f \in Fields \ {"active", "regcount"} : Value(d, f) = Value(rec, f)
         /\ rec.errors \subseteq d.errors \cup {"active", "regcount"}
<1>1. PICK flags : flags = PrepareStatusFlags(rec)
  OBVIOUS
<1>2. PICK no : no = FALSE
  OBVIOUS
<1>3. flags \in {rec, Change(rec, "active", no)}
  BY <1>1, <1>2 DEF PrepareStatusFlags
<1>4. /\ IsRecord(flags) /\ rec.errors \subseteq flags.errors \cup {"active"}
      /\ \A f \in Fields \ {"active"} : Value(flags, f) = Value(rec, f)
  BY <1>3, ChangeValue, ChangeErrors
<1>5. PICK count : count = IF Value(flags, "regcount") = None THEN 0 ELSE Value(flags, "regcount")
  OBVIOUS
<1>6. d \in {flags, Change(flags, "regcount", count + 1), Change(flags, "regcount", 0)}
  BY <1>1, <1>5 DEF PrepareRegcount
<1>7. ASSUME NEW n
      PROVE  /\ flags.errors \subseteq Change(flags, "regcount", n).errors \cup {"regcount"}
             /\ \A f \in Fields \ {"regcount"} :
                  Value(Change(flags, "regcount", n), f) = Value(flags, f)
  BY <1>4, ChangeValue, ChangeErrors
<1>8. /\ flags.errors \subseteq d.errors \cup {"regcount"}
      /\ \A f \in Fields \ {"regcount"} : Value(d, f) = Value(flags, f)
  BY <1>6, <1>7
<1>9. QED
  BY <1>4, <1>8

\* No error in a key: its certificate was compared, or neither has changed.
LEMMA KeyChecked ==
  ASSUME NEW rec, NEW k, NEW c, CheckKeyAgainstCert(rec, k, c) = {},
         Value(rec, k) # None, Value(rec, c) # None
  PROVE  \/ Value(rec, c).key = Value(rec, k)
         \/ /\ Value(rec, k) = rec.committed[k]
            /\ Value(rec, c) = rec.committed[c]
BY DEF CheckKeyAgainstCert, Changed, Value

\* No error in a certificate: it is trusted, or it has not changed.
LEMMA TrustChecked ==
  ASSUME NEW rec, NEW c, CheckCertTrust(rec, c) = {}, Value(rec, c) # None
  PROVE  \/ Value(rec, c).trusted
         \/ Value(rec, c) = rec.committed[c]
<1>1. CASE Changed(rec, c)
  <2>1. Supplied(rec, c) /\ Value(rec, c) = rec.changes[c]
    BY <1>1 DEF Supplied, Changed, Value
  <2>2. ~Supplied(rec, c) \/ rec.changes[c].trusted
    BY DEF CheckCertTrust
  <2>3. QED
    BY <2>1, <2>2
<1>2. CASE ~Changed(rec, c)
  BY <1>2 DEF Changed, Value
<1>3. QED
  BY <1>1, <1>2
-----------------------------------------------------------------------------
(* A request that update finds no error in leaves sound columns. *)
LEMMA UpdateCertified ==
  ASSUME NEW row, NEW req \in Requests, NEW rec, rec = Update(row, req), rec.errors = {},
         row = Empty \/ CertsSound(row)
  PROVE  CertsSound(Values(rec))
<1>1. PICK cast : cast = CastChanges(row, req.fields)
  OBVIOUS
<1>2. PICK errors, read : /\ errors = cast.errors \cup Checks(cast, req)
                          /\ read = [cast EXCEPT !.errors = errors]
  OBVIOUS
<1>3. IsRecord(cast) /\ cast.committed = row
  BY <1>1 DEF CastChanges, IsRecord
<1>4. /\ IsRecord(read) /\ read.errors = errors
      /\ read.committed = row /\ read.changes = cast.changes
  BY <1>2, <1>3 DEF IsRecord
<1>5. rec = PrepareRegcount(PrepareStatusFlags(read))
  BY <1>1, <1>2 DEF Update
<1>6. /\ \A f \in Fields \ {"active", "regcount"} : Value(rec, f) = Value(read, f)
      /\ read.errors \subseteq {"active", "regcount"}
  BY <1>4, <1>5, PreparedKeeps
<1>7. \A f : Value(read, f) = Value(cast, f)
  BY <1>3, <1>4 DEF Value
<1>8. Checks(cast, req) \subseteq {"active", "regcount"}
  BY <1>2, <1>4, <1>6
<1>9. \A p \in Pairs : CheckKeyAgainstCert(cast, p[1], p[2]) = {}
  <2>1. \A p \in Pairs : CheckKeyAgainstCert(cast, p[1], p[2]) \subseteq Checks(cast, req)
    BY DEF Checks, Pairs
  <2>2. \A p \in Pairs : CheckKeyAgainstCert(cast, p[1], p[2]) \subseteq {p[1]}
    BY DEF CheckKeyAgainstCert
  <2>3. QED
    BY <1>8, <2>1, <2>2, CertColumns
<1>10. \A c \in TrustedCerts : CheckCertTrust(cast, c) = {}
  <2>1. \A c \in TrustedCerts : CheckCertTrust(cast, c) \subseteq Checks(cast, req)
    BY DEF Checks, TrustedCerts
  <2>2. \A c \in TrustedCerts : CheckCertTrust(cast, c) \subseteq {c}
    BY DEF CheckCertTrust
  <2>3. QED
    BY <1>8, <2>1, <2>2, CertColumns
<1>11. \A f \in Fields : Empty[f] = None
  BY DEF Empty
<1>12. ASSUME NEW p \in Pairs, Value(cast, p[1]) # None, Value(cast, p[2]) # None
       PROVE  Value(cast, p[2]).key = Value(cast, p[1])
  <2>1. \/ Value(cast, p[2]).key = Value(cast, p[1])
        \/ Value(cast, p[1]) = row[p[1]] /\ Value(cast, p[2]) = row[p[2]]
    BY <1>3, <1>9, <1>12, KeyChecked
  <2>2. QED
    BY <1>11, <1>12, <2>1, CertColumns DEF CertsSound
<1>13. ASSUME NEW c \in TrustedCerts, Value(cast, c) # None
       PROVE  Value(cast, c).trusted
  <2>1. Value(cast, c).trusted \/ Value(cast, c) = row[c]
    BY <1>3, <1>10, <1>13, TrustChecked
  <2>2. QED
    BY <1>11, <1>13, <2>1, CertColumns DEF CertsSound
<1>14. CertsSound(Values(cast))
  BY <1>12, <1>13, CertColumns DEF CertsSound, Values
<1>15. \A f \in Fields \ {"key", "active", "regcount"} : Values(rec)[f] = Values(cast)[f]
  BY <1>6, <1>7 DEF Values
<1>16. QED
  BY <1>14, <1>15, SameCerts
-----------------------------------------------------------------------------
(* The actions *)

\* What is required of a row is what is required of its columns.
LEMMA RowsCertified ==
  CertsMatchKeys <=> \A a \in Agents : db[a] # None => CertsSound(db[a])
BY DEF CertsMatchKeys, CertsSound, TrustedCerts

\* One row is written, and the worker is done.
LEMMA RowWritten ==
  ASSUME OneWorker, Inductive, CertsMatchKeys, NEW w \in Workers, NEW a \in Agents, NEW row,
         task' = [task EXCEPT ![w] = Idle],
         db' = db \/ db' = [db EXCEPT ![a] = row],
         row = None \/ CertsSound(row)
  PROVE  CertsMatchKeys' /\ RequestsCertified'
<1>1. \A b \in Agents : db'[b] = db[b] \/ db'[b] = row
  BY DEF Inductive, RowsSound
<1>2. \A b \in Agents : db'[b] # None => CertsSound(db'[b])
  BY <1>1, RowsCertified
<1>3. CertsMatchKeys'
  BY <1>2 DEF CertsMatchKeys, CertsSound, TrustedCerts
<1>4. \A v \in Workers : task'[v] = Idle
  BY DEF Inductive, TasksSound, OneWorker
<1>5. QED
  BY <1>3, <1>4 DEF RequestsCertified, Idle

LEMMA CreateCertifies ==
  ASSUME OneWorker, Inductive, CertsMatchKeys, NEW w \in Workers,
         NEW a \in Agents, NEW req \in Requests, Create(w, a, req)
  PROVE  CertsMatchKeys' /\ RequestsCertified'
<1>1. PICK rec : rec = Update(Loaded(a), req)
  OBVIOUS
<1>2. PICK t : t = [op |-> "create", id |-> a, new |-> db[a] = None, rec |-> rec]
  OBVIOUS
<1>3. task' = [task EXCEPT ![w] = t] /\ UNCHANGED db /\ rec.errors = {}
  BY <1>1, <1>2 DEF Create
<1>4. PICK row : row = Loaded(a)
  OBVIOUS
<1>5. row = Empty \/ CertsSound(row)
  BY <1>4, RowsCertified DEF Loaded
<1>6. CertsSound(Values(rec))
  BY <1>1, <1>3, <1>4, <1>5, UpdateCertified
<1>7. \A v \in Workers : task'[v] = t /\ t.rec = rec
  BY <1>2, <1>3 DEF Inductive, TasksSound, OneWorker
<1>8. RequestsCertified'
  BY <1>6, <1>7 DEF RequestsCertified
<1>9. QED
  BY <1>3, <1>8 DEF CertsMatchKeys

LEMMA CreateWriteCertifies ==
  ASSUME RegistrarAssumption, OneWorker, Certified, NEW w \in Workers, NEW sent \in BOOLEAN,
         CreateWrite(w, sent)
  PROVE  CertsMatchKeys' /\ RequestsCertified'
<1>1. PICK a \in Agents : a = task[w].id
  BY DEF CreateWrite, Certified, Inductive, TasksSound, Idle
<1>2. PICK row : /\ db' = [db EXCEPT ![a] = row]
                 /\ \A f \in Fields \ {"key"} : row[f] = Value(task[w].rec, f)
  BY <1>1, CreateWrites DEF Certified
<1>3. PICK v : v = Values(task[w].rec)
  OBVIOUS
<1>4. CertsSound(v)
  BY <1>3 DEF Certified, RequestsCertified, CreateWrite
<1>5. \A f \in Fields \ {"key", "active", "regcount"} : row[f] = v[f]
  BY <1>2, <1>3 DEF Values
<1>6. CertsSound(row)
  BY <1>4, <1>5, SameCerts
<1>7. task' = [task EXCEPT ![w] = Idle]
  BY DEF CreateWrite
<1>8. QED
  BY <1>2, <1>6, <1>7, RowWritten DEF Certified

LEMMA ActivateWriteCertifies ==
  ASSUME RegistrarAssumption, OneWorker, Certified, NEW w \in Workers, ActivateWrite(w)
  PROVE  CertsMatchKeys' /\ RequestsCertified'
<1>1. PICK a \in Agents : \E row :
        /\ db[a] # None
        /\ db' \in {db, [db EXCEPT ![a] = row]}
        /\ row = [f \in Fields |-> IF f = "active" THEN TRUE ELSE db[a][f]]
  BY ActivateWrites DEF Certified
<1>2. PICK row :
        /\ db[a] # None
        /\ db' \in {db, [db EXCEPT ![a] = row]}
        /\ row = [f \in Fields |-> IF f = "active" THEN TRUE ELSE db[a][f]]
  BY <1>1
<1>3. PICK old : old = db[a] /\ CertsSound(old)
  BY <1>2, RowsCertified DEF Certified
<1>4. \A f \in Fields \ {"key", "active", "regcount"} : row[f] = old[f]
  BY <1>2, <1>3
<1>5. CertsSound(row)
  BY <1>3, <1>4, SameCerts
<1>6. task' = [task EXCEPT ![w] = Idle]
  BY DEF ActivateWrite
<1>7. QED
  BY <1>2, <1>5, <1>6, RowWritten DEF Certified

\* The answers, the deletes and a crash check and write no certificate.
LEMMA OthersCertify ==
  ASSUME OneWorker, Certified, NEW w \in Workers,
         \/ \E a \in Agents, tag \in Answers : Activate(w, a, tag)
         \/ \E a \in Agents : Delete(w, a)
         \/ DeleteWrite(w)
         \/ Crash(w)
  PROVE  CertsMatchKeys' /\ RequestsCertified'
<1>1. CASE DeleteWrite(w)
  <2>1. /\ db' = [db EXCEPT ![task[w].id] = None] /\ task' = [task EXCEPT ![w] = Idle]
        /\ task[w].id \in Agents
    BY <1>1 DEF DeleteWrite, Certified, Inductive, TasksSound, Idle
  <2>2. QED
    BY <2>1, RowWritten DEF Certified
<1>2. ASSUME NEW t, task' = [task EXCEPT ![w] = t], t.op # "create", UNCHANGED db
      PROVE  CertsMatchKeys' /\ RequestsCertified'
  <2>1. \A v \in Workers : task'[v] = t
    BY <1>2 DEF Certified, Inductive, TasksSound, OneWorker
  <2>2. QED
    BY <1>2, <2>1 DEF RequestsCertified, CertsMatchKeys, Certified
<1>3. CASE \E a \in Agents, tag \in Answers : Activate(w, a, tag)
  <2>1. PICK a \in Agents, tag \in Answers : Activate(w, a, tag)
    BY <1>3
  <2>2. PICK t : t = [op |-> IF tag = [id |-> a, no |-> db[a]["key"]] THEN "activate" ELSE "delete",
                      id |-> a,
                      rec |-> Change([committed |-> db[a], changes |-> <<>>, errors |-> {}],
                                     "active", TRUE)]
    OBVIOUS
  <2>3. task' = [task EXCEPT ![w] = t] /\ UNCHANGED db
    BY <2>1, <2>2 DEF Activate
  <2>4. t.op # "create"
    BY <2>2
  <2>5. QED
    BY <1>2, <2>3, <2>4
<1>4. CASE \E a \in Agents : Delete(w, a)
  <2>1. PICK a \in Agents : Delete(w, a)
    BY <1>4
  <2>2. PICK t : t = [op |-> "delete", id |-> a,
                      rec |-> [committed |-> db[a], changes |-> <<>>, errors |-> {}]]
    OBVIOUS
  <2>3. task' = [task EXCEPT ![w] = t] /\ UNCHANGED db /\ t.op # "create"
    BY <2>1, <2>2 DEF Delete
  <2>4. QED
    BY <1>2, <2>3
<1>5. CASE Crash(w)
  <2>1. PICK t : t = Idle
    OBVIOUS
  <2>2. task' = [task EXCEPT ![w] = t] /\ UNCHANGED db /\ t.op # "create"
    BY <1>5, <2>1 DEF Crash, Idle
  <2>3. QED
    BY <1>2, <2>2
<1>6. QED
  BY <1>1, <1>3, <1>4, <1>5
-----------------------------------------------------------------------------
(* The theorem *)

\* With one worker, rows and the records about to be written are certified in
\* every reachable state.
THEOREM RecordsAreCertified ==
  RegistrarAssumption /\ OneWorker => (Spec => []Certified)
<1> SUFFICES ASSUME RegistrarAssumption, OneWorker
             PROVE  Spec => []Certified
  OBVIOUS
<1>1. Init => CertsMatchKeys /\ RequestsCertified
  BY DEF Init, CertsMatchKeys, RequestsCertified, Idle
<1>2. Inductive /\ CertsMatchKeys /\ RequestsCertified /\ [Next]_vars
        => CertsMatchKeys' /\ RequestsCertified'
  <2> SUFFICES ASSUME Certified, [Next]_vars
               PROVE  CertsMatchKeys' /\ RequestsCertified'
    BY DEF Certified
  <2>1. CASE Next
    BY <2>1, CreateCertifies, CreateWriteCertifies, ActivateWriteCertifies, OthersCertify
       DEF Next, Certified
  <2>2. CASE UNCHANGED vars
    BY <2>2 DEF vars, Certified, CertsMatchKeys, RequestsCertified
  <2>3. QED
    BY <2>1, <2>2
<1>3. (Inductive /\ CertsMatchKeys /\ RequestsCertified) <=> Certified
  BY DEF Certified
<1>4. QED
  BY <1>1, <1>2, <1>3, RecordsAreSound, PTL DEF Spec

\* With one worker, a certificate on record is for the key beside it and trusted
\* where that is asked, however the record came about in registrations that give
\* only some of the fields (_check_key_against_cert, _check_cert_trust_status).
THEOREM CertificatesMatch ==
  RegistrarAssumption /\ OneWorker => (Spec => []CertsMatchKeys)
<1> SUFFICES ASSUME RegistrarAssumption, OneWorker
             PROVE  Spec => []CertsMatchKeys
  OBVIOUS
<1>1. Certified => CertsMatchKeys
  BY DEF Certified
<1>2. QED
  BY <1>1, RecordsAreCertified, PTL
-----------------------------------------------------------------------------
(* The web framework: what runs for a request over plain HTTP *)

\* One request to the registrar, as Dispatch has it.
CONSTANT HttpRequests
VARIABLES request, phase, route, ran, response
D == INSTANCE Dispatch

\* What runs without TLS: the actions of agents that register, and the default
\* ones.
OpenActions ==
  {"create", "activate", "version",
   "unsupported_method", "method_not_allowed", "not_found", "https_required",
   "malformed_params", "action_dispatch_error", "action_exception",
   "incomplete_action", "handler_exception"}

\* A route is matched for a request that may use it.
KeptOut ==
  ~request.secure =>
    /\ phase = "matched" => route.action \in OpenActions
    /\ ran \in Seq(OpenActions)

\* A number of a set that is not empty is the least one.
LEMMA LeastIndex ==
  ASSUME NEW n \in Nat, NEW S \in SUBSET (1..n), S # {}
  PROVE  \E i \in S : \A j \in S : i <= j
<1>1. S \in SUBSET Nat
  OBVIOUS
<1>2. \E i \in S : \A j \in S : ~(<<j, i>> \in OpToRel(<, Nat))
  BY <1>1, NatLessThanWellFounded, WFMin
<1>3. PICK i \in S : \A j \in S : ~(<<j, i>> \in OpToRel(<, Nat))
  BY <1>2
<1>4. \A j \in S : ~(j < i)
  BY <1>1, <1>3 DEF OpToRel
<1>5. QED
  BY <1>1, <1>4

\* Every route open to plain HTTP is for one of the open actions, in each of the
\* versions it is listed under.
LEMMA OpenRoutes ==
  /\ Len(D!Routes) = 17
  /\ \A i \in 1..17 : D!Routes[i].insecure => D!Routes[i].action \in OpenActions
<1>1. /\ Len(D!V2Routes) = 8
      /\ \A k \in 1..8 : /\ D!V2Routes[k].insecure => D!V2Routes[k].action \in OpenActions
                         /\ DOMAIN D!V2Routes[k] = {"method", "pattern", "action", "insecure"}
  BY DEF D!V2Routes, D!Route, OpenActions
<1>2. PICK scoped : scoped = D!VersionScope(D!V2Routes)
  OBVIOUS
<1>3. \A i \in 1..16 : D!Unscoped(i) \in 1..8
  BY DEF D!Unscoped
<1>4. /\ scoped = [i \in 1..16 |-> scoped[i]]
      /\ \A i \in 1..16 : /\ scoped[i].insecure = D!V2Routes[D!Unscoped(i)].insecure
                          /\ scoped[i].action = D!V2Routes[D!Unscoped(i)].action
  <2>1. scoped = [i \in 1..16 |-> [D!V2Routes[D!Unscoped(i)] EXCEPT
                                    !.pattern = <<D!Scope(i)>> \o @]]
    BY <1>1, <1>2 DEF D!VersionScope
  <2>2. ASSUME NEW i \in 1..16
        PROVE  /\ scoped[i].insecure = D!V2Routes[D!Unscoped(i)].insecure
               /\ scoped[i].action = D!V2Routes[D!Unscoped(i)].action
    <3>1. PICK r : r = D!V2Routes[D!Unscoped(i)]
      OBVIOUS
    <3>2. DOMAIN r = {"method", "pattern", "action", "insecure"}
      BY <1>1, <1>3, <3>1
    <3>3. PICK p : p = <<D!Scope(i)>> \o r.pattern
      OBVIOUS
    <3>4. scoped[i] = [r EXCEPT !.pattern = p]
      BY <2>1, <3>1, <3>3
    <3>5. QED
      BY <3>1, <3>2, <3>4
  <2>3. QED
    BY <2>1, <2>2
<1>5. PICK version : version = D!Route("get", <<D!Lit("version")>>, "version", TRUE)
  OBVIOUS
<1>6. version.action \in OpenActions
  BY <1>5 DEF D!Route, OpenActions
<1>7. D!Routes = scoped \o <<version>>
  BY <1>2, <1>5 DEF D!Routes
<1>8. /\ Len(D!Routes) = 17
      /\ \A i \in 1..16 : D!Routes[i] = scoped[i]
      /\ D!Routes[17] = version
  BY <1>4, <1>7
<1>9. QED
  BY <1>1, <1>4, <1>3, <1>6, <1>8

\* The route found is one of the list.
LEMMA FoundIsRoute ==
  ASSUME NEW method, NEW path, D!FirstMatching(method, path) # None
  PROVE  \E i \in 1..17 : D!FirstMatching(method, path) = D!Routes[i]
<1>1. PICK found : found = {i \in 1..17 : D!Matches(D!Routes[i], method, path)}
  OBVIOUS
<1>2. /\ found # {}
      /\ D!FirstMatching(method, path) = D!Routes[CHOOSE i \in found : \A j \in found : i <= j]
  BY <1>1, OpenRoutes DEF D!FirstMatching
<1>3. \E i \in found : \A j \in found : i <= j
  BY <1>1, <1>2, LeastIndex
<1>4. (CHOOSE i \in found : \A j \in found : i <= j) \in found
  BY <1>3
<1>5. QED
  BY <1>1, <1>2, <1>4

\* What a default action leaves: it is an open one itself.
LEMMA DefaultIsOpen ==
  ASSUME NEW action \in OpenActions, NEW status,
         KeptOut, D!InvokeDefault(action, status), UNCHANGED request
  PROVE  KeptOut'
<1>1. phase' # "matched" /\ ran' = Append(ran, action)
  BY DEF D!InvokeDefault
<1>2. QED
  BY <1>1 DEF KeptOut

\* The route found for a request over HTTP is open, or it is not matched.
LEMMA PrepareKeepsOut ==
  ASSUME KeptOut, D!Prepare
  PROVE  KeptOut'
<1>1. PICK r : r = D!FirstMatching(request.method, request.path)
  OBVIOUS
<1>2. \/ D!InvokeDefault("method_not_allowed", 405)
      \/ D!InvokeDefault("not_found", 404)
      \/ D!InvokeDefault("https_required", 400)
      \/ /\ r # None /\ (request.secure \/ r.insecure)
         /\ route' = r /\ UNCHANGED ran
  BY <1>1 DEF D!Prepare
<1>3. UNCHANGED request
  BY DEF D!Prepare
<1>4. CASE /\ r # None /\ (request.secure \/ r.insecure)
           /\ route' = r /\ UNCHANGED ran
  <2>1. PICK i \in 1..17 : r = D!Routes[i]
    BY <1>1, <1>4, FoundIsRoute
  <2>2. r.insecure => r.action \in OpenActions
    BY <2>1, OpenRoutes
  <2>3. QED
    BY <1>3, <1>4, <2>2 DEF KeptOut
<1>5. {"method_not_allowed", "not_found", "https_required"} \subseteq OpenActions
  BY DEF OpenActions
<1>6. QED
  BY <1>2, <1>3, <1>4, <1>5, DefaultIsOpen

\* An action runs only on a route that was matched, and what follows it is open.
LEMMA RunKeepsOut ==
  ASSUME KeptOut, D!RunAction
  PROVE  KeptOut'
<1>1. phase = "matched" /\ phase' = "done" /\ UNCHANGED <<request, route>>
  BY DEF D!RunAction
<1>2. PICK a : a = route.action
  OBVIOUS
<1>3. \/ ran' = Append(ran, a)
      \/ ran' = ran \o <<a, "action_exception">>
      \/ ran' = ran \o <<a, "incomplete_action">>
  BY <1>2 DEF D!RunAction
<1>4. {"action_exception", "incomplete_action"} \subseteq OpenActions
  BY DEF OpenActions
<1>5. SUFFICES ASSUME ~request.secure
               PROVE  ran' \in Seq(OpenActions)
  BY <1>1 DEF KeptOut
<1>6. a \in OpenActions /\ ran \in Seq(OpenActions)
  BY <1>1, <1>2, <1>5 DEF KeptOut
<1>7. CASE ran' = Append(ran, a)
  BY <1>6, <1>7
<1>8. ASSUME NEW e \in {"action_exception", "incomplete_action"}, ran' = ran \o <<a, e>>
      PROVE  ran' \in Seq(OpenActions)
  <2>1. <<a, e>> \in Seq(OpenActions)
    BY <1>4, <1>6
  <2>2. QED
    BY <1>6, <1>8, <2>1
<1>9. QED
  BY <1>3, <1>7, <1>8

\* Over plain HTTP no request reaches the list of agents, an agent's record or its
\* removal, under any path, method or version and whatever fails on the way
\* (allow_insecure of the routes, the early answer of prepare).
THEOREM PlainHttpKeptOut == D!Spec => []D!InsecureKeptOut
<1>1. D!Init => KeptOut
  BY DEF D!Init, KeptOut
<1>2. KeptOut /\ [D!Next]_D!vars => KeptOut'
  <2> SUFFICES ASSUME KeptOut, [D!Next]_D!vars
               PROVE  KeptOut'
    OBVIOUS
  <2>1. CASE D!UnsupportedMethod
    <3>1. "unsupported_method" \in OpenActions
      BY DEF OpenActions
    <3>2. QED
      BY <2>1, <3>1 DEF D!UnsupportedMethod, KeptOut
  <2>2. CASE D!Prepare
    BY <2>2, PrepareKeepsOut
  <2>3. CASE D!Reject
    <3>1. {"malformed_params", "action_dispatch_error"} \subseteq OpenActions
      BY DEF OpenActions
    <3>2. QED
      BY <2>3, <3>1, DefaultIsOpen DEF D!Reject
  <2>4. CASE D!RunAction
    BY <2>4, RunKeepsOut
  <2>5. CASE D!WriteError
    <3>1. "handler_exception" \in OpenActions
      BY DEF OpenActions
    <3>2. QED
      BY <2>5, <3>1 DEF D!WriteError, KeptOut
  <2>6. CASE UNCHANGED D!vars
    BY <2>6 DEF D!vars, KeptOut
  <2>7. QED
    BY <2>1, <2>2, <2>3, <2>4, <2>5, <2>6 DEF D!Next
<1>3. KeptOut => D!InsecureKeptOut
  <2> SUFFICES ASSUME KeptOut, ~request.secure
               PROVE  D!Ran \cap {"index", "show", "delete"} = {}
    BY DEF D!InsecureKeptOut
  <2>1. \A i \in 1..Len(ran) : ran[i] \in OpenActions
    BY DEF KeptOut
  <2>2. OpenActions \cap {"index", "show", "delete"} = {}
    BY DEF OpenActions
  <2>3. QED
    BY <2>1, <2>2 DEF D!Ran
<1>4. QED
  BY <1>1, <1>2, <1>3, PTL DEF D!Spec
=============================================================================
