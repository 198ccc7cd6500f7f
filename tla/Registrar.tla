----------------------------- MODULE Registrar -----------------------------
(* The registrar: worker processes that handle the requests of agents (register,
   activate) and of the tenant (delete) on one database. A request is handled
   without a pause in its worker, but reads the record in one transaction and
   writes it in a later one; the other workers run in between. *)
EXTENDS Naturals, FiniteSets

CONSTANTS
  Agents, EKs, AKs, IAKs,  \* agent ids and the keys agents present
  Home,                    \* Home[k]: the TPM that holds the private part of k
  Workers,                 \* worker processes
  Requests,                \* bodies of registration requests
  TpmIdentity,             \* option tpm_identity
  CertAction,              \* option malformed_cert_action
  MaxChallenges,           \* bound: challenges made
  None, Malformed, Disabled

VARIABLES
  db,          \* db[a]: the row of agent a in table registrarmain, or None
  task,        \* task[w]: the request worker w has read the record for
  challenges,  \* the challenges agents have received
  made         \* how many challenges were made: the next HMAC key

vars == <<db, task, challenges, made>>

\* The columns; ip, port and the unused ones are left out.
KeyFields  == {"ek_tpm", "aik_tpm", "iak_tpm", "idevid_tpm"}
CertFields == {"ekcert", "iak_cert", "idevid_cert", "mtls_cert"}
Permitted  == KeyFields \cup CertFields
RegFields  == Permitted \ {"mtls_cert"}
Fields     == Permitted \cup {"key", "active", "regcount"}
Nullable   == {"ekcert", "iak_tpm", "iak_cert", "idevid_tpm", "idevid_cert", "mtls_cert"}

Keys  == EKs \cup AKs \cup IAKs
Certs == [key : Keys, trusted : BOOLEAN, strict : BOOLEAN]
Tags  == [id : Agents, no : 0..MaxChallenges]

ASSUME HomeAssumption == DOMAIN Home = Keys
ASSUME RequestsAssumption ==
  \A r \in Requests : /\ DOMAIN r.fields \subseteq Permitted
                      /\ r.attest \in [iak : IAKs, ak : AKs] \cup {None}
-----------------------------------------------------------------------------
(* A record in memory: what was loaded, the changes made to it since, and the
   fields found in error (basic_model.py). *)

Empty == [f \in Fields |-> None]

Value(rec, f) ==
  IF f \in DOMAIN rec.changes THEN rec.changes[f] ELSE rec.committed[f]

\* record.change(f, v): a value of the wrong type is an error and no change, a
\* null is a change and, in a column that is not nullable, an error.
Change(rec, f, v) ==
  [rec EXCEPT
    !.changes = IF v = Malformed THEN @
                ELSE [g \in DOMAIN @ \cup {f} |-> IF g = f THEN v ELSE @[g]],
    !.errors  = (@ \ {f}) \cup
                {g \in {f} : v = Malformed \/ (v = None /\ f \notin Nullable)}]

\* record.cast_changes(data, permitted) on a record that was just loaded.
CastChanges(row, fields) ==
  [committed |-> row,
   changes   |-> [f \in {g \in DOMAIN fields : fields[g] # Malformed} |-> fields[f]],
   errors    |-> {f \in DOMAIN fields :
                    \/ fields[f] = Malformed
                    \/ fields[f] = None /\ f \notin Nullable}]

Changed(rec, f) == f \in DOMAIN rec.changes
Supplied(rec, f) == Changed(rec, f) /\ rec.changes[f] # None
Missing(rec, fs) == {f \in fs : Value(rec, f) = None}

\* Fault: a certificate that comes without the key is not compared.
CheckKeyAgainstCert_KeyOnly(rec, k, c) ==
  {f \in {k} : /\ Changed(rec, k)
               /\ Value(rec, k) # None
               /\ Value(rec, c) # None
               /\ Value(rec, c).key # Value(rec, k)}

CheckKeyAgainstCert(rec, k, c) ==
  {f \in {k} : /\ Changed(rec, k) \/ Changed(rec, c)
               /\ Value(rec, k) # None
               /\ Value(rec, c) # None
               /\ Value(rec, c).key # Value(rec, k)}

CheckCertTrust(rec, c) == {f \in {c} : Supplied(rec, c) /\ ~rec.changes[c].trusted}

\* The old certificate is taken from the values the changes already overlay.
CheckCertCompliance(rec, fields) ==
  {f \in CertFields \cap DOMAIN fields :
    /\ fields[f] # None
    /\ Supplied(rec, f)
    /\ rec.changes[f] = Disabled \/ rec.changes[f] # Value(rec, f)
    /\ rec.changes[f] = Disabled \/ ~rec.changes[f].strict
    /\ CertAction = "reject"}

\* The binding of AK to IAK, by the TPM2_Certify statement in the request.
BindAkToIak(rec, attest) ==
  {f \in {"aik_tpm"} :
    /\ Changed(rec, "aik_tpm") /\ Changed(rec, "iak_tpm")
    /\ Value(rec, "aik_tpm") # None /\ Value(rec, "iak_tpm") # None
    /\ attest # [iak |-> Value(rec, "iak_tpm"), ak |-> Value(rec, "aik_tpm")]}

CheckRootIdentity(rec) ==
  (CASE TpmIdentity = "iak_idevid" -> Missing(rec, {"iak_tpm", "idevid_tpm"})
     [] TpmIdentity = "ek_cert"    -> Missing(rec, {"ek_tpm"})
     [] OTHER -> IF Value(rec, "ek_tpm") # None THEN {}
                 ELSE Missing(rec, {"iak_tpm", "idevid_tpm"}))
  \cup (IF Supplied(rec, "iak_tpm") \/ Supplied(rec, "idevid_tpm")
        THEN Missing(rec, {"iak_cert", "idevid_cert"}) ELSE {})
  \cup (IF Supplied(rec, "iak_cert") \/ Supplied(rec, "idevid_cert")
        THEN Missing(rec, {"iak_tpm", "idevid_tpm"}) ELSE {})

\* Every check of update(data), in one set of fields in error.
Checks(rec, req) ==
  UNION {CheckKeyAgainstCert(rec, "ek_tpm", "ekcert"),
         CheckKeyAgainstCert(rec, "iak_tpm", "iak_cert"),
         CheckKeyAgainstCert(rec, "idevid_tpm", "idevid_cert"),
         CheckCertTrust(rec, "iak_cert"),
         CheckCertTrust(rec, "idevid_cert"),
         BindAkToIak(rec, req.attest),
         CheckRootIdentity(rec),
         CheckCertCompliance(rec, req.fields),
         Missing(rec, {"aik_tpm"})}

\* Fault: a new AK leaves the record active.
PrepareStatusFlags_EkOnly(rec) ==
  IF Changed(rec, "ek_tpm") THEN Change(rec, "active", FALSE) ELSE rec

PrepareStatusFlags(rec) ==
  IF Changed(rec, "ek_tpm") \/ Changed(rec, "aik_tpm")
  THEN Change(rec, "active", FALSE) ELSE rec

PrepareRegcount(rec) ==
  LET count == IF Value(rec, "regcount") = None THEN 0 ELSE Value(rec, "regcount")
      again == rec.errors = {} /\ RegFields \cap DOMAIN rec.changes # {}
  IN  IF again THEN Change(rec, "regcount", count + 1)
      ELSE IF Value(rec, "regcount") = None THEN Change(rec, "regcount", 0) ELSE rec

\* agent.update({"agent_id": agent_id, **params})
Update(row, req) ==
  LET rec == CastChanges(row, req.fields)
  IN  PrepareRegcount(PrepareStatusFlags(
        [rec EXCEPT !.errors = @ \cup Checks(rec, req)]))
-----------------------------------------------------------------------------
Idle == [op |-> "idle"]
Loaded(a) == IF db[a] = None THEN Empty ELSE db[a]

Init ==
  /\ db = [a \in Agents |-> None]
  /\ task = [w \in Workers |-> Idle]
  /\ challenges = {}
  /\ made = 0

\* POST /agents/:agent_id up to the write; a request found wrong is answered
\* 400 and leaves nothing behind.
Create(w, a, req) ==
  /\ task[w] = Idle
  /\ LET rec == Update(Loaded(a), req)
     IN  /\ Value(rec, "ek_tpm") # None /\ Value(rec, "aik_tpm") # None
         /\ rec.errors = {}
         /\ task' = [task EXCEPT ![w] = [op |-> "create", id |-> a, new |-> db[a] = None,
                                         rec |-> rec]]
  /\ UNCHANGED <<db, challenges, made>>

\* Columns a commit writes: those whose value is not the one that was loaded.
Written(rec) == {f \in DOMAIN rec.changes : rec.changes[f] # rec.committed[f]}

\* session.add(...) and commit. An insert meets a row made since, an update
\* finds no row: the action fails, and is answered 500.
Store(a, new, rec) ==
  db' = IF new = (db[a] = None)
        THEN [db EXCEPT ![a] = [f \in Fields |->
                IF new THEN Value(rec, f)
                ELSE IF f \in Written(rec) THEN rec.changes[f] ELSE db[a][f]]]
        ELSE db

\* Fault: a record that is there already keeps the key of its first challenge.
CreateWrite_KeepsKey(w, sent) ==
  /\ task[w].op = "create"
  /\ made < MaxChallenges
  /\ LET a   == task[w].id
         rec == IF task[w].new THEN Change(task[w].rec, "key", made + 1) ELSE task[w].rec
     IN  /\ Store(a, task[w].new, rec)
         /\ challenges' = IF sent THEN challenges \cup {[id |-> a, no |-> made + 1,
                                     ek |-> Value(rec, "ek_tpm"), ak |-> Value(rec, "aik_tpm")]}
                          ELSE challenges
  /\ made' = made + 1
  /\ task' = [task EXCEPT ![w] = Idle]

\* The challenge is encrypted to the EK and names the AK; its key is stored and
\* its answer sent, unless the reply is lost (or the attestation backend that is
\* written after the commit fails).
CreateWrite(w, sent) ==
  /\ task[w].op = "create"
  /\ made < MaxChallenges
  /\ LET a   == task[w].id
         rec == Change(task[w].rec, "key", made + 1)
         stored == task[w].new = (db[a] = None)
     IN  /\ Store(a, task[w].new, rec)
         /\ challenges' = IF sent /\ stored
              THEN challenges \cup {[id |-> a, no |-> made + 1,
                                     ek |-> Value(rec, "ek_tpm"), ak |-> Value(rec, "aik_tpm")]}
              ELSE challenges
  /\ made' = made + 1
  /\ task' = [task EXCEPT ![w] = Idle]

\* What agents can answer: TPM2_ActivateCredential yields the key of a challenge
\* only in the TPM that holds both its EK and its AK. A wrong answer has no key.
Answerable(c) == Home[c.ek] = Home[c.ak]
Answers == {[id |-> c.id, no |-> c.no] : c \in {d \in challenges : Answerable(d)}}
             \cup [id : Agents, no : {0}]

\* PUT /agents/:agent_id/activate up to the write; 404 when there is no record.
Activate(w, a, tag) ==
  /\ task[w] = Idle
  /\ db[a] # None
  /\ task' = [task EXCEPT ![w] =
       [op |-> IF tag = [id |-> a, no |-> db[a]["key"]] THEN "activate" ELSE "delete", id |-> a,
        rec |-> Change([committed |-> db[a], changes |-> <<>>, errors |-> {}], "active", TRUE)]]
  /\ UNCHANGED <<db, challenges, made>>

\* The right answer is committed: no statement is sent for an active record.
ActivateWrite(w) ==
  /\ task[w].op = "activate"
  /\ IF Written(task[w].rec) = {} THEN UNCHANGED db
     ELSE Store(task[w].id, FALSE, task[w].rec)
  /\ task' = [task EXCEPT ![w] = Idle]
  /\ UNCHANGED <<challenges, made>>

\* DELETE /agents/:agent_id up to the write; 404 when there is no record.
Delete(w, a) ==
  /\ task[w] = Idle
  /\ db[a] # None
  /\ task' = [task EXCEPT ![w] =
       [op |-> "delete", id |-> a,
        rec |-> [committed |-> db[a], changes |-> <<>>, errors |-> {}]]]
  /\ UNCHANGED <<db, challenges, made>>

\* agent.delete(), of that request or of a wrong answer: no error when the row
\* is gone.
DeleteWrite(w) ==
  /\ task[w].op = "delete"
  /\ db' = [db EXCEPT ![task[w].id] = None]
  /\ task' = [task EXCEPT ![w] = Idle]
  /\ UNCHANGED <<challenges, made>>

\* A worker process ends and is forked again.
Crash(w) ==
  /\ task[w] # Idle
  /\ task' = [task EXCEPT ![w] = Idle]
  /\ UNCHANGED <<db, challenges, made>>

Next ==
  \E w \in Workers :
    \/ \E a \in Agents, req \in Requests : Create(w, a, req)
    \/ \E sent \in BOOLEAN : CreateWrite(w, sent)
    \/ \E a \in Agents, tag \in Answers : Activate(w, a, tag)
    \/ ActivateWrite(w)
    \/ \E a \in Agents : Delete(w, a)
    \/ DeleteWrite(w)
    \/ Crash(w)

Spec == Init /\ [][Next]_vars
-----------------------------------------------------------------------------
\* The type invariant: rows, requests under way, challenges and their number.
TypeOK ==
  /\ \A a \in Agents : db[a] = None \/ DOMAIN db[a] = Fields
  /\ \A w \in Workers : task[w] # Idle => task[w].id \in Agents
  /\ \A c \in challenges : /\ c.id \in Agents /\ c.ek \in EKs /\ c.ak \in AKs
                           /\ c.no \in 1..made
  /\ made \in 0..MaxChallenges

Pairs == {<<"ek_tpm", "ekcert">>, <<"iak_tpm", "iak_cert">>, <<"idevid_tpm", "idevid_cert">>}

\* However a record came about in re-registrations that give only some of the
\* fields, a certificate on record is for the key beside it, and an IAK or
\* IDevID certificate is one the trust store accepts (_check_key_against_cert,
\* _check_cert_trust_status).
CertsMatchKeys ==
  \A a \in Agents : db[a] # None =>
    /\ \A p \in Pairs : db[a][p[1]] # None /\ db[a][p[2]] # None
                          => db[a][p[2]].key = db[a][p[1]]
    /\ \A c \in {"iak_cert", "idevid_cert"} : db[a][c] # None => db[a][c].trusted

\* An active record is one the TPM of its EK has answered for with the AK that
\* is on record now (models/registrar/registrar_agent.py:48: "Indicates that the
\* AK has successfully been bound to the EK").
ActiveIsBound ==
  \A a \in Agents : db[a] # None /\ db[a]["active"]
    => Home[db[a]["ek_tpm"]] = Home[db[a]["aik_tpm"]]

-----------------------------------------------------------------------------
\* The identity on record, as the specification of the service sees it.
OnRecord ==
  [a \in Agents |-> IF db[a] = None THEN None
     ELSE [ek |-> db[a]["ek_tpm"], ak |-> db[a]["aik_tpm"], active |-> db[a]["active"]]]

R == INSTANCE Registration WITH identity <- OnRecord

\* One worker implements the promise: keys become active only by the answer
\* to the challenge that was made for them, whatever registrations, removals,
\* late or repeated answers and lost replies come before (create, activate).
ImplementsRegistration == R!Spec
=============================================================================
