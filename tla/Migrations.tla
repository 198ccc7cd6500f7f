----------------------------- MODULE Migrations -----------------------------
(* The databases of the verifier and the registrar under their alembic
   revisions: which columns the tables have, and where the policies of the agents
   are. The service upgrades to the last revision when it starts; an administrator
   may go back. *)
EXTENDS Naturals, Sequences

CONSTANTS
  Agents,     \* agents in the database of the verifier
  Lists,      \* names of allowlists kept apart from the agents, some of them agent ids
  Policies,   \* contents of policies; the ones in HasDigests have digests
  HasDigests,
  Null,       \* no value in a column
  None

VARIABLES
  rev,      \* how many revisions are applied
  columns,  \* columns[t]: the columns of table t, {} when there is no such table
  row,      \* row[a]: the policies agent a holds in, or refers to from, verifiermain
  stored,   \* stored[t][n]: the policy named n in table t of policies
  format,   \* the format of the stored runtime policies
  given,    \* the policies each agent was added with, as long as they are to be kept
  failed    \* a revision raised an exception, which ends the command

vars == <<rev, columns, row, stored, format, given, failed>>
-----------------------------------------------------------------------------
(* The revisions, each with its steps up and down. *)
V == "verifiermain"
R == "registrarmain"
A == "allowlists"
B == "mbpolicies"
Tables       == {V, R, A, B}
PolicyTables == {A, B}

Add(t, cs)    == [op |-> "add",    table |-> t, cs |-> cs]
Drop(t, cs)   == [op |-> "drop",   table |-> t, cs |-> cs]
Create(t, cs) == [op |-> "create", table |-> t, cs |-> cs]
Ensure(t, cs) == [op |-> "ensure", table |-> t, cs |-> cs]  \* create, unless the table is there
Remove(t)     == [op |-> "remove", table |-> t, cs |-> {}]
Rename(t, c, new) == [op |-> "rename", table |-> t, cs |-> {c}, new |-> new]
Data(step, t) == [op |-> step,     table |-> t, cs |-> {}]  \* about the policies of t
Raise         == Data("raise", V)

Steps(up, down) == [up |-> up, down |-> down]
Adds(t, cs) == Steps(<<Add(t, cs)>>, <<Drop(t, cs)>>)
Retypes     == Steps(<<>>, <<>>)   \* lengths and types of columns

Rev_8a44a4364f5a == Steps(
  <<Create(R, {"agent_id", "key", "aik", "ek", "ekcert", "virtual", "active", "provider_keys", "regcount"}),
    Create(V, {"agent_id", "v", "ip", "port", "operational_state", "public_key", "tpm_policy",
               "vtpm_policy", "meta_data", "ima_whitelist", "revocation_key", "tpm_version",
               "accept_tpm_hash_algs", "accept_tpm_encryption_algs", "accept_tpm_signing_algs",
               "hash_alg", "enc_alg", "sign_alg"})>>,
  <<Remove(R), Remove(V)>>)
Rev_eeb702f77d7d == Steps(<<Rename(V, "ima_whitelist", "allowlist")>>,
                          <<Rename(V, "allowlist", "ima_whitelist")>>)
Rev_8da20383f6e1 == Retypes
Rev_a7a64155ab3a == Adds(V, {"ima_sign_verification_keys"})
Rev_cc2630851a1f == Steps(<<Drop(R, {"aik", "ek"}), Add(R, {"aik_tpm", "ek_tpm"})>>,
                          <<Add(R, {"aik", "ek"}), Drop(R, {"aik_tpm", "ek_tpm"})>>)
Rev_ae898986c6e9 == Adds(V, {"mb_refstate"})
Rev_eb869a77abd1 == Steps(<<Create(A, {"id", "name", "tpm_policy", "vtpm_policy", "ima_policy"})>>,
                          <<Remove(A)>>)
Rev_b4d024197413 == Adds(V, {"verifier_id", "verifier_ip", "verifier_port"})
Rev_f82c4252bc4f == Adds(R, {"ip", "port"})
Rev_7d5db1a6ffb0 == Adds(V, {"boottime", "ima_pcrs", "pcr10", "next_ima_ml_entry"})
Rev_f35cdd35eb83 == Retypes
\* A Column object is handed to drop_column for the name of one.
Rev_257fe0f0c039 == Steps(<<Add(V, {"severity_level", "last_event_id"})>>, <<Raise>>)
Rev_c3842cc9ee69 == Adds(V, {"learned_ima_keyrings"})
Rev_a79c27ec1054 == Adds(R, {"mtls_cert"})
\* Fault: the column goes to the other table.
Rev_9169f80345ed_WrongTable == Adds(R, {"supported_version"})

Rev_9169f80345ed == Adds(V, {"supported_version"})
Rev_63c30820fdc1 == Adds(V, {"ak_tpm", "mtls_cert"})
Rev_1ac1513ef2a1 == Retypes
\* The columns to put back have no name.
Rev_bc3b6b551b0a == Steps(<<Drop(V, {"vtpm_policy"}), Drop(A, {"vtpm_policy"})>>, <<Raise>>)
Rev_bf48e0c4751d == Adds(V, {"attestation_count"})
Rev_a72aec03d720 == Steps(<<Data("move", A), Add(V, {"ima_policy_id"}), Drop(V, {"allowlist"})>>,
                          <<Data("return", A), Drop(V, {"ima_policy_id"})>>)
Rev_4329e2d14944 == Steps(<<Data("link", A)>>, <<Add(V, {"allowlist"})>>)
Rev_4089e1c79be9 == Adds(V, {"tpm_clockinfo"})
Rev_a09cc94177f0 == Adds(V, {"last_received_quote"})
Rev_2fbc0fb8fa4d == Adds(A, {"checksum"})
Rev_039322ea079b == Adds(A, {"generator"})
Rev_8c0f8ded1f90 == Steps(<<Data("convert", A)>>, <<Data("revert", A)>>)
Rev_f838d3cdeead == Adds(V, {"last_successful_attestation"})
Rev_21b5cb88fcdb == Adds(R, {"iak_tpm", "idevid_tpm"})
Rev_00766b7fd0c5 == Adds(R, {"iak_cert", "idevid_cert"})
Rev_160f932fde5b == Retypes
Rev_32902c0a8d90 == Steps(<<Ensure(B, {"id", "name", "mb_policy"})>>, <<Remove(B)>>)
Rev_f4196d13fe45 == Steps(<<Data("move", B), Add(V, {"mb_policy_id"}), Drop(V, {"mb_refstate"})>>,
                          <<Add(V, {"mb_refstate"}), Data("return", B), Drop(V, {"mb_policy_id"})>>)
Rev_9d2f6fab52b1 == Steps(<<Data("link", B)>>, <<>>)
Rev_330024be7bef == Retypes
Rev_57b24ee21dfa == Retypes

\* Each revision names the one it revises.
Revisions ==
  <<Rev_8a44a4364f5a, Rev_eeb702f77d7d, Rev_8da20383f6e1, Rev_a7a64155ab3a, Rev_cc2630851a1f,
    Rev_ae898986c6e9, Rev_eb869a77abd1, Rev_b4d024197413, Rev_f82c4252bc4f, Rev_7d5db1a6ffb0,
    Rev_f35cdd35eb83, Rev_257fe0f0c039, Rev_c3842cc9ee69, Rev_a79c27ec1054, Rev_9169f80345ed,
    Rev_63c30820fdc1, Rev_1ac1513ef2a1, Rev_bc3b6b551b0a, Rev_bf48e0c4751d, Rev_a72aec03d720,
    Rev_4329e2d14944, Rev_4089e1c79be9, Rev_a09cc94177f0, Rev_2fbc0fb8fa4d, Rev_039322ea079b,
    Rev_8c0f8ded1f90, Rev_f838d3cdeead, Rev_21b5cb88fcdb, Rev_00766b7fd0c5, Rev_160f932fde5b,
    Rev_32902c0a8d90, Rev_f4196d13fe45, Rev_9d2f6fab52b1, Rev_330024be7bef, Rev_57b24ee21dfa>>

Last == Len(Revisions)
-----------------------------------------------------------------------------
(* One step on a database d of columns, rows and stored policies; raised if a step
   raised an exception. *)
PolicyNames == Agents \cup Lists
Contents == Policies \cup {Null}
Rows     == [PolicyTables -> [column : Contents, link : Agents \cup {None}]]
NoPolicies == [n \in PolicyNames |-> None]

\* The columns of verifiermain with the policies of a table, or their ids.
Source(t)    == IF t = A THEN "allowlist" ELSE "mb_refstate"
Reference(t) == IF t = A THEN "ima_policy_id" ELSE "mb_policy_id"

\* Fault: the table is copied, to drop its columns, without the policies in it.
RowsWithout_Copied(d, s) ==
  [a \in Agents |->
     IF d.row[a] = None \/ s.table # V THEN d.row[a]
     ELSE [t \in PolicyTables |-> [column |-> Null, link |-> None]]]

\* What the rows have after columns of a table were dropped.
RowsWithout(d, s) ==
  [a \in Agents |->
     IF d.row[a] = None \/ s.table # V THEN d.row[a]
     ELSE [t \in PolicyTables |->
             [column |-> IF Source(t) \in s.cs THEN Null ELSE d.row[a][t].column,
              link   |-> IF Reference(t) \in s.cs THEN None ELSE d.row[a][t].link]]]

Altered(d, s) ==
  CASE s.op \in {"add", "create"} -> [d EXCEPT !.columns[s.table] = @ \cup s.cs]
    [] s.op = "ensure" ->
         IF d.columns[s.table] = {} THEN [d EXCEPT !.columns[s.table] = s.cs] ELSE d
    [] s.op = "rename" -> [d EXCEPT !.columns[s.table] = (@ \ s.cs) \cup {s.new}]
    [] s.op = "drop"   -> [d EXCEPT !.columns[s.table] = @ \ s.cs, !.row = RowsWithout(d, s)]
    [] s.op = "remove" ->
         [d EXCEPT !.columns[s.table] = {},
                   !.row = [a \in Agents |-> IF s.table = V THEN None ELSE @[a]],
                   !.stored = [t \in PolicyTables |-> IF t = s.table THEN NoPolicies ELSE @[t]]]

\* bulk_insert: every row's column becomes a policy named by the agent.
Moved(d, t) ==
  [d EXCEPT !.stored[t] = [n \in PolicyNames |-> IF n \in Agents /\ d.row[n] # None
                                                 THEN d.row[n][t].column ELSE @[n]]]

\* A row refers to the policy that bears its agent's name.
Linked(d, t) ==
  [d EXCEPT !.row = [a \in Agents |->
     IF @[a] # None /\ d.stored[t][a] # None THEN [@[a] EXCEPT ![t].link = a] ELSE @[a]]]

\* Every stored policy goes back to the row of its name and is deleted.
Returned(d, t) ==
  [d EXCEPT
     !.stored[t] = NoPolicies,
     !.row = [a \in Agents |->
       IF @[a] # None /\ d.stored[t][a] # None
       THEN [@[a] EXCEPT ![t].column = d.stored[t][a]] ELSE @[a]]]

StoredNames(d, t) == {n \in PolicyNames : d.stored[t][n] # None}
LinkedTo(d, t)    == {d.row[a][t].link : a \in {b \in Agents : d.row[b] # None}} \ {None}

\* What makes a step raise: a column that is there or is missing, a name that is
\* taken, a policy that is referred to, a policy without digests.
Raises(d, s) ==
  CASE s.op = "add"    -> s.cs \cap d.columns[s.table] # {}
    [] s.op = "rename" -> ~(s.cs \subseteq d.columns[s.table]) \/ s.new \in d.columns[s.table]
    [] s.op = "drop"   -> ~(s.cs \subseteq d.columns[s.table])
    [] s.op = "create" -> d.columns[s.table] # {}
    [] s.op = "move"   -> \/ Source(s.table) \notin d.columns[V]
                          \/ \E n \in StoredNames(d, s.table) : n \in Agents /\ d.row[n] # None
    [] s.op = "return" -> \/ StoredNames(d, s.table) # {} /\ Source(s.table) \notin d.columns[V]
                          \/ StoredNames(d, s.table) \cap LinkedTo(d, s.table) # {}
    [] s.op \in {"convert", "revert"} ->
         \E n \in StoredNames(d, A) : d.stored[A][n] \notin HasDigests
    [] OTHER -> s.op = "raise"

Applied(d, s) ==
  CASE s.op = "move"    -> Moved(d, s.table)
    [] s.op = "link"    -> Linked(d, s.table)
    [] s.op = "return"  -> Returned(d, s.table)
    [] s.op = "convert" -> [d EXCEPT !.format = "policy"]
    [] s.op = "revert"  -> [d EXCEPT !.format = "allowlist"]
    [] OTHER            -> Altered(d, s)

\* The step at i, if there is one and none before it has raised.
Do(d, steps, i) ==
  IF d.raised \/ i > Len(steps) THEN d
  ELSE IF Raises(d, steps[i]) THEN [d EXCEPT !.raised = TRUE]
  ELSE Applied(d, steps[i])

\* All steps of a revision in turn; none has more than three.
RunSteps(d, steps) == Do(Do(Do(d, steps, 1), steps, 2), steps, 3)
-----------------------------------------------------------------------------
\* Null and None are no policies, agents or rows.
MigrationsAssumption ==
  /\ None \notin Contents \cup Agents
  /\ None \notin Rows \cup [PolicyTables -> Contents]

Database ==
  [columns |-> columns, row |-> row, stored |-> stored, format |-> format, raised |-> FALSE]

Init ==
  /\ rev = 0
  /\ columns = [t \in Tables |-> {}]
  /\ row = [a \in Agents |-> None]
  /\ stored = [t \in PolicyTables |-> NoPolicies]
  /\ format = "allowlist"
  /\ given = [a \in Agents |-> None]
  /\ failed = FALSE

\* What is to be kept: not the policies whose last column went on the way back to an
\* older release, nor those of agents whose table did.
Holding(t) == {Source(t), Reference(t)} \cup (IF t = A THEN {"ima_whitelist"} ELSE {})
Kept(d, a) ==
  IF d.row[a] = None THEN None
  ELSE [t \in PolicyTables |-> IF Holding(t) \cap d.columns[V] = {} THEN Null ELSE given[a][t]]

Migrate(steps, to) ==
  LET d == RunSteps(Database, steps)
  IN  /\ ~failed
      /\ IF d.raised THEN failed' = TRUE /\ UNCHANGED <<rev, columns, row, stored, format, given>>
         ELSE /\ rev' = to
              /\ columns' = d.columns /\ row' = d.row /\ stored' = d.stored /\ format' = d.format
              /\ given' = [a \in Agents |-> Kept(d, a)]
              /\ UNCHANGED failed

Upgrade   == rev < Last /\ Migrate(Revisions[rev + 1].up, rev + 1)
Downgrade == rev > 0 /\ Migrate(Revisions[rev].down, rev - 1)

Has(t, c) == c \in columns[t]

\* The tables of policies a release refers to, if it can be run at this revision;
\* those of the other kind are in columns.
InColumns(t) == Has(V, Source(t)) /\ ~Has(V, Reference(t))
Serves(referred) ==
  \/ referred = {} /\ InColumns(A) /\ InColumns(B)
  \/ referred = {A} /\ Has(V, "last_successful_attestation") /\ InColumns(B)
  \/ referred = PolicyTables /\ rev = Last

\* The service adds agents and lists between migrations.
AddAgent(a, policy) ==
  /\ row[a] = None /\ ~failed
  /\ \E referred \in SUBSET PolicyTables :
       /\ Serves(referred)
       /\ \A t \in referred : stored[t][a] = None
       /\ row' = [row EXCEPT ![a] =
            [t \in PolicyTables |-> IF t \in referred THEN [column |-> Null, link |-> a]
                                    ELSE [column |-> policy[t], link |-> None]]]
       /\ stored' = [t \in PolicyTables |->
            IF t \in referred THEN [stored[t] EXCEPT ![a] = policy[t]] ELSE stored[t]]
  /\ given' = [given EXCEPT ![a] = policy]
  /\ UNCHANGED <<rev, columns, format, failed>>

AddList(n, x) ==
  /\ Has(A, "ima_policy") /\ ~Has(V, "ima_policy_id") /\ ~failed
  /\ stored[A][n] = None
  /\ stored' = [stored EXCEPT ![A][n] = x]
  /\ UNCHANGED <<rev, columns, row, format, given, failed>>

Next ==
  \/ Upgrade \/ Downgrade
  \/ \E a \in Agents, policy \in [PolicyTables -> Policies] : AddAgent(a, policy)
  \/ \E n \in Lists, x \in Policies : AddList(n, x)

Spec == Init /\ [][Next]_vars
-----------------------------------------------------------------------------
\* The type invariant: as many revisions as there are, and the first tables from
\* the first on.
TypeOK ==
  /\ rev \in 0..Last
  /\ DOMAIN columns = Tables
  /\ (rev > 0) = (columns[V] # {}) /\ (rev > 0) = (columns[R] # {})
  /\ row \in [Agents -> Rows \cup {None}]
  /\ stored \in [PolicyTables -> [PolicyNames -> Contents \cup {None}]]
  /\ given \in [Agents -> [PolicyTables -> Contents] \cup {None}]
  /\ format \in {"allowlist", "policy"}
  /\ failed \in BOOLEAN
  /\ \A a \in Agents : (row[a] = None) = (given[a] = None)

\* The columns the present release reads and writes (db/verifier_db.py,
\* models/registrar/registrar_agent.py).
ModelColumns ==
  [verifiermain |->
     {"agent_id", "v", "ip", "verifier_id", "verifier_ip", "verifier_port", "port",
      "operational_state", "public_key", "tpm_policy", "meta_data", "ima_policy_id",
      "ima_sign_verification_keys", "mb_policy_id", "revocation_key", "accept_tpm_hash_algs",
      "accept_tpm_encryption_algs", "accept_tpm_signing_algs", "hash_alg", "enc_alg", "sign_alg",
      "boottime", "ima_pcrs", "pcr10", "next_ima_ml_entry", "severity_level", "last_event_id",
      "learned_ima_keyrings", "supported_version", "ak_tpm", "mtls_cert", "attestation_count",
      "last_received_quote", "last_successful_attestation", "tpm_clockinfo"},
   allowlists |-> {"id", "name", "checksum", "generator", "tpm_policy", "ima_policy"},
   mbpolicies |-> {"id", "name", "mb_policy"},
   registrarmain |->
     {"agent_id", "key", "aik_tpm", "ekcert", "ek_tpm", "iak_tpm", "idevid_tpm", "iak_cert",
      "idevid_cert", "mtls_cert", "virtual", "ip", "port", "active", "provider_keys", "regcount"}]

\* At the last revision every table has the columns of the model classes, however
\* often the database went down and up again.
HeadServesModels ==
  rev = Last => \A t \in Tables : ModelColumns[t] \subseteq columns[t]

PolicyOf(a, t) ==
  IF row[a][t].link # None THEN stored[t][row[a][t].link] ELSE row[a][t].column

\* No migration loses or exchanges the policies an agent was added with: at the
\* last revision each agent refers to them, in the present format, and before the
\* tables were split it holds them (a72aec03d720, 4329e2d14944, f4196d13fe45,
\* 9d2f6fab52b1, 8c0f8ded1f90).
PoliciesSurvive ==
  /\ rev = Last =>
       /\ \A a \in Agents, t \in PolicyTables : row[a] # None => PolicyOf(a, t) = given[a][t]
       /\ \A a \in Agents : row[a] # None => format = "policy"
  /\ ~Has(V, "ima_policy_id") =>
       \A a \in Agents, t \in PolicyTables : row[a] # None => PolicyOf(a, t) = given[a][t]
=============================================================================
