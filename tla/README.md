# A verification project for keylime

Keylime attests remote machines. An *agent* runs on each machine; the *registrar*
knows the identity of its TPM; the *verifier* polls the agents for quotes and
decides whether they are still trusted; the *tenant* is the command line tool
that adds, removes and re-checks agents; *revocation notifiers* tell the world
when an agent has failed. This directory holds TLA+ modules translated from the
Python code, the TLC runs that check them and the proofs TLAPS checks.

Line numbers refer to `src/keylime/` at the commit beside this directory;
`cv` is `cloud_verifier_tornado.py`, `cvc` is `cloud_verifier_common.py`.

## 1. Inventory

| Component | Source | State | Operations | Hard behaviour |
|---|---|---|---|---|
| Attestation loop | `cv` 1413-1949, `cvc` | one dictionary per polled agent, carried through callbacks; the row in the database; a shared default failure object | `process_agent`, `invoke_get_quote`, `invoke_provide_v`, `update_agent_api_version`, `notify_error` | awaits between reading and writing the row; several loops on one row; retries; errors of the loop itself |
| REST handlers for agents | `cv` 300-847 | the row | POST, DELETE, PUT stop, PUT reactivate, GET | run between the steps of the loop, in any worker |
| Start and restart | `cv` 1952-2104 | worker processes | reset of rows, split over the workers, reactivation | a crash at any await |
| Agent states | `common/states.py` | - | sets of states | which states survive a restart |
| Failures | `failure.py` | event list, flag, highest event | `add_event`, `merge` | order of events |
| Policies | `cv` 133-178, 576-764, 853-1411 | tables `allowlists`, `mbpolicies`, a cache per worker | CRUD, implicit creation by POST of an agent | three transactions in one request, references, stale cache |
| Incremental attestation | `agentstates.py` | running PCR value and position in the IMA log | update, reset, resume | partial replies, reboot, restart |
| Quote checks | `cvc` 34-221, `tpm/tpm_main.py` | clock information | PCR, clock and signature checks | reset and restart counters, clock going back |
| IMA log checks | `ima/ima.py`, `ima/ast.py`, `ima/file_signatures.py` | learned keyrings | replay of the log | equal to a full replay? |
| Device mapper | `ima/ima_dm.py` | state of the devices, between attestations in memory | load, resume, remove, clear, rename, update | renames, logs cut anywhere, the state lost on a restart |
| Measured boot | `mba/` | variables the tests of a policy share, and marks on some of them | evaluation of a boot log | tests with memory tried in turn |
| Registrar | `web/registrar/`, `models/registrar/` | one record per agent | create, activate, delete | worker processes, partial re-registration, lost replies |
| Web framework, record models | `web/base/`, `models/base/` | one handler per request; changes and errors of a record | routing, dispatch, change tracking, commit | errors while errors are handled |
| Revocation notifier | `revocation_notifier.py` | broker process, threads | notify by ZeroMQ, webhook, agent | retries in threads, order |
| Tenant | `tenant.py` | keys and answers of one command | add, update, delete, reactivate, status, policies | many requests, lost answers, an agent that changes meanwhile |
| Policy tools | `policy/`, `cmd/create_policy.py` | - | policies from files, lists, packages and a base policy | mixed algorithms, order of the merges |
| Migrations | `migrations/`, `common/migrations.py` | tables, columns and where policies are | 35 revisions up and down | data moves, failing steps |
| Configuration | `cmd/convert_config.py`, `config.py` | configuration files | upgrade by mappings, file by file | sections of different releases |
| Durable attestation, certificates, vendored code | `da/`, `ca_*.py`, `backport_dataclasses.py` | - | I/O and conversions | - |

How they interact. The tenant calls the verifier's REST handlers, which write the
row and schedule a poller. Pollers and handlers share nothing but the row (all
workers) and, inside one worker, the event loop, the default failure object, the
attestation states and the policy cache. The agent is reached over HTTP; every
request ends with an answer or a time-out. A failed quote is announced to the
notifiers, one of which sends a notice to *every agent in the table*, and such a
notice may in turn store a row. The tenant asks the registrar for the agent's
attestation key, checks a quote of the agent with it, gives the agent one share of a
key and the verifier the other together with the attestation key; the verifier gives
its share to the agent it has attested. The registrar meets agents over plain HTTP
and everyone else over mutually authenticated TLS, in several processes with one
database. Policies come from the policy tools through the tenant.

What makes each correct, in short: a row that says its agent is attested is being
attested (loop, handlers, restart); a failure is recorded, announced and not lost
(loop, notifier, failures); the tenant's decision to remove or stop an agent wins
(handlers, loop); the payload key V goes only to a verified agent (loop); partial
attestation accepts what a full one accepts (incremental attestation); no policy
in use disappears and the one enforced is the one stored (policies); only keys
that one TPM has shown to hold together are active (registrar); a key is whole only
on the machine whose TPM was checked, and a command that reports success has done
what it was for (tenant); databases, configurations and policies lose nothing on
their way from one form to the next (migrations, configuration, policy tools).

## 2. Modules

| Module | Models |
|---|---|
| `AgentStates` | the operational states and the sets of them the code tests |
| `Failure` | a failure as what the loop reads of it: recoverable or not, and its first event of the highest severity |
| `FailureLog` | failures *with* their event lists, built by any sequence of `add_event` and `merge` |
| `Verifier` | the loop, the handlers, the database row, the notices to agents, several workers, the restart |
| `Attestation` | incremental attestation of one agent's IMA log: the position and PCR value kept per worker and in the row, the replay, reboots, restarts, policies |
| `Policies` | the two policy tables, the references from agents, POST and DELETE of agents as far as policies go, the policy handlers, the cache of each worker and the policy a poller carries |
| `Registrar` | create, activate and delete with the record model, in several workers |
| `Registration` | the abstract specification `Registrar` implements: keys on record become active only after the TPM has shown they belong together |
| `Dispatch` | one request through the web framework of the registrar: route, refusal of plain HTTP, parameters, action, errors |
| `Tenant` | the commands of `keylime_tenant` as sequences of requests; registrar, agent and verifier as a command sees them |
| `DeviceMapper` | the kernel's devices, the log of what is done to them, and the validator that follows the log |
| `BootTests`, `MeasuredBoot` | the tests measured boot policies are built from; the example policy and its evaluation on logs that are edited |
| `Quotes` | what a quote is checked for besides the measurement list: the tenant's policy options, the PCRs, the clock and the counts of the TPM |
| `PolicyTool` | `keylime-policy create runtime` and `keylime_create_policy` |
| `Migrations` | every revision of the databases, up and down, and where policies are in between |
| `ConfigUpgrade` | `keylime_upgrade_config`: configuration files through the mappings of the releases |
| `BootCases`, `PolicyToolCases`, `ConfigCases` | events and logs, command lines and files, mappings and templates: the cases `MeasuredBoot`, `PolicyTool` and `ConfigUpgrade` are run on |
| `MCVerifier`, `MCAttestation`, `MCRegistrar`, `MCServices`, `MCTools` | small instances |
| `VerifierProofs` | theorems about `Verifier`: types and pollers; what is said and sent, and what no step may do; and about `FailureLog` |
| `AttestationProofs`, `QuotesProofs` | theorems about `Attestation` and `Quotes` |
| `RegistrarProofs`, `PolicyProofs`, `TenantProofs` | theorems about `Registrar` and the web framework under it (`Dispatch`), `Policies` and `Tenant` |
| `DeviceMapperProofs` | theorems about `DeviceMapper` |
| `ToolsProofs` | theorems about `PolicyTool` and `Migrations` |

`MCServices` and `MCTools` put parts that do not interact side by side: `part` says
which one moves, and every other stays in its initial state (in `MCTools`, is None).
Each extends one of its parts, `MCServices` the registrar and `MCTools` the policy tools, and
instantiates the others.
Each behaviour is one of one part, so a property of a part says what it would in a
run of its own; the next-state relation of each part is one disjunct.

`Verifier` EXTENDS `AgentStates` and `Failure`; `FailureLog` EXTENDS `Failure`, so
what is checked of failures there is what the loop uses. `Attestation` stands alone:
of the loop it keeps only that a poller asks, gets a reply or not, and goes on or
stops, and of the handlers what they do to the row's attestation columns; in turn
`Verifier` keeps of the attestation state only whether one is stored and resumed. `Policies`
keeps of the loop that a poller reads the policy, waits and may end; `Tenant` keeps of
the registrar the key on record, of the agent its TPM, its key pair and the shares it
has opened, of the verifier the row. `MeasuredBoot` EXTENDS `BootTests`, `Registrar`
instantiates `Registration`.

`Quotes` stands alone too: of the loop it keeps the row and `tpm_clockinfo`, and that the
verifier may end between a quote and the write of the row.

Operators whose name has a suffix after an underscore (`Reset_Nothing`,
`Accepted_KeepsEncV`, ...) are *fault variants*: a plausible slip in the code they
stand beside, defined so that a reader can swap it in and see which property
notices. No specification uses them.

### How Verifier corresponds to the code

A **poller** is one agent dictionary together with the chain of callbacks that
carries it. There can be more pollers than agents: reactivating an agent, or
deleting it and adding it again, starts a new chain without ending the old one.

| Variable | Code |
|---|---|
| `db` | table `verifiermain`; of a row: `operational_state`; `severity_level` and `last_event_id` (`last`); whether `attestation_count` is above 0; `public_key`; whether `v` is set; `supported_version`; whether an attestation state is stored (`boot`) |
| `dict` | the dictionary of the loop: the same columns and the fields of `exclude_db` that matter (`b64_encrypted_V`, as the key it was made for; `provide_V`; `num_retries`) |
| `pc`, `call` | which await or timer the chain is at, and the arguments of the `process_agent` it leads to |
| `dflt` | the object behind `failure: Failure = Failure(...)` (cv 1743), one per worker process |
| `resumable` | agents whose position in the IMA log a worker holds (`agentstates.py`) |
| `notices` | agents being told of a revocation, with the dictionary made from their row |
| `announced`, `verified` | history: what was notified, which quotes verified under which key |
| `up`, `restarts` | hosts that still answer; restarts so far |

`process_agent` is two steps: the read and check of the stored row
(`StopPolling`, `Terminate`, `RecordFailure`, `Proceed`), then the write of all
columns and the dispatch on state and target (`FirstQuote`, `ProvideV`, `NoV`,
`NextQuote`, `RetryQuote`, `RetryV`, `Unreachable`, `GiveUp`, `PollOn`,
`FallOut`, ...). Between the two, other callbacks of the same worker run only
where the code awaits (`notify`); other *workers* may always step in, which is
why a poller in `recheck` or `checked` keeps its worker busy and nobody else's.
Two stretches the model makes atomic are so in the code up to that: a handler has
one statement that writes, and its read decides only between writes of the same
row (`Delete` reads and writes in one step; the window between them is a few
statements of one worker).

Abstractions worth knowing:

- An event identifier stands for a class of them: `not_reachable` also for
  `not_reachable_v`, `internal` for all the loop itself adds.
- What `process_quote_response` checks is an input: `QuoteRejected` takes any
  failure of `QuoteFailures`. Its control is modelled: a missing public key
  (`NoPublicKey`), a reboot that is answered without looking at the quote
  (`QuoteAfterReboot`), a new key that drops the encrypted V (`Accepted`).
- The reply may carry a public key whether or not one was asked for.
- `pending_event` is left out: it is only read after its timer has fired.
- Of the notices only those an agent may refuse are kept, since an accepted one
  changes nothing; a second upgrade through the live dictionary during one
  notification is left out.
- If the row is gone when it is written, the next access to it raises, and the call that
  follows finds no row and stops (`RowGone`). After an irrecoverable failure the field
  `pending_event` was deleted (cv 1809-1811), so that this call raises as well (1767), is
  caught and called again until the recursion is too deep. The poller ends in both cases, with
  nothing more written, so the model has one step for them.
- If the row is gone when a position is to be stored, `store_attestation_state` raises (188),
  and a second `process_agent`, with FAILED, is scheduled behind the first (1584). Both find
  no row and stop, as the one call of the model does (`StorePosition`). Left out is
  the agent that is added again in the same turn of the event loop, after the reply and
  before either runs: it would meet both calls, with one dictionary.
- A statement and its commit are one step; a failing database is not modelled.
- A handler that answers with an error changes nothing and has no action.
- A worker that dies alone is not restarted by `main()`; only the restart of the
  service as a whole is modelled.

### How Attestation corresponds to the code

| Variable | Code |
|---|---|
| `log`, `extended`, `boot` | the machine: its IMA log, how far PCR 10 has been extended with it, its boot time |
| `state` | `AgentAttestStates.map` of each worker: next entry, boot time, PCR value, whether PCR 10 is in `ima_pcrs` and in `TPMState.hash_alg`, whether a key was learned, `quote_progress` |
| `row` | the columns `boottime`, `next_ima_ml_entry`, `pcr10`, `learned_ima_keyrings` |
| `policy` | the contents of the runtime policy the row refers to |
| `pc`, `captured`, `asked`, `reply` | where a poller is, the policy `process_agent` read for it, the entry asked for, the reply |
| `sent`, `inForce`, `verdict` | history: what this boot has shown of its log, the policies since the POST, what the last step found |

`process_quote_response` and the `store_attestation_state` after it have no await
between them and are one action each way they can go: `TakenForReboot`,
`ReplyRefused` and `QuoteRefused` (early returns before the log is looked at) and
`Checked`. A PCR value is the sequence of entries it was extended with. An entry
is admitted by a digest in the policy or by a signature with a key that an
earlier, itself admitted, entry brought; the rules of one template kind and of
another differ in nothing else here. The machine answers honestly about its log:
the question is what the verifier makes of it, not what a forged log can do.

### How Quotes corresponds to the code

| Variable | Code |
|---|---|
| `asked`, `row` | the options of the tenant, and what `process_policy` and `do_cv` make of them: `tpm_policy` with its mask, whether a boot policy is valid, the key, the kept clock, `attestation_count` above 0 |
| `state` | `tpm_clockinfo` of the agent's `AgentAttestState` |
| `tpm`, `pcrs`, `machine`, `orderly` | the machine (external): clock and counts, PCRs, what was booted and run, the agent's key, and whether the clock only went forward |
| `last` | history: the verdict of the last quote, and what it should have been |

`CheckQuote` is `Tpm.check_quote`: `check_quote_timing` (`TimingFails`, `KeptClock`), then
`check_pcrs` with a set of failures for each of its parts, in the order that decides which
PCRs remain for the next. `ProcessQuoteResponse` adds what `process_quote_response`
refuses before (no key, an algorithm that was not asked for) and keeps after. Signatures and
digests are what they are for: a reply is the machine's own with at most one thing amiss,
a boot log is the PCR values it leads to. Two things one might not expect are the code's:
if both counts differ from the kept ones the clock is neither compared nor kept (a TPM
that has been reset and resumed before its first quote is not compared until it is
reset again), and a TPM that has been suspended is refused after its next reset,
since the restart count falls to 0. `orderly` excludes only the second.

### How the services correspond to the code

- **Policies.** A handler never awaits, so its worker does nothing else, but each of
  its statements is a step: `PostStart`, `PostRuntime`, `PostMb`, `PostStore`,
  `PostAgent` are the reads and transactions of POST in order (cv 556-790),
  `ChangePolicy` and `WritePolicy` the read and the write of `AllowlistHandler` and
  `MbpolicyHandler`, `DeleteStart` with `DeleteRemove` or `DeleteMark` the DELETE.
  `PollChecksum` and `PollLoad` are `verifier_read_policy_from_cache`; `captured` is the
  policy that `call_later` carries to the next check. A checksum stands for its text.
  `Removable` is what the foreign keys let the one transaction of
  `verifier_db_delete_agent` do: all of it or, when another agent refers to a policy of the
  agent's name, nothing, and the handler answers 200 either way (cv 478-482).
- **Registrar.** A record in memory is what was loaded, the changes and the fields in
  error, as in `basic_model.py`; `Update` is `RegistrarAgent.update` with every check, and
  `Store` what SQLAlchemy writes: the columns that changed, against the row that is
  there by then. `Create` is the read and the checks, `CreateWrite` the challenge and the
  commit; the same for `Activate` and `Delete`. TPM2_ActivateCredential is external: a
  challenge can be answered by a TPM that has both keys (`Answerable`).
- **Dispatch.** The routes are those of `RegistrarServer` through both version scopes;
  the actions are those of `ActionHandler`: `prepare`, `process_request`, `write_error`.
- **Tenant.** A command is the list of functions it still has to call; a function that
  retries or asks again is one step for each request. Every step may fail, an answer
  may be lost after it had its effect, and the peers may act between any two. Only 503
  and 504 make `do_cvdelete` raise, and only 202 makes it wait: after any other answer (400,
  404 for the row of another verifier, 500, the 200 of a removal the database refused) it
  returns with the row as it is (`DoCvdelete`). The row is in one of four states: polled, failed
  (the poller gave up, `PollerFails`), terminated or stopped; `DoCvreactivate` gets a failed one
  polled and leaves the marks of the tenant, as the new poller does (cv 1771-1784).
- **DeviceMapper.** `Load` to `Update` are the kernel (external): each changes a device
  and appends the entry `dm-ima` measures. `Validate` is `DmIMAValidator.validate` with a
  branch for each event; `Attest` cuts the log as `_process_measurement_list` does,
  keeping the state that belongs to the entry the quote accounts for.
- **MeasuredBoot, BootTests.** A test is a record and `WhyNot` its evaluation with the
  shared variables; marks of `OnceTest` are among them, one for each object: the `db`
  among the variables of the driver configuration and the `db` among the authorities (`example.py`
  247, 294) are two. The policy is built as `Example.refstate_to_test` builds it. Regular
  expressions are the sets of strings that match them, of the strings that occur; one
  string may match several (a path with both `/grub` and `/vmlinuz`).
- **PolicyTool.** A digest is an algorithm and what was digested; a path a sequence of
  names, each cut where a string prefix may end. Reading a file, an archive or a
  repository gives what is in it. What a list says is a set, but for its first line, from
  which the algorithm is guessed; packages that share a name are taken in any order.
- **Migrations.** Each revision is two lists of steps, in the order of the file; a step
  that raises ends the command, as alembic's transaction does. `32902c0a8d90` creates its
  table unless it is there (`Ensure`). A column or a table that is
  dropped takes with it what the rows have there. An agent may be added at any release that
  can store it: those whose policies are columns, the one in the middle that keeps allowlists
  in a table, and the last; what it was `given` is kept as long as some column of its
  row can hold it.
- **ConfigUpgrade.** `ProcessFullMapping`, `ProcessUpdateMapping` and `Output` are the
  functions of those names; a file is written through the template of its version, so
  options a template does not know go.

## 3. Properties and runs

Type invariants aside, the properties are:

| Property | Says |
|---|---|
| `NoOrphan` | a row in START, GET_QUOTE or PROVIDE_V has a poller |
| `VUnderVerifiedKey` | V is sent only under a key that came with a verified quote of that agent, and a cached ciphertext belongs to the current key |
| `FailuresAnnounced` | a row in INVALID_QUOTE was announced first |
| `WorstFailureEndsPolling` | after a failure of the highest severity no request or timer is left |
| `OnlyFailedAgentsFallOut` / `NothingFallsOut` | `process_agent` has a branch for every state and target it meets; the first excepts agents polled on in INVALID_QUOTE |
| `FailureStays` | no write turns FAILED or INVALID_QUOTE into GET_QUOTE or PROVIDE_V |
| `TenantVerdictSticks` | a row that is TERMINATED or TENANT_FAILED is not put back by a write under way |
| `DeleteCompletes` | TERMINATED leads to removal (or to the tenant stopping the agent) |
| `DeadHostIsNoticed` | an agent whose host is gone leaves the states of attestation |
| `UnreachableIsEarned` | the event `not_reachable` is recorded only for an agent that used up its own retries |
| `AcceptedAsInFull` | a quote accepted from part of the log is accepted by a replay of all of it under the agent's own policies |
| `RejectedAsInFull` | a log that such a replay accepts is not rejected, unless the quote lags behind what was shown before |
| `PositionsSound` | a remembered position of the present boot lies in the log, with the PCR value of the entries before it, all of them admitted |
| `ImplementsRegistration` | with one worker, every step of the registrar is a step of `Registration` or none that shows |
| `ActiveIsBound` | an active record has an EK and an AK that live in one TPM |
| `CertsMatchKeys` | a certificate on record is for the key beside it, and trusted where it has to be, however the record came about |
| `InsecureKeptOut` | over plain HTTP no request reaches the list, the records or the removal of agents |
| `RefersToNamedPolicy` | an agent refers to the policies it was added with, by name, as long as it exists |
| `DeletedMeansGone` | a DELETE answered 200 leaves neither the row nor a policy of its name, or both as they were; and that only if another agent was added with a policy of that name |
| `UpdateIsEnforced` | a policy that is replaced and left alone is what the poller checks quotes by, sooner or later |
| `KeyReachesAttestedTPM` | the two shares of a key meet only on the TPM the command checked and the verifier attests |
| `OkMeansDone` | with one tenant, an add or update that ends well leaves the verifier with the key it read and the share it sent |
| `CommandEnds` | every command ends |
| `SummaryIsTrue` | a failure reports the first of its events of the highest severity, and is irrecoverable if one of them is, through every nesting of adds and merges |
| `HeadServesModels` | at the last revision every table has the columns the classes use, however often the database went up and down |
| `PoliciesSurvive` | at the last revision, and before policies had tables, each agent has the policies it was added with |
| `AcceptedRunsAllowed` | once its log is accepted a device runs a table its rule allows, and the rule is the one it was loaded under |
| `OrderlyIsAccepted` | the log of a device that keeps its rule is accepted, however it is cut; and the truthful quote of a machine as the tenant asked, with an orderly clock |
| `AcceptsAllowedBoots` | the example policy accepts a log exactly if it describes an allowed boot |
| `OneLength` | digests of one policy, from whatever sources but repositories, have one length |
| `BaseSurvives` | everything a base policy says is in the policy made from it |
| `LeftOutStaysOut` | keys of ignored keyrings and skipped files do not get into the policy |
| `UpgradeKeepsValues` | an option the user has set keeps its value through every conversion, and no option of a template is written without a value |
| `AcceptedMeetsPolicy` | a quote is accepted only of a machine as the tenant asked: PCRs of the policy, files, boot and its log, the agent's own key, a clock that has gone on |

`AcceptedAsInFull` reads "policies" because PUT /allowlists may change the policy
under a polled agent: each entry was admitted by one that was in force. Entries
passed under the old policy are not looked at again; the property with the
present policy alone would be false, by design of incremental attestation.

| Run | Instance | Shows |
|---|---|---|
| `one_poller` | 1 agent, 1 poller, 2 keys, API versions 1-2, 1 retry, 1 restart, mild and grave failed quotes, V or none | the loop's safety and `DeadHostIsNoticed` |
| `two_workers` | 1 agent, 2 workers with a poller each, notices awaited, mild and fatal failures | `NoOrphan`, `FailuresAnnounced` under finest interleaving |
| `default_policy` | 1 agent, 2 pollers in one worker, every failure of the highest severity, nothing awaited before the write | `NothingFallsOut`, `TenantVerdictSticks`, `DeleteCompletes` |
| `notices` | 2 agents, 1 poller, API versions 1-2, notices to agents | `FailuresAnnounced` while late copies of rows are stored |
| `attestation` | 1 worker, 1 poller, logs of up to 3 entries (a key, a signed file), 2 boots, 2 policies | `AcceptedAsInFull`, `RejectedAsInFull`, `PositionsSound` |
| `services`: registrar | 1 agent, 1 worker, 2 TPMs with 2 EKs, 3 AKs, an IAK; full, partial, wrong and null registrations; 2 challenges | `ImplementsRegistration`, `ActiveIsBound`, `CertsMatchKeys` |
| `services`: dispatch | methods known and unknown, 13 paths, with and without TLS, malformed or missing parameters | `InsecureKeptOut` |
| `services`: policies | 1 agent, 1 given name, 2 texts; once 1 worker with updates, once 2 workers | `RefersToNamedPolicy`, `DeletedMeansGone`; `UpdateIsEnforced` with one |
| `services`: policies, two agents | 1 worker; one agent with policies of its own name, one that is given them, either sort | `RefersToNamedPolicy`, `DeletedMeansGone`, with removals that the database refuses |
| `services`: tenant | 2 TPMs, one genuine, 2 commands, 1 restart of the host; once 1 tenant with all commands, once 2 with add and delete | `KeyReachesAttestedTPM`; `OkMeansDone` and `CommandEnds` with one |
| `tools`: failure | 2 failures, 2 identifiers, severities 0-1, 2 events | `SummaryIsTrue` |
| `tools`: migrations | 2 agents, a list that bears an agent's name and one that does not, 2 policies | `HeadServesModels`, `PoliciesSurvive` |
| `tools`: mapper | 2 devices, 2 names, 2 rules, 4 events; 3 with a restart | `AcceptedRunsAllowed`, `OrderlyIsAccepted` |
| `tools`: boot | logs of good boots with and without secure boot, with keys, databases and authorities of both sorts, with one event lost, repeated, moved or exchanged | `AcceptsAllowedBoots` |
| `tools`: tool | every combination of four sources, two root file systems, skipped paths, keyrings; repositories | `OneLength`, `BaseSurvives`, `LeftOutStaysOut` |
| `tools`: config | five releases in small, one option set by the user, files converted together or apart, to the last or a chosen release | `UpgradeKeepsValues` |
| `tools`: quotes | a boot PCR, another PCR, two boot logs, two keys, five sets of options, replies with at most one thing amiss, 3 ticks, 1 reset, 1 restart | `AcceptedMeetsPolicy`, `OrderlyIsAccepted` |
| `registrar_race` | as `services`: registrar, 2 workers | `ActiveIsBound` violated |
| `fall_out` | as `one_poller`, mild failures | `NothingFallsOut` violated |
| `lost_delete` | 1 agent, 1 poller, notices awaited | `TenantVerdictSticks` violated |
| `borrowed_event` | 2 agents, 2 pollers, 1 worker | `UnreachableIsEarned` violated |
| `delete_restart` | 1 agent, 1 poller, 1 restart | `DeleteCompletes` violated |

**Bounds.** `MaxRetries` is a configuration value: 1 gives the first retry, the
last and the exhausted one, and 0 the agent that gets none. `MaxVersion` 2 is one
upgrade; a second meets the same guards. `MaxRestarts` 1 lets a restart happen at
any point of any history; nothing is remembered of an earlier one but the row.
`MaxNotices` bounds the notices under way. Two pollers are the least that can
disagree about a row; the proof (below) has no bound on any of these. Two keys
are what a re-registered agent needs to show a stale ciphertext. Events of two
severities tell "highest" from "not highest"; a third would only repeat the
comparison. In `notices` agents, in no other run, are symmetric.
In `attestation` three entries are what a lag needs that is caught up in part (one
passed, one shown, one new), and two boots what a stale position needs. Restarts,
deletions and updates are not bounded.

In `services`, two challenges are a first registration and one that replaces it; two
keys in one TPM and one in another are the least that can be exchanged rightly and
wrongly. Two texts are an update and what it replaces. Two commands are one and the
one that finds what it left behind; two tries (`Maxr`) are a retry and the last. A second
agent is what it takes to have a removal refused; two workers and two agents together are more
states than a run has time for, and the theorem `DeletedAreGone` has no such bound.
In `tools`, a device event needs at most a load, a resume and a rename before it to
matter; one edit of a boot log is enough to break any single expectation of the policy,
and the good logs already have every event. In `quotes` three ticks are a quote that is kept,
one thing that happens to the TPM and a quote that is compared; one boot PCR and one other are
each a PCR of their kind, and the options name each alone and both. The configurations of `ConfigCases` are
the mappings of releases 2.0 to 2.4 with the options whose mapping is of a kind of its
own (renamed, moved, added, replaced, untouched).

**Fairness.** `FairSpec` adds weak fairness of each poller's step: the event loop
runs what is ready, a request is answered or ends with `request_timeout`, a timer
fires. No handler, restart, notice or failing host is fair: nobody has to send a
request. Two pollers of one worker never exclude each other for ever, since a
busy worker's own next step is one of the fair ones. `DeadHostIsNoticed` needs no
more: with the host gone only connection errors and failed version requests are
left, and each counts. `UpdateIsEnforced` assumes that a worker goes on with
the handler it is in (weak fairness) and that the timer of a poller, which other
handlers hold up again and again, is served in the end (strong fairness of
`PollChecksum`): the event loop is a queue. `CommandEnds` assumes that a tenant takes
its steps, and nothing of its peers. The runs of the verifier and of
`Attestation` check for deadlock: a request can always come. `services` and `tools`
do not: one request is answered, a log or an edit budget is used up.

### What does not hold, and why

1. `fall_out`. "nothing should ever fall out of this!" (cv 1942) does: a failure
   below the highest severity leaves the agent polled in INVALID_QUOTE, for which
   there is no branch after a good quote or a connection error.
2. `lost_delete`. The stored state is checked before `notify_error` is awaited and
   the row written after it; a DELETE answered 202 in between is overwritten.
3. `borrowed_event`. The default argument of `process_agent` is one object for all
   calls of a worker, and keeps its first event.
4. `delete_restart`. A restart after the 202 leaves a TERMINATED row nobody polls.
5. `registrar_race`. An activation that was read before a re-registration was stored
   writes `active` beside keys it never saw.

Each is the negation of something checked elsewhere: `default_policy`, `one_poller`
and `services` say in which configuration the same property holds. Further
limits show in the properties' conditions or in what the modules had to model,
rather than in a run of their own:

- `FailureStays` is checked with one poller per agent. A reactivation (cv 814-827)
  starts another whatever state the row is in, and the older one then writes
  GET_QUOTE over the failure recorded by the newer. `FailuresStay` proves it of any
  number of pollers if an agent is added or reactivated only when none is left for it.
- `NoOrphan` assumes `StableVersions`. A notice refused for its API version is
  followed by a write of a whole copy of another agent's row, made when somebody
  else failed (cv 1684, 1470); if that agent failed for good meanwhile, its row
  says GET_QUOTE again and no poller is left.
- The attestation properties are checked for one worker, one poller and no second
  DELETE under a request (`EarlyDelete` FALSE). The position outlives the row when
  another worker handles the DELETE, or when a late reply creates it anew after a
  second DELETE; an agent added again with another policy then resumes there, and
  `AcceptedAsInFull` fails. Two pollers of one worker (a reactivation of a polled
  agent) share a position, the second reply does not start where the first has
  moved it, and `RejectedAsInFull` fails.
- `RefersToNamedPolicy` is checked for databases that do not give an id twice. SQLite
  gives the highest again once it is free (`Sqlite` TRUE), and with two workers an
  agent may then refer to a policy of another name. An agent's own policy, once another
  agent uses it, stops the removal: nothing is removed, as `DeletedMeansGone` allows in this
  one case, the answer is 200, and a poller that meets the mark of such an agent calls itself
  until Python gives up (`Fail`). A second DELETE before the poller has met the mark
  is answered 200 as well.
- `UpdateIsEnforced` is checked with one worker, whose poller is the one the handlers
  start. The comment at cv 579 gives an agent without name and policy the empty policy
  under its UUID; a policy stored under the UUID already is taken as it is
  (`PostRuntime`).
- `BindAkToIak` (`registrar_agent.py` 172-174) binds the AK to the IAK only if one
  request has both, though its comment says either: a later registration with a new AK
  alone is not checked. `CheckCertCompliance` compares the new certificate with the
  value the change already overlays, so the action `reject` never rejects (116-121).
- Malformed parameters are an error that is handled by an action called with the same
  parameters: `get_params` meets the kind it did not add and the answer is 500, not the
  400 of `malformed_params` (`InvokeDefault`; `controller.py` 334).
- The state of the device mapper is in memory only. After a restart an entry that
  names a device loaded before it is a failure, and `OrderlyIsAccepted` is checked without
  restarts. With a policy on uuids a renamed device is stored under its new *name*
  (`ima_dm.py` 262), so the instances match on names.
- A device that is renamed keeps its rule only until something is loaded into it or the
  verifier restarts; the load is then judged by the first rule that matches the new name,
  which need not be the old one. A resume names the table by its hash alone, so a table of the one
  rule may run under the other. `AcceptedRunsAllowed` therefore needs of a policy that the rule
  of a name a device may be given allows the tables of the rule it comes from, where it has
  `allow_multiple_loads` or the verifier may restart (`RenamesKeepTargets`); the proof asked for it, and
  TLC finds the property violated for two rules without it. Those of the instances have it.
- Going down from `f4196d13fe45` raises as soon as an agent refers to a measured boot
  policy, whose row is deleted while referred to; `257fe0f0c039` and `bc3b6b551b0a` always raise
  on the way down. Nothing is lost by it: the step is undone. What goes is what the older
  schema has no place for: measured boot policies below `ae898986c6e9`, and, below
  `a72aec03d720`, allowlists whose name is no agent's, which are deleted all the same. The
  column `allowlist` is added back by the way down from the revision above, `4329e2d14944`: going
  down from `a72aec03d720` itself, where the upgrade stopped there, raises if a list is stored
  (`Raises`).
- `OneLength` leaves out repositories, whose digests nobody compares. A base policy or
  allowlist of SHA-256 alone leaves the algorithm "sha256 or sm3", which cannot be
  calculated, so the files of `--rootfs` have no digests, although the help text of
  `--algo` (449) promises a fallback; with `--algo sha256` beside it the command is
  refused. `--skip-path` has no effect for the root `/`, and mount points are compared as
  strings (106), so that `/var` covers `/variant`. With `-m` and no value, `-k` or `-b`
  open None. `keylime_create_policy` replaces what the base policy has on the names of
  a repository.
- An upgrade from 2.2 to 2.3 raises: the mapping asks section `revocations` for a
  version it never gets (`convert_config.py` 544), although the docstring (685) says all
  transformations are applied; the files stay as they were. With `--version` newer sections are
  brought to the older template. The old single file is read only if none of the new
  ones is there, so its other values are lost once one component was converted.
- `keylime_tenant -c delete` may end well with the row still there (see *Tenant* above), so
  `OkMeansDone` says nothing of it. An update whose delete returned like that goes on to
  an add that is refused with 409, and does not end well.
- `keylime_tenant -c update` deletes first: if the add fails, the agent stays removed.
  `add` for an agent that is there sends it a new share U before it is refused with 409;
  `KeyReachesAttestedTPM` holds, and the payload of the first command is gone.

## 4. Proofs

Each theorem is for any values of the constants: any sets of agents, workers, pollers,
keys, requests, entries, policies, and any bounds. TLAPS checks them from the assumptions
the modules declare (`VerifierAssumption`, `AttestationAssumption`, `HomeAssumption`,
`RequestsAssumption`, that of `Failure`, and `NoneAssumption`: None is no row) and the hypotheses
in the tables. Every invariant here was first checked on the instances above.

### The verifier

| Theorem | Statement | Hypothesis |
|---|---|---|
| `TypeCorrect` | `[]TypeOK` | |
| `AttestedAgentsArePolled` | `[]NoOrphan` | `StableVersions` |
| `VOnlyUnderVerifiedKey` | `[]VUnderVerifiedKey` | |
| `InvalidQuotesAreAnnounced` | `[]FailuresAnnounced` | |
| `AttestedAgentsAreHandled` | `[]OnlyFailedAgentsFallOut` | |
| `NoPollingAfterTheWorst` | `[]WorstFailureEndsPolling` | `ImportedMaxSev = MaxSev` |
| `NothingFallsOutByDefault` | `[]NothingFallsOut` | `AllStop` |
| `VerdictsStick` | `TenantVerdictSticks` | `Undisturbed` |
| `FailuresStay` | `FailureStays` | `StableVersions`, `PolledOnce` |
| `InductiveInvariant`, `SafeInvariant` | `[]Inductive`, `[]Safe` | |

`NoOrphan` is not inductive. A poller writes its own state into the row when it
passes "propagate all state", so one has to know what dictionary it carries while
it waits: `Inductive` adds `PollersSound` (a poller that waits or is scheduled carries an
agent, and one about to give up, whose next write is its last, carries a state that is
not a state of attestation) and `NoticesSound` (without upgrades there are no notices to
write rows back). The proof has a lemma per action. The key cases are `GiveUp`, where the
poller goes and the row it just wrote must say so, `StopPolling`, where the poller goes
because the row is already gone or stopped, and `Activate`, where every row that was reset
to START is given to a poller.

`Safe` joins two halves. A row is a copy of a dictionary, which is a copy of a row, of
whatever age; so what holds of one has to hold of all: the key in each is one of a verified
quote, an invalid quote in each was announced, and an encrypted V is for the key beside it
(`RowsBacked`, `DictsBacked`, `NoticesBacked`). And a poller is where its state and the state
it was asked to go to allow it to be (`PollersProper`): the failure it carries, be it its
own or the shared default object, ends the polling when it has to. The shared object only
ever becomes worse, which is why sharing it does not break these five properties, while it
breaks `UnreachableIsEarned` (`borrowed_event`).

The hypotheses are where the properties end. `ImportedMaxSev` is bound when the module is
imported and `MaxSev` is the label as configured later: if they differ no failure stops the polling.
`AllStop` is the default policy, under which every failure is of the highest severity; `fall_out`
shows what happens otherwise. `Undisturbed` (one worker, no notices to agents, one API version)
leaves nothing between the check of a row and its write: `Exclusive` says that one poller is
between the two at most and that what it checked still holds; `lost_delete` shows the property
without it. `PolledOnce` says that an agent is added or reactivated when no poller is left for
it, and with one poller it holds of every behaviour; then (`Alone`) an agent has one poller
that failed too where the row shows a failure.

Failures have theorems of their own, about `FailureLog`:

| Theorem | Statement | Hypothesis |
|---|---|---|
| `HighestIsFirst` | `[]TopIsFirstHighest` | |
| `FatalEventsShow` | `[]FatalEventIsNotHidden` | |
| `ObjectsSumUp` | `[]AllSumUp` | |

A failure object is the sum of its events: its highest event is the first of the highest
severity in the list, and it is irrecoverable if one of them is, which is then of the highest
severity. `add_event` is a merge with the object of one event, so one lemma on `merge`, with
the lists one after the other, serves both. They hold for any number of severities,
events and objects; this is what allows `Failure`, which the loop uses, to keep no lists.

### Incremental attestation and quotes

| Theorem | Statement | Hypothesis |
|---|---|---|
| `AttestationTypeCorrect` | `[]TypeOK` | |
| `PartIsEnough` | `[]AcceptedAsInFull` | `OneLoop` |
| `PartIsNotTooMuch` | `[]RejectedAsInFull` | `OneLoop` |
| `PositionsStayInStep` | `[]PositionsSound` | `OneLoop` |
| `PositionsAreKept` | `[](Inductive /\ VerdictSound)` | `OneLoop` |
| `QuotesTypeCorrect` | `[]TypeOK` | `QuotesAssumption` |
| `OnlyAsAsked` | `[]AcceptedMeetsPolicy` | `QuotesAssumption` |
| `AsAskedIsEnough` | `[]OrderlyIsAccepted` | `QuotesAssumption` |
| `QuotesAreSound` | `[]Inductive` | `QuotesAssumption` |

`PositionsSound` alone does not follow a step: a position may be passed by a quote whose reply
is still to come, so `Placed` says of a log that the position is in it, and that some longer
beginning of it, up to an entry that was looked at, passes a full replay and brought the
key if a key is kept. It holds of the machine's log, and of the log in a reply under way if
position and reply are of one boot; what was shown before bounds what is left to see
(`Shown`). A replay from a position is then the end of a replay of the whole: the facts about
replays of sequences are lemmas of `AttestationProofs` over `SequenceTheorems`, none of them by
induction. `OneLoop` is one worker with one poller and no second DELETE under a request;
the limits above say what happens without each of the three.

In `Quotes` the verdict is stated where the quote is judged, so the invariant has to say what
the judge relies on: the row is what `process_policy` makes of the options (`RowSound`), a boot
PCR has the value its log leads to or was extended later (`MachineSound`), and while the clock
is orderly, a clock that is kept is behind the TPM's (`ClockSound`). `QuotesAssumption` says that
boot PCRs are not those of IMA and of the data, that two boot logs leading to the same values
are one, and that an extended PCR has the value of none: the last two are that the hash is free
of collisions. `MCTools` has TLC check that its instance satisfies it, and `MCServices` the same
of `TenantAssumption` and `PoliciesAssumption`.

### The registrar, the policies and the tenant

| Theorem | Statement | Hypothesis |
|---|---|---|
| `RegistrarTypeCorrect` | `[]TypeOK` | `RegistrarAssumption`, `OneWorker` |
| `BoundIfActive` | `[]ActiveIsBound` | the same |
| `RegistrationImplemented` | `ImplementsRegistration`, the refinement of `Registration` | the same |
| `CertificatesMatch` | `[]CertsMatchKeys` | the same |
| `RecordsAreSound`, `RecordsAreCertified` | `[]Inductive`, `[]Certified` | the same |
| `PoliciesTypeCorrect` | `[]TypeOK` | `PoliciesAssumption` |
| `PoliciesStayNamed` | `[]RefersToNamedPolicy` | `PoliciesAssumption` |
| `DeletedAreGone` | `DeletedMeansGone` | `PoliciesAssumption` |
| `ReferencesAreSound` | `[]Inductive` | `PoliciesAssumption` |
| `KeyIsForTheAttested` | `[]KeyReachesAttestedTPM` | `TenantAssumption` |
| `EndedWellIsDone` | `OkMeansDone` | `TenantAssumption`, `OneTenant` |
| `TenantTypeCorrect`, `SharesAreSound` | `[]TypeOK`, `[]Inductive` | `TenantAssumption` |
| `PlainHttpKeptOut` | `[]InsecureKeptOut` | |

`RegistrarAssumption`: requests give keys of their kind; None and Malformed are no other
value, no row and no identity. `ActiveIsBound` is not inductive: a request reads the row in
one step and writes it in a later one. `TasksSound` says that what it carries is still the
row, which is where one worker is needed (`registrar_race` shows what two do); `KeysSound` that
a record is active only with the keys it was loaded with, from a lemma on `Update`;
`ChallengesSound` that a challenge whose key is on record was made for the keys on record, so
that its answer speaks of them. Every step then is a `Register`, `Activate` or `Remove` of one
agent, or none. `Certified` adds what a record that is about to be written has passed: its
certificates are for the keys beside them, be either from the request or from the row.

`PoliciesAssumption` says that the sets are finite, that requests give what they may and that
the database does not give an id twice (`Sqlite` FALSE; the limits above say what happens if
it does). A POST learns an id in one transaction and stores it in a later one, and the policy may
be removed and another created in between by another worker: `TaskSound` says that a row that
bears the id a POST has noted is the one it asks for, which holds because a new id is
neither stored nor held by anybody (`FreshId`, from the cardinalities of finite sets). `OneRow`
is that an id is of one row, `AgentSound` that the rows an agent refers to are there, as a row
is only removed when nobody else refers to it. A removal is refused because some other agent
refers to the id of a policy of the agent's name; by `OneRow` and `AgentSound` that
agent was added with a policy of this name, which is what `DeletedMeansGone` says.

The invariant of the tenant follows what a command learns. Its share is its own and, before
`init_add`, with nobody; its attestation key is the one noted for the share; a public
key it holds is of a key pair that an accepted TPM has, unless the host has started
since, and then the pair is another. `Sane` says of what is left of a script that nothing
is added before the key is known and that what a function leaves out is there; the lemma
`ScriptSane` has it for every script.

What a command reports is another matter: its row is stored by one request and looked at by a
later one, or taken away by one and asked for again. `Work` says of each script what order its
functions have and that one that is left out has nothing to do, and, once add or update
has come to look at the row, that the row is stored and the tenant has not marked it. Nobody takes it away then if
there is one tenant (`OneTenant`); with two, another may delete the agent between.

In `Dispatch` the permission for plain HTTP is of a route, and what runs is an action: the
invariant (`KeptOut`) says that over HTTP the route that was matched is for an open action, and
that only those and the default ones ran. It rests on the routes as they are listed after
`version_scope` (`OpenRoutes`) and on the first that matches being one of them (`FoundIsRoute`).

### The device mapper

| Theorem | Statement | Hypothesis |
|---|---|---|
| `DeviceMapperTypes` | `[]TypeOK` | `DeviceMapperAssumption` |
| `AcceptedAreAllowed` | `[]AcceptedRunsAllowed` | the same, `MatchOn = "name"`, `RenamesKeepTargets` |
| `OrderlyLogsPass` | `[]OrderlyIsAccepted` | `DeviceMapperAssumption`, `MatchOn = "name"`, `MaxRestarts = 0` |

The validator's state belongs to the entry the last quote accounted for, the devices to
the end of the log, and the quote may lag. The invariant therefore says that there is
a history of the devices, one for each entry (`History`), and that the state fits the
devices as they were after that entry (`Fits`): a device is known by a rule it was loaded or
renamed under, and that rule allows what is in both of its slots. An attestation takes the state
along the history, entry by entry, which is an induction over the entries between the two
positions: it is made with a set of numbers and the well-foundedness of their order
(`InductionOnSet`), as is that `Run`, a recursive function, has the values its definition gives it
(`RunFacts`). For an orderly log (`Exact`) the state is exactly that of the one device. `MCTools` has
TLC check `DeviceMapperAssumption` and `RenamesKeepTargets` of its two instances. The last two
theorems are of policies on names, the first of both kinds.

### The policy tools and the migrations

| Theorem | Statement | Hypothesis |
|---|---|---|
| `PoliciesAreTyped` | `[]TypeOK` of `PolicyTool` | `PolicyToolAssumption` |
| `DigestsOfOneLength` | `[]OneLength` | the same, `ListsOfOneLength` |
| `BasePoliciesSurvive` | `[]BaseSurvives` | `PolicyToolAssumption` |
| `LeftOutIsLeftOut` | `[]LeftOutStaysOut` | `PolicyToolAssumption` |
| `DatabasesAreTyped` | `[]TypeOK` of `Migrations` | `MigrationsAssumption` |
| `MigrationsKeepPolicies` | `[]PoliciesSurvive` | `MigrationsAssumption` |
| `PoliciesAreWhereTheRevisionSays` | `[]Inductive` | `MigrationsAssumption` |

The tools take one step, so what is to be proved is about the function they compute. A policy is
the base policy with a part for each source (`CombinedAt`, `AddsRest`), for each name the union
of what the sources say of it. `BaseSurvives` is then a fact about unions, `LeftOutStaysOut` one
about what each part leaves out: a file below a skipped directory is one of those
`AllFiles` excludes, because what its path has in common with the directory's is the same from the
root on (`BelowBoth`, on sequences). For `OneLength` the four sources are asked for their
algorithm one after the other, and what has been agreed on never changes its length
(`AgreeStep`): what is chosen is of the length of all. `PolicyToolAssumption` says that lists are made
of digests, base policies of the parts of a policy and paths of names, and that one digest
is a certificate or none. `ListsOfOneLength` says that a list has digests of one length; the
tool looks at the first line only and takes the others as they are, so without it the theorem fails.

What the migrations keep needs to be known at every revision, not only where it is looked
at: a policy is in a column, in a column and a table, in a table that nothing refers to yet, or
there with a reference to it. `At` says, for each of the 36 states of the schema, which columns of
`verifiermain` there are (`ColumnsAt`), which place has the policy of an agent (`HeldAt`, for
allowlists and for measured boot policies) and in which format (`FormatAt`). Steps that touch other columns
change none of it, and a revision made of such steps is `Harmless`: 27 of the 35 are, 24 of them both ways, by
one lemma each and one for all of them together in either direction (`HarmlessUp`,
`HarmlessDown`). The other ways up and down have a lemma of their own (`Up1` to `Up33`, `Down1`
to `Down32`), where what matters is the order of their steps: what is moved has to be read before its column is dropped, a reference has
to be given before anybody follows it. `MigrationsAssumption` says that None is no policy, agent or row.

`MCTools` has TLC check the three hypotheses of its instances.

### Only model-checked

All liveness (`DeleteCompletes`, `DeadHostIsNoticed`, `UpdateIsEnforced`, `CommandEnds`): fairness
and ENABLED are out of the prover's reach. `UnreachableIsEarned` does not hold.
`HeadServesModels` depends on no constant: the columns a database may have at each revision are
the same for any agents and policies, and TLC sees them all. `BootTests` declares a RECURSIVE
operator, a test being a tree of tests; it and `MeasuredBoot`, which extends it, stay with
TLC. So does `ConfigUpgrade`: what its folds over the options and the mappings compute for every input
takes an induction over data, which the prover does not have either.

## 5. Plan

In this order, the most important behaviour first:

1. *(done)* `AgentStates`, `Failure`, `FailureLog`, `Verifier`, `VerifierProofs`.
2. *(done)* `Attestation`, checked against a replay of the whole log at every
   verdict.
3. *(done)* `Policies`, `Registrar` with `Registration`, `Dispatch`, `Tenant`: the services.
4. *(done)* `DeviceMapper`, `BootTests` and `MeasuredBoot`, `PolicyTool`, `Migrations`,
   `ConfigUpgrade`: the parts that run alone.
5. *(done)* `Quotes`: the clock and PCR checks of a quote against what the tenant asked for.
6. *(done)* Theorems: every safety invariant of `Verifier`, `Attestation`, `Registrar`,
   `Policies`, `Tenant`, `Dispatch`, `DeviceMapper`, `FailureLog`, `Quotes` and `PolicyTool` that holds,
   what `Migrations` keeps, the action properties of `Verifier`, `Policies` and `Tenant`, and the
   refinement of `Registration`.
7. The notifier's threads, in the place of a run that has become a theorem.
8. Certificates as the registrar compares them, beyond whose keys they are.

## 6. Not modelled

Cryptography, TPM marshalling, parsing of logs, policies and event logs, TLS, sockets
and logging: they are conversions or I/O with no state the properties could be about.
`/verify/identity` keeps no state and is one such check. Durable attestation writes to
an external store beside the loop. The certificate authority, the unpacking of initial
ramdisks and packages, the signing of policies and the extraction of a measured boot
policy from a log are offline, sequential and without decisions beyond their formats.
Of the configuration converter the choice of a single mapping file, the quotes of old
values and the adjustment of release 2.0 (`adjust.py`) are left out; of the handlers
those of GET, which change nothing, and of the commands the parsing of their options.
The dataclasses are a copy of a Python standard module.
