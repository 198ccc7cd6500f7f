------------------------------ MODULE MCTools -------------------------------
(* The parts that run alone, one at a time: the failure objects, the migrations of
   the databases, the device mapper validator, the example policy for measured
   boot, the check of quotes, the policy tools, which this module extends, and the upgrade of the configuration
   files. part says which one moves; the variables of the others are None. *)
EXTENDS PolicyTool, BootCases, PolicyToolCases, ConfigCases

CONSTANTS
  Blank,
  a1, a2, n1, n2, u0, u1, x1, x2,
  k1, k2, v1, v2, Zero, Extended, Unparsable

VARIABLES
  part,
  obj, events,                                              \* FailureLog
  rev, columns, row, stored, format, given, failed,         \* Migrations
  devs, log, entry, dmState, refused, restarts,             \* DeviceMapper
  eventlog, edits,                                          \* MeasuredBoot
  asked, kept, clock, tpm, pcrs, machine, orderly, last,    \* Quotes
  disk, legacy, edited, raised                              \* ConfigUpgrade

failureVars == <<obj, events>>
migrationVars == <<rev, columns, row, stored, format, given, failed>>
dmVars      == <<devs, log, entry, dmState, refused, restarts>>
bootVars    == <<eventlog, edits>>
quoteVars   == <<asked, kept, clock, tpm, pcrs, machine, orderly, last>>
toolVars    == <<args, made>>
configVars  == <<disk, legacy, edited, raised>>
-----------------------------------------------------------------------------
Rule1 == [names |-> {n1}, uuids |-> {u0, u1}, targets |-> {x1}, allow_multiple_loads |-> FALSE,
          device_resume_required |-> TRUE, allow_clear |-> FALSE, allow_removal |-> TRUE,
          valid_name |-> {n1, n2}, valid_uuid |-> {u0, u1}]
Rule2 == [Rule1 EXCEPT !.names = {n2}, !.targets = {x1, x2}, !.allow_multiple_loads = TRUE,
                       !.allow_clear = TRUE, !.valid_name = {n2}]

F == INSTANCE FailureLog WITH MaxSev <- 1, EventIds <- {"a", "b"}, Slots <- {1, 2}, MaxEvents <- 2
M == INSTANCE Migrations WITH Agents <- {a1, a2}, Lists <- {n1, a1}, Policies <- {x1, x2},
       HasDigests <- {x1}, Null <- Blank

\* The devices followed by their names, without and with restarts of the verifier.
Mapper == INSTANCE DeviceMapper WITH Devices <- {1, 2}, Names <- {n1, n2}, Uuids <- {u0, u1}, NoUuid <- u0,
       Targets <- {x1, x2}, Rules <- <<Rule1, Rule2>>, MatchOn <- "name", MaxEvents <- 4,
       MaxRestarts <- 0, failed <- refused
Restarting == INSTANCE DeviceMapper WITH Devices <- {1, 2}, Names <- {n1, n2}, Uuids <- {u0, u1}, NoUuid <- u0,
       Targets <- {x1, x2}, Rules <- <<Rule1, Rule2>>, MatchOn <- "name", MaxEvents <- 3,
       MaxRestarts <- 1, failed <- refused

Boot == INSTANCE MeasuredBoot WITH EventOf <- Events(TRUE), refstate <- Refstate(TRUE),
          GoodLogs <- SecureLogs, Variants <- Exchanges, MaxEdits <- 1
InsecureBoot == INSTANCE MeasuredBoot WITH EventOf <- Events(FALSE), refstate <- Refstate(FALSE),
                  GoodLogs <- InsecureLogs, Variants <- Exchanges, MaxEdits <- 1

\* PCR 2 is one of the boot log, PCR 23 nobody's; one of the two logs is allowed.
Ask(pcrValues, ima, mb) == [tpm_policy |-> pcrValues, ima |-> ima, mb |-> mb]
Q == INSTANCE Quotes WITH row <- kept, state <- clock, BootPcrs <- {2}, OtherPcrs <- {23},
       Values <- {Zero, Extended, v1, v2}, PublicKeys <- {k1, k2},
       BootLogs <- {2 :> v1, 2 :> v2}, GoodLogs <- {2 :> v1}, RelevantPcrs <- {2},
       TenantArgs <- {Ask(2 :> {v1} @@ 23 :> {Zero}, TRUE, "named"), Ask(2 :> {v1}, FALSE, "file"),
                      Ask(10 :> {v1}, TRUE, None), Ask(23 :> {Zero, v2}, FALSE, "file"),
                      Ask(<<>>, TRUE, "empty file")},
       Evaluate <- "once", MaxClock <- 3, MaxCount <- 1

\* The theorems about Quotes hold of this instance, those about the device mapper of both.
ASSUME QuotesInstance == Q!QuotesAssumption
ASSUME MapperInstances ==
  /\ Mapper!DeviceMapperAssumption /\ Restarting!DeviceMapperAssumption
  /\ Mapper!RenamesKeepTargets /\ Restarting!RenamesKeepTargets

\* The commands of the policy tools.
ToolCommands == AllOfCommands(None)

\* The theorems about the migrations and the policy tools hold of these instances.
ASSUME ToolsInstances == M!MigrationsAssumption /\ PolicyToolAssumption /\ ListsOfOneLength

C == INSTANCE ConfigUpgrade WITH Mappings <- MCMappings, Templates <- MCTemplates, Order <- MCOrder,
       PartOf <- Subs, OldFormat <- MCOldFormat, Selections <- MCSelections, Targets <- {4}, MaxEdits <- 1
-----------------------------------------------------------------------------
\* The variables of a part that does not move.
FailureIdle    == obj = None /\ events = None
MigrationsIdle == /\ rev = None /\ columns = None /\ row = None /\ stored = None
                  /\ format = None /\ given = None /\ failed = None
MapperIdle     == devs = None /\ log = None /\ entry = None /\ dmState = None /\ refused = None /\ restarts = None
BootIdle       == eventlog = None /\ edits = None
QuotesIdle     == /\ asked = None /\ kept = None /\ clock = None /\ tpm = None
                  /\ pcrs = None /\ machine = None /\ orderly = None /\ last = None
ToolIdle       == args = None /\ made = None
ConfigIdle     == disk = None /\ legacy = None /\ edited = None /\ raised = None

ToolsInit ==
  \/ /\ part = "failure" /\ F!Init
     /\ MigrationsIdle /\ MapperIdle /\ BootIdle /\ QuotesIdle /\ ToolIdle /\ ConfigIdle
  \/ /\ part = "migrations" /\ M!Init
     /\ FailureIdle /\ MapperIdle /\ BootIdle /\ QuotesIdle /\ ToolIdle /\ ConfigIdle
  \/ /\ part = "mapper" /\ Mapper!Init
     /\ FailureIdle /\ MigrationsIdle /\ BootIdle /\ QuotesIdle /\ ToolIdle /\ ConfigIdle
  \/ /\ part = "mapper_restarts" /\ Restarting!Init
     /\ FailureIdle /\ MigrationsIdle /\ BootIdle /\ QuotesIdle /\ ToolIdle /\ ConfigIdle
  \/ /\ part = "boot" /\ Boot!Init
     /\ FailureIdle /\ MigrationsIdle /\ MapperIdle /\ QuotesIdle /\ ToolIdle /\ ConfigIdle
  \/ /\ part = "boot_insecure" /\ InsecureBoot!Init
     /\ FailureIdle /\ MigrationsIdle /\ MapperIdle /\ QuotesIdle /\ ToolIdle /\ ConfigIdle
  \/ /\ part = "quotes" /\ Q!Init
     /\ FailureIdle /\ MigrationsIdle /\ MapperIdle /\ BootIdle /\ ToolIdle /\ ConfigIdle
  \/ /\ part = "tool" /\ Init
     /\ FailureIdle /\ MigrationsIdle /\ MapperIdle /\ BootIdle /\ QuotesIdle /\ ConfigIdle
  \/ /\ part = "config" /\ C!Init
     /\ FailureIdle /\ MigrationsIdle /\ MapperIdle /\ BootIdle /\ QuotesIdle /\ ToolIdle

Moves(p, others) == part = p /\ UNCHANGED <<part, others>>

ToolsNext ==
  \/ Moves("failure", <<migrationVars, dmVars, bootVars, quoteVars, toolVars, configVars>>) /\ F!Next
  \/ Moves("migrations", <<failureVars, dmVars, bootVars, quoteVars, toolVars, configVars>>) /\ M!Next
  \/ Moves("mapper", <<failureVars, migrationVars, bootVars, quoteVars, toolVars, configVars>>) /\ Mapper!Next
  \/ Moves("mapper_restarts", <<failureVars, migrationVars, bootVars, quoteVars, toolVars, configVars>>) /\ Restarting!Next
  \/ Moves("boot", <<failureVars, migrationVars, dmVars, quoteVars, toolVars, configVars>>) /\ Boot!Next
  \/ Moves("boot_insecure", <<failureVars, migrationVars, dmVars, quoteVars, toolVars, configVars>>) /\ InsecureBoot!Next
  \/ Moves("quotes", <<failureVars, migrationVars, dmVars, bootVars, toolVars, configVars>>) /\ Q!Next
  \/ Moves("tool", <<failureVars, migrationVars, dmVars, bootVars, quoteVars, configVars>>) /\ Next
  \/ Moves("config", <<failureVars, migrationVars, dmVars, bootVars, quoteVars, toolVars>>) /\ C!Next

ToolsSpec == ToolsInit /\ [][ToolsNext]_<<part, failureVars, migrationVars, dmVars, bootVars, quoteVars,
                          toolVars, configVars>>
-----------------------------------------------------------------------------
\* The type invariants.
ToolsTypeOK ==
  CASE part = "failure"         -> F!TypeOK
    [] part = "migrations"      -> M!TypeOK
    [] part = "mapper"          -> Mapper!TypeOK
    [] part = "mapper_restarts" -> Restarting!TypeOK
    [] part = "boot"            -> Boot!TypeOK
    [] part = "boot_insecure"   -> InsecureBoot!TypeOK
    [] part = "quotes"          -> Q!TypeOK
    [] part = "tool"            -> TypeOK
    [] part = "config"          -> C!TypeOK

\* A failure's summary is the one of its events: the first of the highest severity
\* is reported, and an irrecoverable one is never hidden.
SummaryIsTrue == part = "failure" => F!TopIsFirstHighest /\ F!FatalEventIsNotHidden

\* Migrations: the tables serve the models at the last revision, and no agent's
\* policies are lost or exchanged.
HeadServesModels == part = "migrations" => M!HeadServesModels
PoliciesSurvive  == part = "migrations" => M!PoliciesSurvive

\* Device mapper: accepted devices run what the policy allows, also when the
\* verifier restarts; orderly logs are accepted, when it does not.
AcceptedRunsAllowed ==
  /\ part = "mapper" => Mapper!AcceptedRunsAllowed
  /\ part = "mapper_restarts" => Restarting!AcceptedRunsAllowed
\* Quotes: the same of a machine as the tenant asked for, with an orderly clock.
OrderlyIsAccepted ==
  /\ part = "mapper" => Mapper!OrderlyIsAccepted
  /\ part = "quotes" => Q!OrderlyIsAccepted

\* Quotes: what is accepted is as the tenant asked.
AcceptedMeetsPolicy == part = "quotes" => Q!AcceptedMeetsPolicy

\* Measured boot: the example policy accepts the boots it describes and no other.
AcceptsAllowedBoots ==
  /\ part = "boot" => Boot!AcceptsAllowedBoots
  /\ part = "boot_insecure" => InsecureBoot!AcceptsAllowedBoots

\* Configuration: values the user set are kept, and no option is written blank.
UpgradeKeepsValues == part = "config" => C!ValuesKept /\ C!NothingIsBlank
=============================================================================
