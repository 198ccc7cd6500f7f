------------------------------- MODULE Quotes -------------------------------
(* What a quote is checked for: the TPM policy that a tenant gives for an agent,
   the TPM whose PCRs and clock are quoted, and the verifier that compares them.
   The measurement list itself is left to Attestation, the events of the boot log
   to MeasuredBoot. *)
EXTENDS Integers

CONSTANTS
  BootPcrs, OtherPcrs,   \* MEASUREDBOOT_PCRS, and those nobody else uses
  Values, Zero, Extended,\* values of PCRs: after a reset, after a late extension
  TenantArgs,            \* options of the commands that add an agent
  PublicKeys,            \* keys that agents make when they start
  BootLogs, GoodLogs,    \* boot event logs, as the PCR values they lead to, and
                         \* those the measured boot policy accepts
  RelevantPcrs,          \* mb_policy.get_relevant_pcrs()
  Evaluate,              \* option measured_boot_evaluate
  MaxClock, MaxCount,    \* bounds: ticks of the TPM's clock, its resets and restarts
  None, Unparsable

VARIABLES
  asked,     \* the options of the tenant
  row,       \* the agent as the verifier keeps it
  state,     \* tpm_clockinfo of its AgentAttestState
  tpm,       \* the clock of the TPM
  pcrs,      \* its PCRs, but for those of IMA and of the data
  machine,   \* what was booted, whether all that ran is allowed, and the agent's key
  orderly,   \* whether the clock and the counts only went forward
  last       \* the last quote: accepted or not, and whether it should be

vars == <<asked, row, state, tpm, pcrs, machine, orderly, last>>

TPM_DATA_PCR == 16
IMA_PCR      == 10
-----------------------------------------------------------------------------
(* The tenant: process_policy(args) *)

ReadPolicyFails(pcrsGiven) == DOMAIN pcrsGiven \cap {TPM_DATA_PCR, IMA_PCR} # {}

\* readPolicy raises, or enforce_pcrs ends the command.
ArgsRefused(args) ==
  \/ ReadPolicyFails(args.tpm_policy)
  \/ args.mb \in {"file", "empty file"} /\ DOMAIN args.tpm_policy \cap BootPcrs # {}

\* Any option about IMA puts its PCR in the mask, any about measured boot all of its.
Mask(args) ==
  DOMAIN args.tpm_policy \cup {p \in {IMA_PCR} : args.ima}
                         \cup {p \in BootPcrs : args.mb # None}

\* policy_is_valid: an empty policy is none.
ValidPolicy(mb) == mb \in {"file", "named"}

\* An agent as it is added.
NewRow(args) ==
  [allowlist |-> args.tpm_policy, mask |-> Mask(args), mb |-> ValidPolicy(args.mb),
   public_key |-> None, clockinfo |-> None, attested |-> FALSE]
-----------------------------------------------------------------------------
(* The quote: check_quote_timing and check_pcrs *)

\* TPMS_CLOCK_INFO, and what a new AgentAttestState starts from.
ClockInfos ==
  [clock : 0..MaxClock, resets : 0..MaxCount, restarts : 0..MaxCount, safe : BOOLEAN]
NewClock == [clock |-> 0, resets |-> 0, restarts |-> 0, safe |-> TRUE]
Diff(now, then) == [resets |-> now.resets - then.resets, restarts |-> now.restarts - then.restarts,
                    clock |-> now.clock - then.clock]

\* Both counts have changed: the clock is neither compared nor kept.
BothCounts(d) == d.resets # 0 /\ d.restarts # 0

\* Fault: a clock that stands still is taken for one that went on.
TimingFails_NotBefore(now, then) ==
  LET d == Diff(now, then)
  IN  d.resets < 0 \/ d.restarts < 0 \/ ~now.safe \/ (~BothCounts(d) /\ d.clock < 0)

TimingFails(now, then) ==
  LET d == Diff(now, then)
  IN  d.resets < 0 \/ d.restarts < 0 \/ ~now.safe \/ (~BothCounts(d) /\ d.clock <= 0)

KeptClock(now, then) == IF BothCounts(Diff(now, then)) THEN then ELSE now

\* sim_extend(data): the data PCR after a reset and one extension by the key.
Bound(key) == [data |-> key]

\* tpm_util.checkquote: the signature, the hash, the nonce and the digest of the
\* PCRs; each mistake raises and none is told from another.
Checkquote(reply) == reply.flaw # "quote"

Named(kind, fs) == {<<kind, p>> : p \in fs}

DataFailures(reply, key) ==
  IF TPM_DATA_PCR \in DOMAIN reply.pcrs
  THEN Named("invalid", {p \in {TPM_DATA_PCR} : reply.pcrs[p] # Bound(key)})
  ELSE Named("missing", {TPM_DATA_PCR})

CheckIma(reply) == Named("ima", {p \in {IMA_PCR} : reply.ima = "not allowed"})
ImaFailures(reply) ==
  IF IMA_PCR \notin DOMAIN reply.pcrs THEN {}
  ELSE IF reply.ima = None THEN Named("unused", {IMA_PCR})
  ELSE CheckIma(reply)

ParseFailures(reply) == Named("parser", {p \in {None} : reply.log = Unparsable})
Parsed(reply) == reply.log # Unparsable

LogValue(log, p) == IF p \in DOMAIN log THEN log[p] ELSE Zero
NotAllowed(r, reply, ps) ==
  {p \in ps \cap DOMAIN r.allowlist : reply.pcrs[p] \notin r.allowlist[p]}

\* The boot PCRs that are compared with the log; with a valid policy only.
BootQuoted(r, reply) ==
  {p \in BootPcrs \cap DOMAIN reply.pcrs : Parsed(reply) /\ r.mb}
BootChecked(r, reply) == {p \in BootQuoted(r, reply) : reply.log # None}

BootFailures(r, reply) ==
  LET checked == BootChecked(r, reply)
  IN  Named("unused", BootQuoted(r, reply) \ checked)
      \cup Named("invalid", {p \in checked : reply.pcrs[p] # LogValue(reply.log, p)})
      \cup Named("invalid", NotAllowed(r, reply, checked))

\* The PCRs that none of these is about, and what the policy says of them.
Remaining(r, reply) ==
  DOMAIN reply.pcrs \ ({TPM_DATA_PCR, IMA_PCR} \cup BootChecked(r, reply))
InQuote(r, reply) ==
  (DOMAIN reply.pcrs \ Remaining(r, reply)) \cup (Remaining(r, reply) \cap DOMAIN r.allowlist)

RemainingFailures(r, reply) ==
  Named("invalid", NotAllowed(r, reply, Remaining(r, reply)))
  \cup Named("missing", DOMAIN r.allowlist \ InQuote(r, reply))

\* bootlog_evaluate.
BootlogEvaluate(reply, inQuote) ==
  IF RelevantPcrs \subseteq inQuote
  THEN Named("policy", {p \in {None} : reply.log \notin GoodLogs})
  ELSE Named("missing", RelevantPcrs \ inQuote)

\* It is called at each quote or until one was accepted.
Evaluated(r, reply) == Parsed(reply) /\ r.mb /\ (Evaluate = "always" \/ ~r.attested)
PolicyFailures(r, reply) ==
  IF Evaluated(r, reply) THEN BootlogEvaluate(reply, InQuote(r, reply)) ELSE {}

CheckPcrs(r, reply, key) ==
  UNION {DataFailures(reply, key), ImaFailures(reply), ParseFailures(reply),
         BootFailures(r, reply), RemainingFailures(r, reply), PolicyFailures(r, reply)}

\* The whole check, with the clock that is compared; an invalid quote or clock ends it.
CheckQuote(r, reply, key, now, then) ==
  IF ~Checkquote(reply) \/ TimingFails(now, then)
  THEN [failed |-> TRUE, clockinfo |-> then]
  ELSE [failed |-> CheckPcrs(r, reply, key) # {}, clockinfo |-> KeptClock(now, then)]
-----------------------------------------------------------------------------
Off == [tpm_policy |-> <<>>, ima |-> FALSE, mb |-> None]
PcrsAfter(log) == [p \in BootPcrs \cup OtherPcrs |-> IF p \in BootPcrs THEN LogValue(log, p) ELSE Zero]

Init ==
  /\ asked = Off /\ row = None /\ last = None
  /\ state = NewClock
  /\ tpm = [NewClock EXCEPT !.clock = 1]
  /\ \E log \in BootLogs, k \in PublicKeys :
       machine = [log |-> log, allowed |-> TRUE, key |-> k] /\ pcrs = PcrsAfter(log)
  /\ orderly = TRUE

\* do_cv(): the agent is added with what process_policy makes of the options.
AddAgent(args) ==
  /\ row = None
  /\ ~ArgsRefused(args)
  /\ asked' = args
  /\ row' = NewRow(args)
  /\ UNCHANGED <<state, tpm, pcrs, machine, orderly, last>>

\* The machine is started again, with this log and a new key of the agent. A TPM
\* that was not shut down does not know how far its clock had come.
Boot(log, key, shutDown) ==
  /\ tpm.clock < MaxClock /\ tpm.resets < MaxCount
  /\ tpm' = [clock |-> tpm.clock + 1, resets |-> tpm.resets + 1, restarts |-> 0, safe |-> shutDown]
  /\ pcrs' = PcrsAfter(log)
  /\ machine' = [log |-> log, allowed |-> TRUE, key |-> key]
  /\ orderly' = (orderly /\ tpm.restarts = 0)
  /\ UNCHANGED <<asked, row, state, last>>

\* The machine resumes from a suspension.
Resume ==
  /\ tpm.clock < MaxClock /\ tpm.restarts < MaxCount
  /\ tpm' = [tpm EXCEPT !.clock = @ + 1, !.restarts = @ + 1]
  /\ UNCHANGED <<asked, row, state, pcrs, machine, orderly, last>>

\* A virtual machine is set back to a snapshot.
SetBack(clock, resets) ==
  /\ clock < tpm.clock /\ resets <= tpm.resets
  /\ tpm' = [tpm EXCEPT !.clock = clock, !.resets = resets]
  /\ orderly' = FALSE
  /\ UNCHANGED <<asked, row, state, pcrs, machine, last>>

\* Something is run or measured that was not before.
Measure(p) ==
  /\ pcrs' = [pcrs EXCEPT ![p] = Extended]
  /\ UNCHANGED <<asked, row, state, tpm, machine, orderly, last>>
RunFile ==
  /\ machine' = [machine EXCEPT !.allowed = FALSE]
  /\ UNCHANGED <<asked, row, state, tpm, pcrs, orderly, last>>

\* What the agent answers, with one thing amiss at most: the quote, its algorithm, no
\* PCRs of that bank, no measurement list, another boot log; or without its key.
Replies ==
  LET val    == [p \in row.mask \cup {TPM_DATA_PCR} |->
                   CASE p = TPM_DATA_PCR -> Bound(machine.key)
                     [] p = IMA_PCR      -> "list"
                     [] OTHER            -> pcrs[p]]
      honest == [flaw |-> None, pcrs |-> val, log |-> machine.log, pubkey |-> machine.key,
                 ima  |-> IF machine.allowed THEN "allowed" ELSE "not allowed"]
  IN  {honest, [honest EXCEPT !.pcrs = <<>>], [honest EXCEPT !.ima = None],
       [honest EXCEPT !.pubkey = None]}
      \cup {[honest EXCEPT !.flaw = f] : f \in {"quote", "algorithm"}}
      \cup {[honest EXCEPT !.log = l] : l \in BootLogs \cup {None, Unparsable}}

\* The machine is as the tenant asked.
Meets(evaluated) ==
  /\ \A p \in DOMAIN asked.tpm_policy : pcrs[p] \in asked.tpm_policy[p]
  /\ asked.ima => machine.allowed
  /\ asked.mb \in {"file", "named"} =>
       /\ \A p \in BootPcrs : pcrs[p] = LogValue(machine.log, p)
       /\ evaluated => machine.log \in GoodLogs

\* The clock has gone on since the one that was kept.
Ahead(now, kept) ==
  /\ now.resets >= kept.resets /\ now.restarts >= kept.restarts /\ now.safe
  /\ \/ now.clock > kept.clock
     \/ now.resets > kept.resets /\ now.restarts > kept.restarts

Truthful(reply) ==
  /\ reply.flaw = None /\ reply.pcrs # <<>> /\ reply.ima # None /\ reply.log = machine.log
  /\ reply.pubkey # None \/ row.public_key = machine.key

\* process_quote_response: the key and the algorithms, then the quote, with the clock
\* of the row if it has one; the key and the clock of a quote that is accepted are
\* kept. The verifier ends before the row is written, or goes on.
ProcessQuoteResponse(reply, ends) ==
  /\ row # None /\ tpm.clock < MaxClock
  /\ LET key      == IF reply.pubkey = None THEN row.public_key ELSE reply.pubkey
         then     == IF row.clockinfo = None THEN state ELSE row.clockinfo
         begun    == key # None /\ reply.flaw # "algorithm"
         result   == IF begun THEN CheckQuote(row, reply, key, tpm, then)
                              ELSE [failed |-> TRUE, clockinfo |-> state]
         accepted == ~result.failed
     IN  /\ row' = IF accepted /\ ~ends
                   THEN [row EXCEPT !.public_key = key, !.clockinfo = result.clockinfo,
                                    !.attested = TRUE]
                   ELSE row
         /\ state' = IF ends THEN NewClock ELSE result.clockinfo
         /\ last' = [accepted |-> accepted,
                     met  |-> /\ Meets(Evaluate = "always" \/ ~row.attested)
                              /\ row.clockinfo # None => Ahead(tpm, row.clockinfo)
                              /\ key = machine.key,
                     fine |-> orderly /\ tpm.safe /\ Meets(TRUE) /\ Truthful(reply)]
  /\ \E safe \in {tpm.safe, TRUE} : tpm' = [tpm EXCEPT !.clock = @ + 1, !.safe = safe]
  /\ UNCHANGED <<asked, pcrs, machine, orderly>>

\* The agent is removed.
RemoveAgent ==
  /\ row # None
  /\ asked' = Off /\ row' = None /\ last' = None
  /\ state' = NewClock
  /\ UNCHANGED <<tpm, pcrs, machine, orderly>>

Next ==
  \/ \E args \in TenantArgs : AddAgent(args)
  \/ \E log \in BootLogs, k \in PublicKeys, shutDown \in BOOLEAN : Boot(log, k, shutDown)
  \/ Resume
  \/ \E c \in 1..MaxClock, r \in 0..MaxCount : SetBack(c, r)
  \/ \E p \in BootPcrs \cup OtherPcrs : Measure(p)
  \/ RunFile
  \/ row # None /\ \E reply \in Replies, ends \in BOOLEAN : ProcessQuoteResponse(reply, ends)
  \/ RemoveAgent

Spec == Init /\ [][Next]_vars
-----------------------------------------------------------------------------
\* What QuotesProofs assumes: the PCRs of the boot are no other's (MEASUREDBOOT_PCRS),
\* a boot log is known by the PCR values it leads to, and an extended PCR has a value
\* of no log.
QuotesAssumption ==
  /\ BootPcrs \cap {TPM_DATA_PCR, IMA_PCR} = {}
  /\ RelevantPcrs \subseteq BootPcrs
  /\ GoodLogs \subseteq BootLogs
  /\ Extended \in Values
  /\ \A p \in BootPcrs \cup OtherPcrs, l \in BootLogs : LogValue(l, p) \in Values \ {Extended}
  /\ Zero \in Values
  /\ \A l, m \in BootLogs : (\A p \in BootPcrs : LogValue(l, p) = LogValue(m, p)) => l = m
  /\ MaxClock \in Nat \ {0} /\ MaxCount \in Nat
  /\ None \notin {"file", "named", "quote", "algorithm"} \cup PublicKeys
  /\ None \notin BootLogs /\ None \notin ClockInfos
  /\ Unparsable \notin BootLogs
-----------------------------------------------------------------------------
\* The type invariant.
TypeOK ==
  /\ tpm \in ClockInfos /\ state \in ClockInfos
  /\ pcrs \in [BootPcrs \cup OtherPcrs -> Values]
  /\ row # None => /\ DOMAIN row.allowlist \subseteq row.mask
                   /\ row.clockinfo # None => row.clockinfo \in ClockInfos

\* A quote is accepted only of a machine as the tenant asked: the PCRs of the TPM
\* policy, the files, the boot and its log, the agent's key in the data PCR, and a
\* clock that has gone on since the quote that was kept (process_policy,
\* check_quote).
AcceptedMeetsPolicy == last # None /\ last.accepted => last.met

\* A machine as the tenant asked is accepted, whatever came before: reboots,
\* suspensions, refused quotes, restarts of the verifier, new keys of the agent
\* (check_quote_timing, process_quote_response).
OrderlyIsAccepted == last # None /\ last.fine => last.accepted
=============================================================================
