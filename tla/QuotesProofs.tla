---------------------------- MODULE QuotesProofs ----------------------------
(* Theorems about the check of quotes, for every choice of PCRs, boot logs and
   tenant's options: what is accepted is as the tenant asked, and what is as the
   tenant asked is accepted. *)
EXTENDS Quotes, TLAPS

\* A row as it was added, with the key, the clock and the count of later quotes.
RowFor(args, key, clockinfo, attested) ==
  [allowlist |-> args.tpm_policy, mask |-> Mask(args), mb |-> ValidPolicy(args.mb),
   public_key |-> key, clockinfo |-> clockinfo, attested |-> attested]

RowSound ==
  row # None =>
    /\ ~ArgsRefused(asked)
    /\ \E k, c, b : row = RowFor(asked, k, c, b) /\ c \in ClockInfos \cup {None}

\* Each PCR of the boot has the value its log leads to, or was extended later.
MachineSound ==
  /\ machine \in [log : BootLogs, allowed : BOOLEAN, key : PublicKeys]
  /\ pcrs \in [BootPcrs \cup OtherPcrs -> Values]
  /\ \A p \in BootPcrs : pcrs[p] \in {LogValue(machine.log, p), Extended}

\* A clock that was kept is behind the TPM's.
Behind(kept) ==
  kept.clock < tpm.clock /\ kept.resets <= tpm.resets /\ kept.restarts <= tpm.restarts

ClockSound ==
  /\ tpm \in ClockInfos /\ tpm.clock > 0 /\ state \in ClockInfos
  /\ orderly => /\ Behind(state)
                /\ row # None /\ row.clockinfo # None => Behind(row.clockinfo)

Judged == AcceptedMeetsPolicy /\ OrderlyIsAccepted

Inductive == RowSound /\ MachineSound /\ ClockSound /\ Judged
-----------------------------------------------------------------------------
(* Replies *)

\* What a reply says, whatever is amiss with it.
LEMMA ReplyFacts ==
  ASSUME NEW reply \in Replies
  PROVE  /\ \/ reply.pcrs = <<>>
            \/ /\ DOMAIN reply.pcrs = row.mask \cup {TPM_DATA_PCR}
               /\ reply.pcrs[TPM_DATA_PCR] = Bound(machine.key)
               /\ \A p \in row.mask \ {TPM_DATA_PCR, IMA_PCR} : reply.pcrs[p] = pcrs[p]
         /\ reply.ima \in {None, IF machine.allowed THEN "allowed" ELSE "not allowed"}
         /\ reply.log \in {machine.log, None, Unparsable} \cup BootLogs
         /\ reply.pubkey \in {machine.key, None}
<1>1. PICK val : val = [p \in row.mask \cup {TPM_DATA_PCR} |->
                          CASE p = TPM_DATA_PCR -> Bound(machine.key)
                            [] p = IMA_PCR      -> "list"
                            [] OTHER            -> pcrs[p]]
  OBVIOUS
<1>2. /\ DOMAIN val = row.mask \cup {TPM_DATA_PCR}
      /\ val[TPM_DATA_PCR] = Bound(machine.key)
      /\ \A p \in row.mask \ {TPM_DATA_PCR, IMA_PCR} : val[p] = pcrs[p]
  BY <1>1 DEF TPM_DATA_PCR, IMA_PCR
<1>3. PICK ima : ima = IF machine.allowed THEN "allowed" ELSE "not allowed"
  OBVIOUS
<1>4. PICK honest : honest = [flaw |-> None, pcrs |-> val, log |-> machine.log,
                              pubkey |-> machine.key, ima |-> ima]
  OBVIOUS
<1>5. reply \in {honest, [honest EXCEPT !.pcrs = <<>>], [honest EXCEPT !.ima = None],
                 [honest EXCEPT !.pubkey = None]}
                \cup {[honest EXCEPT !.flaw = f] : f \in {"quote", "algorithm"}}
                \cup {[honest EXCEPT !.log = l] : l \in BootLogs \cup {None, Unparsable}}
  BY <1>1, <1>3, <1>4, Zenon DEF Replies
<1>6. /\ reply.pcrs \in {val, <<>>} /\ reply.ima \in {ima, None}
      /\ reply.log \in {machine.log, None, Unparsable} \cup BootLogs
      /\ reply.pubkey \in {machine.key, None}
  BY <1>4, <1>5
<1>7. QED
  BY <1>2, <1>3, <1>6
\* A check without failures has none of any kind.
LEMMA NamedEmpty ==
  ASSUME NEW kind, NEW fs PROVE Named(kind, fs) = {} <=> fs = {}
BY DEF Named
LEMMA NoFailures ==
  ASSUME NEW r, NEW reply, NEW key
  PROVE  CheckPcrs(r, reply, key) = {} <=>
           /\ DataFailures(reply, key) = {} /\ ImaFailures(reply) = {}
           /\ ParseFailures(reply) = {} /\ BootFailures(r, reply) = {}
           /\ RemainingFailures(r, reply) = {} /\ PolicyFailures(r, reply) = {}
BY DEF CheckPcrs
-----------------------------------------------------------------------------
(* What is accepted *)

\* The key in the data PCR is the agent's, and the PCRs of the mask are there.
LEMMA AcceptedKey ==
  ASSUME NEW reply \in Replies, NEW key, DataFailures(reply, key) = {}
  PROVE  /\ key = machine.key
         /\ DOMAIN reply.pcrs = row.mask \cup {TPM_DATA_PCR}
         /\ \A p \in row.mask \ {TPM_DATA_PCR, IMA_PCR} : reply.pcrs[p] = pcrs[p]
<1>1. TPM_DATA_PCR \in DOMAIN reply.pcrs
  BY NamedEmpty DEF DataFailures
<1>2. reply.pcrs[TPM_DATA_PCR] = Bound(key)
  <2>1. Named("invalid", {p \in {TPM_DATA_PCR} : reply.pcrs[p] # Bound(key)}) = {}
    BY <1>1 DEF DataFailures
  <2>2. QED
    BY <2>1 DEF Named
<1>3. reply.pcrs # <<>>
  BY <1>1 DEF TPM_DATA_PCR
<1>4. Bound(key) = Bound(machine.key)
  BY <1>2, <1>3, ReplyFacts
<1>5. Bound(key).data = key /\ Bound(machine.key).data = machine.key
  BY DEF Bound
<1>6. QED
  BY <1>3, <1>4, <1>5, ReplyFacts

\* No PCR of the TPM policy has a value that is not allowed.
LEMMA AcceptedPolicy ==
  ASSUME QuotesAssumption, NEW k, NEW c, NEW b, row = RowFor(asked, k, c, b), ~ArgsRefused(asked),
         NEW reply \in Replies, NEW key, CheckPcrs(row, reply, key) = {}
  PROVE  \A p \in DOMAIN asked.tpm_policy : pcrs[p] \in asked.tpm_policy[p]
<1> SUFFICES ASSUME NEW p \in DOMAIN asked.tpm_policy PROVE pcrs[p] \in asked.tpm_policy[p]
  OBVIOUS
<1>1. row.allowlist = asked.tpm_policy /\ row.mask = Mask(asked)
  BY DEF RowFor
<1>2. p \in row.mask \ {TPM_DATA_PCR, IMA_PCR}
  BY <1>1 DEF Mask, ArgsRefused, ReadPolicyFails
<1>3. DOMAIN reply.pcrs = row.mask \cup {TPM_DATA_PCR} /\ reply.pcrs[p] = pcrs[p]
  BY <1>2, AcceptedKey, NoFailures
<1>4. NotAllowed(row, reply, BootChecked(row, reply)) = {}
  BY NoFailures, NamedEmpty DEF BootFailures
<1>5. NotAllowed(row, reply, Remaining(row, reply)) = {}
  BY NoFailures, NamedEmpty DEF RemainingFailures
<1>6. p \in BootChecked(row, reply) \/ p \in Remaining(row, reply)
  BY <1>2, <1>3 DEF Remaining
<1>7. QED
  BY <1>1, <1>3, <1>4, <1>5, <1>6 DEF NotAllowed

\* Where files are checked, all that ran is allowed.
LEMMA AcceptedFiles ==
  ASSUME NEW k, NEW c, NEW b, row = RowFor(asked, k, c, b), MachineSound, asked.ima,
         NEW reply \in Replies, NEW key, CheckPcrs(row, reply, key) = {}
  PROVE  machine.allowed
<1>1. IMA_PCR \in row.mask
  BY DEF RowFor, Mask
<1>2. IMA_PCR \in DOMAIN reply.pcrs /\ ImaFailures(reply) = {}
  BY <1>1, AcceptedKey, NoFailures
<1>3. reply.ima # None
  BY <1>2, NamedEmpty DEF ImaFailures
<1>4. reply.ima # "not allowed"
  <2>1. Named("ima", {p \in {IMA_PCR} : reply.ima = "not allowed"}) = {}
    BY <1>2, <1>3 DEF ImaFailures, CheckIma
  <2>2. QED
    BY <2>1 DEF Named
<1>5. QED
  BY <1>3, <1>4, ReplyFacts DEF MachineSound

\* With a policy for the boot, the PCRs are those of the machine's log, and the
\* log that was evaluated is its own.
LEMMA AcceptedBoot ==
  ASSUME QuotesAssumption, NEW k, NEW c, NEW b, row = RowFor(asked, k, c, b), MachineSound,
         asked.mb \in {"file", "named"},
         NEW reply \in Replies, NEW key, CheckPcrs(row, reply, key) = {}
  PROVE  /\ \A p \in BootPcrs : pcrs[p] = LogValue(machine.log, p)
         /\ Evaluate = "always" \/ ~row.attested => machine.log \in GoodLogs
<1>1. BootPcrs \subseteq row.mask \ {TPM_DATA_PCR, IMA_PCR} /\ row.mb
  BY DEF QuotesAssumption, RowFor, Mask, ValidPolicy
<1>2. /\ DOMAIN reply.pcrs = row.mask \cup {TPM_DATA_PCR}
      /\ \A p \in BootPcrs : reply.pcrs[p] = pcrs[p]
  BY <1>1, AcceptedKey, NoFailures
<1>3. Parsed(reply)
  <2>1. ParseFailures(reply) = {}
    BY NoFailures
  <2>2. QED
    BY <2>1 DEF ParseFailures, Parsed, Named
<1>4. BootQuoted(row, reply) = BootPcrs
  BY <1>1, <1>2, <1>3 DEF BootQuoted
<1>5. /\ BootQuoted(row, reply) \ BootChecked(row, reply) = {}
      /\ {p \in BootChecked(row, reply) : reply.pcrs[p] # LogValue(reply.log, p)} = {}
  <2>1. BootFailures(row, reply) = {}
    BY NoFailures
  <2>2. Named("unused", BootQuoted(row, reply) \ BootChecked(row, reply)) = {}
    BY <2>1 DEF BootFailures
  <2>3. Named("invalid", {p \in BootChecked(row, reply) :
                            reply.pcrs[p] # LogValue(reply.log, p)}) = {}
    BY <2>1 DEF BootFailures
  <2>4. QED
    BY <2>2, <2>3 DEF Named
<1>6. \A p \in BootPcrs : pcrs[p] = LogValue(reply.log, p) /\ reply.log # None
  BY <1>2, <1>4, <1>5 DEF BootChecked
<1>7. machine.log \in BootLogs /\ reply.log \in BootLogs \cup {None}
  BY <1>3, ReplyFacts DEF MachineSound, Parsed
<1>8. \A p \in BootPcrs : pcrs[p] = LogValue(machine.log, p)
  BY <1>6, <1>7 DEF MachineSound, QuotesAssumption
<1>9. ASSUME Evaluate = "always" \/ ~row.attested PROVE machine.log \in GoodLogs
  <2>1. BootlogEvaluate(reply, InQuote(row, reply)) = {}
    BY <1>1, <1>3, <1>9, NoFailures DEF PolicyFailures, Evaluated
  <2>2. RelevantPcrs \subseteq InQuote(row, reply)
    BY <2>1, NamedEmpty DEF BootlogEvaluate
  <2>3. reply.log \in GoodLogs
    BY <2>1, <2>2, NamedEmpty DEF BootlogEvaluate
  <2>4. reply.log \in BootLogs
    BY <2>3 DEF QuotesAssumption
  <2>5. reply.log = machine.log
    BY <1>6, <1>7, <1>8, <2>4 DEF QuotesAssumption
  <2>6. QED
    BY <2>3, <2>5
<1>10. QED
  BY <1>8, <1>9

\* A machine whose quote has no failure is as the tenant asked.
LEMMA AcceptedMeets ==
  ASSUME QuotesAssumption, NEW k, NEW c, NEW b, row = RowFor(asked, k, c, b), ~ArgsRefused(asked),
         MachineSound, NEW reply \in Replies, NEW key, CheckPcrs(row, reply, key) = {}
  PROVE  Meets(Evaluate = "always" \/ ~row.attested) /\ key = machine.key
BY AcceptedKey, AcceptedPolicy, AcceptedFiles, AcceptedBoot, NoFailures DEF Meets

\* A clock that passes went on.
LEMMA PassedClock ==
  ASSUME tpm \in ClockInfos, NEW then \in ClockInfos, MaxClock \in Nat, MaxCount \in Nat
  PROVE  /\ ~TimingFails(tpm, then) => Ahead(tpm, then)
         /\ Behind(then) /\ tpm.safe => ~TimingFails(tpm, then)
<1>1. /\ tpm.clock \in Int /\ tpm.resets \in Int /\ tpm.restarts \in Int
      /\ then.clock \in Int /\ then.resets \in Int /\ then.restarts \in Int
  BY DEF ClockInfos
<1>2. QED
  BY <1>1 DEF TimingFails, Diff, BothCounts, Ahead, Behind
-----------------------------------------------------------------------------
(* What is not refused *)

\* A truthful reply of a machine as the tenant asked fails no check.
LEMMA TruthfulPasses ==
  ASSUME QuotesAssumption, NEW k, NEW c, NEW b, row = RowFor(asked, k, c, b), ~ArgsRefused(asked),
         MachineSound, Meets(TRUE), NEW reply \in Replies, Truthful(reply)
  PROVE  CheckPcrs(row, reply, machine.key) = {}
<1>1. /\ row.allowlist = asked.tpm_policy /\ row.mask = Mask(asked)
      /\ row.mb = ValidPolicy(asked.mb)
  BY DEF RowFor
<1>2. /\ DOMAIN reply.pcrs = row.mask \cup {TPM_DATA_PCR}
      /\ reply.pcrs[TPM_DATA_PCR] = Bound(machine.key)
      /\ \A p \in row.mask \ {TPM_DATA_PCR, IMA_PCR} : reply.pcrs[p] = pcrs[p]
      /\ reply.ima # None /\ reply.log = machine.log
  BY ReplyFacts DEF Truthful
<1>3. machine.log \in BootLogs /\ reply.log # None /\ Parsed(reply)
  BY <1>2 DEF MachineSound, QuotesAssumption, Parsed
<1>4. DOMAIN row.allowlist \subseteq row.mask \ {TPM_DATA_PCR, IMA_PCR}
  BY <1>1 DEF Mask, ArgsRefused, ReadPolicyFails
<1>5. DataFailures(reply, machine.key) = {}
  BY <1>2, NamedEmpty DEF DataFailures
<1>6. ImaFailures(reply) = {}
  <2>1. CASE IMA_PCR \notin DOMAIN reply.pcrs
    BY <2>1 DEF ImaFailures
  <2>2. CASE IMA_PCR \in DOMAIN reply.pcrs
    <3>1. IMA_PCR \in Mask(asked)
      BY <1>1, <1>2, <2>2 DEF IMA_PCR, TPM_DATA_PCR
    <3>2. asked.ima
      BY <3>1 DEF Mask, ArgsRefused, ReadPolicyFails, QuotesAssumption
    <3>3. reply.ima = "allowed"
      BY <1>2, <3>2, ReplyFacts DEF Meets
    <3>4. QED
      BY <1>2, <3>3 DEF ImaFailures, CheckIma, Named
  <2>3. QED
    BY <2>1, <2>2
<1>7. ParseFailures(reply) = {}
  BY <1>3 DEF ParseFailures, Parsed, Named
<1>8. \A ps \in SUBSET (DOMAIN reply.pcrs \ {TPM_DATA_PCR, IMA_PCR}) : NotAllowed(row, reply, ps) = {}
  <2>1. \A p \in DOMAIN row.allowlist : reply.pcrs[p] \in row.allowlist[p]
    BY <1>1, <1>2, <1>4 DEF Meets
  <2>2. QED
    BY <2>1 DEF NotAllowed
<1>9. BootQuoted(row, reply) = BootChecked(row, reply)
      /\ BootChecked(row, reply) \subseteq DOMAIN reply.pcrs \ {TPM_DATA_PCR, IMA_PCR}
  BY <1>3 DEF BootQuoted, BootChecked, QuotesAssumption
<1>10. BootFailures(row, reply) = {}
  <2>1. NotAllowed(row, reply, BootChecked(row, reply)) = {}
    BY <1>8, <1>9
  <2>2. \A p \in BootChecked(row, reply) : reply.pcrs[p] = LogValue(reply.log, p)
    <3> SUFFICES ASSUME NEW p \in BootChecked(row, reply)
                 PROVE  reply.pcrs[p] = LogValue(reply.log, p)
      OBVIOUS
    <3>1. p \in BootPcrs /\ p \in DOMAIN reply.pcrs /\ row.mb
      BY DEF BootChecked, BootQuoted
    <3>2. p \in row.mask \ {TPM_DATA_PCR, IMA_PCR}
      BY <1>2, <3>1 DEF QuotesAssumption
    <3>3. pcrs[p] = LogValue(machine.log, p)
      BY <1>1, <3>1 DEF Meets, ValidPolicy
    <3>4. QED
      BY <1>2, <3>2, <3>3
  <2>3. {p \in BootChecked(row, reply) : reply.pcrs[p] # LogValue(reply.log, p)} = {}
    BY <2>2
  <2>4. BootQuoted(row, reply) \ BootChecked(row, reply) = {}
    BY <1>9
  <2>5. QED
    BY <2>1, <2>3, <2>4, NamedEmpty DEF BootFailures
<1>11. DOMAIN row.allowlist \subseteq InQuote(row, reply)
  BY <1>2, <1>4 DEF InQuote
<1>12. RemainingFailures(row, reply) = {}
  <2>1. NotAllowed(row, reply, Remaining(row, reply)) = {}
    BY <1>8 DEF Remaining
  <2>2. DOMAIN row.allowlist \ InQuote(row, reply) = {}
    BY <1>11
  <2>3. QED
    BY <2>1, <2>2, NamedEmpty DEF RemainingFailures
<1>13. PolicyFailures(row, reply) = {}
  <2> SUFFICES ASSUME row.mb PROVE BootlogEvaluate(reply, InQuote(row, reply)) = {}
    BY DEF PolicyFailures, Evaluated
  <2>1. BootPcrs \subseteq row.mask /\ reply.log \in GoodLogs
    BY <1>1, <1>2 DEF Mask, ValidPolicy, Meets, QuotesAssumption
  <2>2. BootChecked(row, reply) = BootPcrs
    BY <1>2, <1>3, <2>1 DEF BootChecked, BootQuoted
  <2>3. RelevantPcrs \subseteq InQuote(row, reply)
    BY <1>2, <2>1, <2>2 DEF InQuote, Remaining, QuotesAssumption
  <2>4. {p \in {None} : reply.log \notin GoodLogs} = {}
    BY <2>1
  <2>5. QED
    BY <2>3, <2>4, NamedEmpty DEF BootlogEvaluate
<1>14. QED
  BY <1>5, <1>6, <1>7, <1>10, <1>12, <1>13, NoFailures
-----------------------------------------------------------------------------
(* The steps *)

\* What is known of the agent's row.
LEMMA RowFacts ==
  ASSUME RowSound, row # None
  PROVE  /\ ~ArgsRefused(asked)
         /\ \E k, c, b : row = RowFor(asked, k, c, b) /\ c \in ClockInfos \cup {None}
         /\ row.clockinfo \in ClockInfos \cup {None}
         /\ \A k, c : [row EXCEPT !.public_key = k, !.clockinfo = c, !.attested = TRUE]
                        = RowFor(asked, k, c, TRUE)
<1>1. PICK k, c, b : row = RowFor(asked, k, c, b) /\ c \in ClockInfos \cup {None}
  BY DEF RowSound
<1>2. row.clockinfo = c
  BY <1>1 DEF RowFor
<1>3. ASSUME NEW l, NEW d
      PROVE  [row EXCEPT !.public_key = l, !.clockinfo = d, !.attested = TRUE]
               = RowFor(asked, l, d, TRUE)
  <2>1. PICK r : r = [row EXCEPT !.public_key = l]
    OBVIOUS
  <2>2. r = RowFor(asked, l, c, b)
    BY <1>1, <2>1 DEF RowFor
  <2>3. PICK s : s = [r EXCEPT !.clockinfo = d]
    OBVIOUS
  <2>4. s = RowFor(asked, l, d, b)
    BY <2>2, <2>3 DEF RowFor
  <2>5. \A t : [s EXCEPT !.attested = t] = RowFor(asked, l, d, t)
    BY <2>4 DEF RowFor
  <2>6. QED
    BY <2>1, <2>3, <2>5
<1>4. QED
  BY <1>1, <1>2, <1>3 DEF RowSound

\* The verdict on a quote: met where accepted, accepted where fine.
LEMMA VerdictSound ==
  ASSUME QuotesAssumption, Inductive, row # None, NEW reply \in Replies,
         NEW key, key = IF reply.pubkey = None THEN row.public_key ELSE reply.pubkey,
         NEW then, then = IF row.clockinfo = None THEN state ELSE row.clockinfo,
         NEW accepted,
         accepted <=> /\ key # None /\ reply.flaw # "algorithm" /\ Checkquote(reply)
                      /\ ~TimingFails(tpm, then) /\ CheckPcrs(row, reply, key) = {}
  PROVE  /\ accepted => /\ Meets(Evaluate = "always" \/ ~row.attested) /\ key = machine.key
                        /\ row.clockinfo # None => Ahead(tpm, row.clockinfo)
         /\ orderly /\ tpm.safe /\ Meets(TRUE) /\ Truthful(reply) => accepted
<1>1. PICK k, c, b : row = RowFor(asked, k, c, b)
  BY RowFacts DEF Inductive
<1>2. then \in ClockInfos /\ tpm \in ClockInfos /\ MaxClock \in Nat /\ MaxCount \in Nat
  BY RowFacts DEF Inductive, ClockSound, QuotesAssumption
<1>3. ~ArgsRefused(asked) /\ MachineSound
  BY RowFacts DEF Inductive
<1>4. ASSUME accepted
      PROVE  /\ Meets(Evaluate = "always" \/ ~row.attested) /\ key = machine.key
             /\ row.clockinfo # None => Ahead(tpm, row.clockinfo)
  <2>1. Meets(Evaluate = "always" \/ ~row.attested) /\ key = machine.key
    BY <1>1, <1>3, <1>4, AcceptedMeets
  <2>2. Ahead(tpm, then)
    BY <1>2, <1>4, PassedClock
  <2>3. QED
    BY <2>1, <2>2
<1>5. ASSUME orderly, tpm.safe, Meets(TRUE), Truthful(reply)
      PROVE  accepted
  <2>1. key = machine.key
    BY <1>5, ReplyFacts DEF Truthful
  <2>2. key # None /\ reply.flaw # "algorithm" /\ Checkquote(reply)
    BY <1>3, <1>5, <2>1 DEF MachineSound, QuotesAssumption, Truthful, Checkquote
  <2>3. Behind(then)
    BY <1>5 DEF Inductive, ClockSound
  <2>4. ~TimingFails(tpm, then)
    BY <1>2, <1>5, <2>3, PassedClock
  <2>5. CheckPcrs(row, reply, key) = {}
    BY <1>1, <1>3, <1>5, <2>1, TruthfulPasses
  <2>6. QED
    BY <2>2, <2>4, <2>5
<1>6. QED
  BY <1>4, <1>5

\* The clock a quote leaves behind is one of three.
LEMMA LeftBehind ==
  ASSUME QuotesAssumption, Inductive, row # None, NEW kept,
         kept \in {NewClock, state, tpm} \/ (kept = row.clockinfo /\ kept # None),
         NEW safe \in BOOLEAN, tpm.clock < MaxClock, tpm' = [tpm EXCEPT !.clock = @ + 1, !.safe = safe]
  PROVE  /\ tpm' \in ClockInfos /\ tpm'.clock > 0 /\ kept \in ClockInfos
         /\ orderly => Behind(kept)'
<1>1. MaxClock \in Nat /\ MaxCount \in Nat /\ tpm \in ClockInfos /\ state \in ClockInfos /\ tpm.clock > 0
  BY DEF QuotesAssumption, Inductive, ClockSound
<1>2. NewClock \in ClockInfos
  BY <1>1 DEF NewClock, ClockInfos
<1>3. kept \in ClockInfos
  BY <1>1, <1>2, RowFacts DEF Inductive
<1>4. /\ tpm' \in ClockInfos /\ tpm'.clock = tpm.clock + 1 /\ tpm'.resets = tpm.resets
      /\ tpm'.restarts = tpm.restarts
  <2>1. PICK t : t = [tpm EXCEPT !.clock = @ + 1]
    OBVIOUS
  <2>2. /\ t \in ClockInfos /\ t.clock = tpm.clock + 1 /\ t.resets = tpm.resets
        /\ t.restarts = tpm.restarts
    BY <1>1, <2>1 DEF ClockInfos
  <2>3. tpm' = [t EXCEPT !.safe = safe]
    BY <2>1
  <2>4. QED
    BY <2>2, <2>3 DEF ClockInfos
<1>5. /\ tpm.clock \in Int /\ tpm.resets \in Nat /\ tpm.restarts \in Nat
      /\ kept.clock \in Int /\ kept.resets \in Int /\ kept.restarts \in Int
  BY <1>1, <1>3 DEF ClockInfos
<1>6. ASSUME orderly
      PROVE  /\ kept.clock < tpm.clock + 1 /\ kept.resets <= tpm.resets
             /\ kept.restarts <= tpm.restarts
  <2>1. CASE kept = NewClock
    BY <1>1, <1>5, <2>1 DEF NewClock
  <2>2. CASE kept = tpm
    BY <1>5, <2>2
  <2>3. CASE Behind(kept)
    BY <1>5, <2>3 DEF Behind
  <2>4. kept \in {NewClock, tpm} \/ Behind(kept)
    BY <1>6 DEF Inductive, ClockSound
  <2>5. QED
    BY <2>1, <2>2, <2>3, <2>4
<1>7. QED
  BY <1>1, <1>3, <1>4, <1>5, <1>6 DEF Behind

\* A quote is checked, and the verifier goes on or ends.
LEMMA ProcessStep ==
  ASSUME QuotesAssumption, Inductive, row # None, NEW reply \in Replies, NEW ends \in BOOLEAN,
         ProcessQuoteResponse(reply, ends)
  PROVE  Inductive'
<1>1. PICK key : key = IF reply.pubkey = None THEN row.public_key ELSE reply.pubkey
  OBVIOUS
<1>2. PICK then : then = IF row.clockinfo = None THEN state ELSE row.clockinfo
  OBVIOUS
<1>3. PICK begun : begun = (key # None /\ reply.flaw # "algorithm")
  OBVIOUS
<1>4. PICK result : result = IF begun THEN CheckQuote(row, reply, key, tpm, then)
                             ELSE [failed |-> TRUE, clockinfo |-> state]
  OBVIOUS
<1>5. PICK accepted : accepted = ~result.failed
  OBVIOUS
<1>6. /\ tpm.clock < MaxClock /\ UNCHANGED <<asked, pcrs, machine, orderly>>
      /\ row' = IF accepted /\ ~ends
                THEN [row EXCEPT !.public_key = key, !.clockinfo = result.clockinfo, !.attested = TRUE]
                ELSE row
      /\ state' = IF ends THEN NewClock ELSE result.clockinfo
      /\ last'.accepted = accepted
      /\ last'.met = (/\ Meets(Evaluate = "always" \/ ~row.attested)
                      /\ row.clockinfo # None => Ahead(tpm, row.clockinfo)
                      /\ key = machine.key)
      /\ last'.fine = (orderly /\ tpm.safe /\ Meets(TRUE) /\ Truthful(reply))
      /\ \E safe \in {tpm.safe, TRUE} : tpm' = [tpm EXCEPT !.clock = @ + 1, !.safe = safe]
  BY <1>1, <1>2, <1>3, <1>4, <1>5 DEF ProcessQuoteResponse
<1>7. accepted <=> /\ key # None /\ reply.flaw # "algorithm" /\ Checkquote(reply)
                   /\ ~TimingFails(tpm, then) /\ CheckPcrs(row, reply, key) = {}
  BY <1>3, <1>4, <1>5 DEF CheckQuote
<1>8. Judged'
  BY <1>1, <1>2, <1>6, <1>7, VerdictSound DEF Judged, AcceptedMeetsPolicy, OrderlyIsAccepted
<1>9. result.clockinfo \in {state, tpm} \/ (result.clockinfo = row.clockinfo /\ result.clockinfo # None)
  BY <1>2, <1>4 DEF CheckQuote, KeptClock
<1>10. PICK kept : kept = result.clockinfo
  OBVIOUS
<1>11. PICK safe \in BOOLEAN : tpm' = [tpm EXCEPT !.clock = @ + 1, !.safe = safe]
  BY <1>6 DEF Inductive, ClockSound, ClockInfos
<1>12. /\ tpm' \in ClockInfos /\ tpm'.clock > 0 /\ kept \in ClockInfos
       /\ orderly => Behind(kept)'
  BY <1>6, <1>9, <1>10, <1>11, LeftBehind
<1>13. /\ NewClock \in ClockInfos
       /\ orderly => Behind(NewClock)'
  <2>1. PICK new : new = NewClock
    OBVIOUS
  <2>2. new \in ClockInfos /\ (orderly => Behind(new)')
    BY <1>6, <1>11, <2>1, LeftBehind
  <2>3. QED
    BY <2>1, <2>2 DEF Behind
<1>14. ASSUME orderly, row.clockinfo # None, row' = row
       PROVE  Behind(row.clockinfo)'
  <2>1. PICK old : old = row.clockinfo
    OBVIOUS
  <2>2. Behind(old)'
    BY <1>6, <1>11, <1>14, <2>1, LeftBehind
  <2>3. QED
    BY <1>14, <2>1, <2>2 DEF Behind
<1>15. \/ row' = row
       \/ row' = RowFor(asked, key, kept, TRUE)
  BY <1>6, <1>10, RowFacts DEF Inductive
<1>16. RowSound'
  <2>1. CASE row' = row
    BY <1>6, <2>1 DEF Inductive, RowSound
  <2>2. CASE row' = RowFor(asked, key, kept, TRUE)
    <3>1. ~ArgsRefused(asked)
      BY RowFacts DEF Inductive
    <3>2. row' = RowFor(asked', key, kept, TRUE) /\ kept \in ClockInfos /\ ~ArgsRefused(asked')
      BY <1>6, <1>12, <2>2, <3>1
    <3>3. QED
      BY <3>2 DEF RowSound
  <2>3. QED
    BY <1>15, <2>1, <2>2
<1>17. MachineSound'
  BY <1>6 DEF Inductive, MachineSound
<1>18. ClockSound'
  <2>1. state' = NewClock \/ state' = kept
    BY <1>6, <1>10
  <2>2. state' \in ClockInfos /\ (orderly => Behind(state)')
    BY <1>12, <1>13, <2>1 DEF Behind
  <2>3. orderly /\ row'.clockinfo # None => Behind(row.clockinfo)'
    <3>1. CASE row' = row
      BY <1>14, <3>1 DEF Behind
    <3>2. CASE row' = RowFor(asked, key, kept, TRUE)
      BY <1>12, <3>2 DEF Behind, RowFor
    <3>3. QED
      BY <1>15, <3>1, <3>2
  <2>4. QED
    BY <1>6, <1>12, <2>2, <2>3 DEF ClockSound
<1>19. QED
  BY <1>8, <1>16, <1>17, <1>18 DEF Inductive

\* The agent is added or removed: no clock of a row is kept.
LEMMA TenantSteps ==
  ASSUME QuotesAssumption, Inductive,
         RemoveAgent \/ \E args \in TenantArgs : AddAgent(args)
  PROVE  Inductive'
<1>1. NewClock \in ClockInfos /\ (Behind(NewClock) <=> tpm.clock > 0)
  BY DEF QuotesAssumption, NewClock, ClockInfos, Inductive, ClockSound, Behind
<1>2. CASE RemoveAgent
  <2>1. /\ row' = None /\ last' = None /\ state' = NewClock
        /\ UNCHANGED <<tpm, pcrs, machine, orderly>>
    BY <1>2 DEF RemoveAgent
  <2>2. ClockSound'
    BY <1>1, <2>1 DEF Inductive, ClockSound, Behind
  <2>3. QED
    BY <2>1, <2>2 DEF Inductive, RowSound, MachineSound, Judged, AcceptedMeetsPolicy,
       OrderlyIsAccepted
<1>3. ASSUME NEW args \in TenantArgs, AddAgent(args)
      PROVE  Inductive'
  <2>1. /\ ~ArgsRefused(args) /\ asked' = args /\ row' = RowFor(args, None, None, FALSE)
        /\ UNCHANGED <<state, tpm, pcrs, machine, orderly, last>>
    BY <1>3 DEF AddAgent, NewRow, RowFor
  <2>2. row'.clockinfo = None
    BY <2>1 DEF RowFor
  <2>3. row' = RowFor(asked', None, None, FALSE) /\ ~ArgsRefused(asked')
    BY <2>1
  <2>4. RowSound'
    BY <2>3 DEF RowSound
  <2>5. ClockSound'
    BY <2>1, <2>2 DEF Inductive, ClockSound, Behind
  <2>6. QED
    BY <2>1, <2>4, <2>5 DEF Inductive, MachineSound, Judged, AcceptedMeetsPolicy,
       OrderlyIsAccepted
<1>4. QED
  BY <1>2, <1>3

\* The PCRs of a machine that has just started with this log.
LEMMA PcrsAfterBoot ==
  ASSUME QuotesAssumption, NEW log \in BootLogs
  PROVE  /\ PcrsAfter(log) \in [BootPcrs \cup OtherPcrs -> Values]
         /\ \A p \in BootPcrs : PcrsAfter(log)[p] = LogValue(log, p)
BY DEF QuotesAssumption, PcrsAfter

\* Steps of the machine that leave the verifier alone.
LEMMA MachineStep ==
  ASSUME Inductive, UNCHANGED <<asked, row, state, last>>, MachineSound',
         tpm' \in ClockInfos, tpm'.clock > 0,
         orderly' => /\ orderly
                     /\ \A kept \in ClockInfos : Behind(kept) => Behind(kept)'
  PROVE  Inductive'
<1>1. RowSound' /\ Judged'
  BY DEF Inductive, RowSound, Judged, AcceptedMeetsPolicy, OrderlyIsAccepted
<1>2. ASSUME NEW kept \in ClockInfos, orderly', Behind(kept)
      PROVE  Behind(kept)'
  BY <1>2
<1>3. state \in ClockInfos /\ (row # None => row.clockinfo \in ClockInfos \cup {None})
  BY RowFacts DEF Inductive, ClockSound
<1>4. PICK s, c : s = state /\ c = row.clockinfo
  OBVIOUS
<1>5. ClockSound'
  <2>1. orderly' => Behind(s)'
    BY <1>2, <1>3, <1>4 DEF Inductive, ClockSound
  <2>2. orderly' /\ row # None /\ c # None => Behind(c)'
    BY <1>2, <1>3, <1>4 DEF Inductive, ClockSound
  <2>3. QED
    BY <1>3, <1>4, <2>1, <2>2 DEF ClockSound, Behind
<1>6. QED
  BY <1>1, <1>5 DEF Inductive

\* The machine boots, resumes, is set back, measures or runs something.
LEMMA MachineSteps ==
  ASSUME QuotesAssumption, Inductive,
         \/ \E log \in BootLogs, k \in PublicKeys, shutDown \in BOOLEAN : Boot(log, k, shutDown)
         \/ Resume
         \/ \E c \in 1..MaxClock, r \in 0..MaxCount : SetBack(c, r)
         \/ \E p \in BootPcrs \cup OtherPcrs : Measure(p)
         \/ RunFile
  PROVE  Inductive'
<1>1. /\ tpm \in ClockInfos /\ tpm.clock > 0 /\ MaxClock \in Nat \ {0} /\ MaxCount \in Nat
      /\ MachineSound
  BY DEF Inductive, ClockSound, QuotesAssumption
<1>2. ASSUME NEW log \in BootLogs, NEW k \in PublicKeys, NEW shutDown \in BOOLEAN,
             Boot(log, k, shutDown)
      PROVE  Inductive'
  <2>1. MachineSound'
    BY <1>2, PcrsAfterBoot DEF Boot, MachineSound
  <2>2. /\ tpm' \in ClockInfos /\ tpm'.clock = tpm.clock + 1 /\ tpm'.resets = tpm.resets + 1
        /\ tpm'.restarts = 0
    BY <1>1, <1>2 DEF Boot, ClockInfos
  <2>3. orderly' => /\ orderly
                    /\ \A kept \in ClockInfos : Behind(kept) => Behind(kept)'
    <3>1. orderly' => orderly /\ tpm.restarts = 0
      BY <1>2 DEF Boot
    <3>2. tpm.clock \in Nat /\ tpm.resets \in Nat
      BY <1>1 DEF ClockInfos
    <3>3. ASSUME tpm.restarts = 0, NEW kept \in ClockInfos, Behind(kept) PROVE Behind(kept)'
      <4>1. kept.clock \in Nat /\ kept.resets \in Nat /\ kept.restarts \in Nat
        BY <1>1 DEF ClockInfos
      <4>2. QED
        BY <2>2, <3>2, <3>3, <4>1 DEF Behind
    <3>4. QED
      BY <3>1, <3>3
  <2>4. tpm'.clock > 0 /\ UNCHANGED <<asked, row, state, last>>
    BY <1>1, <1>2, <2>2 DEF Boot, ClockInfos
  <2>5. QED
    BY <2>1, <2>2, <2>3, <2>4, MachineStep
<1>3. CASE Resume
  <2>1. PICK t : t = [tpm EXCEPT !.clock = @ + 1]
    OBVIOUS
  <2>2. /\ t \in ClockInfos /\ t.clock = tpm.clock + 1 /\ t.resets = tpm.resets
        /\ t.restarts = tpm.restarts
    BY <1>1, <1>3, <2>1 DEF ClockInfos, Resume
  <2>3. tpm' = [t EXCEPT !.restarts = tpm.restarts + 1]
    BY <1>1, <1>3, <2>1 DEF Resume, ClockInfos
  <2>4. /\ tpm' \in ClockInfos /\ tpm'.clock = tpm.clock + 1 /\ tpm'.resets = tpm.resets
        /\ tpm'.restarts = tpm.restarts + 1
    BY <1>1, <1>3, <2>2, <2>3 DEF ClockInfos, Resume
  <2>5. MachineSound' /\ UNCHANGED <<asked, row, state, last, orderly>>
    BY <1>3 DEF Resume, Inductive, MachineSound
  <2>6. tpm'.clock > 0 /\ \A kept \in ClockInfos : Behind(kept) => Behind(kept)'
    BY <1>1, <2>4 DEF Behind, ClockInfos
  <2>7. QED
    BY <2>4, <2>5, <2>6, MachineStep
<1>4. ASSUME NEW c \in 1..MaxClock, NEW r \in 0..MaxCount, SetBack(c, r)
      PROVE  Inductive'
  <2>1. PICK t : t = [tpm EXCEPT !.clock = c]
    OBVIOUS
  <2>2. t \in ClockInfos /\ t.clock = c
    BY <1>1, <2>1 DEF ClockInfos
  <2>3. tpm' = [t EXCEPT !.resets = r]
    BY <1>4, <2>1 DEF SetBack
  <2>4. tpm' \in ClockInfos /\ tpm'.clock > 0
    BY <1>1, <2>2, <2>3 DEF ClockInfos
  <2>5. MachineSound' /\ ~orderly' /\ UNCHANGED <<asked, row, state, last>>
    BY <1>4 DEF SetBack, Inductive, MachineSound
  <2>6. QED
    BY <2>4, <2>5, MachineStep
<1>5. CASE RunFile \/ \E p \in BootPcrs \cup OtherPcrs : Measure(p)
  <2>1. MachineSound'
    <3>1. CASE RunFile
      BY <1>1, <3>1 DEF RunFile, MachineSound
    <3>2. CASE \E p \in BootPcrs \cup OtherPcrs : Measure(p)
      BY <1>1, <3>2 DEF Measure, MachineSound, QuotesAssumption
    <3>3. QED
      BY <1>5, <3>1, <3>2
  <2>2. UNCHANGED <<asked, row, state, tpm, orderly, last>>
    BY <1>5 DEF RunFile, Measure
  <2>3. QED
    BY <1>1, <2>1, <2>2, MachineStep DEF Behind
<1>6. QED
  BY <1>2, <1>3, <1>4, <1>5
-----------------------------------------------------------------------------
(* The theorems *)

\* The invariant holds at first.
LEMMA InitInductive == ASSUME QuotesAssumption, Init PROVE Inductive
<1>1. MachineSound
  <2>1. PICK log \in BootLogs, k \in PublicKeys :
          machine = [log |-> log, allowed |-> TRUE, key |-> k] /\ pcrs = PcrsAfter(log)
    BY DEF Init
  <2>2. machine.log = log /\ machine \in [log : BootLogs, allowed : BOOLEAN, key : PublicKeys]
    BY <2>1
  <2>3. QED
    BY <2>1, <2>2, PcrsAfterBoot DEF MachineSound
<1>2. tpm = [clock |-> 1, resets |-> 0, restarts |-> 0, safe |-> TRUE]
  BY DEF Init, NewClock
<1>3. ClockSound
  <2>1. MaxClock \in Nat \ {0} /\ MaxCount \in Nat
    BY DEF QuotesAssumption
  <2>2. tpm \in ClockInfos /\ NewClock \in ClockInfos
    BY <1>2, <2>1 DEF ClockInfos, NewClock
  <2>3. tpm.clock > 0 /\ Behind(NewClock)
    BY <1>2 DEF Behind, NewClock
  <2>4. state = NewClock /\ row = None
    BY DEF Init
  <2>5. QED
    BY <2>2, <2>3, <2>4 DEF ClockSound
<1>4. QED
  BY <1>1, <1>3 DEF Init, Inductive, RowSound, Judged, AcceptedMeetsPolicy, OrderlyIsAccepted

\* Every step keeps it.
LEMMA NextInductive == ASSUME QuotesAssumption, Inductive, [Next]_vars PROVE Inductive'
<1>1. CASE UNCHANGED vars
  BY <1>1 DEF vars, Inductive, RowSound, MachineSound, ClockSound, Behind, Judged,
     AcceptedMeetsPolicy, OrderlyIsAccepted
<1>2. CASE Next
  BY <1>2, TenantSteps, MachineSteps, ProcessStep DEF Next
<1>3. QED
  BY <1>1, <1>2

\* What a row says is what its tenant asked for, a boot PCR that is not its log's was
\* extended, and a clock that went only forward is ahead of each that was kept
\* (do_cv, process_quote_response).
THEOREM QuotesAreSound == QuotesAssumption => (Spec => []Inductive)
<1> SUFFICES ASSUME QuotesAssumption
             PROVE  Spec => []Inductive
  OBVIOUS
<1>1. Init => Inductive
  BY InitInductive
<1>2. Inductive /\ [Next]_vars => Inductive'
  BY NextInductive
<1>3. QED
  BY <1>1, <1>2, PTL DEF Spec

\* The clocks, the PCRs and the rows are well formed.
THEOREM QuotesTypeCorrect == QuotesAssumption => (Spec => []TypeOK)
<1> SUFFICES ASSUME QuotesAssumption
             PROVE  Spec => []TypeOK
  OBVIOUS
<1>1. ASSUME Inductive PROVE TypeOK
  <2>1. ASSUME row # None
        PROVE  /\ DOMAIN row.allowlist \subseteq row.mask
               /\ row.clockinfo # None => row.clockinfo \in ClockInfos
    <3>1. PICK k, c, b : row = RowFor(asked, k, c, b)
      BY <1>1, <2>1, RowFacts DEF Inductive
    <3>2. row.allowlist = asked.tpm_policy /\ row.mask = Mask(asked)
      BY <3>1 DEF RowFor
    <3>3. QED
      BY <1>1, <2>1, <3>2, RowFacts DEF Mask, Inductive
  <2>2. QED
    BY <1>1, <2>1 DEF Inductive, MachineSound, ClockSound, TypeOK
<1>2. QED
  BY <1>1, QuotesAreSound, PTL

\* A quote is accepted only of a machine as the tenant asked, for every policy, log
\* and sequence of boots, suspensions and snapshots (process_policy, check_quote).
\* The boot PCRs need the assumption that no two logs lead to the same values.
THEOREM OnlyAsAsked == QuotesAssumption => (Spec => []AcceptedMeetsPolicy)
<1> SUFFICES ASSUME QuotesAssumption
             PROVE  Spec => []AcceptedMeetsPolicy
  OBVIOUS
<1>1. Inductive => AcceptedMeetsPolicy
  BY DEF Inductive, Judged
<1>2. QED
  BY <1>1, QuotesAreSound, PTL

\* A machine as the tenant asked, whose clock went forward, is never refused
\* (check_quote_timing, check_pcrs).
THEOREM AsAskedIsEnough == QuotesAssumption => (Spec => []OrderlyIsAccepted)
<1> SUFFICES ASSUME QuotesAssumption
             PROVE  Spec => []OrderlyIsAccepted
  OBVIOUS
<1>1. Inductive => OrderlyIsAccepted
  BY DEF Inductive, Judged
<1>2. QED
  BY <1>1, QuotesAreSound, PTL
=============================================================================
