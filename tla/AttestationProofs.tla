------------------------- MODULE AttestationProofs -------------------------
(* Theorems about incremental attestation.  Its types hold for any workers and
   pollers; that a replay of the rest of a log accepts what a replay of the
   whole log accepts, for one worker with one poller, for any entries, policies,
   lengths of the log and numbers of boots. *)
EXTENDS Attestation, SequenceTheorems, TLAPS

\* One worker that polls the agent once, and no second DELETE under a request.
OneLoop ==
  /\ \A v, w \in Workers : v = w
  /\ \A p, q \in Pollers : p = q
  /\ ~EarlyDelete

\* The PCR value kept is that of the entries passed.
Measured(a) == Len(Base(a)) = a.next

\* Only a PCR in ima_pcrs was ever extended: reset_ima_attestation misses none.
ResetReaches(a) == ~a.imaPcrs => a.next = 0

\* A reply is about a log.
ReplyMade(p) ==
  pc[p] = "answered" =>
    /\ reply[p] \in Replies
    /\ reply[p].start <= Len(reply[p].log) /\ reply[p].extended <= Len(reply[p].log)

Typed ==
  /\ TypeOK
  /\ \A w \in Workers : Measured(state[w]) /\ ResetReaches(state[w])
  /\ row # None => Measured(row)
  /\ \A p \in Pollers : ReplyMade(p)
-----------------------------------------------------------------------------
\* Position a is one in the log s, extended that far: the entries before it are
\* those of s; up to some entry that was looked at, they pass a full replay,
\* and bring the key if one is kept; a key that every policy admits is kept.
Placed(a, s, n) ==
  /\ a.next <= n
  /\ Base(a) = Prefix(s, a.next)
  /\ \E i \in a.next..Len(s) :
       FullReplay(Prefix(s, i), Upper) /\ (a.keys => Learned(s, i, Upper))
  /\ Learned(s, a.next, Common) => a.keys

\* What is left to see of a log of which m entries were shown.
Shown(a, m) == a.progress # None => a.next + a.progress[2] - a.progress[1] <= m

\* The position is in the machine's log, if it is from this boot.
InLog(a) == a.boottime <= boot /\ (a.boottime = boot => Placed(a, log, extended))

\* What a worker remembers.
StateSound(a) == InLog(a) /\ (a.boottime = boot => Shown(a, sent))

\* The poller asks for what follows the position, and the reply is about a log
\* that the position is in, if it is from its boot.
AskedNext(p) == pc[p] = "asked" => asked[p] = state[Home[p]].next

ReplySound(p) ==
  pc[p] = "answered" =>
    LET r == reply[p]
        a == state[Home[p]]
    IN /\ r.start \in {0, a.next}
       /\ r.boot <= boot
       /\ r.boot = boot => /\ Len(r.log) <= sent /\ Len(r.log) <= Len(log)
                           /\ r.log = Prefix(log, Len(r.log))
                           /\ r.extended <= extended
       /\ a.boottime = r.boot => /\ Placed(a, r.log, r.extended)
                                 /\ r.behind \/ Shown(a, r.extended)

\* Without a row there is nothing left of the agent.
Forgotten ==
  row = None => /\ \A p \in Pollers : pc[p] = "idle"
                /\ \A w \in Workers : state[w] = NewState

\* The policies in use are among those in force.
PoliciesKnown ==
  /\ row # None => policy \in inForce
  /\ \A p \in Pollers : pc[p] # "idle" => captured[p] \in inForce

Inductive ==
  /\ Typed
  /\ Forgotten
  /\ PoliciesKnown
  /\ sent <= Len(log)
  /\ \A w \in Workers : StateSound(state[w])
  /\ row # None => InLog(row)
  /\ \A p \in Pollers : AskedNext(p) /\ ReplySound(p)
-----------------------------------------------------------------------------
(* Logs *)

LEMMA LogIsSeq ==
  \A s : s \in Logs <=> s \in Seq(Entries) /\ Len(s) \in 0..MaxLog
<1>1. MaxLog \in Nat
  BY AttestationAssumption
<1>2. ASSUME NEW s \in Logs
      PROVE  s \in Seq(Entries) /\ Len(s) \in 0..MaxLog
  <2>1. PICK n \in 0..MaxLog : s \in [1..n -> Entries]
    BY DEF Logs
  <2>2. s \in Seq(Entries)
    BY <1>1, <2>1, SeqDef
  <2>3. Len(s) = n
    BY <1>1, <2>1, <2>2, LenProperties
  <2>4. QED
    BY <2>2, <2>3
<1>3. ASSUME NEW s \in Seq(Entries), Len(s) \in 0..MaxLog
      PROVE  s \in Logs
  BY <1>3, LenProperties DEF Logs
<1>4. QED
  BY <1>2, <1>3

LEMMA EmptyLog == <<>> \in Logs /\ Len(<<>>) = 0
<1>1. PICK s : s = <<>>
  OBVIOUS
<1>2. s \in Seq(Entries) /\ Len(s) = 0 /\ MaxLog \in Nat
  BY <1>1, EmptySeq, AttestationAssumption
<1>3. Len(s) \in 0..MaxLog
  BY <1>2
<1>4. s \in Logs
  BY <1>2, <1>3, LogIsSeq
<1>5. QED
  BY <1>1, <1>2, <1>4

LEMMA LongerLog ==
  ASSUME NEW s \in Logs, NEW e \in Entries, Len(s) < MaxLog
  PROVE  /\ Append(s, e) \in Logs /\ Len(Append(s, e)) = Len(s) + 1
         /\ \A i \in 1..Len(s) : Append(s, e)[i] = s[i]
<1>1. s \in Seq(Entries) /\ Len(s) \in 0..MaxLog /\ MaxLog \in Nat
  BY LogIsSeq, AttestationAssumption
<1>2. PICK t : t = Append(s, e)
  OBVIOUS
<1>3. /\ t \in Seq(Entries) /\ Len(t) = Len(s) + 1
      /\ \A i \in 1..Len(s) : t[i] = s[i]
  BY <1>1, <1>2, AppendProperties
<1>4. Len(t) \in 0..MaxLog
  BY <1>1, <1>3
<1>5. t \in Logs
  BY <1>3, <1>4, LogIsSeq
<1>6. QED
  BY <1>2, <1>3, <1>5

LEMMA PrefixFacts ==
  ASSUME NEW s \in Logs, NEW n \in 0..Len(s)
  PROVE  /\ Prefix(s, n) \in Logs
         /\ Len(Prefix(s, n)) = n
         /\ \A i \in 1..n : Prefix(s, n)[i] = s[i]
<1>1. s \in Seq(Entries) /\ Len(s) \in Nat /\ Len(s) <= MaxLog /\ MaxLog \in Nat
  BY LogIsSeq, LenProperties, AttestationAssumption
<1>2. \A i \in 1..n : s[i] \in Entries
  BY <1>1, ElementOfSeq
<1>3. /\ SubSeq(s, 1, n) \in Seq(Entries)
      /\ Len(SubSeq(s, 1, n)) = IF 1 <= n THEN n - 1 + 1 ELSE 0
      /\ \A i \in 1..n - 1 + 1 : SubSeq(s, 1, n)[i] = s[1 + i - 1]
  BY <1>1, <1>2, SubSeqProperties
<1>4. n \in Nat /\ n - 1 + 1 = n /\ \A i \in 1..n : 1 + i - 1 = i
  BY <1>1
<1>5. Len(SubSeq(s, 1, n)) = n
  BY <1>3, <1>4
<1>6. SubSeq(s, 1, n) \in Logs
  <2>1. PICK t : t = SubSeq(s, 1, n)
    OBVIOUS
  <2>2. t \in Seq(Entries) /\ Len(t) \in 0..MaxLog
    BY <1>1, <1>3, <1>5, <2>1
  <2>3. QED
    BY <2>1, <2>2, LogIsSeq
<1>7. ASSUME NEW i \in 1..n
      PROVE  SubSeq(s, 1, n)[i] = s[i]
  <2>1. i \in 1..n - 1 + 1 /\ 1 + i - 1 = i
    BY <1>4
  <2>2. QED
    BY <1>3, <2>1
<1>8. QED
  BY <1>5, <1>6, <1>7 DEF Prefix

\* What follows the entry asked for.
LEMMA LinesFacts ==
  ASSUME NEW r \in Replies, r.start <= Len(r.log)
  PROVE  /\ Lines(r) \in Seq(Entries)
         /\ Len(Lines(r)) = Len(r.log) - r.start
         /\ \A i \in 1..Len(Lines(r)) : Lines(r)[i] = r.log[r.start + i]
<1>1. /\ r.log \in Seq(Entries) /\ Len(r.log) \in Nat /\ Len(r.log) <= MaxLog
      /\ r.start \in Nat
  BY LogIsSeq, LenProperties, AttestationAssumption DEF Replies
<1>2. \A i \in r.start + 1..Len(r.log) : r.log[i] \in Entries
  BY <1>1, ElementOfSeq
<1>3. PICK m \in Int : m = r.start + 1
  BY <1>1
<1>4. /\ SubSeq(r.log, m, Len(r.log)) \in Seq(Entries)
      /\ Len(SubSeq(r.log, m, Len(r.log)))
           = IF m <= Len(r.log) THEN Len(r.log) - m + 1 ELSE 0
      /\ \A i \in 1..Len(r.log) - m + 1 :
           SubSeq(r.log, m, Len(r.log))[i] = r.log[m + i - 1]
  BY <1>1, <1>2, <1>3, SubSeqProperties
<1>5. Len(r.log) - m + 1 = Len(r.log) - r.start /\ \A i \in Nat : m + i - 1 = r.start + i
  BY <1>1, <1>3
<1>6. Lines(r) = SubSeq(r.log, m, Len(r.log))
  BY <1>3 DEF Lines
<1>7. Len(Lines(r)) = Len(r.log) - r.start
  BY <1>1, <1>3, <1>4, <1>6
<1>8. QED
  BY <1>4, <1>5, <1>6, <1>7
-----------------------------------------------------------------------------
(* AgentAttestState *)

LEMMA NewStateTyped ==
  /\ NewState \in States /\ Measured(NewState) /\ ResetReaches(NewState)
  /\ NewColumns \in Columns /\ Measured(NewColumns)
BY AttestationAssumption DEF NewState, States, Columns, NewColumns, Measured, Base, ResetReaches

\* A state with another value in one field.
LEMMA FieldTyped ==
  ASSUME NEW a \in States
  PROVE  /\ \A x \in 0..MaxLog : [a EXCEPT !.next = x] \in States
         /\ \A x \in Boots \union {0} : [a EXCEPT !.boottime = x] \in States
         /\ \A x \in Logs \union {None} : [a EXCEPT !.pcr = x] \in States
         /\ \A x \in BOOLEAN : [a EXCEPT !.imaPcrs = x] \in States
         /\ \A x \in BOOLEAN : [a EXCEPT !.hashAlg = x] \in States
         /\ \A x \in BOOLEAN : [a EXCEPT !.keys = x] \in States
         /\ \A x \in {None} \union ((0..MaxLog) \X (0..MaxLog)) :
              [a EXCEPT !.progress = x] \in States
BY DEF States

LEMMA ResetImaFacts ==
  ASSUME NEW a \in States, Measured(a), ResetReaches(a)
  PROVE  /\ ResetIma(a) \in States /\ Measured(ResetIma(a)) /\ ResetReaches(ResetIma(a))
         /\ ResetIma(a).next = 0 /\ ResetIma(a).boottime = 0 /\ ResetIma(a).keys = FALSE
         /\ ResetIma(a).progress = None /\ Base(ResetIma(a)) = <<>>
<1>1. MaxLog \in Nat
  BY AttestationAssumption
<1>2. ResetIma(a) \in States
  <2>1. PICK c, no : c = (IF a.imaPcrs THEN None ELSE a.pcr) /\ no = FALSE
    OBVIOUS
  <2>2. c \in Logs \union {None} /\ no \in BOOLEAN
    BY <2>1 DEF States
  <2>3. PICK a1 \in States : a1 = [a EXCEPT !.next = 0]
    <3>1. PICK zero \in 0..MaxLog : zero = 0
      BY <1>1
    <3>2. [a EXCEPT !.next = zero] \in States
      BY FieldTyped
    <3>3. QED
      BY <3>1, <3>2
  <2>4. PICK a2 \in States : a2 = [a1 EXCEPT !.boottime = 0]
    BY FieldTyped
  <2>5. PICK a3 \in States : a3 = [a2 EXCEPT !.keys = no]
    BY <2>2, FieldTyped
  <2>6. PICK a4 \in States : a4 = [a3 EXCEPT !.progress = None]
    BY FieldTyped
  <2>7. PICK a5 \in States : a5 = [a4 EXCEPT !.pcr = c]
    BY <2>2, FieldTyped
  <2>8. ResetIma(a) = a5
    BY <2>1, <2>3, <2>4, <2>5, <2>6, <2>7 DEF ResetIma
  <2>9. QED
    BY <2>8
<1>3. /\ ResetIma(a).next = 0 /\ ResetIma(a).boottime = 0 /\ ResetIma(a).keys = FALSE
      /\ ResetIma(a).progress = None /\ ResetIma(a).imaPcrs = a.imaPcrs
      /\ ResetIma(a).pcr = IF a.imaPcrs THEN None ELSE a.pcr
  BY DEF ResetIma, States
<1>4. Base(ResetIma(a)) = <<>>
  <2>1. Base(a) \in Seq(Entries)
    BY LogIsSeq, EmptySeq DEF Base, States
  <2>2. CASE a.imaPcrs
    BY <1>3, <2>2 DEF Base
  <2>3. CASE ~a.imaPcrs
    <3>1. Base(a) = <<>>
      BY <2>1, <2>3, EmptySeq DEF Measured, ResetReaches
    <3>2. QED
      BY <1>3, <2>3, <3>1 DEF Base
  <2>4. QED
    BY <2>2, <2>3
<1>5. QED
  BY <1>2, <1>3, <1>4, EmptySeq DEF Measured, ResetReaches

LEMMA BaseTyped ==
  ASSUME NEW a, a.pcr \in Logs \union {None}
  PROVE  Base(a) \in Logs
BY EmptyLog DEF Base

LEMMA ReplyTyped ==
  ASSUME NEW r \in Replies
  PROVE  /\ r.log \in Logs /\ r.log \in Seq(Entries) /\ Len(r.log) \in 0..MaxLog
         /\ r.start \in 0..MaxLog /\ r.extended \in 0..MaxLog /\ MaxLog \in Nat
BY LogIsSeq, AttestationAssumption DEF Replies

\* The state a reply is checked from.
LEMMA BegunFacts ==
  ASSUME NEW a \in States, Measured(a), ResetReaches(a), NEW r \in Replies
  PROVE  /\ Begun(a, r) \in States /\ Measured(Begun(a, r)) /\ ResetReaches(Begun(a, r))
         /\ Begun(a, r).boottime = r.boot
         /\ r.start = 0 => /\ Begun(a, r).next = 0 /\ Begun(a, r).keys = FALSE
                           /\ Begun(a, r).progress = None /\ Base(Begun(a, r)) = <<>>
         /\ r.start # 0 => /\ Begun(a, r).next = a.next /\ Begun(a, r).keys = a.keys
                           /\ Begun(a, r).progress = a.progress /\ Base(Begun(a, r)) = Base(a)
<1>1. PICK b \in States : b = IF r.start = 0 THEN ResetIma(a) ELSE a
  BY ResetImaFacts
<1>2. /\ Measured(b) /\ ResetReaches(b)
      /\ r.start = 0 => /\ b.next = 0 /\ b.keys = FALSE /\ b.progress = None /\ Base(b) = <<>>
      /\ r.start # 0 => b = a
  BY <1>1, ResetImaFacts
<1>3. PICK c \in States : c = [b EXCEPT !.boottime = r.boot]
  BY FieldTyped DEF Replies
<1>4. c = Begun(a, r)
  BY <1>1, <1>3 DEF Begun
<1>5. /\ c.boottime = r.boot /\ c.next = b.next /\ c.keys = b.keys /\ c.progress = b.progress
      /\ c.pcr = b.pcr /\ c.imaPcrs = b.imaPcrs
  BY <1>3 DEF States
<1>6. Base(c) = Base(b)
  BY <1>5 DEF Base
<1>7. QED
  BY <1>2, <1>4, <1>5, <1>6 DEF Measured, ResetReaches

\* The replay meets the quote where the quote's PCR stops, or nowhere.
LEMMA MatchFacts ==
  ASSUME NEW b \in States, Measured(b), NEW r \in Replies,
         r.start <= Len(r.log), r.extended <= Len(r.log), NEW i \in Matches(b, r)
  PROVE  /\ i \in 0..Len(r.log) - r.start
         /\ b.next + i = r.extended
         /\ Base(b) \o Prefix(Lines(r), i) = Prefix(r.log, r.extended)
<1>1. /\ Base(b) \in Logs /\ r.log \in Logs /\ r.start \in Nat /\ r.extended \in Nat
      /\ Len(r.log) \in Nat
  BY BaseTyped, ReplyTyped DEF States
<1>2. /\ i \in 0..Len(Lines(r)) /\ Len(Lines(r)) = Len(r.log) - r.start
      /\ Base(b) \o Prefix(Lines(r), i) = Prefix(r.log, r.extended)
  BY LinesFacts DEF Matches
<1>3. Lines(r) \in Logs
  <2>1. Lines(r) \in Seq(Entries) /\ Len(Lines(r)) \in 0..Len(r.log)
    BY <1>1, <1>2, LinesFacts
  <2>2. Len(Lines(r)) \in 0..MaxLog
    BY <1>1, <2>1, LogIsSeq, AttestationAssumption
  <2>3. QED
    BY <2>1, <2>2, LogIsSeq
<1>4. Prefix(Lines(r), i) \in Logs /\ Len(Prefix(Lines(r), i)) = i
  BY <1>2, <1>3, PrefixFacts
<1>5. Len(Prefix(r.log, r.extended)) = r.extended
  BY <1>1, PrefixFacts
<1>6. PICK s \in Seq(Entries), t \in Seq(Entries) : s = Base(b) /\ t = Prefix(Lines(r), i)
  BY <1>1, <1>4, LogIsSeq
<1>7. Len(s \o t) = Len(s) + Len(t)
  BY ConcatProperties
<1>8. QED
  BY <1>2, <1>4, <1>5, <1>6, <1>7 DEF Measured

\* What a replay leaves: nothing after a failure, else the place where the
\* quote's PCR stops.
LEMMA ReplayedFacts ==
  ASSUME NEW b \in States, Measured(b), ResetReaches(b), NEW r \in Replies, NEW rules,
         r.start <= Len(r.log), r.extended <= Len(r.log)
  PROVE  /\ Replayed(b, r, rules) \in States
         /\ Measured(Replayed(b, r, rules)) /\ ResetReaches(Replayed(b, r, rules))
         /\ ImaFailures(b, r, rules) =>
              /\ Replayed(b, r, rules).next = 0 /\ Replayed(b, r, rules).boottime = 0
              /\ Replayed(b, r, rules).keys = FALSE
              /\ Replayed(b, r, rules).progress = None
              /\ Base(Replayed(b, r, rules)) = <<>>
         /\ ~ImaFailures(b, r, rules) =>
              /\ Replayed(b, r, rules).next = r.extended
              /\ Replayed(b, r, rules).boottime = b.boottime
              /\ Replayed(b, r, rules).keys
                   = (b.keys \/ Learned(Lines(r), Len(Lines(r)), rules))
              /\ Replayed(b, r, rules).progress = <<r.extended - b.next, Len(Lines(r))>>
              /\ Base(Replayed(b, r, rules)) = Prefix(r.log, r.extended)
<1>1. PICK u1 \in States : u1 = [b EXCEPT !.pcr = Base(b)]
  <2>1. Base(b) \in Logs \union {None}
    BY BaseTyped DEF States
  <2>2. QED
    BY <2>1, FieldTyped
<1>2. PICK yes \in BOOLEAN : yes = TRUE
  OBVIOUS
<1>3. PICK u \in States : u = [u1 EXCEPT !.hashAlg = yes]
  BY FieldTyped
<1>4. u = InUse(b)
  BY <1>1, <1>2, <1>3 DEF InUse
<1>5. /\ u.next = b.next /\ u.pcr = Base(b) /\ u.imaPcrs = b.imaPcrs
      /\ u.keys = b.keys /\ u.boottime = b.boottime
  BY <1>1, <1>3 DEF States
<1>6. Base(b) # None
  BY BaseTyped, LogIsSeq, AttestationAssumption DEF States
<1>7. Measured(u) /\ ResetReaches(u)
  BY <1>5, <1>6 DEF Measured, ResetReaches, Base
<1>8. CASE ImaFailures(b, r, rules)
  <2>1. PICK more \in BOOLEAN : more = (u.imaPcrs \/ Matches(b, r) \ {0} # {})
    OBVIOUS
  <2>2. PICK v \in States : v = [u EXCEPT !.imaPcrs = more]
    BY FieldTyped
  <2>3. v.next = u.next /\ v.pcr = u.pcr /\ v.imaPcrs = more
    BY <2>2 DEF States
  <2>4. Measured(v) /\ ResetReaches(v)
    BY <1>7, <2>1, <2>3 DEF Measured, Base, ResetReaches
  <2>5. Replayed(b, r, rules) = ResetIma(v)
    BY <1>4, <1>8, <2>1, <2>2 DEF Replayed
  <2>6. QED
    BY <1>8, <2>4, <2>5, ResetImaFacts
<1>9. CASE ~ImaFailures(b, r, rules)
  <2>1. PICK i : i = CHOOSE j \in Matches(b, r) : TRUE
    OBVIOUS
  <2>2. i \in Matches(b, r)
    BY <1>9, <2>1 DEF ImaFailures
  <2>3. i \in 0..Len(r.log) - r.start /\ b.next + i = r.extended
    BY <2>2, MatchFacts
  <2>4. PICK know \in BOOLEAN : know = (u.keys \/ Learned(Lines(r), Len(Lines(r)), rules))
    OBVIOUS
  <2>5. PICK n \in 0..MaxLog : n = Len(Lines(r))
    BY LinesFacts, ReplyTyped
  <2>6. i \in 0..MaxLog
    BY <2>3, ReplyTyped
  <2>7. PICK v1 \in States : v1 = [u EXCEPT !.keys = know]
    BY FieldTyped
  <2>8. PICK v \in States : v = [v1 EXCEPT !.progress = <<i, n>>]
    BY <2>5, <2>6, FieldTyped
  <2>9. /\ v.next = u.next /\ v.pcr = u.pcr /\ v.imaPcrs = u.imaPcrs
        /\ v.boottime = u.boottime /\ v.keys = know /\ v.progress = <<i, n>>
    BY <2>7, <2>8 DEF States
  <2>10. i = r.extended - b.next
    BY <2>3, ReplyTyped DEF States
  <2>11. v = [InUse(b) EXCEPT !.keys = @ \/ Learned(Lines(r), Len(Lines(r)), rules),
                              !.progress = <<i, Len(Lines(r))>>]
    BY <1>4, <2>4, <2>5, <2>7, <2>8
  <2>12. Replayed(b, r, rules) = IF i = 0 THEN v ELSE Advanced(v, i, Prefix(r.log, r.extended))
    BY <1>9, <2>1, <2>11 DEF Replayed
  <2>13. CASE i = 0
    <3>1. v = Replayed(b, r, rules) /\ Measured(v) /\ ResetReaches(v) /\ Base(v) = Base(b)
      BY <1>5, <1>6, <1>7, <2>9, <2>12, <2>13 DEF Measured, Base, ResetReaches
    <3>2. v.next = r.extended
      BY <1>5, <2>3, <2>9, <2>13 DEF States
    <3>3. Base(b) = Prefix(r.log, r.extended)
      <4>1. Prefix(Lines(r), i) = <<>>
        BY <2>13, SubSeqEmpty DEF Prefix
      <4>2. Base(b) \in Seq(Entries)
        BY BaseTyped, LogIsSeq DEF States
      <4>3. Base(b) \o <<>> = Base(b)
        BY <4>2, ConcatEmptySeq
      <4>4. Base(b) \o Prefix(Lines(r), i) = Prefix(r.log, r.extended)
        BY <2>2, MatchFacts
      <4>5. QED
        BY <4>1, <4>3, <4>4
    <3>4. QED
      BY <1>5, <1>9, <2>4, <2>5, <2>9, <2>10, <3>1, <3>2, <3>3
  <2>14. CASE i # 0
    <3>1. PICK c : c = Prefix(r.log, r.extended)
      OBVIOUS
    <3>2. c \in Logs /\ Len(c) = r.extended /\ c # None
      BY <3>1, PrefixFacts, ReplyTyped, LogIsSeq, AttestationAssumption
    <3>3. PICK e \in 0..MaxLog : e = v.next + i
      BY <1>5, <2>3, <2>9, ReplyTyped
    <3>4. PICK w1 \in States : w1 = [v EXCEPT !.next = e]
      BY FieldTyped
    <3>5. PICK w2 \in States : w2 = [w1 EXCEPT !.pcr = c]
      BY <3>2, FieldTyped
    <3>6. PICK w \in States : w = [w2 EXCEPT !.imaPcrs = yes]
      BY FieldTyped
    <3>7. w = Advanced(v, i, c)
      BY <1>2, <3>3, <3>4, <3>5, <3>6 DEF Advanced
    <3>8. /\ w.next = e /\ w.pcr = c /\ w.imaPcrs
          /\ w.boottime = v.boottime /\ w.keys = v.keys /\ w.progress = v.progress
      BY <1>2, <3>4, <3>5, <3>6 DEF States
    <3>9. Measured(w) /\ ResetReaches(w)
      BY <1>5, <2>3, <2>9, <3>2, <3>3, <3>8 DEF Measured, Base, ResetReaches
    <3>10. w = Replayed(b, r, rules)
      BY <2>12, <2>14, <3>1, <3>7
    <3>11. Base(w) = c /\ w.next = r.extended
      BY <1>5, <2>3, <2>9, <3>2, <3>3, <3>8 DEF Base
    <3>12. QED
      BY <1>5, <1>9, <2>4, <2>5, <2>9, <2>10, <3>1, <3>8, <3>9, <3>10, <3>11
  <2>15. QED
    BY <2>13, <2>14
<1>10. QED
  BY <1>8, <1>9
-----------------------------------------------------------------------------
(* Types *)

\* The columns of a row that a worker resumes from.
LEMMA ResumedTyped ==
  ASSUME NEW c \in Columns, Measured(c)
  PROVE  /\ Resumed(c) \in States /\ Measured(Resumed(c)) /\ ResetReaches(Resumed(c))
         /\ Resumed(c).next = c.next /\ Resumed(c).boottime = c.boottime
         /\ Resumed(c).keys = c.keys /\ Base(Resumed(c)) = Base(c)
         /\ Resumed(c).progress = None
<1>1. PICK a0 \in States : a0 = NewState
  BY NewStateTyped
<1>2. a0.progress = None
  BY <1>1 DEF NewState
<1>3. PICK yes \in BOOLEAN : yes = TRUE
  OBVIOUS
<1>4. Resumed(c) \in States /\ Resumed(c).next = c.next /\ Resumed(c).boottime = c.boottime
      /\ Resumed(c).pcr = c.pcr /\ Resumed(c).imaPcrs = yes /\ Resumed(c).keys = c.keys
      /\ Resumed(c).progress = None
  <2>1. PICK a1 \in States : a1 = [a0 EXCEPT !.next = c.next]
    BY FieldTyped DEF Columns
  <2>2. PICK a2 \in States : a2 = [a1 EXCEPT !.boottime = c.boottime]
    BY FieldTyped DEF Columns
  <2>3. PICK a3 \in States : a3 = [a2 EXCEPT !.pcr = c.pcr]
    BY FieldTyped DEF Columns
  <2>4. PICK a4 \in States : a4 = [a3 EXCEPT !.imaPcrs = yes]
    BY FieldTyped
  <2>5. PICK a5 \in States : a5 = [a4 EXCEPT !.keys = c.keys]
    BY FieldTyped DEF Columns
  <2>6. a5 = Resumed(c)
    BY <1>1, <1>3, <2>1, <2>2, <2>3, <2>4, <2>5 DEF Resumed
  <2>7. /\ a5.next = c.next /\ a5.boottime = c.boottime /\ a5.pcr = c.pcr
        /\ a5.imaPcrs = yes /\ a5.keys = c.keys /\ a5.progress = None
    BY <1>2, <2>1, <2>2, <2>3, <2>4, <2>5 DEF States
  <2>8. QED
    BY <2>6, <2>7
<1>5. Base(Resumed(c)) = Base(c)
  BY <1>4 DEF Base
<1>6. QED
  BY <1>3, <1>4, <1>5 DEF Measured, ResetReaches

\* The columns a row is written with.
LEMMA StoredTyped ==
  ASSUME NEW a \in States, Measured(a), Typed
  PROVE  \/ Stored(a) = row
         \/ /\ row # None /\ Stored(a) \in Columns /\ Measured(Stored(a))
            /\ Stored(a).next = a.next /\ Stored(a).boottime = a.boottime
            /\ Stored(a).keys = a.keys /\ Base(Stored(a)) = Base(a)
<1>1. CASE row # None /\ a.imaPcrs /\ a.hashAlg /\ a.pcr # None
  <2>1. PICK c : c = [next |-> a.next, boottime |-> a.boottime, pcr |-> a.pcr, keys |-> a.keys]
    OBVIOUS
  <2>2. c = Stored(a)
    BY <1>1, <2>1 DEF Stored
  <2>3. /\ c \in Columns /\ c.next = a.next /\ c.boottime = a.boottime /\ c.keys = a.keys
        /\ c.pcr = a.pcr
    BY <2>1 DEF Columns, States
  <2>4. Base(c) = Base(a)
    BY <2>3 DEF Base
  <2>5. QED
    BY <1>1, <2>2, <2>3, <2>4 DEF Measured
<1>2. CASE ~(row # None /\ a.imaPcrs /\ a.hashAlg /\ a.pcr # None)
  BY <1>2 DEF Stored
<1>3. QED
  BY <1>1, <1>2

\* Where the poller goes.
LEMMA PollerGoes ==
  ASSUME Typed, NEW p \in Pollers, NEW rules \in Policies \union {None},
         Due(p, rules) \/ Ends(p)
  PROVE  /\ pc' \in [Pollers -> {"idle", "due", "asked", "answered"}]
         /\ captured' \in [Pollers -> Policies \union {None}]
         /\ asked' \in [Pollers -> 0..MaxLog]
         /\ reply' \in [Pollers -> Replies \union {None}]
         /\ pc'[p] \in {"idle", "due"}
         /\ pc'[p] = "due" => Due(p, rules) /\ captured'[p] = rules
         /\ \A q \in Pollers : q # p => /\ pc'[q] = pc[q] /\ captured'[q] = captured[q]
                                        /\ asked'[q] = asked[q] /\ reply'[q] = reply[q]
         /\ \A q \in Pollers : ReplyMade(q)'
<1>1. PICK none : none \in 0..MaxLog /\ none = 0
  BY AttestationAssumption
<1>2. asked' = [asked EXCEPT ![p] = none]
  BY <1>1 DEF Due, Ends
<1>3. asked' \in [Pollers -> 0..MaxLog] /\ \A q \in Pollers : q # p => asked'[q] = asked[q]
  BY <1>1, <1>2 DEF Typed, TypeOK
<1>4. /\ pc' \in [Pollers -> {"idle", "due", "asked", "answered"}]
      /\ captured' \in [Pollers -> Policies \union {None}]
      /\ reply' \in [Pollers -> Replies \union {None}]
      /\ pc'[p] \in {"idle", "due"}
      /\ pc'[p] = "due" => Due(p, rules) /\ captured'[p] = rules
      /\ \A q \in Pollers : q # p => /\ pc'[q] = pc[q] /\ captured'[q] = captured[q]
                                     /\ reply'[q] = reply[q]
  BY DEF Typed, TypeOK, Due, Ends
<1>5. \A q \in Pollers : ReplyMade(q)'
  BY <1>4 DEF Typed, ReplyMade
<1>6. QED
  BY <1>3, <1>4, <1>5

\* A state and a row are written, and the poller goes on or ends.
LEMMA FinishTyped ==
  ASSUME Typed, NEW p \in Pollers, NEW a \in States, Measured(a), ResetReaches(a),
         Finish(p, a), verdict' \in Verdicts \union {None}
  PROVE  Typed'
<1>1. Due(p, policy) \/ Ends(p)
  BY DEF Finish
<1>2. policy \in Policies \union {None}
  BY DEF Typed, TypeOK
<1>3. /\ pc' \in [Pollers -> {"idle", "due", "asked", "answered"}]
      /\ captured' \in [Pollers -> Policies \union {None}]
      /\ asked' \in [Pollers -> 0..MaxLog]
      /\ reply' \in [Pollers -> Replies \union {None}]
      /\ \A q \in Pollers : ReplyMade(q)'
  BY <1>1, <1>2, PollerGoes
<1>4. state' = [state EXCEPT ![Home[p]] = a] /\ row' = Stored(a) /\ UNCHANGED <<machine, policies>>
  BY DEF Finish
<1>5. /\ state' \in [Workers -> States]
      /\ \A w \in Workers : Measured(state'[w]) /\ ResetReaches(state'[w])
  BY <1>4 DEF Typed, TypeOK
<1>6. row' \in Columns \union {None} /\ (row' # None => Measured(row'))
  BY <1>4, StoredTyped DEF Typed, TypeOK
<1>7. TypeOK'
  BY <1>3, <1>4, <1>5, <1>6 DEF Typed, TypeOK, machine, policies
<1>8. QED
  BY <1>3, <1>5, <1>6, <1>7 DEF Typed, Measured, ResetReaches, Base

\* A reply that is looked at, however far.
LEMMA AnswerLookedAt ==
  ASSUME Typed, NEW p \in Pollers, pc[p] = "answered"
  PROVE  /\ state[Home[p]] \in States /\ Measured(state[Home[p]]) /\ ResetReaches(state[Home[p]])
         /\ reply[p] \in Replies
         /\ reply[p].start <= Len(reply[p].log) /\ reply[p].extended <= Len(reply[p].log)
BY AttestationAssumption DEF Typed, TypeOK, ReplyMade

LEMMA JudgedTyped ==
  ASSUME NEW p \in Pollers, reply[p] \in Replies, NEW ok \in BOOLEAN, Judged(p, ok)
  PROVE  verdict' \in Verdicts
BY DEF Judged, Replies, Verdicts

LEMMA LookTyped ==
  ASSUME Typed, NEW p \in Pollers,
         \/ TakenForReboot(p) \/ ReplyRefused(p) \/ QuoteRefused(p)
         \/ \E elsewhere \in BOOLEAN : Checked(p, elsewhere)
  PROVE  Typed'
<1> DEFINE a == state[Home[p]]
           r == reply[p]
<1>1. pc[p] = "answered"
  BY DEF TakenForReboot, ReplyRefused, QuoteRefused, Checked
<1>2. /\ a \in States /\ Measured(a) /\ ResetReaches(a) /\ r \in Replies
      /\ r.start <= Len(r.log) /\ r.extended <= Len(r.log)
  BY <1>1, AnswerLookedAt
<1>3. Begun(a, r) \in States /\ Measured(Begun(a, r)) /\ ResetReaches(Begun(a, r))
  BY <1>2, BegunFacts
<1>4. CASE TakenForReboot(p)
  BY <1>2, <1>4, ResetImaFacts, FinishTyped DEF TakenForReboot
<1>5. CASE ReplyRefused(p)
  BY <1>2, <1>5, FinishTyped DEF ReplyRefused
<1>6. CASE QuoteRefused(p)
  <2>1. verdict' \in Verdicts \union {None}
    BY <1>2, <1>6, JudgedTyped DEF QuoteRefused
  <2>2. Finish(p, Begun(a, r))
    BY <1>6 DEF QuoteRefused
  <2>3. QED
    BY <1>3, <2>1, <2>2, FinishTyped
<1>7. ASSUME NEW elsewhere \in BOOLEAN, Checked(p, elsewhere)
      PROVE  Typed'
  <2>1. verdict' \in Verdicts \union {None}
    BY <1>2, <1>7, JudgedTyped DEF Checked
  <2>2. Finish(p, Replayed(Begun(a, r), r, captured[p]))
    BY <1>7 DEF Checked
  <2>3. /\ Replayed(Begun(a, r), r, captured[p]) \in States
        /\ Measured(Replayed(Begun(a, r), r, captured[p]))
        /\ ResetReaches(Replayed(Begun(a, r), r, captured[p]))
    BY <1>2, <1>3, ReplayedFacts
  <2>4. QED
    BY <2>1, <2>2, <2>3, FinishTyped
<1>8. QED
  BY <1>4, <1>5, <1>6, <1>7

\* The machine's log is a log, however it grows.
LEMMA LogTyped ==
  ASSUME Typed
  PROVE  log \in Logs /\ log \in Seq(Entries) /\ Len(log) \in 0..MaxLog /\ MaxLog \in Nat
         /\ extended \in 0..Len(log)
BY LogIsSeq, AttestationAssumption DEF Typed, TypeOK

LEMMA MachineTyped ==
  ASSUME Typed, (\E e \in Entries : Measure(e)) \/ Extend \/ Reboot
  PROVE  Typed'
<1>1. CASE \E e \in Entries : Measure(e)
  <2>1. PICK e \in Entries : Measure(e)
    BY <1>1
  <2>2. /\ Len(log) < MaxLog /\ log' = Append(log, e) /\ verdict' = None
        /\ UNCHANGED <<extended, boot, sent, state, row, policies, pollers>>
    BY <2>1 DEF Measure
  <2>3. log' \in Logs /\ Len(log') = Len(log) + 1
    BY <2>2, LogTyped, LongerLog
  <2>4. extended' \in 0..Len(log')
    BY <2>2, <2>3, LogTyped
  <2>5. TypeOK'
    BY <2>2, <2>3, <2>4 DEF Typed, TypeOK, policies, pollers
  <2>6. QED
    BY <2>2, <2>5 DEF Typed, Measured, ResetReaches, Base, ReplyMade, pollers
<1>2. CASE Extend
  <2>1. extended' \in 0..Len(log') /\ verdict' = None
        /\ UNCHANGED <<log, boot, sent, state, row, policies, pollers>>
    BY <1>2, LogTyped DEF Extend
  <2>2. TypeOK'
    BY <2>1 DEF Typed, TypeOK, policies, pollers
  <2>3. QED
    BY <2>1, <2>2 DEF Typed, Measured, ResetReaches, Base, ReplyMade, pollers
<1>3. CASE Reboot
  <2>1. /\ boot' = boot + 1 /\ boot < MaxBoots /\ log' = <<>> /\ extended' = 0 /\ sent' = 0
        /\ verdict' = None /\ UNCHANGED <<state, row, policies, pollers>>
    BY <1>3 DEF Reboot
  <2>2. boot' \in Boots /\ sent' \in 0..MaxLog
    BY <2>1, AttestationAssumption DEF Typed, TypeOK, Boots
  <2>3. log' \in Logs /\ Len(log') = 0
    BY <2>1, EmptyLog
  <2>4. extended' \in 0..Len(log')
    BY <2>1, <2>3
  <2>5. TypeOK'
    BY <2>1, <2>2, <2>3, <2>4 DEF Typed, TypeOK, policies, pollers
  <2>6. QED
    BY <2>1, <2>5 DEF Typed, Measured, ResetReaches, Base, ReplyMade, pollers
<1>4. QED
  BY <1>1, <1>2, <1>3

LEMMA RequestTyped ==
  ASSUME Typed, NEW p \in Pollers,
         Ask(p) \/ \E start \in 0..MaxLog : Answer(p, start)
  PROVE  Typed'
<1>1. CASE Ask(p)
  <2>1. state[Home[p]].next \in 0..MaxLog
    BY AttestationAssumption DEF Typed, TypeOK, States
  <2>2. PICK n \in 0..MaxLog : n = state[Home[p]].next
    BY <2>1
  <2>3. /\ pc' = [pc EXCEPT ![p] = "asked"] /\ asked' = [asked EXCEPT ![p] = n]
        /\ verdict' = None /\ UNCHANGED <<machine, state, row, policies, captured, reply>>
    BY <1>1, <2>2 DEF Ask
  <2>4. TypeOK'
    BY <2>3 DEF Typed, TypeOK, machine, policies
  <2>5. \A q \in Pollers : ReplyMade(q)'
    BY <2>3 DEF Typed, TypeOK, ReplyMade
  <2>6. QED
    BY <2>3, <2>4, <2>5 DEF Typed, Measured, ResetReaches, Base
<1>2. ASSUME NEW start \in 0..MaxLog, Answer(p, start)
      PROVE  Typed'
  <2>1. PICK r : r = [start |-> start, log |-> log, extended |-> extended, boot |-> boot,
                      behind |-> extended < sent]
    OBVIOUS
  <2>2. /\ reply' = [reply EXCEPT ![p] = r] /\ pc' = [pc EXCEPT ![p] = "answered"]
        /\ asked' = [asked EXCEPT ![p] = 0] /\ sent' = Len(log) /\ verdict' = None
        /\ start <= Len(log)
        /\ UNCHANGED <<log, extended, boot, state, row, policies, captured>>
    BY <1>2, <2>1 DEF Answer
  <2>3. PICK late \in BOOLEAN : late = (extended < sent)
    <3>1. (extended < sent) \in BOOLEAN
      OBVIOUS
    <3>2. QED
      BY <3>1
  <2>4. r \in Replies /\ r.start <= Len(r.log) /\ r.extended <= Len(r.log)
    <3>1. extended \in 0..MaxLog /\ boot \in Boots
      BY LogTyped DEF Typed, TypeOK
    <3>2. r = [start |-> start, log |-> log, extended |-> extended, boot |-> boot,
               behind |-> late]
      BY <2>1, <2>3
    <3>3. QED
      BY <2>2, <3>1, <3>2, LogTyped DEF Replies
  <2>5. PICK none \in 0..MaxLog : none = 0
    BY AttestationAssumption
  <2>6. asked' = [asked EXCEPT ![p] = none]
    BY <2>2, <2>5
  <2>7. TypeOK'
    BY <2>2, <2>4, <2>6, LogTyped DEF Typed, TypeOK, policies
  <2>8. \A q \in Pollers : ReplyMade(q)'
    BY <2>2, <2>4 DEF Typed, TypeOK, ReplyMade
  <2>9. QED
    BY <2>2, <2>7, <2>8 DEF Typed, Measured, ResetReaches, Base
<1>3. QED
  BY <1>1, <1>2

\* A poller that goes on or ends, and writes nothing.
LEMMA NothingWritten ==
  ASSUME Typed, NEW p \in Pollers, Due(p, policy) \/ Ends(p), verdict' = None,
         UNCHANGED <<machine, state, row, policies>>
  PROVE  Typed'
<1>1. policy \in Policies \union {None}
  BY DEF Typed, TypeOK
<1>2. /\ pc' \in [Pollers -> {"idle", "due", "asked", "answered"}]
      /\ captured' \in [Pollers -> Policies \union {None}]
      /\ asked' \in [Pollers -> 0..MaxLog]
      /\ reply' \in [Pollers -> Replies \union {None}]
      /\ \A q \in Pollers : ReplyMade(q)'
  BY <1>1, PollerGoes
<1>3. TypeOK'
  BY <1>2 DEF Typed, TypeOK, machine, policies
<1>4. QED
  BY <1>2, <1>3 DEF Typed, Measured, ResetReaches, Base

\* The state of a worker is made anew with the row.
LEMMA DeleteRowTyped ==
  ASSUME Typed, NEW w \in Workers, DeleteRow(w)
  PROVE  /\ state' \in [Workers -> States]
         /\ \A v \in Workers : Measured(state'[v]) /\ ResetReaches(state'[v])
         /\ row' = None /\ policy' = None /\ inForce' = {}
BY NewStateTyped DEF Typed, TypeOK, DeleteRow, Forget

LEMMA HandlerTyped ==
  ASSUME Typed,
         \/ \E p \in Pollers, rules \in Policies : Add(p, rules)
         \/ \E rules \in Policies : UpdatePolicy(rules)
         \/ \E w \in Workers : Delete(w)
         \/ \E p \in Pollers : Terminate(p)
         \/ \E w \in Workers, p \in Pollers : Restart(w, p)
  PROVE  Typed'
<1>1. ASSUME NEW p \in Pollers, NEW rules \in Policies, Add(p, rules)
      PROVE  Typed'
  <2>1. /\ row' = NewColumns /\ policy' = rules /\ inForce' = {rules} /\ Due(p, rules)
        /\ verdict' = None /\ UNCHANGED <<machine, state>>
    BY <1>1 DEF Add
  <2>2. /\ pc' \in [Pollers -> {"idle", "due", "asked", "answered"}]
        /\ captured' \in [Pollers -> Policies \union {None}]
        /\ asked' \in [Pollers -> 0..MaxLog]
        /\ reply' \in [Pollers -> Replies \union {None}]
        /\ \A q \in Pollers : ReplyMade(q)'
    BY <2>1, PollerGoes
  <2>3. TypeOK'
    BY <2>1, <2>2, NewStateTyped DEF Typed, TypeOK, machine
  <2>4. QED
    BY <2>1, <2>2, <2>3, NewStateTyped DEF Typed, Measured, ResetReaches, Base
<1>2. ASSUME NEW rules \in Policies, UpdatePolicy(rules)
      PROVE  Typed'
  <2>1. /\ policy' = rules /\ inForce' = inForce \union {rules} /\ verdict' = None
        /\ UNCHANGED <<machine, state, row, pollers>>
    BY <1>2 DEF UpdatePolicy
  <2>2. TypeOK'
    BY <2>1 DEF Typed, TypeOK, machine, pollers
  <2>3. QED
    BY <2>1, <2>2 DEF Typed, Measured, ResetReaches, Base, ReplyMade, pollers
<1>3. ASSUME NEW w \in Workers, Delete(w)
      PROVE  Typed'
  <2>1. DeleteRow(w) /\ verdict' = None /\ UNCHANGED <<machine, pollers>>
    BY <1>3 DEF Delete
  <2>2. TypeOK'
    BY <2>1, DeleteRowTyped DEF Typed, TypeOK, machine, pollers
  <2>3. QED
    BY <2>1, <2>2, DeleteRowTyped DEF Typed, ReplyMade, pollers, Measured, ResetReaches, Base
<1>4. ASSUME NEW p \in Pollers, Terminate(p)
      PROVE  Typed'
  <2>1. DeleteRow(Home[p]) /\ Ends(p) /\ verdict' = None /\ UNCHANGED machine
    BY <1>4 DEF Terminate
  <2>2. /\ pc' \in [Pollers -> {"idle", "due", "asked", "answered"}]
        /\ captured' \in [Pollers -> Policies \union {None}]
        /\ asked' \in [Pollers -> 0..MaxLog]
        /\ reply' \in [Pollers -> Replies \union {None}]
        /\ \A q \in Pollers : ReplyMade(q)'
    BY <2>1, PollerGoes DEF Typed, TypeOK
  <2>3. Home[p] \in Workers
    BY AttestationAssumption
  <2>4. TypeOK'
    BY <2>1, <2>2, <2>3, DeleteRowTyped DEF Typed, TypeOK, machine
  <2>5. QED
    BY <2>1, <2>2, <2>3, <2>4, DeleteRowTyped DEF Typed, Measured, ResetReaches, Base
<1>5. ASSUME NEW w \in Workers, NEW p \in Pollers, Restart(w, p)
      PROVE  Typed'
  <2>1. /\ state' = [v \in Workers |->
             IF v = w /\ row # None /\ row.boottime # 0 THEN Resumed(row) ELSE NewState]
        /\ pc' = [q \in Pollers |-> IF q = p /\ row # None THEN "due" ELSE "idle"]
        /\ captured' = [q \in Pollers |-> IF q = p THEN policy ELSE None]
        /\ asked' = [q \in Pollers |-> 0] /\ reply' = [q \in Pollers |-> None]
        /\ verdict' = None /\ UNCHANGED <<machine, row, policies>>
    BY <1>5 DEF Restart
  <2>2. row # None => row \in Columns /\ Measured(row)
    BY DEF Typed, TypeOK
  <2>3. \A v \in Workers : state'[v] \in States /\ Measured(state'[v]) /\ ResetReaches(state'[v])
    BY <2>1, <2>2, ResumedTyped, NewStateTyped
  <2>4. state' \in [Workers -> States]
    BY <2>1, <2>3
  <2>5. asked' \in [Pollers -> 0..MaxLog]
    BY <2>1, AttestationAssumption
  <2>6. TypeOK'
    BY <2>1, <2>4, <2>5 DEF Typed, TypeOK, machine, policies
  <2>7. \A q \in Pollers : ReplyMade(q)'
    BY <2>1 DEF ReplyMade
  <2>8. QED
    BY <2>1, <2>3, <2>6, <2>7 DEF Typed, Measured, ResetReaches, Base
<1>6. QED
  BY <1>1, <1>2, <1>3, <1>4, <1>5

LEMMA InitTyped ==
  ASSUME Init
  PROVE  Typed
<1>1. log \in Logs /\ extended \in 0..Len(log)
  BY EmptyLog DEF Init
<1>2. boot \in Boots /\ sent \in 0..MaxLog /\ asked \in [Pollers -> 0..MaxLog]
  BY AttestationAssumption DEF Init, Boots
<1>3. QED
  BY <1>1, <1>2, NewStateTyped DEF Init, Typed, TypeOK, ReplyMade

LEMMA StepTyped ==
  ASSUME Typed, [Next]_vars
  PROVE  Typed'
<1>1. ASSUME NEW p \in Pollers, PollerStep(p)
      PROVE  Typed'
  <2>1. CASE Unanswered(p) \/ StopPolling(p)
    BY <2>1, NothingWritten DEF Unanswered, StopPolling
  <2>2. QED
    BY <1>1, <2>1, RequestTyped, LookTyped, HandlerTyped DEF PollerStep
<1>2. ASSUME NEW p \in Pollers, Reactivate(p)
      PROVE  Typed'
  BY <1>2, NothingWritten DEF Reactivate
<1>3. CASE UNCHANGED vars
  BY <1>3 DEF vars, machine, policies, pollers, Typed, TypeOK, Measured, ResetReaches, Base,
              ReplyMade
<1>4. QED
  BY <1>1, <1>2, <1>3, MachineTyped, HandlerTyped DEF Next

\* Every variable keeps its type, whatever workers, pollers and deletions there
\* are: a position is the length of the PCR value kept with it, and a reset
\* reaches every value that was extended (update_ima_attestation,
\* reset_ima_attestation, store_attestation_state, activate_agents).
THEOREM TypedInvariant == Spec => []Typed
<1>1. Init => Typed
  BY InitTyped
<1>2. Typed /\ [Next]_vars => Typed'
  BY StepTyped
<1>3. QED
  BY <1>1, <1>2, PTL DEF Spec
-----------------------------------------------------------------------------
(* A replay of the rest, and of the whole *)

\* t is what follows the first k entries of s.
Follows(t, s, k) ==
  /\ k \in 0..Len(s) /\ Len(t) = Len(s) - k
  /\ \A i \in 1..Len(t) : t[i] = s[k + i]

\* A key learned from the rest is one of the whole log.
LEMMA LearnedFromRest ==
  ASSUME NEW s \in Logs, NEW t, NEW k, Follows(t, s, k),
         NEW rules, NEW wider, rules \subseteq wider,
         NEW n \in 0..Len(t), Learned(t, n, rules)
  PROVE  Learned(s, k + n, wider)
<1>1. Len(s) \in Nat /\ k \in Nat /\ k <= Len(s) /\ Len(t) = Len(s) - k
  BY LogIsSeq, LenProperties DEF Follows
<1>2. PICK i \in 1..n : t[i] \in KeyEntries \intersect rules
  BY DEF Learned
<1>3. k + i \in 1..k + n /\ s[k + i] = t[i]
  BY <1>1, <1>2 DEF Follows
<1>4. QED
  BY <1>2, <1>3 DEF Learned

\* A key of the whole log is learned from the rest, or was before.
LEMMA LearnedBefore ==
  ASSUME NEW s \in Logs, NEW t, NEW k, Follows(t, s, k),
         NEW rules, NEW fewer, fewer \subseteq rules,
         NEW n \in k..Len(s), Learned(s, n, fewer)
  PROVE  Learned(s, k, fewer) \/ Learned(t, n - k, rules)
<1>1. Len(s) \in Nat /\ k \in Nat /\ n \in Nat /\ k <= n /\ n <= Len(s) /\ Len(t) = Len(s) - k
  BY LogIsSeq, LenProperties DEF Follows
<1>2. PICK i \in 1..n : s[i] \in KeyEntries \intersect fewer
  BY DEF Learned
<1>3. CASE i <= k
  BY <1>1, <1>2, <1>3 DEF Learned
<1>4. CASE i > k
  <2>1. PICK j \in Nat : j = i - k /\ j \in 1..n - k /\ j \in 1..Len(t) /\ k + j = i
    BY <1>1, <1>4
  <2>2. t[j] = s[i]
    BY <2>1 DEF Follows
  <2>3. QED
    BY <1>2, <2>1, <2>2 DEF Learned
<1>5. QED
  BY <1>1, <1>3, <1>4

\* What the replay of the rest accepts, with a key of the first m entries, the
\* replay of the whole accepts, if it accepts those m.
LEMMA RestThenWhole ==
  ASSUME NEW s \in Logs, NEW t, NEW k, Follows(t, s, k), NEW m \in k..Len(s),
         NEW rules, NEW wider, rules \subseteq wider, NEW keys \in BOOLEAN,
         FullReplay(Prefix(s, m), wider), keys => Learned(s, m, wider),
         AllValid(t, keys, rules)
  PROVE  FullReplay(s, wider)
<1>1. Len(s) \in Nat /\ k \in Nat /\ m \in Nat /\ k <= m /\ m <= Len(s) /\ Len(t) = Len(s) - k
  BY LogIsSeq, LenProperties DEF Follows
<1>2. SUFFICES ASSUME NEW i \in 1..Len(s)
               PROVE  Admits(s, i, FALSE, wider)
  BY DEF FullReplay, AllValid
<1>3. CASE i <= m
  <2>1. i \in 1..m
    BY <1>1, <1>3
  <2>2. Len(Prefix(s, m)) = m /\ \A j \in 1..m : Prefix(s, m)[j] = s[j]
    BY <1>1, PrefixFacts
  <2>3. Admits(Prefix(s, m), i, FALSE, wider)
    BY <2>1, <2>2 DEF FullReplay, AllValid
  <2>4. ASSUME Learned(Prefix(s, m), i - 1, wider)
        PROVE  Learned(s, i - 1, wider)
    BY <1>1, <2>1, <2>2, <2>4 DEF Learned
  <2>5. QED
    BY <2>1, <2>2, <2>3, <2>4 DEF Admits
<1>4. CASE i > m
  <2>1. PICK j \in Nat : j = i - k /\ j \in 1..Len(t) /\ k + j = i
    BY <1>1, <1>4
  <2>2. t[j] = s[i] /\ Admits(t, j, keys, rules)
    BY <2>1 DEF Follows, AllValid
  <2>3. CASE t[j] \in rules
    BY <2>2, <2>3 DEF Admits
  <2>4. CASE s[i] \in SignedEntries /\ keys
    <3>1. PICK l \in 1..m : s[l] \in KeyEntries \intersect wider
      BY <2>4 DEF Learned
    <3>2. l \in 1..i - 1
      BY <1>1, <1>4, <3>1
    <3>3. QED
      BY <2>4, <3>1, <3>2 DEF Admits, Learned
  <2>5. CASE s[i] \in SignedEntries /\ Learned(t, j - 1, rules)
    <3>1. j - 1 \in 0..Len(t) /\ k + (j - 1) = i - 1
      BY <1>1, <2>1
    <3>2. Learned(s, k + (j - 1), wider)
      BY <2>5, <3>1, LearnedFromRest
    <3>3. QED
      BY <2>5, <3>1, <3>2 DEF Admits
  <2>6. QED
    BY <2>2, <2>3, <2>4, <2>5 DEF Admits
<1>5. i <= m \/ i > m
  BY <1>1
<1>6. QED
  BY <1>3, <1>4, <1>5

\* And what the replay of the whole accepts, that of the rest accepts, if the key
\* was kept.
LEMMA WholeThenRest ==
  ASSUME NEW s \in Logs, NEW t, NEW k, Follows(t, s, k),
         NEW rules, NEW fewer, fewer \subseteq rules, NEW keys \in BOOLEAN,
         Learned(s, k, fewer) => keys, FullReplay(s, fewer)
  PROVE  AllValid(t, keys, rules)
<1>1. Len(s) \in Nat /\ k \in Nat /\ k <= Len(s) /\ Len(t) = Len(s) - k
  BY LogIsSeq, LenProperties DEF Follows
<1>2. SUFFICES ASSUME NEW i \in 1..Len(t)
               PROVE  Admits(t, i, keys, rules)
  BY DEF AllValid
<1>3. PICK j \in 1..Len(s) : j = k + i
  BY <1>1
<1>4. t[i] = s[j] /\ Admits(s, j, FALSE, fewer)
  BY <1>3 DEF Follows, FullReplay, AllValid
<1>5. CASE s[j] \in fewer
  BY <1>4, <1>5 DEF Admits
<1>6. CASE s[j] \in SignedEntries /\ Learned(s, j - 1, fewer)
  <2>1. j - 1 \in k..Len(s) /\ (j - 1) - k = i - 1
    BY <1>1, <1>3
  <2>2. Learned(s, k, fewer) \/ Learned(t, (j - 1) - k, rules)
    BY <1>6, <2>1, LearnedBefore
  <2>3. QED
    BY <1>4, <1>6, <2>1, <2>2 DEF Admits
<1>7. QED
  BY <1>4, <1>5, <1>6 DEF Admits
-----------------------------------------------------------------------------
(* Positions *)

\* A position before the first entry is one in any log.
LEMMA FreshPlaced ==
  ASSUME NEW a, a.next = 0, a.keys = FALSE, Base(a) = <<>>,
         NEW s \in Logs, NEW n \in Nat
  PROVE  Placed(a, s, n)
<1>1. Prefix(s, 0) = <<>> /\ Len(s) \in Nat
  BY LogIsSeq, SubSeqEmpty DEF Prefix
<1>2. FullReplay(Prefix(s, 0), Upper)
  BY <1>1, EmptySeq DEF FullReplay, AllValid
<1>3. 0 \in a.next..Len(s)
  BY <1>1
<1>4. ~Learned(s, a.next, Common)
  BY DEF Learned
<1>5. QED
  BY <1>1, <1>2, <1>3, <1>4 DEF Placed

\* What a log begins with stays when it grows.
LEMMA PrefixGrows ==
  ASSUME NEW s \in Logs, NEW t \in Logs, Len(s) <= Len(t),
         \A i \in 1..Len(s) : t[i] = s[i], NEW i \in 0..Len(s)
  PROVE  Prefix(t, i) = Prefix(s, i)
<1>1. Len(s) \in Nat /\ Len(t) \in Nat
  BY LogIsSeq
<1>2. PICK u \in Seq(Entries), v \in Seq(Entries) : u = Prefix(s, i) /\ v = Prefix(t, i)
  BY <1>1, PrefixFacts, LogIsSeq
<1>3. Len(u) = i /\ Len(v) = i /\ \A j \in 1..i : u[j] = v[j]
  BY <1>1, <1>2, PrefixFacts
<1>4. QED
  BY <1>2, <1>3, SeqEqual

\* A position stays in a log that grows, and is extended further.
LEMMA GrownPlaced ==
  ASSUME NEW a, a.next \in Nat, NEW s \in Logs, NEW t \in Logs, Len(s) <= Len(t),
         \A i \in 1..Len(s) : t[i] = s[i],
         NEW n \in 0..Len(s), NEW m \in n..Len(t), Placed(a, s, n)
  PROVE  Placed(a, t, m)
<1>1. Len(s) \in Nat /\ Len(t) \in Nat
  BY LogIsSeq
<1>2. ASSUME NEW i \in 0..Len(s)
      PROVE  Prefix(t, i) = Prefix(s, i)
  BY PrefixGrows
<1>3. ASSUME NEW i \in 0..Len(s), NEW rules
      PROVE  Learned(t, i, rules) <=> Learned(s, i, rules)
  BY <1>1 DEF Learned
<1>4. a.next <= n /\ Base(a) = Prefix(s, a.next)
  BY DEF Placed
<1>5. a.next \in 0..Len(s)
  BY <1>1, <1>4
<1>6. PICK i \in a.next..Len(s) :
        FullReplay(Prefix(s, i), Upper) /\ (a.keys => Learned(s, i, Upper))
  BY DEF Placed
<1>7. i \in 0..Len(s) /\ i \in a.next..Len(t)
  BY <1>1, <1>6
<1>8. FullReplay(Prefix(t, i), Upper) /\ (a.keys => Learned(t, i, Upper))
  BY <1>2, <1>3, <1>6, <1>7
<1>9. Learned(t, a.next, Common) => a.keys
  BY <1>3, <1>5 DEF Placed
<1>10. a.next <= m /\ Base(a) = Prefix(t, a.next)
  BY <1>1, <1>2, <1>4, <1>5
<1>11. QED
  BY <1>7, <1>8, <1>9, <1>10 DEF Placed

\* A position stays one when another policy comes into force.
LEMMA StillAdmitted ==
  ASSUME NEW a, NEW s \in Logs, NEW n, a.next \in Nat, Placed(a, s, n),
         inForce # {}, inForce \subseteq inForce'
  PROVE  /\ a.next <= n /\ Base(a) = Prefix(s, a.next)
         /\ \E i \in a.next..Len(s) :
              FullReplay(Prefix(s, i), Upper') /\ (a.keys => Learned(s, i, Upper'))
         /\ Learned(s, a.next, Common') => a.keys
<1>1. Upper \subseteq Upper' /\ Common' \subseteq Common
  BY DEF Upper, Common
<1>2. PICK i \in a.next..Len(s) :
        FullReplay(Prefix(s, i), Upper) /\ (a.keys => Learned(s, i, Upper))
  BY DEF Placed
<1>3. FullReplay(Prefix(s, i), Upper')
  BY <1>1, <1>2 DEF FullReplay, AllValid, Admits, Learned
<1>4. a.keys => Learned(s, i, Upper')
  BY <1>1, <1>2 DEF Learned
<1>5. Learned(s, a.next, Common') => a.keys
  BY <1>1 DEF Learned, Placed
<1>6. QED
  BY <1>2, <1>3, <1>4, <1>5 DEF Placed

\* The lines of a reply follow its start.
LEMMA LinesFollow ==
  ASSUME NEW r \in Replies, r.start <= Len(r.log)
  PROVE  Follows(Lines(r), r.log, r.start)
BY LinesFacts, ReplyTyped DEF Follows

\* What a reply is checked from is placed where its lines begin.
LEMMA BegunPlaced ==
  ASSUME NEW a \in States, Measured(a), ResetReaches(a), NEW r \in Replies,
         r.start \in {0, a.next}, ~Rebooted(a, r),
         a.boottime = r.boot => /\ Placed(a, r.log, r.extended)
                                /\ r.behind \/ Shown(a, r.extended)
  PROVE  /\ Begun(a, r).next = r.start /\ Placed(Begun(a, r), r.log, r.extended)
         /\ r.behind \/ Shown(Begun(a, r), r.extended)
<1>1. r.log \in Logs /\ r.extended \in Nat
  BY ReplyTyped
<1>2. CASE r.start = 0
  BY <1>1, <1>2, BegunFacts, FreshPlaced DEF Shown
<1>3. CASE r.start # 0
  <2>1. a.boottime = r.boot /\ r.start = a.next
    BY <1>3 DEF Rebooted
  <2>2. PICK b : b = Begun(a, r)
    OBVIOUS
  <2>3. b.next = a.next /\ b.keys = a.keys /\ b.progress = a.progress /\ Base(b) = Base(a)
    BY <1>3, <2>2, BegunFacts
  <2>4. Placed(b, r.log, r.extended)
    BY <2>1, <2>3 DEF Placed
  <2>5. r.behind \/ Shown(b, r.extended)
    BY <2>1, <2>3 DEF Shown
  <2>6. QED
    BY <2>1, <2>2, <2>3, <2>4, <2>5
<1>4. QED
  BY <1>2, <1>3

\* A reply that passes from a position in its log has a log that passes in full,
\* and the position it leads to is in that log.
LEMMA ReplayPlaces ==
  ASSUME NEW b \in States, Measured(b), ResetReaches(b), NEW r \in Replies,
         r.start <= Len(r.log), r.extended <= Len(r.log), b.next = r.start,
         Placed(b, r.log, r.extended), NEW rules \in inForce, ~ImaFailures(b, r, rules)
  PROVE  /\ FullReplay(r.log, Upper)
         /\ Placed(Replayed(b, r, rules), r.log, r.extended)
         /\ Shown(Replayed(b, r, rules), Len(r.log))
<1> DEFINE s == r.log
           t == Lines(r)
           c == Replayed(b, r, rules)
<1>1. /\ s \in Logs /\ s \in Seq(Entries) /\ Len(s) \in Nat /\ r.extended \in 0..Len(s)
      /\ r.start \in Nat /\ r.start <= Len(s)
  BY ReplyTyped
<1>2. Follows(t, s, r.start) /\ Len(t) = Len(s) - r.start
  BY LinesFollow, LinesFacts
<1>3. rules \subseteq Upper /\ Common \subseteq rules
  BY DEF Upper, Common
<1>4. /\ c.next = r.extended /\ c.progress = <<r.extended - b.next, Len(t)>>
      /\ c.keys = (b.keys \/ Learned(t, Len(t), rules))
      /\ Base(c) = Prefix(s, r.extended)
  BY ReplayedFacts
<1>5. PICK i \in r.start..Len(s) :
        FullReplay(Prefix(s, i), Upper) /\ (b.keys => Learned(s, i, Upper))
  BY DEF Placed
<1>6. AllValid(t, b.keys, rules) /\ b.keys \in BOOLEAN
  BY DEF ImaFailures, States
<1>7. FullReplay(s, Upper)
  BY <1>1, <1>2, <1>3, <1>5, <1>6, RestThenWhole
<1>8. Prefix(s, Len(s)) = s
  BY <1>1, SubSeqFull DEF Prefix
<1>9. c.keys => Learned(s, Len(s), Upper)
  <2>1. CASE b.keys
    BY <1>1, <1>5, <2>1 DEF Learned
  <2>2. CASE Learned(t, Len(t), rules)
    <3>1. Len(t) \in 0..Len(t) /\ r.start + Len(t) = Len(s)
      BY <1>1, <1>2
    <3>2. Learned(s, r.start + Len(t), Upper)
      BY <1>1, <1>2, <1>3, <2>2, <3>1, LearnedFromRest
    <3>3. QED
      BY <3>1, <3>2
  <2>3. QED
    BY <1>4, <2>1, <2>2
<1>10. Learned(s, c.next, Common) => c.keys
  <2>1. SUFFICES ASSUME Learned(s, r.extended, Common)
                 PROVE  b.keys \/ Learned(t, Len(t), rules)
    BY <1>4
  <2>2. r.extended \in r.start..Len(s)
    BY <1>1 DEF Placed
  <2>3. Learned(s, r.start, Common) \/ Learned(t, r.extended - r.start, rules)
    BY <1>1, <1>2, <1>3, <2>1, <2>2, LearnedBefore
  <2>4. ASSUME Learned(t, r.extended - r.start, rules)
        PROVE  Learned(t, Len(t), rules)
    BY <1>1, <1>2, <2>2, <2>4 DEF Learned
  <2>5. QED
    BY <2>3, <2>4 DEF Placed
<1>11. Len(s) \in c.next..Len(s) /\ c.next <= r.extended
  BY <1>1, <1>4
<1>12. Placed(c, s, r.extended)
  BY <1>4, <1>7, <1>8, <1>9, <1>10, <1>11 DEF Placed
<1>13. Shown(c, Len(s))
  <2>1. PICK m, n : m = r.extended - b.next /\ n = Len(t)
    OBVIOUS
  <2>2. c.progress[1] = m /\ c.progress[2] = n
    BY <1>4, <2>1
  <2>3. c.next + n - m <= Len(s)
    BY <1>1, <1>2, <1>4, <2>1
  <2>4. QED
    BY <2>2, <2>3 DEF Shown
<1>14. QED
  BY <1>7, <1>12, <1>13

\* The replay from a position in the log meets the quote.
LEMMA ReplayMeetsQuote ==
  ASSUME NEW b \in States, Measured(b), NEW r \in Replies,
         r.start <= Len(r.log), r.extended <= Len(r.log), b.next = r.start,
         Placed(b, r.log, r.extended)
  PROVE  Matches(b, r) # {}
<1> DEFINE s == r.log
           t == Lines(r)
<1>1. /\ s \in Logs /\ s \in Seq(Entries) /\ Len(s) \in 0..MaxLog /\ r.extended \in 0..Len(s)
      /\ r.start \in 0..Len(s) /\ r.start <= r.extended /\ MaxLog \in Nat
  BY ReplyTyped DEF Placed
<1>2. /\ t \in Seq(Entries) /\ Len(t) = Len(s) - r.start
      /\ \A i \in 1..Len(t) : t[i] = s[r.start + i]
  BY LinesFacts
<1>3. PICK i \in 0..Len(t) : i = r.extended - r.start
  BY <1>1, <1>2
<1>4. PICK u \in Seq(Entries) : u = Prefix(s, r.start)
  BY <1>1, PrefixFacts, LogIsSeq
<1>5. Len(u) = r.start /\ \A j \in 1..r.start : u[j] = s[j]
  BY <1>1, <1>4, PrefixFacts
<1>6. t \in Logs
  <2>1. Len(t) \in 0..MaxLog
    BY <1>1, <1>2
  <2>2. QED
    BY <1>2, <2>1, LogIsSeq
<1>7. PICK v \in Seq(Entries) : v = Prefix(t, i)
  BY <1>6, PrefixFacts, LogIsSeq
<1>8. Len(v) = i /\ \A j \in 1..i : v[j] = t[j]
  BY <1>6, <1>7, PrefixFacts
<1>9. PICK w \in Seq(Entries) : w = Prefix(s, r.extended)
  BY <1>1, PrefixFacts, LogIsSeq
<1>10. Len(w) = r.extended /\ \A j \in 1..r.extended : w[j] = s[j]
  BY <1>1, <1>9, PrefixFacts
<1>11. u \o v = w
  <2>1. PICK x \in Seq(Entries) : x = u \o v
    BY ConcatProperties
  <2>2. /\ Len(x) = Len(u) + Len(v)
        /\ \A j \in 1..Len(u) + Len(v) : x[j] = IF j <= Len(u) THEN u[j] ELSE v[j - Len(u)]
    BY <2>1, ConcatProperties
  <2>3. Len(x) = Len(w)
    BY <1>1, <1>3, <1>5, <1>8, <1>10, <2>2
  <2>4. ASSUME NEW j \in 1..Len(x)
        PROVE  x[j] = w[j]
    <3>1. j \in 1..r.extended /\ x[j] = IF j <= Len(u) THEN u[j] ELSE v[j - Len(u)]
      BY <1>10, <2>2, <2>3
    <3>2. CASE j <= r.start
      BY <1>1, <1>5, <1>10, <3>1, <3>2
    <3>3. CASE j > r.start
      <4>1. PICK l \in 1..i : l = j - r.start /\ r.start + l = j
        <5>1. PICK k \in Nat, e \in Nat : k = r.start /\ e = r.extended /\ k <= e
          BY <1>1
        <5>2. i = e - k /\ j \in 1..e /\ j > k
          BY <1>3, <3>1, <3>3, <5>1
        <5>3. PICK h \in Nat : h = j /\ h \in 1..e /\ k < h /\ k \in Nat /\ e \in Nat
          BY <5>1, <5>2
        <5>4. h - k \in 1..e - k /\ k + (h - k) = h
          BY <5>3
        <5>5. QED
          BY <5>1, <5>2, <5>3, <5>4
      <4>2. l \in 1..Len(t)
        BY <1>1, <1>2, <1>3
      <4>3. x[j] = v[l]
        BY <1>1, <1>5, <3>1, <3>3, <4>1
      <4>4. v[l] = t[l] /\ t[l] = s[j] /\ w[j] = s[j]
        BY <1>2, <1>8, <1>10, <3>1, <4>1, <4>2
      <4>5. QED
        BY <4>3, <4>4
    <3>4. QED
      BY <1>1, <3>1, <3>2, <3>3
  <2>5. x = w
    BY <2>3, <2>4, SeqEqual
  <2>6. QED
    BY <2>1, <2>5
<1>12. Base(b) = u
  BY <1>4 DEF Placed
<1>13. i \in Matches(b, r)
  BY <1>3, <1>7, <1>9, <1>11, <1>12 DEF Matches
<1>14. QED
  BY <1>13

\* A log that passes in full, under what all policies have in common, passes from
\* a position in it.
LEMMA ReplayAccepts ==
  ASSUME NEW b \in States, Measured(b), NEW r \in Replies,
         r.start <= Len(r.log), r.extended <= Len(r.log), b.next = r.start,
         Placed(b, r.log, r.extended), Shown(b, r.extended),
         NEW rules \in inForce, FullReplay(r.log, Common)
  PROVE  ~ImaFailures(b, r, rules)
<1>1. AllValid(Lines(r), b.keys, rules)
  <2>1. r.log \in Logs /\ b.keys \in BOOLEAN /\ Common \subseteq rules
    BY ReplyTyped DEF States, Common
  <2>2. Follows(Lines(r), r.log, r.start)
    BY LinesFollow
  <2>3. Learned(r.log, r.start, Common) => b.keys
    BY DEF Placed
  <2>4. QED
    BY <2>1, <2>2, <2>3, WholeThenRest
<1>2. Matches(b, r) # {}
  BY ReplayMeetsQuote
<1>3. ASSUME NEW i \in Matches(b, r)
      PROVE  Progresses(b, i, Len(Lines(r)))
  <2>1. i \in Nat /\ b.next \in Nat /\ b.next + i = r.extended
    <3>1. i \in 0..Len(r.log) - r.start /\ b.next + i = r.extended
      BY MatchFacts
    <3>2. QED
      BY <3>1, ReplyTyped DEF States
  <2>2. CASE b.progress # None
    <3>1. b.progress \in (0..MaxLog) \X (0..MaxLog)
      BY <2>2 DEF States
    <3>2. PICK m \in 0..MaxLog, n \in 0..MaxLog : b.progress[1] = m /\ b.progress[2] = n
      BY <3>1
    <3>3. b.next + n - m <= r.extended
      BY <2>2, <3>2 DEF Shown
    <3>4. i >= n - m
      BY <2>1, <3>2, <3>3, AttestationAssumption
    <3>5. QED
      BY <3>2, <3>4 DEF Progresses
  <2>3. QED
    BY <2>2 DEF Progresses
<1>4. QED
  BY <1>1, <1>2, <1>3 DEF ImaFailures
-----------------------------------------------------------------------------
(* What a reply leads to *)

\* Boots are numbered, and so is what is left to see.
LEMMA BootTyped ==
  ASSUME Typed
  PROVE  boot \in Nat /\ boot # 0
BY AttestationAssumption DEF Typed, TypeOK, Boots

LEMMA ShownFurther ==
  ASSUME NEW a \in States, NEW m \in Nat, NEW n \in Nat, m <= n, Shown(a, m)
  PROVE  Shown(a, n)
<1>1. CASE a.progress # None
  <2>1. a.progress \in (0..MaxLog) \X (0..MaxLog) /\ a.next \in 0..MaxLog /\ MaxLog \in Nat
    BY <1>1, AttestationAssumption DEF States
  <2>2. PICK i \in 0..MaxLog, j \in 0..MaxLog : a.progress[1] = i /\ a.progress[2] = j
    BY <2>1
  <2>3. a.next + j - i <= m
    BY <1>1, <2>2 DEF Shown
  <2>4. a.next + j - i <= n
    BY <2>1, <2>2, <2>3
  <2>5. QED
    BY <2>2, <2>4 DEF Shown
<1>2. QED
  BY <1>1 DEF Shown

\* A position without a boot is sound.
LEMMA ResetSound ==
  ASSUME Typed, NEW a, a.boottime = 0
  PROVE  StateSound(a)
BY BootTyped DEF StateSound, InLog

\* What is placed in a reply is sound: the reply is about the machine's log, or an
\* earlier boot.
LEMMA PlacedSound ==
  ASSUME Inductive, NEW p \in Pollers, pc[p] = "answered",
         NEW a \in States, a.boottime = reply[p].boot,
         Placed(a, reply[p].log, reply[p].extended), a.boottime = boot => Shown(a, sent)
  PROVE  StateSound(a)
<1>1. PICK r \in Replies : r = reply[p]
  BY DEF Inductive, Typed, ReplyMade
<1>2. r.extended <= Len(r.log) /\ r.boot <= boot
  BY <1>1 DEF Inductive, Typed, ReplyMade, ReplySound
<1>3. ASSUME r.boot = boot
      PROVE  Placed(a, log, extended)
  <2>1. /\ Len(r.log) <= Len(log) /\ r.log = Prefix(log, Len(r.log)) /\ r.extended <= extended
    BY <1>1, <1>3 DEF Inductive, ReplySound
  <2>2. /\ r.log \in Logs /\ log \in Logs /\ extended \in 0..Len(log) /\ Len(log) \in 0..MaxLog
        /\ Len(r.log) \in 0..MaxLog /\ r.extended \in 0..MaxLog /\ MaxLog \in Nat
    BY <1>1, ReplyTyped, LogTyped DEF Inductive
  <2>3. Len(r.log) \in 0..Len(log) /\ r.extended \in 0..Len(r.log)
        /\ extended \in r.extended..Len(log)
    BY <1>2, <2>1, <2>2
  <2>4. \A i \in 1..Len(r.log) : log[i] = r.log[i]
    <3>1. PICK m \in 0..Len(log) : m = Len(r.log)
      BY <2>3
    <3>2. \A i \in 1..m : Prefix(log, m)[i] = log[i]
      BY <2>2, PrefixFacts
    <3>3. QED
      BY <2>1, <3>1, <3>2
  <2>5. Placed(a, r.log, r.extended) /\ a.next \in Nat
    BY <1>1, <2>2 DEF States
  <2>6. QED
    BY <2>1, <2>2, <2>3, <2>4, <2>5, GrownPlaced
<1>4. QED
  BY <1>1, <1>2, <1>3 DEF StateSound, InLog

\* A reply that is looked at, and what it is checked from.
LEMMA ReplyLookedAt ==
  ASSUME Inductive, NEW p \in Pollers, pc[p] = "answered",
         ~Rebooted(state[Home[p]], reply[p])
  PROVE  /\ Begun(state[Home[p]], reply[p]).next = reply[p].start
         /\ Placed(Begun(state[Home[p]], reply[p]), reply[p].log, reply[p].extended)
         /\ reply[p].behind \/ Shown(Begun(state[Home[p]], reply[p]), reply[p].extended)
         /\ ~Misplaced(state[Home[p]], reply[p])
         /\ captured[p] \in inForce
         /\ StateSound(Begun(state[Home[p]], reply[p]))
<1>1. PICK a \in States, r \in Replies : a = state[Home[p]] /\ r = reply[p]
  BY AnswerLookedAt DEF Inductive
<1>2. Measured(a) /\ ResetReaches(a) /\ r.start <= Len(r.log) /\ r.extended <= Len(r.log)
  BY <1>1, AnswerLookedAt DEF Inductive
<1>3. /\ r.start \in {0, a.next}
      /\ a.boottime = r.boot => /\ Placed(a, r.log, r.extended)
                                /\ r.behind \/ Shown(a, r.extended)
      /\ ~Rebooted(a, r)
  BY <1>1 DEF Inductive, ReplySound
<1>4. PICK b \in States : b = Begun(a, r)
  BY <1>2, BegunFacts
<1>5. /\ b.next = r.start /\ Placed(b, r.log, r.extended)
      /\ r.behind \/ Shown(b, r.extended)
  BY <1>2, <1>3, <1>4, BegunPlaced
<1>6. b.boottime = r.boot
  BY <1>2, <1>4, BegunFacts
<1>7. ASSUME r.boot = boot
      PROVE  Shown(b, sent)
  <2>1. CASE r.start = 0
    BY <1>2, <1>4, <2>1, BegunFacts DEF Shown
  <2>2. CASE r.start # 0
    <3>1. a.boottime = boot
      BY <1>3, <1>7, <2>2 DEF Rebooted
    <3>2. Shown(a, sent)
      BY <1>1, <3>1, AttestationAssumption DEF Inductive, StateSound
    <3>3. b.next = a.next /\ b.progress = a.progress
      BY <1>2, <1>4, <2>2, BegunFacts
    <3>4. QED
      BY <3>2, <3>3 DEF Shown
  <2>3. QED
    BY <2>1, <2>2
<1>8. StateSound(b)
  BY <1>1, <1>5, <1>6, <1>7, PlacedSound
<1>9. ~Misplaced(a, r)
  BY <1>3 DEF Misplaced
<1>10. captured[p] \in inForce
  BY DEF Inductive, PoliciesKnown
<1>11. QED
  BY <1>1, <1>4, <1>5, <1>8, <1>9, <1>10

\* What a check of the log leaves is sound.
LEMMA CheckedSound ==
  ASSUME Inductive, NEW p \in Pollers, pc[p] = "answered",
         ~Rebooted(state[Home[p]], reply[p])
  PROVE  StateSound(Replayed(Begun(state[Home[p]], reply[p]), reply[p], captured[p]))
<1>1. PICK a \in States, r \in Replies : a = state[Home[p]] /\ r = reply[p]
  BY AnswerLookedAt DEF Inductive
<1>2. Measured(a) /\ ResetReaches(a) /\ r.start <= Len(r.log) /\ r.extended <= Len(r.log)
  BY <1>1, AnswerLookedAt DEF Inductive
<1>3. PICK b \in States : b = Begun(a, r)
  BY <1>2, BegunFacts
<1>4. /\ b.next = r.start /\ Placed(b, r.log, r.extended)
      /\ Measured(b) /\ ResetReaches(b) /\ b.boottime = r.boot
  BY <1>1, <1>2, <1>3, BegunFacts, ReplyLookedAt
<1>5. PICK rules \in inForce : rules = captured[p]
  BY ReplyLookedAt
<1>6. PICK c \in States : c = Replayed(b, r, rules)
  BY <1>2, <1>4, ReplayedFacts
<1>7. CASE ImaFailures(b, r, rules)
  <2>1. c.boottime = 0
    BY <1>2, <1>4, <1>6, <1>7, ReplayedFacts
  <2>2. QED
    BY <1>1, <1>3, <1>5, <1>6, <2>1, ResetSound DEF Inductive
<1>8. CASE ~ImaFailures(b, r, rules)
  <2>1. c.boottime = r.boot
    BY <1>2, <1>4, <1>6, <1>8, ReplayedFacts
  <2>2. Placed(c, r.log, r.extended) /\ Shown(c, Len(r.log))
    BY <1>2, <1>4, <1>6, <1>8, ReplayPlaces
  <2>3. ASSUME r.boot = boot
        PROVE  Shown(c, sent)
    <3>1. Len(r.log) <= sent /\ Len(r.log) \in Nat /\ sent \in Nat
      BY <1>1, <2>3, ReplyTyped, AttestationAssumption DEF Inductive, ReplySound, Typed, TypeOK
    <3>2. QED
      BY <2>2, <3>1, ShownFurther
  <2>4. StateSound(c)
    BY <1>1, <2>1, <2>2, <2>3, PlacedSound
  <2>5. QED
    BY <1>1, <1>3, <1>5, <1>6, <2>4
<1>9. QED
  BY <1>7, <1>8
-----------------------------------------------------------------------------
(* The steps *)

\* Machine and policies as they are, what was sound stays so.
LEMMA SoundStays ==
  ASSUME NEW a, UNCHANGED <<machine, inForce>>
  PROVE  /\ InLog(a) => InLog(a)'
         /\ StateSound(a) => StateSound(a)'
BY DEF machine, StateSound, InLog, Placed, Shown, Upper, Common, FullReplay

\* A worker or a row that holds what is sound.
LEMMA HoldsSound ==
  ASSUME NEW a
  PROVE  /\ StateSound(a)' => \A w \in Workers : state'[w] = a => StateSound(state[w])'
         /\ InLog(a)' => (row' = a => InLog(row)')
         /\ \A c : /\ c.next = a.next /\ c.boottime = a.boottime /\ c.keys = a.keys
                   /\ Base(c) = Base(a) /\ InLog(a)'
                   => (row' = c => InLog(row)')
BY DEF StateSound, InLog, Placed, Shown, Base

\* The one poller has nothing under way.
LEMMA PollerRests ==
  ASSUME OneLoop, NEW p \in Pollers, pc'[p] \in {"idle", "due"}
  PROVE  \A q \in Pollers : AskedNext(q)' /\ ReplySound(q)'
BY DEF OneLoop, AskedNext, ReplySound

\* What a step writes is sound, and the poller goes on or ends.
LEMMA FinishSound ==
  ASSUME OneLoop, Inductive, Typed', NEW p \in Pollers, pc[p] # "idle",
         NEW a \in States, Measured(a), StateSound(a), Finish(p, a)
  PROVE  Inductive'
<1>1. row # None /\ policy \in inForce /\ Due(p, policy)
  BY DEF Finish, Inductive, Forgotten, PoliciesKnown
<1>2. /\ state' = [state EXCEPT ![Home[p]] = a] /\ row' = Stored(a)
      /\ UNCHANGED <<machine, policies>>
  BY DEF Finish
<1>3. Typed /\ policy \in Policies \union {None}
  BY DEF Inductive, Typed, TypeOK
<1>4. pc'[p] = "due" /\ captured'[p] = policy
  BY <1>1, <1>3 DEF Due, Typed, TypeOK
<1>5. StateSound(a)' /\ InLog(a)'
  BY <1>2, SoundStays DEF StateSound, policies
<1>6. ASSUME NEW w \in Workers
      PROVE  StateSound(state[w])'
  <2>1. state'[w] = a
    BY <1>2, <1>3, AttestationAssumption DEF OneLoop, Typed, TypeOK
  <2>2. QED
    BY <1>5, <2>1, HoldsSound
<1>7. row' # None /\ InLog(row)'
  <2>1. CASE Stored(a) = row
    <3>1. PICK c : c = row
      OBVIOUS
    <3>2. InLog(c)'
      BY <1>1, <1>2, <3>1, SoundStays DEF Inductive, policies
    <3>3. QED
      BY <1>1, <1>2, <2>1, <3>1, <3>2, HoldsSound
  <2>2. CASE Stored(a) # row
    <3>1. PICK c : c = Stored(a)
      OBVIOUS
    <3>2. /\ c \in Columns /\ c.next = a.next /\ c.boottime = a.boottime /\ c.keys = a.keys
          /\ Base(c) = Base(a)
      BY <1>3, <2>2, <3>1, StoredTyped
    <3>3. QED
      BY <1>2, <1>5, <3>1, <3>2, HoldsSound, NoneAssumption
  <2>3. QED
    BY <2>1, <2>2
<1>8. \A q \in Pollers : AskedNext(q)' /\ ReplySound(q)'
  BY <1>4, PollerRests
<1>9. Forgotten' /\ PoliciesKnown'
  BY <1>1, <1>2, <1>4, <1>7 DEF Forgotten, PoliciesKnown, OneLoop, policies
<1>10. sent' <= Len(log')
  BY <1>2 DEF Inductive, machine
<1>11. QED
  BY <1>6, <1>7, <1>8, <1>9, <1>10 DEF Inductive

LEMMA LookSound ==
  ASSUME OneLoop, Inductive, Typed', NEW p \in Pollers,
         \/ TakenForReboot(p) \/ ReplyRefused(p) \/ QuoteRefused(p)
         \/ \E elsewhere \in BOOLEAN : Checked(p, elsewhere)
  PROVE  Inductive'
<1>1. pc[p] = "answered" /\ pc[p] # "idle"
  BY DEF TakenForReboot, ReplyRefused, QuoteRefused, Checked
<1>2. PICK a \in States, r \in Replies : a = state[Home[p]] /\ r = reply[p]
  BY <1>1, AnswerLookedAt DEF Inductive
<1>3. /\ Measured(a) /\ ResetReaches(a) /\ r.start <= Len(r.log) /\ r.extended <= Len(r.log)
      /\ StateSound(a) /\ Typed
  BY <1>1, <1>2, AnswerLookedAt, AttestationAssumption DEF Inductive
<1>4. CASE TakenForReboot(p)
  BY <1>1, <1>2, <1>3, <1>4, ResetImaFacts, ResetSound, FinishSound DEF TakenForReboot
<1>5. CASE ReplyRefused(p)
  BY <1>1, <1>2, <1>3, <1>5, FinishSound DEF ReplyRefused
<1>6. CASE QuoteRefused(p)
  <2>1. Finish(p, Begun(a, r)) /\ ~Rebooted(a, r)
    BY <1>2, <1>6 DEF QuoteRefused
  <2>2. Begun(a, r) \in States /\ Measured(Begun(a, r)) /\ StateSound(Begun(a, r))
    BY <1>1, <1>2, <1>3, <2>1, BegunFacts, ReplyLookedAt
  <2>3. QED
    BY <1>1, <2>1, <2>2, FinishSound
<1>7. ASSUME NEW elsewhere \in BOOLEAN, Checked(p, elsewhere)
      PROVE  Inductive'
  <2>1. Finish(p, Replayed(Begun(a, r), r, captured[p])) /\ ~Rebooted(a, r)
    BY <1>2, <1>7 DEF Checked
  <2>2. Begun(a, r) \in States /\ Measured(Begun(a, r)) /\ ResetReaches(Begun(a, r))
    BY <1>3, BegunFacts
  <2>3. PICK c \in States : c = Replayed(Begun(a, r), r, captured[p])
    BY <1>3, <2>2, ReplayedFacts
  <2>4. Measured(c) /\ StateSound(c)
    BY <1>1, <1>2, <1>3, <2>1, <2>2, <2>3, ReplayedFacts, CheckedSound
  <2>5. QED
    BY <1>1, <2>1, <2>3, <2>4, FinishSound
<1>8. QED
  BY <1>4, <1>5, <1>6, <1>7

\* The log grows, or more of it is extended: what was in it still is.
LEMMA LogGrows ==
  ASSUME NEW a, a.next \in Nat, log \in Logs, log' \in Logs, Len(log) <= Len(log'),
         \A i \in 1..Len(log) : log'[i] = log[i],
         extended \in 0..Len(log), extended' \in extended..Len(log'),
         UNCHANGED <<boot, sent, inForce>>
  PROVE  /\ InLog(a) => InLog(a)'
         /\ StateSound(a) => StateSound(a)'
<1>1. PICK t \in Logs, m \in extended..Len(log') : t = log' /\ m = extended'
  OBVIOUS
<1>2. ASSUME Placed(a, log, extended)
      PROVE  Placed(a, t, m)
  BY <1>1, <1>2, GrownPlaced
<1>3. Placed(a, t, m) => Placed(a, log, extended)'
  BY <1>1 DEF Placed, Upper, Common, FullReplay
<1>4. QED
  BY <1>2, <1>3 DEF StateSound, InLog, Shown

\* A reply under way stays what it is.
LEMMA ReplyStays ==
  ASSUME Inductive, NEW p \in Pollers, UNCHANGED <<state, pollers, inForce>>,
         NEW r, r = reply[p], pc[p] = "answered" =>
           /\ r.boot <= boot'
           /\ r.boot = boot' => /\ Len(r.log) <= sent' /\ Len(r.log) <= Len(log')
                                /\ r.log = Prefix(log', Len(r.log))
                                /\ r.extended <= extended'
  PROVE  ReplySound(p)' /\ AskedNext(p)'
<1>1. AskedNext(p)'
  BY DEF Inductive, AskedNext, pollers
<1>2. SUFFICES ASSUME pc[p] = "answered"
               PROVE  ReplySound(p)'
  BY <1>1 DEF ReplySound, pollers
<1>3. PICK a : a = state[Home[p]]
  OBVIOUS
<1>4. /\ r.start \in {0, a.next}
      /\ a.boottime = r.boot => /\ Placed(a, r.log, r.extended)
                                /\ r.behind \/ Shown(a, r.extended)
  BY <1>2, <1>3 DEF Inductive, ReplySound
<1>5. state'[Home[p]] = a /\ reply'[p] = r
  BY <1>3 DEF pollers
<1>6. Placed(a, r.log, r.extended) => Placed(a, r.log, r.extended)'
  BY DEF Placed, Upper, Common, FullReplay
<1>7. Placed(a, r.log, r.extended)' => Placed(state[Home[p]], reply[p].log, reply[p].extended)'
  BY <1>5 DEF Placed, Base
<1>8. Shown(a, r.extended) => Shown(state[Home[p]], reply[p].extended)'
  BY <1>5 DEF Shown
<1>9. QED
  BY <1>2, <1>4, <1>5, <1>6, <1>7, <1>8 DEF ReplySound

LEMMA MachineSound ==
  ASSUME Inductive, Typed', (\E e \in Entries : Measure(e)) \/ Extend \/ Reboot
  PROVE  Inductive'
<1>1. /\ log \in Logs /\ extended \in 0..Len(log) /\ Len(log) \in 0..MaxLog /\ MaxLog \in Nat
      /\ boot \in Nat /\ sent \in Nat /\ sent <= Len(log)
  BY LogTyped, BootTyped, AttestationAssumption DEF Inductive, Typed, TypeOK
<1>2. /\ \A w \in Workers : state[w] \in States /\ state[w].next \in Nat
      /\ row # None => row.next \in Nat
  BY AttestationAssumption DEF Inductive, Typed, TypeOK, States, Columns
<1>3. UNCHANGED <<state, row, policies, pollers>>
  BY DEF Measure, Extend, Reboot
<1>4. Forgotten' /\ PoliciesKnown'
  BY <1>3 DEF Inductive, Forgotten, PoliciesKnown, policies, pollers
<1>5. ASSUME NEW q \in Pollers, pc[q] = "answered"
      PROVE  /\ reply[q] \in Replies /\ reply[q].boot <= boot /\ reply[q].boot \in Nat
             /\ reply[q].log \in Logs /\ Len(reply[q].log) \in Nat /\ reply[q].extended \in Nat
             /\ reply[q].boot = boot =>
                  /\ Len(reply[q].log) <= sent /\ Len(reply[q].log) <= Len(log)
                  /\ reply[q].log = Prefix(log, Len(reply[q].log))
                  /\ reply[q].extended <= extended
  <2>1. reply[q] \in Replies
    BY <1>5 DEF Inductive, Typed, ReplyMade
  <2>2. QED
    BY <1>5, <2>1, ReplyTyped DEF Inductive, ReplySound, Replies, Boots
<1>6. CASE (\E e \in Entries : Measure(e)) \/ Extend
  <2>1. UNCHANGED <<boot, sent, inForce>>
    BY <1>6 DEF Measure, Extend, policies
  <2>2. /\ log' \in Logs /\ Len(log) <= Len(log') /\ \A i \in 1..Len(log) : log'[i] = log[i]
        /\ extended' \in extended..Len(log')
    <3>1. CASE \E e \in Entries : Measure(e)
      BY <1>1, <3>1, LongerLog DEF Measure
    <3>2. CASE Extend
      BY <1>1, <3>2 DEF Extend
    <3>3. QED
      BY <1>6, <3>1, <3>2
  <2>3. ASSUME NEW a, a.next \in Nat
        PROVE  /\ InLog(a) => InLog(a)'
               /\ StateSound(a) => StateSound(a)'
    BY <1>1, <2>1, <2>2, <2>3, LogGrows
  <2>4. ASSUME NEW w \in Workers
        PROVE  StateSound(state[w])'
    <3>1. PICK a : a = state[w]
      OBVIOUS
    <3>2. StateSound(a)'
      BY <1>2, <2>3, <3>1 DEF Inductive
    <3>3. QED
      BY <1>3, <3>1, <3>2, HoldsSound
  <2>5. row' # None => InLog(row)'
    <3>1. PICK a : a = row
      OBVIOUS
    <3>2. row # None => InLog(a)'
      BY <1>2, <2>3, <3>1 DEF Inductive
    <3>3. QED
      BY <1>3, <3>1, <3>2, HoldsSound
  <2>6. ASSUME NEW q \in Pollers
        PROVE  ReplySound(q)' /\ AskedNext(q)'
    <3>1. PICK r : r = reply[q]
      OBVIOUS
    <3>2. ASSUME pc[q] = "answered", r.boot = boot
          PROVE  /\ Len(r.log) <= sent' /\ Len(r.log) <= Len(log')
                 /\ r.log = Prefix(log', Len(r.log)) /\ r.extended <= extended'
      <4>1. PICK n \in 0..Len(log) : n = Len(r.log) /\ n <= sent
        BY <1>1, <1>5, <3>1, <3>2
      <4>2. Prefix(log', n) = Prefix(log, n)
        BY <1>1, <2>2, PrefixGrows
      <4>3. n <= Len(log')
        BY <1>1, <2>2
      <4>4. r.extended <= extended'
        BY <1>1, <1>5, <2>2, <3>1, <3>2
      <4>5. QED
        BY <1>5, <2>1, <3>1, <3>2, <4>1, <4>2, <4>3, <4>4
    <3>3. UNCHANGED <<state, pollers, inForce>>
      BY <1>3, <2>1
    <3>4. pc[q] = "answered" => r.boot <= boot'
      BY <1>5, <2>1, <3>1
    <3>5. QED
      BY <2>1, <3>1, <3>2, <3>3, <3>4, ReplyStays
  <2>7. sent' <= Len(log')
    BY <1>1, <2>1, <2>2
  <2>8. QED
    BY <1>4, <2>4, <2>5, <2>6, <2>7 DEF Inductive
<1>7. CASE Reboot
  <2>1. boot' = boot + 1 /\ sent' = 0 /\ Len(log') = 0
    BY <1>7, EmptyLog DEF Reboot
  <2>2. ASSUME NEW a, a.boottime \in Nat, InLog(a)
        PROVE  InLog(a)' /\ StateSound(a)'
    <3>1. a.boottime <= boot
      BY <2>2 DEF InLog
    <3>2. a.boottime <= boot' /\ a.boottime # boot'
      BY <1>1, <2>1, <2>2, <3>1
    <3>3. QED
      BY <3>2 DEF InLog, StateSound
  <2>3. /\ \A w \in Workers : state[w].boottime \in Nat
        /\ row # None => row.boottime \in Nat
    BY DEF Inductive, Typed, TypeOK, States, Columns, Boots
  <2>4. ASSUME NEW w \in Workers
        PROVE  StateSound(state[w])'
    <3>1. PICK a : a = state[w]
      OBVIOUS
    <3>2. StateSound(a)'
      BY <2>2, <2>3, <3>1 DEF Inductive, StateSound
    <3>3. QED
      BY <1>3, <3>1, <3>2, HoldsSound
  <2>5. row' # None => InLog(row)'
    <3>1. PICK a : a = row
      OBVIOUS
    <3>2. row # None => InLog(a)'
      BY <2>2, <2>3, <3>1 DEF Inductive
    <3>3. QED
      BY <1>3, <3>1, <3>2, HoldsSound
  <2>6. ASSUME NEW q \in Pollers
        PROVE  ReplySound(q)' /\ AskedNext(q)'
    <3>1. PICK r : r = reply[q]
      OBVIOUS
    <3>2. pc[q] = "answered" => r.boot <= boot' /\ r.boot # boot'
      BY <1>1, <1>5, <2>1, <3>1
    <3>3. UNCHANGED <<state, pollers, inForce>>
      BY <1>3 DEF policies
    <3>4. QED
      BY <3>1, <3>2, <3>3, ReplyStays
  <2>7. QED
    BY <1>4, <2>1, <2>4, <2>5, <2>6 DEF Inductive
<1>8. QED
  BY <1>6, <1>7

\* A poller that has nothing under way afterwards, and writes nothing.
LEMMA RestSound ==
  ASSUME OneLoop, Inductive, Typed', NEW p \in Pollers,
         (row # None /\ Due(p, policy)) \/ Ends(p), UNCHANGED <<machine, state, row, policies>>
  PROVE  Inductive'
<1>1. Typed /\ policy \in Policies \union {None}
  BY DEF Inductive, Typed, TypeOK
<1>2. pc'[p] \in {"idle", "due"} /\ (pc'[p] = "due" => row # None /\ captured'[p] = policy)
  BY <1>1 DEF Due, Ends, Typed, TypeOK
<1>3. \A q \in Pollers : AskedNext(q)' /\ ReplySound(q)'
  BY <1>2, PollerRests
<1>4. Forgotten' /\ PoliciesKnown'
  BY <1>2 DEF OneLoop, Inductive, Forgotten, PoliciesKnown, policies
<1>5. ASSUME NEW w \in Workers
      PROVE  StateSound(state[w])'
  <2>1. PICK a : a = state[w]
    OBVIOUS
  <2>2. StateSound(a)'
    BY <2>1, SoundStays DEF Inductive, policies
  <2>3. QED
    BY <2>1, <2>2, HoldsSound
<1>6. row' # None => InLog(row)'
  <2>1. PICK a : a = row
    OBVIOUS
  <2>2. row # None => InLog(a)'
    BY <2>1, SoundStays DEF Inductive, policies
  <2>3. QED
    BY <2>1, <2>2, HoldsSound
<1>7. sent' <= Len(log')
  BY DEF Inductive, machine
<1>8. QED
  BY <1>3, <1>4, <1>5, <1>6, <1>7 DEF Inductive

LEMMA AskSound ==
  ASSUME OneLoop, Inductive, Typed', NEW p \in Pollers, Ask(p)
  PROVE  Inductive'
<1>1. /\ pc' = [pc EXCEPT ![p] = "asked"]
      /\ asked' = [asked EXCEPT ![p] = state[Home[p]].next] /\ pc[p] = "due"
      /\ UNCHANGED <<machine, state, row, policies, captured, reply>>
  BY DEF Ask
<1>2. AskedNext(p)' /\ ReplySound(p)'
  BY <1>1 DEF Inductive, Typed, TypeOK, AskedNext, ReplySound
<1>3. \A q \in Pollers : AskedNext(q)' /\ ReplySound(q)'
  BY <1>2 DEF OneLoop
<1>4. Forgotten' /\ PoliciesKnown'
  BY <1>1 DEF Inductive, Typed, TypeOK, Forgotten, PoliciesKnown, policies
<1>5. ASSUME NEW w \in Workers
      PROVE  StateSound(state[w])'
  <2>1. PICK a : a = state[w]
    OBVIOUS
  <2>2. StateSound(a)'
    BY <1>1, <2>1, SoundStays DEF Inductive, policies
  <2>3. QED
    BY <1>1, <2>1, <2>2, HoldsSound
<1>6. row' # None => InLog(row)'
  <2>1. PICK a : a = row
    OBVIOUS
  <2>2. row # None => InLog(a)'
    BY <1>1, <2>1, SoundStays DEF Inductive, policies
  <2>3. QED
    BY <1>1, <2>1, <2>2, HoldsSound
<1>7. sent' <= Len(log')
  BY <1>1 DEF Inductive, machine
<1>8. QED
  BY <1>2, <1>3, <1>4, <1>5, <1>6, <1>7 DEF Inductive

LEMMA AnswerSound ==
  ASSUME OneLoop, Inductive, Typed', NEW p \in Pollers,
         NEW start \in 0..MaxLog, Answer(p, start)
  PROVE  Inductive'
<1>1. PICK late \in BOOLEAN : late = (extended < sent)
  <2>1. (extended < sent) \in BOOLEAN
    OBVIOUS
  <2>2. QED
    BY <2>1
<1>2. PICK r : r = [start |-> start, log |-> log, extended |-> extended, boot |-> boot,
                    behind |-> late]
  OBVIOUS
<1>3. /\ reply' = [reply EXCEPT ![p] = r] /\ pc' = [pc EXCEPT ![p] = "answered"]
      /\ sent' = Len(log) /\ pc[p] = "asked" /\ start \in {0, asked[p]}
      /\ UNCHANGED <<log, extended, boot, state, row, policies, captured>>
  BY <1>1, <1>2 DEF Answer
<1>4. /\ log \in Logs /\ log \in Seq(Entries) /\ Len(log) \in Nat /\ extended \in Nat
      /\ sent \in Nat /\ sent <= Len(log)
  BY LogTyped, AttestationAssumption DEF Inductive, Typed, TypeOK
<1>5. Home[p] \in Workers
  BY AttestationAssumption
<1>6. PICK a \in States : a = state[Home[p]]
  BY <1>5 DEF Inductive, Typed, TypeOK
<1>7. StateSound(a) /\ asked[p] = a.next
  BY <1>3, <1>5, <1>6 DEF Inductive, AskedNext
<1>8. /\ r.start \in {0, a.next} /\ r.log = log /\ r.extended = extended /\ r.boot = boot
      /\ r.behind = late
  BY <1>2, <1>3, <1>7
<1>9. ASSUME a.boottime = boot
      PROVE  Placed(a, log, extended) /\ (late \/ Shown(a, extended))
  <2>1. Placed(a, log, extended) /\ Shown(a, sent)
    BY <1>7, <1>9 DEF StateSound, InLog
  <2>2. late \/ sent <= extended
    <3>1. extended < sent \/ sent <= extended
      BY <1>4
    <3>2. QED
      BY <1>1, <3>1
  <2>3. QED
    BY <1>4, <2>1, <2>2, ShownFurther
<1>10. ReplySound(p)'
  <2>1. reply'[p] = r /\ pc'[p] = "answered" /\ state'[Home[p]] = a
    BY <1>3, <1>6 DEF Inductive, Typed, TypeOK
  <2>2. log = Prefix(log, Len(log))
    BY <1>4, SubSeqFull DEF Prefix
  <2>3. Placed(a, log, extended) => Placed(state[Home[p]], reply[p].log, reply[p].extended)'
    BY <1>3, <1>8, <2>1 DEF Placed, Base, Upper, Common, FullReplay, policies
  <2>4. Shown(a, extended) => Shown(state[Home[p]], reply[p].extended)'
    BY <1>8, <2>1 DEF Shown
  <2>5. boot \in Nat
    BY BootTyped DEF Inductive
  <2>6. QED
    BY <1>3, <1>4, <1>8, <1>9, <2>1, <2>2, <2>3, <2>4, <2>5 DEF ReplySound
<1>11. AskedNext(p)'
  BY <1>3 DEF AskedNext, Inductive, Typed, TypeOK
<1>12. \A q \in Pollers : AskedNext(q)' /\ ReplySound(q)'
  BY <1>10, <1>11 DEF OneLoop
<1>13. Forgotten' /\ PoliciesKnown'
  BY <1>3 DEF Inductive, Typed, TypeOK, Forgotten, PoliciesKnown, policies
<1>14. ASSUME NEW w \in Workers
       PROVE  StateSound(state[w])'
  <2>1. PICK c \in States : c = state[w]
    BY DEF Inductive, Typed, TypeOK
  <2>2. StateSound(c)
    BY <2>1 DEF Inductive
  <2>3. InLog(c)'
    BY <1>3, <2>2 DEF StateSound, InLog, Placed, Upper, Common, FullReplay, policies
  <2>4. c.boottime = boot => Shown(c, Len(log))
    BY <1>4, <2>2, ShownFurther DEF StateSound
  <2>5. StateSound(c)'
    BY <1>3, <2>3, <2>4 DEF StateSound, Shown
  <2>6. QED
    BY <1>3, <2>1, <2>5, HoldsSound
<1>15. row' # None => InLog(row)'
  <2>1. PICK c : c = row
    OBVIOUS
  <2>2. row # None => InLog(c)'
    BY <1>3, <2>1 DEF Inductive, InLog, Placed, Upper, Common, FullReplay, policies
  <2>3. QED
    BY <1>3, <2>1, <2>2, HoldsSound
<1>16. sent' <= Len(log')
  BY <1>3, <1>4
<1>17. QED
  BY <1>12, <1>13, <1>14, <1>15, <1>16 DEF Inductive

\* A position that was made anew is sound.
LEMMA FreshSound ==
  ASSUME Typed', NEW a, a.boottime = 0
  PROVE  StateSound(a)' /\ InLog(a)'
BY AttestationAssumption DEF Typed, TypeOK, Boots, StateSound, InLog

\* The row goes, and with it what the worker remembers.
LEMMA DeleteSound ==
  ASSUME OneLoop, Inductive, Typed', NEW w \in Workers, DeleteRow(w), UNCHANGED machine,
         \A q \in Pollers : pc'[q] = "idle"
  PROVE  Inductive'
<1>1. row' = None /\ state' = [state EXCEPT ![w] = NewState]
  BY DEF DeleteRow, Forget
<1>2. \A v \in Workers : state'[v] = NewState
  BY <1>1 DEF OneLoop, Inductive, Typed, TypeOK
<1>3. Forgotten' /\ PoliciesKnown'
  BY <1>1, <1>2 DEF Forgotten, PoliciesKnown
<1>4. \A q \in Pollers : AskedNext(q)' /\ ReplySound(q)'
  BY DEF AskedNext, ReplySound
<1>5. ASSUME NEW v \in Workers
      PROVE  StateSound(state[v])'
  <2>1. PICK a : a = NewState
    OBVIOUS
  <2>2. StateSound(a)'
    BY <2>1, FreshSound DEF NewState
  <2>3. QED
    BY <1>2, <2>1, <2>2, HoldsSound
<1>6. sent' <= Len(log')
  BY DEF Inductive, machine
<1>7. QED
  BY <1>1, <1>3, <1>4, <1>5, <1>6 DEF Inductive

LEMMA AddSound ==
  ASSUME OneLoop, Inductive, Typed', NEW p \in Pollers, NEW rules \in Policies, Add(p, rules)
  PROVE  Inductive'
<1>1. /\ row = None /\ row' = NewColumns /\ policy' = rules /\ inForce' = {rules}
      /\ Due(p, rules) /\ UNCHANGED <<machine, state>>
  BY DEF Add
<1>2. pc'[p] = "due" /\ captured'[p] = rules
  BY <1>1 DEF Due, Inductive, Typed, TypeOK
<1>3. \A q \in Pollers : AskedNext(q)' /\ ReplySound(q)'
  BY <1>2, PollerRests
<1>4. row' # None
  BY <1>1, NewStateTyped, NoneAssumption
<1>5. Forgotten' /\ PoliciesKnown'
  BY <1>1, <1>2, <1>4 DEF Forgotten, PoliciesKnown, OneLoop
<1>6. ASSUME NEW w \in Workers
      PROVE  StateSound(state[w])'
  <2>1. PICK a : a = NewState
    OBVIOUS
  <2>2. state'[w] = a
    BY <1>1, <2>1 DEF Inductive, Forgotten
  <2>3. StateSound(a)'
    BY <2>1, FreshSound DEF NewState
  <2>4. QED
    BY <2>2, <2>3, HoldsSound
<1>7. InLog(row)'
  <2>1. PICK a : a = NewColumns
    OBVIOUS
  <2>2. InLog(a)'
    BY <2>1, FreshSound DEF NewColumns
  <2>3. QED
    BY <1>1, <2>1, <2>2, HoldsSound
<1>8. sent' <= Len(log')
  BY <1>1 DEF Inductive, machine
<1>9. QED
  BY <1>3, <1>5, <1>6, <1>7, <1>8 DEF Inductive

\* Another policy comes into force: what one of them admitted stays admitted, and
\* what all of them admit is less.
LEMMA UpdateSound ==
  ASSUME OneLoop, Inductive, Typed', NEW rules \in Policies, UpdatePolicy(rules)
  PROVE  Inductive'
<1>1. /\ row # None /\ policy' = rules /\ inForce' = inForce \union {rules}
      /\ UNCHANGED <<machine, state, row, pollers>>
  BY DEF UpdatePolicy
<1>2. inForce # {} /\ inForce \subseteq inForce'
  BY <1>1 DEF Inductive, PoliciesKnown
<1>3. Forgotten' /\ PoliciesKnown'
  BY <1>1 DEF Inductive, Forgotten, PoliciesKnown, pollers
<1>4. ASSUME NEW a, a.next \in Nat, NEW s \in Logs, NEW n, Placed(a, s, n)
      PROVE  Placed(a, s, n)'
  <2>1. /\ a.next <= n /\ Base(a) = Prefix(s, a.next)
        /\ \E i \in a.next..Len(s) :
             FullReplay(Prefix(s, i), Upper') /\ (a.keys => Learned(s, i, Upper'))
        /\ Learned(s, a.next, Common') => a.keys
    BY <1>2, <1>4, StillAdmitted
  <2>2. QED
    BY <2>1 DEF Placed
<1>5. ASSUME NEW a, a.next \in Nat
      PROVE  /\ InLog(a) => InLog(a)'
             /\ StateSound(a) => StateSound(a)'
  <2>1. PICK s \in Logs : s = log
    BY LogTyped DEF Inductive
  <2>2. Placed(a, log, extended) => Placed(a, s, extended)'
    <3>1. PICK n : n = extended
      OBVIOUS
    <3>2. Placed(a, log, extended) => Placed(a, s, n)'
      BY <1>4, <1>5, <2>1, <3>1
    <3>3. QED
      BY <1>1, <3>1, <3>2 DEF Placed, machine
  <2>3. Placed(a, s, extended)' => Placed(a, log, extended)'
    BY <1>1, <2>1 DEF Placed, machine
  <2>4. QED
    BY <1>1, <2>2, <2>3 DEF InLog, StateSound, Shown, machine
<1>6. /\ \A w \in Workers : state[w].next \in Nat
      /\ row.next \in Nat
  BY <1>1, AttestationAssumption DEF Inductive, Typed, TypeOK, States, Columns
<1>7. ASSUME NEW w \in Workers
      PROVE  StateSound(state[w])'
  <2>1. PICK a : a = state[w]
    OBVIOUS
  <2>2. StateSound(a)'
    BY <1>5, <1>6, <2>1 DEF Inductive
  <2>3. QED
    BY <1>1, <2>1, <2>2, HoldsSound
<1>8. InLog(row)'
  <2>1. PICK a : a = row
    OBVIOUS
  <2>2. InLog(a)'
    BY <1>1, <1>5, <1>6, <2>1 DEF Inductive
  <2>3. QED
    BY <1>1, <2>1, <2>2, HoldsSound
<1>9. ASSUME NEW q \in Pollers
      PROVE  AskedNext(q)' /\ ReplySound(q)'
  <2>1. AskedNext(q)'
    BY <1>1 DEF Inductive, AskedNext, pollers
  <2>2. SUFFICES ASSUME pc[q] = "answered"
                 PROVE  ReplySound(q)'
    BY <1>1, <2>1 DEF ReplySound, pollers
  <2>3. PICK a \in States, r \in Replies : a = state[Home[q]] /\ r = reply[q]
    BY <2>2, AnswerLookedAt DEF Inductive
  <2>4. a.next \in Nat /\ r.log \in Logs
    BY ReplyTyped DEF States
  <2>5. Placed(a, r.log, r.extended) => Placed(a, r.log, r.extended)'
    BY <1>4, <2>4
  <2>6. Placed(a, r.log, r.extended)' => Placed(state[Home[q]], reply[q].log, reply[q].extended)'
    BY <1>1, <2>3 DEF Placed, Base, pollers
  <2>7. Shown(a, r.extended) => Shown(state[Home[q]], reply[q].extended)'
    BY <1>1, <2>3 DEF Shown, pollers
  <2>8. QED
    BY <1>1, <2>2, <2>3, <2>5, <2>6, <2>7 DEF Inductive, ReplySound, pollers, machine
<1>10. sent' <= Len(log')
  BY <1>1 DEF Inductive, machine
<1>11. QED
  BY <1>3, <1>7, <1>8, <1>9, <1>10 DEF Inductive

\* The row's columns go to the worker that starts again.
LEMMA RestartSound ==
  ASSUME OneLoop, Inductive, Typed', NEW w \in Workers, NEW p \in Pollers, Restart(w, p)
  PROVE  Inductive'
<1>1. /\ state' = [v \in Workers |->
             IF v = w /\ row # None /\ row.boottime # 0 THEN Resumed(row) ELSE NewState]
      /\ pc' = [q \in Pollers |-> IF q = p /\ row # None THEN "due" ELSE "idle"]
      /\ captured' = [q \in Pollers |-> IF q = p THEN policy ELSE None]
      /\ UNCHANGED <<machine, row, policies>>
  BY DEF Restart
<1>2. \A q \in Pollers : AskedNext(q)' /\ ReplySound(q)'
  BY <1>1 DEF AskedNext, ReplySound
<1>3. Forgotten' /\ PoliciesKnown'
  BY <1>1 DEF Inductive, Forgotten, PoliciesKnown, policies
<1>4. row # None => InLog(row)'
  <2>1. PICK c : c = row
    OBVIOUS
  <2>2. row # None => InLog(c)'
    BY <1>1, <2>1, SoundStays DEF Inductive, policies
  <2>3. QED
    BY <1>1, <2>1, <2>2, HoldsSound
<1>5. ASSUME NEW v \in Workers
      PROVE  StateSound(state[v])'
  <2>1. CASE row # None /\ row.boottime # 0
    <3>1. PICK c \in Columns : c = row
      BY <2>1 DEF Inductive, Typed, TypeOK
    <3>2. Measured(c)
      BY <2>1, <3>1 DEF Inductive, Typed
    <3>3. PICK a \in States : a = Resumed(c)
      BY <3>2, ResumedTyped
    <3>4. /\ a.next = c.next /\ a.boottime = c.boottime /\ a.keys = c.keys
          /\ Base(a) = Base(c) /\ a.progress = None
      BY <3>2, <3>3, ResumedTyped
    <3>5. InLog(c)'
      BY <1>1, <2>1, <3>1, SoundStays DEF Inductive, policies
    <3>6. InLog(a)'
      BY <3>4, <3>5 DEF InLog, Placed
    <3>7. StateSound(a)'
      BY <3>4, <3>6 DEF StateSound, Shown
    <3>8. state'[v] = a
      BY <1>1, <2>1, <3>1, <3>3 DEF OneLoop
    <3>9. QED
      BY <3>7, <3>8, HoldsSound
  <2>2. CASE ~(row # None /\ row.boottime # 0)
    <3>1. PICK a : a = NewState
      OBVIOUS
    <3>2. StateSound(a)'
      BY <3>1, FreshSound DEF NewState
    <3>3. state'[v] = a
      BY <1>1, <2>2, <3>1
    <3>4. QED
      BY <3>2, <3>3, HoldsSound
  <2>3. QED
    BY <2>1, <2>2
<1>6. sent' <= Len(log')
  BY <1>1 DEF Inductive, machine
<1>7. QED
  BY <1>1, <1>2, <1>3, <1>4, <1>5, <1>6 DEF Inductive
-----------------------------------------------------------------------------
(* The theorems *)

\* A position that is placed has passed a full replay.
LEMMA PlacedReplayed ==
  ASSUME NEW a, a.next \in Nat, NEW s \in Logs, NEW n \in 0..Len(s), Placed(a, s, n)
  PROVE  FullReplay(Prefix(s, a.next), Upper)
<1>1. Len(s) \in Nat /\ a.next <= n
  BY LogIsSeq DEF Placed
<1>2. PICK i \in a.next..Len(s) : FullReplay(Prefix(s, i), Upper)
  BY DEF Placed
<1>3. i \in 0..Len(s) /\ a.next \in 0..Len(s) /\ a.next <= i
  BY <1>1, <1>2
<1>4. PICK u, v : u = Prefix(s, a.next) /\ v = Prefix(s, i)
  OBVIOUS
<1>5. /\ Len(u) = a.next /\ \A j \in 1..a.next : u[j] = s[j]
      /\ Len(v) = i /\ \A j \in 1..i : v[j] = s[j]
  BY <1>3, <1>4, PrefixFacts
<1>6. ASSUME NEW j \in 1..a.next
      PROVE  Admits(u, j, FALSE, Upper)
  <2>1. j \in 1..i /\ u[j] = v[j] /\ \A l \in 1..j - 1 : u[l] = v[l]
    BY <1>3, <1>5
  <2>2. Admits(v, j, FALSE, Upper)
    BY <1>2, <1>4, <1>5, <2>1 DEF FullReplay, AllValid
  <2>3. QED
    BY <2>1, <2>2 DEF Admits, Learned
<1>7. QED
  BY <1>4, <1>5, <1>6 DEF FullReplay, AllValid

\* What a verdict says is what a replay of the whole log would say.
VerdictSound == AcceptedAsInFull /\ RejectedAsInFull

LEMMA VerdictOfStep ==
  ASSUME OneLoop, Inductive, VerdictSound, [Next]_vars
  PROVE  VerdictSound'
<1>1. CASE verdict' = None
  BY <1>1 DEF VerdictSound, AcceptedAsInFull, RejectedAsInFull
<1>2. CASE UNCHANGED vars
  BY <1>2 DEF vars, policies, VerdictSound, AcceptedAsInFull, RejectedAsInFull, Upper, Common
<1>3. CASE \E p \in Pollers : QuoteRefused(p)
  <2>1. PICK p \in Pollers : QuoteRefused(p)
    BY <1>3
  <2>2. ~Misplaced(state[Home[p]], reply[p])
    BY <2>1, ReplyLookedAt DEF QuoteRefused
  <2>3. verdict' = None
    BY <2>1, <2>2 DEF QuoteRefused
  <2>4. QED
    BY <1>1, <2>3
<1>4. CASE \E p \in Pollers, elsewhere \in BOOLEAN : Checked(p, elsewhere)
  <2>1. PICK p \in Pollers, elsewhere \in BOOLEAN : Checked(p, elsewhere)
    BY <1>4
  <2>2. pc[p] = "answered" /\ ~Rebooted(state[Home[p]], reply[p])
    BY <2>1 DEF Checked
  <2>3. PICK a \in States, r \in Replies : a = state[Home[p]] /\ r = reply[p]
    BY <2>2, AnswerLookedAt DEF Inductive
  <2>4. Measured(a) /\ ResetReaches(a) /\ r.start <= Len(r.log) /\ r.extended <= Len(r.log)
    BY <2>2, <2>3, AnswerLookedAt DEF Inductive
  <2>5. PICK b \in States : b = Begun(a, r)
    BY <2>4, BegunFacts
  <2>6. PICK rules \in inForce : rules = captured[p]
    BY <2>2, ReplyLookedAt
  <2>7. /\ Measured(b) /\ ResetReaches(b) /\ b.next = r.start
        /\ Placed(b, r.log, r.extended) /\ (r.behind \/ Shown(b, r.extended))
        /\ ~Misplaced(a, r)
    BY <2>2, <2>3, <2>4, <2>5, BegunFacts, ReplyLookedAt
  <2>8. inForce' = inForce
    BY <2>1 DEF Checked, Finish, policies
  <2>9. Upper' = Upper /\ Common' = Common
    BY <2>8 DEF Upper, Common
  <2>10. CASE ImaFailures(b, r, rules)
    <3>1. PICK no : no = FALSE
      OBVIOUS
    <3>2. verdict' = [accepted |-> no, log |-> r.log, behind |-> r.behind] \/ verdict' = None
      BY <2>1, <2>3, <2>5, <2>6, <2>10, <3>1 DEF Checked, Judged
    <3>3. r.behind \/ ~FullReplay(r.log, Common)
      BY <2>4, <2>7, <2>10, ReplayAccepts
    <3>4. verdict' # None =>
            verdict'.accepted = no /\ verdict'.log = r.log /\ verdict'.behind = r.behind
      BY <3>2
    <3>5. QED
      BY <2>9, <3>1, <3>3, <3>4 DEF VerdictSound, AcceptedAsInFull, RejectedAsInFull
  <2>11. CASE ~ImaFailures(b, r, rules)
    <3>1. PICK yes : yes = TRUE
      OBVIOUS
    <3>2. verdict' = [accepted |-> yes, log |-> r.log, behind |-> r.behind] \/ verdict' = None
      BY <2>1, <2>3, <2>5, <2>6, <2>7, <2>11, <3>1 DEF Checked, Judged
    <3>3. FullReplay(r.log, Upper)
      BY <2>4, <2>7, <2>11, ReplayPlaces
    <3>4. verdict' # None => verdict'.accepted = yes /\ verdict'.log = r.log
      BY <3>2
    <3>5. QED
      BY <2>9, <3>1, <3>3, <3>4 DEF VerdictSound, AcceptedAsInFull, RejectedAsInFull
  <2>12. QED
    BY <2>10, <2>11
<1>5. QED
  BY <1>1, <1>2, <1>3, <1>4
     DEF Next, PollerStep, Measure, Extend, Reboot, Add, Reactivate, UpdatePolicy, Delete, Restart,
         Ask, Answer, Unanswered, TakenForReboot, ReplyRefused, StopPolling, Terminate

\* A log that is sent again is asked for from where it was left; what a worker, a
\* row and a reply say of it is about the same log (process_quote_response,
\* store_attestation_state, activate_agents).
THEOREM PositionsAreKept ==
  ASSUME OneLoop
  PROVE  Spec => [](Inductive /\ VerdictSound)
<1>1. Init => Inductive /\ VerdictSound
  <2>1. SUFFICES ASSUME Init PROVE Inductive /\ VerdictSound
    OBVIOUS
  <2>2. Typed
    BY <2>1, InitTyped
  <2>3. ASSUME NEW w \in Workers
        PROVE  StateSound(state[w])
    <3>1. state[w] = NewState /\ state[w].boottime = 0
      BY <2>1 DEF Init, NewState
    <3>2. QED
      BY <2>2, <3>1, ResetSound
  <2>4. sent <= Len(log)
    BY <2>1, EmptyLog DEF Init
  <2>5. QED
    BY <2>1, <2>2, <2>3, <2>4
       DEF Init, Inductive, Forgotten, PoliciesKnown, AskedNext, ReplySound, VerdictSound,
           AcceptedAsInFull, RejectedAsInFull
<1>2. Inductive /\ VerdictSound /\ [Next]_vars => Inductive' /\ VerdictSound'
  <2> SUFFICES ASSUME Inductive, VerdictSound, [Next]_vars
               PROVE  Inductive'
    BY VerdictOfStep
  <2>1. Typed'
    BY StepTyped DEF Inductive
  <2>2. ASSUME NEW p \in Pollers, PollerStep(p)
        PROVE  Inductive'
    <3>1. CASE Unanswered(p) \/ StopPolling(p)
      BY <2>1, <3>1, RestSound DEF Unanswered, StopPolling
    <3>2. CASE Terminate(p)
      <4>1. Home[p] \in Workers /\ DeleteRow(Home[p]) /\ UNCHANGED machine /\ Ends(p)
        BY <3>2, AttestationAssumption DEF Terminate
      <4>2. \A q \in Pollers : pc'[q] = "idle"
        BY <4>1 DEF OneLoop, Ends, Inductive, Typed, TypeOK
      <4>3. QED
        BY <2>1, <4>1, <4>2, DeleteSound
    <3>3. QED
      BY <2>1, <2>2, <3>1, <3>2, AskSound, AnswerSound, LookSound DEF PollerStep
  <2>3. ASSUME NEW p \in Pollers, Reactivate(p)
        PROVE  Inductive'
    BY <2>1, <2>3, RestSound DEF Reactivate
  <2>4. ASSUME NEW w \in Workers, Delete(w)
        PROVE  Inductive'
    BY <2>1, <2>4, DeleteSound DEF Delete, OneLoop, pollers
  <2>5. CASE UNCHANGED vars
    BY <2>1, <2>5
       DEF vars, machine, policies, pollers, Inductive, Forgotten, PoliciesKnown, StateSound,
           InLog, Placed, Shown, AskedNext, ReplySound, Upper, Common, Base, FullReplay
  <2>6. QED
    BY <2>1, <2>2, <2>3, <2>4, <2>5, MachineSound, AddSound, UpdateSound, RestartSound DEF Next
<1>3. QED
  BY <1>1, <1>2, PTL DEF Spec

\* Every variable of incremental attestation has its type, whatever workers,
\* pollers and deletions there are (agentstates.py, cloud_verifier_common.py).
THEOREM AttestationTypeCorrect == Spec => []TypeOK
<1>1. Typed => TypeOK
  BY DEF Typed
<1>2. QED
  BY <1>1, TypedInvariant, PTL

\* A quote of an agent accepted from part of its log is one that a replay of the
\* whole log would accept (process_quote_response, _process_measurement_list).
THEOREM PartIsEnough ==
  ASSUME OneLoop
  PROVE  Spec => []AcceptedAsInFull
<1>1. Inductive /\ VerdictSound => AcceptedAsInFull
  BY DEF VerdictSound
<1>2. QED
  BY <1>1, PositionsAreKept, PTL

\* And a log that a replay of the whole would accept is not rejected for the part
\* that was looked at, unless its quote lags behind (check_quote_progress).
THEOREM PartIsNotTooMuch ==
  ASSUME OneLoop
  PROVE  Spec => []RejectedAsInFull
<1>1. Inductive /\ VerdictSound => RejectedAsInFull
  BY DEF VerdictSound
<1>2. QED
  BY <1>1, PositionsAreKept, PTL

\* What a worker remembers and what the row keeps of the present boot is a
\* position in its log (update_ima_attestation, activate_agents).
THEOREM PositionsStayInStep ==
  ASSUME OneLoop
  PROVE  Spec => []PositionsSound
<1>1. Inductive => PositionsSound
  <2> SUFFICES ASSUME Inductive
               PROVE  PositionsSound
    OBVIOUS
  <2>1. log \in Logs /\ extended \in 0..Len(log)
    BY LogTyped DEF Inductive
  <2>2. ASSUME NEW a, a.next \in Nat, Measured(a), InLog(a)
        PROVE  PositionIn(a)
    <3>1. SUFFICES ASSUME a.boottime = boot, a.pcr # None
                   PROVE  /\ a.next = Len(a.pcr) /\ a.next <= extended
                          /\ a.pcr = Prefix(log, a.next) /\ FullReplay(a.pcr, Upper)
      BY DEF PositionIn
    <3>2. Base(a) = a.pcr /\ Placed(a, log, extended)
      BY <2>2, <3>1 DEF Base, InLog
    <3>3. FullReplay(Prefix(log, a.next), Upper)
      BY <2>1, <2>2, <3>2, PlacedReplayed
    <3>4. QED
      BY <2>2, <3>2, <3>3 DEF Measured, Placed
  <2>3. ASSUME NEW w \in Workers
        PROVE  PositionIn(state[w])
    BY <2>2, AttestationAssumption DEF Inductive, Typed, TypeOK, States, StateSound
  <2>4. row # None => PositionIn(row)
    BY <2>2, AttestationAssumption DEF Inductive, Typed, TypeOK, Columns
  <2>5. QED
    BY <2>3, <2>4 DEF PositionsSound
<1>2. QED
  BY <1>1, PositionsAreKept, PTL
=============================================================================
