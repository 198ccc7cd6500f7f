---------------------------- MODULE TenantProofs ----------------------------
(* Theorems about the commands of keylime_tenant, for any number of command
   lines, machines, commands and restarts, and any max_retries.  What a command
   has learnt is good for the share of K it carries: its attestation key is the
   one noted for the share, and a public key it holds was quoted by a TPM whose
   attestation key and EK were accepted, unless the host has started since. *)
EXTENDS Tenant, TLAPS

\* What is left of a script: an add begins with init_add, nothing is added
\* without the attestation key, and a step that leaves others out has them.
Sane(todo, ak) ==
  /\ todo \in Seq(Steps) /\ todo # <<>>
  /\ \A i \in 1..Len(todo) :
       /\ todo[i] = "init_add" => i = 1
       /\ todo[i] = "do_cvadd" => ak # None \/ todo[1] = "init_add"
       /\ todo[i] \in {"do_quote", "do_cvdelete"} => i + 1 <= Len(todo)
       /\ todo[i] = "verifier_check" => i + 2 <= Len(todo)

Issued == 1..Len(given)

CommandRecords ==
  [name : Commands, todo : Seq(Steps), payload : BOOLEAN, verify : BOOLEAN, share : Issued,
   ak : TPMs \cup {None}, pubkey : (0..starts) \cup {None}, numtries : 0..(Maxr - 1)]

\* A command under way.
Sound(c) ==
  /\ c \in CommandRecords
  /\ Sane(c.todo, c.ak)
  /\ c.ak = given[c.share]
  /\ c.pubkey = host.key => host.tpm = c.ak /\ host.tpm \in Genuine
  /\ c.todo[1] = "init_add" =>
       c.pubkey = None /\ host.u # c.share /\ (row # None => row.v # c.share)

CommandsSound ==
  /\ cmd = [t \in Tenants |-> cmd[t]]
  /\ \A t \in Tenants : cmd[t] # None => Sound(cmd[t])
  /\ \A t, u \in Tenants : t # u /\ cmd[t] # None /\ cmd[u] # None => cmd[t].share # cmd[u].share

\* A row has the key noted for its share; a share opened has reached the TPM it was for.
SharesSound ==
  /\ row # None /\ row.v # None => row.ak = given[row.v]
  /\ host.u # None => host.tpm = given[host.u] /\ host.tpm \in Genuine

PeersTyped ==
  /\ reg \in TPMs \cup {None}
  /\ given \in Seq(TPMs \cup {None}) /\ Len(given) <= MaxCommands
  /\ starts \in 0..MaxChanges
  /\ host \in [tpm : TPMs, key : {starts}, u : Issued \cup {None}, v : Issued \cup {None}]
  /\ row \in [ak : TPMs, v : Issued \cup {None}, state : {"polled", "failed", "terminated", "stopped"}]
             \cup {None}

Inductive == PeersTyped /\ CommandsSound /\ SharesSound
-----------------------------------------------------------------------------
(* Scripts *)

\* One script after another; the first may begin an add for the second.
LEMMA ConcatSane ==
  ASSUME NEW s, NEW t, NEW ak, Sane(s, None), Sane(t, ak), t[1] # "init_add",
         s[1] = "init_add" \/ ak = None
  PROVE  Sane(s \o t, None) /\ (s \o t)[1] = s[1]
<1>1. /\ s \in Seq(Steps) /\ t \in Seq(Steps) /\ s # <<>> /\ t # <<>>
      /\ s[1] = "init_add" \/ \A i \in 1..Len(t) : t[i] # "do_cvadd"
  BY DEF Sane
<1>2. QED
  BY <1>1 DEF Sane

\* The rest of a sane script is sane, and init_add is behind it.
LEMMA TailSane ==
  ASSUME NEW todo, NEW ak, Sane(todo, ak), Tail(todo) # <<>>,
         todo[1] = "init_add" => ak # None
  PROVE  Sane(Tail(todo), ak) /\ Tail(todo)[1] # "init_add"
<1>1. /\ Tail(todo) \in Seq(Steps)
      /\ Len(Tail(todo)) = Len(todo) - 1
      /\ Len(todo) \in Nat /\ Len(Tail(todo)) \in Nat \ {0}
      /\ \A i \in 1..Len(Tail(todo)) : Tail(todo)[i] = todo[i + 1]
  BY DEF Sane
<1>2. QED
  BY <1>1 DEF Sane

\* Every script is sane before anything is known.
LEMMA ScriptSane ==
  ASSUME NEW name, NEW check \in BOOLEAN, NEW payload \in BOOLEAN, NEW verify \in BOOLEAN,
         0 # None
  PROVE  Sane(Script(name, check, payload, verify), None)
<1> DEFINE Checked == IF check THEN <<"verifier_check">> \o Delete ELSE Delete
           Whole   == IF verify THEN Add \o <<"do_verify">> ELSE Add
<1>1. /\ Sane(Whole, None) /\ Sane(Whole, 0)
      /\ Whole[1] = "init_add" /\ Tail(Whole) # <<>>
  <2>1. Add \in Seq(Steps) /\ <<"do_verify">> \in Seq(Steps)
    BY DEF Add, Steps
  <2>2. Sane(Add, None) /\ Sane(Add, 0)
    BY <2>1 DEF Add, Sane
  <2>3. <<"init_add", "do_quote", "post_ukey", "do_cvadd", "added", "do_verify">>
          = Add \o <<"do_verify">>
    BY DEF Add
  <2>4. Add \o <<"do_verify">> \in Seq(Steps)
    BY <2>1
  <2>5. Sane(Add \o <<"do_verify">>, None) /\ Sane(Add \o <<"do_verify">>, 0)
    BY <2>3, <2>4 DEF Sane
  <2>6. QED
    BY <2>2, <2>3, <2>5 DEF Add
<1>2. Sane(Checked, None) /\ Checked[1] # "init_add"
  <2>1. Delete \in Seq(Steps) /\ <<"verifier_check">> \in Seq(Steps)
    BY DEF Delete, Steps
  <2>2. Sane(Delete, None) /\ Delete[1] # "init_add"
    BY <2>1 DEF Delete, Sane
  <2>3. <<"verifier_check", "do_cvdelete", "deleted">> = <<"verifier_check">> \o Delete
    BY DEF Delete
  <2>4. <<"verifier_check">> \o Delete \in Seq(Steps)
    BY <2>1
  <2>5. Sane(<<"verifier_check">> \o Delete, None)
    BY <2>3, <2>4 DEF Sane
  <2>6. QED
    BY <2>2, <2>3, <2>5
<1>3. CASE name = "update"
  <2>1. Sane(<<"init_add">>, None)
    BY DEF Sane, Steps
  <2>2. /\ Sane(<<"init_add">> \o Checked, None)
        /\ (<<"init_add">> \o Checked)[1] = "init_add"
    BY <1>2, <2>1, ConcatSane
  <2>3. Sane(Tail(Whole), 0) /\ Tail(Whole)[1] # "init_add"
    BY <1>1, TailSane
  <2>4. Sane(<<"init_add">> \o Checked \o Tail(Whole), None)
    BY <2>2, <2>3, ConcatSane
  <2>5. Script(name, check, payload, verify) = <<"init_add">> \o Checked \o Tail(Whole)
    BY <1>3 DEF Script
  <2>6. QED
    BY <2>4, <2>5
<1>4. CASE name \in {"add", "delete"}
  BY <1>1, <1>2, <1>4 DEF Script
<1>5. CASE name \notin {"update", "add", "delete"}
  <2>1. Script(name, check, payload, verify) \in
          {<<"do_cvstatus", "do_cvreactivate">>, <<"do_cvreactivate">>,
           <<"do_regstatus", "do_cvstatus">>, <<"do_cvstatus">>, <<"do_regdelete">>, <<"request">>}
    BY <1>5 DEF Script
  <2>2. /\ Sane(<<"do_cvstatus", "do_cvreactivate">>, None)
        /\ Sane(<<"do_regstatus", "do_cvstatus">>, None)
    BY DEF Sane, Steps
  <2>3. \A step \in {"do_cvreactivate", "do_cvstatus", "do_regdelete", "request"} :
          Sane(<<step>>, None)
    BY DEF Sane, Steps
  <2>4. QED
    BY <2>1, <2>2, <2>3
<1>6. QED
  BY <1>3, <1>4, <1>5
-----------------------------------------------------------------------------
(* One command takes a step *)

\* A record of a command that goes on.
LEMMA RestSound ==
  ASSUME NEW c, Sound(c), NEW n \in 0..(Maxr - 1), NEW todo, Sane(todo, c.ak),
         todo[1] # "init_add" \/ todo = c.todo
  PROVE  Sound([c EXCEPT !.todo = todo, !.numtries = n])
  BY DEF Sound, CommandRecords, Sane

\* The commands stay sound if only t's changes and keeps its share.
LEMMA OneCommand ==
  ASSUME CommandsSound, NEW t \in Tenants, cmd[t] # None, NEW c, cmd' = [cmd EXCEPT ![t] = c],
         c # None => c.share = cmd[t].share /\ Sound(c)',
         \A u \in Tenants \ {t} : cmd'[u] # None => Sound(cmd[u])'
  PROVE  CommandsSound'
<1>1. cmd'[t] = c /\ \A u \in Tenants \ {t} : cmd'[u] = cmd[u]
  BY DEF CommandsSound
<1>2. (cmd = [u \in Tenants |-> cmd[u]])'
  BY DEF CommandsSound
<1>3. \A u \in Tenants : cmd'[u] # None => Sound(cmd[u])'
  BY <1>1
<1>4. \A u, v \in Tenants : u # v /\ cmd'[u] # None /\ cmd'[v] # None
                             => cmd'[u].share # cmd'[v].share
  BY <1>1 DEF CommandsSound
<1>5. QED
  BY <1>2, <1>3, <1>4 DEF CommandsSound

\* A command that ends leaves the others.
LEMMA EndsSound ==
  ASSUME CommandsSound, NEW t \in Tenants, cmd[t] # None, NEW how, Ends(t, how),
         \A u \in Tenants \ {t} : cmd'[u] # None => Sound(cmd[u])'
  PROVE  CommandsSound'
  BY OneCommand DEF Ends

\* A command that goes on with what it has learnt, c.
LEMMA GoesSound ==
  ASSUME TenantAssumption, CommandsSound, NEW t \in Tenants, cmd[t] # None, NEW c, Goes(t, c),
         Sound(c)', c.share = cmd[t].share, c.todo[1] = "init_add" => c.ak # None,
         \A u \in Tenants \ {t} : cmd'[u] # None => Sound(cmd[u])'
  PROVE  CommandsSound'
<1>1. CASE Tail(c.todo) = <<>>
  BY <1>1, EndsSound DEF Goes
<1>2. CASE Tail(c.todo) # <<>>
  <2> DEFINE d == [c EXCEPT !.todo = Tail(@), !.numtries = 0]
  <2>1. cmd' = [cmd EXCEPT ![t] = d]
    BY <1>2 DEF Goes
  <2>2. Sane(c.todo, c.ak) /\ c \in CommandRecords'
    BY DEF Sound
  <2>3. Sane(Tail(c.todo), c.ak) /\ Tail(c.todo)[1] # "init_add"
    BY <1>2, <2>2, TailSane
  <2>4. PICK e : e = d
    OBVIOUS
  <2>5. /\ e \in CommandRecords'
        /\ e.todo = Tail(c.todo) /\ e.ak = c.ak /\ e.share = c.share /\ e.pubkey = c.pubkey
    <3>1. Tail(c.todo) \in Seq(Steps) /\ 0 \in 0..(Maxr - 1)
      BY <2>3 DEF TenantAssumption, Sane
    <3>2. QED
      BY <2>2, <2>4, <3>1 DEF CommandRecords
  <2>6. Sound(e)'
    BY <2>3, <2>5 DEF Sound
  <2>7. QED
    BY <2>1, <2>4, <2>5, <2>6, OneCommand
<1>3. QED
  BY <1>1, <1>2

\* Another try, where nothing else moves.
LEMMA RetriesSound ==
  ASSUME TenantAssumption, CommandsSound, NEW t \in Tenants, cmd[t] # None,
         cmd[t].numtries + 1 < Maxr, Retries(t, FALSE), UNCHANGED <<host, given, starts>>,
         row' # None => row # None /\ row'.v = row.v
  PROVE  CommandsSound'
<1> DEFINE d == [cmd[t] EXCEPT !.numtries = @ + 1]
<1>1. cmd' = [cmd EXCEPT ![t] = d]
  BY DEF Retries
<1>2. Sound(cmd[t])
  BY DEF CommandsSound
<1>3. PICK e : e = d
  OBVIOUS
<1>4. /\ e \in CommandRecords /\ e.share = cmd[t].share
      /\ e.todo = cmd[t].todo /\ e.ak = cmd[t].ak /\ e.pubkey = cmd[t].pubkey
  BY <1>2, <1>3 DEF Sound, CommandRecords, TenantAssumption
<1>5. Sound(e)'
  BY <1>2, <1>4 DEF Sound, CommandRecords, Issued
<1>6. \A u \in Tenants \ {t} : cmd'[u] # None => Sound(cmd[u])'
  <2>1. TAKE u \in Tenants \ {t}
  <2>2. cmd'[u] = cmd[u]
    BY <1>1 DEF CommandsSound
  <2>3. QED
    BY <2>2 DEF CommandsSound, Sound, CommandRecords, Issued
<1>7. QED
  BY <1>1, <1>3, <1>4, <1>5, <1>6, OneCommand
\* A command that does not move stays sound if its share keeps its key and, before
\* init_add, is with nobody, and if a new host has a key nobody has seen.
LEMMA OtherSound ==
  ASSUME TenantAssumption, PeersTyped, NEW u \in Tenants, cmd'[u] = cmd[u], cmd[u] # None,
         Sound(cmd[u]), Issued \subseteq Issued', starts' \in Nat, starts' >= starts,
         given'[cmd[u].share] = given[cmd[u].share],
         (host'.key = host.key /\ host'.tpm = host.tpm) \/ host'.key = starts + 1,
         cmd[u].todo[1] = "init_add" =>
           host'.u # cmd[u].share /\ (row' # None => row'.v # cmd[u].share)
  PROVE  Sound(cmd[u])'
<1> PICK c : c = cmd[u]
  OBVIOUS
<1>1. c \in CommandRecords'
  BY DEF Sound, CommandRecords, PeersTyped, TenantAssumption
<1>2. c.pubkey = host'.key => host'.tpm = c.ak /\ host'.tpm \in Genuine
  BY DEF Sound, CommandRecords, PeersTyped, TenantAssumption
<1>3. QED
  BY <1>1, <1>2 DEF Sound

\* Steps of t that leave the shares and the host alone.
LEMMA QuietSound ==
  ASSUME TenantAssumption, PeersTyped, CommandsSound, NEW t \in Tenants,
         \A u \in Tenants \ {t} : cmd'[u] = cmd[u],
         UNCHANGED <<host, given, starts>>, row' # None => row # None /\ row'.v = row.v
  PROVE  /\ \A u \in Tenants \ {t} : cmd'[u] # None => Sound(cmd[u])'
         /\ \A c : Sound(c) => Sound(c)'
<1>1. ASSUME NEW u \in Tenants \ {t}, cmd'[u] # None
      PROVE  Sound(cmd[u])'
  BY <1>1, OtherSound DEF CommandsSound, Sound, PeersTyped, Issued
<1>2. \A c : Sound(c) => Sound(c)'
  BY DEF Sound, CommandRecords, Issued
<1>3. QED
  BY <1>1, <1>2

\* What t's own functions do to cmd concerns t alone.
LEMMA OwnCommand ==
  ASSUME NEW t \in Tenants, CommandsSound,
         \/ \E how \in {"ok", "raised"} : Ends(t, how)
         \/ \E c : Goes(t, c)
         \/ Retries(t, Ends(t, "raised"))
  PROVE  \A u \in Tenants \ {t} : cmd'[u] = cmd[u]
  BY DEF CommandsSound, Ends, Goes, Retries
-----------------------------------------------------------------------------
(* The actions *)

LEMMA BeginSound ==
  ASSUME TenantAssumption, Inductive, NEW t \in Tenants, Begin(t)
  PROVE  Inductive'
<1>1. PICK name \in Commands, check, payload, verify \in BOOLEAN :
        cmd' = [cmd EXCEPT ![t] =
          [name |-> name, todo |-> Script(name, check, payload, verify), payload |-> payload,
           verify |-> verify, share |-> Len(given) + 1, ak |-> None, pubkey |-> None,
           numtries |-> 0]]
  BY DEF Begin
<1>2. PICK todo : todo = Script(name, check, payload, verify)
  OBVIOUS
<1>3. PICK c : c = [name |-> name, todo |-> todo, payload |-> payload, verify |-> verify,
                    share |-> Len(given) + 1, ak |-> None, pubkey |-> None, numtries |-> 0]
  OBVIOUS
<1>4. cmd'[t] = c /\ \A u \in Tenants \ {t} : cmd'[u] = cmd[u]
  BY <1>1, <1>2, <1>3 DEF Inductive, CommandsSound
<1>5. /\ given' \in Seq(TPMs \cup {None}) /\ Len(given') = Len(given) + 1
      /\ Len(given') <= MaxCommands /\ Len(given) \in Nat
      /\ given'[Len(given) + 1] = None
      /\ \A i \in Issued : given'[i] = given[i]
  BY DEF Begin, Inductive, PeersTyped, TenantAssumption, Issued
<1>6. Issued \subseteq Issued' /\ Len(given) + 1 \in Issued' /\ Len(given) + 1 \notin Issued
  BY <1>5 DEF Issued
<1>7. UNCHANGED <<reg, host, row, starts>>
  BY DEF Begin
<1>8. PeersTyped'
  BY <1>5, <1>6, <1>7 DEF Inductive, PeersTyped
<1>9. SharesSound'
  BY <1>5, <1>7 DEF Inductive, PeersTyped, SharesSound
<1>10. Sane(todo, None)
  BY <1>2, ScriptSane DEF TenantAssumption
<1>11. c \in CommandRecords'
  BY <1>3, <1>6, <1>10 DEF CommandRecords, TenantAssumption, Sane
<1>12. host.u # Len(given) + 1 /\ (row # None => row.v # Len(given) + 1)
  BY <1>5, <1>6 DEF Inductive, PeersTyped, TenantAssumption
<1>13. Sound(c)'
  BY <1>3, <1>5, <1>7, <1>10, <1>11, <1>12 DEF Sound, Inductive, PeersTyped, TenantAssumption
<1>14. \A u \in Tenants \ {t} : cmd'[u] # None => Sound(cmd[u])'
  <2>1. TAKE u \in Tenants \ {t}
  <2>2. HAVE cmd'[u] # None
  <2>3. Sound(cmd[u]) /\ cmd[u].share \in Issued
    BY <1>4, <2>2 DEF Inductive, CommandsSound, Sound, CommandRecords
  <2>4. starts' \in Nat /\ starts' >= starts
    BY <1>7 DEF Inductive, PeersTyped, TenantAssumption
  <2>5. QED
    BY <1>4, <1>5, <1>6, <1>7, <2>2, <2>3, <2>4, OtherSound DEF Inductive, Sound
<1>15. CommandsSound'
  <2>1. (cmd = [u \in Tenants |-> cmd[u]])'
    BY <1>1 DEF Inductive, CommandsSound
  <2>2. \A u \in Tenants : cmd'[u] # None => Sound(cmd[u])'
    BY <1>4, <1>13, <1>14
  <2>3. \A u \in Tenants : cmd[u] # None => cmd[u].share \in Issued
    BY DEF Inductive, CommandsSound, Sound, CommandRecords
  <2>4. \A u, v \in Tenants : u # v /\ cmd'[u] # None /\ cmd'[v] # None
                               => cmd'[u].share # cmd'[v].share
    BY <1>3, <1>4, <1>6, <2>3 DEF Inductive, CommandsSound
  <2>5. QED
    BY <2>1, <2>2, <2>4 DEF CommandsSound
<1>16. QED
  BY <1>8, <1>9, <1>15 DEF Inductive
\* Functions that only send a request that changes nothing, or fail, or try again.
LEMMA UnchangedSound ==
  ASSUME Inductive, UNCHANGED <<reg, host, row, given, starts>>
  PROVE  PeersTyped' /\ SharesSound'
  BY DEF Inductive, PeersTyped, SharesSound, Issued

\* The command goes on as it is, also if it leaves out the next function or two.
LEMMA GoesOnSound ==
  ASSUME TenantAssumption, PeersTyped, CommandsSound, NEW t \in Tenants, cmd[t] # None,
         UNCHANGED <<host, given, starts>>, row' # None => row # None /\ row'.v = row.v,
         cmd[t].todo[1] # "init_add",
         \/ Goes(t, cmd[t])
         \/ /\ cmd[t].todo[1] \in {"do_quote", "do_cvdelete", "verifier_check"}
            /\ Goes(t, [cmd[t] EXCEPT !.todo = Tail(@)])
         \/ /\ cmd[t].todo[1] = "verifier_check"
            /\ Goes(t, [cmd[t] EXCEPT !.todo = Tail(Tail(@))])
  PROVE  CommandsSound'
<1>1. Sound(cmd[t])
  BY DEF CommandsSound
<1>2. \A u \in Tenants \ {t} : cmd'[u] = cmd[u]
  BY OwnCommand
<1>3. /\ \A u \in Tenants \ {t} : cmd'[u] # None => Sound(cmd[u])'
      /\ \A c : Sound(c) => Sound(c)'
  BY <1>2, QuietSound
<1>4. ASSUME NEW todo, Sane(todo, cmd[t].ak), todo[1] # "init_add",
             Goes(t, [cmd[t] EXCEPT !.todo = todo])
      PROVE  CommandsSound'
  <2>1. PICK c : c = [cmd[t] EXCEPT !.todo = todo]
    OBVIOUS
  <2>2. /\ c \in CommandRecords /\ c.todo = todo /\ c.ak = cmd[t].ak
        /\ c.share = cmd[t].share /\ c.pubkey = cmd[t].pubkey
    BY <1>1, <1>4, <2>1 DEF Sound, CommandRecords, Sane
  <2>3. Sound(c)
    BY <1>1, <1>4, <2>2 DEF Sound
  <2>4. QED
    BY <1>3, <1>4, <2>1, <2>2, <2>3, GoesSound
<1>5. Sane(cmd[t].todo, cmd[t].ak)
  BY <1>1 DEF Sound
<1>6. CASE Goes(t, cmd[t])
  BY <1>1, <1>3, <1>6, GoesSound
<1>7. CASE /\ cmd[t].todo[1] \in {"do_quote", "do_cvdelete", "verifier_check"}
           /\ Goes(t, [cmd[t] EXCEPT !.todo = Tail(@)])
  <2>1. Tail(cmd[t].todo) # <<>>
    BY <1>5, <1>7 DEF Sane
  <2>2. Sane(Tail(cmd[t].todo), cmd[t].ak) /\ Tail(cmd[t].todo)[1] # "init_add"
    BY <1>5, <2>1, TailSane
  <2>3. QED
    BY <1>4, <1>7, <2>2
<1>8. CASE /\ cmd[t].todo[1] = "verifier_check"
           /\ Goes(t, [cmd[t] EXCEPT !.todo = Tail(Tail(@))])
  <2>1. Tail(cmd[t].todo) # <<>> /\ Tail(Tail(cmd[t].todo)) # <<>>
    BY <1>5, <1>8 DEF Sane
  <2>2. Sane(Tail(cmd[t].todo), cmd[t].ak) /\ Tail(cmd[t].todo)[1] # "init_add"
    BY <1>5, <2>1, TailSane
  <2>3. /\ Sane(Tail(Tail(cmd[t].todo)), cmd[t].ak)
        /\ Tail(Tail(cmd[t].todo))[1] # "init_add"
    BY <2>1, <2>2, TailSane
  <2>4. QED
    BY <1>4, <1>8, <2>3
<1>9. QED
  BY <1>6, <1>7, <1>8

\* A command that ends or tries again.
LEMMA GivesUpSound ==
  ASSUME TenantAssumption, PeersTyped, CommandsSound, NEW t \in Tenants, cmd[t] # None,
         UNCHANGED <<host, given, starts>>, row' # None => row # None /\ row'.v = row.v,
         Ends(t, "raised") \/ Retries(t, Ends(t, "raised"))
  PROVE  CommandsSound'
<1>1. \A u \in Tenants \ {t} : cmd'[u] # None => Sound(cmd[u])'
  BY OwnCommand, QuietSound
<1>2. CASE Ends(t, "raised")
  BY <1>1, <1>2, EndsSound
<1>3. CASE cmd[t].numtries + 1 < Maxr /\ Retries(t, FALSE)
  BY <1>3, RetriesSound
<1>4. cmd[t].numtries \in Nat
  BY DEF CommandsSound, Sound, CommandRecords
<1>5. QED
  BY <1>2, <1>3, <1>4 DEF Retries, TenantAssumption
\* The functions that only ask, and those that leave out what is not needed.
LEMMA AskingSound ==
  ASSUME TenantAssumption, Inductive, NEW t \in Tenants,
         \/ Added(t) \/ Deleted(t) \/ VerifierCheck(t) \/ DoCvstatus(t) \/ DoRegstatus(t)
         \/ DoRegdelete(t) \/ DoRequest(t)
         \/ \E step \in {"added", "verifier_check", "deleted", "do_cvreactivate", "do_cvstatus",
                         "do_regstatus", "do_regdelete", "request"} : Raises(t, step)
  PROVE  Inductive'
<1>1. cmd[t] # None /\ UNCHANGED <<host, row, given, starts>> /\ reg' \in {reg, None}
  BY DEF Added, Deleted, VerifierCheck, DoCvstatus, DoRegstatus, DoRegdelete, DoRequest,
         Raises, At
<1>2. PeersTyped' /\ SharesSound'
  BY <1>1 DEF Inductive, PeersTyped, SharesSound, Issued
<1>3. cmd[t].todo[1] # "init_add" \/ Ends(t, "raised")
  BY DEF Added, Deleted, VerifierCheck, DoCvstatus, DoRegstatus, DoRegdelete, DoRequest,
         Raises, At
<1>4. CASE Ends(t, "raised") \/ Retries(t, Ends(t, "raised"))
  BY <1>1, <1>2, <1>4, GivesUpSound DEF Inductive
<1>5. CASE cmd[t].todo[1] # "init_add" /\ Goes(t, cmd[t])
  BY <1>1, <1>2, <1>5, GoesOnSound DEF Inductive
<1>6. CASE /\ cmd[t].todo[1] = "verifier_check"
           /\ Goes(t, [cmd[t] EXCEPT !.todo = Tail(Tail(@))])
  BY <1>1, <1>2, <1>6, GoesOnSound DEF Inductive
<1>7. QED
  BY <1>3, <1>4, <1>5, <1>6 DEF Added, Deleted, VerifierCheck, DoCvstatus, DoRegstatus,
     DoRegdelete, DoRequest, Raises, At

\* How do_verify ends.
LEMMA DoVerifyEnds ==
  ASSUME NEW t, DoVerify(t)
  PROVE  Ends(t, "raised") \/ Goes(t, cmd[t])
         \/ (~(cmd[t].numtries + 1 >= Maxr) /\ Retries(t, FALSE))
<1>1. cmd[t].numtries + 1 >= Maxr => Ends(t, "raised") \/ Goes(t, cmd[t])
  BY DEF DoVerify
<1>2. ~(cmd[t].numtries + 1 >= Maxr) => Ends(t, "raised") \/ Goes(t, cmd[t]) \/ Retries(t, FALSE)
  BY DEF DoVerify
<1>3. QED
  BY <1>1, <1>2

\* The functions that take the row away or change its state.
LEMMA RowSound ==
  ASSUME TenantAssumption, Inductive, NEW t \in Tenants,
         DoVerify(t) \/ DoCvdelete(t) \/ DoCvreactivate(t)
  PROVE  Inductive'
<1>1. cmd[t] # None /\ UNCHANGED <<reg, host, given, starts>> /\ cmd[t].todo[1] # "init_add"
  <2>1. ASSUME NEW step, At(t, step), step # "init_add"
        PROVE  cmd[t] # None /\ cmd[t].todo[1] # "init_add"
    BY <2>1 DEF At
  <2>2. /\ At(t, "do_verify") \/ At(t, "do_cvdelete") \/ At(t, "do_cvreactivate")
        /\ UNCHANGED <<reg, host, given, starts>>
    BY DEF DoVerify, DoCvdelete, DoCvreactivate
  <2>3. QED
    BY <2>1, <2>2
<1>2. \/ row' \in {None, row}
      \/ /\ row # None
         /\ \E state \in {"polled", "terminated", "stopped"} : row' = [row EXCEPT !.state = state]
  <2>1. CASE DoVerify(t)
    BY <2>1 DEF DoVerify, Stopped
  <2>2. CASE DoCvdelete(t)
    BY <2>2 DEF DoCvdelete
  <2>3. CASE DoCvreactivate(t)
    BY <2>3 DEF DoCvreactivate, Inductive, PeersTyped
  <2>4. QED
    BY <2>1, <2>2, <2>3
<1>3. /\ row' # None => row # None /\ row'.v = row.v /\ row'.ak = row.ak
      /\ row' \in [ak : TPMs, v : Issued \cup {None}, state : {"polled", "failed", "terminated", "stopped"}]
                 \cup {None}
  BY <1>2 DEF Inductive, PeersTyped
<1>4. PeersTyped' /\ SharesSound'
  BY <1>1, <1>3 DEF Inductive, PeersTyped, SharesSound, Issued
<1>5. CASE Ends(t, "raised") \/ Retries(t, Ends(t, "raised"))
  BY <1>1, <1>3, <1>4, <1>5, GivesUpSound DEF Inductive
<1>6. CASE Goes(t, cmd[t])
  BY <1>1, <1>3, <1>4, <1>6, GoesOnSound DEF Inductive
<1>7. CASE /\ cmd[t].todo[1] = "do_cvdelete"
           /\ Goes(t, [cmd[t] EXCEPT !.todo = Tail(@)])
  BY <1>1, <1>3, <1>4, <1>7, GoesOnSound DEF Inductive
<1>8. CASE cmd[t].numtries + 1 < Maxr /\ Retries(t, FALSE)
  BY <1>1, <1>3, <1>4, <1>8, RetriesSound DEF Inductive
<1>9. cmd[t].numtries \in Nat /\ Maxr \in Nat
  BY <1>1 DEF Inductive, CommandsSound, Sound, CommandRecords, TenantAssumption
<1>10. CASE DoVerify(t)
  <2>1. Ends(t, "raised") \/ Goes(t, cmd[t])
        \/ (~(cmd[t].numtries + 1 >= Maxr) /\ Retries(t, FALSE))
    BY <1>10, DoVerifyEnds
  <2>2. ~(cmd[t].numtries + 1 >= Maxr) => cmd[t].numtries + 1 < Maxr
    BY <1>9
  <2>3. QED
    BY <1>5, <1>6, <1>8, <2>1, <2>2
<1>11. CASE DoCvdelete(t)
  BY <1>4, <1>5, <1>6, <1>7, <1>11 DEF DoCvdelete, At, Inductive
<1>12. CASE DoCvreactivate(t)
  BY <1>4, <1>6, <1>12 DEF DoCvreactivate, Inductive
<1>13. QED
  BY <1>10, <1>11, <1>12

\* init_add notes the attestation key for the share, which nobody has yet.
LEMMA InitAddSound ==
  ASSUME TenantAssumption, Inductive, NEW t \in Tenants, InitAdd(t)
  PROVE  Inductive'
<1>1. cmd[t] # None /\ cmd[t].todo[1] = "init_add" /\ UNCHANGED <<reg, host, row, starts>>
  BY DEF InitAdd, At
<1>2. Sound(cmd[t]) /\ cmd[t].share \in Issued
  BY <1>1 DEF Inductive, CommandsSound, Sound, CommandRecords
<1>3. CASE Ends(t, "raised") /\ UNCHANGED given
  <2>1. PeersTyped' /\ SharesSound'
    BY <1>1, <1>3, UnchangedSound
  <2>2. QED
    BY <1>1, <1>3, <2>1, GivesUpSound DEF Inductive
<1>4. CASE /\ reg # None
           /\ Goes(t, [cmd[t] EXCEPT !.ak = reg])
           /\ given' = [given EXCEPT ![cmd[t].share] = reg]
  <2>1. /\ given' \in Seq(TPMs \cup {None}) /\ Len(given') = Len(given)
        /\ given'[cmd[t].share] = reg
        /\ \A i \in Issued \ {cmd[t].share} : given'[i] = given[i]
    BY <1>2, <1>4 DEF Inductive, PeersTyped, Issued
  <2>2. Issued' = Issued
    BY <2>1 DEF Issued
  <2>3. PeersTyped'
    BY <1>1, <2>1, <2>2 DEF Inductive, PeersTyped
  <2>4. host.u # cmd[t].share /\ (row # None => row.v # cmd[t].share) /\ cmd[t].pubkey = None
    BY <1>1, <1>2 DEF Sound
  <2>5. SharesSound'
    BY <1>1, <2>1, <2>4 DEF Inductive, PeersTyped, SharesSound
  <2>6. PICK c : c = [cmd[t] EXCEPT !.ak = reg]
    OBVIOUS
  <2>7. /\ c \in CommandRecords /\ c.ak = reg /\ c.todo = cmd[t].todo
        /\ c.share = cmd[t].share /\ c.pubkey = None
    BY <1>2, <2>4, <2>6 DEF Sound, CommandRecords, Inductive, PeersTyped
  <2>8. Sane(c.todo, c.ak)
    BY <1>2, <1>4, <2>7 DEF Sound, Sane
  <2>9. c \in CommandRecords'
    BY <1>1, <2>2, <2>7 DEF CommandRecords
  <2>10. host.key # None
    BY DEF Inductive, PeersTyped, TenantAssumption
  <2>11. Sound(c)'
    BY <1>1, <2>1, <2>4, <2>7, <2>8, <2>9, <2>10 DEF Sound
  <2>12. ASSUME NEW u \in Tenants \ {t}, cmd'[u] # None
         PROVE  Sound(cmd[u])'
    <3>1. cmd'[u] = cmd[u]
      BY <1>4, OwnCommand DEF Inductive
    <3>2. Sound(cmd[u]) /\ cmd[u].share \in Issued \ {cmd[t].share}
      BY <1>1, <2>12, <3>1 DEF Inductive, CommandsSound, Sound, CommandRecords
    <3>3. starts' \in Nat /\ starts' >= starts
      BY <1>1 DEF Inductive, PeersTyped, TenantAssumption
    <3>4. QED
      BY <1>1, <2>1, <2>2, <2>12, <3>1, <3>2, <3>3, OtherSound DEF Inductive, Sound
  <2>13. QED
    BY <1>1, <1>4, <2>3, <2>5, <2>6, <2>7, <2>11, <2>12, GoesSound DEF Inductive
<1>5. QED
  BY <1>3, <1>4 DEF InitAdd
\* do_quote learns a public key the accepted TPM has quoted.
LEMMA DoQuoteSound ==
  ASSUME TenantAssumption, Inductive, NEW t \in Tenants, DoQuote(t)
  PROVE  Inductive'
<1>1. cmd[t] # None /\ cmd[t].todo[1] = "do_quote" /\ UNCHANGED <<reg, host, row, given, starts>>
  BY DEF DoQuote, At
<1>2. PeersTyped' /\ SharesSound'
  BY <1>1, UnchangedSound
<1>3. CASE Ends(t, "raised") \/ Retries(t, Ends(t, "raised"))
  BY <1>1, <1>2, <1>3, GivesUpSound DEF Inductive
<1>4. CASE /\ ValidateTpmQuote(t)
           /\ \E todo \in {cmd[t].todo, Tail(cmd[t].todo)} :
                Goes(t, [cmd[t] EXCEPT !.pubkey = host.key, !.todo = todo])
  <2>1. PICK todo \in {cmd[t].todo, Tail(cmd[t].todo)} :
          Goes(t, [cmd[t] EXCEPT !.pubkey = host.key, !.todo = todo])
    BY <1>4
  <2>2. PICK c : c = [cmd[t] EXCEPT !.pubkey = host.key, !.todo = todo]
    OBVIOUS
  <2>3. Sound(cmd[t])
    BY <1>1 DEF Inductive, CommandsSound
  <2>4. Sane(todo, cmd[t].ak) /\ todo[1] # "init_add"
    <3>1. Sane(cmd[t].todo, cmd[t].ak)
      BY <2>3 DEF Sound
    <3>2. Tail(cmd[t].todo) # <<>>
      BY <1>1, <3>1 DEF Sane
    <3>3. QED
      BY <1>1, <2>1, <3>1, <3>2, TailSane
  <2>5. /\ c \in CommandRecords /\ c.todo = todo /\ c.ak = cmd[t].ak
        /\ c.share = cmd[t].share /\ c.pubkey = host.key
    <3>1. host.key \in 0..starts
      BY DEF Inductive, PeersTyped, TenantAssumption
    <3>2. cmd[t] \in CommandRecords /\ todo \in Seq(Steps)
      BY <2>3, <2>4 DEF Sound, Sane
    <3>3. QED
      BY <2>2, <3>1, <3>2 DEF CommandRecords
  <2>6. Sound(c)
    BY <1>4, <2>3, <2>4, <2>5 DEF Sound, ValidateTpmQuote
  <2>7. \A u \in Tenants \ {t} : cmd'[u] = cmd[u]
    BY <2>1, OwnCommand DEF Inductive
  <2>8. /\ \A u \in Tenants \ {t} : cmd'[u] # None => Sound(cmd[u])'
        /\ Sound(c)'
    BY <1>1, <2>6, <2>7, QuietSound DEF Inductive
  <2>9. QED
    BY <1>1, <1>2, <2>1, <2>2, <2>4, <2>5, <2>8, GoesSound DEF Inductive
<1>5. ASSUME ValidateTpmQuote(t),
             LET c == [cmd[t] EXCEPT !.pubkey = host.key]
             IN  Goes(t, IF c.payload THEN c ELSE [c EXCEPT !.todo = Tail(@)])
      PROVE  \E todo \in {cmd[t].todo, Tail(cmd[t].todo)} :
               Goes(t, [cmd[t] EXCEPT !.pubkey = host.key, !.todo = todo])
  <2>1. cmd[t] \in CommandRecords
    BY <1>1 DEF Inductive, CommandsSound, Sound
  <2>2. CASE cmd[t].payload
    <3>1. [cmd[t] EXCEPT !.pubkey = host.key]
            = [cmd[t] EXCEPT !.pubkey = host.key, !.todo = cmd[t].todo]
      BY <2>1 DEF CommandRecords
    <3>2. [cmd[t] EXCEPT !.pubkey = host.key].payload
      BY <2>1, <2>2 DEF CommandRecords
    <3>3. QED
      BY <1>5, <3>1, <3>2
  <2>3. CASE ~cmd[t].payload
    <3>1. [[cmd[t] EXCEPT !.pubkey = host.key] EXCEPT !.todo = Tail(@)]
            = [cmd[t] EXCEPT !.pubkey = host.key, !.todo = Tail(cmd[t].todo)]
      BY <2>1 DEF CommandRecords
    <3>2. ~[cmd[t] EXCEPT !.pubkey = host.key].payload
      BY <2>1, <2>3 DEF CommandRecords
    <3>3. QED
      BY <1>5, <3>1, <3>2
  <2>4. QED
    BY <2>2, <2>3
<1>6. QED
  BY <1>3, <1>4, <1>5 DEF DoQuote

\* U opens only for the key pair that was quoted.
LEMMA PostUkeySound ==
  ASSUME TenantAssumption, Inductive, NEW t \in Tenants, PostUkey(t)
  PROVE  Inductive'
<1>1. cmd[t] # None /\ cmd[t].todo[1] = "post_ukey" /\ UNCHANGED <<reg, row, given, starts>>
  BY DEF PostUkey, At
<1>2. Sound(cmd[t]) /\ cmd[t].share \in Issued
  BY <1>1 DEF Inductive, CommandsSound, Sound, CommandRecords
<1>3. \/ UNCHANGED host
      \/ /\ host.key = cmd[t].pubkey
         /\ host' = [host EXCEPT !.u = cmd[t].share]
  BY DEF PostUkey
<1>4. /\ host' \in [tpm : TPMs, key : {starts}, u : Issued \cup {None}, v : Issued \cup {None}]
      /\ host'.key = host.key /\ host'.tpm = host.tpm
      /\ host'.u = host.u \/ (host.key = cmd[t].pubkey /\ host'.u = cmd[t].share)
  <2>1. host \in [tpm : TPMs, key : {starts}, u : Issued \cup {None}, v : Issued \cup {None}]
    BY DEF Inductive, PeersTyped
  <2>2. CASE UNCHANGED host
    BY <2>1, <2>2
  <2>3. CASE host.key = cmd[t].pubkey /\ host' = [host EXCEPT !.u = cmd[t].share]
    BY <1>2, <2>1, <2>3
  <2>4. QED
    BY <1>3, <2>2, <2>3
<1>5. PeersTyped'
  BY <1>1, <1>4 DEF Inductive, PeersTyped, Issued
<1>6. SharesSound'
  BY <1>1, <1>2, <1>4 DEF Inductive, SharesSound, Sound
<1>7. Goes(t, cmd[t]) \/ Ends(t, "raised")
  BY DEF PostUkey
<1>8. ASSUME NEW u \in Tenants \ {t}, cmd'[u] # None
      PROVE  Sound(cmd[u])'
  <2>1. cmd'[u] = cmd[u]
    BY <1>7, OwnCommand DEF Inductive
  <2>2. Sound(cmd[u]) /\ cmd[u].share # cmd[t].share
    BY <1>1, <1>8, <2>1 DEF Inductive, CommandsSound
  <2>3. starts' \in Nat /\ starts' >= starts
    BY <1>1 DEF Inductive, PeersTyped, TenantAssumption
  <2>4. QED
    BY <1>1, <1>4, <1>8, <2>1, <2>2, <2>3, OtherSound DEF Inductive, Sound, Issued
<1>9. Sound(cmd[t]) /\ cmd[t].todo[1] # "init_add" => \A c : c = cmd[t] => Sound(c)'
  BY <1>1, <1>4 DEF Sound, CommandRecords, Issued
<1>10. CASE Ends(t, "raised")
  BY <1>1, <1>5, <1>6, <1>8, <1>10, EndsSound DEF Inductive
<1>11. CASE Goes(t, cmd[t])
  BY <1>1, <1>2, <1>5, <1>6, <1>8, <1>9, <1>11, GoesSound DEF Inductive
<1>12. QED
  BY <1>7, <1>10, <1>11
\* do_cvadd writes the key that is noted for the share it sends.
LEMMA DoCvaddSound ==
  ASSUME TenantAssumption, Inductive, NEW t \in Tenants, DoCvadd(t)
  PROVE  Inductive'
<1>1. cmd[t] # None /\ cmd[t].todo[1] = "do_cvadd" /\ UNCHANGED <<reg, host, given, starts>>
  BY DEF DoCvadd, At
<1>2. Sound(cmd[t]) /\ cmd[t].share \in Issued /\ cmd[t].ak \in TPMs
  BY <1>1 DEF Inductive, CommandsSound, Sound, CommandRecords, Sane
<1>3. CASE UNCHANGED row /\ Ends(t, "raised")
  <2>1. PeersTyped' /\ SharesSound'
    BY <1>1, <1>3, UnchangedSound
  <2>2. QED
    BY <1>1, <1>3, <2>1, GivesUpSound DEF Inductive
<1>4. CASE /\ row' = [ak |-> cmd[t].ak, v |-> IF cmd[t].payload THEN cmd[t].share ELSE None,
                      state |-> "polled"]
           /\ Goes(t, cmd[t]) \/ Ends(t, "raised")
  <2>1. /\ row' \in [ak : TPMs, v : Issued \cup {None}, state : {"polled", "failed", "terminated", "stopped"}]
        /\ row'.ak = cmd[t].ak /\ row'.v \in {cmd[t].share, None}
    BY <1>2, <1>4
  <2>2. PeersTyped'
    BY <1>1, <2>1 DEF Inductive, PeersTyped, Issued
  <2>3. SharesSound'
    BY <1>1, <1>2, <2>1 DEF Inductive, SharesSound, Sound
  <2>4. ASSUME NEW u \in Tenants \ {t}, cmd'[u] # None
        PROVE  Sound(cmd[u])'
    <3>1. cmd'[u] = cmd[u]
      BY <1>4, OwnCommand DEF Inductive
    <3>2. Sound(cmd[u]) /\ cmd[u].share # cmd[t].share /\ cmd[u].share # None
      BY <1>1, <2>4, <3>1
         DEF Inductive, CommandsSound, Sound, CommandRecords, Issued, TenantAssumption
    <3>3. starts' \in Nat /\ starts' >= starts
      BY <1>1 DEF Inductive, PeersTyped, TenantAssumption
    <3>4. QED
      BY <1>1, <2>1, <2>4, <3>1, <3>2, <3>3, OtherSound DEF Inductive, Sound, Issued
  <2>5. \A c : c = cmd[t] => Sound(c)'
    BY <1>1, <1>2 DEF Sound, CommandRecords, Issued
  <2>6. CASE Ends(t, "raised")
    BY <1>1, <2>2, <2>3, <2>4, <2>6, EndsSound DEF Inductive
  <2>7. CASE Goes(t, cmd[t])
    BY <1>1, <2>2, <2>3, <2>4, <2>5, <2>7, GoesSound DEF Inductive
  <2>8. QED
    BY <1>4, <2>6, <2>7
<1>5. QED
  BY <1>3, <1>4 DEF DoCvadd

\* The peers: V is given to the agent of the row, and a new host has a key pair
\* nobody has seen and no share.
LEMMA PeersSound ==
  ASSUME TenantAssumption, Inductive, Peers
  PROVE  Inductive'
<1>1. UNCHANGED <<given, cmd>>
  BY DEF Peers, ProvideV, PollerFails, PollerRemoves, HostStarts, Registers
<1>2. /\ PeersTyped' /\ SharesSound'
      /\ starts' \in Nat /\ starts' >= starts
      /\ (host'.key = host.key /\ host'.tpm = host.tpm) \/ host'.key = starts + 1
      /\ host'.u \in {host.u, None}
      /\ row' # None => row # None /\ row'.ak = row.ak /\ row'.v = row.v
  <2>1. CASE ProvideV
    BY <1>1, <2>1 DEF ProvideV, Inductive, PeersTyped, SharesSound, Issued, TenantAssumption
  <2>2. CASE PollerFails
    <3>1. row' = [row EXCEPT !.state = "failed"] /\ row # None /\ UNCHANGED <<reg, host, given, starts>>
      BY <2>2 DEF PollerFails
    <3>2. /\ row' \in [ak : TPMs, v : Issued \cup {None}, state : {"polled", "failed", "terminated", "stopped"}]
          /\ row'.ak = row.ak /\ row'.v = row.v
      BY <3>1 DEF Inductive, PeersTyped
    <3>3. PeersTyped' /\ SharesSound'
      BY <3>1, <3>2 DEF Inductive, PeersTyped, SharesSound, Issued
    <3>4. QED
      BY <3>1, <3>2, <3>3 DEF Inductive, PeersTyped, TenantAssumption
  <2>3. CASE PollerRemoves
    BY <1>1, <2>3 DEF PollerRemoves, Inductive, PeersTyped, SharesSound, Issued, TenantAssumption
  <2>4. CASE HostStarts
    BY <1>1, <2>4 DEF HostStarts, Inductive, PeersTyped, SharesSound, Issued, TenantAssumption
  <2>5. CASE Registers
    BY <1>1, <2>5 DEF Registers, Inductive, PeersTyped, SharesSound, Issued, TenantAssumption
  <2>6. QED
    BY <2>1, <2>2, <2>3, <2>4, <2>5 DEF Peers
<1>3. \A u \in Tenants : cmd'[u] # None => Sound(cmd[u])'
  <2>1. SUFFICES ASSUME NEW u \in Tenants, cmd[u] # None
                 PROVE  Sound(cmd[u])'
    BY <1>1
  <2>2. Sound(cmd[u]) /\ cmd[u].share # None
    BY <2>1 DEF Inductive, CommandsSound, Sound, CommandRecords, Issued, TenantAssumption
  <2>3. QED
    BY <1>1, <1>2, <2>1, <2>2, OtherSound DEF Inductive, Sound, Issued
<1>4. CommandsSound'
  BY <1>1, <1>3 DEF Inductive, CommandsSound
<1>5. QED
  BY <1>2, <1>4 DEF Inductive

\* A function tells how its command ended, if it did.
Tells(t) ==
  UNCHANGED done \/ \E how \in {"ok", "raised"} : done' = [done EXCEPT ![t] = how]

LEMMA StepsTell ==
  ASSUME NEW t \in Tenants, TenantStep(t)
  PROVE  Tells(t)
<1>1. \A c : Goes(t, c) => Tells(t)
  BY DEF Goes, Ends, Tells
<1>2. Ends(t, "raised") => Tells(t)
  BY DEF Ends, Tells
<1>3. Retries(t, Ends(t, "raised")) => Tells(t)
  BY <1>2 DEF Retries, Tells
<1>4. DoVerify(t) => Tells(t)
  BY <1>1, <1>2, DoVerifyEnds DEF Retries, Tells
<1>5. InitAdd(t) \/ DoQuote(t) \/ PostUkey(t) \/ DoCvadd(t) \/ Added(t) => Tells(t)
  BY <1>1, <1>2, <1>3 DEF InitAdd, DoQuote, PostUkey, DoCvadd, Added
<1>6. VerifierCheck(t) \/ DoCvdelete(t) \/ Deleted(t) => Tells(t)
  BY <1>1, <1>2, <1>3 DEF VerifierCheck, DoCvdelete, Deleted
<1>7. DoCvreactivate(t) \/ DoCvstatus(t) \/ DoRegstatus(t) \/ DoRegdelete(t) \/ DoRequest(t)
        => Tells(t)
  BY <1>1 DEF DoCvreactivate, DoCvstatus, DoRegstatus, DoRegdelete, DoRequest
<1>8. \A step : Raises(t, step) => Tells(t)
  BY <1>2 DEF Raises
<1>9. QED
  BY <1>4, <1>5, <1>6, <1>7, <1>8 DEF TenantStep

\* What is kept of a command is one.
LEMMA AreCommands ==
  ASSUME TenantAssumption, PeersTyped, NEW c \in CommandRecords
  PROVE  c \in CommandType /\ c # None
<1>1. Issued \subseteq Shares /\ 0..starts \subseteq 0..MaxChanges
  BY DEF PeersTyped, Issued, Shares, TenantAssumption
<1>2. c \in CommandType
  BY <1>1 DEF CommandRecords, CommandType
<1>3. QED
  BY <1>2 DEF TenantAssumption
-----------------------------------------------------------------------------
(* The theorems *)

\* What commands, rows and hosts hold is sound in every reachable state: the
\* strengthening that makes KeyReachesAttestedTPM inductive (keylime_tenant's
\* sequence of requests while the agent's host restarts and registers anew).
THEOREM SharesAreSound ==
  TenantAssumption => (Spec => []Inductive)
<1> SUFFICES ASSUME TenantAssumption
             PROVE  Spec => []Inductive
  OBVIOUS
<1>1. Init => Inductive
  <2>1. ASSUME Init PROVE PeersTyped /\ SharesSound
    BY <2>1 DEF Init, PeersTyped, SharesSound, Issued, TenantAssumption
  <2>2. ASSUME Init PROVE CommandsSound
    BY <2>2 DEF Init, CommandsSound
  <2>3. QED
    BY <2>1, <2>2 DEF Inductive
<1>2. Inductive /\ [Next]_vars => Inductive'
  <2> SUFFICES ASSUME Inductive, [Next]_vars
               PROVE  Inductive'
    OBVIOUS
  <2>1. ASSUME NEW t \in Tenants, Begin(t) PROVE Inductive'
    BY <2>1, BeginSound
  <2>2. ASSUME NEW t \in Tenants, TenantStep(t) PROVE Inductive'
    BY <2>2, InitAddSound, DoQuoteSound, PostUkeySound, DoCvaddSound, RowSound, AskingSound
       DEF TenantStep
  <2>3. CASE Peers
    BY <2>3, PeersSound
  <2>4. CASE UNCHANGED vars
    BY <2>4 DEF vars, Inductive, PeersTyped, CommandsSound, SharesSound, Sound, CommandRecords,
                Issued
  <2>5. QED
    BY <2>1, <2>2, <2>3, <2>4 DEF Next
<1>3. QED
  BY <1>1, <1>2, PTL DEF Spec

\* Types are right, and no command tries more often than max_retries allows.
THEOREM TenantTypeCorrect ==
  TenantAssumption => (Spec => []TypeOK)
<1> SUFFICES ASSUME TenantAssumption
             PROVE  Spec => []TypeOK
  OBVIOUS
<1> DEFINE Ended == done \in [Tenants -> {None, "ok", "raised"}]
<1>1. Inductive /\ Ended => TypeOK
  <2> SUFFICES ASSUME Inductive, Ended
               PROVE  TypeOK
    OBVIOUS
  <2>1. Issued \subseteq Shares
    BY DEF Inductive, PeersTyped, Issued, Shares, TenantAssumption
  <2>2. \A t \in Tenants : cmd[t] # None => cmd[t].todo # <<>> /\ cmd[t] \in CommandType
    BY AreCommands DEF Inductive, CommandsSound, Sound, Sane
  <2> HIDE DEF Ended
  <2>3. host \in [tpm : TPMs, key : 0..MaxChanges, u : Shares \cup {None}, v : Shares \cup {None}]
    BY <2>1 DEF Inductive, PeersTyped, TenantAssumption
  <2>4. QED
    BY <2>1, <2>2, <2>3 DEF Inductive, PeersTyped, CommandsSound, TypeOK, RowType, Ended
<1>2. Init => Ended
  BY DEF Init
<1>3. Ended /\ [Next]_vars => Ended'
  <2> SUFFICES ASSUME Ended, [Next]_vars
               PROVE  Ended'
    OBVIOUS
  <2>1. UNCHANGED done \/ \E t \in Tenants : Tells(t)
    BY StepsTell DEF Next, Begin, Peers, ProvideV, PollerFails, PollerRemoves, HostStarts, Registers, vars
  <2>2. QED
    BY <2>1 DEF Tells
<1>4. QED
  BY <1>1, <1>2, <1>3, SharesAreSound, PTL DEF Spec

\* A share of K that the tenant sends is opened only by a TPM whose attestation
\* key the registrar gave to that command and whose EK was accepted, and the
\* verifier gives the other share to no other (do_quote, do_cvadd, provide V).
THEOREM KeyIsForTheAttested ==
  TenantAssumption => (Spec => []KeyReachesAttestedTPM)
<1> SUFFICES ASSUME TenantAssumption
             PROVE  Spec => []KeyReachesAttestedTPM
  OBVIOUS
<1>1. Inductive => KeyReachesAttestedTPM
  BY DEF Inductive, SharesSound, KeyReachesAttestedTPM
<1>2. QED
  BY <1>1, SharesAreSound, PTL
-----------------------------------------------------------------------------
(* What a command that ends well has done, with one command line *)

Adding(c) == c.name \in {"add", "update"}

\* The order of a script: what may be left out is there, and the agent is looked
\* for right after it was added.
Lined(todo) ==
  \A i \in 1..Len(todo) :
    /\ todo[i] = "do_quote" => i + 1 <= Len(todo) /\ todo[i + 1] = "post_ukey"
    /\ todo[i] = "do_cvdelete" => i + 1 <= Len(todo) /\ todo[i + 1] = "deleted"
    /\ todo[i] = "verifier_check" => i + 1 <= Len(todo) /\ todo[i + 1] = "do_cvdelete"
    /\ todo[i] \in {"added", "do_verify"} /\ i # 1 => todo[i - 1] \in {"do_cvadd", "added"}

\* A script for its command: an add ends with a look at the row.
Suits(name, todo) ==
  /\ Lined(todo)
  /\ name \in {"add", "update"} => todo[Len(todo)] \in {"added", "do_verify"}

\* The verifier has what the command sent, and nobody removes it.
Stored(c) ==
  /\ row # None /\ row.ak = c.ak /\ row.state \in {"polled", "failed"}
  /\ c.payload => row.v = c.share

Working(c) ==
  /\ Suits(c.name, c.todo)
  /\ Adding(c) /\ c.todo[1] \in {"added", "do_verify"} => Stored(c)

OneTenant == \A t, u \in Tenants : t = u

Work ==
  /\ done = [t \in Tenants |-> done[t]]
  /\ \A t \in Tenants : cmd[t] # None => Working(cmd[t])

\* The rest of a script suits the command, and adds have still to look at the row.
LEMMA TailSuits ==
  ASSUME NEW name, NEW todo \in Seq(Steps), todo # <<>>, Suits(name, todo), Tail(todo) # <<>>
  PROVE  /\ Tail(todo) \in Seq(Steps)
         /\ Suits(name, Tail(todo))
         /\ todo[1] \notin {"do_cvadd", "added"} => Tail(todo)[1] \notin {"added", "do_verify"}
         /\ Tail(todo)[1] = todo[2]
<1>1. /\ Tail(todo) \in Seq(Steps)
      /\ Len(Tail(todo)) = Len(todo) - 1
      /\ Len(todo) \in Nat /\ Len(Tail(todo)) \in Nat \ {0}
      /\ \A i \in 1..Len(Tail(todo)) : Tail(todo)[i] = todo[i + 1]
  <2>1. Len(todo) \in Nat /\ Tail(todo) \in Seq(Steps) /\ Len(Tail(todo)) = Len(todo) - 1
    OBVIOUS
  <2>2. Len(Tail(todo)) \in Nat \ {0}
    BY <2>1
  <2>3. \A i \in 1..Len(Tail(todo)) : Tail(todo)[i] = todo[i + 1]
    BY <2>1
  <2>4. QED
    BY <2>1, <2>2, <2>3
<1>2. Tail(todo)[1] = todo[2] /\ Tail(todo)[Len(Tail(todo))] = todo[Len(todo)]
  BY <1>1
<1>3. Lined(Tail(todo))
  BY <1>1 DEF Lined, Suits
<1>4. todo[1] \notin {"do_cvadd", "added"} => Tail(todo)[1] \notin {"added", "do_verify"}
  BY <1>1, <1>2 DEF Lined, Suits
<1>5. QED
  BY <1>1, <1>2, <1>3, <1>4 DEF Suits

\* One script after another.
LEMMA ConcatLined ==
  ASSUME NEW s \in Seq(Steps), NEW t \in Seq(Steps), s # <<>>, t # <<>>, Lined(s), Lined(t),
         t[1] \notin {"added", "do_verify"}
  PROVE  Lined(s \o t) /\ (s \o t)[Len(s \o t)] = t[Len(t)] /\ (s \o t)[1] = s[1]
<1>1. /\ s \o t \in Seq(Steps) /\ Len(s \o t) = Len(s) + Len(t)
      /\ Len(s) \in Nat \ {0} /\ Len(t) \in Nat \ {0}
      /\ \A i \in 1..Len(s) : (s \o t)[i] = s[i]
      /\ \A i \in 1..Len(t) : (s \o t)[Len(s) + i] = t[i]
  OBVIOUS
<1>2. \A i \in 1..Len(s \o t) : i \in 1..Len(s) \/ (i - Len(s) \in 1..Len(t))
  BY <1>1
<1>3. ASSUME NEW i \in 1..Len(s)
      PROVE  /\ (s \o t)[i] = s[i]
             /\ i + 1 <= Len(s) => (s \o t)[i + 1] = s[i + 1]
             /\ i # 1 => (s \o t)[i - 1] = s[i - 1]
  BY <1>1
<1>4. ASSUME NEW j \in 1..Len(t)
      PROVE  /\ (s \o t)[Len(s) + j] = t[j]
             /\ j + 1 <= Len(t) => (s \o t)[Len(s) + j + 1] = t[j + 1]
             /\ j # 1 => (s \o t)[Len(s) + j - 1] = t[j - 1]
  BY <1>1
<1>5. Lined(s \o t)
  <2> SUFFICES ASSUME NEW i \in 1..Len(s \o t)
               PROVE  /\ (s \o t)[i] = "do_quote" =>
                           i + 1 <= Len(s \o t) /\ (s \o t)[i + 1] = "post_ukey"
                      /\ (s \o t)[i] = "do_cvdelete" =>
                           i + 1 <= Len(s \o t) /\ (s \o t)[i + 1] = "deleted"
                      /\ (s \o t)[i] = "verifier_check" =>
                           i + 1 <= Len(s \o t) /\ (s \o t)[i + 1] = "do_cvdelete"
                      /\ (s \o t)[i] \in {"added", "do_verify"} /\ i # 1 =>
                           (s \o t)[i - 1] \in {"do_cvadd", "added"}
    BY DEF Lined
  <2>1. CASE i \in 1..Len(s)
    BY <1>1, <1>3, <2>1 DEF Lined
  <2>2. CASE i - Len(s) \in 1..Len(t)
    <3>1. PICK j \in 1..Len(t) : i = Len(s) + j
      <4>1. i = Len(s) + (i - Len(s))
        BY <1>1
      <4>2. QED
        BY <2>2, <4>1
    <3>2. j # 1 \/ t[j] \notin {"added", "do_verify"}
      OBVIOUS
    <3>3. QED
      BY <1>1, <1>4, <3>1, <3>2 DEF Lined
  <2>3. QED
    BY <1>2, <2>1, <2>2
<1>6. QED
  BY <1>1, <1>5

\* Every script suits its command.
LEMMA ScriptSuits ==
  ASSUME NEW name, NEW check \in BOOLEAN, NEW payload \in BOOLEAN, NEW verify \in BOOLEAN
  PROVE  /\ Suits(name, Script(name, check, payload, verify))
         /\ name \in {"add", "update"} =>
              Script(name, check, payload, verify)[1] \notin {"added", "do_verify"}
<1> DEFINE Checked == IF check THEN <<"verifier_check">> \o Delete ELSE Delete
           Whole   == IF verify THEN Add \o <<"do_verify">> ELSE Add
<1>1. /\ Whole \in Seq(Steps) /\ Lined(Whole) /\ Whole # <<>> /\ Whole[1] = "init_add"
      /\ Whole[Len(Whole)] \in {"added", "do_verify"}
  <2>1. Add \in Seq(Steps) /\ <<"do_verify">> \in Seq(Steps) /\ Add \o <<"do_verify">> \in Seq(Steps)
    BY DEF Add, Steps
  <2>2. Lined(Add) /\ Add # <<>> /\ Add[1] = "init_add" /\ Add[Len(Add)] = "added"
    BY DEF Add, Lined
  <2>3. PICK w : w = <<"init_add", "do_quote", "post_ukey", "do_cvadd", "added", "do_verify">>
    OBVIOUS
  <2>4. w = Add \o <<"do_verify">>
    BY <2>3 DEF Add
  <2>5. Lined(w) /\ w # <<>> /\ w[1] = "init_add" /\ w[Len(w)] = "do_verify"
    BY <2>3 DEF Lined
  <2>6. QED
    BY <2>1, <2>2, <2>4, <2>5
<1>4. /\ Tail(Whole) \in Seq(Steps) /\ Lined(Tail(Whole)) /\ Tail(Whole) # <<>>
      /\ Tail(Whole)[1] \notin {"added", "do_verify"}
      /\ Tail(Whole)[Len(Tail(Whole))] \in {"added", "do_verify"}
  <2>1. Tail(Whole) # <<>>
    BY DEF Add
  <2>2. Suits("add", Whole)
    BY <1>1 DEF Suits
  <2>3. QED
    BY <1>1, <2>1, <2>2, TailSuits DEF Suits
<1>5. /\ Checked \in Seq(Steps) /\ Lined(Checked) /\ Checked # <<>>
      /\ Checked[1] \notin {"added", "do_verify"}
  <2>1. /\ Delete \in Seq(Steps) /\ <<"verifier_check">> \in Seq(Steps)
        /\ <<"verifier_check">> \o Delete \in Seq(Steps)
    BY DEF Delete, Steps
  <2>2. Lined(Delete) /\ Delete # <<>> /\ Delete[1] = "do_cvdelete"
    BY DEF Delete, Lined
  <2>3. PICK w : w = <<"verifier_check", "do_cvdelete", "deleted">>
    OBVIOUS
  <2>4. w = <<"verifier_check">> \o Delete
    BY <2>3 DEF Delete
  <2>5. Lined(w) /\ w # <<>> /\ w[1] = "verifier_check"
    BY <2>3 DEF Lined
  <2>6. QED
    BY <2>1, <2>2, <2>4, <2>5
<1>6. CASE name = "update"
  <2>1. <<"init_add">> \in Seq(Steps) /\ <<"init_add">> # <<>> /\ Lined(<<"init_add">>)
    BY DEF Steps, Lined
  <2>2. PICK first : first = <<"init_add">> \o Checked
    OBVIOUS
  <2>3. first \in Seq(Steps) /\ first # <<>> /\ Lined(first) /\ first[1] = "init_add"
    <3>1. PICK rest : rest = Checked
      OBVIOUS
    <3>2. first = <<"init_add">> \o rest
      BY <2>2, <3>1
    <3>3. /\ rest \in Seq(Steps) /\ Lined(rest) /\ rest # <<>>
          /\ rest[1] \notin {"added", "do_verify"}
      BY <1>5, <3>1
    <3>4. Lined(first) /\ first[1] = "init_add"
      BY <2>1, <3>2, <3>3, ConcatLined
    <3>5. first \in Seq(Steps) /\ first # <<>>
      BY <2>1, <3>2, <3>3
    <3>6. QED
      BY <3>4, <3>5
  <2>4. /\ Lined(first \o Tail(Whole)) /\ (first \o Tail(Whole))[1] = "init_add"
        /\ (first \o Tail(Whole))[Len(first \o Tail(Whole))] \in {"added", "do_verify"}
    BY <1>4, <2>3, ConcatLined
  <2>5. Script(name, check, payload, verify) = first \o Tail(Whole)
    BY <1>6, <2>2 DEF Script
  <2>6. QED
    BY <1>6, <2>4, <2>5 DEF Suits
<1>7. CASE name = "add"
  <2>1. Script(name, check, payload, verify) = Whole
    BY <1>7 DEF Script
  <2>2. QED
    BY <1>1, <1>7, <2>1 DEF Suits
<1>8. CASE name = "delete"
  <2>1. Script(name, check, payload, verify) = Checked
    BY <1>8 DEF Script
  <2>2. QED
    BY <1>5, <1>8, <2>1 DEF Suits
<1>9. CASE name \notin {"update", "add", "delete"}
  <2>1. Script(name, check, payload, verify) \in
          {<<"do_cvstatus", "do_cvreactivate">>, <<"do_cvreactivate">>,
           <<"do_regstatus", "do_cvstatus">>, <<"do_cvstatus">>, <<"do_regdelete">>, <<"request">>}
    BY <1>9 DEF Script
  <2>2. \A todo \in {<<"do_cvstatus", "do_cvreactivate">>, <<"do_cvreactivate">>,
           <<"do_regstatus", "do_cvstatus">>, <<"do_cvstatus">>, <<"do_regdelete">>, <<"request">>} :
          Lined(todo)
    BY DEF Lined
  <2>3. QED
    BY <1>9, <2>1, <2>2 DEF Suits
<1>10. QED
  BY <1>6, <1>7, <1>8, <1>9
-----------------------------------------------------------------------------
(* A step of the one command line *)

\* A command that goes on, c, with what it has left to do: an add has stored what it
\* sent when it comes to look at the row.
LEMMA GoesWorking ==
  ASSUME TenantAssumption, CommandsSound, Work, OneTenant, NEW t \in Tenants, cmd[t] # None,
         NEW c \in CommandType, c.todo # <<>>, Suits(c.name, c.todo), Goes(t, c),
         c.name = cmd[t].name, c.payload = cmd[t].payload, c.share = cmd[t].share,
         Adding(c) /\ c.todo[1] \in {"do_cvadd", "added", "do_verify"} =>
           Stored(c)' /\ c.ak = given[c.share]
  PROVE  Work' /\ OkStep(t)
<1>1. c.todo \in Seq(Steps) /\ Len(c.todo) \in Nat \ {0}
  BY DEF CommandType
<1>2. CASE Tail(c.todo) = <<>>
  <2>1. Len(c.todo) = 1
    <3>1. PICK todo \in Seq(Steps) : todo = c.todo
      BY <1>1
    <3>2. todo # <<>> => Len(Tail(todo)) = Len(todo) - 1
      OBVIOUS
    <3>3. Len(Tail(todo)) = 0
      BY <1>2, <3>1
    <3>4. QED
      BY <1>1, <3>1, <3>2, <3>3
  <2>2. Adding(c) => c.todo[1] \in {"added", "do_verify"}
    BY <2>1 DEF Suits, Adding
  <2>3. cmd' = [cmd EXCEPT ![t] = None] /\ done' = [done EXCEPT ![t] = "ok"]
    BY <1>2 DEF Goes, Ends
  <2>4. cmd'[t] = None /\ done' = [u \in Tenants |-> done'[u]]
    BY <2>3 DEF CommandsSound, Work
  <2>5. \A u \in Tenants : cmd'[u] = None
    BY <2>4 DEF OneTenant
  <2>6. Work'
    BY <2>4, <2>5 DEF Work
  <2>7. Adding(c) => row' # None /\ row'.ak = given[cmd[t].share]
                     /\ (cmd[t].payload => row'.v = cmd[t].share)
    BY <2>2 DEF Stored
  <2>8. QED
    BY <1>2, <2>6, <2>7 DEF OkStep, Adding
<1>3. CASE Tail(c.todo) # <<>>
  <2>1. /\ Tail(c.todo) \in Seq(Steps)
        /\ Suits(c.name, Tail(c.todo))
        /\ c.todo[1] \notin {"do_cvadd", "added"} => Tail(c.todo)[1] \notin {"added", "do_verify"}
    BY <1>1, <1>3, TailSuits
  <2>2. PICK d : d = [c EXCEPT !.todo = Tail(@), !.numtries = 0]
    OBVIOUS
  <2>3. /\ d.name = c.name /\ d.todo = Tail(c.todo) /\ d.ak = c.ak /\ d.payload = c.payload
        /\ d.share = c.share /\ d \in CommandType
    <3>1. PICK rest \in Seq(Steps) : rest = Tail(c.todo)
      BY <2>1
    <3>2. d = [c EXCEPT !.todo = rest, !.numtries = 0] /\ 0 \in 0..(Maxr - 1)
      BY <2>2, <3>1 DEF TenantAssumption
    <3>3. QED
      BY <3>1, <3>2 DEF CommandType
  <2>4. Stored(c)' => Stored(d)'
    BY <2>3 DEF Stored
  <2>5. Working(d)'
    BY <2>1, <2>3, <2>4 DEF Working, Adding
  <2>6. cmd' = [cmd EXCEPT ![t] = d] /\ done' = done
    BY <1>3, <2>2 DEF Goes
  <2>7. cmd'[t] = d /\ done' = [u \in Tenants |-> done'[u]]
    BY <2>6 DEF CommandsSound, Work
  <2>8. \A u \in Tenants : cmd'[u] # None => Working(cmd[u])'
    BY <2>5, <2>7 DEF OneTenant
  <2>9. d # None
    BY <2>3 DEF TenantAssumption
  <2>10. QED
    BY <2>7, <2>8, <2>9 DEF Work, OkStep
<1>4. QED
  BY <1>2, <1>3

\* A command that is given up.
LEMMA EndsWorking ==
  ASSUME CommandsSound, Work, OneTenant, NEW t \in Tenants, Ends(t, "raised")
  PROVE  Work' /\ OkStep(t)
<1>1. cmd'[t] = None /\ done'[t] = "raised" /\ done' = [u \in Tenants |-> done'[u]]
  BY DEF CommandsSound, Work, Ends
<1>2. \A u \in Tenants : cmd'[u] = None
  BY <1>1 DEF OneTenant
<1>3. QED
  BY <1>1, <1>2 DEF Work, OkStep

\* A function that is tried again.
LEMMA TriesWorking ==
  ASSUME TenantAssumption, PeersTyped, CommandsSound, Work, OneTenant, NEW t \in Tenants,
         cmd[t] # None, UNCHANGED row, Retries(t, Ends(t, "raised")) \/ Retries(t, FALSE)
  PROVE  Work' /\ OkStep(t)
<1>1. CASE Ends(t, "raised")
  BY <1>1, EndsWorking
<1>2. CASE cmd[t].numtries + 1 < Maxr
           /\ cmd' = [cmd EXCEPT ![t].numtries = @ + 1] /\ UNCHANGED done
  <2>1. PICK d : d = [cmd[t] EXCEPT !.numtries = @ + 1]
    OBVIOUS
  <2>2. cmd'[t] = d
    BY <1>2, <2>1 DEF CommandsSound
  <2>3. /\ d \in CommandRecords
        /\ d.name = cmd[t].name /\ d.todo = cmd[t].todo /\ d.ak = cmd[t].ak
        /\ d.payload = cmd[t].payload /\ d.share = cmd[t].share
    BY <1>2, <2>1 DEF CommandsSound, Sound, CommandRecords, TenantAssumption
  <2>4. Working(d)'
    BY <2>3 DEF Work, Working, Adding, Stored
  <2>5. d # None
    BY <2>3, AreCommands
  <2>6. \A u \in Tenants : cmd'[u] # None => Working(cmd[u])'
    BY <2>2, <2>4 DEF OneTenant
  <2>7. QED
    BY <1>2, <2>2, <2>5, <2>6 DEF Work, OkStep
<1>3. cmd[t].numtries \in Nat /\ Maxr \in Nat
  BY DEF CommandsSound, Sound, CommandRecords, TenantAssumption
<1>4. QED
  BY <1>1, <1>2, <1>3 DEF Retries

\* The function that is called next, as the command is.
LEMMA GoesOnWorking ==
  ASSUME TenantAssumption, Inductive, Work, OneTenant, NEW t \in Tenants, cmd[t] # None,
         Goes(t, cmd[t]), cmd[t].todo[1] # "do_cvadd",
         row' = row \/ cmd[t].todo[1] \notin {"added", "do_verify"}
  PROVE  Work' /\ OkStep(t)
<1>1. PICK c : c = cmd[t]
  OBVIOUS
<1>2. /\ c \in CommandType /\ c.todo # <<>> /\ c.todo \in Seq(Steps) /\ c.ak = given[c.share]
      /\ Working(c)
  <2>1. Sound(c) /\ Working(c)
    BY <1>1 DEF Inductive, CommandsSound, Work
  <2>2. c \in CommandType
    BY <2>1, AreCommands DEF Inductive, Sound
  <2>3. QED
    BY <2>1, <2>2 DEF Sound, Sane
<1>3. Adding(c) /\ c.todo[1] \in {"do_cvadd", "added", "do_verify"} => Stored(c)'
  BY <1>1, <1>2 DEF Working, Stored
<1>4. Suits(c.name, c.todo)
  BY <1>2 DEF Working
<1>5. QED
  BY <1>1, <1>2, <1>3, <1>4, GoesWorking DEF Inductive

\* The function after the next, where one is left out.
LEMMA LeftOut ==
  ASSUME NEW name, NEW todo \in Seq(Steps), todo # <<>>, Suits(name, todo),
         todo[1] \in {"do_quote", "do_cvdelete", "verifier_check"}
  PROVE  /\ Tail(todo) # <<>> /\ Tail(todo) \in Seq(Steps) /\ Suits(name, Tail(todo))
         /\ todo[1] = "do_quote" => Tail(todo)[1] = "post_ukey"
         /\ todo[1] = "do_cvdelete" => Tail(todo)[1] = "deleted"
         /\ todo[1] = "verifier_check" => Tail(todo)[1] = "do_cvdelete"
<1>1. Len(todo) \in Nat \ {0}
  OBVIOUS
<1>2. 1 + 1 <= Len(todo)
  BY <1>1 DEF Suits, Lined
<1>3. Len(Tail(todo)) = Len(todo) - 1
  OBVIOUS
<1>4. Tail(todo) # <<>>
  BY <1>1, <1>2, <1>3
<1>5. Tail(todo) \in Seq(Steps) /\ Suits(name, Tail(todo)) /\ Tail(todo)[1] = todo[2]
  BY <1>4, TailSuits
<1>6. QED
  BY <1>1, <1>4, <1>5 DEF Suits, Lined

\* What a command learns, or leaves out, before anything is stored.
LEMMA LearnsWorking ==
  ASSUME TenantAssumption, Inductive, Work, OneTenant, NEW t \in Tenants, cmd[t] # None,
         NEW todo \in Seq(Steps), todo # <<>>, Suits(cmd[t].name, todo),
         todo[1] \notin {"do_cvadd", "added", "do_verify"},
         NEW ak \in TPMs \cup {None}, NEW pubkey \in (0..MaxChanges) \cup {None},
         NEW c, c = [cmd[t] EXCEPT !.todo = todo, !.ak = ak, !.pubkey = pubkey], Goes(t, c)
  PROVE  Work' /\ OkStep(t)
<1>1. cmd[t] \in CommandType
  BY AreCommands DEF Inductive, CommandsSound, Sound
<1>2. /\ c \in CommandType /\ c.todo = todo
      /\ c.name = cmd[t].name /\ c.payload = cmd[t].payload /\ c.share = cmd[t].share
  BY <1>1 DEF CommandType
<1>3. QED
  BY <1>2, GoesWorking DEF Inductive

\* What is known of a command under way.
LEMMA UnderWay ==
  ASSUME TenantAssumption, Inductive, Work, NEW t \in Tenants, cmd[t] # None
  PROVE  /\ cmd[t] \in CommandType /\ cmd[t].todo \in Seq(Steps) /\ cmd[t].todo # <<>>
         /\ cmd[t].ak \in TPMs \cup {None} /\ cmd[t].pubkey \in (0..MaxChanges) \cup {None}
         /\ Working(cmd[t]) /\ Suits(cmd[t].name, cmd[t].todo)
<1>1. cmd[t] \in CommandType /\ cmd[t].todo # <<>> /\ Working(cmd[t])
  BY AreCommands DEF Inductive, CommandsSound, Sound, Sane, Work
<1>2. cmd[t].todo \in Seq(Steps)
  BY <1>1 DEF CommandType
<1>3. /\ cmd[t].ak \in TPMs \cup {None} /\ cmd[t].pubkey \in (0..MaxChanges) \cup {None}
  BY <1>1 DEF CommandType
<1>4. QED
  BY <1>1, <1>2, <1>3 DEF Working

LEMMA InitAddWorking ==
  ASSUME TenantAssumption, Inductive, Work, OneTenant, NEW t \in Tenants, InitAdd(t)
  PROVE  Work' /\ OkStep(t)
<1>1. cmd[t] # None /\ cmd[t].todo[1] = "init_add"
  BY DEF InitAdd, At
<1>2. CASE Ends(t, "raised")
  BY <1>2, EndsWorking DEF Inductive
<1>3. CASE Goes(t, [cmd[t] EXCEPT !.ak = reg])
  <2>1. /\ cmd[t] \in CommandType /\ cmd[t].todo \in Seq(Steps) /\ cmd[t].todo # <<>>
        /\ cmd[t].pubkey \in (0..MaxChanges) \cup {None} /\ Suits(cmd[t].name, cmd[t].todo)
        /\ reg \in TPMs \cup {None}
    BY <1>1, UnderWay DEF Inductive, PeersTyped
  <2>2. [cmd[t] EXCEPT !.ak = reg]
          = [cmd[t] EXCEPT !.todo = cmd[t].todo, !.ak = reg, !.pubkey = cmd[t].pubkey]
    BY <2>1 DEF CommandType
  <2>3. Goes(t, [cmd[t] EXCEPT !.todo = cmd[t].todo, !.ak = reg, !.pubkey = cmd[t].pubkey])
    BY <1>3, <2>2
  <2>4. QED
    BY <1>1, <2>1, <2>3, LearnsWorking
<1>4. QED
  BY <1>2, <1>3 DEF InitAdd

LEMMA DoQuoteWorking ==
  ASSUME TenantAssumption, Inductive, Work, OneTenant, NEW t \in Tenants, DoQuote(t)
  PROVE  Work' /\ OkStep(t)
<1>1. cmd[t] # None /\ cmd[t].todo[1] = "do_quote" /\ UNCHANGED row
  BY DEF DoQuote, At
<1>2. CASE Retries(t, Ends(t, "raised"))
  BY <1>1, <1>2, TriesWorking DEF Inductive
<1>3. CASE Ends(t, "raised")
  BY <1>3, EndsWorking DEF Inductive
<1>4. /\ cmd[t] \in CommandType /\ cmd[t].todo \in Seq(Steps) /\ cmd[t].todo # <<>>
      /\ cmd[t].ak \in TPMs \cup {None} /\ Suits(cmd[t].name, cmd[t].todo)
      /\ host.key \in (0..MaxChanges) \cup {None}
  BY <1>1, UnderWay DEF Inductive, PeersTyped, TenantAssumption
<1>5. ASSUME Goes(t, LET c == [cmd[t] EXCEPT !.pubkey = host.key]
                     IN  IF c.payload THEN c ELSE [c EXCEPT !.todo = Tail(@)])
      PROVE  Work' /\ OkStep(t)
  <2>1. CASE cmd[t].payload
    <3>1. /\ [cmd[t] EXCEPT !.pubkey = host.key]
               = [cmd[t] EXCEPT !.todo = cmd[t].todo, !.ak = cmd[t].ak, !.pubkey = host.key]
          /\ [cmd[t] EXCEPT !.pubkey = host.key].payload
      BY <1>4, <2>1 DEF CommandType
    <3>2. Goes(t, [cmd[t] EXCEPT !.todo = cmd[t].todo, !.ak = cmd[t].ak, !.pubkey = host.key])
      BY <1>5, <3>1
    <3>3. QED
      BY <1>1, <1>4, <3>2, LearnsWorking
  <2>2. CASE ~cmd[t].payload
    <3>1. /\ [[cmd[t] EXCEPT !.pubkey = host.key] EXCEPT !.todo = Tail(@)]
               = [cmd[t] EXCEPT !.todo = Tail(cmd[t].todo), !.ak = cmd[t].ak, !.pubkey = host.key]
          /\ ~[cmd[t] EXCEPT !.pubkey = host.key].payload
      BY <1>4, <2>2 DEF CommandType
    <3>2. Goes(t, [cmd[t] EXCEPT !.todo = Tail(cmd[t].todo), !.ak = cmd[t].ak, !.pubkey = host.key])
      BY <1>5, <3>1
    <3>3. /\ Tail(cmd[t].todo) # <<>> /\ Tail(cmd[t].todo) \in Seq(Steps)
          /\ Suits(cmd[t].name, Tail(cmd[t].todo)) /\ Tail(cmd[t].todo)[1] = "post_ukey"
      BY <1>1, <1>4, LeftOut
    <3>4. QED
      BY <1>1, <1>4, <3>2, <3>3, LearnsWorking
  <2>3. QED
    BY <2>1, <2>2
<1>6. QED
  BY <1>2, <1>3, <1>5 DEF DoQuote

LEMMA DoCvaddWorking ==
  ASSUME TenantAssumption, Inductive, Work, OneTenant, NEW t \in Tenants, DoCvadd(t)
  PROVE  Work' /\ OkStep(t)
<1>1. cmd[t] # None /\ cmd[t].todo[1] = "do_cvadd"
  BY DEF DoCvadd, At
<1>2. CASE Ends(t, "raised")
  BY <1>2, EndsWorking DEF Inductive
<1>3. CASE /\ row' = [ak |-> cmd[t].ak, v |-> IF cmd[t].payload THEN cmd[t].share ELSE None,
                      state |-> "polled"]
           /\ Goes(t, cmd[t])
  <2>1. PICK c : c = cmd[t]
    OBVIOUS
  <2>2. /\ c \in CommandType /\ c.todo # <<>> /\ Suits(c.name, c.todo)
    BY <1>1, <2>1, UnderWay
  <2>3. c.ak = given[c.share] /\ c.ak \in TPMs
    BY <1>1, <2>1 DEF Inductive, CommandsSound, Sound, CommandRecords, Sane
  <2>4. row' # None
    <3>1. c.share \in Shares
      BY <2>2 DEF CommandType
    <3>2. row' \in RowType
      BY <1>3, <2>1, <2>3, <3>1 DEF RowType
    <3>3. QED
      BY <3>2 DEF TenantAssumption
  <2>5. Stored(c)'
    BY <1>3, <2>1, <2>4 DEF Stored
  <2>6. QED
    BY <1>1, <1>3, <2>1, <2>2, <2>3, <2>5, GoesWorking DEF Inductive
<1>4. QED
  BY <1>2, <1>3 DEF DoCvadd

\* The functions that leave out what is not needed.
LEMMA DeletingWorking ==
  ASSUME TenantAssumption, Inductive, Work, OneTenant, NEW t \in Tenants,
         VerifierCheck(t) \/ DoCvdelete(t)
  PROVE  Work' /\ OkStep(t)
<1>1. cmd[t] # None /\ cmd[t].todo[1] \in {"verifier_check", "do_cvdelete"}
  BY DEF VerifierCheck, DoCvdelete, At
<1>2. /\ cmd[t] \in CommandType /\ cmd[t].todo \in Seq(Steps) /\ cmd[t].todo # <<>>
      /\ cmd[t].ak \in TPMs \cup {None} /\ cmd[t].pubkey \in (0..MaxChanges) \cup {None}
      /\ Suits(cmd[t].name, cmd[t].todo)
  BY <1>1, UnderWay
<1>3. /\ Tail(cmd[t].todo) # <<>> /\ Tail(cmd[t].todo) \in Seq(Steps)
      /\ Suits(cmd[t].name, Tail(cmd[t].todo))
      /\ cmd[t].todo[1] = "do_cvdelete" => Tail(cmd[t].todo)[1] = "deleted"
      /\ cmd[t].todo[1] = "verifier_check" => Tail(cmd[t].todo)[1] = "do_cvdelete"
  BY <1>1, <1>2, LeftOut
<1>4. ASSUME NEW todo \in Seq(Steps), todo # <<>>, Suits(cmd[t].name, todo),
             todo[1] = "deleted", Goes(t, [cmd[t] EXCEPT !.todo = todo])
      PROVE  Work' /\ OkStep(t)
  <2>1. [cmd[t] EXCEPT !.todo = todo]
          = [cmd[t] EXCEPT !.todo = todo, !.ak = cmd[t].ak, !.pubkey = cmd[t].pubkey]
    BY <1>2 DEF CommandType
  <2>2. Goes(t, [cmd[t] EXCEPT !.todo = todo, !.ak = cmd[t].ak, !.pubkey = cmd[t].pubkey])
    BY <1>4, <2>1
  <2>3. QED
    BY <1>1, <1>2, <1>4, <2>2, LearnsWorking
<1>5. CASE Goes(t, cmd[t])
  BY <1>1, <1>5, GoesOnWorking
<1>6. CASE Ends(t, "raised")
  BY <1>6, EndsWorking DEF Inductive
<1>7. CASE /\ cmd[t].todo[1] = "do_cvdelete"
           /\ Goes(t, [cmd[t] EXCEPT !.todo = Tail(@)])
  BY <1>3, <1>4, <1>7
<1>8. CASE /\ cmd[t].todo[1] = "verifier_check"
           /\ Goes(t, [cmd[t] EXCEPT !.todo = Tail(Tail(@))])
  <2>1. /\ Tail(Tail(cmd[t].todo)) # <<>> /\ Tail(Tail(cmd[t].todo)) \in Seq(Steps)
        /\ Suits(cmd[t].name, Tail(Tail(cmd[t].todo)))
        /\ Tail(Tail(cmd[t].todo))[1] = "deleted"
    BY <1>3, <1>8, LeftOut
  <2>2. QED
    BY <1>4, <1>8, <2>1
<1>9. CASE VerifierCheck(t)
  BY <1>5, <1>8, <1>9 DEF VerifierCheck, At
<1>10. CASE DoCvdelete(t)
  BY <1>5, <1>6, <1>7, <1>10 DEF DoCvdelete, At
<1>11. QED
  BY <1>9, <1>10

\* Functions that ask, post or end.
LEMMA OthersWorking ==
  ASSUME TenantAssumption, Inductive, Work, OneTenant, NEW t \in Tenants,
         \/ PostUkey(t) \/ Added(t) \/ DoVerify(t) \/ Deleted(t)
         \/ DoCvreactivate(t) \/ DoCvstatus(t) \/ DoRegstatus(t) \/ DoRegdelete(t) \/ DoRequest(t)
         \/ \E step : Raises(t, step)
  PROVE  Work' /\ OkStep(t)
<1>1. cmd[t] # None
  BY DEF PostUkey, Added, DoVerify, Deleted, DoCvreactivate, DoCvstatus, DoRegstatus, DoRegdelete,
         DoRequest, Raises, At
<1>2. CASE PostUkey(t) \/ DoCvreactivate(t) \/ DoCvstatus(t) \/ DoRegstatus(t) \/ DoRegdelete(t)
           \/ DoRequest(t)
  <2>1. cmd[t].todo[1] \notin {"do_cvadd", "added", "do_verify"}
    BY <1>2 DEF PostUkey, DoCvreactivate, DoCvstatus, DoRegstatus, DoRegdelete, DoRequest, At
  <2>2. Goes(t, cmd[t]) \/ Ends(t, "raised")
    BY <1>2 DEF PostUkey, DoCvreactivate, DoCvstatus, DoRegstatus, DoRegdelete, DoRequest
  <2>3. CASE Goes(t, cmd[t])
    BY <1>1, <2>1, <2>3, GoesOnWorking
  <2>4. CASE Ends(t, "raised")
    BY <2>4, EndsWorking DEF Inductive
  <2>5. QED
    BY <2>2, <2>3, <2>4
<1>3. CASE Added(t) \/ Deleted(t)
  <2>1. cmd[t].todo[1] \in {"added", "deleted"} /\ UNCHANGED row
    BY <1>3 DEF Added, Deleted, At
  <2>2. Goes(t, cmd[t]) \/ Retries(t, Ends(t, "raised"))
    BY <1>3 DEF Added, Deleted
  <2>3. CASE Retries(t, Ends(t, "raised"))
    BY <1>1, <2>1, <2>3, TriesWorking DEF Inductive
  <2>4. CASE Goes(t, cmd[t])
    BY <1>1, <2>1, <2>4, GoesOnWorking
  <2>5. QED
    BY <2>2, <2>3, <2>4
<1>4. CASE DoVerify(t)
  <2>1. cmd[t].todo[1] = "do_verify"
    BY <1>4 DEF DoVerify, At
  <2>2. \/ Ends(t, "raised")
        \/ Goes(t, cmd[t]) /\ UNCHANGED row
        \/ Retries(t, FALSE) /\ UNCHANGED row
    <3>1. cmd[t].numtries + 1 >= Maxr => Ends(t, "raised") \/ (Goes(t, cmd[t]) /\ UNCHANGED row)
      BY <1>4 DEF DoVerify
    <3>2. ~(cmd[t].numtries + 1 >= Maxr) =>
            \/ Ends(t, "raised")
            \/ Goes(t, cmd[t]) /\ UNCHANGED row
            \/ Retries(t, FALSE) /\ UNCHANGED row
      BY <1>4 DEF DoVerify
    <3>3. QED
      BY <3>1, <3>2
  <2>3. CASE Ends(t, "raised")
    BY <2>3, EndsWorking DEF Inductive
  <2>4. CASE Goes(t, cmd[t]) /\ UNCHANGED row
    BY <1>1, <2>1, <2>4, GoesOnWorking
  <2>5. CASE Retries(t, FALSE) /\ UNCHANGED row
    BY <1>1, <2>5, TriesWorking DEF Inductive
  <2>6. QED
    BY <2>2, <2>3, <2>4, <2>5
<1>5. CASE \E step : Raises(t, step)
  BY <1>5, EndsWorking DEF Inductive, Raises
<1>6. QED
  BY <1>2, <1>3, <1>4, <1>5

\* A new command has its script before it, and the others are none.
LEMMA BeginWorking ==
  ASSUME TenantAssumption, Inductive, Work, OneTenant, NEW t \in Tenants, Begin(t)
  PROVE  Work' /\ OkStep(t)
<1>1. PICK name \in Commands, check, payload, verify \in BOOLEAN :
        cmd' = [cmd EXCEPT ![t] =
          [name |-> name, todo |-> Script(name, check, payload, verify), payload |-> payload,
           verify |-> verify, share |-> Len(given) + 1, ak |-> None, pubkey |-> None,
           numtries |-> 0]]
  BY DEF Begin
<1>2. PICK todo : todo = Script(name, check, payload, verify)
  OBVIOUS
<1>3. PICK c : c = [name |-> name, todo |-> todo, payload |-> payload, verify |-> verify,
                    share |-> Len(given) + 1, ak |-> None, pubkey |-> None, numtries |-> 0]
  OBVIOUS
<1>4. cmd'[t] = c /\ done' = done /\ cmd[t] = None
  BY <1>1, <1>2, <1>3 DEF Inductive, CommandsSound, Begin
<1>5. Suits(name, todo) /\ (name \in {"add", "update"} => todo[1] \notin {"added", "do_verify"})
  BY <1>2, ScriptSuits
<1>6. c.name = name /\ c.todo = todo
  BY <1>3
<1>7. Working(c)'
  BY <1>5, <1>6 DEF Working, Adding
<1>8. \A u \in Tenants : cmd'[u] # None => Working(cmd[u])'
  BY <1>4, <1>7 DEF OneTenant
<1>9. QED
  BY <1>4, <1>8 DEF Work, OkStep

\* The peers leave the key and V of a row that is polled, or failed, as they are.
LEMMA PeersWorking ==
  ASSUME TenantAssumption, Inductive, Work, Peers
  PROVE  Work' /\ \A t \in Tenants : OkStep(t)
<1>1. UNCHANGED <<cmd, done>>
  BY DEF Peers, ProvideV, PollerFails, PollerRemoves, HostStarts, Registers
<1>2. row # None /\ row.state \in {"polled", "failed"} =>
        row' # None /\ row'.ak = row.ak /\ row'.v = row.v /\ row'.state \in {"polled", "failed"}
  <2>1. CASE PollerFails
    <3>1. /\ row \in [ak : TPMs, v : Issued \cup {None}, state : {"polled", "failed", "terminated", "stopped"}]
          /\ row' = [row EXCEPT !.state = "failed"]
      BY <2>1 DEF PollerFails, Inductive, PeersTyped
    <3>2. row' \in RowType
      BY <3>1 DEF RowType, Issued, Shares, Inductive, PeersTyped, TenantAssumption
    <3>3. QED
      BY <3>1, <3>2 DEF TenantAssumption
  <2>2. CASE ~PollerFails
    BY <2>2 DEF Peers, ProvideV, PollerRemoves, HostStarts, Registers
  <2>3. QED
    BY <2>1, <2>2
<1>3. \A c : Working(c) => Working(c)'
  BY <1>2 DEF Working, Stored
<1>4. QED
  BY <1>1, <1>3 DEF Work, OkStep

\* With one tenant an add or update that ended well did what it was for: the verifier
\* has the attestation key the command read and the share it sent, whatever the poller
\* and the agent's host do between its requests, whichever answers are lost, and also
\* when the agent that was there before could not be deleted (do_cvadd, do_cvdelete,
\* do_verify).
THEOREM EndedWellIsDone ==
  TenantAssumption /\ OneTenant => (Spec => OkMeansDone)
<1> SUFFICES ASSUME TenantAssumption, OneTenant
             PROVE  Spec => OkMeansDone
  OBVIOUS
<1>1. Init => Work
  BY DEF Init, Work
<1>2. Inductive /\ Work /\ [Next]_vars => Work' /\ [\A t \in Tenants : OkStep(t)]_vars
  <2> SUFFICES ASSUME Inductive, Work, [Next]_vars
               PROVE  Work' /\ [\A t \in Tenants : OkStep(t)]_vars
    OBVIOUS
  <2>1. ASSUME NEW t \in Tenants, Begin(t) \/ TenantStep(t)
        PROVE  Work' /\ \A u \in Tenants : OkStep(u)
    <3>1. Work' /\ OkStep(t)
      BY <2>1, BeginWorking, InitAddWorking, DoQuoteWorking, DoCvaddWorking, DeletingWorking,
         OthersWorking DEF TenantStep
    <3>2. QED
      BY <3>1 DEF OneTenant
  <2>2. CASE Peers
    BY <2>2, PeersWorking
  <2>3. CASE UNCHANGED vars
    BY <2>3 DEF vars, Work, Working, Stored
  <2>4. QED
    BY <2>1, <2>2, <2>3 DEF Next
<1>3. QED
  BY <1>1, <1>2, SharesAreSound, PTL DEF Spec, OkMeansDone
=============================================================================
