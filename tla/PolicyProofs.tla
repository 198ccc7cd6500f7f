---------------------------- MODULE PolicyProofs ----------------------------
(* Theorems about the policies of the verifier, for any agents, names, policies,
   requests and worker processes, on a database that does not give an id twice.
   A handler learns the id of a policy in one transaction and uses it in a later
   one: whatever was removed and created in between, a row with that id is still
   the one with the name that was asked for. *)
EXTENDS Policies, FiniteSetTheorems, WellFoundedInduction, TLAPS

TextsOf(t) == IF t = "runtime" THEN Texts \cup {DefaultText} ELSE Texts \cup {NoBootPolicy}
Row(t)     == [id : Nat \ {0}, text : TextsOf(t)]
AgentRows  == [runtime : Nat \ {0}, mb : Nat \ {0}, state : {"polled", "ended", "terminated"},
               asked : [Tables -> AllNames]]
PostTasks  == [op : {"post"}, at : {"runtime", "store runtime", "mb", "store mb", "agent"},
               req : PostRequests, ids : [Tables -> (Nat \ {0}) \cup {None}]]

RowsTyped ==
  /\ DOMAIN tables = Tables
  /\ \A t \in Tables : tables[t] \in [AllNames -> Row(t) \cup {None}]
  /\ agents \in [Agents -> AgentRows \cup {None}]

TaskTyped(k) ==
  /\ k.op \in {"idle", "post", "create", "replace", "drop", "mark", "remove", "load"}
  /\ k.op = "post" => k \in PostTasks
  /\ k.op \in {"create", "replace", "drop"} => k \in Changes
  /\ k.op \in {"mark", "remove", "load"} => k.id \in Agents

CacheTyped ==
  /\ DOMAIN cache = Workers /\ DOMAIN captured = Workers
  /\ \A w \in Workers : DOMAIN cache[w] = Agents /\ DOMAIN captured[w] = Agents
  /\ \A w \in Workers, a \in Agents :
       /\ captured[w][a] \in TextsOf("runtime") \cup {"to read", None}
       /\ cache[w][a] # None => cache[w][a].text \in TextsOf("runtime")

Typed ==
  /\ RowsTyped
  /\ task = [w \in Workers |-> task[w]] /\ \A w \in Workers : TaskTyped(task[w])
  /\ CacheTyped

\* An id belongs to one row of a table.
OneRow ==
  \A t \in Tables, m, n \in AllNames :
    Stored(t, m) /\ Stored(t, n) /\ tables[t][m].id = tables[t][n].id => m = n

\* A row with an id that a POST has noted is the one it asks for; a runtime policy
\* is only stored if there is one.
TaskSound(k) ==
  k.op = "post" =>
    /\ \A t \in Tables, m \in AllNames :
         Stored(t, m) /\ tables[t][m].id = k.ids[t] => m = NameOf(k.req, t)
    /\ k.at = "store runtime" => TextFor(k.req, "runtime") # None

\* An agent refers to policies of its own name or of given ones.
AgentSound(a) ==
  agents[a] # None =>
    \A t \in Tables :
      LET n == agents[a].asked[t]
      IN  n \in {a} \cup PolicyNames /\ Stored(t, n) /\ tables[t][n].id = agents[a][t]

Inductive ==
  /\ Typed
  /\ OneRow
  /\ \A w \in Workers : TaskSound(task[w])
  /\ \A a \in Agents : AgentSound(a)
-----------------------------------------------------------------------------
(* Ids *)

LEMMA LeastIsIn ==
  ASSUME NEW S \in SUBSET Nat, S # {}
  PROVE  Min(S) \in S
<1>1. \E x \in S : \A y \in S : ~(<<y, x>> \in OpToRel(<, Nat))
  BY NatLessThanWellFounded, WFMin
<1>2. PICK x \in S : \A y \in S : ~(<<y, x>> \in OpToRel(<, Nat))
  BY <1>1
<1>3. \A y \in S : x <= y
  <2> SUFFICES ASSUME NEW y \in S, ~(x <= y)
               PROVE  FALSE
    OBVIOUS
  <2>1. y < x /\ y \in Nat /\ x \in Nat
    OBVIOUS
  <2>2. <<y, x>> \in OpToRel(<, Nat)
    BY <2>1 DEF OpToRel
  <2>3. QED
    BY <1>2, <2>2
<1>4. QED
  BY <1>3 DEF Min

LEMMA NamesFinite == ASSUME PoliciesAssumption PROVE IsFiniteSet(AllNames)
BY FS_Union DEF PoliciesAssumption, AllNames

\* There are finitely many ids, stored or held.
LEMMA IdsFinite ==
  ASSUME PoliciesAssumption, NEW t \in Tables
  PROVE  IsFiniteSet(Ids(t)) /\ IsFiniteSet(Held(t))
<1>1. IsFiniteSet(Ids(t))
  <2> DEFINE names == {m \in AllNames : Stored(t, m)}
             f     == [m \in names |-> tables[t][m].id]
  <2>1. IsFiniteSet(names)
    BY NamesFinite, FS_Subset
  <2>2. f \in Surjection(names, Ids(t))
    BY DEF Surjection, Ids
  <2>3. QED
    BY <2>1, <2>2, FS_Surjection
<1>2. IsFiniteSet(Held(t))
  <2> DEFINE posting == {v \in Workers : task[v].op = "post"}
             held    == {task[w].ids[t] : w \in posting}
             f       == [w \in posting |-> task[w].ids[t]]
  <2>1. IsFiniteSet(posting)
    BY FS_Subset DEF PoliciesAssumption
  <2>2. f \in Surjection(posting, held)
    BY DEF Surjection
  <2>3. IsFiniteSet(held)
    BY <2>1, <2>2, FS_Surjection
  <2>4. QED
    BY <2>3, FS_Subset DEF Held
<1>3. QED
  BY <1>1, <1>2

\* A new id is nobody's.
LEMMA FreshId ==
  ASSUME PoliciesAssumption, NEW t \in Tables
  PROVE  NewId(t) \in Nat \ {0} /\ NewId(t) \notin Ids(t) /\ NewId(t) \notin Held(t)
<1>1. /\ IsFiniteSet(Ids(t)) /\ Cardinality(Ids(t)) \in Nat
      /\ IsFiniteSet(Held(t)) /\ Cardinality(Held(t)) \in Nat
  BY IdsFinite, FS_CardinalityType
<1> DEFINE n   == 1 + Cardinality(Ids(t)) + Cardinality(Held(t))
           out == Ids(t) \cup Held(t)
<1>2. n \in Nat
  BY <1>1
<1> HIDE DEF n
<1>3. IsFiniteSet(out) /\ Cardinality(out) \in Nat /\ Cardinality(out) < n
  <2>1. IsFiniteSet(Ids(t) \cap Held(t)) /\ Cardinality(Ids(t) \cap Held(t)) \in Nat
    BY <1>1, FS_Subset, FS_CardinalityType
  <2>2. /\ IsFiniteSet(out)
        /\ Cardinality(out) = Cardinality(Ids(t)) + Cardinality(Held(t)) - Cardinality(Ids(t) \cap Held(t))
    BY <1>1, FS_Union
  <2>3. Cardinality(out) \in Nat
    BY <2>2, FS_CardinalityType
  <2>4. QED
    BY <1>1, <2>1, <2>2, <2>3 DEF n
<1> HIDE DEF out
<1>4. IsFiniteSet(1..n) /\ Cardinality(1..n) = n
  BY <1>2, FS_Interval
<1>5. (1..n) \ out # {}
  <2> SUFFICES ASSUME (1..n) \subseteq out
               PROVE  FALSE
    OBVIOUS
  <2>1. Cardinality(1..n) <= Cardinality(out)
    BY <1>3, FS_Subset
  <2>2. QED
    BY <1>2, <1>3, <1>4, <2>1
<1>6. Min((1..n) \ out) \in (1..n) \ out
  <2>1. (1..n) \ out \in SUBSET Nat
    BY <1>2
  <2>2. QED
    BY <1>5, <2>1, LeastIsIn
<1>7. NewId(t) = Min((1..n) \ out)
  BY DEF NewId, n, out, PoliciesAssumption
<1>8. QED
  BY <1>2, <1>6, <1>7 DEF out
-----------------------------------------------------------------------------
(* What a step has to show *)

\* Rows keep their ids; the one that may be new, m of table u, has a new id.
OldOrFresh(u, m) ==
  \A t \in Tables, n \in AllNames : Stored(t, n)' =>
    \/ Stored(t, n) /\ tables'[t][n].id = tables[t][n].id
    \/ t = u /\ n = m /\ tables'[t][n].id = NewId(u)

LEMMA OneRowStays ==
  ASSUME PoliciesAssumption, OneRow, NEW u \in Tables, NEW m, OldOrFresh(u, m)
  PROVE  OneRow'
<1> SUFFICES ASSUME NEW t \in Tables, NEW k \in AllNames, NEW n \in AllNames,
                    Stored(t, k)', Stored(t, n)', tables'[t][k].id = tables'[t][n].id
             PROVE  k = n
  BY DEF OneRow
<1>1. NewId(u) \notin Ids(u)
  BY FreshId
<1>2. \A l \in AllNames : Stored(u, l) => tables[u][l].id # NewId(u)
  BY <1>1 DEF Ids
<1>3. QED
  BY <1>2 DEF OldOrFresh, OneRow

LEMMA TaskStays ==
  ASSUME PoliciesAssumption, NEW u \in Tables, NEW m, OldOrFresh(u, m),
         NEW v \in Workers, TaskSound(task[v])
  PROVE  TaskSound(task[v])'  \/ task'[v] # task[v]
<1> SUFFICES ASSUME task'[v] = task[v], task[v].op = "post", NEW t \in Tables, NEW n \in AllNames,
                    Stored(t, n)', tables'[t][n].id = task[v].ids[t]
             PROVE  n = NameOf(task[v].req, t)
  BY DEF TaskSound, NameOf, TextFor
<1>1. CASE Stored(t, n) /\ tables'[t][n].id = tables[t][n].id
  BY <1>1 DEF TaskSound
<1>2. CASE t = u /\ tables'[t][n].id = NewId(u)
  <2>1. NewId(u) \notin Held(u) /\ NewId(u) # None
    BY FreshId DEF PoliciesAssumption
  <2>2. task[v].ids[u] = None \/ task[v].ids[u] \in Held(u)
    BY DEF Held
  <2>3. QED
    BY <1>2, <2>1, <2>2
<1>3. QED
  BY <1>1, <1>2 DEF OldOrFresh

\* A step of a worker that goes on to k.
LEMMA StepSound ==
  ASSUME PoliciesAssumption, Inductive, NEW w \in Workers, NEW k,
         task' = [task EXCEPT ![w] = k], TaskTyped(k), TaskSound(k)',
         NEW u \in Tables, NEW m, OldOrFresh(u, m),
         RowsTyped', CacheTyped', \A a \in Agents : AgentSound(a)'
  PROVE  Inductive'
<1>1. DOMAIN task = Workers
  BY DEF Inductive, Typed
<1>2. task'[w] = k /\ \A v \in Workers \ {w} : task'[v] = task[v]
  BY <1>1
<1>3. Typed'
  <2>1. task' = [v \in Workers |-> task'[v]]
    BY <1>1
  <2>2. ASSUME NEW v \in Workers
        PROVE  TaskTyped(task'[v])
    BY <1>2 DEF Inductive, Typed
  <2>3. QED
    BY <2>1, <2>2 DEF Typed
<1>4. OneRow'
  BY OneRowStays DEF Inductive
<1>5. ASSUME NEW v \in Workers
      PROVE  TaskSound(task[v])'
  <2>1. CASE v = w
    BY <1>2, <2>1 DEF TaskSound
  <2>2. CASE v # w
    BY <1>2, <2>2, TaskStays DEF Inductive
  <2>3. QED
    BY <2>1, <2>2
<1>6. QED
  BY <1>3, <1>4, <1>5 DEF Inductive

\* An agent whose references and rows stay.
LEMMA AgentStays ==
  ASSUME NEW a \in Agents, AgentSound(a),
         agents'[a] # None =>
           /\ agents[a] # None /\ agents'[a].asked = agents[a].asked
           /\ \A t \in Tables :
                /\ agents'[a][t] = agents[a][t]
                /\ Stored(t, agents[a].asked[t]) =>
                     /\ tables'[t][agents[a].asked[t]] # None
                     /\ tables'[t][agents[a].asked[t]].id = tables[t][agents[a].asked[t]].id
  PROVE  AgentSound(a)'
BY DEF AgentSound, Stored

\* Where neither tables nor agents move, only the task and the cache have to be looked at.
LEMMA TaskStepSound ==
  ASSUME PoliciesAssumption, Inductive, NEW w \in Workers, NEW k,
         task' = [task EXCEPT ![w] = k], TaskTyped(k), TaskSound(k),
         UNCHANGED <<agents, tables>>, CacheTyped'
  PROVE  Inductive'
<1>1. RowsTyped'
  BY DEF Inductive, Typed, RowsTyped
<1>2. TaskSound(k)'
  BY DEF TaskSound, Stored, NameOf, TextFor
<1>3. \A a \in Agents : AgentSound(a)'
  BY DEF Inductive, AgentSound, Stored
<1>4. "mb" \in Tables /\ OldOrFresh("mb", None)
  BY DEF OldOrFresh, Stored, Tables
<1>5. QED
  BY <1>1, <1>2, <1>3, <1>4, StepSound
-----------------------------------------------------------------------------
(* The policy handlers, and the reads of POST *)

LEMMA CacheStays == ASSUME CacheTyped, UNCHANGED <<cache, captured>> PROVE CacheTyped'
BY DEF CacheTyped

LEMMA IdleSound == TaskTyped(Idle) /\ TaskSound(Idle)
BY DEF Idle, TaskTyped, TaskSound

LEMMA ChangeSound ==
  ASSUME PoliciesAssumption, Inductive, NEW w \in Workers, NEW req \in Changes, ChangePolicy(w, req)
  PROVE  Inductive'
<1>1. req.op \in {"create", "replace", "drop"}
  BY DEF PoliciesAssumption
<1>2. TaskTyped(req) /\ TaskSound(req)
  BY <1>1 DEF TaskTyped, TaskSound
<1>3. QED
  BY <1>2, TaskStepSound, CacheStays DEF ChangePolicy, Goes, Inductive, Typed

\* What POST has noted of a table.
LEMMA Noted ==
  ASSUME Inductive, NEW w \in Workers, task[w].op = "post"
  PROVE  /\ task[w] \in PostTasks
         /\ task[w].req \in PostRequests
         /\ task[w].ids \in [Tables -> (Nat \ {0}) \cup {None}]
BY DEF Inductive, Typed, TaskTyped, PostTasks

\* The id of a row that is stored under the name that was asked for.
LEMMA IdOfName ==
  ASSUME Inductive, NEW t \in Tables, NEW n \in AllNames, Stored(t, n)
  PROVE  /\ tables[t][n].id \in Nat \ {0}
         /\ \A m \in AllNames : Stored(t, m) /\ tables[t][m].id = tables[t][n].id => m = n
BY DEF Inductive, Typed, RowsTyped, OneRow, Stored, Row

LEMMA NameIsName ==
  ASSUME PoliciesAssumption, NEW req \in PostRequests, NEW t \in Tables
  PROVE  /\ NameOf(req, t) \in AllNames /\ NameOf(req, t) \in {req.id} \cup PolicyNames
         /\ req.name[t] # None => NameOf(req, t) = req.name[t]
BY DEF PoliciesAssumption, NameOf, AllNames

LEMMA PostStartSound ==
  ASSUME PoliciesAssumption, Inductive, NEW w \in Workers, NEW req \in PostRequests, PostStart(w, req)
  PROVE  Inductive'
<1> DEFINE n == req.name["runtime"]
<1>1. PICK id : id = IF n # None /\ Stored("runtime", n) THEN tables["runtime"][n].id ELSE None
  OBVIOUS
<1>2. PICK k : k = [op |-> "post", at |-> "runtime", req |-> req, ids |-> [runtime |-> id, mb |-> None]]
  OBVIOUS
<1>3. Goes(w, k) /\ UNCHANGED <<agents, tables, cache, captured>>
  BY <1>1, <1>2 DEF PostStart
<1>4. n # None => n = NameOf(req, "runtime") /\ n \in AllNames
  BY NameIsName DEF Tables
<1>5. /\ id \in (Nat \ {0}) \cup {None}
      /\ \A m \in AllNames : Stored("runtime", m) /\ tables["runtime"][m].id = id => m = NameOf(req, "runtime")
  <2>1. CASE n # None /\ Stored("runtime", n)
    BY <1>1, <1>4, <2>1, IdOfName DEF Tables
  <2>2. CASE ~(n # None /\ Stored("runtime", n))
    <3>1. \A m \in AllNames : Stored("runtime", m) => tables["runtime"][m].id \in Nat \ {0}
      BY IdOfName DEF Tables
    <3>2. QED
      BY <1>1, <2>2, <3>1 DEF PoliciesAssumption
  <2>3. QED
    BY <2>1, <2>2
<1>6. TaskTyped(k)
  <2>1. k.ids \in [Tables -> (Nat \ {0}) \cup {None}]
    BY <1>2, <1>5 DEF Tables
  <2>2. k \in PostTasks
    BY <1>2, <2>1 DEF PostTasks
  <2>3. QED
    BY <1>2, <2>2 DEF TaskTyped
<1>7. TaskSound(k)
  <2>1. ASSUME NEW t \in Tables, NEW m \in AllNames, Stored(t, m), tables[t][m].id = k.ids[t]
        PROVE  m = NameOf(req, t)
    <3>1. CASE t = "runtime"
      BY <1>2, <1>5, <2>1, <3>1
    <3>2. CASE t = "mb"
      <4>1. tables[t][m].id \in Nat \ {0} /\ k.ids[t] = None
        BY <1>2, <2>1, <3>2, IdOfName
      <4>2. QED
        BY <2>1, <4>1 DEF PoliciesAssumption
    <3>3. QED
      BY <3>1, <3>2 DEF Tables
  <2>2. QED
    BY <1>2, <2>1 DEF TaskSound
<1>8. QED
  BY <1>3, <1>6, <1>7, TaskStepSound, CacheStays DEF Goes, Inductive, Typed

\* POST goes on as it was ...
LEMMA GoesOn ==
  ASSUME Inductive, NEW w \in Workers, task[w].op = "post",
         NEW at \in {"runtime", "store runtime", "mb", "store mb", "agent"},
         at = "store runtime" => TextFor(task[w].req, "runtime") # None,
         NEW k, k = [task[w] EXCEPT !.at = at]
  PROVE  TaskTyped(k) /\ TaskSound(k)
<1>1. task[w] \in PostTasks
  BY Noted
<1>2. k \in PostTasks /\ k.op = "post" /\ k.at = at /\ k.req = task[w].req /\ k.ids = task[w].ids
  BY <1>1 DEF PostTasks
<1>3. TaskSound(task[w])
  BY DEF Inductive
<1>4. QED
  BY <1>2, <1>3 DEF TaskTyped, TaskSound

\* ... or with the id of the row it found.
LEMMA NotesId ==
  ASSUME PoliciesAssumption, Inductive, NEW w \in Workers, task[w].op = "post",
         NEW at \in {"mb", "agent"}, NEW t \in Tables, Stored(t, NameOf(task[w].req, t)),
         NEW k, k = [task[w] EXCEPT !.at = at, !.ids[t] = tables[t][NameOf(task[w].req, t)].id]
  PROVE  TaskTyped(k) /\ TaskSound(k)
<1> DEFINE n == NameOf(task[w].req, t)
<1>1. task[w] \in PostTasks /\ task[w].req \in PostRequests
  BY Noted
<1>2. n \in AllNames
  BY <1>1, NameIsName
<1>3. /\ tables[t][n].id \in Nat \ {0}
      /\ \A m \in AllNames : Stored(t, m) /\ tables[t][m].id = tables[t][n].id => m = n
  BY <1>2, IdOfName
<1>4. /\ k \in PostTasks /\ k.op = "post" /\ k.at = at /\ k.req = task[w].req
      /\ k.ids = [task[w].ids EXCEPT ![t] = tables[t][n].id]
  BY <1>1, <1>3 DEF PostTasks
<1>5. k.ids[t] = tables[t][n].id /\ \A s \in Tables \ {t} : k.ids[s] = task[w].ids[s]
  BY <1>4, Noted
<1>6. TaskSound(task[w])
  BY DEF Inductive
<1>7. QED
  BY <1>3, <1>4, <1>5, <1>6 DEF TaskTyped, TaskSound

LEMMA PostReadsSound ==
  ASSUME PoliciesAssumption, Inductive, NEW w \in Workers, PostRuntime(w) \/ PostMb(w)
  PROVE  Inductive'
<1>1. task[w].op = "post" /\ UNCHANGED <<agents, tables, cache, captured>> /\ CacheTyped'
  BY CacheStays DEF PostRuntime, PostMb, Posting, Inductive, Typed
<1>2. SUFFICES \E k : Goes(w, k) /\ TaskTyped(k) /\ TaskSound(k)
  BY <1>1, TaskStepSound DEF Goes
<1>3. CASE PostRuntime(w)
  <2> DEFINE req == task[w].req
             n   == NameOf(req, "runtime")
  <2>1. CASE TextFor(req, "runtime") = None
    BY <1>1, <1>3, <2>1, GoesOn DEF PostRuntime
  <2>2. CASE TextFor(req, "runtime") # None /\ Stored("runtime", n)
    BY <1>1, <1>3, <2>2, NotesId DEF PostRuntime, Tables
  <2>3. CASE TextFor(req, "runtime") # None /\ ~Stored("runtime", n)
    BY <1>1, <1>3, <2>3, GoesOn DEF PostRuntime
  <2>4. QED
    BY <2>1, <2>2, <2>3
<1>4. CASE PostMb(w)
  <2> DEFINE req    == task[w].req
             n      == NameOf(req, "mb")
             given  == req.text["mb"] # None
             refused == \/ given /\ Stored("mb", n)
                        \/ req.name["mb"] # None /\ ~given /\ ~Stored("mb", n)
  <2>1. CASE refused
    BY <1>4, <2>1, IdleSound DEF PostMb
  <2>2. CASE ~refused /\ Stored("mb", n)
    BY <1>1, <1>4, <2>2, NotesId DEF PostMb, Tables
  <2>3. CASE ~refused /\ ~Stored("mb", n)
    BY <1>1, <1>4, <2>3, GoesOn DEF PostMb
  <2>4. QED
    BY <2>1, <2>2, <2>3
<1>5. QED
  BY <1>3, <1>4
-----------------------------------------------------------------------------
(* Writes of policies *)

\* A row that is inserted where there was none.
LEMMA InsertSound ==
  ASSUME PoliciesAssumption, Inductive, NEW t \in Tables, NEW n \in AllNames, NEW x \in TextsOf(t),
         ~Stored(t, n), tables' = Insert(t, n, x), UNCHANGED agents
  PROVE  /\ RowsTyped' /\ OldOrFresh(t, n) /\ \A a \in Agents : AgentSound(a)'
         /\ tables'[t][n].id = NewId(t)
         /\ \A s \in Tables, m \in AllNames : <<s, m>> # <<t, n>> => tables'[s][m] = tables[s][m]
<1>1. PICK r : r = [id |-> NewId(t), text |-> x]
  OBVIOUS
<1>2. tables' = [tables EXCEPT ![t][n] = r]
  BY <1>1 DEF Insert
<1>3. RowsTyped
  BY DEF Inductive, Typed
<1>4. r \in Row(t) /\ r.id = NewId(t)
  BY <1>1, FreshId DEF Row
<1>5. /\ DOMAIN tables' = Tables
      /\ tables'[t][n] = r
      /\ \A s \in Tables, m \in AllNames : <<s, m>> # <<t, n>> => tables'[s][m] = tables[s][m]
      /\ \A s \in Tables : tables'[s] \in [AllNames -> Row(s) \cup {None}]
  BY <1>2, <1>3, <1>4 DEF RowsTyped
<1>6. RowsTyped'
  BY <1>3, <1>5 DEF RowsTyped
<1>7. OldOrFresh(t, n)
  BY <1>4, <1>5 DEF OldOrFresh, Stored
<1>8. ASSUME NEW a \in Agents
      PROVE  AgentSound(a)'
  <2>1. AgentSound(a) /\ agents[a] \in AgentRows \cup {None}
    BY <1>3 DEF Inductive, RowsTyped
  <2>2. SUFFICES ASSUME agents[a] # None, NEW s \in Tables
                 PROVE  LET m == agents[a].asked[s]
                        IN  /\ m \in {a} \cup PolicyNames
                            /\ tables'[s][m] # None /\ tables'[s][m].id = agents[a][s]
    BY DEF AgentSound, Stored
  <2> DEFINE m == agents[a].asked[s]
  <2>3. m \in {a} \cup PolicyNames /\ Stored(s, m) /\ tables[s][m].id = agents[a][s]
    BY <2>1, <2>2 DEF AgentSound
  <2>4. <<s, m>> # <<t, n>> /\ m \in AllNames
    BY <2>3 DEF AllNames
  <2>5. QED
    BY <1>5, <2>3, <2>4 DEF Stored
<1>9. QED
  BY <1>4, <1>5, <1>6, <1>7, <1>8

\* The policy that POST stores is of its table.
LEMMA TextIsText ==
  ASSUME PoliciesAssumption, NEW req \in PostRequests, NEW t \in Tables,
         t = "runtime" => TextFor(req, "runtime") # None
  PROVE  TextFor(req, t) \in TextsOf(t)
BY DEF PoliciesAssumption, TextFor, TextsOf, Tables

LEMMA PostStoreSound ==
  ASSUME PoliciesAssumption, Inductive, NEW w \in Workers, NEW t \in Tables, PostStore(w, t)
  PROVE  Inductive'
<1> DEFINE req == task[w].req
           n   == NameOf(req, t)
           at  == IF t = "mb" THEN "agent" ELSE "mb"
<1>1. task[w].op = "post" /\ UNCHANGED <<agents, cache, captured>> /\ CacheTyped'
  BY CacheStays DEF PostStore, Posting, Inductive, Typed
<1>2. task[w] \in PostTasks /\ req \in PostRequests /\ n \in AllNames
  BY <1>1, Noted, NameIsName
<1>3. CASE Stored(t, n)
  BY <1>1, <1>3, IdleSound, TaskStepSound DEF PostStore, Goes
<1>4. CASE ~Stored(t, n)
  <2>1. PICK k : k = [task[w] EXCEPT !.at = at, !.ids[t] = NewId(t)]
    OBVIOUS
  <2>2. tables' = Insert(t, n, TextFor(req, t)) /\ Goes(w, k)
    BY <1>4, <2>1 DEF PostStore
  <2>3. t = "runtime" => TextFor(req, "runtime") # None
    BY <1>1 DEF PostStore, Posting, Inductive, TaskSound
  <2>4. TextFor(req, t) \in TextsOf(t)
    BY <1>2, <2>3, TextIsText
  <2>5. /\ RowsTyped' /\ OldOrFresh(t, n) /\ \A a \in Agents : AgentSound(a)'
        /\ tables'[t][n].id = NewId(t)
        /\ \A s \in Tables, m \in AllNames : <<s, m>> # <<t, n>> => tables'[s][m] = tables[s][m]
    BY <1>1, <1>2, <1>4, <2>2, <2>4, InsertSound
  <2>6. /\ k \in PostTasks /\ k.op = "post" /\ k.at = at /\ k.req = req
        /\ k.ids[t] = NewId(t) /\ \A s \in Tables \ {t} : k.ids[s] = task[w].ids[s]
    BY <1>2, <2>1, FreshId DEF PostTasks
  <2>7. TaskSound(k)'
    <3>1. ASSUME NEW s \in Tables, NEW m \in AllNames, Stored(s, m)', tables'[s][m].id = k.ids[s]
          PROVE  m = NameOf(req, s)
      <4>1. CASE s = t
        <5>1. NewId(t) \notin Ids(t)
          BY FreshId
        <5>2. Stored(t, m) => tables[t][m].id # NewId(t)
          BY <5>1 DEF Ids
        <5>3. QED
          BY <2>5, <2>6, <3>1, <4>1, <5>2 DEF OldOrFresh
      <4>2. CASE s # t
        <5>1. tables'[s][m] = tables[s][m] /\ Stored(s, m) /\ tables[s][m].id = task[w].ids[s]
          BY <2>5, <2>6, <3>1, <4>2 DEF Stored
        <5>2. QED
          BY <1>1, <5>1 DEF Inductive, TaskSound
      <4>3. QED
        BY <4>1, <4>2
    <3>2. k.at # "store runtime"
      BY <2>6
    <3>3. QED
      BY <2>6, <3>1, <3>2 DEF TaskSound, NameOf
  <2>8. TaskTyped(k)
    BY <2>6 DEF TaskTyped
  <2>9. QED
    BY <1>1, <2>2, <2>5, <2>7, <2>8, StepSound DEF Goes
<1>5. QED
  BY <1>3, <1>4

\* Rows that keep their ids, or go where no agent refers to them.
LEMMA RowsLeft ==
  ASSUME PoliciesAssumption, Inductive, NEW w \in Workers, Goes(w, Idle),
         UNCHANGED <<agents, cache, captured>>, RowsTyped',
         \A t \in Tables, n \in AllNames :
           \/ Stored(t, n) = Stored(t, n)' /\ (Stored(t, n) => tables'[t][n].id = tables[t][n].id)
           \/ tables'[t][n] = None /\ Users(t, n) = {}
  PROVE  Inductive'
<1>1. CacheTyped'
  BY CacheStays DEF Inductive, Typed
<1>2. "mb" \in Tables /\ OldOrFresh("mb", None)
  BY DEF OldOrFresh, Stored, Tables
<1>3. ASSUME NEW a \in Agents
      PROVE  AgentSound(a)'
  <2>1. AgentSound(a)
    BY DEF Inductive
  <2>2. SUFFICES ASSUME agents[a] # None, NEW t \in Tables
                 PROVE  LET m == agents[a].asked[t]
                        IN  /\ m \in {a} \cup PolicyNames
                            /\ tables'[t][m] # None /\ tables'[t][m].id = agents[a][t]
    BY DEF AgentSound, Stored
  <2> DEFINE m == agents[a].asked[t]
  <2>3. m \in {a} \cup PolicyNames /\ Stored(t, m) /\ tables[t][m].id = agents[a][t]
    BY <2>1, <2>2 DEF AgentSound
  <2>4. m \in AllNames /\ a \in Users(t, m)
    BY <2>2, <2>3 DEF AllNames, Users
  <2>5. QED
    BY <2>3, <2>4 DEF Stored
<1>4. TaskTyped(Idle) /\ TaskSound(Idle)'
  BY IdleSound DEF TaskSound, Idle
<1>5. QED
  BY <1>1, <1>2, <1>3, <1>4, StepSound DEF Goes

LEMMA WritePolicySound ==
  ASSUME PoliciesAssumption, Inductive, NEW w \in Workers, WritePolicy(w)
  PROVE  Inductive'
<1> DEFINE t == task[w].table
           n == task[w].name
<1>1. task[w] \in Changes /\ t \in Tables /\ n \in AllNames /\ task[w].text \in Texts
  BY DEF WritePolicy, Inductive, Typed, TaskTyped, PoliciesAssumption
<1>2. /\ Goes(w, Idle) /\ UNCHANGED <<agents, cache, captured>>
      /\ task[w].op \in {"create", "replace", "drop"}
  BY DEF WritePolicy
<1>3. RowsTyped
  BY DEF Inductive, Typed
<1>4. CASE task[w].op = "create" /\ ~Stored(t, n)
  <2>1. tables' = Insert(t, n, task[w].text)
    BY <1>4 DEF WritePolicy
  <2>2. task[w].text \in TextsOf(t)
    BY <1>1 DEF TextsOf
  <2>3. RowsTyped' /\ OldOrFresh(t, n) /\ \A a \in Agents : AgentSound(a)'
    BY <1>1, <1>2, <1>4, <2>1, <2>2, InsertSound
  <2>4. TaskTyped(Idle) /\ TaskSound(Idle)'
    BY IdleSound DEF TaskSound, Idle
  <2>5. CacheTyped'
    BY <1>2, CacheStays DEF Inductive, Typed
  <2>6. QED
    BY <1>1, <1>2, <2>3, <2>4, <2>5, StepSound DEF Goes
<1>5. CASE task[w].op = "replace" /\ Stored(t, n)
  <2>1. tables' = [tables EXCEPT ![t][n].text = task[w].text]
    BY <1>5 DEF WritePolicy
  <2>2. tables[t][n] \in Row(t) /\ task[w].text \in TextsOf(t)
    BY <1>1, <1>3, <1>5 DEF RowsTyped, Stored, TextsOf
  <2>3. PICK r : r = [tables[t][n] EXCEPT !.text = task[w].text]
    OBVIOUS
  <2>4. r \in Row(t) /\ r.id = tables[t][n].id
    BY <2>2, <2>3 DEF Row
  <2>5. tables' = [tables EXCEPT ![t][n] = r]
    BY <2>1, <2>3
  <2>6. r # None
    BY <2>4 DEF Row, PoliciesAssumption, TextsOf, AllTexts
  <2>7. RowsTyped'
    BY <1>1, <1>2, <1>3, <2>4, <2>5 DEF RowsTyped
  <2>8. QED
    BY <1>1, <1>2, <1>3, <1>5, <2>4, <2>5, <2>6, <2>7, RowsLeft DEF Stored, RowsTyped
<1>6. CASE task[w].op = "drop" /\ Users(t, n) = {}
  <2>1. tables' = [tables EXCEPT ![t][n] = None]
    BY <1>6 DEF WritePolicy
  <2>2. RowsTyped'
    BY <1>1, <1>2, <1>3, <2>1 DEF RowsTyped
  <2>3. QED
    BY <1>1, <1>2, <1>3, <1>6, <2>1, <2>2, RowsLeft DEF Stored, RowsTyped
<1>7. CASE UNCHANGED tables
  BY <1>2, <1>3, <1>7, IdleSound, TaskStepSound, CacheStays DEF Goes, Inductive, Typed
<1>8. QED
  BY <1>2, <1>4, <1>5, <1>6, <1>7 DEF WritePolicy
-----------------------------------------------------------------------------
(* Agents come, change and go *)

LEMMA CacheSet ==
  ASSUME CacheTyped, NEW w \in Workers, NEW a \in Agents,
         \/ UNCHANGED cache
         \/ \E e : cache' = [cache EXCEPT ![w][a] = e] /\ (e # None => e.text \in TextsOf("runtime")),
         \/ UNCHANGED captured
         \/ \E x \in TextsOf("runtime") \cup {"to read", None} :
              captured' = [captured EXCEPT ![w][a] = x]
  PROVE  CacheTyped'
<1>1. /\ DOMAIN cache' = Workers /\ \A v \in Workers : DOMAIN cache'[v] = Agents
      /\ \A v \in Workers, b \in Agents : cache'[v][b] # None => cache'[v][b].text \in TextsOf("runtime")
  BY DEF CacheTyped
<1>2. CASE UNCHANGED captured
  BY <1>1, <1>2 DEF CacheTyped
<1>3. ASSUME NEW x \in TextsOf("runtime") \cup {"to read", None},
             captured' = [captured EXCEPT ![w][a] = x]
      PROVE  CacheTyped'
  <2>1. /\ DOMAIN captured' = Workers /\ \A v \in Workers : DOMAIN captured'[v] = Agents
        /\ \A v \in Workers, b \in Agents : captured'[v][b] \in TextsOf("runtime") \cup {"to read", None}
    BY <1>3 DEF CacheTyped
  <2>2. QED
    BY <1>1, <2>1 DEF CacheTyped
<1>4. QED
  BY <1>2, <1>3

\* What is left to show of a step that adds no policy.
RowsSound == RowsTyped' /\ OldOrFresh("mb", None) /\ \A a \in Agents : AgentSound(a)'

LEMMA RowsSame == ASSUME Inductive, UNCHANGED <<agents, tables>> PROVE RowsSound
<1>1. RowsTyped'
  BY DEF Inductive, Typed, RowsTyped
<1>2. \A a \in Agents : AgentSound(a)'
  BY DEF Inductive, AgentSound, Stored
<1>3. QED
  BY <1>1, <1>2 DEF RowsSound, OldOrFresh, Stored

LEMMA StateSound ==
  ASSUME Inductive, NEW a \in Agents, agents[a] # None, UNCHANGED tables,
         NEW x \in {"polled", "ended", "terminated"}, agents' = [agents EXCEPT ![a].state = x]
  PROVE  RowsSound
<1>1. RowsTyped /\ agents[a] \in AgentRows
  BY DEF Inductive, Typed, RowsTyped
<1>2. PICK r : r = [agents[a] EXCEPT !.state = x]
  OBVIOUS
<1>3. r \in AgentRows /\ r.asked = agents[a].asked /\ \A t \in Tables : r[t] = agents[a][t]
  BY <1>1, <1>2 DEF AgentRows, Tables
<1>4. agents' = [agents EXCEPT ![a] = r]
  BY <1>2
<1>5. RowsTyped'
  BY <1>1, <1>3, <1>4 DEF RowsTyped
<1>6. \A b \in Agents : b # a => agents'[b] = agents[b]
  BY <1>1, <1>4 DEF RowsTyped
<1>7. agents'[a] = r
  BY <1>1, <1>4 DEF RowsTyped
<1>8. ASSUME NEW b \in Agents
      PROVE  AgentSound(b)'
  <2>1. AgentSound(b)
    BY DEF Inductive
  <2>2. agents'[b] # None =>
          /\ agents[b] # None /\ agents'[b].asked = agents[b].asked
          /\ \A t \in Tables : agents'[b][t] = agents[b][t]
    BY <1>3, <1>6, <1>7
  <2>3. QED
    BY <2>1, <2>2, AgentStays DEF Stored
<1>9. QED
  BY <1>5, <1>8 DEF RowsSound, OldOrFresh, Stored

LEMMA RemoveSound ==
  ASSUME Inductive, NEW a \in Agents, RemoveAgent(a)
  PROVE  RowsSound
<1>1. CASE UNCHANGED <<agents, tables>>
  BY <1>1, RowsSame
<1>2. CASE Removable(a)
  <2>1. /\ agents' = [agents EXCEPT ![a] = None]
        /\ tables' = [t \in Tables |-> [tables[t] EXCEPT ![a] = None]]
    BY <1>2 DEF RemoveAgent
  <2>2. RowsTyped
    BY DEF Inductive, Typed
  <2>3. /\ agents'[a] = None /\ \A b \in Agents : b # a => agents'[b] = agents[b]
        /\ \A t \in Tables, n \in AllNames : IF n = a THEN tables'[t][n] = None ELSE tables'[t][n] = tables[t][n]
    BY <2>1, <2>2 DEF RowsTyped, AllNames
  <2>4. RowsTyped'
    BY <2>1, <2>2 DEF RowsTyped
  <2>5. ASSUME NEW b \in Agents, b # a, agents[b] # None
        PROVE  \A t \in Tables : agents[b].asked[t] # a /\ agents[b].asked[t] \in AllNames
    <3>1. AgentSound(b)
      BY DEF Inductive
    <3>2. \A t \in Tables : b \notin Users(t, a)
      BY <1>2, <2>5 DEF Removable
    <3>3. QED
      BY <2>5, <3>1, <3>2 DEF AgentSound, Users, AllNames
  <2>6. ASSUME NEW b \in Agents
        PROVE  AgentSound(b)'
    <3>1. AgentSound(b)
      BY DEF Inductive
    <3>2. agents'[b] # None =>
            /\ b # a /\ agents[b] # None /\ agents'[b] = agents[b]
            /\ \A t \in Tables : tables'[t][agents[b].asked[t]] = tables[t][agents[b].asked[t]]
      BY <2>3, <2>5
    <3>3. QED
      BY <3>1, <3>2, AgentStays DEF Stored
  <2>7. OldOrFresh("mb", None)
    BY <2>3 DEF OldOrFresh, Stored
  <2>8. QED
    BY <2>4, <2>6, <2>7 DEF RowsSound
<1>3. QED
  BY <1>1, <1>2 DEF RemoveAgent

LEMMA FailSound ==
  ASSUME Inductive, NEW w \in Workers, NEW a \in Agents, Fail(w, a)
  PROVE  RowsSound
<1>1. CASE agents[a] = None
  BY <1>1, RowsSame DEF Fail
<1>2. CASE agents[a] # None /\ agents[a].state = "terminated"
  BY <1>2, RemoveSound DEF Fail
<1>3. CASE agents[a] # None /\ agents[a].state # "terminated"
  BY <1>3, StateSound DEF Fail
<1>4. QED
  BY <1>1, <1>2, <1>3

\* A step of a worker that goes on to k, which is no POST.
LEMMA OtherStepSound ==
  ASSUME PoliciesAssumption, Inductive, NEW w \in Workers, NEW k, task' = [task EXCEPT ![w] = k],
         k.op \in {"idle", "mark", "remove", "load"}, k.op # "idle" => k.id \in Agents,
         RowsSound, CacheTyped'
  PROVE  Inductive'
<1>1. TaskTyped(k) /\ TaskSound(k)'
  BY DEF TaskTyped, TaskSound
<1>2. "mb" \in Tables
  BY DEF Tables
<1>3. QED
  BY <1>1, <1>2, StepSound DEF RowsSound

LEMMA PostAgentSound ==
  ASSUME PoliciesAssumption, Inductive, NEW w \in Workers, PostAgent(w)
  PROVE  Inductive'
<1> DEFINE req == task[w].req
           ids == task[w].ids
<1>1. task[w].op = "post" /\ UNCHANGED <<tables, cache>> /\ Goes(w, Idle)
  BY DEF PostAgent, Posting
<1>2. /\ req \in PostRequests /\ req.id \in Agents
      /\ ids \in [Tables -> (Nat \ {0}) \cup {None}]
  BY <1>1, Noted DEF PoliciesAssumption
<1>3. CacheTyped /\ RowsTyped /\ TaskSound(task[w])
  BY DEF Inductive, Typed
<1>4. CASE agents[req.id] = None /\ \A t \in Tables : ids[t] \in Ids(t)
  <2>1. PICK r : r = [runtime |-> ids["runtime"], mb |-> ids["mb"], state |-> "polled",
                      asked |-> [t \in Tables |-> NameOf(req, t)]]
    OBVIOUS
  <2>2. /\ agents' = [agents EXCEPT ![req.id] = r]
        /\ captured' = [captured EXCEPT ![w][req.id] = "to read"]
    BY <1>4, <2>1 DEF PostAgent
  <2>3. ASSUME NEW t \in Tables
        PROVE  LET n == NameOf(req, t)
               IN  /\ n \in {req.id} \cup PolicyNames /\ n \in AllNames
                   /\ Stored(t, n) /\ tables[t][n].id = ids[t] /\ ids[t] \in Nat \ {0}
    <3>1. PICK m \in AllNames : Stored(t, m) /\ tables[t][m].id = ids[t]
      BY <1>4 DEF Ids
    <3>2. m = NameOf(req, t)
      BY <1>1, <1>3, <3>1 DEF TaskSound
    <3>3. QED
      BY <1>2, <3>1, <3>2, NameIsName, IdOfName
  <2>4. r \in AgentRows /\ \A t \in Tables : r[t] = ids[t] /\ r.asked[t] = NameOf(req, t)
    BY <2>1, <2>3 DEF AgentRows, Tables
  <2>5. RowsTyped'
    BY <1>1, <1>3, <2>2, <2>4 DEF RowsTyped
  <2>6. agents'[req.id] = r /\ \A b \in Agents : b # req.id => agents'[b] = agents[b]
    BY <1>2, <1>3, <2>2 DEF RowsTyped
  <2>7. ASSUME NEW b \in Agents
        PROVE  AgentSound(b)'
    <3>1. CASE b = req.id
      BY <1>1, <2>3, <2>4, <2>6, <3>1 DEF AgentSound, Stored
    <3>2. CASE b # req.id
      BY <1>1, <2>6, <3>2 DEF Inductive, AgentSound, Stored
    <3>3. QED
      BY <3>1, <3>2
  <2>8. RowsSound
    BY <1>1, <2>5, <2>7 DEF RowsSound, OldOrFresh, Stored
  <2>9. CacheTyped'
    BY <1>1, <1>2, <1>3, <2>2, CacheSet
  <2>10. QED
    BY <1>1, <2>8, <2>9, OtherStepSound DEF Goes, Idle
<1>5. CASE UNCHANGED <<agents, captured>>
  BY <1>1, <1>3, <1>5, RowsSame, CacheStays, OtherStepSound DEF Goes, Idle
<1>6. QED
  BY <1>4, <1>5 DEF PostAgent

LEMMA DeleteSound ==
  ASSUME PoliciesAssumption, Inductive, NEW w \in Workers,
         (\E a \in Agents : DeleteStart(w, a)) \/ DeleteRemove(w) \/ DeleteMark(w)
  PROVE  Inductive'
<1>1. CacheTyped /\ RowsTyped /\ TaskTyped(task[w])
  BY DEF Inductive, Typed
<1>2. ASSUME NEW a \in Agents, DeleteStart(w, a)
      PROVE  Inductive'
  <2>1. CacheTyped' /\ RowsSound
    BY <1>1, <1>2, CacheSet, RowsSame DEF DeleteStart
  <2>2. PICK k : k = [op |-> IF agents[a].state = "polled" THEN "mark" ELSE "remove", id |-> a]
    OBVIOUS
  <2>3. Goes(w, k) /\ k.op \in {"mark", "remove"} /\ k.id \in Agents
    BY <1>2, <2>2 DEF DeleteStart
  <2>4. QED
    BY <2>1, <2>3, OtherStepSound DEF Goes
<1>3. CASE DeleteRemove(w)
  <2>1. task[w].id \in Agents /\ CacheTyped' /\ Goes(w, Idle)
    BY <1>1, <1>3, CacheStays DEF DeleteRemove, TaskTyped
  <2>2. RowsSound
    BY <1>3, <2>1, RemoveSound DEF DeleteRemove
  <2>3. QED
    BY <2>1, <2>2, OtherStepSound DEF Goes, Idle
<1>4. CASE DeleteMark(w)
  <2>1. task[w].id \in Agents /\ CacheTyped' /\ Goes(w, Idle)
    BY <1>1, <1>4, CacheStays DEF DeleteMark, TaskTyped
  <2>2. RowsSound
    BY <1>4, <2>1, StateSound, RowsSame DEF DeleteMark
  <2>3. QED
    BY <2>1, <2>2, OtherStepSound DEF Goes, Idle
<1>5. QED
  BY <1>2, <1>3, <1>4

LEMMA TextTyped ==
  ASSUME Inductive, NEW t \in Tables, NEW i \in Ids(t)
  PROVE  TextOf(t, i) \in TextsOf(t)
<1>1. PICK n : n = CHOOSE m \in AllNames : Stored(t, m) /\ tables[t][m].id = i
  OBVIOUS
<1>2. n \in AllNames /\ Stored(t, n)
  BY <1>1 DEF Ids
<1>3. TextOf(t, i) = tables[t][n].text
  BY <1>1 DEF TextOf
<1>4. QED
  BY <1>2, <1>3 DEF Inductive, Typed, RowsTyped, Row, Stored

LEMMA PollSound ==
  ASSUME PoliciesAssumption, Inductive, NEW w \in Workers,
         (\E a \in Agents : PollEnds(w, a) \/ PollChecksum(w, a)) \/ PollLoad(w)
  PROVE  Inductive'
<1>1. CacheTyped /\ RowsTyped /\ TaskTyped(task[w]) /\ task = [v \in Workers |-> task[v]]
  BY DEF Inductive, Typed
<1>2. task[w] = Idle /\ UNCHANGED task => Goes(w, Idle)
  BY <1>1 DEF Goes
<1>3. ASSUME NEW a \in Agents, PollEnds(w, a)
      PROVE  Inductive'
  <2>1. Goes(w, Idle) /\ RowsSound
    BY <1>2, <1>3, FailSound DEF PollEnds, Polls
  <2>2. CacheTyped'
    BY <1>1, <1>3, CacheSet DEF PollEnds, Fail
  <2>3. QED
    BY <2>1, <2>2, OtherStepSound DEF Goes, Idle
<1>4. ASSUME NEW a \in Agents, PollChecksum(w, a)
      PROVE  Inductive'
  <2>1. RowsSound /\ UNCHANGED cache
    BY <1>4, StateSound DEF PollChecksum
  <2>2. CASE cache[w][a] # None /\ captured' = [captured EXCEPT ![w][a] = cache[w][a].text] /\ UNCHANGED task
    <3>1. CacheTyped'
      BY <1>1, <2>1, <2>2, CacheSet DEF CacheTyped
    <3>2. Goes(w, Idle)
      BY <1>2, <1>4, <2>2 DEF PollChecksum, Polls
    <3>3. QED
      BY <2>1, <3>1, <3>2, OtherStepSound DEF Goes, Idle
  <2>3. ASSUME NEW k, Goes(w, k), k.op = "load", k.id = a, UNCHANGED captured
        PROVE  Inductive'
    BY <1>1, <2>1, <2>3, CacheStays, OtherStepSound DEF Goes
  <2>4. QED
    BY <1>4, <2>2, <2>3 DEF PollChecksum
<1>5. CASE PollLoad(w)
  <2> DEFINE a == task[w].id
  <2>1. a \in Agents /\ Goes(w, Idle)
    BY <1>1, <1>5 DEF PollLoad, TaskTyped
  <2>2. CASE task[w].policy \in Ids("runtime")
    <3>1. PICK x : x = TextOf("runtime", task[w].policy)
      OBVIOUS
    <3>2. x \in TextsOf("runtime")
      BY <2>2, <3>1, TextTyped DEF Tables
    <3>3. PICK e : e = [sum |-> task[w].sum, text |-> x]
      OBVIOUS
    <3>4. /\ cache' = [cache EXCEPT ![w][a] = e] /\ captured' = [captured EXCEPT ![w][a] = x]
          /\ UNCHANGED <<agents, tables>>
      BY <1>5, <2>2, <3>1, <3>3 DEF PollLoad
    <3>5. CacheTyped'
      <4>1. e.text \in TextsOf("runtime")
        BY <3>2, <3>3
      <4>2. \E f : cache' = [cache EXCEPT ![w][a] = f] /\ (f # None => f.text \in TextsOf("runtime"))
        BY <3>4, <4>1
      <4>3. QED
        BY <1>1, <2>1, <3>2, <3>4, <4>2, CacheSet
    <3>6. QED
      BY <2>1, <3>4, <3>5, RowsSame, OtherStepSound DEF Goes, Idle
  <2>3. CASE task[w].policy \notin Ids("runtime")
    <3>1. Fail(w, a) /\ UNCHANGED cache
      BY <1>5, <2>3 DEF PollLoad
    <3>2. CacheTyped'
      BY <1>1, <2>1, <3>1, CacheSet DEF Fail
    <3>3. QED
      BY <2>1, <3>1, <3>2, FailSound, OtherStepSound DEF Goes, Idle
  <2>4. QED
    BY <2>2, <2>3
<1>6. QED
  BY <1>3, <1>4, <1>5
-----------------------------------------------------------------------------
(* The theorems *)

LEMMA InitSound == ASSUME PoliciesAssumption, Init PROVE Inductive
<1>1. \A t \in Tables, n \in AllNames : ~Stored(t, n)
  BY DEF Init, Stored
<1>2. RowsTyped
  BY DEF Init, RowsTyped
<1>3. \A w \in Workers : TaskTyped(task[w]) /\ TaskSound(task[w])
  BY IdleSound DEF Init
<1>4. CacheTyped
  BY DEF Init, CacheTyped
<1>5. task = [w \in Workers |-> task[w]] /\ \A a \in Agents : agents[a] = None
  BY DEF Init
<1>6. QED
  BY <1>1, <1>2, <1>3, <1>4, <1>5 DEF Inductive, Typed, OneRow, AgentSound

LEMMA NextSound == ASSUME PoliciesAssumption, Inductive, [Next]_vars PROVE Inductive'
<1>1. ASSUME NEW w \in Workers,
             \/ \E req \in Changes : AllowlistRequest(w, req) \/ MbpolicyRequest(w, req)
             \/ WritePolicy(w)
      PROVE  Inductive'
  BY <1>1, ChangeSound, WritePolicySound DEF AllowlistRequest, MbpolicyRequest
<1>2. ASSUME NEW w \in Workers,
             \/ \E req \in PostRequests : PostStart(w, req)
             \/ PostRuntime(w) \/ PostMb(w) \/ PostAgent(w)
             \/ \E t \in Tables : PostStore(w, t)
      PROVE  Inductive'
  BY <1>2, PostStartSound, PostReadsSound, PostAgentSound, PostStoreSound
<1>3. ASSUME NEW w \in Workers,
             \/ \E a \in Agents : DeleteStart(w, a) \/ PollEnds(w, a) \/ PollChecksum(w, a)
             \/ DeleteRemove(w) \/ DeleteMark(w) \/ PollLoad(w)
      PROVE  Inductive'
  BY <1>3, DeleteSound, PollSound
<1>4. CASE UNCHANGED vars
  <2>1. UNCHANGED <<agents, tables, task, cache, captured>>
    BY <1>4 DEF vars
  <2>2. Typed'
    BY <2>1 DEF Inductive, Typed, RowsTyped, CacheTyped
  <2>3. OneRow' /\ (\A a \in Agents : AgentSound(a)') /\ \A w \in Workers : TaskSound(task[w])'
    BY <2>1 DEF Inductive, OneRow, AgentSound, TaskSound, Stored, NameOf, TextFor
  <2>4. QED
    BY <2>2, <2>3 DEF Inductive
<1>5. QED
  BY <1>1, <1>2, <1>3, <1>4 DEF Next

\* What a handler has noted of a policy stays true of whatever bears its id, and
\* every agent refers to policies of the names it was added with
\* (AgentsHandler.post, AllowlistHandler, MbpolicyHandler, verifier_db_delete_agent).
THEOREM ReferencesAreSound == PoliciesAssumption => (Spec => []Inductive)
<1> SUFFICES ASSUME PoliciesAssumption
             PROVE  Spec => []Inductive
  OBVIOUS
<1>1. Init => Inductive
  BY InitSound
<1>2. Inductive /\ [Next]_vars => Inductive'
  BY NextSound
<1>3. QED
  BY <1>1, <1>2, PTL DEF Spec

\* Rows, agents, requests under way and caches have their types in every worker.
THEOREM PoliciesTypeCorrect == PoliciesAssumption => (Spec => []TypeOK)
<1> SUFFICES ASSUME PoliciesAssumption
             PROVE  Spec => []TypeOK
  OBVIOUS
<1>1. Inductive => TypeOK
  <2> SUFFICES ASSUME Inductive
               PROVE  TypeOK
    OBVIOUS
  <2>1. \A t \in Tables, n \in AllNames :
          Stored(t, n) => tables[t][n].id \in Nat \ {0} /\ tables[t][n].text \in AllTexts
    BY DEF Inductive, Typed, RowsTyped, Stored, Row, TextsOf, AllTexts
  <2>2. \A a \in Agents : agents[a] # None => agents[a].state \in {"polled", "ended", "terminated"}
    BY DEF Inductive, Typed, RowsTyped, AgentRows
  <2>3. QED
    BY <2>1, <2>2 DEF Inductive, Typed, TaskTyped, CacheTyped, TextsOf, TypeOK
<1>2. QED
  BY <1>1, ReferencesAreSound, PTL

\* As long as an agent exists its row refers to the policies it was added with,
\* by name, whichever handlers of whichever workers create, replace and remove
\* policies between the commits of its POST (AgentsHandler.post).
THEOREM PoliciesStayNamed == PoliciesAssumption => (Spec => []RefersToNamedPolicy)
<1> SUFFICES ASSUME PoliciesAssumption
             PROVE  Spec => []RefersToNamedPolicy
  OBVIOUS
<1>1. Inductive => RefersToNamedPolicy
  BY DEF Inductive, AgentSound, RefersToNamedPolicy
<1>2. QED
  BY <1>1, ReferencesAreSound, PTL

\* A DELETE that is answered 200 takes the row and the policies of the agent's name,
\* or nothing at all; and nothing only if another agent was added with a policy of
\* that name: the row of an agent that asked for no such policy refers to none
\* (verifier_db_delete_agent, AgentsHandler.delete).
THEOREM DeletedAreGone == PoliciesAssumption => (Spec => DeletedMeansGone)
<1> SUFFICES ASSUME PoliciesAssumption
             PROVE  Spec => DeletedMeansGone
  OBVIOUS
<1>1. ASSUME Inductive, NEW a \in Agents, ~Removable(a)
      PROVE  Shared(a)
  <2>1. PICK t \in Tables, b \in Agents : b \in Users(t, a) /\ b # a
    BY <1>1 DEF Removable, Users
  <2>2. /\ agents[b] # None /\ Stored(t, a) /\ agents[b][t] = tables[t][a].id
        /\ a \in AllNames /\ b \in Agents \ {a}
    BY <2>1 DEF Users, AllNames
  <2>3. PICK n : n = agents[b].asked[t]
    OBVIOUS
  <2>4. n \in {b} \cup PolicyNames /\ Stored(t, n) /\ tables[t][n].id = agents[b][t]
    BY <1>1, <2>2, <2>3 DEF Inductive, AgentSound
  <2>5. n = a
    BY <1>1, <2>2, <2>4 DEF Inductive, OneRow, AllNames
  <2>6. QED
    BY <2>2, <2>3, <2>5 DEF Shared
<1>2. Inductive /\ [Next]_vars => [RemovalStep]_vars
  <2> SUFFICES ASSUME Inductive, Next, NEW w \in Workers, task[w].op = "remove", task'[w] = Idle
               PROVE  Removes(task[w].id)
    BY DEF RemovalStep
  <2>1. /\ task[w].id \in Agents /\ task = [v \in Workers |-> task[v]]
        /\ DOMAIN agents = Agents /\ task[w] # Idle
    BY DEF Inductive, Typed, TaskTyped, RowsTyped, Idle
  <2>2. ASSUME NEW v \in Workers, v # w
        PROVE  \A k : Goes(v, k) => task'[w] = task[w]
    BY <2>1, <2>2 DEF Goes
  <2>3. DeleteRemove(w)
    <3>1. PICK v \in Workers :
            \/ \E req \in Changes : AllowlistRequest(v, req) \/ MbpolicyRequest(v, req)
            \/ WritePolicy(v)
            \/ \E req \in PostRequests : PostStart(v, req)
            \/ PostRuntime(v) \/ PostMb(v) \/ PostAgent(v)
            \/ \E t \in Tables : PostStore(v, t)
            \/ \E a \in Agents : DeleteStart(v, a) \/ PollEnds(v, a) \/ PollChecksum(v, a)
            \/ DeleteRemove(v) \/ DeleteMark(v) \/ PollLoad(v)
      BY DEF Next
    <3>2. UNCHANGED task \/ \E k : Goes(v, k)
      BY <3>1 DEF AllowlistRequest, MbpolicyRequest, ChangePolicy, WritePolicy, PostStart, PostRuntime,
         PostMb, PostAgent, PostStore, DeleteStart, PollEnds, PollChecksum, DeleteRemove, DeleteMark, PollLoad
    <3>3. v = w
      BY <2>1, <2>2, <3>2
    <3>4. QED
      BY <2>1, <3>1, <3>3
         DEF AllowlistRequest, MbpolicyRequest, ChangePolicy, WritePolicy, PostStart, Posting, PostRuntime,
             PostMb, PostAgent, PostStore, DeleteStart, PollEnds, Polls, PollChecksum, DeleteMark, PollLoad
  <2>4. CASE Removable(task[w].id)
    <3>1. /\ agents' = [agents EXCEPT ![task[w].id] = None]
          /\ tables' = [t \in Tables |-> [tables[t] EXCEPT ![task[w].id] = None]]
      BY <2>3, <2>4 DEF DeleteRemove, RemoveAgent
    <3>2. \A t \in Tables : task[w].id \in DOMAIN tables[t]
      BY <2>1 DEF Inductive, Typed, RowsTyped, AllNames
    <3>3. QED
      BY <2>1, <3>1, <3>2 DEF Removes
  <2>5. CASE ~Removable(task[w].id)
    <3>1. UNCHANGED <<agents, tables>>
      BY <2>3, <2>5 DEF DeleteRemove, RemoveAgent
    <3>2. Shared(task[w].id)
      BY <1>1, <2>1, <2>5
    <3>3. QED
      BY <3>1, <3>2 DEF Removes
  <2>6. QED
    BY <2>4, <2>5
<1>3. QED
  BY <1>2, ReferencesAreSound, PTL DEF Spec, DeletedMeansGone
=============================================================================
