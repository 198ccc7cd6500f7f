------------------------------ MODULE Policies ------------------------------
(* The policies of the verifier: two tables (runtime and measured boot policies),
   the agents that refer to them, the handlers that create, replace and remove
   them, and the cache a worker keeps of the runtime policies it enforces. A
   handler never pauses in its worker; the statements of other workers come
   between its own. *)
EXTENDS Naturals, FiniteSets, FiniteSetsExt

CONSTANTS
  Agents,        \* agent ids
  PolicyNames,   \* names of policies that are given; unnamed ones bear an agent id
  Texts,         \* contents of policies; a checksum stands for its text
  DefaultText,   \* the empty runtime policy
  NoBootPolicy,  \* the measured boot policy of an agent that gave none
  PostRequests,  \* bodies of POST /agents
  Workers,
  Changes,       \* requests to the policy handlers
  Sqlite,        \* whether the database gives the highest id again once it is free
  None

VARIABLES
  agents,    \* table verifiermain: policy ids and whether the agent is polled
  tables,    \* tables[t][n]: the row named n of allowlists or mbpolicies
  task,      \* the handler or process_agent a worker is in
  cache,     \* GLOBAL_POLICY_CACHE[a] of worker w, but for its entry ""
  captured   \* captured[w][a]: the policy the poller in w checks the next quote by,
             \* "to read" before the first, None without a poller

vars == <<agents, tables, task, cache, captured>>

Tables   == {"runtime", "mb"}
AllNames == Agents \cup PolicyNames
AllTexts == Texts \cup {DefaultText, NoBootPolicy}
Idle     == [op |-> "idle"]

\* What PolicyProofs assumes: the sets are finite, an id is not given twice, requests
\* give what they may, and None is no number and no row.
PoliciesAssumption ==
  /\ ~Sqlite
  /\ IsFiniteSet(Agents) /\ IsFiniteSet(PolicyNames) /\ IsFiniteSet(Workers)
  /\ \A req \in PostRequests :
       /\ req.id \in Agents
       /\ \A t \in Tables : req.name[t] \in PolicyNames \cup {None} /\ req.text[t] \in Texts \cup {None}
  /\ Changes \subseteq [op : {"create", "replace", "drop"}, table : Tables, name : AllNames, text : Texts]
  /\ None \notin Nat /\ None \notin [id : Nat, text : AllTexts]
  /\ None \notin [runtime : Nat, mb : Nat, state : {"polled", "ended", "terminated"},
                  asked : [Tables -> AllNames]]
-----------------------------------------------------------------------------
Stored(t, n) == tables[t][n] # None
Ids(t)  == {tables[t][n].id : n \in {m \in AllNames : Stored(t, m)}}
Held(t) == {task[w].ids[t] : w \in {v \in Workers : task[v].op = "post"}} \ {None}
NewId(t) == IF Sqlite THEN 1 + Max({0} \cup Ids(t))
            ELSE Min((1..(1 + Cardinality(Ids(t)) + Cardinality(Held(t)))) \ (Ids(t) \cup Held(t)))
Insert(t, n, x) == [tables EXCEPT ![t][n] = [id |-> NewId(t), text |-> x]]
TextOf(t, i) == LET n == CHOOSE m \in AllNames : Stored(t, m) /\ tables[t][m].id = i
                IN  tables[t][n].text

\* The foreign keys ima_policy_id and mb_policy_id, enforced in SQLite as well
\* (_set_sqlite_pragma): agents other than a that refer to policy n.
Users(t, n) == {b \in Agents : agents[b] # None /\ Stored(t, n) /\ agents[b][t] = tables[t][n].id}

Init ==
  /\ agents = [a \in Agents |-> None]
  /\ tables = [t \in Tables |-> [n \in AllNames |-> None]]
  /\ task = [w \in Workers |-> Idle]
  /\ cache = [w \in Workers |-> [a \in Agents |-> None]]
  /\ captured = [w \in Workers |-> [a \in Agents |-> None]]

Goes(w, t) == task' = [task EXCEPT ![w] = t]
-----------------------------------------------------------------------------
(* AllowlistHandler and MbpolicyHandler. A request that is refused changes
   nothing; the condition is read first and the write meets the table later. *)
ChangePolicy(w, req) ==
  /\ task[w] = Idle
  /\ Stored(req.table, req.name) = (req.op # "create")
  /\ req.op = "drop" => Users(req.table, req.name) = {}
  /\ Goes(w, req)
  /\ UNCHANGED <<agents, tables, cache, captured>>

AllowlistRequest(w, req) == req.table = "runtime" /\ ChangePolicy(w, req)
MbpolicyRequest(w, req)  == req.table = "mb" /\ ChangePolicy(w, req)

\* Fault: a policy is removed without the foreign keys.
WritePolicy_Unreferenced(w) ==
  /\ task[w].op \in {"create", "replace", "drop"}
  /\ LET t == task[w].table
         n == task[w].name
     IN  tables' = CASE task[w].op = "create" /\ ~Stored(t, n) -> Insert(t, n, task[w].text)
                     [] task[w].op = "replace" /\ Stored(t, n) ->
                          [tables EXCEPT ![t][n].text = task[w].text]
                     [] task[w].op = "drop" -> [tables EXCEPT ![t][n] = None]
                     [] OTHER -> tables
  /\ Goes(w, Idle)
  /\ UNCHANGED <<agents, cache, captured>>

\* INSERT against the unique name; UPDATE and DELETE by the name, the latter
\* against the foreign keys.
WritePolicy(w) ==
  /\ task[w].op \in {"create", "replace", "drop"}
  /\ LET t == task[w].table
         n == task[w].name
     IN  tables' = CASE task[w].op = "create" /\ ~Stored(t, n) -> Insert(t, n, task[w].text)
                     [] task[w].op = "replace" /\ Stored(t, n) ->
                          [tables EXCEPT ![t][n].text = task[w].text]
                     [] task[w].op = "drop" /\ Users(t, n) = {} -> [tables EXCEPT ![t][n] = None]
                     [] OTHER -> tables
  /\ Goes(w, Idle)
  /\ UNCHANGED <<agents, cache, captured>>
-----------------------------------------------------------------------------
(* POST /agents/:agent_id *)
NameOf(req, t) == IF req.name[t] = None THEN req.id ELSE req.name[t]
TextFor(req, t) ==
  IF req.text[t] # None THEN req.text[t]
  ELSE IF t = "mb" THEN NoBootPolicy
  ELSE IF req.name[t] = None THEN DefaultText ELSE None

\* A given name must be stored or come with a policy, and not both; the agent
\* must be new.
PostStart(w, req) ==
  /\ task[w] = Idle
  /\ LET n == req.name["runtime"]
     IN  /\ n # None => Stored("runtime", n) = (req.text["runtime"] = None)
         /\ Goes(w, [op |-> "post", at |-> "runtime", req |-> req,
                     ids |-> [runtime |-> IF n # None /\ Stored("runtime", n)
                                          THEN tables["runtime"][n].id ELSE None,
                              mb |-> None]])
  /\ agents[req.id] = None
  /\ UNCHANGED <<agents, tables, cache, captured>>

Posting(w, at) == task[w].op = "post" /\ task[w].at = at

\* A policy of this name that is there already is taken as it is.
PostRuntime(w) ==
  /\ Posting(w, "runtime")
  /\ LET req == task[w].req
         n   == NameOf(req, "runtime")
     IN  Goes(w, IF TextFor(req, "runtime") = None THEN [task[w] EXCEPT !.at = "mb"]
                 ELSE IF Stored("runtime", n)
                 THEN [task[w] EXCEPT !.at = "mb", !.ids["runtime"] = tables["runtime"][n].id]
                 ELSE [task[w] EXCEPT !.at = "store runtime"])
  /\ UNCHANGED <<agents, tables, cache, captured>>

\* 409 for a policy that is given and stored, 404 for a name without either:
\* by now the runtime policy may have been stored.
PostMb(w) ==
  /\ Posting(w, "mb")
  /\ LET req   == task[w].req
         n     == NameOf(req, "mb")
         given == req.text["mb"] # None
     IN  Goes(w, IF \/ given /\ Stored("mb", n)
                    \/ req.name["mb"] # None /\ ~given /\ ~Stored("mb", n)
                 THEN Idle
                 ELSE IF Stored("mb", n)
                 THEN [task[w] EXCEPT !.at = "agent", !.ids["mb"] = tables["mb"][n].id]
                 ELSE [task[w] EXCEPT !.at = "store mb"])
  /\ UNCHANGED <<agents, tables, cache, captured>>

\* Each policy is inserted in a transaction of its own; 400 when the name was
\* taken in between.
PostStore(w, t) ==
  /\ Posting(w, IF t = "mb" THEN "store mb" ELSE "store runtime")
  /\ LET n == NameOf(task[w].req, t)
     IN  IF Stored(t, n) THEN Goes(w, Idle) /\ UNCHANGED tables
         ELSE /\ tables' = Insert(t, n, TextFor(task[w].req, t))
              /\ Goes(w, [task[w] EXCEPT !.at = IF t = "mb" THEN "agent" ELSE "mb",
                                         !.ids[t] = NewId(t)])
  /\ UNCHANGED <<agents, cache, captured>>

\* The agent with its references, and its poller; 400 when the agent has been
\* added or a policy removed meanwhile.
PostAgent(w) ==
  /\ Posting(w, "agent")
  /\ LET req == task[w].req
         ids == task[w].ids
     IN  IF agents[req.id] = None /\ \A t \in Tables : ids[t] \in Ids(t)
         THEN /\ agents' = [agents EXCEPT ![req.id] =
                   [runtime |-> ids["runtime"], mb |-> ids["mb"], state |-> "polled",
                    asked |-> [t \in Tables |-> NameOf(req, t)]]]
              /\ captured' = [captured EXCEPT ![w][req.id] = "to read"]
         ELSE UNCHANGED <<agents, captured>>
  /\ Goes(w, Idle)
  /\ UNCHANGED <<tables, cache>>
-----------------------------------------------------------------------------
(* Removal. verifier_db_delete_agent takes the agent and the policies that bear
   its id in one transaction; a policy that another agent refers to undoes it. *)

\* Fault: the policies are deleted before the agent.
Removable_PoliciesFirst(a) == \A t \in Tables : Users(t, a) = {}

Removable(a) == \A t \in Tables : Users(t, a) \subseteq {a}
RemoveAgent(a) ==
  IF Removable(a)
  THEN /\ agents' = [agents EXCEPT ![a] = None]
       /\ tables' = [t \in Tables |-> [tables[t] EXCEPT ![a] = None]]
  ELSE UNCHANGED <<agents, tables>>

\* DELETE /agents/:agent_id: the cache of this worker is emptied, and the state
\* read decides whether the agent is removed at once.
DeleteStart(w, a) ==
  /\ task[w] = Idle
  /\ agents[a] # None
  /\ cache' = [cache EXCEPT ![w][a] = None]
  /\ Goes(w, [op |-> IF agents[a].state = "polled" THEN "mark" ELSE "remove", id |-> a])
  /\ UNCHANGED <<agents, tables, captured>>

\* The answer is 200 also when the database refused.
DeleteRemove(w) ==
  /\ task[w].op = "remove"
  /\ RemoveAgent(task[w].id)
  /\ Goes(w, Idle)
  /\ UNCHANGED <<cache, captured>>

DeleteMark(w) ==
  /\ task[w].op = "mark"
  /\ LET a == task[w].id
     IN  agents' = IF agents[a] = None THEN agents ELSE [agents EXCEPT ![a].state = "terminated"]
  /\ Goes(w, Idle)
  /\ UNCHANGED <<tables, cache, captured>>
-----------------------------------------------------------------------------
(* process_agent in the worker that polls a *)
Polls(w, a) == captured[w][a] # None /\ task[w] = Idle

\* process_agent(agent, FAILED): a row that is gone or marked ends the poller, as
\* does the failure. When a marked agent cannot be removed, process_agent calls
\* itself until Python gives up.
Fail(w, a) ==
  /\ CASE agents[a] = None -> UNCHANGED <<agents, tables>>
       [] agents[a] # None /\ agents[a].state = "terminated" -> RemoveAgent(a)
       [] OTHER -> agents' = [agents EXCEPT ![a].state = "ended"] /\ UNCHANGED tables
  /\ captured' = [captured EXCEPT ![w][a] = None]

\* A quote is refused, or the poller meets a row that is gone or marked.
PollEnds(w, a) ==
  /\ Polls(w, a)
  /\ Fail(w, a)
  /\ UNCHANGED <<task, cache>>

\* Fault: what is cached is used, whatever its checksum.
PollChecksum_AnyEntry(w, a) ==
  /\ Polls(w, a)
  /\ agents[a] # None /\ agents[a].state # "terminated"
  /\ agents' = [agents EXCEPT ![a].state = "polled"]
  /\ IF cache[w][a] # None
     THEN captured' = [captured EXCEPT ![w][a] = cache[w][a].text] /\ UNCHANGED task
     ELSE /\ Goes(w, [op |-> "load", id |-> a, policy |-> agents[a].runtime,
                      sum |-> TextOf("runtime", agents[a].runtime)])
          /\ UNCHANGED captured
  /\ UNCHANGED <<tables, cache>>

\* verifier_read_policy_from_cache, once the row is written: the checksum is
\* read, and a policy that is cached under it is used.
PollChecksum(w, a) ==
  /\ Polls(w, a)
  /\ agents[a] # None /\ agents[a].state # "terminated"
  /\ agents' = [agents EXCEPT ![a].state = "polled"]
  /\ LET sum == TextOf("runtime", agents[a].runtime)
         c   == cache[w][a]
     IN  IF c # None /\ c.sum = sum
         THEN captured' = [captured EXCEPT ![w][a] = c.text] /\ UNCHANGED task
         ELSE /\ Goes(w, [op |-> "load", id |-> a, policy |-> agents[a].runtime, sum |-> sum])
              /\ UNCHANGED captured
  /\ UNCHANGED <<tables, cache>>

\* Otherwise its text is loaded by a second statement, and the entries under
\* other checksums are dropped. The policy may be gone with its agent.
PollLoad(w) ==
  /\ task[w].op = "load"
  /\ LET a == task[w].id
     IN  IF task[w].policy \in Ids("runtime")
         THEN LET x == TextOf("runtime", task[w].policy)
              IN  /\ cache' = [cache EXCEPT ![w][a] = [sum |-> task[w].sum, text |-> x]]
                  /\ captured' = [captured EXCEPT ![w][a] = x]
                  /\ UNCHANGED <<agents, tables>>
         ELSE Fail(w, a) /\ UNCHANGED cache
  /\ Goes(w, Idle)

Next ==
  \E w \in Workers :
    \/ \E req \in Changes : AllowlistRequest(w, req) \/ MbpolicyRequest(w, req)
    \/ WritePolicy(w)
    \/ \E req \in PostRequests : PostStart(w, req)
    \/ PostRuntime(w) \/ PostMb(w) \/ PostAgent(w)
    \/ \E t \in Tables : PostStore(w, t)
    \/ \E a \in Agents : DeleteStart(w, a) \/ PollEnds(w, a) \/ PollChecksum(w, a)
    \/ DeleteRemove(w) \/ DeleteMark(w) \/ PollLoad(w)

Spec == Init /\ [][Next]_vars

\* Timers fire and a worker finishes what it began.
Work(w) == \/ WritePolicy(w) \/ PostRuntime(w) \/ PostMb(w) \/ PostAgent(w)
           \/ \E t \in Tables : PostStore(w, t)
           \/ DeleteRemove(w) \/ DeleteMark(w) \/ PollLoad(w)
FairSpec == /\ Spec
            /\ \A w \in Workers : WF_vars(Work(w))
            /\ \A w \in Workers, a \in Agents : SF_vars(PollChecksum(w, a))
-----------------------------------------------------------------------------
\* The type invariant: the tables, the references, the tasks and the cache.
TypeOK ==
  /\ \A t \in Tables, n \in AllNames :
       Stored(t, n) => tables[t][n].id \in Nat \ {0} /\ tables[t][n].text \in AllTexts
  /\ \A a \in Agents : agents[a] # None => agents[a].state \in {"polled", "ended", "terminated"}
  /\ \A w \in Workers : task[w].op \in {"idle", "post", "create", "replace", "drop", "mark", "remove", "load"}
  /\ \A w \in Workers, a \in Agents :
       /\ captured[w][a] \in Texts \cup {DefaultText, "to read", None}
       /\ cache[w][a] # None => cache[w][a].text \in Texts \cup {DefaultText}

\* The policies an agent was added with are the ones its row refers to as long
\* as it exists, whichever handlers of other workers create, replace and remove
\* policies between the two or three commits of its POST (cv 576-764).
RefersToNamedPolicy ==
  \A a \in Agents : agents[a] # None =>
    \A t \in Tables : LET n == agents[a].asked[t]
                      IN  Stored(t, n) /\ tables[t][n].id = agents[a][t]

\* A DELETE that is answered 200 (cv 478-485; tenant.py:886 "Agent %s deleted from
\* the CV") takes the row and the policies of the agent's name, or none of them; and
\* none only if another agent was added with a policy of that name.
Shared(a) == \E b \in Agents \ {a}, t \in Tables : agents[b] # None /\ agents[b].asked[t] = a
Removes(a) ==
  \/ agents'[a] = None /\ \A t \in Tables : tables'[t][a] = None
  \/ Shared(a) /\ UNCHANGED <<agents, tables>>
RemovalStep == \A w \in Workers : task[w].op = "remove" /\ task'[w] = Idle => Removes(task[w].id)
DeletedMeansGone == [][RemovalStep]_vars

\* A policy that is replaced, and then left alone, is enforced sooner or later
\* by whoever polls the agent, whatever is in the caches (cv 133-170, 1827).
UpdateIsEnforced ==
  \A w \in Workers, a \in Agents, x \in Texts :
    <>[](/\ captured[w][a] # None
         /\ agents[a] # None /\ agents[a].state # "terminated"
         /\ TextOf("runtime", agents[a].runtime) = x)
      => <>[](captured[w][a] = x)
=============================================================================
