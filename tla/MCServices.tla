----------------------------- MODULE MCServices -----------------------------
(* The services beside the attestation loop, one at a time: the registrar, the web
   framework under it, the policies of the verifier and the commands of tenants, the
   last two once alone and once with a second worker or tenant; and two agents, one
   of which is given the policy that bears the id of the other. part says which one
   moves; the others stay in an initial state. *)
EXTENDS MCRegistrar, Sequences

CONSTANTS a2, n1, x1, x2, p1, p2, c1, c2, DefaultText, NoBootPolicy

VARIABLES
  part,
  request, phase, route, ran, response,                \* Dispatch
  agents, tables, handler, cache, captured,            \* Policies
  reg, host, row, cmd, done, given, starts             \* Tenant

dispatchVars == <<request, phase, route, ran, response>>
policiesVars == <<agents, tables, handler, cache, captured>>
tenantVars   == <<reg, host, row, cmd, done, given, starts>>
allVars == <<part, vars, dispatchVars, policiesVars, tenantVars>>
-----------------------------------------------------------------------------
\* Requests to the registrar: agents and their activation, in both forms of the
\* version prefix, with and without what their action needs.
Seg(s) == <<s, "">>
MCHttpRequests ==
  [method : {"get", "post", "put", "delete", "patch", "trace"},
   path : {v \o p : v \in {<<Seg("v2")>>, <<<<"v2.", "1">>>>, <<Seg("v1")>>},
                    p \in {<<Seg("agents")>>, <<Seg("agents"), Seg("a")>>,
                           <<Seg("agents"), Seg("a"), Seg("activate")>>, <<Seg("agents"), Seg("activate")>>}}
          \cup {<<Seg("version")>>},
   secure : BOOLEAN, malformed : BOOLEAN,
   params : {{}, {"auth_tag"}, {"agent_id"}}]

Post(a, rn, rx, mn) ==
  [id |-> a, name |-> [runtime |-> rn, mb |-> mn], text |-> [runtime |-> rx, mb |-> None]]
MCPosts == {Post(a1, None, None, None), Post(a1, n1, None, None), Post(a1, None, x1, n1)}
Chg(op, t, x) == [op |-> op, table |-> t, name |-> n1, text |-> x]
MCChanges ==
  {Chg("create", "runtime", x1), Chg("create", "mb", x1), Chg("drop", "runtime", x1),
   Chg("replace", "runtime", x1), Chg("replace", "runtime", x2)}

\* Of these the ones two workers are given.
MCPosts2   == {Post(a1, n1, None, n1), Post(a1, None, x1, n1)}
MCChanges2 == {c \in MCChanges : c.op # "replace"}

\* One agent with policies of its own name, and one that is given that name for
\* one of its policies.
MCPosts3 == {Post(a1, None, None, None), Post(a2, a1, None, None), Post(a2, None, None, a1)}

D == INSTANCE Dispatch WITH HttpRequests <- MCHttpRequests
P == INSTANCE Policies WITH task <- handler, PolicyNames <- {n1}, Texts <- {x1, x2},
       PostRequests <- MCPosts, Changes <- MCChanges, Sqlite <- FALSE
P2 == INSTANCE Policies WITH Workers <- {w1, w2}, task <- handler, PolicyNames <- {n1}, Texts <- {x1},
        PostRequests <- MCPosts2, Changes <- MCChanges2, Sqlite <- FALSE
P3 == INSTANCE Policies WITH Agents <- {a1, a2}, task <- handler,
        PolicyNames <- {a1}, Texts <- {x1}, PostRequests <- MCPosts3, Changes <- {}, Sqlite <- FALSE
T == INSTANCE Tenant WITH Tenants <- {c1}, TPMs <- {p1, p2}, Genuine <- {p1},
       Commands <- {"add", "update", "delete", "reactivate", "status", "regdelete", "listmbpolicy"},
       MaxCommands <- 2, MaxChanges <- 1, Maxr <- 2
T2 == INSTANCE Tenant WITH Tenants <- {c1, c2}, TPMs <- {p1, p2}, Genuine <- {p1},
        Commands <- {"add", "delete"}, MaxCommands <- 2, MaxChanges <- 1, Maxr <- 1

\* The theorems about Tenant and Policies hold of these instances.
ASSUME TenantInstances   == T!TenantAssumption /\ T2!TenantAssumption
ASSUME PoliciesInstances == P!PoliciesAssumption /\ P2!PoliciesAssumption /\ P3!PoliciesAssumption
-----------------------------------------------------------------------------
ServicesInit ==
  /\ part \in {"registrar", "dispatch", "policies", "two workers", "two agents",
              "tenant", "two tenants"}
  /\ Init
  /\ D!Init /\ (part # "dispatch" => request = CHOOSE r \in MCHttpRequests : TRUE)
  /\ CASE part = "two workers" -> P2!Init [] part = "two agents" -> P3!Init [] OTHER -> P!Init
  /\ IF part = "two tenants" THEN T2!Init ELSE T!Init
  /\ part \notin {"tenant", "two tenants"} => reg = None /\ host.tpm = p1

RegistrarOnly     == part = "registrar" /\ UNCHANGED <<part, dispatchVars, policiesVars, tenantVars>>
DispatchOnly      == part = "dispatch" /\ UNCHANGED <<part, vars, policiesVars, tenantVars>>
PoliciesOnly(p)   == part = p /\ UNCHANGED <<part, vars, dispatchVars, tenantVars>>
TenantOnly(p)     == part = p /\ UNCHANGED <<part, vars, dispatchVars, policiesVars>>

ServicesNext ==
  \/ RegistrarOnly /\ Next
  \/ DispatchOnly /\ D!Next
  \/ PoliciesOnly("policies") /\ P!Next
  \/ PoliciesOnly("two workers") /\ P2!Next
  \/ PoliciesOnly("two agents") /\ P3!Next
  \/ TenantOnly("tenant") /\ T!Next
  \/ TenantOnly("two tenants") /\ T2!Next

\* The fairness of the parts with liveness, as their FairSpec has it.
ServicesSpec ==
  /\ ServicesInit /\ [][ServicesNext]_allVars
  /\ \A w \in Workers :
       /\ WF_allVars(PoliciesOnly("policies") /\ P!Work(w))
       /\ SF_allVars(PoliciesOnly("policies") /\ P!PollChecksum(w, a1))
  /\ WF_allVars(TenantOnly("tenant") /\ T!TenantStep(c1))
-----------------------------------------------------------------------------
\* The type invariants of the parts.
ServicesTypeOK ==
  /\ TypeOK
  /\ CASE part = "two workers" -> P2!TypeOK [] part = "two agents" -> P3!TypeOK [] OTHER -> P!TypeOK
  /\ IF part = "two tenants" THEN T2!TypeOK ELSE T!TypeOK

\* Dispatch: who may run what.
InsecureKeptOut == D!InsecureKeptOut

\* Policies: the references of an agent, with one worker and with two; removal, also
\* of an agent whose policy another one uses; and updates, enforced by one worker.
RefersToNamedPolicy == IF part = "two agents" THEN P3!RefersToNamedPolicy ELSE P!RefersToNamedPolicy
DeletedMeansGone ==
  [][/\ part = "policies" => P!RemovalStep
     /\ part = "two workers" => P2!RemovalStep
     /\ part = "two agents" => P3!RemovalStep]_allVars
UpdateIsEnforced    == part = "policies" => P!UpdateIsEnforced

\* Tenant: the key an agent gets, with one tenant and with two; what a command
\* says of its outcome, and that it has one, with one.
KeyReachesAttestedTPM == T!KeyReachesAttestedTPM
OkMeansDone           == [][part = "tenant" => T!OkStep(c1)]_allVars
CommandEnds           == part = "tenant" => T!CommandEnds
=============================================================================
