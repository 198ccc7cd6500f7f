------------------------------ MODULE Dispatch ------------------------------
(* The web framework under the registrar: how one HTTP request finds its route,
   is handed to the action of a controller or to a default one, and is answered
   whatever fails on the way. Each request has a handler object of its own. *)
EXTENDS Naturals, Sequences

CONSTANTS
  HttpRequests,  \* requests: method, path, secure, and what comes with them
  None

VARIABLES
  request,   \* the request
  phase,     \* how far it came
  route,     \* matching_route
  ran,       \* the actions invoked: action_call_stack
  response   \* the status sent, or None

vars == <<request, phase, route, ran, response>>
-----------------------------------------------------------------------------
(* Patterns and paths are sequences of segments. A segment of a path is split in
   the part a pattern may name and the rest of it. *)
Lit(s)          == [lit |-> TRUE,  stem |-> s, param |-> None]
Param(prefix, p) == [lit |-> FALSE, stem |-> prefix, param |-> p]

\* route.capture_params does not raise PatternMismatch.
MatchesSegment(pat, seg) ==
  IF pat.lit THEN seg = <<pat.stem, "">>
  ELSE /\ seg # <<pat.stem, "">>
       /\ pat.stem = "" \/ seg[1] = pat.stem
MatchesPath(r, path) ==
  /\ Len(r.pattern) = Len(path)
  /\ \A i \in 1..Len(path) : MatchesSegment(r.pattern[i], path[i])

Matches(r, method, path) == r.method = method /\ MatchesPath(r, path)

\* The route an index of the scoped list comes from, and its first segment there:
\* each route is listed under the major version and then under the minor ones.
Unscoped(i) == (i + 1) \div 2
Scope(i) == IF i % 2 = 1 THEN Lit("v2") ELSE Param("v2.", "minor")

\* Fault: the routes of minor versions are open to plain HTTP.
VersionScope_MinorOpen(routes) ==
  [i \in 1..(2 * Len(routes)) |->
    [routes[Unscoped(i)] EXCEPT !.pattern = <<Scope(i)>> \o @,
                                !.insecure = @ \/ i % 2 = 0]]

\* server.version_scope(2): each route under /v2 and under /v2.:minor.
VersionScope(routes) ==
  [i \in 1..(2 * Len(routes)) |->
    [routes[Unscoped(i)] EXCEPT !.pattern = <<Scope(i)>> \o @]]

Route(method, pattern, action, insecure) ==
  [method |-> method, pattern |-> pattern, action |-> action, insecure |-> insecure]

\* RegistrarServer._routes, in order.
AgentsPath   == <<Lit("agents")>>
AgentPath    == <<Lit("agents"), Param("", "agent_id")>>
ActivatePath == <<Lit("agents"), Param("", "agent_id"), Lit("activate")>>

V2Routes ==
  <<Route("get",    AgentsPath,   "index",    FALSE),
    Route("get",    AgentPath,    "show",     FALSE),
    Route("delete", AgentPath,    "delete",   FALSE),
    Route("post",   AgentsPath,   "create",   TRUE),
    Route("post",   ActivatePath, "activate", TRUE),
    Route("post",   AgentPath,    "create",   TRUE),
    Route("put",    ActivatePath, "activate", TRUE),
    Route("put",    AgentPath,    "activate", TRUE)>>

Routes == VersionScope(V2Routes)
          \o <<Route("get", <<Lit("version")>>, "version", TRUE)>>

\* server.first_matching_route(method, path), or None.
FirstMatching(method, path) ==
  LET found == {i \in 1..Len(Routes) : Matches(Routes[i], method, path)}
  IN  IF found = {} THEN None
      ELSE Routes[CHOOSE i \in found : \A j \in found : i <= j]

\* Arguments an action has no default for.
Required(action) ==
  CASE action \in {"show", "create", "delete"} -> {"agent_id"}
    [] action = "activate" -> {"agent_id", "auth_tag"}
    [] OTHER -> {}
PathParams(r) == {r.pattern[i].param : i \in 1..Len(r.pattern)} \ {None}
-----------------------------------------------------------------------------
SupportedMethods == {"get", "head", "post", "put", "patch", "delete", "options"}

Init ==
  /\ request \in HttpRequests
  /\ phase = "arrived"
  /\ route = None
  /\ ran = <<>>
  /\ response = None

\* An action of the default controller answers; with malformed parameters the
\* parameters it is to be called with cannot be put together (get_params looks
\* up the kind that was not added), and the exception leaves the handler.
InvokeDefault(action, status) ==
  /\ ran' = Append(ran, action)
  /\ IF request.malformed THEN phase' = "error" /\ UNCHANGED response
     ELSE phase' = "done" /\ response' = status

\* A method the server does not know: write_error(405).
UnsupportedMethod ==
  /\ phase = "arrived"
  /\ request.method \notin SupportedMethods
  /\ ran' = Append(ran, "unsupported_method")
  /\ phase' = "done"
  /\ response' = IF request.malformed THEN 405 ELSE 501
  /\ UNCHANGED <<request, route>>

\* prepare(): the route is looked up, and a request over HTTP for a route that
\* is for HTTPS only is answered here.
Prepare ==
  /\ phase = "arrived"
  /\ request.method \in SupportedMethods
  /\ LET r == FirstMatching(request.method, request.path)
         known == \E i \in 1..Len(Routes) : MatchesPath(Routes[i], request.path)
     IN  /\ CASE r = None /\ known  -> InvokeDefault("method_not_allowed", 405) /\ UNCHANGED route
              [] r = None /\ ~known -> InvokeDefault("not_found", 404) /\ UNCHANGED route
              [] r # None /\ ~request.secure /\ ~r.insecure ->
                   InvokeDefault("https_required", 400) /\ UNCHANGED route
              [] OTHER -> route' = r /\ phase' = "matched" /\ UNCHANGED <<ran, response>>
  /\ UNCHANGED request

\* process_request(): malformed parameters, and parameters that do not fit the
\* action, are answered by the default controller.
Reject ==
  /\ phase = "matched"
  /\ \/ /\ request.malformed
        /\ InvokeDefault("malformed_params", 400)
     \/ /\ ~request.malformed
        /\ ~(Required(route.action) \subseteq PathParams(route) \cup request.params)
        /\ InvokeDefault("action_dispatch_error", 400)
  /\ UNCHANGED <<request, route>>

\* The action of the route is called: it answers, raises an exception, or ends
\* without an answer (_handle_incomplete_action).
RunAction ==
  /\ phase = "matched"
  /\ ~request.malformed
  /\ Required(route.action) \subseteq PathParams(route) \cup request.params
  /\ \/ /\ ran' = Append(ran, route.action)
        /\ response' = 200
     \/ /\ ran' = ran \o <<route.action, "action_exception">>
        /\ response' = 500
     \/ /\ ran' = ran \o <<route.action, "incomplete_action">>
        /\ response' = 500
  /\ phase' = "done"
  /\ UNCHANGED <<request, route>>

\* write_error(500): an exception that left the handler. The default action
\* meets the same malformed parameters, and the server ends the request itself.
WriteError ==
  /\ phase = "error"
  /\ ran' = Append(ran, "handler_exception")
  /\ response' = 500
  /\ phase' = "done"
  /\ UNCHANGED <<request, route>>

Next == UnsupportedMethod \/ Prepare \/ Reject \/ RunAction \/ WriteError

Spec == Init /\ [][Next]_vars
-----------------------------------------------------------------------------
Ran == {ran[i] : i \in 1..Len(ran)}

\* Over plain HTTP no request reaches what is for mutually authenticated TLS
\* (allow_insecure of the routes, the early answer of prepare): not the list of
\* agents, an agent's record or its removal, under any path or version.
InsecureKeptOut ==
  ~request.secure => Ran \cap {"index", "show", "delete"} = {}
=============================================================================
