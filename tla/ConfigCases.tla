---------------------------- MODULE ConfigCases -----------------------------
(* The five releases of the templates in small: what their mappings do to the
   sections, with a few of the options. Releases 2.0 to 2.4 are 1 to 5. *)
EXTENDS Naturals, Sequences
To(s, o, d) == [section |-> s, option |-> o, default |-> d]
Subs == [revocations |-> "verifier", formatter |-> "logging"]
Full(v) ==
  [version |-> v, full |-> TRUE, subcomponents |-> Subs,
   components |->
     [agent |-> IF v = 1 THEN [uuid |-> To("cloud_agent", "agent_uuid", "default")]
                ELSE [uuid |-> To("agent", "uuid", "default"), iak |-> To("agent", "iak", "default")],
      verifier |-> [sig |-> IF v = 1 THEN To("cloud_verifier", "signatures", "default") ELSE To("verifier", "sig", "default")],
      revocations |-> [enabled |-> IF v = 1 THEN To("cloud_verifier", "revocations", "default") ELSE To("revocations", "enabled", "default")],
      registrar |-> [ip |-> To("registrar", "ip", "default")],
      logging |-> <<>>,
      formatter |-> [format |-> To("formatter", "format", "default")]]]
Ops(add, replace) == [add |-> add, remove |-> {}, replace |-> replace]
Update(v, cs) == [version |-> v, full |-> FALSE, subcomponents |-> <<>>, components |-> cs]
MCMappings ==
  <<Full(1), Full(2),
    Update(3, [agent |-> Ops([ima |-> "default"], <<>>)]),
    Update(4, [verifier |-> Ops(<<>>, [sig |-> To("verifier", "sig", "new")]),
               revocations |-> Ops(<<>>, [enabled |-> To("revocations", "enabled", "new")]),
               agent |-> Ops([handle |-> "default"], <<>>)]),
    Update(5, [agent |-> Ops([api |-> "default"], <<>>), registrar |-> Ops([malformed |-> "default"], <<>>),
               logging |-> Ops(<<>>, [format |-> To("formatter", "format", "new")])])>>
Version == {"version"}
MCTemplates ==
  [agent |-> [v \in 1..5 |-> [agent |-> Version \cup {"uuid"} \cup (IF v >= 2 THEN {"iak"} ELSE {}) \cup (IF v >= 3 THEN {"ima"} ELSE {})
               \cup (IF v >= 4 THEN {"handle"} ELSE {}) \cup (IF v >= 5 THEN {"api"} ELSE {})]],
   verifier |-> [v \in 1..5 |-> [verifier |-> Version \cup {"sig"}, revocations |-> {"enabled"}]],
   registrar |-> [v \in 1..5 |-> [registrar |-> Version \cup {"ip"} \cup (IF v = 5 THEN {"malformed"} ELSE {})]],
   logging |-> [v \in 1..5 |-> [logging |-> Version, formatter |-> {"format"}]]]
MCOrder == <<"agent", "verifier", "revocations", "registrar", "logging", "formatter">>
MCOldFormat == [x \in {<<"agent", "uuid">>, <<"verifier", "sig">>, <<"registrar", "ip">>} |->
   CASE x[1] = "agent" -> <<"cloud_agent", "agent_uuid">> [] x[1] = "verifier" -> <<"cloud_verifier", "signatures">> [] OTHER -> x]
MCSelections == {{"agent"}, {"verifier", "logging"}, {"registrar"}, {"agent", "verifier", "registrar", "logging"}}
=============================================================================
