----------------------------- MODULE BootTests ------------------------------
(* The tests a measured boot policy is built from. A test is a record; applied to
   a subject and to the variables the tests share it passes or not, and may change
   the variables. Subjects are numbers, strings, sequences (JSON lists) and records
   (JSON objects); what a test says of a subject it rejects is left out. *)
EXTENDS Naturals, Sequences, FiniteSets, SequencesExt

\* GUIDs of variables and of signature types, the Old ones in the byte order of
\* tpm2-tools before 5.2.
GlobalOld == "61dfe48b-ca93-d211-aa0d-00e098032b8c"
Global    == "8be4df61-93ca-11d2-aa0d-00e098032b8c"
ImageOld  == "cbb219d7-3a3d-9645-a3bc-dad00e67656f"
Image     == "d719b2cb-3d3a-4596-a3bc-dad00e67656f"
ShimOld   == "50ab5d60-46e0-0043-abb6-3dd810dd8b23"
Shim      == "605dab50-e046-4300-abb6-3dd810dd8b23"
X509Old   == "a159c0a5-e494-a74a-87b5-ab155c2bf072"
X509      == "a5c059a1-94e4-4aa7-87b5-ab155c2bf072"
Sha256Old == "2616c4c1-4c50-9240-aca9-41f936934328"
Sha256    == "c1c41626-504c-4092-aca9-41f936934328"

AcceptAll == [op |-> "accept"]
RejectAll == [op |-> "reject"]
And(ts)   == [op |-> "and", tests |-> ts]
Or(ts)    == [op |-> "or",  tests |-> ts]
FieldTest(name, t)  == [op |-> "field", name |-> name, test |-> t]
FieldsTest(fields)  == And([i \in DOMAIN fields |-> FieldTest(fields[i][1], fields[i][2])])
IterateTest(t)      == [op |-> "iterate", test |-> t]
TupleTest(ts)       == [op |-> "tuple", tests |-> ts]
Equal(x)            == [op |-> "equal", expected |-> x]    \* IntEqual, StringEqual
RegExp(matched)     == [op |-> "regexp", matched |-> matched]
DigestsTest(good)   == [op |-> "digests", good |-> good]   \* pairs of algorithm and digest
DigestTest(d)       == DigestsTest({d})
OnceTest(id, t)     == [op |-> "once", id |-> id, test |-> t]
\* tests: pairs of the values of the keys and a test.
Dispatcher(keys, tests) == [op |-> "dispatch", keys |-> keys, tests |-> tests]
VariableDispatch(tests) ==
  FieldTest("Event",
    Dispatcher(<<"VariableName", "UnicodeName">>,
               {<<p[1], FieldTest("VariableData", p[2])>> : p \in tests}))
VariableTest(variable, names, t) ==
  [op |-> "variable", variable |-> variable, names |-> names, test |-> t]

SignatureTest(sig) == FieldsTest(<< <<"SignatureOwner", Equal(sig.SignatureOwner)>>,
                                    <<"SignatureData", Equal(sig.SignatureData)>> >>)
SignatureSetMember(sigs) == Or([i \in DOMAIN sigs |-> SignatureTest(sigs[i])])
KeysOf(type, keys) ==
  And(<<FieldTest("SignatureType", Equal(type)),
        FieldTest("Keys", IterateTest(SignatureSetMember(keys)))>>)
KeySubset(type, keys)       == IterateTest(KeysOf(type, keys))
KeySubsetMulti(types, keys) == IterateTest(Or([i \in DOMAIN types |-> KeysOf(types[i], keys)]))
SupersetOfDicts(reqs)       == [op |-> "superset", reqs |-> reqs]
KeySuperset(type, keys) ==
  TupleTest(<<And(<<FieldTest("SignatureType", Equal(type)),
                    FieldTest("Keys", SupersetOfDicts(ToSet(keys)))>>)>>)

\* A test that stashes its subject under a name, and one of what was stashed.
DelayedField(name)           == [op |-> "delay", name |-> name]
DelayInitializer(names)      == [op |-> "initialize", names |-> names]
DelayToFields(names, t)      == [op |-> "delayed", names |-> names, test |-> t]
-----------------------------------------------------------------------------
\* Shared variables: the stashed fields, and the OnceTests that were executed.
NoGlobals == [fields |-> <<>>, executed |-> {}]
Pass(g) == [ok |-> TRUE,  globs |-> g]
Fail(g) == [ok |-> FALSE, globs |-> g]

Restrained(f, names) == [n \in names |-> f[n]]

RECURSIVE WhyNot(_, _, _)

\* In series, as far as the first that fails.
AndWhyNot(ts, g, s) ==
  FoldLeft(LAMBDA r, t : IF r.ok THEN WhyNot(t, r.globs, s) ELSE r, Pass(g), ts)

\* In series, as far as the first that passes; what the others changed remains.
OrWhyNot(ts, g, s) ==
  FoldLeft(LAMBDA r, t : IF r.ok THEN r ELSE WhyNot(t, r.globs, s), Fail(g), ts)

DispatcherWhyNot(t, g, s) ==
  LET vals == [i \in DOMAIN t.keys |-> s[t.keys[i]]]
      found == {p \in t.tests : p[1] = vals}
  IN  IF \/ \E k \in Range(t.keys) : k \notin DOMAIN s
         \/ found = {}
      THEN Fail(g) ELSE WhyNot((CHOOSE p \in found : TRUE)[2], g, s)

FieldWhyNot(t, g, s) ==
  IF t.name \notin DOMAIN s THEN Fail(g) ELSE WhyNot(t.test, g, s[t.name])

IterateWhyNot(t, g, s) ==
  FoldLeft(LAMBDA r, elt : IF r.ok THEN WhyNot(t, r.globs, elt) ELSE r, Pass(g), s)

TupleWhyNot(ts, g, s) ==
  IF Len(s) # Len(ts) THEN Fail(g)
  ELSE FoldLeft(LAMBDA r, i : IF r.ok THEN WhyNot(ts[i], r.globs, s[i]) ELSE r,
                Pass(g), [i \in 1..Len(ts) |-> i])

DelayedFieldWhyNot(name, g, s) ==
  IF name \notin DOMAIN g.fields THEN Fail(g)
  ELSE Pass([g EXCEPT !.fields[name] = Append(@, s)])

InitializerWhyNot(names, g) ==
  Pass([g EXCEPT !.fields =
          [n \in names \cup DOMAIN g.fields |-> IF n \in names THEN <<>> ELSE g.fields[n]]])

DelayToFieldsWhyNot(t, g) == WhyNot(t.test, g, Restrained(g.fields, t.names))

\* One digest of an approved algorithm and value is enough.
DigestsWhyNot(good, g, s) ==
  IF "Digests" \in DOMAIN s /\ Range(s.Digests) \cap good # {} THEN Pass(g) ELSE Fail(g)

VariableWhyNot(t, g, s) ==
  IF "Event" \in DOMAIN s /\ s.Event.VariableName = t.variable /\ s.Event.UnicodeName \in t.names
  THEN WhyNot(t.test, g, s.Event.VariableData) ELSE Fail(g)

SupersetWhyNot(reqs, g, s) == IF reqs \subseteq Range(s) THEN Pass(g) ELSE Fail(g)

\* Fault: the test is not marked.
OnceWhyNot_Unmarked(t, g, s) ==
  IF t.id \in g.executed THEN Fail(g) ELSE WhyNot(t.test, g, s)

\* Marked before its test is applied, also when that fails.
OnceWhyNot(t, g, s) ==
  IF t.id \in g.executed THEN Fail(g)
  ELSE WhyNot(t.test, [g EXCEPT !.executed = @ \cup {t.id}], s)

WhyNot(t, g, s) ==
  CASE t.op = "accept"     -> Pass(g)
    [] t.op = "reject"     -> Fail(g)
    [] t.op = "and"        -> AndWhyNot(t.tests, g, s)
    [] t.op = "or"         -> OrWhyNot(t.tests, g, s)
    [] t.op = "field"      -> FieldWhyNot(t, g, s)
    [] t.op = "iterate"    -> IterateWhyNot(t.test, g, s)
    [] t.op = "tuple"      -> TupleWhyNot(t.tests, g, s)
    [] t.op = "dispatch"   -> DispatcherWhyNot(t, g, s)
    [] t.op = "equal"      -> IF s = t.expected THEN Pass(g) ELSE Fail(g)
    [] t.op = "regexp"     -> IF s \in t.matched THEN Pass(g) ELSE Fail(g)
    [] t.op = "digests"    -> DigestsWhyNot(t.good, g, s)
    [] t.op = "variable"   -> VariableWhyNot(t, g, s)
    [] t.op = "superset"   -> SupersetWhyNot(t.reqs, g, s)
    [] t.op = "once"       -> OnceWhyNot(t, g, s)
    [] t.op = "delay"      -> DelayedFieldWhyNot(t.name, g, s)
    [] t.op = "initialize" -> InitializerWhyNot(t.names, g)
    [] t.op = "delayed"    -> DelayToFieldsWhyNot(t, g)
=============================================================================
