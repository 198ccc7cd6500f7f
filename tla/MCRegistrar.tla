---- MODULE MCRegistrar ----
(* Small instances of the registrar: the keys of two TPMs, and registrations
   that give all of the fields, some of them, wrong ones and null ones. *)
EXTENDS Registrar, TLC

CONSTANTS a1, w1, w2, e1, e2, k1, k2, k3, i1, t1, t2

\* e1, k1, k3 and i1 live in one TPM, e2 and k2 in the other.
MCHome == e1 :> t1 @@ k1 :> t1 @@ k3 :> t1 @@ i1 :> t1 @@ e2 :> t2 @@ k2 :> t2

Cert(k, trusted, strict) == [key |-> k, trusted |-> trusted, strict |-> strict]
Good(k) == Cert(k, TRUE, TRUE)
Req(fields, attest) == [fields |-> fields, attest |-> attest]
Plain(ek, ak) == "ek_tpm" :> ek @@ "aik_tpm" :> ak
Attest == [iak |-> i1, ak |-> k1]
IakKeys == "iak_tpm" :> i1 @@ "idevid_tpm" :> i1
IakCerts(c) == "iak_cert" :> c @@ "idevid_cert" :> Good(i1)

\* Agents that register with their EK, with or without its certificate.
EkRequests ==
  {Req(Plain(ek, ak), None) : ek \in {e1, e2}, ak \in {k1, k2}}
  \cup {Req(Plain(e1, k1) @@ "ekcert" :> c, None) : c \in {Good(e1), Cert(e1, FALSE, FALSE), Good(e2), None}}
  \cup {Req("ek_tpm" :> e2, None), Req("aik_tpm" :> k3, None), Req("ekcert" :> Good(e2), None),
        Req("ek_tpm" :> None @@ "aik_tpm" :> k1, None),
        Req(Plain(Malformed, k1), None),
        Req(Plain(e1, k1) @@ "mtls_cert" :> Disabled, None)}

\* Agents that present an IAK and an IDevID as well.
IakRequests ==
  {Req(Plain(e1, k1) @@ IakKeys @@ IakCerts(c), at) :
     c \in {Good(i1), Cert(i1, FALSE, TRUE), Good(e1)}, at \in {Attest, None}}
  \cup {Req(Plain(e1, k1) @@ IakKeys, Attest), Req(Plain(e1, k1) @@ IakCerts(Good(i1)), Attest),
        Req("iak_tpm" :> None, None)}

MCRequests == EkRequests \cup IakRequests
====
