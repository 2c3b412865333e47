---------------------------- MODULE MCDnsServer ----------------------------
(* DnsServer with interchangeable local endpoints and addresses: no          *)
(* definition tells one from another, and only safety is checked.            *)
EXTENDS DnsServer

Symmetry == {f @@ g : f \in Permutations(Endpoints), g \in Permutations(Addrs)}
=============================================================================
