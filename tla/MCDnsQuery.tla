---------------------------- MODULE MCDnsQuery ----------------------------
(* One or two nameservers, or the same one listed twice; late replies of    *)
(* every kind, one duplicate and one stray cross the two rounds.            *)
EXTENDS DnsQuery

CONSTANTS ns1, ns2

MCServerLists == {<<ns1>>, <<ns1, ns2>>, <<ns1, ns1>>}
=============================================================================
