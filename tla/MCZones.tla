-------------------------------- MODULE MCZones --------------------------------
(***************************************************************************)
(* Zones on a small instance: a domain and one below it, either of which   *)
(* may be a zone, and a host that belongs to whichever is the closest.     *)
(***************************************************************************)
EXTENDS Zones, TLC

MCDomains == {<<"x">>, <<"b", "x">>}
MCHosts == {<<"b", "x">>}
MCStar == "*"
MCForms == {[name |-> <<"*">>, type |-> "A", value |-> "one"],
            [name |-> <<"b">>, type |-> "CNAME", value |-> "two"],
            [name |-> <<>>, type |-> "NS", value |-> "ns2"],
            [name |-> <<"b">>, type |-> "TXT", value |-> "token"]}
MCChallenges == {f \in MCForms : f.type = "TXT"}
MCAddresses == {[type |-> "A", value |-> "one"]}
MCSettings == {{}, {"ns1"}}
MCQueries == {<<"x">>, <<"b", "x">>, <<"c", "x">>, <<"c", "b", "x">>}

ZonesSymmetry == Permutations(Callers)

===============================================================================
