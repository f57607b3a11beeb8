----------------------------- MODULE MCServices -----------------------------
(* Instances of Services for TLC.                                          *)
EXTENDS Services, TLC

CONSTANTS s1, s2, s3,       \* subscriptions to the event bus
          v0, v1, v2,       \* versions of an update
          w1, w2,           \* webhooks
          pk, i1            \* a packet and a rule of the intrusion detector

Stem == [n \in Names |-> n]           \* every plugin is called like its file

(* Dependency graphs up to a renaming of the plugins, which nothing else   *)
(* tells apart: one of each orbit.                                         *)
Renamed(g, f)  == [n \in Names |-> {m \in Names : f[m] \in g[f[n]]}]
UpToRenaming   == {CHOOSE g \in orbit : TRUE :
                     orbit \in {{Renamed(g, f) : f \in Permutations(Names)} : g \in [Names -> SUBSET Names]}}

(* An ordinary event and one of higher priority.                           *)
Published == {[type |-> "A", priority |-> 1], [type |-> "A", priority |-> 3]}

(* A subscription to the base class and two to one type, of which one with *)
(* a threshold that only the second event reaches.                         *)
Filters == s1 :> [types |-> {"A", "B"}, min |-> 0] @@ s2 :> [types |-> {"A"}, min |-> 2]
             @@ s3 :> [types |-> {"A"}, min |-> 0]

(* The default policy, and one that never retries.                         *)
Retries == w1 :> 3 @@ w2 :> 0
Asked   == w1 :> {"x", "y"} @@ w2 :> {"x"}

(* No retention, one by age and number, and one that keeps nothing.        *)
Retentions == {[enabled |-> FALSE, maxAge |-> 0, maxEntries |-> 1],
               [enabled |-> TRUE,  maxAge |-> 1, maxEntries |-> 3],
               [enabled |-> TRUE,  maxAge |-> 1, maxEntries |-> 0]}

(* Little room by size, and none at all: batches are empty then.           *)
Configured == {[items |-> 3, bytes |-> 2], [items |-> 0, bytes |-> 9]}

(* One port, and two at once.                                              *)
Scans == {<<1>>, <<1, 2>>}
(* A window that lies in the future keeps no entry.                        *)
Spans == {-1, 1, 2}
Traffic == pk :> {i1}                 \* one packet, which the rule matches

(* A network for any port, and a range of ports from anywhere that comes   *)
(* before what blockIP() enters.                                           *)
Callers ==
  {[priority |-> 1, action |-> "Allow", inbound |-> TRUE, source |-> 2, prefix |-> 1,
    range |-> <<0, 0>>, port |-> 0],
   [priority |-> -1, action |-> "Log", inbound |-> TRUE, source |-> AnySource, prefix |-> 0,
    range |-> <<1, 2>>, port |-> 0]}
Inbound == [inbound : {TRUE}, source : {2, 3}, port : {0, 2}]

(* A feed with an empty value and a URL, and one with the first part of an *)
(* address; a domain and values above, below and beside them.              *)
Ioc(type, value) == [type |-> type, value |-> value, active |-> TRUE]
Page    == <<"://", "a", ".", "c", ":", "8", "/", "x">>
Fed     == {<<Ioc("IP", <<>>), Ioc("URL", Page)>>, <<Ioc("IP", <<"1", ".">>)>>}
Entered == {Ioc("Domain", <<"c">>)}
Looked  == {Page, <<"a", ".", "c">>, <<"b", ".", "a", ".", "c">>, <<"b", "a", ".", "c">>, <<"c">>,
            <<"://", "a", ".", "c">>, <<"1", ".", "2">>, <<"1", ".">>, <<"1">>}
=============================================================================
