------------------------------ MODULE MCRouting ------------------------------
(* Requests for Routing: every method, path of up to four elements, origin   *)
(* and place of the client, and the malformed requests one flaw at a time.   *)
EXTENDS Routing

MCName == {"YouTube", "netflix", "cut off", "unknown"}

MCElement ==
  << {"base", "word", "long"}, MCName \cup {"", "long"},
     {"run", "num", "word", "dial_data", "", "long"}, {"hide", "word", "", "long"} >>

MCAppsPath ==
  UNION {{p \in [1..n -> UNION {MCElement[i] : i \in 1..n}] :
            \A i \in 1..n : p[i] \in MCElement[i]} : n \in 1..4}
MCLocalPath ==
  UNION {[1..n -> {"uuid", "word", "dial_data", "", "long"}] : n \in 1..3}

MCRequest ==
  [server : {"apps"}, method : Method, path : MCAppsPath, origin : Origin,
   flaw : {"none"}, loopback : BOOLEAN, instance : BOOLEAN]
  \cup
  [server : {"apps"}, method : Method, path : {<<"base", "netflix">>},
   origin : {"none"}, flaw : Flaw, loopback : {FALSE}, instance : {FALSE}]
  \cup
  [server : {"local"}, method : Method, path : MCLocalPath, origin : {"none"},
   flaw : {"none"}, loopback : {TRUE}, instance : {FALSE}]
=============================================================================
