------------------------------- MODULE MCLan -------------------------------
(***************************************************************************)
(* Small instances of Lan: two servers with a service each, which one of   *)
(* them may lose, move to another port, or offer under the other's name.   *)
(***************************************************************************)
EXTENDS Lan

MCLabelLen ==
  [l \in {"", "local", "localhost", "umdns", "_services", "_dns-sd", "_udp", "_tcp", "_http",
          "web", "box", "den"} |->
     CASE l = "" -> 0
       [] l \in {"web", "box", "den"} -> 3
       [] l \in {"_udp", "_tcp"} -> 4
       [] l \in {"local", "umdns", "_http"} -> 5
       [] l = "_dns-sd" -> 7
       [] l \in {"localhost", "_services"} -> 9]
MCLabels == DOMAIN MCLabelLen
MCFold == [l \in MCLabels |-> l]
MCTexts == {"", "path=/"}
MCAddresses == {"0.0.0.0", "::", "127.0.0.1", "::1"}
MCFileNames == {<<"web">>, <<"_http", "_tcp">>}
MCCut == [n \in MCFileNames |-> n]

Set(k, v) == [kind |-> k, assigned |-> TRUE, value |-> v]
Web == <<[kind |-> "section", closed |-> TRUE, service |-> TRUE, name |-> <<"web">>],
         Set("type", <<"_http", "_tcp">>)>>
WebAt(port) == Append(Web, Set("port", port))
WithPath(f) == Append(f, Set("txt", [text |-> "path=/", len |-> 6]))

Called(n) == [named |-> TRUE, hostname |-> <<n>>, wanted |-> "", listed |-> FALSE,
              entries |-> << >>]
MCHosts == {"box", "den"}
MCMachineOf == [h \in MCHosts |-> Called(h)]
MCFilesOf == [h \in MCHosts |-> IF h = "box" THEN {WebAt(80), WithPath(WebAt(81))}
                                ELSE {WebAt(82)}]
MCMaxBoots == [h \in MCHosts |-> IF h = "box" THEN 2 ELSE 1]
=============================================================================
