------------------------------ MODULE MCServer ------------------------------
(***************************************************************************)
(* Small instances of Server: a handful of names with their real lengths,  *)
(* configurations that a file can produce, and the questions they invite.  *)
(***************************************************************************)
EXTENDS Server

MCLabelLen ==
  [l \in {"", "local", "LOCAL", "localhost", "_services", "_dns-sd", "_udp", "_tcp",
          "_http", "_HTTP", "_ssh", "web", "blog", "box", "umdns", "long", "giant", "gian"} |->
     CASE l = ""          -> 0
       [] l = "local"     -> 5
       [] l = "LOCAL"     -> 5
       [] l = "localhost" -> 9
       [] l = "_services" -> 9
       [] l = "_dns-sd"   -> 7
       [] l \in {"_udp", "_tcp", "_ssh", "blog"} -> 4
       [] l \in {"_http", "_HTTP", "umdns"} -> 5
       [] l \in {"web", "box"} -> 3
       [] l = "long"      -> 64
       [] l = "giant"     -> 300
       [] l = "gian"      -> 255]
MCLabels == DOMAIN MCLabelLen
MCFold ==
  [l \in MCLabels |-> CASE l = "LOCAL" -> "local" [] l = "_HTTP" -> "_http" [] OTHER -> l]

MCTexts == {"", "path=/", "essay"}
MCAddresses == {"0.0.0.0", "::", "192.0.2.7", "2001:db8::7", "127.0.0.1", "::1"}

Http == <<"_http", "_tcp">>
Ssh  == <<"_ssh", "_tcp">>
Giant == <<"giant">>
MCFileNames ==
  {<<"web">>, <<"blog">>, <<"long">>, <<"web", "blog">>, Giant, <<"localhost">>, Http, Ssh,
   <<"_HTTP", "_tcp", "LOCAL">>, <<"_http", "_tcp", "local", "">>,
   <<"web", "_HTTP">>, <<"_tcp">>}
MCCut == [n \in MCFileNames |-> IF n = Giant THEN <<"gian">> ELSE n]

Section(n) == [kind |-> "section", closed |-> TRUE, service |-> TRUE, name |-> n]
Set(k, v) == [kind |-> k, assigned |-> TRUE, value |-> v]
Svc(inst, type, port) == <<Section(inst), Set("type", type), Set("port", port)>>
Path == Set("txt", [text |-> "path=/", len |-> 6])
Essay == Set("txt", [text |-> "essay", len |-> 300])
Web == Append(Svc(<<"web">>, Http, 8080), Path)

\* config/umdns_server.ini, with a "host" line that must not matter.
Shipped == Append(Web, Set("host", <<"localhost">>)) \o Svc(<<"blog">>, Ssh, 22)
\* A section without a type, a fully qualified type in capitals, a long text.
Untyped == <<Section(<<"blog">>)>> \o Append(Svc(<<"web">>, <<"_HTTP", "_tcp", "LOCAL">>, 80), Essay)
\* Instances whose name is a label too long, beside a proper service.
TooLong == Svc(<<"long">>, Http, 80) \o Svc(Giant, Http, 80) \o Svc(<<"web">>, Ssh, 22)
\* Two sections of one type.
Twins == Web \o Svc(<<"blog">>, Http, 81)
\* A type written with a trailing dot, an instance with a dot in it.
Dotty == Svc(<<"web">>, <<"_http", "_tcp", "local", "">>, 80)
           \o Append(Svc(<<"web", "blog">>, Ssh, 22), Path)
\* Two instances whose names in full differ in case only.
Split == Svc(<<"web">>, Http, 80) \o Svc(<<"web", "_HTTP">>, <<"_tcp">>, 81)

LoopFiles   == {<< >>}
AnswerFiles == {<< >>, Shipped, Untyped, TooLong, Twins, Dotty, Split}
TwinFiles   == {Twins}

Eth0(f, a) == [name |-> "eth0", up |-> TRUE, loopback |-> FALSE, family |-> f,
               scope |-> "global", address |-> a]
Box == [named |-> TRUE, hostname |-> <<"box">>, wanted |-> "", listed |-> TRUE,
        entries |-> <<Eth0("inet", "192.0.2.7"), Eth0("inet6", "2001:db8::7")>>]
BoxLocal == [Box EXCEPT !.hostname = <<"box", "LOCAL">>, !.listed = FALSE]
LoopMachines == {Box}
AnswerMachines == {BoxLocal}

Ask(n, t) == [name |-> n, qtype |-> t]
Query(qs) == [from |-> "peer", questions |-> qs]
HttpLocal == <<"_http", "_tcp", "local">>

NotAQuestion == Query(<< >>)
AskEnum  == Query(<<Ask(EnumName, "PTR")>>)
AskHttp  == Query(<<Ask(HttpLocal, "PTR")>>)
AskHttpUpper == Query(<<Ask(<<"_HTTP", "_tcp", "local">>, "PTR")>>)
\* As decoded from labels of which the third holds a dot: "local.".
AskDotted == Query(<<Ask(<<"_http", "_tcp", "local", "", "local">>, "PTR")>>)
AskWeb(t) == Query(<<Ask(<<"web">> \o HttpLocal, t)>>)
AskHost(t) == Query(<<Ask(<<"box", "local">>, t)>>)
AskTwo   == Query(<<Ask(EnumName, "PTR"), Ask(<<"box", "local">>, "A")>>)

LoopDatagrams == {NotAQuestion, AskEnum}
TwoDatagrams  == {AskTwo}
HttpDatagrams == {AskHttp}
AnswerDatagrams ==
  {NotAQuestion, AskEnum, AskHttpUpper, AskDotted, AskTwo}
    \cup {AskWeb(t) : t \in {"SRV", "ANY"}}
    \cup {AskHost(t) : t \in {"TXT", "PTR"}}
=============================================================================
