------------------------------ MODULE MCPasses ------------------------------
(***************************************************************************)
(* Passes over every short sequence of these rows, lines and entries.      *)
(***************************************************************************)
EXTENDS Passes

\* What umdns_mdns_parse_answers can produce, two values per field at most.
A(h, a)      == [NoRow EXCEPT !.rrtype = "A", !.hostname = h, !.address = a]
Ptr(t, i)    == [NoRow EXCEPT !.rrtype = "PTR", !.service_type = t, !.instance = i]
Srv(i, h, p) == [NoRow EXCEPT !.rrtype = "SRV", !.instance = i, !.hostname = h, !.port = p]
Text(i, t)   == [NoRow EXCEPT !.rrtype = "TXT", !.instance = i, !.txt = t]

MCParsed ==
  {A("box.local", "192.0.2.7"),
   Ptr(EnumType, "_http._tcp.local"), Ptr(EnumType, "_ssh._tcp.local"), Ptr(EnumType, ""),
   Ptr("_http._tcp.local", "web._http._tcp.local"),
   Srv("web._http._tcp.local", "box.local", 80),
   Srv("web._http._tcp.local", "den.local", 81),
   Text("web._http._tcp.local", "path=/"),
   \* an empty TXT and an SRV of port 0 at the root name differ in rr type only
   Text("", ""), Srv("", "", 0)}

\* Names: "giant" stands for 300 characters, "gian" for the first 255.
MCLabelLen ==
  [l \in {"", "local", "localhost", "umdns", "_services", "_dns-sd", "_udp", "web",
          "giant", "gian"} |->
     CASE l = "" -> 0 [] l = "giant" -> 300 [] l = "gian" -> 255 [] OTHER -> 5]
MCLabels == DOMAIN MCLabelLen
MCFold == [l \in MCLabels |-> l]
MCTexts == {"", "essay"}
MCAddresses == {"0.0.0.0", "::", "127.0.0.1", "::1", "192.0.2.7", "192.0.2.8",
                "2001:db8::7", "2001:db8::8", "fe80::7"}
Giant == <<"giant">>
Gian  == <<"gian">>
MCFileNames == {<<"web">>, Giant, Gian}
MCCut == [n \in MCFileNames |-> IF n = Giant THEN Gian ELSE n]

Section(n) == [kind |-> "section", closed |-> TRUE, service |-> TRUE, name |-> n]
Key(k, v)  == [kind |-> k, assigned |-> TRUE, value |-> v]
MCLines ==
  {Section(<<"web">>), Section(Giant), Section(Gian),
   [Section(<<"web">>) EXCEPT !.closed = FALSE], [Section(<<"web">>) EXCEPT !.service = FALSE],
   Key("port", 80), Key("port", 65536), Key("host", Giant),
   Key("txt", [text |-> "essay", len |-> 600])}

If(name, f, scope, a) ==
  [name |-> name, up |-> TRUE, loopback |-> name = "lo", family |-> f, scope |-> scope,
   address |-> a]
MCEntries ==
  {If("lo", "inet", "loopback", "127.0.0.1"), If("lo", "inet6", "loopback", "::1"),
   If("eth0", "inet", "global", "192.0.2.7"), If("eth0", "inet6", "link", "fe80::7"),
   If("eth0", "inet6", "global", "2001:db8::7"), If("eth1", "other", "global", "::"),
   If("eth1", "inet", "global", "192.0.2.8"), If("eth1", "inet6", "global", "2001:db8::8"),
   [If("eth1", "inet", "global", "192.0.2.7") EXCEPT !.up = FALSE]}
=============================================================================
