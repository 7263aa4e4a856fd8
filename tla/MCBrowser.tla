----------------------------- MODULE MCBrowser -----------------------------
(***************************************************************************)
(* Small instances of Browser: two service types that can be asked for and *)
(* one that cannot, one instance, one host.                                *)
(***************************************************************************)
EXTENDS Browser

HttpType == "_http._tcp.local"
SshType == "_ssh._tcp.local"
LongType == "long._tcp.local"
Row(rr, i, h, t, a, p) ==
  [NoRow EXCEPT !.rrtype = rr, !.instance = i, !.hostname = h, !.service_type = t,
                !.address = a, !.port = p]
EnumHttp == Row("PTR", HttpType, "", EnumType, "", 0)
EnumSsh  == Row("PTR", SshType, "", EnumType, "", 0)
EnumLong == Row("PTR", LongType, "", EnumType, "", 0)
PtrWeb   == Row("PTR", "web._http._tcp.local", "", HttpType, "", 0)
SrvWeb   == Row("SRV", "web._http._tcp.local", "box.local", "", "", 80)
HostBox  == Row("A", "", "box.local", "", "192.0.2.7", 0)

Endless == {0}
TwoTimeouts == {0, 3}
MCRows == {EnumHttp, EnumSsh, EnumLong, PtrWeb, SrvWeb, HostBox}
ManyTypes == {<<EnumLong, EnumHttp>>, <<EnumSsh>>}
AllDatagrams == {<<EnumHttp>>, <<EnumLong, EnumSsh>>, <<EnumSsh, PtrWeb, SrvWeb>>}
HostDatagrams == {<<HostBox>>}

\* The names in pieces; "long" has 64 octets.
PieceLen ==
  [l \in {"", "local", "localhost", "umdns", "_services", "_dns-sd", "_udp", "_tcp", "_http",
          "_ssh", "web", "long"} |->
     CASE l = "" -> 0
       [] l = "web" -> 3
       [] l \in {"_udp", "_tcp", "_ssh"} -> 4
       [] l \in {"local", "umdns", "_http"} -> 5
       [] l = "_dns-sd" -> 7
       [] l \in {"localhost", "_services"} -> 9
       [] l = "long" -> 64]
Wire == INSTANCE Dns WITH
  Labels <- DOMAIN PieceLen, LabelLen <- PieceLen, Fold <- [l \in DOMAIN PieceLen |-> l],
  Texts <- {""}, Addresses <- {"0.0.0.0", "::"}, OutLen <- 1500
Pieces(t) ==
  CASE t = EnumType -> Wire!EnumName
    [] t = HttpType -> <<"_http", "_tcp", "local">>
    [] t = SshType  -> <<"_ssh", "_tcp", "local">>
    [] t = LongType -> <<"long", "_tcp", "local">>
    [] t = PtrWeb.instance -> <<"web", "_http", "_tcp", "local">>
    [] OTHER -> << >>
MCQueryFor == [t \in TypeNames |-> Wire!BuildQuery(Pieces(t))]
MCNoQuery == Wire!Unbuilt
=============================================================================
