----------------------------- MODULE Responder -----------------------------
(***************************************************************************)
(* What umdns_server answers: the question dispatch of handle_question     *)
(* (src/src/server/main.c) and the three response builders it calls        *)
(* (src/src/common/mdns.c), over a configuration                           *)
(*   [hostname, ipv4, ipv6, host_txt, services]                            *)
(* whose services are records [instance, type, host, port, txt].           *)
(***************************************************************************)
EXTENDS Dns

\* Query types the dispatch tells apart; the code's 255 is "ANY".
QTypes == {"A", "AAAA", "PTR", "SRV", "TXT", "ANY", "other"}

TypeName(s) == Normalize(s.type)
InstanceName(s) == Dotted(s.instance, TypeName(s))
HostName(h) == Normalize(h)

\* Both builders add the TXT record last, and only if there is a text.
WithTxt(records, n, t) ==
  IF t.len = 0 THEN records ELSE Append(records, TxtRecord(n, t))

\* umdns_mdns_build_response_hostname.  The addresses come from inet_ntop
\* or are literals, so inet_pton accepts both.
HostReply(c) ==
  LET n == HostName(c.hostname)
  IN  Message(WithTxt(<<ARecord(n, c.ipv4), AAAARecord(n, c.ipv6)>>, n, c.host_txt))

\* Mutant: types are listed as configured, not as they are matched.
ListTypeRaw(rs, s) == IF s.type = << >> THEN rs ELSE Append(rs, PtrRecord(EnumName, s.type))

\* The body of the loop over the services: a PTR for each that has a type.
ListType(rs, s) == IF s.type = << >> THEN rs ELSE Append(rs, PtrRecord(EnumName, TypeName(s)))

\* umdns_mdns_build_response_service_enum.
EnumReply(c) ==
  LET listed[n \in 0..Len(c.services)] ==
        IF n = 0 THEN << >> ELSE ListType(listed[n - 1], c.services[n])
  IN  Message(listed[Len(c.services)])

\* umdns_mdns_build_response_service.
ServiceReply(s) ==
  IF StrLen(InstanceName(s)) < MaxName
  THEN Message(WithTxt(<<PtrRecord(TypeName(s), InstanceName(s)),
                         SrvRecord(InstanceName(s), HostName(s.host), s.port)>>,
                       InstanceName(s), s.txt))
  ELSE NoMessage

\* The body of the loop over the configured services.
ServiceMatches(s, q) ==
  /\ s.type # << >>
  /\ StrLen(InstanceName(s)) < MaxName
  /\ \/ q.qtype = "PTR" /\ NameMatches(q.name, TypeName(s))
     \/ q.qtype \in {"SRV", "TXT", "ANY"} /\ NameMatches(q.name, InstanceName(s))

Matching(c, q) == {i \in DOMAIN c.services : ServiceMatches(c.services[i], q)}

\* Mutant: any name is taken for the host's.
AsksAnyHost(c, q) == q.qtype \in {"A", "AAAA", "TXT", "ANY"}

AsksHost(c, q) ==
  q.qtype \in {"A", "AAAA", "TXT", "ANY"} /\ NameMatches(q.name, HostName(c.hostname))

AsksEnum(q) == q.qtype = "PTR" /\ NameMatches(q.name, EnumName)

\* handle_question: every match overwrites response_len, so the last
\* matching service decides, then the enumeration, then the host.
Answer(c, q) ==
  IF Matching(c, q) # {} THEN ServiceReply(c.services[Max(Matching(c, q))])
  ELSE IF AsksEnum(q) THEN EnumReply(c)
  ELSE IF AsksHost(c, q) THEN HostReply(c)
  ELSE NoMessage
============================================================================
