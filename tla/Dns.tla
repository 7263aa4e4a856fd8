-------------------------------- MODULE Dns --------------------------------
(***************************************************************************)
(* Names, resource records and encoded messages of src/src/common/mdns.c.  *)
(*                                                                         *)
(* A C string that holds a domain name is the sequence of its pieces       *)
(* between the dots: "_http._tcp" is <<"_http", "_tcp">>, "a..b" is        *)
(* <<"a", "", "b">> and the empty string is << >>.  Only what the code     *)
(* can tell apart is kept of a piece: its length and its lower-case form.  *)
(* An encoder drops the empty pieces (strtok_r skips them), a decoder may  *)
(* deliver some: a label may hold dots, and a pointer to the end of a name *)
(* leaves one behind the last label.                                       *)
(* Names are assumed short enough (249 characters) for ".local" to be      *)
(* appended in a 256-byte buffer without truncation.                       *)
(***************************************************************************)
EXTENDS Integers, Sequences, SequencesExt

CONSTANTS
  Labels,    \* the pieces of names, "" among them
  LabelLen,  \* strlen of a piece
  Fold,      \* the lower-case form of a piece (strcasecmp compares these)
  Texts,     \* TXT strings, "" among them
  Addresses, \* IP addresses as text
  OutLen     \* size of the buffer a message is built in (1500 in the code)

ASSUME DnsAssumption ==
  /\ {"", "local", "localhost", "umdns", "_services", "_dns-sd", "_udp"} \subseteq Labels
  /\ LabelLen \in [Labels -> Nat] /\ \A l \in Labels : LabelLen[l] = 0 <=> l = ""
  /\ Fold \in [Labels -> Labels]
  /\ \A l \in Labels : LabelLen[Fold[l]] = LabelLen[l] /\ Fold[Fold[l]] = Fold[l]
  /\ "" \in Texts /\ {"0.0.0.0", "::"} \subseteq Addresses
  /\ OutLen \in Nat

MaxName   == 256   \* UMDNS_MAX_NAME
MaxLabel  == 63
HeaderLen == 12    \* sizeof(umdns_dns_header_t)

Name == Seq(Labels)
EnumName == <<"_services", "_dns-sd", "_udp", "local">>

SumLabels(n) == MapThenSumSet(LAMBDA i : LabelLen[n[i]], DOMAIN n)

\* strlen: the pieces and the dots between them.
StrLen(n) == IF n = << >> THEN 0 ELSE SumLabels(n) + Len(n) - 1

\* strcasecmp of two dotted names.
NameMatches(m, n) ==
  /\ Len(m) = Len(n)
  /\ \A i \in DOMAIN m : Fold[m[i]] = Fold[n[i]]

\* umdns_normalize_local_name (and its copy in the server).
Normalize(n) ==
  IF n = << >> THEN <<"localhost", "local">>
  ELSE IF Len(n) >= 2 /\ Fold[Last(n)] = "local" THEN n
  ELSE Append(n, "local")

\* snprintf("%s.%s"): an empty left side still leaves its dot.
Dotted(m, n) == (IF m = << >> THEN <<"">> ELSE m) \o n

----------------------------------------------------------------------------
(* Encoding.  umdns_append_name writes one length byte per token and a      *)
(* final zero; it fails on a token longer than 63 or a full buffer.         *)

Tokens(n) ==
  LET kept[i \in 0..Len(n)] ==
        IF i = 0 THEN << >>
        ELSE IF n[i] = "" THEN kept[i - 1] ELSE Append(kept[i - 1], n[i])
  IN  kept[Len(n)]
WireLen(n) == SumLabels(Tokens(n)) + Len(Tokens(n)) + 1
Encodable(n) == \A i \in DOMAIN n : LabelLen[n[i]] <= MaxLabel

\* umdns_mdns_build_query: header, name, type and class, or nothing.
QueryFits(n) ==
  /\ Encodable(Normalize(n))
  /\ HeaderLen + WireLen(Normalize(n)) + 4 <= OutLen

\* The name it puts on the wire.
Unbuilt == << >>
BuildQuery(n) == IF QueryFits(n) THEN Tokens(Normalize(n)) ELSE Unbuilt

\* A TXT string: who it is and how long; the wire holds 255 bytes of it.
Txt == [text : Texts, len : Nat]
NoTxt == [text |-> "", len |-> 0]
Clip(t) == [t EXCEPT !.len = IF @ > 255 THEN 255 ELSE @]

ARecord(n, a)      == [rr |-> "A", name |-> Tokens(n), address |-> a]
AAAARecord(n, a)   == [rr |-> "AAAA", name |-> Tokens(n), address |-> a]
PtrRecord(n, t)    == [rr |-> "PTR", name |-> Tokens(n), target |-> Tokens(t)]
SrvRecord(n, h, p) == [rr |-> "SRV", name |-> Tokens(n), host |-> Tokens(h), port |-> p]
TxtRecord(n, t)    == [rr |-> "TXT", name |-> Tokens(n), txt |-> Clip(t)]

\* The names an encoder has to write for a record.
NamesOf(r) ==
  {r.name} \cup (IF r.rr = "PTR" THEN {r.target} ELSE {})
           \cup (IF r.rr = "SRV" THEN {r.host} ELSE {})

RDataLen(r) ==
  CASE r.rr = "A"    -> 4
    [] r.rr = "AAAA" -> 16
    [] r.rr = "PTR"  -> WireLen(r.target)
    [] r.rr = "SRV"  -> 6 + WireLen(r.host)
    [] r.rr = "TXT"  -> r.txt.len + 1

MessageLen(records) ==
  HeaderLen + MapThenSumSet(
    LAMBDA i : WireLen(records[i].name) + 10 + RDataLen(records[i]), DOMAIN records)

\* What a builder returns when it gives up: length 0.
NoMessage == [len |-> 0, answers |-> << >>]

\* The builders write record after record and return 0 at the first that
\* does not fit or has too long a label, whatever was written before it.
Message(records) ==
  IF /\ \A i \in DOMAIN records : \A n \in NamesOf(records[i]) : Encodable(n)
     /\ MessageLen(records) <= OutLen
  THEN [len |-> MessageLen(records), answers |-> records]
  ELSE NoMessage
============================================================================
