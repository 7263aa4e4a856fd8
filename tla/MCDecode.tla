------------------------------ MODULE MCDecode ------------------------------
(***************************************************************************)
(* Packets for Decode: messages as responders and queriers build them, with *)
(* and without compression, every packet cut short, and packets with one   *)
(* byte changed, among them every short loop of pointers.                  *)
(***************************************************************************)
EXTENDS Wire

\* A name as it stands in the packet, and the text it stands for.
Named(wire, text) == [wire |-> wire, text |-> text]
AB    == Named(<<1, 97, 1, 98, 0>>, <<97, 46, 98>>)            \* a.b
Long  == Named(<<2, 99, 99, 1, 97, 1, 98, 0>>, <<99, 99, 46, 97, 46, 98>>)
TooLong == Named(<<3, 99, 99, 99, 1, 97, 1, 98, 0>>, <<99, 99, 99, 46, 97, 46, 98>>)
\* Names that end in the first name of the packet, at offset 12.
First == Named(<<192, 12>>, AB.text)
XAB   == Named(<<1, 120, 192, 12>>, <<120, 46>> \o AB.text)     \* x.a.b
YYAB  == Named(<<2, 121, 121, 192, 12>>, <<121, 121, 46>> \o AB.text)
YYYAB == Named(<<3, 121, 121, 121, 192, 12>>, <<121, 121, 121, 46>> \o AB.text)

Chain(o) == Named(<<192, o>>, AB.text)

TwoBytes(n) == <<n \div 256, n % 256>>
Header(qd, an) == <<0, 0, 0, 0>> \o TwoBytes(qd) \o TwoBytes(an) \o <<0, 0, 0, 0>>

\* A record: its owner, type and data, and the row it stands for.
Rec(owner, t, data, row) == [owner |-> owner, t |-> t, data |-> data,
                             rows |-> <<[row EXCEPT !.rrtype = t]>>]
A(n)      == Rec(n, 1, <<192, 0, 2, 7>>,
                 [NoResult EXCEPT !.hostname = n.text, !.address = <<192, 0, 2, 7>>])
AAAA(n)   == LET a == [i \in 1..16 |-> i] IN
             Rec(n, 28, a, [NoResult EXCEPT !.hostname = n.text, !.address = a])
Ptr(n, t) == Rec(n, 12, t.wire, [NoResult EXCEPT !.service_type = n.text, !.instance = t.text])
Srv(n, h) == Rec(n, 33, <<0, 0, 0, 0, 1, 187>> \o h.wire,
                 [NoResult EXCEPT !.instance = n.text, !.hostname = h.text, !.port = 443])
Txt(n, s) == Rec(n, 16, <<Len(s)>> \o s, [NoResult EXCEPT !.instance = n.text, !.txt = s])
\* Records without a row: of another type, of a wrong length, of a name too long.
Other(n)    == [A(n) EXCEPT !.t = 47, !.rows = << >>]
BadA(n)     == [A(n) EXCEPT !.data = <<1>>, !.rows = << >>]
BadPtr(n, t) == [Ptr(n, t) EXCEPT !.rows = << >>]

Concat(seqs) == FoldLeft(LAMBDA s, t : s \o t, << >>, seqs)
RecordBytes(r) ==
  r.owner.wire \o TwoBytes(r.t) \o <<0, 1, 0, 0, 0, 120>> \o TwoBytes(Len(r.data)) \o r.data

\* A question as it is asked and, in some responses, repeated.
Ask(n, t) == [name |-> n, qtype |-> t]
QuestionBytes(q) == q.name.wire \o TwoBytes(q.qtype) \o <<0, 1>>

\* The offsets a name takes that stands at o.
RECURSIVE Walk(_, _)
Walk(p, o) ==
  IF Octet(p, o) = 0 THEN <<o>>
  ELSE <<o>> \o Walk(p, IF IsPointer(p, o) THEN Target(p, o) ELSE o + Span(p, o))

\* A message: what its author meant by it, and where its names stand.
Message(qs, rs) ==
  LET head  == Header(Len(qs), Len(rs))
      asks  == [i \in DOMAIN qs |-> QuestionBytes(qs[i])]
      recs  == [i \in DOMAIN rs |-> RecordBytes(rs[i])]
      bytes == head \o Concat(asks) \o Concat(recs)
      ask(i) == Len(head \o Concat(SubSeq(asks, 1, i - 1)))
      rec(i) == Len(head \o Concat(asks) \o Concat(SubSeq(recs, 1, i - 1)))
      data(i) == rec(i) + Len(rs[i].owner.wire) + 10
      target(i) == IF rs[i].t = 12 THEN Walk(bytes, data(i))
                   ELSE IF rs[i].t = 33 THEN Walk(bytes, data(i) + 6) ELSE << >>
  IN  [bytes |-> bytes,
       questions |-> [i \in DOMAIN qs |-> [name |-> Walk(bytes, ask(i)), qtype |-> qs[i].qtype]],
       records |-> [i \in DOMAIN rs |->
                      [owner |-> Walk(bytes, rec(i)), rrtype |-> rs[i].t,
                       rdlength |-> Len(rs[i].data), target |-> target(i)]],
       rows |-> Concat([i \in DOMAIN rs |-> rs[i].rows]),
       asked |-> IF qs = << >> THEN NoQuestion
                 ELSE [name |-> qs[1].name.text, qtype |-> qs[1].qtype]]

MCMessages ==
  {Message(<< >>, <<A(AB), Ptr(First, XAB)>>),
   Message(<< >>, <<Ptr(AB, YYAB), Srv(First, XAB), Txt(YYAB, <<112, 61>>), A(First)>>),
   Message(<<Ask(AB, 12)>>, <<Srv(First, Long), BadPtr(First, YYYAB), A(XAB)>>),
   Message(<< >>, <<Ptr(AB, First), BadPtr(First, TooLong), Txt(First, << >>), A(First)>>),
   Message(<<Ask(AB, 255), Ask(First, 1)>>, <<Other(First), BadA(First), AAAA(Long)>>),
   \* names that end in pointers to pointers: two, three and four of them
   Message(<< >>, <<Ptr(AB, First), Ptr(Chain(27), Chain(27)), BadPtr(Chain(41), Chain(43))>>),
   Message(<<Ask(Long, 33)>>, << >>)}

Originals == {m.bytes : m \in MCMessages}
CutShort(s) == {SubSeq(s, 1, n) : n \in 0..Len(s)}
\* One byte replaced: ends of names, labels short and long, pointers to the
\* packet's start, to itself and to its end.
Changed(s, i, b) == [s EXCEPT ![i] = b]
Bent(s) ==
  {Changed(s, i, b) : i \in 5..Len(s), b \in {0, 2, 12, 70, 192, 255}}
    \cup {Changed(Changed(s, i, 192), i + 1, (i - 1) % 256) : i \in 13..Len(s) - 1}

MCPackets == UNION {CutShort(s) \cup Bent(s) : s \in Originals}
               \cup {Header(1, 0) \o <<192, 14, 192, 12>>,
                     Header(0, 1) \o <<1, 97, 192, 12>>}

=============================================================================
