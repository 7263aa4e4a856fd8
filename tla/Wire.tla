-------------------------------- MODULE Wire --------------------------------
(***************************************************************************)
(* What a message says, whoever built it, and what Decode is to make of it *)
(* and of what is left of it.                                              *)
(*                                                                         *)
(* A message is its bytes together with the names in them.  A name is the  *)
(* sequence of the offsets at which its labels stand, and the pointers     *)
(* between them, and last the zero that ends it.  Rows and question are    *)
(* what its author meant by it.                                            *)
(***************************************************************************)
EXTENDS Decode, FiniteSets

CONSTANT Messages  \* records of bytes, questions, records, asked and rows

----------------------------------------------------------------------------
(* Names. *)

Octet(p, o) == p[o + 1]
Word(p, o) == Octet(p, o) * 256 + Octet(p, o + 1)
Octets(p, o, n) == [i \in 1..n |-> Octet(p, o + i - 1)]

IsLabel(p, o) == Octet(p, o) \in 1..63
IsPointer(p, o) == Octet(p, o) \in 192..255
Label(p, o) == Octets(p, o + 1, Octet(p, o))
Target(p, o) == (Octet(p, o) % 64) * 256 + Octet(p, o + 1)

\* The octets a label, a pointer or a zero takes.
Span(p, o) == IF IsLabel(p, o) THEN 1 + Octet(p, o) ELSE IF IsPointer(p, o) THEN 2 ELSE 1

\* What follows a label stands behind it; a pointer leads to more of the name.
LeadsTo(p, o, n) ==
  \/ IsLabel(p, o) /\ n = o + Span(p, o)
  \/ IsPointer(p, o) /\ n = Target(p, o) /\ Octet(p, n) # 0

\* A name stands where it begins up to its first pointer or its zero.
InPlace(p, w) == Min({i \in 1..Len(w) : ~IsLabel(p, w[i])})
Behind(p, w) == w[InPlace(p, w)] + Span(p, w[InPlace(p, w)])

\* A name as responders and queriers write it: within 255 octets, no label
\* with a NUL, and what it points to stands before it.
Spelled(p, w) ==
  /\ w \in Seq(Nat) /\ w # << >> /\ w[1] >= HeaderLen
  /\ \A i \in 1..Len(w) - 1 : LeadsTo(p, w[i], w[i + 1])
  /\ Octet(p, w[Len(w)]) = 0
  /\ \A i \in 1..Len(w) :
       /\ IsLabel(p, w[i]) => \A b \in 1..Octet(p, w[i]) : Octet(p, w[i] + b) # 0
       /\ w[i] + Span(p, w[i]) <= IF i <= InPlace(p, w) THEN Behind(p, w) ELSE w[1]
  /\ Behind(p, w) <= w[1] + 255 /\ Behind(p, w) <= Len(p)

\* Its text: the labels with dots between them.
SayNext(p, s, o) ==
  IF ~IsLabel(p, o) THEN s
  ELSE IF s = << >> THEN Label(p, o)
  ELSE s \o <<Dot>> \o Label(p, o)

Said(p, w) ==
  LET said[i \in 0..Len(w)] == IF i = 0 THEN << >> ELSE SayNext(p, said[i - 1], w[i])
  IN  said
Spelling(p, w) == Said(p, w)[Len(w)]

Pointers(p, w, k) == Cardinality({i \in 1..k : IsPointer(p, w[i])})

\* A name that can be read leaves two bytes of its buffer free.
Legible(p, w) == Len(Spelling(p, w)) + 2 <= NameSize /\ Pointers(p, w, Len(w)) <= MaxDepth

----------------------------------------------------------------------------
(* Questions and records. *)

RData(p, r) == Behind(p, r.owner) + 10
EndsAt(p, r) == RData(p, r) + r.rdlength

IsAddress(r) == (r.rrtype = 1 /\ r.rdlength = 4) \/ (r.rrtype = 28 /\ r.rdlength = 16)
IsText(r) == r.rrtype = 16 /\ r.rdlength >= 1
IsPtr(r) == r.rrtype = 12
IsSrv(r) == r.rrtype = 33 /\ r.rdlength >= 6

\* The name in the data of a record stands at t and within them.
Holds(p, r, t) ==
  Spelled(p, r.target) /\ r.target[1] = t /\ Behind(p, r.target) <= EndsAt(p, r)

\* The first string of a text, as much of it as a row has room for.
TextOf(p, r) == Octets(p, RData(p, r) + 1, Least(Octet(p, RData(p, r)), TextSize - 1))

RecordLaid(p, r) ==
  /\ Spelled(p, r.owner) /\ Legible(p, r.owner)
  /\ r.rrtype \in Nat /\ r.rdlength \in Nat /\ EndsAt(p, r) <= Len(p)
  /\ r.rrtype = Word(p, Behind(p, r.owner)) /\ r.rdlength = Word(p, Behind(p, r.owner) + 8)
  /\ IsPtr(r) => Holds(p, r, RData(p, r))
  /\ IsSrv(r) => Holds(p, r, RData(p, r) + 6)
  /\ IsText(r) => /\ Octet(p, RData(p, r)) < r.rdlength
                  /\ \A b \in 1..Octet(p, RData(p, r)) : Octet(p, RData(p, r) + b) # 0

\* The rows of a record: one, or none if a row has no field for what it
\* tells or no room for the name in it.
RowsOf(p, r) ==
  LET name == Spelling(p, r.owner) IN
  CASE IsAddress(r) ->
         <<[NoResult EXCEPT !.rrtype = r.rrtype, !.hostname = name,
                            !.address = Octets(p, RData(p, r), r.rdlength)]>>
    [] IsText(r) ->
         <<[NoResult EXCEPT !.rrtype = 16, !.instance = name, !.txt = TextOf(p, r)]>>
    [] IsPtr(r) /\ Legible(p, r.target) ->
         <<[NoResult EXCEPT !.rrtype = 12, !.instance = Spelling(p, r.target),
                            !.service_type = name]>>
    [] IsSrv(r) /\ Legible(p, r.target) ->
         <<[NoResult EXCEPT !.rrtype = 33, !.instance = name,
                            !.hostname = Spelling(p, r.target),
                            !.port = Word(p, RData(p, r) + 4)]>>
    [] OTHER -> << >>

----------------------------------------------------------------------------
(* Messages. *)

\* Where the i-th question, or record, begins: behind the one before.
QuestionStart(m, i) ==
  IF i = 1 THEN HeaderLen ELSE Behind(m.bytes, m.questions[i - 1].name) + 4
RecordStart(m, i) ==
  IF i = 1 THEN QuestionStart(m, Len(m.questions) + 1)
  ELSE EndsAt(m.bytes, m.records[i - 1])

QuestionLaid(p, q) ==
  /\ Spelled(p, q.name) /\ Legible(p, q.name)
  /\ Behind(p, q.name) + 4 <= Len(p) /\ q.qtype = Word(p, Behind(p, q.name))

\* The rows of the first i records.
AddRows(m, rows, i) == rows \o RowsOf(m.bytes, m.records[i])
RowsTo(m) ==
  LET rows[i \in 0..Len(m.records)] == IF i = 0 THEN << >> ELSE AddRows(m, rows[i - 1], i)
  IN  rows

Asked(m) ==
  IF Len(m.questions) = 0 THEN NoQuestion
  ELSE [name |-> Spelling(m.bytes, m.questions[1].name), qtype |-> m.questions[1].qtype]

Laid(m) ==
  /\ m.bytes \in Text /\ Len(m.bytes) >= HeaderLen
  /\ Len(m.questions) \in Nat /\ Len(m.records) \in Nat
  /\ Word(m.bytes, 4) = Len(m.questions) /\ Word(m.bytes, 6) = Len(m.records)
  /\ \A i \in 1..Len(m.questions) :
       /\ QuestionLaid(m.bytes, m.questions[i])
       /\ m.questions[i].name[1] = QuestionStart(m, i)
  /\ \A i \in 1..Len(m.records) :
       /\ RecordLaid(m.bytes, m.records[i])
       /\ m.records[i].owner[1] = RecordStart(m, i)
  /\ m.asked = Asked(m)
  /\ m.rows = RowsTo(m)[Len(m.records)]

ASSUME MessagesAssumption == \A m \in Messages : Laid(m)

----------------------------------------------------------------------------
(* Properties. *)

\* A message that is as it was built is understood: every row whose names
\* leave two bytes of their buffers, compressed or not, up to the capacity,
\* and a record that cannot be read does no harm to those around it.
RoundTrip ==
  pc = "done" =>
    \A m \in Messages : packet = m.bytes =>
      IF parser = "answers"
      THEN results = SubSeq(m.rows, 1, Least(Len(m.rows), MaxResults))
      ELSE question = m.asked

\* A message that lost its end loses rows from the end and no more: what is
\* left of a record is never read as another.
TruncatedIsPrefix ==
  pc = "done" /\ parser = "answers" =>
    \A m \in Messages : IsPrefix(packet, m.bytes) => IsPrefix(results, m.rows)

\* A query that lost its end is not answered as another: a name that ran
\* off the end is accepted and its length octets are taken for the type,
\* which makes a type above 255, that no answer has.
TruncatedIsIgnored ==
  pc = "done" /\ parser = "question" =>
    \A m \in Messages : IsPrefix(packet, m.bytes) =>
      question \in {NoQuestion, m.asked} \/ question.qtype > 255
=============================================================================
