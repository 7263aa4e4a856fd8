------------------------------- MODULE Decode -------------------------------
(***************************************************************************)
(* Reading a datagram: umdns_mdns_parse_question, umdns_mdns_parse_answers *)
(* and the loop they share, umdns_decode_name (src/src/common/mdns.c).     *)
(*                                                                         *)
(* A packet is its bytes; an offset counts from 0, so that byte o is       *)
(* packet[o + 1].  A text is the sequence of its characters.  A row's      *)
(* address is kept as the bytes inet_ntop prints.                          *)
(***************************************************************************)
EXTENDS Integers, Sequences, SequencesExt

CONSTANTS
  Packets,     \* the packets that may be read
  NameSize,    \* UMDNS_MAX_NAME, the size of a name's buffer
  TextSize,    \* UMDNS_MAX_TXT, the size of a text's buffer
  MaxDepth,    \* pointers followed in one name at most: 10
  MaxResults   \* rows there is room for

Byte == 0..255

ASSUME DecodeAssumption ==
  /\ Packets \subseteq Seq(Byte)
  /\ NameSize \in Nat \ {0, 1} /\ TextSize \in Nat \ {0}
  /\ MaxDepth \in Nat /\ MaxResults \in Nat \ {0}

HeaderLen == 12
Dot == 46
Parsers == {"question", "answers"}
Calls == {"question", "skip", "owner", "ptr", "srv"}

NoResult == [rrtype |-> 0, instance |-> << >>, hostname |-> << >>, service_type |-> << >>,
             address |-> << >>, port |-> 0, txt |-> << >>]
NoRecord == [name |-> << >>, rrtype |-> 0, rdata |-> 0, rdlength |-> 0]
NoQuestion == [name |-> << >>, qtype |-> -1]

VARIABLES
  packet,    \* the packet read
  parser,    \* which of the two functions reads it
  pc,        \* begin, decode (a name), named, failed, done
  call,      \* the call of umdns_decode_name in progress
  pos, out, jumped, depth,   \* its locals
  next,      \* its *offset
  offset,    \* where the record (or question) being read begins
  idx,       \* questions skipped, then records read
  rr,        \* the record whose data hold a name
  question,  \* the question returned, if any
  results,   \* the rows returned
  high       \* where the furthest read ended

decodeVars == <<call, pos, out, jumped, depth, next>>
recordVars == <<offset, idx, rr, question, results>>
vars == <<packet, parser, pc, decodeVars, recordVars, high>>

N == Len(packet)

\* Past its end the buffer holds what an earlier datagram left there.
At(o) == IF o < N THEN packet[o + 1] ELSE 0
Bytes(o, n) == [i \in 1..n |-> At(o + i - 1)]
U16(o) == At(o) * 256 + At(o + 1)
ReadTo(o) == high' = IF o > high THEN o ELSE high

\* What C functions see of a buffer: what is before the first NUL.
CString(s) ==
  LET ends == {i \in 1..Len(s) : s[i] = 0} IN
  IF ends = {} THEN s ELSE SubSeq(s, 1, Min(ends) - 1)

Init ==
  /\ packet \in Packets /\ parser \in Parsers
  /\ pc = "begin" /\ call = "owner"
  /\ pos = 0 /\ out = << >> /\ jumped = FALSE /\ depth = 0 /\ next = 0
  /\ offset = 0 /\ idx = 0 /\ rr = NoRecord
  /\ question = NoQuestion /\ results = << >>
  /\ high = 0

----------------------------------------------------------------------------
(* umdns_decode_name. *)

Decode(c, o) ==
  /\ pc' = "decode" /\ call' = c
  /\ pos' = o /\ next' = o
  /\ out' = << >> /\ jumped' = FALSE /\ depth' = 0

Return ==
  /\ pc' = "done"
  /\ UNCHANGED decodeVars

\* The name is complete if it leaves room for its NUL.
EndName ==
  pc' = IF Len(out) >= NameSize THEN "failed" ELSE "named"

\* A packet that ends within a name ends the name; *offset is not moved.
RunOff ==
  /\ pc = "decode" /\ pos >= N
  /\ EndName
  /\ UNCHANGED <<packet, parser, decodeVars, recordVars, high>>

\* Mutant: *offset moves although a pointer was followed.
ZeroLabelAlways ==
  /\ pc = "decode" /\ pos < N /\ At(pos) = 0
  /\ next' = pos + 1
  /\ EndName
  /\ ReadTo(pos + 1)
  /\ UNCHANGED <<packet, parser, call, pos, out, jumped, depth, recordVars>>

ZeroLabel ==
  /\ pc = "decode" /\ pos < N /\ At(pos) = 0
  /\ next' = IF jumped THEN next ELSE pos + 1
  /\ EndName
  /\ ReadTo(pos + 1)
  /\ UNCHANGED <<packet, parser, call, pos, out, jumped, depth, recordVars>>

PointerAt(o) == (At(o) % 64) * 256 + At(o + 1)

\* Mutant: pointers are not counted.
FollowForEver ==
  /\ pc = "decode" /\ pos < N /\ At(pos) >= 192
  /\ IF pos + 1 >= N THEN pc' = "failed" /\ UNCHANGED decodeVars /\ ReadTo(pos + 1)
     ELSE /\ ReadTo(pos + 2)
          /\ IF PointerAt(pos) >= N THEN pc' = "failed" /\ UNCHANGED decodeVars
             ELSE /\ next' = IF jumped THEN next ELSE pos + 2
                  /\ jumped' = TRUE
                  /\ pos' = PointerAt(pos)
                  /\ UNCHANGED <<pc, call, out, depth>>
  /\ UNCHANGED <<packet, parser, recordVars>>

FollowPointer ==
  /\ pc = "decode" /\ pos < N /\ At(pos) >= 192
  /\ IF pos + 1 >= N THEN pc' = "failed" /\ UNCHANGED decodeVars /\ ReadTo(pos + 1)
     ELSE /\ ReadTo(pos + 2)
          /\ IF PointerAt(pos) >= N THEN pc' = "failed" /\ UNCHANGED decodeVars
             ELSE /\ next' = IF jumped THEN next ELSE pos + 2
                  /\ jumped' = TRUE
                  /\ pos' = PointerAt(pos)
                  /\ depth' = depth + 1
                  /\ pc' = IF depth' > MaxDepth THEN "failed" ELSE pc
                  /\ UNCHANGED <<call, out>>
  /\ UNCHANGED <<packet, parser, recordVars>>

\* Mutant: room for the dot is forgotten.
LabelFitsTight(len) == pos + 1 + len <= N /\ Len(out) + len + 1 <= NameSize

\* A label fits if it does not run past the packet, and neither it, a dot
\* nor the NUL past the buffer.
LabelFits(len) == pos + 1 + len <= N /\ Len(out) + len + 2 <= NameSize

\* A length of 64 to 191 is taken for a label like any other.  The label is
\* followed by a dot unless the name, or the packet, ends after it.
CopyLabel ==
  /\ pc = "decode" /\ pos < N /\ At(pos) \in 1..191
  /\ LET len == At(pos)
         end == pos + 1 + len
     IN  IF ~LabelFits(len)
         THEN pc' = "failed" /\ UNCHANGED <<pos, out>> /\ ReadTo(pos + 1)
         ELSE /\ out' = out \o Bytes(pos + 1, len)
                        \o (IF end < N /\ At(end) # 0 THEN <<Dot>> ELSE << >>)
              /\ pos' = end
              /\ ReadTo(IF end < N THEN end + 1 ELSE end)
              /\ UNCHANGED pc
  /\ UNCHANGED <<packet, parser, call, jumped, depth, next, recordVars>>

----------------------------------------------------------------------------
(* umdns_mdns_parse_question: the first question of the packet. *)

QdCount == U16(4)
AnCount == U16(6)

BeginQuestion ==
  /\ pc = "begin" /\ parser = "question"
  /\ IF N < HeaderLen THEN Return /\ UNCHANGED high
     ELSE ReadTo(6) /\ IF QdCount = 0 THEN Return ELSE Decode("question", HeaderLen)
  /\ UNCHANGED <<packet, parser, recordVars>>

\* Mutant: type and class may lie outside the packet.
QuestionNamedLoose ==
  /\ pc = "named" /\ call = "question"
  /\ question' = [name |-> CString(out), qtype |-> U16(next)] /\ ReadTo(next + 2)
  /\ Return
  /\ UNCHANGED <<packet, parser, offset, idx, rr, results>>

QuestionNamed ==
  /\ pc = "named" /\ call = "question"
  /\ IF next + 4 > N THEN UNCHANGED <<question, high>>
     ELSE question' = [name |-> CString(out), qtype |-> U16(next)] /\ ReadTo(next + 2)
  /\ Return
  /\ UNCHANGED <<packet, parser, offset, idx, rr, results>>

----------------------------------------------------------------------------
(* umdns_mdns_parse_answers. *)

\* The test of the loop over the records.
NextRecord(i, o, rows) ==
  /\ idx' = i /\ offset' = o
  /\ IF i < AnCount /\ Len(rows) < MaxResults THEN Decode("owner", o) ELSE Return

\* The test of the loop over the questions.
NextQuestion(i, o) ==
  IF i < QdCount THEN idx' = i /\ offset' = o /\ Decode("skip", o)
  ELSE NextRecord(0, o, results)

BeginAnswers ==
  /\ pc = "begin" /\ parser = "answers"
  /\ IF N < HeaderLen THEN Return /\ UNCHANGED <<high, idx, offset>>
     ELSE ReadTo(8) /\ NextQuestion(0, HeaderLen)
  /\ UNCHANGED <<packet, parser, rr, question, results>>

SkipQuestion ==
  /\ pc = "named" /\ call = "skip"
  /\ IF next + 4 > N THEN Return /\ UNCHANGED <<idx, offset>>
     ELSE NextQuestion(idx + 1, next + 4)
  /\ UNCHANGED <<packet, parser, rr, question, results, high>>

\* The fixed part of the record whose name was read: type, length and data.
Type == U16(next)
RdLength == U16(next + 8)
Data == next + 10

\* Mutant: the data may run past the packet.
RecordFitsLoose == Data <= N
RecordFits == Data <= N /\ Data + RdLength <= N

EndOfAnswers ==
  /\ pc = "named" /\ call = "owner" /\ ~RecordFits
  /\ IF Data <= N THEN ReadTo(Data) ELSE UNCHANGED high
  /\ Return
  /\ UNCHANGED <<packet, parser, recordVars>>

\* The data are behind the record; the row, if any, is counted.
TakeRow(row) ==
  /\ results' = Append(results, row)
  /\ NextRecord(idx + 1, Data + RdLength, results')

HasAddress == (Type = 1 /\ RdLength = 4) \/ (Type = 28 /\ RdLength = 16)
HasText == Type = 16 /\ RdLength >= 1
HasTarget == Type = 12
HasHost == Type = 33 /\ RdLength >= 6

AddressRecord ==
  /\ pc = "named" /\ call = "owner" /\ RecordFits /\ HasAddress
  /\ TakeRow([NoResult EXCEPT !.rrtype = Type, !.hostname = CString(out),
                              !.address = Bytes(Data, RdLength)])
  /\ ReadTo(Data + RdLength)
  /\ UNCHANGED <<packet, parser, rr, question>>

Least(a, b) == IF a < b THEN a ELSE b

\* The first string of the data only.
TextRecord ==
  /\ pc = "named" /\ call = "owner" /\ RecordFits /\ HasText
  /\ LET len == Least(Least(At(Data), RdLength - 1), TextSize - 1) IN
     /\ TakeRow([NoResult EXCEPT !.rrtype = Type, !.instance = CString(out),
                                 !.txt = CString(Bytes(Data + 1, len))])
     /\ ReadTo(Data + 1 + len)
  /\ UNCHANGED <<packet, parser, rr, question>>

\* PTR and SRV go on with a name in the data.
NameRecord ==
  /\ pc = "named" /\ call = "owner" /\ RecordFits /\ (HasTarget \/ HasHost)
  /\ rr' = [name |-> CString(out), rrtype |-> Type, rdata |-> Data, rdlength |-> RdLength]
  /\ IF HasTarget THEN Decode("ptr", Data) /\ ReadTo(Data)
     ELSE Decode("srv", Data + 6) /\ ReadTo(Data + 6)
  /\ UNCHANGED <<packet, parser, offset, idx, question, results>>

SkipRecord ==
  /\ pc = "named" /\ call = "owner" /\ RecordFits
  /\ ~(HasAddress \/ HasText \/ HasTarget \/ HasHost)
  /\ NextRecord(idx + 1, Data + RdLength, results)
  /\ ReadTo(Data)
  /\ UNCHANGED <<packet, parser, rr, question, results>>

EndOfRecord == rr.rdata + rr.rdlength

PtrNamed ==
  /\ pc = "named" /\ call = "ptr"
  /\ results' = Append(results, [NoResult EXCEPT !.rrtype = 12, !.instance = CString(out),
                                                 !.service_type = rr.name])
  /\ NextRecord(idx + 1, EndOfRecord, results')
  /\ UNCHANGED <<packet, parser, rr, question, high>>

SrvNamed ==
  /\ pc = "named" /\ call = "srv"
  /\ results' = Append(results, [NoResult EXCEPT !.rrtype = 33, !.instance = rr.name,
                                   !.hostname = CString(out), !.port = U16(rr.rdata + 4)])
  /\ NextRecord(idx + 1, EndOfRecord, results')
  /\ UNCHANGED <<packet, parser, rr, question, high>>

\* A name that cannot be read ends the reading, unless it is in the data of
\* a record: that record is passed over.
NameFailed ==
  /\ pc = "failed"
  /\ IF call \in {"ptr", "srv"} THEN NextRecord(idx + 1, EndOfRecord, results)
     ELSE Return /\ UNCHANGED <<idx, offset>>
  /\ UNCHANGED <<packet, parser, rr, question, results, high>>

----------------------------------------------------------------------------
NameStep == RunOff \/ ZeroLabel \/ FollowPointer \/ CopyLabel

Next ==
  \/ NameStep
  \/ BeginQuestion \/ QuestionNamed
  \/ BeginAnswers \/ SkipQuestion \/ EndOfAnswers \/ AddressRecord \/ TextRecord
  \/ NameRecord \/ SkipRecord \/ PtrNamed \/ SrvNamed \/ NameFailed

\* A call runs until it returns.
Spec == Init /\ [][Next]_vars /\ WF_vars(Next)

----------------------------------------------------------------------------
(* Properties. *)

Text == Seq(Byte)
Result == [rrtype : Nat, instance : Text, hostname : Text, service_type : Text,
           address : Text, port : Nat, txt : Text]
Record == [name : Text, rrtype : Nat, rdata : Nat, rdlength : Nat]
Question == [name : Text, qtype : Int]

\* Is a name being read, and where?
Reading == pc \in {"decode", "named", "failed"}
InData == Reading /\ call \in {"ptr", "srv"}

\* Type invariant: whatever the packet says, every byte read lies within
\* it, every name with its NUL within its buffer, and the rows within the
\* array of the caller.
TypeOK ==
  /\ packet \in Text /\ parser \in Parsers
  /\ pc \in {"begin", "decode", "named", "failed", "done"} /\ call \in Calls
  /\ pos \in 0..N /\ next \in 0..N /\ offset \in 0..N /\ high \in 0..N
  /\ out \in Text /\ Len(out) < NameSize
  /\ jumped \in BOOLEAN /\ depth \in 0..MaxDepth + 1 /\ idx \in Nat
  /\ question \in Question
  /\ results \in Seq(Result) /\ Len(results) <= MaxResults
  /\ rr \in Record
  /\ InData => EndOfRecord <= N

\* No byte is read for the same purpose twice: within a name a step goes
\* forward in the packet or follows one more pointer, of which there is an
\* end, and the next question or record begins behind the one that was read.
ReadsForward ==
  [][/\ pc = "decode" /\ pc' = "decode" =>
          depth' > depth \/ (depth' = depth /\ pos' > pos)
     /\ offset' >= offset
     /\ idx' # idx => offset' > offset]_vars

\* Reading ends, whatever loop the pointers of a packet form.
Terminates == <>(pc = "done")
=============================================================================
