---------------------------- MODULE DecodeProofs ----------------------------
(***************************************************************************)
(* Theorems about Decode, for every packet and every size of the buffers:  *)
(* first what holds of any bytes (TypeOK, ReadsForward), then what becomes *)
(* of a message that is laid out as Wire says, whole or cut short          *)
(* (RoundTrip, TruncatedIsPrefix, TruncatedIsIgnored).                     *)
(*                                                                         *)
(* The second part follows the reading through the message.  A name that   *)
(* stands whole in the packet is read offset by offset (Following); a name *)
(* that was cut leaves octets behind that are no zeros and at most 255     *)
(* (Severed), and among those no record fits and any type is above 255.    *)
(***************************************************************************)
EXTENDS Wire, TableProofs, SequenceTheorems

\* What holds while a name is being read: the header is there, the pointers
\* followed are within their limit, there is room for the record's row, and
\* both what is read and what comes next lie behind where it began.
ReadingInv ==
  /\ pc = "begin" => offset = 0
  /\ pc = "decode" => depth <= MaxDepth /\ (~jumped => pos >= next)
  /\ Reading => N >= HeaderLen
  /\ Reading /\ call \in {"owner", "ptr", "srv"} => Len(results) < MaxResults
  /\ Reading /\ call \in {"skip", "owner"} => next >= offset
  /\ InData => rr.rdata > offset

DecodeInv == TypeOK /\ ReadingInv

----------------------------------------------------------------------------
(* What is read from a packet. *)

LEMMA AtByte ==
  ASSUME packet \in Text, NEW o \in Nat
  PROVE  At(o) \in Byte
<1>1. N \in Nat
  BY DEF N, Text
<1>2. 0 \in Byte
  BY DEF Byte
<1>3. ASSUME o < N PROVE packet[o + 1] \in Byte
  <2>1. o + 1 \in 1..N
    BY <1>1, <1>3
  <2> QED BY <2>1 DEF N, Text
<1> QED BY <1>2, <1>3 DEF At

LEMMA AtNat ==
  ASSUME packet \in Text, NEW o \in Nat
  PROVE  At(o) \in Nat /\ At(o + 1) \in Nat
<1>1. At(o) \in Byte /\ At(o + 1) \in Byte
  BY AtByte
<1> QED BY <1>1 DEF Byte

LEMMA U16Nat ==
  ASSUME packet \in Text, NEW o \in Nat
  PROVE  U16(o) \in Nat
<1>1. At(o) \in Nat /\ At(o + 1) \in Nat
  BY AtNat
<1>2. \A a, b \in Nat : a * 256 + b \in Nat
  OBVIOUS
<1> QED BY <1>1, <1>2 DEF U16

LEMMA PointerNat ==
  ASSUME packet \in Text, NEW o \in Nat
  PROVE  PointerAt(o) \in Nat
<1>1. At(o) \in Nat /\ At(o + 1) \in Nat
  BY AtNat
<1>2. \A a, b \in Nat : (a % 64) * 256 + b \in Nat
  OBVIOUS
<1> QED BY <1>1, <1>2 DEF PointerAt

LEMMA BytesText ==
  ASSUME packet \in Text, NEW o \in Nat, NEW n \in Nat
  PROVE  Bytes(o, n) \in Text /\ Len(Bytes(o, n)) = n
<1>1. ASSUME NEW i \in 1..n PROVE At(o + i - 1) \in Byte
  <2>1. o + i - 1 \in Nat
    OBVIOUS
  <2> QED BY <2>1, AtByte
<1>2. Bytes(o, n) \in [1..n -> Byte]
  BY <1>1 DEF Bytes
<1> QED BY <1>2 DEF Text

LEMMA CStringText ==
  ASSUME NEW s \in Text
  PROVE  CString(s) \in Text
<1> DEFINE ends == {i \in 1..Len(s) : s[i] = 0}
<1>1. CASE ends = {}
  BY <1>1 DEF CString
<1>2. CASE ends # {}
  <2>1. ends \in SUBSET Nat
    OBVIOUS
  <2>2. Min(ends) \in 1..Len(s)
    <3> HIDE DEF ends
    <3>1. Min(ends) \in ends
      BY <1>2, <2>1, MinExists
    <3> QED BY <3>1 DEF ends
  <2>3. PICK n \in 0..Len(s) : n = Min(ends) - 1
    <3>1. Len(s) \in Nat
      BY DEF Text
    <3> HIDE DEF ends
    <3> QED BY <2>2, <3>1
  <2>4. CString(s) = SubSeq(s, 1, n)
    BY <1>2, <2>3 DEF CString
  <2>5. SubSeq(s, 1, n) \in Text
    <3>1. CASE n = 0
      BY <3>1, SubSeqEmpty, << >> \in Text DEF Text
    <3>2. CASE n # 0
      BY <3>2, SubSeqProperties DEF Text
    <3> QED BY <3>1, <3>2
  <2> QED BY <2>4, <2>5
<1> QED BY <1>1, <1>2

----------------------------------------------------------------------------
(* The invariant, by what a step does to the name being read. *)

LEMMA Lengths ==
  ASSUME TypeOK
  PROVE  N \in Nat /\ Len(out) \in Nat /\ Len(results) \in Nat /\ packet \in Text
BY DEF TypeOK, N, Text

LEMMA ReadToHigh ==
  ASSUME TypeOK, NEW o \in 0..N, ReadTo(o)
  PROVE  high' \in 0..N
BY DEF TypeOK, ReadTo

\* A call that returns.
LEMMA ReturnInv ==
  ASSUME DecodeInv, Return, UNCHANGED <<packet, parser, rr>>,
         offset' \in 0..N, idx' \in Nat, question' \in Question, high' \in 0..N,
         results' \in Seq(Result), Len(results') <= MaxResults
  PROVE  DecodeInv'
<1>1. N' = N /\ pc' = "done" /\ UNCHANGED decodeVars
  BY DEF N, Return
<1> USE DEF DecodeInv
<1>2. TypeOK'
  BY <1>1 DEF TypeOK, decodeVars, InData, Reading, EndOfRecord
<1>3. ReadingInv'
  BY <1>1 DEF ReadingInv, InData, Reading
<1> QED BY <1>2, <1>3

\* A name that begins to be read.
LEMMA DecodeCallInv ==
  ASSUME DecodeInv, NEW c \in Calls, NEW o \in 0..N, Decode(c, o),
         N >= HeaderLen, UNCHANGED <<packet, parser>>,
         offset' \in 0..N, idx' \in Nat, question' \in Question, high' \in 0..N,
         results' \in Seq(Result), Len(results') <= MaxResults, rr' \in Record,
         c \in {"owner", "ptr", "srv"} => Len(results') < MaxResults,
         c \in {"skip", "owner"} => o >= offset',
         c \in {"ptr", "srv"} =>
           rr'.rdata + rr'.rdlength <= N /\ rr'.rdata > offset'
  PROVE  DecodeInv'
<1>1. N' = N /\ N \in Nat
  BY Lengths DEF N, DecodeInv
<1>2. /\ pc' = "decode" /\ call' = c /\ pos' = o /\ next' = o
      /\ out' = << >> /\ jumped' = FALSE /\ depth' = 0
  BY DEF Decode
<1> USE DEF DecodeInv
<1>3. out' \in Text /\ Len(out') < NameSize /\ 0 \in 0..MaxDepth + 1
  BY <1>2, DecodeAssumption DEF Text
<1>4. TypeOK'
  BY <1>1, <1>2, <1>3 DEF TypeOK, InData, Reading, EndOfRecord
<1>5. 0 <= MaxDepth
  BY DecodeAssumption
<1>6. ReadingInv'
  BY <1>1, <1>2, <1>5 DEF ReadingInv, InData, Reading
<1> QED BY <1>4, <1>6

\* The test of the loop over the records.
LEMMA NextRecordInv ==
  ASSUME DecodeInv, NEW i \in Nat, NEW o \in 0..N, NEW rows \in Seq(Result),
         Len(rows) <= MaxResults, NextRecord(i, o, rows), results' = rows,
         N >= HeaderLen, UNCHANGED <<packet, parser, rr>>,
         question' \in Question, high' \in 0..N
  PROVE  DecodeInv'
<1>1. idx' = i /\ offset' = o /\ rr' \in Record
  BY DEF NextRecord, DecodeInv, TypeOK
<1>2. CASE i < AnCount /\ Len(rows) < MaxResults
  <2>1. Decode("owner", o)
    BY <1>2 DEF NextRecord
  <2>2. o >= offset' /\ "owner" \in Calls
    BY <1>1 DEF Calls
  <2> QED BY <1>1, <1>2, <2>1, <2>2, DecodeCallInv
<1>3. CASE ~(i < AnCount /\ Len(rows) < MaxResults)
  <2>1. Return
    BY <1>3 DEF NextRecord
  <2> QED BY <1>1, <2>1, ReturnInv
<1> QED BY <1>2, <1>3

\* The test of the loop over the questions.
LEMMA NextQuestionInv ==
  ASSUME DecodeInv, NEW i \in Nat, NEW o \in 0..N, NextQuestion(i, o),
         N >= HeaderLen, UNCHANGED <<packet, parser, rr, question, results>>,
         high' \in 0..N
  PROVE  DecodeInv'
<1>1. /\ results \in Seq(Result) /\ Len(results) <= MaxResults
      /\ results' \in Seq(Result) /\ Len(results') <= MaxResults
      /\ question' \in Question /\ rr' \in Record
  BY DEF DecodeInv, TypeOK
<1>2. CASE i < QdCount
  <2>1. Decode("skip", o) /\ idx' = i /\ offset' = o
    BY <1>2 DEF NextQuestion
  <2>2. o >= offset' /\ "skip" \in Calls
    BY <2>1 DEF Calls
  <2> QED BY <1>1, <2>1, <2>2, DecodeCallInv
<1>3. CASE ~(i < QdCount)
  <2>1. NextRecord(0, o, results)
    BY <1>3 DEF NextQuestion
  <2>2. results' = results /\ 0 \in Nat
    OBVIOUS
  <2> QED BY <1>1, <2>1, <2>2, NextRecordInv
<1> QED BY <1>2, <1>3

\* A step within a name, which touches nothing else.
LEMMA NameStepInv ==
  ASSUME DecodeInv, pc = "decode", UNCHANGED <<packet, parser, call, recordVars>>,
         pc' \in {"decode", "named", "failed"},
         pos' \in 0..N, next' \in 0..N, next' >= next,
         out' \in Text, Len(out') < NameSize,
         jumped' \in BOOLEAN, depth' \in 0..MaxDepth + 1,
         pc' = "decode" => depth' <= MaxDepth /\ (~jumped' => pos' >= next'),
         high' \in 0..N
  PROVE  DecodeInv'
<1>1. N' = N /\ N \in Nat /\ Reading /\ UNCHANGED <<offset, idx, rr, question, results>>
  BY Lengths DEF N, DecodeInv, recordVars, Reading
<1>2. InData' = InData
  BY <1>1 DEF InData, Reading
<1>3. TypeOK'
  BY <1>1, <1>2 DEF DecodeInv, TypeOK, EndOfRecord
<1>4. ReadingInv'
  <2>1. offset \in Nat /\ next \in Nat /\ next' \in Nat
    BY <1>1 DEF DecodeInv, TypeOK
  <2> QED BY <1>1, <1>2, <2>1 DEF DecodeInv, ReadingInv, Reading
<1> QED BY <1>3, <1>4 DEF DecodeInv

----------------------------------------------------------------------------
(* Every action keeps the invariant. *)

\* The steps within a name.
LEMMA RunOffInv ==
  ASSUME DecodeInv, RunOff
  PROVE  DecodeInv'
<1>1. pc' \in {"named", "failed"} /\ UNCHANGED <<pos, out, jumped, depth, next, high>>
  BY DEF RunOff, EndName, decodeVars
<1>2. pc = "decode" /\ UNCHANGED <<packet, parser, call, recordVars>>
  BY DEF RunOff, decodeVars
<1>3. next' >= next
  BY <1>1 DEF DecodeInv, TypeOK
<1> QED BY <1>1, <1>2, <1>3, NameStepInv DEF DecodeInv, TypeOK

LEMMA ZeroLabelInv ==
  ASSUME DecodeInv, ZeroLabel
  PROVE  DecodeInv'
<1>1. pc' \in {"named", "failed"} /\ UNCHANGED <<pos, out, jumped, depth>>
  BY DEF ZeroLabel, EndName
<1>2. pc = "decode" /\ UNCHANGED <<packet, parser, call, recordVars>>
  BY DEF ZeroLabel
<1>3. pos + 1 \in 0..N
  BY Lengths DEF DecodeInv, TypeOK, ZeroLabel
<1>4. high' \in 0..N
  BY <1>3, ReadToHigh DEF ZeroLabel, DecodeInv
<1>5. next' \in 0..N /\ next' >= next
  BY <1>2, <1>3 DEF ZeroLabel, DecodeInv, TypeOK, ReadingInv
<1> QED BY <1>1, <1>2, <1>4, <1>5, NameStepInv DEF DecodeInv, TypeOK

LEMMA FollowPointerInv ==
  ASSUME DecodeInv, FollowPointer
  PROVE  DecodeInv'
<1>1. pc = "decode" /\ UNCHANGED <<packet, parser, call, recordVars>> /\ call' = call
  BY DEF FollowPointer, decodeVars
<1>2. N \in Nat /\ pos \in 0..N /\ next \in 0..N /\ pos < N /\ packet \in Text
  BY Lengths DEF DecodeInv, TypeOK, FollowPointer
<1>3. pos + 1 \in 0..N
  BY <1>2
<1>4. CASE UNCHANGED decodeVars /\ pc' = "failed"
  <2>1. high' \in 0..N
    <3>1. CASE pos + 1 >= N
      BY <1>3, <3>1, ReadToHigh DEF FollowPointer, DecodeInv
    <3>2. CASE ~(pos + 1 >= N)
      <4>1. pos + 2 \in 0..N
        BY <1>2, <3>2
      <4> QED BY <3>2, <4>1, ReadToHigh DEF FollowPointer, DecodeInv
    <3> QED BY <3>1, <3>2
  <2>2. next' >= next
    BY <1>2, <1>4 DEF decodeVars
  <2> QED BY <1>1, <1>4, <2>1, <2>2, NameStepInv DEF DecodeInv, TypeOK, decodeVars
<1>5. CASE ~(UNCHANGED decodeVars /\ pc' = "failed")
  <2>1. /\ ReadTo(pos + 2) /\ ~(pos + 1 >= N) /\ ~(PointerAt(pos) >= N)
        /\ next' = IF jumped THEN next ELSE pos + 2
        /\ jumped' = TRUE /\ pos' = PointerAt(pos) /\ depth' = depth + 1
        /\ pc' = IF depth' > MaxDepth THEN "failed" ELSE pc
        /\ out' = out
    BY <1>5 DEF FollowPointer
  <2>2. pos + 2 \in 0..N
    BY <1>2, <2>1
  <2>3. high' \in 0..N
    BY <2>1, <2>2, ReadToHigh DEF DecodeInv
  <2>4. PointerAt(pos) \in 0..N
    BY <1>2, <2>1, PointerNat
  <2>5. next' \in 0..N /\ next' >= next
    BY <1>1, <1>2, <2>1, <2>2 DEF DecodeInv, ReadingInv
  <2>6. depth \in 0..MaxDepth
    BY <1>1 DEF DecodeInv, TypeOK, ReadingInv
  <2>7. depth' \in 0..MaxDepth + 1 /\ (pc' = "decode" => depth' <= MaxDepth)
    <3>1. MaxDepth \in Nat
      BY DecodeAssumption
    <3> QED BY <2>1, <2>6, <3>1
  <2>8. pc' \in {"decode", "named", "failed"}
    BY <1>1, <2>1
  <2> QED BY <1>1, <2>1, <2>3, <2>4, <2>5, <2>7, <2>8, NameStepInv DEF DecodeInv, TypeOK
<1> QED BY <1>4, <1>5

LEMMA CopyLabelInv ==
  ASSUME DecodeInv, CopyLabel
  PROVE  DecodeInv' /\ (pc' = "decode" => pos' > pos) /\ depth' = depth
<1> DEFINE len == At(pos)
           end == pos + 1 + len
           dot == IF end < N /\ At(end) # 0 THEN <<Dot>> ELSE << >>
<1>1. /\ pc = "decode" /\ UNCHANGED <<packet, parser, call, jumped, depth, next, recordVars>>
      /\ jumped' = jumped /\ depth' = depth /\ next' = next
  BY DEF CopyLabel
<1>2. N \in Nat /\ pos \in 0..N /\ next \in 0..N /\ pos < N /\ packet \in Text
  BY Lengths DEF DecodeInv, TypeOK, CopyLabel
<1>3. len \in Nat /\ pos \in Nat
  BY <1>2, AtNat
<1>4. next' >= next /\ next' \in 0..N
  BY <1>1, <1>2
<1>5. CASE ~LabelFits(len)
  <2>1. pc' = "failed" /\ UNCHANGED <<pos, out>> /\ ReadTo(pos + 1)
    BY <1>5 DEF CopyLabel
  <2>2. pos + 1 \in 0..N
    BY <1>2
  <2>3. high' \in 0..N
    BY <2>1, <2>2, ReadToHigh DEF DecodeInv
  <2>4. DecodeInv'
    BY <1>1, <1>4, <2>1, <2>3, NameStepInv DEF DecodeInv, TypeOK
  <2> QED BY <1>1, <2>1, <2>4
<1>6. CASE LabelFits(len)
  <2>1. /\ out' = out \o Bytes(pos + 1, len) \o dot
        /\ pos' = end /\ ReadTo(IF end < N THEN end + 1 ELSE end) /\ pc' = pc
    BY <1>6 DEF CopyLabel
  <2>2. end <= N /\ Len(out) + len + 2 <= NameSize
    BY <1>6 DEF LabelFits
  <2>3. dot \in Text /\ Len(dot) \in {0, 1}
    <3>1. Dot \in Byte
      BY DEF Dot, Byte
    <3> HIDE DEF end
    <3>2. <<Dot>> \in Text /\ Len(<<Dot>>) = 1
      BY <3>1 DEF Text
    <3>3. << >> \in Text /\ Len(<< >>) = 0
      BY DEF Text
    <3>4. dot = <<Dot>> \/ dot = << >>
      OBVIOUS
    <3> HIDE DEF dot
    <3> QED BY <3>2, <3>3, <3>4
  <2>4. Bytes(pos + 1, len) \in Text /\ Len(Bytes(pos + 1, len)) = len
    <3>1. pos + 1 \in Nat
      BY <1>3
    <3> HIDE DEF len
    <3> QED BY <1>2, <1>3, <3>1, BytesText
  <2>5. out \in Text /\ Len(out) \in Nat
    BY Lengths DEF DecodeInv, TypeOK
  <2> HIDE DEF len, dot
  <2>6. /\ out \o Bytes(pos + 1, len) \in Text
        /\ Len(out \o Bytes(pos + 1, len)) = Len(out) + len
    BY <2>4, <2>5, ConcatProperties DEF Text
  <2>7. out' \in Text /\ Len(out') = Len(out) + len + Len(dot)
    BY <2>1, <2>3, <2>6, ConcatProperties DEF Text
  <2>8. Len(out') < NameSize
    <3>1. NameSize \in Nat
      BY DecodeAssumption
    <3>2. \A o, l, s \in Nat, d \in {0, 1} : o + l + 2 <= s => o + l + d < s
      OBVIOUS
    <3> QED BY <1>3, <2>2, <2>3, <2>5, <2>7, <3>1, <3>2
  <2>9. end \in 0..N /\ end > pos
    BY <1>2, <1>3, <2>2
  <2>10. (IF end < N THEN end + 1 ELSE end) \in 0..N
    <3> HIDE DEF end
    <3> QED BY <1>2, <2>9
  <2>11. high' \in 0..N
    <3> HIDE DEF end
    <3> QED BY <2>1, <2>10, ReadToHigh DEF DecodeInv
  <2> HIDE DEF end
  <2>12. ~jumped' => pos' >= next'
    BY <1>1, <1>2, <2>1, <2>9 DEF DecodeInv, ReadingInv
  <2>13. depth' \in 0..MaxDepth + 1 /\ depth' <= MaxDepth
    BY <1>1 DEF DecodeInv, TypeOK, ReadingInv
  <2>14. pc' \in {"decode", "named", "failed"} /\ jumped' \in BOOLEAN
    BY <1>1, <2>1 DEF DecodeInv, TypeOK
  <2>15. DecodeInv'
    BY <1>1, <1>4, <2>1, <2>7, <2>8, <2>9, <2>11, <2>12, <2>13, <2>14, NameStepInv
  <2> QED BY <1>1, <2>1, <2>9, <2>15
<1> QED BY <1>5, <1>6

\* The first question.
LEMMA BeginQuestionInv ==
  ASSUME DecodeInv, BeginQuestion
  PROVE  DecodeInv'
<1>1. UNCHANGED <<packet, parser, offset, idx, rr, question, results>> /\ pc = "begin"
  BY DEF BeginQuestion, recordVars
<1>2. /\ offset' \in 0..N /\ idx' \in Nat /\ question' \in Question /\ rr' \in Record
      /\ results' \in Seq(Result) /\ Len(results') <= MaxResults /\ offset' = 0
  BY <1>1 DEF DecodeInv, TypeOK, ReadingInv
<1>3. CASE N < HeaderLen
  <2>1. Return /\ high' \in 0..N
    BY <1>3 DEF BeginQuestion, DecodeInv, TypeOK
  <2> QED BY <1>1, <1>2, <2>1, ReturnInv
<1>4. CASE ~(N < HeaderLen)
  <2>1. HeaderLen \in 0..N /\ 6 \in 0..N /\ N >= HeaderLen
    BY <1>4, Lengths DEF HeaderLen, DecodeInv
  <2>2. ReadTo(6)
    BY <1>4 DEF BeginQuestion
  <2>3. high' \in 0..N
    BY <2>1, <2>2, ReadToHigh DEF DecodeInv
  <2>4. Return \/ Decode("question", HeaderLen)
    BY <1>4 DEF BeginQuestion
  <2>5. CASE Return
    BY <1>1, <1>2, <2>3, <2>5, ReturnInv
  <2>6. CASE Decode("question", HeaderLen)
    <3>1. "question" \in Calls
      BY DEF Calls
    <3> QED BY <1>1, <1>2, <2>1, <2>3, <2>6, <3>1, DecodeCallInv
  <2> QED BY <2>4, <2>5, <2>6
<1> QED BY <1>3, <1>4

LEMMA QuestionNamedInv ==
  ASSUME DecodeInv, QuestionNamed
  PROVE  DecodeInv' /\ UNCHANGED <<offset, idx>>
<1>1. UNCHANGED <<packet, parser, offset, idx, rr, results>> /\ Return
  BY DEF QuestionNamed
<1>2. /\ offset' \in 0..N /\ idx' \in Nat
      /\ results' \in Seq(Result) /\ Len(results') <= MaxResults
  BY <1>1 DEF DecodeInv, TypeOK
<1>3. question' \in Question /\ high' \in 0..N
  <2>1. CASE next + 4 > N
    BY <2>1 DEF QuestionNamed, DecodeInv, TypeOK
  <2>2. CASE ~(next + 4 > N)
    <3>1. question' = [name |-> CString(out), qtype |-> U16(next)] /\ ReadTo(next + 2)
      BY <2>2 DEF QuestionNamed
    <3>2. next + 2 \in 0..N /\ next \in Nat /\ packet \in Text /\ out \in Text
      BY <2>2, Lengths DEF DecodeInv, TypeOK
    <3>3. high' \in 0..N
      BY <3>1, <3>2, ReadToHigh DEF DecodeInv
    <3>4. CString(out) \in Text /\ U16(next) \in Nat
      BY <3>2, CStringText, U16Nat
    <3>5. U16(next) \in Int
      BY <3>4
    <3> QED BY <3>1, <3>3, <3>4, <3>5 DEF Question
  <2> QED BY <2>1, <2>2
<1> QED BY <1>1, <1>2, <1>3, ReturnInv

----------------------------------------------------------------------------
(* The records. *)

\* What the loop tests do to offset and index.
LEMMA NextRecordForward ==
  ASSUME NEW i, NEW o, NEW rows, NextRecord(i, o, rows)
  PROVE  idx' = i /\ offset' = o
BY DEF NextRecord

LEMMA NextQuestionForward ==
  ASSUME NEW i, NEW o, NextQuestion(i, o)
  PROVE  offset' = o
BY NextRecordForward DEF NextQuestion

\* The offset never goes back, and a new record lies behind the last.
Forward == offset' >= offset /\ (idx' # idx => offset' > offset)

LEMMA BeginAnswersInv ==
  ASSUME DecodeInv, BeginAnswers
  PROVE  DecodeInv' /\ Forward
<1>1. UNCHANGED <<packet, parser, rr, question, results>> /\ pc = "begin"
  BY DEF BeginAnswers
<1>2. /\ question' \in Question
      /\ results' \in Seq(Result) /\ Len(results') <= MaxResults
      /\ offset = 0 /\ offset \in 0..N /\ idx \in Nat
  BY <1>1 DEF DecodeInv, TypeOK, ReadingInv
<1>3. CASE N < HeaderLen
  <2>1. Return /\ high' \in 0..N /\ UNCHANGED <<idx, offset>>
    BY <1>3 DEF BeginAnswers, DecodeInv, TypeOK
  <2>2. DecodeInv'
    BY <1>1, <1>2, <2>1, ReturnInv
  <2> QED BY <1>2, <2>1, <2>2 DEF Forward
<1>4. CASE ~(N < HeaderLen)
  <2>1. HeaderLen \in 0..N /\ 8 \in 0..N /\ N >= HeaderLen
    BY <1>4, Lengths DEF HeaderLen, DecodeInv
  <2>2. ReadTo(8) /\ NextQuestion(0, HeaderLen)
    BY <1>4 DEF BeginAnswers
  <2>3. high' \in 0..N
    BY <2>1, <2>2, ReadToHigh DEF DecodeInv
  <2>4. DecodeInv'
    BY <1>1, <2>1, <2>2, <2>3, 0 \in Nat, NextQuestionInv
  <2>5. offset' = HeaderLen
    BY <2>2, NextQuestionForward
  <2> QED BY <1>2, <2>4, <2>5 DEF Forward, HeaderLen
<1> QED BY <1>3, <1>4

LEMMA SkipQuestionInv ==
  ASSUME DecodeInv, SkipQuestion
  PROVE  DecodeInv' /\ Forward
<1>1. /\ UNCHANGED <<packet, parser, rr, question, results, high>>
      /\ pc = "named" /\ call = "skip"
  BY DEF SkipQuestion
<1>2. /\ question' \in Question /\ high' \in 0..N
      /\ results' \in Seq(Result) /\ Len(results') <= MaxResults
      /\ offset \in 0..N /\ idx \in Nat /\ next \in 0..N
  BY <1>1 DEF DecodeInv, TypeOK
<1>3. N >= HeaderLen /\ next >= offset
  BY <1>1 DEF DecodeInv, ReadingInv, Reading
<1>4. CASE next + 4 > N
  <2>1. Return /\ UNCHANGED <<idx, offset>>
    BY <1>4 DEF SkipQuestion
  <2>2. DecodeInv'
    BY <1>1, <1>2, <2>1, ReturnInv
  <2> QED BY <1>2, <2>1, <2>2 DEF Forward
<1>5. CASE ~(next + 4 > N)
  <2>1. NextQuestion(idx + 1, next + 4)
    BY <1>5 DEF SkipQuestion
  <2>2. next + 4 \in 0..N /\ idx + 1 \in Nat
    BY <1>2, <1>5, Lengths DEF DecodeInv
  <2>3. DecodeInv'
    BY <1>1, <1>2, <1>3, <2>1, <2>2, NextQuestionInv
  <2>4. offset' = next + 4
    BY <2>1, NextQuestionForward
  <2> QED BY <1>2, <1>3, <2>3, <2>4 DEF Forward
<1> QED BY <1>4, <1>5

\* A record whose name was read.
LEMMA AtRecord ==
  ASSUME DecodeInv, pc = "named", call = "owner"
  PROVE  /\ N \in Nat /\ N >= HeaderLen /\ packet \in Text /\ out \in Text
         /\ Data \in Nat /\ Data = next + 10 /\ RdLength \in Nat /\ Type \in Nat
         /\ offset \in Nat /\ Data > offset /\ idx \in Nat /\ idx + 1 \in Nat
         /\ results \in Seq(Result) /\ Len(results) \in Nat /\ Len(results) < MaxResults
<1>1. /\ N \in Nat /\ packet \in Text /\ out \in Text /\ next \in Nat /\ offset \in Nat
      /\ idx \in Nat /\ results \in Seq(Result) /\ Len(results) \in Nat
  BY Lengths DEF DecodeInv, TypeOK
<1>2. N >= HeaderLen /\ next >= offset /\ Len(results) < MaxResults
  BY DEF DecodeInv, ReadingInv, Reading
<1>3. next + 8 \in Nat /\ Data \in Nat /\ Data = next + 10 /\ Data > offset
  BY <1>1, <1>2 DEF Data
<1>4. Type \in Nat /\ RdLength \in Nat
  BY <1>1, <1>3, U16Nat DEF Type, RdLength
<1> QED BY <1>1, <1>2, <1>3, <1>4

\* A record that fits ends within the packet.
LEMMA RecordEnd ==
  ASSUME DecodeInv, pc = "named", call = "owner", RecordFits
  PROVE  /\ Data + RdLength \in 0..N /\ Data + RdLength > offset
         /\ Data \in 0..N
<1>1. Data <= N /\ Data + RdLength <= N
  BY DEF RecordFits
<1> QED BY <1>1, AtRecord

\* Its row is added.
LEMMA TakeRowInv ==
  ASSUME DecodeInv, pc = "named", call = "owner", RecordFits,
         NEW row \in Result, TakeRow(row), high' \in 0..N,
         UNCHANGED <<packet, parser, rr, question>>
  PROVE  DecodeInv' /\ Forward
<1>1. results' = Append(results, row) /\ NextRecord(idx + 1, Data + RdLength, results')
  BY DEF TakeRow
<1>2. results' \in Seq(Result) /\ Len(results') <= MaxResults
  <2>1. Len(results) < MaxResults /\ results \in Seq(Result) /\ Len(results) \in Nat
    BY AtRecord
  <2>2. results' \in Seq(Result) /\ Len(results') = Len(results) + 1
    BY <1>1, <2>1
  <2>3. MaxResults \in Nat
    BY DecodeAssumption
  <2> QED BY <2>1, <2>2, <2>3
<1>3. question' \in Question
  BY DEF DecodeInv, TypeOK
<1>4. N >= HeaderLen /\ idx + 1 \in Nat /\ Data + RdLength \in 0..N
  BY AtRecord, RecordEnd
<1> DEFINE o == Data + RdLength
           i == idx + 1
<1>5. DecodeInv'
  <2>1. o \in 0..N /\ i \in Nat /\ NextRecord(i, o, results')
    BY <1>1, <1>4
  <2> HIDE DEF o, i
  <2> DEFINE rows == results'
  <2>2. rows \in Seq(Result) /\ Len(rows) <= MaxResults /\ results' = rows
    BY <1>2
  <2>3. NextRecord(i, o, rows)
    BY <2>1
  <2> HIDE DEF rows
  <2> QED BY <1>3, <1>4, <2>1, <2>2, <2>3, NextRecordInv
<1>6. offset' = Data + RdLength
  BY <1>1, NextRecordForward
<1> QED BY <1>4, <1>5, <1>6, AtRecord, RecordEnd DEF Forward

LEMMA EmptyRow == NoResult \in Result /\ << >> \in Text
<1>1. << >> \in Text
  BY DEF Text
<1> QED BY <1>1 DEF NoResult, Result

LEMMA EndOfAnswersInv ==
  ASSUME DecodeInv, EndOfAnswers
  PROVE  DecodeInv' /\ Forward
<1>1. /\ UNCHANGED <<packet, parser, offset, idx, rr, question, results>> /\ Return
      /\ pc = "named" /\ call = "owner"
  BY DEF EndOfAnswers, recordVars
<1>2. /\ question' \in Question /\ offset' \in 0..N /\ idx' \in Nat
      /\ results' \in Seq(Result) /\ Len(results') <= MaxResults
  BY <1>1 DEF DecodeInv, TypeOK
<1>3. high' \in 0..N
  <2>1. CASE Data <= N
    <3>1. Data \in 0..N /\ ReadTo(Data)
      BY <1>1, <2>1, AtRecord DEF EndOfAnswers
    <3> QED BY <3>1, ReadToHigh DEF DecodeInv
  <2>2. CASE ~(Data <= N)
    BY <2>2 DEF EndOfAnswers, DecodeInv, TypeOK
  <2> QED BY <2>1, <2>2
<1>4. DecodeInv'
  BY <1>1, <1>2, <1>3, ReturnInv
<1> QED BY <1>1, <1>2, <1>4 DEF Forward

LEMMA AddressRecordInv ==
  ASSUME DecodeInv, AddressRecord
  PROVE  DecodeInv' /\ Forward
<1> DEFINE host == CString(out)
           address == Bytes(Data, RdLength)
           type == Type
           row == [NoResult EXCEPT !.rrtype = type, !.hostname = host, !.address = address]
<1>1. /\ pc = "named" /\ call = "owner" /\ RecordFits
      /\ TakeRow(row) /\ ReadTo(Data + RdLength)
      /\ UNCHANGED <<packet, parser, rr, question>>
  BY DEF AddressRecord
<1>2. type \in Nat /\ host \in Text /\ address \in Text
  BY <1>1, AtRecord, BytesText, CStringText
<1>3. row \in Result
  <2> HIDE DEF type, host, address
  <2> QED BY <1>2, EmptyRow DEF Result
<1>4. high' \in 0..N
  BY <1>1, RecordEnd, ReadToHigh DEF DecodeInv
<1> HIDE DEF row
<1> QED BY <1>1, <1>3, <1>4, TakeRowInv

LEMMA TextRecordInv ==
  ASSUME DecodeInv, TextRecord
  PROVE  DecodeInv' /\ Forward
<1> DEFINE len == Least(Least(At(Data), RdLength - 1), TextSize - 1)
           name == CString(out)
           text == CString(Bytes(Data + 1, len))
           type == Type
           row == [NoResult EXCEPT !.rrtype = type, !.instance = name, !.txt = text]
<1>1. /\ pc = "named" /\ call = "owner" /\ RecordFits /\ HasText
      /\ TakeRow(row) /\ ReadTo(Data + 1 + len)
      /\ UNCHANGED <<packet, parser, rr, question>>
  BY DEF TextRecord
<1>2. RdLength \in Nat /\ RdLength >= 1 /\ Data \in Nat /\ Data + 1 \in Nat /\ At(Data) \in Nat
  BY <1>1, AtRecord, AtNat DEF HasText
<1>3. len \in Nat /\ len <= RdLength - 1
  <2>1. TextSize - 1 \in Nat
    BY DecodeAssumption
  <2>2. \A a, b, c \in Nat : Least(Least(a, b), c) \in Nat /\ Least(Least(a, b), c) <= b
    BY DEF Least
  <2>3. RdLength - 1 \in Nat
    BY <1>2
  <2> QED BY <1>2, <2>1, <2>2, <2>3
<1> HIDE DEF len
<1>4. type \in Nat /\ name \in Text /\ text \in Text
  BY <1>1, <1>2, <1>3, AtRecord, BytesText, CStringText
<1>5. row \in Result
  <2> HIDE DEF type, name, text
  <2> QED BY <1>4, EmptyRow DEF Result
<1>6. high' \in 0..N
  <2>1. N \in Nat /\ Data + RdLength <= N
    BY <1>1, AtRecord, RecordEnd
  <2>2. Data + 1 + len \in 0..N
    BY <1>2, <1>3, <2>1
  <2> QED BY <1>1, <2>2, ReadToHigh DEF DecodeInv
<1> HIDE DEF row
<1> QED BY <1>1, <1>5, <1>6, TakeRowInv

LEMMA NameRecordInv ==
  ASSUME DecodeInv, NameRecord
  PROVE  DecodeInv' /\ Forward
<1>1. /\ pc = "named" /\ call = "owner" /\ RecordFits
      /\ UNCHANGED <<packet, parser, offset, idx, question, results>>
      /\ rr' = [name |-> CString(out), rrtype |-> Type, rdata |-> Data, rdlength |-> RdLength]
  BY DEF NameRecord
<1>2. /\ offset' \in 0..N /\ idx' \in Nat /\ question' \in Question
      /\ results' \in Seq(Result) /\ Len(results') <= MaxResults
  BY <1>1 DEF DecodeInv, TypeOK
<1>3. rr' \in Record /\ rr'.rdata = Data /\ rr'.rdlength = RdLength
  BY <1>1, AtRecord, CStringText DEF Record
<1>4. Data \in 0..N /\ Data + RdLength <= N /\ Data > offset' /\ N >= HeaderLen
  BY <1>1, AtRecord, RecordEnd
<1>5. Len(results') < MaxResults
  BY <1>1, AtRecord
<1>6. PICK c \in {"ptr", "srv"}, o \in 0..N : Decode(c, o) /\ ReadTo(o)
  <2>1. CASE HasTarget
    BY <1>4, <2>1 DEF NameRecord
  <2>2. CASE ~HasTarget
    <3>1. RdLength >= 6 /\ RdLength \in Nat /\ Data \in Nat /\ N \in Nat
      BY <1>1, <2>2, AtRecord DEF NameRecord, HasHost
    <3>2. Data + 6 \in 0..N
      BY <1>4, <3>1
    <3> QED BY <2>2, <3>2 DEF NameRecord
  <2> QED BY <2>1, <2>2
<1>7. high' \in 0..N
  BY <1>6, ReadToHigh DEF DecodeInv
<1>8. c \in Calls /\ c \notin {"skip", "owner"}
  BY <1>6 DEF Calls
<1>9. DecodeInv'
  BY <1>1, <1>2, <1>3, <1>4, <1>5, <1>6, <1>7, <1>8, DecodeCallInv
<1> QED BY <1>1, <1>2, <1>9 DEF Forward

LEMMA SkipRecordInv ==
  ASSUME DecodeInv, SkipRecord
  PROVE  DecodeInv' /\ Forward
<1>1. /\ pc = "named" /\ call = "owner" /\ RecordFits
      /\ NextRecord(idx + 1, Data + RdLength, results) /\ ReadTo(Data)
      /\ UNCHANGED <<packet, parser, rr, question, results>>
  BY DEF SkipRecord
<1>2. high' \in 0..N
  BY <1>1, RecordEnd, ReadToHigh DEF DecodeInv
<1>3. /\ question' \in Question /\ results \in Seq(Result) /\ Len(results) <= MaxResults
      /\ results' = results
  BY <1>1 DEF DecodeInv, TypeOK
<1>4. N >= HeaderLen /\ idx + 1 \in Nat /\ Data + RdLength \in 0..N
  BY <1>1, AtRecord, RecordEnd
<1>5. DecodeInv'
  BY <1>1, <1>2, <1>3, <1>4, NextRecordInv
<1>6. offset' = Data + RdLength
  BY <1>1, NextRecordForward
<1> QED BY <1>1, <1>5, <1>6, AtRecord, RecordEnd DEF Forward

\* The name in a record's data was read, or not: the record is left behind.
LEMMA AfterData ==
  ASSUME DecodeInv, InData, NEW rows \in Seq(Result), Len(rows) <= MaxResults,
         NextRecord(idx + 1, EndOfRecord, rows), results' = rows,
         UNCHANGED <<packet, parser, rr, question, high>>
  PROVE  DecodeInv' /\ Forward
<1>1. /\ N >= HeaderLen /\ EndOfRecord \in 0..N /\ EndOfRecord > offset
      /\ idx + 1 \in Nat /\ offset \in Nat
  <2>1. N \in Nat /\ rr.rdata \in Nat /\ rr.rdlength \in Nat /\ offset \in Nat /\ idx \in Nat
    BY Lengths DEF DecodeInv, TypeOK, Record
  <2>2. N >= HeaderLen /\ EndOfRecord <= N /\ rr.rdata > offset
    BY DEF DecodeInv, TypeOK, ReadingInv, InData
  <2> QED BY <2>1, <2>2 DEF EndOfRecord
<1>2. question' \in Question /\ high' \in 0..N
  BY DEF DecodeInv, TypeOK
<1>3. DecodeInv'
  <2>1. UNCHANGED <<packet, parser, rr>>
    OBVIOUS
  <2> QED BY <1>1, <1>2, <2>1, NextRecordInv
<1>4. offset' = EndOfRecord
  BY NextRecordForward
<1> QED BY <1>1, <1>3, <1>4 DEF Forward

\* A row more than there was while its record was read fits.
LEMMA RowAfterData ==
  ASSUME DecodeInv, InData, NEW row \in Result
  PROVE  Append(results, row) \in Seq(Result) /\ Len(Append(results, row)) <= MaxResults
<1>1. results \in Seq(Result) /\ Len(results) \in Nat /\ Len(results) < MaxResults
  BY Lengths DEF DecodeInv, TypeOK, ReadingInv, InData
<1>2. MaxResults \in Nat
  BY DecodeAssumption
<1> QED BY <1>1, <1>2

LEMMA PtrNamedInv ==
  ASSUME DecodeInv, PtrNamed
  PROVE  DecodeInv' /\ Forward
<1> DEFINE target == CString(out)
           row == [NoResult EXCEPT !.rrtype = 12, !.instance = target, !.service_type = rr.name]
<1>1. /\ InData /\ results' = Append(results, row)
      /\ NextRecord(idx + 1, EndOfRecord, results')
      /\ UNCHANGED <<packet, parser, rr, question, high>>
  BY DEF PtrNamed, InData, Reading
<1>2. target \in Text /\ rr.name \in Text
  BY CStringText DEF DecodeInv, TypeOK, Record
<1>3. row \in Result
  <2> HIDE DEF target
  <2> QED BY <1>2, EmptyRow DEF Result
<1> HIDE DEF row
<1> QED BY <1>1, <1>3, RowAfterData, AfterData

LEMMA SrvNamedInv ==
  ASSUME DecodeInv, SrvNamed
  PROVE  DecodeInv' /\ Forward
<1> DEFINE host == CString(out)
           port == U16(rr.rdata + 4)
           row == [NoResult EXCEPT !.rrtype = 33, !.instance = rr.name,
                                   !.hostname = host, !.port = port]
<1>1. /\ InData /\ results' = Append(results, row)
      /\ NextRecord(idx + 1, EndOfRecord, results')
      /\ UNCHANGED <<packet, parser, rr, question, high>>
  BY DEF SrvNamed, InData, Reading
<1>2. host \in Text /\ rr.name \in Text /\ packet \in Text /\ rr.rdata \in Nat
  BY CStringText DEF DecodeInv, TypeOK, Record
<1>3. port \in Nat
  <2>1. rr.rdata + 4 \in Nat
    BY <1>2
  <2> QED BY <1>2, <2>1, U16Nat
<1>4. row \in Result
  <2> HIDE DEF host, port
  <2> QED BY <1>2, <1>3, EmptyRow DEF Result
<1> HIDE DEF row
<1> QED BY <1>1, <1>4, RowAfterData, AfterData

LEMMA NameFailedInv ==
  ASSUME DecodeInv, NameFailed
  PROVE  DecodeInv' /\ Forward
<1>1. pc = "failed" /\ UNCHANGED <<packet, parser, rr, question, results, high>>
  BY DEF NameFailed
<1>2. /\ question' \in Question /\ results \in Seq(Result) /\ Len(results) <= MaxResults
      /\ results' \in Seq(Result) /\ Len(results') <= MaxResults
      /\ high' \in 0..N /\ offset \in 0..N /\ idx \in Nat
  BY <1>1 DEF DecodeInv, TypeOK
<1>3. CASE call \in {"ptr", "srv"}
  <2>1. InData /\ NextRecord(idx + 1, EndOfRecord, results) /\ results' = results
    BY <1>1, <1>3 DEF NameFailed, InData, Reading
  <2> QED BY <1>1, <1>2, <2>1, AfterData
<1>4. CASE call \notin {"ptr", "srv"}
  <2>1. Return /\ UNCHANGED <<idx, offset>>
    BY <1>4 DEF NameFailed
  <2>2. DecodeInv'
    BY <1>1, <1>2, <2>1, ReturnInv
  <2> QED BY <1>2, <2>1, <2>2 DEF Forward
<1> QED BY <1>3, <1>4

----------------------------------------------------------------------------
(* The theorems. *)

LEMMA InitInv ==
  ASSUME Init
  PROVE  DecodeInv
<1>1. packet \in Text
  BY DecodeAssumption DEF Init, Text
<1>2. N \in Nat
  BY <1>1 DEF N, Text
<1>3. << >> \in Text /\ Len(<< >>) = 0 /\ << >> \in Seq(Result)
  BY DEF Text
<1>4. 0 \in 0..MaxDepth + 1 /\ 0 <= MaxResults /\ 0 < NameSize /\ 0 \in 0..N
  BY <1>2, DecodeAssumption
<1>5. NoRecord \in Record /\ NoQuestion \in Question
  BY <1>3 DEF NoRecord, NoQuestion, Record, Question
<1>6. ~Reading /\ ~InData /\ pc # "decode" /\ offset = 0
  BY DEF Init, Reading, InData
<1>7. TypeOK
  BY <1>1, <1>3, <1>4, <1>5, <1>6 DEF Init, TypeOK, Calls
<1> QED BY <1>6, <1>7 DEF DecodeInv, ReadingInv

\* What a step must do to go forward.
Advance ==
  /\ pc = "decode" /\ pc' = "decode" => depth' > depth \/ (depth' = depth /\ pos' > pos)
  /\ Forward

\* Steps that leave offset and index alone.
LEMMA StayForward ==
  ASSUME DecodeInv, UNCHANGED <<offset, idx>>
  PROVE  Forward
BY DEF DecodeInv, TypeOK, Forward

LEMMA StepInv ==
  ASSUME DecodeInv, [Next]_vars
  PROVE  DecodeInv' /\ (Advance \/ UNCHANGED vars)
<1>1. CASE RunOff
  BY <1>1, RunOffInv, StayForward DEF RunOff, EndName, recordVars, Advance
<1>2. CASE ZeroLabel
  BY <1>2, ZeroLabelInv, StayForward DEF ZeroLabel, EndName, recordVars, Advance
<1>3. CASE FollowPointer
  <2>1. UNCHANGED <<offset, idx>>
    BY <1>3 DEF FollowPointer, recordVars
  <2>2. pc' = "decode" => depth' > depth
    <3>1. depth \in Nat
      BY DEF DecodeInv, TypeOK
    <3> QED BY <1>3, <3>1 DEF FollowPointer
  <2> QED BY <1>3, <2>1, <2>2, FollowPointerInv, StayForward DEF Advance
<1>4. CASE CopyLabel
  <2>1. UNCHANGED <<offset, idx>>
    BY <1>4 DEF CopyLabel, recordVars
  <2> QED BY <1>4, <2>1, CopyLabelInv, StayForward DEF Advance
<1>5. CASE BeginQuestion
  <2>1. UNCHANGED <<offset, idx>> /\ pc = "begin"
    BY <1>5 DEF BeginQuestion, recordVars
  <2> QED BY <1>5, <2>1, BeginQuestionInv, StayForward DEF Advance
<1>6. CASE QuestionNamed
  BY <1>6, QuestionNamedInv, StayForward DEF QuestionNamed, Advance
<1>7. CASE BeginAnswers
  BY <1>7, BeginAnswersInv DEF BeginAnswers, Advance
<1>8. CASE SkipQuestion
  BY <1>8, SkipQuestionInv DEF SkipQuestion, Advance
<1>9. CASE EndOfAnswers
  BY <1>9, EndOfAnswersInv DEF EndOfAnswers, Advance
<1>10. CASE AddressRecord
  BY <1>10, AddressRecordInv DEF AddressRecord, Advance
<1>11. CASE TextRecord
  BY <1>11, TextRecordInv DEF TextRecord, Advance
<1>12. CASE NameRecord
  BY <1>12, NameRecordInv DEF NameRecord, Advance
<1>13. CASE SkipRecord
  BY <1>13, SkipRecordInv DEF SkipRecord, Advance
<1>14. CASE PtrNamed
  BY <1>14, PtrNamedInv DEF PtrNamed, Advance
<1>15. CASE SrvNamed
  BY <1>15, SrvNamedInv DEF SrvNamed, Advance
<1>16. CASE NameFailed
  BY <1>16, NameFailedInv DEF NameFailed, Advance
<1>17. CASE UNCHANGED vars
  BY <1>17 DEF vars, decodeVars, recordVars, DecodeInv, TypeOK, ReadingInv, InData,
               Reading, EndOfRecord, N
<1> QED BY <1>1, <1>2, <1>3, <1>4, <1>5, <1>6, <1>7, <1>8, <1>9, <1>10, <1>11, <1>12,
           <1>13, <1>14, <1>15, <1>16, <1>17 DEF Next, NameStep

\* For every packet, every size of the name and text buffers and of the
\* caller's array, and every limit on pointers: no byte outside the packet
\* is read, no buffer and no array is overrun.
THEOREM DecodeTypeCorrect == Spec => []TypeOK
<1>1. Init => DecodeInv
  BY InitInv
<1>2. DecodeInv /\ [Next]_vars => DecodeInv'
  BY StepInv
<1>3. DecodeInv => TypeOK
  BY DEF DecodeInv
<1> QED BY <1>1, <1>2, <1>3, PTL DEF Spec

\* Reading goes forward: the pair of pointers followed and position grows
\* within a name, the offset from record to record, and all are bounded by
\* TypeOK.
THEOREM DecodeReadsForward == Spec => ReadsForward
<1>1. Init => DecodeInv
  BY InitInv
<1>2. DecodeInv /\ [Next]_vars => DecodeInv'
  BY StepInv
<1>3. DecodeInv /\ [Next]_vars =>
        [/\ pc = "decode" /\ pc' = "decode" =>
              depth' > depth \/ (depth' = depth /\ pos' > pos)
         /\ offset' >= offset
         /\ idx' # idx => offset' > offset]_vars
  BY StepInv DEF Advance, Forward
<1> QED BY <1>1, <1>2, <1>3, PTL DEF Spec, ReadsForward

----------------------------------------------------------------------------
(* Names in a message. *)

\* An octet is a pointer's, a label's or neither.
LEMMA OctetKinds ==
  \A v \in Byte : /\ v >= 192 => v \in 192..255 /\ v # 0 /\ v \notin 1..63
                  /\ v \in 1..191 => v # 0 /\ v \notin 192..255
BY DEF Byte

LEMMA OctetByte ==
  ASSUME NEW p \in Text, NEW o \in Nat, o < Len(p)
  PROVE  Octet(p, o) \in Byte
<1>1. Len(p) \in Nat
  BY DEF Text
<1>2. o + 1 \in 1..Len(p)
  BY <1>1
<1> QED BY <1>2 DEF Octet, Text

\* Where the octets of a name lie, and what there is at each of its offsets.
LEMMA SpelledFacts ==
  ASSUME NEW p \in Text, NEW w, Spelled(p, w)
  PROVE  /\ Len(w) \in Nat /\ Len(w) >= 1 /\ w \in [1..Len(w) -> Nat]
         /\ \A i \in 1..Len(w) : Octet(p, w[i]) \in Byte /\ w[i] < Len(p)
         /\ \A i \in 1..Len(w) - 1 : LeadsTo(p, w[i], w[i + 1])
         /\ InPlace(p, w) \in 1..Len(w) /\ ~IsLabel(p, w[InPlace(p, w)])
         /\ \A i \in 1..Len(w) : i < InPlace(p, w) => IsLabel(p, w[i])
         /\ Behind(p, w) \in Nat /\ Behind(p, w) > w[1] /\ w[1] >= HeaderLen
         /\ \A i \in 1..Len(w) : Span(p, w[i]) \in Nat /\ Span(p, w[i]) >= 1
                                 /\ w[i] + Span(p, w[i]) <= Behind(p, w)
<1> DEFINE n == Len(w)
           S == {i \in 1..n : ~IsLabel(p, w[i])}
<1>1. n \in Nat /\ n >= 1 /\ w \in [1..n -> Nat] /\ Len(p) \in Nat
  <2>1. w \in Seq(Nat) /\ w # << >>
    BY DEF Spelled
  <2> QED BY <2>1, EmptySeq DEF Text
<1>2. ASSUME NEW o \in Nat PROVE Span(p, o) >= 1 /\ (IsLabel(p, o) => Span(p, o) \in Nat)
                                 /\ Span(p, o) \in Nat
  BY DEF Span, IsLabel
<1>3. n \in S
  <2>1. Octet(p, w[n]) = 0
    BY DEF Spelled
  <2>2. ~IsLabel(p, w[n])
    BY <2>1 DEF IsLabel
  <2> QED BY <1>1, <2>2
<1>4. InPlace(p, w) \in S /\ \A i \in S : InPlace(p, w) <= i
  <2> HIDE DEF S
  <2>1. S \in SUBSET Nat /\ S # {}
    BY <1>3 DEF S
  <2>2. InPlace(p, w) = Min(S)
    BY DEF InPlace, S
  <2> QED BY <2>1, <2>2, MinExists
<1> DEFINE j == InPlace(p, w)
           b == Behind(p, w)
<1>5. j \in 1..n /\ ~IsLabel(p, w[j]) /\ \A i \in 1..n : i < j => IsLabel(p, w[i])
  BY <1>1, <1>4
<1>6. b = w[j] + Span(p, w[j]) /\ b \in Nat
  <2>1. b = w[j] + Span(p, w[j])
    BY DEF Behind
  <2> HIDE DEF b, j
  <2>2. w[j] \in Nat /\ Span(p, w[j]) \in Nat
    BY <1>1, <1>2, <1>5
  <2> QED BY <2>1, <2>2
<1>7. \A i \in 1..n : w[i] + Span(p, w[i]) <= IF i <= j THEN b ELSE w[1]
  BY DEF Spelled
<1> HIDE DEF j, b
<1>8. w[1] + Span(p, w[1]) <= b /\ b > w[1] /\ w[1] \in Nat
  <2>1. 1 \in 1..n /\ 1 <= j /\ w[1] \in Nat
    BY <1>1, <1>5
  <2>2. w[1] + Span(p, w[1]) <= b /\ Span(p, w[1]) \in Nat /\ Span(p, w[1]) >= 1
    BY <1>2, <1>7, <2>1
  <2> QED BY <1>6, <2>1, <2>2
<1>9. \A i \in 1..n : /\ Span(p, w[i]) \in Nat /\ Span(p, w[i]) >= 1
                      /\ w[i] + Span(p, w[i]) <= b
  <2> TAKE i \in 1..n
  <2>1. w[i] \in Nat /\ Span(p, w[i]) \in Nat /\ Span(p, w[i]) >= 1
    BY <1>1, <1>2
  <2>2. w[i] + Span(p, w[i]) <= b \/ w[i] + Span(p, w[i]) <= w[1]
    BY <1>7
  <2> QED BY <1>6, <1>8, <2>1, <2>2
<1>10. \A i \in 1..n : w[i] < Len(p) /\ Octet(p, w[i]) \in Byte
  <2>1. b <= Len(p)
    BY DEF Spelled, b
  <2> TAKE i \in 1..n
  <2>2. w[i] \in Nat /\ w[i] < Len(p)
    BY <1>1, <1>6, <1>9, <2>1
  <2> QED BY <2>2, OctetByte
<1>11. w[1] >= HeaderLen /\ \A i \in 1..n - 1 : LeadsTo(p, w[i], w[i + 1])
  BY DEF Spelled
<1> QED BY <1>1, <1>5, <1>6, <1>8, <1>9, <1>10, <1>11 DEF j, b

LEMMA SaidDef ==
  ASSUME NEW p, NEW w, Len(w) \in Nat
  PROVE  LET f == Said(p, w) IN
         f[0] = << >> /\ \A i \in 1..Len(w) : f[i] = SayNext(p, f[i - 1], w[i])
<1> DEFINE Body(f, m) == [i \in 0..m |->
             IF i = 0 THEN << >> ELSE SayNext(p, f[i - 1], w[i])]
           G == {m \in 0..Len(w) : \E f : f = Body(f, m)}
<1>1. 0 \in G
  <2> DEFINE f == [i \in 0..0 |-> << >>]
  <2>1. f = Body(f, 0)
    OBVIOUS
  <2> HIDE DEF f
  <2> QED BY <2>1
<1>2. ASSUME NEW m \in 1..Len(w), m - 1 \in G PROVE m \in G
  <2>1. PICK f : f = Body(f, m - 1)
    BY <1>2
  <2> DEFINE g == [i \in 0..m |-> IF i = m THEN SayNext(p, f[m - 1], w[m]) ELSE f[i]]
  <2>2. ASSUME NEW i \in 0..m
        PROVE  g[i] = IF i = 0 THEN << >> ELSE SayNext(p, g[i - 1], w[i])
    <3>1. CASE i = m
      BY <3>1
    <3>2. CASE i # m
      <4>1. i \in 0..m - 1 /\ g[i] = f[i]
        BY <3>2
      <4>2. f[i] = IF i = 0 THEN << >> ELSE SayNext(p, f[i - 1], w[i])
        BY <2>1, <4>1
      <4>3. i # 0 => g[i - 1] = f[i - 1]
        BY <3>2
      <4> QED BY <4>1, <4>2, <4>3
    <3> QED BY <3>1, <3>2
  <2>3. g = Body(g, m)
    BY <2>2
  <2> HIDE DEF g, Body
  <2> QED BY <2>3
<1>3. Len(w) \in G
  <2> HIDE DEF G
  <2>1. \A i \in 1..Len(w) : i - 1 \in G => i \in G
    BY <1>2
  <2>2. \A i \in 0..Len(w) : i \in G
    BY <1>1, <2>1, UpTo
  <2> QED BY <2>2
<1>4. PICK h : h = Body(h, Len(w))
  BY <1>3
<1> DEFINE f == Said(p, w)
<1>5. f = CHOOSE s : s = Body(s, Len(w))
  BY DEF Said
<1>6. f = Body(f, Len(w))
  <2> HIDE DEF f, Body
  <2> QED BY <1>4, <1>5
<1> HIDE DEF f
<1>7. ASSUME NEW i \in 0..Len(w)
      PROVE  f[i] = IF i = 0 THEN << >> ELSE SayNext(p, f[i - 1], w[i])
  <2>1. f[i] = Body(f, Len(w))[i]
    BY <1>6
  <2> QED BY <2>1
<1>8. f[0] = << >> /\ \A i \in 1..Len(w) : f[i] = SayNext(p, f[i - 1], w[i])
  BY <1>7
<1> QED BY <1>8 DEF f

\* Text without NULs, which is as C functions see it.
Plain == Seq(1..255)

LEMMA PlainText ==
  ASSUME NEW s \in Plain
  PROVE  s \in Text /\ CString(s) = s /\ Len(s) \in Nat
<1> DEFINE A == 1..255
<1>0. s \in Seq(A) /\ A \subseteq Byte
  BY DEF Plain, Byte
<1> HIDE DEF A
<1>1. s \in [1..Len(s) -> A] /\ Len(s) \in Nat
  BY <1>0, LenProperties
<1>2. s \in Text
  BY <1>0, SeqOfMore DEF Text
<1>3. {i \in 1..Len(s) : s[i] = 0} = {}
  <2>1. ASSUME NEW i \in 1..Len(s) PROVE s[i] # 0
    <3>1. s[i] \in A
      BY <1>1
    <3>2. \A v \in A : v # 0
      BY DEF A
    <3> QED BY <3>1, <3>2
  <2> QED BY <2>1
<1> QED BY <1>1, <1>2, <1>3 DEF CString

LEMMA LabelPlain ==
  ASSUME NEW p \in Text, NEW w, Spelled(p, w), NEW i \in 1..Len(w), IsLabel(p, w[i])
  PROVE  /\ Label(p, w[i]) \in Plain /\ Len(Label(p, w[i])) = Octet(p, w[i])
         /\ Octet(p, w[i]) \in Nat /\ Octet(p, w[i]) >= 1 /\ Label(p, w[i]) # << >>
<1> DEFINE o == w[i]
           n == Octet(p, o)
<1>1. /\ o \in Nat /\ Behind(p, w) \in Nat /\ o + 1 + n <= Behind(p, w) /\ n \in 1..63
      /\ Behind(p, w) <= Len(p)
  <2>1. o \in Nat /\ o + Span(p, o) <= Behind(p, w) /\ Behind(p, w) \in Nat
    BY SpelledFacts
  <2>2. n \in 1..63 /\ Span(p, o) = 1 + n
    BY DEF IsLabel, Span
  <2>3. Behind(p, w) <= Len(p)
    BY DEF Spelled
  <2> HIDE DEF n, o
  <2> QED BY <2>1, <2>2, <2>3
<1>2. \A b \in 1..n : Octet(p, o + b) # 0
  BY DEF Spelled
<1> HIDE DEF n, o
<1>3. ASSUME NEW k \in 1..n PROVE Octet(p, (o + 1) + k - 1) \in 1..255
  <2>1. (o + 1) + k - 1 = o + k /\ o + k \in Nat
    BY <1>1
  <2>2. o + k < Len(p)
    <3>1. Len(p) \in Nat
      BY DEF Text
    <3> QED BY <1>1, <3>1
  <2>3. Octet(p, o + k) \in Byte /\ Octet(p, o + k) # 0
    BY <1>2, <2>1, <2>2, OctetByte
  <2> QED BY <2>1, <2>3 DEF Byte
<1> DEFINE l == Octets(p, o + 1, n)
<1>4. l = [k \in 1..n |-> Octet(p, (o + 1) + k - 1)]
  BY DEF Octets
<1>5. l \in [1..n -> 1..255] /\ n \in Nat
  <2> DEFINE A == 1..255
             e(k) == Octet(p, (o + 1) + k - 1)
  <2>1. \A k \in 1..n : e(k) \in A
    BY <1>3
  <2> HIDE DEF A, e
  <2>2. [k \in 1..n |-> e(k)] \in [1..n -> A]
    BY <2>1
  <2>3. l = [k \in 1..n |-> e(k)]
    BY <1>4 DEF e
  <2>4. n \in Nat
    BY <1>1
  <2> QED BY <2>2, <2>3, <2>4 DEF A
<1> HIDE DEF l
<1>6. l \in Plain /\ Len(l) = n
  BY <1>5 DEF Plain
<1>7. l # << >>
  BY <1>1, <1>6
<1> QED BY <1>1, <1>6, <1>7 DEF l, n, o, Label

\* Three sequences one behind the other.
LEMMA ConcatThree ==
  ASSUME NEW S, NEW s \in Seq(S), NEW t \in Seq(S), NEW u \in Seq(S)
  PROVE  s \o t \o u \in Seq(S) /\ Len(s \o t \o u) = Len(s) + Len(t) + Len(u)
<1>1. s \o t \in Seq(S) /\ Len(s \o t) = Len(s) + Len(t)
  BY ConcatProperties
<1> QED BY <1>1, ConcatProperties

\* One more of its offsets: the text stays plain, and grows by a label and,
\* behind another, its dot.
LEMMA SayNextPlain ==
  ASSUME NEW p \in Text, NEW w, Spelled(p, w), NEW i \in 1..Len(w), NEW s \in Plain
  PROVE  LET t == SayNext(p, s, w[i]) IN
         /\ t \in Plain /\ Len(t) >= Len(s)
         /\ ~IsLabel(p, w[i]) => t = s
         /\ IsLabel(p, w[i]) =>
              /\ t # << >>
              /\ Len(t) = Len(s) + Octet(p, w[i]) + (IF s = << >> THEN 0 ELSE 1)
<1> DEFINE l == Label(p, w[i])
           t == SayNext(p, s, w[i])
<1>1. s \in Seq(1..255) /\ Len(s) \in Nat
  BY DEF Plain
<1>2. CASE ~IsLabel(p, w[i])
  <2>1. t = s
    BY <1>2 DEF SayNext
  <2> HIDE DEF l, t
  <2> QED BY <1>1, <1>2, <2>1 DEF t
<1>3. CASE IsLabel(p, w[i]) /\ s = << >>
  <2>1. t = l /\ Len(s) = 0
    BY <1>3 DEF SayNext
  <2>2. l \in Plain /\ Len(l) = Octet(p, w[i]) /\ Octet(p, w[i]) \in Nat /\ l # << >>
    BY <1>3, LabelPlain
  <2> HIDE DEF l, t
  <2> QED BY <1>3, <2>1, <2>2 DEF t
<1>4. CASE IsLabel(p, w[i]) /\ s # << >>
  <2>1. t = s \o <<Dot>> \o l
    BY <1>4 DEF SayNext
  <2>2. l \in Seq(1..255) /\ Len(l) = Octet(p, w[i]) /\ Octet(p, w[i]) \in Nat
    BY <1>4, LabelPlain DEF Plain
  <2> DEFINE A == 1..255
             d == <<Dot>>
  <2>3. d \in Seq(A) /\ Len(d) = 1 /\ s \in Seq(A) /\ l \in Seq(A) /\ Plain = Seq(A)
    BY <1>1, <2>2 DEF Dot, Plain
  <2>4. t = s \o d \o l
    BY <2>1
  <2> HIDE DEF A, d, l, t
  <2>5. t \in Seq(A) /\ Len(t) = Len(s) + 1 + Len(l)
    <3>0. s \in Seq(A) /\ d \in Seq(A) /\ l \in Seq(A)
      BY <2>3
    <3>1. s \o d \o l \in Seq(A) /\ Len(s \o d \o l) = Len(s) + Len(d) + Len(l)
      BY ONLY <3>0, ConcatThree
    <3>2. t \in Seq(A)
      BY <2>4, <3>1, Zenon
    <3> QED BY <2>3, <2>4, <3>1, <3>2, Zenon
  <2>6. t # << >> /\ Len(t) >= Len(s) /\ Len(t) = Len(s) + Octet(p, w[i]) + 1
    <3>1. Len(s) \in Nat /\ Len(l) \in Nat
      BY <1>1, <2>2
    <3>2. Len(t) # 0 /\ Len(t) >= Len(s)
      BY <2>5, <3>1
    <3>3. \A a, b \in Nat : a + 1 + b = a + b + 1
      OBVIOUS
    <3> QED BY <2>2, <2>5, <3>1, <3>2, <3>3
  <2> QED BY <1>4, <2>3, <2>5, <2>6 DEF t
<1> QED BY <1>2, <1>3, <1>4

\* The text of a name has no NUL and does not get shorter.
LEMMA SaidPlain ==
  ASSUME NEW p \in Text, NEW w, Spelled(p, w)
  PROVE  /\ Said(p, w)[0] = << >>
         /\ \A i \in 0..Len(w) : /\ Said(p, w)[i] \in Plain
                                  /\ Len(Said(p, w)[i]) <= Len(Spelling(p, w))
         /\ \A i \in 1..Len(w) : Said(p, w)[i] = SayNext(p, Said(p, w)[i - 1], w[i])
<1> DEFINE f == Said(p, w)
           n == Len(w)
<1>1. /\ n \in Nat /\ n >= 1 /\ f[0] = << >>
      /\ \A i \in 1..n : f[i] = SayNext(p, f[i - 1], w[i])
  <2>1. Len(w) \in Nat /\ Len(w) >= 1
    BY SpelledFacts
  <2> QED BY <2>1, SaidDef
<1> HIDE DEF f
<1> DEFINE G == {i \in 0..n : f[i] \in Plain}
<1>2. \A i \in 0..n : f[i] \in Plain
  <2>1. 0 \in G
    <3>1. << >> \in Plain
      BY DEF Plain
    <3> QED BY <1>1, <3>1
  <2>2. ASSUME NEW i \in 1..n, i - 1 \in G PROVE i \in G
    <3>1. f[i - 1] \in Plain
      BY <2>2
    <3> DEFINE s == f[i - 1]
    <3>2. f[i] = SayNext(p, s, w[i])
      BY <1>1
    <3>3. f[i] \in Plain
      <4> HIDE DEF s
      <4>1. s \in Plain
        BY <3>1 DEF s
      <4> QED BY <3>2, <4>1, SayNextPlain
    <3> QED BY <3>3
  <2> HIDE DEF G, n
  <2>3. \A i \in 0..n : i \in G
    BY <1>1, <2>1, <2>2, UpTo
  <2> QED BY <2>3 DEF G
<1>3. ASSUME NEW i \in 0..n PROVE Len(f[i]) <= Len(f[n])
  <2> DEFINE d == n - i
             H == {k \in 0..d : Len(f[i]) <= Len(f[i + k])}
  <2>1. d \in Nat /\ i + 0 = i /\ i + d = n
    BY <1>1
  <2>2. 0 \in H
    <3>1. Len(f[i]) \in Nat
      BY <1>2, PlainText
    <3> QED BY <2>1, <3>1
  <2>3. ASSUME NEW k \in 1..d, k - 1 \in H PROVE k \in H
    <3>1. i + k \in 1..n /\ i + (k - 1) = (i + k) - 1 /\ (i + k) - 1 \in 0..n
      BY <1>1
    <3>2. f[i + k] = SayNext(p, f[(i + k) - 1], w[i + k])
      BY <1>1, <3>1
    <3>3. Len(f[i + k]) >= Len(f[(i + k) - 1])
      BY <1>2, <3>1, <3>2, SayNextPlain
    <3>4. /\ Len(f[i + k]) \in Nat /\ Len(f[(i + k) - 1]) \in Nat /\ Len(f[i]) \in Nat
      BY <1>2, <3>1, PlainText
    <3>5. Len(f[i]) <= Len(f[(i + k) - 1])
      BY <2>3, <3>1
    <3>6. Len(f[i]) <= Len(f[i + k])
      BY <3>3, <3>4, <3>5
    <3> QED BY <3>6
  <2> HIDE DEF H, d
  <2>4. \A k \in 0..d : k \in H
    BY <2>1, <2>2, <2>3, UpTo
  <2>5. d \in H
    BY <2>1, <2>4
  <2> QED BY <2>1, <2>5 DEF H
<1> QED BY <1>1, <1>2, <1>3 DEF f, Spelling

LEMMA PointersStep ==
  ASSUME NEW p, NEW w, NEW k \in Nat
  PROVE  /\ Pointers(p, w, 0) = 0 /\ Pointers(p, w, k) \in Nat
         /\ Pointers(p, w, k + 1) =
              Pointers(p, w, k) + (IF IsPointer(p, w[k + 1]) THEN 1 ELSE 0)
<1> DEFINE S(n) == {i \in 1..n : IsPointer(p, w[i])}
<1>1. IsFiniteSet(S(k)) /\ Cardinality(S(k)) \in Nat
  <2>1. IsFiniteSet(1..k) /\ S(k) \subseteq 1..k
    BY FS_Interval
  <2>2. IsFiniteSet(S(k))
    BY <2>1, FS_Subset
  <2> QED BY <2>2, FS_CardinalityType
<1>2. Pointers(p, w, 0) = 0
  <2>1. S(0) = {}
    OBVIOUS
  <2> QED BY <2>1, FS_EmptySet DEF Pointers
<1>3. CASE IsPointer(p, w[k + 1])
  <2>1. S(k + 1) = S(k) \cup {k + 1} /\ k + 1 \notin S(k)
    BY <1>3
  <2>2. Cardinality(S(k + 1)) = Cardinality(S(k)) + 1
    <3> HIDE DEF S
    <3> QED BY <1>1, <2>1, FS_AddElement
  <2> QED BY <1>1, <1>2, <1>3, <2>2 DEF Pointers
<1>4. CASE ~IsPointer(p, w[k + 1])
  <2>1. S(k + 1) = S(k)
    BY <1>4
  <2> QED BY <1>1, <1>2, <1>4, <2>1 DEF Pointers
<1> QED BY <1>3, <1>4

LEMMA PointersGrow ==
  ASSUME NEW p, NEW w, NEW n \in Nat, NEW k \in 0..n
  PROVE  Pointers(p, w, k) <= Pointers(p, w, n)
<1> DEFINE S(m) == {i \in 1..m : IsPointer(p, w[i])}
<1>1. S(k) \subseteq S(n) /\ S(n) \subseteq 1..n /\ IsFiniteSet(1..n)
  BY FS_Interval
<1>2. IsFiniteSet(S(n))
  BY <1>1, FS_Subset
<1> HIDE DEF S
<1>3. Cardinality(S(k)) <= Cardinality(S(n))
  BY <1>1, <1>2, FS_Subset
<1> QED BY <1>3 DEF Pointers, S

----------------------------------------------------------------------------
(* Reading a name of a message. *)

\* The packet is the beginning of p.
Begun(p) == N <= Len(p) /\ \A o \in 0..N - 1 : At(o) = Octet(p, o)

\* Reading a name that stands whole in the packet: the k-th of its offsets is
\* reached, with the text of those before it.
Following(p, w, k) ==
  /\ pos = w[k] /\ depth = Pointers(p, w, k - 1)
  /\ out = Said(p, w)[k - 1] \o (IF Said(p, w)[k - 1] = << >> \/ Octet(p, w[k]) = 0
                                 THEN << >> ELSE <<Dot>>)
  /\ Len(Said(p, w)[k - 1]) + 2 <= NameSize
  /\ jumped = (k > InPlace(p, w))
  /\ next = IF jumped THEN Behind(p, w) ELSE w[1]

AtName(p, w) ==
  /\ Behind(p, w) <= N
  /\ pc = "decode" => \E k \in 1..Len(w) : Following(p, w, k)
  /\ pc = "named" => out = Spelling(p, w) /\ next = Behind(p, w) /\ Legible(p, w)
  /\ pc = "failed" => ~Legible(p, w)

\* From o on nothing is left but the beginning of a name.
Severed(o) == o <= N /\ N <= o + 255 /\ \A x \in o..N - 1 : At(x) # 0

\* The beginning of a message has its octets, and all of it is itself.
LEMMA PrefixBegun ==
  ASSUME packet \in Text, NEW p \in Text, IsPrefix(packet, p)
  PROVE  Begun(p) /\ (N >= Len(p) => packet = p)
<1>1. packet \in Seq(Byte) /\ p \in Seq(Byte) /\ N = Len(packet)
  BY DEF Text, N
<1>2. N \in Nat /\ Len(p) \in Nat /\ N <= Len(p)
  BY <1>1 DEF IsPrefix
<1>3. packet = SubSeq(packet, 1, N) /\ SubSeq(packet, 1, N) = SubSeq(p, 1, N)
  <2>1. SubSeq(packet, 1, N) = SubSeq(p, 1, N)
    BY <1>1 DEF IsPrefix
  <2>2. SubSeq(packet, 1, N) = packet
    BY <1>1
  <2> QED BY <2>1, <2>2
<1>4. ASSUME NEW o \in 0..N - 1 PROVE At(o) = Octet(p, o)
  <2>1. o + 1 \in 1..N /\ o < N
    BY <1>2
  <2>2. SubSeq(p, 1, N)[o + 1] = p[o + 1]
    BY <1>1, <1>2, <2>1
  <2>3. packet[o + 1] = p[o + 1]
    BY <1>3, <2>2
  <2> QED BY <2>1, <2>3 DEF At, Octet
<1>5. ASSUME N >= Len(p) PROVE packet = p
  <2>1. N = Len(p)
    BY <1>2, <1>5
  <2>2. SubSeq(p, 1, Len(p)) = p
    BY <1>1
  <2> QED BY <1>3, <2>1, <2>2
<1> QED BY <1>2, <1>4, <1>5 DEF Begun

\* Up to its last octet in place a name has no zero.
LEMMA PlaceNoZero ==
  ASSUME NEW p \in Text, NEW w, Spelled(p, w), NEW x \in Nat, w[1] <= x, x < Behind(p, w) - 1
  PROVE  Octet(p, x) # 0
<1> DEFINE j == InPlace(p, w)
           d == j - 1
           G == {k \in 0..d : \A y \in Nat : w[1] <= y /\ y < w[k + 1] => Octet(p, y) # 0}
<1>1. /\ Len(w) \in Nat /\ j \in 1..Len(w) /\ w \in [1..Len(w) -> Nat] /\ ~IsLabel(p, w[j])
      /\ \A i \in 1..Len(w) : i < j => IsLabel(p, w[i])
      /\ \A i \in 1..Len(w) - 1 : LeadsTo(p, w[i], w[i + 1])
  BY SpelledFacts
<1>2. \A i \in 1..Len(w) :
        IsLabel(p, w[i]) => \A b \in 1..Octet(p, w[i]) : Octet(p, w[i] + b) # 0
  BY DEF Spelled
<1>3. Behind(p, w) = w[j] + Span(p, w[j])
  BY DEF Behind
<1> HIDE DEF j
<1>4. d \in Nat /\ d + 1 = j
  BY <1>1
<1>5. 0 \in G
  BY <1>1, <1>4
<1>6. ASSUME NEW k \in 1..d, k - 1 \in G PROVE k \in G
  <2>1. k \in 1..Len(w) - 1 /\ k \in 1..Len(w) /\ k < j /\ (k - 1) + 1 = k /\ k + 1 \in 1..Len(w)
    BY <1>1
  <2>2. IsLabel(p, w[k]) /\ Octet(p, w[k]) \in 1..63
    BY <1>1, <2>1 DEF IsLabel
  <2>3. w[k + 1] = w[k] + 1 + Octet(p, w[k])
    <3>1. LeadsTo(p, w[k], w[k + 1])
      BY <1>1, <2>1
    <3>2. ~IsPointer(p, w[k])
      BY <2>2 DEF IsPointer
    <3>3. w[k + 1] = w[k] + Span(p, w[k]) /\ Span(p, w[k]) = 1 + Octet(p, w[k])
      BY <2>2, <3>1, <3>2 DEF LeadsTo, Span
    <3>4. w[k] \in Nat
      BY <1>1, <2>1
    <3> QED BY <2>2, <3>3, <3>4
  <2>4. ASSUME NEW y \in Nat, w[1] <= y, y < w[k + 1] PROVE Octet(p, y) # 0
    <3>1. w[k] \in Nat /\ w[1] \in Nat
      BY <1>1, <2>1
    <3>2. CASE y < w[k]
      BY <2>1, <1>6, <2>4, <3>2
    <3>3. CASE y = w[k]
      BY <2>2, <3>3
    <3>4. CASE y > w[k]
      <4>1. y - w[k] \in 1..Octet(p, w[k]) /\ w[k] + (y - w[k]) = y
        BY <2>2, <2>3, <2>4, <3>1, <3>4
      <4> QED BY <1>2, <2>1, <2>2, <4>1
    <3> QED BY <3>1, <3>2, <3>3, <3>4
  <2> QED BY <2>4
<1>7. \A k \in 0..d : k \in G
  <2> HIDE DEF G, d
  <2> QED BY <1>4, <1>5, <1>6, UpTo
<1>8. d \in G
  <2> HIDE DEF G, d
  <2> QED BY <1>4, <1>7
<1>9. x < w[j] => Octet(p, x) # 0
  BY <1>4, <1>8
<1>10. w[j] \in Nat /\ Octet(p, w[j]) \in Byte
  BY <1>1, SpelledFacts
<1>11. CASE IsPointer(p, w[j])
  <2>1. Behind(p, w) = w[j] + 2 /\ Octet(p, w[j]) # 0
    <3>1. Span(p, w[j]) = 2
      BY <1>1, <1>11 DEF Span
    <3>2. Octet(p, w[j]) # 0
      <4>1. Octet(p, w[j]) \in 192..255
        BY <1>11 DEF IsPointer
      <4>2. \A v \in 192..255 : v # 0
        OBVIOUS
      <4> QED BY <4>1, <4>2
    <3> QED BY <1>3, <3>1, <3>2
  <2>2. x < w[j] \/ x = w[j]
    BY <1>10, <2>1
  <2> QED BY <1>9, <2>1, <2>2
<1>12. CASE ~IsPointer(p, w[j])
  <2>1. Behind(p, w) = w[j] + 1
    BY <1>1, <1>3, <1>12 DEF Span
  <2>2. x < w[j]
    BY <1>10, <2>1
  <2> QED BY <1>9, <2>2
<1> QED BY <1>11, <1>12

\* What is left of a name that was cut has no zero and is short.
LEMMA SeveredName ==
  ASSUME packet \in Text, NEW p \in Text, Begun(p), NEW w, Spelled(p, w),
         w[1] <= N, N < Behind(p, w)
  PROVE  Severed(w[1])
<1>1. w[1] \in Nat /\ Behind(p, w) \in Nat /\ N \in Nat
  <2>1. 1 \in 1..Len(w) /\ w \in [1..Len(w) -> Nat] /\ Behind(p, w) \in Nat
    BY SpelledFacts
  <2> QED BY <2>1 DEF N, Text
<1>2. Behind(p, w) <= w[1] + 255
  BY DEF Spelled
<1>3. ASSUME NEW x \in w[1]..N - 1 PROVE At(x) # 0
  <2>1. x \in Nat /\ x \in 0..N - 1 /\ w[1] <= x /\ x < Behind(p, w) - 1
    BY <1>1
  <2>2. At(x) = Octet(p, x)
    BY <2>1 DEF Begun
  <2> QED BY <2>1, <2>2, PlaceNoZero
<1>4. N <= w[1] + 255
  BY <1>1, <1>2
<1> QED BY <1>3, <1>4 DEF Severed

\* A name that begins to be read.
LEMMA NameBegins ==
  ASSUME DecodeInv, NEW p \in Text, NEW w, Spelled(p, w), Behind(p, w) <= N,
         NEW c, Decode(c, w[1]), UNCHANGED packet
  PROVE  AtName(p, w)'
<1>1. N' = N /\ pc' = "decode" /\ pos' = w[1] /\ next' = w[1] /\ out' = << >>
      /\ jumped' = FALSE /\ depth' = 0
  BY DEF N, Decode
<1>2. 1 \in 1..Len(w) /\ ~(1 > InPlace(p, w))
  BY SpelledFacts
<1>3. Said(p, w)[0] = << >> /\ Pointers(p, w, 0) = 0
  BY SaidPlain, PointersStep, 0 \in Nat
<1>4. Following(p, w, 1)'
  <2>1. 0 + 2 <= NameSize
    BY DecodeAssumption
  <2>2. 1 - 1 = 0 /\ << >> \o << >> = << >> /\ Len(<< >>) = 0
    OBVIOUS
  <2>3. out' = Said(p, w)[0] \o (IF Said(p, w)[0] = << >> \/ Octet(p, w[1]) = 0
                                 THEN << >> ELSE <<Dot>>)
    BY <1>1, <1>3, <2>2
  <2>4. jumped' = (1 > InPlace(p, w)) /\ next' = IF jumped' THEN Behind(p, w) ELSE w[1]
    <3>1. (1 > InPlace(p, w)) = FALSE
      BY <1>2
    <3> QED BY <1>1, <3>1, Zenon
  <2>5. Len(Said(p, w)[0]) + 2 <= NameSize
    <3>1. Len(Said(p, w)[0]) = 0
      BY <1>3, <2>2, Zenon
    <3> QED BY <2>1, <3>1, Zenon
  <2> QED BY <1>1, <1>3, <2>2, <2>3, <2>4, <2>5 DEF Following
<1> QED BY <1>1, <1>2, <1>4 DEF AtName

\* Only a label or a pointer leads on.
LEMMA LedOn ==
  ASSUME NEW p, NEW o, NEW n, LeadsTo(p, o, n)
  PROVE  Octet(p, o) # 0
<1>1. CASE IsLabel(p, o)
  BY <1>1 DEF IsLabel
<1>2. CASE IsPointer(p, o)
  BY <1>2 DEF IsPointer
<1> QED BY <1>1, <1>2, Zenon DEF LeadsTo

\* Where the reading of a name has got to.
LEMMA FollowingFacts ==
  ASSUME DecodeInv, pc = "decode", NEW p \in Text, Begun(p),
         NEW w, Spelled(p, w), Behind(p, w) <= N, NEW k \in 1..Len(w), Following(p, w, k)
  PROVE  /\ pos = w[k] /\ pos \in Nat /\ pos < N /\ N \in Nat /\ packet \in Text
         /\ \A o \in Nat : o < Behind(p, w) => At(o) = Octet(p, o)
         /\ pos + Span(p, pos) <= Behind(p, w) /\ Span(p, pos) \in Nat /\ Span(p, pos) >= 1
         /\ Octet(p, pos) \in Byte /\ At(pos) = Octet(p, pos) /\ Behind(p, w) \in Nat
         /\ Said(p, w)[k - 1] \in Plain /\ Len(Said(p, w)[k - 1]) \in Nat
         /\ Said(p, w)[k] = SayNext(p, Said(p, w)[k - 1], pos)
         /\ k < Len(w) => k \in 1..Len(w) - 1 /\ k + 1 \in 1..Len(w)
                          /\ LeadsTo(p, pos, w[k + 1]) /\ Octet(p, pos) # 0
                          /\ w[k + 1] \in Nat /\ w[k + 1] < Behind(p, w)
         /\ k = Len(w) => Octet(p, pos) = 0
<1>1. pos = w[k]
  BY DEF Following
<1>2. /\ Len(w) \in Nat /\ w \in [1..Len(w) -> Nat] /\ Behind(p, w) \in Nat
      /\ N \in Nat /\ packet \in Text
  BY SpelledFacts, Lengths DEF DecodeInv
<1>3. /\ Octet(p, pos) \in Byte /\ pos \in Nat
      /\ pos + Span(p, pos) <= Behind(p, w) /\ Span(p, pos) \in Nat /\ Span(p, pos) >= 1
  BY <1>1, <1>2, SpelledFacts
<1>4. pos < Behind(p, w) /\ pos < N
  BY <1>2, <1>3
<1>5. ASSUME NEW o \in Nat, o < Behind(p, w) PROVE At(o) = Octet(p, o)
  <2>1. o \in 0..N - 1
    BY <1>2, <1>5
  <2> QED BY <2>1 DEF Begun
<1>6. /\ Said(p, w)[k - 1] \in Plain /\ Len(Said(p, w)[k - 1]) \in Nat
      /\ Said(p, w)[k] = SayNext(p, Said(p, w)[k - 1], pos)
  <2>1. k - 1 \in 0..Len(w)
    BY <1>2
  <2> QED BY <1>1, <2>1, SaidPlain, PlainText
<1>7. ASSUME k < Len(w)
      PROVE  /\ k \in 1..Len(w) - 1 /\ k + 1 \in 1..Len(w)
             /\ LeadsTo(p, pos, w[k + 1]) /\ Octet(p, pos) # 0
             /\ w[k + 1] \in Nat /\ w[k + 1] < Behind(p, w)
  <2>1. k \in 1..Len(w) - 1 /\ k + 1 \in 1..Len(w)
    BY <1>2, <1>7
  <2>2. LeadsTo(p, pos, w[k + 1])
    BY <1>1, <2>1, SpelledFacts
  <2>3. Octet(p, pos) # 0
    BY <2>2, LedOn, Zenon
  <2>4. /\ w[k + 1] \in Nat /\ Span(p, w[k + 1]) \in Nat /\ Span(p, w[k + 1]) >= 1
        /\ w[k + 1] + Span(p, w[k + 1]) <= Behind(p, w)
    BY <1>2, <2>1, SpelledFacts
  <2> QED BY <1>2, <2>1, <2>2, <2>3, <2>4
<1>8. k = Len(w) => Octet(p, pos) = 0
  BY <1>1 DEF Spelled
<1> QED BY <1>1, <1>2, <1>3, <1>4, <1>5, <1>6, <1>7, <1>8, Zenon

\* A name that is read to its end.
LEMMA NameEnds ==
  ASSUME DecodeInv, ZeroLabel, NEW p \in Text, Begun(p), NEW w, Spelled(p, w), AtName(p, w)
  PROVE  AtName(p, w)'
<1>1. /\ pc = "decode" /\ At(pos) = 0 /\ EndName /\ UNCHANGED <<packet, jumped, out>> /\ N' = N
      /\ next' = IF jumped THEN next ELSE pos + 1
  BY DEF ZeroLabel, N
<1>2. PICK k \in 1..Len(w) : Following(p, w, k)
  BY <1>1 DEF AtName
<1>3. Behind(p, w) <= N
  BY DEF AtName
<1>4. Len(w) \in Nat /\ k = Len(w)
  <2>1. Len(w) \in Nat
    BY SpelledFacts
  <2>2. ~(k < Len(w))
    BY <1>1, <1>2, <1>3, FollowingFacts
  <2> QED BY <2>1, <2>2
<1>5. Octet(p, pos) = 0 /\ pos = w[k] /\ ~IsLabel(p, pos) /\ ~IsPointer(p, pos)
  <2>1. Octet(p, pos) = 0 /\ pos = w[k]
    BY <1>1, <1>2, <1>3, <1>4, FollowingFacts
  <2> QED BY <2>1 DEF IsLabel, IsPointer
<1>6. out = Spelling(p, w) /\ Len(out) + 2 <= NameSize /\ Len(out) \in Nat
  <2>1. Said(p, w)[k] = Said(p, w)[k - 1] /\ Said(p, w)[k - 1] \in Seq(1..255)
        /\ Len(Said(p, w)[k - 1]) \in Nat
    BY <1>1, <1>2, <1>3, <1>5, FollowingFacts DEF SayNext, Plain
  <2>2. out = Said(p, w)[k - 1] \o << >>
    BY <1>2, <1>5 DEF Following
  <2>3. out = Said(p, w)[k - 1]
    BY <2>1, <2>2
  <2>4. Len(Said(p, w)[k - 1]) + 2 <= NameSize
    BY <1>2 DEF Following
  <2> QED BY <1>4, <2>1, <2>3, <2>4 DEF Spelling
<1>7. Pointers(p, w, Len(w)) <= MaxDepth
  <2>1. depth = Pointers(p, w, k - 1) /\ depth <= MaxDepth
    BY <1>1, <1>2 DEF Following, DecodeInv, ReadingInv
  <2>2. k - 1 \in Nat /\ (k - 1) + 1 = k
    BY <1>4
  <2>3. Pointers(p, w, k - 1) \in Nat /\ Pointers(p, w, k) = Pointers(p, w, k - 1) + 0
    BY <1>5, <2>2, PointersStep
  <2> QED BY <1>4, <2>1, <2>3
<1>8. next' = Behind(p, w)
  <2>1. CASE jumped
    BY <1>1, <1>2, <2>1 DEF Following
  <2>2. CASE ~jumped
    <3>1. k <= InPlace(p, w) /\ InPlace(p, w) \in 1..Len(w)
      <4>1. jumped = (k > InPlace(p, w)) /\ InPlace(p, w) \in 1..Len(w)
        BY <1>2, SpelledFacts DEF Following
      <4>2. ~(k > InPlace(p, w))
        BY <2>2, <4>1
      <4> QED BY <1>4, <4>1, <4>2
    <3>2. InPlace(p, w) = k
      BY <1>4, <3>1
    <3>3. Behind(p, w) = pos + Span(p, pos) /\ Span(p, pos) = 1
      BY <1>5, <3>2 DEF Behind, Span
    <3> QED BY <1>1, <2>2, <3>3
  <2> QED BY <2>1, <2>2
<1>9. pc' = "named"
  <2>1. NameSize \in Nat
    BY DecodeAssumption
  <2>2. ~(Len(out) >= NameSize)
    BY <1>6, <2>1
  <2> QED BY <1>1, <2>2 DEF EndName
<1> QED BY <1>1, <1>3, <1>6, <1>7, <1>8, <1>9 DEF AtName, Legible

\* A pointer in it that is followed.
LEMMA NameTurns ==
  ASSUME DecodeInv, FollowPointer, NEW p \in Text, Begun(p),
         NEW w, Spelled(p, w), AtName(p, w)
  PROVE  AtName(p, w)'
<1>1. pc = "decode" /\ At(pos) >= 192 /\ UNCHANGED packet /\ N' = N
  BY DEF FollowPointer, N
<1>2. PICK k \in 1..Len(w) : Following(p, w, k)
  BY <1>1 DEF AtName
<1>3. Behind(p, w) <= N
  BY DEF AtName
<1>4. /\ pos = w[k] /\ pos \in Nat /\ N \in Nat /\ Behind(p, w) \in Nat /\ At(pos) = Octet(p, pos)
      /\ \A o \in Nat : o < Behind(p, w) => At(o) = Octet(p, o)
      /\ pos + Span(p, pos) <= Behind(p, w)
      /\ Said(p, w)[k] = SayNext(p, Said(p, w)[k - 1], pos)
  BY <1>1, <1>2, <1>3, FollowingFacts
<1>5. Octet(p, pos) # 0 /\ ~IsLabel(p, pos) /\ IsPointer(p, pos) /\ Span(p, pos) = 2
  <2> DEFINE v == Octet(p, pos)
  <2>1. v \in Byte /\ v >= 192
    BY <1>1, <1>2, <1>3, FollowingFacts
  <2>2. v \in 192..255 /\ v # 0 /\ v \notin 1..63
    <3> HIDE DEF v
    <3> QED BY <2>1, OctetKinds
  <2>3. Octet(p, pos) # 0 /\ ~IsLabel(p, pos) /\ IsPointer(p, pos)
    BY <2>2 DEF IsLabel, IsPointer
  <2> QED BY <2>3 DEF Span
<1>6. Len(w) \in Nat /\ k < Len(w) /\ k \in Nat
  <2>1. Len(w) \in Nat
    BY SpelledFacts
  <2>2. k # Len(w)
    BY <1>1, <1>2, <1>3, <1>5, FollowingFacts
  <2> QED BY <2>1, <2>2
<1>7. /\ k + 1 \in 1..Len(w) /\ w[k + 1] = Target(p, pos) /\ Octet(p, w[k + 1]) # 0
      /\ w[k + 1] \in Nat /\ w[k + 1] < Behind(p, w)
  <2>1. /\ k + 1 \in 1..Len(w) /\ LeadsTo(p, pos, w[k + 1])
        /\ w[k + 1] \in Nat /\ w[k + 1] < Behind(p, w)
    BY <1>1, <1>2, <1>3, <1>6, FollowingFacts
  <2> QED BY <1>5, <2>1 DEF LeadsTo
<1>8. ~(pos + 1 >= N) /\ pos + 1 \in Nat /\ pos + 1 < Behind(p, w)
  BY <1>3, <1>4, <1>5
<1>9. PointerAt(pos) = w[k + 1] /\ ~(PointerAt(pos) >= N)
  <2>1. At(pos + 1) = Octet(p, pos + 1)
    BY <1>4, <1>8
  <2>2. PointerAt(pos) = w[k + 1]
    BY <1>4, <1>7, <2>1 DEF PointerAt, Target
  <2> QED BY <1>3, <1>4, <1>7, <2>2
<1>10. /\ next' = IF jumped THEN next ELSE pos + 2
       /\ jumped' = TRUE /\ pos' = w[k + 1] /\ depth' = depth + 1 /\ out' = out
       /\ pc' = IF depth' > MaxDepth THEN "failed" ELSE pc
  BY <1>8, <1>9 DEF FollowPointer
<1>11. depth' = Pointers(p, w, k) /\ Pointers(p, w, k) <= Pointers(p, w, Len(w))
       /\ Pointers(p, w, k) \in Nat /\ Pointers(p, w, Len(w)) \in Nat
  <2>1. depth = Pointers(p, w, k - 1)
    BY <1>2 DEF Following
  <2>2. k - 1 \in Nat /\ (k - 1) + 1 = k /\ k \in 0..Len(w)
    BY <1>6
  <2>3. Pointers(p, w, k) = Pointers(p, w, k - 1) + 1
    BY <1>4, <1>5, <2>2, PointersStep
  <2> QED BY <1>6, <1>10, <2>1, <2>2, <2>3, PointersStep, PointersGrow
<1>12. CASE depth' > MaxDepth
  <2>1. MaxDepth \in Nat
    BY DecodeAssumption
  <2>2. ~(Pointers(p, w, Len(w)) <= MaxDepth)
    BY <1>11, <1>12, <2>1
  <2> QED BY <1>1, <1>3, <1>10, <1>12, <2>2 DEF AtName, Legible
<1>13. CASE ~(depth' > MaxDepth)
  <2>1. Said(p, w)[k] = Said(p, w)[k - 1] /\ (k + 1) - 1 = k
    BY <1>4, <1>5, <1>6 DEF SayNext
  <2>2. /\ out = Said(p, w)[k] \o (IF Said(p, w)[k] = << >> THEN << >> ELSE <<Dot>>)
        /\ Len(Said(p, w)[k]) + 2 <= NameSize
    <3>1. /\ out = Said(p, w)[k - 1] \o (IF Said(p, w)[k - 1] = << >> \/ Octet(p, w[k]) = 0
                                          THEN << >> ELSE <<Dot>>)
          /\ Len(Said(p, w)[k - 1]) + 2 <= NameSize
      BY <1>2 DEF Following
    <3> QED BY <1>4, <1>5, <2>1, <3>1
  <2>3. ~(k < InPlace(p, w)) /\ InPlace(p, w) \in 1..Len(w)
    BY <1>4, <1>5, SpelledFacts
  <2>4. k + 1 > InPlace(p, w)
    BY <1>6, <2>3
  <2>5. next' = Behind(p, w)
    <3>1. CASE jumped
      BY <1>2, <1>10, <3>1 DEF Following
    <3>2. CASE ~jumped
      <4>1. ~(k > InPlace(p, w))
        BY <1>2, <3>2 DEF Following
      <4>2. k = InPlace(p, w)
        BY <1>6, <2>3, <4>1
      <4> QED BY <1>4, <1>5, <1>10, <3>2, <4>2 DEF Behind
    <3> QED BY <3>1, <3>2
  <2>6. jumped' = (k + 1 > InPlace(p, w)) /\ (next' = IF jumped' THEN Behind(p, w) ELSE w[1])
    BY <1>10, <2>4, <2>5
  <2>7. out' = Said(p, w)[k] \o (IF Said(p, w)[k] = << >> \/ Octet(p, w[k + 1]) = 0
                                 THEN << >> ELSE <<Dot>>)
    BY <1>7, <1>10, <2>2
  <2>8. Following(p, w, k + 1)'
    BY <1>10, <1>11, <2>1, <2>2, <2>6, <2>7 DEF Following
  <2>9. pc' = "decode"
    BY <1>1, <1>10, <1>13
  <2> QED BY <1>1, <1>3, <1>7, <2>8, <2>9 DEF AtName
<1> QED BY <1>12, <1>13

\* A label of it that is copied, or does not fit.
LEMMA NameGrows ==
  ASSUME DecodeInv, CopyLabel, NEW p \in Text, Begun(p),
         NEW w, Spelled(p, w), AtName(p, w)
  PROVE  AtName(p, w)'
<1> DEFINE len == At(pos)
           end == pos + 1 + len
<1>1. pc = "decode" /\ At(pos) \in 1..191 /\ UNCHANGED <<packet, jumped, depth, next>> /\ N' = N
  BY DEF CopyLabel, N
<1>2. PICK k \in 1..Len(w) : Following(p, w, k)
  BY <1>1 DEF AtName
<1>3. Behind(p, w) <= N
  BY DEF AtName
<1> DEFINE s == Said(p, w)[k - 1]
           t == Said(p, w)[k]
<1>4. /\ pos = w[k] /\ pos \in Nat /\ N \in Nat /\ Behind(p, w) \in Nat /\ len = Octet(p, pos)
      /\ len \in Byte
      /\ \A o \in Nat : o < Behind(p, w) => At(o) = Octet(p, o)
      /\ pos + Span(p, pos) <= Behind(p, w) /\ packet \in Text
      /\ s \in Plain /\ Len(s) \in Nat /\ t = SayNext(p, s, pos)
  BY <1>1, <1>2, <1>3, FollowingFacts
<1> DEFINE v == Octet(p, pos)
<1>15. v # 0 /\ v \notin 192..255
  <2>1. v \in Byte /\ v \in 1..191
    BY <1>1, <1>4
  <2> HIDE DEF v
  <2> QED BY <2>1, OctetKinds
<1>5. Len(w) \in Nat /\ k < Len(w) /\ k \in Nat
  <2>1. Len(w) \in Nat
    BY SpelledFacts
  <2>2. Octet(p, pos) # 0
    BY <1>15
  <2>3. k # Len(w)
    BY <1>1, <1>2, <1>3, <2>2, FollowingFacts
  <2> QED BY <2>1, <2>3
<1>6. /\ k + 1 \in 1..Len(w) /\ LeadsTo(p, pos, w[k + 1])
      /\ w[k + 1] \in Nat /\ w[k + 1] < Behind(p, w)
  BY <1>1, <1>2, <1>3, <1>5, FollowingFacts
<1>7. IsLabel(p, pos) /\ ~IsPointer(p, pos)
  <2>1. ~(Octet(p, pos) \in 192..255)
    BY <1>15
  <2>2. ~IsPointer(p, pos)
    BY <2>1 DEF IsPointer
  <2> QED BY <1>6, <2>2 DEF LeadsTo
<1>8. /\ len \in 1..63 /\ len \in Nat /\ len # 0 /\ Span(p, pos) = 1 + len
      /\ w[k + 1] = end /\ end < N /\ end \in Nat
  <2>1. len \in 1..63 /\ Span(p, pos) = 1 + len
    BY <1>4, <1>7 DEF IsLabel, Span
  <2>2. w[k + 1] = pos + Span(p, pos)
    BY <1>6, <1>7 DEF LeadsTo
  <2> HIDE DEF len
  <2>3. len # 0 /\ len \in Nat
    BY <2>1
  <2>4. w[k + 1] = end
    <3>1. \A x, y \in Nat : x + (1 + y) = x + 1 + y
      OBVIOUS
    <3>2. w[k + 1] = pos + (1 + len)
      BY <2>1, <2>2
    <3>3. pos \in Nat
      BY <1>4
    <3> QED BY <2>3, <3>1, <3>2, <3>3
  <2>5. end < N
    BY <1>3, <1>4, <1>6, <2>4
  <2> QED BY <1>6, <2>1, <2>3, <2>4, <2>5
<1> HIDE DEF s, t
<1>9. /\ t \in Plain /\ Len(t) \in Nat /\ t # << >>
      /\ Len(t) = Len(s) + len + (IF s = << >> THEN 0 ELSE 1)
  <2>1. /\ t \in Plain /\ t # << >>
        /\ Len(t) = Len(s) + Octet(p, pos) + (IF s = << >> THEN 0 ELSE 1)
    BY <1>4, <1>7, SayNextPlain
  <2> QED BY <1>4, <2>1, PlainText
<1>10. out = s \o (IF s = << >> THEN << >> ELSE <<Dot>>)
  <2>1. out = s \o (IF s = << >> \/ Octet(p, w[k]) = 0 THEN << >> ELSE <<Dot>>)
    BY <1>2 DEF Following, s
  <2> QED BY <1>4, <1>8, <2>1
<1> DEFINE l == Label(p, pos)
<1>11. l \in Plain /\ Len(l) = len
  BY <1>4, <1>7, LabelPlain
<1>12. out \o l = t /\ Len(out) + len = Len(t) /\ Len(out) \in Nat
  <2>1. CASE s = << >>
    <3>1. t = l /\ out = << >>
      BY <1>4, <1>7, <1>10, <2>1 DEF SayNext
    <3>2. << >> \o l = l /\ Len(<< >>) = 0
      <4>1. l \in Seq(1..255)
        BY <1>11 DEF Plain
      <4> HIDE DEF l
      <4> QED BY <4>1
    <3> HIDE DEF l, len
    <3> QED BY <1>8, <1>9, <1>11, <3>1, <3>2
  <2>2. CASE s # << >>
    <3>1. t = s \o <<Dot>> \o l /\ out = s \o <<Dot>>
      BY <1>4, <1>7, <1>10, <2>2 DEF SayNext
    <3>2. Len(s \o <<Dot>>) = Len(s) + 1
      <4>1. s \in Seq(1..255) /\ <<Dot>> \in Seq(1..255) /\ Len(<<Dot>>) = 1
        BY <1>4 DEF Plain, Dot
      <4> QED BY <4>1, ConcatProperties
    <3>3. out \o l = t /\ Len(out) = Len(s) + 1
      BY <3>1, <3>2
    <3>4. Len(t) = Len(s) + len + 1
      BY <1>9, <2>2
    <3>5. len \in Nat
      BY <1>8
    <3> HIDE DEF l, len
    <3> QED BY <1>4, <3>3, <3>4, <3>5
  <2> QED BY <2>1, <2>2
<1>13. CASE ~LabelFits(len)
  <2>1. ~(Len(out) + len + 2 <= NameSize)
    BY <1>4, <1>8, <1>13 DEF LabelFits
  <2>2. Len(t) <= Len(Spelling(p, w)) /\ Len(Spelling(p, w)) \in Nat
    <3>1. k \in 0..Len(w) /\ Len(w) \in 0..Len(w)
      BY <1>5
    <3> QED BY <3>1, SaidPlain, PlainText DEF t, Spelling
  <2>3. ~(Len(Spelling(p, w)) + 2 <= NameSize)
    <3>1. NameSize \in Nat
      BY DecodeAssumption
    <3> HIDE DEF len
    <3> QED BY <1>9, <1>12, <2>1, <2>2, <3>1
  <2>4. pc' = "failed"
    BY <1>13 DEF CopyLabel
  <2> QED BY <1>1, <1>3, <2>3, <2>4 DEF AtName, Legible
<1>14. CASE LabelFits(len)
  <2>1. /\ out' = out \o Bytes(pos + 1, len) \o (IF end < N /\ At(end) # 0 THEN <<Dot>> ELSE << >>)
        /\ pos' = end /\ pc' = pc
    BY <1>14 DEF CopyLabel
  <2>2. Len(t) + 2 <= NameSize
    <3>1. Len(out) + len + 2 <= NameSize
      BY <1>14 DEF LabelFits
    <3> QED BY <1>12, <3>1
  <2>3. Bytes(pos + 1, len) = l
    <3>1. ASSUME NEW i \in 1..len PROVE At((pos + 1) + i - 1) = Octet(p, (pos + 1) + i - 1)
      <4>1. (pos + 1) + i - 1 \in Nat /\ (pos + 1) + i - 1 < Behind(p, w)
        <5>1. /\ pos \in Nat /\ len \in Nat /\ Behind(p, w) \in Nat
              /\ pos + (1 + len) <= Behind(p, w)
          BY <1>4, <1>8
        <5> HIDE DEF len
        <5>2. i \in Nat /\ 1 <= i /\ i <= len
          BY <5>1
        <5>3. \A x, n, y, j \in Nat : x + (1 + n) <= y /\ 1 <= j /\ j <= n =>
                                      (x + 1) + j - 1 \in Nat /\ (x + 1) + j - 1 < y
          OBVIOUS
        <5> QED BY <5>1, <5>2, <5>3
      <4> QED BY <1>4, <4>1
    <3>2. l = Octets(p, pos + 1, len)
      BY <1>4 DEF Label
    <3> QED BY <3>1, <3>2 DEF Bytes, Octets
  <2>4. At(end) = Octet(p, w[k + 1])
    BY <1>4, <1>6, <1>8
  <2>5. out' = t \o (IF t = << >> \/ Octet(p, w[k + 1]) = 0 THEN << >> ELSE <<Dot>>)
    BY <1>8, <1>9, <1>12, <2>1, <2>3, <2>4
  <2>6. depth' = Pointers(p, w, k)
    <3>1. k - 1 \in Nat /\ (k - 1) + 1 = k
      BY <1>5
    <3>2. Pointers(p, w, k) = Pointers(p, w, k - 1) + 0 /\ Pointers(p, w, k - 1) \in Nat
      BY <1>4, <1>7, <3>1, PointersStep
    <3>3. depth' = Pointers(p, w, k - 1)
      BY <1>1, <1>2 DEF Following
    <3> QED BY <3>2, <3>3
  <2>7. (k > InPlace(p, w)) = (k + 1 > InPlace(p, w))
    <3>1. k # InPlace(p, w) /\ InPlace(p, w) \in 1..Len(w)
      BY <1>4, <1>7, SpelledFacts
    <3> QED BY <1>5, <3>1
  <2>8. jumped' = (k + 1 > InPlace(p, w)) /\ (next' = IF jumped' THEN Behind(p, w) ELSE w[1])
    <3>1. jumped = (k > InPlace(p, w)) /\ (next = IF jumped THEN Behind(p, w) ELSE w[1])
      BY <1>2 DEF Following
    <3> QED BY <1>1, <2>7, <3>1
  <2>9. Following(p, w, k + 1)'
    <3>1. (k + 1) - 1 = k /\ pos' = w[k + 1]
      BY <1>5, <1>8, <2>1
    <3> QED BY <2>2, <2>5, <2>6, <2>8, <3>1 DEF Following, t
  <2> QED BY <1>1, <1>3, <1>6, <2>1, <2>9 DEF AtName
<1> QED BY <1>13, <1>14

\* The packet does not end within it.
LEMMA NameKept ==
  ASSUME DecodeInv, NameStep, NEW p \in Text, Begun(p), NEW w, Spelled(p, w), AtName(p, w)
  PROVE  AtName(p, w)'
<1>1. CASE RunOff
  <2>1. pc = "decode" /\ pos >= N /\ Behind(p, w) <= N
    BY <1>1 DEF RunOff, AtName
  <2>2. PICK k \in 1..Len(w) : Following(p, w, k)
    BY <2>1 DEF AtName
  <2>3. pos < N /\ pos \in Nat /\ N \in Nat
    BY <2>1, <2>2, FollowingFacts
  <2> QED BY <2>1, <2>3
<1> QED BY <1>1, NameEnds, NameTurns, NameGrows DEF NameStep

----------------------------------------------------------------------------
(* What a message says. *)

\* A sequence begins with another if it has its elements, in their places.
LEMMA PrefixPoints ==
  ASSUME NEW S, NEW s \in Seq(S), NEW t \in Seq(S)
  PROVE  IsPrefix(s, t) <=> Len(s) <= Len(t) /\ \A i \in 1..Len(s) : s[i] = t[i]
<1>1. /\ Len(s) \in Nat /\ Len(t) \in Nat /\ SubSeq(s, 1, Len(s)) = s
      /\ s \in [1..Len(s) -> S] /\ t \in [1..Len(t) -> S]
  BY SubSeqFull, LenProperties
<1>2. ASSUME Len(s) <= Len(t)
      PROVE  SubSeq(s, 1, Len(s)) = SubSeq(t, 1, Len(s)) <=> \A i \in 1..Len(s) : s[i] = t[i]
  <2> DEFINE u == SubSeq(t, 1, Len(s))
  <2>1. \A i \in 1..Len(s) : t[i] \in S
    BY <1>1, <1>2
  <2>2. u \in Seq(S) /\ Len(u) = Len(s) /\ \A i \in 1..Len(s) : u[i] = t[i]
    <3>1. u \in Seq(S) /\ Len(u) = (IF 1 <= Len(s) THEN Len(s) - 1 + 1 ELSE 0)
          /\ \A i \in 1..Len(s) - 1 + 1 : u[i] = t[1 + i - 1]
      BY <1>1, <2>1, SubSeqProperties
    <3> HIDE DEF u
    <3> QED BY <1>1, <3>1
  <2> HIDE DEF u
  <2>3. s = u <=> \A i \in 1..Len(s) : s[i] = t[i]
    BY <2>2, SeqEqual
  <2> QED BY <1>1, <2>3 DEF u
<1> QED BY <1>2 DEF IsPrefix

LEMMA PrefixOfMore ==
  ASSUME NEW S, NEW s \in Seq(S), NEW t \in Seq(S), NEW u \in Seq(S), IsPrefix(s, t)
  PROVE  IsPrefix(s, t \o u)
<1>1. /\ Len(s) \in Nat /\ Len(t) \in Nat /\ Len(u) \in Nat
      /\ t \o u \in Seq(S) /\ Len(t \o u) = Len(t) + Len(u)
      /\ \A i \in 1..Len(t) + Len(u) : (t \o u)[i] = IF i <= Len(t) THEN t[i] ELSE u[i - Len(t)]
  BY ConcatProperties, LenProperties
<1>2. Len(s) <= Len(t) /\ \A i \in 1..Len(s) : s[i] = t[i]
  BY PrefixPoints
<1> DEFINE tu == t \o u
<1>3. \A i \in 1..Len(s) : s[i] = tu[i]
  BY <1>1, <1>2
<1>4. Len(s) <= Len(tu) /\ tu \in Seq(S)
  BY <1>1, <1>2
<1> HIDE DEF tu
<1>5. IsPrefix(s, tu)
  BY <1>3, <1>4, PrefixPoints
<1> QED BY <1>5 DEF tu

\* What a sequence begins with is the part of it that is as long.
LEMMA PrefixCut ==
  ASSUME NEW S, NEW s \in Seq(S), NEW t \in Seq(S), IsPrefix(s, t)
  PROVE  s = SubSeq(t, 1, Len(s)) /\ Len(s) \in Nat /\ Len(t) \in Nat /\ Len(s) <= Len(t)
BY SubSeqFull, LenProperties DEF IsPrefix

\* The octets of a message are bytes.
LEMMA OctetsText ==
  ASSUME NEW p \in Text, NEW o \in Nat, NEW n \in Nat, o + n <= Len(p)
  PROVE  Octets(p, o, n) \in Text
<1>1. ASSUME NEW i \in 1..n PROVE Octet(p, o + i - 1) \in Byte
  <2>1. Len(p) \in Nat
    BY DEF Text
  <2>2. o + i - 1 \in Nat /\ o + i - 1 < Len(p)
    BY <2>1
  <2> QED BY <2>2, OctetByte
<1>2. Octets(p, o, n) \in [1..n -> Byte]
  BY <1>1 DEF Octets
<1> QED BY <1>2 DEF Text

LEMMA WordNat ==
  ASSUME NEW p \in Text, NEW o \in Nat, o + 2 <= Len(p)
  PROVE  Word(p, o) \in Nat
<1>1. Len(p) \in Nat
  BY DEF Text
<1>2. Octet(p, o) \in Byte /\ Octet(p, o + 1) \in Byte
  BY <1>1, OctetByte
<1>3. \A a, b \in Byte : a * 256 + b \in Nat
  BY DEF Byte
<1> QED BY <1>2, <1>3 DEF Word

LEMMA SpellingPlain ==
  ASSUME NEW p \in Text, NEW w, Spelled(p, w)
  PROVE  /\ Spelling(p, w) \in Plain /\ Spelling(p, w) \in Text
         /\ CString(Spelling(p, w)) = Spelling(p, w)
<1>1. Len(w) \in 0..Len(w)
  BY SpelledFacts
<1>2. Spelling(p, w) \in Plain
  BY <1>1, SaidPlain DEF Spelling
<1> QED BY <1>2, PlainText

\* The parts of a record.
LEMMA RecordFacts ==
  ASSUME NEW p \in Text, NEW r, RecordLaid(p, r)
  PROVE  /\ Len(p) \in Nat /\ r.rrtype \in Nat /\ r.rdlength \in Nat
         /\ Behind(p, r.owner) \in Nat /\ Behind(p, r.owner) > r.owner[1]
         /\ RData(p, r) \in Nat /\ RData(p, r) = Behind(p, r.owner) + 10
         /\ EndsAt(p, r) \in Nat /\ EndsAt(p, r) = RData(p, r) + r.rdlength
         /\ EndsAt(p, r) <= Len(p)
<1>1. Behind(p, r.owner) \in Nat /\ Behind(p, r.owner) > r.owner[1] /\ Len(p) \in Nat
  BY SpelledFacts DEF RecordLaid, Text
<1>2. r.rrtype \in Nat /\ r.rdlength \in Nat /\ EndsAt(p, r) <= Len(p)
  BY DEF RecordLaid
<1> QED BY <1>1, <1>2 DEF RData, EndsAt

\* The types of records are told apart.
LEMMA Kinds ==
  ASSUME NEW r
  PROVE  /\ IsAddress(r) => ~IsText(r) /\ ~IsPtr(r) /\ ~IsSrv(r)
         /\ IsText(r) => ~IsPtr(r) /\ ~IsSrv(r)
         /\ IsPtr(r) => ~IsSrv(r)
BY DEF IsAddress, IsText, IsPtr, IsSrv

\* The row of a record, by its type.
AddressRow(p, r) ==
  [NoResult EXCEPT !.rrtype = r.rrtype, !.hostname = Spelling(p, r.owner),
                   !.address = Octets(p, RData(p, r), r.rdlength)]
TextRow(p, r) ==
  [NoResult EXCEPT !.rrtype = 16, !.instance = Spelling(p, r.owner), !.txt = TextOf(p, r)]
PtrRow(p, r) ==
  [NoResult EXCEPT !.rrtype = 12, !.instance = Spelling(p, r.target),
                   !.service_type = Spelling(p, r.owner)]
SrvRow(p, r) ==
  [NoResult EXCEPT !.rrtype = 33, !.instance = Spelling(p, r.owner),
                   !.hostname = Spelling(p, r.target), !.port = Word(p, RData(p, r) + 4)]

LEMMA RowsByKind ==
  ASSUME NEW p, NEW r
  PROVE  /\ IsAddress(r) => RowsOf(p, r) = <<AddressRow(p, r)>>
         /\ IsText(r) => RowsOf(p, r) = <<TextRow(p, r)>>
         /\ IsPtr(r) /\ Legible(p, r.target) => RowsOf(p, r) = <<PtrRow(p, r)>>
         /\ IsSrv(r) /\ Legible(p, r.target) => RowsOf(p, r) = <<SrvRow(p, r)>>
         /\ ~IsAddress(r) /\ ~IsText(r) /\ (IsPtr(r) \/ IsSrv(r) => ~Legible(p, r.target))
              => RowsOf(p, r) = << >>
<1>1. CASE IsAddress(r)
  BY <1>1, Kinds DEF RowsOf, AddressRow
<1>2. CASE IsText(r)
  BY <1>2, Kinds DEF RowsOf, TextRow
<1>3. CASE IsPtr(r) /\ Legible(p, r.target)
  BY <1>3, Kinds DEF RowsOf, PtrRow
<1>4. CASE IsSrv(r) /\ Legible(p, r.target)
  BY <1>4, Kinds DEF RowsOf, SrvRow
<1>5. CASE ~IsAddress(r) /\ ~IsText(r) /\ (IsPtr(r) \/ IsSrv(r) => ~Legible(p, r.target))
  BY <1>5, Kinds DEF RowsOf
<1> QED BY <1>1, <1>2, <1>3, <1>4, <1>5, Kinds

\* The text of a TXT record lies within its data and has no NUL.
LEMMA TextOfPlain ==
  ASSUME NEW p \in Text, NEW r, RecordLaid(p, r), IsText(r)
  PROVE  /\ TextOf(p, r) \in Plain
         /\ Octet(p, RData(p, r)) \in Nat /\ Octet(p, RData(p, r)) <= r.rdlength - 1
         /\ TextSize - 1 \in Nat
<1> DEFINE d == RData(p, r)
           c == Octet(p, d)
           n == Least(c, TextSize - 1)
<1>1. /\ d \in Nat /\ Len(p) \in Nat /\ r.rdlength \in Nat /\ d + r.rdlength <= Len(p)
      /\ r.rdlength >= 1
  BY RecordFacts DEF IsText
<1>2. c < r.rdlength /\ \A b \in 1..c : Octet(p, d + b) # 0
  BY DEF RecordLaid
<1> HIDE DEF d
<1>3. c \in Byte /\ c \in Nat
  <2>1. c \in Byte
    BY <1>1, OctetByte
  <2> QED BY <2>1 DEF Byte
<1>4. TextSize - 1 \in Nat
  BY DecodeAssumption
<1> HIDE DEF c
<1>5. n \in Nat /\ n <= c
  BY <1>3, <1>4 DEF Least
<1> HIDE DEF n
<1>6. ASSUME NEW k \in 1..n PROVE Octet(p, (d + 1) + k - 1) \in 1..255
  <2>1. (d + 1) + k - 1 = d + k /\ d + k \in Nat /\ d + k < Len(p) /\ k \in 1..c
    BY <1>1, <1>2, <1>3, <1>5
  <2>2. Octet(p, d + k) \in Byte /\ Octet(p, d + k) # 0
    BY <1>2, <2>1, OctetByte
  <2> QED BY <2>1, <2>2 DEF Byte
<1>7. Octets(p, d + 1, n) \in [1..n -> 1..255]
  BY <1>6 DEF Octets
<1>8. Octets(p, d + 1, n) \in Plain
  BY <1>5, <1>7 DEF Plain
<1>9. TextOf(p, r) = Octets(p, d + 1, n)
  BY DEF TextOf, d, n, c
<1>10. c <= r.rdlength - 1
  BY <1>1, <1>2, <1>3
<1> QED BY <1>3, <1>4, <1>8, <1>9, <1>10 DEF c, d

\* What a record tells are rows.
LEMMA RowsOfSeq ==
  ASSUME NEW p \in Text, NEW r, RecordLaid(p, r)
  PROVE  RowsOf(p, r) \in Seq(Result)
<1> DEFINE name == Spelling(p, r.owner)
           host == Spelling(p, r.target)
<1>1. /\ r.rrtype \in Nat /\ r.rdlength \in Nat /\ RData(p, r) \in Nat /\ Len(p) \in Nat
      /\ RData(p, r) + r.rdlength <= Len(p)
  BY RecordFacts
<1>2. name \in Text
  BY SpellingPlain DEF RecordLaid
<1>3. IsPtr(r) \/ IsSrv(r) => host \in Text
  BY SpellingPlain DEF RecordLaid, Holds
<1>4. \A row \in Result : <<row>> \in Seq(Result)
  OBVIOUS
<1>5. << >> \in Seq(Result)
  OBVIOUS
<1>6. CASE IsAddress(r)
  <2> DEFINE a == Octets(p, RData(p, r), r.rdlength)
             t == r.rrtype
  <2>1. a \in Text /\ t \in Nat
    BY <1>1, OctetsText
  <2>2. AddressRow(p, r) = [NoResult EXCEPT !.rrtype = t, !.hostname = name, !.address = a]
    BY DEF AddressRow
  <2>3. AddressRow(p, r) \in Result
    <3> HIDE DEF a, t, name
    <3> QED BY <1>2, <2>1, <2>2, EmptyRow DEF Result
  <2> QED BY <1>4, <1>6, <2>3, RowsByKind
<1>7. CASE IsText(r)
  <2> DEFINE t == TextOf(p, r)
  <2>1. t \in Text
    BY <1>7, TextOfPlain, PlainText
  <2>2. TextRow(p, r) = [NoResult EXCEPT !.rrtype = 16, !.instance = name, !.txt = t]
    BY DEF TextRow
  <2>3. TextRow(p, r) \in Result
    <3>1. \A x, y \in Text : [NoResult EXCEPT !.rrtype = 16, !.instance = x, !.txt = y] \in Result
      BY EmptyRow DEF Result
    <3> HIDE DEF t, name
    <3> QED BY <1>2, <2>1, <2>2, <3>1
  <2> QED BY <1>4, <1>7, <2>3, RowsByKind
<1>8. CASE IsPtr(r) /\ Legible(p, r.target)
  <2>1. PtrRow(p, r) = [NoResult EXCEPT !.rrtype = 12, !.instance = host, !.service_type = name]
    BY DEF PtrRow
  <2>2. PtrRow(p, r) \in Result
    <3>1. \A x, y \in Text :
            [NoResult EXCEPT !.rrtype = 12, !.instance = x, !.service_type = y] \in Result
      BY EmptyRow DEF Result
    <3> HIDE DEF host, name
    <3> QED BY <1>2, <1>3, <1>8, <2>1, <3>1
  <2> QED BY <1>4, <1>8, <2>2, RowsByKind
<1>9. CASE IsSrv(r) /\ Legible(p, r.target)
  <2> DEFINE port == Word(p, RData(p, r) + 4)
  <2>1. port \in Nat
    <3>1. r.rdlength >= 6
      BY <1>9 DEF IsSrv
    <3>2. RData(p, r) + 4 \in Nat /\ RData(p, r) + 4 + 2 <= Len(p)
      BY <1>1, <3>1
    <3> QED BY <3>2, WordNat
  <2>2. SrvRow(p, r) = [NoResult EXCEPT !.rrtype = 33, !.instance = name,
                                        !.hostname = host, !.port = port]
    BY DEF SrvRow
  <2>3. SrvRow(p, r) \in Result
    <3>1. \A x, y \in Text, n \in Nat :
            [NoResult EXCEPT !.rrtype = 33, !.instance = x, !.hostname = y, !.port = n] \in Result
      BY EmptyRow DEF Result
    <3>2. name \in Text /\ host \in Text /\ port \in Nat
      BY <1>2, <1>3, <1>9, <2>1
    <3> HIDE DEF host, name, port
    <3>3. [NoResult EXCEPT !.rrtype = 33, !.instance = name,
                           !.hostname = host, !.port = port] \in Result
      BY <3>1, <3>2
    <3> QED BY <2>2, <3>3
  <2> QED BY <1>4, <1>9, <2>3, RowsByKind
<1>10. CASE ~IsAddress(r) /\ ~IsText(r) /\ (IsPtr(r) \/ IsSrv(r) => ~Legible(p, r.target))
  BY <1>5, <1>10, RowsByKind
<1> QED BY <1>6, <1>7, <1>8, <1>9, <1>10

LEMMA RowsToDef ==
  ASSUME NEW m, Len(m.records) \in Nat
  PROVE  LET f == RowsTo(m) IN
         f[0] = << >> /\ \A i \in 1..Len(m.records) : f[i] = AddRows(m, f[i - 1], i)
<1> DEFINE n == Len(m.records)
           Body(f, k) == [i \in 0..k |-> IF i = 0 THEN << >> ELSE AddRows(m, f[i - 1], i)]
           G == {k \in 0..n : \E f : f = Body(f, k)}
<1>1. 0 \in G
  <2> DEFINE f == [i \in 0..0 |-> << >>]
  <2>1. f = Body(f, 0)
    OBVIOUS
  <2> HIDE DEF f
  <2> QED BY <2>1
<1>2. ASSUME NEW k \in 1..n, k - 1 \in G PROVE k \in G
  <2>1. PICK f : f = Body(f, k - 1)
    BY <1>2
  <2> DEFINE g == [i \in 0..k |-> IF i = k THEN AddRows(m, f[k - 1], k) ELSE f[i]]
  <2>2. ASSUME NEW i \in 0..k
        PROVE  g[i] = IF i = 0 THEN << >> ELSE AddRows(m, g[i - 1], i)
    <3>1. CASE i = k
      BY <3>1
    <3>2. CASE i # k
      <4>1. i \in 0..k - 1 /\ g[i] = f[i]
        BY <3>2
      <4>2. f[i] = IF i = 0 THEN << >> ELSE AddRows(m, f[i - 1], i)
        BY <2>1, <4>1
      <4>3. i # 0 => g[i - 1] = f[i - 1]
        BY <3>2
      <4> QED BY <4>1, <4>2, <4>3
    <3> QED BY <3>1, <3>2
  <2>3. g = Body(g, k)
    BY <2>2
  <2> HIDE DEF g, Body
  <2> QED BY <2>3
<1>3. n \in G
  <2> HIDE DEF G
  <2>1. \A i \in 1..n : i - 1 \in G => i \in G
    BY <1>2
  <2> HIDE DEF n
  <2>2. n \in Nat
    BY DEF n
  <2>3. \A i \in 0..n : i \in G
    BY <1>1, <2>1, <2>2, UpTo
  <2> QED BY <2>2, <2>3
<1>4. PICK h : h = Body(h, n)
  BY <1>3
<1> DEFINE f == RowsTo(m)
<1>5. f = CHOOSE s : s = Body(s, n)
  BY DEF RowsTo
<1>6. f = Body(f, n)
  <2> HIDE DEF f, Body
  <2> QED BY <1>4, <1>5
<1> HIDE DEF f
<1>7. ASSUME NEW i \in 0..n
      PROVE  f[i] = IF i = 0 THEN << >> ELSE AddRows(m, f[i - 1], i)
  <2>1. f[i] = Body(f, n)[i]
    BY <1>6
  <2> QED BY <2>1
<1>8. f[0] = << >> /\ \A i \in 1..n : f[i] = AddRows(m, f[i - 1], i)
  BY <1>7
<1> QED BY <1>8 DEF f

\* The rows of the first records are those the message's begin with.
LEMMA RowsToFacts ==
  ASSUME NEW m, Laid(m)
  PROVE  /\ RowsTo(m)[0] = << >> /\ m.rows = RowsTo(m)[Len(m.records)] /\ m.rows \in Seq(Result)
         /\ \A i \in 1..Len(m.records) :
              RowsTo(m)[i] = RowsTo(m)[i - 1] \o RowsOf(m.bytes, m.records[i])
         /\ \A i \in 0..Len(m.records) :
              RowsTo(m)[i] \in Seq(Result) /\ IsPrefix(RowsTo(m)[i], m.rows)
<1> DEFINE f == RowsTo(m)
           n == Len(m.records)
           row(i) == RowsOf(m.bytes, m.records[i])
<1>1. n \in Nat /\ m.bytes \in Text /\ \A i \in 1..n : RecordLaid(m.bytes, m.records[i])
  BY DEF Laid
<1>2. m.rows = f[n]
  BY DEF Laid
<1>3. f[0] = << >> /\ \A i \in 1..n : f[i] = f[i - 1] \o row(i)
  <2>1. f[0] = << >> /\ \A i \in 1..n : f[i] = AddRows(m, f[i - 1], i)
    BY <1>1, RowsToDef
  <2> QED BY <2>1 DEF AddRows
<1>4. \A i \in 1..n : row(i) \in Seq(Result)
  BY <1>1, RowsOfSeq
<1> HIDE DEF f, row, n
<1> DEFINE G == {i \in 0..n : f[i] \in Seq(Result)}
<1>5. \A i \in 0..n : f[i] \in Seq(Result)
  <2>1. 0 \in G
    <3>1. << >> \in Seq(Result)
      OBVIOUS
    <3>2. 0 \in 0..n
      BY <1>1
    <3> QED BY <1>3, <3>1, <3>2
  <2>2. ASSUME NEW i \in 1..n, i - 1 \in G PROVE i \in G
    <3>1. f[i - 1] \in Seq(Result) /\ row(i) \in Seq(Result) /\ f[i] = f[i - 1] \o row(i)
      BY <1>3, <1>4, <2>2
    <3>2. f[i] \in Seq(Result)
      BY <3>1, ConcatProperties
    <3> QED BY <3>2
  <2> HIDE DEF G
  <2>3. \A i \in 0..n : i \in G
    BY <1>1, <2>1, <2>2, UpTo
  <2> QED BY <2>3 DEF G
<1>6. ASSUME NEW i \in 0..n PROVE IsPrefix(f[i], f[n])
  <2> DEFINE d == n - i
             H == {k \in 0..d : IsPrefix(f[i], f[i + k])}
  <2>1. d \in Nat /\ i + 0 = i /\ i + d = n
    BY <1>1
  <2>2. 0 \in H
    <3>1. Len(f[i]) \in Nat
      BY <1>5, LenProperties
    <3>2. IsPrefix(f[i], f[i])
      BY <3>1 DEF IsPrefix
    <3> QED BY <2>1, <3>2
  <2>3. ASSUME NEW k \in 1..d, k - 1 \in H PROVE k \in H
    <3>1. i + k \in 1..n /\ i + (k - 1) = (i + k) - 1 /\ (i + k) - 1 \in 0..n
      BY <1>1
    <3>2. f[i + k] = f[(i + k) - 1] \o row(i + k)
      BY <1>3, <3>1
    <3>3. f[i] \in Seq(Result) /\ f[(i + k) - 1] \in Seq(Result) /\ row(i + k) \in Seq(Result)
      BY <1>4, <1>5, <3>1
    <3>4. IsPrefix(f[i], f[(i + k) - 1])
      BY <2>3, <3>1
    <3>5. IsPrefix(f[i], f[i + k])
      BY <3>2, <3>3, <3>4, PrefixOfMore
    <3> QED BY <3>5
  <2> HIDE DEF H, d
  <2>4. \A k \in 0..d : k \in H
    BY <2>1, <2>2, <2>3, UpTo
  <2>5. d \in H
    BY <2>1, <2>4
  <2> QED BY <2>1, <2>5 DEF H
<1>7. f[n] \in Seq(Result)
  BY <1>1, <1>5
<1> QED BY <1>2, <1>3, <1>5, <1>6, <1>7 DEF f, n, row

----------------------------------------------------------------------------
(* What the packet is to a message that it is the beginning of. *)

\* The packet is a message, or what is left of it.
Opening(m) == Laid(m) /\ IsPrefix(packet, m.bytes)

\* The message was cut inside the name that is being read, and the rows so
\* far are the first of its rows.
Strayed(m) == packet # m.bytes /\ Severed(offset) /\ IsPrefix(results, m.rows)

AtQuestion(m) ==
  \/ packet # m.bytes /\ Severed(HeaderLen) /\ next >= HeaderLen
  \/ 1 \in 1..Len(m.questions) /\ AtName(m.bytes, m.questions[1].name)

AtSkipped(m) ==
  \/ Strayed(m)
  \/ /\ idx + 1 \in 1..Len(m.questions) /\ results = << >>
     /\ offset = QuestionStart(m, idx + 1)
     /\ AtName(m.bytes, m.questions[idx + 1].name)

InRecord(m) ==
  /\ idx + 1 \in 1..Len(m.records) /\ results = RowsTo(m)[idx]
  /\ offset = RecordStart(m, idx + 1)

AtOwner(m) ==
  \/ Strayed(m)
  \/ InRecord(m) /\ AtName(m.bytes, m.records[idx + 1].owner)

AtTarget(m, r) ==
  /\ InRecord(m) /\ AtName(m.bytes, r.target)
  /\ EndsAt(m.bytes, r) <= N
  /\ rr = [name |-> Spelling(m.bytes, r.owner), rrtype |-> r.rrtype,
           rdata |-> RData(m.bytes, r), rdlength |-> r.rdlength]

AnswersDone(m) ==
  /\ IsPrefix(results, m.rows)
  /\ packet = m.bytes => results = SubSeq(m.rows, 1, Least(Len(m.rows), MaxResults))

QuestionDone(m) ==
  /\ question \in {NoQuestion, m.asked} \/ question.qtype > 255
  /\ packet = m.bytes => question = m.asked

Follows(m) ==
  /\ pc = "begin" => question = NoQuestion /\ results = << >> /\ idx = 0
  /\ parser = "question" =>
       /\ pc = "done" => QuestionDone(m)
       /\ Reading => question = NoQuestion /\ call = "question" /\ AtQuestion(m)
  /\ parser = "answers" =>
       /\ pc = "done" => AnswersDone(m)
       /\ Reading =>
            /\ call # "question"
            /\ call = "skip" => AtSkipped(m)
            /\ call = "owner" => AtOwner(m)
            /\ call = "ptr" => AtTarget(m, m.records[idx + 1]) /\ IsPtr(m.records[idx + 1])
            /\ call = "srv" => AtTarget(m, m.records[idx + 1]) /\ IsSrv(m.records[idx + 1])

WireInv == \A m \in Messages : IsPrefix(packet, m.bytes) => Follows(m)

LEMMA ReadWord ==
  ASSUME packet \in Text, NEW p, Begun(p), NEW o \in Nat, o + 2 <= N
  PROVE  U16(o) = Word(p, o)
<1>1. N \in Nat
  BY DEF N, Text
<1>2. o \in 0..N - 1 /\ o + 1 \in 0..N - 1
  BY <1>1
<1> QED BY <1>2 DEF Begun, U16, Word

\* What is read of a packet and what there is in the message.
LEMMA OpeningFacts ==
  ASSUME DecodeInv, NEW m, Opening(m)
  PROVE  /\ m.bytes \in Text /\ Begun(m.bytes) /\ packet \in Text
         /\ N \in Nat /\ Len(m.bytes) \in Nat /\ N <= Len(m.bytes) /\ Len(m.bytes) >= HeaderLen
         /\ (packet = m.bytes) = (N = Len(m.bytes))
         /\ Len(m.questions) \in Nat /\ Len(m.records) \in Nat
         /\ N >= HeaderLen => QdCount = Len(m.questions) /\ AnCount = Len(m.records)
<1>1. /\ m.bytes \in Text /\ Len(m.bytes) >= HeaderLen /\ packet \in Text /\ N \in Nat
      /\ Len(m.questions) \in Nat /\ Len(m.records) \in Nat
  BY Lengths DEF Opening, Laid, DecodeInv
<1>2. Begun(m.bytes) /\ (N >= Len(m.bytes) => packet = m.bytes)
  BY <1>1, PrefixBegun DEF Opening
<1>3. Len(m.bytes) \in Nat /\ N <= Len(m.bytes)
  BY <1>1, <1>2 DEF Text, Begun
<1>4. (packet = m.bytes) = (N = Len(m.bytes))
  <2>1. packet = m.bytes => N = Len(m.bytes)
    BY DEF N
  <2> QED BY <1>1, <1>2, <1>3, <2>1
<1>5. ASSUME N >= HeaderLen PROVE QdCount = Len(m.questions) /\ AnCount = Len(m.records)
  <2>1. 4 + 2 <= N /\ 6 + 2 <= N /\ 4 \in Nat /\ 6 \in Nat
    BY <1>1, <1>5 DEF HeaderLen
  <2>2. U16(4) = Word(m.bytes, 4) /\ U16(6) = Word(m.bytes, 6)
    BY <1>1, <1>2, <2>1, ReadWord
  <2> QED BY <2>2 DEF Opening, Laid, QdCount, AnCount
<1> QED BY <1>1, <1>2, <1>3, <1>4, <1>5

----------------------------------------------------------------------------
(* Behind the place where the message was cut. *)

\* Any two octets from there on are more than 255.
LEMMA SeveredWord ==
  ASSUME packet \in Text, NEW o \in Nat, Severed(o), NEW x \in Nat, o <= x, x + 2 <= N
  PROVE  U16(x) \in Nat /\ U16(x) > 255
<1>1. N \in Nat
  BY DEF N, Text
<1>2. At(x) # 0
  BY <1>1 DEF Severed
<1>3. At(x) \in Nat /\ At(x + 1) \in Nat
  BY AtNat
<1>4. \A a, b \in Nat : a # 0 => a * 256 + b \in Nat /\ a * 256 + b > 255
  OBVIOUS
<1> QED BY <1>2, <1>3, <1>4 DEF U16

\* No record fits.
LEMMA SeveredRecord ==
  ASSUME DecodeInv, pc = "named", call = "owner", Severed(offset)
  PROVE  ~RecordFits
<1>1. /\ N \in Nat /\ packet \in Text /\ offset \in Nat /\ next \in Nat /\ next >= offset
  BY Lengths DEF DecodeInv, TypeOK, ReadingInv, Reading
<1>2. N <= offset + 255
  BY DEF Severed
<1>3. ASSUME Data <= N PROVE Data + RdLength > N
  <2>1. next + 8 \in Nat /\ offset <= next + 8 /\ (next + 8) + 2 <= N
    BY <1>1, <1>3 DEF Data
  <2>2. RdLength \in Nat /\ RdLength > 255
    BY <1>1, <2>1, SeveredWord DEF RdLength
  <2>3. Data \in Nat /\ Data >= offset
    BY <1>1 DEF Data
  <2> QED BY <1>1, <1>2, <2>2, <2>3
<1>4. RdLength \in Nat /\ Data \in Nat
  BY AtRecord
<1> QED BY <1>1, <1>3, <1>4 DEF RecordFits

\* What is read from there on tells nothing.
LEMMA StrayedOn ==
  ASSUME DecodeInv, NEW m, Strayed(m), NEW o \in 0..N, o >= offset, offset' = o,
         UNCHANGED <<packet, results>>
  PROVE  Strayed(m)'
<1>1. N \in Nat /\ offset \in Nat /\ N' = N /\ \A x \in Nat : At(x)' = At(x)
  BY Lengths DEF DecodeInv, TypeOK, N, At
<1>2. Severed(offset)'
  <2>1. offset <= N /\ N <= offset + 255 /\ \A x \in offset..N - 1 : At(x) # 0
    BY DEF Strayed, Severed
  <2>2. o <= N /\ N <= o + 255 /\ \A x \in o..N - 1 : x \in Nat /\ At(x) # 0
    BY <1>1, <2>1
  <2>3. \A x \in o..N - 1 : At(x)' # 0
    BY <1>1, <2>2
  <2> QED BY <1>1, <2>2, <2>3 DEF Severed
<1> QED BY <1>2 DEF Strayed

\* Reading that ends with the last record, or with the caller's array full.
LEMMA RowsDone ==
  ASSUME DecodeInv', NEW m, Opening(m), UNCHANGED packet, NEW i \in 0..Len(m.records),
         results' = RowsTo(m)[i], i = Len(m.records) \/ Len(results') >= MaxResults
  PROVE  AnswersDone(m)'
<1> DEFINE s == results'
           t == m.rows
<1>1. s \in Seq(Result) /\ t \in Seq(Result) /\ IsPrefix(s, t)
  BY RowsToFacts DEF Opening
<1>2. i = Len(m.records) => s = t
  BY RowsToFacts DEF Opening
<1>3. Len(s) <= MaxResults /\ MaxResults \in Nat
  BY DecodeAssumption DEF DecodeInv, TypeOK
<1>4. i = Len(m.records) \/ Len(s) >= MaxResults
  OBVIOUS
<1> HIDE DEF s, t
<1>5. s = SubSeq(t, 1, Len(s)) /\ Len(s) \in Nat /\ Len(t) \in Nat /\ Len(s) <= Len(t)
  BY <1>1, PrefixCut
<1>6. Len(s) = Least(Len(t), MaxResults)
  <2>1. \A a, b, c \in Nat : a <= b /\ a <= c /\ (a = b \/ a >= c) => a = Least(b, c)
    BY DEF Least
  <2>2. Len(s) = Len(t) \/ Len(s) >= MaxResults
    BY <1>2, <1>4
  <2> QED BY <1>3, <1>5, <2>1, <2>2
<1> QED BY <1>1, <1>5, <1>6 DEF AnswersDone, s, t

\* A name that begins to be read stands whole in the packet, or was cut.
LEMMA NameOrCut ==
  ASSUME DecodeInv, NEW m, Opening(m), NEW w, Spelled(m.bytes, w), w[1] <= N,
         NEW c, Decode(c, w[1]), UNCHANGED packet
  PROVE  AtName(m.bytes, w)' \/ (packet' # m.bytes /\ Severed(w[1])')
<1>1. /\ m.bytes \in Text /\ Begun(m.bytes) /\ packet \in Text /\ N \in Nat
      /\ Len(m.bytes) \in Nat /\ (packet = m.bytes) = (N = Len(m.bytes))
  BY OpeningFacts
<1>2. Behind(m.bytes, w) \in Nat /\ Behind(m.bytes, w) <= Len(m.bytes)
  BY <1>1, SpelledFacts DEF Spelled
<1>3. CASE Behind(m.bytes, w) <= N
  BY <1>1, <1>3, NameBegins
<1>4. CASE ~(Behind(m.bytes, w) <= N)
  <2>1. N < Behind(m.bytes, w)
    BY <1>1, <1>2, <1>4
  <2>2. Severed(w[1])
    BY <1>1, <2>1, SeveredName
  <2>3. packet # m.bytes
    BY <1>1, <1>2, <2>1
  <2>4. Severed(w[1])'
    BY <2>2 DEF Severed, N, At
  <2> QED BY <2>3, <2>4
<1> QED BY <1>3, <1>4

\* The next record.
LEMMA OwnerBegins ==
  ASSUME DecodeInv, NEW m, Opening(m), parser' = "answers", UNCHANGED packet,
         NEW i \in 0..Len(m.records) - 1, NEW o \in 0..N, o = RecordStart(m, i + 1),
         Decode("owner", o), idx' = i, offset' = o, results' = RowsTo(m)[i]
  PROVE  Follows(m)'
<1> DEFINE w == m.records[i + 1].owner
<1>1. Len(m.records) \in Nat /\ i + 1 \in 1..Len(m.records) /\ i \in 0..Len(m.records)
  <2>1. Len(m.records) \in Nat
    BY OpeningFacts
  <2> QED BY <2>1
<1>2. Spelled(m.bytes, w) /\ w[1] = o
  BY <1>1 DEF Opening, Laid, RecordLaid
<1>3. AtName(m.bytes, w)' \/ (packet' # m.bytes /\ Severed(o)')
  <2>1. w[1] <= N /\ Decode("owner", w[1])
    BY <1>2
  <2> HIDE DEF w
  <2>2. AtName(m.bytes, w)' \/ (packet' # m.bytes /\ Severed(w[1])')
    BY <1>2, <2>1, NameOrCut
  <2>3. Severed(w[1])' => Severed(o)'
    BY <1>2 DEF Severed
  <2> QED BY <2>2, <2>3
<1>4. pc' = "decode" /\ call' = "owner"
  BY DEF Decode
<1>5. AtOwner(m)'
  <2>1. CASE AtName(m.bytes, w)'
    BY <1>1, <2>1 DEF AtOwner, InRecord
  <2>2. CASE packet' # m.bytes /\ Severed(o)'
    <3>1. IsPrefix(results', m.rows)
      BY <1>1, RowsToFacts DEF Opening
    <3>2. Severed(offset)'
      BY <2>2 DEF Severed
    <3> QED BY <2>2, <3>1, <3>2 DEF AtOwner, Strayed
  <2> QED BY <1>3, <2>1, <2>2
<1> QED BY <1>4, <1>5 DEF Follows

\* The test of the loop over the records.
LEMMA NextRecordAt ==
  ASSUME DecodeInv, DecodeInv', NEW m, Opening(m), parser' = "answers", UNCHANGED packet,
         N >= HeaderLen, NEW i \in 0..Len(m.records), NEW o \in 0..N,
         o = RecordStart(m, i + 1), results' = RowsTo(m)[i], NextRecord(i, o, results')
  PROVE  Follows(m)'
<1>1. AnCount = Len(m.records) /\ Len(m.records) \in Nat
  BY OpeningFacts
<1>2. idx' = i /\ offset' = o
  BY DEF NextRecord
<1>3. CASE i < AnCount /\ Len(results') < MaxResults
  <2>1. Decode("owner", o) /\ i \in 0..Len(m.records) - 1
    BY <1>1, <1>3 DEF NextRecord
  <2> QED BY <1>2, <2>1, OwnerBegins
<1>4. CASE ~(i < AnCount /\ Len(results') < MaxResults)
  <2>1. Return
    BY <1>4 DEF NextRecord
  <2>2. pc' = "done"
    BY <2>1 DEF Return
  <2>3. i = Len(m.records) \/ Len(results') >= MaxResults
    <3>1. Len(results') \in Nat /\ MaxResults \in Nat
      BY DecodeAssumption, LenProperties DEF DecodeInv, TypeOK
    <3> QED BY <1>1, <1>4, <3>1
  <2>4. AnswersDone(m)'
    BY <2>3, RowsDone
  <2> QED BY <2>2, <2>4 DEF Follows, Reading
<1> QED BY <1>3, <1>4

\* The test of the loop over the questions.
LEMMA NextQuestionAt ==
  ASSUME DecodeInv, DecodeInv', NEW m, Opening(m), parser' = "answers", UNCHANGED packet,
         N >= HeaderLen, NEW i \in 0..Len(m.questions), NEW o \in 0..N,
         o = QuestionStart(m, i + 1), results = << >>, results' = << >>, NextQuestion(i, o)
  PROVE  Follows(m)'
<1>1. QdCount = Len(m.questions) /\ Len(m.questions) \in Nat /\ Len(m.records) \in Nat
  BY OpeningFacts
<1>2. RowsTo(m)[0] = << >> /\ IsPrefix(<< >>, m.rows)
  BY <1>1, RowsToFacts, 0 \in 0..Len(m.records) DEF Opening
<1>3. CASE i < QdCount
  <2> DEFINE w == m.questions[i + 1].name
  <2>1. Decode("skip", o) /\ idx' = i /\ offset' = o /\ i + 1 \in 1..Len(m.questions)
    BY <1>1, <1>3 DEF NextQuestion
  <2>2. Spelled(m.bytes, w) /\ w[1] = o
    BY <2>1 DEF Opening, Laid, QuestionLaid
  <2>3. AtName(m.bytes, w)' \/ (packet' # m.bytes /\ Severed(o)')
    <3>1. w[1] <= N /\ Decode("skip", w[1])
      BY <2>1, <2>2
    <3> HIDE DEF w
    <3>2. AtName(m.bytes, w)' \/ (packet' # m.bytes /\ Severed(w[1])')
      BY <2>2, <3>1, NameOrCut
    <3>3. Severed(w[1])' => Severed(o)'
      BY <2>2 DEF Severed
    <3> QED BY <3>2, <3>3
  <2>4. pc' = "decode" /\ call' = "skip"
    BY <2>1 DEF Decode
  <2>5. AtSkipped(m)'
    <3>1. CASE AtName(m.bytes, w)'
      BY <2>1, <3>1 DEF AtSkipped
    <3>2. CASE packet' # m.bytes /\ Severed(o)'
      <4>1. Severed(offset)'
        BY <2>1, <3>2 DEF Severed
      <4> QED BY <1>2, <3>2, <4>1 DEF AtSkipped, Strayed
    <3> QED BY <2>3, <3>1, <3>2
  <2> QED BY <2>4, <2>5 DEF Follows
<1>4. CASE ~(i < QdCount)
  <2>1. NextRecord(0, o, results') /\ i = Len(m.questions)
    BY <1>1, <1>4 DEF NextQuestion
  <2>2. o = RecordStart(m, 0 + 1)
    BY <2>1 DEF RecordStart
  <2>3. 0 \in 0..Len(m.records)
    BY <1>1
  <2> QED BY <1>2, <2>1, <2>2, <2>3, NextRecordAt
<1> QED BY <1>3, <1>4

\* What the steps within a name leave alone.
LEMMA NameStepKeeps ==
  ASSUME DecodeInv, NameStep
  PROVE  /\ pc = "decode" /\ pc' \in {"decode", "named", "failed"} /\ next \in Nat
         /\ UNCHANGED <<packet, parser, call, offset, idx, rr, question, results>>
         /\ next' \in Nat /\ next' >= next
<1>1. pc = "decode" /\ UNCHANGED <<packet, parser, call, offset, idx, rr, question, results>>
  BY DEF NameStep, RunOff, ZeroLabel, FollowPointer, CopyLabel, decodeVars, recordVars
<1>2. pc' \in {"decode", "named", "failed"}
  BY <1>1 DEF NameStep, RunOff, ZeroLabel, FollowPointer, CopyLabel, EndName
<1>3. next \in Nat /\ pos \in Nat /\ (~jumped => pos >= next)
  BY <1>1 DEF DecodeInv, TypeOK, ReadingInv
<1>4. next' \in {next, pos + 1, pos + 2} /\ (next' # next => ~jumped)
  BY DEF NameStep, RunOff, ZeroLabel, FollowPointer, CopyLabel, decodeVars
<1> QED BY <1>1, <1>2, <1>3, <1>4

\* The name in the data of a PTR or SRV record is well spelled.
LEMMA TargetSpelled ==
  ASSUME NEW m, Opening(m), NEW i, i + 1 \in 1..Len(m.records),
         IsPtr(m.records[i + 1]) \/ IsSrv(m.records[i + 1])
  PROVE  Spelled(m.bytes, m.records[i + 1].target) /\ RecordLaid(m.bytes, m.records[i + 1])
BY DEF Opening, Laid, RecordLaid, Holds

LEMMA NameStepFollows ==
  ASSUME DecodeInv, NEW m, Opening(m), Follows(m), NameStep
  PROVE  Follows(m)'
<1>1. /\ pc = "decode" /\ pc' \in {"decode", "named", "failed"}
      /\ UNCHANGED <<packet, parser, call, offset, idx, rr, question, results>> /\ N' = N
      /\ next' \in Nat /\ next \in Nat /\ next' >= next
  BY NameStepKeeps DEF N
<1>2. m.bytes \in Text /\ Begun(m.bytes)
  BY OpeningFacts
<1>3. ASSUME NEW w, Spelled(m.bytes, w), AtName(m.bytes, w) PROVE AtName(m.bytes, w)'
  BY <1>2, <1>3, NameKept
<1>4. ASSUME NEW o, Severed(o) PROVE Severed(o)'
  BY <1>1, <1>4 DEF Severed, At, N
<1>5. Strayed(m) => Strayed(m)'
  <2>1. Severed(offset) => Severed(offset)'
    BY <1>1 DEF Severed, At, N
  <2> QED BY <1>1, <2>1 DEF Strayed
<1>6. PICK i : i = idx
  OBVIOUS
<1>7. Reading /\ idx' = i
  BY <1>1, <1>6 DEF Reading
<1>8. InRecord(m) => InRecord(m)'
  BY <1>1 DEF InRecord
<1>9. CASE parser = "question"
  <2>1. question = NoQuestion /\ call = "question" /\ AtQuestion(m)
    BY <1>7, <1>9 DEF Follows
  <2>2. AtQuestion(m)'
    <3>1. CASE packet # m.bytes /\ Severed(HeaderLen) /\ next >= HeaderLen
      <4>1. Severed(HeaderLen)'
        BY <1>4, <3>1 DEF Severed, HeaderLen
      <4>2. next' >= HeaderLen
        BY <1>1, <3>1 DEF HeaderLen
      <4> QED BY <1>1, <3>1, <4>1, <4>2 DEF AtQuestion
    <3>2. CASE 1 \in 1..Len(m.questions) /\ AtName(m.bytes, m.questions[1].name)
      <4>1. Spelled(m.bytes, m.questions[1].name)
        BY <3>2 DEF Opening, Laid, QuestionLaid
      <4> QED BY <1>3, <3>2, <4>1 DEF AtQuestion
    <3> QED BY <2>1, <3>1, <3>2 DEF AtQuestion
  <2> QED BY <1>1, <1>9, <2>1, <2>2 DEF Follows
<1>10. CASE parser = "answers"
  <2>1. /\ call # "question"
        /\ call = "skip" => AtSkipped(m)
        /\ call = "owner" => AtOwner(m)
        /\ call = "ptr" => AtTarget(m, m.records[i + 1]) /\ IsPtr(m.records[i + 1])
        /\ call = "srv" => AtTarget(m, m.records[i + 1]) /\ IsSrv(m.records[i + 1])
    BY <1>6, <1>7, <1>10 DEF Follows
  <2>2. ASSUME AtSkipped(m) PROVE AtSkipped(m)'
    <3>1. CASE Strayed(m)
      BY <1>5, <3>1 DEF AtSkipped
    <3>2. CASE ~Strayed(m)
      <4>1. /\ i + 1 \in 1..Len(m.questions) /\ results = << >>
            /\ offset = QuestionStart(m, i + 1)
            /\ AtName(m.bytes, m.questions[i + 1].name)
        BY <1>6, <2>2, <3>2 DEF AtSkipped
      <4>2. Spelled(m.bytes, m.questions[i + 1].name)
        BY <4>1 DEF Opening, Laid, QuestionLaid
      <4>3. AtName(m.bytes, m.questions[i + 1].name)'
        BY <1>3, <4>1, <4>2
      <4> QED BY <1>1, <1>7, <4>1, <4>3 DEF AtSkipped
    <3> QED BY <3>1, <3>2
  <2>3. ASSUME AtOwner(m) PROVE AtOwner(m)'
    <3>1. CASE Strayed(m)
      BY <1>5, <3>1 DEF AtOwner
    <3>2. CASE ~Strayed(m)
      <4>1. InRecord(m) /\ AtName(m.bytes, m.records[i + 1].owner) /\ i + 1 \in 1..Len(m.records)
        BY <1>6, <2>3, <3>2 DEF AtOwner, InRecord
      <4>2. Spelled(m.bytes, m.records[i + 1].owner)
        BY <4>1 DEF Opening, Laid, RecordLaid
      <4>3. AtName(m.bytes, m.records[i + 1].owner)'
        BY <1>3, <4>1, <4>2
      <4> QED BY <1>7, <1>8, <4>1, <4>3 DEF AtOwner
    <3> QED BY <3>1, <3>2
  <2>4. ASSUME AtTarget(m, m.records[i + 1]),
               IsPtr(m.records[i + 1]) \/ IsSrv(m.records[i + 1])
        PROVE  AtTarget(m, m.records[i + 1])'
    <3> DEFINE r == m.records[i + 1]
    <3>1. InRecord(m) /\ AtName(m.bytes, r.target) /\ i + 1 \in 1..Len(m.records)
      BY <1>6, <2>4 DEF AtTarget, InRecord
    <3>2. Spelled(m.bytes, r.target)
      BY <2>4, <3>1, TargetSpelled
    <3>3. AtName(m.bytes, r.target)'
      BY <1>3, <3>1, <3>2
    <3> HIDE DEF r
    <3>4. AtTarget(m, r)'
      <4>1. AtTarget(m, r)
        BY <2>4 DEF r
      <4> QED BY <1>1, <1>8, <3>1, <3>3, <4>1 DEF AtTarget
    <3> QED BY <3>4 DEF r
  <2> QED BY <1>1, <1>7, <1>10, <2>1, <2>2, <2>3, <2>4 DEF Follows
<1> QED BY <1>1, <1>9, <1>10 DEF DecodeInv, TypeOK, Parsers

----------------------------------------------------------------------------
(* The first question of the packet. *)

LEMMA BeginQuestionFollows ==
  ASSUME DecodeInv, NEW m, Opening(m), Follows(m), BeginQuestion
  PROVE  Follows(m)'
<1>1. /\ pc = "begin" /\ parser = "question" /\ parser' = "question"
      /\ UNCHANGED <<packet, offset, idx, rr, question, results>> /\ question' = NoQuestion
  BY DEF BeginQuestion, recordVars, Follows
<1>2. /\ m.bytes \in Text /\ Len(m.bytes) >= HeaderLen /\ N \in Nat /\ Len(m.bytes) \in Nat
      /\ (packet = m.bytes) = (N = Len(m.bytes)) /\ Len(m.questions) \in Nat
      /\ N >= HeaderLen => QdCount = Len(m.questions)
  BY OpeningFacts
<1>3. m.asked = Asked(m)
  BY DEF Opening, Laid
<1>4. CASE N < HeaderLen
  <2>1. pc' = "done"
    BY <1>4 DEF BeginQuestion, Return
  <2>2. packet' # m.bytes
    BY <1>1, <1>2, <1>4 DEF HeaderLen
  <2> QED BY <1>1, <2>1, <2>2 DEF Follows, QuestionDone, Reading
<1>5. CASE ~(N < HeaderLen) /\ QdCount = 0
  <2>1. pc' = "done"
    BY <1>5 DEF BeginQuestion, Return
  <2>2. m.asked = NoQuestion
    BY <1>2, <1>3, <1>5 DEF Asked, HeaderLen
  <2> QED BY <1>1, <2>1, <2>2 DEF Follows, QuestionDone, Reading
<1>6. CASE ~(N < HeaderLen) /\ QdCount # 0
  <2> DEFINE w == m.questions[1].name
  <2>1. Decode("question", HeaderLen)
    BY <1>6 DEF BeginQuestion
  <2>2. 1 \in 1..Len(m.questions) /\ HeaderLen <= N
    BY <1>2, <1>6 DEF HeaderLen
  <2>3. Spelled(m.bytes, w) /\ w[1] = HeaderLen
    BY <2>2 DEF Opening, Laid, QuestionLaid, QuestionStart
  <2>4. pc' = "decode" /\ call' = "question" /\ next' = HeaderLen
    BY <2>1 DEF Decode
  <2>5. AtName(m.bytes, w)' \/ (packet' # m.bytes /\ Severed(w[1])')
    <3>1. w[1] <= N /\ Decode("question", w[1])
      BY <2>1, <2>2, <2>3
    <3> HIDE DEF w
    <3> QED BY <1>1, <2>3, <3>1, NameOrCut
  <2>6. AtQuestion(m)'
    <3>1. CASE AtName(m.bytes, w)'
      BY <2>2, <3>1 DEF AtQuestion
    <3>2. CASE packet' # m.bytes /\ Severed(w[1])'
      <4>1. Severed(HeaderLen)'
        <5> HIDE DEF w
        <5> QED BY <2>3, <3>2 DEF Severed, HeaderLen
      <4>2. next' >= HeaderLen
        BY <2>4 DEF HeaderLen
      <4> QED BY <3>2, <4>1, <4>2 DEF AtQuestion
    <3> QED BY <2>5, <3>1, <3>2
  <2> QED BY <1>1, <2>4, <2>6 DEF Follows
<1> QED BY <1>4, <1>5, <1>6

LEMMA QuestionNamedFollows ==
  ASSUME DecodeInv, NEW m, Opening(m), Follows(m), QuestionNamed
  PROVE  Follows(m)'
<1>1. /\ pc = "named" /\ call = "question" /\ pc' = "done"
      /\ UNCHANGED <<packet, parser, offset, idx, rr, results>>
  BY DEF QuestionNamed, Return
<1>2. Reading
  BY <1>1 DEF Reading
<1>3. parser = "question" /\ question = NoQuestion /\ AtQuestion(m)
  BY <1>1, <1>2 DEF Follows, DecodeInv, TypeOK, Parsers
<1>4. /\ m.bytes \in Text /\ Begun(m.bytes) /\ packet \in Text /\ N \in Nat
      /\ Len(m.bytes) \in Nat /\ (packet = m.bytes) = (N = Len(m.bytes))
      /\ next \in Nat
  BY OpeningFacts DEF DecodeInv, TypeOK
<1> DEFINE q == m.questions[1]
           b == Behind(m.bytes, q.name)
<1>5. CASE packet # m.bytes /\ Severed(HeaderLen) /\ next >= HeaderLen
  <2>1. CASE next + 4 > N
    <3>1. question' = NoQuestion
      BY <1>3, <2>1 DEF QuestionNamed
    <3> QED BY <1>1, <1>3, <1>5, <3>1 DEF Follows, QuestionDone, Reading
  <2>2. CASE ~(next + 4 > N)
    <3>1. question' = [name |-> CString(out), qtype |-> U16(next)]
      BY <2>2 DEF QuestionNamed
    <3>2. U16(next) > 255
      <4>1. HeaderLen \in Nat /\ HeaderLen <= next /\ next + 2 <= N
        BY <1>4, <1>5, <2>2 DEF HeaderLen
      <4> QED BY <1>4, <1>5, <4>1, SeveredWord
    <3>3. question'.qtype > 255
      BY <3>1, <3>2
    <3> QED BY <1>1, <1>3, <1>5, <3>3 DEF Follows, QuestionDone, Reading
  <2> QED BY <2>1, <2>2
<1>6. CASE 1 \in 1..Len(m.questions) /\ AtName(m.bytes, q.name)
  <2>1. /\ Spelled(m.bytes, q.name) /\ b + 4 <= Len(m.bytes) /\ q.qtype = Word(m.bytes, b)
        /\ m.asked = [name |-> Spelling(m.bytes, q.name), qtype |-> q.qtype]
    <3>1. QuestionLaid(m.bytes, q) /\ m.asked = Asked(m) /\ Len(m.questions) # 0
      BY <1>6 DEF Opening, Laid
    <3> QED BY <3>1 DEF QuestionLaid, Asked
  <2>2. out = Spelling(m.bytes, q.name) /\ next = b
    BY <1>1, <1>6 DEF AtName
  <2>3. CString(out) = Spelling(m.bytes, q.name)
    BY <1>4, <2>1, <2>2, SpellingPlain
  <2> HIDE DEF q, b
  <2>4. CASE next + 4 > N
    <3>1. question' = NoQuestion
      BY <1>3, <2>4 DEF QuestionNamed
    <3>2. packet' # m.bytes
      BY <1>1, <1>4, <2>1, <2>2, <2>4
    <3> QED BY <1>1, <1>3, <3>1, <3>2 DEF Follows, QuestionDone, Reading
  <2>5. CASE ~(next + 4 > N)
    <3>1. question' = [name |-> CString(out), qtype |-> U16(next)]
      BY <2>5 DEF QuestionNamed
    <3>2. U16(next) = Word(m.bytes, b)
      <4>1. next + 2 <= N
        BY <1>4, <2>5
      <4> QED BY <1>4, <2>2, <4>1, ReadWord
    <3>3. question' = m.asked
      BY <2>1, <2>3, <3>1, <3>2
    <3> QED BY <1>1, <1>3, <3>3 DEF Follows, QuestionDone, Reading
  <2> QED BY <2>4, <2>5
<1> QED BY <1>3, <1>5, <1>6 DEF AtQuestion

----------------------------------------------------------------------------
(* The questions that are passed over. *)

LEMMA BeginAnswersFollows ==
  ASSUME DecodeInv, DecodeInv', NEW m, Opening(m), Follows(m), BeginAnswers
  PROVE  Follows(m)'
<1>1. /\ pc = "begin" /\ parser = "answers" /\ parser' = "answers" /\ results = << >>
      /\ UNCHANGED <<packet, rr, question, results>> /\ results' = << >>
  BY DEF BeginAnswers, Follows
<1>2. /\ Len(m.bytes) >= HeaderLen /\ N \in Nat /\ Len(m.bytes) \in Nat
      /\ (packet = m.bytes) = (N = Len(m.bytes))
      /\ Len(m.questions) \in Nat /\ Len(m.records) \in Nat
  BY OpeningFacts
<1>3. CASE N < HeaderLen
  <2>1. pc' = "done"
    BY <1>3 DEF BeginAnswers, Return
  <2>2. packet' # m.bytes
    BY <1>1, <1>2, <1>3 DEF HeaderLen
  <2>3. IsPrefix(results', m.rows)
    <3>1. 0 \in 0..Len(m.records)
      BY <1>2
    <3> QED BY <1>1, <3>1, RowsToFacts DEF Opening
  <2> QED BY <1>1, <2>1, <2>2, <2>3 DEF Follows, AnswersDone, Reading
<1>4. CASE ~(N < HeaderLen)
  <2>1. NextQuestion(0, HeaderLen)
    BY <1>4 DEF BeginAnswers
  <2>2. HeaderLen \in 0..N /\ N >= HeaderLen /\ HeaderLen = QuestionStart(m, 0 + 1)
        /\ 0 \in 0..Len(m.questions)
    BY <1>2, <1>4 DEF HeaderLen, QuestionStart
  <2> QED BY <1>1, <2>1, <2>2, NextQuestionAt
<1> QED BY <1>3, <1>4

LEMMA SkipQuestionFollows ==
  ASSUME DecodeInv, DecodeInv', NEW m, Opening(m), Follows(m), SkipQuestion
  PROVE  Follows(m)'
<1>1. /\ pc = "named" /\ call = "skip"
      /\ UNCHANGED <<packet, parser, rr, question, results, high>>
  BY DEF SkipQuestion
<1>2. Reading
  BY <1>1 DEF Reading
<1>3. parser = "answers" /\ parser' = "answers" /\ AtSkipped(m)
  BY <1>1, <1>2 DEF Follows, DecodeInv, TypeOK, Parsers
<1>4. /\ m.bytes \in Text /\ N \in Nat
      /\ Len(m.bytes) \in Nat /\ (packet = m.bytes) = (N = Len(m.bytes))
      /\ Len(m.questions) \in Nat /\ Len(m.records) \in Nat
      /\ next \in Nat /\ next >= offset /\ N >= HeaderLen /\ offset \in Nat
  <2>1. /\ m.bytes \in Text /\ N \in Nat
        /\ Len(m.bytes) \in Nat /\ (packet = m.bytes) = (N = Len(m.bytes))
        /\ Len(m.questions) \in Nat /\ Len(m.records) \in Nat
    BY OpeningFacts
  <2>2. next \in Nat /\ offset \in Nat /\ next >= offset /\ N >= HeaderLen
    BY <1>1, <1>2 DEF DecodeInv, TypeOK, ReadingInv
  <2> QED BY <2>1, <2>2
<1>5. IsPrefix(<< >>, m.rows)
  <2>1. 0 \in 0..Len(m.records)
    BY <1>4
  <2> QED BY <2>1, RowsToFacts DEF Opening
<1>6. CASE next + 4 > N
  <2>1. pc' = "done"
    BY <1>6 DEF SkipQuestion, Return
  <2>2. packet' # m.bytes /\ IsPrefix(results', m.rows)
    <3>1. CASE Strayed(m)
      BY <1>1, <3>1 DEF Strayed
    <3>2. CASE ~Strayed(m)
      <4>1. PICK i : i = idx
        OBVIOUS
      <4> DEFINE q == m.questions[i + 1]
      <4>2. i + 1 \in 1..Len(m.questions) /\ results = << >> /\ AtName(m.bytes, q.name)
        BY <1>3, <3>2, <4>1 DEF AtSkipped
      <4>3. next = Behind(m.bytes, q.name) /\ Behind(m.bytes, q.name) + 4 <= Len(m.bytes)
        <5>1. QuestionLaid(m.bytes, q)
          BY <4>2 DEF Opening, Laid
        <5> QED BY <1>1, <4>2, <5>1 DEF QuestionLaid, AtName
      <4> HIDE DEF q
      <4>4. packet # m.bytes
        BY <1>4, <1>6, <4>3
      <4> QED BY <1>1, <1>5, <4>2, <4>4
    <3> QED BY <3>1, <3>2
  <2> QED BY <1>3, <2>1, <2>2 DEF Follows, AnswersDone, Reading
<1>7. CASE ~(next + 4 > N)
  <2>1. NextQuestion(idx + 1, next + 4)
    BY <1>7 DEF SkipQuestion
  <2>2. next + 4 \in 0..N /\ next + 4 >= offset
    BY <1>4, <1>7
  <2>3. CASE Strayed(m)
    <3>1. offset' = next + 4
      BY <2>1, NextQuestionForward
    <3>2. Strayed(m)'
      <4> DEFINE o == next + 4
      <4>1. o \in 0..N /\ o >= offset /\ offset' = o
        BY <2>2, <3>1
      <4>2. PICK x \in 0..N : x = o
        BY <4>1
      <4> QED BY <1>1, <2>3, <4>1, <4>2, StrayedOn
    <3>3. \/ pc' = "decode" /\ call' \in {"skip", "owner"}
          \/ pc' = "done"
      BY <2>1 DEF NextQuestion, NextRecord, Decode, Return
    <3> QED BY <1>3, <3>2, <3>3 DEF Follows, AnswersDone, Strayed, AtSkipped, AtOwner, Reading
  <2>4. CASE ~Strayed(m)
    <3>1. PICK i : i = idx
      OBVIOUS
    <3> DEFINE q == m.questions[i + 1]
    <3>2. i + 1 \in 1..Len(m.questions) /\ results = << >> /\ AtName(m.bytes, q.name)
          /\ i \in Nat
      BY <1>3, <2>4, <3>1 DEF AtSkipped, DecodeInv, TypeOK
    <3>3. next = Behind(m.bytes, q.name)
      BY <1>1, <3>2 DEF AtName
    <3>4. PICK o \in 0..N, j \in 0..Len(m.questions) : o = next + 4 /\ j = i + 1
      BY <1>4, <2>2, <3>2
    <3>5. o = QuestionStart(m, j + 1)
      <4>1. j + 1 # 1 /\ (j + 1) - 1 = i + 1
        BY <3>2, <3>4
      <4> QED BY <3>3, <3>4, <4>1 DEF QuestionStart
    <3>6. NextQuestion(j, o)
      BY <2>1, <3>1, <3>4
    <3> HIDE DEF q
    <3> QED BY <1>1, <1>3, <1>4, <3>2, <3>5, <3>6, NextQuestionAt
  <2> QED BY <2>3, <2>4
<1> QED BY <1>6, <1>7

----------------------------------------------------------------------------
(* The records. *)

\* The owner of the record that is read was named.
LEMMA OwnerNamed ==
  ASSUME DecodeInv, NEW m, Opening(m), Follows(m), pc = "named", call = "owner"
  PROVE  /\ parser = "answers" /\ N >= HeaderLen
         /\ \/ ~RecordFits /\ packet # m.bytes /\ IsPrefix(results, m.rows)
            \/ RecordFits /\ \E i \in 0..Len(m.records) - 1 :
                 LET r == m.records[i + 1] IN
                 /\ i = idx /\ InRecord(m) /\ results = RowsTo(m)[i] /\ RecordLaid(m.bytes, r)
                 /\ CString(out) = Spelling(m.bytes, r.owner)
                 /\ Data = RData(m.bytes, r) /\ Type = r.rrtype /\ RdLength = r.rdlength
                 /\ EndsAt(m.bytes, r) \in 0..N
<1>1. Reading
  BY DEF Reading
<1>2. parser = "answers" /\ AtOwner(m) /\ N >= HeaderLen
  BY <1>1 DEF Follows, DecodeInv, TypeOK, ReadingInv, Parsers
<1>3. /\ m.bytes \in Text /\ Begun(m.bytes) /\ packet \in Text /\ N \in Nat
      /\ Len(m.bytes) \in Nat /\ (packet = m.bytes) = (N = Len(m.bytes))
      /\ Len(m.records) \in Nat
  BY OpeningFacts
<1>4. CASE Strayed(m)
  BY <1>2, <1>4, SeveredRecord DEF Strayed
<1>5. CASE ~Strayed(m)
  <2>1. PICK i : i = idx
    OBVIOUS
  <2> DEFINE p == m.bytes
             r == m.records[i + 1]
             b == Behind(p, r.owner)
  <2>2. InRecord(m) /\ AtName(p, r.owner) /\ i + 1 \in 1..Len(m.records)
        /\ results = RowsTo(m)[i]
    BY <1>2, <1>5, <2>1 DEF AtOwner, InRecord
  <2>3. i \in 0..Len(m.records) - 1
    <3>1. i \in Nat
      BY <2>1 DEF DecodeInv, TypeOK
    <3> QED BY <1>3, <2>2, <3>1
  <2>4. RecordLaid(p, r)
    BY <2>2 DEF Opening, Laid
  <2>5. out = Spelling(p, r.owner) /\ next = b
    BY <2>2 DEF AtName
  <2>6. CString(out) = Spelling(p, r.owner)
    BY <1>3, <2>4, <2>5, SpellingPlain DEF RecordLaid
  <2> HIDE DEF r, p
  <2>7. /\ b \in Nat /\ RData(p, r) = b + 10 /\ EndsAt(p, r) = b + 10 + r.rdlength
        /\ EndsAt(p, r) \in Nat /\ EndsAt(p, r) <= Len(p) /\ r.rdlength \in Nat /\ Len(p) \in Nat
    <3>1. p \in Text
      BY <1>3 DEF p
    <3> QED BY <2>4, <3>1, RecordFacts
  <2>8. r.rrtype = Word(p, b) /\ r.rdlength = Word(p, b + 8)
    BY <2>4 DEF RecordLaid
  <2> HIDE DEF b
  <2>9. Data = RData(p, r)
    BY <2>5, <2>7 DEF Data
  <2>10. ASSUME Data <= N PROVE Type = r.rrtype /\ RdLength = r.rdlength
    <3>1. b + 8 \in Nat /\ (b + 8) + 2 <= N /\ b + 2 <= N
      BY <1>3, <2>7, <2>9, <2>10
    <3>2. U16(b) = Word(p, b) /\ U16(b + 8) = Word(p, b + 8)
      BY <1>3, <2>7, <3>1, ReadWord DEF p
    <3> QED BY <2>5, <2>8, <3>2 DEF Type, RdLength
  <2>11. CASE RecordFits
    <3>1. Type = r.rrtype /\ RdLength = r.rdlength /\ EndsAt(p, r) <= N
      <4>1. Data <= N /\ Data + RdLength <= N
        BY <2>11 DEF RecordFits
      <4> QED BY <2>7, <2>9, <2>10, <4>1
    <3>2. EndsAt(p, r) \in 0..N
      BY <1>3, <2>7, <3>1
    <3> QED BY <1>2, <2>1, <2>2, <2>3, <2>4, <2>6, <2>9, <2>11, <3>1, <3>2 DEF p, r
  <2>12. CASE ~RecordFits
    <3>1. packet # m.bytes
      <4>1. SUFFICES ASSUME packet = m.bytes PROVE FALSE
        OBVIOUS
      <4>2. N = Len(p)
        BY <1>3, <4>1 DEF p
      <4>3. Data <= N
        BY <2>7, <2>9, <4>2
      <4>4. Data + RdLength <= N
        BY <2>7, <2>9, <2>10, <4>2, <4>3
      <4> QED BY <2>12, <4>3, <4>4 DEF RecordFits
    <3>2. IsPrefix(results, m.rows)
      <4>1. i \in 0..Len(m.records)
        BY <1>3, <2>3
      <4> QED BY <2>2, <4>1, RowsToFacts DEF Opening
    <3> QED BY <1>2, <2>12, <3>1, <3>2
  <2> QED BY <2>11, <2>12
<1> QED BY <1>4, <1>5

LEMMA EndOfAnswersFollows ==
  ASSUME DecodeInv, NEW m, Opening(m), Follows(m), EndOfAnswers
  PROVE  Follows(m)'
<1>1. /\ pc = "named" /\ call = "owner" /\ ~RecordFits /\ pc' = "done"
      /\ UNCHANGED <<packet, parser, results>>
  BY DEF EndOfAnswers, Return, recordVars
<1>2. parser = "answers" /\ packet # m.bytes /\ IsPrefix(results, m.rows)
  BY <1>1, OwnerNamed
<1> QED BY <1>1, <1>2 DEF Follows, AnswersDone, Reading

\* A record that fits.
LEMMA RecordAt ==
  ASSUME DecodeInv, NEW m, Opening(m), Follows(m), pc = "named", call = "owner", RecordFits
  PROVE  /\ parser = "answers" /\ N >= HeaderLen
         /\ \E i \in 0..Len(m.records) - 1, e \in 0..N :
              LET r == m.records[i + 1] IN
              /\ i = idx /\ InRecord(m) /\ results = RowsTo(m)[i] /\ RecordLaid(m.bytes, r)
              /\ CString(out) = Spelling(m.bytes, r.owner)
              /\ Data = RData(m.bytes, r) /\ Type = r.rrtype /\ RdLength = r.rdlength
              /\ EndsAt(m.bytes, r) = e /\ Data + RdLength = e
<1>1. parser = "answers" /\ N >= HeaderLen
  BY OwnerNamed
<1>2. PICK i \in 0..Len(m.records) - 1 :
        LET r == m.records[i + 1] IN
        /\ i = idx /\ InRecord(m) /\ results = RowsTo(m)[i] /\ RecordLaid(m.bytes, r)
        /\ CString(out) = Spelling(m.bytes, r.owner)
        /\ Data = RData(m.bytes, r) /\ Type = r.rrtype /\ RdLength = r.rdlength
        /\ EndsAt(m.bytes, r) \in 0..N
  BY OwnerNamed
<1>3. EndsAt(m.bytes, m.records[i + 1]) = Data + RdLength
  BY <1>2 DEF EndsAt
<1> QED BY <1>1, <1>2, <1>3

\* A record is passed, with the rows there are of it.
LEMMA RecordPassed ==
  ASSUME DecodeInv, DecodeInv', NEW m, Opening(m), parser' = "answers", UNCHANGED packet,
         N >= HeaderLen, NEW i \in 0..Len(m.records) - 1, NEW e \in 0..N,
         results = RowsTo(m)[i], EndsAt(m.bytes, m.records[i + 1]) = e,
         NEW rows, RowsOf(m.bytes, m.records[i + 1]) = rows, results' = results \o rows,
         NextRecord(i + 1, e, results')
  PROVE  Follows(m)'
<1>1. Len(m.records) \in Nat
  BY OpeningFacts
<1>2. PICK j \in 1..Len(m.records) : j = i + 1
  BY <1>1
<1>3. j - 1 = i /\ j \in 0..Len(m.records) /\ j + 1 # 1 /\ (j + 1) - 1 = j
  BY <1>1, <1>2
<1>4. results' = RowsTo(m)[j]
  BY <1>2, <1>3, RowsToFacts DEF Opening
<1>5. e = RecordStart(m, j + 1)
  BY <1>2, <1>3 DEF RecordStart
<1>6. NextRecord(j, e, results')
  BY <1>2
<1> QED BY <1>3, <1>4, <1>5, <1>6, NextRecordAt

\* A row more is a row behind the others.
LEMMA RowBehind ==
  ASSUME NEW s \in Seq(Result), NEW row
  PROVE  Append(s, row) = s \o <<row>> /\ s \o << >> = s
<1>1. s \o << >> = s
  BY ConcatEmptySeq
<1>2. Append(s, row) = s \o <<row>>
  OBVIOUS
<1> QED BY <1>1, <1>2

LEMMA ReadOctets ==
  ASSUME packet \in Text, NEW p, Begun(p), NEW o \in Nat, NEW n \in Nat, o + n <= N
  PROVE  Bytes(o, n) = Octets(p, o, n)
<1>1. N \in Nat
  BY DEF N, Text
<1>2. ASSUME NEW i \in 1..n PROVE At(o + i - 1) = Octet(p, o + i - 1)
  <2>1. o + i - 1 \in 0..N - 1
    BY <1>1
  <2> QED BY <2>1 DEF Begun
<1> QED BY <1>2 DEF Bytes, Octets

\* What a record that fits is to the message, and the row it gets.
LEMMA RowTaken ==
  ASSUME DecodeInv, DecodeInv', NEW m, Opening(m), parser' = "answers", UNCHANGED packet,
         N >= HeaderLen, NEW i \in 0..Len(m.records) - 1, NEW e \in 0..N, i = idx,
         results = RowsTo(m)[i], EndsAt(m.bytes, m.records[i + 1]) = e,
         NEW row, RowsOf(m.bytes, m.records[i + 1]) = <<row>>,
         results' = Append(results, row), NextRecord(idx + 1, e, results')
  PROVE  Follows(m)'
<1>1. results \in Seq(Result)
  BY DEF DecodeInv, TypeOK
<1>2. results' = results \o <<row>>
  BY <1>1, RowBehind
<1>3. NextRecord(i + 1, e, results')
  OBVIOUS
<1> QED BY <1>2, <1>3, RecordPassed

LEMMA AddressRecordFollows ==
  ASSUME DecodeInv, DecodeInv', NEW m, Opening(m), Follows(m), AddressRecord
  PROVE  Follows(m)'
<1> DEFINE row == [NoResult EXCEPT !.rrtype = Type, !.hostname = CString(out),
                                   !.address = Bytes(Data, RdLength)]
<1>1. /\ pc = "named" /\ call = "owner" /\ RecordFits /\ HasAddress /\ TakeRow(row)
      /\ UNCHANGED <<packet, parser, rr, question>>
  BY DEF AddressRecord
<1>2. PICK i \in 0..Len(m.records) - 1, e \in 0..N :
        LET r == m.records[i + 1] IN
        /\ i = idx /\ InRecord(m) /\ results = RowsTo(m)[i] /\ RecordLaid(m.bytes, r)
        /\ CString(out) = Spelling(m.bytes, r.owner)
        /\ Data = RData(m.bytes, r) /\ Type = r.rrtype /\ RdLength = r.rdlength
        /\ EndsAt(m.bytes, r) = e /\ Data + RdLength = e
  BY <1>1, RecordAt
<1> DEFINE r == m.records[i + 1]
<1>3. m.bytes \in Text /\ Begun(m.bytes) /\ packet \in Text /\ N \in Nat
      /\ Data \in Nat /\ RdLength \in Nat
  BY <1>1, OpeningFacts, AtRecord
<1>4. Bytes(Data, RdLength) = Octets(m.bytes, RData(m.bytes, r), r.rdlength)
  <2>1. Data + RdLength <= N
    BY <1>2
  <2> QED BY <1>2, <1>3, <2>1, ReadOctets
<1>5. IsAddress(r)
  BY <1>1, <1>2 DEF HasAddress, IsAddress
<1>6. row = AddressRow(m.bytes, r)
  BY <1>2, <1>4 DEF AddressRow
<1>7. RowsOf(m.bytes, r) = <<row>>
  BY <1>5, <1>6, RowsByKind
<1>8. results' = Append(results, row) /\ NextRecord(idx + 1, e, results')
  BY <1>1, <1>2 DEF TakeRow
<1>9. parser' = "answers" /\ N >= HeaderLen
  BY <1>1, RecordAt
<1> HIDE DEF row
<1> QED BY <1>1, <1>2, <1>7, <1>8, <1>9, RowTaken

LEMMA TextRecordFollows ==
  ASSUME DecodeInv, DecodeInv', NEW m, Opening(m), Follows(m), TextRecord
  PROVE  Follows(m)'
<1> DEFINE len == Least(Least(At(Data), RdLength - 1), TextSize - 1)
           text == CString(Bytes(Data + 1, len))
           row == [NoResult EXCEPT !.rrtype = Type, !.instance = CString(out), !.txt = text]
<1>1. /\ pc = "named" /\ call = "owner" /\ RecordFits /\ HasText /\ TakeRow(row)
      /\ UNCHANGED <<packet, parser, rr, question>>
  BY DEF TextRecord
<1>2. PICK i \in 0..Len(m.records) - 1, e \in 0..N :
        LET r == m.records[i + 1] IN
        /\ i = idx /\ InRecord(m) /\ results = RowsTo(m)[i] /\ RecordLaid(m.bytes, r)
        /\ CString(out) = Spelling(m.bytes, r.owner)
        /\ Data = RData(m.bytes, r) /\ Type = r.rrtype /\ RdLength = r.rdlength
        /\ EndsAt(m.bytes, r) = e /\ Data + RdLength = e
  BY <1>1, RecordAt
<1> DEFINE r == m.records[i + 1]
<1>3. m.bytes \in Text /\ Begun(m.bytes) /\ packet \in Text /\ N \in Nat
      /\ Data \in Nat /\ RdLength \in Nat /\ RecordLaid(m.bytes, r)
  BY <1>1, <1>2, OpeningFacts, AtRecord
<1>4. IsText(r) /\ Type = 16 /\ RdLength >= 1
  BY <1>1, <1>2 DEF HasText, IsText
<1> DEFINE c == Octet(m.bytes, RData(m.bytes, r))
<1>5. /\ TextOf(m.bytes, r) \in Plain /\ c \in Nat /\ c <= r.rdlength - 1 /\ TextSize - 1 \in Nat
      /\ TextOf(m.bytes, r) = Octets(m.bytes, RData(m.bytes, r) + 1, Least(c, TextSize - 1))
  BY <1>3, <1>4, TextOfPlain DEF TextOf
<1>6. At(Data) = c
  <2>1. Data \in 0..N - 1
    <3>1. Data + RdLength <= N
      BY <1>2
    <3> QED BY <1>3, <1>4, <3>1
  <2>2. At(Data) = Octet(m.bytes, Data)
    BY <1>3, <2>1 DEF Begun
  <2> QED BY <1>2, <2>2
<1> HIDE DEF c, r
<1>7. len = Least(c, TextSize - 1) /\ len \in Nat /\ len <= RdLength - 1
  <2>1. RdLength - 1 \in Nat /\ c <= RdLength - 1
    <3>1. RdLength = r.rdlength /\ c <= r.rdlength - 1
      BY <1>2, <1>5 DEF r
    <3>2. RdLength \in Nat /\ RdLength >= 1
      BY <1>3, <1>4
    <3> QED BY <3>1, <3>2
  <2>2. \A a, b, t \in Nat : a <= b => /\ Least(Least(a, b), t) = Least(a, t)
                                       /\ Least(a, t) \in Nat /\ Least(a, t) <= b
    BY DEF Least
  <2> QED BY <1>5, <1>6, <2>1, <2>2
<1> HIDE DEF len
<1>8. Bytes(Data + 1, len) = TextOf(m.bytes, r)
  <2>1. Data + 1 \in Nat /\ (Data + 1) + len <= N
    <3>1. Data + RdLength <= N
      BY <1>2
    <3> QED BY <1>3, <1>4, <1>7, <3>1
  <2>2. Bytes(Data + 1, len) = Octets(m.bytes, Data + 1, len)
    BY <1>3, <1>7, <2>1, ReadOctets
  <2> QED BY <1>2, <1>5, <1>7, <2>2 DEF r
<1>9. text = TextOf(m.bytes, r)
  BY <1>5, <1>8, PlainText
<1> HIDE DEF text
<1>10. row = TextRow(m.bytes, r)
  BY <1>2, <1>4, <1>9 DEF TextRow, r
<1>11. RowsOf(m.bytes, r) = <<row>>
  BY <1>4, <1>10, RowsByKind
<1>12. results' = Append(results, row) /\ NextRecord(idx + 1, e, results')
  BY <1>1, <1>2 DEF TakeRow
<1>13. parser' = "answers" /\ N >= HeaderLen
  BY <1>1, RecordAt
<1> HIDE DEF row
<1> QED BY <1>1, <1>2, <1>11, <1>12, <1>13, RowTaken DEF r

LEMMA SkipRecordFollows ==
  ASSUME DecodeInv, DecodeInv', NEW m, Opening(m), Follows(m), SkipRecord
  PROVE  Follows(m)'
<1>1. /\ pc = "named" /\ call = "owner" /\ RecordFits
      /\ ~HasAddress /\ ~HasText /\ ~HasTarget /\ ~HasHost
      /\ NextRecord(idx + 1, Data + RdLength, results)
      /\ UNCHANGED <<packet, parser, rr, question, results>>
  BY DEF SkipRecord
<1>2. PICK i \in 0..Len(m.records) - 1, e \in 0..N :
        LET r == m.records[i + 1] IN
        /\ i = idx /\ InRecord(m) /\ results = RowsTo(m)[i] /\ RecordLaid(m.bytes, r)
        /\ CString(out) = Spelling(m.bytes, r.owner)
        /\ Data = RData(m.bytes, r) /\ Type = r.rrtype /\ RdLength = r.rdlength
        /\ EndsAt(m.bytes, r) = e /\ Data + RdLength = e
  BY <1>1, RecordAt
<1> DEFINE r == m.records[i + 1]
<1>3. ~IsAddress(r) /\ ~IsText(r) /\ ~IsPtr(r) /\ ~IsSrv(r)
  BY <1>1, <1>2 DEF HasAddress, HasText, HasTarget, HasHost, IsAddress, IsText, IsPtr, IsSrv
<1>4. RowsOf(m.bytes, r) = << >>
  BY <1>3, RowsByKind
<1>5. results' = results \o << >> /\ NextRecord(i + 1, e, results')
  <2>1. results \in Seq(Result)
    BY DEF DecodeInv, TypeOK
  <2> QED BY <1>1, <1>2, <2>1, RowBehind
<1>6. parser' = "answers" /\ N >= HeaderLen
  BY <1>1, RecordAt
<1> QED BY <1>1, <1>2, <1>4, <1>5, <1>6, RecordPassed

\* The name in the data begins to be read: it lies before the end of the
\* record, which is in the packet.
LEMMA NameRecordFollows ==
  ASSUME DecodeInv, NEW m, Opening(m), Follows(m), NameRecord
  PROVE  Follows(m)'
<1>1. /\ pc = "named" /\ call = "owner" /\ RecordFits /\ (HasTarget \/ HasHost)
      /\ UNCHANGED <<packet, parser, offset, idx, question, results>>
      /\ rr' = [name |-> CString(out), rrtype |-> Type, rdata |-> Data, rdlength |-> RdLength]
  BY DEF NameRecord
<1>2. PICK i \in 0..Len(m.records) - 1, e \in 0..N :
        LET r == m.records[i + 1] IN
        /\ i = idx /\ InRecord(m) /\ results = RowsTo(m)[i] /\ RecordLaid(m.bytes, r)
        /\ CString(out) = Spelling(m.bytes, r.owner)
        /\ Data = RData(m.bytes, r) /\ Type = r.rrtype /\ RdLength = r.rdlength
        /\ EndsAt(m.bytes, r) = e /\ Data + RdLength = e
  BY <1>1, RecordAt
<1> DEFINE r == m.records[i + 1]
           p == m.bytes
<1>3. parser' = "answers" /\ p \in Text /\ N \in Nat /\ N' = N
  BY <1>1, RecordAt, OpeningFacts DEF N
<1>4. (HasTarget => IsPtr(r)) /\ (~HasTarget => IsSrv(r))
  BY <1>1, <1>2 DEF HasTarget, HasHost, IsPtr, IsSrv
<1>5. PICK c \in {"ptr", "srv"} :
        /\ Decode(c, r.target[1]) /\ Spelled(p, r.target) /\ Behind(p, r.target) <= EndsAt(p, r)
        /\ c = "ptr" => IsPtr(r)
        /\ c = "srv" => IsSrv(r)
  <2>1. CASE HasTarget
    <3>1. Decode("ptr", Data) /\ Holds(p, r, RData(p, r))
      BY <1>2, <1>4, <2>1 DEF NameRecord, RecordLaid
    <3> QED BY <1>2, <1>4, <2>1, <3>1 DEF Holds
  <2>2. CASE ~HasTarget
    <3>1. Decode("srv", Data + 6) /\ Holds(p, r, RData(p, r) + 6)
      BY <1>2, <1>4, <2>2 DEF NameRecord, RecordLaid
    <3> QED BY <1>2, <1>4, <2>2, <3>1 DEF Holds
  <2> QED BY <2>1, <2>2
<1>6. Behind(p, r.target) <= N /\ EndsAt(p, r)' <= N'
  <2>1. Behind(p, r.target) \in Nat /\ EndsAt(p, r) = e
    BY <1>2, <1>3, <1>5, SpelledFacts
  <2> QED BY <1>3, <1>5, <2>1
<1> HIDE DEF r, p
<1>7. AtName(p, r.target)'
  BY <1>1, <1>3, <1>5, <1>6, NameBegins
<1>8. AtTarget(m, r)'
  <2>1. rr' = [name |-> Spelling(p, r.owner), rrtype |-> r.rrtype,
               rdata |-> RData(p, r), rdlength |-> r.rdlength]
    BY <1>1, <1>2 DEF r, p
  <2>2. InRecord(m)'
    BY <1>1, <1>2 DEF InRecord
  <2>3. EndsAt(m.bytes, r) <= N'
    BY <1>6 DEF p
  <2> QED BY <1>7, <2>1, <2>2, <2>3 DEF AtTarget, p
<1>9. pc' = "decode" /\ call' = c
  BY <1>5 DEF Decode
<1>10. m.records[idx' + 1] = r
  BY <1>1, <1>2 DEF r
<1> QED BY <1>3, <1>5, <1>8, <1>9, <1>10 DEF Follows

----------------------------------------------------------------------------
(* The names in the data. *)

\* A name in the data of a record was read, or could not be.
LEMMA TargetAt ==
  ASSUME DecodeInv, NEW m, Opening(m), Follows(m),
         pc \in {"named", "failed"}, call \in {"ptr", "srv"}
  PROVE  /\ parser = "answers" /\ N >= HeaderLen
         /\ \E i \in 0..Len(m.records) - 1, e \in 0..N :
              LET r == m.records[i + 1] IN
              /\ i = idx /\ results = RowsTo(m)[i] /\ RecordLaid(m.bytes, r)
              /\ call = "ptr" => IsPtr(r)
              /\ call = "srv" => IsSrv(r)
              /\ pc = "named" => /\ Legible(m.bytes, r.target)
                                 /\ CString(out) = Spelling(m.bytes, r.target)
              /\ pc = "failed" => ~Legible(m.bytes, r.target)
              /\ rr.name = Spelling(m.bytes, r.owner) /\ rr.rdata = RData(m.bytes, r)
              /\ EndsAt(m.bytes, r) = e /\ EndOfRecord = e
<1>1. Reading
  BY DEF Reading
<1>2. parser = "answers" /\ N >= HeaderLen
  BY <1>1 DEF Follows, DecodeInv, TypeOK, ReadingInv, Parsers
<1>3. PICK i : i = idx
  OBVIOUS
<1> DEFINE r == m.records[i + 1]
           p == m.bytes
<1>4. AtTarget(m, r) /\ (call = "ptr" => IsPtr(r)) /\ (call = "srv" => IsSrv(r))
  BY <1>1, <1>2, <1>3 DEF Follows
<1>5. i + 1 \in 1..Len(m.records) /\ results = RowsTo(m)[i]
  BY <1>3, <1>4 DEF AtTarget, InRecord
<1>6. i \in 0..Len(m.records) - 1 /\ N \in Nat /\ p \in Text
  <2>1. i \in Nat /\ Len(m.records) \in Nat /\ N \in Nat /\ p \in Text
    BY <1>3, OpeningFacts DEF DecodeInv, TypeOK
  <2> QED BY <1>5, <2>1
<1>7. RecordLaid(p, r)
  BY <1>5 DEF Opening, Laid
<1>8. Spelled(p, r.target)
  BY <1>4, <1>5, TargetSpelled
<1>9. /\ rr = [name |-> Spelling(p, r.owner), rrtype |-> r.rrtype,
               rdata |-> RData(p, r), rdlength |-> r.rdlength]
      /\ EndsAt(p, r) <= N /\ AtName(p, r.target)
  BY <1>4 DEF AtTarget
<1> HIDE DEF r, p
<1>10. EndsAt(p, r) \in 0..N /\ EndOfRecord = EndsAt(p, r)
  <2>1. EndsAt(p, r) \in Nat
    BY <1>6, <1>7, RecordFacts
  <2>2. EndOfRecord = EndsAt(p, r)
    BY <1>9 DEF EndOfRecord, EndsAt
  <2> QED BY <1>6, <1>9, <2>1, <2>2
<1>11. pc = "named" => Legible(p, r.target) /\ CString(out) = Spelling(p, r.target)
  <2>1. ASSUME pc = "named" PROVE out = Spelling(p, r.target) /\ Legible(p, r.target)
    BY <1>9, <2>1 DEF AtName
  <2>2. CString(Spelling(p, r.target)) = Spelling(p, r.target)
    BY <1>6, <1>8, SpellingPlain
  <2> QED BY <2>1, <2>2
<1>12. pc = "failed" => ~Legible(p, r.target)
  BY <1>9 DEF AtName
<1>13. rr.name = Spelling(p, r.owner) /\ rr.rdata = RData(p, r)
  BY <1>9
<1> QED BY <1>2, <1>3, <1>4, <1>5, <1>6, <1>7, <1>10, <1>11, <1>12, <1>13 DEF r, p

LEMMA PtrNamedFollows ==
  ASSUME DecodeInv, DecodeInv', NEW m, Opening(m), Follows(m), PtrNamed
  PROVE  Follows(m)'
<1> DEFINE row == [NoResult EXCEPT !.rrtype = 12, !.instance = CString(out),
                                   !.service_type = rr.name]
<1>1. /\ pc = "named" /\ call = "ptr" /\ results' = Append(results, row)
      /\ NextRecord(idx + 1, EndOfRecord, results')
      /\ UNCHANGED <<packet, parser, rr, question, high>>
  BY DEF PtrNamed
<1>2. PICK i \in 0..Len(m.records) - 1, e \in 0..N :
        LET r == m.records[i + 1] IN
        /\ i = idx /\ results = RowsTo(m)[i] /\ RecordLaid(m.bytes, r) /\ IsPtr(r)
        /\ Legible(m.bytes, r.target) /\ CString(out) = Spelling(m.bytes, r.target)
        /\ rr.name = Spelling(m.bytes, r.owner) /\ rr.rdata = RData(m.bytes, r)
        /\ EndsAt(m.bytes, r) = e /\ EndOfRecord = e
  BY <1>1, TargetAt
<1> DEFINE r == m.records[i + 1]
<1>3. row = PtrRow(m.bytes, r)
  BY <1>2 DEF PtrRow
<1>4. RowsOf(m.bytes, r) = <<row>>
  BY <1>2, <1>3, RowsByKind
<1>5. parser' = "answers" /\ N >= HeaderLen
  BY <1>1, TargetAt
<1> HIDE DEF row
<1> QED BY <1>1, <1>2, <1>4, <1>5, RowTaken

LEMMA SrvNamedFollows ==
  ASSUME DecodeInv, DecodeInv', NEW m, Opening(m), Follows(m), SrvNamed
  PROVE  Follows(m)'
<1> DEFINE port == U16(rr.rdata + 4)
           row == [NoResult EXCEPT !.rrtype = 33, !.instance = rr.name,
                                   !.hostname = CString(out), !.port = port]
<1>1. /\ pc = "named" /\ call = "srv" /\ results' = Append(results, row)
      /\ NextRecord(idx + 1, EndOfRecord, results')
      /\ UNCHANGED <<packet, parser, rr, question, high>>
  BY DEF SrvNamed
<1>2. PICK i \in 0..Len(m.records) - 1, e \in 0..N :
        LET r == m.records[i + 1] IN
        /\ i = idx /\ results = RowsTo(m)[i] /\ RecordLaid(m.bytes, r) /\ IsSrv(r)
        /\ Legible(m.bytes, r.target) /\ CString(out) = Spelling(m.bytes, r.target)
        /\ rr.name = Spelling(m.bytes, r.owner) /\ rr.rdata = RData(m.bytes, r)
        /\ EndsAt(m.bytes, r) = e /\ EndOfRecord = e
  BY <1>1, TargetAt
<1> DEFINE r == m.records[i + 1]
<1>3. m.bytes \in Text /\ Begun(m.bytes) /\ packet \in Text /\ N \in Nat
  BY OpeningFacts
<1>4. port = Word(m.bytes, RData(m.bytes, r) + 4)
  <2>1. /\ RData(m.bytes, r) \in Nat /\ r.rdlength \in Nat
        /\ EndsAt(m.bytes, r) = RData(m.bytes, r) + r.rdlength
    BY <1>2, <1>3, RecordFacts
  <2>2. r.rdlength >= 6 /\ EndsAt(m.bytes, r) <= N
    BY <1>2 DEF IsSrv
  <2> HIDE DEF r
  <2>3. RData(m.bytes, r) + 4 \in Nat /\ (RData(m.bytes, r) + 4) + 2 <= N
    BY <1>3, <2>1, <2>2
  <2> QED BY <1>2, <1>3, <2>3, ReadWord DEF r
<1> HIDE DEF port
<1>5. row = SrvRow(m.bytes, r)
  BY <1>2, <1>4 DEF SrvRow
<1>6. RowsOf(m.bytes, r) = <<row>>
  BY <1>2, <1>5, RowsByKind
<1>7. parser' = "answers" /\ N >= HeaderLen
  BY <1>1, TargetAt
<1> HIDE DEF row
<1> QED BY <1>1, <1>2, <1>6, <1>7, RowTaken

\* A name of a message that cannot be read is too long, or its pointers are
\* too many, and it is in the data of a record; any other was cut.
LEMMA NameFailedFollows ==
  ASSUME DecodeInv, DecodeInv', NEW m, Opening(m), Follows(m), NameFailed
  PROVE  Follows(m)'
<1>1. pc = "failed" /\ UNCHANGED <<packet, parser, rr, question, results, high>>
  BY DEF NameFailed
<1>2. Reading
  BY <1>1 DEF Reading
<1>3. CASE call \in {"ptr", "srv"}
  <2>1. PICK i \in 0..Len(m.records) - 1, e \in 0..N :
          LET r == m.records[i + 1] IN
          /\ i = idx /\ results = RowsTo(m)[i] /\ RecordLaid(m.bytes, r)
          /\ call = "ptr" => IsPtr(r)
          /\ call = "srv" => IsSrv(r)
          /\ ~Legible(m.bytes, r.target)
          /\ EndsAt(m.bytes, r) = e /\ EndOfRecord = e
    BY <1>1, <1>3, TargetAt
  <2> DEFINE r == m.records[i + 1]
  <2>2. ~IsAddress(r) /\ ~IsText(r)
    BY <1>3, <2>1, Kinds
  <2>3. RowsOf(m.bytes, r) = << >>
    BY <2>1, <2>2, RowsByKind
  <2>4. results' = results \o << >> /\ NextRecord(i + 1, e, results')
    <3>1. results \in Seq(Result)
      BY DEF DecodeInv, TypeOK
    <3> QED BY <1>1, <1>3, <2>1, <3>1, RowBehind DEF NameFailed
  <2>5. parser' = "answers" /\ N >= HeaderLen
    BY <1>1, <1>3, TargetAt
  <2> QED BY <1>1, <2>1, <2>3, <2>4, <2>5, RecordPassed
<1>4. CASE call \notin {"ptr", "srv"}
  <2>1. pc' = "done"
    BY <1>4 DEF NameFailed, Return
  <2>2. PICK i : i = idx
    OBVIOUS
  <2>3. CASE parser = "question"
    <3>1. question = NoQuestion /\ AtQuestion(m)
      BY <1>2, <2>3 DEF Follows
    <3>2. ~(1 \in 1..Len(m.questions) /\ AtName(m.bytes, m.questions[1].name))
      BY <1>1 DEF AtName, Opening, Laid, QuestionLaid
    <3>3. packet' # m.bytes
      BY <1>1, <3>1, <3>2 DEF AtQuestion
    <3> QED BY <1>1, <2>1, <2>3, <3>1, <3>3 DEF Follows, QuestionDone, Reading
  <2>4. CASE parser = "answers"
    <3>1. AtSkipped(m) \/ AtOwner(m)
      BY <1>2, <1>4, <2>4 DEF Follows, DecodeInv, TypeOK, Calls
    <3>2. Strayed(m)
      <4>1. ~(/\ i + 1 \in 1..Len(m.questions)
              /\ AtName(m.bytes, m.questions[i + 1].name))
        BY <1>1 DEF AtName, Opening, Laid, QuestionLaid
      <4>2. ~(InRecord(m) /\ AtName(m.bytes, m.records[i + 1].owner))
        BY <1>1, <2>2 DEF AtName, InRecord, Opening, Laid, RecordLaid
      <4> QED BY <2>2, <3>1, <4>1, <4>2 DEF AtSkipped, AtOwner
    <3> QED BY <1>1, <2>1, <2>4, <3>2 DEF Follows, AnswersDone, Strayed, Reading
  <2> QED BY <2>3, <2>4 DEF DecodeInv, TypeOK, Parsers
<1> QED BY <1>3, <1>4

----------------------------------------------------------------------------

(* The theorems about messages. *)

LEMMA InitWireInv ==
  ASSUME Init
  PROVE  WireInv
BY DEF Init, WireInv, Follows, Reading

LEMMA StepWireInv ==
  ASSUME DecodeInv, WireInv, [Next]_vars
  PROVE  WireInv'
<1>1. DecodeInv'
  BY StepInv
<1> SUFFICES ASSUME NEW m \in Messages, IsPrefix(packet', m.bytes)
             PROVE  Follows(m)'
  BY DEF WireInv
<1>2. packet' = packet
  BY DEF Next, NameStep, RunOff, ZeroLabel, FollowPointer, CopyLabel, BeginQuestion,
         QuestionNamed, BeginAnswers, SkipQuestion, EndOfAnswers, AddressRecord, TextRecord,
         NameRecord, SkipRecord, PtrNamed, SrvNamed, NameFailed, vars
<1>3. Opening(m) /\ Follows(m)
  BY <1>2, MessagesAssumption DEF Opening, WireInv
<1>4. CASE NameStep
  BY <1>3, <1>4, NameStepFollows
<1>5. CASE BeginQuestion \/ QuestionNamed
  BY <1>3, <1>5, BeginQuestionFollows, QuestionNamedFollows
<1>6. CASE BeginAnswers \/ SkipQuestion
  BY <1>1, <1>3, <1>6, BeginAnswersFollows, SkipQuestionFollows
<1>7. CASE EndOfAnswers \/ NameRecord
  BY <1>3, <1>7, EndOfAnswersFollows, NameRecordFollows
<1>8. CASE AddressRecord \/ TextRecord \/ SkipRecord
  BY <1>1, <1>3, <1>8, AddressRecordFollows, TextRecordFollows, SkipRecordFollows
<1>9. CASE PtrNamed \/ SrvNamed \/ NameFailed
  BY <1>1, <1>3, <1>9, PtrNamedFollows, SrvNamedFollows, NameFailedFollows
<1>10. CASE UNCHANGED vars
  <2>1. UNCHANGED <<packet, parser, pc, call, pos, out, jumped, depth, next, offset, idx, rr,
                    question, results>> /\ N' = N
    BY <1>10 DEF vars, decodeVars, recordVars, N
  <2>2. ASSUME NEW p, NEW w PROVE AtName(p, w)' = AtName(p, w)
    BY <2>1 DEF AtName, Following
  <2>3. Severed(offset)' = Severed(offset) /\ Severed(HeaderLen)' = Severed(HeaderLen)
    BY <2>1 DEF Severed, At
  <2>4. InRecord(m)' = InRecord(m) /\ Strayed(m)' = Strayed(m)
    BY <2>1, <2>3 DEF InRecord, Strayed
  <2>5. AtQuestion(m)' = AtQuestion(m) /\ AtSkipped(m)' = AtSkipped(m)
        /\ AtOwner(m)' = AtOwner(m)
    BY <2>1, <2>2, <2>3, <2>4 DEF AtQuestion, AtSkipped, AtOwner
  <2>6. AtTarget(m, m.records[idx + 1])' = AtTarget(m, m.records[idx + 1])
    BY <2>1, <2>2, <2>4 DEF AtTarget
  <2> QED BY <1>3, <2>1, <2>5, <2>6 DEF Follows, QuestionDone, AnswersDone, Reading
<1> QED BY <1>4, <1>5, <1>6, <1>7, <1>8, <1>9, <1>10 DEF Next

\* Wherever the reading of a message is, or of what is left of it, it is at
\* the question, record or name it ought to be at, with the rows of the
\* records before it; or it is where the message was cut.
THEOREM DecodeFollows == Spec => [](DecodeInv /\ WireInv)
<1>1. Init => DecodeInv /\ WireInv
  BY InitInv, InitWireInv
<1>2. DecodeInv /\ WireInv /\ [Next]_vars => (DecodeInv /\ WireInv)'
  BY StepInv, StepWireInv
<1> QED BY <1>1, <1>2, PTL DEF Spec

\* Every message, of any number of questions and records and with names
\* compressed in any way, that is read whole gives the question that was
\* asked, or the rows its records tell, up to the caller's capacity.
THEOREM DecodeRoundTrip == Spec => []RoundTrip
<1>1. DecodeInv /\ WireInv => RoundTrip
  <2> SUFFICES ASSUME DecodeInv, WireInv, pc = "done", NEW m \in Messages, packet = m.bytes
               PROVE  IF parser = "answers"
                      THEN results = SubSeq(m.rows, 1, Least(Len(m.rows), MaxResults))
                      ELSE question = m.asked
    BY DEF RoundTrip
  <2>1. IsPrefix(packet, m.bytes)
    <3>1. Len(packet) \in Nat
      BY DEF DecodeInv, TypeOK, Text
    <3> QED BY <3>1 DEF IsPrefix
  <2> QED BY <2>1 DEF WireInv, Follows, AnswersDone, QuestionDone, DecodeInv, TypeOK, Parsers
<1> QED BY <1>1, DecodeFollows, PTL

\* However much of its end a message has lost, the rows that are read are
\* the first of its rows.
THEOREM DecodeTruncatedPrefix == Spec => []TruncatedIsPrefix
<1>1. DecodeInv /\ WireInv => TruncatedIsPrefix
  BY DEF TruncatedIsPrefix, WireInv, Follows, AnswersDone
<1> QED BY <1>1, DecodeFollows, PTL

\* However much of its end a query has lost, it is read as no other
\* question of a type that there is an answer for.
THEOREM DecodeTruncatedIgnored == Spec => []TruncatedIsIgnored
<1>1. DecodeInv /\ WireInv => TruncatedIsIgnored
  BY DEF TruncatedIsIgnored, WireInv, Follows, QuestionDone
<1> QED BY <1>1, DecodeFollows, PTL
=============================================================================
