---------------------------- MODULE TelnetProofs ----------------------------
(***************************************************************************)
(* What is proved of Telnet, for any answers of the proxy, however they    *)
(* arrive, any size of the buffer and any list: that a refusal is          *)
(* believed, that relaying starts behind the line which says that the      *)
(* tunnel is there, the types, that an entry of the list matches what its  *)
(* text covers, that the first text that covers a destination decides, and *)
(* that the loop over the lines of the answer gets on.                     *)
(* Where line_input() stops is in LineInputProofs.                         *)
(***************************************************************************)
EXTENDS Telnet, LineInputProofs

Before == {"init", "retry", "open", "request"}

Streams == Stream /\ header \in 0..Len(reply) /\ (mpc \in Before => reply = <<>>)

\* The lines that end within [1, k] say nothing bad.
Believed(k) ==
  \A i, j \in 1..header :
    (LineAt(i, j) /\ j <= k /\ Fits(i, j))
       => \A phrase \in bad_phrase_list : ~Says(SubSeq(reply, i, j), phrase)

Reading ==
  /\ mpc = "answer" => Aligned /\ Believed(pos)
  /\ mpc = "relaying" => Believed(pos - 1)

Inv == Streams /\ Reading

\* The good phrase begins at i.
Low(t) == IF t \in DOMAIN Lower THEN Lower[t] ELSE t
PhraseAt(s, i) == Low(s[i]) = "connected" /\ Low(s[i + 1]) = SP /\ Low(s[i + 2]) = "to"

\* The answer ends a line, and the phrase is in that line only; there is a tunnel when it is.
Prepared ==
  reply # <<>> =>
    /\ header > 0 /\ reply[header] = LF
    /\ \A i \in 1..header - 2 : PhraseAt(reply, i) => \A k \in i..header - 1 : reply[k] # LF
    /\ header = Len(reply) \/ \E i \in 1..header - 2 : PhraseAt(reply, i)

LongLast == \E i \in 1..header : LineAt(i, header) /\ ~Fits(i, header)

\* The negotiation reads on behind the answer only if its last line is too long, or nothing follows.
Tunnels ==
  /\ Prepared
  /\ mpc = "answer" => reply = <<>> \/ pos < header \/ header = Len(reply) \/ LongLast
  /\ mpc = "relaying" => pos = header \/ (peer = "closed" /\ pos = arrived) \/ LongLast

TunnelInv == Inv /\ Tunnels

(***************************************************************************)
(* The buffer in lower case.                                               *)
(***************************************************************************)
\* What is lower-cased has the same length and, if it is text, is text.
LEMMA Lowered ==
  ASSUME NEW s \in Seq(Char)
  PROVE  /\ downcase(s) \in Seq(Char) /\ Len(downcase(s)) = Len(s)
         /\ \A i \in 1..Len(s) :
              /\ downcase(s)[i] = IF s[i] \in DOMAIN Lower THEN Lower[s[i]] ELSE s[i]
              /\ s[i] # NUL <=> downcase(s)[i] # NUL
<1>1. DOMAIN s = 1..Len(s) /\ Len(s) \in Nat /\ \A i \in 1..Len(s) : s[i] \in Char
  BY LenProperties, ElementOfSeq
<1>2. downcase(s) = [i \in 1..Len(s) |-> IF s[i] \in DOMAIN Lower THEN Lower[s[i]] ELSE s[i]]
  BY <1>1 DEF downcase
<1>3. ASSUME NEW i \in 1..Len(s)
      PROVE  /\ downcase(s)[i] = IF s[i] \in DOMAIN Lower THEN Lower[s[i]] ELSE s[i]
             /\ downcase(s)[i] \in Char
             /\ s[i] # NUL <=> downcase(s)[i] # NUL
  <2>1. s[i] \in Char
    BY <1>1
  <2>2. downcase(s)[i] = IF s[i] \in DOMAIN Lower THEN Lower[s[i]] ELSE s[i]
    BY <1>2
  <2>3. s[i] \in DOMAIN Lower => s[i] # NUL /\ Lower[s[i]] \in Char /\ Lower[s[i]] # NUL
    BY TelnetAssumption DEF Char
  <2>4. QED BY <2>1, <2>2, <2>3
<1>4. downcase(s) \in Seq(Char) /\ Len(downcase(s)) = Len(s)
  <2>1. downcase(s) \in [1..Len(s) -> Char]
    BY <1>2, <1>3
  <2>2. downcase(s) \in Seq(Char)
    BY <1>1, <2>1, SeqDef
  <2>3. DOMAIN downcase(s) = 1..Len(s)
    BY <1>2
  <2>4. QED BY <1>1, <2>2, <2>3, LenProperties
<1>5. QED
  BY <1>3, <1>4

\* The string of a buffer is what line_input() has put there.
LEMMA ReadBack ==
  ASSUME NEW s \in Text, Len(s) < Size, NEW b \in Seq(Char), Len(b) = Size
  PROVE  /\ downcase(Filled(b, s)) \in Seq(Char) /\ Len(downcase(Filled(b, s))) = Size
         /\ Str(downcase(Filled(b, s)), 1) = downcase(s)
<1> DEFINE m == Filled(b, s)  full == downcase(m)  n == Len(s) + 1
<1>1. /\ m \in Seq(Char) /\ Len(m) = Size /\ n \in 1..Size /\ m[n] = NUL
      /\ \A i \in 1..Len(s) : m[i] = s[i] /\ m[i] # NUL
  BY FilledIs
<1>2. s \in Seq(Char) /\ Len(s) \in Nat /\ n - 1 = Len(s) /\ Size \in Nat
  BY LenProperties, ElementOfSeq, LineAssumption DEF Text, Char
<1> HIDE DEF m, n
<1>3. /\ full \in Seq(Char) /\ Len(full) = Size
      /\ \A i \in 1..Size : /\ full[i] = IF m[i] \in DOMAIN Lower THEN Lower[m[i]] ELSE m[i]
                            /\ m[i] # NUL <=> full[i] # NUL
  BY <1>1, Lowered
<1>4. /\ downcase(s) \in Seq(Char) /\ Len(downcase(s)) = Len(s)
      /\ \A i \in 1..Len(s) : downcase(s)[i] = IF s[i] \in DOMAIN Lower THEN Lower[s[i]] ELSE s[i]
  BY <1>2, Lowered
<1> HIDE DEF full
<1>5. ASSUME NEW i \in 1..Len(s) PROVE full[i] = downcase(s)[i] /\ full[i] # NUL
  <2>1. i \in 1..Size
    BY <1>1, <1>2
  <2>2. QED BY <1>1, <1>3, <1>4, <2>1
<1>6. Str(full, 1) = SubSeq(full, 1, n - 1)
  <2>1. n \in 1..Len(full) /\ 1 \in 1..n /\ full[n] = NUL
    BY <1>1, <1>2, <1>3
  <2>2. \A i \in 1..n - 1 : full[i] # NUL
    BY <1>2, <1>5
  <2>3. QED BY <1>3, <2>1, <2>2, StrIs
<1>7. /\ SubSeq(full, 1, Len(s)) \in Seq(Char) /\ Len(SubSeq(full, 1, Len(s))) = Len(s)
      /\ \A i \in 1..Len(s) : SubSeq(full, 1, Len(s))[i] = full[i]
  BY <1>1, <1>2, <1>3, SubSeqProperties, ElementOfSeq
<1>8. SubSeq(full, 1, Len(s)) = downcase(s)
  BY <1>4, <1>5, <1>7, SeqEqual
<1>9. QED
  BY <1>2, <1>3, <1>6, <1>8 DEF full, m

LEMMA AnswerPlaces ==
  ASSUME Streams
  PROVE  /\ arrived \in Nat /\ pos \in Nat /\ Len(reply) \in Nat /\ Size \in Nat /\ Size > 2
         /\ header \in Nat /\ pos <= arrived /\ arrived <= Len(reply) /\ header <= Len(reply)
BY Places DEF Streams

(***************************************************************************)
(* The invariant.                                                          *)
(***************************************************************************)
LEMMA VerdictFacts ==
  ASSUME NEW s
  PROVE  /\ Verdict(s) \in {"failed", "relaying", "answer"}
         /\ Verdict(s) = "answer" => \A phrase \in bad_phrase_list : ~strstr(s, phrase)
BY Zenon DEF Verdict

LEMMA ReadInv == Inv /\ ReadLine => Inv'
<1> SUFFICES ASSUME Inv, ReadLine PROVE Inv'
  OBVIOUS
<1> DEFINE end == pos + Len(Line)
<1>1. /\ Streams /\ Stream /\ Aligned /\ Believed(pos) /\ LineReady
      /\ pos' = end /\ buf' = downcase(NewBuf) /\ mpc' = Verdict(Str(buf', 1))
      /\ reply' = reply /\ header' = header /\ arrived' = arrived /\ peer' = peer
  BY DEF Inv, Streams, Reading, ReadLine, LineRead, stream
<1>2. /\ Line \in Text /\ Len(Line) < Size /\ end \in pos..arrived
      /\ LineEnds # {} => /\ end \in LineEnds /\ Line = SubSeq(reply, pos + 1, end)
                          /\ \A k \in LineEnds : end <= k
      /\ LineEnds = {} => end = arrived /\ peer = "closed"
  BY <1>1, LineFacts DEF Streams, Stream
<1> HIDE DEF end
<1>3. buf' \in Seq(Char) /\ Len(buf') = Size /\ Str(buf', 1) = downcase(Line)
  <2>1. buf \in Seq(Char) /\ Len(buf) = Size
    BY <1>1 DEF Streams, Stream
  <2>2. buf' = downcase(Filled(buf, Line))
    BY <1>1 DEF NewBuf, Filled
  <2>3. QED BY <1>2, <2>1, <2>2, ReadBack
<1>4. /\ mpc' \in {"failed", "relaying", "answer"}
      /\ mpc' = "answer" => \A phrase \in bad_phrase_list : ~strstr(downcase(Line), phrase)
  BY <1>1, <1>3, VerdictFacts
<1>5. Streams'
  <2>1. pos' \in 0..arrived
    BY <1>1, <1>2, AnswerPlaces
  <2>2. mpc' \notin Before
    BY <1>4 DEF Before
  <2>3. QED BY <1>1, <1>3, <2>1, <2>2 DEF Streams, Stream
<1>6. Aligned'
  BY <1>1, ReadAligned DEF end
<1>7. ASSUME NEW i \in 1..header, NEW j \in 1..header, LineAt(i, j), Fits(i, j), j <= end,
             NEW phrase \in bad_phrase_list, j <= pos \/ mpc' = "answer"
      PROVE  ~Says(SubSeq(reply, i, j), phrase)
  <2>1. CASE j <= pos
    BY <1>1, <1>7, <2>1 DEF Believed
  <2>2. CASE ~(j <= pos)
    <3>1. j \in pos + 1..arrived
      BY <1>1, <1>2, <1>7, <2>2, AnswerPlaces
    <3>2. j \in LineEnds
      BY <1>7, <3>1 DEF LineEnds, LineAt
    <3>3. end = j /\ Line = SubSeq(reply, pos + 1, j)
      BY <1>1, <1>2, <1>7, <3>1, <3>2, AnswerPlaces
    <3>4. i = pos + 1
      <4>1. i \in Nat /\ i >= 1
        BY <1>1, AnswerPlaces
      <4>2. QED BY <1>1, <1>2, <1>7, <3>2, <3>3, <4>1, WholeLine
    <3>5. ~strstr(downcase(Line), phrase)
      BY <1>4, <1>7, <2>2
    <3>6. QED BY <3>3, <3>4, <3>5 DEF Says
  <2>3. QED BY <2>1, <2>2
<1>8. mpc' = "answer" => Believed(pos)'
  <2>1. ASSUME mpc' = "answer"
        PROVE  \A i, j \in 1..header : LineAt(i, j) /\ j <= end /\ Fits(i, j)
                 => \A phrase \in bad_phrase_list : ~Says(SubSeq(reply, i, j), phrase)
    BY <1>7, <2>1
  <2>2. QED BY <1>1, <2>1 DEF Believed, LineAt
<1>9. mpc' = "relaying" => Believed(pos - 1)'
  <2>1. ASSUME NEW i \in 1..header, NEW j \in 1..header, LineAt(i, j), Fits(i, j), j <= end - 1
        PROVE  j <= pos /\ j <= end
    <3>1. j \in Nat /\ end \in Nat /\ pos \in Nat /\ j < end /\ end <= arrived
      BY <1>1, <1>2, <2>1, AnswerPlaces
    <3>2. CASE j <= pos
      BY <3>1, <3>2
    <3>3. CASE ~(j <= pos)
      <4>1. j \in pos + 1..arrived
        BY <1>1, <3>1, <3>3, AnswerPlaces
      <4>2. j \in LineEnds
        BY <2>1, <4>1 DEF LineEnds, LineAt
      <4>3. end <= j
        BY <1>2, <4>2
      <4>4. QED BY <3>1, <4>3
    <3>4. QED BY <3>2, <3>3
  <2>2. \A i, j \in 1..header : LineAt(i, j) /\ j <= end - 1 /\ Fits(i, j)
          => \A phrase \in bad_phrase_list : ~Says(SubSeq(reply, i, j), phrase)
    BY <1>7, <2>1
  <2>3. QED BY <1>1, <2>2 DEF Believed, LineAt
<1>10. QED
  BY <1>5, <1>6, <1>8, <1>9 DEF Inv, Reading

\* The steps that do not touch the stream.
LEMMA OtherInv ==
  Inv /\ (Start \/ OpenConnection \/ OpenFails \/ Request \/ RequestFails \/ ReadFails \/ TimedOut)
    => Inv'
<1> SUFFICES ASSUME Inv, Start \/ OpenConnection \/ OpenFails \/ Request \/ RequestFails \/ ReadFails \/ TimedOut
             PROVE  Inv'
  OBVIOUS
<1>1. UNCHANGED <<buf, reply, header, arrived, pos>>
  BY DEF Start, OpenConnection, OpenFails, Request, RequestFails, ReadFails, TimedOut, stream
<1>2. /\ mpc' \in Before => mpc \in Before
      /\ mpc' \in {"answer", "relaying"} => mpc \in Before
  BY DEF Start, OpenConnection, OpenFails, Request, RequestFails, ReadFails, TimedOut,
         initialize_direct_addr, CheckDirect, Before
<1>3. Streams'
  BY <1>1, <1>2 DEF Inv, Streams, Stream
<1>4. mpc \in Before => header = 0 /\ pos = 0
  <2>1. mpc \in Before => Len(reply) = 0
    BY DEF Inv, Streams, Stream
  <2>2. QED BY <2>1, AnswerPlaces DEF Inv
<1>5. mpc \in Before => Aligned' /\ Believed(pos)' /\ Believed(pos - 1)'
  BY <1>1, <1>4 DEF Aligned, Believed
<1>6. QED
  BY <1>2, <1>3, <1>5 DEF Inv, Reading

LEMMA AnswerInv == Inv /\ Answer => Inv'
<1> SUFFICES ASSUME Inv, Answer PROVE Inv'
  OBVIOUS
<1>1. PICK r \in Answers :
        /\ reply' = FlattenSeq(r) \o (IF Says(FlattenSeq(r), good_phrase) THEN Tunnel ELSE <<>>)
        /\ header' = Len(FlattenSeq(r))
  BY DEF Answer
<1> DEFINE t == IF Says(FlattenSeq(r), good_phrase) THEN Tunnel ELSE <<>>
<1>2. FlattenSeq(r) \in Text /\ t \in Text
  BY TelnetAssumption, AnswersAssumption, EmptySeq DEF Text
<1> HIDE DEF t
<1>3. reply' \in Text /\ Len(reply') = header' + Len(t) /\ header' \in Nat /\ Len(t) \in Nat
  BY <1>1, <1>2, ConcatProperties, LenProperties DEF Text, t
<1>4. arrived = 0 /\ pos = 0
  <2>1. Len(reply) = 0
    BY DEF Answer
  <2>2. QED BY <2>1, AnswerPlaces DEF Inv
<1>5. mpc = "answer" /\ UNCHANGED <<mpc, buf, arrived, pos>>
  BY DEF Answer
<1>6. Streams'
  BY <1>3, <1>4, <1>5 DEF Inv, Streams, Stream, Before
<1>7. Aligned' /\ Believed(pos)'
  BY <1>4, <1>5 DEF Aligned, Believed
<1>8. QED
  BY <1>5, <1>6, <1>7 DEF Inv, Reading

LEMMA NetworkInv == Inv /\ (Arrive \/ ProxyLeaves) => Inv'
<1> SUFFICES ASSUME Inv, Arrive \/ ProxyLeaves PROVE Inv'
  OBVIOUS
<1>1. /\ mpc = "answer" /\ UNCHANGED <<mpc, buf, reply, header, pos>> /\ peer = "open"
      /\ arrived' = arrived \/ arrived' \in arrived + 1..Len(reply)
  BY DEF Arrive, ProxyLeaves, Arrives, Leaves
<1>2. Streams'
  <2>1. arrived' \in 0..Len(reply) /\ pos \in 0..arrived'
    BY <1>1, AnswerPlaces DEF Inv
  <2>2. QED BY <1>1, <2>1 DEF Inv, Streams, Stream
<1>3. Aligned'
  BY <1>1 DEF Inv, Reading, Aligned, CutAt
<1>4. Believed(pos)'
  BY <1>1 DEF Inv, Reading, Believed, LineAt
<1>5. QED
  BY <1>1, <1>2, <1>3, <1>4 DEF Inv, Reading

LEMMA StartInv == Init => Inv
<1> SUFFICES ASSUME Init PROVE Inv
  OBVIOUS
<1>1. /\ mpc = "init" /\ buf = [i \in 1..Size |-> NUL]
      /\ reply = <<>> /\ header = 0 /\ arrived = 0 /\ pos = 0
  BY DEF Init, DirectInit
<1>2. buf \in Seq(Char) /\ Len(buf) = Size
  <2>1. buf \in [1..Size -> Char] /\ DOMAIN buf = 1..Size /\ Size \in Nat
    BY <1>1, LineAssumption DEF Char
  <2>2. buf \in Seq(Char)
    BY <2>1, SeqDef
  <2>3. QED BY <2>1, <2>2, LenProperties
<1>3. reply \in Text /\ Len(reply) = 0
  BY <1>1, EmptySeq DEF Text
<1>4. header \in 0..Len(reply) /\ arrived \in 0..Len(reply) /\ pos \in 0..arrived
  BY <1>1, <1>3
<1>5. Streams
  BY <1>1, <1>2, <1>3, <1>4 DEF Streams, Stream
<1>6. Reading
  BY <1>1 DEF Reading
<1>7. QED
  BY <1>5, <1>6 DEF Inv

LEMMA StepInv == Inv /\ [Next]_vars => Inv'
<1> SUFFICES ASSUME Inv, [Next]_vars PROVE Inv'
  OBVIOUS
<1>1. CASE UNCHANGED vars
  <2>1. UNCHANGED <<mpc, buf, reply, header, arrived, pos, peer>>
    BY <1>1 DEF vars, stream
  <2>2. QED BY <2>1 DEF Inv, Streams, Stream, Reading, Aligned, CutAt, Believed, LineAt
<1>2. QED
  BY <1>1, ReadInv, OtherInv, AnswerInv, NetworkInv DEF Next, Program

\* "Bad keywords in the line causes operation fail": whatever the proxy answers and however
\* it arrives, relaying does not start behind a line that fits the buffer and says so.
THEOREM Refusal == Spec => []RefusalIsBelieved
<1>1. Inv => RefusalIsBelieved
  <2>1. ASSUME Inv, mpc = "relaying", NEW i \in 1..header, NEW j \in 1..header, j < pos
        PROVE  j <= pos - 1
    BY <2>1, AnswerPlaces DEF Inv
  <2>2. QED BY <2>1 DEF Inv, Reading, Believed, RefusalIsBelieved
<1>2. QED
  BY <1>1, StartInv, StepInv, PTL DEF Spec

(***************************************************************************)
(* Where the tunnel begins.                                                *)
(***************************************************************************)
LEMMA PhraseIs ==
  ASSUME NEW s \in Seq(Char), NEW i \in 1..Len(s) - 2
  PROVE  /\ Len(good_phrase) = 3
         /\ SubSeq(downcase(s), i, i + Len(good_phrase) - 1) = good_phrase <=> PhraseAt(s, i)
<1> DEFINE d == downcase(s)  u == SubSeq(d, i, i + 2)
<1>1. Len(s) \in Nat /\ i \in Nat /\ i >= 1 /\ i + 2 <= Len(s)
  BY LenProperties
<1>2. d \in Seq(Char) /\ Len(d) = Len(s) /\ \A k \in 1..Len(s) : d[k] = Low(s[k])
  BY Lowered DEF Low
<1>3. /\ good_phrase = <<"connected", SP, "to">> /\ Len(good_phrase) = 3
      /\ i + Len(good_phrase) - 1 = i + 2
  BY <1>1 DEF good_phrase
<1> HIDE DEF d
<1>4. u \in Seq(Char) /\ Len(u) = 3 /\ \A k \in 1..3 : u[k] = d[i + k - 1]
  <2>1. \A k \in i..i + 2 : k \in 1..Len(d)
    BY <1>1, <1>2
  <2>2. \A k \in i..i + 2 : d[k] \in Char
    BY <1>2, <2>1, ElementOfSeq
  <2>3. u \in Seq(Char) /\ Len(u) = (IF i <= i + 2 THEN i + 2 - i + 1 ELSE 0)
        /\ \A k \in 1..i + 2 - i + 1 : u[k] = d[i + k - 1]
    BY <1>1, <1>2, <2>2, SubSeqProperties
  <2> HIDE DEF u
  <2>4. i <= i + 2 /\ i + 2 - i + 1 = 3
    BY <1>1
  <2>5. QED BY <2>3, <2>4
<1> HIDE DEF u
<1>5. u[1] = Low(s[i]) /\ u[2] = Low(s[i + 1]) /\ u[3] = Low(s[i + 2])
  <2>1. /\ i + 1 - 1 = i /\ i + 2 - 1 = i + 1 /\ i + 3 - 1 = i + 2
        /\ i \in 1..Len(s) /\ i + 1 \in 1..Len(s) /\ i + 2 \in 1..Len(s)
    BY <1>1
  <2>2. u[1] = d[i] /\ u[2] = d[i + 1] /\ u[3] = d[i + 2]
    BY <1>4, <2>1
  <2>3. QED BY <1>2, <2>1, <2>2
<1>6. u = <<u[1], u[2], u[3]>>
  BY <1>4
<1>7. u = good_phrase <=> u[1] = "connected" /\ u[2] = SP /\ u[3] = "to"
  BY <1>3, <1>6
<1>8. QED
  BY <1>3, <1>5, <1>7 DEF u, d, PhraseAt

LEMMA SaysIs ==
  ASSUME NEW s \in Seq(Char)
  PROVE  Says(s, good_phrase) <=> \E i \in 1..Len(s) - 2 : PhraseAt(s, i)
<1>1. Len(downcase(s)) = Len(s) /\ Len(s) \in Nat
  BY Lowered, LenProperties
<1>2. Len(good_phrase) = 3
  BY DEF good_phrase
<1>3. Len(downcase(s)) - Len(good_phrase) + 1 = Len(s) - 2
  BY <1>1, <1>2
<1>4. Says(s, good_phrase) <=>
        \E i \in 1..Len(s) - 2 : SubSeq(downcase(s), i, i + Len(good_phrase) - 1) = good_phrase
  BY <1>3, Zenon DEF Says, strstr
<1>5. QED
  BY <1>4, PhraseIs

\* The line that has been read says what the stream does there.
LEMMA LineSays ==
  ASSUME Stream, LineReady, LineEnds # {}, NEW end, end = pos + Len(Line)
  PROVE  Says(Line, good_phrase) <=> \E i \in pos + 1..end - 2 : PhraseAt(reply, i)
<1>1. Line \in Text /\ end \in pos..arrived /\ Line = SubSeq(reply, pos + 1, end)
  BY LineFacts
<1>2. Line \in Seq(Char) /\ Len(Line) \in Nat /\ end \in Nat /\ pos \in Nat /\ arrived <= Len(reply)
  <2>1. Line \in Seq(STRING \ {NUL})
    BY <1>1 DEF Text
  <2>2. Len(Line) \in Nat /\ \A i \in 1..Len(Line) : Line[i] \in Char
    BY <2>1, LenProperties, ElementOfSeq DEF Char
  <2>3. Line \in Seq(Char)
    BY <2>1 DEF Char
  <2>4. pos \in Nat /\ arrived \in Nat /\ arrived <= Len(reply)
    BY Places
  <2>5. end \in Nat
    BY <1>1, <2>4
  <2>6. QED BY <2>2, <2>3, <2>4, <2>5
<1>3. \A i \in 1..Len(Line) : Line[i] = reply[pos + i]
  BY LineIs
<1>4. \A i \in 1..Len(Line) - 2 : PhraseAt(Line, i) <=> PhraseAt(reply, pos + i)
  <2>1. ASSUME NEW i \in 1..Len(Line) - 2
        PROVE  /\ i \in 1..Len(Line) /\ i + 1 \in 1..Len(Line) /\ i + 2 \in 1..Len(Line)
               /\ pos + i + 1 = pos + (i + 1) /\ pos + i + 2 = pos + (i + 2)
    BY <1>2
  <2>2. QED BY <1>3, <2>1 DEF PhraseAt
<1>5. (\E i \in 1..Len(Line) - 2 : PhraseAt(reply, pos + i)) <=> \E i \in pos + 1..end - 2 : PhraseAt(reply, i)
  <2>1. ASSUME NEW i \in pos + 1..end - 2
        PROVE  i - pos \in 1..Len(Line) - 2 /\ pos + (i - pos) = i
    BY <1>2
  <2>2. ASSUME NEW i \in 1..Len(Line) - 2 PROVE pos + i \in pos + 1..end - 2
    BY <1>2
  <2>3. QED BY <2>1, <2>2
<1>6. Says(Line, good_phrase) <=> \E i \in 1..Len(Line) - 2 : PhraseAt(reply, pos + i)
  <2>1. Says(Line, good_phrase) <=> \E i \in 1..Len(Line) - 2 : PhraseAt(Line, i)
    BY <1>2, SaysIs
  <2>2. QED BY <1>4, <2>1, Zenon
<1>7. QED
  BY <1>5, <1>6

\* A line that is cut before the end of the last line is the beginning of it.
LEMMA LastIsLong ==
  ASSUME Streams, NEW n \in 1..pos', NEW k \in Nat, k < header, reply[header] = LF,
         n = 1 \/ reply[n - 1] = LF, \A m \in n..k : reply[m] # LF, k - n + 1 >= Size - 1,
         NEW i \in 1..k, \A m \in i..header - 1 : reply[m] # LF
  PROVE  LongLast
<1>1. n \in Nat /\ n >= 1 /\ n <= header /\ header \in Nat /\ header - n + 1 >= Size
      /\ Size \in Nat
  BY AnswerPlaces
<1>2. ASSUME NEW m \in n..header - 1 PROVE reply[m] # LF
  <2>1. m \in n..k \/ m \in i..header - 1
    BY <1>1
  <2>2. QED BY <2>1
<1>3. LineAt(n, header)
  BY <1>1, <1>2 DEF LineAt
<1>4. n \in 1..header /\ ~Fits(n, header)
  BY <1>1 DEF Fits
<1>5. QED
  BY <1>3, <1>4 DEF LongLast

LEMMA ReadTunnel == TunnelInv /\ ReadLine => Tunnels'
<1> SUFFICES ASSUME TunnelInv, ReadLine PROVE Tunnels'
  OBVIOUS
<1> DEFINE end == pos + Len(Line)
<1>1. /\ Streams /\ Stream /\ Aligned /\ Prepared /\ LineReady
      /\ reply = <<>> \/ pos < header \/ header = Len(reply) \/ LongLast
      /\ pos' = end /\ buf' = downcase(NewBuf) /\ mpc' = Verdict(Str(buf', 1))
      /\ reply' = reply /\ header' = header /\ arrived' = arrived /\ peer' = peer
  BY DEF TunnelInv, Inv, Streams, Reading, Tunnels, ReadLine, LineRead, stream
<1>2. /\ Line \in Text /\ Len(Line) < Size /\ end \in pos..arrived
      /\ LineEnds # {} => /\ end \in LineEnds /\ Line = SubSeq(reply, pos + 1, end)
                          /\ \A k \in LineEnds : end <= k
      /\ LineEnds = {} => end = arrived /\ peer = "closed"
  BY <1>1, LineFacts
<1>3. LineEnds # {} => (Says(Line, good_phrase) <=> \E i \in pos + 1..end - 2 : PhraseAt(reply, i))
  BY <1>1, LineSays
<1> HIDE DEF end
<1>4. Str(buf', 1) = downcase(Line)
  <2>1. buf \in Seq(Char) /\ Len(buf) = Size
    BY <1>1 DEF Stream
  <2>2. buf' = downcase(Filled(buf, Line))
    BY <1>1 DEF NewBuf, Filled
  <2>3. QED BY <1>2, <2>1, <2>2, ReadBack
<1>5. /\ mpc' = "relaying" => Says(Line, good_phrase)
      /\ mpc' = "answer" => ~Says(Line, good_phrase)
  <2>1. mpc' = Verdict(downcase(Line))
    BY <1>1, <1>4
  <2>2. \A s : /\ Verdict(s) = "relaying" => strstr(s, good_phrase)
               /\ Verdict(s) = "answer" => ~strstr(s, good_phrase)
    BY Zenon DEF Verdict
  <2>3. QED BY <2>1, <2>2 DEF Says
<1>6. Prepared' /\ (LongLast => LongLast')
  BY <1>1 DEF Prepared, LongLast, LineAt
<1>7. end \in Nat /\ pos <= end /\ end <= arrived
  BY <1>1, <1>2, AnswerPlaces
\* Reading from within the answer goes no further than its end.
<1>8. pos < header /\ reply # <<>> => end <= header /\ (LineEnds = {} => end < header)
  <2>1. ASSUME pos < header, reply # <<>>, header <= arrived PROVE header \in LineEnds
    <3>1. header \in pos + 1..arrived
      BY <1>1, <2>1, AnswerPlaces
    <3>2. QED BY <1>1, <2>1, <3>1 DEF LineEnds, Prepared
  <2>2. ASSUME pos < header, reply # <<>>, header > arrived PROVE end < header
    BY <1>1, <1>7, <2>2, AnswerPlaces
  <2>3. ASSUME header \in LineEnds PROVE LineEnds # {} /\ end <= header
    BY <1>2, <2>3
  <2>4. QED
    BY <1>1, <1>7, <2>1, <2>2, <2>3, AnswerPlaces
<1>9. ASSUME mpc' = "relaying"
      PROVE  end = header \/ (peer = "closed" /\ end = arrived) \/ LongLast
  <2>1. SUFFICES ASSUME LineEnds # {}, ~LongLast PROVE end = header
    BY <1>2
  <2>2. end \in LineEnds /\ pos < end
    BY <1>1, <1>2, <2>1, AnswerPlaces DEF LineEnds
  <2>3. reply # <<>> /\ pos < header
    <3>1. pos < Len(reply)
      BY <1>1, <1>7, <2>2, AnswerPlaces
    <3>2. reply # <<>>
      <4>1. reply = <<>> => Len(reply) = 0
        OBVIOUS
      <4>2. QED BY <1>1, <3>1, <4>1, AnswerPlaces
    <3>3. QED BY <1>1, <2>1, <3>1, <3>2
  <2>4. SUFFICES ASSUME end < header PROVE FALSE
    BY <1>1, <1>7, <1>8, <2>3, AnswerPlaces
  <2>5. PICK i \in pos + 1..end - 2 : PhraseAt(reply, i)
    BY <1>3, <1>5, <1>9, <2>1
  <2>6. \A k \in i..header - 1 : reply[k] # LF
    <3>1. i \in 1..header - 2
      BY <1>1, <1>7, <2>4, <2>5, AnswerPlaces
    <3>2. QED BY <1>1, <2>3, <2>5, <3>1 DEF Prepared
  <2>7. reply[end] # LF /\ i \in 1..end
    <3>1. end \in i..header - 1 /\ i \in 1..end
      BY <1>1, <1>7, <2>4, <2>5, AnswerPlaces
    <3>2. QED BY <2>6, <3>1
  <2>8. PICK n \in 1..end : CutAt(n, end)
    BY <1>1, <1>2, <2>2, <2>1, <2>7, NextAligned
  <2>9. LongLast
    <3>1. /\ n = 1 \/ reply[n - 1] = LF
          /\ \A m \in n..end : reply[m] # LF
          /\ end - n + 1 >= Size - 1
      BY <2>8 DEF CutAt
    <3>2. reply[header] = LF
      BY <1>1, <2>3 DEF Prepared
    <3>3. QED BY <1>1, <1>7, <2>4, <2>6, <2>7, <3>1, <3>2, LastIsLong
  <2>10. QED BY <2>1, <2>9
<1>10. ASSUME mpc' = "answer"
       PROVE  reply = <<>> \/ end < header \/ header = Len(reply) \/ LongLast
  <2>1. SUFFICES ASSUME reply # <<>>, pos < header, ~(end < header), header # Len(reply), ~LongLast
                 PROVE  FALSE
    BY <1>1
  <2>2. end = header /\ LineEnds # {}
    BY <1>1, <1>7, <1>8, <2>1, AnswerPlaces
  <2>3. PICK i \in 1..header - 2 : PhraseAt(reply, i)
    BY <1>1, <2>1 DEF Prepared
  <2>4. \A k \in i..header - 1 : reply[k] # LF
    BY <1>1, <2>1, <2>3 DEF Prepared
  <2>5. i \in 1..pos
    <3>1. i \notin pos + 1..end - 2
      BY <1>3, <1>5, <1>10, <2>2, <2>3
    <3>2. QED BY <1>1, <2>2, <2>3, <3>1, AnswerPlaces
  <2>6. pos > 0 /\ reply[pos] # LF
    <3>1. pos \in i..header - 1 /\ pos > 0
      BY <1>1, <2>1, <2>5, AnswerPlaces
    <3>2. QED BY <2>4, <3>1
  <2>7. ~(peer = "closed" /\ pos = arrived)
    <3>1. pos + 1 <= arrived
      BY <1>1, <2>2, AnswerPlaces DEF LineEnds
    <3>2. QED BY <1>1, <3>1, AnswerPlaces
  <2>8. PICK n \in 1..pos : CutAt(n, pos)
    BY <1>1, <2>6, <2>7 DEF Aligned
  <2>9. LongLast
    <3>1. /\ n = 1 \/ reply[n - 1] = LF
          /\ \A m \in n..pos : reply[m] # LF
          /\ pos - n + 1 >= Size - 1
      BY <2>8 DEF CutAt
    <3>2. reply[header] = LF /\ n \in 1..pos'
      BY <1>1, <1>7, <2>1, AnswerPlaces DEF Prepared
    <3>3. pos \in Nat /\ pos < header
      BY <1>1, <2>1, AnswerPlaces
    <3>4. QED BY <1>1, <2>4, <2>5, <3>1, <3>2, <3>3, LastIsLong
  <2>10. QED BY <2>1, <2>9
<1>11. QED
  BY <1>1, <1>6, <1>9, <1>10 DEF Tunnels

LEMMA AnswerTunnel == TunnelInv /\ Answer => Tunnels'
<1> SUFFICES ASSUME TunnelInv, Answer PROVE Tunnels'
  OBVIOUS
<1>1. PICK r \in Answers :
        /\ reply' = FlattenSeq(r) \o (IF Says(FlattenSeq(r), good_phrase) THEN Tunnel ELSE <<>>)
        /\ header' = Len(FlattenSeq(r))
  BY DEF Answer
<1> DEFINE h == FlattenSeq(r)  t == IF Says(h, good_phrase) THEN Tunnel ELSE <<>>
<1>2. /\ h \in Text /\ t \in Text /\ h # <<>> /\ h[Len(h)] = LF
      /\ \A i \in 1..Len(h) - Len(good_phrase) + 1 : InLastLine(h, i)
  BY TelnetAssumption, AnswersAssumption, EmptySeq DEF Text
<1>3. h \in Seq(Char) /\ Len(h) \in Nat /\ Len(h) > 0
  BY <1>2, LenProperties, ElementOfSeq DEF Text, Char
<1>4. ~Says(h, good_phrase) => Len(t) = 0
  OBVIOUS
<1>5. reply' = h \o t /\ header' = Len(h)
  BY <1>1
<1> HIDE DEF h, t
<1>6. Len(reply') = Len(h) + Len(t) /\ Len(t) \in Nat /\ \A i \in 1..Len(h) : reply'[i] = h[i]
  <2>1. Len(t) \in Nat /\ \A i \in 1..Len(h) : i \in 1..Len(h) + Len(t) /\ i <= Len(h)
    BY <1>2, <1>3, LenProperties DEF Text
  <2>2. /\ Len(h \o t) = Len(h) + Len(t)
        /\ \A i \in 1..Len(h) + Len(t) : (h \o t)[i] = IF i <= Len(h) THEN h[i] ELSE t[i - Len(h)]
    BY <1>2, ConcatProperties DEF Text
  <2>3. QED BY <1>5, <2>1, <2>2
<1>7. \A i \in 1..header' - 2 : PhraseAt(reply', i) <=> PhraseAt(h, i)
  <2>1. ASSUME NEW i \in 1..header' - 2
        PROVE  i \in 1..Len(h) /\ i + 1 \in 1..Len(h) /\ i + 2 \in 1..Len(h)
    BY <1>3, <1>5
  <2>2. QED BY <1>6, <2>1 DEF PhraseAt
<1>8. ASSUME NEW i \in 1..header' - 2, PhraseAt(reply', i), NEW k \in i..header' - 1 PROVE reply'[k] # LF
  <2>1. i \in 1..Len(h) - 2
    BY <1>5
  <2>2. Len(good_phrase) = 3 /\ SubSeq(downcase(h), i, i + Len(good_phrase) - 1) = good_phrase
    BY <1>3, <1>7, <1>8, <2>1, PhraseIs
  <2>3. i \in 1..Len(h) - Len(good_phrase) + 1
    BY <1>3, <2>1, <2>2
  <2>4. \A m \in i..Len(h) - 1 : h[m] # LF
    BY <1>2, <2>2, <2>3 DEF InLastLine
  <2>5. k \in i..Len(h) - 1 /\ k \in 1..Len(h)
    BY <1>3, <1>5
  <2>6. QED BY <1>6, <2>4, <2>5
<1>9. header' = Len(reply') \/ \E i \in 1..header' - 2 : PhraseAt(reply', i)
  <2>1. CASE Says(h, good_phrase)
    <3>1. \E i \in 1..Len(h) - 2 : PhraseAt(h, i)
      BY <1>3, <2>1, SaysIs
    <3>2. QED BY <1>5, <1>7, <3>1
  <2>2. CASE ~Says(h, good_phrase)
    BY <1>3, <1>4, <1>5, <1>6, <2>2
  <2>3. QED BY <2>1, <2>2
<1>10. header' > 0 /\ reply'[header'] = LF
  <2>1. Len(h) \in 1..Len(h)
    BY <1>3
  <2>2. QED BY <1>2, <1>3, <1>5, <1>6, <2>1
<1>11. mpc' = "answer" /\ pos' = 0
  <2>1. Len(reply) = 0 /\ mpc = "answer" /\ mpc' = mpc /\ pos' = pos
    BY DEF Answer
  <2>2. pos = 0
    BY <2>1, AnswerPlaces DEF TunnelInv, Inv
  <2>3. QED BY <2>1, <2>2
<1>12. Prepared'
  BY <1>8, <1>9, <1>10 DEF Prepared
<1>13. pos' < header'
  BY <1>3, <1>5, <1>11
<1>14. QED
  BY <1>11, <1>12, <1>13 DEF Tunnels

LEMMA OtherTunnel ==
  TunnelInv /\ (Start \/ OpenConnection \/ OpenFails \/ Request \/ RequestFails \/ ReadFails \/ TimedOut)
    => Tunnels'
<1> SUFFICES ASSUME TunnelInv, Start \/ OpenConnection \/ OpenFails \/ Request \/ RequestFails
                               \/ ReadFails \/ TimedOut
             PROVE  Tunnels'
  OBVIOUS
<1>1. UNCHANGED <<reply, header, arrived, pos>>
  BY DEF Start, OpenConnection, OpenFails, Request, RequestFails, ReadFails, TimedOut, stream
<1>2. mpc' \in {"answer", "relaying"} => mpc \in Before
  BY DEF Start, OpenConnection, OpenFails, Request, RequestFails, ReadFails, TimedOut,
         initialize_direct_addr, CheckDirect, Before
<1>3. mpc \in Before => reply = <<>> /\ header = 0 /\ pos = 0
  <2>1. mpc \in Before => reply = <<>> /\ Len(reply) = 0
    BY DEF TunnelInv, Inv, Streams
  <2>2. QED BY <2>1, AnswerPlaces DEF TunnelInv, Inv
<1>4. Prepared'
  BY <1>1 DEF TunnelInv, Tunnels, Prepared
<1>5. QED
  BY <1>1, <1>2, <1>3, <1>4 DEF Tunnels

LEMMA NetworkTunnel == TunnelInv /\ (Arrive \/ ProxyLeaves) => Tunnels'
<1> SUFFICES ASSUME TunnelInv, Arrive \/ ProxyLeaves PROVE Tunnels'
  OBVIOUS
<1>1. mpc = "answer" /\ UNCHANGED <<mpc, reply, header, pos>>
  BY DEF Arrive, ProxyLeaves
<1>2. QED
  BY <1>1 DEF TunnelInv, Tunnels, Prepared, LongLast, LineAt

\* Whatever the proxy answers and however it arrives, relaying starts directly behind the line that
\* says that the tunnel is there, unless that line is too long or the proxy closes within it.
THEOREM TunnelStart == Spec => []TunnelStartsAfterLine
<1>1. Init => TunnelInv
  <2>1. Init => Tunnels
    BY DEF Init, DirectInit, Tunnels, Prepared
  <2>2. QED BY <2>1, StartInv DEF TunnelInv
<1>2. TunnelInv /\ [Next]_vars => TunnelInv'
  <2>1. SUFFICES ASSUME TunnelInv, [Next]_vars PROVE Tunnels'
    BY StepInv DEF TunnelInv
  <2>2. CASE UNCHANGED vars
    <3>1. UNCHANGED <<mpc, reply, header, arrived, pos, peer>>
      BY <2>2 DEF vars, stream
    <3>2. QED BY <2>1, <3>1 DEF TunnelInv, Tunnels, Prepared, LongLast, LineAt
  <2>3. QED
    BY <2>1, <2>2, ReadTunnel, AnswerTunnel, OtherTunnel, NetworkTunnel DEF Next, Program
<1>3. TunnelInv => TunnelStartsAfterLine
  BY DEF TunnelInv, Tunnels, LongLast, TunnelStartsAfterLine
<1>4. QED
  BY <1>1, <1>2, <1>3, PTL DEF Spec

(***************************************************************************)
(* The list of direct addresses: what its texts say.                       *)
(***************************************************************************)
Address == [1..4 -> 0..255]

LEMMA FourOctets ==
  ASSUME NEW a \in 0..255, NEW b \in 0..255, NEW c \in 0..255, NEW d \in 0..255
  PROVE  <<a, b, c, d>> \in Address
BY DEF Address

LEMMA MaxExists ==
  ASSUME NEW T \in SUBSET (0..4), 0 \in T
  PROVE  Max(T) \in T /\ \A y \in T : Max(T) >= y
<1>1. \E x \in T : \A y \in T : x >= y
  <2>1. CASE 4 \in T
    BY <2>1
  <2>2. CASE 4 \notin T /\ 3 \in T
    BY <2>2
  <2>3. CASE 4 \notin T /\ 3 \notin T /\ 2 \in T
    BY <2>3
  <2>4. CASE 4 \notin T /\ 3 \notin T /\ 2 \notin T
    BY <2>4
  <2>5. QED BY <2>1, <2>2, <2>3, <2>4
<1>2. QED
  BY <1>1 DEF Max

(***************************************************************************)
(* What a text of the list stands for: the parser against the meaning.     *)
(***************************************************************************)
\* A text with the end that the parser sees.
Ended(s, t) ==
  /\ s \in Seq(Token) /\ t \in Seq(Token \cup {EOS}) /\ Len(t) = Len(s) + 1 /\ t[Len(s) + 1] = EOS
  /\ \A i \in 1..Len(s) : t[i] = s[i]

LEMMA EndedIs ==
  ASSUME NEW s \in Seq(Token)
  PROVE  Ended(s, s \o <<EOS>>)
<1> DEFINE S == Token \cup {EOS}  t == s \o <<EOS>>
<1>1. s \in Seq(S) /\ <<>> \in Seq(S) /\ EOS \in S /\ Len(<<>>) = 0
  OBVIOUS
<1> HIDE DEF S
<1>2. s \o <<EOS>> \o <<>> = t
  OBVIOUS
<1>3. /\ t \in Seq(S) /\ Len(t) = Len(s) + 1 + 0 /\ t[Len(s) + 1] = EOS
      /\ \A i \in 1..Len(s) : t[i] = s[i]
  BY <1>1, <1>2, Joined
<1>4. Len(s) \in Nat
  BY LenProperties
<1>5. QED BY <1>3, <1>4 DEF Ended, S

LEMMA EndedFacts ==
  ASSUME NEW s, NEW t, Ended(s, t)
  PROVE  /\ Len(s) \in Nat /\ \A i \in 1..Len(s) : s[i] # EOS
         /\ ~isdigit(EOS) /\ ~isdigit(".") /\ ~isdigit("/") /\ EOS # "." /\ EOS # "/"
         /\ \A i \in 1..Len(s) + 1 : t[i] = EOS <=> i = Len(s) + 1
         /\ \A i \in 1..Len(s) + 1, c \in {".", "/"} : t[i] = c <=> i <= Len(s) /\ s[i] = c
         /\ \A i \in 1..Len(s) + 1 : isdigit(t[i]) <=> i <= Len(s) /\ isdigit(s[i])
<1>1. Len(s) \in Nat /\ \A i \in 1..Len(s) : s[i] \in Token
  BY LenProperties, ElementOfSeq DEF Ended
<1>2. ~isdigit(EOS) /\ ~isdigit(".") /\ ~isdigit("/") /\ EOS # "." /\ EOS # "/"
  BY DirectAssumption DEF isdigit, EOS
<1>3. \A i \in 1..Len(s) : s[i] # EOS
  BY <1>1 DEF Token
<1>4. ASSUME NEW i \in 1..Len(s) + 1
      PROVE  \/ i = Len(s) + 1 /\ t[i] = EOS /\ ~(i <= Len(s))
             \/ i \in 1..Len(s) /\ i <= Len(s) /\ i # Len(s) + 1 /\ t[i] = s[i]
  BY <1>1 DEF Ended
<1>5. QED
  BY <1>1, <1>2, <1>3, <1>4

\* The parser counts the numbers that stand there, up to four.
LEMMA CountDotted ==
  ASSUME NEW s, NEW t, Ended(s, t), NEW p \in 1..Len(s) + 2
  PROVE  /\ Count(t, p) \in 0..4
         /\ \A k \in 1..4 : Dotted(s, p, k) <=> k <= Count(t, p)
<1> DEFINE Fit(k) == p + 2 * k - 2 < Len(t)
           Good(k) == \A i \in 1..k : isdigit(t[p + 2 * i - 2]) /\ (i < k => t[p + 2 * i - 1] = ".")
           T == {k \in 0..4 : Fit(k) /\ Good(k)}
<1>1. Len(s) \in Nat /\ p \in Nat /\ p >= 1 /\ Len(t) = Len(s) + 1 /\ p <= Len(s) + 2
  BY EndedFacts DEF Ended
<1>2. 0 \in T
  <2>1. Fit(0) /\ Good(0)
    BY <1>1
  <2>2. QED BY <2>1
<1>3. ASSUME NEW k \in 1..4 PROVE Fit(k) /\ Good(k) <=> Dotted(s, p, k)
  <2>1. Fit(k) <=> p + 2 * k - 2 <= Len(s)
    BY <1>1
  <2>2. ASSUME Fit(k), NEW i \in 1..k
        PROVE  /\ p + 2 * i - 2 \in 1..Len(s)
               /\ i < k => p + 2 * i - 1 \in 1..Len(s)
    BY <1>1, <2>2
  <2>3. ASSUME Fit(k), NEW i \in 1..k
        PROVE  /\ t[p + 2 * i - 2] = s[p + 2 * i - 2]
               /\ i < k => t[p + 2 * i - 1] = s[p + 2 * i - 1]
    BY <2>2, <2>3 DEF Ended
  <2> HIDE DEF Fit
  <2>4. QED BY <2>1, <2>3 DEF Dotted
<1>4. \A k \in T, j \in 1..4 : j <= k => j \in T
  <2>1. ASSUME NEW k \in T, NEW j \in 1..4, j <= k PROVE Fit(j) /\ Good(j)
    <3>1. k \in 0..4 /\ Fit(k) /\ Good(k)
      OBVIOUS
    <3>2. Fit(j)
      BY <1>1, <2>1, <3>1
    <3>3. ASSUME NEW i \in 1..j PROVE isdigit(t[p + 2 * i - 2]) /\ (i < j => t[p + 2 * i - 1] = ".")
      <4>1. i \in 1..k /\ (i < j => i < k)
        BY <2>1
      <4>2. QED BY <3>1, <4>1
    <3>4. QED BY <3>2, <3>3
  <2> HIDE DEF Fit, Good
  <2>2. QED BY <2>1
<1>5. Count(t, p) = Max(T)
  BY DEF Count
<1> HIDE DEF Fit, Good
<1>6. Max(T) \in T /\ \A k \in T : Max(T) >= k
  BY <1>2, MaxExists
<1>7. Max(T) \in 0..4 /\ \A k \in 1..4 : k \in T <=> Dotted(s, p, k)
  BY <1>3, <1>6
<1> HIDE DEF T
<1>8. QED
  BY <1>4, <1>5, <1>6, <1>7

LEMMA AddressAtIs ==
  ASSUME NEW s, NEW p, NEW k \in 0..4, k > 0 => Dotted(s, p, k)
  PROVE  /\ AddressAt(s, p, k) \in Address
         /\ \A i \in 1..k : Number[s[p + 2 * i - 2]] \in Nat
<1>1. ASSUME NEW i \in 1..k PROVE Number[s[p + 2 * i - 2]] \in Nat
  <2>1. Dotted(s, p, k)
    OBVIOUS
  <2>2. s[p + 2 * i - 2] \in DOMAIN Number
    BY <2>1 DEF Dotted, isdigit
  <2>3. QED BY <2>2, DirectAssumption
<1>2. ASSUME NEW i \in 1..4 PROVE (IF i <= k THEN Number[s[p + 2 * i - 2]] % 256 ELSE 0) \in 0..255
  <2>1. i <= k => i \in 1..k
    OBVIOUS
  <2>2. \A x \in Nat : x % 256 \in 0..255
    OBVIOUS
  <2> DEFINE x == Number[s[p + 2 * i - 2]] % 256
  <2>3. i <= k => x \in 0..255
    BY <1>1, <2>1, <2>2
  <2> HIDE DEF x
  <2>4. (IF i <= k THEN x ELSE 0) \in 0..255
    BY <2>3
  <2>5. QED BY <2>4 DEF x
<1>3. QED
  BY <1>1, <1>2 DEF AddressAt, Address

\* The octets that are read are those that stand there.
LEMMA AddressRead ==
  ASSUME NEW s, NEW t, Ended(s, t), NEW p \in 1..Len(s) + 2
  PROVE  /\ AddressAt(s, p, Count(t, p)) \in Address
         /\ Octets(Numbers(t, p)) = AddressAt(s, p, Count(t, p))
<1> DEFINE n == Count(t, p)  nums == Numbers(t, p)  a == AddressAt(s, p, n)
           octet(i) == IF i <= Len(nums) THEN nums[i] % 256 ELSE 0
<1>1. /\ Len(s) \in Nat /\ p \in Nat /\ n \in 0..4 /\ (n > 0 => Dotted(s, p, n))
      /\ a \in Address /\ \A i \in 1..n : Number[s[p + 2 * i - 2]] \in Nat
  <2>1. Len(s) \in Nat /\ p \in Nat /\ n \in 0..4 /\ (n > 0 => Dotted(s, p, n))
    BY EndedFacts, CountDotted
  <2>2. QED BY <2>1, AddressAtIs
<1>2. ASSUME NEW i \in 1..n PROVE t[p + 2 * i - 2] = s[p + 2 * i - 2]
  <2>1. p + 2 * n - 2 <= Len(s)
    BY <1>1 DEF Dotted
  <2>2. p + 2 * i - 2 \in 1..Len(s)
    BY <1>1, <2>1
  <2>3. QED BY <2>2 DEF Ended
<1>3. nums = [i \in 1..n |-> Number[s[p + 2 * i - 2]]]
  BY <1>2 DEF Numbers
<1>4. \A i \in 1..4 : a[i] = IF i <= n THEN Number[s[p + 2 * i - 2]] % 256 ELSE 0
  BY DEF AddressAt
<1> HIDE DEF nums, n, a
<1>5. Len(nums) = n
  <2>1. nums \in [1..n -> Nat] /\ DOMAIN nums = 1..n
    BY <1>1, <1>3
  <2>2. nums \in Seq(Nat)
    BY <1>1, <2>1, SeqDef
  <2>3. QED BY <1>1, <2>1, <2>2, LenProperties
<1>6. ASSUME NEW i \in 1..4 PROVE octet(i) = a[i]
  <2>1. i <= n => i \in 1..n
    BY <1>1
  <2>2. i <= n => nums[i] = Number[s[p + 2 * i - 2]]
    BY <1>3, <2>1
  <2>3. QED BY <1>4, <1>5, <2>2
<1>7. Octets(nums) = <<octet(1), octet(2), octet(3), octet(4)>>
  BY DEF Octets
<1> HIDE DEF octet
<1>8. Octets(nums) = <<a[1], a[2], a[3], a[4]>>
  BY <1>6, <1>7
<1>9. <<a[1], a[2], a[3], a[4]>> = a
  BY <1>1 DEF Address
<1>10. QED
  BY <1>1, <1>8, <1>9 DEF a, n, nums

(***************************************************************************)
(* The bits of an address and of a mask.                                   *)
(***************************************************************************)
LEMMA LeadingIs ==
  ASSUME NEW n \in Int
  PROVE  Leading(n) \in Address
<1> DEFINE octet(k) == IF k <= 0 THEN 0 ELSE IF k >= 8 THEN 255 ELSE <<128, 192, 224, 240, 248, 252, 254>>[k]
<1>1. \A k \in Int : octet(k) \in 0..255
  <2>1. \A k \in 1..7 : <<128, 192, 224, 240, 248, 252, 254>>[k] \in 0..255
    OBVIOUS
  <2>2. \A k \in Int : ~(k <= 0) /\ ~(k >= 8) => k \in 1..7
    OBVIOUS
  <2>3. QED BY <2>1, <2>2
<1>2. Leading(n) = <<octet(n), octet(n - 8), octet(n - 16), octet(n - 24)>>
  BY DEF Leading
<1> HIDE DEF octet
<1>3. /\ octet(n) \in 0..255 /\ octet(n - 8) \in 0..255
      /\ octet(n - 16) \in 0..255 /\ octet(n - 24) \in 0..255
  BY <1>1
<1> DEFINE a == octet(n)  b == octet(n - 8)  c == octet(n - 16)  d == octet(n - 24)
<1>4. Leading(n) = <<a, b, c, d>> /\ a \in 0..255 /\ b \in 0..255 /\ c \in 0..255 /\ d \in 0..255
  BY <1>2, <1>3
<1> HIDE DEF a, b, c, d
<1>5. QED
  BY <1>4 DEF Address

LEMMA MaskedIs ==
  ASSUME NEW a \in Address, NEW m \in Address
  PROVE  mask_addr(a, m) \in Address
<1>1. ASSUME NEW x, NEW y PROVE And(x, y) \in 0..255
  <2> DEFINE bit(w) == IF (x \div w) % 2 = 1 /\ (y \div w) % 2 = 1 THEN w ELSE 0
  <2>1. And(x, y) = bit(1) + bit(2) + bit(4) + bit(8) + bit(16) + bit(32) + bit(64) + bit(128)
    BY DEF And
  <2>2. \A w : bit(w) \in {0, w}
    OBVIOUS
  <2> HIDE DEF bit
  <2>3. /\ bit(1) \in {0, 1} /\ bit(2) \in {0, 2} /\ bit(4) \in {0, 4} /\ bit(8) \in {0, 8}
        /\ bit(16) \in {0, 16} /\ bit(32) \in {0, 32} /\ bit(64) \in {0, 64} /\ bit(128) \in {0, 128}
    BY <2>2
  <2>4. QED BY <2>1, <2>3
<1>2. /\ And(a[1], m[1]) \in 0..255 /\ And(a[2], m[2]) \in 0..255
      /\ And(a[3], m[3]) \in 0..255 /\ And(a[4], m[4]) \in 0..255
  BY <1>1, Zenon
<1>3. QED
  BY <1>2, FourOctets, Zenon DEF mask_addr

LEMMA BitIs ==
  ASSUME NEW x \in Nat, NEW j \in 1..8
  PROVE  BitOf(x, j) \in 0..1
<1>1. Weight[j] \in Nat /\ Weight[j] > 0
  BY DEF Weight
<1>2. \A y \in Nat : y % 2 \in 0..1
  OBVIOUS
<1>3. x \div Weight[j] \in Nat
  BY <1>1
<1>4. QED
  BY <1>2, <1>3 DEF BitOf

\* A sum of different powers of two says which ones they are.
LEMMA SumOfWeights ==
  ASSUME NEW a \in [1..8 -> 0..1], NEW b \in [1..8 -> 0..1],
         a[8] + 2 * a[7] + 4 * a[6] + 8 * a[5] + 16 * a[4] + 32 * a[3] + 64 * a[2] + 128 * a[1]
           = b[8] + 2 * b[7] + 4 * b[6] + 8 * b[5] + 16 * b[4] + 32 * b[3] + 64 * b[2] + 128 * b[1]
  PROVE  \A j \in 1..8 : a[j] = b[j]
<1>1. \A j \in 1..8 : a[j] \in 0..1 /\ b[j] \in 0..1
  OBVIOUS
<1>2. a[1] = b[1]
  BY <1>1
<1>3. a[2] = b[2]
  BY <1>1, <1>2
<1>4. a[3] = b[3]
  BY <1>1, <1>2, <1>3
<1>5. a[4] = b[4]
  BY <1>1, <1>2, <1>3, <1>4
<1>6. a[5] = b[5] /\ a[6] = b[6] /\ a[7] = b[7] /\ a[8] = b[8]
  BY <1>1, <1>2, <1>3, <1>4, <1>5
<1>7. QED
  BY <1>2, <1>3, <1>4, <1>5, <1>6

\* The bits that two octets have in common.
Common(x, m) == [j \in 1..8 |-> IF BitOf(x, j) = 1 /\ BitOf(m, j) = 1 THEN 1 ELSE 0]

LEMMA AndIs ==
  ASSUME NEW x, NEW m
  PROVE  LET c == Common(x, m) IN
         And(x, m) = c[8] + 2 * c[7] + 4 * c[6] + 8 * c[5] + 16 * c[4] + 32 * c[3] + 64 * c[2] + 128 * c[1]
<1> DEFINE c == Common(x, m)
           bit(w) == IF (x \div w) % 2 = 1 /\ (m \div w) % 2 = 1 THEN w ELSE 0
<1>1. \A j \in 1..8 : c[j] = IF (x \div Weight[j]) % 2 = 1 /\ (m \div Weight[j]) % 2 = 1 THEN 1 ELSE 0
  BY DEF Common, BitOf
<1>2. /\ Weight[1] = 128 /\ Weight[2] = 64 /\ Weight[3] = 32 /\ Weight[4] = 16
      /\ Weight[5] = 8 /\ Weight[6] = 4 /\ Weight[7] = 2 /\ Weight[8] = 1
  BY DEF Weight
<1>3. And(x, m) = bit(1) + bit(2) + bit(4) + bit(8) + bit(16) + bit(32) + bit(64) + bit(128)
  BY DEF And
<1>4. /\ bit(128) = 128 * c[1] /\ bit(64) = 64 * c[2] /\ bit(32) = 32 * c[3] /\ bit(16) = 16 * c[4]
      /\ bit(8) = 8 * c[5] /\ bit(4) = 4 * c[6] /\ bit(2) = 2 * c[7] /\ bit(1) = c[8]
  <2> HIDE DEF c
  <2>1. \A j \in 1..8 : bit(Weight[j]) = Weight[j] * c[j]
    <3>1. \A j \in 1..8 : Weight[j] \in Nat
      BY DEF Weight
    <3>2. QED BY <1>1, <3>1
  <2>2. \A j \in 1..8 : c[j] \in Nat
    BY <1>1
  <2> HIDE DEF bit
  <2>3. QED BY <1>2, <2>1, <2>2
<1> HIDE DEF bit, c
<1>5. \A j \in 1..8 : c[j] \in 0..1
  BY <1>1
<1>6. And(x, m) = c[8] + 2 * c[7] + 4 * c[6] + 8 * c[5] + 16 * c[4] + 32 * c[3] + 64 * c[2] + 128 * c[1]
  BY <1>3, <1>4, <1>5
<1>7. QED
  BY <1>6 DEF c

LEMMA SameAnd ==
  ASSUME NEW x \in Nat, NEW y \in Nat, NEW m
  PROVE  And(x, m) = And(y, m) <=> \A j \in 1..8 : BitOf(m, j) = 1 => BitOf(x, j) = BitOf(y, j)
<1> DEFINE c == Common(x, m)  d == Common(y, m)
<1>1. /\ \A j \in 1..8 : c[j] = IF BitOf(x, j) = 1 /\ BitOf(m, j) = 1 THEN 1 ELSE 0
      /\ \A j \in 1..8 : d[j] = IF BitOf(y, j) = 1 /\ BitOf(m, j) = 1 THEN 1 ELSE 0
      /\ c \in [1..8 -> 0..1] /\ d \in [1..8 -> 0..1]
  BY DEF Common
<1>2. /\ And(x, m) = c[8] + 2 * c[7] + 4 * c[6] + 8 * c[5] + 16 * c[4] + 32 * c[3] + 64 * c[2] + 128 * c[1]
      /\ And(y, m) = d[8] + 2 * d[7] + 4 * d[6] + 8 * d[5] + 16 * d[4] + 32 * d[3] + 64 * d[2] + 128 * d[1]
  BY AndIs
<1> HIDE DEF c, d
<1>3. And(x, m) = And(y, m) => \A j \in 1..8 : c[j] = d[j]
  BY ONLY <1>1, <1>2, SumOfWeights
<1>4. (\A j \in 1..8 : c[j] = d[j]) => And(x, m) = And(y, m)
  BY <1>2
<1>5. (\A j \in 1..8 : c[j] = d[j]) <=> \A j \in 1..8 : BitOf(m, j) = 1 => BitOf(x, j) = BitOf(y, j)
  <2>1. \A j \in 1..8 : BitOf(x, j) \in 0..1 /\ BitOf(y, j) \in 0..1
    BY BitIs
  <2>2. QED BY <1>1, <2>1
<1>6. QED
  BY <1>3, <1>4, <1>5

\* Two addresses are the same under a mask when they agree in the bits of the mask.
LEMMA SameMasked ==
  ASSUME NEW x \in Address, NEW y \in Address, NEW m \in Address
  PROVE  mask_addr(x, m) = mask_addr(y, m) <=> Agree(x, y, BitsSet(m))
<1>1. \A k \in 1..4 : x[k] \in Nat /\ y[k] \in Nat
  <2>1. \A k \in 1..4 : x[k] \in 0..255 /\ y[k] \in 0..255
    BY DEF Address
  <2>2. 0..255 \subseteq Nat
    OBVIOUS
  <2>3. QED BY <2>1, <2>2, Zenon
<1>2. ASSUME NEW k \in 1..4
      PROVE  And(x[k], m[k]) = And(y[k], m[k])
               <=> \A j \in 1..8 : BitOf(m[k], j) = 1 => BitOf(x[k], j) = BitOf(y[k], j)
  BY <1>1, SameAnd
<1>3. mask_addr(x, m) = mask_addr(y, m) <=> \A k \in 1..4 : And(x[k], m[k]) = And(y[k], m[k])
  BY DEF mask_addr
<1>4. Agree(x, y, BitsSet(m))
        <=> \A k \in 1..4 : \A j \in 1..8 : BitOf(m[k], j) = 1 => BitOf(x[k], j) = BitOf(y[k], j)
  <2>1. \A b \in (1..4) \X (1..8) : b[1] \in 1..4 /\ b[2] \in 1..8
    OBVIOUS
  <2>2. \A k \in 1..4, j \in 1..8 : <<k, j>> \in (1..4) \X (1..8) /\ <<k, j>>[1] = k /\ <<k, j>>[2] = j
    OBVIOUS
  <2>3. ASSUME Agree(x, y, BitsSet(m)), NEW k \in 1..4, NEW j \in 1..8, BitOf(m[k], j) = 1
        PROVE  BitOf(x[k], j) = BitOf(y[k], j)
    <3>1. <<k, j>> \in BitsSet(m)
      BY <2>2, <2>3 DEF BitsSet
    <3>2. QED BY <2>2, <2>3, <3>1 DEF Agree
  <2>4. ASSUME \A k \in 1..4 : \A j \in 1..8 : BitOf(m[k], j) = 1 => BitOf(x[k], j) = BitOf(y[k], j)
        PROVE  Agree(x, y, BitsSet(m))
    BY <2>1, <2>4 DEF Agree, BitsSet
  <2>5. QED BY <2>3, <2>4
<1>5. QED
  BY <1>2, <1>3, <1>4

LEMMA OctetBits ==
  ASSUME NEW k \in Int, NEW j \in 1..8, NEW o,
         o = IF k <= 0 THEN 0 ELSE IF k >= 8 THEN 255 ELSE <<128, 192, 224, 240, 248, 252, 254>>[k]
  PROVE  BitOf(o, j) = 1 <=> j <= k
<1>1. Weight[j] = <<128, 64, 32, 16, 8, 4, 2, 1>>[j]
  BY DEF Weight
<1>2. CASE k <= 0
  BY <1>1, <1>2 DEF BitOf
<1>3. CASE k >= 8
  BY <1>1, <1>3 DEF BitOf
<1>4. CASE k = 1
  BY <1>1, <1>4 DEF BitOf
<1>5. CASE k = 2
  BY <1>1, <1>5 DEF BitOf
<1>6. CASE k = 3
  BY <1>1, <1>6 DEF BitOf
<1>7. CASE k = 4
  BY <1>1, <1>7 DEF BitOf
<1>8. CASE k = 5
  BY <1>1, <1>8 DEF BitOf
<1>9. CASE k = 6
  BY <1>1, <1>9 DEF BitOf
<1>10. CASE k = 7
  BY <1>1, <1>10 DEF BitOf
<1>11. QED
  BY <1>2, <1>3, <1>4, <1>5, <1>6, <1>7, <1>8, <1>9, <1>10

\* The mask of n bits is the leading n bits of an address.
LEMMA LeadingBitsSet ==
  ASSUME NEW n \in Int
  PROVE  BitsSet(Leading(n)) = LeadingBits(n)
<1> DEFINE octet(k) == IF k <= 0 THEN 0 ELSE IF k >= 8 THEN 255 ELSE <<128, 192, 224, 240, 248, 252, 254>>[k]
           m == Leading(n)
<1>1. \A k \in Int, j \in 1..8 : BitOf(octet(k), j) = 1 <=> j <= k
  BY OctetBits
<1>2. m = <<octet(n), octet(n - 8), octet(n - 16), octet(n - 24)>>
  BY DEF Leading
<1> HIDE DEF octet, m
<1>3. m[1] = octet(n) /\ m[2] = octet(n - 8) /\ m[3] = octet(n - 16) /\ m[4] = octet(n - 24)
  BY <1>2
<1>4. ASSUME NEW k \in 1..4, NEW j \in 1..8
      PROVE  BitOf(m[k], j) = 1 <=> 8 * (k - 1) + j <= n
  <2>1. m[k] = octet(n - 8 * (k - 1))
    <3>1. /\ k = 1 => n - 8 * (k - 1) = n
          /\ k = 2 => n - 8 * (k - 1) = n - 8
          /\ k = 3 => n - 8 * (k - 1) = n - 16
          /\ k = 4 => n - 8 * (k - 1) = n - 24
      OBVIOUS
    <3>2. k = 1 \/ k = 2 \/ k = 3 \/ k = 4
      OBVIOUS
    <3>3. QED BY <1>3, <3>1, <3>2
  <2>2. n - 8 * (k - 1) \in Int /\ (j <= n - 8 * (k - 1) <=> 8 * (k - 1) + j <= n)
    OBVIOUS
  <2>3. QED BY <1>1, <2>1, <2>2
<1>5. QED
  BY <1>4 DEF BitsSet, LeadingBits, m

(***************************************************************************)
(* The forms of a text that is an address.                                 *)
(***************************************************************************)
\* In s, k numbers and a mask are written.
Masked(s, k, mask) ==
  /\ Dotted(s, 1, k)
  /\ \/ NoSlash(s, k) /\ mask = Leading(8 * k)
     \/ \E q \in {2 * k, 9} : /\ SlashAt(s, k, q)
                             /\ \/ ShortMask(s, q) /\ mask = Leading(Number[s[q + 1]])
                                \/ \E m \in 1..4 : LongMask(s, q, m) /\ mask = AddressAt(s, q + 1, m)

\* Where the numbers end, a text that is an address ends or has a "/".
LEMMA FormInFront ==
  ASSUME NEW s, NEW t, Ended(s, t), NEW n, n = Count(t, 1), n > 0, NEW end, end = Behind(t, 1)
  PROVE  /\ n \in 1..4 /\ Dotted(s, 1, n) /\ end \in {2 * n, 2 * n + 1} /\ end \in 1..Len(s) + 1
         /\ ~GoesOn(t, 1) => end \in {2 * n, 9}
         /\ \A k \in 1..4 : Dotted(s, 1, k) /\ NoSlash(s, k) <=> k = n /\ t[end] = EOS
         /\ \A k \in 1..4 : \A q \in {2 * k, 9} :
              Dotted(s, 1, k) /\ SlashAt(s, k, q) <=> k = n /\ q = end /\ t[end] = "/" /\ ~GoesOn(t, 1)
<1>1. /\ Len(s) \in Nat /\ n \in 1..4 /\ (\A k \in 1..4 : Dotted(s, 1, k) <=> k <= n)
      /\ 2 * n - 1 <= Len(s)
  <2>1. Len(s) \in Nat /\ 1 \in 1..Len(s) + 2
    BY EndedFacts
  <2>2. n \in 0..4 /\ \A k \in 1..4 : Dotted(s, 1, k) <=> k <= n
    BY <2>1, CountDotted
  <2>3. n \in 1..4 /\ Dotted(s, 1, n)
    BY <2>2
  <2>4. 1 + 2 * n - 2 <= Len(s)
    BY <2>3 DEF Dotted
  <2>5. QED BY <2>1, <2>2, <2>3, <2>4
<1>2. \A k \in 1..4 : k < n => s[2 * k] = "."
  <2>1. ASSUME NEW k \in 1..4, k < n PROVE s[2 * k] = "."
    <3>1. Dotted(s, 1, n) /\ k \in 1..n /\ 1 + 2 * k - 1 = 2 * k
      BY <1>1, <2>1
    <3>2. QED BY <2>1, <3>1 DEF Dotted
  <2>2. QED BY <2>1
<1>3. /\ EOS # "." /\ EOS # "/"
      /\ \A i \in 1..Len(s) + 1 : t[i] = EOS <=> i = Len(s) + 1
      /\ \A i \in 1..Len(s) + 1, c \in {".", "/"} : t[i] = c <=> i <= Len(s) /\ s[i] = c
  BY EndedFacts
<1>4. /\ DotAt(t, 1) <=> 2 * n <= Len(s) /\ s[2 * n] = "."
      /\ end = IF DotAt(t, 1) THEN 2 * n + 1 ELSE 2 * n
      /\ GoesOn(t, 1) <=> n < 4 /\ DotAt(t, 1)
  <2>1. 1 + 2 * n - 1 = 2 * n /\ 2 * n \in 1..Len(s) + 1 /\ 1 + 2 * n - 0 = 2 * n + 1
    BY <1>1
  <2>2. t[2 * n] = "." <=> 2 * n <= Len(s) /\ s[2 * n] = "."
    BY <1>3, <2>1
  <2>3. DotAt(t, 1) <=> t[2 * n] = "."
    BY <2>1 DEF DotAt
  <2>4. end = IF DotAt(t, 1) THEN 2 * n + 1 ELSE 2 * n
    BY <2>1 DEF Behind
  <2>5. GoesOn(t, 1) <=> n < 4 /\ DotAt(t, 1)
    BY DEF GoesOn
  <2>6. QED BY <2>2, <2>3, <2>4, <2>5
<1>5. end \in {2 * n, 2 * n + 1} /\ end \in 1..Len(s) + 1
  BY <1>1, <1>4
<1>6. t[end] = EOS <=> end = Len(s) + 1
  BY <1>3, <1>5
<1>7. t[end] = "/" <=> end <= Len(s) /\ s[end] = "/"
  BY <1>3, <1>5
<1>8. ASSUME NEW k \in 1..4
      PROVE  Dotted(s, 1, k) /\ NoSlash(s, k) <=> k = n /\ t[end] = EOS
  <2>1. Dotted(s, 1, k) /\ NoSlash(s, k) => k = n
    BY <1>1 DEF NoSlash
  <2>2. NoSlash(s, n) <=> end = Len(s) + 1
    BY <1>1, <1>4 DEF NoSlash
  <2>3. QED BY <1>1, <1>6, <2>1, <2>2
<1>9. ASSUME NEW k \in 1..4, NEW q \in {2 * k, 9}
      PROVE  Dotted(s, 1, k) /\ SlashAt(s, k, q) <=> k = n /\ q = end /\ t[end] = "/" /\ ~GoesOn(t, 1)
  <2>1. Dotted(s, 1, k) /\ SlashAt(s, k, q) => k = n
    <3>1. SlashAt(s, k, q) => s[2 * k] = "/" \/ k = 4
      BY DEF SlashAt
    <3>2. QED BY <1>1, <1>2, <3>1
  <2>2. ASSUME k = n, SlashAt(s, n, q) PROVE q = end /\ t[end] = "/" /\ ~GoesOn(t, 1)
    <3>1. CASE q = 2 * n
      BY <1>1, <1>4, <1>7, <2>2, <3>1 DEF SlashAt
    <3>2. CASE q = 9 /\ n = 4
      BY <1>1, <1>4, <1>7, <2>2, <3>2 DEF SlashAt
    <3>3. QED BY <2>2, <3>1, <3>2 DEF SlashAt
  <2>3. ASSUME k = n, q = end, t[end] = "/", ~GoesOn(t, 1) PROVE SlashAt(s, n, q)
    <3>1. q <= Len(s) /\ s[q] = "/"
      BY <1>7, <2>3
    <3>2. CASE DotAt(t, 1)
      <4>1. n = 4 /\ q = 9 /\ s[8] = "."
        BY <1>1, <1>4, <2>3, <3>2
      <4>2. QED BY <3>1, <4>1 DEF SlashAt
    <3>3. CASE ~DotAt(t, 1)
      <4>1. q = 2 * n /\ q # 9
        BY <1>1, <1>4, <2>3, <3>3
      <4>2. QED BY <3>1, <4>1 DEF SlashAt
    <3>4. QED BY <3>2, <3>3
  <2>4. QED BY <1>1, <2>1, <2>2, <2>3
<1>10. ~GoesOn(t, 1) => end \in {2 * n, 9}
  BY <1>1, <1>4
<1>11. QED
  BY <1>1, <1>5, <1>8, <1>9, <1>10

\* Behind the "/" at q there is a mask, a number of bits, or nothing that is either.
LEMMA FormBehind ==
  ASSUME NEW s, NEW t, Ended(s, t), NEW q \in 1..Len(s)
  PROVE  /\ \A mask \in Address : mask = MaskBehind(t, q + 1) <=>
                \/ ShortMask(s, q) /\ mask = Leading(Number[s[q + 1]])
                \/ \E m \in 1..4 : LongMask(s, q, m) /\ mask = AddressAt(s, q + 1, m)
         /\ MaskBehind(t, q + 1) \in Address \cup {NoPair}
<1> DEFINE c == Count(t, q + 1)  dots == \E i \in q + 1..Len(s) : s[i] = "."
<1>1. /\ Len(s) \in Nat /\ q \in Nat /\ q + 1 \in 1..Len(s) + 1 /\ q + 1 \in 1..Len(s) + 2
      /\ Len(t) = Len(s) + 1
  BY EndedFacts DEF Ended
<1>2. c \in 0..4 /\ \A k \in 1..4 : Dotted(s, q + 1, k) <=> k <= c
  BY <1>1, CountDotted
<1>3. /\ ~isdigit(EOS)
      /\ \A i \in 1..Len(s) + 1 : t[i] = "." <=> i <= Len(s) /\ s[i] = "."
      /\ \A i \in 1..Len(s) + 1 : isdigit(t[i]) <=> i <= Len(s) /\ isdigit(s[i])
  BY EndedFacts
<1>4. (\E i \in q + 1..Len(t) : t[i] = ".") <=> dots
  <2>1. \A i \in q + 1..Len(t) : i \in 1..Len(s) + 1
    BY <1>1
  <2>2. \A i \in q + 1..Len(s) : i \in 1..Len(s) + 1 /\ i \in q + 1..Len(t) /\ i <= Len(s)
    BY <1>1
  <2>3. \A i \in q + 1..Len(t) : i <= Len(s) => i \in q + 1..Len(s)
    BY <1>1
  <2>4. QED BY <1>3, <2>1, <2>2, <2>3
<1>5. c > 0 => /\ Dotted(s, q + 1, c) /\ q + 2 * c \in 1..Len(s) + 1
               /\ GoesOn(t, q + 1) <=> c < 4 /\ q + 2 * c <= Len(s) /\ s[q + 2 * c] = "."
  <2> SUFFICES ASSUME c > 0
               PROVE  /\ Dotted(s, q + 1, c) /\ q + 2 * c \in 1..Len(s) + 1
                      /\ GoesOn(t, q + 1) <=> c < 4 /\ q + 2 * c <= Len(s) /\ s[q + 2 * c] = "."
    OBVIOUS
  <2>1. Dotted(s, q + 1, c)
    BY <1>2
  <2>2. q + 1 + 2 * c - 2 <= Len(s)
    BY <2>1 DEF Dotted
  <2>3. q + 2 * c \in 1..Len(s) + 1 /\ q + 1 + 2 * c - 1 = q + 2 * c
    BY <1>1, <1>2, <2>2
  <2>4. GoesOn(t, q + 1) <=> c < 4 /\ t[q + 2 * c] = "."
    BY <1>2, <2>3 DEF GoesOn, DotAt
  <2>5. QED BY <1>3, <2>1, <2>3, <2>4
<1>6. c = 0 => GoesOn(t, q + 1)
  BY DEF GoesOn
<1>7. ASSUME NEW m \in 1..4
      PROVE  LongMask(s, q, m) <=> dots /\ m = c /\ ~GoesOn(t, q + 1)
  <2>1. ASSUME LongMask(s, q, m) PROVE m = c
    <3>1. m <= c
      BY <1>2, <2>1 DEF LongMask
    <3>2. CASE m < c
      <4>1. Dotted(s, q + 1, c) /\ m \in 1..c /\ q + 1 + 2 * m - 1 = q + 2 * m
        BY <1>1, <1>2, <1>5, <3>2
      <4>2. s[q + 2 * m] = "."
        BY <3>2, <4>1 DEF Dotted
      <4>3. q + 2 * m <= Len(s) /\ m # 4
        BY <1>1, <1>2, <1>5, <3>2
      <4>4. QED BY <1>1, <2>1, <4>2, <4>3 DEF LongMask
    <3>3. QED BY <1>2, <3>1, <3>2
  <2>2. LongMask(s, q, c) /\ c > 0 <=> dots /\ c > 0 /\ ~GoesOn(t, q + 1)
    <3>1. c > 0 => (c = 4 \/ q + 2 * c > Len(s) \/ s[q + 2 * c] # "." <=> ~GoesOn(t, q + 1))
      BY <1>1, <1>2, <1>5
    <3>2. QED BY <1>5, <3>1 DEF LongMask
  <2>3. QED BY <1>2, <1>6, <2>1, <2>2
<1>8. ShortMask(s, q) <=> ~dots /\ isdigit(t[q + 1]) /\ Number[t[q + 1]] <= 32
  <2>1. Dotted(s, q + 1, 1) <=> q + 1 <= Len(s) /\ isdigit(s[q + 1])
    <3>1. q + 1 + 2 * 1 - 2 = q + 1
      BY <1>1
    <3>2. QED BY <3>1 DEF Dotted
  <2>2. q + 1 <= Len(s) => t[q + 1] = s[q + 1]
    BY <1>1 DEF Ended
  <2>3. QED BY <1>1, <1>3, <2>1, <2>2 DEF ShortMask
<1>9. ShortMask(s, q) => Number[s[q + 1]] = Number[t[q + 1]] /\ Leading(Number[t[q + 1]]) \in Address
  <2>1. ASSUME ShortMask(s, q) PROVE isdigit(t[q + 1]) /\ t[q + 1] = s[q + 1]
    <3>1. isdigit(t[q + 1])
      BY <1>8, <2>1
    <3>2. q + 1 \in 1..Len(s)
      BY <1>1, <1>3, <3>1
    <3>3. QED BY <3>1, <3>2 DEF Ended
  <2>2. QED BY <2>1, DirectAssumption, LeadingIs DEF isdigit
<1>10. c > 0 => Octets(Numbers(t, q + 1)) = AddressAt(s, q + 1, c) /\ AddressAt(s, q + 1, c) \in Address
  BY <1>1, AddressRead
<1>11. MaskBehind(t, q + 1) =
         IF dots THEN IF GoesOn(t, q + 1) THEN NoPair ELSE AddressAt(s, q + 1, c)
         ELSE IF ShortMask(s, q) THEN Leading(Number[s[q + 1]]) ELSE NoPair
  <2>1. isdigit(t[q + 1]) => Number[t[q + 1]] \in Nat
    BY DirectAssumption DEF isdigit
  <2> HIDE DEF c, dots
  <2>2. CASE dots
    BY <1>2, <1>4, <1>6, <1>10, <2>2 DEF MaskBehind
  <2>3. CASE ~dots
    BY <1>4, <1>8, <1>9, <2>1, <2>3 DEF MaskBehind
  <2>4. QED BY <2>2, <2>3
<1>12. NoPair \notin Address
  BY DEF NoPair, Address
<1> HIDE DEF c, dots
<1>13. ShortMask(s, q) => ~dots
  BY <1>8
<1>14. \A mask \in Address : (\E m \in 1..4 : LongMask(s, q, m) /\ mask = AddressAt(s, q + 1, m))
                               <=> dots /\ ~GoesOn(t, q + 1) /\ mask = AddressAt(s, q + 1, c)
  BY <1>2, <1>6, <1>7
<1>15. MaskBehind(t, q + 1) \in Address \cup {NoPair}
  BY <1>2, <1>6, <1>9, <1>10, <1>11
<1>16. QED
  BY <1>11, <1>12, <1>13, <1>14, <1>15

\* The parser finds the mask that is written, or none.
LEMMA MaskWritten ==
  ASSUME NEW s, NEW t, Ended(s, t)
  PROVE  /\ MaskOf(t) \in Address \cup {NoPair}
         /\ Len(s) > 0 =>
              /\ MaskOf(t) # NoPair => Count(t, 1) \in 1..4
              /\ \A k \in 1..4, mask \in Address : Masked(s, k, mask) <=> k = Count(t, 1) /\ mask = MaskOf(t)
<1> DEFINE n == Count(t, 1)  end == Behind(t, 1)
<1>1. Len(s) \in Nat /\ n \in 0..4 /\ \A k \in 1..4 : Dotted(s, 1, k) <=> k <= n
  <2>1. Len(s) \in Nat /\ 1 \in 1..Len(s) + 2
    BY EndedFacts
  <2>2. QED BY <2>1, CountDotted
<1>2. /\ \A i \in 1..Len(s) + 1 : t[i] = EOS <=> i = Len(s) + 1
      /\ \A i \in 1..Len(s) + 1 : t[i] = "/" <=> i <= Len(s) /\ s[i] = "/"
      /\ EOS # "/"
  BY EndedFacts
<1>3. NoPair \notin Address
  BY DEF NoPair, Address
<1>4. MaskOf(t) = IF t[end] = EOS THEN Leading(8 * n)
                  ELSE IF GoesOn(t, 1) \/ t[end] # "/" THEN NoPair ELSE MaskBehind(t, end + 1)
  BY DEF MaskOf
<1>5. CASE n = 0
  <2>1. end = 1 /\ GoesOn(t, 1) /\ 1 \in 1..Len(s) + 1 /\ (Len(s) > 0 => 1 # Len(s) + 1)
    BY <1>1, <1>5 DEF Behind, GoesOn
  <2>2. Len(s) > 0 => MaskOf(t) = NoPair
    BY <1>2, <1>4, <2>1
  <2>3. \A k \in 1..4 : ~Dotted(s, 1, k)
    BY <1>1, <1>5
  <2>4. MaskOf(t) \in Address \cup {NoPair}
    <3>1. MaskOf(t) = Leading(8 * n) \/ MaskOf(t) = NoPair
      BY <1>4, <2>1
    <3>2. Leading(8 * n) \in Address
      BY <1>1, LeadingIs
    <3>3. QED BY <3>1, <3>2
  <2>5. QED BY <1>3, <2>2, <2>3, <2>4 DEF Masked
<1>6. CASE n > 0
  <2>1. /\ n \in 1..4 /\ end \in {2 * n, 2 * n + 1} /\ end \in 1..Len(s) + 1
        /\ ~GoesOn(t, 1) => end \in {2 * n, 9}
        /\ \A k \in 1..4 : Dotted(s, 1, k) /\ NoSlash(s, k) <=> k = n /\ t[end] = EOS
        /\ \A k \in 1..4 : \A q \in {2 * k, 9} :
              Dotted(s, 1, k) /\ SlashAt(s, k, q) <=> k = n /\ q = end /\ t[end] = "/" /\ ~GoesOn(t, 1)
    BY <1>6, FormInFront
  <2>2. t[end] = "/" => /\ MaskBehind(t, end + 1) \in Address \cup {NoPair}
                        /\ \A mask \in Address : mask = MaskBehind(t, end + 1) <=>
                             \/ ShortMask(s, end) /\ mask = Leading(Number[s[end + 1]])
                             \/ \E m \in 1..4 : LongMask(s, end, m) /\ mask = AddressAt(s, end + 1, m)
    <3>1. t[end] = "/" => end \in 1..Len(s)
      BY <1>1, <1>2, <2>1
    <3>2. QED BY <3>1, FormBehind
  <2>3. Leading(8 * n) \in Address
    BY <2>1, LeadingIs
  <2> HIDE DEF n, end
  <2>4. MaskOf(t) \in Address \cup {NoPair}
    BY <1>4, <2>2, <2>3
  <2>5. ASSUME NEW k \in 1..4, NEW mask \in Address
        PROVE  Masked(s, k, mask) <=>
                 /\ k = n
                 /\ \/ t[end] = EOS /\ mask = Leading(8 * n)
                    \/ t[end] = "/" /\ ~GoesOn(t, 1) /\ mask = MaskBehind(t, end + 1)
    <3> DEFINE Written(q) == \/ ShortMask(s, q) /\ mask = Leading(Number[s[q + 1]])
                             \/ \E m \in 1..4 : LongMask(s, q, m) /\ mask = AddressAt(s, q + 1, m)
    <3>1. Masked(s, k, mask) <=>
            \/ Dotted(s, 1, k) /\ NoSlash(s, k) /\ mask = Leading(8 * k)
            \/ \E q \in {2 * k, 9} : Dotted(s, 1, k) /\ SlashAt(s, k, q) /\ Written(q)
      BY Zenon DEF Masked
    <3>2. t[end] = "/" => (Written(end) <=> mask = MaskBehind(t, end + 1))
      BY <2>2
    <3> HIDE DEF Written
    <3>3. (\E q \in {2 * k, 9} : Dotted(s, 1, k) /\ SlashAt(s, k, q) /\ Written(q))
            <=> k = n /\ t[end] = "/" /\ ~GoesOn(t, 1) /\ Written(end)
      BY <2>1
    <3>4. QED BY <2>1, <3>1, <3>2, <3>3
  <2>6. \A k \in 1..4, mask \in Address : Masked(s, k, mask) <=> k = n /\ mask = MaskOf(t)
    BY <1>2, <1>3, <1>4, <2>5
  <2>7. QED BY <2>1, <2>4, <2>6 DEF n
<1>7. QED
  BY <1>1, <1>5, <1>6

\* A text covers an address that agrees with it in the bits of its mask.
LEMMA CoversMasked ==
  ASSUME NEW s, NEW t, Ended(s, t), NEW y
  PROVE  CoversAddress(s, y) <=>
           \E k \in 1..4 : \E mask \in Address : Masked(s, k, mask) /\ Agree(AddressAt(s, 1, k), y, BitsSet(mask))
<1> DEFINE Form(k, mask) ==
             \/ NoSlash(s, k) /\ mask = Leading(8 * k)
             \/ \E q \in {2 * k, 9} : /\ SlashAt(s, k, q)
                                     /\ \/ ShortMask(s, q) /\ mask = Leading(Number[s[q + 1]])
                                        \/ \E m \in 1..4 : LongMask(s, q, m) /\ mask = AddressAt(s, q + 1, m)
           Same(k) ==
             \/ NoSlash(s, k) /\ Agree(AddressAt(s, 1, k), y, LeadingBits(8 * k))
             \/ \E q \in {2 * k, 9} : /\ SlashAt(s, k, q)
                                     /\ \/ /\ ShortMask(s, q)
                                           /\ Agree(AddressAt(s, 1, k), y, LeadingBits(Number[s[q + 1]]))
                                        \/ \E m \in 1..4 : /\ LongMask(s, q, m)
                                                           /\ Agree(AddressAt(s, 1, k), y, BitsSet(AddressAt(s, q + 1, m)))
<1>1. ASSUME NEW k \in 1..4 PROVE Leading(8 * k) \in Address /\ BitsSet(Leading(8 * k)) = LeadingBits(8 * k)
  BY LeadingIs, LeadingBitsSet
<1>2. ASSUME NEW q \in Nat, ShortMask(s, q)
      PROVE  /\ Leading(Number[s[q + 1]]) \in Address
             /\ BitsSet(Leading(Number[s[q + 1]])) = LeadingBits(Number[s[q + 1]])
  <2>1. Dotted(s, q + 1, 1) /\ 1 \in 1..1 /\ 1 \in 0..4 /\ q + 1 + 2 * 1 - 2 = q + 1
    BY <1>2 DEF ShortMask
  <2>2. Number[s[q + 1 + 2 * 1 - 2]] \in Nat
    BY <2>1, AddressAtIs, Zenon
  <2>3. Number[s[q + 1]] \in Nat
    BY <2>1, <2>2
  <2>4. QED BY <2>3, LeadingIs, LeadingBitsSet
<1>3. ASSUME NEW q \in Nat, NEW m \in 1..4, LongMask(s, q, m) PROVE AddressAt(s, q + 1, m) \in Address
  BY <1>3, AddressAtIs DEF LongMask
<1>4. ASSUME NEW k \in 1..4
      PROVE  Same(k) <=> \E mask \in Address : Form(k, mask) /\ Agree(AddressAt(s, 1, k), y, BitsSet(mask))
  <2>1. \A q \in {2 * k, 9} : q \in Nat
    OBVIOUS
  <2>2. ASSUME Same(k) PROVE \E mask \in Address : Form(k, mask) /\ Agree(AddressAt(s, 1, k), y, BitsSet(mask))
    <3>1. CASE NoSlash(s, k) /\ Agree(AddressAt(s, 1, k), y, LeadingBits(8 * k))
      BY <1>1, <3>1
    <3>2. ASSUME NEW q \in {2 * k, 9}, SlashAt(s, k, q), ShortMask(s, q),
                 Agree(AddressAt(s, 1, k), y, LeadingBits(Number[s[q + 1]]))
          PROVE  \E mask \in Address : Form(k, mask) /\ Agree(AddressAt(s, 1, k), y, BitsSet(mask))
      BY <1>2, <2>1, <3>2
    <3>3. ASSUME NEW q \in {2 * k, 9}, SlashAt(s, k, q), NEW m \in 1..4, LongMask(s, q, m),
                 Agree(AddressAt(s, 1, k), y, BitsSet(AddressAt(s, q + 1, m)))
          PROVE  \E mask \in Address : Form(k, mask) /\ Agree(AddressAt(s, 1, k), y, BitsSet(mask))
      BY <1>3, <2>1, <3>3
    <3>4. QED BY <2>2, <3>1, <3>2, <3>3
  <2>3. ASSUME NEW mask \in Address, Form(k, mask), Agree(AddressAt(s, 1, k), y, BitsSet(mask)) PROVE Same(k)
    <3>1. CASE NoSlash(s, k) /\ mask = Leading(8 * k)
      BY <1>1, <2>3, <3>1
    <3>2. ASSUME NEW q \in {2 * k, 9}, SlashAt(s, k, q), ShortMask(s, q), mask = Leading(Number[s[q + 1]])
          PROVE  Same(k)
      BY <1>2, <2>1, <2>3, <3>2
    <3>3. ASSUME NEW q \in {2 * k, 9}, SlashAt(s, k, q), NEW m \in 1..4, LongMask(s, q, m),
                 mask = AddressAt(s, q + 1, m)
          PROVE  Same(k)
      BY <1>3, <2>1, <2>3, <3>3
    <3>4. QED BY <2>3, <3>1, <3>2, <3>3
  <2> HIDE DEF Same, Form
  <2>4. QED BY <2>2, <2>3
<1>5. CoversAddress(s, y) <=> \E k \in 1..4 : Dotted(s, 1, k) /\ Same(k)
  BY Zenon DEF CoversAddress
<1>6. \A k, mask : Masked(s, k, mask) <=> Dotted(s, 1, k) /\ Form(k, mask)
  BY Zenon DEF Masked
<1> HIDE DEF Same, Form
<1>7. QED
  BY <1>4, <1>5, <1>6

\* The comparison of the program is the one that the text means.
LEMMA AddressCovered ==
  ASSUME NEW s, NEW t, Ended(s, t), Len(s) > 0, NEW y \in Address
  PROVE  /\ CoversAddress(s, y) <=>
              MaskOf(t) # NoPair /\ mask_addr(y, MaskOf(t)) = mask_addr(Octets(Numbers(t, 1)), MaskOf(t))
         /\ IsNetwork(s) <=> MaskOf(t) # NoPair
<1> DEFINE n == Count(t, 1)  mask == MaskOf(t)  x(k) == AddressAt(s, 1, k)
<1>1. /\ mask \in Address \cup {NoPair} /\ (mask # NoPair => n \in 1..4)
      /\ \A k \in 1..4, m \in Address : Masked(s, k, m) <=> k = n /\ m = mask
  BY MaskWritten
<1>2. x(n) \in Address /\ Octets(Numbers(t, 1)) = x(n)
  <2>1. 1 \in 1..Len(s) + 2
    BY EndedFacts
  <2>2. QED BY <2>1, AddressRead
<1>3. NoPair \notin Address
  BY DEF NoPair, Address
<1>4. mask # NoPair => Dotted(s, 1, n)
  BY <1>1 DEF Masked
<1> HIDE DEF n, mask, x
<1>5. ASSUME NEW z PROVE CoversAddress(s, z) <=> mask # NoPair /\ Agree(x(n), z, BitsSet(mask))
  <2>1. CoversAddress(s, z) <=> \E k \in 1..4 : \E m \in Address : Masked(s, k, m) /\ Agree(x(k), z, BitsSet(m))
    BY CoversMasked DEF x
  <2>2. QED BY <1>1, <1>3, <2>1
<1>6. mask # NoPair => (Agree(x(n), y, BitsSet(mask)) <=> mask_addr(y, mask) = mask_addr(x(n), mask))
  BY <1>1, <1>2, SameMasked
<1>7. IsNetwork(s) <=> mask # NoPair
  <2>1. IsNetwork(s) <=> \E k \in 1..4 : Dotted(s, 1, k) /\ CoversAddress(s, x(k))
    BY Zenon DEF IsNetwork, x
  <2>2. Agree(x(n), x(n), BitsSet(mask))
    BY DEF Agree
  <2>3. QED BY <1>1, <1>4, <1>5, <2>1, <2>2
<1>8. QED
  BY <1>2, <1>5, <1>6, <1>7 DEF mask

LEMMA NamedIs ==
  ASSUME NEW s \in Seq(Token), NEW u
  PROVE  After(u, s) \in Seq(Token) /\ downcase(s) # NULL
<1>1. Len(s) \in Nat /\ DOMAIN s = 1..Len(s) /\ \A i \in 1..Len(s) : s[i] \in Token
  BY LenProperties, ElementOfSeq
<1>2. After(u, s) \in Seq(Token)
  <2>1. s # <<>> => Tail(s) \in Seq(Token)
    BY HeadTailProperties
  <2>2. QED BY <2>1 DEF After
<1>3. ASSUME downcase(s) = NULL PROVE FALSE
  <2>1. DOMAIN downcase(s) = 1..Len(s)
    BY <1>1 DEF downcase
  <2>2. DOMAIN NULL = 1..1 /\ NULL[1] = "NULL"
    BY DEF NULL
  <2>3. 1 \in 1..Len(s)
    BY <1>3, <2>1, <2>2
  <2>4. downcase(s)[1] = IF s[1] \in DOMAIN Lower THEN Lower[s[1]] ELSE s[1]
    BY <1>1, <2>3 DEF downcase
  <2>5. downcase(s)[1] \in Token
    BY <1>1, <2>3, <2>4, DirectAssumption
  <2>6. QED BY <1>3, <2>2, <2>5 DEF Token
<1>4. QED
  BY <1>2, <1>3

(***************************************************************************)
(* The names of a text.                                                    *)
(***************************************************************************)
LEMMA ReverseIs ==
  ASSUME NEW S, NEW s \in Seq(S)
  PROVE  /\ Reverse(s) \in Seq(S) /\ Len(Reverse(s)) = Len(s)
         /\ \A i \in 1..Len(s) : Reverse(s)[i] = s[Len(s) - i + 1]
<1>1. Len(s) \in Nat /\ \A i \in 1..Len(s) : s[i] \in S
  BY LenProperties, ElementOfSeq
<1>2. \A i \in 1..Len(s) : Len(s) - i + 1 \in 1..Len(s)
  BY <1>1
<1>3. Reverse(s) = [i \in 1..Len(s) |-> s[Len(s) - i + 1]]
  BY DEF Reverse
<1>4. Reverse(s) \in [1..Len(s) -> S] /\ DOMAIN Reverse(s) = 1..Len(s)
  BY <1>1, <1>2, <1>3
<1>5. Reverse(s) \in Seq(S)
  BY <1>1, <1>4, SeqDef
<1>6. QED
  BY <1>1, <1>3, <1>4, <1>5, LenProperties

LEMMA SuffixIs ==
  ASSUME NEW S, NEW a \in Seq(S), NEW b \in Seq(S)
  PROVE  IsSuffix(b, a) <=> Len(b) <= Len(a) /\ \A i \in 1..Len(b) : a[Len(a) - Len(b) + i] = b[i]
<1> DEFINE n == Len(b)  ra == Reverse(a)  rb == Reverse(b)
<1>1. /\ Len(a) \in Nat /\ n \in Nat /\ ra \in Seq(S) /\ rb \in Seq(S) /\ Len(ra) = Len(a) /\ Len(rb) = n
      /\ \A i \in 1..Len(a) : ra[i] = a[Len(a) - i + 1]
      /\ \A i \in 1..n : rb[i] = b[n - i + 1]
  BY LenProperties, ReverseIs
<1>2. IsSuffix(b, a) <=> n <= Len(a) /\ SubSeq(rb, 1, n) = SubSeq(ra, 1, n)
  BY <1>1 DEF IsSuffix, IsPrefix
<1> HIDE DEF n, ra, rb
<1>3. ASSUME n <= Len(a)
      PROVE  SubSeq(rb, 1, n) = SubSeq(ra, 1, n) <=> \A i \in 1..n : ra[i] = rb[i]
  <2>1. \A i \in 1..n : i \in 1..Len(a) /\ ra[i] \in S /\ rb[i] \in S
    BY <1>1, <1>3, ElementOfSeq
  <2>2. /\ SubSeq(rb, 1, n) \in Seq(S) /\ Len(SubSeq(rb, 1, n)) = n
        /\ \A i \in 1..n : SubSeq(rb, 1, n)[i] = rb[i]
        /\ SubSeq(ra, 1, n) \in Seq(S) /\ Len(SubSeq(ra, 1, n)) = n
        /\ \A i \in 1..n : SubSeq(ra, 1, n)[i] = ra[i]
    <3>1. /\ SubSeq(rb, 1, n) \in Seq(S) /\ Len(SubSeq(rb, 1, n)) = (IF 1 <= n THEN n - 1 + 1 ELSE 0)
          /\ \A i \in 1..n - 1 + 1 : SubSeq(rb, 1, n)[i] = rb[1 + i - 1]
      BY <1>1, <2>1, SubSeqProperties
    <3>2. /\ SubSeq(ra, 1, n) \in Seq(S) /\ Len(SubSeq(ra, 1, n)) = (IF 1 <= n THEN n - 1 + 1 ELSE 0)
          /\ \A i \in 1..n - 1 + 1 : SubSeq(ra, 1, n)[i] = ra[1 + i - 1]
      BY <1>1, <2>1, SubSeqProperties
    <3>3. n - 1 + 1 = n /\ (IF 1 <= n THEN n - 1 + 1 ELSE 0) = n /\ \A i \in 1..n : 1 + i - 1 = i
      BY <1>1
    <3>4. QED BY <3>1, <3>2, <3>3
  <2>3. QED BY <2>2, SeqEqual
<1>4. ASSUME n <= Len(a)
      PROVE  (\A i \in 1..n : ra[i] = rb[i]) <=> \A i \in 1..n : a[Len(a) - n + i] = b[i]
  <2>1. ASSUME NEW i \in 1..n
        PROVE  /\ i \in 1..Len(a) /\ n - i + 1 \in 1..n /\ n - i + 1 \in 1..Len(a)
               /\ n - (n - i + 1) + 1 = i /\ Len(a) - (n - i + 1) + 1 = Len(a) - n + i
    BY <1>1, <1>4
  <2>2. ASSUME \A i \in 1..n : ra[i] = rb[i], NEW i \in 1..n PROVE a[Len(a) - n + i] = b[i]
    <3>1. PICK j \in 1..n : j = n - i + 1
      BY <2>1
    <3>2. j \in 1..Len(a) /\ Len(a) - j + 1 = Len(a) - n + i /\ n - j + 1 = i
      BY <2>1, <3>1
    <3>3. ra[j] = a[Len(a) - j + 1] /\ rb[j] = b[n - j + 1] /\ ra[j] = rb[j]
      BY <1>1, <2>2, <3>1, <3>2
    <3>4. QED BY <3>2, <3>3
  <2>3. ASSUME \A i \in 1..n : a[Len(a) - n + i] = b[i], NEW i \in 1..n PROVE ra[i] = rb[i]
    <3>1. /\ ra[i] = a[Len(a) - i + 1] /\ rb[i] = b[n - i + 1] /\ Len(a) - n + (n - i + 1) = Len(a) - i + 1
      BY <1>1, <2>1
    <3>2. QED BY <2>1, <2>3, <3>1
  <2>4. QED BY <2>2, <2>3
<1>5. QED
  BY <1>2, <1>3, <1>4 DEF n

\* A name matches what it is, and what ends with a dot and it.
LEMMA DomainIs ==
  ASSUME NEW S, NEW a \in Seq(S), NEW b \in Seq(S)
  PROVE  domain_match(a, b) <=>
           b # <<>> /\ \E p \in 0..Len(a) : SubSeq(a, p + 1, Len(a)) = b /\ (p = 0 \/ a[p] = ".")
<1> DEFINE n == Len(a)  m == Len(b)
<1>1. n \in Nat /\ m \in Nat /\ (a = <<>> <=> n = 0) /\ (b = <<>> <=> m = 0)
  BY LenProperties, EmptySeq
<1>2. IsSuffix(b, a) <=> m <= n /\ \A i \in 1..m : a[n - m + i] = b[i]
  BY SuffixIs
<1> HIDE DEF n, m
<1>3. ASSUME NEW p \in 0..n
      PROVE  SubSeq(a, p + 1, n) = b <=> m = n - p /\ \A i \in 1..m : a[n - m + i] = b[i]
  <2>1. \A i \in p + 1..n : a[i] \in S
    <3>1. \A i \in p + 1..n : i \in 1..Len(a)
      BY <1>1 DEF n
    <3>2. QED BY <3>1, ElementOfSeq
  <2>2. /\ SubSeq(a, p + 1, n) \in Seq(S) /\ Len(SubSeq(a, p + 1, n)) = n - p
        /\ \A i \in 1..n - p : SubSeq(a, p + 1, n)[i] = a[p + i]
    <3>1. /\ SubSeq(a, p + 1, n) \in Seq(S)
          /\ Len(SubSeq(a, p + 1, n)) = IF p + 1 <= n THEN n - (p + 1) + 1 ELSE 0
          /\ \A i \in 1..n - (p + 1) + 1 : SubSeq(a, p + 1, n)[i] = a[p + 1 + i - 1]
      <4>1. p + 1 \in Int /\ n \in Int
        BY <1>1
      <4>2. QED BY <2>1, <4>1, SubSeqProperties
    <3>2. /\ n - (p + 1) + 1 = n - p /\ (IF p + 1 <= n THEN n - (p + 1) + 1 ELSE 0) = n - p
          /\ \A i \in 1..n - p : p + 1 + i - 1 = p + i
      BY <1>1
    <3>3. QED BY <3>1, <3>2
  <2>3. SubSeq(a, p + 1, n) = b <=> m = n - p /\ \A i \in 1..m : a[p + i] = b[i]
    BY <2>2, SeqEqual DEF m
  <2>4. m = n - p => \A i \in 1..m : p + i = n - m + i
    BY <1>1
  <2>5. QED BY <2>3, <2>4
<1>4. ASSUME domain_match(a, b)
      PROVE  b # <<>> /\ \E p \in 0..n : SubSeq(a, p + 1, n) = b /\ (p = 0 \/ a[p] = ".")
  <2>1. b # <<>> /\ IsSuffix(b, a) /\ (n = m \/ a[n - m] = ".")
    BY <1>4 DEF domain_match, n, m
  <2>2. n - m \in 0..n /\ m = n - (n - m) /\ (n = m => n - m = 0)
    BY <1>1, <1>2, <2>1
  <2>3. QED BY <1>2, <1>3, <2>1, <2>2
<1>5. ASSUME b # <<>>, NEW p \in 0..n, SubSeq(a, p + 1, n) = b, p = 0 \/ a[p] = "."
      PROVE  domain_match(a, b)
  <2>1. m = n - p /\ \A i \in 1..m : a[n - m + i] = b[i]
    BY <1>3, <1>5
  <2>2. m <= n /\ n - m = p /\ (p = 0 => n = m) /\ n # 0
    BY <1>1, <1>5, <2>1
  <2>3. QED BY <1>1, <1>2, <1>5, <2>1, <2>2 DEF domain_match, n, m
<1>6. QED
  BY <1>4, <1>5 DEF n

\* A name of the list matches the names that its text covers.
LEMMA NameCovered ==
  ASSUME NEW s \in Seq(Token), NEW host \in Seq(Token)
  PROVE  domain_match(downcase(host), downcase(After(".", After("*", s)))) <=> CoversName(s, downcase(host))
<1>1. ASSUME NEW u \in Seq(Token) PROVE downcase(u) \in Seq(Token)
  <2>1. Len(u) \in Nat /\ DOMAIN u = 1..Len(u) /\ \A i \in 1..Len(u) : u[i] \in Token
    BY LenProperties, ElementOfSeq
  <2>2. \A i \in 1..Len(u) : (IF u[i] \in DOMAIN Lower THEN Lower[u[i]] ELSE u[i]) \in Token
    BY <2>1, DirectAssumption
  <2>3. downcase(u) \in [1..Len(u) -> Token]
    BY <2>1, <2>2 DEF downcase
  <2>4. QED BY <2>1, <2>3, SeqDef
<1>2. After(".", After("*", s)) \in Seq(Token)
  BY NamedIs
<1> DEFINE name == downcase(host)  domain == downcase(After(".", After("*", s)))
<1>3. name \in Seq(Token) /\ domain \in Seq(Token)
  BY <1>1, <1>2
<1>4. CoversName(s, name) <=>
        domain # <<>> /\ \E p \in 0..Len(name) : SubSeq(name, p + 1, Len(name)) = domain /\ (p = 0 \/ name[p] = ".")
  BY DEF CoversName
<1> HIDE DEF name, domain
<1>5. domain_match(name, domain) <=> CoversName(s, name)
  BY <1>3, <1>4, DomainIs
<1>6. QED
  BY <1>5 DEF name, domain

(***************************************************************************)
(* The entries.                                                            *)
(***************************************************************************)
EntryOK(e) ==
  /\ e.negative \in BOOLEAN
  /\ e.name = NULL => {e.addr, e.mask} \subseteq Address

LEMMA EntryIs ==
  ASSUME NEW text \in Seq(Token)
  PROVE  EntryOK(Entry(text))
<1> DEFINE body == Body(text)  t == body \o <<EOS>>
<1>1. body \in Seq(Token)
  BY NamedIs DEF Body
<1> HIDE DEF body
<1>2. Ended(body, t)
  BY <1>1, EndedIs
<1> HIDE DEF t
<1>3. MaskOf(t) = NoPair \/ MaskOf(t) \in Address
  BY <1>2, MaskWritten
<1>4. Octets(Numbers(t, 1)) \in Address
  <2>1. 1 \in 1..Len(body) + 2
    BY <1>2, EndedFacts
  <2>2. QED BY <1>2, <2>1, AddressRead
<1>5. Entry(text) = IF MaskOf(t) = NoPair THEN add_direct_host(body, negative(text))
                    ELSE add_direct_addr(Octets(Numbers(t, 1)), MaskOf(t), negative(text))
  BY DEF Entry, t, body
<1>6. negative(text) \in BOOLEAN
  BY DEF negative
<1>7. EntryOK(add_direct_host(body, negative(text)))
  <2>1. downcase(After(".", After("*", body))) # NULL
    BY <1>1, NamedIs
  <2>2. QED BY <1>6, <2>1 DEF EntryOK, add_direct_host
<1>8. ASSUME MaskOf(t) # NoPair PROVE EntryOK(add_direct_addr(Octets(Numbers(t, 1)), MaskOf(t), negative(text)))
  <2>1. mask_addr(Octets(Numbers(t, 1)), MaskOf(t)) \in Address /\ MaskOf(t) \in Address
    BY <1>3, <1>4, <1>8, MaskedIs
  <2>2. QED BY <1>6, <2>1 DEF EntryOK, add_direct_addr
<1>9. QED
  BY <1>5, <1>7, <1>8

\* What inet_addr() takes for an address has four octets.
LEMMA InetAddress ==
  ASSUME NEW host \in Seq(Token), IsAddress(host) PROVE inet_addr(host) \in Address
<1> DEFINE k == Parts(host)  n == Len(host)  last == Numeral[host[n]]
<1>1. /\ n \in {1, 3, 5, 7} /\ k = (n + 1) \div 2 /\ Len(last) <= 5 - k
      /\ \A i \in 1..k : host[2 * i - 1] \in DOMAIN Numeral
      /\ \A i \in 1..k - 1 : Len(Numeral[host[2 * i - 1]]) = 1
  BY DEF IsAddress, Parts
<1> HIDE DEF k, n, last
<1>2. k \in 1..4 /\ 2 * k - 1 = n
  <2>1. n = 1 => k = 1
    BY <1>1
  <2>2. n = 3 => k = 2
    BY <1>1
  <2>3. n = 5 => k = 3
    BY <1>1
  <2>4. n = 7 => k = 4
    BY <1>1
  <2>5. QED BY <1>1, <2>1, <2>2, <2>3, <2>4
<1>3. ASSUME NEW i \in 1..k
      PROVE  Numeral[host[2 * i - 1]] \in Seq(0..255) /\ Len(Numeral[host[2 * i - 1]]) \in 1..4
  BY <1>1, DirectAssumption
<1>4. last \in Seq(0..255) /\ Len(last) \in 1..4
  <2>1. host[2 * k - 1] = host[n] /\ k \in 1..k
    BY <1>2
  <2>2. QED BY <1>3, <2>1 DEF last
<1>5. ASSUME NEW i \in 1..4, i < k PROVE Numeral[host[2 * i - 1]][1] \in 0..255
  <2>1. i \in 1..k /\ i \in 1..k - 1
    BY <1>2, <1>5
  <2>2. Numeral[host[2 * i - 1]] \in Seq(0..255) /\ Len(Numeral[host[2 * i - 1]]) = 1
    BY <1>1, <1>3, <2>1
  <2> DEFINE part == Numeral[host[2 * i - 1]]
  <2>3. part \in Seq(0..255) /\ 1 \in 1..Len(part)
    BY <2>2
  <2> HIDE DEF part
  <2>4. part[1] \in 0..255
    BY <2>3, ElementOfSeq
  <2>5. QED BY <2>4 DEF part
<1>6. ASSUME NEW i \in 1..4, ~(i < k), ~(i <= 4 - Len(last)) PROVE last[i + Len(last) - 4] \in 0..255
  <2>1. i + Len(last) - 4 \in 1..Len(last)
    BY <1>4, <1>6
  <2>2. QED BY <1>4, <2>1, ElementOfSeq
<1>7. inet_addr(host) = [i \in 1..4 |-> IF i < k THEN Numeral[host[2 * i - 1]][1]
                                       ELSE IF i <= 4 - Len(last) THEN 0 ELSE last[i + Len(last) - 4]]
  BY DEF inet_addr, k, n, last
<1> DEFINE octet(i) == IF i < k THEN Numeral[host[2 * i - 1]][1]
                        ELSE IF i <= 4 - Len(last) THEN 0 ELSE last[i + Len(last) - 4]
<1>8. \A i \in 1..4 : octet(i) \in 0..255
  <2>1. ASSUME NEW i \in 1..4, i < k PROVE octet(i) \in 0..255
    BY <1>5, <2>1
  <2>2. ASSUME NEW i \in 1..4, ~(i < k) PROVE octet(i) \in 0..255
    <3>1. 0 \in 0..255
      OBVIOUS
    <3>2. QED BY <1>6, <2>2, <3>1
  <2>3. QED BY <2>1, <2>2
<1>9. inet_addr(host) = [i \in 1..4 |-> octet(i)]
  BY <1>7
<1> HIDE DEF octet
<1>10. QED
  BY <1>8, <1>9 DEF Address

\* An entry matches a destination when the text that it is made from covers it.
LEMMA EntryCovers ==
  ASSUME NEW text \in Seq(Token), Body(text) # <<>>, NEW host \in Seq(Token)
  PROVE  Covered(Body(text), host) <=> Matches(host, Entry(text))
<1> DEFINE s == Body(text)  t == s \o <<EOS>>  e == Entry(text)
           named == add_direct_host(s, negative(text))
           numbered == add_direct_addr(Octets(Numbers(t, 1)), MaskOf(t), negative(text))
<1>1. s \in Seq(Token)
  BY NamedIs DEF Body
<1>2. Ended(s, t) /\ Len(s) > 0
  <2>1. Len(s) > 0
    BY <1>1, EmptySeq
  <2>2. QED BY <1>1, <2>1, EndedIs
<1>3. e = IF MaskOf(t) = NoPair THEN named ELSE numbered
  BY DEF Entry
<1>4. named.name # NULL /\ named.name = downcase(After(".", After("*", s)))
  <2>1. After(".", After("*", s)) \in Seq(Token)
    BY <1>1, NamedIs
  <2>2. QED BY <2>1, NamedIs DEF add_direct_host
<1>5. /\ numbered.name = NULL /\ numbered.mask = MaskOf(t)
      /\ numbered.addr = mask_addr(Octets(Numbers(t, 1)), MaskOf(t))
  BY DEF add_direct_addr
<1> HIDE DEF s, t, e, named, numbered
<1>6. e.name = NULL <=> MaskOf(t) # NoPair
  BY <1>3, <1>4, <1>5
<1>7. CASE IsAddress(host)
  <2>1. inet_addr(host) \in Address
    BY <1>7, InetAddress
  <2>2. Covered(s, host) <=> CoversAddress(s, inet_addr(host))
    BY <1>7 DEF Covered
  <2>3. Covered(s, host) <=>
          MaskOf(t) # NoPair /\ mask_addr(inet_addr(host), MaskOf(t)) = mask_addr(Octets(Numbers(t, 1)), MaskOf(t))
    BY <1>2, <2>1, <2>2, AddressCovered
  <2>4. Matches(host, e) <=> e.name = NULL /\ mask_addr(inet_addr(host), e.mask) = e.addr
    BY <1>7 DEF Matches
  <2>5. QED BY <1>3, <1>5, <1>6, <2>3, <2>4 DEF s, e
<1>8. CASE ~IsAddress(host)
  <2>1. Covered(s, host) <=> ~IsNetwork(s) /\ CoversName(s, downcase(host))
    BY <1>8 DEF Covered
  <2>2. IsNetwork(s) <=> MaskOf(t) # NoPair
    <3>1. [i \in 1..4 |-> 0] \in Address
      BY DEF Address
    <3>2. QED BY <1>2, <3>1, AddressCovered
  <2>3. Matches(host, e) <=> e.name # NULL /\ domain_match(downcase(host), e.name)
    BY <1>8 DEF Matches
  <2>4. domain_match(downcase(host), named.name) <=> CoversName(s, downcase(host))
    BY <1>1, <1>4, NameCovered
  <2>5. QED BY <1>3, <1>6, <2>1, <2>2, <2>3, <2>4 DEF s, e
<1>9. QED
  BY <1>7, <1>8

LEMMA TwoMin ==
  ASSUME NEW a \in Nat, NEW b \in Nat
  PROVE  Min({a, b}) \in Nat /\ Min({a, b}) = IF a <= b THEN a ELSE b
<1>1. Min({a, b}) \in {a, b} /\ \A y \in {a, b} : Min({a, b}) <= y
  BY MinExists
<1>2. QED
  BY <1>1

LEMMA TableIs ==
  ASSUME NEW texts \in Seq(Seq(Token))
  PROVE  /\ DOMAIN Table(texts) = 1..Min({MaxDirect, Len(texts)}) /\ Len(Table(texts)) <= MaxDirect
         /\ DOMAIN Table(texts) \subseteq DOMAIN texts
         /\ \A i \in DOMAIN Table(texts) : Table(texts)[i] = Entry(texts[i]) /\ EntryOK(Table(texts)[i])
<1> DEFINE n == Min({Len(texts), MaxDirect})
<1>1. DOMAIN texts = 1..Len(texts) /\ Len(texts) \in Nat /\ MaxDirect \in Nat
  BY LenProperties, DirectAssumption
<1>2. n \in Nat /\ n <= MaxDirect /\ n <= Len(texts) /\ n = Min({MaxDirect, Len(texts)})
  <2>1. {Len(texts), MaxDirect} = {MaxDirect, Len(texts)}
    OBVIOUS
  <2>2. n \in Nat /\ n = IF Len(texts) <= MaxDirect THEN Len(texts) ELSE MaxDirect
    BY <1>1, TwoMin
  <2>3. n = Min({MaxDirect, Len(texts)})
    BY <2>1
  <2> HIDE DEF n
  <2>4. QED BY <1>1, <2>2, <2>3
<1>3. Table(texts) = [i \in 1..n |-> Entry(texts[i])]
  BY DEF Table
<1> HIDE DEF n
<1>4. Len(Table(texts)) = n
  <2> DEFINE S == {Entry(texts[i]) : i \in 1..n}
  <2>1. Table(texts) \in [1..n -> S]
    BY <1>3
  <2> HIDE DEF S
  <2>2. Table(texts) \in Seq(S)
    <3>1. n \in Nat
      BY <1>2
    <3>2. QED BY ONLY <2>1, <3>1, SeqDef
  <2>3. QED BY <1>2, <1>3, <2>2, LenProperties
<1>5. ASSUME NEW i \in 1..n PROVE EntryOK(Entry(texts[i])) /\ i \in DOMAIN texts
  <2>1. i \in 1..Len(texts)
    BY <1>1, <1>2
  <2>2. texts[i] \in Seq(Token)
    BY <2>1, ElementOfSeq
  <2>3. QED BY <1>1, <2>1, <2>2, EntryIs
<1>6. QED
  BY <1>2, <1>3, <1>4, <1>5

(***************************************************************************)
(* The list is what the variables say, and decides how main() connects.    *)
(***************************************************************************)
Phases == {"init", "retry", "open", "request", "answer"} \cup Over

Choice ==
  /\ mpc \in Phases /\ peer \in {"none", "open", "closed", "reset"}
  /\ asked \in Methods /\ socks_version \in {4, 5} /\ params \in Params /\ dest_host \in Hosts
  /\ direct_addr_list = IF mpc = "init" THEN <<>> ELSE Table(EnvAsked)
  /\ relay_method = IF mpc \notin {"init", "retry"} /\ check_direct(dest_host) THEN METHOD_DIRECT ELSE asked

LEMMA TwoKeys ==
  ASSUME NEW a, NEW b
  PROVE  <<a>> \o <<b>> = <<a, b>>
<1> DEFINE S == {a, b}  s == <<a>>  t == <<a, b>>
<1>1. /\ b \in S /\ s \in Seq(S) /\ t \in Seq(S)
      /\ Len(s) = 1 /\ Len(t) = 1 + 1 /\ t[1 + 1] = b /\ \A i \in 1..1 : t[i] = s[i]
  OBVIOUS
<1> HIDE DEF S, s, t
<1>2. s \o <<b>> = t
  BY <1>1, Appended
<1>3. QED BY <1>2 DEF s, t

LEMMA ThreeKeys ==
  ASSUME NEW a, NEW b, NEW c
  PROVE  <<a, b>> \o <<c>> = <<a, b, c>>
<1> DEFINE S == {a, b, c}  s == <<a, b>>  t == <<a, b, c>>
<1>1. /\ c \in S /\ s \in Seq(S) /\ t \in Seq(S)
      /\ Len(s) = 2 /\ Len(t) = 2 + 1 /\ t[2 + 1] = c /\ \A i \in 1..2 : t[i] = s[i]
  OBVIOUS
<1> HIDE DEF S, s, t
<1>2. s \o <<c>> = t
  BY <1>1, Appended
<1>3. QED BY <1>2 DEF s, t

\* The variables that the program looks at are those of the method that is asked for.
LEMMA EnvIsAsked ==
  ASSUME relay_method = asked, asked \in Methods, socks_version \in {4, 5}
  PROVE  Env = EnvAsked
<1> DEFINE names == CASE asked = METHOD_SOCKS /\ socks_version = 5 -> <<"SOCKS5_DIRECT", "SOCKS_DIRECT", "CONNECT_DIRECT">>
                      [] asked = METHOD_SOCKS /\ socks_version = 4 -> <<"SOCKS4_DIRECT", "SOCKS_DIRECT", "CONNECT_DIRECT">>
                      [] asked = METHOD_HTTP -> <<"HTTP_DIRECT", "CONNECT_DIRECT">>
                      [] OTHER -> <<"CONNECT_DIRECT">>
<1>1. Keys = names
  <2>1. CASE asked = METHOD_SOCKS /\ socks_version = 5
    <3>1. Keys = <<"SOCKS5_DIRECT", "SOCKS_DIRECT">> \o <<"CONNECT_DIRECT">>
      BY <2>1 DEF Keys, METHOD_SOCKS, METHOD_HTTP
    <3>2. names = <<"SOCKS5_DIRECT", "SOCKS_DIRECT", "CONNECT_DIRECT">>
      BY <2>1 DEF METHOD_SOCKS, METHOD_HTTP
    <3> HIDE DEF names
    <3>3. QED BY <3>1, <3>2, ThreeKeys, Zenon
  <2>2. CASE asked = METHOD_SOCKS /\ socks_version = 4
    <3>1. Keys = <<"SOCKS4_DIRECT", "SOCKS_DIRECT">> \o <<"CONNECT_DIRECT">>
      BY <2>2 DEF Keys, METHOD_SOCKS, METHOD_HTTP
    <3>2. names = <<"SOCKS4_DIRECT", "SOCKS_DIRECT", "CONNECT_DIRECT">>
      BY <2>2 DEF METHOD_SOCKS, METHOD_HTTP
    <3> HIDE DEF names
    <3>3. QED BY <3>1, <3>2, ThreeKeys, Zenon
  <2>3. CASE asked = METHOD_HTTP
    <3>1. Keys = <<"HTTP_DIRECT">> \o <<"CONNECT_DIRECT">>
      BY <2>3 DEF Keys, METHOD_SOCKS, METHOD_HTTP
    <3>2. names = <<"HTTP_DIRECT", "CONNECT_DIRECT">>
      BY <2>3 DEF METHOD_SOCKS, METHOD_HTTP
    <3> HIDE DEF names
    <3>3. QED BY <3>1, <3>2, TwoKeys, Zenon
  <2>4. CASE asked # METHOD_SOCKS /\ asked # METHOD_HTTP
    <3>1. Keys = <<>> \o <<"CONNECT_DIRECT">>
      BY <2>4 DEF Keys
    <3>2. QED BY <2>4, <3>1
  <2>5. QED BY <2>1, <2>2, <2>3, <2>4
<1>2. EnvAsked = getparam(names)
  BY Zenon DEF EnvAsked, getparam
<1> HIDE DEF names
<1>3. QED
  BY <1>1, <1>2 DEF Env

LEMMA TextsAre ==
  ASSUME params \in Params
  PROVE  EnvAsked \in Seq(Seq(Token))
<1> DEFINE names == CASE asked = METHOD_SOCKS /\ socks_version = 5 -> <<"SOCKS5_DIRECT", "SOCKS_DIRECT", "CONNECT_DIRECT">>
                      [] asked = METHOD_SOCKS /\ socks_version = 4 -> <<"SOCKS4_DIRECT", "SOCKS_DIRECT", "CONNECT_DIRECT">>
                      [] asked = METHOD_HTTP -> <<"HTTP_DIRECT", "CONNECT_DIRECT">>
                      [] OTHER -> <<"CONNECT_DIRECT">>
           set == {i \in DOMAIN names : names[i] \in DOMAIN params}
<1>1. DOMAIN names \subseteq Nat
  OBVIOUS
<1>2. EnvAsked = IF set = {} THEN <<>> ELSE params[names[Min(set)]]
  BY Zenon DEF EnvAsked
<1> HIDE DEF names
<1>3. set # {} => Min(set) \in set
  BY <1>1, MinExists
<1>4. set # {} => names[Min(set)] \in DOMAIN params
  BY <1>3
<1>5. \A k \in DOMAIN params : params[k] \in Seq(Seq(Token))
  BY DirectAssumption
<1>6. <<>> \in Seq(Seq(Token))
  BY EmptySeq
<1> HIDE DEF set
<1>7. QED
  BY <1>2, <1>4, <1>5, <1>6

LEMMA StartChoice == Init => Choice
<1> SUFFICES ASSUME Init PROVE Choice
  OBVIOUS
<1>1. socks_version \in {4, 5}
  BY DirectAssumption DEF Init, DirectInit
<1>2. QED
  BY <1>1 DEF Init, DirectInit, Choice, Phases

LEMMA StepChoice == Choice /\ [Next]_vars => Choice'
<1> SUFFICES ASSUME Choice, [Next]_vars PROVE Choice'
  OBVIOUS
<1>1. ASSUME UNCHANGED direct
      PROVE  /\ asked' \in Methods /\ socks_version' \in {4, 5} /\ params' \in Params /\ dest_host' \in Hosts
             /\ Table(EnvAsked)' = Table(EnvAsked) /\ direct_addr_list' = direct_addr_list
             /\ relay_method' = relay_method /\ asked' = asked
             /\ check_direct(dest_host)' = check_direct(dest_host)
  <2>1. UNCHANGED <<relay_method, socks_version, asked, dest_host, params, direct_addr_list>>
    BY <1>1 DEF direct
  <2>2. EnvAsked' = EnvAsked
    BY <2>1 DEF EnvAsked
  <2>3. Table(EnvAsked)' = Table(EnvAsked)
    BY <2>2 DEF Table, Entry, add_direct_host, add_direct_addr
  <2>4. check_direct(dest_host)' = check_direct(dest_host)
    BY <2>1 DEF check_direct
  <2>5. QED BY <2>1, <2>3, <2>4 DEF Choice
<1>2. CASE initialize_direct_addr /\ UNCHANGED <<buf, stream, pos>>
  <2>1. /\ mpc = "init" /\ mpc' = "retry" /\ direct_addr_list' = Table(Env)
        /\ UNCHANGED <<relay_method, socks_version, asked, dest_host, params>> /\ peer' = peer
    BY <1>2 DEF initialize_direct_addr, stream
  <2>2. Env = EnvAsked
    BY <2>1, EnvIsAsked DEF Choice
  <2>3. EnvAsked' = EnvAsked
    BY <2>1 DEF EnvAsked
  <2>4. Table(EnvAsked)' = Table(Env)
    BY <2>2, <2>3 DEF Table
  <2>5. QED BY <2>1, <2>4 DEF Choice, Phases
<1>3. CASE CheckDirect /\ UNCHANGED <<buf, stream, pos>>
  <2>1. /\ mpc = "retry" /\ mpc' = "open"
        /\ relay_method' = IF check_direct(dest_host) THEN METHOD_DIRECT ELSE relay_method
        /\ UNCHANGED <<socks_version, asked, dest_host, params, direct_addr_list>> /\ peer' = peer
    BY <1>3 DEF CheckDirect, stream
  <2>2. EnvAsked' = EnvAsked
    BY <2>1 DEF EnvAsked
  <2>3. Table(EnvAsked)' = Table(EnvAsked)
    BY <2>2 DEF Table
  <2>4. check_direct(dest_host)' = check_direct(dest_host)
    BY <2>1 DEF check_direct
  <2>5. QED BY <2>1, <2>3, <2>4 DEF Choice, Phases
<1>4. ASSUME UNCHANGED direct, mpc' \in Phases, mpc' = mpc \/ (mpc' \notin {"init", "retry"} /\ mpc \notin {"init", "retry"}),
             peer' \in {"none", "open", "closed", "reset"}
      PROVE  Choice'
  BY <1>1, <1>4 DEF Choice
<1>5. CASE OpenConnection \/ OpenFails \/ Request \/ RequestFails
  BY <1>4, <1>5 DEF Choice, OpenConnection, OpenFails, Request, RequestFails, stream, Phases, Over
<1>6. CASE ReadLine \/ ReadFails \/ TimedOut
  <2>1. ReadLine => mpc' \in {"failed", "relaying", "answer"}
    BY VerdictFacts DEF ReadLine
  <2>2. QED BY <1>4, <1>6, <2>1 DEF Choice, ReadLine, ReadFails, TimedOut, stream, Phases, Over
<1>7. CASE Answer \/ Arrive \/ ProxyLeaves
  BY <1>4, <1>7 DEF Choice, Answer, Arrive, ProxyLeaves, Leaves
<1>8. CASE UNCHANGED vars
  BY <1>4, <1>8 DEF Choice, vars, stream
<1>9. QED
  BY <1>2, <1>3, <1>5, <1>6, <1>7, <1>8 DEF Next, Program, Start

\* Types; the table holds its limit, and a line with its NUL fits the buffer.
THEOREM TypeCorrect == Spec => []TypeOK
<1>1. Inv /\ Choice => TypeOK
  <2> SUFFICES ASSUME Inv, Choice PROVE TypeOK
    OBVIOUS
  <2>1. /\ DOMAIN buf = 1..Size /\ arrived \in 0..Len(reply) /\ pos \in 0..arrived
        /\ header \in 0..Len(reply)
    BY LenProperties DEF Inv, Streams, Stream
  <2>2. EnvAsked \in Seq(Seq(Token))
    BY TextsAre DEF Choice
  <2>3. Len(direct_addr_list) <= MaxDirect /\ \A i \in DOMAIN direct_addr_list : EntryOK(direct_addr_list[i])
    <3>1. CASE mpc = "init"
      <4>1. direct_addr_list = <<>> /\ Len(<<>>) = 0 /\ DOMAIN <<>> = {}
        BY <3>1, EmptySeq DEF Choice
      <4>2. QED BY <4>1, DirectAssumption
    <3>2. CASE mpc # "init"
      BY <2>2, <3>2, TableIs DEF Choice
    <3>3. QED BY <3>1, <3>2
  <2>4. relay_method \in {asked, METHOD_DIRECT}
    BY DEF Choice
  <2>5. DirectTypeOK
    BY <2>3, <2>4 DEF DirectTypeOK, EntryOK, Address
  <2>6. QED BY <2>1, <2>5 DEF TypeOK, StreamTypeOK, Choice, Phases
<1>2. QED
  BY <1>1, StartInv, StepInv, StartChoice, StepChoice, PTL DEF Spec

LEMMA ChoiceCovers == Choice => EntriesMatch
<1> SUFFICES ASSUME Choice, NEW i \in DOMAIN EnvAsked, Body(EnvAsked[i]) # <<>>
             PROVE  Covers(i) <=> Matches(dest_host, Entry(EnvAsked[i]))
  BY DEF EntriesMatch
<1>1. EnvAsked \in Seq(Seq(Token))
  BY TextsAre DEF Choice
<1>2. EnvAsked[i] \in Seq(Token)
  BY <1>1, LenProperties, ElementOfSeq
<1>3. dest_host \in Seq(Token)
  BY DirectAssumption DEF Choice
<1>4. QED
  BY <1>2, <1>3, EntryCovers DEF Covers

\* Whatever the lists hold, and in whatever form an address, a mask or a name is written in
\* them: the entry that parse_addr_pair() and add_direct_host() make of a text matches the
\* destinations that the text covers, and no others.
THEOREM EntriesCover == Spec => []EntriesMatch
BY ChoiceCovers, StartChoice, StepChoice, PTL DEF Spec

\* Whatever the lists hold and however many texts they have: a destination is reached
\* without the relay when the options say so or when the first text that covers it has no "!".
THEOREM FirstCover == Spec => []FirstCoverDecides
<1>1. Choice => FirstCoverDecides
  <2> SUFFICES ASSUME Choice, mpc \notin {"init", "retry"},
                      \A i \in InTable : Body(EnvAsked[i]) # <<>>
               PROVE  relay_method = METHOD_DIRECT <=> asked = METHOD_DIRECT \/ Listed
    BY DEF FirstCoverDecides
  <2> DEFINE T == direct_addr_list
             hits == {i \in DOMAIN T : Matches(dest_host, T[i])}
  <2>1. EnvAsked \in Seq(Seq(Token)) /\ T = Table(EnvAsked)
    BY TextsAre DEF Choice
  <2>2. /\ DOMAIN T = InTable /\ InTable \subseteq DOMAIN EnvAsked
        /\ \A i \in InTable : T[i] = Entry(EnvAsked[i])
    BY <2>1, TableIs DEF InTable
  <2>3. InTable \subseteq Nat /\ \A i \in InTable : \A j \in 1..i - 1 : j \in InTable
    <3> DEFINE n == Min({MaxDirect, Len(EnvAsked)})
    <3>1. n \in Nat /\ InTable = 1..n
      BY <2>1, TwoMin, LenProperties, DirectAssumption DEF InTable
    <3> HIDE DEF n
    <3>2. QED BY <3>1
  <2>4. \A i \in InTable : T[i].negative = negative(EnvAsked[i])
    <3>1. \A text : Entry(text).negative = negative(text)
      BY DEF Entry, add_direct_host, add_direct_addr
    <3>2. QED BY <2>2, <3>1
  <2>5. \A i \in InTable : Covers(i) <=> Matches(dest_host, T[i])
    BY <2>2, ChoiceCovers DEF EntriesMatch
  <2> HIDE DEF T
  <2>6. hits = {i \in InTable : Covers(i)}
    BY <2>2, <2>5
  <2>7. check_direct(dest_host) <=> hits # {} /\ ~T[Min(hits)].negative
    BY DEF check_direct, T
  <2> HIDE DEF hits
  <2>8. /\ hits \subseteq Nat
        /\ hits # {} => Min(hits) \in hits /\ \A j \in hits : Min(hits) <= j
    BY <2>3, <2>6, MinExists
  <2>9. check_direct(dest_host) => Listed
    <3> SUFFICES ASSUME check_direct(dest_host) PROVE Listed
      OBVIOUS
    <3>1. Min(hits) \in InTable /\ Covers(Min(hits)) /\ ~negative(EnvAsked[Min(hits)])
      BY <2>3, <2>4, <2>6, <2>7, <2>8
    <3>2. ASSUME NEW j \in 1..Min(hits) - 1 PROVE ~Covers(j)
      <4>1. j \in InTable
        BY <2>3, <3>1
      <4>2. j \in hits => Min(hits) <= j
        BY <2>8
      <4>3. Min(hits) \in Nat
        BY <2>3, <3>1
      <4>4. ~(Min(hits) <= j)
        BY <4>3
      <4>5. QED BY <2>6, <4>1, <4>2, <4>4
    <3>3. QED BY <3>1, <3>2 DEF Listed
  <2>10. Listed => check_direct(dest_host)
    <3> SUFFICES ASSUME NEW i \in InTable, Covers(i), ~negative(EnvAsked[i]), \A j \in 1..i - 1 : ~Covers(j)
                 PROVE  check_direct(dest_host)
      BY DEF Listed
    <3>1. i \in hits /\ Min(hits) \in hits /\ Min(hits) <= i
      BY <2>3, <2>6, <2>8
    <3>2. Min(hits) \notin 1..i - 1 /\ Min(hits) \in InTable
      BY <2>6, <3>1
    <3>3. Min(hits) = i
      BY <2>3, <3>1, <3>2 DEF InTable
    <3>4. QED BY <2>4, <2>7, <3>1, <3>3
  <2>11. QED
    BY <2>9, <2>10 DEF Choice
<1>2. QED
  BY <1>1, StartChoice, StepChoice, PTL DEF Spec

(***************************************************************************)
(* Connecting gets on.                                                     *)
(***************************************************************************)
Stage ==
  CASE mpc = "init"    -> 0
    [] mpc = "retry"   -> 1
    [] mpc = "open"    -> 2
    [] mpc = "request" -> 3
    [] mpc = "answer"  -> 4
    [] OTHER           -> 5

\* A step goes to a later stage, or past a line of the answer.
Onward == Stage' > Stage \/ (mpc = "answer" /\ mpc' = "answer" /\ pos' > pos)

\* An empty line is the end of what a proxy that has left has sent; the loop leaves on it.
LEMMA ReadOnward == Streams /\ ReadLine => Onward
<1> SUFFICES ASSUME Streams, ReadLine PROVE Onward
  OBVIOUS
<1>1. /\ Stream /\ LineReady /\ pos' = pos + Len(Line) /\ mpc = "answer"
      /\ buf' = downcase(NewBuf) /\ mpc' = Verdict(Str(buf', 1))
  BY DEF Streams, ReadLine, LineRead
<1>2. mpc' \in {"failed", "relaying", "answer"}
  BY <1>1, VerdictFacts
<1>3. CASE mpc' # "answer"
  BY <1>1, <1>2, <1>3 DEF Onward, Stage
<1>4. CASE mpc' = "answer"
  <2>1. Line \in Text /\ Len(Line) < Size /\ NewBuf = Filled(buf, Line)
        /\ buf \in Seq(Char) /\ Len(buf) = Size
    BY <1>1, LineFacts, ReadStream DEF Stream
  <2>2. Str(buf', 1) = downcase(Line) /\ Len(downcase(Line)) = Len(Line)
    <3>1. Str(buf', 1) = downcase(Line)
      BY <1>1, <2>1, ReadBack
    <3>2. Line \in Seq(Char)
      BY <2>1, ElementOfSeq, LenProperties DEF Text, Char
    <3>3. QED
      BY <3>1, <3>2, Lowered
  <2>3. Str(buf', 1) # <<>>
    BY <1>1, <1>4, Zenon DEF Verdict
  <2>4. Len(Line) \in Nat /\ Len(Line) # 0
    BY <2>1, <2>2, <2>3, EmptySeq, LenProperties DEF Text
  <2>5. QED
    BY <1>1, <1>4, <2>4, Places DEF Onward
<1>5. QED
  BY <1>3, <1>4

LEMMA OtherOnward ==
  ASSUME mpc \in Phases,
         \/ Start \/ OpenConnection \/ OpenFails \/ Request \/ RequestFails \/ ReadFails
         \/ TimedOut
  PROVE  Onward
<1>1. CASE Start
  <2>1. (mpc = "init" /\ mpc' = "retry") \/ (mpc = "retry" /\ mpc' = "open")
    BY <1>1 DEF Start, initialize_direct_addr, CheckDirect
  <2>2. QED
    BY <2>1 DEF Stage, Onward
<1>2. CASE OpenConnection \/ OpenFails
  <2>1. mpc = "open" /\ mpc' \in {"relaying", "request", "negotiating", "failed"}
    BY <1>2 DEF OpenConnection, OpenFails
  <2>2. QED
    BY <2>1 DEF Stage, Onward
<1>3. CASE Request \/ RequestFails \/ ReadFails
  <2>1. (mpc = "request" /\ mpc' \in {"answer", "failed"}) \/ (mpc = "answer" /\ mpc' = "failed")
    BY <1>3 DEF Request, RequestFails, ReadFails
  <2>2. QED
    BY <2>1 DEF Stage, Onward
<1>4. CASE TimedOut
  <2>1. mpc \in {"open", "request", "answer"} /\ mpc' = "timed out"
    BY <1>4 DEF TimedOut, Phases, Over
  <2>2. Stage \in {2, 3, 4}
    BY ONLY <2>1 DEF Stage
  <2>3. Stage' = 5
    BY ONLY <2>1 DEF Stage
  <2>4. QED
    BY <2>2, <2>3 DEF Onward
<1>5. QED
  BY <1>1, <1>2, <1>3, <1>4

\* Whatever the proxy answers and however it arrives, each step of the program goes to a later
\* stage or reads at least a byte of the answer: the loop over its lines comes to an end with the
\* answer, also when the proxy closes the connection, unlike the loops of the HTTP relay.
THEOREM ConnectingAdvances ==
  Spec => [][IF Program \/ TimedOut
               THEN Onward
               ELSE UNCHANGED <<mpc, pos>> /\ arrived' >= arrived]_vars
<1>1. ASSUME Streams, mpc \in Phases, [Next]_vars
      PROVE  IF Program \/ TimedOut THEN Onward ELSE UNCHANGED <<mpc, pos>> /\ arrived' >= arrived
  <2>1. CASE Program \/ TimedOut
    BY <1>1, <2>1, ReadOnward, OtherOnward DEF Program
  <2>2. CASE ~(Program \/ TimedOut)
    <3>1. Answer \/ Arrive \/ ProxyLeaves \/ UNCHANGED vars
      BY <1>1, <2>2 DEF Next
    <3>2. UNCHANGED <<mpc, pos>>
      BY <3>1 DEF Answer, Arrive, ProxyLeaves, vars
    <3>3. arrived' = arrived \/ \E n \in arrived + 1..Len(reply) : arrived' = n
      BY <3>1 DEF Answer, Arrive, Arrives, ProxyLeaves, vars, stream
    <3>4. arrived' >= arrived
      BY <1>1, <3>3, AnswerPlaces
    <3>5. QED
      BY <2>2, <3>2, <3>4
  <2>3. QED
    BY <2>1, <2>2
<1>2. Inv /\ Choice /\ [Next]_vars
        => [IF Program \/ TimedOut
              THEN Onward
              ELSE UNCHANGED <<mpc, pos>> /\ arrived' >= arrived]_vars
  BY <1>1 DEF Inv, Choice
<1>3. QED
  BY <1>2, StartInv, StepInv, StartChoice, StepChoice, PTL DEF Spec
=============================================================================
