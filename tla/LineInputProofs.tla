-------------------------- MODULE LineInputProofs --------------------------
(***************************************************************************)
(* What is proved of line_input(), for any stream, however it arrives, and *)
(* any size of the buffer: what it returns and leaves in the buffer, and   *)
(* where it stops: at the end of a line, or in one that is too long, a     *)
(* multiple of Size - 1 behind its beginning.  The proofs of its callers   *)
(* rest on this.                                                           *)
(***************************************************************************)
EXTENDS LineInput, SequenceTheorems, WellFoundedInduction, TLAPS

\* What a buffer holds.
Char == STRING \cup {NUL}

\* The stream that is read, and the buffer.
Stream ==
  /\ reply \in Text
  /\ buf \in Seq(Char) /\ Len(buf) = Size
  /\ arrived \in 0..Len(reply) /\ pos \in 0..arrived

\* A line that begins at i goes on behind k, where it has been cut.
CutAt(i, k) ==
  /\ i = 1 \/ reply[i - 1] = LF
  /\ \A n \in i..k : reply[n] # LF
  /\ k - i + 1 >= Size - 1 /\ (k - i + 1) % (Size - 1) = 0

\* Where the next line is read from.
Aligned ==
  \/ pos = 0
  \/ pos > 0 /\ reply[pos] = LF
  \/ \E i \in 1..pos : CutAt(i, pos)
  \/ peer = "closed" /\ pos = arrived

(***************************************************************************)
(* Sequences, and the least number of a set.                               *)
(***************************************************************************)
LEMMA MinExists ==
  ASSUME NEW T \in SUBSET Nat, T # {}
  PROVE  Min(T) \in T /\ \A y \in T : Min(T) <= y
<1>1. PICK x \in T : \A y \in T : ~(<<y, x>> \in OpToRel(<, Nat))
  BY NatLessThanWellFounded, WFMin
<1>2. \A y \in T : <<y, x>> \in Nat \X Nat /\ ~(y < x)
  BY <1>1, Zenon DEF OpToRel
<1>3. ASSUME NEW y \in T PROVE x <= y
  <2>1. x \in Nat /\ y \in Nat
    OBVIOUS
  <2>2. ~(y < x)
    BY <1>2
  <2>3. QED BY <2>1, <2>2
<1>4. QED
  BY <1>3, Zenon DEF Min

LEMMA Joined ==
  ASSUME NEW S, NEW s \in Seq(S), NEW a \in S, NEW r \in Seq(S)
  PROVE  /\ s \o <<a>> \o r \in Seq(S) /\ Len(s \o <<a>> \o r) = Len(s) + 1 + Len(r)
         /\ (s \o <<a>> \o r)[Len(s) + 1] = a
         /\ \A i \in 1..Len(s) : (s \o <<a>> \o r)[i] = s[i]
<1> DEFINE e == <<a>>  t == s \o e
<1>1. e \in Seq(S) /\ Len(e) = 1 /\ e[1] = a
  OBVIOUS
<1>2. Len(s) \in Nat /\ Len(r) \in Nat
  BY LenProperties
<1> HIDE DEF e
<1>3. /\ t \in Seq(S) /\ Len(t) = Len(s) + 1
      /\ \A i \in 1..Len(s) + 1 : t[i] = IF i <= Len(s) THEN s[i] ELSE e[i - Len(s)]
  <2>1. /\ t \in Seq(S) /\ Len(t) = Len(s) + Len(e)
        /\ \A i \in 1..Len(s) + Len(e) : t[i] = IF i <= Len(s) THEN s[i] ELSE e[i - Len(s)]
    BY <1>1, ConcatProperties, ZenonT(60)
  <2>2. QED BY ONLY <1>1, <2>1
<1>4. Len(s) + 1 \in 1..Len(s) + 1 /\ ~(Len(s) + 1 <= Len(s)) /\ Len(s) + 1 - Len(s) = 1
  BY <1>2
<1>5. t[Len(s) + 1] = a /\ \A i \in 1..Len(s) : i \in 1..Len(s) + 1 /\ t[i] = s[i]
  BY <1>1, <1>2, <1>3, <1>4
<1> HIDE DEF t
<1>6. /\ t \o r \in Seq(S) /\ Len(t \o r) = Len(t) + Len(r)
      /\ \A i \in 1..Len(s) + 1 : (t \o r)[i] = t[i]
  <2>1. Len(t) \in Nat /\ \A i \in 1..Len(s) + 1 : i \in 1..Len(t) + Len(r) /\ i <= Len(t)
    BY <1>2, <1>3
  <2>2. /\ t \o r \in Seq(S) /\ Len(t \o r) = Len(t) + Len(r)
        /\ \A i \in 1..Len(t) + Len(r) : (t \o r)[i] = IF i <= Len(t) THEN t[i] ELSE r[i - Len(t)]
    BY <1>3, ConcatProperties, ZenonT(60)
  <2>3. QED BY <2>1, <2>2
<1>7. QED
  BY <1>2, <1>3, <1>4, <1>5, <1>6 DEF t, e

LEMMA Appended ==
  ASSUME NEW S, NEW s \in Seq(S), NEW c \in S, NEW t \in Seq(S), Len(t) = Len(s) + 1,
         t[Len(s) + 1] = c, \A i \in 1..Len(s) : t[i] = s[i]
  PROVE  s \o <<c>> = t
<1> DEFINE u == <<c>>
<1>1. u \in Seq(S) /\ Len(u) = 1 /\ u[1] = c
  OBVIOUS
<1> HIDE DEF u
<1>2. Len(s) \in Nat
  BY LenProperties
<1>3. /\ s \o u \in Seq(S) /\ Len(s \o u) = Len(s) + 1
      /\ \A i \in 1..Len(s) + 1 : (s \o u)[i] = IF i <= Len(s) THEN s[i] ELSE u[i - Len(s)]
  <2>1. /\ s \o u \in Seq(S) /\ Len(s \o u) = Len(s) + Len(u)
        /\ \A i \in 1..Len(s) + Len(u) : (s \o u)[i] = IF i <= Len(s) THEN s[i] ELSE u[i - Len(s)]
    BY <1>1, ConcatProperties, ZenonT(60)
  <2>2. QED BY <1>1, <2>1
<1>4. ASSUME NEW i \in 1..Len(s) + 1 PROVE (s \o u)[i] = t[i]
  <2>1. CASE i = Len(s) + 1
    BY <1>1, <1>2, <1>3, <2>1
  <2>2. CASE i # Len(s) + 1
    <3>1. i \in 1..Len(s)
      BY <1>2, <2>2
    <3>2. QED BY <1>2, <1>3, <3>1
  <2>3. QED BY <2>1, <2>2
<1>5. s \o u = t
  <2> HIDE DEF u
  <2>1. DOMAIN t = 1..Len(t)
    BY LenProperties
  <2>2. QED BY <1>3, <1>4, SeqEqual
<1>6. QED BY <1>5 DEF u

\* The string in a buffer ends before its first NUL.
LEMMA StrIs ==
  ASSUME NEW b \in Seq(Char), NEW n \in 1..Len(b), b[n] = NUL, NEW p \in 1..n,
         \A i \in p..n - 1 : b[i] # NUL
  PROVE  Str(b, p) = SubSeq(b, p, n - 1)
<1> DEFINE T == {i \in p..Len(b) : b[i] = NUL}
<1>1. Len(b) \in Nat /\ n \in T /\ T \in SUBSET Nat
  BY LenProperties
<1>2. Min(T) \in T /\ Min(T) <= n
  BY <1>1, MinExists
<1>3. Min(T) \notin p..n - 1
  BY <1>2
<1>4. Min(T) = n
  BY <1>1, <1>2, <1>3
<1>5. Str(b, p) = SubSeq(b, p, Min(T) - 1)
  BY DEF Str, First
<1> HIDE DEF T
<1>6. QED
  BY <1>4, <1>5

\* A buffer with a line in it: the line is its string.
Filled(b, s) == s \o <<NUL>> \o SubSeq(b, Len(s) + 2, Size)

LEMMA FilledIs ==
  ASSUME NEW s \in Text, Len(s) < Size, NEW b \in Seq(Char), Len(b) = Size
  PROVE  /\ Filled(b, s) \in Seq(Char) /\ Len(Filled(b, s)) = Size
         /\ Len(s) + 1 \in 1..Size /\ Filled(b, s)[Len(s) + 1] = NUL
         /\ \A i \in 1..Len(s) : Filled(b, s)[i] = s[i] /\ Filled(b, s)[i] # NUL
         /\ Str(Filled(b, s), 1) = s
<1> DEFINE rest == SubSeq(b, Len(s) + 2, Size)
           m    == Filled(b, s)
<1>1. s \in Seq(Char) /\ Len(s) \in Nat /\ Size \in Nat /\ \A i \in 1..Len(s) : s[i] # NUL
  BY LenProperties, ElementOfSeq, LineAssumption DEF Text, Char
<1>2. rest \in Seq(Char) /\ Len(rest) = Size - Len(s) - 1
  BY <1>1, SubSeqProperties, ElementOfSeq
<1>3. NUL \in Char /\ m = s \o <<NUL>> \o rest
  BY DEF Char, Filled
<1> HIDE DEF rest, m
<1>4. /\ m \in Seq(Char) /\ Len(m) = Len(s) + 1 + Len(rest) /\ m[Len(s) + 1] = NUL
      /\ \A i \in 1..Len(s) : m[i] = s[i]
  <2>1. s \in Seq(Char) /\ rest \in Seq(Char) /\ NUL \in Char
    BY <1>1, <1>2, <1>3
  <2> DEFINE t == s \o <<NUL>> \o rest
  <2>2. /\ t \in Seq(Char) /\ Len(t) = Len(s) + 1 + Len(rest) /\ t[Len(s) + 1] = NUL
        /\ \A i \in 1..Len(s) : t[i] = s[i]
    BY ONLY <2>1, Joined DEF t
  <2> HIDE DEF t
  <2>3. m = t
    BY <1>3 DEF t
  <2>4. QED BY <2>2, <2>3
<1>5. Len(m) = Size /\ Len(s) + 1 \in 1..Size
  BY <1>1, <1>2, <1>4
<1>6. \A i \in 1..Len(s) : m[i] = s[i] /\ m[i] # NUL
  BY <1>1, <1>4
<1>7. Str(m, 1) = SubSeq(m, 1, Len(s))
  <2> DEFINE n == Len(s) + 1
  <2>1. n - 1 = Len(s) /\ 1 \in 1..n /\ n \in 1..Len(m) /\ m[n] = NUL
    BY <1>1, <1>4, <1>5
  <2> HIDE DEF n
  <2>2. \A i \in 1..n - 1 : m[i] # NUL
    BY <1>6, <2>1
  <2>3. Str(m, 1) = SubSeq(m, 1, n - 1)
    BY <1>4, <2>1, <2>2, StrIs
  <2>4. QED BY <2>1, <2>3
<1>8. /\ SubSeq(m, 1, Len(s)) \in Seq(Char) /\ Len(SubSeq(m, 1, Len(s))) = Len(s)
      /\ \A i \in 1..Len(s) : SubSeq(m, 1, Len(s))[i] = m[i]
  BY <1>1, <1>4, <1>5, SubSeqProperties, ElementOfSeq
<1>9. SubSeq(m, 1, Len(s)) = s
  BY <1>1, <1>6, <1>8, SeqEqual
<1>10. QED
  BY <1>4, <1>5, <1>6, <1>7, <1>9 DEF m

LEMMA Multiple ==
  ASSUME NEW M \in Nat, M > 0, NEW a \in Nat, a % M = 0
  PROVE  (a + M) % M = 0
<1>1. PICK q \in Int : a = M * q
  <2>1. a = M * (a \div M) + (a % M)
    OBVIOUS
  <2>2. QED BY <2>1
<1>2. a + M = M * (q + 1)
  BY <1>1
<1>3. \A r \in Int : (M * r) % M = 0
  OBVIOUS
<1>4. QED
  BY <1>2, <1>3

(***************************************************************************)
(* Reading a line.                                                         *)
(***************************************************************************)
LEMMA Places ==
  ASSUME Stream
  PROVE  /\ arrived \in Nat /\ pos \in Nat /\ Len(reply) \in Nat /\ Size \in Nat /\ Size > 2
         /\ pos <= arrived /\ arrived <= Len(reply)
BY LenProperties, LineAssumption DEF Stream, Text

\* What line_input() returns, and where it stops.
LEMMA LineFacts ==
  ASSUME Stream, LineReady
  PROVE  /\ Line \in Text /\ Len(Line) < Size /\ pos + Len(Line) \in pos..arrived
         /\ LineEnds # {} => /\ pos + Len(Line) \in LineEnds
                             /\ Line = SubSeq(reply, pos + 1, pos + Len(Line))
                             /\ \A k \in LineEnds : pos + Len(Line) <= k
         /\ LineEnds = {} => pos + Len(Line) = arrived /\ peer = "closed"
<1> DEFINE end == IF LineEnds = {} THEN arrived ELSE Min(LineEnds)
<1>1. LineEnds \in SUBSET Nat /\ LineEnds \subseteq pos + 1..arrived
  BY Places DEF LineEnds
<1>2. LineEnds # {} => end \in LineEnds /\ \A k \in LineEnds : end <= k
  BY <1>1, MinExists
<1>3. end \in Nat /\ pos <= end /\ end <= arrived
  <2>1. LineEnds = {} => end = arrived
    OBVIOUS
  <2>2. LineEnds # {} => end \in pos + 1..arrived
    BY <1>1, <1>2
  <2> HIDE DEF end
  <2>3. QED BY <2>1, <2>2, Places
<1>4. end < pos + Size
  <2>1. CASE LineEnds = {}
    <3>1. end = arrived
      BY <2>1
    <3>2. pos + Size - 1 \notin pos + 1..arrived
      BY <2>1 DEF LineEnds
    <3>3. QED BY <3>1, <3>2, Places
  <2>2. CASE LineEnds # {}
    <3>1. CASE pos + Size - 1 \in pos + 1..arrived
      <4>1. pos + Size - 1 \in LineEnds
        BY <3>1 DEF LineEnds
      <4>2. QED BY <4>1, <1>2, <1>3, Places
    <3>2. CASE pos + Size - 1 \notin pos + 1..arrived
      BY <3>2, <1>3, Places
    <3>3. QED BY <3>1, <3>2
  <2>3. QED BY <2>1, <2>2
<1>5. Line = SubSeq(reply, pos + 1, end)
  BY DEF Line
<1> HIDE DEF end
<1>6. Line \in Text /\ Len(Line) = end - pos
  <2>1. reply \in Seq(STRING \ {NUL})
    BY DEF Stream, Text
  <2>2. \A n \in pos + 1..end : reply[n] \in STRING \ {NUL}
    BY <2>1, <1>3, Places, ElementOfSeq
  <2>3. /\ pos + 1 \in Int /\ end \in Int
        /\ (IF pos + 1 <= end THEN end - (pos + 1) + 1 ELSE 0) = end - pos
    BY <1>3, Places
  <2>4. /\ SubSeq(reply, pos + 1, end) \in Seq(STRING \ {NUL})
        /\ Len(SubSeq(reply, pos + 1, end)) = IF pos + 1 <= end THEN end - (pos + 1) + 1 ELSE 0
    BY <2>2, <2>3, SubSeqProperties
  <2>5. QED BY <1>5, <2>3, <2>4, Zenon DEF Text
<1>7. pos + Len(Line) = end
  BY <1>3, <1>6, Places
<1>8. LineEnds = {} => end = arrived /\ peer = "closed"
  BY DEF end, LineReady
<1>9. Len(Line) < Size
  BY <1>3, <1>4, <1>6, Places
<1>10. pos + Len(Line) \in pos..arrived
  BY <1>3, <1>7, Places
<1>11. QED
  BY <1>2, <1>5, <1>6, <1>7, <1>8, <1>9, <1>10, Zenon

\* The line that has been read is the piece of the stream behind pos.
LEMMA LineIs ==
  ASSUME Stream, LineReady
  PROVE  /\ Line \in Text /\ Len(Line) < Size /\ Len(Line) \in Nat
         /\ \A i \in 1..Len(Line) : Line[i] = reply[pos + i]
<1>1. Line \in Text /\ Len(Line) < Size /\ pos + Len(Line) \in pos..arrived
  BY LineFacts
<1>2. Len(Line) \in Nat
  BY <1>1, LenProperties DEF Text
<1> DEFINE end == IF LineEnds = {} THEN arrived ELSE Min(LineEnds)
<1>3. Line = SubSeq(reply, pos + 1, end)
  BY DEF Line
<1>4. end = pos + Len(Line)
  <2>1. CASE LineEnds = {}
    BY <2>1, LineFacts
  <2>2. CASE LineEnds # {}
    <3>1. LineEnds \in SUBSET Nat
      BY Places DEF LineEnds
    <3>2. Min(LineEnds) \in LineEnds /\ \A k \in LineEnds : Min(LineEnds) <= k
      BY <2>2, <3>1, MinExists
    <3>3. pos + Len(Line) \in LineEnds /\ \A k \in LineEnds : pos + Len(Line) <= k
      BY <2>2, LineFacts
    <3>4. Min(LineEnds) = pos + Len(Line)
      <4>1. Min(LineEnds) \in Nat /\ pos + Len(Line) \in Nat
        BY <3>1, <3>2, <3>3
      <4>2. Min(LineEnds) <= pos + Len(Line) /\ pos + Len(Line) <= Min(LineEnds)
        BY <3>2, <3>3
      <4>3. QED BY <4>1, <4>2
    <3>5. QED BY <2>2, <3>4
  <2>3. QED BY <2>1, <2>2
<1> HIDE DEF end
<1>5. /\ pos \in Nat /\ end \in Nat /\ end <= Len(reply) /\ pos <= end /\ end - pos = Len(Line)
  BY <1>1, <1>2, <1>4, Places
<1>6. reply \in Seq(STRING \ {NUL})
  BY DEF Stream, Text
<1>7. \A k \in pos + 1..end : reply[k] \in STRING \ {NUL}
  <2>1. \A k \in pos + 1..end : k \in 1..Len(reply)
    BY <1>5, Places
  <2>2. QED BY <1>6, <2>1, ElementOfSeq
<1>8. \A i \in 1..end - (pos + 1) + 1 : SubSeq(reply, pos + 1, end)[i] = reply[pos + 1 + i - 1]
  BY <1>5, <1>6, <1>7, SubSeqProperties
<1>9. ASSUME NEW i \in 1..Len(Line) PROVE Line[i] = reply[pos + i]
  <2>1. i \in 1..end - (pos + 1) + 1 /\ pos + 1 + i - 1 = pos + i
    BY <1>2, <1>5
  <2>2. SubSeq(reply, pos + 1, end)[i] = reply[pos + i]
    BY <1>8, <2>1
  <2>3. QED BY <1>3, <2>2
<1>10. QED
  BY <1>1, <1>2, <1>9

\* A line that begins where reading goes on ends at the first newline.
LEMMA WholeLine ==
  ASSUME Stream, Aligned, LineEnds # {}, NEW end \in LineEnds, \A k \in LineEnds : end <= k,
         NEW i \in Nat, i >= 1, LineAt(i, end), Fits(i, end)
  PROVE  i = pos + 1
<1>1. /\ i \in Nat /\ i >= 1 /\ end \in Nat /\ i <= end /\ end > pos /\ end <= arrived /\ reply[end] = LF
      /\ i = 1 \/ reply[i - 1] = LF
  BY Places DEF LineAt, LineEnds
<1>2. \A k \in i..end - 1 : reply[k] # LF
  BY DEF LineAt
<1>3. \A k \in pos + 1..end - 1 : reply[k] # LF
  <2>1. ASSUME NEW k \in pos + 1..end - 1, reply[k] = LF PROVE FALSE
    <3>1. k \in pos + 1..arrived
      BY <1>1, Places
    <3>2. k \in LineEnds
      BY <2>1, <3>1 DEF LineEnds
    <3>3. QED BY <1>1, <3>2, Places
  <2>2. QED BY <2>1
<1>4. i <= pos + 1
  <2>1. ASSUME i > pos + 1 PROVE FALSE
    <3>1. i - 1 \in pos + 1..end - 1 /\ i # 1
      BY <1>1, <2>1, Places
    <3>2. QED BY <1>1, <1>3, <3>1
  <2>2. QED BY <1>1, <2>1, Places
<1>5. CASE pos = 0
  BY <1>1, <1>4, <1>5
<1>6. CASE pos > 0 /\ reply[pos] = LF
  <2>1. pos \notin i..end - 1
    BY <1>2, <1>6
  <2>2. QED BY <1>1, <1>4, <2>1, Places
<1>7. ASSUME NEW n \in 1..pos, CutAt(n, pos) PROVE FALSE
  <2>1. /\ n \in Nat /\ 1 <= n /\ n <= pos /\ pos - n + 1 >= Size - 1
        /\ n = 1 \/ reply[n - 1] = LF
        /\ \A k \in n..pos : reply[k] # LF
    BY <1>7, Places DEF CutAt
  <2>2. i >= n
    <3>1. ASSUME i < n PROVE FALSE
      <4>1. n - 1 \in i..end - 1 /\ n # 1
        BY <1>1, <2>1, <3>1, Places
      <4>2. QED BY <1>2, <2>1, <4>1
    <3>2. QED BY <1>1, <2>1, <3>1
  <2>3. i <= n
    <3>1. ASSUME i > n PROVE FALSE
      <4>1. i - 1 \in n..pos /\ i # 1
        BY <1>1, <1>4, <2>1, <3>1, Places
      <4>2. QED BY <1>1, <2>1, <4>1
    <3>2. QED BY <1>1, <2>1, <3>1
  <2>4. end - i + 1 < Size
    BY DEF Fits
  <2>5. QED BY <1>1, <2>1, <2>2, <2>3, <2>4, Places
<1>8. CASE peer = "closed" /\ pos = arrived
  BY <1>1, <1>8, Places
<1>9. QED
  BY <1>5, <1>6, <1>7, <1>8 DEF Aligned

\* A line that is read to the end, or cut, leaves the position where the next one is read from.
LEMMA NextAligned ==
  ASSUME Stream, Aligned, NEW end \in LineEnds, \A k \in LineEnds : end <= k, reply[end] # LF
  PROVE  \E i \in 1..end : CutAt(i, end)
<1>1. /\ end \in Nat /\ pos < end /\ end <= arrived /\ end = pos + Size - 1
      /\ pos \in Nat /\ Size \in Nat
  BY Places DEF LineEnds
<1>2. \A k \in pos + 1..end : reply[k] # LF
  <2>1. ASSUME NEW k \in pos + 1..end, reply[k] = LF PROVE FALSE
    <3>1. k \in pos + 1..arrived /\ (k < end \/ k = end)
      BY <1>1, Places
    <3>2. k \in LineEnds
      BY <2>1, <3>1 DEF LineEnds
    <3>3. QED BY <1>1, <2>1, <3>1, <3>2, Places
  <2>2. QED BY <2>1
<1>3. CASE pos = 0 \/ (pos > 0 /\ reply[pos] = LF)
  <2>1. pos + 1 \in 1..end /\ end - (pos + 1) + 1 = Size - 1 /\ (pos # 0 => pos + 1 - 1 = pos)
    BY ONLY <1>1
  <2>2. Size - 1 >= Size - 1 /\ (Size - 1) % (Size - 1) = 0
    <3>1. \A M \in Nat : M > 0 => M % M = 0
      OBVIOUS
    <3>2. Size - 1 \in Nat /\ Size - 1 > 0
      BY Places
    <3>3. QED BY <3>1, <3>2
  <2>3. CutAt(pos + 1, end)
    BY <1>2, <1>3, <2>1, <2>2, Places DEF CutAt
  <2>4. QED BY <2>1, <2>3
<1>4. ASSUME NEW i \in 1..pos, CutAt(i, pos) PROVE CutAt(i, end) /\ i \in 1..end
  <2>1. /\ i = 1 \/ reply[i - 1] = LF
        /\ \A k \in i..pos : reply[k] # LF
        /\ pos - i + 1 >= Size - 1 /\ (pos - i + 1) % (Size - 1) = 0
    BY <1>4 DEF CutAt
  <2>2. ASSUME NEW k \in i..end PROVE k \in i..pos \/ k \in pos + 1..end
    BY <1>1, Places
  <2>3. end - i + 1 >= Size - 1 /\ i \in 1..end
    BY <1>1, <2>1
  <2>4. (end - i + 1) % (Size - 1) = 0
    <3>1. pos - i + 1 \in Nat /\ Size - 1 \in Nat /\ Size - 1 > 0 /\ end - i + 1 = (pos - i + 1) + (Size - 1)
      BY <1>1, <2>1, Places
    <3>2. QED BY ONLY <2>1, <3>1, Multiple
  <2>5. QED BY <1>2, <2>1, <2>2, <2>3, <2>4 DEF CutAt
<1>5. CASE peer = "closed" /\ pos = arrived
  BY <1>1, <1>5, Places
<1>6. QED
  BY <1>3, <1>4, <1>5 DEF Aligned

\* Where the next line is read from, however the line ends.
LEMMA ReadAligned ==
  ASSUME Stream, Aligned, LineReady, pos' = pos + Len(Line), UNCHANGED <<reply, arrived, peer>>
  PROVE  Aligned'
<1> DEFINE end == pos + Len(Line)
<1>1. /\ end \in pos..arrived
      /\ LineEnds # {} => end \in LineEnds /\ \A k \in LineEnds : end <= k
      /\ LineEnds = {} => end = arrived /\ peer = "closed"
  BY LineFacts
<1>2. pos' = end
  OBVIOUS
<1> HIDE DEF end
<1>3. CASE LineEnds = {}
  BY <1>1, <1>2, <1>3 DEF Aligned
<1>4. CASE LineEnds # {} /\ reply[end] = LF
  <2>1. end > 0
    BY <1>1, <1>4, Places DEF LineEnds
  <2>2. QED BY <1>2, <1>4, <2>1 DEF Aligned
<1>5. CASE LineEnds # {} /\ reply[end] # LF
  <2>1. PICK i \in 1..end : CutAt(i, end)
    BY <1>1, <1>5, NextAligned
  <2>2. CutAt(i, pos)'
    BY <1>2, <2>1 DEF CutAt
  <2>3. QED BY <1>2, <2>1, <2>2 DEF Aligned
<1>6. QED
  BY <1>3, <1>4, <1>5

\* What has been read is still a stream when the line is in the buffer.
LEMMA ReadStream ==
  ASSUME Stream, LineReady
  PROVE  /\ NewBuf = Filled(buf, Line) /\ NewBuf \in Seq(Char) /\ Len(NewBuf) = Size
         /\ Len(Line) + 1 \in 1..Size /\ NewBuf[Len(Line) + 1] = NUL
         /\ \A i \in 1..Len(Line) : NewBuf[i] = Line[i]
         /\ Str(NewBuf, 1) = Line
         /\ pos + Len(Line) \in 0..arrived
<1>1. NewBuf = Filled(buf, Line)
  BY DEF NewBuf, Filled
<1>2. Line \in Text /\ Len(Line) < Size /\ pos + Len(Line) \in pos..arrived
  BY LineFacts
<1>3. buf \in Seq(Char) /\ Len(buf) = Size
  BY DEF Stream
<1>4. pos + Len(Line) \in 0..arrived
  BY <1>2, Places
<1>5. QED
  BY <1>1, <1>2, <1>3, <1>4, FilledIs
=============================================================================
