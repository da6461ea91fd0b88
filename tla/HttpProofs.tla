----------------------------- MODULE HttpProofs -----------------------------
(***************************************************************************)
(* What is proved of HttpRelay, for any proxies and answers, however they  *)
(* arrive, and any size of the buffer: that a negotiation is retried with  *)
(* credentials once, the types, that the tunnel begins where the header of *)
(* a 200 answer ends, that Basic is answered when it is offered, and in    *)
(* which ways the negotiation can begin anew or stay where it is.          *)
(* Where line_input() stops is in LineInputProofs.                         *)
(***************************************************************************)
EXTENDS HttpRelay, LineInputProofs

\* The retry that counts is the one after which the type is "basic", and with that type
\* no challenge is looked at.
Inv ==
  /\ challenges \in {0, 1}
  /\ challenges = 1 => proxy_auth_type # PROXY_AUTH_NONE /\ mpc # "challenge"

LEMMA OneMore == Min({0 + 1, MaxChallenges}) = 1
<1>1. \A x \in {1, 2} : (\A y \in {1, 2} : x <= y) <=> x = 1
  OBVIOUS
<1>2. {0 + 1, MaxChallenges} = {1, 2}
  BY DEF MaxChallenges
<1>3. QED
  BY <1>1, <1>2 DEF Min

\* Reading a challenge: the type is only ever set, and the retry comes once it is.
LEMMA ChallengeInv == Inv /\ (Challenge \/ ChallengeCut) => Inv'
<1> SUFFICES ASSUME Inv, Challenge \/ ChallengeCut PROVE Inv'
  OBVIOUS
<1>1. challenges = 0
  BY DEF Inv, Challenge, ChallengeCut
<1>2. \/ UNCHANGED challenges
      \/ proxy_auth_type' # PROXY_AUTH_NONE /\ mpc' = "open"
         /\ challenges' = Min({challenges + 1, MaxChallenges})
  BY DEF Challenge, ChallengeCut, EndChallenge
<1>3. QED
  BY <1>1, <1>2, OneMore DEF Inv

\* An answer that asks for credentials is a challenge only while none have been sent.
LEMMA StatusInv == Inv /\ Status => Inv'
<1> SUFFICES ASSUME Inv, Status PROVE Inv'
  OBVIOUS
<1>1. UNCHANGED <<challenges, proxy_auth_type>>
  BY DEF Status, relay
<1>2. \A result : NextState(result) = "challenge" => proxy_auth_type = PROXY_AUTH_NONE
  BY Zenon DEF NextState
<1>3. mpc' = "challenge" => proxy_auth_type = PROXY_AUTH_NONE
  BY <1>2 DEF Status
<1>4. QED
  BY <1>1, <1>3 DEF Inv

\* No other step starts a challenge.
LEMMA OtherInv ==
  ASSUME Inv, UNCHANGED <<challenges, proxy_auth_type>>, mpc' = "challenge" => mpc = "challenge"
  PROVE  Inv'
BY DEF Inv

LEMMA StepInv == Inv /\ [Next]_vars => Inv'
<1> SUFFICES ASSUME Inv, [Next]_vars PROVE Inv'
  OBVIOUS
<1>1. CASE UNCHANGED vars
  BY <1>1, OtherInv DEF vars, relay
<1>2. CASE OpenConnection \/ OpenFails \/ Request \/ RequestFails
  BY <1>2, OtherInv DEF OpenConnection, OpenFails, Request, RequestFails, relay
<1>3. CASE StatusFails \/ Redirect \/ RedirectCut
  BY <1>3, OtherInv DEF StatusFails, Redirect, RedirectCut, Retry, relay
<1>4. CASE Skip \/ SkipFails \/ TimedOut
  BY <1>4, OtherInv DEF Skip, SkipFails, TimedOut, relay
<1>5. CASE Answer \/ Arrive \/ ProxyLeaves
  BY <1>5, OtherInv DEF Answer, Arrive, ProxyLeaves, relay
<1>6. QED
  BY <1>1, <1>2, <1>3, <1>4, <1>5, StatusInv, ChallengeInv DEF Next, Program

\* Credentials that a proxy has refused are not sent again, whatever it answers and
\* however often it redirects: the negotiation is retried for them once.
THEOREM OnceOnly == Spec => []AuthenticatesOnce
<1>1. Init => Inv
  <2>1. Init => challenges = 0
    BY DEF Init
  <2>2. QED BY <2>1 DEF Inv
<1>2. Inv => AuthenticatesOnce
  BY DEF Inv, AuthenticatesOnce
<1>3. QED
  BY <1>1, <1>2, StepInv, PTL DEF Spec

(***************************************************************************)
(* The buffer.                                                             *)
(***************************************************************************)
LEMMA ThreeParts ==
  ASSUME NEW S, NEW s \in Seq(S), NEW m \in Seq(S), NEW r \in Seq(S)
  PROVE  /\ s \o m \o r \in Seq(S) /\ Len(s \o m \o r) = Len(s) + Len(m) + Len(r)
         /\ \A i \in 1..Len(s) : (s \o m \o r)[i] = s[i]
         /\ \A i \in 1..Len(r) : (s \o m \o r)[Len(s) + Len(m) + i] = r[i]
<1> DEFINE t == s \o m  u == t \o r
<1>1. Len(s) \in Nat /\ Len(m) \in Nat /\ Len(r) \in Nat
  BY LenProperties
<1>2. /\ t \in Seq(S) /\ Len(t) = Len(s) + Len(m)
      /\ \A i \in 1..Len(s) + Len(m) : t[i] = IF i <= Len(s) THEN s[i] ELSE m[i - Len(s)]
  BY ConcatProperties
<1> HIDE DEF t
<1>3. /\ u \in Seq(S) /\ Len(u) = Len(t) + Len(r)
      /\ \A i \in 1..Len(t) + Len(r) : u[i] = IF i <= Len(t) THEN t[i] ELSE r[i - Len(t)]
  <2>1. t \in Seq(S) /\ r \in Seq(S)
    BY <1>2
  <2>2. QED BY ONLY <2>1, ConcatProperties
<1> HIDE DEF u
<1>4. ASSUME NEW i \in 1..Len(s) PROVE u[i] = s[i]
  <2>1. i \in 1..Len(t) + Len(r) /\ i \in 1..Len(s) + Len(m) /\ i <= Len(t) /\ i <= Len(s)
    BY <1>1, <1>2
  <2>2. QED BY <1>2, <1>3, <2>1
<1>5. ASSUME NEW i \in 1..Len(r) PROVE u[Len(s) + Len(m) + i] = r[i]
  <2> DEFINE k == Len(t) + i
  <2>1. k \in 1..Len(t) + Len(r) /\ ~(k <= Len(t)) /\ k - Len(t) = i /\ k = Len(s) + Len(m) + i
    BY <1>1, <1>2
  <2> HIDE DEF k
  <2>2. u[k] = r[i]
    BY <1>3, <2>1
  <2>3. QED BY <2>1, <2>2
<1>6. Len(u) = Len(s) + Len(m) + Len(r)
  BY <1>2, <1>3
<1>7. QED
  BY <1>3, <1>4, <1>5, <1>6 DEF u, t

\* A string of a buffer, with its NUL at n.
Buffer(b, n) == b \in Seq(Char) /\ Len(b) = Size /\ n \in 1..Size /\ b[n] = NUL

\* What cut_token() does: the string ends at ptr, where the first delimiter stands, the run of
\* delimiters there is cut out, and the result is the place behind it.
CutFrom(b, p, delim, ptr, end) ==
  /\ b[ptr] \in {delim, NUL} /\ \A i \in p..ptr - 1 : b[i] \notin {delim, NUL}
  /\ b[end] # delim /\ \A i \in ptr..end - 1 : b[i] = delim

LEMMA CutForm ==
  ASSUME NEW n, NEW b, Buffer(b, n), NEW p \in 1..n, NEW delim, delim # NUL
  PROVE  \E ptr \in p..n : \E end \in ptr..n :
           /\ CutFrom(b, p, delim, ptr, end)
           /\ ptr = p => cut_token(b, p, delim) = [buf |-> b, ptr |-> 0]
           /\ ptr # p => \E cut :
                /\ cut_token(b, p, delim) = [buf |-> cut, ptr |-> end]
                /\ Buffer(cut, n)
                /\ \A i \in 1..ptr - 1 : cut[i] = b[i]
                /\ \A i \in end..n : cut[i] = b[i]
<1> DEFINE T == {i \in p..Len(b) : b[i] \in {delim, NUL}}
           ptr == Min(T)
           E == {i \in ptr..Len(b) : b[i] # delim}
           end == Min(E)
<1>1. /\ b \in Seq(Char) /\ Len(b) = Size /\ Size \in Nat /\ n \in 1..Size /\ b[n] = NUL
      /\ n \in Nat /\ p \in Nat
  BY LineAssumption DEF Buffer
<1>2. T \in SUBSET Nat /\ n \in T /\ \A i \in T : i >= p
  BY <1>1
<1>3. ptr \in T /\ ptr <= n /\ ptr >= p /\ ptr \in Nat
  BY <1>2, MinExists
<1>4. ptr = First(b, p, LAMBDA t : t \in {delim, NUL})
  BY DEF First
<1>5. b[ptr] \in {delim, NUL} /\ \A i \in p..ptr - 1 : b[i] \notin {delim, NUL}
  <2>1. ASSUME NEW i \in p..ptr - 1, b[i] \in {delim, NUL} PROVE FALSE
    <3>1. i \in T
      BY <1>1, <1>3, <2>1
    <3>2. ptr <= i
      BY <1>2, <3>1, MinExists
    <3>3. QED BY <1>1, <1>3, <3>2
  <2>2. QED BY <1>3, <2>1
<1> HIDE DEF T, ptr
<1>6. E \in SUBSET Nat /\ n \in E /\ \A i \in E : i >= ptr
  BY <1>1, <1>3
<1>7. end \in E /\ end <= n /\ end >= ptr /\ end \in Nat
  BY <1>6, MinExists
<1>8. end = First(b, ptr, LAMBDA t : t # delim)
  BY DEF First
<1>9. b[end] # delim /\ \A i \in ptr..end - 1 : b[i] = delim
  <2>1. ASSUME NEW i \in ptr..end - 1, b[i] # delim PROVE FALSE
    <3>1. i \in E
      BY <1>1, <1>3, <1>7, <2>1
    <3>2. end <= i
      BY <1>6, <3>1, MinExists
    <3>3. QED BY <1>3, <1>7, <3>2
  <2>2. QED BY <1>7, <2>1
<1> HIDE DEF E, end
<1> DEFINE fore == SubSeq(b, 1, ptr - 1)
           nuls == [i \in 1..end - ptr |-> NUL]
           rest == SubSeq(b, end, Size)
           cut  == fore \o nuls \o rest
<1>10. cut_token(b, p, delim) = IF ptr = p THEN [buf |-> b, ptr |-> 0] ELSE [buf |-> cut, ptr |-> end]
  BY <1>4, <1>8, Zenon DEF cut_token
<1>11. \A i \in 1..Size : b[i] \in Char
  BY <1>1, ElementOfSeq
<1>12. /\ fore \in Seq(Char) /\ Len(fore) = ptr - 1
       /\ \A i \in 1..ptr - 1 : fore[i] = b[i]
  <2>1. \A i \in 1..ptr - 1 : b[i] \in Char
    BY <1>1, <1>3, <1>11
  <2>2. /\ fore \in Seq(Char) /\ Len(fore) = IF 1 <= ptr - 1 THEN ptr - 1 - 1 + 1 ELSE 0
        /\ \A i \in 1..ptr - 1 - 1 + 1 : fore[i] = b[1 + i - 1]
    BY <1>1, <1>3, <2>1, SubSeqProperties
  <2> HIDE DEF fore
  <2>3. \A i \in 1..ptr - 1 : i \in 1..ptr - 1 - 1 + 1 /\ 1 + i - 1 = i
    BY <1>3
  <2>4. QED BY <1>1, <1>3, <2>2, <2>3
<1>13. nuls \in Seq(Char) /\ Len(nuls) = end - ptr
  <2>1. nuls \in [1..end - ptr -> Char] /\ DOMAIN nuls = 1..end - ptr /\ end - ptr \in Nat
    BY <1>3, <1>7 DEF Char
  <2> HIDE DEF nuls
  <2>2. nuls \in Seq(Char)
    BY <2>1, SeqDef
  <2>3. QED BY <2>1, <2>2, LenProperties
<1>14. /\ rest \in Seq(Char) /\ Len(rest) = Size - end + 1
       /\ \A i \in 1..Size - end + 1 : rest[i] = b[end + i - 1]
  <2>1. \A i \in end..Size : b[i] \in Char
    BY <1>1, <1>3, <1>7, <1>11
  <2>2. end <= Size
    BY <1>1, <1>7
  <2>3. QED BY <1>1, <1>7, <2>1, <2>2, SubSeqProperties
<1> HIDE DEF fore, nuls, rest
<1>15. /\ cut \in Seq(Char) /\ Len(cut) = Len(fore) + Len(nuls) + Len(rest)
       /\ \A i \in 1..Len(fore) : cut[i] = fore[i]
       /\ \A i \in 1..Len(rest) : cut[Len(fore) + Len(nuls) + i] = rest[i]
  <2>1. fore \in Seq(Char) /\ nuls \in Seq(Char) /\ rest \in Seq(Char)
    BY <1>12, <1>13, <1>14
  <2>2. QED BY ONLY <2>1, ThreeParts
<1> HIDE DEF cut
<1>16. Len(cut) = Size
  BY <1>1, <1>3, <1>7, <1>12, <1>13, <1>14, <1>15
<1>17. \A i \in 1..ptr - 1 : cut[i] = b[i]
  BY <1>12, <1>15
<1>18. ASSUME NEW k \in end..n PROVE cut[k] = b[k]
  <2> DEFINE i == k - end + 1
  <2>1. i \in 1..Size - end + 1 /\ Len(fore) + Len(nuls) + i = k /\ end + i - 1 = k
    BY <1>1, <1>3, <1>7, <1>12, <1>13
  <2> HIDE DEF i
  <2>2. QED BY <1>14, <1>15, <2>1
<1>19. Buffer(cut, n)
  <2>1. n \in end..n
    BY <1>1, <1>7
  <2>2. QED BY <1>1, <1>15, <1>16, <1>18, <2>1 DEF Buffer
<1>20. CutFrom(b, p, delim, ptr, end)
  BY <1>5, <1>9 DEF CutFrom
<1>21. ptr \in p..n /\ end \in ptr..n
  BY <1>1, <1>3, <1>7
<1>22. /\ ptr = p => cut_token(b, p, delim) = [buf |-> b, ptr |-> 0]
       /\ ptr # p => \E c :
            /\ cut_token(b, p, delim) = [buf |-> c, ptr |-> end]
            /\ Buffer(c, n)
            /\ \A i \in 1..ptr - 1 : c[i] = b[i]
            /\ \A i \in end..n : c[i] = b[i]
  BY <1>10, <1>17, <1>18, <1>19
<1>23. QED
  BY <1>20, <1>21, <1>22, Zenon

\* cut_token() stays within the string, and in front of the delimiter it cuts nothing.
LEMMA CutIs ==
  ASSUME NEW n, NEW b, Buffer(b, n), NEW p \in 1..n, NEW delim, delim # NUL
  PROVE  LET c == cut_token(b, p, delim)
         IN /\ Buffer(c.buf, n) /\ c.ptr \in {0} \cup p..n
            /\ b[p] \notin {delim, NUL} => c.ptr # 0
<1>1. PICK ptr \in p..n : \E end \in ptr..n :
        /\ CutFrom(b, p, delim, ptr, end)
        /\ ptr = p => cut_token(b, p, delim) = [buf |-> b, ptr |-> 0]
        /\ ptr # p => \E cut :
             /\ cut_token(b, p, delim) = [buf |-> cut, ptr |-> end]
             /\ Buffer(cut, n)
  BY CutForm
<1>2. PICK end \in ptr..n :
        /\ CutFrom(b, p, delim, ptr, end)
        /\ ptr = p => cut_token(b, p, delim) = [buf |-> b, ptr |-> 0]
        /\ ptr # p => \E cut :
             /\ cut_token(b, p, delim) = [buf |-> cut, ptr |-> end]
             /\ Buffer(cut, n)
  BY <1>1
<1>3. b[p] \notin {delim, NUL} => ptr # p
  BY <1>2 DEF CutFrom
<1>4. n \in Nat /\ end \in p..n /\ end # 0
  BY DEF Buffer
<1>5. CASE ptr = p
  BY <1>2, <1>3, <1>5
<1>6. CASE ptr # p
  <2>1. PICK cut : cut_token(b, p, delim) = [buf |-> cut, ptr |-> end] /\ Buffer(cut, n)
    BY <1>2, <1>6
  <2>2. QED BY <1>4, <2>1
<1>7. QED
  BY <1>5, <1>6

(***************************************************************************)
(* Types.                                                                  *)
(***************************************************************************)
Phases == {"open", "request", "status", "redirect", "challenge", "skip"} \cup Over

Typed ==
  /\ mpc \in Phases /\ peer \in {"none", "open", "closed", "reset"}
  /\ host_at \in 0..Size
  /\ proxy_auth_type \in {PROXY_AUTH_NONE, PROXY_AUTH_BASIC}
  /\ pass \in Credentials \ {"none"} /\ cred \in Credentials
  /\ auth_what \in {"", "www-authenticate", "proxy-authenticate"}
  /\ Stream /\ header \in 0..Len(reply)

LEMMA AnswerPlaces ==
  ASSUME Typed
  PROVE  /\ arrived \in Nat /\ pos \in Nat /\ Len(reply) \in Nat /\ Size \in Nat /\ Size > 2
         /\ header \in Nat /\ pos <= arrived /\ arrived <= Len(reply) /\ header <= Len(reply)
<1>1. Stream /\ header \in 0..Len(reply)
  BY DEF Typed
<1>2. /\ arrived \in Nat /\ pos \in Nat /\ Len(reply) \in Nat /\ Size \in Nat /\ Size > 2
      /\ pos <= arrived /\ arrived <= Len(reply)
  BY <1>1, Places
<1>3. QED
  BY <1>1, <1>2

\* What is left of a line is in the buffer, in front of a NUL.
LEMMA LineIn ==
  ASSUME Stream, LineReady
  PROVE  Buffer(NewBuf, Len(Line) + 1) /\ 1 \in 1..Len(Line) + 1 /\ Len(Line) \in Nat
<1>1. Len(Line) + 1 \in 1..Size /\ Size \in Nat
  BY ReadStream, LineAssumption
<1>2. Line \in Text
  BY LineFacts
<1>3. Len(Line) \in Nat
  BY <1>2, LenProperties DEF Text
<1>4. 1 \in 1..Len(Line) + 1
  BY <1>3
<1>5. QED
  BY <1>1, <1>3, <1>4, ReadStream DEF Buffer

LEMMA StillStream ==
  ASSUME Stream, LineRead, UNCHANGED <<reply, arrived>>, NEW n, Buffer(buf', n)
  PROVE  Stream'
<1>1. pos' \in 0..arrived
  BY ReadStream DEF LineRead
<1>2. QED
  BY <1>1 DEF Stream, Buffer

LEMMA StatusTyped ==
  ASSUME Typed, Status
  PROVE  /\ Typed' /\ mpc' \in {"failed", "skip", "redirect", "challenge"}
<1>1. /\ Stream /\ LineReady /\ LineRead /\ buf' = NewBuf
      /\ UNCHANGED <<relay, cred, reply, header, arrived, peer>>
  BY DEF Typed, Status, LineRead
<1>2. Stream'
  BY <1>1, LineIn, StillStream
<1>3. \A result : NextState(result) \in {"failed", "skip", "redirect", "challenge"}
  BY Zenon DEF NextState
<1>4. mpc' \in {"failed", "skip", "redirect", "challenge"}
  BY <1>3, Zenon DEF Status
<1>5. auth_what' \in {"", "www-authenticate", "proxy-authenticate"}
  BY Zenon DEF Status, Typed
<1>6. QED
  BY <1>1, <1>2, <1>4, <1>5 DEF Typed, Phases, Over, Stopped, relay

LEMMA SkipTyped ==
  ASSUME Typed, Skip
  PROVE  Typed'
<1>1. /\ Stream /\ LineReady /\ LineRead /\ buf' = NewBuf /\ mpc' \in {"relaying", "skip"}
      /\ UNCHANGED <<relay, auth_what, cred, reply, header, arrived, peer>>
  BY DEF Typed, Skip, LineRead
<1>2. Stream'
  BY <1>1, LineIn, StillStream
<1>3. QED
  BY <1>1, <1>2 DEF Typed, Phases, Over, relay

LEMMA RedirectTyped ==
  ASSUME Typed, Redirect
  PROVE  Typed' /\ mpc' \in {"open", "redirect"}
<1> DEFINE n == Len(Line) + 1
<1>1. /\ Stream /\ LineReady /\ LineRead
      /\ UNCHANGED <<proxy_auth_type, pass, auth_what, cred, reply, header, arrived>>
  BY DEF Typed, Redirect, LineRead
<1>2. Buffer(NewBuf, n) /\ 1 \in 1..n
  BY <1>1, LineIn
<1> HIDE DEF n
<1>3. /\ Buffer(buf', n) /\ host_at' \in 0..Size
      /\ mpc' \in {"open", "redirect"} /\ peer' \in {"none", "open", "closed", "reset"}
  <2>1. CASE expect(NewBuf, <<"location", ":", SP>>)
    <3> DEFINE c1 == cut_token(NewBuf, 1, "/")
               c2 == cut_token(c1.buf, 1, "/")
               c3 == cut_token(c2.buf, 1, ":")
    <3>1. host_at' = c1.ptr /\ buf' = c3.buf /\ UNCHANGED <<mpc, peer>>
      BY <2>1 DEF Redirect
    <3>2. "/" # NUL /\ ":" # NUL
      BY DEF NUL
    <3>3. Buffer(c1.buf, n) /\ c1.ptr \in {0} \cup 1..n
      BY <1>2, <3>2, CutIs
    <3> HIDE DEF c1
    <3>4. Buffer(c2.buf, n)
      BY <1>2, <3>2, <3>3, CutIs
    <3> HIDE DEF c2
    <3>5. Buffer(c3.buf, n)
      BY <1>2, <3>2, <3>4, CutIs
    <3>6. c1.ptr \in 0..Size
      BY <1>2, <3>3, LineAssumption DEF Buffer
    <3>7. mpc = "redirect"
      BY DEF Redirect
    <3> HIDE DEF c3
    <3>8. QED BY <3>1, <3>5, <3>6, <3>7 DEF Typed
  <2>2. CASE ~expect(NewBuf, <<"location", ":", SP>>)
    <3>1. buf' = NewBuf
      BY <2>2 DEF Redirect
    <3>2. mpc = "redirect" /\ 0 \in 0..Size
      BY LineAssumption DEF Redirect
    <3>3. \/ UNCHANGED <<mpc, host_at, peer>>
          \/ mpc' = "open" /\ host_at' = 0 /\ peer' = "none"
      BY <2>2 DEF Redirect, Retry
    <3>4. QED BY <1>2, <3>1, <3>2, <3>3 DEF Typed
  <2>3. QED BY <2>1, <2>2
<1>4. Stream'
  BY <1>1, <1>3, StillStream
<1>5. QED
  BY <1>1, <1>3, <1>4 DEF Typed, Phases

LEMMA ChallengeTyped ==
  ASSUME Typed, Challenge
  PROVE  Typed' /\ mpc' \in {"open", "challenge", "failed"}
<1> DEFINE n == Len(Line) + 1
<1>1. /\ Stream /\ LineReady /\ LineRead
      /\ UNCHANGED <<relay_host, host_at, pass, auth_what, cred, reply, header, arrived>>
  BY DEF Typed, Challenge, LineRead
<1>2. Buffer(NewBuf, n) /\ 1 \in 1..n
  BY <1>1, LineIn
<1>3. Str(NewBuf, 1) = Line /\ (\A i \in 1..Len(Line) : NewBuf[i] = Line[i]) /\ Len(Line) \in Nat
  BY <1>1, ReadStream, LineIn
<1>4. \A scheme : AuthOffered(scheme) \in {PROXY_AUTH_NONE, PROXY_AUTH_BASIC}
  BY DEF AuthOffered, Typed
<1>5. CASE expect(NewBuf, <<auth_what, ":">>)
  <2> DEFINE scheme == cut_token(NewBuf, 1, SP)
             realm  == cut_token(scheme.buf, scheme.ptr, SP)
  <2>1. /\ buf' = realm.buf /\ UNCHANGED peer
        /\ \/ mpc' = "failed" /\ UNCHANGED proxy_auth_type
           \/ proxy_auth_type' = AuthOffered(realm.buf[scheme.ptr]) /\ UNCHANGED mpc
    BY <1>5 DEF Challenge
  <2>2. NewBuf[1] = auth_what
    <3>1. IsPrefix(<<auth_what, ":">>, Line)
      BY <1>3, <1>5 DEF expect
    <3>2. Len(<<auth_what, ":">>) <= Len(Line) /\ SubSeq(<<auth_what, ":">>, 1, 2) = SubSeq(Line, 1, 2)
      BY <3>1 DEF IsPrefix
    <3>3. Line[1] = auth_what /\ 1 \in 1..Len(Line)
      BY <1>3, <3>2
    <3>4. QED BY <1>3, <3>3
  <2>3. auth_what \notin {SP, NUL} /\ SP # NUL
    BY DEF Typed, SP, NUL
  <2> HIDE DEF n
  <2>4. Buffer(scheme.buf, n) /\ scheme.ptr \in 1..n
    <3>1. Buffer(scheme.buf, n) /\ scheme.ptr \in {0} \cup 1..n /\ scheme.ptr # 0
      BY <1>2, <2>2, <2>3, CutIs
    <3>2. QED BY <3>1
  <2> HIDE DEF scheme
  <2>5. Buffer(realm.buf, n)
    BY <2>3, <2>4, CutIs
  <2> HIDE DEF realm
  <2>6. Stream'
    BY <1>1, <2>1, <2>5, StillStream
  <2>7. mpc = "challenge"
    BY DEF Challenge
  <2>8. mpc' \in {"failed", "challenge"} /\ proxy_auth_type' \in {PROXY_AUTH_NONE, PROXY_AUTH_BASIC}
    BY <1>4, <2>1, <2>7 DEF Typed
  <2>9. QED BY <1>1, <2>1, <2>6, <2>8 DEF Typed, Phases, Over, Stopped
<1>6. CASE ~expect(NewBuf, <<auth_what, ":">>)
  <2>1. buf' = NewBuf /\ UNCHANGED proxy_auth_type
    BY <1>6 DEF Challenge
  <2>2. mpc = "challenge"
    BY DEF Challenge
  <2>3. mpc' \in {"open", "challenge", "failed"} /\ peer' \in {"none", "open", "closed", "reset"}
    BY <1>6, <2>2 DEF Challenge, EndChallenge, Typed
  <2>4. Stream'
    BY <1>1, <1>2, <2>1, StillStream
  <2>5. QED BY <1>1, <2>1, <2>3, <2>4 DEF Typed, Phases, Over, Stopped
<1>7. QED
  BY <1>5, <1>6

LEMMA AnswerIs ==
  ASSUME Typed, Answer, NEW r \in Answers[cred],
         reply' = FlattenSeq(r) \o (IF FlattenSeq(r)[3] = "200" THEN Tunnel ELSE <<>>),
         header' = Len(FlattenSeq(r))
  PROVE  /\ reply' \in Text /\ header' \in 0..Len(reply') /\ FlattenSeq(r) \in Text
         /\ \A i \in 1..header' : reply'[i] = FlattenSeq(r)[i]
         /\ FlattenSeq(r)[3] # "200" => header' = Len(reply')
<1> DEFINE h == FlattenSeq(r)
           t == IF h[3] = "200" THEN Tunnel ELSE <<>>
<1>1. h \in Text
  BY HttpAssumption, AnswersAssumption DEF Typed
<1>2. t \in Text
  BY HttpAssumption, EmptySeq DEF Text
<1>3. h[3] # "200" => Len(t) = 0
  OBVIOUS
<1>4. reply' = h \o t /\ header' = Len(h)
  OBVIOUS
<1> HIDE DEF h, t
<1>5. h \in Seq(STRING \ {NUL}) /\ t \in Seq(STRING \ {NUL}) /\ Len(h) \in Nat /\ Len(t) \in Nat
  BY <1>1, <1>2, LenProperties DEF Text
<1>6. /\ h \o t \in Seq(STRING \ {NUL}) /\ Len(h \o t) = Len(h) + Len(t)
      /\ \A i \in 1..Len(h) + Len(t) : (h \o t)[i] = IF i <= Len(h) THEN h[i] ELSE t[i - Len(h)]
  BY ONLY <1>5, ConcatProperties
<1>7. \A i \in 1..Len(h) : i \in 1..Len(h) + Len(t) /\ i <= Len(h)
  BY <1>5
<1>8. \A i \in 1..header' : reply'[i] = h[i]
  BY <1>4, <1>6, <1>7
<1>9. reply' \in Text /\ header' \in 0..Len(reply')
  <2>1. reply' \in Text
    BY <1>4, <1>6 DEF Text
  <2>2. Len(reply') = Len(h) + Len(t)
    BY <1>4, <1>6
  <2>3. header' \in 0..Len(reply')
    BY <1>4, <1>5, <2>2
  <2>4. QED BY <2>1, <2>3
<1>10. h[3] # "200" => header' = Len(reply')
  BY <1>3, <1>4, <1>5, <1>6
<1>11. QED
  BY <1>1, <1>8, <1>9, <1>10 DEF h

LEMMA AnswerTyped ==
  ASSUME Typed, Answer
  PROVE  Typed' /\ arrived = 0 /\ pos = 0
<1>1. PICK r \in Answers[cred] :
        /\ reply' = FlattenSeq(r) \o (IF FlattenSeq(r)[3] = "200" THEN Tunnel ELSE <<>>)
        /\ header' = Len(FlattenSeq(r))
  BY DEF Answer
<1>2. reply' \in Text /\ header' \in 0..Len(reply')
  BY <1>1, AnswerIs
<1>3. arrived = 0 /\ pos = 0
  <2>1. Len(reply) = 0
    BY DEF Answer
  <2>2. QED BY <2>1, AnswerPlaces
<1>4. UNCHANGED <<mpc, relay, buf, auth_what, cred, arrived, pos, peer>>
  BY DEF Answer
<1>5. 0 \in 0..Len(reply')
  BY <1>2, LenProperties DEF Text
<1>6. QED
  BY <1>2, <1>3, <1>4, <1>5 DEF Typed, Stream, relay

LEMMA StepTyped == Typed /\ [Next]_vars => Typed'
<1> SUFFICES ASSUME Typed, [Next]_vars PROVE Typed'
  OBVIOUS
<1>1. CASE UNCHANGED vars
  BY <1>1 DEF vars, relay, conn, Typed, Stream
<1>2. CASE OpenConnection
  <2>1. /\ mpc' = "request" /\ peer' = "open" /\ reply' = <<>> /\ header' = 0 /\ arrived' = 0 /\ pos' = 0
        /\ cred' = "none" /\ UNCHANGED <<relay, buf, auth_what>>
    BY <1>2 DEF OpenConnection
  <2>2. <<>> \in Text /\ Len(<<>>) = 0
    BY EmptySeq DEF Text
  <2>3. reply' \in Text /\ header' \in 0..Len(reply') /\ arrived' \in 0..Len(reply') /\ pos' \in 0..arrived'
    BY <2>1, <2>2
  <2>4. QED BY <2>1, <2>3 DEF Typed, Stream, Phases, Credentials, relay
<1>3. CASE OpenFails \/ RequestFails \/ StatusFails \/ SkipFails \/ TimedOut
  <2>1. mpc' \in Stopped /\ UNCHANGED <<relay, buf, auth_what, conn>>
    BY <1>3 DEF OpenFails, RequestFails, StatusFails, SkipFails, TimedOut, Stopped
  <2>2. QED BY <2>1 DEF Typed, Stream, Phases, Over, relay, conn
<1>4. CASE Request
  <2>1. /\ mpc' = "status" /\ cred' \in Credentials /\ pass' \in Credentials \ {"none"}
        /\ UNCHANGED <<host_at, proxy_auth_type, buf, auth_what, reply, header, arrived, pos, peer>>
    BY <1>4 DEF Request, Typed, Credentials
  <2>2. QED BY <2>1 DEF Typed, Stream, Phases
<1>5. CASE RedirectCut
  <2>1. /\ mpc' = "open" /\ peer' = "none" /\ host_at' = 0
        /\ UNCHANGED <<proxy_auth_type, pass, buf, auth_what, cred, reply, header, arrived, pos>>
    BY <1>5 DEF RedirectCut, Retry
  <2>2. 0 \in 0..Size
    BY LineAssumption
  <2>3. QED BY <2>1, <2>2 DEF Typed, Stream, Phases
<1>6. CASE ChallengeCut
  <2>1. /\ mpc' \in {"open", "failed"} /\ (peer' = "none" \/ peer' = peer)
        /\ UNCHANGED <<host_at, proxy_auth_type, pass, buf, auth_what, cred, reply, header, arrived, pos>>
    BY <1>6 DEF ChallengeCut, EndChallenge
  <2>2. QED BY <2>1 DEF Typed, Stream, Phases, Over, Stopped
<1>7. CASE Arrive \/ ProxyLeaves
  <2>1. /\ UNCHANGED <<mpc, relay, buf, auth_what, cred, reply, header, pos>>
        /\ arrived' = arrived \/ arrived' \in arrived + 1..Len(reply)
        /\ peer' \in {"none", "open", "closed", "reset"}
    BY <1>7 DEF Arrive, ProxyLeaves, Arrives, Leaves, Typed
  <2>2. arrived' \in 0..Len(reply) /\ pos \in 0..arrived'
    BY <2>1, AnswerPlaces
  <2>3. QED BY <2>1, <2>2 DEF Typed, Stream, relay
<1>8. QED
  BY <1>1, <1>2, <1>3, <1>4, <1>5, <1>6, <1>7, StatusTyped, SkipTyped, RedirectTyped, ChallengeTyped,
     AnswerTyped DEF Next, Program

LEMMA StartTyped == Init => Typed
<1> SUFFICES ASSUME Init PROVE Typed
  OBVIOUS
<1>1. /\ buf = [i \in 1..Size |-> NUL] /\ reply = <<>> /\ header = 0 /\ arrived = 0 /\ pos = 0
  BY DEF Init
<1>2. buf \in Seq(Char) /\ Len(buf) = Size
  <2>1. buf \in [1..Size -> Char] /\ DOMAIN buf = 1..Size /\ Size \in Nat
    BY <1>1, LineAssumption DEF Char
  <2>2. buf \in Seq(Char)
    BY <2>1, SeqDef
  <2>3. QED BY <2>1, <2>2, LenProperties
<1>3. reply \in Text /\ Len(reply) = 0
  BY <1>1, EmptySeq DEF Text
<1>4. header \in 0..Len(reply) /\ arrived \in 0..Len(reply) /\ pos \in 0..arrived
  BY <1>1, <1>3
<1>5. Stream
  BY <1>2, <1>3, <1>4 DEF Stream
<1>6. 0 \in 0..Size
  BY LineAssumption
<1>7. QED
  BY <1>4, <1>5, <1>6 DEF Init, Typed, Phases, Credentials

\* Types; a line and its NUL never outgrow the buffer, nor does a pointer that
\* cut_token() returns.
THEOREM TypeCorrect == Spec => []TypeOK
<1>1. Init => Inv
  <2>1. Init => challenges = 0
    BY DEF Init
  <2>2. QED BY <2>1 DEF Inv
<1>2. Inv /\ Typed => TypeOK
  <2> SUFFICES ASSUME Inv, Typed PROVE TypeOK
    OBVIOUS
  <2>1. DOMAIN buf = 1..Size
    BY LenProperties DEF Typed, Stream
  <2>2. challenges \in 0..MaxChallenges
    BY DEF Inv, MaxChallenges
  <2>3. QED BY <2>1, <2>2 DEF Typed, Stream, TypeOK, StreamTypeOK, Phases
<1>3. QED
  BY <1>1, <1>2, StepInv, StartTyped, StepTyped, PTL DEF Spec

(***************************************************************************)
(* Where the tunnel begins.                                                *)
(***************************************************************************)
\* What AnswersAssumption says of an answer, when it is on its way.
Shape ==
  reply # <<>> =>
    /\ header >= 3
    /\ \/ reply[1] # SP /\ reply[2] = SP /\ reply[3] # SP
       \/ \A k \in 1..header : reply[k] = SP => \E i \in 1..k : reply[i] = LF
    /\ \A i \in 1..header - 1 : BlankAt(reply, i) => i = header - 1
    /\ reply[3] = "200" => BlankAt(reply, header - 1)
    /\ reply[3] # "200" => header = Len(reply)

\* The header of a 200 answer is being skipped: reading is in front of its empty line, or at
\* the end of what the proxy has sent before it left.
Skipping ==
  /\ reply # <<>> /\ reply[3] = "200" /\ Aligned
  /\ pos < header - 1 \/ (peer = "closed" /\ pos = arrived)

Reading ==
  /\ mpc \in {"request", "status"} => pos = 0
  /\ mpc = "skip" => Skipping
  /\ mpc = "relaying" => reply[3] = "200" /\ (pos = header \/ CutBeforeEol)

TunnelInv == Typed /\ Shape /\ Reading

\* In front of the empty line of the header, a line ends before it or is the empty line, unless
\* the proxy leaves.
LEMMA BeforeBlank ==
  ASSUME Typed, Shape, LineReady, reply # <<>>, reply[3] = "200", pos < header - 1,
         NEW end, end = pos + Len(Line)
  PROVE  \/ end < header - 1 \/ (peer = "closed" /\ end = arrived)
         \/ pos = header - 2 /\ end = header
<1>1. /\ end \in pos..arrived
      /\ LineEnds # {} => end \in LineEnds /\ \A k \in LineEnds : end <= k
      /\ LineEnds = {} => end = arrived /\ peer = "closed"
  BY LineFacts DEF Typed
<1>2. /\ arrived \in Nat /\ pos \in Nat /\ Size \in Nat /\ Size > 2 /\ header \in Nat /\ end \in Nat
      /\ pos <= arrived
  BY <1>1, AnswerPlaces
<1>3. header >= 3 /\ reply[header - 2] = LF /\ reply[header - 1] = CR /\ reply[header] = LF
  <2>1. header >= 3 /\ BlankAt(reply, header - 1)
    BY DEF Shape
  <2>2. header - 1 # 1 /\ header - 1 + 1 = header /\ header - 1 - 1 = header - 2
    BY <1>2, <2>1
  <2>3. QED BY <2>1, <2>2 DEF BlankAt
<1>4. SUFFICES ASSUME LineEnds # {}, ~(end < header - 1)
               PROVE  pos = header - 2 /\ end = header
  BY <1>1
<1>5. end \in LineEnds /\ pos < end /\ end <= arrived /\ (reply[end] = LF \/ end = pos + Size - 1)
  BY <1>1, <1>2, <1>4 DEF LineEnds
<1>6. pos = header - 2
  <2>1. SUFFICES ASSUME pos < header - 2 PROVE FALSE
    BY <1>2
  <2>2. header - 2 \in pos + 1..arrived
    BY <1>2, <1>3, <1>4, <1>5, <2>1
  <2>3. header - 2 \in LineEnds
    BY <1>3, <2>2 DEF LineEnds
  <2>4. QED BY <1>1, <1>2, <1>4, <2>3
<1>7. end # header - 1
  <2>1. ASSUME end = header - 1 PROVE FALSE
    <3>1. reply[end] # LF
      BY <1>3, <2>1 DEF CR, LF
    <3>2. end = pos + Size - 1
      BY <1>5, <3>1
    <3>3. QED BY <1>2, <1>6, <2>1, <3>2
  <2>2. QED BY <2>1
<1>8. end <= header
  <2>1. CASE header \in pos + 1..arrived
    <3>1. header \in LineEnds
      BY <1>3, <2>1 DEF LineEnds
    <3>2. QED BY <1>1, <1>4, <3>1
  <2>2. CASE header \notin pos + 1..arrived
    BY <1>2, <1>5, <1>6, <2>2
  <2>3. QED BY <2>1, <2>2
<1>9. QED
  BY <1>2, <1>4, <1>6, <1>7, <1>8

\* The code of the status line: where a blank comes second and a word third, the word.
LEMMA CodeIs ==
  ASSUME NEW s \in Text, Len(s) < Size, NEW b \in Seq(Char), Len(b) = Size,
         Len(s) >= 1 => s[1] # SP, Len(s) >= 2 => s[2] = SP, Len(s) >= 3 => s[3] # SP,
         NEW space, space = {i \in DOMAIN Str(Filled(b, s), 1) : Filled(b, s)[i] = SP}, space # {},
         atoi(Str(Filled(b, s), Min(space))) = "200"
  PROVE  Len(s) >= 3 /\ s[3] = "200"
<1> DEFINE m == Filled(b, s)  n == Len(s) + 1
<1>1. /\ m \in Seq(Char) /\ Len(m) = Size /\ n \in 1..Size /\ m[n] = NUL
      /\ \A i \in 1..Len(s) : m[i] = s[i] /\ m[i] # NUL
      /\ Str(m, 1) = s
  BY FilledIs
<1>2. Len(s) \in Nat /\ DOMAIN s = 1..Len(s) /\ Size \in Nat /\ n - 1 = Len(s)
  BY LenProperties, LineAssumption DEF Text
<1>3. space = {i \in 1..Len(s) : s[i] = SP}
  BY <1>1, <1>2
<1>4. Len(s) >= 2 /\ Min(space) = 2
  <2>1. space \in SUBSET Nat
    BY <1>3
  <2>2. Min(space) \in space /\ \A i \in space : Min(space) <= i
    BY <2>1, MinExists
  <2>3. Min(space) >= 2 /\ Len(s) >= 2
    BY <1>2, <1>3, <2>2
  <2>4. 2 \in space
    BY <1>2, <1>3, <2>3
  <2>5. QED BY <2>1, <2>2, <2>3, <2>4
<1> DEFINE u == Str(m, 2)
<1>5. atoi(u) = "200"
  BY <1>4
<1> HIDE DEF m, n
<1>6. u = SubSeq(m, 2, n - 1)
  <2>1. n \in 1..Len(m) /\ 2 \in 1..n
    BY <1>1, <1>2, <1>4
  <2>2. \A i \in 2..n - 1 : m[i] # NUL
    BY <1>1, <1>2
  <2>3. QED BY <1>1, <2>1, <2>2, StrIs
<1>7. /\ u \in Seq(Char) /\ Len(u) = Len(s) - 1
      /\ \A i \in 1..Len(s) - 1 : u[i] = s[i + 1]
  <2>1. \A i \in 2..Len(s) : i \in 1..Len(m)
    BY <1>1, <1>2
  <2>2. \A i \in 2..Len(s) : m[i] \in Char
    BY <1>1, <2>1, ElementOfSeq
  <2> DEFINE w == SubSeq(m, 2, Len(s))
  <2>3. /\ w \in Seq(Char) /\ Len(w) = (IF 2 <= Len(s) THEN Len(s) - 2 + 1 ELSE 0)
        /\ \A i \in 1..Len(s) - 2 + 1 : w[i] = m[2 + i - 1]
    BY <1>1, <1>2, <2>2, SubSeqProperties
  <2>4. u = w
    BY <1>2, <1>6
  <2> HIDE DEF u, w
  <2>5. ASSUME NEW i \in 1..Len(s) - 1 PROVE u[i] = s[i + 1]
    <3>1. i \in 1..Len(s) - 2 + 1 /\ 2 + i - 1 = i + 1 /\ i + 1 \in 1..Len(s)
      BY <1>2
    <3>2. u[i] = m[i + 1]
      BY <2>3, <2>4, <3>1
    <3>3. QED BY <1>1, <3>1, <3>2
  <2>6. Len(w) = Len(s) - 1
    BY <1>2, <1>4, <2>3
  <2>7. QED BY <2>3, <2>4, <2>5, <2>6
<1> HIDE DEF u
<1> DEFINE words == {i \in DOMAIN u : u[i] # SP}
<1>8. words # {} /\ u[Min(words)] = "200"
  BY <1>5 DEF atoi
<1>9. DOMAIN u = 1..Len(s) - 1 /\ u[1] = SP
  <2>1. 1 \in 1..Len(s) - 1 /\ 1 + 1 = 2
    BY <1>2, <1>4
  <2>2. u[1] = s[2]
    BY <1>7, <2>1
  <2>3. QED BY <1>4, <1>7, <2>2, LenProperties
<1>10. Len(s) >= 3 /\ Min(words) = 2
  <2>1. words \in SUBSET Nat /\ 1 \notin words /\ words \subseteq 1..Len(s) - 1
    BY <1>9
  <2>2. Min(words) \in words /\ \A i \in words : Min(words) <= i
    BY <1>8, <2>1, MinExists
  <2>3. Min(words) >= 2 /\ Len(s) >= 3
    BY <1>2, <2>1, <2>2
  <2>4. 2 \in words
    <3>1. 2 \in 1..Len(s) - 1 /\ 2 + 1 = 3
      BY <1>2, <2>3
    <3>2. u[2] = s[3]
      BY <1>7, <3>1
    <3>3. QED BY <1>9, <2>3, <3>1, <3>2
  <2> HIDE DEF words
  <2>5. Min(words) \in Nat /\ Min(words) <= 2
    BY <2>1, <2>2, <2>4
  <2>6. QED BY <2>3, <2>5
<1>11. u[2] = s[3]
  <2>1. 2 \in 1..Len(s) - 1 /\ 2 + 1 = 3
    BY <1>2, <1>10
  <2>2. QED BY <1>7, <2>1
<1>12. QED
  BY <1>8, <1>10, <1>11

LEMMA StatusTunnel == TunnelInv /\ Status => TunnelInv'
<1> SUFFICES ASSUME TunnelInv, Status PROVE TunnelInv'
  OBVIOUS
<1> DEFINE end == pos + Len(Line)
           space == {i \in DOMAIN Str(buf', 1) : buf'[i] = SP}
           result == atoi(Str(buf', Min(space)))
<1>1. /\ Typed /\ Shape /\ Stream /\ LineReady /\ pos = 0
      /\ pos' = end /\ buf' = NewBuf /\ UNCHANGED <<reply, header, arrived, peer>>
  BY DEF TunnelInv, Typed, Reading, Status, LineRead
<1>2. Typed' /\ mpc' \in {"failed", "skip", "redirect", "challenge"}
  BY <1>1, StatusTyped
<1>3. Shape'
  BY <1>1 DEF Shape, BlankAt
<1>4. mpc' = "skip" => space # {} /\ result = "200"
  <2>1. \A x : NextState(x) = "skip" => x = "200"
    BY Zenon DEF NextState
  <2>2. IF space = {} THEN mpc' = "failed" ELSE mpc' = NextState(result)
    BY DEF Status
  <2> HIDE DEF space, result
  <2>3. QED BY <2>1, <2>2
<1>5. ASSUME mpc' = "skip" PROVE Skipping'
  <2>1. /\ NewBuf = Filled(buf, Line) /\ Str(NewBuf, 1) = Line
        /\ \A i \in 1..Len(Line) : NewBuf[i] = Line[i]
    BY <1>1, ReadStream
  <2>2. /\ Line \in Text /\ Len(Line) < Size /\ Len(Line) \in Nat
        /\ \A i \in 1..Len(Line) : Line[i] = reply[i]
    <3>1. \A i \in 1..Len(Line) : pos + i = i
      BY <1>1
    <3>2. QED BY <1>1, <3>1, LineIs
  <2>3. /\ end \in pos..arrived /\ end = Len(Line)
        /\ LineEnds # {} => end \in LineEnds /\ \A k \in LineEnds : end <= k
        /\ LineEnds = {} => end = arrived /\ peer = "closed"
    <3>1. end = Len(Line)
      BY <1>1, <2>2
    <3>2. QED BY <1>1, <3>1, LineFacts
  <2> HIDE DEF end
  <2>4. PICK k \in 1..Len(Line) : reply[k] = SP
    <3>1. DOMAIN Line = 1..Len(Line)
      BY <2>2, LenProperties DEF Text
    <3>2. space = {i \in 1..Len(Line) : Line[i] = SP}
      BY <1>1, <2>1, <3>1
    <3>3. QED BY <1>4, <1>5, <2>2, <3>2
  <2>5. /\ k \in Nat /\ k >= 1 /\ k <= end /\ end <= arrived /\ arrived <= Len(reply)
        /\ end \in Nat /\ arrived \in Nat /\ header \in Nat /\ Len(reply) \in Nat
    BY <1>1, <2>2, <2>3, AnswerPlaces
  \* There is no newline in front of the blank.
  <2>6. ASSUME NEW i \in 1..k, reply[i] = LF PROVE FALSE
    <3>1. i \in pos + 1..arrived /\ i <= k
      BY <1>1, <2>5
    <3>2. i \in LineEnds
      BY <2>6, <3>1 DEF LineEnds
    <3>3. end <= i
      BY <2>3, <3>2
    <3>4. i = k
      BY <2>5, <3>1, <3>3
    <3>5. QED BY <2>4, <2>6, <3>4 DEF LF, SP
  <2>7. reply # <<>>
    <3>1. Len(reply) > 0
      BY <2>5
    <3>2. QED BY <3>1
  <2>8. /\ header >= 3
        /\ reply[3] = "200" => reply[header] = LF
        /\ reply[3] # "200" => header = Len(reply)
    <3>1. /\ header >= 3 /\ reply[3] = "200" => BlankAt(reply, header - 1)
          /\ reply[3] # "200" => header = Len(reply)
      BY <1>1, <2>7 DEF Shape
    <3>2. header - 1 + 1 = header
      BY <2>5
    <3>3. QED BY <1>1, <2>7, <3>1, <3>2 DEF Shape, BlankAt
  <2>9. k <= header
    <3>1. CASE reply[3] = "200"
      <4>1. header \notin 1..k
        BY <2>6, <2>8, <3>1
      <4>2. ASSUME k > header PROVE FALSE
        BY <2>5, <2>8, <4>1, <4>2
      <4>3. QED BY <2>5, <4>2
    <3>2. CASE reply[3] # "200"
      BY <2>5, <2>8, <3>2
    <3>3. QED BY <3>1, <3>2
  <2>10. reply[1] # SP /\ reply[2] = SP /\ reply[3] # SP
    <3>1. \/ reply[1] # SP /\ reply[2] = SP /\ reply[3] # SP
          \/ \A x \in 1..header : reply[x] = SP => \E i \in 1..x : reply[i] = LF
      BY <1>1, <2>7 DEF Shape
    <3>2. k \in 1..header
      BY <2>5, <2>9
    <3>3. QED BY <2>4, <2>6, <3>1, <3>2
  <2>11. Len(Line) >= 3 /\ Line[3] = "200"
    <3>1. /\ Len(Line) >= 1 => Line[1] # SP
          /\ Len(Line) >= 2 => Line[2] = SP
          /\ Len(Line) >= 3 => Line[3] # SP
      BY <2>2, <2>10
    <3>2. /\ space = {i \in DOMAIN Str(Filled(buf, Line), 1) : Filled(buf, Line)[i] = SP}
          /\ space # {} /\ atoi(Str(Filled(buf, Line), Min(space))) = "200"
      BY <1>1, <1>4, <1>5, <2>1
    <3>3. buf \in Seq(Char) /\ Len(buf) = Size
      BY <1>1 DEF Stream
    <3> HIDE DEF space
    <3>4. QED BY <2>2, <3>1, <3>2, <3>3, CodeIs
  <2>12. reply[3] = "200"
    BY <2>2, <2>11
  <2>13. end < header - 1 \/ (peer = "closed" /\ end = arrived)
    <3>1. pos < header - 1 /\ pos # header - 2
      BY <1>1, <2>5, <2>8
    <3>2. QED BY <1>1, <2>7, <2>12, <3>1, BeforeBlank DEF end
  <2>14. Aligned'
    <3>1. Aligned
      BY <1>1 DEF Aligned
    <3>2. QED BY <1>1, <3>1, ReadAligned DEF end
  <2>15. QED BY <1>1, <2>7, <2>12, <2>13, <2>14 DEF Skipping
<1>6. QED
  BY <1>2, <1>3, <1>5 DEF TunnelInv, Reading

LEMMA SkipTunnel == TunnelInv /\ Skip => TunnelInv'
<1> SUFFICES ASSUME TunnelInv, Skip PROVE TunnelInv'
  OBVIOUS
<1> DEFINE end == pos + Len(Line)
<1>1. /\ Typed /\ Shape /\ Stream /\ LineReady /\ Skipping
      /\ pos' = end /\ buf' = NewBuf /\ UNCHANGED <<reply, header, arrived, peer>>
      /\ mpc' = IF IsBlank(buf') THEN "relaying" ELSE "skip"
  BY DEF TunnelInv, Typed, Reading, Skip, LineRead
<1>2. Typed'
  BY <1>1, SkipTyped
<1>3. Shape'
  BY <1>1 DEF Shape, BlankAt
<1>4. /\ end \in pos..arrived
      /\ LineEnds # {} => end \in LineEnds
      /\ LineEnds = {} => end = arrived /\ peer = "closed"
  BY <1>1, LineFacts
<1>5. /\ Line \in Text /\ Len(Line) \in Nat /\ \A i \in 1..Len(Line) : Line[i] = reply[pos + i]
  BY <1>1, LineIs
<1>6. IsBlank(buf') <=> Line = <<CR, LF>>
  <2>1. Str(buf', 1) = Line
    BY <1>1, ReadStream
  <2>2. QED BY <2>1 DEF IsBlank
<1>7. reply # <<>> /\ reply[3] = "200" /\ Aligned /\ header >= 3
  BY <1>1 DEF Skipping, Shape
<1>8. /\ arrived \in Nat /\ pos \in Nat /\ Size \in Nat /\ Size > 2 /\ header \in Nat /\ end \in Nat
      /\ pos <= arrived /\ end <= arrived /\ pos <= end
  BY <1>1, <1>4, AnswerPlaces
\* The empty line is read.
<1>9. ASSUME Line = <<CR, LF>> PROVE end = header \/ CutBeforeEol
  <2>1. Len(Line) = 2 /\ Line[1] = CR /\ Line[2] = LF
    BY <1>9
  <2>2. end = pos + 2 /\ reply[pos + 1] = CR /\ reply[pos + 2] = LF
    BY <1>5, <2>1
  <2> HIDE DEF end
  <2>3. ~(peer = "closed" /\ pos = arrived)
    BY <1>8, <2>2
  <2>4. pos < header - 1
    BY <1>1, <2>3 DEF Skipping
  <2>5. CASE pos = 0 \/ (pos > 0 /\ reply[pos] = LF)
    <3>1. pos + 1 \in 1..header - 1
      BY <1>8, <2>4
    <3>2. BlankAt(reply, pos + 1)
      <4> DEFINE k == pos + 1
      <4>1. k + 1 = pos + 2 /\ k - 1 = pos /\ (pos = 0 => k = 1)
        BY <1>8
      <4>2. reply[k] = CR
        BY <2>2
      <4> HIDE DEF k
      <4>3. k = 1 \/ reply[k - 1] = LF
        BY <2>5, <4>1
      <4>4. reply[k + 1] = LF
        BY <2>2, <4>1
      <4>5. BlankAt(reply, k)
        BY <4>2, <4>3, <4>4 DEF BlankAt
      <4>6. QED BY <4>5 DEF k
    <3>3. pos + 1 = header - 1
      BY <1>1, <1>7, <3>1, <3>2 DEF Shape
    <3>4. QED BY <1>8, <2>2, <3>3
  <2>6. ASSUME NEW i \in 1..pos, CutAt(i, pos) PROVE CutBeforeEol
    <3>1. /\ i = 1 \/ reply[i - 1] = LF
          /\ \A k \in i..pos : reply[k] # LF
          /\ (pos - i + 1) % (Size - 1) = 0
      BY <2>6 DEF CutAt
    <3>2. i \in 1..header /\ pos + 2 \in 1..header /\ i <= pos + 2 /\ i + 1 < pos + 2
      BY <1>8, <2>4
    <3>3. ASSUME NEW k \in i..(pos + 2) - 1 PROVE reply[k] # LF
      <4>1. k \in i..pos \/ k = pos + 1
        BY <1>8
      <4>2. CR # LF
        BY DEF CR, LF
      <4>3. QED BY <2>2, <3>1, <4>1, <4>2
    <3>4. LineAt(i, pos + 2)
      BY <2>2, <3>1, <3>2, <3>3 DEF LineAt
    <3>5. ((pos + 2) - i - 1) % (Size - 1) = 0
      <4>1. (pos + 2) - i - 1 = pos - i + 1
        BY <1>8
      <4>2. QED BY <3>1, <4>1
    <3>6. QED BY <3>2, <3>4, <3>5 DEF CutBeforeEol
  <2>7. QED BY <1>7, <2>3, <2>5, <2>6 DEF Aligned
\* Any other line is.
<1>10. ASSUME Line # <<CR, LF>> PROVE end < header - 1 \/ (peer = "closed" /\ end = arrived)
  <2>1. CASE peer = "closed" /\ pos = arrived
    BY <1>8, <2>1
  <2>2. CASE pos < header - 1 /\ ~(peer = "closed" /\ end = arrived)
    <3>1. \/ end < header - 1
          \/ pos = header - 2 /\ end = header
      BY <1>1, <1>7, <2>2, BeforeBlank
    <3>2. ASSUME pos = header - 2, end = header PROVE FALSE
      <4>1. Len(Line) = 2 /\ pos + 1 = header - 1 /\ pos + 2 = header
        <5> DEFINE n == Len(Line)
        <5>1. n \in Nat /\ pos \in Nat /\ header \in Nat /\ pos + n = header /\ pos = header - 2
          BY <1>5, <1>8, <3>2
        <5> HIDE DEF n
        <5>2. n = 2 /\ pos + 1 = header - 1 /\ pos + 2 = header
          BY ONLY <5>1
        <5>3. QED BY <5>2 DEF n
      <4>2. reply[header - 1] = CR /\ reply[header] = LF
        <5>1. BlankAt(reply, header - 1) /\ header - 1 + 1 = header
          BY <1>1, <1>7, <1>8 DEF Shape
        <5>2. QED BY <5>1 DEF BlankAt
      <4>3. Line[1] = CR /\ Line[2] = LF
        BY <1>5, <4>1, <4>2
      <4>4. <<CR, LF>> \in Seq({CR, LF}) /\ Len(<<CR, LF>>) = 2
        OBVIOUS
      <4>5. Line = <<CR, LF>>
        BY <1>5, <4>1, <4>3, SeqEqual DEF Text
      <4>6. QED BY <1>10, <4>5
    <3>3. QED BY <3>1, <3>2
  <2>3. QED BY <1>1, <2>1, <2>2 DEF Skipping
<1>11. mpc' = "skip" => Skipping'
  <2>1. Aligned'
    BY <1>1, <1>7, ReadAligned
  <2> HIDE DEF end
  <2>2. QED BY <1>1, <1>6, <1>7, <1>10, <2>1 DEF Skipping
<1>12. mpc' = "relaying" => reply'[3] = "200" /\ (pos' = header' \/ CutBeforeEol')
  <2>1. CutBeforeEol => CutBeforeEol'
    BY <1>1 DEF CutBeforeEol, LineAt
  <2> HIDE DEF end
  <2>2. QED BY <1>1, <1>6, <1>7, <1>9, <2>1
<1>13. mpc' \in {"relaying", "skip"}
  BY <1>1
<1>14. QED
  BY <1>2, <1>3, <1>11, <1>12, <1>13 DEF TunnelInv, Reading

LEMMA AnswerTunnel == TunnelInv /\ Answer => TunnelInv'
<1> SUFFICES ASSUME TunnelInv, Answer PROVE TunnelInv'
  OBVIOUS
<1>1. PICK r \in Answers[cred] :
        /\ reply' = FlattenSeq(r) \o (IF FlattenSeq(r)[3] = "200" THEN Tunnel ELSE <<>>)
        /\ header' = Len(FlattenSeq(r))
  BY DEF Answer
<1> DEFINE h == FlattenSeq(r)
<1>2. Typed /\ mpc = "status" /\ UNCHANGED <<mpc, arrived, pos, peer>>
  BY DEF TunnelInv, Answer
<1>3. Typed' /\ pos' = 0
  BY <1>2, AnswerTyped
<1>4. /\ \A i \in 1..header' : reply'[i] = h[i]
      /\ h[3] # "200" => header' = Len(reply')
      /\ h \in Text
  BY <1>1, <1>2, AnswerIs
<1>5. /\ Len(h) >= 3
      /\ \/ h[1] # SP /\ h[2] = SP /\ h[3] # SP
         \/ \A k \in 1..Len(h) : h[k] = SP => \E i \in 1..k : h[i] = LF
      /\ \A i \in 1..Len(h) - 1 : BlankAt(h, i) => i = Len(h) - 1
      /\ h[3] = "200" => BlankAt(h, Len(h) - 1)
  BY <1>2, HttpAssumption, AnswersAssumption DEF Typed
<1>6. header' = Len(h)
  BY <1>1
<1> HIDE DEF h
<1>7. header' \in Nat
  BY <1>4, <1>6, LenProperties DEF Text
<1>8. \A i \in 1..header' - 1 : BlankAt(reply', i) <=> BlankAt(h, i)
  <2>1. ASSUME NEW i \in 1..header' - 1
        PROVE  i \in 1..header' /\ i + 1 \in 1..header' /\ (i # 1 => i - 1 \in 1..header')
    <3> DEFINE n == header'
    <3>1. n \in Nat /\ i \in 1..n - 1
      BY <1>7
    <3> HIDE DEF n
    <3>2. i \in 1..n /\ i + 1 \in 1..n /\ (i # 1 => i - 1 \in 1..n)
      BY ONLY <3>1
    <3>3. QED BY <3>2 DEF n
  <2>2. QED BY <1>4, <2>1 DEF BlankAt
<1>9. reply'[1] = h[1] /\ reply'[2] = h[2] /\ reply'[3] = h[3]
  <2>1. 1 \in 1..header' /\ 2 \in 1..header' /\ 3 \in 1..header'
    BY <1>5, <1>6, <1>7
  <2>2. QED BY <1>4, <2>1
<1>10. \/ reply'[1] # SP /\ reply'[2] = SP /\ reply'[3] # SP
       \/ \A k \in 1..header' : reply'[k] = SP => \E i \in 1..k : reply'[i] = LF
  <2>1. CASE h[1] # SP /\ h[2] = SP /\ h[3] # SP
    BY <1>9, <2>1
  <2>2. CASE \A k \in 1..Len(h) : h[k] = SP => \E i \in 1..k : h[i] = LF
    <3>1. ASSUME NEW k \in 1..header', reply'[k] = SP PROVE \E i \in 1..k : reply'[i] = LF
      <4>1. PICK i \in 1..k : h[i] = LF
        BY <1>4, <1>6, <2>2, <3>1
      <4>2. i \in 1..header'
        BY <1>7
      <4>3. QED BY <1>4, <4>1, <4>2
    <3>2. QED BY <3>1
  <2>3. QED BY <1>5, <2>1, <2>2
<1>11. Shape'
  <2>1. header' >= 3 /\ header' - 1 \in 1..header' - 1
    BY <1>5, <1>6, <1>7
  <2>2. \A i \in 1..header' - 1 : BlankAt(reply', i) => i = header' - 1
    BY <1>5, <1>6, <1>8
  <2>3. reply'[3] = "200" => BlankAt(reply', header' - 1)
    BY <1>5, <1>6, <1>8, <1>9, <2>1
  <2>4. reply'[3] # "200" => header' = Len(reply')
    BY <1>4, <1>9
  <2>5. QED BY <1>10, <2>1, <2>2, <2>3, <2>4 DEF Shape, BlankAt
<1>12. QED
  BY <1>2, <1>3, <1>11 DEF TunnelInv, Reading

\* The steps that touch neither the answer nor the place in it.
LEMMA QuietTunnel ==
  ASSUME TunnelInv, Typed', UNCHANGED <<reply, header, arrived, pos, peer>>,
         mpc' \in {"request", "status"} => mpc \in {"request", "status"},
         mpc' = "skip" => mpc = "skip", mpc' = "relaying" => mpc = "relaying"
  PROVE  TunnelInv'
<1>1. Shape'
  BY DEF TunnelInv, Shape, BlankAt
<1>2. Skipping => Skipping'
  BY DEF Skipping, Aligned, CutAt
<1>3. CutBeforeEol => CutBeforeEol'
  BY DEF CutBeforeEol, LineAt
<1>4. QED
  BY <1>1, <1>2, <1>3 DEF TunnelInv, Reading

LEMMA StepTunnel == TunnelInv /\ [Next]_vars => TunnelInv'
<1> SUFFICES ASSUME TunnelInv, [Next]_vars PROVE TunnelInv'
  OBVIOUS
<1>1. Typed /\ Typed'
  BY StepTyped DEF TunnelInv
<1>2. CASE UNCHANGED vars
  BY <1>1, <1>2, QuietTunnel DEF vars, conn
<1>3. CASE OpenConnection
  <2>1. mpc' = "request" /\ reply' = <<>> /\ pos' = 0
    BY <1>3 DEF OpenConnection
  <2>2. Shape'
    BY <2>1 DEF Shape
  <2>3. QED BY <1>1, <2>1, <2>2 DEF TunnelInv, Reading
<1>4. CASE OpenFails \/ RequestFails \/ StatusFails \/ SkipFails \/ TimedOut
  <2>1. mpc' \in {"failed", "timed out"} /\ UNCHANGED conn
    BY <1>4 DEF OpenFails, RequestFails, StatusFails, SkipFails, TimedOut
  <2>2. QED BY <1>1, <2>1, QuietTunnel DEF conn
<1>5. CASE Request
  BY <1>1, <1>5, QuietTunnel DEF Request
<1>6. CASE Redirect \/ RedirectCut \/ Challenge \/ ChallengeCut
  <2>1. mpc' \in {"open", "redirect", "challenge", "failed"} /\ UNCHANGED <<reply, header>>
    <3>1. CASE Redirect
      BY <1>1, <3>1, RedirectTyped DEF Redirect
    <3>2. CASE Challenge
      BY <1>1, <3>2, ChallengeTyped DEF Challenge
    <3>3. CASE RedirectCut \/ ChallengeCut
      BY <3>3 DEF RedirectCut, ChallengeCut, Retry, EndChallenge
    <3>4. QED BY <1>6, <3>1, <3>2, <3>3
  <2>2. Shape'
    BY <2>1 DEF TunnelInv, Shape, BlankAt
  <2>3. QED BY <1>1, <2>1, <2>2 DEF TunnelInv, Reading
<1>7. CASE Arrive \/ ProxyLeaves
  <2>1. /\ UNCHANGED <<mpc, reply, header, pos>> /\ peer = "open" /\ mpc \notin Over
    BY <1>7 DEF Arrive, ProxyLeaves, Arrives, Leaves
  <2>2. Shape'
    BY <2>1 DEF TunnelInv, Shape, BlankAt
  <2>3. Skipping => Skipping'
    BY <2>1 DEF Skipping, Aligned, CutAt
  <2>4. mpc' # "relaying"
    BY <2>1 DEF Over
  <2>5. QED BY <1>1, <2>1, <2>2, <2>3, <2>4 DEF TunnelInv, Reading
<1>8. QED
  BY <1>2, <1>3, <1>4, <1>5, <1>6, <1>7, StatusTunnel, SkipTunnel, AnswerTunnel DEF Next, Program

\* However the answers of the proxies arrive, and wherever the program is redirected: relaying
\* starts only with a 200 answer, at the first byte behind the whole of its header, if no line of
\* it fills the buffer just before its end.
THEOREM TunnelStart == Spec => []TunnelStartsAfterHeader
<1>1. Init => TunnelInv
  <2> SUFFICES ASSUME Init PROVE TunnelInv
    OBVIOUS
  <2>1. mpc = "open" /\ reply = <<>>
    BY DEF Init
  <2>2. QED BY <2>1, StartTyped DEF TunnelInv, Shape, Reading
<1>2. TunnelInv => TunnelStartsAfterHeader
  BY DEF TunnelInv, Reading, TunnelStartsAfterHeader
<1>3. QED
  BY <1>1, <1>2, StepTunnel, PTL DEF Spec

(***************************************************************************)
(* Basic, when it is offered.                                              *)
(***************************************************************************)
\* What has been read of a challenge.
Offering ==
  mpc = "challenge" =>
    /\ auth_what # "" /\ Aligned
    /\ Offered(pos) => proxy_auth_type = PROXY_AUTH_BASIC

OfferInv == TunnelInv /\ Offering

LEMMA Prefix ==
  ASSUME NEW s \in Text, NEW x, NEW y
  PROVE  IsPrefix(<<x, y>>, s) <=> Len(s) >= 2 /\ s[1] = x /\ s[2] = y
<1> DEFINE w == <<x, y>>  u == SubSeq(w, 1, 2)  v == SubSeq(s, 1, 2)
<1>1. w \in Seq({x, y}) /\ Len(w) = 2 /\ w[1] = x /\ w[2] = y
  OBVIOUS
<1>2. Len(s) \in Nat /\ \A i \in 1..Len(s) : s[i] \in STRING
  <2>1. \A i \in 1..Len(s) : s[i] \in STRING \ {NUL}
    BY ElementOfSeq DEF Text
  <2>2. QED BY <2>1, LenProperties DEF Text
<1>3. IsPrefix(w, s) <=> 2 <= Len(s) /\ u = v
  BY <1>1 DEF IsPrefix
<1> HIDE DEF w
<1>4. u \in Seq({x, y}) /\ Len(u) = 2 /\ u[1] = x /\ u[2] = y
  <2>1. \A i \in 1..2 : w[i] \in {x, y}
    BY <1>1
  <2>2. /\ u \in Seq({x, y}) /\ Len(u) = IF 1 <= 2 THEN 2 - 1 + 1 ELSE 0
        /\ \A i \in 1..2 - 1 + 1 : u[i] = w[1 + i - 1]
    BY <2>1, SubSeqProperties
  <2> HIDE DEF u
  <2>3. QED BY <1>1, <2>2
<1>5. ASSUME Len(s) >= 2 PROVE v \in Seq(STRING) /\ Len(v) = 2 /\ v[1] = s[1] /\ v[2] = s[2]
  <2>1. \A i \in 1..2 : s[i] \in STRING
    BY <1>2, <1>5
  <2>2. /\ v \in Seq(STRING) /\ Len(v) = IF 1 <= 2 THEN 2 - 1 + 1 ELSE 0
        /\ \A i \in 1..2 - 1 + 1 : v[i] = s[1 + i - 1]
    BY <2>1, SubSeqProperties
  <2> HIDE DEF v
  <2>3. QED BY <2>2
<1> HIDE DEF u, v
<1>6. ASSUME Len(s) >= 2, s[1] = x, s[2] = y PROVE u = v
  <2>1. {x, y} = {s[1], s[2]} /\ s[1] \in STRING /\ s[2] \in STRING
    BY <1>2, <1>6
  <2>2. u \in Seq(STRING)
    <3>1. \A i \in 1..Len(u) : u[i] \in STRING
      BY <1>4, <1>6, <2>1
    <3>2. QED BY <1>4, <3>1, IsASeq, LenProperties
  <2>3. v \in Seq(STRING) /\ Len(u) = Len(v) /\ \A i \in 1..Len(u) : u[i] = v[i]
    BY <1>4, <1>5, <1>6
  <2>4. QED BY <2>2, <2>3, SeqEqual
<1>7. QED
  BY <1>2, <1>3, <1>4, <1>5, <1>6 DEF w

\* The word behind the first blank of a line, when there is one, is the scheme; where the line
\* goes on with it, both calls of cut_token() leave it as it is.
LEMMA SchemeIs ==
  ASSUME NEW s \in Text, Len(s) < Size, NEW b, Buffer(b, Len(s) + 1),
         \A i \in 1..Len(s) : b[i] = s[i],
         Len(s) >= 2, s[1] # SP, s[2] # SP
  PROVE  LET scheme == cut_token(b, 1, SP)
             realm  == cut_token(scheme.buf, scheme.ptr, SP)
         IN /\ realm.ptr = 0 =>
                 \A k \in 1..Len(s) : s[k] = SP => \A l \in k..Len(s) : s[l] = SP
            /\ Len(s) >= 4 /\ s[3] = SP /\ s[4] # SP =>
                 realm.ptr # 0 /\ realm.buf[scheme.ptr] = s[4]
<1> DEFINE n == Len(s) + 1
           scheme == cut_token(b, 1, SP)
           realm  == cut_token(scheme.buf, scheme.ptr, SP)
<1>1. /\ Len(s) \in Nat /\ n \in Nat /\ 1 \in 1..n /\ SP # NUL /\ b[n] = NUL
      /\ \A i \in 1..Len(s) : s[i] # NUL
  <2>1. \A i \in 1..Len(s) : s[i] \in STRING \ {NUL}
    BY ElementOfSeq DEF Text
  <2>2. Len(s) \in Nat /\ b[n] = NUL
    BY LenProperties DEF Text, Buffer
  <2>3. SP # NUL
    BY DEF SP, NUL
  <2>4. QED BY <2>1, <2>2, <2>3
<1>2. Buffer(b, n)
  OBVIOUS
<1> HIDE DEF n
<1>3. PICK ptr \in 1..n : \E end \in ptr..n :
        /\ CutFrom(b, 1, SP, ptr, end)
        /\ ptr # 1 => \E cut :
             /\ scheme = [buf |-> cut, ptr |-> end]
             /\ Buffer(cut, n)
             /\ \A i \in end..n : cut[i] = b[i]
  BY <1>1, <1>2, CutForm
<1>4. PICK end \in ptr..n :
        /\ CutFrom(b, 1, SP, ptr, end)
        /\ ptr # 1 => \E cut :
             /\ scheme = [buf |-> cut, ptr |-> end]
             /\ Buffer(cut, n)
             /\ \A i \in end..n : cut[i] = b[i]
  BY <1>3
<1>5. ptr \in Nat /\ end \in Nat /\ n = Len(s) + 1 /\ ptr >= 1 /\ end >= ptr /\ end <= n
  BY <1>1 DEF n
<1>6. ptr # 1 /\ ptr # 2
  <2>1. b[1] = s[1] /\ b[2] = s[2] /\ 1 \in 1..Len(s) /\ 2 \in 1..Len(s)
    BY <1>1
  <2>2. QED BY <1>1, <1>4, <2>1 DEF CutFrom
<1>7. PICK cut :
        /\ scheme = [buf |-> cut, ptr |-> end]
        /\ Buffer(cut, n)
        /\ \A i \in end..n : cut[i] = b[i]
  BY <1>4, <1>6
<1>8. realm = cut_token(cut, end, SP) /\ cut[end] = b[end] /\ end \in 1..n
  BY <1>5, <1>7
<1>9. PICK ptr2 \in end..n : \E end2 \in ptr2..n :
        /\ CutFrom(cut, end, SP, ptr2, end2)
        /\ ptr2 = end => realm = [buf |-> cut, ptr |-> 0]
        /\ ptr2 # end => \E cut2 :
             /\ realm = [buf |-> cut2, ptr |-> end2]
             /\ \A i \in 1..ptr2 - 1 : cut2[i] = cut[i]
  <2>1. Buffer(cut, n) /\ end \in 1..n /\ SP # NUL
    BY <1>1, <1>7, <1>8
  <2>2. \E ptr2 \in end..n : \E end2 \in ptr2..n :
          /\ CutFrom(cut, end, SP, ptr2, end2)
          /\ ptr2 = end => cut_token(cut, end, SP) = [buf |-> cut, ptr |-> 0]
          /\ ptr2 # end => \E cut2 :
               /\ cut_token(cut, end, SP) = [buf |-> cut2, ptr |-> end2]
               /\ Buffer(cut2, n)
               /\ \A i \in 1..ptr2 - 1 : cut2[i] = cut[i]
               /\ \A i \in end2..n : cut2[i] = cut[i]
    BY ONLY <2>1, CutForm
  <2> HIDE DEF realm
  <2>3. QED BY <1>8, <2>2
<1>10. PICK end2 \in ptr2..n :
        /\ CutFrom(cut, end, SP, ptr2, end2)
        /\ ptr2 = end => realm = [buf |-> cut, ptr |-> 0]
        /\ ptr2 # end => \E cut2 :
             /\ realm = [buf |-> cut2, ptr |-> end2]
             /\ \A i \in 1..ptr2 - 1 : cut2[i] = cut[i]
  BY <1>9
<1> HIDE DEF scheme, realm
<1>11. realm.ptr = 0 => ptr2 = end
  <2>1. ptr2 # end => realm.ptr = end2
    BY <1>10
  <2>2. end2 # 0
    BY <1>5
  <2>3. QED BY <2>1, <2>2
\* Nothing stands behind the blanks.
<1>12. ASSUME realm.ptr = 0, NEW k \in 1..Len(s), s[k] = SP, NEW l \in k..Len(s) PROVE s[l] = SP
  <2>1. b[end] = NUL
    BY <1>4, <1>8, <1>10, <1>11, <1>12 DEF CutFrom
  <2>2. end = n
    <3>1. end \in 1..Len(s) => b[end] = s[end] /\ s[end] # NUL
      BY <1>1
    <3>2. QED BY <1>5, <2>1, <3>1
  <2>3. k >= ptr
    <3>1. b[k] = SP
      BY <1>12
    <3>2. k \notin 1..ptr - 1
      BY <1>4, <3>1 DEF CutFrom
    <3>3. QED BY <1>5, <3>2
  <2>4. l \in ptr..end - 1 /\ l \in 1..Len(s)
    BY <1>5, <2>2, <2>3
  <2>5. QED BY <1>4, <2>4 DEF CutFrom
\* A word behind one blank.
<1>13. ASSUME Len(s) >= 4, s[3] = SP, s[4] # SP PROVE realm.ptr # 0 /\ realm.buf[scheme.ptr] = s[4]
  <2>1. 3 \in 1..Len(s) /\ 4 \in 1..Len(s) /\ b[3] = SP /\ b[4] = s[4] /\ b[4] \notin {SP, NUL}
    BY <1>1, <1>13
  <2>2. ptr = 3
    <3>1. 3 \notin 1..ptr - 1
      BY <1>4, <2>1 DEF CutFrom
    <3>2. QED BY <1>5, <1>6, <3>1
  <2>3. end = 4
    <3>1. end # 3
      BY <1>4, <2>1 DEF CutFrom
    <3>2. 4 \notin ptr..end - 1
      BY <1>4, <2>1 DEF CutFrom
    <3>3. QED BY <1>5, <2>2, <3>1, <3>2
  <2>4. ptr2 # end
    BY <1>8, <1>10, <2>1, <2>3 DEF CutFrom
  <2>5. PICK cut2 : realm = [buf |-> cut2, ptr |-> end2] /\ \A i \in 1..ptr2 - 1 : cut2[i] = cut[i]
    BY <1>10, <2>4
  <2>6. 4 \in 1..ptr2 - 1 /\ end2 # 0
    BY <1>5, <2>3, <2>4
  <2>7. QED BY <1>7, <1>8, <2>1, <2>3, <2>5, <2>6
<1>14. QED
  BY <1>12, <1>13 DEF scheme, realm

\* The line that is read next.
LEMMA NextLine ==
  ASSUME Typed, LineRead
  PROVE  Line = SubSeq(reply, pos + 1, pos') /\ pos' = pos + Len(Line)
<1>1. Stream /\ LineReady /\ pos' = pos + Len(Line)
  BY DEF Typed, LineRead
<1>2. /\ LineEnds # {} => Line = SubSeq(reply, pos + 1, pos')
      /\ LineEnds = {} => pos' = arrived
  BY <1>1, LineFacts
<1>3. LineEnds = {} => Line = SubSeq(reply, pos + 1, pos')
  BY <1>2 DEF Line
<1>4. QED
  BY <1>1, <1>2, <1>3

\* A field that offers Basic and is read only now is the line that is read, as a whole.
LEMMA OfferedNow ==
  ASSUME Typed, Aligned, auth_what # "", LineReady, NEW end, end = pos + Len(Line),
         Offered(end), ~Offered(pos)
  PROVE  Len(Line) >= 4 /\ Line[1] = auth_what /\ Line[2] = ":" /\ Line[3] = SP /\ Line[4] = "basic"
<1> DEFINE n == Len(Line)
<1>1. PICK i \in 2..header, j \in 2..header : LineAt(i, j) /\ Fits(i, j) /\ j <= end /\ Offers(i)
  BY DEF Offered
<1>2. ~(j <= pos)
  BY <1>1 DEF Offered
<1>3. /\ end \in pos..arrived /\ Stream
      /\ LineEnds # {} => end \in LineEnds /\ \A k \in LineEnds : end <= k
  BY LineFacts DEF Typed
<1>4. n \in Nat /\ end = pos + n /\ \A k \in 1..n : Line[k] = reply[pos + k]
  BY <1>3, LineIs
<1> HIDE DEF n
<1>5. pos \in Nat /\ arrived \in Nat /\ header \in Nat
  BY AnswerPlaces
<1>6. end \in Nat /\ pos <= end /\ end <= arrived
  <2>1. end \in pos..arrived
    BY <1>3
  <2>2. QED BY ONLY <1>5, <2>1
<1>7. i \in Nat /\ j \in Nat /\ i >= 1 /\ i <= j /\ j <= end /\ reply[j] = LF
  <2>1. i \in 2..header /\ j \in 2..header
    OBVIOUS
  <2>2. i <= j /\ j <= end /\ reply[j] = LF
    BY <1>1 DEF LineAt
  <2>3. QED BY ONLY <1>5, <2>1, <2>2
<1>8. j \in LineEnds /\ j = end
  <2>1. j \in pos + 1..arrived /\ reply[j] = LF
    BY ONLY <1>2, <1>5, <1>6, <1>7
  <2>2. j \in LineEnds
    BY ONLY <2>1 DEF LineEnds
  <2>3. end <= j
    BY <1>3, <2>2
  <2>4. QED BY ONLY <1>6, <1>7, <2>2, <2>3
<1>9. i = pos + 1
  <2>1. LineEnds # {} /\ \A k \in LineEnds : j <= k
    BY <1>3, <1>8
  <2>2. QED BY <1>1, <1>3, <1>7, <1>8, <2>1, WholeLine
<1>10. /\ reply[i] = auth_what /\ reply[i + 1] = ":" /\ reply[i + 2] = SP /\ reply[i + 3] = "basic"
       /\ reply[j] = LF
  BY <1>1 DEF Offers, LineAt
<1>11. i # j /\ i + 1 # j /\ i + 2 # j /\ i + 3 # j
  BY <1>10 DEF Typed, LF, SP
<1>12. /\ n >= 4 /\ 1 \in 1..n /\ 2 \in 1..n /\ 3 \in 1..n /\ 4 \in 1..n
       /\ pos + 2 = i + 1 /\ pos + 3 = i + 2 /\ pos + 4 = i + 3
  <2>1. i >= 1 /\ i <= j /\ i \in Nat /\ pos \in Nat /\ n \in Nat /\ j = pos + n /\ i = pos + 1
    BY <1>4, <1>5, <1>7, <1>8, <1>9
  <2>2. QED BY ONLY <1>11, <2>1
<1>13. QED
  BY <1>4, <1>9, <1>10, <1>12 DEF n

\* A field that is read now is taken for an offer, gives up because it names no scheme, or leaves
\* the type as it is.
LEMMA ChallengeOffer ==
  ASSUME OfferInv, Challenge
  PROVE  \/ mpc' = "failed" /\ NamesNone(SubSeq(reply, pos + 1, pos'))
         \/ /\ Offered(pos') => proxy_auth_type' = PROXY_AUTH_BASIC
            /\ mpc' = "failed" => proxy_auth_type' = PROXY_AUTH_NONE
<1> DEFINE n == Len(Line) + 1
           scheme == cut_token(NewBuf, 1, SP)
           realm  == cut_token(scheme.buf, scheme.ptr, SP)
<1>1. /\ Typed /\ Stream /\ Aligned /\ LineReady /\ LineRead /\ mpc = "challenge"
      /\ auth_what # ""
      /\ Offered(pos) => proxy_auth_type = PROXY_AUTH_BASIC
  BY DEF OfferInv, TunnelInv, Typed, Offering, Challenge, LineRead
<1>2. /\ Str(NewBuf, 1) = Line /\ \A i \in 1..Len(Line) : NewBuf[i] = Line[i]
      /\ Line \in Text /\ Len(Line) < Size /\ Buffer(NewBuf, n)
  BY <1>1, ReadStream, LineIs, LineIn
<1>3. expect(NewBuf, <<auth_what, ":">>) <=> IsPrefix(<<auth_what, ":">>, Line)
  BY <1>2 DEF expect
<1>4. IsPrefix(<<auth_what, ":">>, Line) <=> Len(Line) >= 2 /\ Line[1] = auth_what /\ Line[2] = ":"
  BY <1>2, Prefix
<1>5. Line = SubSeq(reply, pos + 1, pos') /\ pos' = pos + Len(Line)
  BY <1>1, NextLine
<1>6. \A x : AuthOffered(x) = IF x = "basic" THEN PROXY_AUTH_BASIC ELSE proxy_auth_type
  BY DEF AuthOffered
<1>7. CASE expect(NewBuf, <<auth_what, ":">>)
  <2>1. IF realm.ptr = 0 THEN mpc' = "failed" /\ UNCHANGED proxy_auth_type
        ELSE proxy_auth_type' = AuthOffered(realm.buf[scheme.ptr]) /\ UNCHANGED mpc
    BY <1>7 DEF Challenge
  <2>2. Len(Line) >= 2 /\ Line[1] # SP /\ Line[2] # SP
    BY <1>1, <1>3, <1>4, <1>7 DEF Typed, SP
  <2>3. /\ realm.ptr = 0 =>
             \A k \in 1..Len(Line) : Line[k] = SP => \A l \in k..Len(Line) : Line[l] = SP
        /\ Len(Line) >= 4 /\ Line[3] = SP /\ Line[4] # SP =>
             realm.ptr # 0 /\ realm.buf[scheme.ptr] = Line[4]
    BY <1>2, <2>2, SchemeIs
  <2> HIDE DEF scheme, realm
  <2>4. CASE realm.ptr = 0
    <3>1. DOMAIN Line = 1..Len(Line)
      BY <1>2, LenProperties DEF Text
    <3>2. NamesNone(Line)
      BY <1>3, <1>7, <2>3, <2>4, <3>1 DEF NamesNone
    <3>3. QED BY <1>5, <2>1, <2>4, <3>2
  <2>5. CASE realm.ptr # 0
    <3>1. mpc' # "failed"
      BY <1>1, <2>1, <2>5
    <3>2. ASSUME Offered(pos'), ~Offered(pos) PROVE proxy_auth_type' = PROXY_AUTH_BASIC
      <4>1. Len(Line) >= 4 /\ Line[3] = SP /\ Line[4] = "basic"
        BY <1>1, <1>5, <3>2, OfferedNow
      <4>2. realm.buf[scheme.ptr] = "basic"
        BY <2>3, <4>1 DEF SP
      <4>3. QED BY <1>6, <2>1, <2>5, <4>2
    <3>3. Offered(pos) => proxy_auth_type' = PROXY_AUTH_BASIC
      BY <1>1, <1>6, <2>1, <2>5
    <3>4. QED BY <3>1, <3>2, <3>3
  <2>6. QED BY <2>4, <2>5
<1>8. CASE ~expect(NewBuf, <<auth_what, ":">>)
  <2>1. UNCHANGED proxy_auth_type
    BY <1>8 DEF Challenge
  <2>2. mpc' = "failed" => proxy_auth_type' = PROXY_AUTH_NONE
    BY <1>1, <1>8 DEF Challenge, EndChallenge
  <2>3. Offered(pos') => Offered(pos)
    <3>1. ASSUME Offered(pos'), ~Offered(pos) PROVE FALSE
      <4>1. Len(Line) >= 4 /\ Line[1] = auth_what /\ Line[2] = ":" /\ Len(Line) \in Nat
        BY <1>1, <1>5, <3>1, LineIs, OfferedNow
      <4>2. Len(Line) >= 2
        <5> DEFINE m == Len(Line)
        <5>1. m \in Nat /\ m >= 4
          BY <4>1
        <5> HIDE DEF m
        <5>2. m >= 2
          BY ONLY <5>1
        <5>3. QED BY <5>2 DEF m
      <4>3. QED BY <1>3, <1>4, <1>8, <4>1, <4>2
    <3>2. QED BY <3>1
  <2>4. QED BY <1>1, <2>1, <2>2, <2>3
<1>9. QED
  BY <1>7, <1>8

\* The first line is the status line: no field ends within it.
LEMMA StatusOffer == OfferInv /\ Status => OfferInv'
<1> SUFFICES ASSUME OfferInv, Status PROVE OfferInv'
  OBVIOUS
<1>1. /\ Typed /\ Stream /\ TunnelInv /\ LineReady /\ LineRead /\ pos = 0
      /\ UNCHANGED <<reply, header, arrived, peer, proxy_auth_type>>
  BY DEF OfferInv, TunnelInv, Typed, Reading, Status, LineRead, relay
<1>2. TunnelInv'
  BY <1>1, StatusTunnel
<1>3. mpc' = "challenge" => auth_what' # ""
  BY DEF Status
<1>4. pos' = pos + Len(Line)
  BY <1>1, NextLine
<1>5. Aligned'
  <2>1. Aligned
    BY <1>1 DEF Aligned
  <2>2. QED BY <1>1, <1>4, <2>1, ReadAligned
<1>6. ASSUME Offered(pos)' PROVE FALSE
  <2> DEFINE end == pos + Len(Line)
  <2>1. PICK i \in 2..header, j \in 2..header : LineAt(i, j) /\ j <= end
    BY <1>1, <1>4, <1>6 DEF Offered, LineAt
  <2>2. end \in pos..arrived /\ (LineEnds # {} => \A k \in LineEnds : end <= k)
    BY <1>1, LineFacts
  <2> HIDE DEF end
  <2>3. i <= j /\ (i = 1 \/ reply[i - 1] = LF) /\ i \in 2..header /\ j \in 2..header
    BY <2>1 DEF LineAt
  <2>4. arrived \in Nat /\ header \in Nat
    BY <1>1, AnswerPlaces
  <2>5. i - 1 \in pos + 1..arrived /\ reply[i - 1] = LF /\ i - 1 < end
    BY ONLY <1>1, <2>1, <2>2, <2>3, <2>4
  <2>6. i - 1 \in LineEnds
    BY <2>5 DEF LineEnds
  <2>7. end <= i - 1
    BY <2>2, <2>6
  <2>8. QED BY ONLY <2>2, <2>3, <2>4, <2>5, <2>7
<1>7. QED
  BY <1>2, <1>3, <1>5, <1>6 DEF OfferInv, Offering

LEMMA StepOffer == OfferInv /\ [Next]_vars => OfferInv'
<1> SUFFICES ASSUME OfferInv, [Next]_vars PROVE OfferInv'
  OBVIOUS
<1>1. Typed /\ TunnelInv /\ TunnelInv'
  BY StepTunnel DEF OfferInv, TunnelInv
<1>2. CASE Challenge
  <2>1. /\ mpc = "challenge" /\ Stream /\ Aligned /\ LineReady /\ auth_what # ""
        /\ UNCHANGED <<auth_what, reply, header, arrived>>
    BY <1>2 DEF OfferInv, TunnelInv, Typed, Offering, Challenge, LineRead
  <2>2. ASSUME mpc' = "challenge" PROVE Aligned'
    <3>1. pos' = pos + Len(Line) /\ peer' = peer
      BY <1>2, <2>2 DEF Challenge, LineRead, EndChallenge
    <3>2. QED BY <2>1, <3>1, ReadAligned
  <2>3. mpc' = "challenge" => (Offered(pos') => proxy_auth_type' = PROXY_AUTH_BASIC)
    BY <1>2, ChallengeOffer
  <2>4. Offered(pos)' => Offered(pos')
    BY <2>1 DEF Offered, LineAt, Offers
  <2>5. QED BY <1>1, <2>1, <2>2, <2>3, <2>4 DEF OfferInv, Offering
<1>3. CASE Arrive \/ ProxyLeaves \/ UNCHANGED vars
  <2>1. /\ UNCHANGED <<mpc, auth_what, proxy_auth_type, reply, header, pos>>
        /\ peer = "open" \/ UNCHANGED <<peer, arrived>>
    BY <1>3 DEF Arrive, ProxyLeaves, Arrives, Leaves, vars, relay, conn
  <2>2. Aligned => Aligned'
    BY <2>1 DEF Aligned, CutAt
  <2>3. Offered(pos)' => Offered(pos)
    BY <2>1 DEF Offered, LineAt, Offers
  <2>4. QED BY <1>1, <2>1, <2>2, <2>3 DEF OfferInv, Offering
<1>4. CASE /\ \/ OpenConnection \/ OpenFails \/ Request \/ RequestFails \/ StatusFails \/ Redirect
              \/ RedirectCut \/ ChallengeCut \/ Skip \/ SkipFails \/ TimedOut \/ Answer
           /\ mpc' # "challenge"
  BY <1>1, <1>4 DEF OfferInv, Offering
<1>5. (OpenConnection \/ OpenFails \/ Request \/ RequestFails \/ StatusFails \/ RedirectCut
         \/ ChallengeCut \/ Skip \/ SkipFails \/ TimedOut \/ Answer) => mpc' # "challenge"
  BY DEF OpenConnection, OpenFails, Request, RequestFails, StatusFails, RedirectCut, Retry,
         ChallengeCut, EndChallenge, Skip, SkipFails, TimedOut, Answer
<1>6. Redirect => mpc' # "challenge"
  BY <1>1, RedirectTyped
<1>7. QED
  BY <1>2, <1>3, <1>4, <1>5, <1>6, StatusOffer DEF Next, Program

\* Basic is answered, for any header in any pieces: the program gives up on a challenge only where
\* no field that fits the buffer has offered it, or at a field that names no scheme.
THEOREM BasicAnswered == Spec => BasicIsAnswered
<1>1. Init => OfferInv
  <2> SUFFICES ASSUME Init PROVE OfferInv
    OBVIOUS
  <2>1. mpc = "open" /\ reply = <<>>
    BY DEF Init
  <2>2. QED BY <2>1, StartTyped DEF OfferInv, Offering, TunnelInv, Shape, Reading
<1>2. ASSUME OfferInv, [Next]_vars
      PROVE  [ (mpc = "challenge" /\ mpc' = "failed")
                 => NamesNone(SubSeq(reply, pos + 1, pos')) \/ ~Offered(pos') ]_vars
  <2> SUFFICES ASSUME mpc = "challenge", mpc' = "failed"
               PROVE  NamesNone(SubSeq(reply, pos + 1, pos')) \/ ~Offered(pos')
    OBVIOUS
  <2>1. Challenge \/ ChallengeCut
    BY <1>2 DEF Next, Program, OpenConnection, OpenFails, Request, RequestFails, Status, StatusFails,
                Redirect, RedirectCut, Skip, SkipFails, TimedOut, Answer, Arrive, ProxyLeaves, vars
  <2>2. CASE Challenge
    BY <1>2, <2>2, ChallengeOffer DEF PROXY_AUTH_NONE, PROXY_AUTH_BASIC
  <2>3. CASE ChallengeCut
    <3>1. proxy_auth_type = PROXY_AUTH_NONE /\ pos' = pos
      BY <2>3 DEF ChallengeCut, EndChallenge
    <3>2. QED BY <1>2, <3>1 DEF OfferInv, Offering, PROXY_AUTH_NONE, PROXY_AUTH_BASIC
  <2>4. QED BY <2>1, <2>2, <2>3
<1>3. QED
  BY <1>1, <1>2, StepOffer, PTL DEF Spec, BasicIsAnswered

(***************************************************************************)
(* The negotiation gets on.                                                *)
(***************************************************************************)
Stage ==
  CASE mpc = "open"    -> 0
    [] mpc = "request" -> 1
    [] mpc = "status"  -> 2
    [] mpc \in {"redirect", "challenge", "skip"} -> 3
    [] OTHER           -> 4

\* A step goes to a later stage, or reads something; it begins anew behind a redirection or
\* the one challenge that is answered; or it reads nothing for ever.
Onward ==
  \/ Stage' > Stage
  \/ mpc' = mpc /\ (pos' > pos \/ Spins)
  \/ mpc = "redirect" /\ mpc' = "open"
  \/ mpc = "challenge" /\ mpc' = "open" /\ challenges = 0 /\ challenges' = 1

\* A line is empty only at the end of what a proxy that has left has sent.
LEMMA LineOnward ==
  ASSUME Stream, LineRead PROVE pos' > pos \/ (pos' = pos /\ peer = "closed" /\ pos = arrived)
<1>1. LineReady /\ pos' = pos + Len(Line)
  BY DEF LineRead
<1>2. CASE LineEnds # {}
  <2>1. pos + Len(Line) \in LineEnds
    BY <1>1, <1>2, LineFacts
  <2>2. pos + Len(Line) \in pos + 1..arrived
    BY <2>1 DEF LineEnds
  <2>3. QED
    BY <1>1, <2>2, Places
<1>3. CASE LineEnds = {}
  <2>1. pos + Len(Line) = arrived /\ peer = "closed"
    BY <1>1, <1>3, LineFacts
  <2>2. QED
    BY <1>1, <2>1, Places
<1>4. QED
  BY <1>2, <1>3

LEMMA FieldOnward ==
  ASSUME Stream, LineRead, mpc' = mpc, mpc \in {"redirect", "challenge", "skip"} PROVE Onward
<1>1. pos' > pos \/ Spins
  BY LineOnward DEF Spins
<1>2. QED
  BY <1>1 DEF Onward

LEMMA ChallengeOnward == Inv /\ Typed /\ (Challenge \/ ChallengeCut) => Onward
<1> SUFFICES ASSUME Inv, Typed, Challenge \/ ChallengeCut PROVE Onward
  OBVIOUS
<1>1. mpc = "challenge" /\ challenges = 0
  BY DEF Inv, Challenge, ChallengeCut
<1>2. \/ mpc' = "failed"
      \/ mpc' = "open" /\ challenges' = 1
      \/ mpc' = mpc /\ LineRead
  BY <1>1, OneMore DEF Challenge, ChallengeCut, EndChallenge
<1>3. Stage' > Stage \/ mpc' # "failed"
  BY <1>1 DEF Stage
<1>4. CASE mpc' = mpc /\ LineRead
  BY <1>1, <1>4, FieldOnward DEF Typed
<1>5. QED
  BY <1>1, <1>2, <1>3, <1>4 DEF Onward

LEMMA RedirectOnward == Typed /\ (Redirect \/ RedirectCut) => Onward
<1> SUFFICES ASSUME Typed, Redirect \/ RedirectCut PROVE Onward
  OBVIOUS
<1>1. mpc = "redirect" /\ (mpc' = "open" \/ (mpc' = mpc /\ LineRead))
  BY DEF Redirect, RedirectCut, Retry
<1>2. CASE mpc' = mpc /\ LineRead
  BY <1>1, <1>2, FieldOnward DEF Typed
<1>3. QED
  BY <1>1, <1>2 DEF Onward

LEMMA LaterOnward ==
  Typed /\ (OpenConnection \/ OpenFails \/ Request \/ RequestFails \/ Status \/ StatusFails) => Onward
<1> SUFFICES ASSUME Typed,
                    OpenConnection \/ OpenFails \/ Request \/ RequestFails \/ Status \/ StatusFails
             PROVE  Stage' > Stage
  BY DEF Onward
<1>1. CASE OpenConnection \/ OpenFails
  <2>1. mpc = "open" /\ mpc' \in {"request", "failed"}
    BY <1>1 DEF OpenConnection, OpenFails
  <2>2. QED
    BY <2>1 DEF Stage
<1>2. CASE Request \/ RequestFails
  <2>1. mpc = "request" /\ mpc' \in {"status", "failed"}
    BY <1>2 DEF Request, RequestFails
  <2>2. QED
    BY <2>1 DEF Stage
<1>3. CASE Status \/ StatusFails
  <2>1. mpc = "status" /\ mpc' \in {"failed", "skip", "redirect", "challenge"}
    BY <1>3, StatusTyped DEF Status, StatusFails
  <2>2. QED
    BY <2>1 DEF Stage
<1>4. QED
  BY <1>1, <1>2, <1>3

LEMMA EndOnward == Typed /\ (Skip \/ SkipFails \/ TimedOut) => Onward
<1> SUFFICES ASSUME Typed, Skip \/ SkipFails \/ TimedOut PROVE Onward
  OBVIOUS
<1>1. CASE Skip /\ mpc' = "skip"
  <2>1. mpc = "skip" /\ LineRead
    BY <1>1 DEF Skip
  <2>2. QED
    BY <1>1, <2>1, FieldOnward DEF Typed
<1>2. CASE ~(Skip /\ mpc' = "skip")
  <2>1. mpc \in {"open", "request", "status", "redirect", "challenge", "skip"}
    BY DEF Typed, Phases, Skip, SkipFails, TimedOut
  <2>2. mpc' \in {"relaying", "failed", "timed out"}
    BY <1>2 DEF Skip, SkipFails, TimedOut
  <2>3. Stage \in {0, 1, 2, 3}
    BY ONLY <2>1 DEF Stage
  <2>4. Stage' = 4
    BY ONLY <2>2 DEF Stage
  <2>5. QED
    BY <2>3, <2>4 DEF Onward
<1>3. QED
  BY <1>1, <1>2

\* Each step of the program brings the negotiation on: to a later stage, or further into the
\* header, which does not grow behind its end.  It begins anew behind a redirection, and once
\* for credentials; and it stays where it is only at the end of what a proxy that has closed the
\* connection has sent.  What the proxy does never puts it back.  NegotiationEnds says that there
\* are no other ways to go on for ever.
THEOREM NegotiationAdvances ==
  Spec => [][IF Program \/ TimedOut
               THEN Onward
               ELSE UNCHANGED <<mpc, pos>> /\ arrived' >= arrived]_vars
<1>1. Init => Inv
  <2>1. Init => challenges = 0
    BY DEF Init
  <2>2. QED BY <2>1 DEF Inv
<1>2. ASSUME Inv, Typed, [Next]_vars
      PROVE  IF Program \/ TimedOut THEN Onward ELSE UNCHANGED <<mpc, pos>> /\ arrived' >= arrived
  <2>1. CASE Program \/ TimedOut
    BY <1>2, <2>1, ChallengeOnward, RedirectOnward, LaterOnward, EndOnward DEF Program
  <2>2. CASE ~(Program \/ TimedOut)
    <3>1. Answer \/ Arrive \/ ProxyLeaves \/ UNCHANGED vars
      BY <1>2, <2>2 DEF Next
    <3>2. UNCHANGED <<mpc, pos>>
      BY <3>1 DEF Answer, Arrive, ProxyLeaves, vars, conn
    <3>3. arrived' = arrived \/ \E n \in arrived + 1..Len(reply) : arrived' = n
      BY <3>1 DEF Answer, Arrive, Arrives, ProxyLeaves, vars, conn
    <3>4. arrived' >= arrived
      BY <1>2, <3>3, AnswerPlaces
    <3>5. QED
      BY <2>2, <3>2, <3>4
  <2>3. QED
    BY <2>1, <2>2
<1>3. Inv /\ Typed /\ [Next]_vars
        => [IF Program \/ TimedOut
              THEN Onward
              ELSE UNCHANGED <<mpc, pos>> /\ arrived' >= arrived]_vars
  BY <1>2
<1>4. QED
  BY <1>1, <1>3, StepInv, StartTyped, StepTyped, PTL DEF Spec
=============================================================================
