---------------------------- MODULE SocksProofs ----------------------------
(***************************************************************************)
(* What is proved of Socks, for any destination, user, password, list of   *)
(* methods and name in an answer, and for a server that sends its answers  *)
(* in pieces of any length: the types, that the tunnel starts directly     *)
(* behind the last answer, that the right target is asked for, and that    *)
(* nothing is waited for that is not to come.                              *)
(***************************************************************************)
EXTENDS Socks, SequenceTheorems, TLAPS

Texts == Seq(Byte)

LEMMA Literals ==
  /\ <<>> \in Texts /\ Len(<<>>) = 0
  /\ \A a \in Byte : <<a>> \in Texts /\ Len(<<a>>) = 1 /\ <<a>>[1] = a
  /\ \A a, b \in Byte : /\ <<a, b>> \in Texts /\ Len(<<a, b>>) = 2
                        /\ <<a, b>>[1] = a /\ <<a, b>>[2] = b
  /\ \A a, b, c \in Byte : /\ <<a, b, c>> \in Texts /\ Len(<<a, b, c>>) = 3
                           /\ <<a, b, c>>[1] = a /\ <<a, b, c>>[2] = b /\ <<a, b, c>>[3] = c
BY DEF Texts

LEMMA Pair ==
  ASSUME NEW a \in Byte, NEW b \in Byte
  PROVE  <<a, b>> \in Texts /\ Len(<<a, b>>) = 2
BY Literals, Zenon

LEMMA Concat ==
  ASSUME NEW s \in Texts, NEW t \in Texts
  PROVE  /\ s \o t \in Texts /\ Len(s \o t) = Len(s) + Len(t)
         /\ \A i \in 1..Len(s) : (s \o t)[i] = s[i]
         /\ \A i \in 1..Len(t) : (s \o t)[Len(s) + i] = t[i]
<1>1. /\ s \o t \in Texts /\ Len(s \o t) = Len(s) + Len(t)
      /\ \A i \in 1..Len(s) + Len(t) : (s \o t)[i] = IF i <= Len(s) THEN s[i] ELSE t[i - Len(s)]
  BY ConcatProperties DEF Texts
<1>2. Len(s) \in Nat /\ Len(t) \in Nat
  BY LenProperties DEF Texts
<1>3. \A i \in 1..Len(s) : (s \o t)[i] = s[i]
  BY <1>1, <1>2
<1>4. ASSUME NEW i \in 1..Len(t) PROVE (s \o t)[Len(s) + i] = t[i]
  <2>1. Len(s) + i \in 1..Len(s) + Len(t) /\ ~(Len(s) + i <= Len(s)) /\ Len(s) + i - Len(s) = i
    BY <1>2
  <2>2. QED BY <1>1, <2>1
<1>5. QED
  BY <1>1, <1>3, <1>4

LEMMA SubText ==
  ASSUME NEW s \in Texts, NEW m \in 1..Len(s) + 1, NEW n \in m - 1..Len(s)
  PROVE  /\ SubSeq(s, m, n) \in Texts /\ Len(SubSeq(s, m, n)) = n - m + 1
         /\ \A i \in 1..n - m + 1 : SubSeq(s, m, n)[i] = s[m + i - 1]
<1>1. Len(s) \in Nat /\ \A i \in 1..Len(s) : s[i] \in Byte
  BY LenProperties, ElementOfSeq DEF Texts
<1>2. m \in Int /\ n \in Int /\ \A i \in m..n : s[i] \in Byte
  BY <1>1
<1>3. QED
  BY <1>1, <1>2, SubSeqProperties DEF Texts

\* A piece of a message stands where it was put.
LEMMA Middle ==
  ASSUME NEW s \in Texts, NEW t \in Texts, NEW u \in Texts
  PROVE  SubSeq(s \o t \o u, Len(s) + 1, Len(s) + Len(t)) = t
<1> DEFINE m == s \o t \o u  p == SubSeq(m, Len(s) + 1, Len(s) + Len(t))
<1>1. Len(s) \in Nat /\ Len(t) \in Nat /\ Len(u) \in Nat
  BY LenProperties DEF Texts
<1>2. /\ m \in Texts /\ Len(m) = Len(s) + Len(t) + Len(u)
      /\ \A i \in 1..Len(s) + Len(t) : m[i] = (s \o t)[i]
  BY Concat
<1>3. \A i \in 1..Len(t) : m[Len(s) + i] = t[i]
  <2>1. \A i \in 1..Len(t) : Len(s) + i \in 1..Len(s) + Len(t)
    BY <1>1
  <2>2. QED BY <1>2, <2>1, Concat
<1>4. Len(s) + 1 \in 1..Len(m) + 1 /\ Len(s) + Len(t) \in Len(s) + 1 - 1..Len(m)
      /\ Len(s) + Len(t) - (Len(s) + 1) + 1 = Len(t)
  BY <1>1, <1>2
<1> HIDE DEF m
<1>5. p \in Texts /\ Len(p) = Len(t) /\ \A i \in 1..Len(t) : p[i] = m[Len(s) + 1 + i - 1]
  BY <1>2, <1>4, SubText
<1>6. \A i \in 1..Len(t) : p[i] = t[i]
  <2>1. \A i \in 1..Len(t) : Len(s) + 1 + i - 1 = Len(s) + i
    BY <1>1
  <2>2. QED BY <1>3, <1>5, <2>1
<1> HIDE DEF p
<1>7. p = t
  BY <1>5, <1>6, SeqEqual DEF Texts
<1>8. QED
  BY <1>7 DEF p, m

LEMMA SmallBytes == 0 \in Byte /\ 1 \in Byte /\ 3 \in Byte /\ 4 \in Byte /\ 5 \in Byte
BY DEF Byte

LEMMA WordBytes ==
  ASSUME NEW n \in Word
  PROVE  n \div 256 \in Byte /\ n % 256 \in Byte
<1> DEFINE last == 256 * 256 - 1
<1>1. n \in 0..last
  BY Zenon DEF Word
<1>2. n \in Int /\ 0 <= n /\ n <= last
  <2>1. last \in Int
    OBVIOUS
  <2> HIDE DEF last
  <2>2. QED BY <1>1, <2>1
<1>3. /\ n \div 256 \in Int /\ 0 <= n \div 256 /\ n \div 256 <= 255
      /\ n % 256 \in Int /\ 0 <= n % 256 /\ n % 256 <= 255
  BY <1>2
<1>4. QED
  BY <1>3 DEF Byte

LEMMA Constants ==
  /\ DestHost \in Texts /\ Len(DestHost) \in 1..200
  /\ DestAddr \in Texts /\ Len(DestAddr) = 4 /\ AnyAddr \in Texts /\ Len(AnyAddr) = 4
  /\ DestAddr # AnyAddr
  /\ User \in Texts /\ Len(User) \in Byte
  /\ Password \in Texts /\ Len(Password) \in Byte
  /\ Tunnel \in Texts
  /\ Port \in Texts /\ Len(Port) = 2
  /\ \A l \in AuthLists : l \in Texts /\ Len(l) \in 1..10
<1>1. \A s \in Seq(Byte \ {0}) : s \in Texts
  <2>1. Byte \ {0} \subseteq Byte
    OBVIOUS
  <2>2. QED BY <2>1, SeqMonotonic DEF Texts
<1>2. \A s \in Seq(Byte \ {0}) : Len(s) \in Nat
  BY LenProperties
<1>3. DestAddr \in Texts /\ Len(DestAddr) = 4
  <2>1. DestAddr \in [1..4 -> Byte]
    BY SocksAssumption, ZenonT(60)
  <2>2. DestAddr \in Texts
    BY <2>1, SeqDef, 4 \in Nat DEF Texts
  <2>3. Len(DestAddr) \in Nat /\ 1..Len(DestAddr) = 1..4
    BY <2>1, <2>2, LenProperties DEF Texts
  <2>4. \A n \in Nat : 1..n = 1..4 => n = 4
    <3> SUFFICES ASSUME NEW n \in Nat, 1..n = 1..4 PROVE n = 4
      OBVIOUS
    <3>1. 4 \in 1..4 /\ 5 \notin 1..4
      OBVIOUS
    <3>2. 4 \in 1..n /\ 5 \notin 1..n
      BY <3>1, Zenon
    <3>3. QED BY <3>2
  <2>5. QED BY <2>2, <2>3, <2>4, Zenon
<1>4. AnyAddr \in Texts /\ Len(AnyAddr) = 4
  BY SmallBytes DEF AnyAddr, Texts
<1>5. DestPort \div 256 \in Byte /\ DestPort % 256 \in Byte
  <2>1. DestPort \in Word
    BY SocksAssumption, ZenonT(60)
  <2>2. QED BY <2>1, WordBytes
<1>6. Port \in Texts /\ Len(Port) = 2
  BY <1>5, Literals DEF Port
<1>7. /\ DestHost \in Seq(Byte \ {0}) /\ Len(DestHost) \in 1..200 /\ DestAddr # AnyAddr
      /\ User \in Seq(Byte \ {0}) /\ Len(User) \in 0..39
      /\ Password \in Seq(Byte \ {0}) /\ Len(Password) \in Byte
      /\ Tunnel \in Texts
      /\ \A l \in AuthLists : l \in Texts /\ Len(l) \in 1..10
  BY SocksAssumption, ZenonT(60) DEF Texts
<1>8. 0..39 \subseteq Byte
  BY DEF Byte
<1>9. QED
  BY <1>1, <1>3, <1>4, <1>6, <1>7, <1>8, ZenonT(60)

(***************************************************************************)
(* Messages.                                                               *)
(***************************************************************************)
Greeting   == <<5, Len(auth_list)>> \o auth_list
UserPassed == <<1, Len(User)>> \o User \o <<Len(Password)>> \o Password
Request5   == <<5, 1, 0>> \o Dest5 \o Port
Request4   == <<4, 1>> \o Port \o Dest4 \o User \o <<0>>
                \o (IF dest_addr = AnyAddr THEN DestHost \o <<0>> ELSE <<>>)

LEMMA Messages ==
  ASSUME TypeOK
  PROVE  {Greeting, UserPassed, Request5, Request4} \subseteq Texts
<1>1. \A s, t \in Texts : s \o t \in Texts
  BY Concat
<1>2. Greeting \in Texts
  <2>1. auth_list \in Texts /\ Len(auth_list) \in Byte
    <3>1. auth_list \in AuthLists
      BY DEF TypeOK
    <3>2. 1..10 \subseteq Byte
      BY DEF Byte
    <3>3. QED BY <3>1, <3>2, Constants, ZenonT(60)
  <2>2. <<5, Len(auth_list)>> \in Texts
    BY <2>1, SmallBytes, Literals
  <2>3. QED BY <1>1, <2>1, <2>2 DEF Greeting
<1>3. UserPassed \in Texts
  <2>1. Len(User) \in Byte /\ Len(Password) \in Byte
    BY Constants, Zenon
  <2>2. <<1, Len(User)>> \in Texts /\ <<Len(Password)>> \in Texts
    BY <2>1, SmallBytes, Literals
  <2>3. QED BY <1>1, <2>2, Constants DEF UserPassed
<1>4. <<0>> \in Texts /\ <<1>> \in Texts /\ <<4, 1>> \in Texts /\ <<5, 1, 0>> \in Texts
  BY Literals, SmallBytes
<1>5. Request5 \in Texts
  <2>1. Len(DestHost) \in Byte
    <3>1. 1..200 \subseteq Byte
      BY DEF Byte
    <3>2. QED BY <3>1, Constants, ZenonT(60)
  <2>2. <<3, Len(DestHost)>> \in Texts
    BY <2>1, SmallBytes, Literals
  <2>3. Dest5 \in Texts
    BY <1>1, <1>4, <2>2, Constants DEF Dest5, TypeOK
  <2>4. QED BY <1>1, <1>4, <2>3, Constants DEF Request5
<1>6. Request4 \in Texts
  <2>1. Dest4 \in Texts
    <3>1. <<0, 0, 0, 1>> \in Texts
      BY SmallBytes DEF Texts
    <3>2. QED BY <3>1, Constants DEF Dest4, TypeOK
  <2>2. (IF dest_addr = AnyAddr THEN DestHost \o <<0>> ELSE <<>>) \in Texts
    BY <1>1, <1>4, Constants, Literals
  <2>3. QED BY <1>1, <1>4, <2>1, <2>2, Constants DEF Request4
<1>7. QED
  BY <1>2, <1>3, <1>5, <1>6

(***************************************************************************)
(* Answers: how far each of them reaches, which is what the next stage     *)
(* relies on.                                                              *)
(***************************************************************************)
\* The answer to a request, from p on, ends where its bound address ends.
EndsAt(s, p, e) ==
  \/ s[p + 4] = 1 /\ e = p + 4 + 6
  \/ s[p + 4] = 4 /\ e = p + 4 + 18
  \/ s[p + 4] = 3 /\ e = p + 5 + s[p + 5] + 2

LEMMA ZerosText ==
  ASSUME NEW n \in Nat
  PROVE  Zeros(n) \in Texts /\ Len(Zeros(n)) = n
<1>1. Zeros(n) \in [1..n -> Byte]
  BY SmallBytes DEF Zeros
<1>2. Zeros(n) \in Texts
  BY <1>1, SeqDef DEF Texts
<1>3. QED
  BY <1>2 DEF Zeros

\* A bound address: its type, and so many bytes to its end.
LEMMA BoundAddress ==
  ASSUME NEW a \in Bound
  PROVE  /\ a \in Texts /\ Len(a) >= 4
         /\ \/ a[1] = 1 /\ Len(a) = 7
            \/ a[1] = 4 /\ Len(a) = 19
            \/ a[1] = 3 /\ Len(a) = 4 + a[2]
<1>1. CASE a = <<1>> \o Zeros(6)
  <2> DEFINE h == <<1>>  t == Zeros(6)
  <2>1. h \in Texts /\ Len(h) = 1 /\ h[1] = 1
    BY SmallBytes, Literals
  <2>2. t \in Texts /\ Len(t) = 6
    <3>1. 6 \in Nat
      OBVIOUS
    <3>2. Zeros(6) \in Texts /\ Len(Zeros(6)) = 6
      BY ONLY <3>1, ZerosText
    <3>3. QED BY <3>2, Zenon
  <2>3. a = h \o t
    BY <1>1
  <2> HIDE DEF h, t
  <2>4. /\ a \in Texts /\ Len(a) = Len(h) + Len(t)
        /\ \A i \in 1..Len(h) : a[i] = h[i]
    BY <2>1, <2>2, <2>3, Concat, Zenon
  <2>5. 1 \in 1..Len(h)
    BY <2>1
  <2>6. QED BY <2>1, <2>2, <2>4, <2>5
<1>2. CASE a = <<4>> \o Zeros(18)
  <2> DEFINE h == <<4>>  t == Zeros(18)
  <2>1. h \in Texts /\ Len(h) = 1 /\ h[1] = 4
    BY SmallBytes, Literals
  <2>2. t \in Texts /\ Len(t) = 18
    BY ZerosText, 18 \in Nat
  <2>3. a = h \o t
    BY <1>2
  <2> HIDE DEF h, t
  <2>4. /\ a \in Texts /\ Len(a) = Len(h) + Len(t)
        /\ \A i \in 1..Len(h) : a[i] = h[i]
    BY <2>1, <2>2, <2>3, Concat, Zenon
  <2>5. 1 \in 1..Len(h)
    BY <2>1
  <2>6. QED BY <2>1, <2>2, <2>4, <2>5
<1>3. ASSUME NEW n \in NameLengths, a = <<3, n>> \o Zeros(n + 2)
      PROVE  a \in Texts /\ Len(a) >= 4 /\ a[1] = 3 /\ Len(a) = 4 + a[2]
  <2>1. n \in Byte /\ n \in Nat /\ n + 2 \in Nat
    <3>1. NameLengths \subseteq 0..249
      BY SocksAssumption, ZenonT(60)
    <3>2. \A m \in 0..249 : m \in Byte /\ m \in Nat /\ m + 2 \in Nat
      BY DEF Byte
    <3>3. QED BY <3>1, <3>2, Zenon
  <2>2. <<3, n>> \in Texts /\ Len(<<3, n>>) = 2 /\ <<3, n>>[1] = 3 /\ <<3, n>>[2] = n
    BY <2>1, SmallBytes, Literals
  <2>3. Zeros(n + 2) \in Texts /\ Len(Zeros(n + 2)) = n + 2
    BY <2>1, ZerosText
  <2>4. a \in Texts /\ Len(a) = 2 + (n + 2) /\ a[1] = 3 /\ a[2] = n
    BY <1>3, <2>2, <2>3, Concat, 1 \in 1..2, 2 \in 1..2
  <2>5. QED BY <2>1, <2>4
<1>4. 4 + 2 = 6 /\ 16 + 2 = 18
  OBVIOUS
<1>5. QED
  BY <1>1, <1>2, <1>3, <1>4 DEF Bound

LEMMA RequestAnswer ==
  ASSUME NEW code \in Byte, NEW b \in Bound
  PROVE  LET a == <<5, code, 0>> \o b
         IN a \in Texts /\ Len(a) >= 7 /\ a[2] = code /\ EndsAt(a, 0, Len(a))
<1> DEFINE h == <<5, code, 0>>  a == h \o b
<1>1. h \in Texts /\ Len(h) = 3 /\ h[2] = code
  BY SmallBytes, Literals
<1>2. /\ b \in Texts /\ Len(b) \in Nat /\ Len(b) >= 4
      /\ \/ b[1] = 1 /\ Len(b) = 7
         \/ b[1] = 4 /\ Len(b) = 19
         \/ b[1] = 3 /\ Len(b) = 4 + b[2]
  BY BoundAddress, LenProperties DEF Texts
<1>3. 1 \in 1..Len(b) /\ 2 \in 1..Len(b)
  BY <1>2
<1> HIDE DEF h
<1>4. /\ a \in Texts /\ Len(a) = 3 + Len(b) /\ a[2] = code
      /\ a[3 + 1] = b[1] /\ a[3 + 2] = b[2]
  <2>1. /\ h \o b \in Texts /\ Len(h \o b) = Len(h) + Len(b)
        /\ \A i \in 1..Len(h) : (h \o b)[i] = h[i]
        /\ \A i \in 1..Len(b) : (h \o b)[Len(h) + i] = b[i]
    BY <1>1, <1>2, Concat, Zenon
  <2>2. 2 \in 1..Len(h)
    BY <1>1
  <2>3. QED BY <1>1, <1>3, <2>1, <2>2
<1> HIDE DEF a
<1>5. b[1] \in Nat /\ b[2] \in Nat
  <2>1. b \in Seq(Byte) /\ \A x \in Byte : x \in Nat
    BY <1>2 DEF Texts, Byte
  <2>2. QED BY <1>3, <2>1, ElementOfSeq
<1>6. EndsAt(a, 0, Len(a))
  <2>1. a[0 + 4] = b[1] /\ a[0 + 5] = b[2]
    BY <1>4
  <2>2. CASE b[1] = 1 /\ Len(b) = 7
    BY <1>4, <2>1, <2>2 DEF EndsAt
  <2>3. CASE b[1] = 4 /\ Len(b) = 19
    BY <1>4, <2>1, <2>3 DEF EndsAt
  <2>4. CASE b[1] = 3 /\ Len(b) = 4 + b[2]
    BY <1>4, <1>5, <2>1, <2>4 DEF EndsAt
  <2>5. QED BY <1>2, <2>2, <2>3, <2>4
<1>7. QED
  BY <1>2, <1>4, <1>6 DEF a, h

(***************************************************************************)
(* The inductive invariants.                                               *)
(***************************************************************************)
\* Nothing stands unread when a message is sent, and the answer to it ends where
\* the stages that read it will stop.
Framing ==
  /\ mpc \in {"open", "resolve", "begin"} => reply = <<>>
  /\ mpc \in {"userpass", "connect"} => pos = Len(reply)
  /\ mpc \in Waiting /\ owed # "none" => owed = mpc /\ pos = Len(reply)
  /\ mpc \in {"method", "auth"} /\ owed = "none" => Len(reply) = pos + 2
  /\ (mpc = "reply" /\ owed = "none") =>
        Len(reply) >= pos + 7 /\ (reply[pos + 2] = 0 => EndsAt(reply, pos, header))
  /\ mpc = "length" => Len(reply) >= pos + 1 /\ header = pos + 1 + reply[pos + 1] + 2
  /\ mpc = "address" => header = pos + need
  /\ mpc = "reply4" /\ owed = "none" => header = pos + 8
  /\ mpc = "relaying" => pos = header

\* What was resolved, and the request as it was put together.
Asking ==
  /\ mpc \in {"open", "resolve"} => dest_addr = AnyAddr
  /\ mpc \in Sending \cup Waiting =>
        dest_addr = IF socks_resolve = RESOLVE_LOCAL THEN DestAddr ELSE AnyAddr
  /\ mpc = "reply" => out = Request5
  /\ mpc = "reply4" => out = Request4

LEMMA InitInv == Init => TypeOK /\ Framing /\ Asking
<1> SUFFICES ASSUME Init PROVE TypeOK /\ Framing /\ Asking
  OBVIOUS
<1>1. <<>> \in Seq(Byte) /\ Len(<<>>) = 0
  BY EmptySeq
<1>2. socks_resolve \in Resolves /\ socks_version \in Versions
  BY DEF Init
<1>3. TypeOK
  BY <1>1, <1>2 DEF Init, TypeOK
<1>4. Framing /\ Asking
  BY DEF Init, Framing, Asking, Sending, Waiting
<1>5. QED
  BY <1>3, <1>4

(***************************************************************************)
(* Steps that read nothing and send nothing.                               *)
(***************************************************************************)
Starts == OpenConnection \/ LocalResolve \/ LeaveUnresolved
Stops  == OpenFails \/ SendFails \/ Fatal \/ TimedOut

LEMMA StartsInv == TypeOK /\ Framing /\ Asking /\ Starts => TypeOK' /\ Framing' /\ Asking'
<1> SUFFICES ASSUME TypeOK, Framing, Asking, Starts PROVE TypeOK' /\ Framing' /\ Asking'
  OBVIOUS
<1>1. CASE OpenConnection
  <2>1. mpc' = "resolve" /\ mpc = "open" /\ peer' = "open"
        /\ UNCHANGED <<options, dest_addr, need, out, owed, reply, header, arrived, pos>>
    BY <1>1 DEF OpenConnection
  <2>2. QED
    BY <2>1 DEF TypeOK, Framing, Asking, options, Waiting, Sending
<1>2. CASE LocalResolve \/ LeaveUnresolved
  <2>1. /\ mpc = "resolve" /\ mpc' \in {"begin", "failed"}
        /\ dest_addr' \in {AnyAddr, DestAddr}
        /\ mpc' = "begin" => dest_addr' = IF socks_resolve = RESOLVE_LOCAL THEN DestAddr ELSE AnyAddr
        /\ UNCHANGED <<options, need, out, owed, server, pos>>
    BY <1>2 DEF LocalResolve, LeaveUnresolved, Asking
  <2>2. TypeOK'
    BY <2>1 DEF TypeOK, options, server, Sending, Over
  <2>3. Framing' /\ Asking'
    BY <2>1 DEF Framing, Asking, options, server, Waiting, Sending
  <2>4. QED BY <2>2, <2>3
<1>3. QED
  BY <1>1, <1>2 DEF Starts

LEMMA StopsInv == TypeOK /\ Framing /\ Asking /\ Stops => TypeOK' /\ Framing' /\ Asking'
<1> SUFFICES ASSUME TypeOK, Framing, Asking, Stops PROVE TypeOK' /\ Framing' /\ Asking'
  OBVIOUS
<1>1. mpc' \in {"failed", "timed out"} /\ UNCHANGED <<options, dest_addr, need, out, owed, server, pos>>
  BY DEF Stops, OpenFails, SendFails, Fatal, TimedOut
<1>2. TypeOK'
  BY <1>1 DEF TypeOK, options, server, Over
<1>3. Framing' /\ Asking'
  BY <1>1 DEF Framing, Asking, Waiting, Sending
<1>4. QED BY <1>2, <1>3

(***************************************************************************)
(* Steps that send.                                                        *)
(***************************************************************************)
Sends == Greet5 \/ UserPass \/ Connect5 \/ Connect4

LEMMA SendsInv == TypeOK /\ Framing /\ Asking /\ Sends => TypeOK' /\ Framing' /\ Asking'
<1> SUFFICES ASSUME TypeOK, Framing, Asking, Sends PROVE TypeOK' /\ Framing' /\ Asking'
  OBVIOUS
<1>1. /\ mpc \in Sending
      /\ \/ mpc' = "method" /\ out' = Greeting
         \/ mpc' = "auth"   /\ out' = UserPassed
         \/ mpc' = "reply"  /\ out' = Request5
         \/ mpc' = "reply4" /\ out' = Request4
      /\ owed' = mpc' /\ UNCHANGED <<options, dest_addr, need, server, pos>>
  BY DEF Sends, Greet5, UserPass, Connect5, Connect4, Send, Sending, Greeting, UserPassed,
    Request5, Request4
<1>2. out' \in Seq(Byte)
  BY <1>1, Messages DEF Texts
<1>3. pos = Len(reply)
  <2>1. CASE mpc = "begin"
    <3>1. reply = <<>> /\ pos \in 0..arrived /\ arrived \in 0..Len(reply) /\ Len(<<>>) = 0
      BY <2>1, EmptySeq DEF Framing, TypeOK
    <3>2. QED BY <3>1
  <2>2. QED BY <1>1, <2>1 DEF Framing, Sending
<1>4. TypeOK'
  BY <1>1, <1>2 DEF TypeOK, options, server, Waiting
<1>5. Framing'
  BY <1>1, <1>3 DEF Framing, server, Waiting
<1>6. Asking'
  <2>1. Request5' = Request5 /\ Request4' = Request4
    BY <1>1 DEF Request5, Request4, Dest5, Dest4
  <2>2. QED BY <1>1, <2>1 DEF Asking, options, Sending, Waiting
<1>7. QED BY <1>4, <1>5, <1>6

(***************************************************************************)
(* Steps that read.                                                        *)
(***************************************************************************)
LEMMA ReceivedByte ==
  ASSUME TypeOK, NEW n \in 1..8, NEW i \in 1..n, pos + n <= arrived
  PROVE  Received(n)[i] = reply[pos + i] /\ reply[pos + i] \in Byte
<1>1. /\ reply \in Seq(Byte) /\ Len(reply) \in Nat /\ arrived \in 0..Len(reply)
      /\ pos \in Nat
  BY LenProperties DEF TypeOK
<1> DEFINE first == pos + 1  last == pos + n
<1>2. /\ first \in Int /\ last \in Int /\ pos + i \in first..last
      /\ i \in 1..last - first + 1 /\ first + i - 1 = pos + i
      /\ \A j \in first..last : j \in 1..Len(reply)
  BY <1>1
<1>3. Received(n) = SubSeq(reply, first, last)
  BY DEF Received
<1> HIDE DEF first, last
<1>4. \A j \in first..last : reply[j] \in Byte
  BY <1>1, <1>2, ElementOfSeq
<1>5. Received(n)[i] = reply[first + i - 1]
  BY <1>2, <1>3, <1>4, SubSeqProperties
<1>6. QED
  BY <1>2, <1>4, <1>5

\* A read of n bytes leaves all but the place and the stage alone.
LEMMA InType ==
  ASSUME TypeOK, NEW n \in Nat, In(n), need' \in 0..255 + 2,
         mpc' \in Sending \cup Waiting \cup Over
  PROVE  TypeOK' /\ pos' = pos + n /\ pos' <= arrived
<1>1. /\ pos' = pos + n /\ arrived >= pos + n
      /\ UNCHANGED <<options, dest_addr, out, owed, server>>
  BY DEF In
<1>2. pos \in Nat /\ arrived \in Nat /\ pos' \in 0..arrived
  <2>1. pos \in 0..arrived /\ arrived \in 0..Len(reply) /\ Len(reply) \in Nat
    BY LenProperties DEF TypeOK
  <2>2. QED BY <1>1, <2>1
<1>3. TypeOK'
  BY <1>1, <1>2 DEF TypeOK, options, server
<1>4. QED BY <1>1, <1>2, <1>3

\* What every read leaves of the invariants: no request is owed an answer, and
\* the request stays as it was put together.
LEMMA InKeeps ==
  ASSUME TypeOK, Framing, Asking, NEW n \in Nat \ {0}, In(n), mpc \in Waiting,
         mpc' \in {"connect", "userpass", "length", "address", "relaying", "failed"}
  PROVE  /\ owed = "none" /\ owed' = "none" /\ Asking'
         /\ reply' = reply /\ header' = header /\ pos' = pos + n /\ pos + n <= arrived
<1>1. /\ pos' = pos + n /\ arrived >= pos + n
      /\ UNCHANGED <<options, dest_addr, out, owed, server>>
  BY DEF In
<1>2. owed = "none"
  <2>1. pos \in 0..arrived /\ arrived \in 0..Len(reply) /\ Len(reply) \in Nat
    BY LenProperties DEF TypeOK
  <2>2. pos # Len(reply)
    BY <1>1, <2>1
  <2>3. QED BY <2>2 DEF Framing
<1>3. Asking'
  BY <1>1 DEF Asking, options, Waiting, Sending
<1>4. n \in Nat /\ pos \in Nat /\ arrived \in Nat
  BY LenProperties DEF TypeOK
<1>5. QED
  BY <1>1, <1>2, <1>3, <1>4 DEF server

LEMMA MethodInv == TypeOK /\ Framing /\ Asking /\ (Method \/ Auth) => TypeOK' /\ Framing' /\ Asking'
<1> SUFFICES ASSUME TypeOK, Framing, Asking, Method \/ Auth PROVE TypeOK' /\ Framing' /\ Asking'
  OBVIOUS
<1>1. /\ mpc \in {"method", "auth"} /\ In(2) /\ need' = need
      /\ mpc' \in {"connect", "userpass", "failed"}
  BY DEF Method, Auth
<1>2. need \in 0..255 + 2 /\ mpc \in Waiting /\ mpc' \in Sending \cup Waiting \cup Over
  BY <1>1 DEF TypeOK, Waiting, Sending, Over
<1>3. TypeOK'
  BY <1>1, <1>2, InType, 2 \in Nat
<1>4. /\ owed = "none" /\ owed' = "none" /\ Asking'
      /\ reply' = reply /\ pos' = pos + 2
  BY <1>1, <1>2, InKeeps, 2 \in Nat \ {0}
<1>5. pos' = Len(reply')
  BY <1>1, <1>4 DEF Framing
<1>6. Framing'
  BY <1>1, <1>4, <1>5 DEF Framing, Waiting
<1>7. QED BY <1>3, <1>4, <1>6

LEMMA ReplyInv == TypeOK /\ Framing /\ Asking /\ Reply => TypeOK' /\ Framing' /\ Asking'
<1> SUFFICES ASSUME TypeOK, Framing, Asking, Reply PROVE TypeOK' /\ Framing' /\ Asking'
  OBVIOUS
<1> DEFINE b == Received(4)
<1>1. /\ mpc = "reply" /\ In(4)
      /\ \/ b[2] # 0 /\ mpc' = "failed" /\ need' = need
         \/ b[2] = 0 /\ b[4] = 1 /\ mpc' = "address" /\ need' = 6
         \/ b[2] = 0 /\ b[4] = 3 /\ mpc' = "length" /\ need' = need
         \/ b[2] = 0 /\ b[4] = 4 /\ mpc' = "address" /\ need' = 18
         \/ b[2] = 0 /\ b[4] \notin {1, 3, 4} /\ mpc' = "relaying" /\ need' = need
  BY DEF Reply, SOCKS5_REP_SUCCEEDED
<1> HIDE DEF b
<1>2. need' \in 0..255 + 2
  <2>1. need \in 0..255 + 2
    BY DEF TypeOK
  <2>2. need' \in {need, 6, 18}
    BY <1>1
  <2>3. QED BY <2>1, <2>2
<1>3. /\ mpc \in Waiting /\ mpc' \in Sending \cup Waiting \cup Over
      /\ mpc' \in {"connect", "userpass", "length", "address", "relaying", "failed"}
  BY <1>1 DEF Waiting, Over
<1>4. TypeOK'
  BY <1>1, <1>2, <1>3, InType, 4 \in Nat
<1>5. /\ owed = "none" /\ owed' = "none" /\ Asking'
      /\ reply' = reply /\ header' = header /\ pos' = pos + 4 /\ pos + 4 <= arrived
  BY <1>1, <1>3, InKeeps, 4 \in Nat \ {0}
<1>6. b[2] = reply[pos + 2] /\ b[4] = reply[pos + 4]
  BY <1>5, ReceivedByte, 2 \in 1..4, 4 \in 1..4, 4 \in 1..8 DEF b
<1>7. pos \in Nat /\ header \in Nat /\ Len(reply) \in Nat /\ Len(reply) >= pos + 7
      /\ reply[pos + 5] \in Byte
  <2>1. pos \in 0..arrived /\ arrived \in 0..Len(reply) /\ Len(reply) \in Nat
        /\ header \in 0..Len(reply) /\ reply \in Seq(Byte)
    BY LenProperties DEF TypeOK
  <2>2. Len(reply) >= pos + 7
    BY <1>1, <1>5 DEF Framing
  <2>3. pos + 5 \in 1..Len(reply)
    BY <2>1, <2>2
  <2>4. QED BY <2>1, <2>2, <2>3, ElementOfSeq
<1>8. b[2] = 0 => EndsAt(reply, pos, header)
  BY <1>1, <1>5, <1>6 DEF Framing
<1>9. reply[pos + 5] \in Nat
  <2>1. \A x \in Byte : x \in Nat
    BY DEF Byte
  <2>2. QED BY <1>7, <2>1, Zenon
<1>10. /\ mpc' = "address" => header' = pos' + need'
       /\ mpc' = "length" => Len(reply') >= pos' + 1 /\ header' = pos' + 1 + reply'[pos' + 1] + 2
       /\ mpc' \in {"address", "length", "failed"}
  <2>1. pos' + 1 = pos + 5
    BY <1>5, <1>7
  <2>2. CASE b[2] # 0
    BY <1>1, <2>2
  <2>3. CASE b[2] = 0 /\ b[4] = 1
    BY <1>1, <1>5, <1>6, <1>7, <1>8, <2>3 DEF EndsAt
  <2>4. CASE b[2] = 0 /\ b[4] = 4
    BY <1>1, <1>5, <1>6, <1>7, <1>8, <2>4 DEF EndsAt
  <2>5. CASE b[2] = 0 /\ b[4] = 3
    BY <1>1, <1>5, <1>6, <1>7, <1>8, <1>9, <2>1, <2>5 DEF EndsAt
  <2>6. CASE b[2] = 0 /\ b[4] \notin {1, 3, 4}
    BY <1>6, <1>8, <2>6 DEF EndsAt
  <2>7. QED BY <2>2, <2>3, <2>4, <2>5, <2>6
<1>11. Framing'
  BY <1>5, <1>10 DEF Framing, Waiting
<1>12. QED BY <1>4, <1>5, <1>11

LEMMA NameInv == TypeOK /\ Framing /\ Asking /\ NameLength => TypeOK' /\ Framing' /\ Asking'
<1> SUFFICES ASSUME TypeOK, Framing, Asking, NameLength PROVE TypeOK' /\ Framing' /\ Asking'
  OBVIOUS
<1>1. mpc = "length" /\ In(1) /\ mpc' = "address" /\ need' = Received(1)[1] + 2
  BY DEF NameLength, NameAndPort
<1>2. mpc \in Waiting /\ mpc' \in Sending \cup Waiting \cup Over
  BY <1>1 DEF Waiting
<1>3. /\ owed = "none" /\ owed' = "none" /\ Asking'
      /\ reply' = reply /\ header' = header /\ pos' = pos + 1 /\ pos + 1 <= arrived
  BY <1>1, <1>2, InKeeps, 1 \in Nat \ {0}
<1>4. need' = reply[pos + 1] + 2 /\ reply[pos + 1] \in Byte
  BY <1>1, <1>3, ReceivedByte, 1 \in 1..1, 1 \in 1..8
<1>5. need' \in 0..255 + 2 /\ reply[pos + 1] \in Nat
  BY <1>4 DEF Byte
<1>6. TypeOK'
  BY <1>1, <1>2, <1>5, InType, 1 \in Nat
<1>7. header' = pos' + need'
  <2>1. pos \in Nat
    BY LenProperties DEF TypeOK
  <2>2. QED BY <1>1, <1>3, <1>4, <1>5, <2>1 DEF Framing
<1>8. Framing'
  BY <1>1, <1>3, <1>7 DEF Framing, Waiting
<1>9. QED BY <1>3, <1>6, <1>8

LEMMA LastReadInv ==
  TypeOK /\ Framing /\ Asking /\ (Address \/ Reply4) => TypeOK' /\ Framing' /\ Asking'
<1> SUFFICES ASSUME TypeOK, Framing, Asking, Address \/ Reply4 PROVE TypeOK' /\ Framing' /\ Asking'
  OBVIOUS
<1>1. CASE Address
  <2>1. mpc = "address" /\ In(need) /\ mpc' = "relaying" /\ need' = need
        /\ need \in 0..255 + 2 /\ need \in Nat
    BY <1>1 DEF Address, TypeOK
  <2>2. TypeOK' /\ pos' = pos + need
    <3>1. mpc' \in Sending \cup Waiting \cup Over
      BY <2>1 DEF Over
    <3>2. QED BY <2>1, <3>1, InType
  <2>3. UNCHANGED <<options, dest_addr, out, owed, server>>
    BY <2>1 DEF In
  <2>4. Framing' /\ Asking'
    BY <2>1, <2>2, <2>3 DEF Framing, Asking, Waiting, Sending, server
  <2>5. QED BY <2>2, <2>4
<1>2. CASE Reply4
  <2>1. mpc = "reply4" /\ In(8) /\ mpc' \in {"relaying", "failed"} /\ need' = need
        /\ need \in 0..255 + 2
    BY <1>2 DEF Reply4, TypeOK
  <2>2. mpc \in Waiting /\ mpc' \in Sending \cup Waiting \cup Over
    BY <2>1 DEF Waiting, Over
  <2>3. TypeOK'
    BY <2>1, <2>2, InType, 8 \in Nat
  <2>4. /\ owed = "none" /\ owed' = "none" /\ Asking'
        /\ reply' = reply /\ header' = header /\ pos' = pos + 8
    BY <2>1, <2>2, InKeeps, 8 \in Nat \ {0}
  <2>5. Framing'
    BY <2>1, <2>4 DEF Framing, Waiting
  <2>6. QED BY <2>3, <2>4, <2>5
<1>3. QED BY <1>1, <1>2

(***************************************************************************)
(* The server.                                                             *)
(***************************************************************************)
\* An answer of the kind that is owed, as Framing describes the one to come.
LEMMA AnswerShape ==
  ASSUME TypeOK, owed # "none", NEW a \in Answers
  PROVE  /\ a \in Texts
         /\ owed \in {"method", "auth"} => Len(a) = 2
         /\ owed = "reply" => Len(a) >= 7 /\ EndsAt(a, 0, Len(a))
         /\ owed = "reply4" => Len(a) = 8
<1>1. CASE owed = "method"
  <2>1. PICK m \in Methods : a = <<5, m>>
    BY <1>1 DEF Answers
  <2>2. m \in Byte
    <3>1. auth_list \in Texts
      BY Constants DEF TypeOK
    <3>2. DOMAIN auth_list = 1..Len(auth_list)
      BY <3>1, LenProperties DEF Texts
    <3>3. \A i \in DOMAIN auth_list : auth_list[i] \in Byte
      BY <3>1, <3>2, ElementOfSeq DEF Texts
    <3>4. 255 \in Byte
      BY DEF Byte
    <3>5. QED BY <3>3, <3>4 DEF Methods, SOCKS5_AUTH_REJECT
  <2>3. a \in Texts /\ Len(a) = 2
    BY <2>1, <2>2, SmallBytes, Literals
  <2>4. QED BY <1>1, <2>3
<1>2. CASE owed = "auth"
  <2>1. PICK status \in {0, 1} : a = <<1, status>>
    BY <1>2 DEF Answers
  <2>2. status \in Byte
    BY SmallBytes
  <2>3. a \in Texts /\ Len(a) = 2
    BY <2>1, <2>2, SmallBytes, Literals
  <2>4. QED BY <1>2, <2>3
<1>3. CASE owed = "reply"
  <2>1. PICK code \in {0, 5}, b \in Bound : a = <<5, code, 0>> \o b
    BY <1>3 DEF Answers, SOCKS5_REP_SUCCEEDED
  <2>2. code \in Byte
    BY SmallBytes
  <2>3. QED BY <1>3, <2>1, <2>2, RequestAnswer
<1>4. CASE owed = "reply4"
  <2>1. PICK code \in {90, 91} : a = <<0, code>> \o Zeros(6)
    BY <1>4 DEF Answers, SOCKS4_REP_SUCCEEDED
  <2>2. code \in Byte
    BY DEF Byte
  <2> DEFINE h == <<0, code>>  t == Zeros(6)
  <2>3. h \in Texts /\ Len(h) = 2
    <3>1. 0 \in Byte
      BY SmallBytes
    <3>2. <<0, code>> \in Texts /\ Len(<<0, code>>) = 2
      BY <2>2, <3>1, Pair
    <3>3. QED BY ONLY <3>2 DEF h
  <2>4. t \in Texts /\ Len(t) = 6
    <3>1. 6 \in Nat
      OBVIOUS
    <3>2. Zeros(6) \in Texts /\ Len(Zeros(6)) = 6
      BY ONLY <3>1, ZerosText
    <3>3. QED BY <3>2, Zenon
  <2> HIDE DEF h, t
  <2>5. a \in Texts /\ Len(a) = Len(h) + Len(t)
    BY <2>1, <2>3, <2>4, Concat DEF h, t
  <2>6. QED BY <1>4, <2>3, <2>4, <2>5
<1>5. QED
  BY <1>1, <1>2, <1>3, <1>4 DEF TypeOK

LEMMA AnswerAsking == Asking /\ UNCHANGED <<mpc, options, dest_addr, out>> => Asking'
<1> SUFFICES ASSUME Asking, UNCHANGED <<mpc, options, dest_addr, out>> PROVE Asking'
  OBVIOUS
<1>1. Request5' = Request5 /\ Request4' = Request4
  BY DEF Request5, Request4, Dest5, Dest4
<1>2. QED BY <1>1 DEF Asking, options

LEMMA AnswerInv == TypeOK /\ Framing /\ Asking /\ Answer => TypeOK' /\ Framing' /\ Asking'
<1> SUFFICES ASSUME TypeOK, Framing, Asking, Answer PROVE TypeOK' /\ Framing' /\ Asking'
  OBVIOUS
<1> DEFINE behind == IF owed \in {"reply", "reply4"} THEN Tunnel ELSE <<>>
<1>1. PICK a \in Answers : reply' = reply \o a \o behind /\ header' = Len(reply) + Len(a)
  BY DEF Answer
<1>2. /\ mpc \in Waiting /\ owed = mpc /\ owed # "none" /\ owed' = "none"
      /\ UNCHANGED <<mpc, options, dest_addr, need, out, arrived, pos, peer>>
      /\ pos = Len(reply) /\ mpc \in {"method", "auth", "reply", "reply4"}
  BY DEF Answer, Framing, TypeOK
<1>3. /\ a \in Texts /\ Len(a) \in Nat
      /\ owed \in {"method", "auth"} => Len(a) = 2
      /\ owed = "reply" => Len(a) >= 7 /\ EndsAt(a, 0, Len(a))
      /\ owed = "reply4" => Len(a) = 8
  BY <1>2, AnswerShape, LenProperties DEF Texts
<1>4. /\ behind \in Texts /\ Len(behind) \in Nat
      /\ owed \in {"method", "auth"} => Len(behind) = 0
  BY Constants, Literals, LenProperties DEF Texts
<1> HIDE DEF behind
<1>5. reply \in Texts /\ Len(reply) \in Nat
  BY LenProperties DEF TypeOK, Texts
<1>6. /\ reply \o a \in Texts /\ Len(reply \o a) = Len(reply) + Len(a)
      /\ \A i \in 1..Len(a) : (reply \o a)[Len(reply) + i] = a[i]
  BY <1>3, <1>5, Concat, Zenon
<1>7. /\ reply' \in Texts /\ Len(reply') = Len(reply \o a) + Len(behind)
      /\ \A i \in 1..Len(reply \o a) : reply'[i] = (reply \o a)[i]
  BY <1>1, <1>4, <1>6, Concat, Zenon
<1>8. \A i \in 1..Len(a) : reply'[pos + i] = a[i]
  <2> SUFFICES ASSUME NEW i \in 1..Len(a) PROVE reply'[pos + i] = a[i]
    OBVIOUS
  <2>1. Len(reply) + i \in 1..Len(reply) + Len(a)
    BY <1>3, <1>5
  <2>2. QED BY <1>2, <1>6, <1>7, <2>1
<1>9. Len(reply') = pos + Len(a) + Len(behind) /\ header' = pos + Len(a) /\ pos \in Nat
  BY <1>1, <1>2, <1>5, <1>6, <1>7
<1>10. TypeOK'
  <2>1. reply' \in Seq(Byte)
    BY <1>7 DEF Texts
  <2>2. header' \in 0..Len(reply') /\ arrived' \in 0..Len(reply') /\ pos' \in 0..arrived'
    <3>1. arrived \in 0..Len(reply) /\ pos \in 0..arrived
      BY DEF TypeOK
    <3>2. arrived' = arrived /\ pos' = pos
      BY <1>2
    <3>3. QED BY <1>2, <1>3, <1>4, <1>5, <1>9, <3>1, <3>2
  <2>3. QED BY <1>2, <2>1, <2>2 DEF TypeOK, options
<1>11. CASE owed \in {"method", "auth"}
  <2>1. Len(reply') = pos' + 2
    <3>1. Len(a) = 2 /\ Len(behind) = 0 /\ pos' = pos
      BY <1>2, <1>3, <1>4, <1>11, Zenon
    <3>2. QED BY <1>9, <3>1
  <2>2. QED BY <1>2, <1>10, <1>11, <2>1, AnswerAsking DEF Framing, Waiting
<1>12. CASE owed = "reply"
  <2>1. 4 \in 1..Len(a) /\ 5 \in 1..Len(a)
    BY <1>3, <1>12
  <2>2. reply'[pos + 4] = a[4] /\ reply'[pos + 5] = a[5]
    BY <1>8, <2>1
  <2>3. a[5] \in Nat
    <3>1. \A x \in Byte : x \in Nat
      BY DEF Byte
    <3>2. a[5] \in Byte
      BY <1>3, <2>1, ElementOfSeq DEF Texts
    <3>3. QED BY <3>1, <3>2, Zenon
  <2>4. EndsAt(reply', pos, header')
    <3>1. /\ header' = pos + Len(a) /\ pos \in Nat /\ Len(a) \in Nat
          /\ \/ a[4] = 1 /\ Len(a) = 10
             \/ a[4] = 4 /\ Len(a) = 22
             \/ a[4] = 3 /\ Len(a) = 7 + a[5]
      <4>1. EndsAt(a, 0, Len(a))
        BY <1>3, <1>12
      <4>2. 0 + 4 = 4 /\ 0 + 5 = 5 /\ 0 + 4 + 6 = 10 /\ 0 + 4 + 18 = 22
            /\ \A n \in Nat : 0 + 5 + n + 2 = 7 + n
        OBVIOUS
      <4>3. QED BY <1>3, <1>9, <2>3, <4>1, <4>2 DEF EndsAt
    <3>2. CASE a[4] = 1 /\ Len(a) = 10
      BY <2>2, <3>1, <3>2 DEF EndsAt
    <3>3. CASE a[4] = 4 /\ Len(a) = 22
      BY <2>2, <3>1, <3>3 DEF EndsAt
    <3>4. CASE a[4] = 3 /\ Len(a) = 7 + a[5]
      <4>1. \A p, n \in Nat : p + (7 + n) = p + 5 + n + 2
        OBVIOUS
      <4>2. header' = pos + 5 + a[5] + 2
        BY <2>3, <3>1, <3>4, <4>1, Zenon
      <4>3. QED BY <2>2, <3>4, <4>2, Zenon DEF EndsAt
    <3>5. QED BY <3>1, <3>2, <3>3, <3>4
  <2>5. Len(reply') >= pos + 7
    BY <1>3, <1>4, <1>9, <1>12
  <2>6. QED BY <1>2, <1>10, <1>12, <2>4, <2>5, AnswerAsking DEF Framing, Waiting
<1>13. CASE owed = "reply4"
  <2>1. header' = pos' + 8
    BY <1>2, <1>3, <1>9, <1>13
  <2>2. QED BY <1>2, <1>10, <1>13, <2>1, AnswerAsking DEF Framing, Waiting
<1>14. QED BY <1>2, <1>11, <1>12, <1>13

LEMMA NetworkInv ==
  TypeOK /\ Framing /\ Asking /\ (Arrive \/ ServerLeaves) => TypeOK' /\ Framing' /\ Asking'
<1> SUFFICES ASSUME TypeOK, Framing, Asking, Arrive \/ ServerLeaves
             PROVE  TypeOK' /\ Framing' /\ Asking'
  OBVIOUS
<1>1. UNCHANGED <<mpc, options, dest_addr, need, out, owed, reply, header, pos>>
  BY DEF Arrive, ServerLeaves
<1>2. Framing' /\ Asking'
  BY <1>1, AnswerAsking DEF Framing
<1>3. arrived' \in 0..Len(reply) /\ pos \in 0..arrived' /\ peer' \in {"none", "open", "closed", "reset"}
  <2>1. arrived \in 0..Len(reply) /\ pos \in 0..arrived /\ Len(reply) \in Nat
        /\ peer \in {"none", "open", "closed", "reset"}
    BY LenProperties DEF TypeOK
  <2>2. CASE Arrive
    <3>1. PICK n \in arrived + 1..Len(reply) : arrived' = n
      BY <2>2 DEF Arrive
    <3>2. peer' = peer
      BY <2>2 DEF Arrive
    <3>3. QED BY <2>1, <3>1, <3>2
  <2>3. CASE ServerLeaves
    BY <2>1, <2>3 DEF ServerLeaves
  <2>4. QED BY <2>2, <2>3
<1>4. TypeOK'
  BY <1>1, <1>3 DEF TypeOK, options
<1>5. QED BY <1>2, <1>4

LEMMA StepInv == TypeOK /\ Framing /\ Asking /\ [Next]_vars => TypeOK' /\ Framing' /\ Asking'
<1> SUFFICES ASSUME TypeOK, Framing, Asking, [Next]_vars PROVE TypeOK' /\ Framing' /\ Asking'
  OBVIOUS
<1>1. CASE UNCHANGED vars
  <2>1. UNCHANGED <<mpc, options, dest_addr, need, out, owed, reply, header, arrived, peer, pos>>
    BY <1>1 DEF vars, server
  <2>2. QED BY <2>1, AnswerAsking DEF TypeOK, Framing, options
<1>2. QED
  BY <1>1, StartsInv, StopsInv, SendsInv, MethodInv, ReplyInv, NameInv, LastReadInv, AnswerInv,
    NetworkInv
  DEF Next, Program, Starts, Stops, Sends

\* Every variable keeps its type; what is read has arrived, and a bound address is
\* never longer than a name of one byte's length with its port.
THEOREM TypeCorrect == Spec => []TypeOK
BY InitInv, StepInv, PTL DEF Spec

\* Whatever the server is asked and however its answers are cut into pieces, the
\* program stops reading at the last byte of the last one.
THEOREM TunnelStart == Spec => []TunnelStartsAfterReply
<1>1. Framing => TunnelStartsAfterReply
  BY DEF Framing, TunnelStartsAfterReply
<1>2. QED
  BY <1>1, InitInv, StepInv, PTL DEF Spec

(***************************************************************************)
(* What a server reads in a request.                                       *)
(***************************************************************************)
\* A head, a piece and a rest: the head and the piece can be read at their places.
LEMMA Pieces ==
  ASSUME NEW h \in Texts, NEW t \in Texts, NEW u \in Texts
  PROVE  /\ h \o t \o u \in Texts /\ Len(h \o t \o u) = Len(h) + Len(t) + Len(u)
         /\ \A i \in 1..Len(h) : (h \o t \o u)[i] = h[i]
         /\ \A i \in 1..Len(t) : (h \o t \o u)[Len(h) + i] = t[i]
         /\ SubSeq(h \o t \o u, Len(h) + 1, Len(h) + Len(t)) = t
<1> DEFINE a == h \o t  m == a \o u
<1>1. Len(h) \in Nat /\ Len(t) \in Nat /\ Len(u) \in Nat
  BY LenProperties DEF Texts
<1>2. /\ a \in Texts /\ Len(a) = Len(h) + Len(t)
      /\ \A i \in 1..Len(h) : a[i] = h[i]
      /\ \A i \in 1..Len(t) : a[Len(h) + i] = t[i]
  BY Concat
<1>3. SubSeq(m, Len(h) + 1, Len(h) + Len(t)) = t
  BY Middle
<1> HIDE DEF a
<1>4. m \in Texts /\ Len(m) = Len(a) + Len(u) /\ \A i \in 1..Len(a) : m[i] = a[i]
  BY <1>2, Concat, Zenon
<1> HIDE DEF m
<1>5. /\ \A i \in 1..Len(h) : i \in 1..Len(a)
      /\ \A i \in 1..Len(t) : Len(h) + i \in 1..Len(a)
  BY <1>1, <1>2
<1>6. /\ m \in Texts /\ Len(m) = Len(h) + Len(t) + Len(u)
      /\ \A i \in 1..Len(h) : m[i] = h[i]
      /\ \A i \in 1..Len(t) : m[Len(h) + i] = t[i]
  BY <1>2, <1>4, <1>5, Zenon
<1>7. QED
  BY <1>3, <1>6 DEF m, a

LEMMA Regroup == \A s, t, u \in Texts : (s \o t) \o u = s \o (t \o u)
BY ConcatAssociative DEF Texts

LEMMA AddressIsAsked5 == ASSUME dest_addr = DestAddr PROVE Addressed(Request5, DestAddr)
<1> DEFINE v == <<5, 1, 0>>  w == <<1>>  h == v \o w  m == h \o DestAddr \o Port
<1>1. v \in Texts /\ Len(v) = 3 /\ v[1] = 5 /\ w \in Texts /\ Len(w) = 1 /\ w[1] = 1
  BY SmallBytes, Literals
<1>2. Request5 = v \o (w \o DestAddr) \o Port
  BY Constants DEF Request5, Dest5
<1> HIDE DEF v, w
<1>3. Request5 = m
  <2>1. DestAddr \in Texts
    BY Constants
  <2>2. v \o (w \o DestAddr) = (v \o w) \o DestAddr
    BY <1>1, <2>1, Regroup, Zenon
  <2>3. QED BY <1>2, <2>2
<1>4. /\ h \in Texts /\ Len(h) = Len(v) + Len(w)
      /\ \A i \in 1..Len(v) : h[i] = v[i]
      /\ \A i \in 1..Len(w) : h[Len(v) + i] = w[i]
  BY <1>1, Concat, Zenon
<1>5. 1 \in 1..Len(v) /\ 1 \in 1..Len(w) /\ Len(v) + 1 = 4 /\ Len(v) + Len(w) = 4
  BY <1>1
<1>6. Len(h) = 4 /\ h[1] = 5 /\ h[4] = 1
  BY <1>1, <1>4, <1>5, Zenon
<1> HIDE DEF h
<1>7. /\ \A i \in 1..Len(h) : m[i] = h[i]
      /\ SubSeq(m, Len(h) + 1, Len(h) + Len(DestAddr)) = DestAddr
  <2>1. DestAddr \in Texts /\ Port \in Texts
    BY Constants
  <2>2. QED BY <1>4, <2>1, Pieces, Zenon
<1> HIDE DEF m
<1>8. 1 \in 1..4 /\ 4 \in 1..4 /\ 4 + 1 = 5 /\ 4 + 4 = 8
  OBVIOUS
<1>9. m[1] = 5 /\ m[4] = 1 /\ SubSeq(m, 5, 8) = DestAddr
  BY <1>6, <1>7, <1>8, Constants, Zenon
<1>10. QED
  BY <1>3, <1>9 DEF Addressed

LEMMA NameIsAsked5 == ASSUME dest_addr = AnyAddr PROVE Named(Request5, DestHost)
<1> DEFINE n == Len(DestHost)  v == <<5, 1, 0>>  w == <<3, n>>
           h == v \o w  m == h \o DestHost \o Port
<1>1. n \in Byte /\ n \in Nat
  <2>1. \A x \in 1..200 : x \in Byte /\ x \in Nat
    BY DEF Byte
  <2>2. QED BY <2>1, Constants, Zenon
<1>2. /\ v \in Texts /\ Len(v) = 3 /\ v[1] = 5
      /\ w \in Texts /\ Len(w) = 2 /\ w[1] = 3 /\ w[2] = n
  BY <1>1, SmallBytes, Literals
<1>3. Request5 = v \o (w \o DestHost) \o Port
  BY DEF Request5, Dest5
<1> HIDE DEF n, v, w
<1>4. Request5 = m
  <2>1. DestHost \in Texts
    BY Constants
  <2>2. v \o (w \o DestHost) = (v \o w) \o DestHost
    BY <1>2, <2>1, Regroup, Zenon
  <2>3. QED BY <1>3, <2>2
<1>5. /\ h \in Texts /\ Len(h) = Len(v) + Len(w)
      /\ \A i \in 1..Len(v) : h[i] = v[i]
      /\ \A i \in 1..Len(w) : h[Len(v) + i] = w[i]
  BY <1>2, Concat, Zenon
<1>6. /\ 1 \in 1..Len(v) /\ 1 \in 1..Len(w) /\ 2 \in 1..Len(w)
      /\ Len(v) + 1 = 4 /\ Len(v) + 2 = 5 /\ Len(v) + Len(w) = 5
  BY <1>2
<1>7. Len(h) = 5 /\ h[1] = 5 /\ h[4] = 3 /\ h[5] = n
  BY <1>2, <1>5, <1>6, Zenon
<1> HIDE DEF h
<1>8. /\ \A i \in 1..Len(h) : m[i] = h[i]
      /\ SubSeq(m, Len(h) + 1, Len(h) + n) = DestHost
  <2>1. DestHost \in Texts /\ Port \in Texts
    BY Constants
  <2>2. QED BY <1>5, <2>1, Pieces, Zenon DEF n
<1> HIDE DEF m
<1>9. 1 \in 1..5 /\ 4 \in 1..5 /\ 5 \in 1..5 /\ 5 + 1 = 6
  OBVIOUS
<1>10. m[1] = 5 /\ m[4] = 3 /\ m[5] = n /\ SubSeq(m, 6, 5 + n) = DestHost
  BY <1>7, <1>8, <1>9, Zenon
<1>11. QED
  BY <1>4, <1>10 DEF Named, n

\* The head of a request of version 4, with the address at its place.
LEMMA Request4Address ==
  ASSUME NEW d \in Texts, Len(d) = 4, NEW u \in Texts
  PROVE  LET m == <<4, 1>> \o Port \o d \o u
         IN /\ m \in Texts /\ Len(m) = 8 + Len(u) /\ m[1] = 4 /\ SubSeq(m, 5, 8) = d
            /\ m[5] = d[1] /\ m[6] = d[2] /\ m[7] = d[3] /\ m[8] = d[4]
<1> DEFINE v == <<4, 1>>  h == v \o Port  m == h \o d \o u
<1>1. v \in Texts /\ Len(v) = 2 /\ v[1] = 4 /\ Port \in Texts /\ Len(Port) = 2
  BY SmallBytes, Literals, Constants
<1> HIDE DEF v
<1>2. /\ h \in Texts /\ Len(h) = Len(v) + Len(Port)
      /\ \A i \in 1..Len(v) : h[i] = v[i]
  BY <1>1, Concat, Zenon
<1>3. 1 \in 1..Len(v) /\ Len(v) + Len(Port) = 4
  BY <1>1
<1>4. Len(h) = 4 /\ h[1] = 4
  BY <1>1, <1>2, <1>3, Zenon
<1> HIDE DEF h
<1>5. /\ m \in Texts /\ Len(m) = Len(h) + Len(d) + Len(u)
      /\ \A i \in 1..Len(h) : m[i] = h[i]
      /\ \A i \in 1..Len(d) : m[Len(h) + i] = d[i]
      /\ SubSeq(m, Len(h) + 1, Len(h) + Len(d)) = d
  BY <1>2, Pieces, Zenon
<1> HIDE DEF m
<1>6. /\ 1 \in 1..4 /\ 2 \in 1..4 /\ 3 \in 1..4 /\ 4 \in 1..4
      /\ 4 + 1 = 5 /\ 4 + 2 = 6 /\ 4 + 3 = 7 /\ 4 + 4 = 8
  OBVIOUS
<1>7. /\ m \in Texts /\ Len(m) = 8 + Len(u) /\ m[1] = 4 /\ SubSeq(m, 5, 8) = d
      /\ m[5] = d[1] /\ m[6] = d[2] /\ m[7] = d[3] /\ m[8] = d[4]
  BY <1>4, <1>5, <1>6, ZenonT(60)
<1>8. QED
  BY <1>7 DEF m, h, v

\* Three bytes of a text of eight are three zeros when each of them is.
LEMMA ThreeZeros ==
  ASSUME NEW m \in Texts, Len(m) >= 8
  PROVE  SubSeq(m, 5, 7) = <<0, 0, 0>> <=> m[5] = 0 /\ m[6] = 0 /\ m[7] = 0
<1> DEFINE p == SubSeq(m, 5, 7)  z == <<0, 0, 0>>
<1>1. 5 \in 1..Len(m) + 1 /\ 7 \in 5 - 1..Len(m) /\ 7 - 5 + 1 = 3
      /\ 5 + 1 - 1 = 5 /\ 5 + 2 - 1 = 6 /\ 5 + 3 - 1 = 7
  BY LenProperties DEF Texts
<1>2. p \in Texts /\ Len(p) = 3 /\ \A i \in 1..3 : p[i] = m[5 + i - 1]
  <2>1. p \in Texts /\ Len(p) = 7 - 5 + 1 /\ \A i \in 1..7 - 5 + 1 : p[i] = m[5 + i - 1]
    BY <1>1, SubText
  <2>2. QED BY <1>1, <2>1
<1>3. z \in Texts /\ Len(z) = 3 /\ z[1] = 0 /\ z[2] = 0 /\ z[3] = 0
  BY SmallBytes, Literals
<1>4. 1 \in 1..3 /\ 2 \in 1..3 /\ 3 \in 1..3 /\ \A i \in 1..3 : i = 1 \/ i = 2 \/ i = 3
  OBVIOUS
<1> HIDE DEF p, z
<1>5. p[1] = m[5] /\ p[2] = m[6] /\ p[3] = m[7]
  BY <1>1, <1>2, <1>4
<1>6. p = z <=> p[1] = 0 /\ p[2] = 0 /\ p[3] = 0
  <2>1. ASSUME p[1] = 0, p[2] = 0, p[3] = 0 PROVE p = z
    <3>1. \A i \in 1..Len(p) : p[i] = z[i]
      BY <1>2, <1>3, <1>4, <2>1
    <3>2. QED BY <1>2, <1>3, <3>1, SeqEqual DEF Texts
  <2>2. QED BY <1>3, <2>1
<1>7. QED
  BY <1>5, <1>6 DEF p, z

LEMMA AddressIsAsked4 ==
  ASSUME TypeOK, dest_addr = DestAddr, DestAddr[1] # 0 \/ DestAddr[2] # 0 \/ DestAddr[3] # 0
  PROVE  Addressed4(Request4, DestAddr)
<1> DEFINE m == Request4  h == <<4, 1>> \o Port \o DestAddr  z == <<0>>  nil == <<>>
<1>1. DestAddr \in Texts /\ Len(DestAddr) = 4 /\ DestAddr # AnyAddr
  BY Constants
<1>2. User \in Texts /\ z \in Texts /\ nil \in Texts
  BY Constants, Literals, SmallBytes
<1>3. m = h \o User \o z \o nil
  BY <1>1 DEF Request4, Dest4
<1>4. h \in Texts
  <2>1. <<4, 1>> \in Texts /\ Port \in Texts
    BY Literals, SmallBytes, Constants
  <2>2. QED BY <1>1, <2>1, Concat
<1> HIDE DEF m, z, nil
<1>5. PICK u \in Texts : m = h \o u
  <2> HIDE DEF h
  <2>1. User \o z \in Texts /\ (User \o z) \o nil \in Texts
    BY <1>2, Concat, Zenon
  <2>2. (h \o User) \o z = h \o (User \o z)
    BY <1>2, <1>4, Regroup, Zenon
  <2>3. (h \o (User \o z)) \o nil = h \o ((User \o z) \o nil)
    BY <1>2, <1>4, <2>1, Regroup, ZenonT(60)
  <2>4. QED BY <1>3, <2>1, <2>2, <2>3, Zenon
<1>6. /\ m \in Texts /\ Len(m) = 8 + Len(u) /\ m[1] = 4 /\ SubSeq(m, 5, 8) = DestAddr
      /\ m[5] = DestAddr[1] /\ m[6] = DestAddr[2] /\ m[7] = DestAddr[3]
  BY <1>1, <1>5, Request4Address
<1>7. Len(m) >= 8
  BY <1>6, LenProperties DEF Texts
<1>8. ~IsName4(m)
  BY <1>6, <1>7, ThreeZeros DEF IsName4
<1>9. QED
  BY <1>6, <1>8 DEF Addressed4, m

LEMMA NameIsAsked4 ==
  ASSUME TypeOK, dest_addr = AnyAddr
  PROVE  Named4(Request4, DestHost)
<1> DEFINE d == <<0, 0, 0, 1>>  h == <<4, 1>> \o Port \o d  z == <<0>>
           p == h \o User  e == DestHost \o z  m == Request4
<1>1. User \in Texts /\ DestHost \in Texts /\ <<>> \in Texts /\ Port \in Texts /\ Len(Port) = 2
      /\ z \in Texts /\ Len(z) = 1 /\ z[1] = 0
  BY Constants, Literals, SmallBytes
<1>2. d \in Texts /\ Len(d) = 4 /\ d[1] = 0 /\ d[2] = 0 /\ d[3] = 0 /\ d[4] = 1
  BY SmallBytes DEF Texts
<1>3. m = p \o z \o e
  BY DEF Request4, Dest4
<1>4. h \in Texts /\ Len(h) = 8
  <2> DEFINE v == <<4, 1>>  w == v \o Port
  <2>1. v \in Texts /\ Len(v) = 2
    BY Literals, SmallBytes
  <2> HIDE DEF v, d
  <2>2. w \in Texts /\ Len(w) = Len(v) + Len(Port)
    BY <1>1, <2>1, Concat, Zenon
  <2> HIDE DEF w
  <2>3. w \o d \in Texts /\ Len(w \o d) = Len(w) + Len(d)
    BY <1>2, <2>2, Concat, Zenon
  <2>4. QED BY <1>1, <1>2, <2>1, <2>2, <2>3 DEF w, v
<1>5. e \in Texts
  BY <1>1, Concat, Zenon
<1>6. /\ m \in Texts /\ m[1] = 4 /\ m[5] = 0 /\ m[6] = 0 /\ m[7] = 0 /\ m[8] = 1
  <2> HIDE DEF d, z, e
  <2>1. User \o z \in Texts /\ (User \o z) \o e \in Texts
    BY <1>1, <1>5, Concat, Zenon
  <2>2. (h \o User) \o z = h \o (User \o z)
    BY <1>1, <1>4, Regroup, ZenonT(60)
  <2>3. (h \o (User \o z)) \o e = h \o ((User \o z) \o e)
    BY <1>4, <1>5, <2>1, Regroup, Zenon
  <2>4. m = h \o ((User \o z) \o e)
    BY <1>3, <2>2, <2>3, Zenon
  <2>5. QED BY <1>2, <2>1, <2>4, Request4Address
<1> HIDE DEF h, e
<1>7. p \in Texts /\ Len(p) = 8 + Len(User) /\ Len(User) \in Nat
  <2>1. p \in Texts /\ Len(p) = Len(h) + Len(User)
    BY <1>1, <1>4, Concat, Zenon
  <2>2. QED BY <1>1, <1>4, <2>1, LenProperties DEF Texts
<1> HIDE DEF m, p, z
<1>8. /\ Len(m) = Len(p) + 1 + Len(e) /\ Len(e) \in Nat
      /\ m[Len(p) + 1] = 0
  <2>1. /\ Len(m) = Len(p) + Len(z) + Len(e)
        /\ \A i \in 1..Len(z) : m[Len(p) + i] = z[i]
    <3>1. p \in Texts /\ z \in Texts /\ e \in Texts
      BY <1>1, <1>5, <1>7
    <3>2. /\ Len(p \o z \o e) = Len(p) + Len(z) + Len(e)
          /\ \A i \in 1..Len(z) : (p \o z \o e)[Len(p) + i] = z[i]
      BY <3>1, Pieces, ZenonT(60)
    <3>3. QED BY <1>3, <3>2, Zenon
  <2>2. 1 \in 1..Len(z)
    BY <1>1
  <2>3. QED BY <1>1, <1>5, <2>1, <2>2, LenProperties DEF Texts
<1>9. SubSeq(m, Len(p) + 1 + 1, Len(m)) = e
  <2> DEFINE q == p \o z
  <2>1. q \in Texts /\ Len(q) = Len(p) + 1
    <3>1. q \in Texts /\ Len(q) = Len(p) + Len(z)
      BY <1>1, <1>7, Concat, Zenon
    <3>2. QED BY <1>1, <3>1
  <2> HIDE DEF q
  <2>2. SubSeq(q \o e \o <<>>, Len(q) + 1, Len(q) + Len(e)) = e
    BY <1>1, <1>5, <2>1, Middle, Zenon
  <2>3. q \o e \in Texts /\ (q \o e) \o <<>> = q \o e
    BY <1>5, <2>1, Concat, ConcatEmptySeq DEF Texts
  <2>4. m = q \o e
    BY <1>3 DEF q
  <2>5. QED BY <1>8, <2>1, <2>2, <2>3, <2>4
<1>10. IsName4(m)
  <2>1. Len(m) >= 8
    BY <1>7, <1>8
  <2>2. QED BY <1>6, <2>1, ThreeZeros DEF IsName4
<1>11. Len(p) + 1 \in 9..Len(m)
  BY <1>7, <1>8
<1>12. QED
  BY <1>6, <1>8, <1>9, <1>10, <1>11 DEF Named4, m, e, z

\* The request that is sent names the target as the option asks: its address, or
\* its name to be resolved by the server, in the form of the version spoken.  An
\* address that begins with three zeros is excluded: version 4a takes it for the
\* sign of a name.
THEOREM TargetAsked ==
  ASSUME DestAddr[1] # 0 \/ DestAddr[2] # 0 \/ DestAddr[3] # 0
  PROVE  Spec => []TargetIsAsked
<1>1. ASSUME TypeOK, Asking PROVE TargetIsAsked
  <2> SUFFICES ASSUME mpc \in {"reply", "reply4"}, owed # "none"
               PROVE  CASE socks_resolve = RESOLVE_LOCAL  -> Addressed(out, DestAddr) \/ Addressed4(out, DestAddr)
                        [] socks_resolve = RESOLVE_REMOTE -> Named(out, DestHost) \/ Named4(out, DestHost)
                        [] OTHER -> TRUE
    BY DEF TargetIsAsked
  <2>1. /\ dest_addr = IF socks_resolve = RESOLVE_LOCAL THEN DestAddr ELSE AnyAddr
        /\ mpc = "reply" => out = Request5
        /\ mpc = "reply4" => out = Request4
    BY <1>1 DEF Asking, Waiting
  <2>2. CASE socks_resolve = RESOLVE_LOCAL
    <3>1. Addressed(out, DestAddr) \/ Addressed4(out, DestAddr)
      BY <1>1, <2>1, <2>2, AddressIsAsked5, AddressIsAsked4
    <3>2. QED BY <2>2, <3>1 DEF RESOLVE_LOCAL, RESOLVE_REMOTE
  <2>3. CASE socks_resolve # RESOLVE_LOCAL
    <3>1. Named(out, DestHost) \/ Named4(out, DestHost)
      BY <1>1, <2>1, <2>3, NameIsAsked5, NameIsAsked4
    <3>2. QED BY <2>3, <3>1
  <2>4. QED BY <2>2, <2>3
<1>2. QED
  BY <1>1, InitInv, StepInv, PTL DEF Spec

(***************************************************************************)
(* The negotiation gets on.                                                *)
(***************************************************************************)
Stage ==
  CASE mpc = "open"     -> 0
    [] mpc = "resolve"  -> 1
    [] mpc = "begin"    -> 2
    [] mpc = "method"   -> 3
    [] mpc = "userpass" -> 4
    [] mpc = "auth"     -> 5
    [] mpc = "connect"  -> 6
    [] mpc \in {"reply", "reply4"} -> 7
    [] mpc = "length"   -> 8
    [] mpc = "address"  -> 9
    [] OTHER            -> 10

\* What the program waits for is owed by the server, or on its way.
LEMMA Coming ==
  ASSUME TypeOK, Framing, mpc \in Waiting, owed = "none"
  PROVE  pos + Length(mpc) <= Len(reply)
<1>1. pos \in Nat /\ header \in Nat /\ need \in Nat /\ Len(reply) \in Nat /\ header <= Len(reply)
  BY LenProperties DEF TypeOK
<1>2. CASE mpc \in {"method", "auth"}
  <2>1. Length(mpc) = 2 /\ Len(reply) = pos + 2
    BY <1>2 DEF Framing, Length
  <2>2. QED
    BY <1>1, <2>1
<1>3. CASE mpc = "reply"
  <2>1. Length(mpc) = 4 /\ Len(reply) >= pos + 7
    BY <1>3 DEF Framing, Length
  <2>2. QED
    BY <1>1, <2>1
<1>4. CASE mpc = "reply4"
  <2>1. Length(mpc) = 8 /\ header = pos + 8
    BY <1>4 DEF Framing, Length
  <2>2. QED
    BY <1>1, <2>1
<1>5. CASE mpc = "length"
  <2>1. Length(mpc) = 1 /\ Len(reply) >= pos + 1
    BY <1>5 DEF Framing, Length
  <2>2. QED
    BY <1>1, <2>1
<1>6. CASE mpc = "address"
  <2>1. Length(mpc) = need /\ header = pos + need
    BY <1>6 DEF Framing, Length
  <2>2. QED
    BY <1>1, <2>1
<1>7. QED
  BY <1>2, <1>3, <1>4, <1>5, <1>6 DEF Waiting

\* Each step of the program goes on to a later stage.
LEMMA StageNext ==
  ASSUME TypeOK, Program \/ TimedOut PROVE Stage' > Stage
<1>1. CASE OpenConnection \/ LocalResolve \/ LeaveUnresolved
  <2>1. \/ mpc = "open" /\ mpc' = "resolve"
        \/ mpc = "resolve" /\ mpc' \in {"begin", "failed"}
    BY <1>1 DEF OpenConnection, LocalResolve, LeaveUnresolved
  <2>2. QED
    BY ONLY <2>1 DEF Stage
<1>2. CASE OpenFails \/ SendFails \/ Fatal \/ TimedOut
  <2>1. mpc' \in {"failed", "timed out"} /\ mpc \in {"open", "resolve"} \cup Sending \cup Waiting
    BY <1>2 DEF OpenFails, SendFails, Fatal, InFails, TimedOut, TypeOK
  <2>2. Stage \in {0, 1, 2, 3, 4, 5, 6, 7, 8, 9}
    <3>1. mpc \in {"open", "resolve", "begin", "userpass", "connect", "method", "auth", "reply",
                   "length", "address", "reply4"}
      BY ONLY <2>1 DEF Sending, Waiting
    <3>2. QED
      BY ONLY <3>1 DEF Stage
  <2>3. Stage' = 10
    BY ONLY <2>1 DEF Stage
  <2>4. QED
    BY <2>2, <2>3
<1>3. CASE Greet5 \/ UserPass \/ Connect5 \/ Connect4
  <2>1. \/ mpc = "begin" /\ mpc' \in {"method", "reply4"}
        \/ mpc = "userpass" /\ mpc' = "auth"
        \/ mpc = "connect" /\ mpc' = "reply"
    BY <1>3 DEF Greet5, UserPass, Connect5, Connect4
  <2>2. QED
    BY ONLY <2>1 DEF Stage
<1>4. CASE Method \/ Auth
  <2>1. \/ mpc = "method" /\ mpc' \in {"failed", "connect", "userpass"}
        \/ mpc = "auth" /\ mpc' \in {"connect", "failed"}
    BY <1>4 DEF Method, Auth
  <2>2. QED
    BY ONLY <2>1 DEF Stage
<1>5. CASE Reply \/ Reply4
  <2>1. \/ mpc = "reply" /\ mpc' \in {"failed", "address", "length", "relaying"}
        \/ mpc = "reply4" /\ mpc' \in {"relaying", "failed"}
    BY <1>5 DEF Reply, Reply4
  <2>2. QED
    BY ONLY <2>1 DEF Stage
<1>6. CASE NameLength \/ Address
  <2>1. \/ mpc = "length" /\ mpc' = "address"
        \/ mpc = "address" /\ mpc' = "relaying"
    BY <1>6 DEF NameLength, Address
  <2>2. QED
    BY ONLY <2>1 DEF Stage
<1>7. QED
  BY <1>1, <1>2, <1>3, <1>4, <1>5, <1>6 DEF Program

\* atomic_in() never waits for bytes that are not to come: while the program waits, either the
\* server has not answered yet or what it has sent reaches to the end of what is waited for.
\* And each step of the program goes on to a later stage, which nothing the server does changes.
\* These are the two reasons for which the negotiation ends.
THEOREM NeverStarved ==
  Spec => /\ [](mpc \in Waiting /\ owed = "none" => pos + Length(mpc) <= Len(reply))
          /\ [][IF Program \/ TimedOut THEN Stage' > Stage ELSE UNCHANGED mpc]_vars
<1>1. ASSUME TypeOK, Framing
      PROVE  mpc \in Waiting /\ owed = "none" => pos + Length(mpc) <= Len(reply)
  BY <1>1, Coming
<1>2. ASSUME TypeOK, [Next]_vars
      PROVE  IF Program \/ TimedOut THEN Stage' > Stage ELSE UNCHANGED mpc
  <2>1. CASE Program \/ TimedOut
    BY <1>2, <2>1, StageNext
  <2>2. CASE ~(Program \/ TimedOut)
    BY <1>2, <2>2 DEF Next, Answer, Arrive, ServerLeaves, vars
  <2>3. QED
    BY <2>1, <2>2
<1>3. TypeOK /\ [Next]_vars => [IF Program \/ TimedOut THEN Stage' > Stage ELSE UNCHANGED mpc]_vars
  BY <1>2
<1>4. QED
  BY <1>1, <1>3, InitInv, StepInv, PTL DEF Spec
=============================================================================
