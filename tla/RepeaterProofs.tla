--------------------------- MODULE RepeaterProofs ---------------------------
(***************************************************************************)
(* What is proved of Repeater, for every size of the buffers, every number *)
(* of bytes and every choice of the options.  TypeCorrect,                 *)
(* OrderTowardsRemote and RemoteWatched hold of any counts send() and      *)
(* write() return.  The other theorems assume full writes (~ShortIO); TLC  *)
(* shows that they fail without the assumption.                            *)
(*                                                                         *)
(* Each invariant is strengthened to an inductive one (TypeOK, Watching,   *)
(* FullInv, Inv), with a lemma for each step of the loop and one for the   *)
(* peers.                                                                  *)
(***************************************************************************)
EXTENDS Repeater, SequenceTheorems, TLAPS

LEMMA RunProperties ==
  ASSUME NEW m \in Nat, NEW n \in Nat
  PROVE  /\ Run(m, n) \in Seq(Bytes)
         /\ Len(Run(m, n)) = n
         /\ \A i \in 1..n : Run(m, n)[i] = m + i
<1>1. \A i \in 1..n : m + i \in Bytes
  BY DEF Bytes
<1>2. Run(m, n) \in [1..n -> Bytes]
  BY <1>1 DEF Run
<1>3. QED
  BY <1>2 DEF Run

LEMMA RunFromZero ==
  ASSUME NEW n \in Nat
  PROVE  Run(0, n) \in Seq(Bytes) /\ Len(Run(0, n)) = n /\ \A i \in 1..n : Run(0, n)[i] = i
<1>1. \A i \in 1..n : Run(0, n)[i] = 0 + i
  BY RunProperties, 0 \in Nat
<1>2. \A i \in 1..n : 0 + i = i
  OBVIOUS
<1>3. QED
  BY <1>1, <1>2, RunProperties

LEMMA RunExtends ==
  ASSUME NEW m \in Nat, NEW n \in Nat
  PROVE  Run(0, m) \o Run(m, n) = Run(0, m + n)
<1> DEFINE s == Run(0, m)  t == Run(m, n)  u == Run(0, m + n)
<1>1. s \in Seq(Bytes) /\ Len(s) = m /\ \A i \in 1..m : s[i] = i
  BY RunFromZero
<1>2. t \in Seq(Bytes) /\ Len(t) = n /\ \A i \in 1..n : t[i] = m + i
  BY RunProperties
<1>3. u \in Seq(Bytes) /\ Len(u) = m + n /\ \A i \in 1..m + n : u[i] = i
  BY RunFromZero, m + n \in Nat
<1>4. /\ s \o t \in Seq(Bytes)
      /\ Len(s \o t) = m + n
      /\ \A i \in 1..m + n : (s \o t)[i] = IF i <= m THEN s[i] ELSE t[i - m]
  <2> HIDE DEF s, t
  <2>1. QED BY <1>1, <1>2, ConcatProperties
<1>5. \A i \in 1..m + n : (s \o t)[i] = u[i]
  <2> HIDE DEF s, t, u
  <2>1. SUFFICES ASSUME NEW i \in 1..m + n PROVE (s \o t)[i] = u[i]
    OBVIOUS
  <2>0. i \in Int /\ m \in Int /\ (i <= m \/ i > m)
    OBVIOUS
  <2>2. CASE i <= m
    BY <1>1, <1>3, <1>4, <2>2
  <2>3. CASE i > m
    <3>1. i - m \in 1..n
      BY <2>3
    <3>2. QED BY <1>2, <1>3, <1>4, <2>3, <3>1
  <2>4. QED BY <2>0, <2>2, <2>3
<1>6. s \o t = u
  <2> HIDE DEF s, t, u
  <2>1. QED BY <1>3, <1>4, <1>5, SeqEqual
<1>7. QED
  BY <1>6

LEMMA Associative ==
  \A s, t, u \in Seq(Bytes) : (s \o t) \o u = s \o (t \o u)
BY ConcatAssociative

LEMMA SplitSequence ==
  ASSUME NEW S, NEW s \in Seq(S), NEW n \in 1..Len(s)
  PROVE  /\ SubSeq(s, 1, n) \in Seq(S) /\ Len(SubSeq(s, 1, n)) = n
         /\ SubSeq(s, n + 1, Len(s)) \in Seq(S)
         /\ Len(SubSeq(s, n + 1, Len(s))) = Len(s) - n
         /\ SubSeq(s, 1, n) \o SubSeq(s, n + 1, Len(s)) = s
<1>1. \A i \in 1..Len(s) : s[i] \in S
  BY ElementOfSeq
<1>2. Len(s) \in Nat /\ n \in Nat /\ n <= Len(s)
  BY LenProperties
<1>3. SubSeq(s, 1, n) \in Seq(S) /\ Len(SubSeq(s, 1, n)) = n
  BY <1>1, <1>2, SubSeqProperties
<1>4. SubSeq(s, n + 1, Len(s)) \in Seq(S) /\ Len(SubSeq(s, n + 1, Len(s))) = Len(s) - n
  BY <1>1, <1>2, SubSeqProperties
<1>5. SubSeq(s, 1, n) \o SubSeq(s, n + 1, Len(s)) = SubSeq(s, 1, Len(s))
  BY <1>2, ConcatAdjacentSubSeq
<1>6. QED
  BY <1>3, <1>4, <1>5, SubSeqFull

LEMMA Prefix ==
  ASSUME NEW S, NEW s \in Seq(S), NEW n \in 0..Len(s)
  PROVE  SubSeq(s, 1, n) \in Seq(S) /\ Len(SubSeq(s, 1, n)) = n
<1>1. \A i \in 1..Len(s) : s[i] \in S
  BY ElementOfSeq
<1>2. Len(s) \in Nat /\ n \in Nat /\ n <= Len(s)
  BY LenProperties
<1>3. QED
  BY <1>1, <1>2, SubSeqProperties

(***************************************************************************)
(* Type correctness.                                                       *)
(***************************************************************************)
LEMMA SelectType == TypeOK /\ (Select \/ SelectFails) => TypeOK'
BY DEF TypeOK, Select, SelectFails, Reasons, REASON_ERROR, relay, lpeer, rpeer, streams

LEMMA RecvType == TypeOK /\ RecvRemote => TypeOK'
<1> SUFFICES ASSUME TypeOK, RecvRemote PROVE TypeOK'
  OBVIOUS
<1>1. CASE RecvData
  <2>1. PICK n \in 1..Smaller(rsent - rread, BufSize - Len(rbuf)) :
           rbuf' = rbuf \o Run(rread, n) /\ rread' = rread + n
    BY <1>1 DEF RecvData
  <2>2. n \in Nat /\ n <= rsent - rread /\ n <= BufSize - Len(rbuf) /\ rread \in Nat
    BY <2>1, RepeaterAssumption DEF Smaller, TypeOK
  <2>3. Run(rread, n) \in Seq(Bytes) /\ Len(Run(rread, n)) = n
    BY <2>2, RunProperties
  <2>4. rbuf' \in Seq(Bytes) /\ Len(rbuf') = Len(rbuf) + n
    BY <2>1, <2>3, ConcatProperties DEF TypeOK
  <2>5. QED
    BY <1>1, <2>1, <2>2, <2>4, RepeaterAssumption
    DEF TypeOK, RecvRemote, RecvData, lpeer, rpeer
<1>2. CASE RecvEnd \/ RecvFails \/ RecvNothing
  BY <1>2 DEF TypeOK, RecvRemote, RecvEnd, RecvFails, RecvNothing, Reasons,
    REASON_CLOSED_BY_REMOTE, lpeer, rpeer
<1>3. QED
  BY <1>1, <1>2 DEF RecvRemote

LEMMA ReadType == TypeOK /\ ReadLocal => TypeOK'
<1> SUFFICES ASSUME TypeOK, ReadLocal PROVE TypeOK'
  OBVIOUS
<1>1. CASE ReadData
  <2>1. PICK n \in 1..Smaller(lsent - lread, BufSize - Len(lbuf)) :
           lbuf' = lbuf \o Run(lread, n) /\ lread' = lread + n
    BY <1>1 DEF ReadData
  <2>2. n \in Nat /\ n <= lsent - lread /\ n <= BufSize - Len(lbuf) /\ lread \in Nat
    BY <2>1, RepeaterAssumption DEF Smaller, TypeOK
  <2>3. Run(lread, n) \in Seq(Bytes) /\ Len(Run(lread, n)) = n
    BY <2>2, RunProperties
  <2>4. lbuf' \in Seq(Bytes) /\ Len(lbuf') = Len(lbuf) + n
    BY <2>1, <2>3, ConcatProperties DEF TypeOK
  <2>5. QED
    BY <1>1, <2>1, <2>2, <2>4, RepeaterAssumption
    DEF TypeOK, ReadLocal, ReadData, lpeer, rpeer
<1>2. CASE ReadEOF \/ ReadFails \/ ReadNothing
  BY <1>2 DEF TypeOK, ReadLocal, ReadEOF, ReadFails, ReadNothing, Reasons,
    REASON_CLOSED_BY_LOCAL, lpeer, rpeer
<1>3. QED
  BY <1>1, <1>2 DEF ReadLocal

LEMMA TakenRange ==
  ASSUME NEW n \in Nat \ {0}, NEW room \in Int, NEW k \in Taken(n, room)
  PROVE  k \in 1..n
BY DEF Taken, Smaller

LEMMA SendType == TypeOK /\ SendRemote => TypeOK'
<1> SUFFICES ASSUME TypeOK, SendRemote PROVE TypeOK'
  OBVIOUS
<1>1. CASE SendData
  <2>1. PICK n \in Taken(Len(lbuf), Window - (Len(toRemote) - rtaken)) :
           /\ toRemote' = toRemote \o SubSeq(lbuf, 1, n)
           /\ lbuf' = SubSeq(lbuf, n + 1, Len(lbuf))
    BY <1>1 DEF SendData
  <2>2. Len(lbuf) \in Nat \ {0} /\ Window - (Len(toRemote) - rtaken) \in Int
    BY <1>1, RepeaterAssumption, EmptySeq, LenProperties DEF SendData, TypeOK
  <2>3. n \in 1..Len(lbuf)
    BY <2>1, <2>2, TakenRange
  <2>4. /\ SubSeq(lbuf, 1, n) \in Seq(Bytes) /\ Len(SubSeq(lbuf, 1, n)) = n
        /\ lbuf' \in Seq(Bytes) /\ Len(lbuf') = Len(lbuf) - n
    BY <2>1, <2>3, SplitSequence DEF TypeOK
  <2>5. toRemote' \in Seq(Bytes) /\ Len(toRemote') = Len(toRemote) + n
    BY <2>1, <2>4, ConcatProperties DEF TypeOK
  <2>6. Len(lbuf') <= BufSize /\ rtaken \in 0..Len(toRemote')
    BY <2>2, <2>3, <2>4, <2>5, RepeaterAssumption, LenProperties DEF TypeOK
  <2>7. pc' = "write"
    BY <1>1 DEF SendData
  <2>8. QED
    BY <2>4, <2>5, <2>6, <2>7 DEF TypeOK, SendRemote, lpeer, rpeer
<1>2. CASE SendFails \/ SendNothing
  BY <1>2 DEF TypeOK, SendRemote, SendFails, SendNothing, lpeer, rpeer
<1>3. QED
  BY <1>1, <1>2 DEF SendRemote

LEMMA AfterWriteType ==
  ASSUME TypeOK, NEW n \in 1..Len(rbuf)
  PROVE  AfterWrite(n) \in Seq(Bytes) /\ Len(AfterWrite(n)) = Len(rbuf) - n
<1>1. Len(rbuf) - n \in 0..Len(rbuf)
  BY LenProperties DEF TypeOK
<1>2. QED
  BY <1>1, Prefix, SplitSequence DEF TypeOK, AfterWrite

LEMMA NextTurnType ==
  ASSUME TypeOK, NextTurn
  PROVE  pc' \in {"select", "done"} /\ f_remote' \in BOOLEAN
BY DEF TypeOK, NextTurn

LEMMA WriteType == TypeOK /\ WriteLocal => TypeOK'
<1> SUFFICES ASSUME TypeOK, WriteLocal PROVE TypeOK'
  OBVIOUS
<1>1. CASE WriteData
  <2>1. PICK n \in Taken(Len(rbuf), Window - (Len(toLocal) - ltaken)) :
           toLocal' = toLocal \o SubSeq(rbuf, 1, n) /\ rbuf' = AfterWrite(n)
    BY <1>1 DEF WriteData
  <2>2. Len(rbuf) \in Nat \ {0} /\ Window - (Len(toLocal) - ltaken) \in Int
    BY <1>1, RepeaterAssumption, EmptySeq, LenProperties DEF WriteData, TypeOK
  <2>3. n \in 1..Len(rbuf)
    BY <2>1, <2>2, TakenRange
  <2>4. /\ SubSeq(rbuf, 1, n) \in Seq(Bytes) /\ Len(SubSeq(rbuf, 1, n)) = n
        /\ rbuf' \in Seq(Bytes) /\ Len(rbuf') = Len(rbuf) - n
    BY <2>1, <2>3, SplitSequence, AfterWriteType, SMTT(20) DEF TypeOK
  <2>5. toLocal' \in Seq(Bytes) /\ Len(toLocal') = Len(toLocal) + n
    BY <2>1, <2>4, ConcatProperties DEF TypeOK
  <2>6. pc' \in {"select", "done"} /\ f_remote' \in BOOLEAN
    BY <1>1, NextTurnType DEF WriteData
  <2>7. Len(rbuf') <= BufSize
    BY <2>3, <2>4, RepeaterAssumption, LenProperties DEF TypeOK
  <2>8. ltaken' \in 0..Len(toLocal')
    BY <2>3, <2>5, LenProperties DEF TypeOK, WriteLocal, lpeer
  <2>9. QED
    BY <2>4, <2>5, <2>6, <2>7, <2>8 DEF TypeOK, WriteLocal, lpeer, rpeer
<1>2. CASE WriteFails
  BY <1>2 DEF TypeOK, WriteLocal, WriteFails, lpeer, rpeer
<1>3. CASE WriteNothing
  <2>1. pc' \in {"select", "done"} /\ f_remote' \in BOOLEAN
    BY <1>3, NextTurnType DEF WriteNothing
  <2>2. QED
    BY <1>3, <2>1 DEF TypeOK, WriteLocal, WriteNothing, lpeer, rpeer
<1>4. QED
  BY <1>1, <1>2, <1>3 DEF WriteLocal

LEMMA PeersType == TypeOK /\ Peers => TypeOK'
<1> SUFFICES ASSUME TypeOK, Peers PROVE TypeOK'
  OBVIOUS
<1>1. CASE LocalWrites
  BY <1>1, RepeaterAssumption DEF TypeOK, LocalWrites, relay, rpeer, streams
<1>2. CASE LocalTakes
  BY <1>2, LenProperties DEF TypeOK, LocalTakes, relay, rpeer, streams
<1>3. CASE RemoteWrites
  BY <1>3, RepeaterAssumption DEF TypeOK, RemoteWrites, relay, lpeer, streams
<1>4. CASE RemoteTakes
  BY <1>4, LenProperties DEF TypeOK, RemoteTakes, relay, lpeer, streams
<1>5. CASE LocalCloses
  BY <1>5 DEF TypeOK, LocalCloses, relay, rpeer, streams
<1>6. CASE RemoteCloses \/ RemoteResets
  BY <1>6 DEF TypeOK, RemoteCloses, RemoteResets, relay, lpeer, streams
<1>7. QED
  BY <1>1, <1>2, <1>3, <1>4, <1>5, <1>6 DEF Peers

LEMMA TypeInit == Init => TypeOK
<1> SUFFICES ASSUME Init PROVE TypeOK
  OBVIOUS
<1>1. <<>> \in Seq(Bytes) /\ Len(<<>>) = 0
  BY EmptySeq
<1>2. BufSize \in Nat /\ MaxLocal \in Nat /\ MaxRemote \in Nat
  BY RepeaterAssumption
<1>3. /\ lbuf \in Seq(Bytes) /\ Len(lbuf) <= BufSize
      /\ rbuf \in Seq(Bytes) /\ Len(rbuf) <= BufSize
      /\ toRemote \in Seq(Bytes) /\ rtaken \in 0..Len(toRemote)
      /\ toLocal \in Seq(Bytes) /\ ltaken \in 0..Len(toLocal)
  BY <1>1, <1>2 DEF Init
<1>4. /\ lsent \in 0..MaxLocal /\ lread \in 0..lsent
      /\ rsent \in 0..MaxRemote /\ rread \in 0..rsent
  BY <1>2 DEF Init
<1>5. QED
  BY <1>3, <1>4 DEF Init, TypeOK, Reasons

LEMMA TypeStep == TypeOK /\ [Next]_vars => TypeOK'
<1>1. TypeOK /\ UNCHANGED vars => TypeOK'
  BY DEF TypeOK, vars, relay, lpeer, rpeer, streams
<1>2. QED
  BY <1>1, SelectType, RecvType, ReadType, SendType, WriteType, PeersType
  DEF Next, Loop

\* Every variable of the repeater keeps its type; in particular no buffer ever
\* holds more than sizeof(lbuf) bytes, the recv() calls never write past it.
THEOREM TypeCorrect == Spec => []TypeOK
BY TypeInit, TypeStep, PTL DEF Spec

(***************************************************************************)
(* Order of the bytes towards the remote, with send() as short as it likes.*)
(***************************************************************************)
LEMMA ReadKeepsOrder == TypeOK /\ LocalToRemoteInOrder /\ ReadLocal => LocalToRemoteInOrder'
<1> SUFFICES ASSUME TypeOK, LocalToRemoteInOrder, ReadLocal PROVE LocalToRemoteInOrder'
  OBVIOUS
<1>1. CASE ReadData
  <2>1. PICK n \in 1..Smaller(lsent - lread, BufSize - Len(lbuf)) :
           lbuf' = lbuf \o Run(lread, n) /\ lread' = lread + n
    BY <1>1 DEF ReadData
  <2>2. n \in Nat /\ lread \in Nat /\ Run(lread, n) \in Seq(Bytes)
        /\ toRemote \in Seq(Bytes) /\ lbuf \in Seq(Bytes)
    BY <2>1, RunProperties DEF TypeOK
  <2>3. toRemote \o (lbuf \o Run(lread, n)) = (toRemote \o lbuf) \o Run(lread, n)
    BY <2>2, Associative, Zenon
  <2>4. (toRemote \o lbuf) \o Run(lread, n) = Run(0, lread + n)
    BY <2>2, RunExtends DEF LocalToRemoteInOrder
  <2>5. QED
    BY <2>1, <2>3, <2>4 DEF LocalToRemoteInOrder, ReadLocal
<1>2. CASE ReadEOF \/ ReadFails \/ ReadNothing
  BY <1>2 DEF LocalToRemoteInOrder, ReadLocal, ReadEOF, ReadFails, ReadNothing
<1>3. QED
  BY <1>1, <1>2 DEF ReadLocal

LEMMA SendKeepsOrder == TypeOK /\ LocalToRemoteInOrder /\ SendRemote => LocalToRemoteInOrder'
<1> SUFFICES ASSUME TypeOK, LocalToRemoteInOrder, SendRemote PROVE LocalToRemoteInOrder'
  OBVIOUS
<1>1. CASE SendData
  <2>1. PICK n \in Taken(Len(lbuf), Window - (Len(toRemote) - rtaken)) :
           /\ toRemote' = toRemote \o SubSeq(lbuf, 1, n)
           /\ lbuf' = SubSeq(lbuf, n + 1, Len(lbuf))
    BY <1>1 DEF SendData
  <2>2. Len(lbuf) \in Nat \ {0} /\ Window - (Len(toRemote) - rtaken) \in Int
    BY <1>1, RepeaterAssumption, EmptySeq, LenProperties DEF SendData, TypeOK
  <2>3. n \in 1..Len(lbuf)
    BY <2>1, <2>2, TakenRange
  <2> DEFINE p == SubSeq(lbuf, 1, n)  q == SubSeq(lbuf, n + 1, Len(lbuf))
  <2>4. p \in Seq(Bytes) /\ q \in Seq(Bytes) /\ p \o q = lbuf
        /\ toRemote \in Seq(Bytes)
    BY <2>3, SplitSequence DEF TypeOK
  <2>5. (toRemote \o p) \o q = toRemote \o (p \o q)
    <3> HIDE DEF p, q
    <3>1. QED BY <2>4, Associative, Zenon
  <2>6. QED
    BY <2>1, <2>4, <2>5 DEF LocalToRemoteInOrder, SendRemote
<1>2. CASE SendFails \/ SendNothing
  BY <1>2 DEF LocalToRemoteInOrder, SendRemote, SendFails, SendNothing
<1>3. QED
  BY <1>1, <1>2 DEF SendRemote

LEMMA OrderInit == Init => LocalToRemoteInOrder
<1> SUFFICES ASSUME Init PROVE LocalToRemoteInOrder
  OBVIOUS
<1>1. Run(0, 0) = <<>>
  BY RunFromZero, EmptySeq, 0 \in Nat
<1>2. <<>> \o <<>> = <<>>
  BY ConcatEmptySeq, EmptySeq
<1>3. QED
  BY <1>1, <1>2 DEF Init, LocalToRemoteInOrder

LEMMA OrderStep == TypeOK /\ LocalToRemoteInOrder /\ [Next]_vars => LocalToRemoteInOrder'
<1> SUFFICES ASSUME TypeOK, LocalToRemoteInOrder, [Next]_vars PROVE LocalToRemoteInOrder'
  OBVIOUS
<1>1. CASE UNCHANGED vars
  BY <1>1 DEF LocalToRemoteInOrder, vars, relay, streams
<1>2. CASE Select \/ SelectFails
  BY <1>2 DEF LocalToRemoteInOrder, Select, SelectFails, streams
<1>3. CASE RecvRemote
  BY <1>3 DEF LocalToRemoteInOrder, RecvRemote
<1>4. CASE ReadLocal
  BY <1>4, ReadKeepsOrder
<1>5. CASE SendRemote
  BY <1>5, SendKeepsOrder
<1>6. CASE WriteLocal
  BY <1>6 DEF LocalToRemoteInOrder, WriteLocal
<1>7. CASE Peers
  BY <1>7 DEF LocalToRemoteInOrder, Peers, LocalWrites, LocalCloses, LocalTakes,
    RemoteWrites, RemoteCloses, RemoteResets, RemoteTakes, relay, streams
<1>8. QED
  BY <1>1, <1>2, <1>3, <1>4, <1>5, <1>6, <1>7 DEF Next, Loop

\* Whatever counts send() returns, what it took and what stands in lbuf is what
\* was read from the local input, in order.
THEOREM OrderTowardsRemote == Spec => []LocalToRemoteInOrder
BY OrderInit, OrderStep, TypeCorrect, PTL DEF Spec

(***************************************************************************)
(* The remote is watched whenever the loop waits.  f_local is never set    *)
(* when f_remote is not, and a turn leaves room in rbuf: it starts the     *)
(* write with at most BufSize bytes and the write takes at least one.      *)
(***************************************************************************)
Watching ==
  /\ pc \notin {"done", "fatal"} /\ f_local => f_remote
  /\ RemoteAlwaysWatched

LEMMA WriteKeepsWatching == TypeOK /\ Watching /\ WriteLocal => Watching'
<1> SUFFICES ASSUME TypeOK, Watching, WriteLocal PROVE Watching'
  OBVIOUS
<1>1. CASE WriteData \/ WriteNothing
  <2>1. Len(rbuf') < BufSize
    <3>1. CASE WriteData
      <4>1. PICK n \in Taken(Len(rbuf), Window - (Len(toLocal) - ltaken)) :
               rbuf' = AfterWrite(n)
        BY <3>1 DEF WriteData
      <4>2. Len(rbuf) \in Nat \ {0} /\ Window - (Len(toLocal) - ltaken) \in Int
        BY <3>1, RepeaterAssumption, EmptySeq, LenProperties DEF WriteData, TypeOK
      <4>3. n \in 1..Len(rbuf)
        BY <4>1, <4>2, TakenRange
      <4>4. Len(rbuf') = Len(rbuf) - n
        BY <4>1, <4>3, AfterWriteType
      <4>5. QED
        BY <4>2, <4>3, <4>4, RepeaterAssumption DEF TypeOK
    <3>2. CASE WriteNothing
      BY <3>2, RepeaterAssumption, EmptySeq DEF WriteNothing
    <3>3. QED
      BY <1>1, <3>1, <3>2
  <2>2. NextTurn /\ f_local' = f_local /\ pc = "write"
    BY <1>1 DEF WriteLocal, WriteData, WriteNothing
  <2>3. f_local => f_remote
    BY <2>2 DEF Watching
  <2>4. pc' # "done" => f_remote'
    BY <2>2, <2>3 DEF NextTurn, TypeOK
  <2>5. QED
    BY <2>1, <2>2, <2>4 DEF Watching, RemoteAlwaysWatched, WantRemote
<1>2. CASE WriteFails
  BY <1>2 DEF Watching, RemoteAlwaysWatched, WriteFails
<1>3. QED
  BY <1>1, <1>2 DEF WriteLocal

\* select() is never called without the remote in its read set, for any size of
\* the buffers and any counts of send() and write().
THEOREM RemoteWatched == Spec => []RemoteAlwaysWatched
<1>1. Init => Watching
  BY RepeaterAssumption, EmptySeq DEF Init, Watching, RemoteAlwaysWatched, WantRemote
<1>2. TypeOK /\ Watching /\ [Next]_vars => Watching'
  <2> SUFFICES ASSUME TypeOK, Watching, [Next]_vars PROVE Watching'
    OBVIOUS
  <2> USE DEF Watching, RemoteAlwaysWatched, WantRemote
  <2>1. CASE UNCHANGED vars
    BY <2>1 DEF vars, relay
  <2>2. CASE Select \/ SelectFails
    BY <2>2 DEF Select, SelectFails
  <2>3. CASE RecvRemote
    BY <2>3 DEF RecvRemote, RecvData, RecvEnd, RecvFails, RecvNothing
  <2>4. CASE ReadLocal
    BY <2>4 DEF ReadLocal, ReadData, ReadEOF, ReadFails, ReadNothing
  <2>5. CASE SendRemote
    BY <2>5 DEF SendRemote, SendData, SendFails, SendNothing
  <2>6. CASE WriteLocal
    BY <2>6, WriteKeepsWatching
  <2>7. CASE Peers
    BY <2>7 DEF Peers, LocalWrites, LocalCloses, LocalTakes,
      RemoteWrites, RemoteCloses, RemoteResets, RemoteTakes, relay
  <2>8. QED
    BY <2>1, <2>2, <2>3, <2>4, <2>5, <2>6, <2>7 DEF Next, Loop
<1>3. Watching => RemoteAlwaysWatched
  BY DEF Watching
<1>4. QED
  BY <1>1, <1>2, <1>3, TypeCorrect, PTL DEF Spec

(***************************************************************************)
(* Full writes: when send() and write() take all they are offered, a turn  *)
(* starts with empty buffers, which is what makes the end of a session     *)
(* safe.                                                                   *)
(***************************************************************************)
FullInv ==
  /\ pc \in {"select", "recv", "read", "write", "done"} => lbuf = <<>>
  /\ pc \in {"select", "recv", "done"} => rbuf = <<>>
  /\ shut => lend = "eof" /\ lread = lsent /\ lbuf = <<>>
  /\ RemoteToLocalInOrder

LEMMA TakenAll ==
  ASSUME ~ShortIO, NEW n \in Nat, NEW room \in Int, NEW k \in Taken(n, room)
  PROVE  k = n
BY DEF Taken

LEMMA FullInit == Init => FullInv
<1> SUFFICES ASSUME Init PROVE FullInv
  OBVIOUS
<1>1. Run(0, 0) = <<>>
  BY RunFromZero, EmptySeq, 0 \in Nat
<1>2. <<>> \o <<>> = <<>>
  BY ConcatEmptySeq, EmptySeq
<1>3. QED
  BY <1>1, <1>2 DEF Init, FullInv, RemoteToLocalInOrder

LEMMA FullRecv == TypeOK /\ FullInv /\ RecvRemote => FullInv'
<1> SUFFICES ASSUME TypeOK, FullInv, RecvRemote PROVE FullInv'
  OBVIOUS
<1>1. CASE RecvData
  <2>1. PICK n \in 1..Smaller(rsent - rread, BufSize - Len(rbuf)) :
           rbuf' = rbuf \o Run(rread, n) /\ rread' = rread + n
    BY <1>1 DEF RecvData
  <2>2. n \in Nat /\ rread \in Nat /\ Run(rread, n) \in Seq(Bytes)
        /\ toLocal \in Seq(Bytes) /\ rbuf \in Seq(Bytes)
    BY <2>1, RunProperties DEF TypeOK
  <2>3. toLocal \o (rbuf \o Run(rread, n)) = (toLocal \o rbuf) \o Run(rread, n)
    BY <2>2, Associative, Zenon
  <2>4. (toLocal \o rbuf) \o Run(rread, n) = Run(0, rread + n)
    BY <2>2, RunExtends DEF FullInv, RemoteToLocalInOrder
  <2>5. RemoteToLocalInOrder'
    BY <2>1, <2>3, <2>4 DEF RemoteToLocalInOrder, RecvRemote
  <2>6. QED
    BY <1>1, <2>5 DEF FullInv, RecvRemote, RecvData, lpeer
<1>2. CASE RecvEnd \/ RecvFails \/ RecvNothing
  BY <1>2 DEF FullInv, RemoteToLocalInOrder, RecvRemote, RecvEnd, RecvFails, RecvNothing, lpeer
<1>3. QED
  BY <1>1, <1>2 DEF RecvRemote

LEMMA FullRead == TypeOK /\ FullInv /\ ReadLocal => FullInv'
<1> SUFFICES ASSUME TypeOK, FullInv, ReadLocal PROVE FullInv'
  OBVIOUS
<1>1. RemoteToLocalInOrder'
  BY DEF FullInv, RemoteToLocalInOrder, ReadLocal
<1>2. CASE ReadData
  <2>1. lsent # lread
    <3>1. PICK n \in 1..Smaller(lsent - lread, BufSize - Len(lbuf)) : TRUE
      BY <1>2 DEF ReadData
    <3>2. lsent \in Int /\ lread \in Int /\ BufSize - Len(lbuf) \in Int
      BY RepeaterAssumption, LenProperties DEF TypeOK
    <3>3. QED
      BY <3>1, <3>2 DEF Smaller
  <2>2. QED
    BY <1>1, <1>2, <2>1 DEF FullInv, ReadLocal, ReadData, lpeer
<1>3. CASE ReadEOF
  BY <1>1, <1>3 DEF FullInv, ReadLocal, ReadEOF, lpeer
<1>4. CASE ReadFails \/ ReadNothing
  BY <1>1, <1>4 DEF FullInv, ReadLocal, ReadFails, ReadNothing, lpeer
<1>5. QED
  BY <1>2, <1>3, <1>4 DEF ReadLocal

LEMMA FullSend == ASSUME ~ShortIO PROVE TypeOK /\ FullInv /\ SendRemote => FullInv'
<1> SUFFICES ASSUME TypeOK, FullInv, SendRemote PROVE FullInv'
  OBVIOUS
<1>1. RemoteToLocalInOrder'
  BY DEF FullInv, RemoteToLocalInOrder, SendRemote
<1>2. CASE SendData
  <2>1. PICK n \in Taken(Len(lbuf), Window - (Len(toRemote) - rtaken)) :
           lbuf' = SubSeq(lbuf, n + 1, Len(lbuf))
    BY <1>2 DEF SendData
  <2>2. Len(lbuf) \in Nat /\ Window - (Len(toRemote) - rtaken) \in Int
    BY RepeaterAssumption, LenProperties DEF TypeOK
  <2>3. n = Len(lbuf)
    BY <2>1, <2>2, TakenAll
  <2>4. lbuf' = <<>>
    BY <2>1, <2>2, <2>3, SubSeqEmpty
  <2>5. QED
    BY <1>1, <1>2, <2>4 DEF FullInv, SendRemote, SendData, lpeer
<1>3. CASE SendFails \/ SendNothing
  BY <1>1, <1>3 DEF FullInv, SendRemote, SendFails, SendNothing, lpeer
<1>4. QED
  BY <1>2, <1>3 DEF SendRemote

LEMMA FullWrite == ASSUME ~ShortIO PROVE TypeOK /\ FullInv /\ WriteLocal => FullInv'
<1> SUFFICES ASSUME TypeOK, FullInv, WriteLocal PROVE FullInv'
  OBVIOUS
<1>1. CASE WriteData
  <2>1. PICK n \in Taken(Len(rbuf), Window - (Len(toLocal) - ltaken)) :
           toLocal' = toLocal \o SubSeq(rbuf, 1, n) /\ rbuf' = AfterWrite(n)
    BY <1>1 DEF WriteData
  <2>2. Len(rbuf) \in Nat /\ Window - (Len(toLocal) - ltaken) \in Int
    BY RepeaterAssumption, LenProperties DEF TypeOK
  <2>3. n = Len(rbuf)
    BY <2>1, <2>2, TakenAll
  <2>4. SubSeq(rbuf, 1, n) = rbuf
    BY <2>3, SubSeqFull DEF TypeOK
  <2>5. rbuf' = <<>>
    <3>1. rbuf' = SubSeq(rbuf, 1, 0)
      BY <2>1, <2>2, <2>3 DEF AfterWrite
    <3>2. QED
      BY <3>1, SubSeqEmpty
  <2>6. toLocal' \o rbuf' = toLocal \o rbuf
    <3>1. toLocal \o rbuf \in Seq(Bytes)
      BY ConcatProperties DEF TypeOK
    <3>2. (toLocal \o rbuf) \o <<>> = toLocal \o rbuf
      BY <3>1, ConcatEmptySeq
    <3>3. QED
      BY <2>1, <2>4, <2>5, <3>2
  <2>7. QED
    BY <1>1, <2>5, <2>6 DEF FullInv, RemoteToLocalInOrder, WriteLocal, WriteData, lpeer
<1>2. CASE WriteFails \/ WriteNothing
  BY <1>2 DEF FullInv, RemoteToLocalInOrder, WriteLocal, WriteFails, WriteNothing, lpeer
<1>3. QED
  BY <1>1, <1>2 DEF WriteLocal

LEMMA FullPeers == TypeOK /\ FullInv /\ Peers => FullInv'
<1> SUFFICES ASSUME TypeOK, FullInv, Peers PROVE FullInv'
  OBVIOUS
<1>1. UNCHANGED <<relay, streams>> /\ (lend = "eof" => UNCHANGED <<lsent, lend>>)
  BY DEF Peers, LocalWrites, LocalCloses, LocalTakes,
    RemoteWrites, RemoteCloses, RemoteResets, RemoteTakes, lpeer
<1>2. QED
  BY <1>1 DEF FullInv, RemoteToLocalInOrder, relay, streams

LEMMA FullStep == ASSUME ~ShortIO PROVE TypeOK /\ FullInv /\ [Next]_vars => FullInv'
<1> SUFFICES ASSUME TypeOK, FullInv, [Next]_vars PROVE FullInv'
  OBVIOUS
<1>1. CASE UNCHANGED vars
  BY <1>1 DEF FullInv, RemoteToLocalInOrder, vars, relay, lpeer, streams
<1>2. CASE Select \/ SelectFails
  BY <1>2 DEF FullInv, RemoteToLocalInOrder, Select, SelectFails, lpeer, streams
<1>3. CASE RecvRemote
  BY <1>3, FullRecv
<1>4. CASE ReadLocal
  BY <1>4, FullRead
<1>5. CASE SendRemote
  BY <1>5, FullSend
<1>6. CASE WriteLocal
  BY <1>6, FullWrite
<1>7. CASE Peers
  BY <1>7, FullPeers
<1>8. QED
  BY <1>1, <1>2, <1>3, <1>4, <1>5, <1>6, <1>7 DEF Next, Loop

\* With full writes lbuf and rbuf are empty whenever select() is called and when
\* the repeater returns, lbuf is empty once the connection is half closed, and the
\* local output has what was received, in order.
THEOREM FullWritesInvariant == ASSUME ~ShortIO PROVE Spec => []FullInv
BY FullInit, FullStep, TypeCorrect, PTL DEF Spec

\* With full writes the local output gets what was received, in order.
THEOREM OrderTowardsLocal == ASSUME ~ShortIO PROVE Spec => []RemoteToLocalInOrder
<1>1. FullInv => RemoteToLocalInOrder
  BY DEF FullInv
<1>2. QED
  BY <1>1, FullWritesInvariant, PTL

\* With full writes the connection is half closed only after the last byte of
\* the local input has been sent.
THEOREM ShutdownIsLast == ASSUME ~ShortIO PROVE Spec => []ShutdownAfterLastByte
<1>1. TypeOK /\ FullInv /\ LocalToRemoteInOrder => ShutdownAfterLastByte
  <2> SUFFICES ASSUME TypeOK, FullInv, LocalToRemoteInOrder, shut PROVE ShutdownAfterLastByte
    BY DEF ShutdownAfterLastByte
  <2>1. lread = lsent /\ lbuf = <<>>
    BY DEF FullInv
  <2>2. toRemote \o <<>> = toRemote
    BY ConcatEmptySeq DEF TypeOK
  <2>3. QED
    BY <2>1, <2>2 DEF LocalToRemoteInOrder, ShutdownAfterLastByte
<1>2. QED
  BY <1>1, TypeCorrect, FullWritesInvariant, OrderTowardsRemote, PTL

(***************************************************************************)
(* How the repeater ends.  f_remote is cleared when the remote has ended,  *)
(* or with -P; the reason says "closed by remote" only when all that it    *)
(* sent has been received, or was lost in a reset.                         *)
(***************************************************************************)
Endings ==
  /\ reason = REASON_CLOSED_BY_REMOTE => rend = "reset" \/ (rend = "closed" /\ rread = rsent)
  /\ ~f_remote => rend # "open" \/ Hold

LEMMA RecvEndings == TypeOK /\ Endings /\ RecvRemote => Endings'
<1> SUFFICES ASSUME TypeOK, Endings, RecvRemote PROVE Endings'
  OBVIOUS
<1>1. UNCHANGED <<rend, rsent>>
  BY DEF RecvRemote, rpeer
<1>2. CASE RecvData
  <2>1. rread # rsent /\ UNCHANGED <<f_remote, reason>> /\ rend # "reset"
    <3>1. PICK n \in 1..Smaller(rsent - rread, BufSize - Len(rbuf)) : TRUE
      BY <1>2 DEF RecvData
    <3>2. rsent \in Int /\ rread \in Int /\ BufSize - Len(rbuf) \in Int
      BY RepeaterAssumption, LenProperties DEF TypeOK
    <3>3. QED
      BY <1>2, <3>1, <3>2 DEF Smaller, RecvData
  <2>2. QED
    BY <1>1, <2>1 DEF Endings
<1>3. CASE RecvEnd
  BY <1>1, <1>3 DEF Endings, RecvEnd
<1>4. CASE RecvFails \/ RecvNothing
  BY <1>1, <1>4 DEF Endings, RecvFails, RecvNothing
<1>5. QED
  BY <1>2, <1>3, <1>4 DEF RecvRemote

LEMMA WriteEndings == TypeOK /\ Endings /\ WriteLocal => Endings'
<1> SUFFICES ASSUME TypeOK, Endings, WriteLocal PROVE Endings'
  OBVIOUS
<1>1. UNCHANGED <<rend, rsent, rread, reason>>
  BY DEF WriteLocal, rpeer
<1>2. f_remote' = f_remote \/ Hold
  BY DEF WriteLocal, WriteData, WriteFails, WriteNothing, NextTurn
<1>3. QED
  BY <1>1, <1>2 DEF Endings

LEMMA PeersEndings == TypeOK /\ Endings /\ Peers => Endings'
<1> SUFFICES ASSUME TypeOK, Endings, Peers PROVE Endings'
  OBVIOUS
<1>1. UNCHANGED <<reason, f_remote, rread>>
  BY DEF Peers, LocalWrites, LocalCloses, LocalTakes, RemoteWrites, RemoteCloses, RemoteResets,
    RemoteTakes, relay, streams
<1>2. \/ UNCHANGED <<rend, rsent>>
      \/ rend = "open" /\ rend' \in {"open", "closed"}
      \/ rend' = "reset"
  BY DEF Peers, LocalWrites, LocalCloses, LocalTakes, RemoteWrites, RemoteCloses, RemoteResets,
    RemoteTakes, rpeer
<1>3. QED
  BY <1>1, <1>2 DEF Endings

LEMMA EndingsInvariant == Spec => []Endings
<1>1. Init => Endings
  BY DEF Init, Endings, REASON_UNK, REASON_CLOSED_BY_REMOTE
<1>2. TypeOK /\ Endings /\ [Next]_vars => Endings'
  <2> SUFFICES ASSUME TypeOK, Endings, [Next]_vars PROVE Endings'
    OBVIOUS
  <2>1. CASE UNCHANGED vars
    BY <2>1 DEF Endings, vars, relay, rpeer, streams
  <2>2. CASE Select \/ SelectFails
    BY <2>2 DEF Endings, Select, SelectFails, rpeer, streams, REASON_ERROR, REASON_CLOSED_BY_REMOTE
  <2>3. CASE RecvRemote
    BY <2>3, RecvEndings
  <2>4. CASE ReadLocal
    BY <2>4 DEF Endings, ReadLocal, ReadData, ReadEOF, ReadFails, ReadNothing, rpeer,
      REASON_CLOSED_BY_LOCAL, REASON_CLOSED_BY_REMOTE
  <2>5. CASE SendRemote
    BY <2>5 DEF Endings, SendRemote, rpeer
  <2>6. CASE WriteLocal
    BY <2>6, WriteEndings
  <2>7. CASE Peers
    BY <2>7, PeersEndings
  <2>8. QED
    BY <2>1, <2>2, <2>3, <2>4, <2>5, <2>6, <2>7 DEF Next, Loop
<1>3. QED
  BY <1>1, <1>2, TypeCorrect, PTL DEF Spec

\* With full writes, a repeater that ends because the remote has closed has written every byte
\* that the remote sent.
THEOREM StreamComplete == ASSUME ~ShortIO PROVE Spec => []RemoteStreamComplete
<1>1. TypeOK /\ FullInv /\ Endings => RemoteStreamComplete
  <2> SUFFICES ASSUME TypeOK, FullInv, Endings, pc = "done", reason = REASON_CLOSED_BY_REMOTE,
                      rend = "closed"
               PROVE  toLocal = Run(0, rsent)
    BY DEF RemoteStreamComplete
  <2>1. rread = rsent
    BY DEF Endings
  <2>2. rbuf = <<>> /\ toLocal \o rbuf = Run(0, rread)
    BY DEF FullInv, RemoteToLocalInOrder
  <2>3. toLocal \o <<>> = toLocal
    BY ConcatEmptySeq DEF TypeOK
  <2>4. QED
    BY <2>1, <2>2, <2>3
<1>2. QED
  BY <1>1, TypeCorrect, FullWritesInvariant, EndingsInvariant, PTL

\* Without -P the end of the local input does not end the session.
THEOREM HalfClose == Spec => HalfCloseKeepsRelaying
<1>1. TypeOK /\ Endings /\ [Next]_vars =>
        [(pc # "done" /\ pc' = "done" /\ ~Hold) => rend # "open" \/ reason' = REASON_ERROR]_vars
  <2> SUFFICES ASSUME TypeOK, Endings, Next, pc # "done", pc' = "done", ~Hold, rend = "open"
               PROVE  reason' = REASON_ERROR
    OBVIOUS
  <2>1. f_remote
    BY DEF TypeOK, Endings
  <2>2. CASE SelectFails
    BY <2>2 DEF SelectFails
  <2>3. ~WriteLocal
    BY <2>1 DEF WriteLocal, WriteData, WriteFails, WriteNothing, NextTurn
  <2>4. ~Select /\ ~RecvRemote /\ ~ReadLocal /\ ~SendRemote
    BY DEF Select, RecvRemote, RecvData, RecvEnd, RecvFails, RecvNothing,
      ReadLocal, ReadData, ReadEOF, ReadFails, ReadNothing,
      SendRemote, SendData, SendFails, SendNothing
  <2>5. ~Peers
    BY DEF Peers, LocalWrites, LocalCloses, LocalTakes, RemoteWrites, RemoteCloses, RemoteResets,
      RemoteTakes, relay
  <2>6. QED
    BY <2>2, <2>3, <2>4, <2>5 DEF Next, Loop
<1>2. QED
  BY <1>1, TypeCorrect, EndingsInvariant, PTL DEF Spec, HalfCloseKeepsRelaying

(***************************************************************************)
(* The repeater implements Duplex.                                         *)
(***************************************************************************)
LEMMA UptoIsRun == ASSUME NEW n \in Nat PROVE Contract!Upto(n) = Run(0, n)
<1>1. \A i \in 1..n : 0 + i = i
  OBVIOUS
<1>2. QED
  BY <1>1 DEF Contract!Upto, Run

Entered == [d \in {"up", "down"} |-> IF d = "up" THEN lread ELSE rread]
Left    == [d \in {"up", "down"} |-> IF d = "up" THEN toRemote ELSE toLocal]
State   == IF pc = "fatal" \/ (pc = "done" /\ reason = REASON_ERROR) THEN "broken"
           ELSE IF pc = "done" THEN "finished" ELSE "running"

\* The invariant of the refinement: all that has been proved so far.
Inv == TypeOK /\ LocalToRemoteInOrder /\ FullInv

LEMMA Balance == Inv => /\ lread = Len(toRemote) + Len(lbuf)
                        /\ rread = Len(toLocal) + Len(rbuf)
                        /\ lbuf = <<>> => toRemote = Contract!Upto(lread)
                        /\ rbuf = <<>> => toLocal = Contract!Upto(rread)
<1> SUFFICES ASSUME Inv
             PROVE  /\ lread = Len(toRemote) + Len(lbuf)
                    /\ rread = Len(toLocal) + Len(rbuf)
                    /\ lbuf = <<>> => toRemote = Contract!Upto(lread)
                    /\ rbuf = <<>> => toLocal = Contract!Upto(rread)
  OBVIOUS
<1>1. /\ toRemote \in Seq(Bytes) /\ lbuf \in Seq(Bytes) /\ lread \in Nat
      /\ toLocal \in Seq(Bytes) /\ rbuf \in Seq(Bytes) /\ rread \in Nat
  BY DEF Inv, TypeOK
<1>2. toRemote \o lbuf = Run(0, lread) /\ toLocal \o rbuf = Run(0, rread)
  BY DEF Inv, LocalToRemoteInOrder, FullInv, RemoteToLocalInOrder
<1>3. Contract!Upto(lread) = Run(0, lread) /\ Contract!Upto(rread) = Run(0, rread)
  BY <1>1, UptoIsRun
<1>4. Len(Run(0, lread)) = lread /\ Len(Run(0, rread)) = rread
  BY <1>1, RunFromZero
<1>5. Len(toRemote \o lbuf) = Len(toRemote) + Len(lbuf)
  BY <1>1, ConcatProperties
<1>6. Len(toLocal \o rbuf) = Len(toLocal) + Len(rbuf)
  BY <1>1, ConcatProperties
<1>7. toRemote \o <<>> = toRemote /\ toLocal \o <<>> = toLocal
  BY <1>1, ConcatEmptySeq
<1>8. QED
  BY <1>2, <1>3, <1>4, <1>5, <1>6, <1>7

\* A finished repeater is complete in both directions.
LEMMA FinishedComplete == Inv /\ State = "finished" => Contract!Complete
<1> SUFFICES ASSUME Inv, State = "finished" PROVE Contract!Complete
  OBVIOUS
<1>1. pc = "done"
  BY DEF State
<1>2. lbuf = <<>> /\ rbuf = <<>>
  BY <1>1 DEF Inv, FullInv
<1>3. toRemote = Contract!Upto(lread) /\ toLocal = Contract!Upto(rread)
  BY <1>2, Balance
<1>4. QED
  BY <1>3 DEF Contract!Complete

\* What a step of the repeater does to the two pipes.
Transfer ==
  \/ Contract!Enter("up") \/ Contract!Enter("down")
  \/ Contract!Leave("up") \/ Contract!Leave("down")
  \/ UNCHANGED <<Entered, Left>>

LEMMA RecvTransfers == Inv /\ Inv' /\ RecvRemote => Transfer
<1> SUFFICES ASSUME Inv, Inv', RecvRemote PROVE Transfer
  OBVIOUS
<1>1. UNCHANGED <<lread, toRemote, toLocal>>
  BY DEF RecvRemote
<1>2. CASE RecvData
  <2>1. PICK n \in 1..Smaller(rsent - rread, BufSize - Len(rbuf)) : rread' = rread + n
    BY <1>2 DEF RecvData
  <2>2. n \in 1..BufSize - Len(rbuf)
    <3>1. rsent \in Nat /\ rread \in Nat /\ Len(rbuf) \in Nat /\ BufSize \in Nat
      BY RepeaterAssumption, LenProperties DEF Inv, TypeOK
    <3>2. QED
      BY <2>1, <3>1 DEF Smaller
  <2>3. rread = Len(toLocal) + Len(rbuf)
    BY Balance
  <2>4. rread' \in rread + 1 .. Len(toLocal) + BufSize
    BY <2>1, <2>2, <2>3, RepeaterAssumption, LenProperties DEF Inv, TypeOK
  <2>5. Contract!Enter("down")
    BY <1>1, <2>4 DEF Contract!Enter
  <2>6. QED
    BY <2>5 DEF Transfer
<1>3. CASE RecvEnd \/ RecvFails \/ RecvNothing
  BY <1>1, <1>3 DEF Transfer, Entered, Left, RecvEnd, RecvFails, RecvNothing
<1>4. QED
  BY <1>2, <1>3 DEF RecvRemote

LEMMA ReadTransfers == Inv /\ Inv' /\ ReadLocal => Transfer
<1> SUFFICES ASSUME Inv, Inv', ReadLocal PROVE Transfer
  OBVIOUS
<1>1. UNCHANGED <<rread, toRemote, toLocal>>
  BY DEF ReadLocal
<1>2. CASE ReadData
  <2>1. PICK n \in 1..Smaller(lsent - lread, BufSize - Len(lbuf)) : lread' = lread + n
    BY <1>2 DEF ReadData
  <2>2. n \in 1..BufSize - Len(lbuf)
    <3>1. lsent \in Nat /\ lread \in Nat /\ Len(lbuf) \in Nat /\ BufSize \in Nat
      BY RepeaterAssumption, LenProperties DEF Inv, TypeOK
    <3>2. QED
      BY <2>1, <3>1 DEF Smaller
  <2>3. lread = Len(toRemote) + Len(lbuf)
    BY Balance
  <2>4. lread' \in lread + 1 .. Len(toRemote) + BufSize
    BY <2>1, <2>2, <2>3, RepeaterAssumption, LenProperties DEF Inv, TypeOK
  <2>5. Contract!Enter("up")
    BY <1>1, <2>4 DEF Contract!Enter
  <2>6. QED
    BY <2>5 DEF Transfer
<1>3. CASE ReadEOF \/ ReadFails \/ ReadNothing
  BY <1>1, <1>3 DEF Transfer, Entered, Left, ReadEOF, ReadFails, ReadNothing
<1>4. QED
  BY <1>2, <1>3 DEF ReadLocal

LEMMA SendTransfers == Inv /\ Inv' /\ SendRemote => Transfer
<1> SUFFICES ASSUME Inv, Inv', SendRemote PROVE Transfer
  OBVIOUS
<1>1. UNCHANGED <<lread, rread, toLocal>>
  BY DEF SendRemote
<1>2. CASE UNCHANGED toRemote
  BY <1>1, <1>2 DEF Transfer, Entered, Left
<1>3. CASE SendData /\ lbuf' = <<>>
  <2>1. lread = Len(toRemote) + Len(lbuf) /\ Len(lbuf) \in Nat \ {0} /\ Len(toRemote) \in Nat
    BY <1>3, Balance, LenProperties, EmptySeq DEF SendData, Inv, TypeOK
  <2>2. (Inv => (lbuf = <<>> => toRemote = Contract!Upto(lread)))'
    BY Balance, PTL
  <2>3. toRemote' = Contract!Upto(lread)
    BY <1>1, <1>3, <2>2
  <2>4. Contract!Leave("up")
    <3>1. lread \in Len(Left["up"]) + 1 .. Entered["up"]
      BY <2>1 DEF Left, Entered
    <3>2. Left' = [Left EXCEPT !["up"] = Contract!Upto(lread)] /\ Entered' = Entered
      BY <1>1, <2>3 DEF Left, Entered
    <3>3. QED
      BY <3>1, <3>2 DEF Contract!Leave, Left, Entered
  <2>5. QED
    BY <2>4 DEF Transfer
<1>4. QED
  <2>1. lbuf' = <<>> \/ UNCHANGED toRemote
    BY DEF SendRemote, SendData, SendFails, SendNothing, Inv, FullInv
  <2>2. SendData \/ UNCHANGED toRemote
    BY DEF SendRemote, SendFails, SendNothing
  <2>3. QED
    BY <1>2, <1>3, <2>1, <2>2

LEMMA WriteTransfers == ASSUME ~ShortIO PROVE Inv /\ Inv' /\ WriteLocal => Transfer
<1> SUFFICES ASSUME Inv, Inv', WriteLocal PROVE Transfer
  OBVIOUS
<1>1. UNCHANGED <<lread, rread, toRemote>>
  BY DEF WriteLocal
<1>2. CASE UNCHANGED toLocal
  BY <1>1, <1>2 DEF Transfer, Entered, Left
<1>3. CASE WriteData
  <2>1. rread = Len(toLocal) + Len(rbuf) /\ Len(rbuf) \in Nat \ {0} /\ Len(toLocal) \in Nat
    BY <1>3, Balance, LenProperties, EmptySeq DEF WriteData, Inv, TypeOK
  <2>2. PICK n \in Taken(Len(rbuf), Window - (Len(toLocal) - ltaken)) : rbuf' = AfterWrite(n)
    BY <1>3 DEF WriteData
  <2>3. n = Len(rbuf)
    <3>1. TypeOK
      BY DEF Inv
    <3>2. Window - (Len(toLocal) - ltaken) \in Int
      BY <3>1, <2>1, RepeaterAssumption DEF TypeOK
    <3>3. QED
      BY <2>1, <2>2, <3>2, TakenAll
  <2>4. rbuf' = <<>>
    BY <2>1, <2>2, <2>3, SubSeqEmpty DEF AfterWrite
  <2>5. (Inv => (rbuf = <<>> => toLocal = Contract!Upto(rread)))'
    BY Balance, PTL
  <2>6. toLocal' = Contract!Upto(rread)
    BY <1>1, <2>4, <2>5
  <2>7. Contract!Leave("down")
    <3>1. rread \in Len(Left["down"]) + 1 .. Entered["down"]
      BY <2>1 DEF Left, Entered
    <3>2. Left' = [Left EXCEPT !["down"] = Contract!Upto(rread)] /\ Entered' = Entered
      BY <1>1, <2>6 DEF Left, Entered
    <3>3. QED
      BY <3>1, <3>2 DEF Contract!Leave, Left, Entered
  <2>8. QED
    BY <2>7 DEF Transfer
<1>4. QED
  BY <1>2, <1>3 DEF WriteLocal, WriteFails, WriteNothing

LEMMA LoopRefines ==
  ASSUME ~ShortIO PROVE Inv /\ Inv' /\ Loop => Contract!Next
<1> SUFFICES ASSUME Inv, Inv', Loop PROVE Contract!Next
  OBVIOUS
<1>1. Transfer
  <2>1. CASE Select \/ SelectFails
    BY <2>1 DEF Transfer, Entered, Left, Select, SelectFails, streams
  <2>2. QED
    BY <2>1, RecvTransfers, ReadTransfers, SendTransfers, WriteTransfers DEF Loop
<1>2. State = "running"
  BY DEF Loop, Select, SelectFails, RecvRemote, ReadLocal, SendRemote, WriteLocal, State
<1>3. State' \in {"running", "finished", "broken"}
  BY DEF State
<1>4. State' = "finished" => Contract!Complete'
  <2>1. (Inv /\ State = "finished" => Contract!Complete)'
    BY FinishedComplete, PTL
  <2>2. QED
    BY <2>1
<1>5. QED
  BY <1>1, <1>2, <1>3, <1>4 DEF Contract!Next, Transfer, Entered, Left, State

\* With full writes the repeater implements Duplex: in whatever order the peers
\* and the loop move, it is a pair of first-in first-out pipes of BufSize bytes
\* that lets nothing pass after its end and that finishes only when complete.
THEOREM Implementation == ASSUME ~ShortIO PROVE Spec => ImplementsDuplex
<1>1. Init => Contract!Init
  BY DEF Init, Contract!Init
<1>2. Inv /\ Inv' /\ [Next]_vars => [Contract!Next]_(Contract!vars)
  <2> SUFFICES ASSUME Inv, Inv', [Next]_vars PROVE [Contract!Next]_(Contract!vars)
    OBVIOUS
  <2>1. CASE UNCHANGED vars
    BY <2>1 DEF vars, relay, streams, Contract!vars
  <2>2. CASE Peers
    BY <2>2 DEF Peers, LocalWrites, LocalCloses, LocalTakes, RemoteWrites,
      RemoteCloses, RemoteResets, RemoteTakes, relay, streams, Contract!vars
  <2>3. CASE Loop
    BY <2>3, LoopRefines
  <2>4. QED
    BY <2>1, <2>2, <2>3 DEF Next
<1>3. Spec => []Inv
  <2>1. TypeOK /\ LocalToRemoteInOrder /\ FullInv <=> Inv
    BY DEF Inv
  <2>2. QED
    BY <2>1, TypeCorrect, OrderTowardsRemote, FullWritesInvariant, PTL
<1>4. QED
  BY <1>1, <1>2, <1>3, PTL DEF Spec, ImplementsDuplex, Contract!Spec
=============================================================================
