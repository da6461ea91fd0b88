-------------------------- MODULE ForwardingProofs --------------------------
(***************************************************************************)
(* What is proved of Forwarding, for any number of clients: a held session *)
(* is one stream each way across its clients, when sends and writes are    *)
(* whole.  The steps of the repeater are those of RepeaterProofs; what is  *)
(* new is Accept, which starts the variables of do_repeater() again and    *)
(* would lose whatever stood in the buffers.                               *)
(***************************************************************************)
EXTENDS Forwarding, RepeaterProofs, FiniteSetTheorems

\* main() leaves do_repeater() only when it has returned, and waits for a client
\* on a connection whose write side is open.
BetweenClients ==
  /\ mpc \in {"listen", "waiting", "accepting"} => pc \in {"select", "done"}
  /\ shut => ~Hold /\ mpc \notin {"listen", "waiting", "accepting", "connecting"}

HeldInv == TypeOK /\ LocalToRemoteInOrder /\ FullInv /\ BetweenClients

LEMMA HeldInit == ForwardInit => HeldInv
BY TypeInit, OrderInit, FullInit DEF ForwardInit, HeldInv, BetweenClients, Init

\* The steps of main() that leave the repeater alone.
MainOnly == Listen \/ BindFails \/ GiveUp \/ Stimulated \/ WaitFails
            \/ Connected \/ ConnectFails \/ WaitAgain \/ Return

LEMMA HeldMainOnly == HeldInv /\ MainOnly => HeldInv'
<1> SUFFICES ASSUME HeldInv, MainOnly PROVE HeldInv'
  OBVIOUS
<1>1. UNCHANGED vars
  BY DEF MainOnly, Listen, BindFails, GiveUp, Stimulated, WaitFails, Connected, ConnectFails, WaitAgain, Return
<1>2. pc' = pc /\ shut' = shut /\ lbuf' = lbuf /\ rbuf' = rbuf /\ lend' = lend
      /\ UNCHANGED <<lsent, lread, rread, toRemote, toLocal>>
  BY <1>1 DEF vars, relay, lpeer, streams
<1>3. TypeOK' /\ LocalToRemoteInOrder'
  BY <1>1, TypeStep, OrderStep DEF HeldInv
<1>4. FullInv'
  BY <1>2 DEF HeldInv, FullInv, RemoteToLocalInOrder
<1>5. BetweenClients'
  BY <1>2 DEF HeldInv, BetweenClients, MainOnly, Listen, BindFails, GiveUp, Stimulated, WaitFails, Connected,
    ConnectFails, WaitAgain, Return
<1>6. QED
  BY <1>3, <1>4, <1>5 DEF HeldInv

LEMMA HeldAccept == HeldInv /\ Accept => HeldInv'
<1> SUFFICES ASSUME HeldInv, Accept PROVE HeldInv'
  OBVIOUS
<1>1. lbuf = <<>> /\ rbuf = <<>> /\ ~shut
  BY DEF HeldInv, FullInv, BetweenClients, Accept
<1>2. /\ pc' = "select" /\ ifds' = {} /\ f_local' = TRUE /\ f_remote' = TRUE
      /\ lbuf' = lbuf /\ rbuf' = rbuf /\ reason' = REASON_UNK /\ shut' = FALSE
      /\ lend' = "open" /\ lsent' = lread /\ ltaken' = Len(toLocal)
      /\ UNCHANGED <<rsent, rend, rtaken, lread, rread, toRemote, toLocal>>
  BY <1>1 DEF Accept, rpeer, streams
<1>3. TypeOK'
  <2>1. lread \in 0..MaxLocal /\ lread \in 0..lread /\ Len(toLocal) \in 0..Len(toLocal)
    BY LenProperties, RepeaterAssumption DEF HeldInv, TypeOK
  <2>2. QED
    BY <1>2, <2>1 DEF HeldInv, TypeOK, Reasons
<1>4. LocalToRemoteInOrder' /\ FullInv'
  BY <1>1, <1>2 DEF HeldInv, LocalToRemoteInOrder, FullInv, RemoteToLocalInOrder
<1>5. BetweenClients'
  BY <1>2 DEF BetweenClients, Accept
<1>6. QED
  BY <1>3, <1>4, <1>5 DEF HeldInv

\* Only the end of the local input of a session that is not held shuts the
\* connection down.
LEMMA ShutOnlyUnheld == Loop \/ Peers => (shut' => shut \/ ~Hold)
BY DEF Loop, Select, SelectFails, RecvRemote, ReadLocal, ReadData, ReadEOF, ReadFails,
  ReadNothing, SendRemote, WriteLocal, Peers, LocalWrites, LocalCloses, LocalTakes,
  RemoteWrites, RemoteCloses, RemoteResets, RemoteTakes, relay

LEMMA HeldRelay == ASSUME ~ShortIO PROVE HeldInv /\ Relay => HeldInv'
<1> SUFFICES ASSUME HeldInv, Relay PROVE HeldInv'
  OBVIOUS
<1>1. Loop /\ mpc = "relaying" /\ mpc' = mpc
  BY DEF Relay, main
<1>2. TypeOK' /\ LocalToRemoteInOrder' /\ FullInv'
  BY <1>1, TypeStep, OrderStep, FullStep DEF HeldInv, Next
<1>3. BetweenClients'
  BY <1>1, ShutOnlyUnheld DEF HeldInv, BetweenClients
<1>4. QED
  BY <1>2, <1>3 DEF HeldInv

LEMMA HeldEnvironment == ASSUME ~ShortIO PROVE HeldInv /\ Environment => HeldInv'
<1> SUFFICES ASSUME HeldInv, Environment PROVE HeldInv'
  OBVIOUS
<1>1. mpc' = mpc
  BY DEF Environment, ClientConnects, ClientAborts, StdinEnds, ClientActs, RemoteActs, main
<1>2. Peers \/ UNCHANGED vars
  BY DEF Environment, ClientConnects, ClientAborts, StdinEnds, ClientActs, RemoteActs, Peers
<1>3. UNCHANGED <<pc, shut>>
  BY <1>2 DEF Peers, LocalWrites, LocalCloses, LocalTakes, RemoteWrites, RemoteCloses,
    RemoteResets, RemoteTakes, relay, vars
<1>4. TypeOK' /\ LocalToRemoteInOrder' /\ FullInv'
  BY <1>2, TypeStep, OrderStep, FullStep DEF HeldInv, Next
<1>5. BetweenClients'
  BY <1>1, <1>3 DEF HeldInv, BetweenClients
<1>6. QED
  BY <1>4, <1>5 DEF HeldInv

LEMMA HeldStep == ASSUME ~ShortIO PROVE HeldInv /\ [ForwardNext]_fvars => HeldInv'
<1> SUFFICES ASSUME HeldInv, [ForwardNext]_fvars PROVE HeldInv'
  OBVIOUS
<1>1. CASE UNCHANGED fvars
  <2>1. UNCHANGED vars /\ mpc' = mpc
    BY <1>1 DEF fvars, main
  <2>2. UNCHANGED <<pc, shut>>
    BY <2>1 DEF vars, relay
  <2>3. TypeOK' /\ LocalToRemoteInOrder' /\ FullInv'
    BY <2>1, TypeStep, OrderStep, FullStep DEF HeldInv
  <2>4. QED
    BY <2>1, <2>2, <2>3 DEF HeldInv, BetweenClients
<1>2. QED
  BY <1>1, HeldMainOnly, HeldAccept, HeldRelay, HeldEnvironment
  DEF ForwardNext, Main, MainOnly

\* With whole sends and writes a session that is held for the next client loses
\* and repeats nothing, however many clients come and whenever they leave: what
\* stands in the buffers when do_repeater() starts again is nothing.
THEOREM SessionContinues == ASSUME ~ShortIO PROVE ForwardSpec => []HeldStreamsContinue
<1>1. HeldInv => HeldStreamsContinue
  BY DEF HeldInv, FullInv, HeldStreamsContinue
<1>2. QED
  BY <1>1, HeldInit, HeldStep, PTL DEF ForwardSpec

(***************************************************************************)
(* Types, and how many listening sockets there are.  A new one is made     *)
(* when a client has left, and every client that is accepted is another:   *)
(* so there is one more than clients at most.                              *)
(***************************************************************************)
MainTypeOK ==
  /\ mpc \in {"listen", "waiting", "accepting", "connecting", "relaying"} \cup Stopped
  /\ listeners \in 0..Cardinality(served) + 1 /\ sock \in 0..listeners
  /\ queue \in [1..MaxListeners -> Seq(Clients)]
  /\ client \in Clients \cup {NoClient}
  /\ served \subseteq Clients
  /\ stdin \in {"open", "eof"}

\* A client stands in one place of one queue until it is accepted.
Waits(s, i) == s \in 1..MaxListeners /\ i \in 1..Len(queue[s])
QueuedOnce ==
  \A s, i : Waits(s, i) =>
    /\ queue[s][i] \notin served
    /\ \A t, j : Waits(t, j) /\ queue[t][j] = queue[s][i] => t = s /\ j = i

Listening ==
  /\ mpc \in {"listen", "connecting", "relaying"} => listeners <= Cardinality(served)
  /\ mpc \in {"waiting", "accepting"} => sock >= 1

PortInv == MainTypeOK /\ QueuedOnce /\ Listening

LEMMA Counts ==
  ASSUME MainTypeOK
  PROVE  /\ IsFiniteSet(served) /\ Cardinality(served) \in Nat /\ listeners \in Nat /\ sock \in Nat
         /\ MaxListeners \in Nat /\ listeners <= Cardinality(served) + 1 /\ sock <= listeners
         /\ Cardinality(served) + 1 <= MaxListeners
<1>1. served \subseteq Clients /\ IsFiniteSet(Clients)
  BY ForwardingAssumption DEF MainTypeOK
<1>2. IsFiniteSet(served) /\ Cardinality(served) <= Cardinality(Clients)
  BY <1>1, FS_Subset
<1>3. Cardinality(served) \in Nat /\ Cardinality(Clients) \in Nat
  BY <1>1, <1>2, FS_CardinalityType
<1>4. QED
  BY <1>2, <1>3 DEF MainTypeOK, MaxListeners

LEMMA Queues ==
  ASSUME MainTypeOK, NEW s \in 1..MaxListeners
  PROVE  /\ queue[s] \in Seq(Clients) /\ Len(queue[s]) \in Nat
         /\ \A i \in 1..Len(queue[s]) : queue[s][i] \in Clients
BY LenProperties, ElementOfSeq DEF MainTypeOK

\* The steps that touch neither the queues nor the clients accepted.
LEMMA PortQuiet ==
  ASSUME PortInv, UNCHANGED <<queue, served>>, MainTypeOK', Listening'
  PROVE  PortInv'
BY DEF PortInv, QueuedOnce, Waits

LEMMA PortMain == PortInv /\ MainOnly => PortInv'
<1> SUFFICES ASSUME PortInv, MainOnly PROVE PortInv'
  OBVIOUS
<1>1. UNCHANGED <<queue, served>>
  BY DEF MainOnly, Listen, BindFails, GiveUp, Stimulated, WaitFails, Connected, ConnectFails, WaitAgain, Return
<1>2. CASE Listen
  <2>1. /\ listeners' = listeners + 1 /\ sock' = listeners + 1 /\ mpc' = "waiting"
        /\ listeners <= Cardinality(served) /\ UNCHANGED <<client, stdin>>
    BY <1>2 DEF Listen, PortInv, Listening
  <2>2. /\ listeners' \in 0..Cardinality(served) + 1 /\ sock' \in 0..listeners' /\ sock' >= 1
    BY <2>1, Counts DEF PortInv
  <2>3. MainTypeOK' /\ Listening'
    BY <1>1, <2>1, <2>2 DEF PortInv, MainTypeOK, Listening
  <2>4. QED BY <1>1, <2>3, PortQuiet
<1>3. CASE BindFails \/ GiveUp \/ WaitFails \/ Connected \/ ConnectFails \/ WaitAgain \/ Return
  <2>1. UNCHANGED <<listeners, sock, stdin>> /\ client' \in {client, NoClient}
    BY <1>3 DEF BindFails, GiveUp, Stimulated, WaitFails, Connected, ConnectFails, WaitAgain, Return
  <2>2. /\ mpc' \in {"listen", "relaying"} \cup Stopped
        /\ mpc' \in {"listen", "relaying"} => mpc \in {"connecting", "relaying"}
    BY <1>3 DEF BindFails, GiveUp, Stimulated, WaitFails, Connected, ConnectFails, WaitAgain, Return, Stopped
  <2>3. MainTypeOK'
    BY <1>1, <2>1, <2>2 DEF PortInv, MainTypeOK
  <2>4. Listening'
    BY <1>1, <2>1, <2>2 DEF PortInv, Listening, Stopped
  <2>5. QED BY <1>1, <2>3, <2>4, PortQuiet
<1>4. CASE Stimulated
  <2>1. mpc = "waiting" /\ mpc' = "accepting" /\ UNCHANGED <<listeners, sock, client, stdin>>
    BY <1>4 DEF Stimulated
  <2>2. MainTypeOK' /\ Listening'
    BY <1>1, <2>1 DEF PortInv, MainTypeOK, Listening
  <2>3. QED BY <1>1, <2>2, PortQuiet
<1>5. QED
  BY <1>2, <1>3, <1>4 DEF MainOnly

LEMMA PortAccept == PortInv /\ Accept => PortInv'
<1> SUFFICES ASSUME PortInv, Accept PROVE PortInv'
  OBVIOUS
<1> DEFINE q == queue[sock]  c == Head(q)
<1>1. /\ q # <<>> /\ client' = c /\ served' = served \cup {c}
      /\ queue' = [queue EXCEPT ![sock] = Tail(q)]
      /\ mpc' \in {"connecting", "relaying"}
      /\ UNCHANGED <<listeners, sock, stdin>>
  BY DEF Accept
<1>2. MainTypeOK /\ sock \in 1..MaxListeners
  BY Counts DEF PortInv, Listening, Accept
<1>3. /\ q \in Seq(Clients) /\ Len(q) \in Nat /\ Len(q) >= 1 /\ c = q[1] /\ c \in Clients
      /\ Tail(q) \in Seq(Clients) /\ Len(Tail(q)) = Len(q) - 1
      /\ \A i \in 1..Len(q) - 1 : Tail(q)[i] = q[i + 1]
  <2>1. q \in Seq(Clients)
    BY <1>2, Queues
  <2> HIDE DEF q
  <2>2. Len(q) \in Nat /\ Len(q) # 0
    BY <1>1, <2>1, EmptySeq
  <2>3. QED
    BY <1>1, <2>1, <2>2, HeadTailProperties, ElementOfSeq
<1>4. c \notin served
  <2>1. Waits(sock, 1)
    BY <1>2, <1>3 DEF Waits
  <2>2. QED BY <1>3, <2>1 DEF PortInv, QueuedOnce
<1>5. /\ \A s \in 1..MaxListeners : queue'[s] = IF s = sock THEN Tail(q) ELSE queue[s]
      /\ queue' \in [1..MaxListeners -> Seq(Clients)]
  BY <1>1, <1>2, <1>3 DEF MainTypeOK
<1> HIDE DEF q, c
<1>6. Cardinality(served') = Cardinality(served) + 1
  BY <1>1, <1>2, <1>4, Counts, FS_AddElement
<1>7. MainTypeOK'
  <2>1. listeners' \in 0..Cardinality(served)' + 1 /\ sock' \in 0..listeners'
    BY <1>1, <1>2, <1>6, Counts
  <2>2. QED BY <1>1, <1>2, <1>3, <1>5, <2>1 DEF MainTypeOK
<1>8. Listening'
  BY <1>1, <1>2, <1>6, Counts DEF Listening
<1>9. QueuedOnce'
  \* What stands behind the head moves up by one.
  <2> DEFINE place(s, i) == IF s = sock THEN i + 1 ELSE i
  <2>1. ASSUME NEW s, NEW i, Waits(s, i)'
        PROVE  /\ Waits(s, place(s, i)) /\ queue'[s][i] = queue[s][place(s, i)]
               /\ i \in Nat /\ (s = sock => place(s, i) # 1)
    <3>1. s \in 1..MaxListeners /\ i \in 1..Len(queue'[s])
      BY <2>1 DEF Waits
    <3>2. CASE s = sock
      <4>1. queue'[s] = Tail(q) /\ queue[s] = q /\ i \in 1..Len(q) - 1 /\ place(s, i) = i + 1
        BY <1>3, <1>5, <3>1, <3>2 DEF q
      <4>2. i + 1 \in 1..Len(q) /\ i \in Nat /\ i + 1 # 1
        BY <1>3, <4>1
      <4>3. QED BY <1>3, <3>1, <4>1, <4>2 DEF Waits
    <3>3. CASE s # sock
      <4>1. queue'[s] = queue[s] /\ place(s, i) = i
        BY <1>5, <3>1, <3>3
      <4>2. i \in Nat
        BY <3>1, <1>2, Queues, <4>1
      <4>3. QED BY <3>1, <3>3, <4>1, <4>2 DEF Waits
    <3>4. QED BY <3>2, <3>3
  <2>2. ASSUME NEW s, NEW i, Waits(s, i)' PROVE queue'[s][i] \notin served'
    <3>1. /\ Waits(s, place(s, i)) /\ queue'[s][i] = queue[s][place(s, i)]
          /\ i \in Nat /\ (s = sock => place(s, i) # 1)
      BY <2>1, <2>2
    <3>2. Waits(sock, 1) /\ queue[sock][1] = c
      BY <1>2, <1>3 DEF Waits, q
    <3>3. i \in Nat
      BY <2>2, <1>7, Queues DEF Waits, MainTypeOK
    <3>4. queue[s][place(s, i)] # c
      BY <3>1, <3>2, <3>3 DEF PortInv, QueuedOnce
    <3>5. queue'[s][i] # c /\ queue'[s][i] \notin served
      BY <3>1, <3>4 DEF PortInv, QueuedOnce
    <3>6. served' = served \cup {c}
      BY <1>1
    <3>7. QED BY <3>5, <3>6
  <2>3. ASSUME NEW s, NEW i, NEW t, NEW j, Waits(s, i)', Waits(t, j)', queue'[t][j] = queue'[s][i]
        PROVE  t = s /\ j = i
    <3>1. /\ Waits(s, place(s, i)) /\ Waits(t, place(t, j))
          /\ queue[t][place(t, j)] = queue[s][place(s, i)]
      BY <2>1, <2>3
    <3>2. t = s /\ place(t, j) = place(s, i)
      BY <3>1 DEF PortInv, QueuedOnce
    <3>3. i \in Int /\ j \in Int
      BY <2>3 DEF Waits
    <3>4. QED BY <3>2, <3>3
  <2>4. QED BY <2>2, <2>3 DEF QueuedOnce
<1>10. QED
  BY <1>7, <1>8, <1>9 DEF PortInv

LEMMA PortConnect == ASSUME NEW c \in Clients PROVE PortInv /\ ClientConnects(c) => PortInv'
<1> SUFFICES ASSUME PortInv, ClientConnects(c) PROVE PortInv'
  OBVIOUS
<1>1. PICK s0 \in 1..listeners : queue' = [queue EXCEPT ![s0] = Append(@, c)]
  BY DEF ClientConnects
<1>2. MainTypeOK /\ UNCHANGED <<mpc, listeners, sock, client, served, stdin>> /\ c \notin served
  BY DEF ClientConnects, PortInv
<1>3. s0 \in 1..MaxListeners
  BY <1>2, Counts
<1> DEFINE q == queue[s0]  last == Len(q) + 1
<1>4. /\ q \in Seq(Clients) /\ Len(q) \in Nat /\ Append(q, c) \in Seq(Clients)
      /\ Len(Append(q, c)) = last /\ Append(q, c)[last] = c
      /\ \A i \in 1..Len(q) : Append(q, c)[i] = q[i]
  <2>1. q \in Seq(Clients) /\ Len(q) \in Nat
    BY <1>2, <1>3, Queues
  <2> HIDE DEF q
  <2>2. QED BY <2>1, AppendProperties
<1>5. /\ \A s \in 1..MaxListeners : queue'[s] = IF s = s0 THEN Append(q, c) ELSE queue[s]
      /\ queue' \in [1..MaxListeners -> Seq(Clients)]
  BY <1>1, <1>2, <1>3, <1>4 DEF MainTypeOK
<1>6. \A s, i : Waits(s, i) => queue[s][i] # c
  <2>1. c \notin Queued /\ DOMAIN queue = 1..MaxListeners
    BY <1>2 DEF ClientConnects, MainTypeOK
  <2>2. ASSUME NEW s, NEW i, Waits(s, i) PROVE queue[s][i] \in Queued
    <3>1. s \in DOMAIN queue /\ i \in 1..Len(queue[s])
      BY <2>1, <2>2 DEF Waits
    <3>2. DOMAIN queue[s] = 1..Len(queue[s])
      BY <2>2, <1>2, Queues, LenProperties DEF Waits
    <3>3. QED BY <3>1, <3>2 DEF Queued
  <2>3. QED BY <2>1, <2>2
<1> HIDE DEF q
<1>7. ASSUME NEW s, NEW i, Waits(s, i)'
      PROVE  (s = s0 /\ i = last /\ queue'[s][i] = c) \/ (Waits(s, i) /\ queue'[s][i] = queue[s][i])
  <2>1. s \in 1..MaxListeners /\ i \in 1..Len(queue'[s])
    BY <1>7 DEF Waits
  <2>2. CASE s = s0
    <3>1. queue'[s] = Append(q, c) /\ queue[s] = q /\ i \in 1..last
      BY <1>4, <1>5, <2>1, <2>2 DEF q
    <3>2. i = last \/ i \in 1..Len(q)
      BY <1>4, <3>1
    <3>3. QED BY <1>4, <2>1, <2>2, <3>1, <3>2 DEF Waits
  <2>3. CASE s # s0
    BY <1>5, <2>1, <2>3 DEF Waits
  <2>4. QED BY <2>2, <2>3
<1>8. QueuedOnce'
  <2>1. ASSUME NEW s, NEW i, Waits(s, i)' PROVE queue'[s][i] \notin served'
    BY <1>2, <1>7, <2>1 DEF PortInv, QueuedOnce
  <2>2. ASSUME NEW s, NEW i, NEW t, NEW j, Waits(s, i)', Waits(t, j)', queue'[t][j] = queue'[s][i]
        PROVE  t = s /\ j = i
    <3>1. (s = s0 /\ i = last /\ queue'[s][i] = c) \/ (Waits(s, i) /\ queue'[s][i] = queue[s][i])
      BY <1>7, <2>2
    <3>2. (t = s0 /\ j = last /\ queue'[t][j] = c) \/ (Waits(t, j) /\ queue'[t][j] = queue[t][j])
      BY <1>7, <2>2
    <3>3. QED BY <1>6, <2>2, <3>1, <3>2 DEF PortInv, QueuedOnce
  <2>3. QED BY <2>1, <2>2 DEF QueuedOnce
<1>9. MainTypeOK' /\ Listening'
  BY <1>2, <1>5 DEF PortInv, MainTypeOK, Listening
<1>10. QED
  BY <1>8, <1>9 DEF PortInv

\* A client that leaves a queue gives up its place, and those behind it move up.
LEMMA PortAborts == PortInv /\ ClientAborts => PortInv'
<1> SUFFICES ASSUME PortInv, ClientAborts PROVE PortInv'
  OBVIOUS
<1>0. PICK s0 \in 1..listeners : \E i \in 1..Len(queue[s0]) :
        queue' = [queue EXCEPT ![s0] = RemoveAt(@, i)]
  BY DEF ClientAborts
<1>1. PICK k \in 1..Len(queue[s0]) : queue' = [queue EXCEPT ![s0] = RemoveAt(@, k)]
  BY <1>0
<1>2. MainTypeOK /\ UNCHANGED <<mpc, listeners, sock, client, served, stdin>>
  BY DEF ClientAborts, PortInv
<1>3. s0 \in 1..MaxListeners
  BY <1>2, Counts
<1> DEFINE q == queue[s0]  rest == RemoveAt(q, k)
           from(i) == IF i < k THEN i ELSE i + 1
<1>4. /\ q \in Seq(Clients) /\ Len(q) \in Nat /\ k \in 1..Len(q)
      /\ rest \in Seq(Clients) /\ Len(rest) = Len(q) - 1
      /\ \A i \in 1..Len(rest) : rest[i] = q[from(i)]
  <2>1. q \in Seq(Clients) /\ Len(q) \in Nat /\ k \in 1..Len(q)
    BY <1>1, <1>2, <1>3, Queues
  <2> HIDE DEF q
  <2> DEFINE a == SubSeq(q, 1, k - 1)  b == SubSeq(q, k + 1, Len(q))
  <2>2. /\ a \in Seq(Clients) /\ Len(a) = k - 1
        /\ \A i \in 1..k - 1 : a[i] = q[i]
    BY <2>1, SubSeqProperties
  <2>3. /\ b \in Seq(Clients) /\ Len(b) = Len(q) - k
        /\ \A i \in 1..Len(q) - k : b[i] = q[k + i]
    BY <2>1, SubSeqProperties
  <2> HIDE DEF a, b
  <2>4. rest = a \o b
    BY DEF RemoveAt, a, b
  <2> HIDE DEF rest
  <2>5. /\ rest \in Seq(Clients) /\ Len(rest) = Len(q) - 1
        /\ \A i \in 1..Len(rest) : rest[i] = IF i < k THEN a[i] ELSE b[i - (k - 1)]
    BY <2>1, <2>2, <2>3, <2>4, ConcatProperties
  <2>6. ASSUME NEW i \in 1..Len(rest) PROVE rest[i] = q[from(i)]
    <3>1. CASE i < k
      BY <2>1, <2>2, <2>5, <3>1
    <3>2. CASE ~(i < k)
      <4>1. i - (k - 1) \in 1..Len(q) - k /\ k + (i - (k - 1)) = i + 1
        BY <2>1, <2>5, <3>2
      <4>2. QED BY <2>3, <2>5, <3>2, <4>1
    <3>3. QED BY <3>1, <3>2
  <2>7. QED BY <2>1, <2>5, <2>6
<1>5. /\ \A s \in 1..MaxListeners : queue'[s] = IF s = s0 THEN rest ELSE queue[s]
      /\ queue' \in [1..MaxListeners -> Seq(Clients)]
  BY <1>1, <1>2, <1>3, <1>4 DEF MainTypeOK
<1> HIDE DEF q, rest
<1>6. QueuedOnce'
  <2> DEFINE place(s, i) == IF s = s0 THEN from(i) ELSE i
  <2>1. ASSUME NEW s, NEW i, Waits(s, i)'
        PROVE  Waits(s, place(s, i)) /\ queue'[s][i] = queue[s][place(s, i)] /\ i \in Int
    <3>1. s \in 1..MaxListeners /\ i \in 1..Len(queue'[s])
      BY <2>1 DEF Waits
    <3>2. CASE s = s0
      <4>1. queue'[s] = rest /\ queue[s] = q /\ i \in 1..Len(q) - 1
        BY <1>4, <1>5, <3>1, <3>2 DEF q
      <4>2. from(i) \in 1..Len(q) /\ i \in Int
        BY <1>4, <4>1
      <4>3. queue'[s][i] = queue[s][from(i)]
        BY <1>4, <4>1
      <4>4. QED BY <3>1, <3>2, <4>1, <4>2, <4>3 DEF Waits
    <3>3. CASE s # s0
      BY <1>5, <3>1, <3>3 DEF Waits
    <3>4. QED BY <3>2, <3>3
  <2>2. ASSUME NEW s, NEW i, Waits(s, i)' PROVE queue'[s][i] \notin served'
    BY <1>2, <2>1, <2>2 DEF PortInv, QueuedOnce
  <2>3. ASSUME NEW s, NEW i, NEW t, NEW j, Waits(s, i)', Waits(t, j)', queue'[t][j] = queue'[s][i]
        PROVE  t = s /\ j = i
    <3>1. /\ Waits(s, place(s, i)) /\ Waits(t, place(t, j))
          /\ queue[t][place(t, j)] = queue[s][place(s, i)] /\ i \in Int /\ j \in Int
      BY <2>1, <2>3
    <3>2. t = s /\ place(t, j) = place(s, i)
      BY <3>1 DEF PortInv, QueuedOnce
    <3>3. QED BY <1>4, <3>1, <3>2
  <2>4. QED BY <2>2, <2>3 DEF QueuedOnce
<1>7. MainTypeOK' /\ Listening'
  BY <1>2, <1>5 DEF PortInv, MainTypeOK, Listening
<1>8. QED
  BY <1>6, <1>7 DEF PortInv

LEMMA PortInit == ForwardInit => PortInv
<1> SUFFICES ASSUME ForwardInit PROVE PortInv
  OBVIOUS
<1>1. /\ mpc = "listen" /\ listeners = 0 /\ sock = 0 /\ client = NoClient /\ served = {}
      /\ queue = [s \in 1..MaxListeners |-> <<>>] /\ stdin = "open"
  BY DEF ForwardInit
<1>2. Cardinality(served) = 0
  BY <1>1, FS_EmptySet
<1>3. MainTypeOK /\ Listening
  <2>1. <<>> \in Seq(Clients)
    BY EmptySeq
  <2>2. queue \in [1..MaxListeners -> Seq(Clients)]
    BY <1>1, <2>1
  <2>3. QED BY <1>1, <1>2, <2>2 DEF MainTypeOK, Listening
<1>4. \A s, i : ~Waits(s, i)
  <2>1. \A s \in 1..MaxListeners : Len(queue[s]) = 0
    BY <1>1, EmptySeq
  <2>2. QED BY <2>1 DEF Waits
<1>5. QED
  BY <1>3, <1>4 DEF PortInv, QueuedOnce

LEMMA PortStep == PortInv /\ [ForwardNext]_fvars => PortInv'
<1>1. ASSUME PortInv, UNCHANGED main PROVE PortInv'
  BY <1>1 DEF main, PortInv, MainTypeOK, QueuedOnce, Waits, Listening
<1>2. ASSUME PortInv, StdinEnds PROVE PortInv'
  <2>1. MainTypeOK' /\ Listening' /\ UNCHANGED <<queue, served>>
    BY <1>2 DEF StdinEnds, PortInv, MainTypeOK, Listening
  <2>2. QED BY <1>2, <2>1, PortQuiet
<1>3. QED
  BY <1>1, <1>2, PortMain, PortAccept, PortConnect, PortAborts
  DEF ForwardNext, Main, MainOnly, Relay, Environment, ClientActs, RemoteActs, fvars

\* The repeater's own types; here sends and writes may be short.
LEMMA RelayTypes == TypeOK /\ [ForwardNext]_fvars => TypeOK'
<1> SUFFICES ASSUME TypeOK, [ForwardNext]_fvars PROVE TypeOK'
  OBVIOUS
<1>1. CASE Accept
  <2>1. /\ pc' = "select" /\ ifds' = {} /\ f_local' = TRUE /\ f_remote' = TRUE
        /\ lbuf' = <<>> /\ rbuf' = <<>> /\ reason' = REASON_UNK
        /\ lend' = "open" /\ lsent' = lread /\ ltaken' = Len(toLocal)
        /\ UNCHANGED <<shut, rsent, rend, rtaken, lread, rread, toRemote, toLocal>>
    BY <1>1 DEF Accept, rpeer, streams
  <2>2. lread \in 0..MaxLocal /\ lread \in 0..lread /\ Len(toLocal) \in 0..Len(toLocal)
    BY LenProperties, RepeaterAssumption DEF TypeOK
  <2>3. <<>> \in Seq(Bytes) /\ Len(<<>>) = 0 /\ 0 <= BufSize
    BY EmptySeq, RepeaterAssumption
  <2>4. QED
    BY <2>1, <2>2, <2>3 DEF TypeOK, Reasons
<1>2. CASE Relay
  BY <1>2, TypeStep DEF Relay, Next
<1>3. CASE MainOnly
  <2>1. UNCHANGED vars
    BY <1>3 DEF MainOnly, Listen, BindFails, GiveUp, Stimulated, WaitFails, Connected, ConnectFails, WaitAgain, Return
  <2>2. QED BY <2>1, TypeStep
<1>4. CASE Environment
  <2>1. Peers \/ UNCHANGED vars
    BY <1>4 DEF Environment, ClientConnects, ClientAborts, StdinEnds, ClientActs, RemoteActs, Peers
  <2>2. QED BY <2>1, TypeStep DEF Next
<1>5. CASE UNCHANGED fvars
  BY <1>5, TypeStep DEF fvars
<1>6. QED
  BY <1>1, <1>2, <1>3, <1>4, <1>5 DEF ForwardNext, Main, MainOnly

\* Listening sockets are never closed and pile up, but only by one for each
\* client that has been accepted, and every variable keeps its type.
THEOREM PortTypes == ForwardSpec => []ForwardTypeOK
<1>1. ForwardInit => TypeOK
  BY TypeInit DEF ForwardInit
<1>2. TypeOK /\ PortInv => ForwardTypeOK
  BY DEF PortInv, MainTypeOK, ForwardTypeOK
<1>3. QED
  BY <1>1, <1>2, PortInit, PortStep, RelayTypes, PTL DEF ForwardSpec
=============================================================================
