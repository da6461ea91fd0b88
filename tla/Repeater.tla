------------------------------ MODULE Repeater ------------------------------
(***************************************************************************)
(* do_repeater() of connect.c: one thread that moves bytes from the local  *)
(* input to the socket of the relay (through lbuf) and from that socket to *)
(* the local output (through rbuf), until one of the ends closes.          *)
(*                                                                         *)
(* A turn of its loop is five steps: Select computes the read set, then    *)
(* RecvRemote, ReadLocal, SendRemote and WriteLocal run in this order and  *)
(* work from that set.  The two peers move between any two of them, so     *)
(* what select() reported can be out of date when it is used.              *)
(*                                                                         *)
(* The bytes of a stream are numbered from 1 as its producer writes them.  *)
(* A buffer is the sequence of the bytes [0, len) of the C array.          *)
(***************************************************************************)
EXTENDS Integers, Sequences

CONSTANTS
  BufSize,    \* sizeof(lbuf) = sizeof(rbuf), 1024 in the code
  MaxLocal,   \* bound: bytes the local peer writes
  MaxRemote,  \* bound: bytes the remote peer writes
  Window,     \* bytes a peer lets stand unread before a send to it blocks
  Hold,       \* f_hold_session, option -P
  Polling,    \* Win32 with a stdio local end: select() has a 10 ms timeout
  ShortIO,    \* send() and write() may take fewer bytes than offered
  Faults      \* system calls may fail and connections may be reset

ASSUME RepeaterAssumption ==
  /\ BufSize \in Nat \ {0}
  /\ Window \in Nat \ {0}
  /\ Window >= BufSize
  /\ MaxLocal \in Nat
  /\ MaxRemote \in Nat
  /\ {Hold, Polling, ShortIO, Faults} \subseteq BOOLEAN
  /\ Hold => ~Polling    \* -P makes the local end a socket

VARIABLES
  pc,         \* where the loop is; "done" has returned, "fatal" has exited
  ifds,       \* the descriptors set in ifds after select()
  f_local,    \* read local input more?
  f_remote,   \* read remote input more?
  lbuf,       \* read from the local input, not yet sent
  rbuf,       \* received from the remote, not yet written
  reason,     \* close_reason
  shut,       \* shutdown(remote, 1) has been called
  lsent,      \* number of bytes the local peer has written so far
  lread,      \* ... and how many of them the repeater has read
  lend,       \* the local input is "open" or "eof"
  rsent,      \* number of bytes the remote peer has written so far
  rread,      \* ... and how many of them the repeater has received
  rend,       \* the remote end is "open", "closed" or "reset"
  toRemote,   \* history: the bytes send() has taken, in order
  toLocal,    \* history: the bytes the local output has taken, in order
  rtaken,     \* how many of toRemote the remote peer has read
  ltaken      \* how many of toLocal the local peer has read

relay    == <<pc, ifds, f_local, f_remote, lbuf, rbuf, reason, shut>>
lpeer    == <<lsent, lend, ltaken>>
rpeer    == <<rsent, rend, rtaken>>
streams  == <<lread, rread, toRemote, toLocal>>
vars     == <<relay, lpeer, rpeer, streams>>

REASON_UNK              == "unknown"
REASON_ERROR            == "error"
REASON_CLOSED_BY_LOCAL  == "closed by local"
REASON_CLOSED_BY_REMOTE == "closed by remote"
Reasons == {REASON_UNK, REASON_ERROR, REASON_CLOSED_BY_LOCAL, REASON_CLOSED_BY_REMOTE}

Init ==
  /\ pc = "select" /\ ifds = {}
  /\ f_local = TRUE /\ f_remote = TRUE
  /\ lbuf = <<>> /\ rbuf = <<>>
  /\ reason = REASON_UNK /\ shut = FALSE
  /\ lsent = 0 /\ lread = 0 /\ lend = "open" /\ ltaken = 0
  /\ rsent = 0 /\ rread = 0 /\ rend = "open" /\ rtaken = 0
  /\ toRemote = <<>> /\ toLocal = <<>>

(***************************************************************************)
(* What the descriptors offer.                                             *)
(***************************************************************************)
Run(from, n) == [i \in 1..n |-> from + i]
LocalReady   == lsent > lread \/ lend = "eof"
RemoteReady  == rsent > rread \/ rend # "open"
WantLocal    == f_local /\ Len(lbuf) < BufSize
WantRemote   == f_remote /\ Len(rbuf) < BufSize
Smaller(m, n) == IF m < n THEN m ELSE n

\* The byte counts one send() or write() of n bytes may return when the
\* receiving peer has room for that many more.
Taken(n, room) == IF ShortIO THEN 1..Smaller(n, room)
                             ELSE IF n <= room THEN {n} ELSE {}

(***************************************************************************)
(* The loop.                                                               *)
(***************************************************************************)
Select ==
  /\ pc = "select"
  /\ LET ready == (IF WantRemote /\ RemoteReady THEN {"remote"} ELSE {})
                  \cup (IF (IF Polling THEN f_local ELSE WantLocal) /\ LocalReady
                        THEN {"local"} ELSE {})
     IN /\ ready # {} \/ (Polling /\ WantLocal)
        /\ Polling /\ ~WantLocal => "remote" \in ready
        /\ ifds' = ready
  /\ pc' = "recv"
  /\ UNCHANGED <<f_local, f_remote, lbuf, rbuf, reason, shut, lpeer, rpeer, streams>>

SelectFails ==
  /\ pc = "select"
  /\ Faults
  /\ reason' = REASON_ERROR
  /\ pc' = "done"
  /\ UNCHANGED <<ifds, f_local, f_remote, lbuf, rbuf, shut, lpeer, rpeer, streams>>

RemoteIsSet == "remote" \in ifds /\ Len(rbuf) < BufSize

\* Variant: offers recv() the whole buffer instead of what is left of it.
RecvDataWholeBuffer ==
  /\ RemoteIsSet
  /\ rend # "reset"
  /\ \E n \in 1..Smaller(rsent - rread, BufSize) :
       /\ rbuf' = rbuf \o Run(rread, n)
       /\ rread' = rread + n
  /\ pc' = "read"
  /\ UNCHANGED <<f_local, f_remote, reason>>

RecvData ==
  /\ RemoteIsSet
  /\ rend # "reset"
  /\ \E n \in 1..Smaller(rsent - rread, BufSize - Len(rbuf)) :
       /\ rbuf' = rbuf \o Run(rread, n)
       /\ rread' = rread + n
  /\ pc' = "read"
  /\ UNCHANGED <<f_local, f_remote, reason>>

\* Variant: the end of the remote leaves f_local alone.
RecvEndKeepsLocal ==
  /\ RemoteIsSet
  /\ rend = "reset" \/ (rend = "closed" /\ rread = rsent)
  /\ reason' = REASON_CLOSED_BY_REMOTE
  /\ f_remote' = FALSE
  /\ pc' = "read"
  /\ UNCHANGED <<rbuf, rread, f_local>>

RecvEnd ==
  /\ RemoteIsSet
  /\ rend = "reset" \/ (rend = "closed" /\ rread = rsent)
  /\ reason' = REASON_CLOSED_BY_REMOTE
  /\ f_remote' = FALSE
  /\ f_local' = FALSE
  /\ pc' = "read"
  /\ UNCHANGED <<rbuf, rread>>

RecvFails ==
  /\ RemoteIsSet
  /\ Faults
  /\ pc' = "fatal"
  /\ UNCHANGED <<rbuf, rread, f_local, f_remote, reason>>

RecvNothing ==
  /\ ~RemoteIsSet
  /\ pc' = "read"
  /\ UNCHANGED <<rbuf, rread, f_local, f_remote, reason>>

RecvRemote ==
  /\ pc = "recv"
  /\ RecvData \/ RecvEnd \/ RecvFails \/ RecvNothing
  /\ UNCHANGED <<ifds, lbuf, shut, lpeer, rpeer, lread, toRemote, toLocal>>

\* The read does not look at f_local again: RecvEnd may have cleared it.
LocalIsSet == "local" \in ifds /\ Len(lbuf) < BufSize

ReadData ==
  /\ LocalIsSet
  /\ \E n \in 1..Smaller(lsent - lread, BufSize - Len(lbuf)) :
       /\ lbuf' = lbuf \o Run(lread, n)
       /\ lread' = lread + n
  /\ pc' = "send"
  /\ UNCHANGED <<f_local, reason, shut>>

\* Variant: goes on reading a local input that has ended.
ReadEOFKeepsReading ==
  /\ LocalIsSet
  /\ lend = "eof" /\ lread = lsent
  /\ shut' = (shut \/ ~Hold)
  /\ reason' = REASON_CLOSED_BY_LOCAL
  /\ pc' = "send"
  /\ UNCHANGED <<lbuf, lread, f_local>>

ReadEOF ==
  /\ LocalIsSet
  /\ lend = "eof" /\ lread = lsent
  /\ shut' = (shut \/ ~Hold)
  /\ f_local' = FALSE
  /\ reason' = REASON_CLOSED_BY_LOCAL
  /\ pc' = "send"
  /\ UNCHANGED <<lbuf, lread>>

ReadFails ==
  /\ LocalIsSet
  /\ Faults
  /\ IF Hold
     THEN /\ f_local' = FALSE
          /\ reason' = REASON_CLOSED_BY_LOCAL
          /\ pc' = "send"
     ELSE /\ pc' = "fatal"
          /\ UNCHANGED <<f_local, reason>>
  /\ UNCHANGED <<lbuf, lread, shut>>

ReadNothing ==
  /\ ~LocalIsSet
  /\ pc' = "send"
  /\ UNCHANGED <<lbuf, lread, f_local, reason, shut>>

ReadLocal ==
  /\ pc = "read"
  /\ ReadData \/ ReadEOF \/ ReadFails \/ ReadNothing
  /\ UNCHANGED <<ifds, f_remote, rbuf, lpeer, rpeer, rread, toRemote, toLocal>>

\* After shutdown(remote, 1), and after a reset, send() returns -1.
SendFails ==
  /\ lbuf # <<>>
  /\ shut \/ rend = "reset" \/ Faults
  /\ pc' = "fatal"
  /\ UNCHANGED <<lbuf, toRemote>>

\* Variant: moves the rest to the top on the condition the other direction has.
SendDataWrongMove ==
  /\ lbuf # <<>>
  /\ ~shut /\ rend # "reset"
  /\ \E n \in Taken(Len(lbuf), Window - (Len(toRemote) - rtaken)) :
       /\ toRemote' = toRemote \o SubSeq(lbuf, 1, n)
       /\ lbuf' = IF n < Len(lbuf) - n THEN SubSeq(lbuf, n + 1, Len(lbuf))
                                       ELSE SubSeq(lbuf, 1, Len(lbuf) - n)
  /\ pc' = "write"

\* Variant: does not take what was sent off lbuf_len.
SendDataAgain ==
  /\ lbuf # <<>>
  /\ ~shut /\ rend # "reset"
  /\ \E n \in Taken(Len(lbuf), Window - (Len(toRemote) - rtaken)) :
       toRemote' = toRemote \o SubSeq(lbuf, 1, n)
  /\ pc' = "write"
  /\ UNCHANGED lbuf

SendData ==
  /\ lbuf # <<>>
  /\ ~shut /\ rend # "reset"
  /\ \E n \in Taken(Len(lbuf), Window - (Len(toRemote) - rtaken)) :
       /\ toRemote' = toRemote \o SubSeq(lbuf, 1, n)
       /\ lbuf' = SubSeq(lbuf, n + 1, Len(lbuf))
  /\ pc' = "write"

\* Variant: saves up small pieces and sends full buffers only.
SendNothingUntilFull ==
  /\ Len(lbuf) < BufSize
  /\ pc' = "write"
  /\ UNCHANGED <<lbuf, toRemote>>

SendNothing ==
  /\ lbuf = <<>>
  /\ pc' = "write"
  /\ UNCHANGED <<lbuf, toRemote>>

SendRemote ==
  /\ pc = "send"
  /\ SendData \/ SendFails \/ SendNothing
  /\ UNCHANGED <<ifds, f_local, f_remote, rbuf, reason, shut, lpeer, rpeer,
                 lread, rread, toLocal>>

\* rbuf after a write of n bytes: rbuf_len is already the length that is left
\* when the code compares len with it, so the rest moves to the top of the
\* buffer only when it is longer than what was written.
AfterWrite(n) ==
  LET left == Len(rbuf) - n
  IN IF n < left THEN SubSeq(rbuf, n + 1, Len(rbuf)) ELSE SubSeq(rbuf, 1, left)

\* The tail of the loop: a held session leaves at once when the local input has
\* ended, closing local_out; otherwise the loop condition decides.
\* Variant: goes on only while both ends are open.
NextTurnBoth ==
  IF ~f_local /\ Hold
  THEN pc' = "done" /\ f_remote' = FALSE
  ELSE /\ pc' = IF f_local /\ f_remote THEN "select" ELSE "done"
       /\ UNCHANGED f_remote

NextTurn ==
  IF ~f_local /\ Hold
  THEN pc' = "done" /\ f_remote' = FALSE
  ELSE /\ pc' = IF f_local \/ f_remote THEN "select" ELSE "done"
       /\ UNCHANGED f_remote

WriteData ==
  /\ rbuf # <<>>
  /\ \E n \in Taken(Len(rbuf), Window - (Len(toLocal) - ltaken)) :
       /\ toLocal' = toLocal \o SubSeq(rbuf, 1, n)
       /\ rbuf' = AfterWrite(n)
  /\ NextTurn

WriteFails ==
  /\ rbuf # <<>>
  /\ Faults
  /\ pc' = "fatal"
  /\ UNCHANGED <<rbuf, toLocal, f_remote>>

\* Variant: saves up small pieces and writes full buffers only.
WriteNothingUntilFull ==
  /\ Len(rbuf) < BufSize
  /\ NextTurn
  /\ UNCHANGED <<rbuf, toLocal>>

WriteNothing ==
  /\ rbuf = <<>>
  /\ NextTurn
  /\ UNCHANGED <<rbuf, toLocal>>

WriteLocal ==
  /\ pc = "write"
  /\ WriteData \/ WriteFails \/ WriteNothing
  /\ UNCHANGED <<ifds, f_local, lbuf, reason, shut, lpeer, rpeer, lread, rread, toRemote>>

Loop == Select \/ SelectFails \/ RecvRemote \/ ReadLocal \/ SendRemote \/ WriteLocal

(***************************************************************************)
(* The peers.                                                              *)
(***************************************************************************)
LocalWrites ==
  /\ lend = "open" /\ lsent < MaxLocal
  /\ lsent' = lsent + 1
  /\ UNCHANGED <<relay, lend, ltaken, rpeer, streams>>

LocalCloses ==
  /\ lend = "open"
  /\ lend' = "eof"
  /\ UNCHANGED <<relay, lsent, ltaken, rpeer, streams>>

LocalTakes ==
  /\ ltaken < Len(toLocal)
  /\ ltaken' = ltaken + 1
  /\ UNCHANGED <<relay, lsent, lend, rpeer, streams>>

RemoteWrites ==
  /\ rend = "open" /\ rsent < MaxRemote
  /\ rsent' = rsent + 1
  /\ UNCHANGED <<relay, rend, rtaken, lpeer, streams>>

RemoteCloses ==
  /\ rend = "open"
  /\ rend' = "closed"
  /\ UNCHANGED <<relay, rsent, rtaken, lpeer, streams>>

RemoteResets ==
  /\ Faults
  /\ rend # "reset"
  /\ rend' = "reset"
  /\ UNCHANGED <<relay, rsent, rtaken, lpeer, streams>>

RemoteTakes ==
  /\ rtaken < Len(toRemote)
  /\ rtaken' = rtaken + 1
  /\ UNCHANGED <<relay, rsent, rend, lpeer, streams>>

Peers == LocalWrites \/ LocalCloses \/ LocalTakes
         \/ RemoteWrites \/ RemoteCloses \/ RemoteResets \/ RemoteTakes

Next == Loop \/ Peers

Spec == Init /\ [][Next]_vars

\* The operating system runs the thread, and each peer goes on reading.  No
\* fairness makes a peer write or close, and a fault never has to happen.
Fairness ==
  /\ WF_vars(Select) /\ WF_vars(RecvRemote) /\ WF_vars(ReadLocal)
  /\ WF_vars(SendRemote) /\ WF_vars(WriteLocal)
  /\ WF_vars(LocalTakes) /\ WF_vars(RemoteTakes)

FairSpec == Spec /\ Fairness

(***************************************************************************)
(* Properties.                                                             *)
(***************************************************************************)
Bytes == Nat \ {0}

TypeOK ==
  /\ pc \in {"select", "recv", "read", "send", "write", "done", "fatal"}
  /\ ifds \subseteq {"local", "remote"}
  /\ {f_local, f_remote, shut} \subseteq BOOLEAN
  /\ lbuf \in Seq(Bytes) /\ Len(lbuf) <= BufSize
  /\ rbuf \in Seq(Bytes) /\ Len(rbuf) <= BufSize
  /\ reason \in Reasons
  /\ lsent \in 0..MaxLocal /\ lread \in 0..lsent /\ lend \in {"open", "eof"}
  /\ rsent \in 0..MaxRemote /\ rread \in 0..rsent
  /\ rend \in {"open", "closed", "reset"}
  /\ toRemote \in Seq(Bytes) /\ rtaken \in 0..Len(toRemote)
  /\ toLocal \in Seq(Bytes) /\ ltaken \in 0..Len(toLocal)

Ended == pc \in {"done", "fatal"}

\* What send() has taken, followed by what still stands in lbuf, is exactly what
\* was read from the local input: no byte is lost, repeated or reordered on the
\* way to the remote, however few bytes a send() takes.
LocalToRemoteInOrder == toRemote \o lbuf = Run(0, lread)

\* The same of the bytes on their way to the local output.
RemoteToLocalInOrder == toLocal \o rbuf = Run(0, rread)

\* Whenever the loop waits in select() the remote is in its read set: the end of
\* the remote is never left unnoticed, and the set is never empty (which blocks
\* for ever on POSIX and is WSAEINVAL on Winsock).  So no turn may end with
\* f_remote cleared or with rbuf full.
RemoteAlwaysWatched == pc = "select" => WantRemote

\* The write side of the connection is shut down only when every byte that was
\* read from the local input has been sent: a later send() would fail.
ShutdownAfterLastByte == shut => toRemote = Run(0, lread) /\ lread = lsent

\* A repeater that ends because the remote closed has written every byte the
\* remote sent before it closed.
RemoteStreamComplete ==
  (pc = "done" /\ reason = REASON_CLOSED_BY_REMOTE /\ rend = "closed")
     => toLocal = Run(0, rsent)

\* Half close: without -P, the end of the local input does not end the session,
\* the repeater returns only once the remote has closed or select() has failed.
HalfCloseKeepsRelaying ==
  [][ (pc # "done" /\ pc' = "done" /\ ~Hold)
        => rend # "open" \/ reason' = REASON_ERROR ]_vars

\* Every byte a peer writes while the connection stands reaches the other peer,
\* or the repeater ends.
LocalByteDelivered ==
  \A n \in 1..MaxLocal : (lsent >= n) ~> (Len(toRemote) >= n \/ Ended)
RemoteByteDelivered ==
  \A n \in 1..MaxRemote : (rsent >= n) ~> (Len(toLocal) >= n \/ Ended)

\* The end of the remote ends the repeater, whatever the local peer does.
RemoteEndEnds == (rend # "open") ~> Ended

\* The repeater keeps the contract of Duplex: whatever the interleaving, it is a
\* pair of bounded first-in first-out pipes that ends complete or is broken off.
Contract == INSTANCE Duplex WITH
  Dir     <- {"up", "down"},
  Cap     <- BufSize,
  entered <- [d \in {"up", "down"} |-> IF d = "up" THEN lread ELSE rread],
  left    <- [d \in {"up", "down"} |-> IF d = "up" THEN toRemote ELSE toLocal],
  state   <- IF pc = "fatal" \/ (pc = "done" /\ reason = REASON_ERROR) THEN "broken"
             ELSE IF pc = "done" THEN "finished" ELSE "running"
ImplementsDuplex == Contract!Spec
=============================================================================
