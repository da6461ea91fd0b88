----------------------------- MODULE Forwarding -----------------------------
(***************************************************************************)
(* Options -p and -P of connect: main() waits for a client of a local TCP  *)
(* port (accept_connection), opens and negotiates the connection to the    *)
(* remote, and runs do_repeater() between the two.  With -P (Hold) a       *)
(* repeater that ends because the client left is followed by another wait  *)
(* and another repeater on the same remote connection.                     *)
(*                                                                         *)
(* The repeater is module Repeater, whose local peer is the client being   *)
(* served: the bytes of successive clients are numbered in one stream.     *)
(* Connecting through the proxy is one step here; the negotiations have    *)
(* modules of their own.                                                   *)
(***************************************************************************)
EXTENDS Repeater, FiniteSets, SequencesExt

CONSTANTS
  Clients,    \* the programs that will connect to the local port
  NoClient,   \* none of them
  Win32       \* Winsock: SO_REUSEADDR lets a port have several listeners

ASSUME ForwardingAssumption ==
  /\ IsFiniteSet(Clients) /\ NoClient \notin Clients
  /\ Win32 \in BOOLEAN
  /\ ~Polling     \* the local end is a socket

VARIABLES
  mpc,        \* where main() is: "waiting" in select(), "accepting" in accept()
  listeners,  \* number of listening sockets the process has open
  sock,       \* the one accept_connection() waits on
  queue,      \* queue[s]: connections established on s, not yet accepted
  client,     \* the client being served
  served,     \* the clients accepted so far
  stdin       \* "open" or "eof"

main  == <<mpc, listeners, sock, queue, client, served, stdin>>
fvars == <<vars, main>>

Stopped == {"returned", "gave up", "failed"}
Alive   == mpc \notin Stopped /\ pc # "fatal"

\* Each listening socket but the first follows a client that has left.
MaxListeners == Cardinality(Clients) + 1
Backlog == 1

ForwardInit ==
  /\ Init
  /\ mpc = "listen" /\ listeners = 0 /\ sock = 0
  /\ queue = [s \in 1..MaxListeners |-> <<>>]
  /\ client = NoClient /\ served = {}
  /\ stdin = "open"

(***************************************************************************)
(* accept_connection()                                                     *)
(***************************************************************************)
\* Variant: makes its socket inside the loop that waits.
ListenEveryTurn ==
  /\ mpc \in {"listen", "waiting"}
  /\ listeners = 0 \/ Win32
  /\ listeners' = listeners + 1
  /\ sock' = listeners + 1
  /\ mpc' = "waiting"
  /\ UNCHANGED <<vars, queue, client, served, stdin>>

\* socket(), bind() and listen().  The socket of an earlier call is still
\* listening: sock is overwritten and never closed.
Listen ==
  /\ mpc = "listen"
  /\ listeners = 0 \/ Win32
  /\ listeners' = listeners + 1
  /\ sock' = listeners + 1
  /\ mpc' = "waiting"
  /\ UNCHANGED <<vars, queue, client, served, stdin>>

\* The port is taken: by a listener of this program, or by another program.
BindFails ==
  /\ mpc = "listen"
  /\ (listeners > 0 /\ ~Win32) \/ Faults
  /\ mpc' = "failed"
  /\ UNCHANGED <<vars, listeners, sock, queue, client, served, stdin>>

\* select() returns.  Standard input is looked at before the socket; other input
\* than its end is read and ignored.
GiveUp ==
  /\ mpc = "waiting"
  /\ stdin = "eof"
  /\ mpc' = "gave up"
  /\ UNCHANGED <<vars, listeners, sock, queue, client, served, stdin>>

\* Variant: the socket is looked at before standard input.
StimulatedFirst ==
  /\ mpc = "waiting"
  /\ queue[sock] # <<>>
  /\ mpc' = "accepting"
  /\ UNCHANGED <<vars, listeners, sock, queue, client, served, stdin>>

Stimulated ==
  /\ mpc = "waiting"
  /\ stdin = "open" /\ queue[sock] # <<>>
  /\ mpc' = "accepting"
  /\ UNCHANGED <<vars, listeners, sock, queue, client, served, stdin>>

\* select() or accept() fails: fatal().
WaitFails ==
  /\ mpc \in {"waiting", "accepting"}
  /\ Faults
  /\ mpc' = "failed"
  /\ UNCHANGED <<vars, listeners, sock, queue, client, served, stdin>>

\* accept() blocks until a connection is there, whatever select() has seen; for
\* the first client the remote is connected next, a later one goes straight to
\* do_repeater(), whose variables are initialised again.
Accept ==
  /\ mpc = "accepting"
  /\ queue[sock] # <<>>
  /\ client' = Head(queue[sock])
  /\ served' = served \cup {client'}
  /\ queue' = [queue EXCEPT ![sock] = Tail(@)]
  /\ mpc' = IF served = {} THEN "connecting" ELSE "relaying"
  /\ pc' = "select" /\ ifds' = {}
  /\ f_local' = TRUE /\ f_remote' = TRUE
  /\ lbuf' = <<>> /\ rbuf' = <<>>
  /\ reason' = REASON_UNK
  /\ lend' = "open" /\ lsent' = lread /\ ltaken' = Len(toLocal)
  /\ UNCHANGED <<shut, rpeer, streams, listeners, sock, stdin>>

(***************************************************************************)
(* main()                                                                  *)
(***************************************************************************)
Connected ==
  /\ mpc = "connecting"
  /\ mpc' = "relaying"
  /\ UNCHANGED <<vars, listeners, sock, queue, client, served, stdin>>

ConnectFails ==
  /\ mpc = "connecting"
  /\ Faults
  /\ mpc' = "failed"
  /\ UNCHANGED <<vars, listeners, sock, queue, client, served, stdin>>

Relay ==
  /\ mpc = "relaying"
  /\ Loop
  /\ UNCHANGED main

WaitAgain ==
  /\ mpc = "relaying" /\ pc = "done"
  /\ reason = REASON_CLOSED_BY_LOCAL /\ Hold
  /\ mpc' = "listen"
  /\ client' = NoClient
  /\ UNCHANGED <<vars, listeners, sock, queue, served, stdin>>

Return ==
  /\ mpc = "relaying" /\ pc = "done"
  /\ ~(reason = REASON_CLOSED_BY_LOCAL /\ Hold)
  /\ mpc' = "returned"
  /\ client' = NoClient
  /\ UNCHANGED <<vars, listeners, sock, queue, served, stdin>>

Main == Listen \/ BindFails \/ GiveUp \/ Stimulated \/ WaitFails \/ Accept
        \/ Connected \/ ConnectFails \/ Relay \/ WaitAgain \/ Return

(***************************************************************************)
(* The environment.                                                        *)
(***************************************************************************)
Queued == UNION {{queue[s][i] : i \in DOMAIN queue[s]} : s \in DOMAIN queue}

\* The system completes a connection to the port on one of its listeners; which
\* one it takes when there are several is not specified.
ClientConnects(c) ==
  /\ Alive
  /\ c \notin served \cup Queued
  /\ \E s \in 1..listeners :
       /\ Len(queue[s]) <= Backlog
       /\ queue' = [queue EXCEPT ![s] = Append(@, c)]
  /\ UNCHANGED <<vars, mpc, listeners, sock, client, served, stdin>>

\* A client leaves before it is accepted.  On some systems its connection then
\* leaves the queue (POSIX allows accept() to block after select() for this
\* reason); where it stays, accept() returns it and this step does not occur.
ClientAborts ==
  /\ Alive
  /\ \E s \in 1..listeners : \E i \in 1..Len(queue[s]) :
       queue' = [queue EXCEPT ![s] = RemoveAt(@, i)]
  /\ UNCHANGED <<vars, mpc, listeners, sock, client, served, stdin>>

StdinEnds ==
  /\ Alive
  /\ stdin = "open"
  /\ stdin' = "eof"
  /\ UNCHANGED <<vars, mpc, listeners, sock, queue, client, served>>

ClientActs ==
  /\ Alive /\ client # NoClient
  /\ LocalWrites \/ LocalCloses \/ LocalTakes
  /\ UNCHANGED main

RemoteActs ==
  /\ Alive /\ served # {} /\ mpc # "connecting"
  /\ RemoteWrites \/ RemoteCloses \/ RemoteResets \/ RemoteTakes
  /\ UNCHANGED main

Environment == (\E c \in Clients : ClientConnects(c)) \/ ClientAborts \/ StdinEnds
               \/ ClientActs \/ RemoteActs

ForwardNext == Main \/ Environment

ForwardSpec == ForwardInit /\ [][ForwardNext]_fvars

\* The process runs, and the two peers go on reading.
ForwardFairness ==
  /\ WF_fvars(Listen) /\ WF_fvars(BindFails) /\ WF_fvars(GiveUp)
  /\ WF_fvars(Stimulated) /\ WF_fvars(Accept)
  /\ WF_fvars(Connected) /\ WF_fvars(WaitAgain) /\ WF_fvars(Return)
  /\ WF_fvars(Relay /\ ~SelectFails)
  /\ WF_fvars(ClientActs /\ LocalTakes) /\ WF_fvars(RemoteActs /\ RemoteTakes)

ForwardFair == ForwardSpec /\ ForwardFairness

(***************************************************************************)
(* Properties.                                                             *)
(***************************************************************************)
\* Types, and a bound: listening sockets pile up by one for each client at most.
ForwardTypeOK ==
  /\ TypeOK
  /\ mpc \in {"listen", "waiting", "accepting", "connecting", "relaying"} \cup Stopped
  /\ listeners \in 0..Cardinality(served) + 1 /\ sock \in 0..listeners
  /\ queue \in [1..MaxListeners -> Seq(Clients)]
  /\ client \in Clients \cup {NoClient}
  /\ served \subseteq Clients
  /\ stdin \in {"open", "eof"}

\* "holding remote session": a held session is one stream each way, whoever is
\* the client.  Nothing the remote sent while a client left and the next one came
\* is lost or repeated, and the next client's bytes follow the last one's.
HeldStreamsContinue ==
  Alive => LocalToRemoteInOrder /\ RemoteToLocalInOrder

\* "To disconnect the remote session, send EOF to stdin": when standard input has
\* ended by the time a client leaves, the program ends, whoever stands in the
\* queues and comes or goes.  A wait that standard input ends between select() and
\* accept() is not among these: the program goes on to serve the client, or waits
\* in accept() when that has left.
StdinEndsSession ==
  (mpc = "relaying" /\ lend = "eof" /\ stdin = "eof") ~> ~Alive

\* A client that leaves ends its repeater, and the program then waits for the
\* next client or stops.
ClientLeavesRelay == (mpc = "relaying" /\ lend = "eof") ~> (mpc # "relaying" \/ ~Alive)

\* "The program repeats waiting the port with holding remote session": when a
\* client leaves, the program goes on to wait for the next one.
RepeatsWaiting ==
  [][ (mpc = "listen" /\ mpc' # "listen") => mpc' = "waiting" ]_fvars
=============================================================================
