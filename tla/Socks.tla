------------------------------- MODULE Socks -------------------------------
(***************************************************************************)
(* Connecting through a SOCKS server: main(), begin_socks5_relay() and     *)
(* begin_socks4_relay() of connect.c.  The program sends a request and     *)
(* waits for as many bytes as the answer has (atomic_in), stage by stage;  *)
(* the answers arrive in pieces of any length, and the first bytes of the  *)
(* target may follow the last one at once.                                 *)
(***************************************************************************)
EXTENDS Integers, Sequences

CONSTANTS
  Versions,     \* the protocol versions, of {4, 5}
  Resolves,     \* the ways to resolve, of Resolve
  AuthLists,    \* the methods offered: -a, $SOCKS5_AUTH or the default
  DestHost,     \* the destination, a sequence of bytes ...
  DestAddr,     \* ... its address, as four bytes ...
  DestPort,     \* ... and the port
  User,         \* relay_user, a sequence of bytes
  Password,     \* a sequence of bytes
  NameLengths,  \* how long a name may be in an answer: buf[256] has room for 249 bytes
  Tunnel,       \* what the target sends first
  Timer,        \* -w, in a program that is not built for Win32
  Faults        \* connections are refused, closed or reset; a send fails

RESOLVE_LOCAL  == "local"
RESOLVE_REMOTE == "remote"
RESOLVE_BOTH   == "both"
Resolve == {RESOLVE_LOCAL, RESOLVE_REMOTE, RESOLVE_BOTH}

SOCKS5_AUTH_REJECT   == 255
SOCKS5_AUTH_NOAUTH   == 0
SOCKS5_AUTH_USERPASS == 2
SOCKS5_REP_SUCCEEDED == 0
SOCKS4_REP_SUCCEEDED == 90

Byte == 0..255
Word == 0..256 * 256 - 1
AnyAddr == <<0, 0, 0, 0>>

ASSUME SocksAssumption ==
  /\ Versions \subseteq {4, 5} /\ Resolves \subseteq Resolve
  /\ \A l \in AuthLists : l \in Seq(Byte) /\ Len(l) \in 1..10
  /\ DestHost \in Seq(Byte \ {0}) /\ Len(DestHost) \in 1..200
  /\ DestAddr \in [1..4 -> Byte] /\ DestAddr # AnyAddr
  /\ DestPort \in Word
  /\ User \in Seq(Byte \ {0}) /\ Len(User) \in 0..39
  /\ Password \in Seq(Byte \ {0}) /\ Len(Password) \in Byte
  /\ NameLengths \subseteq 0..249
  /\ Tunnel \in Seq(Byte)
  /\ {Timer, Faults} \subseteq BOOLEAN

VARIABLES
  mpc,           \* where the program is
  socks_version, socks_resolve, auth_list,   \* the options
  resolvable,    \* gethostbyname() knows DestHost
  dest_addr,
  need,          \* bytes of the bound address still to come
  out,           \* the last message sent
  owed,          \* the answer the server owes to it
  reply,         \* all that the server sends on the connection ...
  header,        \* ... how much of it is the server's own
  arrived,       \* ... how much has arrived
  pos,           \* ... and how much has been read
  peer           \* "none", "open", "closed" or "reset"

options == <<socks_version, socks_resolve, auth_list, resolvable>>
server  == <<reply, header, arrived, peer>>
vars == <<mpc, options, dest_addr, need, out, owed, server, pos>>

Waiting == {"method", "auth", "reply", "length", "address", "reply4"}
Over    == {"relaying", "failed", "timed out"}

Init ==
  /\ mpc = "open"
  /\ socks_version \in Versions /\ socks_resolve \in Resolves
  /\ auth_list \in AuthLists /\ resolvable \in BOOLEAN
  /\ dest_addr = AnyAddr
  /\ need = 0 /\ out = <<>> /\ owed = "none"
  /\ reply = <<>> /\ header = 0 /\ arrived = 0 /\ pos = 0 /\ peer = "none"

(***************************************************************************)
(* main()                                                                  *)
(***************************************************************************)
OpenConnection ==
  /\ mpc = "open"
  /\ mpc' = "resolve" /\ peer' = "open"
  /\ UNCHANGED <<options, dest_addr, need, out, owed, reply, header, arrived, pos>>

OpenFails ==
  /\ mpc = "open" /\ Faults
  /\ mpc' = "failed"
  /\ UNCHANGED <<options, dest_addr, need, out, owed, server, pos>>

LocalResolve ==
  /\ mpc = "resolve"
  /\ socks_resolve = RESOLVE_LOCAL
  /\ IF resolvable THEN mpc' = "begin" /\ dest_addr' = DestAddr
                   ELSE mpc' = "failed" /\ UNCHANGED dest_addr
  /\ UNCHANGED <<options, need, out, owed, server, pos>>

LeaveUnresolved ==
  /\ mpc = "resolve"
  /\ socks_resolve # RESOLVE_LOCAL
  /\ mpc' = "begin"
  /\ UNCHANGED <<options, dest_addr, need, out, owed, server, pos>>

(***************************************************************************)
(* atomic_out() and atomic_in()                                            *)
(***************************************************************************)
Send(message, answer) ==
  /\ out' = message /\ owed' = answer
  /\ UNCHANGED <<options, dest_addr, need, server, pos>>

Sending == {"begin", "userpass", "connect"}

SendFails ==
  /\ mpc \in Sending /\ Faults
  /\ mpc' = "failed"
  /\ UNCHANGED <<options, dest_addr, need, out, owed, server, pos>>

Received(n) == SubSeq(reply, pos + 1, pos + n)

\* Variant: does not call recv() again for the rest.
InOnce(n) ==
  /\ peer # "reset" /\ arrived > pos
  /\ pos' = pos + n
  /\ UNCHANGED <<options, dest_addr, out, owed, server>>

In(n) ==
  /\ peer # "reset" /\ arrived >= pos + n
  /\ pos' = pos + n
  /\ UNCHANGED <<options, dest_addr, out, owed, server>>

Length(stage) == CASE stage \in {"method", "auth"} -> 2
                   [] stage = "reply" -> 4
                   [] stage = "reply4" -> 8
                   [] stage = "length" -> 1
                   [] stage = "address" -> need

\* Variant: the end of the stream is no error.
InFailsOnReset == mpc \in Waiting /\ peer = "reset"

InFails == mpc \in Waiting /\ (peer = "reset" \/ (peer = "closed" /\ arrived < pos + Length(mpc)))

Fatal ==
  /\ InFails
  /\ mpc' = "failed"
  /\ UNCHANGED <<options, dest_addr, need, out, owed, server, pos>>

(***************************************************************************)
(* begin_socks5_relay()                                                    *)
(***************************************************************************)
Port == <<DestPort \div 256, DestPort % 256>>

Greet5 ==
  /\ mpc = "begin" /\ socks_version = 5
  /\ mpc' = "method"
  /\ Send(<<5, Len(auth_list)>> \o auth_list, "method")

Method ==
  /\ mpc = "method"
  /\ In(2)
  /\ LET b == Received(2)
     IN mpc' = IF b[1] # 5 THEN "failed"
               ELSE CASE b[2] = SOCKS5_AUTH_NOAUTH -> "connect"
                      [] b[2] = SOCKS5_AUTH_USERPASS -> "userpass"
                      [] OTHER -> "failed"
  /\ UNCHANGED need

\* socks5_do_auth_userpass()
UserPass ==
  /\ mpc = "userpass"
  /\ mpc' = "auth"
  /\ Send(<<1, Len(User)>> \o User \o <<Len(Password)>> \o Password, "auth")

Auth ==
  /\ mpc = "auth"
  /\ In(2)
  /\ mpc' = IF Received(2)[2] = 0 THEN "connect" ELSE "failed"
  /\ UNCHANGED need

Dest5 == IF dest_addr = AnyAddr THEN <<3, Len(DestHost)>> \o DestHost
                                ELSE <<1>> \o dest_addr

Connect5 ==
  /\ mpc = "connect"
  /\ mpc' = "reply"
  /\ Send(<<5, 1, 0>> \o Dest5 \o Port, "reply")

\* The answer goes on with the bound address; one of an unknown type is taken to
\* have none.
Reply ==
  /\ mpc = "reply"
  /\ In(4)
  /\ LET b == Received(4)
     IN IF b[2] # SOCKS5_REP_SUCCEEDED THEN mpc' = "failed" /\ UNCHANGED need
        ELSE CASE b[4] = 1 -> mpc' = "address" /\ need' = 4 + 2
               [] b[4] = 3 -> mpc' = "length" /\ UNCHANGED need
               [] b[4] = 4 -> mpc' = "address" /\ need' = 16 + 2
               [] OTHER    -> mpc' = "relaying" /\ UNCHANGED need

\* Variant: forgets the port behind the name.
AfterName(length) == length

NameAndPort(length) == length + 2

NameLength ==
  /\ mpc = "length"
  /\ In(1)
  /\ mpc' = "address"
  /\ need' = NameAndPort(Received(1)[1])

Address ==
  /\ mpc = "address"
  /\ In(need)
  /\ mpc' = "relaying"
  /\ UNCHANGED need

(***************************************************************************)
(* begin_socks4_relay()                                                    *)
(***************************************************************************)
\* Variant: an unresolved destination is left at 0.0.0.0.
Dest4Zero == dest_addr

\* 0.0.0.1 tells a server of version 4a that a name follows the user.
Dest4 == IF dest_addr = AnyAddr THEN <<0, 0, 0, 1>> ELSE dest_addr

Connect4 ==
  /\ mpc = "begin" /\ socks_version = 4
  /\ mpc' = "reply4"
  /\ Send(<<4, 1>> \o Port \o Dest4 \o User \o <<0>>
            \o (IF dest_addr = AnyAddr THEN DestHost \o <<0>> ELSE <<>>),
          "reply4")

Reply4 ==
  /\ mpc = "reply4"
  /\ In(8)
  /\ mpc' = IF Received(8)[2] = SOCKS4_REP_SUCCEEDED THEN "relaying" ELSE "failed"
  /\ UNCHANGED need

\* sig_timeout()
TimedOut ==
  /\ Timer
  /\ mpc \notin Over
  /\ mpc' = "timed out"
  /\ UNCHANGED <<options, dest_addr, need, out, owed, server, pos>>

Program ==
  \/ OpenConnection \/ OpenFails \/ LocalResolve \/ LeaveUnresolved
  \/ SendFails \/ Fatal
  \/ Greet5 \/ Method \/ UserPass \/ Auth \/ Connect5
  \/ Reply \/ NameLength \/ Address
  \/ Connect4 \/ Reply4

(***************************************************************************)
(* The server.                                                             *)
(***************************************************************************)
Zeros(n) == [i \in 1..n |-> 0]

Methods == {auth_list[i] : i \in DOMAIN auth_list} \cup {SOCKS5_AUTH_REJECT}

\* The bound address of an answer: its type, what it is, and the port.
Bound == {<<1>> \o Zeros(4 + 2), <<4>> \o Zeros(16 + 2)}
           \cup {<<3, n>> \o Zeros(n + 2) : n \in NameLengths}

Answers ==
  CASE owed = "method" -> {<<5, m>> : m \in Methods}
    [] owed = "auth"   -> {<<1, status>> : status \in {0, 1}}
    [] owed = "reply"  -> UNION {{<<5, code, 0>> \o a : a \in Bound} : code \in {SOCKS5_REP_SUCCEEDED, 5}}
    [] owed = "reply4" -> {<<0, code>> \o Zeros(6) : code \in {SOCKS4_REP_SUCCEEDED, 91}}

\* A granted request is an answer that the target's own bytes follow.
Answer ==
  /\ mpc \in Waiting /\ peer = "open" /\ owed # "none"
  /\ \E a \in Answers :
       /\ reply' = reply \o a \o (IF owed \in {"reply", "reply4"} THEN Tunnel ELSE <<>>)
       /\ header' = Len(reply) + Len(a)
  /\ owed' = "none"
  /\ UNCHANGED <<mpc, options, dest_addr, need, out, arrived, pos, peer>>

Arrive ==
  /\ mpc \notin Over /\ peer = "open"
  /\ \E n \in arrived + 1..Len(reply) : arrived' = n
  /\ UNCHANGED <<mpc, options, dest_addr, need, out, owed, reply, header, pos, peer>>

ServerLeaves ==
  /\ Faults
  /\ mpc \notin Over /\ peer = "open"
  /\ peer' \in {"closed", "reset"}
  /\ UNCHANGED <<mpc, options, dest_addr, need, out, owed, reply, header, arrived, pos>>

Next == Program \/ TimedOut \/ Answer \/ Arrive \/ ServerLeaves

Spec == Init /\ [][Next]_vars

\* The program runs, and the server answers unless it leaves.
FairSpec == Spec /\ WF_vars(Program) /\ WF_vars(Answer) /\ WF_vars(Arrive)

(***************************************************************************)
(* Properties.                                                             *)
(***************************************************************************)
\* Types; what has been read has arrived.
TypeOK ==
  /\ mpc \in {"open", "resolve"} \cup Sending \cup Waiting \cup Over
  /\ socks_version \in Versions /\ socks_resolve \in Resolves
  /\ auth_list \in AuthLists /\ resolvable \in BOOLEAN
  /\ dest_addr \in {AnyAddr, DestAddr}
  /\ need \in 0..255 + 2
  /\ out \in Seq(Byte) /\ owed \in {"none", "method", "auth", "reply", "reply4"}
  /\ reply \in Seq(Byte) /\ header \in 0..Len(reply)
  /\ arrived \in 0..Len(reply) /\ pos \in 0..arrived
  /\ peer \in {"none", "open", "closed", "reset"}

\* When relaying starts, the server's answers have been read to their last byte
\* and nothing behind it: the first byte given to the user is the target's first.
TunnelStartsAfterReply == mpc = "relaying" => pos = header

\* What a server makes of a request: the address, or the name it is to resolve.
Addressed(m, addr) == m[1] = 5 /\ m[4] = 1 /\ SubSeq(m, 5, 8) = addr
Named(m, name) == m[1] = 5 /\ m[4] = 3 /\ m[5] = Len(name) /\ SubSeq(m, 6, 5 + m[5]) = name
IsName4(m) == SubSeq(m, 5, 7) = <<0, 0, 0>> /\ m[8] # 0
Addressed4(m, addr) == m[1] = 4 /\ ~IsName4(m) /\ SubSeq(m, 5, 8) = addr
Named4(m, name) ==
  /\ m[1] = 4 /\ IsName4(m)
  /\ \E i \in 9..Len(m) : m[i] = 0 /\ SubSeq(m, i + 1, Len(m)) = name \o <<0>>

\* "Local" asks the server for the address of the destination and "remote" for its
\* name, in the way of the version spoken: a server of 4a takes an address that
\* begins with three zeros for the sign of a name.
TargetIsAsked ==
  (mpc \in {"reply", "reply4"} /\ owed # "none") =>
    CASE socks_resolve = RESOLVE_LOCAL  -> Addressed(out, DestAddr) \/ Addressed4(out, DestAddr)
      [] socks_resolve = RESOLVE_REMOTE -> Named(out, DestHost) \/ Named4(out, DestHost)
      [] OTHER -> TRUE

\* Connecting ends, whenever the server closes the connection.
NegotiationEnds == <>(mpc \in Over)
=============================================================================
