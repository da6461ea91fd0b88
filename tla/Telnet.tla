------------------------------- MODULE Telnet -------------------------------
(***************************************************************************)
(* Connecting through a telnet proxy, or without one: main() of connect.c  *)
(* with the list of Direct and begin_telnet_relay().  A destination of the *)
(* list is connected to; any other is asked of the proxy, whose answer is  *)
(* searched line by line for a phrase that says how it went.  The other    *)
(* methods go on to negotiations that have modules of their own.           *)
(***************************************************************************)
EXTENDS Direct, LineInput

CONSTANTS
  Answers,   \* the answers of the proxy, each a sequence of lines
  Tunnel,    \* what the target sends first through the tunnel
  Timer,     \* -w, in a program that is not built for Win32
  Faults     \* connections are refused, closed and reset; a send fails

ASSUME TelnetAssumption ==
  /\ {Timer, Faults} \subseteq BOOLEAN
  /\ Tunnel \in Text
  /\ \A t \in DOMAIN Lower : {t, Lower[t]} \subseteq STRING \ {NUL, LF}

VARIABLE header    \* how long the answer of the proxy is

stream == <<reply, header, arrived, peer>>
vars   == <<mpc, direct, buf, stream, pos>>

Over == {"relaying", "negotiating", "failed", "timed out"}

Init ==
  /\ DirectInit
  /\ buf = [i \in 1..Size |-> NUL]
  /\ reply = <<>> /\ header = 0 /\ arrived = 0 /\ pos = 0 /\ peer = "none"

(***************************************************************************)
(* main()                                                                  *)
(***************************************************************************)
Start ==
  /\ initialize_direct_addr \/ CheckDirect
  /\ UNCHANGED <<buf, stream, pos>>

OpenConnection ==
  /\ mpc = "open"
  /\ mpc' = CASE relay_method = METHOD_DIRECT -> "relaying"
              [] relay_method = METHOD_TELNET -> "request"
              [] OTHER -> "negotiating"
  /\ peer' = "open"
  /\ UNCHANGED <<direct, buf, reply, header, arrived, pos>>

OpenFails ==
  /\ mpc = "open" /\ Faults
  /\ mpc' = "failed"
  /\ UNCHANGED <<direct, buf, stream, pos>>

(***************************************************************************)
(* begin_telnet_relay()                                                    *)
(***************************************************************************)
Request ==
  /\ mpc = "request"
  /\ mpc' = "answer"
  /\ UNCHANGED <<direct, buf, stream, pos>>

RequestFails ==
  /\ mpc = "request" /\ Faults
  /\ mpc' = "failed"
  /\ UNCHANGED <<direct, buf, stream, pos>>

good_phrase == <<"connected", SP, "to">>
bad_phrase_list == {<<SP, w>> : w \in {"failed", "refused", "rejected", "closed"}}

strstr(s, phrase) ==
  \E i \in 1..Len(s) - Len(phrase) + 1 : SubSeq(s, i, i + Len(phrase) - 1) = phrase

\* Variant: looks for the good phrase only.
VerdictGoodOnly(s) ==
  CASE s = <<>> -> "failed"
    [] strstr(s, good_phrase) -> "relaying"
    [] OTHER -> "answer"

Verdict(s) ==
  CASE s = <<>> -> "failed"
    [] strstr(s, good_phrase) -> "relaying"
    [] \E phrase \in bad_phrase_list : strstr(s, phrase) -> "failed"
    [] OTHER -> "answer"

ReadLine ==
  /\ mpc = "answer"
  /\ LineRead
  /\ buf' = downcase(NewBuf)
  /\ mpc' = Verdict(Str(buf', 1))
  /\ UNCHANGED <<direct, stream>>

ReadFails ==
  /\ mpc = "answer"
  /\ LineFails
  /\ mpc' = "failed"
  /\ UNCHANGED <<direct, buf, stream, pos>>

\* sig_timeout().  The alarm is set at "retry", when the list has been read.
TimedOut ==
  /\ Timer
  /\ mpc \notin Over \cup {"init", "retry"}
  /\ mpc' = "timed out"
  /\ UNCHANGED <<direct, buf, stream, pos>>

Program ==
  Start \/ OpenConnection \/ OpenFails \/ Request \/ RequestFails \/ ReadLine \/ ReadFails

(***************************************************************************)
(* The proxy.                                                              *)
(***************************************************************************)
Says(line, phrase) == strstr(downcase(line), phrase)

\* An answer is made of lines; the good phrase stands in the last of them, if in any.
InLastLine(h, i) ==
  SubSeq(downcase(h), i, i + Len(good_phrase) - 1) = good_phrase
    => \A k \in i..Len(h) - 1 : h[k] # LF

ASSUME AnswersAssumption ==
  \A r \in Answers : LET h == FlattenSeq(r)
    IN /\ h \in Text /\ h # <<>> /\ h[Len(h)] = LF
       /\ \A i \in 1..Len(h) - Len(good_phrase) + 1 : InLastLine(h, i)

\* It opens the tunnel behind a line with the good phrase.
Answer ==
  /\ mpc = "answer" /\ peer = "open" /\ reply = <<>>
  /\ \E r \in Answers :
       /\ reply' = FlattenSeq(r) \o (IF Says(FlattenSeq(r), good_phrase) THEN Tunnel ELSE <<>>)
       /\ header' = Len(FlattenSeq(r))
  /\ UNCHANGED <<mpc, direct, buf, arrived, pos, peer>>

Arrive ==
  /\ mpc = "answer"
  /\ Arrives
  /\ UNCHANGED <<mpc, direct, buf, reply, header, pos, peer>>

ProxyLeaves ==
  /\ mpc = "answer"
  /\ Faults
  /\ Leaves
  /\ UNCHANGED <<mpc, direct, buf, reply, header, arrived, pos>>

Next == Program \/ TimedOut \/ Answer \/ Arrive \/ ProxyLeaves

Spec == Init /\ [][Next]_vars

(***************************************************************************)
(* Properties.                                                             *)
(***************************************************************************)
\* Types; the table holds its limit, and a line with its NUL fits the buffer.
TypeOK ==
  /\ mpc \in {"init", "retry", "open", "request", "answer"} \cup Over
  /\ DirectTypeOK
  /\ StreamTypeOK /\ header \in 0..Len(reply)

\* What the variables say that the method asked for looks at, the first that is set.
EnvAsked ==
  LET names == CASE asked = METHOD_SOCKS /\ socks_version = 5 -> <<"SOCKS5_DIRECT", "SOCKS_DIRECT", "CONNECT_DIRECT">>
                 [] asked = METHOD_SOCKS /\ socks_version = 4 -> <<"SOCKS4_DIRECT", "SOCKS_DIRECT", "CONNECT_DIRECT">>
                 [] asked = METHOD_HTTP -> <<"HTTP_DIRECT", "CONNECT_DIRECT">>
                 [] OTHER -> <<"CONNECT_DIRECT">>
      set   == {i \in DOMAIN names : names[i] \in DOMAIN params}
  IN IF set = {} THEN <<>> ELSE params[names[Min(set)]]
Covers(i) == Covered(Body(EnvAsked[i]), dest_host)
InTable == 1..Min({MaxDirect, Len(EnvAsked)})
Listed ==
  \E i \in InTable : /\ Covers(i) /\ ~negative(EnvAsked[i])
                     /\ \A j \in 1..i - 1 : ~Covers(j)

\* An entry matches the destinations that the text it is made from covers, in whatever
\* form an address, a mask or a name is written.
EntriesMatch ==
  \A i \in DOMAIN EnvAsked :
    Body(EnvAsked[i]) # <<>> => (Covers(i) <=> Matches(dest_host, Entry(EnvAsked[i])))

\* A destination is reached without the relay when the options say so, or when the
\* first text of the list that covers it has no "!"; otherwise the relay is asked.
\* Texts behind the limit of the table do not count.  The exception is an empty
\* text, which a comma too many makes: it is an address with no bits.
FirstCoverDecides ==
  (mpc \notin {"init", "retry"} /\ \A i \in InTable : Body(EnvAsked[i]) # <<>>)
    => (relay_method = METHOD_DIRECT <=> asked = METHOD_DIRECT \/ Listed)

\* Relaying starts directly behind the line that says "connected to": the first byte
\* given to the user is the target's first byte.  The exceptions are a line that is too
\* long for the buffer and a proxy that closes within the line.
TunnelStartsAfterLine ==
  (mpc = "relaying" /\ relay_method = METHOD_TELNET) =>
    \/ pos = header \/ (peer = "closed" /\ pos = arrived)
    \/ \E i \in 1..header : LineAt(i, header) /\ ~Fits(i, header)

\* "Bad keywords in the line causes operation fail": relaying does not start when a
\* line before has said that the connection failed.
RefusalIsBelieved ==
  (mpc = "relaying" /\ relay_method = METHOD_TELNET) =>
    \A i, j \in 1..header :
       (LineAt(i, j) /\ j < pos /\ Fits(i, j))
          => \A phrase \in bad_phrase_list : ~Says(SubSeq(reply, i, j), phrase)
=============================================================================
