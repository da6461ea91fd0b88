----------------------------- MODULE HttpRelay -----------------------------
(***************************************************************************)
(* Connecting through an HTTP proxy: the retry loop of main() and          *)
(* begin_http_relay() of connect.c.  A connection to the proxy is opened,  *)
(* CONNECT is sent (with the credentials once the proxy has asked for      *)
(* them), and the answer is read line by line: 200 starts the tunnel, 302  *)
(* and the first 401 or 407 close the connection and start again, anything *)
(* else is fatal.                                                          *)
(*                                                                         *)
(* A line is a sequence of tokens, each standing for a word or a delimiter *)
(* of its text; the parsing (line_input, expect, cut_token, atoi) is done  *)
(* on them, in a buffer that keeps what earlier lines left in it.          *)
(***************************************************************************)
EXTENDS LineInput

CONSTANTS
  Proxy,      \* the configured proxy: <<host, port>>
  Others,     \* the other proxies that can be reached
  Answers,    \* Answers[c]: the answers, each a sequence of lines, that a proxy
              \* may give to a request with the credentials c
  Tunnel,     \* what the target sends first through the tunnel
  PassInEnv,  \* the password is in the environment (or the parameter file)
  Timer,      \* -w, in a program that is not built for Win32
  Faults      \* connections are refused, closed and reset; a send fails

Credentials == {"none", "right", "empty"}

ASSUME HttpAssumption ==
  /\ DOMAIN Answers = Credentials
  /\ {PassInEnv, Timer, Faults} \subseteq BOOLEAN
  /\ Tunnel \in Text

\* The header of an answer h has an empty line at i.
BlankAt(h, i) == h[i] = CR /\ h[i + 1] = LF /\ (i = 1 \/ h[i - 1] = LF)

\* An answer is a header: a line with a version, a blank and the code, or with no blank at all, and
\* other lines.  An empty line comes last, if any does, and does come last where the code is 200.
ASSUME AnswersAssumption ==
  \A c \in Credentials : \A r \in Answers[c] : LET h == FlattenSeq(r)
    IN /\ h \in Text /\ Len(h) >= 3
       /\ \/ h[1] # SP /\ h[2] = SP /\ h[3] # SP
          \/ \A k \in 1..Len(h) : h[k] = SP => \E i \in 1..k : h[i] = LF
       /\ \A i \in 1..Len(h) - 1 : BlankAt(h, i) => i = Len(h) - 1
       /\ h[3] = "200" => BlankAt(h, Len(h) - 1)

VARIABLES
  mpc,              \* where the program is
  relay_host,       \* a name: a sequence of tokens
  host_at,          \* where in buf relay_host points to, 0 when it does not
  relay_port,
  proxy_auth_type,
  pass,             \* the password as the environment now holds it
  auth_what,        \* the header field looked for in a 401 or 407 answer
  cred,             \* the credentials sent on this connection
  header,           \* how long the header is of what the proxy sends on it
  challenges        \* history: the 401 and 407 answers that were retried

relay == <<relay_host, host_at, relay_port, proxy_auth_type, pass>>
conn  == <<cred, reply, header, arrived, pos, peer>>
vars  == <<mpc, relay, buf, auth_what, conn, challenges>>

PROXY_AUTH_NONE  == "none"
PROXY_AUTH_BASIC == "basic"

Stopped == {"failed", "timed out"}
Over    == Stopped \cup {"relaying"}

Init ==
  /\ mpc = "open"
  /\ relay_host = Proxy[1] /\ host_at = 0 /\ relay_port = Proxy[2]
  /\ proxy_auth_type = PROXY_AUTH_NONE /\ pass = "right"
  /\ buf = [i \in 1..Size |-> NUL] /\ auth_what = ""
  /\ cred = "none" /\ reply = <<>> /\ header = 0 /\ arrived = 0 /\ pos = 0
  /\ peer = "none"
  /\ challenges = 0

(***************************************************************************)
(* Strings in buf.                                                         *)
(***************************************************************************)
expect(b, words) == IsPrefix(words, Str(b, 1))

\* cut_token(): ends the string at the delimiters after its first token, and
\* points behind them; ptr = 0 is NULL.
cut_token(b, p, delim) ==
  LET ptr == First(b, p, LAMBDA t : t \in {delim, NUL})
      end == First(b, ptr, LAMBDA t : t # delim)
  IN IF ptr = p THEN [buf |-> b, ptr |-> 0]
     ELSE [buf |-> SubSeq(b, 1, ptr - 1) \o [i \in 1..end - ptr |-> NUL] \o SubSeq(b, end, Size),
           ptr |-> end]

\* atoi(): a number is a token of its own, and may follow blanks.
atoi(s) ==
  LET words == {i \in DOMAIN s : s[i] # SP}
  IN IF words # {} /\ s[Min(words)] \in {"0", "80", "200", "302", "401", "403", "407", "8080"}
     THEN s[Min(words)] ELSE "0"

IsBlank(b) == Str(b, 1) = <<CR, LF>>

(***************************************************************************)
(* main(): open_connection()                                               *)
(***************************************************************************)
OpenConnection ==
  /\ mpc = "open"
  /\ <<relay_host, relay_port>> \in {Proxy} \cup Others
  /\ mpc' = "request"
  /\ peer' = "open" /\ reply' = <<>> /\ header' = 0 /\ arrived' = 0 /\ pos' = 0
  /\ cred' = "none"
  /\ UNCHANGED <<relay, buf, auth_what, challenges>>

OpenFails ==
  /\ mpc = "open"
  /\ Faults \/ <<relay_host, relay_port>> \notin {Proxy} \cup Others
  /\ mpc' = "failed"
  /\ UNCHANGED <<relay, buf, auth_what, conn, challenges>>

(***************************************************************************)
(* begin_http_relay()                                                      *)
(***************************************************************************)
\* CONNECT, basic_auth() and the empty line.  basic_auth() erases the password
\* where it found it.
Request ==
  /\ mpc = "request"
  /\ IF proxy_auth_type = PROXY_AUTH_BASIC
     THEN /\ cred' = pass
          /\ pass' = IF PassInEnv THEN "empty" ELSE pass
     ELSE cred' = "none" /\ UNCHANGED pass
  /\ mpc' = "status"
  /\ UNCHANGED <<relay_host, host_at, relay_port, proxy_auth_type, buf, auth_what,
                 reply, header, arrived, pos, peer, challenges>>

\* A send fails before, in or after basic_auth().
RequestFails ==
  /\ mpc = "request"
  /\ Faults
  /\ mpc' = "failed"
  /\ UNCHANGED <<relay, buf, auth_what, conn, challenges>>

\* Variant: a second refusal of the credentials is retried like the first.
NextStateNoGuard(result) ==
  CASE result = "200" -> "skip"
    [] result = "302" -> "redirect"
    [] result \in {"401", "407"} -> "challenge"
    [] OTHER -> "failed"

NextState(result) ==
  CASE result = "200" -> "skip"
    [] result = "302" -> "redirect"
    [] result \in {"401", "407"} ->
         IF proxy_auth_type # PROXY_AUTH_NONE THEN "failed" ELSE "challenge"
    [] OTHER -> "failed"

Status ==
  /\ mpc = "status"
  /\ LineRead
  /\ buf' = NewBuf
  /\ LET space == {i \in DOMAIN Str(buf', 1) : buf'[i] = SP}
         result == atoi(Str(buf', Min(space)))
     IN IF space = {} THEN mpc' = "failed" /\ UNCHANGED auth_what
        ELSE /\ mpc' = NextState(result)
             /\ auth_what' = CASE mpc' # "challenge" -> auth_what
                               [] result = "401" -> "www-authenticate"
                               [] OTHER -> "proxy-authenticate"
  /\ UNCHANGED <<relay, cred, reply, header, arrived, peer, challenges>>

StatusFails ==
  /\ mpc = "status"
  /\ LineFails
  /\ mpc' = "failed"
  /\ UNCHANGED <<relay, buf, auth_what, conn, challenges>>

\* START_RETRY: the connection is closed and main() goes to "retry".  relay_host
\* may point into the buffer of the call that is over: whatever is there then is
\* the name.
Retry(b, at) ==
  /\ mpc' = "open"
  /\ peer' = "none"
  /\ host_at' = 0
  /\ relay_host' \in IF at = 0 THEN {relay_host} ELSE {Str(b, at), <<"garbage">>}

Redirect ==
  /\ mpc = "redirect"
  /\ LineRead
  /\ \E b \in {NewBuf} :
       IF expect(b, <<"location", ":", SP>>)
       THEN \E c1 \in {cut_token(b, 1, "/")} :
            \E c2 \in {cut_token(c1.buf, 1, "/")} :
            \E c3 \in {cut_token(c2.buf, 1, ":")} :
              /\ host_at' = c1.ptr
              /\ relay_port' = atoi(Str(c3.buf, c3.ptr))
              /\ buf' = c3.buf
              /\ UNCHANGED <<mpc, relay_host, peer>>
       ELSE /\ buf' = b
            /\ IF IsBlank(b) THEN Retry(b, host_at)
               ELSE UNCHANGED <<mpc, relay_host, host_at, peer>>
            /\ UNCHANGED relay_port
  /\ UNCHANGED <<proxy_auth_type, pass, auth_what, cred, reply, header, arrived, challenges>>

RedirectCut ==
  /\ mpc = "redirect"
  /\ LineFails
  /\ Retry(buf, host_at)
  /\ UNCHANGED <<relay_port, proxy_auth_type, pass, buf, auth_what, cred, reply,
                 header, arrived, pos, challenges>>

MaxChallenges == 2    \* bound of the history

\* Variant: retries even when no scheme it knows has been offered.
EndChallengeAnyhow ==
  /\ mpc' = "open" /\ peer' = "none"
  /\ challenges' = Min({challenges + (IF proxy_auth_type' = PROXY_AUTH_NONE THEN 0 ELSE 1), MaxChallenges})

EndChallenge ==
  IF proxy_auth_type' = PROXY_AUTH_NONE
  THEN mpc' = "failed" /\ UNCHANGED <<peer, challenges>>
  ELSE mpc' = "open" /\ peer' = "none" /\ challenges' = Min({challenges + 1, MaxChallenges})

\* Variant: the last scheme that is named decides.
AuthOfferedLast(scheme) ==
  IF scheme = "basic" THEN PROXY_AUTH_BASIC ELSE PROXY_AUTH_NONE

AuthOffered(scheme) ==
  IF scheme = "basic" THEN PROXY_AUTH_BASIC ELSE proxy_auth_type

Challenge ==
  /\ mpc = "challenge"
  /\ LineRead
  /\ \E b \in {NewBuf} :
       IF expect(b, <<auth_what, ":">>)
       THEN \E scheme \in {cut_token(b, 1, SP)} :
            \E realm \in {cut_token(scheme.buf, scheme.ptr, SP)} :
              /\ buf' = realm.buf
              /\ IF realm.ptr = 0
                 THEN mpc' = "failed" /\ UNCHANGED proxy_auth_type
                 ELSE proxy_auth_type' = AuthOffered(realm.buf[scheme.ptr]) /\ UNCHANGED mpc
              /\ UNCHANGED <<peer, challenges>>
       ELSE /\ buf' = b
            /\ UNCHANGED proxy_auth_type
            /\ IF IsBlank(b) THEN EndChallenge ELSE UNCHANGED <<mpc, peer, challenges>>
  /\ UNCHANGED <<relay_host, host_at, relay_port, pass, auth_what, cred, reply, header,
                 arrived>>

ChallengeCut ==
  /\ mpc = "challenge"
  /\ LineFails
  /\ UNCHANGED proxy_auth_type
  /\ EndChallenge
  /\ UNCHANGED <<relay_host, host_at, relay_port, pass, buf, auth_what, cred, reply,
                 header, arrived, pos>>

\* Variant: the header is over with the line after the status line.
SkipOneLine ==
  /\ mpc = "skip"
  /\ LineRead
  /\ buf' = NewBuf
  /\ mpc' = "relaying"
  /\ UNCHANGED <<relay, auth_what, cred, reply, header, arrived, peer, challenges>>

\* Skips to the end of the response header.
Skip ==
  /\ mpc = "skip"
  /\ LineRead
  /\ buf' = NewBuf
  /\ mpc' = IF IsBlank(buf') THEN "relaying" ELSE "skip"
  /\ UNCHANGED <<relay, auth_what, cred, reply, header, arrived, peer, challenges>>

SkipFails ==
  /\ mpc = "skip"
  /\ LineFails
  /\ mpc' = "failed"
  /\ UNCHANGED <<relay, buf, auth_what, conn, challenges>>

\* sig_timeout().  The alarm is set at "retry" and cleared when the tunnel is up.
TimedOut ==
  /\ Timer
  /\ mpc \notin Over
  /\ mpc' = "timed out"
  /\ UNCHANGED <<relay, buf, auth_what, conn, challenges>>

Program ==
  \/ OpenConnection \/ OpenFails \/ Request \/ RequestFails
  \/ Status \/ StatusFails \/ Redirect \/ RedirectCut
  \/ Challenge \/ ChallengeCut \/ Skip \/ SkipFails

(***************************************************************************)
(* The proxy.  Its answer arrives in pieces.                               *)
(***************************************************************************)
Answer ==
  /\ mpc = "status" /\ peer = "open" /\ reply = <<>>
  /\ \E r \in Answers[cred] :
       /\ reply' = FlattenSeq(r) \o (IF FlattenSeq(r)[3] = "200" THEN Tunnel ELSE <<>>)
       /\ header' = Len(FlattenSeq(r))
  /\ UNCHANGED <<mpc, relay, buf, auth_what, cred, arrived, pos, peer, challenges>>

Arrive ==
  /\ mpc \notin Over
  /\ Arrives
  /\ UNCHANGED <<mpc, relay, buf, auth_what, cred, reply, header, pos, peer, challenges>>

ProxyLeaves ==
  /\ Faults
  /\ mpc \notin Over
  /\ Leaves
  /\ UNCHANGED <<mpc, relay, buf, auth_what, cred, reply, header, arrived, pos, challenges>>

Next == Program \/ TimedOut \/ Answer \/ Arrive \/ ProxyLeaves

Spec == Init /\ [][Next]_vars

\* The program runs, and the proxy answers unless it leaves.  Nothing makes the
\* alarm go off: it is an option, and the Win32 build has none.
FairSpec == Spec /\ WF_vars(Program) /\ WF_vars(Answer) /\ WF_vars(Arrive)

(***************************************************************************)
(* Properties.                                                             *)
(***************************************************************************)
\* Types; a line and its NUL never outgrow the buffer.
TypeOK ==
  /\ mpc \in {"open", "request", "status", "redirect", "challenge", "skip"} \cup Over
  /\ host_at \in 0..Size
  /\ proxy_auth_type \in {PROXY_AUTH_NONE, PROXY_AUTH_BASIC}
  /\ pass \in Credentials \ {"none"} /\ cred \in Credentials
  /\ StreamTypeOK /\ header \in 0..Len(reply)
  /\ challenges \in 0..MaxChallenges

\* A line of the header that fills the buffer (or several) just before its CRLF,
\* which line_input() then returns as a line of its own.
CutBeforeEol ==
  \E i, j \in 1..header : LineAt(i, j) /\ i + 1 < j /\ (j - i - 1) % (Size - 1) = 0

\* When relaying starts, the header of a 200 answer has been read, all of it and
\* nothing more: the first byte given to the user is the target's first byte.  The
\* one exception is a header with a line of an unlucky length.
TunnelStartsAfterHeader ==
  mpc = "relaying" => reply[3] = "200" /\ (pos = header \/ CutBeforeEol)

\* Credentials that a proxy has refused are not sent to it again: a negotiation
\* retries for authentication once.
AuthenticatesOnce == challenges <= 1

\* "Password is taken from environment variables": the credentials that are sent
\* hold it.
PasswordIsSent == cred # "empty"

\* "We support only BASIC scheme": a proxy that offers it in a field of the header that fits
\* the buffer, wherever it stands and whatever else is offered, gets the credentials.  The
\* program gives up only when it has read no such field, or at a field that names no scheme.
Offers(i) ==
  /\ reply[i] = auth_what /\ reply[i + 1] = ":" /\ reply[i + 2] = SP /\ reply[i + 3] = "basic"
Offered(n) == \E i, j \in 2..header : LineAt(i, j) /\ Fits(i, j) /\ j <= n /\ Offers(i)
NamesNone(field) ==
  /\ IsPrefix(<<auth_what, ":">>, field)
  /\ \A k \in DOMAIN field : field[k] = SP => \A l \in k..Len(field) : field[l] = SP
BasicIsAnswered ==
  [][ (mpc = "challenge" /\ mpc' = "failed")
        => NamesNone(SubSeq(reply, pos + 1, pos')) \/ ~Offered(pos') ]_vars

\* Connecting ends, in a tunnel or with an error.  There are exactly two ways to
\* go on for ever: a proxy that redirects again and again, and one that closes the
\* connection within its header, after which the loops over header lines read
\* empty lines without end.
Spins == peer = "closed" /\ pos = arrived /\ mpc \in {"redirect", "challenge", "skip"}
NegotiationEnds == <>(mpc \in Over) \/ []<>(mpc = "redirect") \/ <>[]Spins
=============================================================================
