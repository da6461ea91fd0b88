----------------------------- MODULE LineInput -----------------------------
(***************************************************************************)
(* line_input() of connect.c: reads the answer of a proxy byte by byte     *)
(* until a newline, into a buffer of the caller that keeps what earlier    *)
(* lines left behind the end of the string.  The answer is a stream that   *)
(* arrives in pieces.                                                      *)
(*                                                                         *)
(* Bytes are taken together into tokens: words, and the delimiters that    *)
(* the callers look for.                                                   *)
(***************************************************************************)
EXTENDS Integers, Sequences, FiniteSetsExt, SequencesExt

CONSTANT Size    \* sizeof(buf) of the caller, 1024 in the code

ASSUME LineAssumption == Size \in Nat /\ Size > 2

VARIABLES
  buf,      \* the caller's buffer
  reply,    \* the stream the proxy sends on this connection ...
  arrived,  \* ... how much of it has arrived
  pos,      \* ... and how much has been read
  peer      \* the proxy: "none", "open", "closed" or "reset"

NUL == "NUL"
CR  == "CR"
LF  == "LF"
SP  == " "

\* What a proxy sends is text: there is no NUL in it.
Text == Seq(STRING \ {NUL})

\* The first place from p on that holds one of the tokens for which S is TRUE.
First(b, p, S(_)) == Min({i \in p..Len(b) : S(b[i])})

Str(b, p) == SubSeq(b, p, First(b, p, LAMBDA t : t = NUL) - 1)

\* Variant: fills the buffer, with no room for the NUL.
LineEndsNoRoom == {k \in pos + 1..arrived : reply[k] = LF \/ k = pos + Size}

\* Variant: does not stop at the newline.
LineEndsFull == {k \in pos + 1..arrived : k = pos + Size - 1}

\* A line ends behind a newline or when the buffer is full; at the end of the
\* stream it is what is left, which may be nothing.
LineEnds  == {k \in pos + 1..arrived : reply[k] = LF \/ k = pos + Size - 1}
LineReady == peer \in {"open", "closed"} /\ (LineEnds # {} \/ peer = "closed")
Line == SubSeq(reply, pos + 1, IF LineEnds = {} THEN arrived ELSE Min(LineEnds))

\* buf when the line is in it: what is behind its NUL stays.
NewBuf == Line \o <<NUL>> \o SubSeq(buf, Len(Line) + 2, Size)
LineRead == LineReady /\ pos' = pos + Len(Line)
LineFails == peer = "reset"

\* What the network and the proxy do to the stream.
Arrives == peer = "open" /\ \E n \in arrived + 1..Len(reply) : arrived' = n
Leaves  == peer = "open" /\ peer' \in {"closed", "reset"}

\* The stream has a line from i to j, and it fits the buffer.
LineAt(i, j) ==
  /\ i <= j /\ reply[j] = LF /\ LF \notin {reply[k] : k \in i..j - 1}
  /\ i = 1 \/ reply[i - 1] = LF
Fits(i, j) == j - i + 1 < Size

StreamTypeOK ==
  /\ DOMAIN buf = 1..Size
  /\ arrived \in 0..Len(reply) /\ pos \in 0..arrived
  /\ peer \in {"none", "open", "closed", "reset"}
=============================================================================
