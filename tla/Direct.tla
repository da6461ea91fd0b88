------------------------------- MODULE Direct -------------------------------
(***************************************************************************)
(* Which destinations connect.c reaches without the relay: the list of     *)
(* addresses and names of SOCKS_DIRECT, HTTP_DIRECT, CONNECT_DIRECT, read  *)
(* once (initialize_direct_addr) and searched by main() at each try        *)
(* (check_direct).                                                         *)
(*                                                                         *)
(* A text is a sequence of tokens: numbers, pieces of names, and the       *)
(* characters the code looks for.  "foo.beebar" is foo . bee bar: only     *)
(* what a comparison can tell apart is a token of its own.                 *)
(***************************************************************************)
EXTENDS Integers, Sequences, FiniteSetsExt, SequencesExt

CONSTANTS
  MaxDirect,   \* MAX_DIRECT_ADDR_LIST, 256 in the code
  Params,      \* the environments: functions from names to lists of texts
  Methods,     \* the relay methods asked for
  Versions,    \* the versions of SOCKS
  Hosts,       \* the destinations
  Number,      \* the value of each token that is a number, as atoi() reads it
  Numeral,     \* the octets of each token that is a number for inet_addr(): hexadecimal
               \* behind "0x", octal behind "0"
  Lower        \* the lower-case form of each token that has capitals

METHOD_DIRECT == "direct"
METHOD_SOCKS  == "socks"
METHOD_HTTP   == "http"
METHOD_TELNET == "telnet"

\* A name is a sequence of tokens; a pointer that is NULL is none.
NULL  == <<"NULL">>
EOS   == "EOS"
Token == STRING \ {"NULL", EOS}

ASSUME DirectAssumption ==
  /\ MaxDirect \in Nat
  /\ Methods \subseteq {METHOD_DIRECT, METHOD_SOCKS, METHOD_HTTP, METHOD_TELNET}
  /\ Versions \subseteq {4, 5}
  /\ \A t \in DOMAIN Number : Number[t] \in Nat
  /\ {".", "/", EOS} \cap DOMAIN Number = {}
  /\ \A t \in DOMAIN Numeral : Numeral[t] \in Seq(0..255) /\ Len(Numeral[t]) \in 1..4
  /\ Hosts \subseteq Seq(Token)
  /\ \A p \in Params : \A k \in DOMAIN p : p[k] # <<>> /\ p[k] \in Seq(Seq(Token))
  /\ \A t \in DOMAIN Lower : Lower[t] \in Token

VARIABLES
  mpc,                \* where main() is
  relay_method,
  socks_version,
  asked,              \* history: the method of the options
  dest_host,
  params,             \* what getparam() finds
  direct_addr_list

direct == <<relay_method, socks_version, asked, dest_host, params, direct_addr_list>>

DirectInit ==
  /\ mpc = "init"
  /\ asked \in Methods /\ relay_method = asked
  /\ socks_version \in IF asked = METHOD_SOCKS THEN Versions ELSE {5}
  /\ dest_host \in Hosts
  /\ params \in Params
  /\ direct_addr_list = <<>>

(***************************************************************************)
(* Addresses and masks: four octets.                                       *)
(***************************************************************************)
\* The octets of up to four numbers; those that are missing are 0.
Octets(nums) ==
  LET octet(i) == IF i <= Len(nums) THEN nums[i] % 256 ELSE 0
  IN <<octet(1), octet(2), octet(3), octet(4)>>

\* The mask of the leading n bits.
Leading(n) ==
  LET octet(k) == IF k <= 0 THEN 0 ELSE IF k >= 8 THEN 255 ELSE <<128, 192, 224, 240, 248, 252, 254>>[k]
  IN <<octet(n), octet(n - 8), octet(n - 16), octet(n - 24)>>

And(a, m) ==
  LET bit(w) == IF (a \div w) % 2 = 1 /\ (m \div w) % 2 = 1 THEN w ELSE 0
  IN bit(1) + bit(2) + bit(4) + bit(8) + bit(16) + bit(32) + bit(64) + bit(128)

mask_addr(addr, mask) ==
  <<And(addr[1], mask[1]), And(addr[2], mask[2]), And(addr[3], mask[3]), And(addr[4], mask[4])>>

(***************************************************************************)
(* parse_addr_pair(): 12.34.56.78/255.255.255.0, 12.34.56.78/24, 12.34.56. *)
(***************************************************************************)
isdigit(t) == t \in DOMAIN Number

\* How many numbers, with a dot between them and four at most, stand in t from p on.
Count(t, p) ==
  Max({k \in 0..4 : /\ p + 2 * k - 2 < Len(t)
                    /\ \A i \in 1..k : /\ isdigit(t[p + 2 * i - 2])
                                       /\ i < k => t[p + 2 * i - 1] = "."})
Numbers(t, p) == [i \in 1..Count(t, p) |-> Number[t[p + 2 * i - 2]]]

\* A list of numbers ends in a dot, or is empty, where a fourth may still come.
DotAt(t, p) == Count(t, p) > 0 /\ t[p + 2 * Count(t, p) - 1] = "."
GoesOn(t, p) == Count(t, p) = 0 \/ (Count(t, p) < 4 /\ DotAt(t, p))
Behind(t, p) == IF Count(t, p) = 0 THEN p ELSE p + 2 * Count(t, p) - (IF DotAt(t, p) THEN 0 ELSE 1)

NoPair == <<>>
MaskBehind(t, m) ==
  IF \E i \in m..Len(t) : t[i] = "."
  THEN IF GoesOn(t, m) THEN NoPair ELSE Octets(Numbers(t, m))
  ELSE IF ~isdigit(t[m]) \/ Number[t[m]] > 32 THEN NoPair ELSE Leading(Number[t[m]])

\* The mask of a text, NoPair if the text is not an address.
MaskOf(t) ==
  LET end == Behind(t, 1)
  IN IF t[end] = EOS THEN Leading(8 * Count(t, 1))
     ELSE IF GoesOn(t, 1) \/ t[end] # "/" THEN NoPair
     ELSE MaskBehind(t, end + 1)

(***************************************************************************)
(* The list.                                                               *)
(***************************************************************************)
downcase(s) == [i \in DOMAIN s |-> IF s[i] \in DOMAIN Lower THEN Lower[s[i]] ELSE s[i]]

After(token, s) == IF s # <<>> /\ s[1] = token THEN Tail(s) ELSE s
negative(text) == text # <<>> /\ text[1] = "!"
Body(text) == After("!", text)

add_direct_addr(addr, mask, neg) ==
  [name |-> NULL, addr |-> mask_addr(addr, mask), mask |-> mask, negative |-> neg]
add_direct_host(name, neg) ==
  [name |-> downcase(After(".", After("*", name))), addr |-> <<>>, mask |-> <<>>, negative |-> neg]

Entry(text) ==
  LET t == Body(text) \o <<EOS>>
  IN IF MaskOf(t) = NoPair THEN add_direct_host(Body(text), negative(text))
     ELSE add_direct_addr(Octets(Numbers(t, 1)), MaskOf(t), negative(text))

\* Variant: the table has no limit.
TableNoLimit(texts) == [i \in DOMAIN texts |-> Entry(texts[i])]

\* What does not fit is left out.
Table(texts) == [i \in 1..Min({Len(texts), MaxDirect}) |-> Entry(texts[i])]

\* The variables that are looked at, the first that is set decides.
Keys ==
  (CASE relay_method = METHOD_SOCKS ->
          <<IF socks_version = 5 THEN "SOCKS5_DIRECT" ELSE "SOCKS4_DIRECT", "SOCKS_DIRECT">>
     [] relay_method = METHOD_HTTP -> <<"HTTP_DIRECT">>
     [] OTHER -> <<>>) \o <<"CONNECT_DIRECT">>
getparam(keys) ==
  LET set == {i \in DOMAIN keys : keys[i] \in DOMAIN params}
  IN IF set = {} THEN <<>> ELSE params[keys[Min(set)]]
Env == getparam(Keys)

initialize_direct_addr ==
  /\ mpc = "init"
  /\ mpc' = "retry"
  /\ direct_addr_list' = Table(Env)
  /\ UNCHANGED <<relay_method, socks_version, asked, dest_host, params>>

(***************************************************************************)
(* check_direct()                                                          *)
(***************************************************************************)
\* inet_addr(): one to four numbers, of which the last one fills the octets that are left.
Parts(host) == (Len(host) + 1) \div 2
inet_addr(host) ==
  LET last == Numeral[host[Len(host)]]
  IN [i \in 1..4 |-> IF i < Parts(host) THEN Numeral[host[2 * i - 1]][1]
                     ELSE IF i <= 4 - Len(last) THEN 0 ELSE last[i + Len(last) - 4]]

\* 255.255.255.255 is INADDR_NONE.
IsAddress(host) ==
  /\ Len(host) \in {1, 3, 5, 7}
  /\ \A i \in 1..Parts(host) : host[2 * i - 1] \in DOMAIN Numeral
  /\ \A i \in 1..Parts(host) - 1 : host[2 * i] = "." /\ Len(Numeral[host[2 * i - 1]]) = 1
  /\ Len(Numeral[host[Len(host)]]) <= 5 - Parts(host)
  /\ \E i \in 1..4 : inet_addr(host)[i] # 255

\* Variant: any name that ends with the entry.
domain_match_tail(s1, s2) == s1 # <<>> /\ s2 # <<>> /\ IsSuffix(s2, s1)

domain_match(s1, s2) ==
  /\ s1 # <<>> /\ s2 # <<>>
  /\ IsSuffix(s2, s1)
  /\ Len(s1) = Len(s2) \/ s1[Len(s1) - Len(s2)] = "."

Matches(host, e) ==
  IF IsAddress(host)
  THEN e.name = NULL /\ mask_addr(inet_addr(host), e.mask) = e.addr
  ELSE e.name # NULL /\ domain_match(downcase(host), e.name)

\* Variant: an entry with a "!" is passed over.
check_direct_any(host) ==
  \E i \in DOMAIN direct_addr_list : /\ Matches(host, direct_addr_list[i])
                                     /\ ~direct_addr_list[i].negative

check_direct(host) ==
  LET hits == {i \in DOMAIN direct_addr_list : Matches(host, direct_addr_list[i])}
  IN hits # {} /\ ~direct_addr_list[Min(hits)].negative

CheckDirect ==
  /\ mpc = "retry"
  /\ mpc' = "open"
  /\ relay_method' = IF check_direct(dest_host) THEN METHOD_DIRECT ELSE relay_method
  /\ UNCHANGED <<socks_version, asked, dest_host, params, direct_addr_list>>

(***************************************************************************)
(* What a text of the list stands for, with no regard to how it is parsed: *)
(* numbers and the bits of them that count, or a name.                     *)
(***************************************************************************)
\* From p on, s is k numbers with dots between them.
Dotted(s, p, k) ==
  /\ p + 2 * k - 2 <= Len(s)
  /\ \A i \in 1..k : isdigit(s[p + 2 * i - 2]) /\ (i < k => s[p + 2 * i - 1] = ".")
AddressAt(s, p, k) == [i \in 1..4 |-> IF i <= k THEN Number[s[p + 2 * i - 2]] % 256 ELSE 0]

\* An address has 32 bits, the first one of each octet being the one of weight 128.
Weight == <<128, 64, 32, 16, 8, 4, 2, 1>>
BitOf(x, j) == (x \div Weight[j]) % 2
Agree(x, y, bits) == \A b \in bits : BitOf(x[b[1]], b[2]) = BitOf(y[b[1]], b[2])
LeadingBits(n) == {b \in (1..4) \X (1..8) : 8 * (b[1] - 1) + b[2] <= n}
BitsSet(mask)  == {b \in (1..4) \X (1..8) : BitOf(mask[b[1]], b[2]) = 1}

\* The three forms, k numbers being in front: a mask of four numbers at most, a number of
\* bits, or nothing.  What stands behind a mask does not count.
LongMask(s, q, m) ==
  /\ \E i \in q + 1..Len(s) : s[i] = "."
  /\ Dotted(s, q + 1, m) /\ (m = 4 \/ q + 2 * m > Len(s) \/ s[q + 2 * m] # ".")
ShortMask(s, q) ==
  /\ \A i \in q + 1..Len(s) : s[i] # "."
  /\ Dotted(s, q + 1, 1) /\ Number[s[q + 1]] <= 32
NoSlash(s, k) == Len(s) = 2 * k - 1 \/ (Len(s) = 2 * k /\ s[2 * k] = ".")
SlashAt(s, k, q) ==
  /\ q = 2 * k \/ (k = 4 /\ q = 9)
  /\ q <= Len(s) /\ s[q] = "/" /\ (q = 9 => s[8] = ".")

\* A text that is such numbers covers the addresses that have the same bits.
CoversAddress(s, y) ==
  \E k \in 1..4 : LET x == AddressAt(s, 1, k) IN
    /\ Dotted(s, 1, k)
    /\ \/ NoSlash(s, k) /\ Agree(x, y, LeadingBits(8 * k))
       \/ \E q \in {2 * k, 9} : /\ SlashAt(s, k, q)
                               /\ \/ ShortMask(s, q) /\ Agree(x, y, LeadingBits(Number[s[q + 1]]))
                                  \/ \E m \in 1..4 : /\ LongMask(s, q, m)
                                                     /\ Agree(x, y, BitsSet(AddressAt(s, q + 1, m)))
IsNetwork(s) == \E k \in 1..4 : Dotted(s, 1, k) /\ CoversAddress(s, AddressAt(s, 1, k))

\* Any other text is a name, and covers it and the names that end with a dot and it.
CoversName(s, name) ==
  LET domain == downcase(After(".", After("*", s)))
  IN domain # <<>> /\ \E p \in 0..Len(name) : /\ SubSeq(name, p + 1, Len(name)) = domain
                                              /\ p = 0 \/ name[p] = "."

Covered(s, host) ==
  IF IsAddress(host) THEN CoversAddress(s, inet_addr(host))
  ELSE ~IsNetwork(s) /\ CoversName(s, downcase(host))

(***************************************************************************)
(* Properties.                                                             *)
(***************************************************************************)
DirectTypeOK ==
  /\ relay_method \in {asked, METHOD_DIRECT}
  /\ Len(direct_addr_list) <= MaxDirect
  /\ \A i \in DOMAIN direct_addr_list :
       LET e == direct_addr_list[i]
       IN /\ e.negative \in BOOLEAN
          /\ e.name = NULL => {e.addr, e.mask} \subseteq [1..4 -> 0..255]
=============================================================================
