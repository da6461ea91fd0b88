------------------------------ MODULE MCTelnet ------------------------------
(* Lists, destinations and answers for Telnet.  With Size = 9 a line of       *)
(* eight tokens fits the buffer.                                              *)
EXTENDS Telnet, TLC

MCNumber == [t \in {"0", "1", "7", "8", "10", "12", "34", "56", "24", "33", "789", "255"} |->
  CASE t = "0" -> 0 [] t = "1" -> 1 [] t = "7" -> 7 [] t = "8" -> 8 [] t = "10" -> 10
    [] t = "12" -> 12 [] t = "34" -> 34 [] t = "56" -> 56 [] t = "24" -> 24
    [] t = "33" -> 33 [] t = "789" -> 789 [] t = "255" -> 255]
MCNumeral ==
  [t \in DOMAIN MCNumber \ {"789"} |-> <<MCNumber[t]>>]
  @@ "789" :> <<3, 21>> @@ "0x0c" :> <<12>> @@ "012" :> <<10>>
  @@ "14343" :> <<56, 7>> @@ "203569232" :> <<12, 34, 56, 80>>
MCLower == "Connected" :> "connected" @@ "BAR" :> "bar" @@ "Refused" :> "refused"

Dot(a, b, c, d) == <<a, ".", b, ".", c, ".", d>>
In56   == Dot("12", "34", "56", "7")
In34   == Dot("12", "34", "8", "7")
Far    == Dot("10", "0", "0", "1")
All255 == Dot("255", "255", "255", "255")
Bar    == <<"BAR", ".", "com">>
FooBar == <<"foo", ".", "bar", ".", "com">>
BeeBar == <<"foo", ".", "bee", "bar", ".", "com">>
\* Other spellings of addresses: 12.34.56.7, 10.0.0.1 and 12.34.56.80.
Hex    == <<"0x0c", ".", "34", ".", "14343">>
Octal  == <<"012", ".", "1">>
Plain  == <<"203569232">>
MCHosts == {In56, In34, Far, All255, Bar, FooBar, BeeBar, Hex, Octal, Plain}

\* The three forms of a network, other masks, names, and texts that are neither.
Form1  == Dot("12", "34", "56", "789") \o <<"/">> \o Dot("255", "255", "255", "0")
Form2  == Dot("12", "34", "56", "789") \o <<"/", "24">>
Form3  == <<"12", ".", "34", ".", "56", ".">>
Wide   == <<"12", ".", "34">>
All    == Dot("10", "0", "0", "1") \o <<"/", "0">>
Exact  == Far
NoMask == Dot("12", "34", "56", "7") \o <<"/", "33">>
Short  == Dot("12", "34", "56", "7") \o <<"/", "255", ".", "255", ".">>
Name   == <<"bar", ".", "com">>
Star   == <<"*", ".", "bar", ".", "com">>
Upper  == <<"foo", ".", "BAR", ".", "com">>
Digit  == <<"12", "bar", ".", "com">>
In == {In56, Hex, Plain}
MCCovered ==
  Form1 :> In @@ Form2 :> In @@ Form3 :> In @@ Wide :> In \cup {In34}
  @@ All :> In \cup {In34, Far, Octal} @@ Exact :> {Far, Octal} @@ NoMask :> {} @@ Short :> {}
  @@ Name :> {Bar, FooBar} @@ Star :> {Bar, FooBar} @@ Upper :> {FooBar} @@ Digit :> {}

\* What the texts stand for is what the comments of parse_addr_pair() and domain_match() say.
ASSUME MCMeaning ==
  \A t \in DOMAIN MCCovered : {h \in MCHosts : Covered(t, h)} = MCCovered[t]

Not(text) == <<"!">> \o text
Lists ==
  {<<t>> : t \in DOMAIN MCCovered}
    \cup {<<Not(Form2), All>>, <<All, Not(Form2)>>, <<Not(Upper), Name>>, <<Not(Name), All, Wide>>,
          <<Exact, Not(Wide), All>>, <<Form3, <<>>>>, <<Not(Name), Upper>>}
MCParams ==
  {"CONNECT_DIRECT" :> l : l \in Lists}
    \cup {"SOCKS5_DIRECT" :> <<Form1>> @@ "SOCKS_DIRECT" :> <<Name>> @@ "HTTP_DIRECT" :> <<Wide>>,
          "SOCKS4_DIRECT" :> <<Wide>> @@ "CONNECT_DIRECT" :> <<Exact>>}
    \cup {<<>>}

Eol == <<CR, LF>>
Blank   == Eol
Prompt  == <<"trying", SP, "bar">> \o Eol
Good    == <<"Connected", SP, "to", SP, "bar">> \o Eol
Refused == <<"bar", SP, "Refused">> \o Eol
Long    == <<"trying">> \o [i \in 1..7 |-> "x"] \o Eol
GoodLong == <<"connected", SP, "to">> \o [i \in 1..5 |-> "x"] \o Eol
GoodCut == [i \in 1..7 |-> "x"] \o <<"connected", SP, "to">> \o Eol
MCAnswers == {<<Good>>, <<Prompt, Blank, Good>>, <<Long, Good>>, <<Prompt, Refused>>,
              <<Refused, Good>>, <<GoodLong>>, <<GoodCut>>, <<Prompt>>}
MCTunnel == <<"hello", LF, "you", LF>>
=============================================================================
