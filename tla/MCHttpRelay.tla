---------------------------- MODULE MCHttpRelay ----------------------------
(* Answers of a proxy for TLC.  With Size = 15 a line of 14 tokens fits the   *)
(* buffer; TooLong is one whose carriage return and newline are just cut off, *)
(* Long one that is cut elsewhere.                                            *)
EXTENDS HttpRelay

Eol == <<CR, LF>>
Blank == Eol
MCProxy == <<<<"proxy">>, "80">>
Other   == <<<<"other">>, "8080">>
MCOthers == {Other}
MCTunnel == <<"hello", LF>>

Result(code) == <<"http/1.0", SP, code>> \o Eol
Field   == <<"via", ":", SP, "proxy">> \o Eol
TooLong == <<"via", ":">> \o [i \in 1..12 |-> "x"] \o Eol
Long    == <<"via", ":">> \o [i \in 1..15 |-> "x"] \o Eol
Basic   == <<"proxy-authenticate", ":", SP, "basic", SP, "realm">> \o Eol
Digest  == <<"proxy-authenticate", ":", SP, "digest", SP, "realm">> \o Eol
NoRealm == <<"proxy-authenticate", ":">> \o Eol
Www     == <<"www-authenticate", ":", SP, "basic", SP, "realm">> \o Eol
Location == <<"location", ":", SP, "http", ":", "/", "/", "other", ":", "8080", "/">> \o Eol

Ok == { <<Result("200"), Blank>>, <<Result("200"), Field, Blank>>, <<Result("200"), Long, Blank>> }
OkLong == { <<Result("200"), TooLong, Field, Blank>> }
Ask == { <<Result("407"), Basic, Blank>>, <<Result("407"), Digest, Basic, Blank>>,
         <<Result("407"), Basic, Digest, Blank>>, <<Result("401"), Www, Blank>>,
         <<Result("407"), Field, Basic, Field, Blank>> }
Refuse == { <<Result("403"), Blank>>, <<Result("407"), Digest, Blank>>,
            <<Result("407"), Basic, NoRealm, Blank>>, <<Result("401"), Basic, Blank>>,
            <<<<"hello">> \o Eol>> }
Moved == { <<Result("302"), Location, Blank>>, <<Result("302"), Location, Field, Blank>> }
Again == { <<Result("302"), Field, Blank>> }

\* Anything, whatever the credentials.
AnyAnswer  == [c \in Credentials |-> Ok \cup OkLong \cup Ask \cup Refuse \cup Moved \cup Again]
\* A proxy that wants the right password, and then sends the client on once.
AskAndMove == [c \in Credentials |-> IF c = "right" THEN Again ELSE Ask]
=============================================================================
