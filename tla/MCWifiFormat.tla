----------------------------- MODULE MCWifiFormat -----------------------------
(* Instances of WifiFormat for TLC: names and passphrases with and without the    *)
(* characters that %q escapes, and files as they are found.                       *)
EXTENDS WifiFormat

A == <<"plain">>
AA == A \o A
AQ == <<"plain", "quote">>
QAQ == <<"quote">> \o AQ
S == <<"slash">>

Raw(t) == <<"quote">> \o t \o <<"quote">>
Other == Bare("other")

\* What ansible installs: no empty line between the blocks.
Deployed(nets) ==
    <<Other, Other, Empty>>
      \o FlattenSeq([i \in DOMAIN nets |->
           <<Open, Field("ssid", Raw(nets[i][1])), Field("psk", Raw(nets[i][2])), Shut>>])

\* Edited by hand: no empty line after the header, an open network, a comment, a block
\* that was not closed, one without a name, a psk first, a name twice and unquoted.
Edited ==
    <<Other, Open, Field("ssid", Raw(AA)), Field("psk", Raw(S)), Shut,
      Open, Field("ssid", Raw(AQ)), Other, Shut, Other, Field("psk", Raw(S)),
      Open, Field("ssid", Raw(S)), Open, Field("psk", Raw(A)), Shut, Shut,
      Open, Field("psk", A), Field("ssid", Raw(S)), Field("ssid", QAQ), Shut,
      Open, Field("ssid", Raw(S))>>

MCInstalled == {Deployed(<<>>), Deployed(<<<<AA, QAQ>>, <<S, A>>>>),
                Deployed(<<<<AA, S>>>>), Edited, Tail(Edited), <<Empty>> \o Tail(Edited)}
MCNames == {A, AA, AQ, S}
MCPhrases == {A, QAQ}
===============================================================================
