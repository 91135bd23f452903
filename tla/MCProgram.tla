------------------------------- MODULE MCProgram -------------------------------
(* An instance of Program for TLC: seven nodes, seven lists, four templates. *)
EXTENDS Program

Entry(name, psk, is, reuse, udp) ==
  [name |-> name, psk |-> psk, is |-> is, reuse |-> reuse, udp |-> udp]
HK == Entry("HK", 1, "full", TRUE, TRUE)
JP == Entry("JP", 1, "full", TRUE, FALSE)
Again == Entry("HK", 2, "full", TRUE, FALSE)      \* the name of another node
Broken == Entry("US", 1, "partial", FALSE, FALSE)
Other == Entry("SG", 1, "other", FALSE, FALSE)
Small == Entry("hk", 1, "full", FALSE, FALSE)    \* but for case, that of another node
Named == Entry("proxy", 1, "full", TRUE, FALSE)  \* that of a group

Body(fmt, ns, lines, sealed, size) ==
  [fmt |-> fmt, nodes |-> ns, lines |-> lines, sealed |-> sealed, size |-> size]

Remotes == <<Ln("remote", "HK", <<>>), Ln("remote", "oixCloud", <<>>), Ln("remote", "JP", <<>>)>>
\* A whole profile; one with its own automatic group and a node in a group; one
\* without [Proxy], its groups last.
Full == <<Managed, Header("[General]"), Header(ProxyHdr)>> \o Builtin \o Remotes \o
        <<Header(GroupHdr), Ln("select", "Proxy", <<"oixCloud", "Direct">>),
          Ln("select", "Ads", <<"Block", "Direct">>), Header("[Rule]"), Ln("text", "", <<>>)>>
Auto == <<Header(ProxyHdr)>> \o Remotes \o
        <<Header(GroupHdr), Ln("select", "Proxy", <<"oixCloud", "JP">>), Ln("test", UrlTest, <<"HK">>)>>
\* One whose groups stand in the middle under a header in lower case, with an
\* automatic group spelled its own way and a member nothing defines.
Odd == <<Managed, Header("[proxy group]"), Ln("select", "Proxy", <<"oixCloud", "Lost">>),
         Ln("test", "auto - smart", <<"HK">>), Header(ProxyHdr)>> \o Builtin \o Remotes
Bare == <<Managed, Header("[proxy group]"), Ln("select", "Fixed", <<"oixCloud", "Direct">>)>>

MCLists ==
  {Body("yaml", <<HK, Other, JP>>, <<>>, sealed, 2) : sealed \in BOOLEAN}
  \cup {Body("yaml", <<HK, Again>>, <<>>, FALSE, 2), Body("yaml", <<HK, Broken>>, <<>>, FALSE, 2),
        Body("surge", <<HK, JP, Broken>>, Full, FALSE, 3), Body("surge", <<HK>>, Auto, TRUE, 3),
        Body("surge", <<HK, Small, Named>>, Odd, FALSE, 3)}
MCPages == {Body("other", <<>>, <<>>, FALSE, 4), Body("surge", <<>>, Bare, FALSE, 1)}

MCFilters == {<<>>, <<{"JP"}, {"JP", "HK"}>>, <<{"JP"}>>, <<{"US"}>>}
Listener(name, n) == [name |-> name, node |-> n, inRange |-> TRUE]
MCConfigs == {<<>>, <<[Listener("far", "HK") EXCEPT !.inRange = FALSE]>>, <<Listener("fixed", "HK")>>, <<Listener("ads", "JP")>>,
              <<Listener("home", "JP"), Listener("Home", "HK")>>,
              <<Listener("home", "HK"), Listener("away", "JP")>>, <<Listener("proxy", "HK")>>,
              <<Listener("a,b", "HK")>>}
MCLower == [n \in {"HK", "JP", "Ads", "Home", "Fixed", "Proxy", "Direct", "Block", Smart, UrlTest} |->
              CASE n = "HK" -> "hk" [] n = "JP" -> "jp" [] n = "Ads" -> "ads" [] n = "Home" -> "home"
                [] n = "Fixed" -> "fixed" [] n = "Proxy" -> "proxy" [] n = "Direct" -> "direct"
                [] n = "Block" -> "block" [] n = Smart -> "auto - smart" [] OTHER -> "auto - urltest"]

\* A filter that lets one of the two nodes of a template through.
OneList == {Body("surge", <<HK, JP>>, Auto, FALSE, 2)}
OneFilter == {<<{"HK"}>>}
NoConfig == {<<>>}
=============================================================================
