------------------------------ MODULE MCDnsRace ------------------------------
(* An instance of DnsRace for TLC: an A answer and a hint that overlap.    *)
EXTENDS DnsRace
MCAIps == {<<>>, <<1, 2>>}
MCHIps == {<<>>, <<2, 3, 2>>}
=============================================================================
