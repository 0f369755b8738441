--------------------------- MODULE MCDnsSettings ---------------------------
(* An instance of DnsSettings for TLC: the system has one name server, which *)
(* a VPN server may push as well.                                            *)
EXTENDS DnsSettings, TLC

CONSTANTS sys, a, b

MCSysServers == <<sys>>
MCPushed == {<<a>>, <<b, sys>>}
MCSymmetry == Permutations(Workers)
=============================================================================
