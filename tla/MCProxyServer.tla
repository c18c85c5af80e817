---------------------------- MODULE MCProxyServer ----------------------------
(***************************************************************************)
(* An instance of ProxyServer for TLC: two clients that share the flights  *)
(* of one chart whose version has two forms, and one that lists.           *)
(***************************************************************************)
EXTENDS ProxyServer

CONSTANTS k1

TwoForms == [k \in Charts |-> 2]
=============================================================================
