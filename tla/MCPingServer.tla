---------------------------- MODULE MCPingServer ----------------------------
(***************************************************************************)
(* Two clients, one of them polite, and four requests: a bare header, one  *)
(* in which a partial match of the delimiter fails in its last byte, one   *)
(* with a byte of body, and one that never completes its header.           *)
(***************************************************************************)
EXTENDS PingServer

CONSTANTS c1, c2

MCRequests ==
  { <<"CR", "LF", "CR", "LF">>,
    <<"CR", "LF", "CR", "CR", "LF", "CR", "LF">>,
    <<"CR", "LF", "CR", "LF", "other">>,
    <<"other", "CR", "LF">> }

=============================================================================
