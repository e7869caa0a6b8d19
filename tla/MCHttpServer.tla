---------------------------- MODULE MCHttpServer ----------------------------
(***************************************************************************)
(* Requests of every path through a session.                               *)
(***************************************************************************)
EXTENDS HttpServer

Get == [refused |-> FALSE, body |-> FALSE, upgrade |-> FALSE, named |-> TRUE,
        keep |-> TRUE]

MCRequests ==
  { Get,
    [Get EXCEPT !.keep = FALSE],
    [Get EXCEPT !.refused = TRUE, !.named = FALSE, !.body = TRUE],
    [Get EXCEPT !.body = TRUE],
    [Get EXCEPT !.upgrade = TRUE],
    [Get EXCEPT !.upgrade = TRUE, !.named = FALSE] }

\* one client asks, the other only connects
MCMaxRequests == <<3, 0>>
=============================================================================
