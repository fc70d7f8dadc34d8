---------------------------- MODULE MCHttpServer ----------------------------
(* HttpServer with two clients.  One sends two requests on its connection, *)
(* the other is silent: it only takes a worker, or waits for one.          *)
EXTENDS HttpServer

CONSTANTS c1, c2

OneTalks == [c \in Clients |-> IF c = c1 THEN 2 ELSE 0]
=============================================================================
