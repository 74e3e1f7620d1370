---------------------------- MODULE MCHttpServer ----------------------------
(* HttpServer for TLC: more connections than workers, so that jobs wait.     *)
EXTENDS HttpServer

=============================================================================
