---------------------------- MODULE MCHttpServer ----------------------------
(* The instance of HttpServer for TLC.                                      *)
EXTENDS HttpServer, TLC
============================================================================
