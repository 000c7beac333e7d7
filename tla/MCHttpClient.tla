----------------------------- MODULE MCHttpClient -----------------------------
(* HttpClient on small instances. *)
EXTENDS HttpClient
===============================================================================
