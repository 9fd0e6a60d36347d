----------------------------- MODULE MCService -----------------------------
(* Small instances of Service: one or two requests on each server.          *)
EXTENDS Service, TLC

CONSTANTS h1, h2, g1

Interchangeable == Permutations(HttpRequests)
=============================================================================
