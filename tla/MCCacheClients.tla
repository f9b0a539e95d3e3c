--------------------------- MODULE MCCacheClients ---------------------------
(* The calls of the instance, and which clients run beside which.          *)
EXTENDS CacheClients

MCCalls == CallsOf

MCTogether == {Requests, Checks, Others}
=============================================================================
