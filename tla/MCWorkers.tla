----------------------------- MODULE MCWorkers -----------------------------
(***************************************************************************)
(* Workers for TLC: the listen statements of the configuration.            *)
(***************************************************************************)
EXTENDS Workers

MCEndpoints == [host : Host, port : {"number", "missing"}]
\* A single IPv4 address.
MCOneAddress == [host : {"v4"}, port : {"number"}]
=============================================================================
