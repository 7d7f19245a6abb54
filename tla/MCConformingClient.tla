-------------------------- MODULE MCConformingClient --------------------------
(* ConformingClient for TLC: every header over ids of two bits.             *)
EXTENDS ConformingClient

MCHeaders == Header
===============================================================================
