----------------------------- MODULE MCDownload -----------------------------
(* Download on small instances: one download from this node and two remote *)
(* ones, one of them excluded.                                              *)
EXTENDS Download

CONSTANTS here, n1, n2, d1
=============================================================================
