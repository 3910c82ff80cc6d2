------------------------- MODULE MCCollectorSession -------------------------
(* CollectorSession for TLC; its bounds are in CollectorSession.cfg.        *)
EXTENDS CollectorSession
=============================================================================
