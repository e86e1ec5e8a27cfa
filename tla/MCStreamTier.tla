---------------------------- MODULE MCStreamTier ----------------------------
(* Constants for the tier: one query, two DELETE requests that race on it,  *)
(* one client, one property.                                                *)
EXTENDS StreamTier

CONSTANTS q1, h1, d1, d2, p1

MCOneQuery   == {q1}
MCHandler    == {h1}
MCOneDeleter == {d1}
MCDeleters   == {d1, d2}
MCProperty   == {p1}
=============================================================================
