----------------------------- MODULE MCGeoIndex -----------------------------
(***************************************************************************)
(* Small instances of GeoIndex for TLC: cells of 10 by 10, one point in    *)
(* the pickup's own cell, west of the meridian as San Francisco is, and    *)
(* one in each further ring along a diagonal.                              *)
(***************************************************************************)
EXTENDS GeoIndex

Corner == <<5, -5>>
NextTo == <<15, -15>>
Beyond == <<25, -25>>
Away   == <<35, -35>>

OneCorner == {Corner}

FourPoints  == {Corner, NextTo, Beyond, Away}
ThreePoints == {Corner, Beyond, Away}
TwoPoints   == {Corner, Beyond}
=============================================================================
