---------------------------- MODULE MCGeohash ----------------------------
(***************************************************************************)
(* Model-checking instance of Geohash: 8-bit geohashes, four halvings per  *)
(* axis, so an axis is -8..8 and corners reach past both ends.             *)
(***************************************************************************)
EXTENDS Geohash

\* Half-widths <<latitude, longitude>>: radius 0; boxes of one and two
\* cells; one whose longitude half-width spans the whole axis (a centre near
\* a pole, where 1/cos lat is huge); and the same with a negative radius.
MCWidths == {<<0, 0>>, <<1, 1>>, <<1, 2>>, <<2, 2 * Half + 1>>,
             <<-1, -2>>, <<-2, -(2 * Half + 1)>>}
===========================================================================
