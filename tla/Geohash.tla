------------------------------ MODULE Geohash ------------------------------
(***************************************************************************)
(* StaxQueryBuilder._encodeGeohash and the two geographic branches of      *)
(* _processCriterion (src/stax_js/index.js): {lat, lon} becomes the range  *)
(* [h, h] of its geohash, and {near: {lat, lon}, radius} the range between *)
(* the geohashes of the two corners of a bounding box, swapped if needed.  *)
(*                                                                         *)
(* Scaling.  The encoder halves [-90, 90] and [-180, 180]; every bound and *)
(* midpoint it computes is a dyadic fraction of the axis, so coordinates   *)
(* are kept as integers in units of one cell after Precision/2 halvings:   *)
(* an axis is [-Half, Half] with Half = 2^(Precision/2 - 1), and all of    *)
(* the encoder's arithmetic is exact, as it is in the double arithmetic of *)
(* the code.  The code's precision is 64; here it is Precision, small      *)
(* enough for TLC's integers.                                              *)
(*                                                                         *)
(* Radius.  The code turns a radius in metres into a latitude half-width   *)
(* radius/111320 and a longitude half-width radius/(111320 cos lat).  For  *)
(* a latitude in [-90, 90], cos lat >= 0 (6e-17 at the poles), so the two  *)
(* half-widths have the sign of the radius; the longitude one is the       *)
(* larger, without bound near a pole.  The model takes the two half-widths *)
(* from Widths, pairs of one sign.                                         *)
(***************************************************************************)
EXTENDS Integers, Sequences

CONSTANTS
    Precision,  \* bits of a geohash (the code: 64)
    Widths      \* <<latitude, longitude>> half-widths of a radius box

ASSUME Precision \in {2 * k : k \in 1..7}

VARIABLES
    step   \* <<the last geographic step _processCriterion pushed>>, or <<>>

vars == <<step>>

Half == 2 ^ (Precision \div 2 - 1)

GeohashValues == 0..(2 ^ Precision - 1)

---------------------------------------------------------------------------
(* The encoder                                                             *)

\* One iteration of the loop: shift, halve the current axis at its midpoint,
\* set the bit and raise the lower bound if the coordinate is above the
\* midpoint, else lower the upper bound; then switch axis.
EncodeIter(st, lat, lon) ==
    LET gh == 2 * st.gh IN
    IF st.isLon
    THEN LET mid == st.lonMin + (st.lonMax - st.lonMin) \div 2 IN
         IF lon > mid THEN [st EXCEPT !.gh = gh + 1, !.lonMin = mid, !.isLon = FALSE]
                      ELSE [st EXCEPT !.gh = gh, !.lonMax = mid, !.isLon = FALSE]
    ELSE LET mid == st.latMin + (st.latMax - st.latMin) \div 2 IN
         IF lat > mid THEN [st EXCEPT !.gh = gh + 1, !.latMin = mid, !.isLon = TRUE]
                      ELSE [st EXCEPT !.gh = gh, !.latMax = mid, !.isLon = TRUE]

RECURSIVE EncodeLoop(_, _, _, _)
EncodeLoop(i, st, lat, lon) ==
    IF i = 0 THEN st ELSE EncodeLoop(i - 1, EncodeIter(st, lat, lon), lat, lon)

EncodeGeohashLatFirst(lat, lon, precision) ==
    EncodeLoop(precision,
               [gh |-> 0, latMin |-> -Half, latMax |-> Half,
                lonMin |-> -Half, lonMax |-> Half, isLon |-> FALSE], lat, lon).gh

EncodeGeohashOneMore(lat, lon, precision) ==
    EncodeLoop(precision + 1,
               [gh |-> 0, latMin |-> -Half, latMax |-> Half,
                lonMin |-> -Half, lonMax |-> Half, isLon |-> TRUE], lat, lon).gh

\* _encodeGeohash(lat, lon, precision): `precision` iterations, longitude
\* first.
EncodeGeohash(lat, lon, precision) ==
    EncodeLoop(precision,
               [gh |-> 0, latMin |-> -Half, latMax |-> Half,
                lonMin |-> -Half, lonMax |-> Half, isLon |-> TRUE], lat, lon).gh

---------------------------------------------------------------------------
(* Reference: the Z-order (Morton) code of the cells of the two axes.      *)

\* The cell of an axis coordinate after Precision/2 halvings: cell c holds
\* (-Half + c, -Half + c + 1]; coordinates off the axis go to the end cells.
Cell(x) ==
    LET c == x + Half - 1 IN
    IF c < 0 THEN 0 ELSE IF c > 2 * Half - 1 THEN 2 * Half - 1 ELSE c

Bit(n, j) == (n \div 2 ^ j) % 2

\* Longitude bits at the odd positions, latitude bits at the even ones.
Morton(lat, lon) ==
    LET RECURSIVE Sum(_)
        Sum(j) == IF j < 0 THEN 0
                  ELSE Bit(Cell(lon), j) * 2 ^ (2 * j + 1)
                       + Bit(Cell(lat), j) * 2 ^ (2 * j) + Sum(j - 1)
    IN  Sum(Precision \div 2 - 1)

---------------------------------------------------------------------------
(* _processCriterion's geographic branches                                 *)

NearRangeNoSwap(lat, lon, w) ==
    [gte |-> EncodeGeohash(lat - w[1], lon - w[2], Precision),
     lte |-> EncodeGeohash(lat + w[1], lon + w[2], Precision)]

\* {near: {lat, lon}, radius}: encode the south-west and north-east corners
\* of the box; swap them if the first is the larger.
NearRange(lat, lon, w) ==
    LET gte == EncodeGeohash(lat - w[1], lon - w[2], Precision)
        lte == EncodeGeohash(lat + w[1], lon + w[2], Precision)
    IN  IF gte > lte THEN [gte |-> lte, lte |-> gte] ELSE [gte |-> gte, lte |-> lte]

ProcessNear(lat, lon, w) ==
    step' = <<[lat |-> lat, lon |-> lon, w |-> w, value |-> NearRange(lat, lon, w)]>>

\* {lat, lon}: an exact point, the range [h, h].
ProcessPoint(lat, lon) ==
    LET h == EncodeGeohash(lat, lon, Precision)
    IN  step' = <<[lat |-> lat, lon |-> lon, w |-> <<0, 0>>,
                   value |-> [gte |-> h, lte |-> h]]>>

Init == step = <<>>

\* Centres on the axes; corners may fall one cell beyond them.
Centres == -Half..Half

Next ==
    \/ \E lat, lon \in Centres, w \in Widths : ProcessNear(lat, lon, w)
    \/ \E lat, lon \in Centres : ProcessPoint(lat, lon)

Spec == Init /\ [][Next]_vars

---------------------------------------------------------------------------
(* Properties                                                              *)

TypeOK ==
    \A k \in DOMAIN step :
        {step[k].value.gte, step[k].value.lte} \subseteq GeohashValues

\* The encoder computes the Z-order code of the point's cells, longitude
\* bit first: the two ends of every range pushed, for a point on the axes
\* or for a corner up to a box width beyond them, are the Morton codes of
\* the corners they were computed from.
EncoderIsMorton ==
    \A k \in DOMAIN step :
        LET s == step[k] IN
        {s.value.gte, s.value.lte}
            = {Morton(s.lat - s.w[1], s.lon - s.w[2]), Morton(s.lat + s.w[1], s.lon + s.w[2])}

\* A radius query has no false negatives: every point of the bounding box,
\* the centre included, has a geohash inside the range the step carries.
BoxInsideRange ==
    \A k \in DOMAIN step :
        LET s == step[k]
            lo(c, d) == IF d >= 0 THEN c - d ELSE c + d
            hi(c, d) == IF d >= 0 THEN c + d ELSE c - d
        IN  \A lat \in lo(s.lat, s.w[1])..hi(s.lat, s.w[1]),
               lon \in lo(s.lon, s.w[2])..hi(s.lon, s.w[2]) :
                s.value.gte <= EncodeGeohash(lat, lon, Precision)
                /\ EncodeGeohash(lat, lon, Precision) <= s.value.lte
===========================================================================
