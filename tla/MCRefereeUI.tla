---------------------------- MODULE MCRefereeUI ----------------------------
(* Two threads that reset, a label, a line and a circle.                *)
EXTENDS RefereeUI

MCLabels  == <<"cap">>
MCLines   == <<"gun">>
MCCircles == <<"enm">>
=============================================================================
