---------------------------- MODULE MCPerceptionLoop ----------------------------
(* Two people whose boxes overlap, and a box at the edge of the image that  *)
(* rounds to no pixel.                                                      *)
EXTENDS PerceptionLoop

CONSTANTS left, right, edge

MCIou ==
  [p \in Boxes \X Boxes |->
     CASE p[1] = p[2] -> 2
       [] {p[1], p[2]} = {left, right} -> 1
       [] OTHER -> 0]

MCPictures == {<<>>, <<left>>, <<right>>, <<left, right>>, <<edge>>}
================================================================================
