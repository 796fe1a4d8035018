--------------------------- MODULE MCEngineArtifacts ---------------------------
(* Two models, one of which may have a twin of the same stem; two custom      *)
(* datasets whose files have the same names; a frame of 640 by 480 that the   *)
(* detector halves, with a person near the corner, one over the edge, one     *)
(* that is not sure and something else.                                       *)
EXTENDS EngineArtifacts

CONSTANTS best, other, twin

MCModels == <<best, other, twin>>
MCStem == [m \in {best, other, twin} |-> IF m = other THEN "yolo" ELSE "best"]

MCPresent == { {best, other}, {best, twin} }

Custom(id, name, classes) ==
  [id |-> id, name |-> name, classes |-> classes, images |-> {<<"a">>, <<"b">>},
   labels |-> IF id = 1 THEN {<<"a">>} ELSE {<<"b">>}]
MCCustoms == { <<>>,
  << Custom(1, <<"hall">>, "c6"), Custom(2, <<"yard", "hall">>, "c6") >>,
  << Custom(1, <<"hall">>, "c6"), Custom(2, <<"hall">>, "c6") >>,
  << Custom(1, <<"hall">>, "c6"), Custom(2, <<"yard">>, "c1") >> }

MCScenes == { <<>>,
  << Det(20, 40, 100, 200, 90, 0), Det(560, 300, 120, 200, 60, 0),
     Det(300, 100, 80, 80, 10, 0), Det(400, 60, 40, 60, 80, 1) >> }
================================================================================
