------------------------------ MODULE MCLadder ------------------------------
EXTENDS LadderWaves

\* The boards an attempt may leave: clean; clean but for a starved thermal; clean
\* to the router, open to KiCad; open with little or much copper, a pour's pad
\* among the open ones or not.
Board(count, kicad, starved, pours, copper, pourOpen) ==
    [count |-> count, kicad |-> kicad, starved |-> starved, pours |-> pours,
     copper |-> copper, pourOpen |-> pourOpen]

SomeBoards ==
    {Board(0, 0, 0, 0, 1, FALSE), Board(0, 1, 0, 1, 1, FALSE),
     Board(1, 0, 0, 0, 1, FALSE), Board(1, 0, 1, 0, 0, TRUE)}

Lattices == <<100, 75>>
TwoLayers == <<"connect", "skeleton", "tracks">>
FourLayers == <<"connect", "stubs", "tracks">>

Kind(layout, rungs, steps, fit, clocked, fates) ==
    [layout |-> layout, rungs |-> rungs, probing |-> rungs # TwoLayers, steps |-> steps,
     fit |-> fit, clocked |-> clocked, asked |-> {}, kept |-> <<>>, measures |-> <<>>,
     top |-> 0, fates |-> fates]

\* A layout's final ladder, with the skeleton asked for, the caller's board kept
\* and only the best by the router's measures checked.
FinalLadder ==
    [Kind(TRUE, <<"skeleton", "tracks">>, {"clearance"}, 1, TRUE, {"panic", "checkPanic", "error"})
       EXCEPT !.asked = {"skeleton"}, !.kept = <<1, 0>>, !.measures = <<<<1, 1>>>>, !.top = 1]

\* Route mode on two layers, with a deadline, and on four, probed; a layout's
\* ladder on two layers and on four.
LadderRuns ==
    {Kind(FALSE, TwoLayers, {"narrow"}, 2, TRUE, {"panic"}),
     Kind(FALSE, FourLayers, {"narrow", "clearance"}, 1, FALSE, {"panic", "checkPanic", "error"}),
     Kind(TRUE, TwoLayers, {"narrow"}, 2, FALSE, {"panic"}),
     Kind(TRUE, FourLayers, {"clearance"}, 1, FALSE, {}),
     FinalLadder}
=============================================================================
