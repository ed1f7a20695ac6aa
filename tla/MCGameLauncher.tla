--------------------------- MODULE MCGameLauncher ---------------------------
(* Sessions that ask for the latest world, the first one or a new one. *)
EXTENDS GameLauncher

Latest == [new |-> FALSE, pinned |-> 0, version |-> 1, auto |-> FALSE]
SessionConfigs ==
    {Latest, [Latest EXCEPT !.version = 2, !.auto = TRUE],
     [Latest EXCEPT !.pinned = 1], [Latest EXCEPT !.new = TRUE, !.version = 2]}
=============================================================================
