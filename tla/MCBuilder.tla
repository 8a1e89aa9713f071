----------------------------- MODULE MCBuilder -----------------------------
(* An instance of Builder for TLC.                                          *)
EXTENDS Builder, TLC

CONSTANTS r1, r2, r3

\* Runs one after the other that may die; the same with commits that fail, and
\* with a blueprint that is kept; two runs at once with every fault.
MCEnvironments ==
  LET serial == [runs |-> Runs, live |-> 1, keep |-> FALSE, commitFails |-> FALSE,
                 removalFails |-> FALSE, crashes |-> TRUE]
  IN {serial,
      [serial EXCEPT !.commitFails = TRUE, !.runs = {r1, r2}],
      [serial EXCEPT !.keep = TRUE, !.runs = {r1, r2}],
      [serial EXCEPT !.live = 2, !.runs = {r1, r2}, !.commitFails = TRUE,
                     !.removalFails = TRUE]}
=============================================================================
