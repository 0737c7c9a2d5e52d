---------------------------- MODULE MCRecurringJob ----------------------------
(***************************************************************************)
(* Small instances of RecurringJob: one run that works through several     *)
(* batches of rules, some of which fail; two runs that overlap; a run and  *)
(* a request that writes a copy of the rule back.                          *)
(***************************************************************************)
EXTENDS RecurringJob

CONSTANTS r1, r2, c1

Cast(R, C, I, E, n) == [runs |-> R, clients |-> C, rules |-> I, edits |-> E, cap |-> n]

SmallCasts == {Cast({r1}, {}, {1, 2}, {"break"}, 1),
               Cast({r1, r2}, {}, {1}, {"delete"}, 2),
               Cast({r1}, {c1}, {1}, {"toggle", "end", "delete"}, 2)}
=============================================================================
