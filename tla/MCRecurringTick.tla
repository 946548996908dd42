--------------------------- MODULE MCRecurringTick ---------------------------
(* RecurringTick on small instances: a regular and an irregular schedule,   *)
(* both with occurrences beyond the clock's bound.                          *)
EXTENDS RecurringTick, TLC

CONSTANTS hourly, odd

MCSchedules == {hourly, odd}
MCFires == hourly :> {1, 2, 3, 4, 5} @@ odd :> {1, 3, 5}
MCDialects == {"Postgres", "Sqlite"}
MCSqlite == {"Sqlite"}

=============================================================================
