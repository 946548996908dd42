----------------------------- MODULE MCTaskQueue -----------------------------
(* TaskQueue on small instances: ids are numbers because ORDER BY uses them. *)
EXTENDS TaskQueue

MCTasks == 1..2
MCDialects == {"Postgres", "Sqlite"}

=============================================================================
