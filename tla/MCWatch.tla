------------------------------- MODULE MCWatch -------------------------------
(***************************************************************************)
(* A small instance of Watch for TLC: the disk together with one other     *)
(* part of the host, or the journal or the calendar alone.                 *)
(***************************************************************************)
EXTENDS Watch

MCFoci ==
    {{"disk", "stage"}, {"room", "wal"}, {"room", "slo"}, {"room", "replica"}, {"journal"}, {"calendar"}}
=============================================================================
