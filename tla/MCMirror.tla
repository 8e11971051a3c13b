------------------------------ MODULE MCMirror ------------------------------
(***************************************************************************)
(* A small instance of Mirror for TLC: two decision identities and two     *)
(* bans by each LAPI, so that one is renewed, or one comes while another   *)
(* goes.                                                                   *)
(***************************************************************************)
EXTENDS Mirror

At(E) == [e \in Event |-> IF e \in E THEN 1 ELSE 0]

\* A LAPI that stays away (six failures take the backoff past its limit), a
\* local source, another one, and one with a local unban.
MCPlans == {[At({"restart"}) EXCEPT !.lapi = 6],
            At({"lapi", "db", "switch", "restart"}),
            At({"lapi", "reply", "restart", "readd", "pause"}), At({"reply", "restart", "pause", "unban"})}
=============================================================================
