------------------------------ MODULE Alerting ------------------------------
(***************************************************************************)
(* One rule of alerting.py: debounce, deduplicated notices, silences.      *)
(* (The rules share nothing but the snapshot that tick() takes first.)     *)
(*                                                                         *)
(* tick() is called by the poller at the end of every cycle and by every   *)
(* view of /alerts/rules, in any web process: each call takes a snapshot,  *)
(* loads the rule's row, looks for a silence and notifies, and saves the   *)
(* row, with no lock around the four.                                      *)
(***************************************************************************)
EXTENDS Integers

CONSTANTS
    Poller, Viewer,     \* the two kinds of caller of tick()
    Debounce,           \* consecutive matches a rule needs
    MaxOf               \* bound: how often each kind of event happens

AlertEvent == {"flip", "silence", "restart", "view"}

ASSUME AlertAssumption ==
    /\ Poller # Viewer
    /\ Debounce \in Nat \ {0}
    /\ MaxOf \in [AlertEvent -> Nat]

Caller == {Poller, Viewer}

VARIABLES
    cond,       \* what the rule's predicate says of the system now
    row,        \* the rule's row of alert_states
    silenced,   \* a silence that matches the rule has not run out
    call,       \* the locals of each caller's tick()
    told,       \* the last notice sent
    repeated,   \* some notice repeated the one before it
    cycles,     \* complete ticks of the poller, in a row, that saw the problem
    used        \* events so far

alertVars == <<cond, row, silenced, call, told, repeated, cycles, used>>

-----------------------------------------------------------------------------
\* consecutive is only compared with the debounce: it is counted up to there.
StateRow == [firing : BOOLEAN, consecutive : 0..Debounce]

Idle == [pc |-> "idle", firingNow |-> FALSE, prev |-> [firing |-> FALSE, consecutive |-> 0],
         suppressed |-> FALSE]

CallState ==
    [pc : {"idle", "load", "notify", "save"}, firingNow : BOOLEAN, prev : StateRow,
     suppressed : BOOLEAN]

AlertTypeOK ==
    /\ cond \in BOOLEAN /\ silenced \in BOOLEAN /\ repeated \in BOOLEAN
    /\ row \in StateRow
    /\ call \in [Caller -> CallState]
    /\ told \in {"none", "firing", "resolved"}
    /\ cycles \in 0..Debounce
    /\ used \in [AlertEvent -> Nat]

Spend(e) == used[e] < MaxOf[e] /\ used' = [used EXCEPT ![e] = @ + 1]

Up(n) == IF n < Debounce THEN n + 1 ELSE Debounce

-----------------------------------------------------------------------------
(* tick() *)

\* _state_snapshot and the predicate.
Snapshot(c) ==
    /\ call[c].pc = "idle"
    /\ call' = [call EXCEPT ![c] = [Idle EXCEPT !.pc = "load", !.firingNow = cond]]
    /\ UNCHANGED <<cond, row, silenced, told, repeated, cycles>>

PollerTick == Snapshot(Poller) /\ UNCHANGED used

PageView == Snapshot(Viewer) /\ Spend("view")

\* _load_state
Load(c) ==
    /\ call[c].pc = "load"
    /\ call' = [call EXCEPT ![c] = [call[c] EXCEPT !.pc = "notify", !.prev = row]]
    /\ UNCHANGED <<cond, row, silenced, told, repeated, cycles, used>>

\* Mutant: the count is kept when the predicate no longer holds.
ConsecutiveKept(k) == IF k.firingNow THEN Up(k.prev.consecutive) ELSE k.prev.consecutive

\* Mutant: the count goes down by one instead of starting over.
ConsecutiveDecays(k) ==
    IF k.firingNow THEN Up(k.prev.consecutive) ELSE k.prev.consecutive - 1

Consecutive(k) == IF k.firingNow THEN Up(k.prev.consecutive) ELSE 0

Active(k) == Consecutive(k) = Debounce

Send(kind) == told' = kind /\ repeated' = (repeated \/ told = kind)

\* Mutant: the stored firing flag is not looked at.
FiresEveryTime(k) == Active(k)

Fires(k) == Active(k) /\ ~k.prev.firing

\* Mutant: the way out keeps the debounce test of the way in.
ResolvesDebounced(k) == k.prev.firing /\ ~k.firingNow /\ Active(k)

Resolves(k) == k.prev.firing /\ ~k.firingNow

\* is_silenced and _notify
Notify(c) ==
    /\ call[c].pc = "notify"
    /\ call' = [call EXCEPT ![c] = [call[c] EXCEPT !.pc = "save", !.suppressed = silenced]]
    /\ CASE Fires(call[c]) /\ ~silenced    -> Send("firing")
         [] Resolves(call[c]) /\ ~silenced -> Send("resolved")
         [] OTHER                          -> UNCHANGED <<told, repeated>>
    /\ UNCHANGED <<cond, row, silenced, cycles, used>>

\* Mutant: firing is stored whether or not anybody was told.
StoredAlways(k) == [firing |-> Active(k), consecutive |-> Consecutive(k)]

Stored(k) == [firing |-> Active(k) /\ ~k.suppressed, consecutive |-> Consecutive(k)]

\* _save_state
Save(c) ==
    /\ call[c].pc = "save"
    /\ row' = Stored(call[c])
    /\ call' = [call EXCEPT ![c] = Idle]
    /\ cycles' = CASE c # Poller          -> cycles
                   [] call[c].firingNow   -> Up(cycles)
                   [] OTHER               -> 0
    /\ UNCHANGED <<cond, silenced, told, repeated, used>>

-----------------------------------------------------------------------------
(* The surroundings *)

Flip ==
    /\ Spend("flip")
    /\ cond' = ~cond
    /\ UNCHANGED <<row, silenced, call, told, repeated, cycles>>

AddSilence ==
    /\ Spend("silence")
    /\ silenced' = TRUE
    /\ UNCHANGED <<cond, row, call, told, repeated, cycles>>

\* It is removed, or its until_at passes.
SilenceEnds ==
    /\ silenced
    /\ silenced' = FALSE
    /\ UNCHANGED <<cond, row, call, told, repeated, cycles, used>>

\* The service restarts in the middle of a call.
Restart ==
    /\ Spend("restart")
    /\ call' = [c \in Caller |-> Idle]
    /\ UNCHANGED <<cond, row, silenced, told, repeated, cycles>>

AlertInit ==
    /\ cond = FALSE /\ silenced = FALSE
    /\ row = [firing |-> FALSE, consecutive |-> 0]
    /\ call = [c \in Caller |-> Idle]
    /\ told = "none" /\ repeated = FALSE /\ cycles = 0
    /\ used = [e \in AlertEvent |-> 0]

Goes(c) == Load(c) \/ Notify(c) \/ Save(c)

AlertNext ==
    \/ PollerTick \/ PageView
    \/ \E c \in Caller : Goes(c)
    \/ Flip \/ AddSilence \/ SilenceEnds \/ Restart

AlertSpec == AlertInit /\ [][AlertNext]_alertVars

\* The poller loops for ever and a silence has an end.
AlertFairSpec ==
    /\ AlertSpec
    /\ WF_alertVars(PollerTick)
    /\ \A c \in Caller : WF_alertVars(Goes(c))
    /\ WF_alertVars(SilenceEnds)

-----------------------------------------------------------------------------
(* Properties *)

Undisturbed == \A e \in {"silence", "restart", "view"} : used[e] = 0

\* Deduplication: without silences, crashes and page views a firing notice is
\* followed by a resolved notice and the other way round.
NoticesAlternate == Undisturbed => ~repeated

\* A rule fires in the Debounce-th cycle of the poller in a row that sees the
\* problem, and not before: also after silences and crashes, as long as nobody
\* looks at the page.
DebouncedUnseen ==
    [][told # "firing" /\ told' = "firing" => cycles >= Debounce - 1 \/ used.view > 0]_alertVars

\* A lasting problem is announced in the end, and the last word is not that
\* it is resolved: also after silences.  (A crash between a resolved notice
\* and the save that follows it can swallow the next firing one.)
ProblemTold ==
    <>[](cond /\ ~silenced /\ used.view + used.restart = 0 => told = "firing")

\* A problem that was announced and is gone is announced as resolved.
ResolvedTold == <>[](~cond /\ Undisturbed => told # "firing")
=============================================================================
