-------------------------------- MODULE Watch --------------------------------
(***************************************************************************)
(* What watches Protek itself: the disk watchdog and the guard of the      *)
(* write-ahead log (disk_watchdog.py), the probe of the replica's disk and *)
(* the scan of Litestream's journal (litestream.py), the service levels    *)
(* (slo.py), the daily digest and the reminder of the recovery drill, all  *)
(* driven by the poller's cycle (poller.py).                               *)
(*                                                                         *)
(* The watchers write what they have told to the database they watch over: *)
(* a message comes first and the flag that it was sent is a write of its   *)
(* own, which fails on a full disk or a locked database and is lost when   *)
(* the process stops.                                                      *)
(***************************************************************************)
EXTENDS Integers, FiniteSets

CONSTANTS
    MaxEvents,    \* bound: what happens to the host, settings saved
    MaxFaults,    \* bound: probes, writes and commands that fail, processes that stop
    MaxLines,     \* bound: error lines in the journal
    LookBack,     \* how far back, in seconds, a scan without a cursor reads
    Foci          \* bound: the parts of the host that change in one behaviour

\* The disk may go to any band, or (room) fill up and be freed.
Part == {"disk", "room", "stage", "wal", "slo", "replica", "journal", "calendar"}

ASSUME WatchAssumption ==
    /\ {MaxEvents, MaxFaults, MaxLines, LookBack} \subseteq Nat
    /\ Foci \subseteq SUBSET Part

\* Bands of disk usage: below everything, in the hysteresis of the warning,
\* the warning, in the hysteresis of critical, critical, and no room at all.
Band == 0..5
Warn == 2
Critical == 4
Full == 5

Key == {"critical", "warn", "wal", "slo", "digest", "drill", "nodrill"}

VARIABLES
    up,        \* protek.service runs
    stopping,  \* systemd was asked to stop it
    poller,    \* where the cycle is
    level,     \* the band the disk is in
    shown,     \* the last row of disk_samples is critical
    flags,     \* what the settings say was told
    said,      \* what the operator was told and not told to be over
    twice,     \* history: told again although it stood
    lost,      \* history: a flag's write failed or never came
    wal,       \* size of the log: 0 small, 1 soft limit, 2 hard limit
    held,      \* a read holds checkpoints back
    stage,     \* Litestream's stage makes up most of the directory
    conf,      \* the settings that are on
    breach,    \* the service level is missed
    clock,     \* slo.breach_started_at: none, new, or older than the grace
    dest,      \* the replica's disk
    rate,      \* age of the last message of a category
    heard,     \* severities told about the replica since it recovered
    journal,   \* error lines, with their second
    second,    \* the journal's clock
    cursor,    \* litestream.journal_cursor
    seen,      \* lines some scan has gone through
    since,     \* history: where the scan that set the cursor began
    drill,     \* the last recovery drill
    focus,     \* the parts that change
    spent      \* events and faults so far

told == <<flags, said, twice, lost>>
host == <<stopping, level, shown, wal, held, stage>>
scan == <<cursor, seen, since>>
repl == <<dest, rate, heard, journal, second, scan>>
misc == <<conf, breach, clock, drill, focus>>
vars == <<up, poller, told, host, repl, misc, spent>>

-----------------------------------------------------------------------------
Step == {"wal", "stop", "usage", "critical", "warn", "body", "jobs", "scanned", "remember"}
Conf == {"slo", "autostop", "rebaseline", "reminder"}
About == [slo |-> "slo", autostop |-> "wal", rebaseline |-> "stage", reminder |-> "calendar"]
Line == [sec : 0..MaxEvents, no : 1..MaxLines]
Category == {"space", "other", "journal"}
Dest == {"ok", "warn", "critical", "full", "away"}

\* used: what usage() said; key, on, then: the flag to write, and what follows;
\* from, got: where a scan began and what it read.
At(step) ==
    [at |-> step, used |-> 0, key |-> "none", on |-> FALSE, then |-> "wal", from |-> 0, got |-> {}]

TypeOK ==
    /\ up \in BOOLEAN /\ stopping \in BOOLEAN
    /\ poller \in [at : Step, used : Band, key : Key \cup {"none"}, on : BOOLEAN, then : Step,
                   from : 0..(MaxEvents + 1), got : SUBSET Line]
    /\ level \in Band /\ shown \in BOOLEAN
    /\ flags \subseteq Key /\ said \subseteq Key /\ twice \subseteq Key /\ lost \subseteq Key
    /\ wal \in 0..2 /\ held \in BOOLEAN /\ stage \in BOOLEAN
    /\ conf \subseteq Conf /\ breach \in BOOLEAN /\ clock \in {"none", "new", "old"}
    /\ dest \in Dest
    /\ rate \in [Category -> {"none", "recent", "old"}] /\ heard \subseteq {"warn", "critical", "unwritable"}
    /\ journal \subseteq Line /\ second \in 0..MaxEvents /\ cursor \in 0..(MaxEvents + 1)
    /\ seen \subseteq Line /\ since \in 0..MaxEvents
    /\ drill \in {"none", "fresh", "old"} /\ focus \in Foci
    /\ spent \in [{"event", "fault"} -> Nat]

Init ==
    /\ up = TRUE /\ stopping = FALSE /\ poller = At("wal")
    /\ level = 0 /\ shown = FALSE
    /\ flags = {"digest"} /\ said = {"digest"} /\ twice = {} /\ lost = {}
    /\ wal = 0 /\ held = FALSE /\ stage = FALSE
    /\ focus \in Foci /\ conf \in {{"autostop"}, {c \in Conf : About[c] \in focus}}
    /\ breach = FALSE /\ clock = "none"
    /\ dest = "ok" /\ rate = [c \in Category |-> "none"] /\ heard = {}
    /\ journal = {} /\ second = 0 /\ cursor = 0 /\ seen = {} /\ since = 0
    /\ drill = "none"
    /\ spent = [k \in {"event", "fault"} |-> 0]

Limit == [event |-> MaxEvents, fault |-> MaxFaults]
Spend(k) == spent[k] < Limit[k] /\ spent' = [spent EXCEPT ![k] = @ + 1]
Event(part) == part \in focus /\ Spend("event")

Writable == level < Full
\* A statement raises on a full disk, or because the database is locked.
Saves(ok) ==
    \/ ok /\ Writable /\ UNCHANGED spent
    \/ ~ok /\ ~Writable /\ UNCHANGED spent
    \/ ~ok /\ Writable /\ Spend("fault")

\* A probe or a command may fail.
Tries(ok) == IF ok THEN UNCHANGED spent ELSE Spend("fault")

Goes(step) == poller' = At(step)
Is(step) == up /\ poller.at = step

-----------------------------------------------------------------------------
(* A message and the flag that remembers it *)

\* The message goes out; the write comes with the next step.
Tell(k, on, then) ==
    /\ said' = IF on THEN said \cup {k} ELSE said \ {k}
    /\ twice' = IF (k \in said) = on THEN twice \cup {k} ELSE twice
    /\ poller' = [At("remember") EXCEPT !.used = poller.used, !.key = k, !.on = on, !.then = then]
    /\ UNCHANGED <<flags, lost>>

Noted == [At(poller.then) EXCEPT !.used = IF poller.then = "warn" THEN poller.used ELSE 0]

MutantRemember(ok) ==
    /\ Is("remember") /\ Saves(ok)
    /\ UNCHANGED <<flags, lost>>
    /\ poller' = Noted
    /\ UNCHANGED <<up, said, twice, host, repl, misc>>

\* A write that raises is swallowed, by _remember or by the cycle.
Remember(ok) ==
    /\ Is("remember") /\ Saves(ok)
    /\ flags' = CASE ~ok -> flags [] ok /\ poller.on -> flags \cup {poller.key}
                  [] OTHER -> flags \ {poller.key}
    /\ lost' = IF ok THEN lost ELSE lost \cup {poller.key}
    /\ poller' = Noted
    /\ UNCHANGED <<up, said, twice, host, repl, misc>>

-----------------------------------------------------------------------------
(* Top of the cycle: check_wal_guard, then check_and_alert *)

\* PRAGMA wal_checkpoint(PASSIVE) merges what no read holds back.
Checkpointed == IF held THEN wal ELSE 0

\* Below the soft limit the flag goes, without a message.
WalSmall(ok) ==
    /\ wal = 0 /\ Goes("usage") /\ said' = said \ {"wal"}
    /\ IF "wal" \in flags THEN Saves(ok) ELSE UNCHANGED spent
    /\ flags' = IF ok THEN flags \ {"wal"} ELSE flags
    /\ lost' = IF ok THEN lost ELSE lost \cup (flags \cap {"wal"})
    /\ UNCHANGED <<twice, wal>>

MutantWalGuard(ok) ==
    /\ Is("wal")
    /\ \/ WalSmall(ok)
       \/ /\ wal > 0 /\ Tries(ok) /\ wal' = IF ok THEN Checkpointed ELSE wal
          /\ CASE wal = 2 /\ "wal" \notin flags -> Tell("wal", TRUE, "stop")
               [] OTHER -> Goes("usage") /\ UNCHANGED told
    /\ UNCHANGED <<up, stopping, level, shown, held, stage, repl, misc>>

\* Above it the log is judged by its size before the checkpoint, which may fail.
WalGuard(ok) ==
    /\ Is("wal")
    /\ \/ WalSmall(ok)
       \/ /\ wal > 0 /\ Tries(ok) /\ wal' = IF ok THEN Checkpointed ELSE wal
          /\ CASE wal = 2 /\ "wal" \notin flags -> Tell("wal", TRUE, "stop")
               [] wal = 2 /\ "wal" \in flags -> Goes("stop") /\ UNCHANGED told
               [] OTHER -> Goes("usage") /\ UNCHANGED told
    /\ UNCHANGED <<up, stopping, level, shown, held, stage, repl, misc>>

\* disk.wal_auto_stop: systemd is asked to stop the service.  Nobody looks at
\* the answer, and the cycle goes on.
AutoStop(ok) ==
    /\ Is("stop") /\ Goes("usage")
    /\ IF "autostop" \in conf THEN Tries(ok) /\ stopping' = (stopping \/ ok)
                             ELSE UNCHANGED <<spent, stopping>>
    /\ UNCHANGED <<up, told, level, shown, wal, held, stage, repl, misc>>

\* usage(): a probe that fails reads as an empty disk.
UsageRead(ok) == IF ok THEN level ELSE 0

MutantUsage(ok) ==
    /\ Is("usage") /\ Tries(ok)
    /\ poller' = IF Writable THEN [At("critical") EXCEPT !.used = UsageRead(ok)] ELSE At("wal")
    /\ UNCHANGED <<up, told, host, repl, misc>>

\* check_and_alert reads the usage once, before it writes anything.
Usage(ok) ==
    /\ Is("usage") /\ Tries(ok)
    /\ poller' = [At("critical") EXCEPT !.used = UsageRead(ok)]
    /\ UNCHANGED <<up, told, host, repl, misc>>

Threshold == [critical |-> Critical, warn |-> Warn]
After     == [critical |-> "warn", warn |-> "body"]

\* Critical first, then the warning; an alert at the threshold, a recovery
\* below the hysteresis.
Judge(k) ==
    /\ Is(k)
    /\ CASE poller.used >= Threshold[k] /\ k \notin flags -> Tell(k, TRUE, After[k])
         [] poller.used < Threshold[k] - 1 /\ k \in flags -> Tell(k, FALSE, After[k])
         [] OTHER -> poller' = [poller EXCEPT !.at = After[k]] /\ UNCHANGED told
    /\ UNCHANGED <<up, host, repl, misc, spent>>

\* sample() saves the row of /health, or fails unnoticed; then the cycle goes
\* on, unless one of its own writes raises and ends it.
Body(saved, on) ==
    /\ Is("body") /\ Saves(saved /\ on) /\ (saved \/ on => Writable)
    /\ shown' = IF saved THEN level >= Critical ELSE shown
    /\ Goes(IF on THEN "jobs" ELSE "wal")
    /\ UNCHANGED <<up, stopping, told, level, wal, held, stage, repl, misc>>

-----------------------------------------------------------------------------
(* The jobs further down, each in the cycles of its own count *)

CycleEnds ==
    /\ Is("jobs") /\ Goes("wal")
    /\ UNCHANGED <<up, told, host, repl, misc, spent>>

\* maybe_fire_daily.
Digest ==
    /\ Is("jobs") /\ "digest" \notin flags
    /\ Tell("digest", TRUE, "jobs")
    /\ UNCHANGED <<up, host, repl, misc, spent>>

\* The reminder is noted under the drill it is about.  Without any drill it
\* is noted under a word that no later check compares with.
Remind ==
    /\ Is("jobs") /\ "reminder" \in conf
    /\ \/ drill = "old" /\ "drill" \notin flags /\ Tell("drill", TRUE, "jobs")
       \/ drill = "none" /\ Tell("nodrill", TRUE, "jobs")
    /\ UNCHANGED <<up, host, repl, misc, spent>>

\* alert_if_breached: the first check in breach starts the clock, one after
\* the grace tells, a good one clears both, the clock first.
CheckSlo(ok) ==
    /\ Is("jobs") /\ "slo" \in conf
    /\ \/ /\ breach /\ clock = "none" /\ Saves(ok)
          /\ clock' = IF ok THEN "new" ELSE clock
          /\ UNCHANGED <<told, poller>>
       \/ /\ breach /\ clock = "old" /\ "slo" \notin flags /\ Tell("slo", TRUE, "jobs")
          /\ UNCHANGED <<clock, spent>>
       \/ /\ ~breach /\ "slo" \notin flags
          /\ IF clock = "none" THEN UNCHANGED spent ELSE Saves(ok)
          /\ clock' = IF ok THEN "none" ELSE clock
          /\ UNCHANGED <<told, poller>>
       \/ /\ ~breach /\ "slo" \in flags /\ (clock = "none" \/ ok)
          /\ IF clock = "none" THEN UNCHANGED spent ELSE Saves(ok)
          /\ clock' = "none" /\ Tell("slo", FALSE, "jobs")
       \/ /\ ~breach /\ "slo" \in flags /\ clock # "none" /\ ~ok /\ Saves(ok)
          /\ said' = said \ {"slo"} /\ lost' = lost \cup {"slo"}
          /\ twice' = IF "slo" \in said THEN twice ELSE twice \cup {"slo"}
          /\ UNCHANGED <<flags, poller, clock>>
    /\ UNCHANGED <<up, host, repl, conf, breach, drill, focus>>

CheckpointJob ==
    /\ Is("jobs") /\ wal' = Checkpointed
    /\ UNCHANGED <<up, poller, stopping, told, level, shown, held, stage, repl, misc, spent>>

\* _maybe_fire_probe: a message of a category, then the start of its hour.
MaybeFire(cat, what, ok) ==
    /\ rate' = IF ok /\ rate[cat] # "recent" THEN [rate EXCEPT ![cat] = "recent"] ELSE rate
    /\ heard' = IF rate[cat] # "recent" THEN heard \cup {what} ELSE heard

\* How the words of an error are read: a full disk does not always say so.
Refusal == [ok |-> {}, warn |-> {}, critical |-> {}, full |-> {"space", "other"}, away |-> {"other"}]

\* df fails, or the write, read and delete that follow it: told as a warning,
\* whatever df said.
ProbeFails(ok) ==
    \/ \E cat \in Refusal[dest] : Saves(ok) /\ MaybeFire(cat, "unwritable", ok)
    \/ Refusal[dest] = {} /\ Spend("fault") /\ MaybeFire("other", "unwritable", Writable)

\* The thresholds on what df said, after the writes of what was seen.  Only
\* space recovers, with a message.
ProbePasses(ok) ==
    /\ Refusal[dest] = {} /\ Saves(ok)
    /\ \/ ~ok /\ UNCHANGED <<rate, heard>>
       \/ /\ Writable /\ dest = "ok"
          /\ rate' = IF ok THEN [rate EXCEPT !["space"] = "none"] ELSE rate
          /\ heard' = {}
       \/ Writable /\ dest # "ok" /\ MaybeFire("space", dest, ok)

\* probe_replica_destination.
Probe ==
    /\ Is("jobs") /\ \E ok \in BOOLEAN : ProbeFails(ok) \/ ProbePasses(ok)
    /\ UNCHANGED <<up, poller, told, host, misc, dest, journal, second, scan>>

\* Where scan_journal_errors begins: at the cursor, or a while ago.
ScanFrom ==
    IF cursor > 0 THEN cursor ELSE IF second > LookBack THEN second - LookBack ELSE 0

\* journalctl answers with the lines from there on ...
ScanRead ==
    /\ Is("jobs")
    /\ poller' = [At("scanned") EXCEPT !.from = ScanFrom, !.got = {l \in journal : l.sec >= ScanFrom}]
    /\ UNCHANGED <<up, told, host, repl, misc, spent>>

\* ... they are told, at most once an hour, and the cursor moves a second past
\* the last of them, unless one of the two writes raises.
ScanDone(ok) ==
    /\ Is("scanned") /\ Goes("jobs")
    /\ IF poller.got = {} THEN UNCHANGED <<rate, scan, spent>> ELSE
       /\ Saves(ok)
       /\ rate' \in {[rate EXCEPT !["journal"] = "recent"]} \cup (IF ok THEN {} ELSE {rate})
       /\ IF ok
          THEN /\ seen' = seen \cup poller.got
               /\ since' = IF cursor = 0 THEN poller.from ELSE since
               /\ \E m \in poller.got : (\A l \in poller.got : l.sec <= m.sec) /\ cursor' = m.sec + 1
          ELSE UNCHANGED scan
    /\ UNCHANGED <<up, told, host, misc, dest, heard, journal, second>>

\* maybe_auto_rebaseline judges the last row that could be saved.  It never
\* looks whether the stage is gone: systemctl and the removal may fail.
MaybeRebaseline(l, ok) ==
    /\ Is("jobs") /\ "rebaseline" \in conf
    /\ shown /\ stage /\ Tries(ok)
    /\ l <= level /\ level' = l /\ stage' = ~ok
    /\ UNCHANGED <<up, poller, stopping, told, shown, wal, held, repl, misc>>

-----------------------------------------------------------------------------
(* The host, the operator and time *)

DiskChanges(l) ==
    /\ Event("disk") \/ (Event("room") /\ {l, level} = {0, Full})
    /\ level' = l /\ l # level
    /\ UNCHANGED <<up, poller, stopping, told, shown, wal, held, stage, repl, misc>>

StageGrows ==
    /\ Event("stage") /\ ~stage /\ stage' = TRUE
    /\ UNCHANGED <<up, poller, stopping, told, level, shown, wal, held, repl, misc>>

\* A long read, and the log that grows behind it.
ReadHolds ==
    /\ Event("wal") /\ held' = ~held
    /\ UNCHANGED <<up, poller, stopping, told, level, shown, wal, stage, repl, misc>>

WalGrows ==
    /\ Event("wal") /\ wal < 2
    /\ \E w \in (wal + 1)..2 : wal' = w
    /\ UNCHANGED <<up, poller, stopping, told, level, shown, held, stage, repl, misc>>

DestChanges(d) ==
    /\ Event("replica") /\ dest' = d /\ d # dest
    /\ UNCHANGED <<up, poller, told, host, misc, rate, heard, journal, second, scan>>

ErrorLine ==
    /\ "journal" \in focus /\ Cardinality(journal) < MaxLines
    /\ journal' = journal \cup {[sec |-> second, no |-> Cardinality(journal) + 1]}
    /\ UNCHANGED <<up, poller, told, host, misc, spent, dest, rate, heard, second, scan>>

SecondPasses ==
    /\ Event("journal") /\ second' = second + 1
    /\ UNCHANGED <<up, poller, told, host, misc, dest, rate, heard, journal, scan>>

HourPasses ==
    /\ \E c \in Category : rate[c] = "recent"
    /\ rate' = [c \in Category |-> IF rate[c] = "recent" THEN "old" ELSE rate[c]]
    /\ UNCHANGED <<up, poller, told, host, misc, spent, dest, heard, journal, second, scan>>

SloChanges ==
    /\ Event("slo") /\ breach' = ~breach
    /\ UNCHANGED <<up, poller, told, host, repl, conf, clock, drill, focus>>

GraceEnds ==
    /\ clock = "new" /\ clock' = "old"
    /\ UNCHANGED <<up, poller, told, host, repl, conf, breach, drill, focus, spent>>

Toggle(c) ==
    /\ Event(About[c])
    /\ conf' = IF c \in conf THEN conf \ {c} ELSE conf \cup {c}
    /\ UNCHANGED <<up, poller, told, host, repl, breach, clock, drill, focus>>

\* Another day: the last digest is of the day before.
DayTurns ==
    /\ Event("calendar") /\ poller.key # "digest"
    /\ flags' = flags \ {"digest"} /\ said' = said \ {"digest"}
    /\ UNCHANGED <<up, poller, twice, lost, host, repl, misc>>

CompleteDrill ==
    /\ Event("calendar") /\ poller.key \notin {"drill", "nodrill"}
    /\ drill' = "fresh"
    /\ flags' = flags \ {"drill", "nodrill"} /\ said' = said \ {"drill", "nodrill"}
    /\ UNCHANGED <<up, poller, twice, lost, host, repl, conf, breach, clock, focus>>

DrillAges ==
    /\ Event("calendar") /\ drill = "fresh" /\ drill' = "old"
    /\ UNCHANGED <<up, poller, told, host, repl, conf, breach, clock, focus>>

\* The process stops, in the middle of its cycle, and starts again.
Crash ==
    /\ up /\ Spend("fault")
    /\ Goes("wal")
    /\ lost' = IF poller.at = "remember" THEN lost \cup {poller.key} ELSE lost
    /\ UNCHANGED <<up, flags, said, twice, host, repl, misc>>

\* systemd stops the service.
Stopped ==
    /\ up /\ stopping
    /\ up' = FALSE /\ stopping' = FALSE /\ Goes("wal")
    /\ lost' = IF poller.at = "remember" THEN lost \cup {poller.key} ELSE lost
    /\ UNCHANGED <<flags, said, twice, level, shown, wal, held, stage, repl, misc, spent>>

\* The operator starts the service again; the log may have stayed as it was.
Started ==
    /\ ~up /\ Spend("event")
    /\ up' = TRUE /\ held' = FALSE /\ wal' \in {0, wal}
    /\ UNCHANGED <<poller, stopping, told, level, shown, stage, repl, misc>>

-----------------------------------------------------------------------------
Cycle ==
    \/ \E ok \in BOOLEAN : Remember(ok) \/ WalGuard(ok) \/ AutoStop(ok) \/ Usage(ok) \/ ScanDone(ok)
    \/ Judge("critical") \/ Judge("warn") \/ (\E saved, on \in BOOLEAN : Body(saved, on))
    \/ CycleEnds

Rebaseline == \E l \in Band, ok \in BOOLEAN : MaybeRebaseline(l, ok)

Job ==
    \/ Digest \/ Remind \/ (\E ok \in BOOLEAN : CheckSlo(ok))
    \/ CheckpointJob \/ Probe \/ ScanRead \/ Rebaseline

Next ==
    \/ Cycle \/ Job \/ Crash \/ Stopped \/ Started
    \/ (\E l \in Band : DiskChanges(l)) \/ StageGrows \/ ReadHolds \/ WalGrows
    \/ (\E d \in Dest : DestChanges(d)) \/ ErrorLine \/ SecondPasses \/ HourPasses
    \/ SloChanges \/ GraceEnds \/ (\E c \in Conf : Toggle(c)) \/ DayTurns \/ CompleteDrill \/ DrillAges

Spec == Init /\ [][Next]_vars

\* The cycle goes on; its jobs are finitely many, so it ends (SF: a scan
\* leaves them for a step); the count of a job comes up again and again in
\* the cycles that reach it (SF), whether the attempt then works or not; hours
\* pass, and systemd does what it was asked.
FairSpec ==
    /\ Spec
    /\ WF_vars(Cycle) /\ SF_vars(CycleEnds) /\ WF_vars(HourPasses) /\ WF_vars(Stopped)
    /\ SF_vars(Probe) /\ SF_vars(Rebaseline)

-----------------------------------------------------------------------------
\* check_and_alert and its like: nobody is told the same thing twice in a row,
\* except after a write of its flag that failed (a full disk, a locked database)
\* or never came, and for the reminder while no drill was ever recorded.
OnceEach == (twice \ {"nodrill"}) \subseteq lost

\* check_and_alert, "a watchdog must not depend on the resource it watches":
\* a disk that stays critical is told, also when it is so full that every
\* cycle ends in an error, unless the flag of an earlier message is wrong.
DiskTold ==
    (up /\ level >= Critical) ~> ("critical" \in said \/ level < Critical \/ ~up \/ "critical" \in lost)

\* check_wal_guard: a log that stays over the hard limit stops the service,
\* told before or not and whatever an attempt to stop it came to, as long as
\* not every one fails.
WalStops ==
    (up /\ wal = 2 /\ "autostop" \in conf) ~> (~up \/ wal < 2 \/ "autostop" \notin conf)

\* probe_replica_destination: that the replica's disk is critical is told,
\* even if a warning has just used up the hour of the category.  One that can
\* no longer be written to is told as such, but never as critical.
ReplicaTold ==
    /\ (up /\ dest = "critical") ~> ("critical" \in heard \/ dest # "critical" \/ ~up \/ level = Full)
    /\ (up /\ dest = "full") ~> ("unwritable" \in heard \/ dest # "full" \/ ~up \/ level = Full)

\* maybe_auto_rebaseline: a disk that stays critical (and not full) while the
\* stage makes up most of the directory is relieved of the stage, after samples
\* that were not saved and attempts that failed unnoticed, as long as not every
\* one fails.
Relieved ==
    LET stuck == up /\ "rebaseline" \in conf /\ stage /\ level = Critical
    IN stuck ~> ~stuck

\* scan_journal_errors: from where the first successful scan began, only a line
\* of the same second as one that was gone through can be passed over.
PassedOver ==
    \A l \in journal \ seen : since <= l.sec /\ l.sec < cursor => \E m \in seen : m.sec = l.sec

\* No message twice, no line of the journal left out without a reason.
MessagesSound == TypeOK /\ OnceEach /\ PassedOver

\* Trouble that stays is told ...
TroubleTold == DiskTold /\ ReplicaTold

\* ... and what can be done about it is done.
TroubleStopped == WalStops /\ Relieved
=============================================================================
