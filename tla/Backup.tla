------------------------------- MODULE Backup -------------------------------
(***************************************************************************)
(* Backups (backup.py): run_backup, the off-box copy, retention and the    *)
(* restore tests, as the poller's schedule, the nightly timer and the page *)
(* call them; and hygiene's verdict on them (hygiene.py).                  *)
(*                                                                         *)
(* A bundle is written in place, so it is there before it is whole, and a  *)
(* process that stops leaves what it had written.  Bundles are numbered in *)
(* the order of the times in their names.  No clock is kept: an interval   *)
(* is over when TimePasses says so.                                        *)
(***************************************************************************)
EXTENDS Integers, FiniteSets

CONSTANTS
    Poller, Other,   \* the poller's thread; the timer's process or a page
    Keep,            \* daily_keep and monthly_keep
    MaxBundle,       \* bound: bundles
    MaxChanges,      \* bound: intervals that end, buttons, settings saved
    MaxFailures      \* bound: calls that fail, processes that stop

Actor == {Poller, Other}
Kind  == {"daily", "monthly", "manual"}
Store == {"local", "s3"}

ASSUME BackupAssumption ==
    /\ Poller # Other
    /\ Keep \in Nat \ {0}
    /\ {MaxBundle, MaxChanges, MaxFailures} \subseteq Nat

VARIABLES
    bundles,    \* in each store
    last,       \* the newest number
    had,        \* the stores that ever had a whole bundle
    enabled,    \* backup.enabled
    backend,    \* backup.backend
    offsite,    \* a bucket is configured
    daily,      \* the age of backup.last_daily_at
    due,        \* the other intervals that are over
    monthlyMade,\* backup.last_monthly_at is set
    owed,       \* history: no daily or monthly run has ended well since the day was over
    everOk,     \* latest_successful finds a run
    tested,     \* last_test_ok of the main store's test, and of the off-box one
    shipped,    \* backup.offsite.last_at is set
    job,        \* what each actor is at
    alerted,    \* hygiene's findings that were told
    usedUp      \* events and faults so far

stores   == <<bundles, last, had>>
settings == <<enabled, backend, offsite>>
age      == <<daily, due, monthlyMade, owed>>
backupVars == <<stores, settings, age, everOk, tested, shipped, job, alerted, usedUp>>

-----------------------------------------------------------------------------
Interval == {"monthly", "test", "offtest"}
Finding  == {"backup_stale", "backup_unverified"}
\* Whose steps come after this one; copied: the nightly script, whose run
\* has put a copy off the box.
Plan     == {"schedule", "timer", "copied", "page"}
Name     == Kind \X (1..MaxBundle)

Bundle == [kind : Kind, no : 1..MaxBundle, whole : BOOLEAN]

Idle == [pc |-> "idle"]

Task == [pc : {"idle"}]
       \cup [pc : {"build"}, plan : Plan, kind : Kind]
       \cup [pc : {"write", "ship", "stamp"}, plan : Plan, kind : Kind, to : Store, no : 1..MaxBundle]
       \cup [pc : {"delete"}, plan : Plan, kind : Kind, to : Store, doomed : SUBSET Name]
       \cup [pc : {"test"}, plan : Plan, what : {"main", "offbox"}]
       \cup [pc : {"get"}, plan : Plan, what : {"main", "offbox"}, from : Store, pick : SUBSET Name]
       \cup [pc : {"testdue", "offdue"}, plan : Plan \ {"page"}]

BackupTypeOK ==
    /\ bundles \in [Store -> SUBSET Bundle] /\ last \in 0..MaxBundle /\ had \subseteq Store
    /\ enabled \in BOOLEAN /\ backend \in Store /\ offsite \in BOOLEAN
    /\ daily \in {"never", "fresh", "day", "late"} /\ due \subseteq Interval
    /\ monthlyMade \in BOOLEAN /\ owed \in BOOLEAN /\ everOk \in BOOLEAN
    /\ tested \in [{"main", "offbox"} -> {"never", "ok", "failed"}] /\ shipped \in BOOLEAN
    /\ job \in [Actor -> Task]
    /\ alerted \subseteq Finding
    /\ usedUp \in [{"event", "fault"} -> Nat]

BackupInit ==
    /\ bundles = [s \in Store |-> {}] /\ last = 0 /\ had = {}
    /\ enabled = TRUE /\ backend = "local" /\ offsite = FALSE
    /\ daily = "never" /\ due = {} /\ monthlyMade = FALSE /\ owed = TRUE /\ everOk = FALSE
    /\ tested = [t \in {"main", "offbox"} |-> "never"] /\ shipped = FALSE
    /\ job = [p \in Actor |-> Idle]
    /\ alerted = {}
    /\ usedUp = [k \in {"event", "fault"} |-> 0]

Allowance == [event |-> MaxChanges, fault |-> MaxFailures]
Uses(k) == usedUp[k] < Allowance[k] /\ usedUp' = [usedUp EXCEPT ![k] = @ + 1]
Risk(ok) == IF ok THEN UNCHANGED usedUp ELSE Uses("fault")

Becomes(p, j) == job' = [job EXCEPT ![p] = j]

-----------------------------------------------------------------------------
(* run_backup *)

NewRun(plan, kind) == [pc |-> "build", plan |-> plan, kind |-> kind]

\* What follows a run.  The schedule counts a monthly run as the day's,
\* whatever became of it; the nightly script stops when its run failed.
RunDone(p, ok) ==
    LET j == job[p] IN
    /\ daily' = IF j.plan = "schedule" /\ j.kind = "monthly" THEN "fresh" ELSE daily
    /\ Becomes(p, IF j.plan = "schedule" \/ (j.plan \in {"timer", "copied"} /\ ok) THEN [pc |-> "testdue", plan |-> j.plan]
                  ELSE Idle)

\* No passphrase, no bucket, no room for the snapshot: the run has failed.
\* Else a file with the time in its name appears, or an upload begins.
Build(p, ok) ==
    /\ job[p].pc = "build" /\ Risk(ok)
    /\ IF ok
       THEN /\ last < MaxBundle /\ last' = last + 1
            /\ bundles' = IF backend = "local"
                          THEN [bundles EXCEPT !["local"] = @ \cup {[kind |-> job[p].kind, no |-> last', whole |-> FALSE]}]
                          ELSE bundles
            /\ Becomes(p, [pc |-> "write", plan |-> job[p].plan, kind |-> job[p].kind, to |-> backend, no |-> last'])
            /\ UNCHANGED daily
       ELSE RunDone(p, FALSE) /\ UNCHANGED <<bundles, last>>
    /\ UNCHANGED <<had, settings, due, monthlyMade, owed, everOk, tested, shipped, alerted>>

Stored(s, kind, no) ==
    [bundles EXCEPT ![s] = {b \in @ : b.no # no} \cup {[kind |-> kind, no |-> no, whole |-> TRUE]}]

\* The file that is being written was not deleted as too old meanwhile.
StillThere(p) == job[p].to = "s3" \/ \E b \in bundles["local"] : b.no = job[p].no

\* put returns and the run is recorded as ok; or it raises, and what was
\* written of a local file stays.  It also raises for a file that is gone.
Written(p, ok) ==
    /\ job[p].pc = "write" /\ Risk(ok)
    /\ IF ok /\ StillThere(p)
       THEN /\ bundles' = Stored(job[p].to, job[p].kind, job[p].no)
            /\ had' = had \cup {job[p].to} /\ everOk' = TRUE
            /\ Becomes(p, [job[p] EXCEPT !.pc = IF job[p].to = "local" /\ offsite THEN "ship" ELSE "stamp"])
            /\ UNCHANGED daily
       ELSE RunDone(p, FALSE) /\ UNCHANGED <<bundles, had, everOk>>
    /\ UNCHANGED <<last, settings, due, monthlyMade, owed, tested, shipped, alerted>>

Keys(B, kind) == {b.no : b \in {c \in B : c.kind = kind}}

MutantDoomed(B) ==
    {x \in {"daily", "monthly"} \X (1..MaxBundle) :
        x[2] \in Keys(B, x[1]) /\ Cardinality({m \in Keys(B, x[1]) : m > x[2]}) >= Keep - 1}

\* apply_retention: all but the Keep newest of a kind.
Doomed(B) ==
    {x \in {"daily", "monthly"} \X (1..MaxBundle) :
        x[2] \in Keys(B, x[1]) /\ Cardinality({m \in Keys(B, x[1]) : m > x[2]}) >= Keep}

Without(B, D) == {b \in B : <<b.kind, b.no>> \notin D}

\* ship_offsite: upload, check of the size, the bucket's retention.  It never
\* raises; a copy may be there although the check failed.
ShipOffsite(p, landed, checked) ==
    LET stored == Stored("s3", job[p].kind, job[p].no)
        swept  == [stored EXCEPT !["s3"] = Without(@, Doomed(@))]
    IN
    /\ job[p].pc = "ship" /\ Risk(landed /\ checked)
    /\ bundles' = IF ~landed THEN bundles ELSE IF checked THEN swept ELSE stored
    /\ had' = IF landed THEN had \cup {"s3"} ELSE had
    /\ shipped' = (shipped \/ (landed /\ checked))
    /\ Becomes(p, [job[p] EXCEPT !.pc = "stamp",
                                  !.plan = IF @ = "timer" /\ landed /\ checked THEN "copied" ELSE @])
    /\ UNCHANGED <<last, settings, age, everOk, tested, alerted>>

\* The time is noted and the store is listed ...
Stamp(p) ==
    /\ job[p].pc = "stamp"
    /\ daily' = IF job[p].kind = "daily" THEN "fresh" ELSE daily
    /\ due' = due \ {job[p].kind}
    /\ monthlyMade' = (monthlyMade \/ job[p].kind = "monthly")
    /\ owed' = (owed /\ job[p].kind = "manual")
    /\ Becomes(p, [pc |-> "delete", plan |-> job[p].plan, kind |-> job[p].kind, to |-> job[p].to,
                   doomed |-> Doomed(bundles[job[p].to])])
    /\ UNCHANGED <<stores, settings, everOk, tested, shipped, alerted, usedUp>>

\* ... then what was found too old is deleted.
Sweep(p) ==
    /\ job[p].pc = "delete"
    /\ bundles' = [bundles EXCEPT ![job[p].to] = Without(@, job[p].doomed)]
    /\ RunDone(p, TRUE)
    /\ UNCHANGED <<last, had, settings, due, monthlyMade, owed, everOk, tested, shipped, alerted, usedUp>>

-----------------------------------------------------------------------------
(* restore_test *)

NewTest(plan, what) == [pc |-> "test", plan |-> plan, what |-> what]

Prefix == [k \in Kind |-> CASE k = "daily" -> 1 [] k = "manual" -> 2 [] k = "monthly" -> 3]

\* max() of the names, if there are any: the prefix comes before the time.
Latest(B) ==
    {x \in {<<b.kind, b.no>> : b \in B} :
        \A b \in B : Prefix[b.kind] < Prefix[x[1]] \/ (b.kind = x[1] /\ b.no <= x[2])}

TestList(p) ==
    LET s == IF job[p].what = "main" THEN backend ELSE "s3" IN
    /\ job[p].pc = "test"
    /\ Becomes(p, [pc |-> "get", plan |-> job[p].plan, what |-> job[p].what, from |-> s, pick |-> Latest(bundles[s])])
    /\ UNCHANGED <<stores, settings, age, everOk, tested, shipped, alerted, usedUp>>

TestedAs(p, verdict) == [tested EXCEPT ![job[p].what] = verdict]

\* The nightly script goes on to the off-box copy only after a good test, and
\* if its run made one.
AfterTest(p, good) ==
    IF job[p].what = "main" /\ (job[p].plan = "schedule" \/ (job[p].plan = "copied" /\ good))
    THEN [pc |-> "offdue", plan |-> job[p].plan] ELSE Idle

Restorable(p) == \E b \in bundles[job[p].from] : <<b.kind, b.no>> \in job[p].pick /\ b.whole

MutantTestGet(p, ok) ==
    /\ job[p].pc = "get" /\ Risk(ok)
    /\ tested' = IF ok /\ Restorable(p) THEN TestedAs(p, "ok") ELSE tested
    /\ due' = IF ok /\ Restorable(p) THEN due \ {IF job[p].what = "main" THEN "test" ELSE "offtest"} ELSE due
    /\ Becomes(p, AfterTest(p, ok /\ Restorable(p)))
    /\ UNCHANGED <<stores, settings, daily, monthlyMade, owed, everOk, shipped, alerted>>

\* Fetched, decrypted and checked: a bundle that is gone by now, or was not
\* whole, fails.  The time of the test is noted in either case.
TestGet(p, ok) ==
    /\ job[p].pc = "get" /\ Risk(ok)
    /\ tested' = TestedAs(p, IF ok /\ Restorable(p) THEN "ok" ELSE "failed")
    /\ due' = due \ {IF job[p].what = "main" THEN "test" ELSE "offtest"}
    /\ Becomes(p, AfterTest(p, ok /\ Restorable(p)))
    /\ UNCHANGED <<stores, settings, daily, monthlyMade, owed, everOk, shipped, alerted>>

-----------------------------------------------------------------------------
(* Who calls them *)

\* hygiene.findings: freshness is judged once a backup was made.
Findings == (IF daily = "late" THEN {"backup_stale"} ELSE {})
            \cup (IF tested["main"] = "failed" THEN {"backup_unverified"} ELSE {})

\* A day since the last one, or none yet.
DailyDue == daily # "fresh"

\* The poller's hour: check_and_alert tells new findings and the ones that
\* went, then maybe_run_scheduled.
Hourly ==
    /\ job[Poller] = Idle
    /\ alerted' = Findings
    /\ Becomes(Poller, CASE ~enabled -> Idle
                         [] enabled /\ "monthly" \in due -> NewRun("schedule", "monthly")
                         [] enabled /\ "monthly" \notin due /\ DailyDue -> NewRun("schedule", "daily")
                         [] OTHER -> [pc |-> "testdue", plan |-> "schedule"])
    /\ UNCHANGED <<stores, settings, age, everOk, tested, shipped, usedUp>>

TestIsDue == IF tested["main"] = "never" THEN everOk ELSE "test" \in due

\* The nightly script tests every time.
TestDue(p) ==
    /\ job[p].pc = "testdue"
    /\ Becomes(p, IF job[p].plan # "schedule" \/ TestIsDue THEN NewTest(job[p].plan, "main")
                  ELSE [pc |-> "offdue", plan |-> job[p].plan])
    /\ UNCHANGED <<stores, settings, age, everOk, tested, shipped, alerted, usedUp>>

OffsiteDue == offsite /\ shipped /\ (tested["offbox"] = "never" \/ "offtest" \in due)

OffDue(p) ==
    /\ job[p].pc = "offdue"
    /\ Becomes(p, IF OffsiteDue THEN NewTest(job[p].plan, "offbox") ELSE Idle)
    /\ UNCHANGED <<stores, settings, age, everOk, tested, shipped, alerted, usedUp>>

\* The systemd timer, and the buttons of the page.
Asked(j) ==
    /\ job[Other] = Idle /\ Uses("event")
    /\ Becomes(Other, j)
    /\ UNCHANGED <<stores, settings, age, everOk, tested, shipped, alerted>>

TimerFires      == Asked(NewRun("timer", "daily"))
PageRuns(kind)  == Asked(NewRun("page", kind))
PageTests(what) == (what = "offbox" => offsite) /\ Asked(NewTest("page", what))

SaveSettings(e, b, o) ==
    /\ Uses("event") /\ <<e, b, o>> # settings
    /\ enabled' = e /\ backend' = b /\ offsite' = o
    /\ UNCHANGED <<stores, age, everOk, tested, shipped, job, alerted>>

\* A process stops; a run that was writing leaves a part of its file.
Stops(p) ==
    /\ Uses("fault") /\ job[p] # Idle
    /\ Becomes(p, Idle)
    /\ UNCHANGED <<stores, settings, age, everOk, tested, shipped, alerted>>

\* A day, the hours hygiene allows, a month or a week since the last one.
DayPasses ==
    /\ Uses("event")
    /\ \/ daily = "fresh" /\ daily' = "day"
       \/ daily = "day" /\ daily' = "late"
    /\ owed' = TRUE
    /\ UNCHANGED <<stores, settings, due, monthlyMade, everOk, tested, shipped, job, alerted>>

TimePasses(i) ==
    /\ Uses("event") /\ i \notin due
    /\ due' = due \cup {i}
    /\ UNCHANGED <<stores, settings, daily, monthlyMade, owed, everOk, tested, shipped, job, alerted>>

\* The first monthly bundle is due on the first of a month only.
FirstEnds ==
    /\ Uses("event") /\ "monthly" \in due /\ ~monthlyMade
    /\ due' = due \ {"monthly"}
    /\ UNCHANGED <<stores, settings, daily, monthlyMade, owed, everOk, tested, shipped, job, alerted>>

-----------------------------------------------------------------------------
Go(p) ==
    \/ \E ok \in BOOLEAN : Build(p, ok) \/ Written(p, ok) \/ TestGet(p, ok)
    \/ \E l, c \in BOOLEAN : ShipOffsite(p, l, c)
    \/ Stamp(p) \/ Sweep(p) \/ TestList(p) \/ TestDue(p) \/ OffDue(p)

BackupNext ==
    \/ \E p \in Actor : Go(p) \/ Stops(p)
    \/ Hourly \/ TimerFires \/ (\E k \in Kind : PageRuns(k)) \/ (\E w \in {"main", "offbox"} : PageTests(w))
    \/ \E e, o \in BOOLEAN, b \in Store : SaveSettings(e, b, o)
    \/ DayPasses \/ FirstEnds \/ \E i \in Interval : TimePasses(i)

BackupSpec == BackupInit /\ [][BackupNext]_backupVars

\* The poller's hour comes round, and a thread goes on with what it does.
BackupFairSpec == BackupSpec /\ WF_backupVars(Hourly) /\ \A p \in Actor : WF_backupVars(Go(p))

-----------------------------------------------------------------------------
\* apply_retention: a store that ever had a whole bundle has one, however
\* runs overlap with the deletions of others, as long as fewer than Keep of
\* its files are halves that crashed, failed or running writes left.
WholeKept ==
    \A s \in had : \/ \E b \in bundles[s] : b.whole
                  \/ Cardinality({b \in bundles[s] : ~b.whole}) >= Keep

\* A monthly run that failed counts as the day's, and is not due any more.
Skipped == daily = "fresh" /\ "monthly" \notin due

\* maybe_run_scheduled: a backup that is due is made, failures and stopped
\* processes notwithstanding, unless the schedule is switched off.  A failed
\* monthly run stamps the day as done, but stays due itself and is tried again
\* (the very first one only until the first of the month is over).
DueIsMade ==
    (owed /\ enabled) ~> (~owed \/ ~enabled \/ last = MaxBundle \/ Skipped)

\* The weekly restore test is made; a failing one does not block the next.
TestIsMade == (TestIsDue /\ enabled) ~> (~TestIsDue \/ ~enabled \/ last = MaxBundle)

\* hygiene.check_and_alert: a stale backup or a failed restore test is told,
\* unless it is mended first.
ProblemTold ==
    \A f \in Finding : (f \in Findings) ~> (f \in alerted \/ f \notin Findings \/ last = MaxBundle)

\* The stores: of their types, and never without what they promise.
StoresSound == BackupTypeOK /\ WholeKept

\* What the schedule owes is done and what goes wrong is told.
ScheduleKept == DueIsMade /\ TestIsMade /\ ProblemTold
=============================================================================
