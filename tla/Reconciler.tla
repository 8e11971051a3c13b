----------------------------- MODULE Reconciler -----------------------------
(***************************************************************************)
(* reconciler.run_once and the address-list adapters it drives.            *)
(*                                                                         *)
(* A run is started by the poller thread (Poller) or by a web worker that  *)
(* serves POST /api/sync/run (any other member of Runner); nothing keeps   *)
(* two runs apart.  A run reads the desired set and the enabled targets    *)
(* once, then one worker thread per target takes a snapshot, diffs it,     *)
(* and sends the adds and removes of its batch one at a time.  Meanwhile   *)
(* the mirror changes, the operator edits settings, targets and the        *)
(* router's list, calls fail, and the service is restarted.                *)
(***************************************************************************)
EXTENDS Reconcile

CONSTANTS
    Target,         \* rows that bouncer_targets may hold
    Runner,         \* threads that may be inside run_once
    Poller,         \* the poller's thread
    BatchCap,       \* batch_cap: adds, and removes, per target and run
    Keep,           \* texts that pass a target's origin/source/scenario filters
    MaxEntries,     \* max_entries of a target's config, 0 when unset
    Age,            \* order of lapi_id, newest first
    DryBoot,        \* DRY_RUN as read from .env when the process started
    MaxId,          \* bound: entries a router accepts over the whole behaviour
    MaxEdits,       \* bound: operator edits of the routers' lists
    MaxChanges,     \* bound: changes of the mirror, the settings, the targets
    MaxFaults       \* bound: failed calls and restarts

ASSUME TargetAssumption ==
    /\ Keep \in [Target -> SUBSET Text]
    /\ MaxEntries \in [Target -> Nat]
    /\ Age \in [Text -> Nat]

ASSUME BoundAssumption ==
    /\ Poller \in Runner
    /\ BatchCap \in Nat \ {0}
    /\ DryBoot \in BOOLEAN
    /\ {MaxId, MaxEdits, MaxChanges, MaxFaults} \subseteq Nat

VARIABLES
    desired,    \* what _desired_from_db would return now
    dryNow,     \* settings.dry_run
    pollerDry,  \* Poller.dry_run
    rows,       \* enabled rows of bouncer_targets
    rowDry,     \* targets whose row says dry_run = 1
    list,       \* the entries on each target's list
    nextId,     \* the id the next entry gets
    run,        \* what each run_once call holds in its locals
    work,       \* what each per-target worker holds in its locals
    unlogged,   \* writes of a run that mt_pushes does not show
    lastSync,   \* targets.last_sync: what the size shown for a list rests on
    raised,     \* runners whose last run_once raised instead of returning
    edits, changes, faults

vars == <<desired, dryNow, pollerDry, rows, rowDry, list, nextId, run, work,
          unlogged, lastSync, raised, edits, changes, faults>>

routers  == <<list, nextId, edits>>
config   == <<dryNow, rows, rowDry>>
results  == <<lastSync, raised>>

-----------------------------------------------------------------------------
(* Types *)

\* A write that reached a router: an address added or an id removed.
Write == [add : Text] \cup [remove : Nat]

Idle == [phase |-> "idle", desired |-> {}, dry |-> TRUE, live |-> FALSE]

\* phase "pull" is the part of Poller.tick before it calls run_once.  live
\* records whether dry-run was off at some point since the run was asked for.
RunState ==
    [phase : {"idle", "pull", "run"}, desired : SUBSET Text, dry : BOOLEAN, live : BOOLEAN]

Off == [pc |-> "off", snap |-> "none", adds |-> {}, rems |-> {}, log |-> {}, dry |-> FALSE]

\* snap tells what really happened to the snapshot; the code sees "clean" and
\* "swallowed" alike (snapshot_ok), and takes the size of either.  dry records
\* the row's flag when the run loaded its targets.
WorkState ==
    [pc : {"off", "snap", "decide", "apply", "done"},
     snap : {"none", "clean", "swallowed", "raised"},
     adds : SUBSET Text, rems : SUBSET Nat, log : SUBSET Write, dry : BOOLEAN]

TypeOK ==
    /\ desired \in SUBSET Text
    /\ dryNow \in BOOLEAN /\ pollerDry \in BOOLEAN
    /\ rows \in SUBSET Target /\ rowDry \in SUBSET Target
    /\ list \in [Target -> SUBSET Entry]
    /\ nextId \in Nat
    /\ run \in [Runner -> RunState]
    /\ work \in [Runner -> [Target -> WorkState]]
    /\ unlogged \in [Runner -> SUBSET Write]
    /\ lastSync \in [Target -> {"none", "clean", "swallowed"}]
    /\ raised \in SUBSET Runner
    /\ edits \in Nat /\ changes \in Nat /\ faults \in Nat

-----------------------------------------------------------------------------
(* Per-target desired set *)

\* _filter_desired_for_bouncer: the target's filters, then the newest
\* max_entries of what is left.
Kept(t, D) == D \cap Keep[t]

Overflows(t, D) == MaxEntries[t] > 0 /\ Cardinality(Kept(t, D)) > MaxEntries[t]

Wanted(t, D) ==
    IF Overflows(t, D) THEN First(Kept(t, D), MaxEntries[t], LAMBDA x : Age[x])
                       ELSE Kept(t, D)

\* Position in the list handed to reconcile(): sorting by lapi_id happens
\* only when max_entries cuts.
Place(t, D, x) == IF Overflows(t, D) THEN Age[x] ELSE Rank[x]

\* Mutant: the cap is applied to the wanted texts, before the diff.
AddBatchSlicedFirst(t, D, L) ==
    ToAdd(First(Wanted(t, D), BatchCap, LAMBDA x : Place(t, D, x)), L)

AddBatch(t, D, L) ==
    First(ToAdd(Wanted(t, D), L), BatchCap, LAMBDA x : Place(t, D, x))

\* Mutant: removals get what the adds leave of the batch.
RemoveBatchLeftover(t, D, L) ==
    First(ToRemove(Wanted(t, D), L), BatchCap - Cardinality(AddBatch(t, D, L)),
          LAMBDA i : Slot(L, i))

\* Removals have a budget of their own (diff.to_remove[:batch_cap]).
RemoveBatch(t, D, L) ==
    First(ToRemove(Wanted(t, D), L), BatchCap, LAMBDA i : Slot(L, i))

-----------------------------------------------------------------------------
(* A run *)

\* Mutant: the knobs are read only when the process starts.
TickStartBootKnobs ==
    /\ run[Poller].phase = "idle"
    /\ run' = [run EXCEPT ![Poller] = [Idle EXCEPT !.phase = "pull", !.live = ~dryNow]]
    /\ UNCHANGED <<desired, config, pollerDry, routers, work, unlogged, results, changes, faults>>

\* Poller.tick re-reads settings.dry_run before it pulls the sources.
TickStart ==
    /\ run[Poller].phase = "idle"
    /\ pollerDry' = dryNow
    /\ run' = [run EXCEPT ![Poller] = [Idle EXCEPT !.phase = "pull", !.live = ~dryNow]]
    /\ UNCHANGED <<desired, config, routers, work, unlogged, results, changes, faults>>

\* run_once reads the desired set and the enabled targets.  With no target it
\* records a virtual diff and then trips over target_state, which only the
\* other branch binds: the call raises, and its caller stores no result.
RunStart(r, dry, live) ==
    /\ IF rows = {}
       THEN /\ run' = [run EXCEPT ![r] = Idle]
            /\ raised' = raised \cup {r}
            /\ UNCHANGED work
       ELSE /\ run' = [run EXCEPT ![r] = [phase |-> "run", desired |-> desired,
                                          dry |-> dry, live |-> live]]
            /\ work' = [work EXCEPT ![r] = [t \in Target |->
                          IF t \in rows
                          THEN [Off EXCEPT !.pc = "snap", !.dry = (t \in rowDry)]
                          ELSE Off]]
            /\ raised' = raised \ {r}
    /\ UNCHANGED <<desired, config, pollerDry, routers, unlogged, lastSync, changes, faults>>

PollerRun ==
    /\ run[Poller].phase = "pull"
    /\ RunStart(Poller, pollerDry, run[Poller].live)

\* POST /api/sync/run passes the DRY_RUN its process read at start-up, POST
\* /api/v1/sync/run the setting.
ManualFlags == {DryBoot, dryNow}

ManualRun(r) ==
    /\ r # Poller
    /\ run[r].phase = "idle"
    /\ \E dry \in ManualFlags : RunStart(r, dry, ~dryNow)

\* The worker of run r for target t goes on with the locals w.
Becomes(r, t, w) == work' = [work EXCEPT ![r][t] = w]

\* Fault: a call that fails uses up one of the behaviour's faults.
Fault == faults < MaxFaults /\ faults' = faults + 1

\* b.snapshot().  The adapters catch their own errors: a failed read yields
\* the part of the list that arrived (nothing, one address family, the first
\* pages) and still counts as a clean snapshot.  Only an adapter that lets
\* the exception out makes the reconciler see a failure, and then it goes on
\* with an empty list.
SnapshotAs(r, t, how, L) ==
    /\ work[r][t].pc = "snap"
    /\ Becomes(r, t, [work[r][t] EXCEPT !.pc = "decide", !.snap = how,
                          !.adds = AddBatch(t, run[r].desired, L),
                          !.rems = RemoveBatch(t, run[r].desired, L)])
    /\ UNCHANGED <<desired, config, pollerDry, routers, run, unlogged, results, changes>>

SnapshotClean(r, t) == SnapshotAs(r, t, "clean", list[t]) /\ UNCHANGED faults

SnapshotSwallowed(r, t) ==
    Fault /\ \E L \in SUBSET list[t] : SnapshotAs(r, t, "swallowed", L)

SnapshotRaised(r, t) == Fault /\ SnapshotAs(r, t, "raised", {})

\* b_dry: the run's flag, or the row's flag as it is now; a row that is gone
\* reads as live.
BouncerDry(r, t) == run[r].dry \/ (t \in rows /\ t \in rowDry)

Decided(r, t, w) ==
    /\ work[r][t].pc = "decide"
    /\ Becomes(r, t, w)
    /\ UNCHANGED <<desired, config, pollerDry, routers, run, unlogged, results, changes>>

SkipBatch(r, t) == Decided(r, t, [work[r][t] EXCEPT !.pc = "done", !.adds = {}, !.rems = {}])

Decide(r, t) ==
    /\ IF BouncerDry(r, t) \/ work[r][t].adds \cup work[r][t].rems = {}
       THEN SkipBatch(r, t)
       ELSE Decided(r, t, [work[r][t] EXCEPT !.pc = "apply"])
    /\ UNCHANGED faults

\* apply() raises before its first operation: connect() failed.
ConnectFails(r, t) ==
    /\ ~BouncerDry(r, t)
    /\ work[r][t].adds \cup work[r][t].rems # {}
    /\ Fault
    /\ SkipBatch(r, t)

\* The next operation of apply(): all adds in order, then all removes (whose
\* order, that of the snapshot, is left open).
NextAdd(r, t, x) ==
    /\ work[r][t].pc = "apply"
    /\ x \in work[r][t].adds
    /\ \A y \in work[r][t].adds :
          Place(t, run[r].desired, x) <= Place(t, run[r].desired, y)

NextRemove(r, t, i) ==
    /\ work[r][t].pc = "apply"
    /\ work[r][t].adds = {}
    /\ i \in work[r][t].rems

\* Whatever its outcome, an operation leaves a row in push_log.
Logged(r, t, w, adds, rems) ==
    Becomes(r, t, [work[r][t] EXCEPT !.adds = adds, !.rems = rems,
                      !.log = work[r][t].log \cup {w},
                      !.pc = IF adds \cup rems = {} THEN "done" ELSE "apply"])

AddLogged(r, t, x) ==
    Logged(r, t, [add |-> x], work[r][t].adds \ {x}, work[r][t].rems)

RemoveLogged(r, t, i) ==
    Logged(r, t, [remove |-> i], work[r][t].adds, work[r][t].rems \ {i})

Unsettled == <<desired, config, pollerDry, run, results, edits, changes>>

Present(t, x) == \E e \in list[t] : e.text = x

\* The router takes the entry.  (When the reply is lost the adapter books an
\* error for a write that landed; the row it leaves names the address all the
\* same.)
AddLands(r, t) ==
    \E x \in work[r][t].adds :
        /\ NextAdd(r, t, x)
        /\ ~Present(t, x)
        /\ nextId <= MaxId
        /\ list' = [list EXCEPT ![t] = @ \cup {[id |-> nextId, text |-> x, owned |-> TRUE]}]
        /\ nextId' = nextId + 1
        /\ unlogged' = [unlogged EXCEPT ![r] = @ \cup {[add |-> x]}]
        /\ AddLogged(r, t, x)
        /\ UNCHANGED <<faults, Unsettled>>

\* "already have such entry": counted as applied, whoever owns the entry.
AddDuplicate(r, t) ==
    \E x \in work[r][t].adds :
        /\ NextAdd(r, t, x)
        /\ Present(t, x)
        /\ AddLogged(r, t, x)
        /\ UNCHANGED <<list, nextId, unlogged, faults, Unsettled>>

\* Any other error, a full router included: booked, and the batch goes on.
AddFails(r, t) ==
    \E x \in work[r][t].adds :
        /\ NextAdd(r, t, x)
        /\ AddLogged(r, t, x)
        /\ UNCHANGED <<list, nextId, unlogged, Unsettled>>

AddRefused(r, t) == nextId > MaxId /\ AddFails(r, t) /\ UNCHANGED faults

\* Mutant: the entry is addressed by its address and not by its id.
RemoveLandsByAddress(r, t) ==
    \E i \in work[r][t].rems, e \in list[t] :
        /\ NextRemove(r, t, i)
        /\ e.id = i
        /\ list' = [list EXCEPT ![t] = {f \in @ : Norm[f.text] # Norm[e.text]}]
        /\ unlogged' = [unlogged EXCEPT ![r] = @ \cup {[remove |-> i]}]
        /\ RemoveLogged(r, t, i)
        /\ UNCHANGED <<nextId, faults, Unsettled>>

RemoveLands(r, t) ==
    \E i \in work[r][t].rems, e \in list[t] :
        /\ NextRemove(r, t, i)
        /\ e.id = i
        /\ list' = [list EXCEPT ![t] = @ \ {e}]
        /\ unlogged' = [unlogged EXCEPT ![r] = @ \cup {[remove |-> i]}]
        /\ RemoveLogged(r, t, i)
        /\ UNCHANGED <<nextId, faults, Unsettled>>

\* "no such item": somebody else removed it first.
RemoveGone(r, t) ==
    \E i \in work[r][t].rems :
        /\ NextRemove(r, t, i)
        /\ \A e \in list[t] : e.id # i
        /\ RemoveLogged(r, t, i)
        /\ UNCHANGED <<list, nextId, unlogged, faults, Unsettled>>

RemoveFails(r, t) ==
    \E i \in work[r][t].rems :
        /\ NextRemove(r, t, i)
        /\ RemoveLogged(r, t, i)
        /\ UNCHANGED <<list, nextId, unlogged, Unsettled>>

Apply(r, t) ==
    \/ AddLands(r, t)
    \/ AddDuplicate(r, t)
    \/ AddRefused(r, t)
    \/ AddFails(r, t) /\ Fault
    \/ RemoveLands(r, t)
    \/ RemoveGone(r, t)
    \/ RemoveFails(r, t) /\ Fault

\* Once every worker is done: the sync_events and mt_pushes rows and, for the
\* poller, targets.last_sync.
Workers(r) == {t \in Target : work[r][t].pc # "off"}

PushLog(r) == UNION {work[r][t].log : t \in Target}

\* Mutant: every worker's size is stored.
SnapshotOkAlways(r, t) == work[r][t].pc = "done"

SnapshotOk(r, t) == work[r][t].snap \in {"clean", "swallowed"}

\* Mutant: the run gives up on a slow worker and drops its result, while the
\* worker goes on until the pool's exit.
FinishAtTimeout(r) ==
    /\ run[r].phase = "run"
    /\ unlogged' = [unlogged EXCEPT ![r] = @ \ UNION {work[r][t].log :
                       t \in {u \in Target : work[r][u].pc = "done"}}]
    /\ run' = [run EXCEPT ![r] = Idle]
    /\ work' = [work EXCEPT ![r] = [t \in Target |-> Off]]
    /\ UNCHANGED <<desired, config, pollerDry, routers, results, changes, faults>>

AllDone(r) == run[r].phase = "run" /\ \A t \in Workers(r) : work[r][t].pc = "done"

Finish(r) ==
    /\ AllDone(r)
    /\ unlogged' = [unlogged EXCEPT ![r] = IF run[r].dry THEN @ ELSE @ \ PushLog(r)]
    /\ lastSync' = IF r = Poller
                   THEN [t \in Target |-> IF t \in Workers(r) /\ SnapshotOk(r, t)
                                          THEN work[r][t].snap ELSE lastSync[t]]
                   ELSE lastSync
    /\ run' = [run EXCEPT ![r] = Idle]
    /\ work' = [work EXCEPT ![r] = [t \in Target |-> Off]]
    /\ UNCHANGED <<desired, config, pollerDry, routers, raised, changes, faults>>

\* The database refuses those rows: the call raises, and like a crash takes
\* its push log with it.
FinishFails(r) ==
    /\ AllDone(r)
    /\ Fault
    /\ unlogged' = [unlogged EXCEPT ![r] = {}]
    /\ raised' = raised \cup {r}
    /\ run' = [run EXCEPT ![r] = Idle]
    /\ work' = [work EXCEPT ![r] = [t \in Target |-> Off]]
    /\ UNCHANGED <<desired, config, pollerDry, routers, lastSync, changes>>

-----------------------------------------------------------------------------
(* The surroundings *)

Change == changes < MaxChanges /\ changes' = changes + 1

\* The mirror, the whitelist or the approval queue changed.
DesiredChanges ==
    /\ Change
    /\ \E D \in SUBSET Text : D # desired /\ desired' = D
    /\ UNCHANGED <<config, pollerDry, routers, run, work, unlogged, results, faults>>

\* POST /settings; the worker that serves it may be the one with the poller.
SaveSettings(dry, owner) ==
    /\ Change
    /\ dryNow' = dry
    /\ pollerDry' = IF owner THEN dry ELSE pollerDry
    /\ run' = [r \in Runner |-> [run[r] EXCEPT !.live = @ \/ (run[r].phase # "idle" /\ ~dry)]]
    /\ UNCHANGED <<desired, rows, rowDry, routers, work, unlogged, results, faults>>

\* POST /bouncers/add and /bouncers/delete; a new row starts dry or live.
AddTarget(t, dry) ==
    /\ Change
    /\ t \notin rows
    /\ rows' = rows \cup {t}
    /\ rowDry' = IF dry THEN rowDry \cup {t} ELSE rowDry \ {t}
    /\ UNCHANGED <<desired, dryNow, pollerDry, routers, run, work, unlogged, results, faults>>

DeleteTarget(t) ==
    /\ Change
    /\ t \in rows
    /\ rows' = rows \ {t}
    /\ rowDry' = rowDry \ {t}
    /\ UNCHANGED <<desired, dryNow, pollerDry, routers, run, work, unlogged, results, faults>>

\* POST /bouncers/promote, or an edit that clears the row's dry_run.  A worker
\* that is running may take the new flag, so it no longer counts as dry.
PromoteTarget(t) ==
    /\ Change
    /\ t \in rows \cap rowDry
    /\ rowDry' = rowDry \ {t}
    /\ work' = [r \in Runner |-> [work[r] EXCEPT ![t] = [work[r][t] EXCEPT !.dry = FALSE]]]
    /\ UNCHANGED <<desired, dryNow, rows, pollerDry, routers, run, unlogged, results, faults>>

\* The operator's own edits on the router.  The router gives every entry an
\* id of its own and refuses a text the list already has.
Edit == edits < MaxEdits /\ edits' = edits + 1

OperatorAdds(t, x) ==
    /\ Edit
    /\ ~Present(t, x)
    /\ nextId <= MaxId
    /\ list' = [list EXCEPT ![t] = @ \cup {[id |-> nextId, text |-> x, owned |-> FALSE]}]
    /\ nextId' = nextId + 1
    /\ UNCHANGED <<desired, config, pollerDry, run, work, unlogged, results, changes, faults>>

OperatorRemoves(t, e) ==
    /\ Edit
    /\ list' = [list EXCEPT ![t] = @ \ {e}]
    /\ UNCHANGED <<desired, config, pollerDry, nextId, run, work, unlogged, results,
                   changes, faults>>

\* The service restarts: threads and their locals are gone, and with them the
\* push log of every unfinished run; the database and the routers stay.
Restart ==
    /\ Fault
    /\ run' = [r \in Runner |-> Idle]
    /\ work' = [r \in Runner |-> [t \in Target |-> Off]]
    /\ unlogged' = [r \in Runner |-> {}]
    /\ pollerDry' = DryBoot
    /\ raised' = {}
    /\ UNCHANGED <<desired, config, routers, lastSync, changes>>

-----------------------------------------------------------------------------
Init ==
    /\ desired \in SUBSET Text /\ dryNow = DryBoot /\ pollerDry = DryBoot
    /\ rows \in SUBSET Target /\ rowDry \in SUBSET rows
    /\ list = [t \in Target |-> {}] /\ nextId = 1
    /\ run = [r \in Runner |-> Idle]
    /\ work = [r \in Runner |-> [t \in Target |-> Off]]
    /\ unlogged = [r \in Runner |-> {}]
    /\ lastSync = [t \in Target |-> "none"]
    /\ raised = {}
    /\ edits = 0 /\ changes = 0 /\ faults = 0

Worker(r, t) ==
    \/ SnapshotClean(r, t) \/ SnapshotSwallowed(r, t) \/ SnapshotRaised(r, t)
    \/ Decide(r, t) \/ ConnectFails(r, t)
    \/ Apply(r, t)

Running(r) == Finish(r) \/ FinishFails(r) \/ \E t \in Target : Worker(r, t)

Operator ==
    \/ \E dry, owner \in BOOLEAN : SaveSettings(dry, owner)
    \/ \E t \in Target :
          \/ \E dry \in BOOLEAN : AddTarget(t, dry)
          \/ DeleteTarget(t) \/ PromoteTarget(t)
          \/ \E x \in Text : OperatorAdds(t, x)
          \/ \E e \in list[t] : OperatorRemoves(t, e)

Next ==
    \/ TickStart \/ PollerRun
    \/ \E r \in Runner : ManualRun(r) \/ Running(r)
    \/ DesiredChanges \/ Operator \/ Restart

Spec == Init /\ [][Next]_vars

\* The poller loops for ever, every call it makes has a timeout, and a run
\* waits for all its workers: no thread stops between two of its steps.
Fairness ==
    /\ WF_vars(TickStart) /\ WF_vars(PollerRun)
    /\ \A r \in Runner :
          /\ \A t \in Target : WF_vars(Worker(r, t))
          /\ WF_vars(Finish(r))

FairSpec == Spec /\ Fairness

-----------------------------------------------------------------------------
(* Properties *)

\* Ids identify entries and were all given out.
IdsUnique ==
    \A t \in Target : \A e \in list[t] :
        e.id < nextId /\ \A f \in list[t] : e.id = f.id => e = f

\* A worker lives only as long as its run: the pool's exit waits for it.
WorkersBelongToRuns ==
    \A r \in Runner, t \in Target : run[r].phase # "run" =>
        work[r][t].pc = "off" /\ work[r][t].adds = {} /\ work[r][t].rems = {}

\* Whatever happened since the snapshot was taken (another run, the operator,
\* a changed desired set), what a worker still has to send is justified by the
\* desired set its run read: it adds only addresses of that set, and an id it
\* will remove is an entry of Protek's whose address is not in it
\* (_run_one_bouncer applies a diff of a snapshot that may be stale).
PendingJustified ==
    \A r \in Runner, t \in Target :
        LET W == Wanted(t, run[r].desired) IN
        /\ work[r][t].adds \subseteq W
        /\ \A i \in work[r][t].rems : i < nextId
        /\ \A e \in list[t] : e.id \in work[r][t].rems =>
              e.owned /\ Norm[e.text] \notin Addrs(W)

\* Protek touches no entry of the operator's and invents no id: every step is
\* one the shared list's contract allows.
Contract == INSTANCE SharedList
    WITH Text <- Text, Target <- Target, list <- list, nextId <- nextId, edits <- edits
SharedListContract == Contract!Spec

\* No silent writes: a write that reached a router and is not in mt_pushes is
\* still in the push log of a run that has not returned, so it will be, unless
\* the process dies or the database fails first (the comment in run_once tells
\* how a timeout once lost it).
NoSilentWrites ==
    \A r \in Runner : unlogged[r] # {} =>
        run[r].phase = "run" /\ ~run[r].dry /\ unlogged[r] \subseteq PushLog(r)

\* A run asked for while dry-run was on writes nothing unless dry-run was
\* switched off in the meantime.
WritesOnlyWhenLive(R) ==
    \A r \in R : (\E t \in Target : work[r][t].pc = "apply") => run[r].live

\* Poller.tick: "the settings table is the runtime source of truth".
PollerHonoursDryRun == WritesOnlyWhenLive({Poller})

\* What the poller will be allowed to write to, once nothing changes any more.
Live(t) == t \in rows \ rowDry /\ ~dryNow

Stale(t) == {e \in Owned(list[t]) : Norm[e.text] \notin Addrs(Wanted(t, desired))}

Foreign(t) == {e \in list[t] : ~e.owned}

\* Wanted texts that neither an entry of Protek's nor one of the operator's
\* stands for.
Missing(t) ==
    {x \in Wanted(t, desired) : \A e \in list[t] :
        /\ e.owned => Norm[e.text] # Norm[x]
        /\ ~e.owned => e.text # x}

\* Wanted texts the operator's entries keep Protek from owning: they are
\* proposed again on every cycle.
Blocked(t) == {x \in ToAdd(Wanted(t, desired), list[t]) : \E e \in Foreign(t) : e.text = x}

\* Every unban reaches every live target in the end, however many adds are
\* pending (removals have their own budget), whatever calls failed on the way
\* and whatever stale runs were in flight.
UnbansReachTargets == \A t \in Target : <>[](Live(t) => Stale(t) = {})

OwnedAddrs(t) == {Norm[e.text] : e \in Owned(list[t])}

\* Every ban reaches every live target in the end, as long as the operator's
\* entries do not fill the whole batch; and a target with max_entries ends up
\* with no more addresses of Protek's than that, also when it held more
\* because a cut set arrived while it was full.
BansReachTargets ==
    \A t \in Target :
        /\ <>[](Live(t) /\ nextId <= MaxId /\ Cardinality(Blocked(t)) < BatchCap
                => Missing(t) = {})
        /\ <>[](Live(t) /\ MaxEntries[t] > 0 => Cardinality(OwnedAddrs(t)) <= MaxEntries[t])
=============================================================================
