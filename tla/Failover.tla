------------------------------ MODULE Failover ------------------------------
(***************************************************************************)
(* Two installations of Protek and one firewall they may both write to:    *)
(* the role of each (ha.py and the start of app.py), the targets that hold *)
(* a plain set of addresses (pfSense, OPNsense, ipset, Cloudflare), and    *)
(* the synthetic self-test, which writes to them past the reconciler       *)
(* (synthetic.py).                                                         *)
(*                                                                         *)
(* Every host has a database, a poller if it started one, and web workers. *)
(* A run here is what matters to a target: desired set, snapshot, apply.   *)
(* Every address in such a target counts as Protek's; in a Cloudflare list *)
(* only the marked ones do, and the others, which the diff leaves alone,   *)
(* are not part of the state here.                                         *)
(***************************************************************************)
EXTENDS Integers, FiniteSets

CONSTANTS
    Host,
    Addr,
    Synth,         \* SYNTH_IP
    Kind,          \* kinds of target: "alias" (pfSense), "entries", "chunk" (Cloudflare)
    EnvRole,       \* HA_ROLE of each host
    BatchCap,
    MaxEvents      \* bound: how many Events happen

\* Events are what comes from outside: a ban that comes or goes, a manual
\* sync, a test, a promotion or demotion, a restored database, a restart, a
\* read, a write or a process that fails.
ASSUME FailoverAssumption ==
    /\ Synth \notin Addr
    /\ Kind \subseteq {"alias", "entries", "chunk"}
    /\ EnvRole \in [Host -> {"primary", "standby", "unset"}]
    /\ BatchCap \in Nat \ {0} /\ MaxEvents \in Nat

VARIABLES
    kind,       \* of the target
    page,       \* the host whose pages are used
    rows,       \* the bans of each host's database
    synth,      \* the synthetic row of each: id 0, none
    roleDb,     \* the setting ha.role of each
    poller,     \* of each host: owner, none, respawn (its worker died), down
    told,       \* what the operator last made of the host
    quiet,      \* the host's processes started after it was told to be a standby
    alias,      \* the addresses the target holds as Protek's
    active,     \* the ones it enforces
    unapplied,  \* a call that should have activated them went wrong
    tokens,     \* of the bucket bouncer.cloudflare
    job,        \* what each actor is at
    copied,     \* a database was copied
    orphan,     \* the row is of a test cut short, was copied, or its purge failed
    used        \* events so far

vars == <<kind, page, rows, synth, roleDb, poller, told, quiet, alias, active, unapplied,
          tokens, job, copied, orphan, used>>
conf   == <<kind, page>>
dbs    == <<rows, synth, roleDb>>
target == <<alias, active, unapplied, tokens>>
roles  == <<poller, told, quiet>>

-----------------------------------------------------------------------------
Actor == Host \X {"poller", "web"}
HostOf(p) == p[1]

Entry == Addr \cup {Synth}
Idle == [pc |-> "idle"]
Step == {"snap", "push", "patch", "activate", "insert", "check", "soft", "find", "absent", "purge"}

\* phase: a run, or the half of a test that apply is called for.
Job == [pc : {"idle"}] \cup
       [pc : Step, phase : {"run", "adding", "removing"}, want : SUBSET Entry, add : SUBSET Entry,
        rem : SUBSET Entry, cur : SUBSET Entry, id : Nat, ok : BOOLEAN]

Begin(pc, phase, want, id) ==
    [pc |-> pc, phase |-> phase, want |-> want, add |-> {}, rem |-> {}, cur |-> {},
     id |-> id, ok |-> FALSE]

TypeOK ==
    /\ kind \in Kind /\ page \in Host
    /\ rows \in [Host -> SUBSET Addr]
    /\ synth \in [Host -> [id : Nat, live : BOOLEAN]]
    /\ roleDb \in [Host -> {"unset", "primary", "standby"}]
    /\ poller \in [Host -> {"owner", "none", "respawn", "down"}]
    /\ told \in [Host -> {"primary", "standby"}] /\ quiet \in [Host -> BOOLEAN]
    /\ alias \subseteq Entry /\ active \subseteq Entry
    /\ unapplied \in BOOLEAN /\ tokens \in 0..1
    /\ job \in [Actor -> Job]
    /\ copied \in BOOLEAN /\ orphan \in [Host -> BOOLEAN]
    /\ used \in 0..MaxEvents

Spend    == used < MaxEvents /\ used' = used + 1
Risk(ok) == IF ok THEN UNCHANGED used ELSE Spend

NoSynth == [id |-> 0, live |-> FALSE]
Desired(h) == rows[h] \cup (IF synth[h].live THEN {Synth} ELSE {})

MutantRole(db, h) == IF EnvRole[h] = "unset" THEN "primary" ELSE EnvRole[h]

\* The setting, else HA_ROLE, else primary.
Role(db, h) == IF db # "unset" THEN db ELSE IF EnvRole[h] = "unset" THEN "primary" ELSE EnvRole[h]

\* What a worker that starts does: a standby starts nothing, and of the
\* others the first to get the lock file polls.
Started(h) == IF Role(roleDb[h], h) = "standby" THEN "none" ELSE "owner"

Init ==
    /\ kind \in Kind /\ page \in Host
    /\ rows \in {[h \in Host |-> r] : r \in SUBSET Addr} /\ synth = [h \in Host |-> NoSynth]
    /\ roleDb = [h \in Host |-> "unset"]
    /\ poller = [h \in Host |-> IF Role("unset", h) = "standby" THEN "none" ELSE "owner"]
    /\ told = [h \in Host |-> Role("unset", h)]
    /\ quiet = [h \in Host |-> Role("unset", h) = "standby"]
    /\ alias = {} /\ active = {} /\ unapplied = FALSE /\ tokens = 1
    /\ job = [p \in Actor |-> Idle]
    /\ copied = FALSE /\ orphan = [h \in Host |-> FALSE]
    /\ used = 0

-----------------------------------------------------------------------------
(* A run of the reconciler, and apply *)

MayAct(p) == IF p[2] = "poller" THEN poller[HostOf(p)] = "owner" ELSE p[1] = page /\ poller[page] # "down"

Becomes(p, j) == job' = [job EXCEPT ![p] = j]

StartRun(p) ==
    /\ job[p] = Idle /\ MayAct(p)
    /\ IF p[2] = "poller" THEN UNCHANGED used ELSE Spend
    /\ Becomes(p, Begin("snap", "run", Desired(HostOf(p)), 0))
    /\ UNCHANGED <<conf, dbs, roles, target, copied, orphan>>

\* An adapter answers a failed read with an empty list.
Read(ok) == IF ok THEN alias ELSE {}

Batch(S) == {B \in SUBSET S : Cardinality(B) = IF Cardinality(S) > BatchCap THEN BatchCap ELSE Cardinality(S)}

\* The diff; apply is called only if there is one.
Snapshot(p, ok) ==
    /\ job[p].pc = "snap" /\ Risk(ok)
    /\ \E a \in Batch(job[p].want \ Read(ok)), r \in Batch(Read(ok) \ job[p].want) :
          Becomes(p, IF a \cup r = {} THEN Idle ELSE [job[p] EXCEPT !.pc = "push", !.want = {}, !.add = a, !.rem = r])
    /\ UNCHANGED <<conf, dbs, roles, target, copied, orphan>>

\* Where apply returns to.
Returned(p) ==
    CASE job[p].phase = "run" -> Idle
      [] job[p].phase = "adding" -> [job[p] EXCEPT !.pc = "check", !.add = {}, !.cur = {}]
      [] job[p].phase = "removing" -> [job[p] EXCEPT !.pc = "absent", !.rem = {}, !.cur = {}]

\* pfSense: the whole alias is read again ...
Reread(p, ok) ==
    /\ kind = "alias" /\ job[p].pc = "push" /\ Risk(ok)
    /\ Becomes(p, [job[p] EXCEPT !.pc = "patch", !.cur = Read(ok)])
    /\ UNCHANGED <<conf, dbs, roles, target, copied, orphan>>

MutantNewSet(j) == j.cur \cup j.add

NewSet(j) == (j.cur \cup j.add) \ j.rem

\* ... replaced ...
Patch(p, landed, answered) ==
    /\ kind = "alias" /\ job[p].pc = "patch" /\ Risk(landed /\ answered)
    /\ alias' = IF landed THEN NewSet(job[p]) ELSE alias
    /\ unapplied' = (unapplied \/ (landed /\ ~answered))
    /\ Becomes(p, IF landed /\ answered THEN [job[p] EXCEPT !.pc = "activate", !.add = {}, !.rem = {}, !.cur = {}] ELSE Returned(p))
    /\ UNCHANGED <<conf, dbs, roles, active, tokens, copied, orphan>>

\* ... and loaded.  The status of that call is not looked at.
Activate(p, ok) ==
    /\ job[p].pc = "activate" /\ Risk(ok)
    /\ IF ok THEN active' = alias /\ unapplied' = FALSE
             ELSE unapplied' = TRUE /\ UNCHANGED active
    /\ Becomes(p, Returned(p))
    /\ UNCHANGED <<conf, dbs, roles, alias, tokens, copied, orphan>>

\* What one call of the other adapters puts in and takes out.
Write(in, out) ==
    /\ alias' = (alias \cup in) \ out /\ active' = alias'
    /\ UNCHANGED unapplied

\* OPNsense and ipset: one call per address, adds first; both calls take an
\* address that is there, or is not, without complaint.
PushEntry(p, x, landed) ==
    LET j == [job[p] EXCEPT !.add = @ \ {x}, !.rem = IF job[p].add = {} THEN @ \ {x} ELSE @] IN
    /\ kind = "entries" /\ job[p].pc = "push" /\ Risk(landed)
    /\ x \in IF job[p].add = {} THEN job[p].rem ELSE job[p].add
    /\ IF landed THEN Write({x} \cap job[p].add, {x} \ job[p].add) ELSE UNCHANGED <<alias, active, unapplied>>
    /\ Becomes(p, IF j.add \cup j.rem = {} THEN Returned(p) ELSE j)
    /\ UNCHANGED <<conf, dbs, roles, tokens, copied, orphan>>

\* acquire takes one if there is one, record_429 all.
TokensAfter(how) == IF how \in {"429", "denied"} THEN 0 ELSE tokens - 1

\* Cloudflare: the adds in one call, then the removals in one, each for a
\* token of the bucket; without one the rest waits for the next run.
Chunk(p, how) ==
    LET adding == job[p].add # {}
        in  == IF adding THEN job[p].add ELSE {}
        out == IF adding THEN {} ELSE job[p].rem
    IN
    /\ kind = "chunk" /\ job[p].pc = "push"
    /\ (how = "denied") <=> (tokens = 0)
    /\ IF how \in {"ok", "denied"} THEN UNCHANGED used ELSE Spend
    /\ tokens' = TokensAfter(how)
    /\ IF how \in {"ok", "late"} THEN Write(in, out) ELSE UNCHANGED <<alias, active, unapplied>>
    /\ Becomes(p, IF adding /\ job[p].rem # {} /\ how \notin {"late", "raise"} THEN [job[p] EXCEPT !.add = {}] ELSE Returned(p))
    /\ UNCHANGED <<conf, dbs, roles, copied, orphan>>

Refill ==
    /\ tokens = 0 /\ tokens' = 1
    /\ UNCHANGED <<conf, dbs, roles, alias, active, unapplied, job, copied, orphan, used>>

-----------------------------------------------------------------------------
(* The synthetic test *)

\* _next_lapi_id, then the row is written over whatever is there.
StartTest(p) ==
    /\ job[p] = Idle /\ MayAct(p) /\ Spend
    /\ Becomes(p, Begin("insert", "adding", {}, synth[HostOf(p)].id + 1))
    /\ UNCHANGED <<conf, dbs, roles, target, copied, orphan>>

InsertSynth(p) ==
    /\ job[p].pc = "insert"
    /\ synth' = [synth EXCEPT ![HostOf(p)] = [id |-> job[p].id, live |-> TRUE]]
    /\ orphan' = [orphan EXCEPT ![HostOf(p)] = FALSE]
    /\ Becomes(p, [job[p] EXCEPT !.pc = "push", !.add = {Synth}])
    /\ UNCHANGED <<conf, rows, roleDb, roles, target, copied, used>>

\* Its two statements on the row may raise: what is left of the test is the
\* purge, and the address stays in the target for the next run to remove.
TestRaises(p) ==
    /\ job[p].pc \in {"insert", "soft"} /\ Spend
    /\ Becomes(p, [job[p] EXCEPT !.pc = "purge"])
    /\ UNCHANGED <<conf, dbs, roles, target, copied, orphan>>

CheckAdd(p, ok) ==
    /\ job[p].pc = "check" /\ Risk(ok)
    /\ Becomes(p, [job[p] EXCEPT !.pc = "soft", !.ok = Synth \in Read(ok)])
    /\ UNCHANGED <<conf, dbs, roles, target, copied, orphan>>

SoftDelete(p) ==
    LET h == HostOf(p) IN
    /\ job[p].pc = "soft"
    /\ synth' = IF synth[h].id = job[p].id THEN [synth EXCEPT ![h].live = FALSE] ELSE synth
    /\ Becomes(p, [job[p] EXCEPT !.pc = "find"])
    /\ UNCHANGED <<conf, rows, roleDb, roles, target, copied, orphan, used>>

\* The entry is looked up for its id; if it is not found there is nothing
\* to remove.
FindEntry(p, ok) ==
    /\ job[p].pc = "find" /\ Risk(ok)
    /\ Becomes(p, IF Synth \in Read(ok)
                  THEN [job[p] EXCEPT !.pc = "push", !.phase = "removing", !.add = {}, !.rem = {Synth}]
                  ELSE [job[p] EXCEPT !.pc = "absent", !.phase = "removing"])
    /\ UNCHANGED <<conf, dbs, roles, target, copied, orphan>>

CheckGone(p, ok) ==
    /\ job[p].pc = "absent" /\ Risk(ok)
    /\ Becomes(p, [job[p] EXCEPT !.pc = "purge", !.ok = @ /\ Synth \notin Read(ok)])
    /\ UNCHANGED <<conf, dbs, roles, target, copied, orphan>>

MutantPurge(p, ok) ==
    LET h == HostOf(p) IN
    /\ job[p].pc = "purge" /\ Risk(ok)
    /\ IF ok /\ job[p].ok /\ synth[h].id = job[p].id
       THEN synth' = [synth EXCEPT ![h] = NoSynth] /\ orphan' = [orphan EXCEPT ![h] = FALSE]
       ELSE UNCHANGED synth /\ orphan' = [orphan EXCEPT ![h] = @ \/ (~ok /\ synth[h].id = job[p].id)]
    /\ Becomes(p, Idle)
    /\ UNCHANGED <<conf, rows, roleDb, roles, target, copied>>

\* The row goes, unless another test numbered it anew; a DELETE that raises
\* ("synthetic purge failed") leaves it.
Purge(p, ok) ==
    LET h == HostOf(p) IN
    /\ job[p].pc = "purge" /\ Risk(ok)
    /\ IF ok /\ synth[h].id = job[p].id
       THEN synth' = [synth EXCEPT ![h] = NoSynth] /\ orphan' = [orphan EXCEPT ![h] = FALSE]
       ELSE UNCHANGED synth /\ orphan' = [orphan EXCEPT ![h] = @ \/ synth[h].id = job[p].id]
    /\ Becomes(p, Idle)
    /\ UNCHANGED <<conf, rows, roleDb, roles, target, copied>>

-----------------------------------------------------------------------------
(* Bans, roles, databases and processes *)

BanChanges(h, x) ==
    /\ Spend
    /\ rows' = [rows EXCEPT ![h] = IF x \in @ THEN @ \ {x} ELSE @ \cup {x}]
    /\ UNCHANGED <<conf, synth, roleDb, roles, target, job, copied, orphan>>

\* _promote_impl and _demote_impl, from the host's own /admin/ha; the
\* processes go on as they are.
SetRole(h, r) ==
    /\ Spend /\ poller[h] # "down" /\ told[h] # r
    /\ roleDb' = [roleDb EXCEPT ![h] = r]
    /\ told' = [told EXCEPT ![h] = r]
    /\ UNCHANGED <<conf, rows, synth, poller, quiet, target, job, copied, orphan>>

\* A host that does not poll gets the other's database, settings included.
CopyDb(from, to) ==
    /\ Spend /\ from # to /\ poller[to] \in {"none", "down"}
    /\ rows' = [rows EXCEPT ![to] = rows[from]]
    /\ synth' = [synth EXCEPT ![to] = synth[from]]
    /\ roleDb' = [roleDb EXCEPT ![to] = roleDb[from]]
    /\ copied' = TRUE
    /\ orphan' = [orphan EXCEPT ![to] = synth[from].id # 0]
    /\ UNCHANGED <<conf, roles, target, job>>

\* A process ends between two steps of what it was at.
Lost(h, actors) ==
    /\ unapplied' = (unapplied \/ \E p \in actors : job[p].pc = "activate")
    /\ job' = [p \in Actor |-> IF p \in actors THEN Idle ELSE job[p]]
    /\ orphan' = [orphan EXCEPT ![h] = @ \/ \E p \in actors : /\ job[p] # Idle /\ job[p].id # 0
                                                              /\ job[p].id = synth[h].id]

Stop(h) ==
    /\ Spend /\ poller[h] # "down"
    /\ poller' = [poller EXCEPT ![h] = "down"]
    /\ Lost(h, {p \in Actor : HostOf(p) = h})
    /\ UNCHANGED <<conf, dbs, told, quiet, alias, active, tokens, copied>>

\* The service is started again: the role is read now, and only now.
Restart(h) ==
    /\ Spend
    /\ poller' = [poller EXCEPT ![h] = Started(h)]
    /\ quiet' = [quiet EXCEPT ![h] = told[h] = "standby"]
    /\ Lost(h, {p \in Actor : HostOf(p) = h})
    /\ UNCHANGED <<conf, dbs, told, alias, active, tokens, copied>>

\* A worker dies, the poller and its lock with it if it was the owner;
\* gunicorn starts another, which reads the role again.
WorkerDies(h) ==
    /\ Spend /\ poller[h] \in {"owner", "none"}
    /\ poller' = [poller EXCEPT ![h] = "respawn"]
    /\ Lost(h, {<<h, "poller">>})
    /\ UNCHANGED <<conf, dbs, told, quiet, alias, active, tokens, copied>>

Respawn(h) ==
    /\ poller[h] = "respawn"
    /\ poller' = [poller EXCEPT ![h] = Started(h)]
    /\ quiet' = [quiet EXCEPT ![h] = told[h] = "standby"]
    /\ UNCHANGED <<conf, dbs, told, target, job, copied, orphan, used>>

-----------------------------------------------------------------------------
Go(p) ==
    \/ \E ok \in BOOLEAN : \/ Snapshot(p, ok) \/ Reread(p, ok) \/ Activate(p, ok)
                           \/ CheckAdd(p, ok) \/ FindEntry(p, ok) \/ CheckGone(p, ok)
                           \/ Purge(p, ok)
    \/ \E l, a \in BOOLEAN : Patch(p, l, a)
    \/ \E x \in Entry, l \in BOOLEAN : PushEntry(p, x, l)
    \/ \E how \in {"ok", "late", "error", "raise", "429", "denied"} : Chunk(p, how)
    \/ InsertSynth(p) \/ SoftDelete(p) \/ TestRaises(p)

Next ==
    \/ Refill
    \/ \E p \in Actor : StartRun(p) \/ StartTest(p) \/ Go(p)
    \/ \E h \in Host : \/ \E x \in Addr : BanChanges(h, x)
                       \/ \E r \in {"primary", "standby"} : SetRole(h, r)
                       \/ \E to \in Host : CopyDb(h, to)
                       \/ Stop(h) \/ Restart(h) \/ WorkerDies(h) \/ Respawn(h)

Spec == Init /\ [][Next]_vars

\* A thread goes on with what it does, the poller starts its next cycle,
\* gunicorn replaces a worker, and a bucket fills.
FairSpec ==
    /\ Spec
    /\ \A p \in Actor : WF_vars(Go(p)) /\ WF_vars(p[2] = "poller" /\ StartRun(p))
    /\ \A h \in Host : WF_vars(Respawn(h))
    /\ WF_vars(Refill)

-----------------------------------------------------------------------------
OnlyPoller(h) == \A g \in Host : poller[g] = IF g = h THEN "owner" ELSE "none"

\* Runs of two hosts and of two threads, whole-alias writes that undo each
\* other, failed reads taken for empty lists, calls that landed unanswered
\* and refused tokens are all made good: once one poller is left, and no
\* more goes wrong, the target holds what that host's database asks for.
AliasSettles == \A h \in Host : <>[]OnlyPoller(h) => <>[](alias = Desired(h))

\* pfsense_adapter.apply: what was stored is loaded too, or a call that
\* should have done so is known to have gone wrong, whoever else writes.
StagedExplained == alias # active => unapplied \/ \E p \in Actor : job[p].pc = "activate"

\* ha.py, "the poller is NOT started": a host whose operator made it a
\* standby before its processes started does not poll.  As long as no
\* database is copied: promotions, demotions and the deaths of workers, in
\* any order, start no second poller.
StandbyQuietAlone == ~copied => \A h \in Host : poller[h] = "owner" => ~quiet[h]

InTest(p) == job[p] # Idle /\ job[p].id # 0

\* run_test, "no orphans in the decisions table": when no test is under way
\* its row is gone, though two tests share one row and number it anew and
\* either may fail half-way; but for the row of a test that was cut short or
\* whose own purge failed, and one that came with a copied database.
SynthPurged ==
    \A h \in Host : synth[h].id # 0 => orphan[h] \/ \E p \in Actor : HostOf(p) = h /\ InTest(p)

\* The databases and the target stay in order through all of it.
TargetSound == TypeOK /\ StagedExplained /\ SynthPurged
=============================================================================
